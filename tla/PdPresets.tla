------------------------------ MODULE PdPresets ------------------------------
(***************************************************************************)
(* Programs and presets of the Pd external (pd/src/vstplugin~.cpp): the    *)
(* objects that have opened the same plugin share its preset list; each    *)
(* has its own instance, its current preset and its editor.  A load or a   *)
(* save runs at once, on the Pd thread, or asynchronously: then the object *)
(* is suspended (x_command), the worker thread reads or writes the file,   *)
(* and the Pd thread completes the command when it comes back.             *)
(*                                                                         *)
(* The state of a plugin instance is one value; a file holds one, too, or  *)
(* none that can be read: a save creates or truncates the file before it   *)
(* asks the plugin for its state, which may throw, and does not look at    *)
(* what became of the write.                                               *)
(* Every handler of the Pd thread is one step, and so is a command on the  *)
(* worker, which holds the object's mutex.  Without PDINSTANCE there is    *)
(* one Pd thread and the list is not locked.                               *)
(***************************************************************************)
EXTENDS PresetList

CONSTANTS Objects,      \* vstplugin~ objects with the same plugin
          Values,       \* what the state of an instance may be
          Given,        \* the names that messages give presets
          None,         \* no preset, no command (nullptr)
          Files,        \* preset files there are in the beginning
          Overlap,      \* whether presets are renamed and deleted while a save is under way
          Onto,         \* whether a preset may be renamed to a name there is already
          MaxCommands   \* bound: messages of a run

ASSUME ObjectsAssumption == /\ Given \subseteq Names
                            /\ None \notin Names \cup Values \cup {"read", "write"}
                            /\ Overlap \in BOOLEAN /\ Onto \in BOOLEAN
                            /\ MaxCommands \in Nat
                            /\ Files \subseteq Types \X Names /\ IsFiniteSet(Files)

\* no two of the names that a user's preset may have share a file
OwnFiles == \A a \in Given :
              /\ \A b \in Given : Stem[a] = Stem[b] => a = b
              /\ \A path \in Files : path[1] = User /\ path[2] = Stem[a] => path[2] = a

VARIABLES
  presets,    \* PluginInfo::presets
  files,      \* what the preset files hold: path -> value, or None if it is no preset
  state,      \* the state of each object's plugin instance
  x_preset,   \* the name of the current preset
  x_command,  \* the command that suspends the object, or None
  shown,      \* what each object's editor shows
  queue,      \* commands for the worker thread
  results,    \* commands that the worker has done
  commands,   \* messages received
  stale       \* history: objects whose plugin may have been changed by data that was
              \*   refused in the end, and whose editor was not updated since

vars == <<presets, files, state, x_preset, x_command, shown, queue, results, commands, stale>>

NewState == CHOOSE v \in Values : TRUE

Init == /\ presets \in scanPresets(Files)
        /\ files = [path \in Files |-> NewState]
        /\ state = [o \in Objects |-> NewState]
        /\ shown = state
        /\ x_preset = [o \in Objects |-> None]
        /\ x_command = [o \in Objects |-> None]
        /\ queue = <<>> /\ results = <<>>
        /\ commands = 0 /\ stale = {}

\* check_plugin, for a message that is counted
Message(o) == /\ x_command[o] = None
              /\ commands < MaxCommands /\ commands' = commands + 1

-----------------------------------------------------------------------------
(* A preset argument is an index, -1 for the current preset, or a name.    *)

Arguments == {<<"index", i>> : i \in DOMAIN presets} \cup {<<"current", 0>>}
                \cup {<<"name", name>> : name \in Given}

\* vstplugin_preset_index: the place in the list, or 0
preset_index(o, arg) ==
    CASE arg[1] = "index"   -> arg[2]
      [] arg[1] = "current" -> IF x_preset[o] = None THEN 0 ELSE findPreset(presets, x_preset[o])
      [] arg[1] = "name"    -> findPreset(presets, arg[2])

-----------------------------------------------------------------------------
(* The two halves of a command.                                            *)

\* t_preset_data, t_save_data; "type": what is read or written, "add": a new preset
Command(o, op, type, preset, add) ==
    [owner |-> o, op |-> op, type |-> type, preset |-> preset, add |-> add]

\* data that are refused change nothing, but a bank may have set some programs by then
Refused(o, bank) == \/ UNCHANGED state
                    \/ bank /\ \E value \in Values : state' = [state EXCEPT ![o] = value]

\* vstplugin_preset_read_do: the instance has the state of the file, or an Error was thrown
ReadDo(cmd, success) ==
    /\ IF success
       THEN /\ cmd.preset.path \in DOMAIN files /\ files[cmd.preset.path] # None
            /\ state' = [state EXCEPT ![cmd.owner] = files[cmd.preset.path]]
       ELSE Refused(cmd.owner, cmd.type = "program")
    /\ UNCHANGED files

\* vstplugin_preset_write_do: the file has the state of the instance or, unnoticed, is no
\* preset; an Error was thrown because it could not be created, or left it empty
WriteDo(cmd, success) ==
    /\ \/ ~success /\ UNCHANGED files
       \/ \E value \in {None} \cup (IF success THEN {state[cmd.owner]} ELSE {}) :
             files' = [path \in DOMAIN files \cup {cmd.preset.path} |->
                         IF path = cmd.preset.path THEN value ELSE files[path]]
    /\ UNCHANGED state

Do(cmd, success) == \/ cmd.op = "read"  /\ ReadDo(cmd, success)
                    \/ cmd.op = "write" /\ WriteDo(cmd, success)

\* t_vsteditor::update: ignored while the object is suspended
update(o, command, now) == [shown EXCEPT ![o] = IF command[o] = None THEN now[o] ELSE @]

Resumed(o) == [x_command EXCEPT ![o] = None]

\* a faulty variant: the editor is updated before the command has ended
ReadDoneEarly(cmd, now) ==
    /\ shown' = update(cmd.owner, x_command, now)
    /\ stale' = stale \ {cmd.owner}
    /\ x_command' = Resumed(cmd.owner)
    /\ UNCHANGED <<presets, x_preset>>

\* vstplugin_preset_read_done: the command has ended, *now* update
ReadDone(cmd, now) ==
    /\ x_command' = Resumed(cmd.owner)
    /\ shown' = update(cmd.owner, x_command', now)
    /\ stale' = stale \ {cmd.owner}
    /\ UNCHANGED <<presets, x_preset>>

\* vstplugin_preset_write_done: a preset that was saved is the current one
WriteDone(cmd, success) ==
    /\ x_command' = Resumed(cmd.owner)
    /\ IF cmd.type = "preset" /\ success
       THEN /\ x_preset' = [x_preset EXCEPT ![cmd.owner] = cmd.preset.name]
            /\ presets' = IF cmd.add THEN addPreset(presets, cmd.preset) ELSE presets
       ELSE UNCHANGED <<presets, x_preset>>
    /\ UNCHANGED <<shown, stale>>

Done(cmd, success, now) == \/ cmd.op = "read"  /\ ReadDone(cmd, now)
                           \/ cmd.op = "write" /\ WriteDone(cmd, success)

\* a file there is can be read, or turns out to be no preset; one there is not, cannot
Perform(cmd) == \E success \in BOOLEAN :
                    /\ Do(cmd, success)
                    /\ Done(cmd, success, state')
                    /\ UNCHANGED <<queue, results>>

\* the command is pushed to the worker, and suspends the object
Send(cmd) == /\ queue' = Append(queue, cmd)
             /\ x_command' = [x_command EXCEPT ![cmd.owner] = cmd.op]
             /\ UNCHANGED <<files, state, shown, presets, results, stale>>

-----------------------------------------------------------------------------
(* Messages to an object.                                                  *)

\* program_data_set, bank_data_set: the editor is updated unless the data are refused
vstplugin_preset_data_set(o) ==
    /\ Message(o)
    /\ \/ /\ \E value \in Values : state' = [state EXCEPT ![o] = value]
          /\ shown' = update(o, x_command, state')
          /\ stale' = stale \ {o}
       \/ /\ Refused(o, TRUE)
          /\ stale' = stale \cup {o}
          /\ UNCHANGED shown
    /\ UNCHANGED <<presets, files, x_preset, x_command, queue, results>>

\* program_read, program_write and the bank versions: a file of the user's, not in the list
SomeFile == [name |-> None, path |-> <<"canvas", None>>, type |-> User]
vstplugin_preset_file(o) ==
    /\ Message(o)
    /\ \E op \in {"read", "write"} :
          LET cmd == Command(o, op, "program", SomeFile, FALSE)
          IN  Perform(cmd) \/ (Send(cmd) /\ UNCHANGED x_preset)

\* the current preset is set before it is known whether the file can be read
vstplugin_preset_load(o) ==
    /\ Message(o)
    /\ \E arg \in Arguments :
          LET index == preset_index(o, arg)
              cmd == Command(o, "read", "preset", presets[index], FALSE)
          IN  IF index = 0
              THEN UNCHANGED <<presets, files, state, x_preset, x_command, shown, queue, results, stale>>
              ELSE /\ x_preset' = [x_preset EXCEPT ![o] = presets[index].name]
                   /\ \/ Send(cmd)
                      \/ \E success \in BOOLEAN :
                            /\ ReadDo(cmd, success)
                            /\ shown' = update(o, x_command, state')
                            /\ stale' = stale \ {o}
                            /\ UNCHANGED <<presets, x_command, queue, results>>

\* a name that is not found makes a new preset; only an index is checked for being writeable
Target(arg, index) == IF index # 0 THEN presets[index] ELSE makePreset(arg[2])
MaySave(arg, index) == IF index = 0 THEN arg[1] = "name"
                       ELSE arg[1] = "name" \/ isUser(presets, index)
vstplugin_preset_save(o) ==
    /\ Message(o)
    /\ \E arg \in Arguments :
          LET index == preset_index(o, arg)
              cmd == Command(o, "write", "preset", Target(arg, index), index = 0)
          IN  IF MaySave(arg, index)
              THEN Perform(cmd) \/ (Send(cmd) /\ UNCHANGED x_preset)
              ELSE UNCHANGED <<presets, files, state, x_preset, x_command, shown, queue, results, stale>>

\* renaming and deleting are done at once
Saving == \E s \in ToSet(queue) \cup {r.cmd : r \in ToSet(results)} : s.op = "write"
Quiet  == Overlap \/ ~Saving

vstplugin_preset_rename(o) ==
    /\ Message(o) /\ Quiet
    /\ \E arg \in Arguments, newname \in Given :
          LET index == preset_index(o, arg)
              old == presets[index]
              new == makePreset(newname).path
          IN  /\ isUser(presets, index) /\ old.path \in DOMAIN files
              /\ Onto \/ findPreset(presets, newname) = 0
              /\ presets' \in renamed(presets, index, newname)
              /\ files' = [path \in (DOMAIN files \ {old.path}) \cup {new} |->
                             IF path = new THEN files[old.path] ELSE files[path]]
              /\ x_preset' = IF x_preset[o] = old.name THEN [x_preset EXCEPT ![o] = newname]
                             ELSE x_preset
    /\ UNCHANGED <<state, x_command, shown, queue, results, stale>>

vstplugin_preset_delete(o) ==
    /\ Message(o) /\ Quiet
    /\ \E arg \in Arguments :
          LET index == preset_index(o, arg)
              old == presets[index]
          IN  /\ isUser(presets, index) /\ old.path \in DOMAIN files
              /\ presets' = removed(presets, index)
              /\ files' = [path \in DOMAIN files \ {old.path} |-> files[path]]
              /\ x_preset' = IF x_preset[o] = old.name THEN [x_preset EXCEPT ![o] = None]
                             ELSE x_preset
    /\ UNCHANGED <<state, x_command, shown, queue, results, stale>>

-----------------------------------------------------------------------------
(* The worker thread and the Pd thread's polling of it.                    *)

WorkerDo == /\ queue # <<>>
            /\ queue' = Tail(queue)
            /\ \E success \in BOOLEAN :
                  /\ Do(Head(queue), success)
                  /\ results' = Append(results, [cmd |-> Head(queue), success |-> success])
            /\ UNCHANGED <<presets, x_preset, x_command, shown, commands, stale>>

Poll == /\ results # <<>>
        /\ results' = Tail(results)
        /\ Done(Head(results).cmd, Head(results).success, state)
        /\ UNCHANGED <<files, state, queue, commands>>

Next == \/ \E o \in Objects :
              \/ vstplugin_preset_data_set(o) \/ vstplugin_preset_file(o)
              \/ vstplugin_preset_load(o) \/ vstplugin_preset_save(o)
              \/ vstplugin_preset_rename(o) \/ vstplugin_preset_delete(o)
        \/ WorkerDo \/ Poll
Spec == Init /\ [][Next]_vars

-----------------------------------------------------------------------------
(* Properties.                                                             *)

\* The shared list and the files agree, whatever the objects save at the same time and
\* whichever saves fail: no two presets of a folder have the same name, every preset has
\* its file, and every file in the user's folder that holds a preset is listed or about to
\* be (addPreset, renamePreset, removePreset against the saves that wrote their file and
\* did not come back yet; what a save leaves that fails is no preset).
Pending == {results[i].cmd.preset.path : i \in DOMAIN results}
ListMatchesFiles ==
    /\ \A i, j \in DOMAIN presets :
          presets[i].name = presets[j].name /\ presets[i].type = presets[j].type => i = j
    /\ \A i \in DOMAIN presets : presets[i].path \in DOMAIN files
    /\ \A path \in DOMAIN files : path[1] = User /\ files[path] # None =>
          path \in Pending \/ \E i \in DOMAIN presets : presets[i].path = path

\* An object that is not suspended shows the state of its plugin, unless the last data that
\* it was given were refused: no way to end a command leaves the editor behind (update()
\* does nothing while the object is suspended; vstplugin_preset_data_set skips it when
\* readBankData throws).
EditorInSync == \A o \in Objects \ stale : x_command[o] = None => shown[o] = state[o]
=============================================================================
