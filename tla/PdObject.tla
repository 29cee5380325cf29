-------------------------------- MODULE PdObject --------------------------------
(***************************************************************************)
(* One vstplugin~ object of Pure Data (pd/src/vstplugin~.cpp): opening and *)
(* closing a plugin, on the Pd thread or by the work queue, the            *)
(* asynchronous commands that suspend the object, and perform().           *)
(*                                                                         *)
(* "reset" stands for every command that sets x_command: reset, program,   *)
(* bank and preset read and write.  They have the same shape: the work is  *)
(* done under x_mutex, the callback clears x_command.                      *)
(***************************************************************************)
EXTENDS WorkQueue, FiniteSets

CONSTANTS Plugins,    \* the plugin instances that can be created
          NoPlugin    \* a null IPlugin::ptr

ASSUME PdAssumption == NoPlugin \notin Plugins

VARIABLES
  x,         \* x_plugin, x_command, x_async, x_uithread, and whether the object
             \* has been freed
  mutex,     \* x_mutex: "free" or the thread that holds it
  pd,        \* what the Pd thread is doing
  command,   \* [Ids -> Command], the command data
  made,      \* per plugin: the thread that created it, or "no"
  ended,     \* per plugin: the thread that destroyed it, or "no"
  crashed,   \* the work queue used a freed object, a null plugin or a destroyed one
  target     \* history: the plugin that the command under way was sent for, or
             \* NoPlugin if an open was under way then

vars == <<queue, x, mutex, pd, command, made, ended, crashed, target>>

Command == [op : {"none", "open", "close", "reset"}, editor : BOOLEAN,
            plugin : Plugins \cup {NoPlugin}]
NoCommand == [op |-> "none", editor |-> FALSE, plugin |-> NoPlugin]

TypeOK ==
  /\ QueueTypeOK
  /\ x \in [plugin : Plugins \cup {NoPlugin}, command : Ids \cup {-1},
            async : BOOLEAN, uithread : BOOLEAN, freed : BOOLEAN]
  /\ mutex \in {"free", "pd", "worker"}
  /\ pd \in {"idle", "open", "perform"}
  /\ command \in [Ids -> Command]
  /\ made \in [Plugins -> {"no", "pd", "worker", "ui"}]
  /\ ended \in [Plugins -> {"no", "pd", "worker", "ui"}]
  /\ crashed \in BOOLEAN
  /\ target \in Plugins \cup {NoPlugin}

Init ==
  /\ QueueInit
  /\ x = [plugin |-> NoPlugin, command |-> -1, async |-> FALSE,
          uithread |-> FALSE, freed |-> FALSE]
  /\ mutex = "free"
  /\ pd = "idle"
  /\ command = [i \in Ids |-> NoCommand]
  /\ made = [p \in Plugins |-> "no"]
  /\ ended = [p \in Plugins |-> "no"]
  /\ crashed = FALSE
  /\ target = NoPlugin

--------------------------------------------------------------------------------
(* Helpers *)

PdReady == pd = "idle" /\ ~crashed /\ ~x.freed

\* check_plugin()
Check == x.plugin # NoPlugin /\ x.command < 0

\* a plugin goes, on thread t or, if uithread, on the UI thread
Release(p, uithread, t) == [ended EXCEPT ![p] = IF uithread THEN "ui" ELSE t]

\* plugins that can still be created
Fresh == {p \in Plugins : made[p] = "no"}

\* the opens under way
Opening == {i \in InFlight : command[i].op = "open"}

\* the command data of the item that is pushed now
Posted(c) == command' = [command EXCEPT ![counter] = c]

\* vstplugin_close(), where and how the last open message said
CloseAsync == /\ Push(FALSE)
              /\ Posted([op |-> "close", editor |-> x.uithread,
                         plugin |-> x.plugin])
              /\ UNCHANGED ended
CloseInline == /\ ended' = Release(x.plugin, x.uithread, "pd")
               /\ UNCHANGED <<queue, command>>

\* x_plugin becomes p; an assignment destroys what it held, on the Pd thread
Assign(p) == /\ x' = [x EXCEPT !.plugin = p]
             /\ ended' = IF x.plugin = NoPlugin THEN ended
                         ELSE Release(x.plugin, FALSE, "pd")

--------------------------------------------------------------------------------
(* The Pd thread: messages *)

\* Faulty: a suspended plugin is closed all the same.
CloseUnchecked ==
  /\ PdReady /\ x.plugin # NoPlugin
  /\ IF x.async THEN CloseAsync ELSE CloseInline
  /\ x' = [x EXCEPT !.plugin = NoPlugin]
  /\ pd' \in {"idle", "open"}
  /\ UNCHANGED <<mutex, made, crashed, target>>

\* Faulty: x_plugin still points to what was handed over.
CloseKeepPointer ==
  /\ PdReady /\ Check
  /\ IF x.async THEN CloseAsync ELSE CloseInline
  /\ pd' \in {"idle", "open"}
  /\ UNCHANGED <<x, mutex, made, crashed, target>>

\* close, or the first half of open
Close ==
  /\ PdReady /\ Check
  /\ IF x.async THEN CloseAsync ELSE CloseInline
  /\ x' = [x EXCEPT !.plugin = NoPlugin]
  /\ pd' \in {"idle", "open"}
  /\ UNCHANGED <<mutex, made, crashed, target>>

\* open is refused while a command runs, and begins by closing what is open
OpenReady == /\ ~crashed
             /\ \/ pd = "open"
                \/ PdReady /\ x.plugin = NoPlugin /\ x.command < 0
             /\ pd' = "idle"

\* the plugin is created right here, if it can be
OpenInline(editor) ==
  /\ OpenReady
  /\ \/ \E p \in Fresh :
          /\ made' = [made EXCEPT ![p] = IF editor THEN "ui" ELSE "pd"]
          /\ x' = [x EXCEPT !.plugin = p, !.async = FALSE, !.uithread = editor]
     \/ /\ x' = [x EXCEPT !.async = FALSE, !.uithread = editor]
        /\ UNCHANGED made
  /\ UNCHANGED <<queue, mutex, command, ended, crashed, target>>

\* x_command is not set: the object is not suspended meanwhile
OpenAsync(editor) ==
  /\ OpenReady
  /\ Push(TRUE)
  /\ Posted([op |-> "open", editor |-> editor, plugin |-> NoPlugin])
  /\ x' = [x EXCEPT !.async = TRUE, !.uithread = editor]
  /\ UNCHANGED <<mutex, made, ended, crashed, target>>

\* Faulty: a command is accepted while another one runs.
ResetAgain ==
  /\ PdReady /\ x.plugin # NoPlugin
  /\ Push(TRUE)
  /\ Posted([op |-> "reset", editor |-> FALSE, plugin |-> NoPlugin])
  /\ x' = [x EXCEPT !.command = counter]
  /\ target' = IF Opening = {} THEN x.plugin ELSE NoPlugin
  /\ UNCHANGED <<mutex, pd, made, ended, crashed>>

\* an asynchronous command suspends the object until it is polled
Reset ==
  /\ PdReady /\ Check
  /\ Push(TRUE)
  /\ Posted([op |-> "reset", editor |-> FALSE, plugin |-> NoPlugin])
  /\ x' = [x EXCEPT !.command = counter]
  /\ target' = IF Opening = {} THEN x.plugin ELSE NoPlugin
  /\ UNCHANGED <<mutex, pd, made, ended, crashed>>

\* ~t_vstplugin: close, which is refused while a command runs, then cancel; a
\* plugin that is still there goes with the object, on the Pd thread, even if the
\* worker is inside of it
Free ==
  /\ PdReady
  /\ \/ /\ x.command >= 0
        /\ Cancel(x.command)
        /\ ended' = IF x.plugin = NoPlugin THEN ended
                    ELSE Release(x.plugin, FALSE, "pd")
        /\ UNCHANGED command
     \/ /\ x.command < 0 /\ x.plugin = NoPlugin
        /\ UNCHANGED <<queue, ended, command>>
     \/ /\ Check
        /\ IF x.async THEN CloseAsync ELSE CloseInline
  /\ x' = [x EXCEPT !.plugin = NoPlugin, !.freed = TRUE]
  /\ crashed' = (worker = "busy")
  /\ UNCHANGED <<mutex, pd, made, target>>

--------------------------------------------------------------------------------
(* The Pd thread: perform() *)

\* Faulty: perform() does not take the mutex.
PerformNoLock ==
  /\ PdReady /\ x.plugin # NoPlugin
  /\ pd' = "perform"
  /\ UNCHANGED <<queue, x, mutex, command, made, ended, crashed, target>>

\* a suspended plugin is processed only if try_lock succeeds, else bypassed
Perform ==
  /\ PdReady /\ x.plugin # NoPlugin
  /\ IF x.command >= 0 THEN mutex = "free" /\ mutex' = "pd" ELSE UNCHANGED mutex
  /\ pd' = "perform"
  /\ UNCHANGED <<queue, x, command, made, ended, crashed, target>>

\* Faulty: perform() does not give the mutex back.
PerformEndLocked ==
  /\ ~crashed /\ pd = "perform"
  /\ pd' = "idle"
  /\ UNCHANGED <<queue, x, mutex, command, made, ended, crashed, target>>

PerformEnd ==
  /\ ~crashed /\ pd = "perform"
  /\ pd' = "idle"
  /\ mutex' = IF x.command >= 0 THEN "free" ELSE mutex
  /\ UNCHANGED <<queue, x, command, made, ended, crashed, target>>

--------------------------------------------------------------------------------
(* The Pd thread: the clock polls the queue, also after the object is gone *)

\* the finished item that is polled next, and whose callback will run
Polled == First(rt)
Polling(op) == /\ ~crashed /\ pd = "idle"
               /\ Poll
               /\ Polled.cb /\ command[Polled.id].op = op
\* cleanup(data), after the callback
Cleaned == command' = [command EXCEPT ![Polled.id] = NoCommand]

\* vstplugin_open_done(): x_plugin is assigned whatever it holds by now, also a
\* plugin that the worker is inside of
PollOpen ==
  /\ Polling("open")
  /\ LET p == command[Polled.id].plugin IN
     IF p = NoPlugin \/ x.freed
       THEN crashed' = x.freed /\ UNCHANGED <<x, ended>>
       ELSE crashed' = (worker = "busy") /\ Assign(p)
  /\ Cleaned
  /\ UNCHANGED <<mutex, pd, made, target>>

PollReset ==
  /\ Polling("reset")
  /\ crashed' = x.freed
  /\ x' = IF x.freed THEN x ELSE [x EXCEPT !.command = -1]
  /\ Cleaned
  /\ UNCHANGED <<mutex, pd, made, ended, target>>

\* no callback: a close, or a command that was cancelled
PollSilent ==
  /\ ~crashed /\ pd = "idle"
  /\ Poll
  /\ ~Polled.cb
  /\ Cleaned
  /\ UNCHANGED <<x, mutex, pd, made, ended, crashed, target>>

--------------------------------------------------------------------------------
(* The worker *)

Working(op) == ~crashed /\ worker = "work" /\ command[item.id].op = op

\* vstplugin_open_do(): creates the plugin, if it can, and sets it up under the
\* object's mutex
WorkOpen ==
  /\ Working("open")
  /\ \/ /\ x.freed
        /\ crashed' = TRUE
        /\ UNCHANGED <<queue, command, made>>
     \/ /\ ~x.freed
        /\ Performed
        /\ \/ \E p \in Fresh :
                /\ mutex = "free"
                /\ made' = [made EXCEPT ![p] = IF command[item.id].editor
                                               THEN "ui" ELSE "worker"]
                /\ command' = [command EXCEPT ![item.id].plugin = p]
           \/ UNCHANGED <<made, command>>
        /\ UNCHANGED crashed
  /\ UNCHANGED <<x, mutex, pd, ended, target>>

\* vstplugin_close_do(): does not touch the object
WorkClose ==
  /\ Working("close")
  /\ Performed
  /\ LET c == command[item.id] IN
     /\ ended' = Release(c.plugin, c.editor, "worker")
     /\ command' = [command EXCEPT ![item.id].plugin = NoPlugin]
  /\ UNCHANGED <<x, mutex, pd, made, crashed, target>>

\* reset, read and write are inside owner->x_plugin and hold x_mutex meanwhile
WorkBegin ==
  /\ Working("reset")
  /\ \/ /\ x.freed \/ x.plugin = NoPlugin
        /\ crashed' = TRUE
        /\ UNCHANGED <<worker, mutex>>
     \/ /\ ~x.freed /\ x.plugin # NoPlugin
        /\ mutex = "free" /\ mutex' = "worker"
        /\ worker' = "busy"
        /\ UNCHANGED crashed
  /\ UNCHANGED <<nrt, nrt2, rt, counter, item, source>>
  /\ UNCHANGED <<x, pd, command, made, ended, target>>

WorkEnd ==
  /\ ~crashed /\ worker = "busy"
  /\ Performed
  /\ mutex' = "free"
  /\ UNCHANGED <<x, pd, command, made, ended, crashed, target>>

QueueStep == /\ ~crashed
             /\ TakeRing \/ TakeQueue2 \/ Wait \/ Wake \/ Send
             /\ UNCHANGED <<x, mutex, pd, command, made, ended, crashed, target>>

--------------------------------------------------------------------------------
Message == \/ Close \/ Reset \/ Free
           \/ \E editor \in BOOLEAN : OpenInline(editor) \/ OpenAsync(editor)
Clock == PollOpen \/ PollReset \/ PollSilent
Work  == WorkOpen \/ WorkClose \/ WorkBegin \/ WorkEnd

Next == Message \/ Perform \/ PerformEnd \/ Clock \/ Work \/ QueueStep

Spec == Init /\ [][Next]_vars

\* The clock polls every millisecond and a handler runs to its end; the worker
\* gets x_mutex between two blocks and goes on, but it may wait for ever if
\* nobody notifies it.
Fairness == /\ WF_vars(PerformEnd)
            /\ WF_vars(pd = "open" /\ Message)
            /\ SF_vars(Clock)
            /\ SF_vars(Work)
            /\ SF_vars(QueueStep /\ worker # "waiting")

FairSpec == Spec /\ Fairness

--------------------------------------------------------------------------------
(* Safety *)

\* No queue loses or duplicates a command: the commands in flight grow by the
\* one that is pushed and shrink by the one that is polled, also when a FIFO is
\* full.
ItemsKept ==
  [][InFlight' = (InFlight \cup counter..counter'-1)
                   \ (IF rt'.read # rt.read THEN {Polled.id} ELSE {})]_vars

\* The worker performs the commands of each queue in the order they were pushed;
\* a command is overtaken only by one that went through the other queue (which
\* happens both ways, once the FIFO has been full).
OvertakenAcross ==
  [][item'.id > item.id =>
       \A k \in {y.id : y \in Queued'} : k < item'.id =>
         k \in {y.id : y \in IF source = "ring" THEN {nrt2[i] : i \in DOMAIN nrt2}
                                                ELSE Contents(nrt)}]_vars

\* x_command is the one command that suspends the object, from the message until
\* it is polled: none starts while another is under way, and none is forgotten.
OneCommand ==
  ~x.freed => {i \in InFlight : command[i].op = "reset"}
                = IF x.command < 0 THEN {} ELSE {x.command}

\* perform() and the work of a reset, read or write never overlap.
ProcessExclusion == pd = "perform" => worker # "busy"

\* A command that is sent while no asynchronous open is under way finds the plugin
\* it was sent for until it is polled, and that plugin is not destroyed under it, as
\* long as the object lives.  (An open that was under way when the command was sent
\* replaces the plugin, also while the worker is inside of it.)
CommandFindsPlugin ==
  /\ crashed => x.freed \/ (x.command >= 0 /\ target = NoPlugin)
  /\ x.command >= 0 /\ target # NoPlugin /\ ~x.freed => x.plugin = target

\* As long as nothing freed was used, every open plugin has exactly one owner,
\* x_plugin or a command in flight: no order of open, close, free and poll leaks one
\* or releases one twice.
Owners(p) == {i \in InFlight : command[i].plugin = p}
OneOwner ==
  ~crashed =>
    \A p \in Plugins :
      IF made[p] # "no" /\ ended[p] = "no"
        THEN IF x.plugin = p THEN Owners(p) = {}
                             ELSE Cardinality(Owners(p)) = 1
        ELSE x.plugin # p /\ Owners(p) = {}

--------------------------------------------------------------------------------
(* What a comment says and the code does not keep *)

\* "make sure to release the plugin on the same thread where it was opened!"
\* (vstplugin_close)
ReleasedWhereOpened == \A p \in Plugins : ended[p] \in {"no", made[p]}

--------------------------------------------------------------------------------
\* Under FairSpec the worker gets done with what it has begun, although x_mutex may
\* be held by perform() and the FIFO back to the Pd thread may be full.
WorkerGetsDone ==
  worker \in {"work", "busy", "send"}
    ~> (worker \in {"ring", "queue2"} \/ crashed)
================================================================================
