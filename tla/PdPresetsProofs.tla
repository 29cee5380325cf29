--------------------------- MODULE PdPresetsProofs ---------------------------
(***************************************************************************)
(* Theorems about PdPresets for every set of objects, presets and states,  *)
(* and any number of messages.                                             *)
(***************************************************************************)
EXTENDS PdPresets, SequenceTheorems, FiniteSetTheorems, WellFoundedInduction, TLAPS

Field(f) == f = [o \in Objects |-> f[o]]

TypesInv ==
  /\ Field(state) /\ Field(shown) /\ Field(x_command)
  /\ queue \in Seq(ToSet(queue)) /\ results \in Seq(ToSet(results))

\* a command under way suspends its object, and no other one does
Suspends(cmd, command) == /\ cmd.owner \in Objects
                          /\ cmd.op \in {"read", "write"}
                          /\ command[cmd.owner] = cmd.op
CommandsInv ==
  /\ \A i \in DOMAIN queue : Suspends(queue[i], x_command)
  /\ \A i \in DOMAIN results : Suspends(results[i].cmd, x_command)
  /\ \A i, j \in DOMAIN queue : queue[i].owner = queue[j].owner => i = j
  /\ \A i, j \in DOMAIN results :
       results[i].cmd.owner = results[j].cmd.owner => i = j
  /\ \A i \in DOMAIN queue, j \in DOMAIN results :
       queue[i].owner # results[j].cmd.owner

\* only a load that is under way, or data that were refused, may change a plugin behind its
\* editor
ShownInv == \A o \in Objects \ stale : x_command[o] # "read" => shown[o] = state[o]

IInv == TypesInv /\ CommandsInv /\ ShownInv

--------------------------------------------------------------------------------
(* Sequences *)

LEMMA Appended ==
  ASSUME NEW s, s \in Seq(ToSet(s)), NEW y
  PROVE  /\ Append(s, y) \in Seq(ToSet(Append(s, y)))
         /\ DOMAIN Append(s, y) = DOMAIN s \cup {Len(s) + 1}
         /\ Len(s) + 1 \notin DOMAIN s
         /\ Append(s, y)[Len(s) + 1] = y
         /\ \A i \in DOMAIN s : Append(s, y)[i] = s[i]
  <1> DEFINE S == ToSet(s) \cup {y}
             t == Append(s, y)
  <1>1. s \in Seq(S) /\ y \in S
    OBVIOUS
  <1> HIDE DEF S
  <1>2. t \in Seq(S)
    BY <1>1
  <1>3. /\ DOMAIN t = 1..Len(s)+1 /\ DOMAIN s = 1..Len(s) /\ Len(s) \in Nat
        /\ t[Len(s) + 1] = y /\ \A i \in 1..Len(s) : t[i] = s[i]
    BY <1>1
  <1> HIDE DEF t
  <1>4. t \in Seq(ToSet(t))
    BY <1>2, SeqOfRange DEF ToSet, Range
  <1> QED
    BY <1>3, <1>4 DEF t

LEMMA Shortened ==
  ASSUME NEW s, s \in Seq(ToSet(s)), s # <<>>, NEW t, t = Tail(s)
  PROVE  /\ t \in Seq(ToSet(t))
         /\ 1 \in DOMAIN s /\ Head(s) = s[1]
         /\ \A i \in DOMAIN t : /\ i \in Int /\ i + 1 \in DOMAIN s /\ i + 1 # 1
                                /\ t[i] = s[i + 1]
  <1> DEFINE S == ToSet(s)
  <1>1. s \in Seq(S)
    OBVIOUS
  <1> HIDE DEF S
  <1>2. t \in Seq(S) /\ Len(s) \in Nat \ {0} /\ Len(t) = Len(s) - 1
    BY <1>1
  <1>3. DOMAIN t = 1..Len(t) /\ DOMAIN s = 1..Len(s) /\ Head(s) = s[1]
    BY <1>1, <1>2
  <1>4. \A i \in 1..Len(t) : t[i] = s[i + 1]
    BY <1>1, <1>2
  <1>5. t \in Seq(Range(t))
    BY <1>2, SeqOfRange
  <1>6. Range(t) = ToSet(t)
    BY DEF Range, ToSet
  <1> QED
    BY <1>2, <1>3, <1>4, <1>5, <1>6

--------------------------------------------------------------------------------
(* Effects *)

\* A message that is done with when the handler returns.
LEMMA AtOnce ==
  ASSUME IInv, NEW o \in Objects, x_command[o] = None,
         UNCHANGED <<queue, results, x_command>>,
         Field(state'), Field(shown'),
         \A p \in Objects : p # o => state'[p] = state[p] /\ shown'[p] = shown[p],
         stale \ {o} \subseteq stale', shown'[o] = state'[o] \/ o \in stale'
  PROVE  IInv'
  <1>1. TypesInv'
    BY DEF IInv, TypesInv
  <1>2. CommandsInv'
    BY DEF IInv, CommandsInv, Suspends
  <1>3. ShownInv'
    BY DEF IInv, ShownInv
  <1> QED
    BY <1>1, <1>2, <1>3 DEF IInv

\* A read that is done in the handler: the editor is updated.
LEMMA ReadAtOnce ==
  ASSUME IInv, NEW cmd, NEW success \in BOOLEAN,
         cmd.owner \in Objects, x_command[cmd.owner] = None,
         ReadDo(cmd, success), shown' = update(cmd.owner, x_command, state'),
         stale' = stale \ {cmd.owner},
         UNCHANGED <<queue, results, x_command>>
  PROVE  IInv'
  <1> DEFINE o == cmd.owner
  <1>1. /\ Field(state') /\ Field(shown') /\ shown'[o] = state'[o]
        /\ \A p \in Objects : p # o => state'[p] = state[p] /\ shown'[p] = shown[p]
    BY DEF IInv, TypesInv, Field, ReadDo, Refused, update
  <1> QED
    BY <1>1, AtOnce

LEMMA WriteAtOnce ==
  ASSUME IInv, UNCHANGED <<queue, results, x_command, state, shown, stale>>
  PROVE  IInv'
  BY DEF IInv, TypesInv, CommandsInv, ShownInv, Suspends, Field

LEMMA PerformStep ==
  ASSUME IInv, NEW cmd, cmd.owner \in Objects, x_command[cmd.owner] = None,
         Perform(cmd)
  PROVE  IInv'
  <1>1. PICK success \in BOOLEAN : Do(cmd, success) /\ Done(cmd, success, state')
    BY DEF Perform
  <1>2. UNCHANGED <<queue, results>>
    BY DEF Perform
  <1>3. Resumed(cmd.owner) = x_command
    BY DEF IInv, TypesInv, Field, Resumed
  <1>4. CASE cmd.op = "read"
    <2>1. ReadDo(cmd, success) /\ ReadDone(cmd, state')
      BY <1>1, <1>4 DEF Do, Done
    <2> QED
      BY <1>2, <1>3, <2>1, ReadAtOnce DEF ReadDone
  <1>5. CASE cmd.op = "write"
    BY <1>1, <1>2, <1>3, <1>5, WriteAtOnce DEF Do, Done, WriteDo, WriteDone
  <1> QED
    BY <1>1, <1>4, <1>5 DEF Do

\* A command that is sent to the worker suspends an object that was not.
LEMMA SendStep ==
  ASSUME IInv, NEW cmd, cmd.owner \in Objects, x_command[cmd.owner] = None,
         cmd.op \in {"read", "write"}, Send(cmd)
  PROVE  IInv'
  <1> DEFINE n == Len(queue) + 1
  <1>1. /\ queue' = Append(queue, cmd) /\ UNCHANGED <<state, shown, results, stale>>
        /\ x_command' = [x_command EXCEPT ![cmd.owner] = cmd.op]
    BY DEF Send
  <1>2. /\ queue' \in Seq(ToSet(queue'))
        /\ DOMAIN queue' = DOMAIN queue \cup {n} /\ n \notin DOMAIN queue
        /\ queue'[n] = cmd
        /\ \A i \in DOMAIN queue : queue'[i] = queue[i]
    <2>1. queue \in Seq(ToSet(queue))
      BY DEF IInv, TypesInv
    <2> QED
      BY <1>1, <2>1, Appended
  <1> HIDE DEF n
  <1>3. /\ Field(x_command') /\ x_command'[cmd.owner] = cmd.op
        /\ \A o \in Objects : o # cmd.owner => x_command'[o] = x_command[o]
    BY <1>1 DEF IInv, TypesInv, Field
  <1>4. None \notin {"read", "write"}
    BY ObjectsAssumption
  <1>5. TypesInv'
    BY <1>1, <1>2, <1>3 DEF IInv, TypesInv, Field
  <1>6. /\ \A i \in DOMAIN queue : queue[i].owner # cmd.owner
        /\ \A i \in DOMAIN results : results[i].cmd.owner # cmd.owner
    BY <1>4 DEF IInv, CommandsInv, Suspends
  <1>7. CommandsInv'
    <2>1. \A i \in DOMAIN queue' : Suspends(queue'[i], x_command')
      BY <1>2, <1>3, <1>6 DEF IInv, CommandsInv, Suspends
    <2>2. \A i \in DOMAIN results' : Suspends(results'[i].cmd, x_command')
      BY <1>1, <1>3, <1>6 DEF IInv, CommandsInv, Suspends
    <2>3. \A i, j \in DOMAIN queue' :
            queue'[i].owner = queue'[j].owner => i = j
      BY <1>2, <1>6 DEF IInv, CommandsInv
    <2>4. \A i \in DOMAIN queue', j \in DOMAIN results' :
            queue'[i].owner # results'[j].cmd.owner
      BY <1>1, <1>2, <1>6 DEF IInv, CommandsInv
    <2> QED
      BY <1>1, <2>1, <2>2, <2>3, <2>4 DEF IInv, CommandsInv
  <1>8. ShownInv'
    BY <1>1, <1>3, <1>4 DEF IInv, ShownInv
  <1> QED
    BY <1>5, <1>7, <1>8 DEF IInv

--------------------------------------------------------------------------------
(* The steps *)

LEMMA DataStep ==
  ASSUME IInv, NEW o \in Objects, vstplugin_preset_data_set(o)
  PROVE  IInv'
  <1>1. x_command[o] = None /\ UNCHANGED <<queue, results, x_command>>
    BY DEF vstplugin_preset_data_set, Message
  <1>2. CASE /\ \E value \in Values : state' = [state EXCEPT ![o] = value]
             /\ shown' = update(o, x_command, state')
             /\ stale' = stale \ {o}
    <2>1. /\ Field(state') /\ Field(shown') /\ shown'[o] = state'[o]
          /\ \A p \in Objects : p # o => state'[p] = state[p] /\ shown'[p] = shown[p]
      BY <1>1, <1>2 DEF IInv, TypesInv, Field, update
    <2> QED
      BY <1>1, <1>2, <2>1, AtOnce
  <1>3. CASE Refused(o, TRUE) /\ stale' = stale \cup {o} /\ UNCHANGED shown
    <2>1. /\ Field(state') /\ Field(shown')
          /\ \A p \in Objects : p # o => state'[p] = state[p] /\ shown'[p] = shown[p]
      BY <1>1, <1>3 DEF IInv, TypesInv, Field, Refused
    <2> QED
      BY <1>1, <1>3, <2>1, AtOnce
  <1> QED
    BY <1>2, <1>3 DEF vstplugin_preset_data_set

LEMMA FileStep ==
  ASSUME IInv, NEW o \in Objects, vstplugin_preset_file(o)
  PROVE  IInv'
  <1> DEFINE Cmd(op) == Command(o, op, "program", SomeFile, FALSE)
  <1>1. PICK op \in {"read", "write"} : Perform(Cmd(op)) \/ Send(Cmd(op))
    BY DEF vstplugin_preset_file
  <1>2. Cmd(op).owner = o /\ Cmd(op).op = op /\ x_command[o] = None
    BY DEF vstplugin_preset_file, Message, Command
  <1> HIDE DEF Cmd
  <1> QED
    BY <1>1, <1>2, PerformStep, SendStep

LEMMA LoadStep ==
  ASSUME IInv, NEW o \in Objects, vstplugin_preset_load(o)
  PROVE  IInv'
  <1> DEFINE Cmd(i) == Command(o, "read", "preset", presets[i], FALSE)
  <1>1. PICK arg \in Arguments :
          LET i == preset_index(o, arg)
          IN  IF i = 0
              THEN UNCHANGED <<state, x_command, shown, queue, results, stale>>
              ELSE \/ Send(Cmd(i))
                   \/ \E success \in BOOLEAN :
                        /\ ReadDo(Cmd(i), success)
                        /\ shown' = update(o, x_command, state')
                        /\ stale' = stale \ {o}
                        /\ UNCHANGED <<presets, x_command, queue, results>>
    BY DEF vstplugin_preset_load
  <1> DEFINE i == preset_index(o, arg)
  <1>2. Cmd(i).owner = o /\ Cmd(i).op = "read" /\ x_command[o] = None
    BY DEF vstplugin_preset_load, Message, Command
  <1> HIDE DEF Cmd, i
  <1>3. CASE i = 0
    BY <1>1, <1>3, WriteAtOnce DEF i
  <1>4. CASE Send(Cmd(i))
    BY <1>2, <1>4, SendStep
  <1>5. ASSUME NEW success \in BOOLEAN, ReadDo(Cmd(i), success),
               shown' = update(o, x_command, state'), stale' = stale \ {o},
               UNCHANGED <<x_command, queue, results>>
        PROVE  IInv'
    BY <1>2, <1>5, ReadAtOnce
  <1> QED
    BY <1>1, <1>3, <1>4, <1>5 DEF i

LEMMA SaveStep ==
  ASSUME IInv, NEW o \in Objects, vstplugin_preset_save(o)
  PROVE  IInv'
  <1> DEFINE Cmd(arg, i) == Command(o, "write", "preset", Target(arg, i), i = 0)
  <1>1. PICK arg \in Arguments :
          LET i == preset_index(o, arg)
          IN  \/ Perform(Cmd(arg, i)) \/ Send(Cmd(arg, i))
              \/ UNCHANGED <<state, x_command, shown, queue, results, stale>>
    BY DEF vstplugin_preset_save
  <1> DEFINE cmd == Cmd(arg, preset_index(o, arg))
  <1>2. cmd.owner = o /\ cmd.op = "write" /\ x_command[o] = None
    BY DEF vstplugin_preset_save, Message, Command
  <1>3. \/ Perform(cmd) \/ Send(cmd)
        \/ UNCHANGED <<state, x_command, shown, queue, results, stale>>
    BY <1>1
  <1> HIDE DEF cmd
  <1> QED
    BY <1>2, <1>3, PerformStep, SendStep, WriteAtOnce

\* The worker: the command moves from one queue to the other.
LEMMA WorkerStep == ASSUME IInv, WorkerDo PROVE IInv'
  <1> DEFINE cmd == Head(queue)
             n   == Len(results) + 1
  <1>1. PICK success \in BOOLEAN :
          /\ Do(cmd, success)
          /\ results' = Append(results, [cmd |-> cmd, success |-> success])
    BY DEF WorkerDo
  <1>2. /\ queue # <<>> /\ queue' = Tail(queue)
        /\ UNCHANGED <<presets, x_preset, x_command, shown, stale>>
    BY DEF WorkerDo
  <1>3. /\ queue' \in Seq(ToSet(queue')) /\ 1 \in DOMAIN queue /\ cmd = queue[1]
        /\ \A i \in DOMAIN queue' : /\ i \in Int /\ i + 1 \in DOMAIN queue
                                    /\ i + 1 # 1
                                    /\ queue'[i] = queue[i + 1]
    BY <1>2, Shortened DEF IInv, TypesInv
  <1>4. /\ results' \in Seq(ToSet(results'))
        /\ DOMAIN results' = DOMAIN results \cup {n} /\ n \notin DOMAIN results
        /\ results'[n] = [cmd |-> cmd, success |-> success]
        /\ \A i \in DOMAIN results : results'[i] = results[i]
    <2>1. results \in Seq(ToSet(results))
      BY DEF IInv, TypesInv
    <2> QED
      BY <1>1, <2>1, Appended
  <1> HIDE DEF cmd, n
  <1>5. results'[n].cmd = cmd
    BY <1>4
  <1>6. Suspends(cmd, x_command)
    BY <1>3 DEF IInv, CommandsInv
  <1>7. /\ Field(state')
        /\ \A o \in Objects : x_command[o] # "read" => state'[o] = state[o]
    BY <1>1, <1>6 DEF IInv, TypesInv, Do, ReadDo, Refused, WriteDo, Suspends, Field
  <1>8. TypesInv'
    BY <1>2, <1>3, <1>4, <1>7 DEF IInv, TypesInv, Field
  <1>9. CommandsInv'
    <2>1. \A i \in DOMAIN queue' : Suspends(queue'[i], x_command')
      BY <1>2, <1>3 DEF IInv, CommandsInv, Suspends
    <2>2. \A i \in DOMAIN results' : Suspends(results'[i].cmd, x_command')
      BY <1>2, <1>4, <1>5, <1>6 DEF IInv, CommandsInv, Suspends
    <2>3. \A i, j \in DOMAIN queue' :
            queue'[i].owner = queue'[j].owner => i = j
      <3> SUFFICES ASSUME NEW i \in DOMAIN queue', NEW j \in DOMAIN queue',
                          queue'[i].owner = queue'[j].owner
                   PROVE  i = j
        OBVIOUS
      <3>1. i + 1 = j + 1
        BY <1>3 DEF IInv, CommandsInv
      <3> QED
        BY <1>3, <3>1
    <2>4. \A i, j \in DOMAIN results' :
            results'[i].cmd.owner = results'[j].cmd.owner => i = j
      BY <1>3, <1>4, <1>5 DEF IInv, CommandsInv
    <2>5. \A i \in DOMAIN queue', j \in DOMAIN results' :
            queue'[i].owner # results'[j].cmd.owner
      BY <1>3, <1>4, <1>5 DEF IInv, CommandsInv
    <2> QED
      BY <2>1, <2>2, <2>3, <2>4, <2>5 DEF CommandsInv
  <1>10. ShownInv'
    BY <1>2, <1>7 DEF IInv, ShownInv
  <1> QED
    BY <1>8, <1>9, <1>10 DEF IInv

LEMMA PollStep == ASSUME IInv, Poll PROVE IInv'
  <1> DEFINE r == Head(results)
             cmd == r.cmd
  <1>1. /\ results # <<>> /\ results' = Tail(results)
        /\ Done(cmd, r.success, state) /\ UNCHANGED <<state, queue>>
    BY DEF Poll
  <1>2. /\ results' \in Seq(ToSet(results'))
        /\ 1 \in DOMAIN results /\ r = results[1]
        /\ \A i \in DOMAIN results' : /\ i \in Int /\ i + 1 \in DOMAIN results
                                      /\ i + 1 # 1
                                      /\ results'[i] = results[i + 1]
    BY <1>1, Shortened DEF IInv, TypesInv
  <1> HIDE DEF r
  <1>3. Suspends(cmd, x_command)
    BY <1>2 DEF IInv, CommandsInv
  <1>4. /\ \A i \in DOMAIN queue : queue[i].owner # cmd.owner
        /\ \A i \in DOMAIN results' : results'[i].cmd.owner # cmd.owner
    BY <1>2 DEF IInv, CommandsInv
  <1> HIDE DEF cmd
  <1>5. x_command' = Resumed(cmd.owner)
    BY <1>1 DEF Done, ReadDone, WriteDone
  <1>6. /\ Field(x_command') /\ x_command'[cmd.owner] = None
        /\ \A o \in Objects : o # cmd.owner => x_command'[o] = x_command[o]
    BY <1>3, <1>5 DEF IInv, TypesInv, Field, Resumed, Suspends
  <1>7. /\ Field(shown') /\ (cmd.owner \notin stale' => shown'[cmd.owner] = state[cmd.owner])
        /\ \A o \in Objects : o # cmd.owner => shown'[o] = shown[o] /\ (o \in stale => o \in stale')
    <2>1. CASE cmd.op = "read"
      <3>1. shown' = update(cmd.owner, x_command', state) /\ stale' = stale \ {cmd.owner}
        BY <1>1, <2>1 DEF Done, ReadDone
      <3> QED
        BY <1>3, <1>6, <3>1 DEF IInv, TypesInv, Field, Suspends, update
    <2>2. CASE cmd.op = "write"
      BY <1>1, <1>3, <2>2
      DEF Done, WriteDone, IInv, TypesInv, Field, Suspends, ShownInv
    <2> QED
      BY <1>3, <2>1, <2>2 DEF Suspends
  <1>8. TypesInv'
    BY <1>1, <1>2, <1>6, <1>7 DEF IInv, TypesInv, Field
  <1>9. CommandsInv'
    <2>1. \A i \in DOMAIN queue' : Suspends(queue'[i], x_command')
      BY <1>1, <1>4, <1>6 DEF IInv, CommandsInv, Suspends
    <2>2. \A i \in DOMAIN results' : Suspends(results'[i].cmd, x_command')
      BY <1>2, <1>4, <1>6 DEF IInv, CommandsInv, Suspends
    <2>3. \A i, j \in DOMAIN results' :
            results'[i].cmd.owner = results'[j].cmd.owner => i = j
      <3> SUFFICES ASSUME NEW i \in DOMAIN results', NEW j \in DOMAIN results',
                          results'[i].cmd.owner = results'[j].cmd.owner
                   PROVE  i = j
        OBVIOUS
      <3>1. i + 1 = j + 1
        BY <1>2 DEF IInv, CommandsInv
      <3> QED
        BY <1>2, <3>1
    <2>4. \A i \in DOMAIN queue', j \in DOMAIN results' :
            queue'[i].owner # results'[j].cmd.owner
      BY <1>1, <1>2 DEF IInv, CommandsInv
    <2>5. \A i, j \in DOMAIN queue' : queue'[i].owner = queue'[j].owner => i = j
      BY <1>1 DEF IInv, CommandsInv
    <2> QED
      BY <2>1, <2>2, <2>3, <2>4, <2>5 DEF CommandsInv
  <1>10. ShownInv'
    BY <1>1, <1>6, <1>7 DEF IInv, ShownInv
  <1> QED
    BY <1>8, <1>9, <1>10 DEF IInv

LEMMA Initially == Init => IInv
  BY DEF Init, IInv, TypesInv, CommandsInv, ShownInv, Field, ToSet

LEMMA Step == IInv /\ [Next]_vars => IInv'
  <1> SUFFICES ASSUME IInv, [Next]_vars PROVE IInv'
    OBVIOUS
  <1>1. ASSUME NEW o \in Objects,
               vstplugin_preset_rename(o) \/ vstplugin_preset_delete(o)
        PROVE  IInv'
    BY <1>1, WriteAtOnce DEF vstplugin_preset_rename, vstplugin_preset_delete
  <1>2. CASE UNCHANGED vars
    BY <1>2, WriteAtOnce DEF vars
  <1> QED
    BY <1>1, <1>2, DataStep, FileStep, LoadStep, SaveStep, WorkerStep, PollStep
    DEF Next

\* Loads and saves suspend their object, one at a time, from the message to the completion;
\* only a load leaves an editor behind, and its completion brings it up to date, and data
\* that were refused, until the next update (vstplugin_preset_data_set).
THEOREM PresetsInvariant == Spec => []IInv
  BY Initially, Step, PTL DEF Spec

\* An object that is not suspended shows the state of its plugin, unless the last data it
\* was given were refused, in whatever order its loads and saves end, at once or on the
\* worker thread, and whether they succeed (vstplugin_preset_read_done,
\* vstplugin_preset_write_done, vstplugin_preset_data_set).
THEOREM PresetsEditorInSync == Spec => []EditorInSync
  <1>1. IInv => EditorInSync
    BY ObjectsAssumption DEF IInv, ShownInv, EditorInSync
  <1> QED
    BY <1>1, PresetsInvariant, PTL

--------------------------------------------------------------------------------
(* The list of presets *)

LEMMA Least ==
  ASSUME NEW S \in SUBSET Nat, S # {}
  PROVE  Min(S) \in S /\ \A k \in S : Min(S) <= k
  <1> DEFINE Less == {pair \in Nat \X Nat : pair[1] < pair[2]}
  <1>1. Less = OpToRel(<, Nat)
    BY DEF OpToRel
  <1>2. IsWellFoundedOn(Less, Nat)
    BY <1>1, NatLessThanWellFounded
  <1>3. \A x, y \in Nat : y < x => <<y, x>> \in Less
    OBVIOUS
  <1> HIDE DEF Less
  <1>4. PICK x \in S : \A y \in S : <<y, x>> \notin Less
    BY <1>2, WFMin
  <1>5. \A y \in S : x <= y
    <2> SUFFICES ASSUME NEW y \in S PROVE x <= y
      OBVIOUS
    <2>1. x \in Nat /\ y \in Nat /\ ~(y < x)
      BY <1>3, <1>4
    <2> QED
      BY <2>1
  <1> QED
    BY <1>5 DEF Min

\* the first k presets are the user's
InPrefix(list, k) == \A j \in 1 .. k : list[j].type = User

\* The leading user presets.
LEMMA Prefix ==
  ASSUME NEW list \in Seq(Preset)
  PROVE  /\ UserPrefix(list) \in 0 .. Len(list)
         /\ \A k \in 0 .. Len(list) : InPrefix(list, k) <=> k <= UserPrefix(list)
  <1> DEFINE S == {i \in DOMAIN list : list[i].type # User} \cup {Len(list) + 1}
             n == Len(list)
             m == Min(S)
  <1>1. n \in Nat /\ DOMAIN list = 1 .. n
    OBVIOUS
  <1>2. S \in SUBSET Nat /\ S # {}
    BY <1>1
  <1>3. m \in S /\ \A k \in S : m <= k
    BY <1>2, Least
  <1>4. UserPrefix(list) = m - 1
    BY DEF UserPrefix
  <1> HIDE DEF m
  <1>5. m \in 1 .. n + 1
    BY <1>1, <1>3
  <1>6. \A k \in 0 .. n : InPrefix(list, k) <=> k < m
    BY <1>1, <1>3, <1>5 DEF InPrefix
  <1> HIDE DEF n
  <1>7. \A k \in 0 .. n : k < m <=> k <= m - 1
    BY <1>1, <1>5
  <1> QED
    BY <1>1, <1>4, <1>5, <1>6, <1>7 DEF n

\* findPreset finds a preset of this name if there is one.
LEMMA Found ==
  ASSUME NEW list \in Seq(Preset), NEW name, NEW f, f = findPreset(list, name)
  PROVE  IF f = 0 THEN \A i \in DOMAIN list : list[i].name # name
         ELSE f \in DOMAIN list /\ list[f].name = name
  <1> DEFINE S == {i \in DOMAIN list : list[i].name = name} \cup {Len(list) + 1}
             n == Len(list)
             m == Min(S)
  <1>1. n \in Nat /\ DOMAIN list = 1 .. n
    OBVIOUS
  <1>2. S \in SUBSET Nat /\ S # {}
    BY <1>1
  <1>3. m \in S /\ \A k \in S : m <= k
    BY <1>2, Least
  <1>4. f = m % (n + 1)
    BY DEF findPreset
  <1> HIDE DEF m
  <1>5. m \in 1 .. n + 1
    BY <1>1, <1>3
  <1>6. m <= n => m \in DOMAIN list /\ list[m].name = name
    BY <1>1, <1>3
  <1>7. m = n + 1 => \A i \in DOMAIN list : list[i].name # name
    BY <1>1, <1>3
  <1> HIDE DEF n
  <1>8. f = IF m <= n THEN m ELSE 0
    BY <1>1, <1>4, <1>5
  <1> QED
    BY <1>1, <1>5, <1>6, <1>7, <1>8

\* t is the list with p inserted at i
HasInserted(t, list, i, p) ==
  /\ t \in Seq(Preset) /\ Len(t) = Len(list) + 1
  /\ \A j \in 1 .. Len(list) + 1 :
       t[j] = IF j < i THEN list[j] ELSE IF j = i THEN p ELSE list[j - 1]

LEMMA InsertedAt ==
  ASSUME NEW list \in Seq(Preset), NEW i \in 1 .. Len(list) + 1, NEW p \in Preset,
         NEW t, t = InsertAt(list, i, p)
  PROVE  HasInserted(t, list, i, p)
  <1> DEFINE n == Len(list)
             a == SubSeq(list, 1, i - 1)
             b == SubSeq(list, i, n)
  <1>1. n \in Nat /\ i \in 1 .. n + 1 /\ \A j \in 1 .. n : list[j] \in Preset
    OBVIOUS
  <1>2. t = (a \o <<p>>) \o b
    BY DEF InsertAt
  <1> HIDE DEF n
  <1>3. a \in Seq(Preset) /\ Len(a) = i - 1 /\ \A j \in 1 .. i - 1 : a[j] = list[j]
    <2>1. 1 \in Int /\ i - 1 \in Int /\ \A j \in 1 .. i - 1 : list[j] \in Preset
      BY <1>1
    <2>2. /\ a \in Seq(Preset)
          /\ Len(a) = IF 1 <= i - 1 THEN i - 1 - 1 + 1 ELSE 0
          /\ \A j \in 1 .. i - 1 - 1 + 1 : a[j] = list[1 + j - 1]
      BY <2>1, SubSeqProperties
    <2> HIDE DEF a
    <2> QED
      BY <1>1, <2>2
  <1>4. /\ b \in Seq(Preset) /\ Len(b) = n - i + 1
        /\ \A j \in 1 .. n - i + 1 : b[j] = list[i + j - 1]
    <2>1. n \in Int /\ i \in Int /\ \A j \in i .. n : list[j] \in Preset
      BY <1>1
    <2>2. /\ b \in Seq(Preset)
          /\ Len(b) = IF i <= n THEN n - i + 1 ELSE 0
          /\ \A j \in 1 .. n - i + 1 : b[j] = list[i + j - 1]
      BY <2>1, SubSeqProperties
    <2> HIDE DEF b
    <2> QED
      BY <1>1, <2>2
  <1> DEFINE c == a \o <<p>>
  <1> HIDE DEF a, b
  <1>5. <<p>> \in Seq(Preset) /\ Len(<<p>>) = 1 /\ <<p>>[1] = p
    OBVIOUS
  <1>6. /\ c \in Seq(Preset) /\ Len(c) = i
        /\ \A j \in 1 .. i : c[j] = IF j < i THEN list[j] ELSE p
    <2>1. /\ c \in Seq(Preset) /\ Len(c) = Len(a) + 1
          /\ \A j \in 1 .. Len(a) + 1 : c[j] = IF j <= Len(a) THEN a[j] ELSE <<p>>[j - Len(a)]
      BY <1>3, <1>5, ConcatProperties
    <2> HIDE DEF c
    <2> QED
      BY <1>1, <1>3, <1>5, <2>1
  <1>9. t = c \o b
    BY <1>2
  <1> HIDE DEF c
  <1>7. /\ t \in Seq(Preset) /\ Len(t) = Len(c) + Len(b)
        /\ \A j \in 1 .. Len(c) + Len(b) : t[j] = IF j <= Len(c) THEN c[j] ELSE b[j - Len(c)]
    <2>1. /\ c \o b \in Seq(Preset) /\ Len(c \o b) = Len(c) + Len(b)
          /\ \A j \in 1 .. Len(c) + Len(b) :
               (c \o b)[j] = IF j <= Len(c) THEN c[j] ELSE b[j - Len(c)]
      BY <1>4, <1>6, ConcatProperties
    <2> QED
      BY <1>9, <2>1
  <1>8. \A j \in 1 .. n + 1 :
          t[j] = IF j < i THEN list[j] ELSE IF j = i THEN p ELSE list[j - 1]
    <2> SUFFICES ASSUME NEW j \in 1 .. n + 1
                 PROVE  t[j] = IF j < i THEN list[j] ELSE IF j = i THEN p ELSE list[j - 1]
      OBVIOUS
    <2>1. CASE j <= i
      BY <1>1, <1>4, <1>6, <1>7, <2>1
    <2>2. CASE j > i
      <3>1. j - i \in 1 .. n - i + 1 /\ i + (j - i) - 1 = j - 1
        BY <1>1, <2>2
      <3>2. j \in 1 .. Len(c) + Len(b) /\ ~(j <= Len(c)) /\ j - Len(c) = j - i
        BY <1>1, <1>4, <1>6, <2>2
      <3>3. t[j] = b[j - i]
        BY <1>7, <3>2
      <3>4. b[j - i] = list[i + (j - i) - 1]
        BY <1>4, <3>1
      <3>5. ~(j < i) /\ j # i
        BY <1>1, <2>2
      <3> QED
        BY <3>1, <3>3, <3>4, <3>5
    <2>3. j <= i \/ j > i
      BY <1>1
    <2> QED
      BY <2>1, <2>2, <2>3
  <1> QED
    BY <1>1, <1>4, <1>6, <1>7, <1>8 DEF n, HasInserted

LEMMA RemovedAt ==
  ASSUME NEW list \in Seq(Preset), NEW i \in DOMAIN list, NEW t, t = removed(list, i)
  PROVE  /\ t \in Seq(Preset) /\ Len(t) = Len(list) - 1
         /\ \A j \in 1 .. Len(list) - 1 : t[j] = IF j < i THEN list[j] ELSE list[j + 1]
  <1> DEFINE n == Len(list)
             a == SubSeq(list, 1, i - 1)
             b == SubSeq(list, i + 1, n)
  <1>1. n \in Nat /\ i \in 1 .. n /\ \A j \in 1 .. n : list[j] \in Preset
    OBVIOUS
  <1>2. t = a \o b
    BY DEF removed, RemoveAt
  <1> HIDE DEF n
  <1>3. a \in Seq(Preset) /\ Len(a) = i - 1 /\ \A j \in 1 .. i - 1 : a[j] = list[j]
    <2>1. 1 \in Int /\ i - 1 \in Int /\ \A j \in 1 .. i - 1 : list[j] \in Preset
      BY <1>1
    <2>2. /\ a \in Seq(Preset)
          /\ Len(a) = IF 1 <= i - 1 THEN i - 1 - 1 + 1 ELSE 0
          /\ \A j \in 1 .. i - 1 - 1 + 1 : a[j] = list[1 + j - 1]
      BY <2>1, SubSeqProperties
    <2> HIDE DEF a
    <2> QED
      BY <1>1, <2>2
  <1>4. /\ b \in Seq(Preset) /\ Len(b) = n - i
        /\ \A j \in 1 .. n - i : b[j] = list[i + j]
    <2>1. n \in Int /\ i + 1 \in Int /\ \A j \in i + 1 .. n : list[j] \in Preset
      BY <1>1
    <2>2. /\ b \in Seq(Preset)
          /\ Len(b) = IF i + 1 <= n THEN n - (i + 1) + 1 ELSE 0
          /\ \A j \in 1 .. n - (i + 1) + 1 : b[j] = list[i + 1 + j - 1]
      BY <2>1, SubSeqProperties
    <2> HIDE DEF b
    <2>3. Len(b) = n - i
      BY <1>1, <2>2
    <2>4. ASSUME NEW j \in 1 .. n - i PROVE b[j] = list[i + j]
      <3>1. j \in 1 .. n - (i + 1) + 1 /\ i + 1 + j - 1 = i + j
        BY <1>1
      <3> QED
        BY <2>2, <3>1
    <2> QED
      BY <2>2, <2>3, <2>4
  <1> HIDE DEF a, b
  <1>5. /\ t \in Seq(Preset) /\ Len(t) = Len(a) + Len(b)
        /\ \A j \in 1 .. Len(a) + Len(b) : t[j] = IF j <= Len(a) THEN a[j] ELSE b[j - Len(a)]
    <2>1. a \in Seq(Preset) /\ b \in Seq(Preset)
      BY <1>3, <1>4
    <2>2. /\ a \o b \in Seq(Preset) /\ Len(a \o b) = Len(a) + Len(b)
          /\ \A j \in 1 .. Len(a) + Len(b) :
               (a \o b)[j] = IF j <= Len(a) THEN a[j] ELSE b[j - Len(a)]
      BY <2>1, ConcatProperties
    <2> QED
      BY <1>2, <2>2
  <1>6. \A j \in 1 .. n - 1 : t[j] = IF j < i THEN list[j] ELSE list[j + 1]
    <2> SUFFICES ASSUME NEW j \in 1 .. n - 1
                 PROVE  t[j] = IF j < i THEN list[j] ELSE list[j + 1]
      OBVIOUS
    <2> DEFINE k == j - (i - 1)
    <2>0. /\ j \in 1 .. Len(a) + Len(b) /\ (j <= Len(a) <=> j < i)
          /\ j - Len(a) = k
      BY <1>1, <1>3, <1>4
    <2>1. CASE j < i
      <3>1. t[j] = a[j] /\ j \in 1 .. i - 1
        BY <1>1, <1>5, <2>0, <2>1
      <3> QED
        BY <1>3, <2>1, <3>1
    <2>2. CASE j >= i
      <3>1. t[j] = b[k] /\ ~(j < i)
        BY <1>1, <1>5, <2>0, <2>2
      <3>2. k \in 1 .. n - i /\ i + k = j + 1
        BY <1>1, <2>2
      <3> QED
        BY <1>4, <3>1, <3>2
    <2> QED
      BY <1>1, <2>1, <2>2
  <1>7. t \in Seq(Preset) /\ Len(t) = n - 1
    BY <1>1, <1>3, <1>4, <1>5
  <1> QED
    BY <1>6, <1>7 DEF n

\* A sequence of distinct elements of 1 .. n, n of them, is a permutation.
LEMMA Arrangement ==
  ASSUME NEW n \in Nat, NEW p \in SetToSeqs(1 .. n)
  PROVE  /\ p \in [1 .. n -> 1 .. n]
         /\ \A i, j \in 1 .. n : p[i] = p[j] => i = j
         /\ \A k \in 1 .. n : \E i \in 1 .. n : p[i] = k
  <1>1. IsFiniteSet(1 .. n) /\ Cardinality(1 .. n) = n
    BY FS_Interval
  <1>2. p \in [1 .. n -> 1 .. n] /\ \A i, j \in 1 .. n : i # j => p[i] # p[j]
    BY <1>1 DEF SetToSeqs
  <1>3. p \in Injection(1 .. n, 1 .. n)
    BY <1>2 DEF Injection, IsInjective
  <1>4. p \in Surjection(1 .. n, 1 .. n)
    BY <1>1, <1>3, FS_Injection
  <1> QED
    BY <1>2, <1>4 DEF Surjection

\* sortPresets: the leading user presets in another, sorted order.
LEMMA SortedPrefix ==
  ASSUME NEW list \in Seq(Preset), NEW s \in sortPresets(list), NEW n, n = UserPrefix(list)
  PROVE  /\ s \in Seq(Preset) /\ Len(s) = Len(list)
         /\ \A i \in 1 .. Len(list) : i > n => s[i] = list[i]
         /\ \A i, j \in 1 .. n : i < j => ~Before(s[j], s[i])
         /\ \E p \in [1 .. n -> 1 .. n] :
              /\ \A i, j \in 1 .. n : p[i] = p[j] => i = j
              /\ \A k \in 1 .. n : \E i \in 1 .. n : p[i] = k
              /\ \A i \in 1 .. n : s[i] = list[p[i]]
  <1> DEFINE l == Len(list)
             Arranged(p) == [i \in DOMAIN list |-> IF i <= n THEN list[p[i]] ELSE list[i]]
             r == SubSeq(s, 1, n)
  <1>1. l \in Nat /\ DOMAIN list = 1 .. l /\ \A i \in 1 .. l : list[i] \in Preset
    OBVIOUS
  <1>2. n \in 0 .. l
    BY Prefix
  <1>3. PICK p \in SetToSeqs(1 .. n) : s = Arranged(p)
    BY DEF sortPresets
  <1>4. Sorted(r)
    BY DEF sortPresets
  <1>5. /\ p \in [1 .. n -> 1 .. n]
        /\ \A i, j \in 1 .. n : p[i] = p[j] => i = j
        /\ \A k \in 1 .. n : \E i \in 1 .. n : p[i] = k
    <2>1. n \in Nat
      BY <1>1, <1>2
    <2> QED
      BY <2>1, Arrangement
  <1> HIDE DEF l
  <1>6. s \in [1 .. l -> Preset]
    <2> SUFFICES ASSUME NEW i \in 1 .. l PROVE (IF i <= n THEN list[p[i]] ELSE list[i]) \in Preset
      BY <1>1, <1>3
    <2>1. CASE i <= n
      <3>1. i \in 1 .. n
        BY <1>1, <1>2, <2>1
      <3>2. p[i] \in 1 .. n
        BY <1>5, <3>1
      <3>3. p[i] \in 1 .. l
        BY <1>1, <1>2, <3>2
      <3> QED
        BY <1>1, <2>1, <3>3
    <2>2. CASE ~(i <= n)
      BY <1>1, <2>2
    <2> QED
      BY <2>1, <2>2
  <1>7. s \in Seq(Preset) /\ Len(s) = l
    BY <1>1, <1>6
  <1>8. /\ \A i \in 1 .. l : i > n => s[i] = list[i]
        /\ \A i \in 1 .. n : s[i] = list[p[i]]
    BY <1>1, <1>2, <1>3
  <1>9. \A i, j \in 1 .. n : i < j => ~Before(s[j], s[i])
    <2>1. 1 \in Int /\ n \in Int /\ \A j \in 1 .. n : s[j] \in Preset
      BY <1>1, <1>2, <1>6
    <2>2. /\ r \in Seq(Preset) /\ Len(r) = IF 1 <= n THEN n - 1 + 1 ELSE 0
          /\ \A i \in 1 .. n - 1 + 1 : r[i] = s[1 + i - 1]
      BY <2>1, SubSeqProperties
    <2> HIDE DEF r
    <2>3. DOMAIN r = 1 .. n /\ \A i \in 1 .. n : r[i] = s[i]
      BY <1>1, <1>2, <2>2
    <2> QED
      BY <1>4, <2>3 DEF Sorted
  <1> QED
    BY <1>5, <1>7, <1>8, <1>9 DEF l

\* scanPresets: each file once, sorted.
LEMMA ScannedList ==
  ASSUME NEW list \in scanPresets(Files)
  PROVE  /\ list \in Seq(Preset) /\ Sorted(list)
         /\ \A i \in DOMAIN list : list[i].path \in Files /\ list[i] = Scanned(list[i].path)
         /\ \A i, j \in DOMAIN list : list[i] = list[j] => i = j
         /\ \A path \in Files : \E i \in DOMAIN list : list[i].path = path
  <1> DEFINE T == {Scanned(path) : path \in Files}
             c == Cardinality(T)
             g == [path \in Files |-> Scanned(path)]
  <1>1. /\ Files \subseteq Types \X Names /\ IsFiniteSet(Files)
    BY ObjectsAssumption
  <1>2. IsFiniteSet(T)
    <2>1. g \in Surjection(Files, T)
      BY DEF Surjection
    <2> HIDE DEF g, T
    <2> QED
      BY <1>1, <2>1, FS_Surjection
  <1>3. c \in Nat
    BY <1>2, FS_CardinalityType
  <1>4. /\ list \in [1 .. c -> T]
        /\ \A i, j \in 1 .. c : i # j => list[i] # list[j]
        /\ Sorted(list)
    BY DEF scanPresets, SetToSeqs
  <1> HIDE DEF c
  <1>5. \A t \in T : t \in Preset /\ t.path \in Files /\ t = Scanned(t.path)
    BY <1>1 DEF Scanned, Preset
  <1>6. \A path \in Files : \E i \in DOMAIN list : list[i].path = path
    <2>1. IsFiniteSet(1 .. c) /\ Cardinality(1 .. c) = c
      BY <1>3, FS_Interval
    <2>2. list \in Injection(1 .. c, T)
      BY <1>4 DEF Injection, IsInjective
    <2>3. list \in Surjection(1 .. c, T)
      BY <1>2, <2>1, <2>2, FS_Injection DEF c
    <2>4. \A t \in T : \E i \in DOMAIN list : list[i] = t
      BY <1>4, <2>3 DEF Surjection
    <2>5. \A path \in Files : Scanned(path) \in T /\ Scanned(path).path = path
      BY DEF Scanned
    <2> HIDE DEF T
    <2> QED
      BY <2>4, <2>5
  <1> HIDE DEF T
  <1>7. list \in Seq(Preset)
    <2>1. list \in [1 .. c -> Preset]
      BY <1>4, <1>5
    <2> QED
      BY <1>3, <2>1
  <1> QED
    BY <1>4, <1>5, <1>6, <1>7

\* a preset was found in a file, or made for a name
Origin(p) == \/ p.path \in Files /\ p = Scanned(p.path)
             \/ p.name \in Given /\ p = makePreset(p.name)

\* names are unique in a folder, and what is sorted stays sorted: the list up to the last
\* leading user preset
ListInv(list) ==
  /\ list \in Seq(Preset)
  /\ \A i \in DOMAIN list : Origin(list[i])
  /\ \A i, j \in DOMAIN list :
       list[i].name = list[j].name /\ list[i].type = list[j].type => i = j
  /\ \A i, j \in DOMAIN list : i < j /\ InPrefix(list, j) => ~Before(list[j], list[i])

\* a user preset of this name is where addPreset looks for it, and is the one it would add
Room(list, g) == \A k \in DOMAIN list :
                   list[k].type = User /\ list[k].name = g
                     => InPrefix(list, k) /\ list[k] = makePreset(g)

LEMMA Made ==
  ASSUME NEW g \in Given
  PROVE  /\ makePreset(g) \in Preset /\ Origin(makePreset(g))
         /\ makePreset(g).type = User /\ makePreset(g).name = g
         /\ makePreset(g).path = <<User, Stem[g]>>
  <1>1. g \in Names /\ Stem[g] \in Names /\ User \in Types
    BY PresetAssumption, ObjectsAssumption DEF Types
  <1>2. makePreset(g) \in Preset
    BY <1>1 DEF makePreset, Preset
  <1>3. makePreset(g).type = User /\ makePreset(g).name = g
    BY DEF makePreset
  <1> QED
    BY <1>2, <1>3 DEF Origin, makePreset

LEMMA Ranks == \A p, q \in Preset : /\ Rank[p.name] \in Nat
                                    /\ Before(p, q) <=> Rank[p.name] < Rank[q.name]
  BY PresetAssumption DEF Preset, Before

\* Two presets do not share a file.
LEMMA SameFile ==
  ASSUME OwnFiles, NEW p, NEW q, Origin(p), Origin(q), p.path = q.path
  PROVE  p = q
  <1>1. ASSUME NEW s, NEW g, s.path \in Files, s = Scanned(s.path), g.name \in Given,
               g = makePreset(g.name), s.path = g.path
        PROVE  s = g
    <2>1. g.path = <<User, Stem[g.name]>> /\ g.type = User
      BY <1>1, Made
    <2>2. Stem[g.name] = g.name
      BY <1>1, <2>1 DEF OwnFiles
    <2> QED
      BY <1>1, <2>1, <2>2 DEF Scanned, makePreset
  <1>2. ASSUME p.name \in Given, p = makePreset(p.name),
               q.name \in Given, q = makePreset(q.name)
        PROVE  p = q
    <2>1. p.path = <<User, Stem[p.name]>> /\ q.path = <<User, Stem[q.name]>>
      BY <1>2, Made
    <2>2. <<User, Stem[p.name]>> = <<User, Stem[q.name]>>
      BY <2>1
    <2>3. Stem[p.name] = Stem[q.name]
      BY <2>2
    <2> QED
      BY <1>2, <2>3 DEF OwnFiles
  <1> QED
    BY <1>1, <1>2 DEF Origin

\* addPreset replaces the preset of this name, or inserts it where it keeps the order.
LEMMA Added ==
  ASSUME NEW list, ListInv(list), NEW g \in Given, Room(list, g),
         NEW p, p = makePreset(g), NEW t, t = addPreset(list, p)
  PROVE  /\ ListInv(t)
         /\ \A j \in DOMAIN t : t[j] = p \/ \E k \in DOMAIN list : t[j] = list[k]
         /\ \A k \in DOMAIN list : \E j \in DOMAIN t : t[j] = list[k]
         /\ \E j \in DOMAIN t : t[j] = p
         /\ \A h \in Given : Room(list, h) => Room(t, h)
  <1> DEFINE n == UserPrefix(list)
             S == {j \in 1 .. n : list[j].name = p.name \/ Before(p, list[j])} \cup {n + 1}
             i == Min(S)
             l == Len(list)
  <1>1. list \in Seq(Preset) /\ l \in Nat /\ DOMAIN list = 1 .. l
    BY DEF ListInv
  <1>2. n \in 0 .. l /\ \A k \in 0 .. l : InPrefix(list, k) <=> k <= n
    BY <1>1, Prefix
  <1>3. p \in Preset /\ Origin(p) /\ p.type = User /\ p.name = g
    BY Made
  <1> HIDE DEF n
  <1>4. i \in S /\ \A k \in S : i <= k
    <2>1. S \in SUBSET Nat /\ S # {}
      BY <1>1, <1>2
    <2> QED
      BY <2>1, Least
  <1>5. t = IF i <= n /\ list[i].name = p.name THEN [list EXCEPT ![i] = p]
            ELSE InsertAt(list, i, p)
    BY DEF addPreset, n
  <1> HIDE DEF i, l
  <1>6. i \in 1 .. n + 1
    BY <1>1, <1>2, <1>4
  <1>7. \A k \in 1 .. n : k \in DOMAIN list /\ list[k].type = User
    BY <1>1, <1>2 DEF InPrefix
  <1>8. CASE i <= n /\ list[i].name = p.name
    <2>1. i \in DOMAIN list /\ list[i] = p
      BY <1>2, <1>3, <1>6, <1>7, <1>8 DEF Room
    <2>2. t = list
      BY <1>1, <1>5, <1>8, <2>1
    <2> QED
      BY <2>1, <2>2
  <1>9. CASE ~(i <= n /\ list[i].name = p.name)
    <2>1. \A k \in 1 .. n : k < i => ~(list[k].name = g) /\ ~Before(p, list[k])
      BY <1>2, <1>3, <1>4, <1>6
    <2>2. i <= n => Before(p, list[i])
      BY <1>2, <1>4, <1>6, <1>9
    <2>3. \A k \in DOMAIN list : ~(list[k].type = User /\ list[k].name = g)
      <3> SUFFICES ASSUME NEW k \in DOMAIN list, list[k].type = User, list[k].name = g
                   PROVE  FALSE
        OBVIOUS
      <3>1. InPrefix(list, k) /\ k \in 1 .. n
        BY <1>1, <1>2 DEF Room
      <3>2. i < k /\ i <= n
        BY <1>2, <1>3, <1>6, <1>9, <2>1, <3>1
      <3>3. Rank[p.name] < Rank[list[i].name] /\ i \in DOMAIN list
        BY <1>1, <1>3, <1>6, <1>7, <2>2, <3>2, Ranks
      <3>4. ~(Rank[list[k].name] < Rank[list[i].name])
        BY <1>1, <3>1, <3>2, <3>3, Ranks DEF ListInv
      <3> QED
        BY <1>3, <3>3, <3>4
    <2>4. /\ t \in Seq(Preset) /\ Len(t) = l + 1 /\ i \in 1 .. l + 1
          /\ \A j \in 1 .. l + 1 :
               t[j] = IF j < i THEN list[j] ELSE IF j = i THEN p ELSE list[j - 1]
      <3>1. i \in 1 .. Len(list) + 1
        BY <1>1, <1>2, <1>6 DEF l
      <3>2. t = InsertAt(list, i, p)
        BY <1>5, <1>9
      <3>3. /\ t \in Seq(Preset) /\ Len(t) = Len(list) + 1
            /\ \A j \in 1 .. Len(list) + 1 :
                 t[j] = IF j < i THEN list[j] ELSE IF j = i THEN p ELSE list[j - 1]
        <4>1. list \in Seq(Preset) /\ p \in Preset
          BY <1>1, <1>3
        <4>2. HasInserted(t, list, i, p)
          BY <3>1, <3>2, <4>1, InsertedAt
        <4> QED
          BY <4>2 DEF HasInserted
      <3> QED
        BY <3>1, <3>3 DEF l
    <2> DEFINE src(j) == IF j < i THEN j ELSE j - 1
    <2>5. DOMAIN t = 1 .. l + 1 /\ t[i] = p
      BY <1>1, <2>4
    <2>6. \A j \in DOMAIN t : j # i => src(j) \in DOMAIN list /\ t[j] = list[src(j)]
      BY <1>1, <2>4, <2>5
    <2>7. \A j, k \in DOMAIN t : j # i /\ k # i =>
            (j < k => src(j) < src(k)) /\ (j <= k => src(j) <= src(k)) /\ (src(j) = src(k) => j = k)
      BY <1>1, <2>4, <2>5
    <2>8. \A k \in DOMAIN list : \E j \in DOMAIN t : j # i /\ src(j) = k
      <3> SUFFICES ASSUME NEW k \in DOMAIN list PROVE \E j \in DOMAIN t : j # i /\ src(j) = k
        OBVIOUS
      <3>1. CASE k < i
        BY <1>1, <2>4, <2>5, <3>1
      <3>2. CASE k >= i
        <4>1. k + 1 \in DOMAIN t /\ k + 1 # i /\ src(k + 1) = k
          BY <1>1, <2>4, <2>5, <3>2
        <4> QED
          BY <4>1
      <3> QED
        BY <1>1, <2>4, <3>1, <3>2
    <2>9. ASSUME NEW j \in DOMAIN t, InPrefix(list, IF j = i THEN i - 1 ELSE src(j))
          PROVE  InPrefix(t, j)
      <3> SUFFICES ASSUME NEW k \in 1 .. j PROVE t[k].type = User
        BY DEF InPrefix
      <3>1. CASE k = i
        BY <1>3, <2>5, <3>1
      <3>2. CASE k # i
        <4>1. k \in DOMAIN t /\ src(k) \in 1 .. (IF j = i THEN i - 1 ELSE src(j))
          BY <1>1, <2>4, <2>5, <3>2
        <4>2. t[k] = list[src(k)]
          BY <2>6, <3>2, <4>1
        <4> QED
          BY <2>9, <4>1, <4>2 DEF InPrefix
      <3> QED
        BY <3>1, <3>2
    <2>10. ASSUME NEW j \in DOMAIN t, j # i, InPrefix(t, j)
           PROVE  InPrefix(list, src(j))
      <3> SUFFICES ASSUME NEW k \in 1 .. src(j) PROVE list[k].type = User
        BY DEF InPrefix
      <3>1. src(j) \in DOMAIN list
        BY <2>6, <2>10
      <3>2. k \in DOMAIN list
        BY <1>1, <3>1
      <3>3. PICK m \in DOMAIN t : m # i /\ src(m) = k
        BY <2>8, <3>2
      <3>4. t[m] = list[k]
        BY <2>6, <3>3
      <3>5. m \in 1 .. j
        BY <1>1, <2>4, <2>5, <2>10, <3>3
      <3> QED
        BY <2>10, <3>4, <3>5 DEF InPrefix
    <2> HIDE DEF src
    <2>11. \A j \in DOMAIN t : t[j] = p \/ \E k \in DOMAIN list : t[j] = list[k]
      BY <2>5, <2>6
    <2>12. \A k \in DOMAIN list : \E j \in DOMAIN t : t[j] = list[k]
      BY <2>6, <2>8
    <2>13. i \in DOMAIN t
      BY <2>4, <2>5
    <2>14. \A h \in Given : Room(list, h) => Room(t, h)
      <3> SUFFICES ASSUME NEW h \in Given, Room(list, h), NEW k \in DOMAIN t,
                          t[k].type = User, t[k].name = h
                   PROVE  InPrefix(t, k) /\ t[k] = makePreset(h)
        BY DEF Room
      <3>1. CASE k = i
        <4>1. InPrefix(list, i - 1)
          BY <1>1, <1>2, <1>6
        <4>2. InPrefix(t, k)
          BY <2>9, <3>1, <4>1
        <4> QED
          BY <1>3, <2>5, <3>1, <4>2
      <3>2. CASE k # i
        <4>1. InPrefix(list, src(k)) /\ t[k] = makePreset(h)
          BY <2>6, <3>2 DEF Room
        <4> QED
          BY <2>9, <3>2, <4>1
      <3> QED
        BY <3>1, <3>2
    <2>15. \A j \in DOMAIN t : Origin(t[j])
      BY <1>3, <2>11 DEF ListInv
    <2>16. \A j, k \in DOMAIN t :
             t[j].name = t[k].name /\ t[j].type = t[k].type => j = k
      BY <1>3, <2>3, <2>5, <2>6, <2>7 DEF ListInv
    <2>17. \A j, k \in DOMAIN t : j < k /\ InPrefix(t, k) => ~Before(t[k], t[j])
      <3> SUFFICES ASSUME NEW j \in DOMAIN t, NEW k \in DOMAIN t, j < k, InPrefix(t, k)
                   PROVE  ~Before(t[k], t[j])
        OBVIOUS
      <3>1. CASE j # i /\ k # i
        BY <2>6, <2>7, <2>10, <3>1 DEF ListInv
      <3>2. CASE k = i
        <4>1. j \in 1 .. n /\ j < i /\ t[j] = list[j]
          BY <1>1, <1>2, <1>6, <2>4, <2>5, <3>2
        <4> QED
          BY <2>1, <2>5, <3>2, <4>1
      <3>3. CASE j = i /\ k # i
        <4>1. src(k) \in DOMAIN list /\ t[k] = list[src(k)] /\ InPrefix(list, src(k))
          BY <2>6, <2>10, <3>3
        <4>2. i <= src(k)
          BY <2>4, <2>5, <3>3 DEF src
        <4>3. i <= n /\ i \in DOMAIN list
          BY <1>1, <1>2, <1>6, <4>1, <4>2
        <4>4. ~(Rank[list[src(k)].name] < Rank[list[i].name])
          <5>1. CASE i = src(k)
            BY <1>1, <4>3, <5>1, Ranks
          <5>2. CASE i < src(k)
            BY <1>1, <4>1, <4>3, <5>2, Ranks DEF ListInv
          <5> QED
            BY <1>1, <4>1, <4>2, <4>3, <5>1, <5>2
        <4>5. Rank[p.name] < Rank[list[i].name]
          BY <1>1, <1>3, <2>2, <4>3, Ranks
        <4>6. list[i] \in Preset /\ list[src(k)] \in Preset
          BY <1>1, <4>1, <4>3
        <4> QED
          BY <1>3, <2>5, <3>3, <4>1, <4>4, <4>5, <4>6, Ranks
      <3> QED
        BY <3>1, <3>2, <3>3
    <2> QED
      BY <2>4, <2>5, <2>11, <2>12, <2>13, <2>14, <2>15, <2>16, <2>17 DEF ListInv
  <1> QED
    BY <1>8, <1>9

\* removePreset.
LEMMA Deleted ==
  ASSUME NEW list, ListInv(list), NEW i \in DOMAIN list, list[i].type = User,
         NEW t, t = removed(list, i)
  PROVE  /\ ListInv(t)
         /\ \A j \in DOMAIN t : \E k \in DOMAIN list : k # i /\ t[j] = list[k]
         /\ \A k \in DOMAIN list : k # i => \E j \in DOMAIN t : t[j] = list[k]
  <1> DEFINE l == Len(list)
             src(j) == IF j < i THEN j ELSE j + 1
  <1>1. list \in Seq(Preset) /\ l \in Nat /\ DOMAIN list = 1 .. l /\ i \in 1 .. l
    BY DEF ListInv
  <1>2. /\ t \in Seq(Preset) /\ Len(t) = l - 1
        /\ \A j \in 1 .. l - 1 : t[j] = IF j < i THEN list[j] ELSE list[j + 1]
    BY <1>1, RemovedAt
  <1> HIDE DEF l
  <1>3. DOMAIN t = 1 .. l - 1
    BY <1>1, <1>2
  <1>4. \A j \in DOMAIN t : src(j) \in DOMAIN list /\ src(j) # i /\ t[j] = list[src(j)]
    BY <1>1, <1>2, <1>3
  <1>5. \A j, k \in DOMAIN t :
          (j < k => src(j) < src(k)) /\ (src(j) <= src(k) => j <= k) /\ (src(j) = src(k) => j = k)
    BY <1>1, <1>3
  <1>6. \A k \in DOMAIN list : k # i => \E j \in DOMAIN t : src(j) = k
    <2> SUFFICES ASSUME NEW k \in DOMAIN list, k # i PROVE \E j \in DOMAIN t : src(j) = k
      OBVIOUS
    <2>1. CASE k < i
      BY <1>1, <1>3, <2>1
    <2>2. CASE k > i
      <3>1. k - 1 \in DOMAIN t /\ src(k - 1) = k
        BY <1>1, <1>3, <2>2
      <3> QED
        BY <3>1
    <2> QED
      BY <1>1, <2>1, <2>2
  <1> HIDE DEF src
  <1>7. ASSUME NEW j \in DOMAIN t, InPrefix(t, j)
        PROVE  InPrefix(list, src(j))
    <2> SUFFICES ASSUME NEW k \in 1 .. src(j), k # i PROVE list[k].type = User
      BY DEF InPrefix
    <2>1. k \in DOMAIN list
      BY <1>1, <1>4
    <2>2. PICK m \in DOMAIN t : src(m) = k
      BY <1>6, <2>1
    <2>3. m \in 1 .. j
      BY <1>1, <1>3, <1>4, <1>5, <2>2
    <2> QED
      BY <1>4, <1>7, <2>2, <2>3 DEF InPrefix
  <1>8. \A j \in DOMAIN t : Origin(t[j])
    BY <1>4 DEF ListInv
  <1>9. \A j, k \in DOMAIN t : t[j].name = t[k].name /\ t[j].type = t[k].type => j = k
    BY <1>4, <1>5 DEF ListInv
  <1>10. \A j, k \in DOMAIN t : j < k /\ InPrefix(t, k) => ~Before(t[k], t[j])
    BY <1>4, <1>5, <1>7 DEF ListInv
  <1>11. ListInv(t)
    BY <1>2, <1>8, <1>9, <1>10 DEF ListInv
  <1>12. \A k \in DOMAIN list : k # i => \E j \in DOMAIN t : t[j] = list[k]
    BY <1>4, <1>6
  <1>13. \A j \in DOMAIN t : \E k \in DOMAIN list : k # i /\ t[j] = list[k]
    BY <1>4
  <1> QED
    BY <1>11, <1>12, <1>13

\* renamePreset, to a name that is not in the list.
LEMMA Renamed ==
  ASSUME NEW list, ListInv(list), NEW i \in DOMAIN list, list[i].type = User,
         NEW g \in Given, \A k \in DOMAIN list : list[k].name # g,
         NEW p, p = makePreset(g), NEW t \in renamed(list, i, g)
  PROVE  /\ ListInv(t)
         /\ \A j \in DOMAIN t : t[j] = p \/ \E k \in DOMAIN list : k # i /\ t[j] = list[k]
         /\ \A k \in DOMAIN list : k # i => \E j \in DOMAIN t : t[j] = list[k]
         /\ \E j \in DOMAIN t : t[j] = p
  <1> DEFINE l == Len(list)
             u == [list EXCEPT ![i] = p]
             n == UserPrefix(u)
  <1>1. list \in Seq(Preset) /\ l \in Nat /\ DOMAIN list = 1 .. l
    BY DEF ListInv
  <1>2. p \in Preset /\ Origin(p) /\ p.type = User /\ p.name = g
    BY Made
  <1>3. /\ u \in Seq(Preset) /\ Len(u) = l /\ DOMAIN u = 1 .. l /\ u[i] = p
        /\ \A k \in 1 .. l : k # i => u[k] = list[k]
    BY <1>1, <1>2
  <1>4. t \in sortPresets(u)
    BY DEF renamed
  <1> HIDE DEF l, u
  <1>5. n \in 0 .. l /\ \A k \in 0 .. l : InPrefix(u, k) <=> k <= n
    BY <1>3, Prefix
  <1>6. /\ t \in Seq(Preset) /\ Len(t) = l
        /\ \A k \in 1 .. l : k > n => t[k] = u[k]
        /\ \A j, k \in 1 .. n : j < k => ~Before(t[k], t[j])
        /\ \E q \in [1 .. n -> 1 .. n] :
              /\ \A j, k \in 1 .. n : q[j] = q[k] => j = k
              /\ \A k \in 1 .. n : \E j \in 1 .. n : q[j] = k
              /\ \A k \in 1 .. n : t[k] = u[q[k]]
    BY <1>3, <1>4, SortedPrefix
  <1> HIDE DEF n
  <1>7. PICK q \in [1 .. n -> 1 .. n] :
              /\ \A j, k \in 1 .. n : q[j] = q[k] => j = k
              /\ \A k \in 1 .. n : \E j \in 1 .. n : q[j] = k
              /\ \A k \in 1 .. n : t[k] = u[q[k]]
    BY <1>6
  <1> DEFINE src(k) == IF k <= n THEN q[k] ELSE k
  <1>8. DOMAIN t = 1 .. l /\ DOMAIN u = DOMAIN list
    BY <1>1, <1>3, <1>6
  <1>9. \A k \in DOMAIN t : src(k) \in DOMAIN list /\ t[k] = u[src(k)]
    <2> SUFFICES ASSUME NEW k \in 1 .. l PROVE src(k) \in 1 .. l /\ t[k] = u[src(k)]
      BY <1>1, <1>8
    <2>1. CASE k <= n
      <3>1. k \in 1 .. n
        BY <1>1, <1>5, <2>1
      <3>2. q[k] \in 1 .. n /\ t[k] = u[q[k]]
        BY <1>7, <3>1
      <3>3. q[k] \in 1 .. l
        BY <1>1, <1>5, <3>2
      <3> QED
        BY <2>1, <3>2, <3>3
    <2>2. CASE ~(k <= n)
      <3>1. k > n
        BY <1>1, <1>5, <2>2
      <3> QED
        BY <1>6, <2>2, <3>1
    <2> QED
      BY <2>1, <2>2
  <1>10. \A j, k \in DOMAIN t : src(j) = src(k) => j = k
    <2> SUFFICES ASSUME NEW j \in DOMAIN t, NEW k \in DOMAIN t, src(j) = src(k) PROVE j = k
      OBVIOUS
    <2>1. j \in 1 .. l /\ k \in 1 .. l /\ (j <= n => q[j] \in 1 .. n) /\ (k <= n => q[k] \in 1 .. n)
      BY <1>1, <1>5, <1>7, <1>8
    <2>2. CASE j <= n /\ k <= n
      <3>1. j \in 1 .. n /\ k \in 1 .. n
        BY <2>1, <2>2, <1>1, <1>5
      <3> QED
        BY <1>7, <2>2, <3>1
    <2>3. CASE ~(j <= n) /\ ~(k <= n)
      BY <2>3
    <2>4. CASE j <= n /\ ~(k <= n)
      <3>1. q[j] = k /\ q[j] \in 1 .. n
        BY <2>1, <2>4
      <3> QED
        BY <1>5, <2>4, <3>1
    <2>5. CASE ~(j <= n) /\ k <= n
      <3>1. q[k] = j /\ q[k] \in 1 .. n
        BY <2>1, <2>5
      <3> QED
        BY <1>5, <2>5, <3>1
    <2> QED
      BY <2>2, <2>3, <2>4, <2>5
  <1>11. \A k \in DOMAIN list : \E j \in DOMAIN t : src(j) = k
    <2> SUFFICES ASSUME NEW k \in DOMAIN list PROVE \E j \in DOMAIN t : src(j) = k
      OBVIOUS
    <2>1. CASE k <= n
      <3>1. PICK j \in 1 .. n : q[j] = k
        BY <1>1, <1>7, <2>1
      <3>2. j \in DOMAIN t /\ src(j) = k
        BY <1>1, <1>5, <1>8, <3>1
      <3> QED
        BY <3>2
    <2>2. CASE ~(k <= n)
      BY <1>1, <1>8, <2>2
    <2> QED
      BY <2>1, <2>2
  <1> HIDE DEF src
  <1>12. \A j \in DOMAIN list : Origin(u[j])
    BY <1>1, <1>2, <1>3 DEF ListInv
  <1>13. \A j, k \in DOMAIN list : u[j].name = u[k].name /\ u[j].type = u[k].type => j = k
    BY <1>1, <1>2, <1>3 DEF ListInv
  <1>14. \A k \in 1 .. l : InPrefix(t, k) => k <= n
    <2> SUFFICES ASSUME NEW k \in 1 .. l, InPrefix(t, k), n < k PROVE FALSE
      BY <1>1, <1>5
    <2>1. n + 1 \in 1 .. l /\ ~InPrefix(u, n + 1) /\ InPrefix(u, n)
      BY <1>1, <1>5
    <2>2. u[n + 1].type # User
      <3>1. \A m \in 1 .. n + 1 : m = n + 1 \/ m \in 1 .. n
        BY <1>1, <1>5
      <3> QED
        BY <2>1, <3>1 DEF InPrefix
    <2>3. n + 1 \in 1 .. k /\ t[n + 1] = u[n + 1]
      BY <1>1, <1>5, <1>6, <2>1
    <2> QED
      BY <2>2, <2>3 DEF InPrefix
  <1>15. \A j, k \in DOMAIN t : j < k /\ InPrefix(t, k) => ~Before(t[k], t[j])
    <2> SUFFICES ASSUME NEW j \in DOMAIN t, NEW k \in DOMAIN t, j < k, InPrefix(t, k)
                 PROVE  ~Before(t[k], t[j])
      OBVIOUS
    <2>1. j \in 1 .. l /\ k \in 1 .. l
      BY <1>8
    <2>2. k <= n
      BY <1>14, <2>1
    <2>3. n \in Nat
      BY <1>1, <1>5
    <2>4. j \in 1 .. n /\ k \in 1 .. n
      BY <1>1, <2>1, <2>2, <2>3
    <2> QED
      BY <1>6, <2>4
  <1>16. ListInv(t)
    <2>1. \A j \in DOMAIN t : Origin(t[j])
      BY <1>9, <1>12
    <2>2. \A j, k \in DOMAIN t : t[j].name = t[k].name /\ t[j].type = t[k].type => j = k
      BY <1>9, <1>10, <1>13
    <2> QED
      BY <1>6, <1>15, <2>1, <2>2 DEF ListInv
  <1>17. \A j \in DOMAIN t : t[j] = p \/ \E k \in DOMAIN list : k # i /\ t[j] = list[k]
    BY <1>1, <1>3, <1>9
  <1>18. \A k \in DOMAIN list : k # i => \E j \in DOMAIN t : t[j] = list[k]
    BY <1>1, <1>3, <1>9, <1>11
  <1>19. \E j \in DOMAIN t : t[j] = p
    BY <1>3, <1>9, <1>11
  <1> QED
    BY <1>16, <1>17, <1>18, <1>19

\* The list as it is scanned.
LEMMA Begun ==
  ASSUME NEW list \in scanPresets(Files)
  PROVE  ListInv(list)
  <1>1. /\ list \in Seq(Preset) /\ Sorted(list)
        /\ \A i \in DOMAIN list : list[i].path \in Files /\ list[i] = Scanned(list[i].path)
        /\ \A i, j \in DOMAIN list : list[i] = list[j] => i = j
    BY ScannedList
  <1>2. ASSUME NEW i \in DOMAIN list, NEW j \in DOMAIN list,
               list[i].name = list[j].name, list[i].type = list[j].type
        PROVE  i = j
    <2>1. list[i].path = <<list[i].path[1], list[i].path[2]>> /\
          list[j].path = <<list[j].path[1], list[j].path[2]>>
      BY <1>1, ObjectsAssumption
    <2>2. /\ list[i].path[1] = list[i].type /\ list[i].path[2] = list[i].name
          /\ list[j].path[1] = list[j].type /\ list[j].path[2] = list[j].name
      BY <1>1 DEF Scanned
    <2>3. list[i].path = list[j].path
      BY <1>2, <2>1, <2>2
    <2> QED
      BY <1>1, <2>3
  <1> QED
    BY <1>1, <1>2 DEF ListInv, Origin, Sorted

--------------------------------------------------------------------------------
(* The shared list *)

Paths(list) == {list[i].path : i \in DOMAIN list}

\* what the completion of a save relies on
Saved(s, list) ==
  s.op = "write" =>
    \/ s.type = "program" /\ s.preset.path[1] # User
    \/ /\ s.type = "preset" /\ s.add
       /\ \E g \in Given : s.preset = makePreset(g) /\ Room(list, g)
    \/ s.type = "preset" /\ ~s.add /\ s.preset.path \in Paths(list)

\* a save that has written a new preset's file
Adds(s, success) == success /\ s.op = "write" /\ s.type = "preset" /\ s.add
Written == {results[i].cmd.preset.path :
              i \in {j \in DOMAIN results : Adds(results[j].cmd, results[j].success)}}

\* the files that hold a preset
Full == {path \in DOMAIN files : files[path] # None}

SavesInv == /\ \A i \in DOMAIN queue : Saved(queue[i], presets)
            /\ \A i \in DOMAIN results : Saved(results[i].cmd, presets)
FilesInv == /\ Paths(presets) \subseteq DOMAIN files
            /\ Written \subseteq DOMAIN files
            /\ \A path \in Full : path[1] = User => path \in Paths(presets) \cup Written
SharedInv == ListInv(presets) /\ SavesInv /\ FilesInv

LEMMA ListKept ==
  ASSUME SharedInv, UNCHANGED <<presets, results, files>>,
         \/ UNCHANGED queue
         \/ /\ queue \in Seq(ToSet(queue))
            /\ \E s : queue' = Append(queue, s) /\ Saved(s, presets)
  PROVE  SharedInv'
  <1>1. SavesInv'
    <2>1. CASE UNCHANGED queue
      BY <2>1 DEF SharedInv, SavesInv
    <2>2. ASSUME queue \in Seq(ToSet(queue)),
                 NEW s, queue' = Append(queue, s), Saved(s, presets)
          PROVE  SavesInv'
      <3>1. /\ DOMAIN queue' = DOMAIN queue \cup {Len(queue) + 1}
            /\ queue'[Len(queue) + 1] = s
            /\ \A i \in DOMAIN queue : queue'[i] = queue[i]
        BY <2>2, Appended
      <3> QED
        BY <2>2, <3>1 DEF SharedInv, SavesInv
    <2> QED
      BY <2>1, <2>2
  <1>2. FilesInv'
    BY DEF SharedInv, FilesInv, Written, Full
  <1> QED
    BY <1>1, <1>2 DEF SharedInv

\* What a save does to the files, and what its completion does to the list.
LEMMA FileWritten ==
  ASSUME NEW s, NEW success \in BOOLEAN, WriteDo(s, success)
  PROVE  /\ DOMAIN files \subseteq DOMAIN files'
         /\ success => s.preset.path \in DOMAIN files'
         /\ Full' \subseteq Full \cup (IF success THEN {s.preset.path} ELSE {})
  <1>1. CASE ~success /\ UNCHANGED files
    BY <1>1 DEF Full
  <1>2. ASSUME NEW value \in {None} \cup (IF success THEN {state[s.owner]} ELSE {}),
               files' = [path \in DOMAIN files \cup {s.preset.path} |->
                           IF path = s.preset.path THEN value ELSE files[path]]
        PROVE  /\ DOMAIN files \subseteq DOMAIN files' /\ s.preset.path \in DOMAIN files'
               /\ Full' \subseteq Full \cup (IF success THEN {s.preset.path} ELSE {})
    <2>1. DOMAIN files' = DOMAIN files \cup {s.preset.path}
      BY <1>2
    <2>2. \A path \in DOMAIN files' : path # s.preset.path => path \in DOMAIN files /\ files'[path] = files[path]
      BY <1>2
    <2>3. files'[s.preset.path] # None => success
      BY <1>2
    <2> QED
      BY <2>1, <2>2, <2>3 DEF Full
  <1> QED
    BY <1>1, <1>2 DEF WriteDo

LEMMA ListExtended ==
  ASSUME ListInv(presets), NEW s, NEW success, s.op = "write",
         Saved(s, presets), WriteDone(s, success)
  PROVE  /\ ListInv(presets')
         /\ Paths(presets') = Paths(presets)
                                \cup (IF Adds(s, success) THEN {s.preset.path} ELSE {})
         /\ \A c : Saved(c, presets) => Saved(c, presets')
  <1>1. CASE Adds(s, success)
    <2>1. PICK g \in Given : s.preset = makePreset(g) /\ Room(presets, g)
      BY <1>1 DEF Adds, Saved
    <2> DEFINE p == s.preset
    <2>2. presets' = addPreset(presets, p)
      BY <1>1 DEF Adds, WriteDone
    <2>3. p = makePreset(g)
      BY <2>1
    <2> HIDE DEF p
    <2>4. /\ ListInv(presets')
          /\ \A j \in DOMAIN presets' :
               presets'[j] = p \/ \E k \in DOMAIN presets : presets'[j] = presets[k]
          /\ \A k \in DOMAIN presets : \E j \in DOMAIN presets' : presets'[j] = presets[k]
          /\ \E j \in DOMAIN presets' : presets'[j] = p
          /\ \A h \in Given : Room(presets, h) => Room(presets', h)
      BY <2>1, <2>2, <2>3, Added
    <2>5. Paths(presets') = Paths(presets) \cup {p.path}
      BY <2>4 DEF Paths
    <2>6. \A c : Saved(c, presets) => Saved(c, presets')
      BY <2>4, <2>5 DEF Saved
    <2> QED
      BY <1>1, <2>4, <2>5, <2>6 DEF p
  <1>2. CASE ~Adds(s, success)
    <2>1. presets' = presets
      BY <1>2 DEF Adds, WriteDone
    <2> QED
      BY <1>2, <2>1
  <1> QED
    BY <1>1, <1>2

LEMMA SharedPerform ==
  ASSUME SharedInv, NEW s, Saved(s, presets), Perform(s)
  PROVE  SharedInv'
  <1>1. PICK success \in BOOLEAN : Do(s, success) /\ Done(s, success, state')
    BY DEF Perform
  <1>2. UNCHANGED <<queue, results>>
    BY DEF Perform
  <1>3. CASE s.op # "write"
    <2>1. UNCHANGED <<presets, files>>
      BY <1>1, <1>3 DEF Do, Done, ReadDo, ReadDone
    <2> QED
      BY <1>2, <2>1, ListKept
  <1>4. CASE s.op = "write"
    <2>1. WriteDo(s, success) /\ WriteDone(s, success)
      BY <1>1, <1>4 DEF Do, Done
    <2>2. /\ DOMAIN files \subseteq DOMAIN files'
          /\ success => s.preset.path \in DOMAIN files'
          /\ Full' \subseteq Full \cup (IF success THEN {s.preset.path} ELSE {})
      BY <2>1, FileWritten
    <2>3. /\ ListInv(presets')
          /\ Paths(presets') = Paths(presets)
                                 \cup (IF Adds(s, success) THEN {s.preset.path} ELSE {})
          /\ \A c : Saved(c, presets) => Saved(c, presets')
      BY <1>4, <2>1, ListExtended DEF SharedInv
    <2>4. SavesInv'
      BY <1>2, <2>3 DEF SharedInv, SavesInv
    <2>5. Written' = Written
      BY <1>2 DEF Written
    <2>6. success => \/ s.preset.path[1] # User
                     \/ Adds(s, success)
                     \/ s.preset.path \in Paths(presets)
      BY <1>4 DEF Saved, Adds
    <2>7. Adds(s, success) => success
      BY DEF Adds
    <2>8. FilesInv'
      BY <2>2, <2>3, <2>5, <2>6, <2>7 DEF SharedInv, FilesInv
    <2> QED
      BY <2>3, <2>4, <2>8 DEF SharedInv
  <1> QED
    BY <1>3, <1>4

LEMMA SharedSend ==
  ASSUME SharedInv, TypesInv, NEW s, Saved(s, presets), Send(s)
  PROVE  SharedInv'
  BY ListKept DEF Send, TypesInv

LEMMA SharedData ==
  ASSUME SharedInv, NEW o \in Objects, vstplugin_preset_data_set(o)
  PROVE  SharedInv'
  BY ListKept DEF vstplugin_preset_data_set

LEMMA SharedFile ==
  ASSUME SharedInv, TypesInv, NEW o \in Objects, vstplugin_preset_file(o)
  PROVE  SharedInv'
  <1> DEFINE Cmd(op) == Command(o, op, "program", SomeFile, FALSE)
  <1>1. PICK op \in {"read", "write"} : Perform(Cmd(op)) \/ Send(Cmd(op))
    BY DEF vstplugin_preset_file
  <1>2. Cmd(op).type = "program" /\ Cmd(op).preset.path[1] # User
    BY DEF Command, SomeFile, User
  <1> HIDE DEF Cmd
  <1>3. Saved(Cmd(op), presets)
    BY <1>2 DEF Saved
  <1> QED
    BY <1>1, <1>3, SharedPerform, SharedSend

LEMMA SharedLoad ==
  ASSUME SharedInv, TypesInv, NEW o \in Objects, vstplugin_preset_load(o)
  PROVE  SharedInv'
  <1> DEFINE Cmd(i) == Command(o, "read", "preset", presets[i], FALSE)
  <1>1. PICK i : \/ Send(Cmd(i))
                 \/ UNCHANGED <<presets, files, queue, results>>
    <2>1. PICK arg \in Arguments :
            LET i == preset_index(o, arg)
            IN  IF i = 0
                THEN UNCHANGED <<presets, files, state, x_preset, x_command, shown, queue, results, stale>>
                ELSE \/ Send(Cmd(i))
                     \/ \E success \in BOOLEAN :
                          /\ ReadDo(Cmd(i), success)
                          /\ UNCHANGED <<presets, x_command, queue, results>>
      BY DEF vstplugin_preset_load
    <2> QED
      BY <2>1 DEF ReadDo
  <1>2. Cmd(i).op = "read"
    BY DEF Command
  <1> HIDE DEF Cmd
  <1>3. Saved(Cmd(i), presets)
    BY <1>2 DEF Saved
  <1> QED
    BY <1>1, <1>3, SharedSend, ListKept

\* what an argument stands for: a preset of the list, or none of this name
LEMMA Indexed ==
  ASSUME ListInv(presets), NEW o \in Objects, NEW arg \in Arguments
  PROVE  /\ preset_index(o, arg) # 0 => preset_index(o, arg) \in DOMAIN presets
         /\ preset_index(o, arg) = 0 /\ arg[1] = "name" =>
              /\ arg[2] \in Given
              /\ \A i \in DOMAIN presets : presets[i].name # arg[2]
  <1>1. presets \in Seq(Preset)
    BY DEF ListInv
  <1>2. CASE arg \in {<<"index", i>> : i \in DOMAIN presets}
    BY <1>2 DEF preset_index
  <1>3. CASE arg = <<"current", 0>>
    <2>1. preset_index(o, arg) = IF x_preset[o] = None THEN 0 ELSE findPreset(presets, x_preset[o])
      BY <1>3 DEF preset_index
    <2>2. arg[1] # "name"
      BY <1>3
    <2>3. LET f == findPreset(presets, x_preset[o]) IN f # 0 => f \in DOMAIN presets
      BY <1>1, Found
    <2> QED
      BY <2>1, <2>2, <2>3
  <1>4. CASE arg \in {<<"name", name>> : name \in Given}
    <2>1. arg[1] = "name" /\ arg[2] \in Given
      BY <1>4
    <2>2. preset_index(o, arg) = findPreset(presets, arg[2])
      BY <2>1 DEF preset_index
    <2> DEFINE f == findPreset(presets, arg[2])
    <2>3. IF f = 0 THEN \A i \in DOMAIN presets : presets[i].name # arg[2]
          ELSE f \in DOMAIN presets /\ presets[f].name = arg[2]
      BY <1>1, Found
    <2> QED
      BY <2>1, <2>2, <2>3
  <1> QED
    BY <1>2, <1>3, <1>4 DEF Arguments

LEMMA SharedSave ==
  ASSUME SharedInv, TypesInv, NEW o \in Objects, vstplugin_preset_save(o)
  PROVE  SharedInv'
  <1> DEFINE Cmd(arg, i) == Command(o, "write", "preset", Target(arg, i), i = 0)
  <1>1. PICK arg \in Arguments :
          LET i == preset_index(o, arg)
          IN  IF MaySave(arg, i) THEN Perform(Cmd(arg, i)) \/ Send(Cmd(arg, i))
              ELSE UNCHANGED <<presets, files, state, x_preset, x_command, shown, queue, results, stale>>
    BY DEF vstplugin_preset_save
  <1> DEFINE i == preset_index(o, arg)
             s == Cmd(arg, i)
  <1>2. \/ MaySave(arg, i) /\ (Perform(s) \/ Send(s))
        \/ UNCHANGED <<presets, files, queue, results>>
    BY <1>1
  <1>3. /\ i # 0 => i \in DOMAIN presets
        /\ i = 0 /\ arg[1] = "name" =>
              arg[2] \in Given /\ \A k \in DOMAIN presets : presets[k].name # arg[2]
    BY Indexed DEF SharedInv
  <1> HIDE DEF i
  <1>4. /\ s.type = "preset" /\ s.preset = Target(arg, i)
        /\ (s.add <=> i = 0)
    BY DEF Command
  <1> HIDE DEF s
  <1>5. CASE MaySave(arg, i)
    <2>1. Saved(s, presets)
      <3>1. CASE i = 0
        <4>1. arg[2] \in Given /\ Room(presets, arg[2]) /\ s.preset = makePreset(arg[2]) /\ s.add
          BY <1>3, <1>4, <1>5, <3>1 DEF MaySave, Target, Room
        <4> QED
          BY <1>4, <4>1 DEF Saved
      <3>2. CASE i # 0
        BY <1>3, <1>4, <3>2 DEF Saved, Target, Paths
      <3> QED
        BY <3>1, <3>2
    <2> QED
      BY <1>2, <2>1, SharedPerform, SharedSend, ListKept
  <1> QED
    BY <1>2, <1>5, ListKept

\* While no save is under way, the list and the files alone say what is written.
LEMMA NoSave ==
  ASSUME SharedInv, ~Saving
  PROVE  /\ Written = {}
         /\ \A i \in DOMAIN queue : queue[i].op # "write"
         /\ \A i \in DOMAIN results : results[i].cmd.op # "write"
  <1>1. \A i \in DOMAIN queue : queue[i].op # "write"
    BY DEF Saving, ToSet
  <1>2. \A i \in DOMAIN results : results[i].cmd.op # "write"
    BY DEF Saving, ToSet
  <1> QED
    BY <1>1, <1>2 DEF Written, Adds

LEMMA SharedRename ==
  ASSUME ~Overlap, ~Onto, OwnFiles,
         SharedInv, NEW o \in Objects, vstplugin_preset_rename(o)
  PROVE  SharedInv'
  <1>1. PICK arg \in Arguments, g \in Given :
          LET i == preset_index(o, arg)
          IN  /\ isUser(presets, i) /\ findPreset(presets, g) = 0
              /\ presets' \in renamed(presets, i, g)
              /\ files' = [path \in (DOMAIN files \ {presets[i].path}) \cup {makePreset(g).path} |->
                             IF path = makePreset(g).path THEN files[presets[i].path]
                             ELSE files[path]]
    BY DEF vstplugin_preset_rename
  <1> DEFINE i == preset_index(o, arg)
             old == presets[i]
             new == makePreset(g)
  <1>2. /\ i \in DOMAIN presets /\ old.type = User
        /\ presets' \in renamed(presets, i, g)
        /\ DOMAIN files' = (DOMAIN files \ {old.path}) \cup {new.path}
        /\ Full' \subseteq (Full \ {old.path}) \cup {new.path}
    BY <1>1 DEF isUser, Full
  <1>3. \A k \in DOMAIN presets : presets[k].name # g
    BY <1>1, Found DEF SharedInv, ListInv
  <1>4. UNCHANGED <<queue, results>> /\ ~Saving
    BY DEF vstplugin_preset_rename, Quiet
  <1> HIDE DEF i, new
  <1>5. /\ ListInv(presets')
        /\ \A j \in DOMAIN presets' :
             presets'[j] = new \/ \E k \in DOMAIN presets : k # i /\ presets'[j] = presets[k]
        /\ \A k \in DOMAIN presets : k # i => \E j \in DOMAIN presets' : presets'[j] = presets[k]
        /\ \E j \in DOMAIN presets' : presets'[j] = new
    <2>1. ListInv(presets) /\ new = makePreset(g)
      BY DEF SharedInv, new
    <2> QED
      BY <1>2, <1>3, <2>1, Renamed
  <1>6. \A k \in DOMAIN presets : k # i => presets[k].path # old.path
    BY <1>2, SameFile DEF SharedInv, ListInv
  <1>7. Paths(presets') = (Paths(presets) \ {old.path}) \cup {new.path}
    BY <1>2, <1>5, <1>6 DEF Paths
  <1>8. /\ Written = {} /\ Written' = Written
        /\ \A k \in DOMAIN queue : queue[k].op # "write"
        /\ \A k \in DOMAIN results : results[k].cmd.op # "write"
    BY <1>4, NoSave DEF Written
  <1>9. SavesInv'
    BY <1>4, <1>8 DEF SavesInv, Saved
  <1>10. FilesInv'
    BY <1>2, <1>7, <1>8 DEF SharedInv, FilesInv
  <1> QED
    BY <1>5, <1>9, <1>10 DEF SharedInv

LEMMA SharedDelete ==
  ASSUME ~Overlap, OwnFiles, SharedInv, NEW o \in Objects, vstplugin_preset_delete(o)
  PROVE  SharedInv'
  <1>1. PICK arg \in Arguments :
          LET i == preset_index(o, arg)
          IN  /\ isUser(presets, i) /\ presets' = removed(presets, i)
              /\ files' = [path \in DOMAIN files \ {presets[i].path} |-> files[path]]
    BY DEF vstplugin_preset_delete
  <1> DEFINE i == preset_index(o, arg)
             old == presets[i]
  <1>2. /\ i \in DOMAIN presets /\ old.type = User
        /\ presets' = removed(presets, i)
        /\ DOMAIN files' = DOMAIN files \ {old.path}
        /\ Full' \subseteq Full \ {old.path}
    BY <1>1 DEF isUser, Full
  <1>3. UNCHANGED <<queue, results>> /\ ~Saving
    BY DEF vstplugin_preset_delete, Quiet
  <1> HIDE DEF i
  <1>4. /\ ListInv(presets')
        /\ \A j \in DOMAIN presets' : \E k \in DOMAIN presets : k # i /\ presets'[j] = presets[k]
        /\ \A k \in DOMAIN presets : k # i => \E j \in DOMAIN presets' : presets'[j] = presets[k]
    BY <1>2, Deleted DEF SharedInv
  <1>5. \A k \in DOMAIN presets : k # i => presets[k].path # old.path
    BY <1>2, SameFile DEF SharedInv, ListInv
  <1>6. Paths(presets') = Paths(presets) \ {old.path}
    BY <1>2, <1>4, <1>5 DEF Paths
  <1>7. /\ Written = {} /\ Written' = Written
        /\ \A k \in DOMAIN queue : queue[k].op # "write"
        /\ \A k \in DOMAIN results : results[k].cmd.op # "write"
    BY <1>3, NoSave DEF Written
  <1>8. SavesInv'
    BY <1>3, <1>7 DEF SavesInv, Saved
  <1>9. FilesInv'
    BY <1>2, <1>6, <1>7 DEF SharedInv, FilesInv
  <1> QED
    BY <1>4, <1>8, <1>9 DEF SharedInv

LEMMA SharedWorker == ASSUME SharedInv, TypesInv, WorkerDo PROVE SharedInv'
  <1> DEFINE s == Head(queue)
             n == Len(results) + 1
  <1>1. PICK success \in BOOLEAN :
          Do(s, success) /\ results' = Append(results, [cmd |-> s, success |-> success])
    BY DEF WorkerDo
  <1>2. queue # <<>> /\ queue' = Tail(queue) /\ UNCHANGED presets
    BY DEF WorkerDo
  <1>3. /\ 1 \in DOMAIN queue /\ s = queue[1]
        /\ \A i \in DOMAIN queue' : i + 1 \in DOMAIN queue /\ queue'[i] = queue[i + 1]
    BY <1>2, Shortened DEF TypesInv
  <1>4. /\ DOMAIN results' = DOMAIN results \cup {n} /\ n \notin DOMAIN results
        /\ results'[n] = [cmd |-> s, success |-> success]
        /\ \A i \in DOMAIN results : results'[i] = results[i]
    <2>1. results \in Seq(ToSet(results))
      BY DEF TypesInv
    <2> QED
      BY <1>1, <2>1, Appended
  <1> HIDE DEF s, n
  <1>5. results'[n].cmd = s /\ (results'[n].success <=> success)
    BY <1>4
  <1>6. Saved(s, presets)
    BY <1>3 DEF SharedInv, SavesInv
  <1>7. SavesInv'
    BY <1>2, <1>3, <1>4, <1>5, <1>6 DEF SharedInv, SavesInv
  <1>8. Written' = Written \cup (IF Adds(s, success) THEN {s.preset.path} ELSE {})
    BY <1>4, <1>5 DEF Written, Adds
  <1>9. FilesInv'
    <2>1. CASE s.op # "write"
      <3>1. UNCHANGED files
        BY <1>1, <2>1 DEF Do, ReadDo
      <3> QED
        BY <1>2, <1>8, <2>1, <3>1 DEF SharedInv, FilesInv, Adds, Full
    <2>2. CASE s.op = "write"
      <3>1. /\ DOMAIN files \subseteq DOMAIN files'
            /\ success => s.preset.path \in DOMAIN files'
            /\ Full' \subseteq Full \cup (IF success THEN {s.preset.path} ELSE {})
        BY <1>1, <2>2, FileWritten DEF Do
      <3>2. success => \/ s.preset.path[1] # User
                       \/ Adds(s, success)
                       \/ s.preset.path \in Paths(presets)
        BY <1>6, <2>2 DEF Saved, Adds
      <3>3. Adds(s, success) => success
        BY DEF Adds
      <3> QED
        BY <1>2, <1>8, <3>1, <3>2, <3>3 DEF SharedInv, FilesInv
    <2> QED
      BY <2>1, <2>2
  <1> QED
    BY <1>2, <1>7, <1>9 DEF SharedInv

LEMMA SharedPoll == ASSUME SharedInv, TypesInv, Poll PROVE SharedInv'
  <1> DEFINE r == Head(results)
             s == r.cmd
             success == r.success
  <1>1. /\ results # <<>> /\ results' = Tail(results)
        /\ Done(s, success, state) /\ UNCHANGED <<files, queue>>
    BY DEF Poll
  <1>2. /\ 1 \in DOMAIN results /\ r = results[1]
        /\ \A i \in DOMAIN results' : i + 1 \in DOMAIN results /\ results'[i] = results[i + 1]
    BY <1>1, Shortened DEF TypesInv
  <1>3. \A i \in DOMAIN results : i = 1 \/ \E j \in DOMAIN results' : results'[j] = results[i]
    <2>1. results \in Seq(ToSet(results))
      BY DEF TypesInv
    <2> SUFFICES ASSUME NEW i \in DOMAIN results, i # 1
                 PROVE  \E j \in DOMAIN results' : results'[j] = results[i]
      OBVIOUS
    <2>2. i \in 2 .. Len(results) /\ Len(results) \in Nat
      BY <2>1
    <2>3. Len(Tail(results)) = Len(results) - 1 /\ DOMAIN Tail(results) = 1 .. Len(results) - 1
      BY <1>1, <2>1
    <2>4. i - 1 \in DOMAIN results' /\ (i - 1) + 1 = i
      BY <1>1, <2>2, <2>3
    <2> QED
      BY <1>2, <2>4
  <1> HIDE DEF r
  <1>4. Saved(s, presets)
    BY <1>2 DEF SharedInv, SavesInv
  <1> HIDE DEF s, success
  <1>5. /\ ListInv(presets')
        /\ Paths(presets') = Paths(presets)
                               \cup (IF Adds(s, success) THEN {s.preset.path} ELSE {})
        /\ \A c : Saved(c, presets) => Saved(c, presets')
    <2>1. CASE s.op = "write"
      BY <1>1, <1>4, <2>1, ListExtended DEF SharedInv, Done
    <2>2. CASE s.op # "write"
      <3>1. UNCHANGED presets /\ ~Adds(s, success)
        BY <1>1, <2>2 DEF Done, ReadDone, Adds
      <3> QED
        BY <3>1 DEF SharedInv
    <2> QED
      BY <2>1, <2>2
  <1>6. SavesInv'
    BY <1>1, <1>2, <1>5 DEF SharedInv, SavesInv
  <1>7. /\ Written' \subseteq Written
        /\ Written \subseteq Written' \cup (IF Adds(s, success) THEN {s.preset.path} ELSE {})
        /\ Adds(s, success) => s.preset.path \in Written
    <2>1. \A i \in DOMAIN results' : \E j \in DOMAIN results : results'[i] = results[j]
      BY <1>2
    <2>2. results[1].cmd = s /\ results[1].success = success
      BY <1>2 DEF s, success
    <2> QED
      BY <1>2, <1>3, <2>1, <2>2 DEF Written
  <1>8. FilesInv'
    BY <1>1, <1>5, <1>7 DEF SharedInv, FilesInv, Full
  <1> QED
    BY <1>5, <1>6, <1>8 DEF SharedInv

LEMMA SharedInit == Init => SharedInv
  <1> SUFFICES ASSUME Init PROVE SharedInv
    OBVIOUS
  <1>1. presets \in scanPresets(Files) /\ DOMAIN files = Files /\ queue = <<>> /\ results = <<>>
    BY DEF Init
  <1>2. ListInv(presets)
    BY <1>1, Begun
  <1>3. SavesInv
    BY <1>1 DEF SavesInv
  <1>4. Paths(presets) = Files
    BY <1>1, ScannedList DEF Paths
  <1>5. Written = {}
    BY <1>1 DEF Written
  <1> QED
    BY <1>1, <1>2, <1>3, <1>4, <1>5 DEF SharedInv, FilesInv, Full

LEMMA SharedStep ==
  ASSUME ~Overlap, ~Onto, OwnFiles
  PROVE  SharedInv /\ IInv /\ [Next]_vars => SharedInv'
  <1> SUFFICES ASSUME SharedInv, TypesInv, [Next]_vars PROVE SharedInv'
    BY DEF IInv
  <1>1. CASE UNCHANGED vars
    BY <1>1, ListKept DEF vars
  <1> QED
    BY <1>1, SharedData, SharedFile, SharedLoad, SharedSave, SharedRename, SharedDelete,
       SharedWorker, SharedPoll
    DEF Next

LEMMA ListMatches == ASSUME SharedInv PROVE ListMatchesFiles
  <1>1. Written \subseteq Pending
    BY DEF Written, Pending
  <1>2. \A i \in DOMAIN presets : presets[i].path \in DOMAIN files
    BY DEF SharedInv, FilesInv, Paths
  <1>3. \A path \in DOMAIN files : path[1] = User /\ files[path] # None =>
          path \in Pending \/ \E i \in DOMAIN presets : presets[i].path = path
    BY <1>1 DEF SharedInv, FilesInv, Paths, Full
  <1> QED
    BY <1>2, <1>3 DEF SharedInv, ListInv, ListMatchesFiles

\* The shared list and the files agree, whatever the objects load and save at the same time
\* and in whatever order it ends: no preset is listed twice, every preset has its file, and
\* every file in the user's folder that holds a preset is listed or will be by the completion
\* of the save that wrote it, whichever saves fail and leave a file that is none
\* (vstplugin_preset_write_do, addPreset, renamePreset, removePreset).  Presets are renamed and deleted when no save is under way, and not renamed to a
\* name there is; no two names of the user's presets share a file.
THEOREM PresetsListMatchesFiles ==
  ASSUME ~Overlap, ~Onto, OwnFiles
  PROVE  Spec => []ListMatchesFiles
  <1>1. SharedInv /\ IInv /\ [Next]_vars => SharedInv'
    BY SharedStep
  <1>2. SharedInv => ListMatchesFiles
    BY ListMatches
  <1> QED
    BY <1>1, <1>2, SharedInit, PresetsInvariant, PTL DEF Spec
================================================================================
