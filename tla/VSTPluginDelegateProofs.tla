------------------------ MODULE VSTPluginDelegateProofs ------------------------
(***************************************************************************)
(* Theorems about VSTPluginDelegate, for any number of plugin instances    *)
(* and of commands in flight, whether or not memory may run out.           *)
(*                                                                         *)
(* First, that commands find the plugin they were sent for and share it    *)
(* with nobody (IInv).  Then who owns each plugin, and where it is made    *)
(* and destroyed: it changes hands three times at most, from the open      *)
(* command that made it to the delegate, from the delegate to the close    *)
(* command, and there it ends (OwnInv); every other step leaves alone      *)
(* whoever holds a plugin (Continues).  From both it follows that the      *)
(* delegate implements PluginLifecycle: threads are inside plugin_ only    *)
(* (InsideInv), and what a close command destroys is no longer plugin_.    *)
(***************************************************************************)
EXTENDS VSTPluginDelegate, TLAPS, SequenceTheorems

USE DEF fifos, threads, fate

\* stages 2 and 3 are still to be done
Pending(s) == cmd[s].stage \in {2, 3}

--------------------------------------------------------------------------------
(* The inductive invariant *)

\* What a thread is working on is where the thread will look for it.
HeadsInv ==
  /\ nrt # "idle" => /\ toNrt # <<>>
                     /\ Calling(cmd[Head(toNrt)])
                     /\ cmd[Head(toNrt)].stage = 2
  /\ rt = "stage3" => /\ toRt # <<>>
                      /\ cmd[Head(toRt)].op = "read"
                      /\ cmd[Head(toRt)].stage = 3

\* Only one plugin is being loaded, and nothing else is going on meanwhile.
LoadingInv ==
  /\ \A s \in Slots : cmd[s].op = "open" /\ Pending(s)
                      => dlg.plugin = NoPlugin /\ dlg.isLoading
  /\ \A s, t \in Slots : /\ cmd[s].op = "open" /\ Pending(s)
                         /\ cmd[t].op = "open" /\ Pending(t)
                         => s = t
  /\ rt = "write" => dlg.alive /\ dlg.plugin # NoPlugin

\* One command at a time suspends the UGen, until its stage 3 resumes it.
SuspensionInv ==
  /\ \A s \in Slots : cmd[s].op = "reset" => cmd[s].async
  /\ \A s \in Slots : /\ Locking(cmd[s]) /\ Pending(s)
                      /\ ~(rt = "stage3" /\ s = Head(toRt))
                      => dlg.suspended
  /\ \A s, t \in Slots : /\ Locking(cmd[s]) /\ Pending(s)
                         /\ Locking(cmd[t]) /\ Pending(t)
                         => s = t

\* Who is in a suspended plugin holds the mutex.
MutexInv ==
  /\ nrt # "idle" /\ Locking(cmd[Head(toNrt)]) => mutex = "nrt"
  /\ rt = "next" /\ dlg.suspended => mutex = "rt"
  /\ rt \in {"call", "write"} => ~dlg.suspended

Safe == /\ CommandsHavePlugin
        /\ HeadsInv
        /\ LoadingInv
        /\ SuspensionInv
        /\ MutexInv

IInv == TypeOK /\ Safe

--------------------------------------------------------------------------------
(* Sequences and commands *)

LEMMA ConcatFacts ==
  ASSUME NEW S, NEW q \in Seq(S), NEW r \in Seq(S)
  PROVE  /\ q \o r \in Seq(S)
         /\ q # <<>> => q \o r # <<>> /\ Head(q \o r) = Head(q)
  <1>1. q \o r \in Seq(S) /\ Len(q \o r) = Len(q) + Len(r)
    BY ConcatProperties
  <1>2. ASSUME q # <<>> PROVE q \o r # <<>> /\ Head(q \o r) = Head(q)
    <2>1. Len(q) \in Nat \ {0} /\ Len(r) \in Nat
      BY <1>2, EmptySeq, LenProperties
    <2>2. (q \o r)[1] = q[1]
      BY <2>1, ConcatProperties
    <2>3. q \o r # <<>>
      BY <1>1, <2>1, EmptySeq
    <2> QED BY <1>1, <1>2, <2>2, <2>3
  <1> QED BY <1>1, <1>2

LEMMA AppendFacts ==
  ASSUME NEW S, NEW q \in Seq(S), NEW e \in S
  PROVE  /\ Append(q, e) \in Seq(S)
         /\ q # <<>> => Append(q, e) # <<>> /\ Head(Append(q, e)) = Head(q)
  <1>1. Append(q, e) \in Seq(S) /\ Len(Append(q, e)) = Len(q) + 1
    OBVIOUS
  <1>2. ASSUME q # <<>> PROVE Append(q, e) # <<>> /\ Head(Append(q, e)) = Head(q)
    <2>1. Len(q) \in Nat \ {0}
      BY <1>2, EmptySeq
    <2>2. Append(q, e)[1] = q[1]
      BY <2>1
    <2>3. Append(q, e) # <<>>
      BY <1>1, <2>1, EmptySeq
    <2> QED BY <1>1, <1>2, <2>2, <2>3
  <1> QED BY <1>1, <1>2

LEMMA HeadFacts ==
  ASSUME NEW S, NEW q \in Seq(S), q # <<>>
  PROVE  Head(q) \in S /\ Tail(q) \in Seq(S)
  BY HeadTailProperties

LEMMA CommandFacts ==
  /\ Free \in Commands
  /\ \A op \in {"vis", "reset", "read", "write", "vendor"}, async \in BOOLEAN :
       Command(op, async) \in Commands
  /\ \A gui \in BOOLEAN : Opening(gui) \in Commands
  /\ TypeOK => Closing(dlg) \in Commands
  BY DEF Free, Commands, Command, Opening, Closing, TypeOK, Delegates

\* the same facts for the two FIFOs
LEMMA FifoFacts ==
  ASSUME TypeOK
  PROVE  /\ \A s \in Slots :
              /\ Append(toNrt, s) \in Seq(Slots) /\ Append(toRt, s) \in Seq(Slots)
              /\ toNrt # <<>> => /\ Append(toNrt, s) # <<>>
                                /\ Head(Append(toNrt, s)) = Head(toNrt)
              /\ toRt # <<>> => /\ Append(toRt, s) # <<>>
                               /\ Head(Append(toRt, s)) = Head(toRt)
         /\ \A s, t \in Slots :
              /\ toNrt \o <<s, t>> \in Seq(Slots)
              /\ toNrt # <<>> => /\ toNrt \o <<s, t>> # <<>>
                                /\ Head(toNrt \o <<s, t>>) = Head(toNrt)
         /\ toNrt # <<>> => Head(toNrt) \in Slots /\ Tail(toNrt) \in Seq(Slots)
         /\ toRt # <<>> => Head(toRt) \in Slots /\ Tail(toRt) \in Seq(Slots)
  <1>1. toNrt \in Seq(Slots) /\ toRt \in Seq(Slots)
    BY DEF TypeOK
  <1>2. \A s, t \in Slots : <<s, t>> \in Seq(Slots)
    OBVIOUS
  <1>3. \A s, t \in Slots :
          /\ toNrt \o <<s, t>> \in Seq(Slots)
          /\ toNrt # <<>> => /\ toNrt \o <<s, t>> # <<>>
                            /\ Head(toNrt \o <<s, t>>) = Head(toNrt)
    BY <1>1, <1>2, ConcatFacts
  <1> QED BY <1>1, <1>3, AppendFacts, HeadFacts

--------------------------------------------------------------------------------
(* Type correctness *)

\* what the actions make of a command
LEMMA CommandSteps ==
  ASSUME NEW c \in Commands
  PROVE  /\ \A st \in {3, 4, 5} : [c EXCEPT !.stage = st] \in Commands
         /\ \A p \in Plugins :
              [c EXCEPT !.stage = 3, !.plugin = p] \in Commands
         /\ [c EXCEPT !.stage = 5, !.plugin = NoPlugin] \in Commands
         /\ c.plugin \in Plugins \cup {NoPlugin}
  BY DEF Commands

\* what the actions make of the delegate
LEMMA DelegateSteps ==
  ASSUME NEW d \in Delegates
  PROVE  /\ \A b \in BOOLEAN :
              /\ [d EXCEPT !.alive = b] \in Delegates
              /\ [d EXCEPT !.suspended = b] \in Delegates
              /\ [d EXCEPT !.editor = b, !.isLoading = TRUE] \in Delegates
         /\ \A b \in BOOLEAN, p \in Plugins \cup {NoPlugin} :
              [d EXCEPT !.isLoading = FALSE, !.plugin = p, !.listener = b]
                \in Delegates
         /\ Detached(d) \in Delegates
         /\ Closing(d) \in Commands
         /\ d.plugin \in Plugins \cup {NoPlugin}
         /\ d.suspended \in BOOLEAN /\ d.alive \in BOOLEAN
  BY DEF Delegates, Detached, Closing, Command, Free, Commands

\* a command moves on from the head of a FIFO
LEMMA HeadSteps ==
  ASSUME TypeOK, NEW h \in Slots
  PROVE  /\ \A c \in Commands : [cmd EXCEPT ![h] = c] \in [Slots -> Commands]
         /\ \A st \in {3, 4, 5} :
              /\ [cmd EXCEPT ![h].stage = st] \in [Slots -> Commands]
              /\ [cmd[h] EXCEPT !.stage = st] \in Commands
         /\ \A p \in Plugins :
              [cmd[h] EXCEPT !.stage = 3, !.plugin = p] \in Commands
         /\ [cmd[h] EXCEPT !.stage = 5, !.plugin = NoPlugin] \in Commands
         /\ [cmd EXCEPT ![h].stage = 5, ![h].plugin = NoPlugin]
              \in [Slots -> Commands]
         /\ cmd[h].plugin \in Plugins \cup {NoPlugin}
  <1>1. cmd \in [Slots -> Commands] /\ cmd[h] \in Commands
    BY DEF TypeOK
  <1>2. \A st \in {3, 4, 5} :
          [cmd EXCEPT ![h].stage = st] = [cmd EXCEPT ![h] = [cmd[h] EXCEPT !.stage = st]]
    BY <1>1
  <1>3. [cmd EXCEPT ![h].stage = 5, ![h].plugin = NoPlugin]
          = [cmd EXCEPT ![h] = [cmd[h] EXCEPT !.stage = 5, !.plugin = NoPlugin]]
    BY <1>1
  <1>4. \A c \in Commands : [cmd EXCEPT ![h] = c] \in [Slots -> Commands]
    BY <1>1
  <1> QED BY <1>1, <1>2, <1>3, <1>4, CommandSteps

LEMMA DestructType ==
  ASSUME TypeOK, NEW t \in {"rt", "ui"}, NEW d \in Delegates,
         NEW table \in [Slots -> Commands], Destruct(t, d, table)
  PROVE  /\ dlg' \in Delegates /\ cmd' \in [Slots -> Commands]
         /\ toNrt' \in Seq(Slots) /\ reaped' \in {"no", "rt", "ui"}
         /\ life' \in [Plugins -> {"none", "nrt", "ui", "gone"}]
  <1>1. dlg' \in Delegates /\ Closing(d) \in Commands
    BY DelegateSteps DEF Destruct
  <1>2. \A s \in Slots : Append(toNrt, s) \in Seq(Slots)
    BY FifoFacts
  <1> QED BY <1>1, <1>2 DEF TypeOK, Destruct

LEMMA TypeStep == TypeOK /\ HeadsInv /\ [Next]_vars => TypeOK'
  <1> SUFFICES ASSUME TypeOK, HeadsInv, [Next]_vars PROVE TypeOK'
    OBVIOUS
  <1>q. \A s, t \in Slots : /\ Append(toNrt, s) \in Seq(Slots)
                            /\ Append(toRt, s) \in Seq(Slots)
                            /\ toNrt \o <<s, t>> \in Seq(Slots)
    BY FifoFacts
  <1>h. /\ toNrt # <<>> => Head(toNrt) \in Slots /\ Tail(toNrt) \in Seq(Slots)
        /\ toRt # <<>> => Head(toRt) \in Slots /\ Tail(toRt) \in Seq(Slots)
    BY FifoFacts
  <1>c. /\ \A op \in {"vis", "reset", "read", "write", "vendor"},
              async \in BOOLEAN : Command(op, async) \in Commands
        /\ \A gui \in BOOLEAN : Opening(gui) \in Commands
        /\ Closing(dlg) \in Commands
        /\ Free \in Commands
    BY CommandFacts
  <1>d. dlg \in Delegates /\ Detached(dlg) \in Delegates
    BY DelegateSteps DEF TypeOK
  <1>1. CASE UnitCommand
    <2>1. CASE Close
      <3>1. dlg' \in Delegates
        BY <1>d, <2>1 DEF Close, RefuseClose
      <3>2. cmd' \in [Slots -> Commands] /\ toNrt' \in Seq(Slots)
        BY <1>c, <1>q, <2>1 DEF Close, RefuseClose, Post, TypeOK
      <3> QED BY <2>1, <3>1, <3>2 DEF Close, TypeOK
    <2>2. ASSUME NEW gui \in BOOLEAN, Open(gui) PROVE TypeOK'
      <3>1. dlg' \in Delegates
        <4>1. /\ [dlg EXCEPT !.editor = gui, !.isLoading = TRUE] \in Delegates
              /\ [Detached(dlg) EXCEPT !.editor = gui, !.isLoading = TRUE]
                   \in Delegates
          BY <1>d, DelegateSteps
        <4> QED BY <1>d, <2>2, <4>1 DEF Open, RefuseClose
      <3>2. cmd' \in [Slots -> Commands] /\ toNrt' \in Seq(Slots)
        <4>1. CASE UNCHANGED <<cmd, toNrt>>
          BY <4>1 DEF TypeOK
        <4>2. CASE \E s \in Slots : Post(s, Opening(gui))
          BY <1>c, <1>q, <4>2 DEF Post, TypeOK
        <4>3. ASSUME NEW s \in Slots, NEW t \in Slots,
                     cmd' = [cmd EXCEPT ![s] = Closing(dlg), ![t] = Opening(gui)],
                     toNrt' = toNrt \o <<s, t>>
              PROVE  cmd' \in [Slots -> Commands] /\ toNrt' \in Seq(Slots)
          <5>1. [cmd EXCEPT ![s] = Closing(dlg)] \in [Slots -> Commands]
            BY <1>c DEF TypeOK
          <5> QED BY <1>c, <1>q, <4>3, <5>1
        <4> QED BY <2>2, <4>1, <4>2, <4>3 DEF Open, RefuseClose
      <3> QED BY <2>2, <3>1, <3>2 DEF Open, TypeOK
    <2>3. CASE ShowEditor
      BY <1>c, <1>q, <2>3 DEF ShowEditor, Post, TypeOK
    <2>a. ASSUME NEW op \in {"reset", "read", "write"}, Suspending(op)
          PROVE  /\ dlg' \in Delegates
                 /\ cmd' \in [Slots -> Commands] /\ toNrt' \in Seq(Slots)
      <3>1. dlg' \in Delegates
        BY <1>d, <2>a, DelegateSteps DEF Suspending
      <3>2. cmd' \in [Slots -> Commands] /\ toNrt' \in Seq(Slots)
        BY <1>c, <1>q, <2>a DEF Suspending, Post, TypeOK
      <3> QED BY <3>1, <3>2
    <2>b. \A t \in {"rt", "nrt", "ui"} :
            Into(t) => ptr' \in [{"rt", "nrt", "ui"} -> Plugins \cup {NoPlugin}]
      BY DEF Into, TypeOK, Delegates
    <2>4. ASSUME NEW async \in BOOLEAN, Reset(async) PROVE TypeOK'
      <3>1. CASE Suspending("reset")
        BY <2>4, <3>1, <2>a DEF Reset, Suspending, Calls, TypeOK
      <3>2. CASE Calls
        BY <2>4, <3>2, <2>b DEF Reset, Calls, TypeOK
      <3> QED BY <2>4, <3>1, <3>2 DEF Reset
    <2>5. ASSUME NEW async \in BOOLEAN, ReadPreset(async) PROVE TypeOK'
      <3>1. CASE async
        BY <2>5, <3>1, <2>a DEF ReadPreset, Suspending, TypeOK
      <3>2. CASE ~async
        BY <1>c, <1>q, <2>5, <3>2 DEF ReadPreset, Post, TypeOK
      <3> QED BY <3>1, <3>2
    <2>6. ASSUME NEW async \in BOOLEAN, WritePreset(async) PROVE TypeOK'
      <3>1. CASE async
        BY <2>6, <3>1, <2>a DEF WritePreset, Suspending, TypeOK
      <3>2. CASE ~async
        BY <2>6, <3>2, <2>b DEF WritePreset, TypeOK
      <3> QED BY <3>1, <3>2
    <2>7. ASSUME NEW async \in BOOLEAN, VendorSpecific(async) PROVE TypeOK'
      <3>1. CASE async
        BY <1>c, <1>q, <2>7, <3>1 DEF VendorSpecific, Post, TypeOK
      <3>2. CASE ~async
        BY <2>7, <3>2, <2>b DEF VendorSpecific, Calls, TypeOK
      <3> QED BY <3>1, <3>2
    <2>8. CASE CallPlugin
      BY <2>8, <2>b DEF CallPlugin, Calls, TypeOK
    <2>9. CASE SetProgram
      BY <2>9, <2>b DEF SetProgram, TypeOK
    <2>10. CASE FreeUnit
      <3> DEFINE d == [dlg EXCEPT !.alive = FALSE]
      <3>1. d \in Delegates
        BY <1>d, DelegateSteps
      <3>2. CASE Destruct("rt", d, cmd)
        BY <2>10, <3>1, <3>2, DestructType DEF FreeUnit, TypeOK
      <3>3. CASE dlg' = d /\ UNCHANGED <<cmd, toNrt, life, reaped>>
        BY <2>10, <3>1, <3>3 DEF FreeUnit, TypeOK
      <3> QED BY <2>10, <3>2, <3>3 DEF FreeUnit
    <2> QED BY <1>1, <2>1, <2>2, <2>3, <2>4, <2>5, <2>6, <2>7, <2>8, <2>9, <2>10
            DEF UnitCommand
  <1>2. CASE WriteData \/ Return \/ NextBegin \/ NextEnd
    <2>a. \A t \in {"rt", "nrt", "ui"} :
            OutOf(t) => ptr' \in [{"rt", "nrt", "ui"} -> Plugins \cup {NoPlugin}]
      BY DEF OutOf, TypeOK
    <2>1. CASE WriteData
      <3>1. cmd' \in [Slots -> Commands] /\ toNrt' \in Seq(Slots)
        BY <1>c, <1>q, <2>1 DEF WriteData, Post, TypeOK
      <3> QED BY <2>1, <2>a, <3>1 DEF WriteData, TypeOK
    <2>2. CASE Return
      BY <2>2, <2>a DEF Return, TypeOK
    <2>3. CASE NextBegin
      BY <2>3 DEF NextBegin, Into, TypeOK, Delegates
    <2>4. CASE NextEnd
      <3>1. mutex' \in {"free", "rt", "nrt"}
        BY <2>4 DEF NextEnd, TypeOK
      <3> QED BY <2>4, <2>a, <3>1 DEF NextEnd, TypeOK
    <2> QED BY <1>2, <2>1, <2>2, <2>3, <2>4
  <1>3. CASE RtStage \/ DoneReadEnd
    <2>h. toRt # <<>> /\ Head(toRt) \in Slots /\ Tail(toRt) \in Seq(Slots)
      BY <1>3, <1>h DEF RtStage, DoneOpen, DoneReset, DoneReadBegin, DoneWrite,
                        DoneVendor, Done, Cleanup, DoneReadEnd, HeadsInv
    <2>a. \A st \in {3, 4, 5} :
              [cmd EXCEPT ![Head(toRt)].stage = st] \in [Slots -> Commands]
      BY <2>h, HeadSteps
    <2>1. CASE DoneOpen
      <3> DEFINE p == cmd[Head(toRt)].plugin
      <3>1. p \in Plugins \cup {NoPlugin} /\ dlg.alive \in BOOLEAN
        BY <2>h, HeadSteps, <1>d DEF Delegates
      <3>2. dlg' \in Delegates
        BY <1>d, <2>1, <3>1, DelegateSteps DEF DoneOpen
      <3>3. cmd' \in [Slots -> Commands]
        BY <2>1, <2>h, HeadSteps DEF DoneOpen
      <3>4. life' \in [Plugins -> {"none", "nrt", "ui", "gone"}]
        BY <2>1 DEF DoneOpen, TypeOK
      <3> HIDE DEF p
      <3> QED BY <2>1, <3>2, <3>3, <3>4 DEF DoneOpen, TypeOK
    <2>b. /\ [dlg EXCEPT !.suspended = FALSE] \in Delegates
          /\ [dlg EXCEPT !.suspended = dlg.suspended] \in Delegates
      BY <1>d, DelegateSteps
    <2>2. CASE DoneReset
      BY <2>2, <2>a, <2>b DEF DoneReset, ToCleanup, TypeOK
    <2>3. CASE DoneReadBegin
      <3>1. dlg' \in Delegates
        BY <1>d, <2>3, <2>b DEF DoneReadBegin
      <3>2. ptr' \in [{"rt", "nrt", "ui"} -> Plugins \cup {NoPlugin}]
        <4>1. Into("rt") \/ UNCHANGED ptr
          BY <2>3 DEF DoneReadBegin
        <4> QED BY <4>1 DEF Into, TypeOK, Delegates
      <3> QED BY <2>3, <2>a, <3>1, <3>2 DEF DoneReadBegin, ToCleanup, TypeOK
    <2>4. CASE DoneWrite
      <3>1. dlg' \in Delegates
        <4>1. CASE dlg.alive /\ cmd[Head(toRt)].async
          BY <2>4, <2>b, <4>1 DEF DoneWrite
        <4>2. CASE ~(dlg.alive /\ cmd[Head(toRt)].async)
          BY <2>4, <2>b, <4>2 DEF DoneWrite
        <4> QED BY <4>1, <4>2
      <3>2. /\ cmd' \in [Slots -> Commands]
            /\ toNrt' \in Seq(Slots) /\ toRt' \in Seq(Slots)
        BY <1>q, <2>h, <2>4, <2>a DEF DoneWrite, ToStage4
      <3> QED BY <2>4, <3>1, <3>2 DEF DoneWrite, TypeOK
    <2>5. CASE DoneVendor
      BY <2>5, <2>a DEF DoneVendor, ToCleanup, TypeOK
    <2>6. CASE Cleanup
      <3> DEFINE table == [cmd EXCEPT ![Head(toRt)] = Free]
      <3>1. table \in [Slots -> Commands]
        BY <1>c, <2>h, HeadSteps
      <3>2. CASE Destruct("rt", dlg, table)
        BY <1>d, <2>6, <2>h, <3>1, <3>2, DestructType DEF Cleanup, TypeOK
      <3>3. CASE cmd' = table /\ UNCHANGED <<dlg, toNrt, life, reaped>>
        BY <2>6, <2>h, <3>1, <3>3 DEF Cleanup, TypeOK
      <3> QED BY <2>6, <3>2, <3>3 DEF Cleanup
    <2>7. CASE DoneReadEnd
      BY <1>q, <2>h, <2>7, <2>a DEF DoneReadEnd, ToStage4, OutOf, TypeOK
    <2> QED BY <1>3, <2>1, <2>2, <2>3, <2>4, <2>5, <2>6, <2>7 DEF RtStage
  <1>4. CASE NrtStage \/ NrtLeave \/ NrtNotify \/ NrtNotified
    <2> DEFINE h == Head(toNrt)
    <2>h. ASSUME NrtStage \/ NrtLeave
          PROVE  h \in Slots /\ Tail(toNrt) \in Seq(Slots)
      BY <2>h, <1>h DEF NrtStage, NrtOpen, NrtClose, NrtFileIO, NrtEnter,
                        NrtFree, NrtReady, NrtLeave, HeadsInv
    <2>a. ASSUME NrtStage \/ NrtLeave, NEW c \in Commands, ToRt(c)
          PROVE  /\ cmd' \in [Slots -> Commands]
                 /\ toNrt' \in Seq(Slots) /\ toRt' \in Seq(Slots)
      BY <2>h, <2>a, <1>q, HeadSteps DEF ToRt
    <2>b. ASSUME NrtStage \/ NrtLeave
          PROVE  /\ \A st \in {3, 4, 5} : [cmd[h] EXCEPT !.stage = st] \in Commands
                 /\ \A p \in Plugins :
                      [cmd[h] EXCEPT !.stage = 3, !.plugin = p] \in Commands
                 /\ [cmd[h] EXCEPT !.stage = 5, !.plugin = NoPlugin] \in Commands
      BY <2>b, <2>h, HeadSteps
    <2> HIDE DEF h
    <2>1. CASE NrtOpen
      <3>1. PICK c \in Commands : ToRt(c)
        BY <2>1, <2>b DEF NrtOpen, NrtStage, h
      <3>2. life' \in [Plugins -> {"none", "nrt", "ui", "gone"}]
        BY <2>1 DEF NrtOpen, TypeOK
      <3> QED BY <2>1, <2>a, <3>1, <3>2 DEF NrtOpen, NrtStage, TypeOK
    <2>2. CASE NrtClose
      <3>1. PICK c \in Commands : ToRt(c)
        BY <2>2, <2>b DEF NrtClose, NrtStage, h
      <3>2. life' \in [Plugins -> {"none", "nrt", "ui", "gone"}]
        BY <2>2 DEF NrtClose, TypeOK
      <3> QED BY <2>2, <2>a, <3>1, <3>2 DEF NrtClose, NrtStage, TypeOK
    <2>3. CASE NrtFileIO
      <3>1. PICK c \in Commands : ToRt(c)
        BY <2>3, <2>b DEF NrtFileIO, NrtStage, h
      <3> QED BY <2>3, <2>a, <3>1 DEF NrtFileIO, NrtStage, TypeOK
    <2>4. CASE NrtEnter
      BY <2>4 DEF NrtEnter, Into, TypeOK, Delegates
    <2>5. CASE NrtFree
      <3>1. PICK c \in Commands : ToRt(c)
        BY <2>5, <2>b DEF NrtFree, NrtStage, h
      <3> QED BY <2>5, <2>a, <3>1 DEF NrtFree, NrtStage, TypeOK
    <2>6. CASE NrtLeave
      <3>1. PICK c \in Commands : ToRt(c)
        BY <2>6, <2>b DEF NrtLeave, NrtStage, h
      <3>2. mutex' \in {"free", "rt", "nrt"}
        BY <2>6 DEF NrtLeave, TypeOK
      <3> QED BY <2>6, <2>a, <3>1, <3>2 DEF NrtLeave, OutOf, TypeOK
    <2>7. CASE NrtNotify \/ NrtNotified
      BY <2>7 DEF NrtNotify, NrtNotified, TypeOK
    <2> QED BY <1>4, <2>1, <2>2, <2>3, <2>4, <2>5, <2>6, <2>7 DEF NrtStage
  <1>5. CASE UiLock \/ UiDeref \/ UiRelease
    <2>1. CASE UiLock
      BY <2>1 DEF UiLock, Into, TypeOK, Delegates
    <2>2. CASE UiDeref
      BY <2>2 DEF UiDeref, TypeOK
    <2>3. CASE UiRelease
      <3>1. CASE Destruct("ui", dlg, cmd)
        BY <1>d, <2>3, <3>1, DestructType DEF UiRelease, OutOf, TypeOK
      <3>2. CASE UNCHANGED <<dlg, cmd, toNrt, life, reaped>>
        BY <2>3, <3>2 DEF UiRelease, OutOf, TypeOK
      <3> QED BY <2>3, <3>1, <3>2 DEF UiRelease
    <2> QED BY <1>5, <2>1, <2>2, <2>3
  <1>6. CASE UNCHANGED vars
    BY <1>6 DEF vars, TypeOK
  <1> QED BY <1>1, <1>2, <1>3, <1>4, <1>5, <1>6 DEF Next

--------------------------------------------------------------------------------
(* What actions do to commands and FIFOs *)

\* nobody who works on the head of a FIFO sees it change
HeadsStay == /\ toNrt # <<>> => toNrt' # <<>> /\ Head(toNrt') = Head(toNrt)
             /\ toRt # <<>> => toRt' # <<>> /\ Head(toRt') = Head(toRt)

\* slot s, which was free, now holds a command for stage 2
Sent(s, op, async) ==
  /\ cmd[s].op = "none" /\ cmd[s].stage = 0
  /\ cmd'[s].op = op /\ cmd'[s].async = async /\ cmd'[s].stage = 2
  /\ \A x \in Slots : x # s => cmd'[x] = cmd[x]

\* the command in slot h is at stage st now
Moved(h, st) ==
  /\ cmd'[h].op = cmd[h].op /\ cmd'[h].async = cmd[h].async
  /\ cmd'[h].stage = st
  /\ \A x \in Slots : x # h => cmd'[x] = cmd[x]

LEMMA CommandFields ==
  /\ Free.op = "none" /\ Free.async = FALSE /\ Free.stage = 0
  /\ \A op, async : /\ Command(op, async).op = op
                    /\ Command(op, async).async = async
                    /\ Command(op, async).stage = 2
  /\ \A gui : /\ Opening(gui).op = "open"
              /\ Opening(gui).async = FALSE
              /\ Opening(gui).stage = 2
  /\ \A d : /\ Closing(d).op = "close"
            /\ Closing(d).async = FALSE
            /\ Closing(d).stage = 2
  BY DEF Free, Command, Opening, Closing

LEMMA PostEffect ==
  ASSUME TypeOK, NEW s \in Slots, NEW c \in Commands, c.stage = 2,
         Post(s, c), UNCHANGED toRt
  PROVE  Sent(s, c.op, c.async) /\ HeadsStay
  <1>1. HeadsStay
    BY FifoFacts DEF Post, HeadsStay
  <1>2. cmd[s].op = "none" /\ cmd[s].stage = 0
    BY CommandFields DEF Post
  <1>3. cmd'[s] = c /\ \A x \in Slots : x # s => cmd'[x] = cmd[x]
    BY DEF Post, TypeOK
  <1> QED BY <1>1, <1>2, <1>3 DEF Sent

LEMMA SendEffect ==
  ASSUME TypeOK, NEW s \in Slots, UNCHANGED toRt
  PROVE  /\ \A op \in {"vis", "reset", "read", "write", "vendor"},
              async \in BOOLEAN :
              Post(s, Command(op, async)) => Sent(s, op, async) /\ HeadsStay
         /\ \A gui \in BOOLEAN :
              Post(s, Opening(gui)) => Sent(s, "open", FALSE) /\ HeadsStay
         /\ Post(s, Closing(dlg)) => Sent(s, "close", FALSE) /\ HeadsStay
  <1>1. \A c \in Commands :
          c.stage = 2 /\ Post(s, c) => Sent(s, c.op, c.async) /\ HeadsStay
    BY PostEffect
  <1>2. ASSUME NEW op \in {"vis", "reset", "read", "write", "vendor"},
               NEW async \in BOOLEAN, Post(s, Command(op, async))
        PROVE  Sent(s, op, async) /\ HeadsStay
    <2>1. Command(op, async) \in Commands
      BY CommandFacts
    <2>2. /\ Command(op, async).op = op /\ Command(op, async).async = async
          /\ Command(op, async).stage = 2
      BY CommandFields
    <2> QED BY <1>1, <1>2, <2>1, <2>2
  <1>3. ASSUME NEW gui \in BOOLEAN, Post(s, Opening(gui))
        PROVE  Sent(s, "open", FALSE) /\ HeadsStay
    <2>1. Opening(gui) \in Commands
      BY CommandFacts
    <2>2. /\ Opening(gui).op = "open" /\ Opening(gui).async = FALSE
          /\ Opening(gui).stage = 2
      BY CommandFields
    <2> QED BY <1>1, <1>3, <2>1, <2>2
  <1>4. ASSUME Post(s, Closing(dlg)) PROVE Sent(s, "close", FALSE) /\ HeadsStay
    <2>1. Closing(dlg) \in Commands
      BY CommandFacts
    <2>2. /\ Closing(dlg).op = "close" /\ Closing(dlg).async = FALSE
          /\ Closing(dlg).stage = 2
      BY CommandFields
    <2> QED BY <1>1, <1>4, <2>1, <2>2
  <1> QED BY <1>2, <1>3, <1>4

LEMMA DelegateFields ==
  ASSUME NEW d \in Delegates
  PROVE  /\ Detached(d).plugin = NoPlugin
         /\ Detached(d).alive = d.alive
         /\ Detached(d).isLoading = d.isLoading
         /\ Detached(d).suspended = d.suspended
         /\ \A b : LET e == [d EXCEPT !.suspended = b] IN
                   /\ e.plugin = d.plugin /\ e.alive = d.alive
                   /\ e.isLoading = d.isLoading /\ e.suspended = b
         /\ \A b : LET e == [d EXCEPT !.alive = b] IN
                   /\ e.plugin = d.plugin /\ e.alive = b
                   /\ e.isLoading = d.isLoading /\ e.suspended = d.suspended
         /\ \A b : LET e == [d EXCEPT !.editor = b, !.isLoading = TRUE] IN
                   /\ e.plugin = d.plugin /\ e.alive = d.alive
                   /\ e.isLoading = TRUE /\ e.suspended = d.suspended
         /\ \A p, b : LET e == [d EXCEPT !.isLoading = FALSE, !.plugin = p,
                                        !.listener = b] IN
                      /\ e.plugin = p /\ e.alive = d.alive
                      /\ e.isLoading = FALSE /\ e.suspended = d.suspended
  BY DEF Delegates, Detached

\* ~VSTPluginDelegate, when table holds no command with a reference
LEMMA DestructEffect ==
  ASSUME TypeOK, NEW t \in {"rt", "ui"}, NEW d \in Delegates,
         NEW table \in [Slots -> Commands], Destruct(t, d, table),
         \A s \in Slots : ~Owned(table[s])
  PROVE  /\ \A s \in Slots : ~Owned(cmd'[s])
         /\ dlg'.alive = d.alive /\ dlg'.suspended = d.suspended
  <1>1. dlg'.alive = d.alive /\ dlg'.suspended = d.suspended
    BY DelegateFields DEF Destruct
  <1>2. CASE cmd' = table
    BY <1>1, <1>2
  <1>3. ASSUME NEW s \in Slots, cmd' = [table EXCEPT ![s] = Closing(d)]
        PROVE  \A x \in Slots : ~Owned(cmd'[x])
    <2>1. ~Owned(Closing(d))
      BY CommandFields DEF Owned
    <2> QED BY <1>3, <2>1
  <1> QED BY <1>1, <1>2, <1>3 DEF Destruct

\* nothing changed but where the RT thread is
LEMMA RtMoves ==
  ASSUME IInv, rt = "idle", UNCHANGED <<dlg, cmd, toNrt, toRt, nrt, mutex>>,
         rt' \in {"idle", "query", "call", "write"},
         rt' \in {"call", "write"} => dlg.alive /\ Check
  PROVE  Safe'
  BY DEF IInv, Safe, CommandsHavePlugin, HeadsInv, LoadingInv, SuspensionInv,
         MutexInv, Check, Pending

\* a command was sent that needs no suspension
LEMMA SentSafe ==
  ASSUME IInv, NEW s \in Slots,
         cmd'[s].op \in {"vis", "read", "write", "vendor"},
         Sent(s, cmd'[s].op, cmd'[s].async), HeadsStay, rt' \in {rt, "idle"}, rt # "stage3",
         ~Locking(cmd'[s]), dlg.plugin # NoPlugin, UNCHANGED <<dlg, nrt, mutex>>
  PROVE  Safe'
  <1>h. nrt # "idle" => Head(toNrt) \in Slots
    BY FifoFacts DEF IInv, Safe, HeadsInv
  <1>1. CommandsHavePlugin'
    BY DEF IInv, Safe, CommandsHavePlugin, Sent
  <1>2. HeadsInv'
    BY <1>h DEF IInv, Safe, HeadsInv, Sent, HeadsStay, Calling, Locking
  <1>3. LoadingInv'
    BY DEF IInv, Safe, LoadingInv, Sent, Pending
  <1>4. SuspensionInv'
    BY DEF IInv, Safe, SuspensionInv, Sent, Pending
  <1>5. MutexInv'
    BY <1>h DEF IInv, Safe, HeadsInv, MutexInv, Sent, HeadsStay, Calling, Locking
  <1> QED BY <1>1, <1>2, <1>3, <1>4, <1>5 DEF Safe

\* no command in flight refers to the delegate, and nobody is in the middle of
\* a stage
LEMMA UnownedSafe ==
  ASSUME \A s \in Slots : ~Owned(cmd'[s]),
         nrt' = "idle", rt' # "stage3", rt' # "write",
         rt' = "next" /\ dlg'.suspended => mutex' = "rt",
         rt' = "call" => ~dlg'.suspended
  PROVE  Safe'
  BY DEF Safe, CommandsHavePlugin, HeadsInv, LoadingInv, SuspensionInv,
         MutexInv, Owned, ForPlugin, Locking, Pending

LEMMA UnitCommandSafe == IInv /\ UnitCommand => Safe'
  <1> SUFFICES ASSUME IInv, UnitCommand PROVE Safe'
    OBVIOUS
  <1>i. TypeOK /\ dlg \in Delegates
    BY DEF IInv, TypeOK
  <1>r. rt = "idle" /\ dlg.alive /\ ~crashed
    BY DEF UnitCommand, Close, Open, ShowEditor, Reset, ReadPreset, WritePreset,
           VendorSpecific, CallPlugin, SetProgram, FreeUnit, UnitReady, RtReady
  <1>h. nrt # "idle" => Head(toNrt) \in Slots
    BY <1>i, FifoFacts DEF IInv, Safe, HeadsInv
  <1>n. ~InFlight => nrt = "idle" /\ \A s \in Slots : ~Owned(cmd[s])
    <2>1. nrt # "idle" => Head(toNrt) \in Slots /\ Owned(cmd[Head(toNrt)])
      BY <1>h
         DEF IInv, Safe, HeadsInv, Calling, Locking, Owned
    <2> QED BY <2>1 DEF InFlight
  <1>a. ASSUME NEW op \in {"reset", "read", "write"}, Suspending(op),
               UNCHANGED <<mutex, toRt, nrt>>
        PROVE  Safe'
    <2>1. /\ dlg.plugin # NoPlugin /\ ~dlg.suspended
          /\ dlg'.plugin = dlg.plugin /\ dlg'.alive = dlg.alive
          /\ dlg'.isLoading = dlg.isLoading /\ dlg'.suspended
          /\ UNCHANGED rt
      BY <1>i, <1>a, DelegateFields DEF Suspending, Check
    <2>2. CASE UNCHANGED <<cmd, toNrt>>
      BY <1>a, <1>r, <2>1, <2>2 DEF IInv, Safe, CommandsHavePlugin, HeadsInv,
         LoadingInv, SuspensionInv, MutexInv, Pending
    <2>3. ASSUME NEW s \in Slots, Post(s, Command(op, TRUE)) PROVE Safe'
      <3>1. Sent(s, op, TRUE) /\ HeadsStay
        BY <1>i, <1>a, <2>3, SendEffect
      <3>2. CommandsHavePlugin'
        BY <2>1, <3>1 DEF CommandsHavePlugin
      <3>3. HeadsInv'
        BY <1>a, <1>h, <1>r, <2>1, <3>1
           DEF IInv, Safe, HeadsInv, Sent, HeadsStay, Calling, Locking
      <3>4. LoadingInv'
        BY <1>r, <2>1, <3>1 DEF IInv, Safe, LoadingInv, Sent, Pending
      <3>5. SuspensionInv'
        BY <1>r, <2>1, <3>1 DEF IInv, Safe, SuspensionInv, Sent, Pending
      <3>6. MutexInv'
        BY <1>a, <1>h, <1>r, <2>1, <3>1
           DEF IInv, Safe, HeadsInv, MutexInv, Sent, HeadsStay, Calling, Locking
      <3> QED BY <3>2, <3>3, <3>4, <3>5, <3>6 DEF Safe
    <2> QED BY <1>a, <2>2, <2>3 DEF Suspending
  <1>m. ASSUME NEW s \in Slots, NEW op \in {"vis", "read", "vendor"},
               NEW async \in BOOLEAN, Post(s, Command(op, async)),
               op = "read" => ~async,
               dlg.plugin # NoPlugin, UNCHANGED <<dlg, mutex, toRt, rt, nrt>>
        PROVE  Safe'
    <2>1. Sent(s, op, async) /\ HeadsStay
      BY <1>i, <1>m, SendEffect
    <2>2. /\ ~Locking(cmd'[s]) /\ cmd'[s].op = op
          /\ Sent(s, cmd'[s].op, cmd'[s].async)
      BY <1>m, <2>1 DEF Sent, Locking
    <2> QED BY <1>m, <1>r, <2>1, <2>2, SentSafe
  <1>f. RefuseClose /\ UNCHANGED <<mutex, toRt, threads>> => Safe'
    BY DEF RefuseClose, IInv, Safe, CommandsHavePlugin, HeadsInv, LoadingInv,
           SuspensionInv, MutexInv, Pending
  <1>1. CASE Close
    <2>1. ASSUME NEW s \in Slots, Post(s, Closing(dlg)), ~Shared
          PROVE  Safe'
      <3>1. Sent(s, "close", FALSE) /\ HeadsStay
        BY <1>i, <1>1, <2>1, SendEffect DEF Close
      <3>2. \A x \in Slots : ~Owned(cmd'[x])
        BY <1>n, <2>1, <3>1 DEF Shared, Sent, Owned
      <3> QED BY <1>1, <1>r, <1>n, <2>1, <3>2, UnownedSafe DEF Close, Shared
    <2> QED BY <1>1, <1>f, <2>1 DEF Close
  <1>2. ASSUME NEW gui \in BOOLEAN, Open(gui) PROVE Safe'
    <2>o. ASSUME NEW s \in Slots, dlg'.plugin = NoPlugin, dlg'.isLoading,
                 cmd'[s].op = "open",
                 \A x \in Slots : x # s =>
                   cmd'[x] = cmd[x] \/ cmd'[x].op = "close",
                 \A x \in Slots : ~ForPlugin(cmd[x])
          PROVE  Safe'
      <3>1. nrt = "idle" /\ nrt' = "idle" /\ rt' = "idle" /\ ~dlg.isLoading
        <4>1. nrt # "idle" => Head(toNrt) \in Slots /\ ForPlugin(cmd[Head(toNrt)])
          BY <1>i, FifoFacts
             DEF IInv, Safe, HeadsInv, Calling, Locking, ForPlugin
        <4> QED BY <1>2, <1>r, <2>o, <4>1 DEF Open
      <3>2. \A x \in Slots : ~ForPlugin(cmd'[x])
        BY <2>o DEF ForPlugin
      <3>3. LoadingInv'
        BY <2>o, <3>1 DEF IInv, Safe, LoadingInv, Pending
      <3> QED BY <3>1, <3>2, <3>3
              DEF Safe, CommandsHavePlugin, HeadsInv, SuspensionInv, MutexInv,
                  ForPlugin, Locking
    <2>1. CASE RefuseClose
      BY <1>2, <1>f, <2>1 DEF Open
    <2>2. ASSUME dlg.plugin = NoPlugin, NEW s \in Slots, Post(s, Opening(gui)),
                 dlg' = [dlg EXCEPT !.editor = gui, !.isLoading = TRUE]
          PROVE  Safe'
      <3>1. Sent(s, "open", FALSE)
        BY <1>2, <1>i, <2>2, SendEffect DEF Open
      <3>2. dlg'.plugin = NoPlugin /\ dlg'.isLoading
        BY <1>i, <2>2, DelegateFields
      <3>3. \A x \in Slots : ~ForPlugin(cmd[x])
        BY <2>2 DEF IInv, Safe, CommandsHavePlugin
      <3> QED BY <2>o, <3>1, <3>2, <3>3 DEF Sent
    <2>3. ASSUME ~Shared, NEW s \in Slots, NEW t \in Slots, s # t,
                 cmd' = [cmd EXCEPT ![s] = Closing(dlg), ![t] = Opening(gui)],
                 dlg' = [Detached(dlg) EXCEPT !.editor = gui, !.isLoading = TRUE]
          PROVE  Safe'
      <3>1. dlg'.plugin = NoPlugin /\ dlg'.isLoading
        <4>1. /\ Detached(dlg) \in Delegates
              /\ Detached(dlg).plugin = NoPlugin
          BY <1>i, DelegateSteps, DelegateFields
        <4> QED BY <2>3, <4>1, DelegateFields
      <3>2. cmd \in [Slots -> Commands]
        BY <1>i DEF TypeOK
      <3>3. /\ cmd'[t] = Opening(gui) /\ cmd'[s] = Closing(dlg)
            /\ \A x \in Slots : x # s /\ x # t => cmd'[x] = cmd[x]
        BY <2>3, <3>2
      <3>4. cmd'[t].op = "open" /\ cmd'[s].op = "close"
        BY <3>3, CommandFields
      <3>5. \A x \in Slots : ~ForPlugin(cmd[x])
        BY <1>n, <2>3 DEF Shared, Owned, ForPlugin
      <3> QED BY <2>o, <3>1, <3>3, <3>4, <3>5
    <2> QED BY <1>2, <2>1, <2>2, <2>3 DEF Open
  <1>3. CASE ShowEditor
    <2>1. PICK s \in Slots : Post(s, Command("vis", FALSE))
      BY <1>3 DEF ShowEditor
    <2> QED BY <1>3, <1>m, <2>1 DEF ShowEditor
  <1>4. ASSUME NEW async \in BOOLEAN, Reset(async) PROVE Safe'
    <2>1. CASE async
      BY <1>4, <1>a, <2>1 DEF Reset
    <2>2. CASE ~async
      BY <1>4, <1>r, <2>2, RtMoves DEF Reset, Calls
    <2> QED BY <2>1, <2>2
  <1>5. ASSUME NEW async \in BOOLEAN, ReadPreset(async) PROVE Safe'
    <2>1. CASE async
      BY <1>5, <1>a, <2>1 DEF ReadPreset
    <2>2. CASE ~async
      <3>1. PICK s \in Slots : Post(s, Command("read", FALSE))
        BY <1>5, <2>2 DEF ReadPreset
      <3> QED BY <1>5, <1>m, <2>2, <3>1 DEF ReadPreset, Check
    <2> QED BY <2>1, <2>2
  <1>6. ASSUME NEW async \in BOOLEAN, WritePreset(async) PROVE Safe'
    <2>1. CASE async
      BY <1>6, <1>a, <2>1 DEF WritePreset
    <2>2. CASE ~async
      BY <1>6, <1>r, <2>2, RtMoves DEF WritePreset
    <2> QED BY <2>1, <2>2
  <1>7. ASSUME NEW async \in BOOLEAN, VendorSpecific(async) PROVE Safe'
    <2>1. CASE async
      <3>1. PICK s \in Slots : Post(s, Command("vendor", TRUE))
        BY <1>7, <2>1 DEF VendorSpecific
      <3> QED BY <1>7, <1>m, <2>1, <3>1 DEF VendorSpecific, Check
    <2>2. CASE ~async
      BY <1>7, <1>r, <2>2, RtMoves DEF VendorSpecific, Calls
    <2> QED BY <2>1, <2>2
  <1>8. CASE CallPlugin
    BY <1>8, <1>r, RtMoves DEF CallPlugin, Calls
  <1>9. CASE SetProgram
    BY <1>9, <1>r, RtMoves DEF SetProgram
  <1>10. CASE FreeUnit
    <2> DEFINE d == [dlg EXCEPT !.alive = FALSE]
    <2>1. /\ d \in Delegates /\ d.plugin = dlg.plugin /\ d.alive = FALSE
          /\ d.isLoading = dlg.isLoading /\ d.suspended = dlg.suspended
      <3>1. d \in Delegates
        BY <1>i, DelegateSteps
      <3>2. /\ d.plugin = dlg.plugin /\ d.alive = FALSE
            /\ d.isLoading = dlg.isLoading /\ d.suspended = dlg.suspended
        BY <1>i, DelegateFields
      <3> QED BY <3>1, <3>2
    <2> HIDE DEF d
    <2>2. CASE dlg' = d /\ UNCHANGED <<cmd, toNrt>>
      BY <1>10, <1>r, <2>1, <2>2
         DEF FreeUnit, IInv, Safe, CommandsHavePlugin, HeadsInv, LoadingInv,
             SuspensionInv, MutexInv, Pending
    <2>3. CASE ~Shared /\ Destruct("rt", d, cmd)
      <3>1. \A s \in Slots : ~Owned(cmd'[s])
        BY <1>i, <1>n, <2>1, <2>3, DestructEffect DEF TypeOK, Shared
      <3> QED BY <1>10, <1>r, <1>n, <2>3, <3>1, UnownedSafe DEF FreeUnit, Shared
    <2> QED BY <1>10, <2>2, <2>3 DEF FreeUnit, d
  <1> QED BY <1>1, <1>2, <1>3, <1>4, <1>5, <1>6, <1>7, <1>8, <1>9, <1>10
          DEF UnitCommand

\* the RT thread is not in the middle of a stage, and what it does now touches
\* neither the delegate nor a command
LEMMA RtCallSafe ==
  IInv /\ (WriteData \/ Return \/ NextBegin \/ NextEnd) => Safe'
  <1> SUFFICES ASSUME IInv, WriteData \/ Return \/ NextBegin \/ NextEnd
               PROVE  Safe'
    OBVIOUS
  <1>1. CASE WriteData
    <2>1. rt = "write" /\ rt' = "idle" /\ dlg.plugin # NoPlugin
      BY <1>1 DEF WriteData, IInv, Safe, LoadingInv
    <2>2. CASE UNCHANGED <<cmd, toNrt>>
      BY <1>1, <2>1, <2>2
         DEF WriteData, IInv, Safe, CommandsHavePlugin, HeadsInv, LoadingInv,
             SuspensionInv, MutexInv, Pending
    <2>3. ASSUME NEW s \in Slots, Post(s, Command("write", FALSE))
          PROVE  Safe'
      <3>1. Sent(s, "write", FALSE) /\ HeadsStay
        BY <1>1, <2>3, SendEffect DEF WriteData, IInv
      <3>2. ~Locking(cmd'[s]) /\ cmd'[s].op = "write"
        BY <3>1 DEF Sent, Locking
      <3>3. rt' \in {rt, "idle"} /\ rt # "stage3" /\ UNCHANGED <<dlg, nrt, mutex>>
        BY <1>1, <2>1 DEF WriteData
      <3>4. Sent(s, cmd'[s].op, cmd'[s].async)
        BY <3>1 DEF Sent
      <3> QED BY <2>1, <2>3, <3>1, <3>2, <3>3, <3>4, SentSafe
    <2> QED BY <1>1, <2>2, <2>3 DEF WriteData
  <1>2. CASE Return
    BY <1>2 DEF Return, IInv, Safe, CommandsHavePlugin, HeadsInv, LoadingInv,
                SuspensionInv, MutexInv, Pending
  <1>3. CASE NextBegin
    BY <1>3 DEF NextBegin, UnitReady, RtReady, IInv, Safe, CommandsHavePlugin,
                HeadsInv, LoadingInv, SuspensionInv, MutexInv, Pending
  <1>4. CASE NextEnd
    <2>1. nrt # "idle" => Head(toNrt) \in Slots
      BY FifoFacts DEF IInv, Safe, HeadsInv
    <2> QED BY <1>4, <2>1
               DEF NextEnd, IInv, Safe, CommandsHavePlugin, HeadsInv, LoadingInv,
                   SuspensionInv, MutexInv, Pending
  <1> QED BY <1>1, <1>2, <1>3, <1>4

\* how the fields of a command and of the others change when it moves on
LEMMA MoveEffect ==
  ASSUME TypeOK, NEW h \in Slots, NEW st,
         \/ cmd' = [cmd EXCEPT ![h].stage = st]
         \/ cmd' = [cmd EXCEPT ![h] = [cmd[h] EXCEPT !.stage = st]]
         \/ \E p : cmd' = [cmd EXCEPT ![h] = [cmd[h] EXCEPT !.stage = st,
                                                           !.plugin = p]]
         \/ \E p : cmd' = [cmd EXCEPT ![h].stage = st, ![h].plugin = p]
  PROVE  Moved(h, st)
  <1>1. cmd \in [Slots -> Commands] /\ cmd[h] \in Commands
    BY DEF TypeOK
  <1>2. ASSUME NEW c, cmd' = [cmd EXCEPT ![h] = c], c.op = cmd[h].op,
               c.async = cmd[h].async, c.stage = st
        PROVE  Moved(h, st)
    BY <1>1, <1>2 DEF Moved
  <1>3. cmd' = [cmd EXCEPT ![h].stage = st] =>
          cmd' = [cmd EXCEPT ![h] = [cmd[h] EXCEPT !.stage = st]]
    BY <1>1
  <1>4. \A p : cmd' = [cmd EXCEPT ![h].stage = st, ![h].plugin = p] =>
          cmd' = [cmd EXCEPT ![h] = [cmd[h] EXCEPT !.stage = st, !.plugin = p]]
    BY <1>1
  <1>5. ASSUME NEW c \in Commands
        PROVE  /\ [c EXCEPT !.stage = st].op = c.op
               /\ [c EXCEPT !.stage = st].async = c.async
               /\ [c EXCEPT !.stage = st].stage = st
               /\ \A p : LET e == [c EXCEPT !.stage = st, !.plugin = p] IN
                         e.op = c.op /\ e.async = c.async /\ e.stage = st
    BY DEF Commands
  <1>6. ASSUME cmd' = [cmd EXCEPT ![h] = [cmd[h] EXCEPT !.stage = st]]
        PROVE  Moved(h, st)
    BY <1>1, <1>2, <1>5, <1>6
  <1>7. ASSUME NEW p, cmd' = [cmd EXCEPT ![h] = [cmd[h] EXCEPT !.stage = st,
                                                               !.plugin = p]]
        PROVE  Moved(h, st)
    <2> DEFINE c == [cmd[h] EXCEPT !.stage = st, !.plugin = p]
    <2>1. c.op = cmd[h].op /\ c.async = cmd[h].async /\ c.stage = st
      BY <1>1, <1>5
    <2>2. cmd' = [cmd EXCEPT ![h] = c]
      BY <1>7
    <2> HIDE DEF c
    <2> QED BY <1>2, <2>1, <2>2
  <1>8. CASE \E p : cmd' = [cmd EXCEPT ![h] = [cmd[h] EXCEPT !.stage = st,
                                                            !.plugin = p]]
    BY <1>7, <1>8
  <1>9. CASE \E p : cmd' = [cmd EXCEPT ![h].stage = st, ![h].plugin = p]
    BY <1>4, <1>7, <1>9
  <1> QED BY <1>3, <1>6, <1>8, <1>9

LEMMA RtStageSafe == IInv /\ (RtStage \/ DoneReadEnd) => Safe'
  <1> SUFFICES ASSUME IInv, RtStage \/ DoneReadEnd PROVE Safe'
    OBVIOUS
  <1> DEFINE h == Head(toRt)
  <1>i. TypeOK /\ dlg \in Delegates
    BY DEF IInv, TypeOK
  <1>1. /\ toRt # <<>> /\ h \in Slots /\ cmd[h].stage \in {3, 5}
        /\ rt = "stage3" \/ rt = "idle"
        /\ UNCHANGED <<nrt, mutex>>
    <2>1. toRt # <<>> /\ cmd[h].stage \in {3, 5} /\ (rt = "stage3" \/ rt = "idle")
          /\ UNCHANGED <<nrt, mutex>>
      BY DEF RtStage, DoneOpen, DoneReset, DoneReadBegin, DoneWrite, DoneVendor,
             Done, RtReady, Cleanup, DoneReadEnd, IInv, Safe, HeadsInv
    <2> QED BY <1>i, <2>1, FifoFacts
  <1>2. nrt # "idle" => /\ Head(toNrt) \in Slots /\ Head(toNrt) # h
                        /\ Owned(cmd[Head(toNrt)])
    BY <1>i, <1>1, FifoFacts
       DEF IInv, Safe, HeadsInv, Calling, Locking, Owned
  <1>3. toNrt # <<>> => /\ Append(toNrt, h) # <<>>
                        /\ Head(Append(toNrt, h)) = Head(toNrt)
    BY <1>i, <1>1, FifoFacts
  <1>4. /\ \A st : cmd' = [cmd EXCEPT ![h].stage = st] => Moved(h, st)
        /\ \A st, p : cmd' = [cmd EXCEPT ![h].stage = st, ![h].plugin = p]
                      => Moved(h, st)
    <2>1. ASSUME NEW st, cmd' = [cmd EXCEPT ![h].stage = st] PROVE Moved(h, st)
      BY <1>i, <1>1, <2>1, MoveEffect
    <2>2. ASSUME NEW st, NEW p,
                 cmd' = [cmd EXCEPT ![h].stage = st, ![h].plugin = p]
          PROVE  Moved(h, st)
      <3>1. \E q : cmd' = [cmd EXCEPT ![h].stage = st, ![h].plugin = q]
        BY <2>2
      <3> HIDE DEF h
      <3> QED BY <1>i, <1>1, <3>1, MoveEffect
    <2> QED BY <2>1, <2>2
  <1> HIDE DEF h
  <1>5. ASSUME NEW st \in {4, 5}, Moved(h, st), rt' = "idle",
               toNrt' \in {toNrt, Append(toNrt, h)},
               dlg'.plugin = dlg.plugin,
               dlg'.isLoading = dlg.isLoading,
               \/ dlg'.suspended = dlg.suspended
               \/ ~dlg'.suspended /\ Locking(cmd[h]) /\ cmd[h].stage = 3,
               cmd[h].op # "open"
        PROVE  Safe'
    <2>1. CommandsHavePlugin'
      BY <1>5 DEF IInv, Safe, CommandsHavePlugin, ForPlugin, Moved
    <2>2. HeadsInv'
      BY <1>1, <1>2, <1>3, <1>5 DEF IInv, Safe, HeadsInv, Moved
    <2>3. LoadingInv'
      BY <1>1, <1>5 DEF IInv, Safe, LoadingInv, Pending, Moved
    <2>4. SuspensionInv'
      BY <1>1, <1>5 DEF IInv, Safe, SuspensionInv, Pending, Locking, Moved, h
    <2>5. MutexInv'
      BY <1>1, <1>2, <1>3, <1>5
         DEF IInv, Safe, HeadsInv, MutexInv, Moved, Locking
    <2> QED BY <2>1, <2>2, <2>3, <2>4, <2>5 DEF Safe
  <1>6. CASE DoneOpen
    <2>1. Moved(h, 5) /\ cmd[h].op = "open" /\ cmd[h].stage = 3
      BY <1>4, <1>6 DEF DoneOpen, Done, h
    <2>2. dlg.plugin = NoPlugin /\ dlg'.suspended = dlg.suspended
      BY <1>1, <1>6, <1>i, <2>1, DelegateFields
         DEF DoneOpen, IInv, Safe, LoadingInv, Pending
    <2>3. rt = "idle" /\ rt' = "idle" /\ toNrt' = toNrt
      BY <1>6 DEF DoneOpen, Done, RtReady
    <2>4. \A s \in Slots : ~ForPlugin(cmd[s]) /\ ~ForPlugin(cmd'[s])
      BY <2>1, <2>2 DEF IInv, Safe, CommandsHavePlugin, ForPlugin, Moved
    <2>5. nrt = "idle"
      BY <1>2, <2>4 DEF IInv, Safe, HeadsInv, Calling, Locking, ForPlugin
    <2>6. LoadingInv'
      BY <1>1, <2>1, <2>3 DEF IInv, Safe, LoadingInv, Pending, Moved
    <2> QED BY <1>1, <2>3, <2>4, <2>5, <2>6
            DEF Safe, CommandsHavePlugin, HeadsInv, SuspensionInv, MutexInv,
                ForPlugin, Locking
  <1>7. CASE DoneReset
    <2>1. Moved(h, 5) /\ cmd[h].op = "reset" /\ cmd[h].stage = 3
      BY <1>4, <1>7 DEF DoneReset, Done, ToCleanup, h
    <2>2. Locking(cmd[h])
      BY <1>1, <2>1 DEF IInv, Safe, SuspensionInv, Locking
    <2>3. /\ dlg'.plugin = dlg.plugin /\ dlg'.isLoading = dlg.isLoading
          /\ ~dlg'.suspended
      BY <1>7, <1>i, DelegateFields DEF DoneReset
    <2> QED BY <1>5, <1>7, <2>1, <2>2, <2>3 DEF DoneReset, Done, RtReady
  <1>8. CASE DoneReadBegin
    <2>1. cmd[h].op = "read" /\ cmd[h].stage = 3 /\ rt = "idle"
      BY <1>8 DEF DoneReadBegin, Done, RtReady, h
    <2>2. CASE dlg.alive
      <3>1. /\ UNCHANGED <<cmd, toNrt, toRt>> /\ rt' = "stage3"
            /\ dlg' = [dlg EXCEPT !.suspended = IF cmd[h].async THEN FALSE
                                                               ELSE @]
        BY <1>8, <2>2 DEF DoneReadBegin, h
      <3>2. /\ dlg'.plugin = dlg.plugin /\ dlg'.isLoading = dlg.isLoading
            /\ cmd[h].async => ~dlg'.suspended
            /\ ~cmd[h].async => dlg'.suspended = dlg.suspended
        <4>1. CASE cmd[h].async
          BY <1>i, <3>1, <4>1, DelegateFields
        <4>2. CASE ~cmd[h].async
          <5>1. dlg' = [dlg EXCEPT !.suspended = dlg.suspended]
            BY <3>1, <4>2
          <5> QED BY <1>i, <4>2, <5>1, DelegateFields
        <4> QED BY <4>1, <4>2
      <3>3. SuspensionInv'
        BY <1>1, <2>1, <3>1, <3>2
           DEF IInv, Safe, SuspensionInv, Pending, Locking, h
      <3> QED BY <1>1, <2>1, <3>1, <3>2, <3>3
              DEF IInv, Safe, CommandsHavePlugin, HeadsInv, LoadingInv, MutexInv,
                  Pending, h
    <2>3. CASE ~dlg.alive
      <3>1. Moved(h, 5) /\ rt' = "idle" /\ UNCHANGED <<dlg, toNrt>>
        BY <1>4, <1>8, <2>1, <2>3 DEF DoneReadBegin, ToCleanup, h
      <3> QED BY <1>5, <2>1, <3>1
    <2> QED BY <2>2, <2>3
  <1>9. CASE DoneWrite
    <2>1. Moved(h, 4) /\ cmd[h].op = "write" /\ cmd[h].stage = 3 /\ rt' = "idle"
          /\ toNrt' = Append(toNrt, h)
      BY <1>4, <1>9 DEF DoneWrite, Done, RtReady, ToStage4, h
    <2>2. CASE dlg.alive /\ cmd[h].async
      <3>1. /\ dlg'.plugin = dlg.plugin /\ dlg'.isLoading = dlg.isLoading
            /\ ~dlg'.suspended
        BY <1>9, <1>i, <2>2, DelegateFields DEF DoneWrite, h
      <3> QED BY <1>5, <2>1, <2>2, <3>1 DEF Locking
    <2>3. CASE ~(dlg.alive /\ cmd[h].async)
      <3>1. /\ dlg'.plugin = dlg.plugin /\ dlg'.isLoading = dlg.isLoading
            /\ dlg'.suspended = dlg.suspended
        <4>1. dlg' = [dlg EXCEPT !.suspended = dlg.suspended]
          BY <1>9, <2>3 DEF DoneWrite, h
        <4> QED BY <1>i, <4>1, DelegateFields
      <3> QED BY <1>5, <2>1, <3>1
    <2> QED BY <2>2, <2>3
  <1>10. CASE DoneVendor
    <2>1. Moved(h, 5) /\ cmd[h].op = "vendor" /\ rt' = "idle"
          /\ UNCHANGED <<dlg, toNrt>>
      BY <1>4, <1>10 DEF DoneVendor, Done, RtReady, ToCleanup, h
    <2> QED BY <1>5, <2>1
  <1>11. CASE Cleanup
    <2> DEFINE table == [cmd EXCEPT ![h] = Free]
    <2>1. rt' = "idle" /\ cmd[h].stage = 5 /\ rt = "idle"
      BY <1>11 DEF Cleanup, RtReady, h
    <2>2. CASE cmd' = table /\ UNCHANGED <<dlg, toNrt>>
      <3>1. /\ cmd'[h] = Free /\ \A x \in Slots : x # h => cmd'[x] = cmd[x]
        BY <1>1, <1>i, <2>2 DEF TypeOK
      <3>2. Free.op = "none" /\ Free.stage = 0
        BY CommandFields
      <3>3. CommandsHavePlugin'
        BY <2>2, <3>1, <3>2 DEF IInv, Safe, CommandsHavePlugin, ForPlugin
      <3>4. HeadsInv'
        BY <1>1, <1>2, <2>1, <2>2, <3>1 DEF IInv, Safe, HeadsInv
      <3>5. LoadingInv'
        BY <2>1, <2>2, <3>1, <3>2 DEF IInv, Safe, LoadingInv, Pending
      <3>6. SuspensionInv'
        BY <2>1, <2>2, <3>1, <3>2 DEF IInv, Safe, SuspensionInv, Pending, Locking
      <3>7. MutexInv'
        BY <1>1, <1>2, <2>1, <2>2, <3>1 DEF IInv, Safe, MutexInv
      <3> QED BY <3>3, <3>4, <3>5, <3>6, <3>7 DEF Safe
    <2>3. CASE /\ \A s \in Slots : ~Owned(table[s])
               /\ Destruct("rt", dlg, table)
      <3>1. table \in [Slots -> Commands]
        BY <1>1, <1>i, CommandFacts DEF TypeOK
      <3>2. nrt = "idle"
        <4>1. \A x \in Slots : x # h => table[x] = cmd[x]
          BY <1>i DEF TypeOK
        <4> QED BY <1>2, <2>3, <4>1
      <3>3. \A s \in Slots : ~Owned(cmd'[s])
        BY <1>i, <2>3, <3>1, DestructEffect
      <3> QED BY <1>1, <2>1, <3>2, <3>3, UnownedSafe
    <2> QED BY <1>11, <2>2, <2>3 DEF Cleanup, h
  <1>12. CASE DoneReadEnd
    <2>1. /\ Moved(h, 4) /\ cmd[h].op = "read" /\ rt' = "idle"
          /\ toNrt' = Append(toNrt, h) /\ UNCHANGED dlg /\ rt = "stage3"
      BY <1>4, <1>12 DEF DoneReadEnd, ToStage4, IInv, Safe, HeadsInv, h
    <2> QED BY <1>5, <2>1
  <1> QED BY <1>6, <1>7, <1>8, <1>9, <1>10, <1>11, <1>12 DEF RtStage

LEMMA NrtSafe ==
  IInv /\ (NrtStage \/ NrtLeave \/ NrtNotify \/ NrtNotified) => Safe'
  <1> SUFFICES ASSUME IInv, NrtStage \/ NrtLeave \/ NrtNotify \/ NrtNotified
               PROVE  Safe'
    OBVIOUS
  <1> DEFINE h == Head(toNrt)
  <1>i. TypeOK /\ UNCHANGED <<dlg, rt>>
    BY DEF IInv, NrtStage, NrtOpen, NrtClose, NrtFileIO, NrtEnter, NrtFree,
           NrtLeave, NrtNotify, NrtNotified
  <1>1. ASSUME NEW st \in {3, 5}, h \in Slots, cmd[h].stage \in {2, 4},
               cmd[h].stage = 2 \/ st = 5,
               ToRt([cmd[h] EXCEPT !.stage = st])
                 \/ \E p : ToRt([cmd[h] EXCEPT !.stage = st, !.plugin = p]),
               nrt' = "idle", rt' = rt, dlg' = dlg,
               \/ mutex' = mutex
               \/ nrt # "idle" /\ Locking(cmd[h]) /\ mutex' = "free"
        PROVE  Safe'
    <2>1. Moved(h, st)
      <3>1. CASE ToRt([cmd[h] EXCEPT !.stage = st])
        BY <1>1, <1>i, <3>1, MoveEffect DEF ToRt
      <3>2. ASSUME NEW p, ToRt([cmd[h] EXCEPT !.stage = st, !.plugin = p])
            PROVE  Moved(h, st)
        <4>1. cmd' = [cmd EXCEPT ![h] = [cmd[h] EXCEPT !.stage = st,
                                                       !.plugin = p]]
          BY <3>2 DEF ToRt
        <4> HIDE DEF h
        <4> QED BY <1>1, <1>i, <4>1, MoveEffect
      <3> QED BY <1>1, <3>1, <3>2
    <2>2. toRt # <<>> => /\ toRt' # <<>> /\ Head(toRt') = Head(toRt)
                         /\ Head(toRt) \in Slots
      BY <1>1, <1>i, FifoFacts DEF ToRt
    <2> HIDE DEF h
    <2>3. CommandsHavePlugin'
      BY <1>1, <2>1 DEF IInv, Safe, CommandsHavePlugin, ForPlugin, Moved
    <2>4. HeadsInv'
      BY <1>1, <2>1, <2>2 DEF IInv, Safe, HeadsInv, Moved
    <2>m. /\ \A x \in Slots : /\ cmd'[x].op = cmd[x].op
                               /\ cmd'[x].async = cmd[x].async
          /\ \A x \in Slots : cmd'[x].stage \in {2, 3} => cmd[x].stage \in {2, 3}
      <3>1. cmd'[h].stage \in {2, 3} => cmd[h].stage \in {2, 3}
        <4>1. cmd'[h].stage = st
          BY <2>1 DEF Moved
        <4>2. cmd[h].stage = 2 \/ st = 5
          BY <1>1, Zenon
        <4> QED BY <4>1, <4>2
      <3> QED BY <2>1, <3>1 DEF Moved
    <2>5. LoadingInv'
      BY <1>1, <2>m DEF IInv, Safe, LoadingInv, Pending
    <2>6. SuspensionInv'
      BY <1>1, <2>2, <2>m
         DEF IInv, Safe, HeadsInv, SuspensionInv, Locking, Pending
    <2>7. MutexInv'
      BY <1>1, <2>1 DEF IInv, Safe, MutexInv, h
    <2> QED BY <2>3, <2>4, <2>5, <2>6, <2>7 DEF Safe
  <1>2. ASSUME NrtStage \/ NrtLeave PROVE h \in Slots
    <2>1. toNrt # <<>>
      BY <1>2 DEF NrtStage, NrtOpen, NrtClose, NrtFileIO, NrtEnter, NrtFree,
                  NrtReady, NrtLeave, IInv, Safe, HeadsInv
    <2> QED BY <1>i, <2>1, FifoFacts
  <1>3. CASE NrtOpen
    <2>1. \/ ToRt([cmd[h] EXCEPT !.stage = 3])
          \/ \E p : ToRt([cmd[h] EXCEPT !.stage = 3, !.plugin = p])
      BY <1>3 DEF NrtOpen
    <2>2. cmd[h].stage = 2 /\ nrt' = "idle" /\ mutex' = mutex
      BY <1>3 DEF NrtOpen, NrtReady
    <2> HIDE DEF h
    <2> QED BY <1>1, <1>2, <1>3, <1>i, <2>1, <2>2 DEF NrtStage
  <1>4. CASE NrtClose
    <2>1. \E p : ToRt([cmd[h] EXCEPT !.stage = 5, !.plugin = p])
      BY <1>4 DEF NrtClose
    <2>2. cmd[h].stage = 2 /\ nrt' = "idle" /\ mutex' = mutex
      BY <1>4 DEF NrtClose, NrtReady
    <2> HIDE DEF h
    <2> QED BY <1>1, <1>2, <1>4, <1>i, <2>1, <2>2 DEF NrtStage
  <1>5. CASE NrtFileIO
    <2>1. /\ ToRt([cmd[h] EXCEPT !.stage = 3])
          /\ cmd[h].stage = 2 /\ nrt' = "idle" /\ mutex' = mutex
      BY <1>5 DEF NrtFileIO, NrtReady
    <2> HIDE DEF h
    <2> QED BY <1>1, <1>2, <1>5, <1>i, <2>1 DEF NrtStage
  <1>6. CASE NrtFree
    <2>1. /\ ToRt([cmd[h] EXCEPT !.stage = 5])
          /\ cmd[h].stage = 4 /\ nrt' = "idle" /\ mutex' = mutex
      BY <1>6 DEF NrtFree, NrtReady
    <2> HIDE DEF h
    <2> QED BY <1>1, <1>2, <1>6, <1>i, <2>1 DEF NrtStage
  <1>7. CASE NrtLeave
    <2>1. PICK st \in {3, 5} : ToRt([cmd[h] EXCEPT !.stage = st])
      BY <1>7 DEF NrtLeave
    <2>2. /\ cmd[h].stage = 2 /\ nrt' = "idle" /\ nrt # "idle"
          /\ \/ mutex' = mutex
             \/ Locking(cmd[h]) /\ mutex' = "free"
      BY <1>7 DEF NrtLeave, IInv, Safe, HeadsInv
    <2> HIDE DEF h
    <2> QED BY <1>1, <1>2, <1>7, <1>i, <2>1, <2>2
  <1>8. CASE NrtEnter
    <2>1. /\ toNrt # <<>> /\ cmd[h].stage = 2 /\ Calling(cmd[h]) /\ h \in Slots
          /\ nrt' = "in" /\ UNCHANGED <<cmd, toNrt, toRt>>
          /\ \/ Locking(cmd[h]) /\ mutex = "free" /\ mutex' = "nrt"
             \/ ~Locking(cmd[h]) /\ mutex' = mutex
      BY <1>2, <1>8 DEF NrtEnter, NrtReady, NrtStage
    <2> QED BY <1>i, <2>1
            DEF IInv, Safe, CommandsHavePlugin, HeadsInv, LoadingInv,
                SuspensionInv, MutexInv, Pending
  <1>9. CASE NrtNotify \/ NrtNotified
    <2>1. /\ nrt # "idle" /\ UNCHANGED <<cmd, toNrt, toRt, mutex>>
      BY <1>9 DEF NrtNotify, NrtNotified
    <2> QED BY <1>i, <2>1
            DEF IInv, Safe, CommandsHavePlugin, HeadsInv, LoadingInv,
                SuspensionInv, MutexInv, Pending
  <1> QED BY <1>3, <1>4, <1>5, <1>6, <1>7, <1>8, <1>9 DEF NrtStage

LEMMA UiSafe == IInv /\ (UiLock \/ UiDeref \/ UiRelease) => Safe'
  <1> SUFFICES ASSUME IInv, UiLock \/ UiDeref \/ UiRelease PROVE Safe'
    OBVIOUS
  <1>1. CASE UNCHANGED <<dlg, cmd, toNrt, toRt, mutex, rt, nrt>>
    BY <1>1 DEF IInv, Safe, CommandsHavePlugin, HeadsInv, LoadingInv,
                SuspensionInv, MutexInv, Pending
  <1>2. CASE /\ ~dlg.alive /\ ~InFlight /\ Destruct("ui", dlg, cmd)
             /\ UNCHANGED <<toRt, mutex, rt, nrt>>
    <2>1. TypeOK /\ dlg \in Delegates /\ cmd \in [Slots -> Commands]
      BY DEF IInv, TypeOK
    <2>2. \A s \in Slots : ~Owned(cmd[s])
      BY <1>2 DEF InFlight
    <2>3. /\ nrt # "idle" => Head(toNrt) \in Slots
          /\ rt = "stage3" => Head(toRt) \in Slots
      BY <2>1, FifoFacts DEF IInv, Safe, HeadsInv
    <2>4. nrt = "idle" /\ rt # "stage3" /\ rt # "write"
      BY <1>2, <2>2, <2>3
         DEF IInv, Safe, HeadsInv, LoadingInv, Owned, Calling, Locking
    <2>5. /\ \A s \in Slots : ~Owned(cmd'[s])
          /\ dlg'.suspended = dlg.suspended
      BY <1>2, <2>1, <2>2, DestructEffect
    <2> QED BY <1>2, <2>4, <2>5, UnownedSafe DEF IInv, Safe, MutexInv
  <1> QED BY <1>1, <1>2 DEF UiLock, UiDeref, UiRelease

LEMMA StutterSafe == IInv /\ UNCHANGED vars => Safe'
  BY DEF vars, IInv, Safe, CommandsHavePlugin, HeadsInv, LoadingInv,
         SuspensionInv, MutexInv, Pending

LEMMA Initial == Init => IInv
  <1> SUFFICES ASSUME Init PROVE IInv
    OBVIOUS
  <1>1. TypeOK
    <2>1. cmd \in [Slots -> Commands] /\ dlg \in Delegates
      BY CommandFacts DEF Init, Delegates
    <2>2. toNrt \in Seq(Slots) /\ toRt \in Seq(Slots)
      BY DEF Init
    <2> QED BY <2>1, <2>2 DEF Init, TypeOK
  <1>2. \A s \in Slots : cmd[s].op = "none"
    BY CommandFields DEF Init
  <1>3. rt = "idle" /\ nrt = "idle"
    BY DEF Init
  <1> QED BY <1>1, <1>2, <1>3
          DEF IInv, Safe, CommandsHavePlugin, HeadsInv, LoadingInv, SuspensionInv,
              MutexInv, ForPlugin, Locking, Pending

LEMMA Inductive == IInv /\ [Next]_vars => IInv'
  <1> SUFFICES ASSUME IInv, [Next]_vars PROVE IInv'
    OBVIOUS
  <1>1. TypeOK'
    BY TypeStep DEF IInv, Safe
  <1>2. Safe'
    BY UnitCommandSafe, RtCallSafe, RtStageSafe, NrtSafe, UiSafe, StutterSafe
       DEF Next
  <1> QED BY <1>1, <1>2 DEF IInv

\* The invariant that the others follow from.
THEOREM Invariance == Spec => []IInv
  BY Initial, Inductive, PTL DEF Spec

\* Every step of the code keeps the delegate, the command data and the FIFOs
\* well-formed; it needs HeadsInv, for a stage that ends moves on the command
\* at the head of its FIFO.
THEOREM TypeCorrect == Spec => []TypeOK
  <1>1. IInv => TypeOK
    BY DEF IInv
  <1> QED BY <1>1, Invariance, PTL

\* Stages 2 and 3 of a command never find plugin_ null, however many commands
\* are in flight: close() and open() refuse while one of them is.
THEOREM CommandsKeepPlugin == Spec => []CommandsHavePlugin
  <1>1. IInv => CommandsHavePlugin
    BY DEF IInv, Safe
  <1> QED BY <1>1, Invariance, PTL

\* suspended_ covers every asynchronous reset, read and write from the unit
\* command to stage 3, and check() lets only one of them begin.
THEOREM OneSuspenderAtATime == Spec => []OneSuspender
  <1>1. IInv => OneSuspender
    BY DEF IInv, Safe, SuspensionInv, OneSuspender, Pending
  <1> QED BY <1>1, Invariance, PTL

\* The try_lock of next() and the scopedLock of stage 2 do exclude process()
\* and every call that check() guards from an asynchronous stage 2.
THEOREM ProcessExcluded == Spec => []ProcessExclusion
  <1>1. ASSUME IInv PROVE ProcessExclusion
    <2> SUFFICES ASSUME nrt # "idle", Locking(cmd[Head(toNrt)]),
                        rt \in {"next", "call", "write"}
                 PROVE  FALSE
      BY DEF ProcessExclusion
    <2>1. Head(toNrt) \in Slots /\ Pending(Head(toNrt))
      BY <1>1, FifoFacts DEF IInv, Safe, HeadsInv, Pending
    <2>2. dlg.suspended
      BY <1>1, <2>1 DEF IInv, Safe, SuspensionInv
    <2>3. mutex = "nrt" /\ (rt = "next" => mutex = "rt")
      BY <1>1, <2>2 DEF IInv, Safe, MutexInv
    <2> QED BY <1>1, <2>2, <2>3 DEF IInv, Safe, MutexInv
  <1> QED BY <1>1, Invariance, PTL
--------------------------------------------------------------------------------
(* Who owns each plugin *)

Opens(c)  == c.op = "open" /\ c.stage \in {2, 3}
Closes(c) == c.op = "close" /\ c.stage = 2

\* who has a plugin: the delegate, an open command that made it, or a close
HoldersInv ==
  /\ \A s \in Slots : cmd[s].plugin # NoPlugin =>
        \/ cmd[s].op = "open" /\ cmd[s].stage = 3
        \/ Closes(cmd[s])
  /\ \A s \in Slots : Closes(cmd[s]) => cmd[s].plugin # NoPlugin
  /\ \A s, t \in Slots : cmd[s].plugin = cmd[t].plugin /\ cmd[s].plugin # NoPlugin => s = t
  /\ \A s \in Slots : cmd[s].plugin # NoPlugin => cmd[s].plugin # dlg.plugin
  /\ \A p \in Plugins : life[p] \in {"nrt", "ui"}
                          <=> dlg.plugin = p \/ \E s \in Slots : cmd[s].plugin = p

\* whoever has a plugin knows whether the UI thread made it
EditorInv ==
  /\ dlg.plugin # NoPlugin => dlg.editor = (life[dlg.plugin] = "ui")
  /\ \A s \in Slots : Opens(cmd[s]) => cmd[s].gui = dlg.editor
  /\ \A s \in Slots : cmd[s].plugin # NoPlugin =>
                        cmd[s].gui = (life[cmd[s].plugin] = "ui")

OwnInv == HoldersInv /\ EditorInv

\* command e stands where c was and has what c had
Continues(c, e) == /\ e.plugin = c.plugin
                   /\ c.plugin # NoPlugin => e = c
                   /\ Closes(e) => e = c

\* Nothing changes hands.
LEMMA Kept ==
  ASSUME TypeOK, OwnInv, \A s \in Slots : Continues(cmd[s], cmd'[s]),
         \A s \in Slots : Opens(cmd'[s]) => cmd'[s].gui = dlg'.editor,
         dlg'.plugin = dlg.plugin, dlg.plugin # NoPlugin => dlg'.editor = dlg.editor,
         life' = life
  PROVE  OwnInv'
  <1>1. HoldersInv'
    BY DEF OwnInv, HoldersInv, Continues, Closes
  <1>2. EditorInv'
    BY DEF OwnInv, EditorInv, Continues, Opens
  <1> QED BY <1>1, <1>2 DEF OwnInv

\* The delegate hands its plugin to the close command in slot s.
LEMMA HandedOver ==
  ASSUME TypeOK, OwnInv, NEW s \in Slots, cmd[s].plugin = NoPlugin, dlg.plugin # NoPlugin,
         Closes(cmd'[s]), cmd'[s].plugin = dlg.plugin, cmd'[s].gui = dlg.editor,
         \A t \in Slots : t # s => Continues(cmd[t], cmd'[t]),
         \A t \in Slots : Opens(cmd'[t]) => cmd'[t].gui = dlg'.editor,
         dlg'.plugin = NoPlugin, life' = life
  PROVE  OwnInv'
  <1>0. dlg.plugin \in Plugins /\ NoPlugin \notin Plugins
    BY DelegateAssumption DEF TypeOK, Delegates
  <1>1. HoldersInv'
    <2>1. \A t \in Slots : cmd'[t].plugin # NoPlugin =>
            \/ cmd'[t].op = "open" /\ cmd'[t].stage = 3
            \/ Closes(cmd'[t])
      BY DEF OwnInv, HoldersInv, Continues, Closes
    <2>2. \A t \in Slots : Closes(cmd'[t]) => cmd'[t].plugin # NoPlugin
      BY DEF OwnInv, HoldersInv, Continues, Closes
    <2>3. \A t, u \in Slots : cmd'[t].plugin = cmd'[u].plugin /\ cmd'[t].plugin # NoPlugin => t = u
      BY DEF OwnInv, HoldersInv, Continues
    <2>4. \A p \in Plugins : (dlg'.plugin = p \/ \E t \in Slots : cmd'[t].plugin = p)
                               <=> (dlg.plugin = p \/ \E t \in Slots : cmd[t].plugin = p)
      BY <1>0 DEF Continues
    <2> QED BY <2>1, <2>2, <2>3, <2>4 DEF OwnInv, HoldersInv, Closes
  <1>2. EditorInv'
    BY DEF OwnInv, EditorInv, HoldersInv, Continues, Opens, Closes
  <1> QED BY <1>1, <1>2 DEF OwnInv

\* The plugin of the delegate, if any, ends, and nobody else has it.
LEMMA DelegateLoses ==
  ASSUME TypeOK, OwnInv, \A s \in Slots : Continues(cmd[s], cmd'[s]),
         \A s \in Slots : Opens(cmd'[s]) => cmd'[s].gui = dlg'.editor,
         dlg.plugin # NoPlugin, dlg'.plugin = NoPlugin,
         life' = [life EXCEPT ![dlg.plugin] = "gone"]
  PROVE  OwnInv'
  <1>0. dlg.plugin \in Plugins /\ NoPlugin \notin Plugins /\ life \in [Plugins -> {"none", "nrt", "ui", "gone"}]
        /\ \A s \in Slots : cmd[s].plugin \in Plugins \cup {NoPlugin}
    BY DelegateAssumption DEF TypeOK, Delegates, Commands
  <1>1. HoldersInv'
    BY <1>0 DEF OwnInv, HoldersInv, Continues, Closes
  <1>2. EditorInv'
    BY <1>0 DEF OwnInv, EditorInv, HoldersInv, Continues, Opens
  <1> QED BY <1>1, <1>2 DEF OwnInv

--------------------------------------------------------------------------------
(* What the actions do to commands and delegate *)

LEMMA OwnerFields ==
  /\ Free.plugin = NoPlugin /\ ~Opens(Free) /\ ~Closes(Free) /\ Free.op = "none"
  /\ \A op, async : /\ Command(op, async).plugin = NoPlugin
                    /\ Command(op, async).op = op
  /\ \A gui : /\ Opening(gui).plugin = NoPlugin /\ Opening(gui).gui = gui
              /\ ~Closes(Opening(gui)) /\ Opens(Opening(gui))
  /\ \A d : /\ Closing(d).plugin = d.plugin /\ Closing(d).gui = d.editor
            /\ Closes(Closing(d)) /\ ~Opens(Closing(d)) /\ Closing(d).op = "close"
  BY DEF Free, Command, Opening, Closing, Opens, Closes

\* A command is sent.
LEMMA PostOwner ==
  ASSUME TypeOK, NEW s \in Slots, NEW c, Post(s, c)
  PROVE  /\ cmd[s].plugin = NoPlugin /\ cmd'[s] = c
         /\ \A t \in Slots : t # s => cmd'[t] = cmd[t]
         /\ c.plugin = NoPlugin /\ ~Closes(c) => \A t \in Slots : Continues(cmd[t], cmd'[t])
  <1>1. cmd[s] = Free /\ cmd'[s] = c /\ \A t \in Slots : t # s => cmd'[t] = cmd[t]
    BY DEF Post, TypeOK
  <1> QED BY <1>1, OwnerFields DEF Continues

\* A command that has no plugin moves on.
LEMMA MoveOwner ==
  ASSUME TypeOK, OwnInv, NEW h \in Slots, NEW st \in {3, 4, 5}, cmd[h].plugin = NoPlugin,
         cmd[h].op = "open" => st = 5 \/ (st = 3 /\ cmd[h].stage = 2),
         \/ cmd' = [cmd EXCEPT ![h].stage = st]
         \/ cmd' = [cmd EXCEPT ![h] = [cmd[h] EXCEPT !.stage = st]]
  PROVE  /\ \A s \in Slots : Continues(cmd[s], cmd'[s])
         /\ \A s \in Slots : Opens(cmd'[s]) => cmd'[s].gui = dlg.editor
  <1>1. cmd \in [Slots -> Commands] /\ cmd[h] \in Commands
    BY DEF TypeOK
  <1>2. /\ cmd'[h].stage = st /\ cmd'[h].op = cmd[h].op /\ cmd'[h].plugin = cmd[h].plugin
        /\ cmd'[h].gui = cmd[h].gui /\ \A s \in Slots : s # h => cmd'[s] = cmd[s]
    BY <1>1 DEF Commands
  <1> QED BY <1>2 DEF OwnInv, EditorInv, Continues, Closes, Opens

\* ~VSTPluginDelegate, when no command in table has a reference
LEMMA DestructOwner ==
  ASSUME TypeOK, OwnInv, NEW t \in {"rt", "ui"}, NEW d \in Delegates,
         NEW table \in [Slots -> Commands], Destruct(t, d, table),
         \A s \in Slots : Continues(cmd[s], table[s]) /\ ~Owned(table[s]),
         d.plugin = dlg.plugin, d.editor = dlg.editor
  PROVE  OwnInv'
  <1>1. dlg'.plugin = NoPlugin /\ dlg'.editor = dlg.editor
    BY DEF Destruct, Detached, Delegates
  <1>2. \A s \in Slots : ~Opens(table[s])
    BY DEF Owned, Opens
  <1>3. CASE d.plugin = NoPlugin /\ cmd' = table /\ life' = life
    BY <1>1, <1>2, <1>3, Kept
  <1>4. ASSUME NEW s \in Slots, d.plugin # NoPlugin, table[s] = Free, life' = life,
               cmd' = [table EXCEPT ![s] = Closing(d)]
        PROVE  OwnInv'
    <2>1. cmd'[s] = Closing(d) /\ \A x \in Slots : x # s => cmd'[x] = table[x]
      BY <1>4
    <2>2. cmd[s].plugin = NoPlugin
      BY <1>4, OwnerFields DEF Continues
    <2> QED BY <1>1, <1>2, <1>4, <2>1, <2>2, OwnerFields, HandedOver
  <1>5. CASE d.plugin # NoPlugin /\ cmd' = table /\ life' = [life EXCEPT ![d.plugin] = "gone"]
    BY <1>1, <1>2, <1>5, DelegateLoses
  <1> QED BY <1>3, <1>4, <1>5 DEF Destruct

--------------------------------------------------------------------------------
(* OwnInv is inductive, relative to IInv *)

\* A step that leaves commands and life cycles alone.
LEMMA SameOwner ==
  ASSUME TypeOK, OwnInv, UNCHANGED <<cmd, life>>, dlg'.plugin = dlg.plugin,
         dlg'.editor = dlg.editor
  PROVE  OwnInv'
  <1>1. \A s \in Slots : Continues(cmd[s], cmd'[s])
    BY DEF Continues
  <1> QED BY <1>1, Kept DEF OwnInv, EditorInv, Opens

\* A command without a plugin is sent.
LEMMA SentOwner ==
  ASSUME TypeOK, OwnInv, NEW s \in Slots, NEW op \in {"vis", "reset", "read", "write", "vendor"},
         NEW async, Post(s, Command(op, async)), UNCHANGED life,
         dlg'.plugin = dlg.plugin, dlg'.editor = dlg.editor
  PROVE  OwnInv'
  <1>1. /\ \A t \in Slots : Continues(cmd[t], cmd'[t])
        /\ cmd'[s] = Command(op, async) /\ \A t \in Slots : t # s => cmd'[t] = cmd[t]
    BY PostOwner, OwnerFields DEF Closes
  <1>2. \A t \in Slots : Opens(cmd'[t]) => cmd'[t].gui = dlg'.editor
    BY <1>1, OwnerFields DEF OwnInv, EditorInv, Opens
  <1> QED BY <1>1, <1>2, Kept

LEMMA UnitCommandOwner == IInv /\ OwnInv /\ UnitCommand => OwnInv'
  <1> SUFFICES ASSUME IInv, OwnInv, UnitCommand PROVE OwnInv'
    OBVIOUS
  <1>i. TypeOK /\ dlg \in Delegates
    BY DEF IInv, TypeOK
  <1>o. ~dlg.isLoading => \A s \in Slots : ~Opens(cmd[s])
    BY DEF IInv, Safe, LoadingInv, Opens, Pending
  <1>p. dlg.plugin # NoPlugin => \A s \in Slots : ~Opens(cmd[s])
    BY DEF IInv, Safe, LoadingInv, Opens, Pending
  <1>d. /\ Detached(dlg).plugin = NoPlugin /\ Detached(dlg).editor = dlg.editor
        /\ \A b : /\ [dlg EXCEPT !.editor = b, !.isLoading = TRUE].editor = b
                  /\ [dlg EXCEPT !.editor = b, !.isLoading = TRUE].plugin = dlg.plugin
                  /\ [Detached(dlg) EXCEPT !.editor = b, !.isLoading = TRUE].editor = b
                  /\ [Detached(dlg) EXCEPT !.editor = b, !.isLoading = TRUE].plugin = NoPlugin
                  /\ [dlg EXCEPT !.suspended = b].editor = dlg.editor
                  /\ [dlg EXCEPT !.suspended = b].plugin = dlg.plugin
                  /\ [dlg EXCEPT !.alive = b].editor = dlg.editor
                  /\ [dlg EXCEPT !.alive = b].plugin = dlg.plugin
    BY <1>i DEF Detached, Delegates
  <1>1. CASE Close
    <2>1. CASE RefuseClose
      BY <1>1, <1>i, <2>1, SameOwner DEF RefuseClose, Close
    <2>2. ASSUME NEW s \in Slots, dlg.plugin # NoPlugin, Post(s, Closing(dlg)), dlg' = Detached(dlg)
          PROVE  OwnInv'
      <3>1. /\ cmd[s].plugin = NoPlugin /\ cmd'[s] = Closing(dlg)
            /\ \A t \in Slots : t # s => Continues(cmd[t], cmd'[t])
        BY <1>i, <2>2, PostOwner DEF Continues
      <3>2. \A t \in Slots : ~Opens(cmd'[t])
        BY <1>i, <1>p, <2>2, PostOwner, OwnerFields
      <3> QED BY <1>1, <1>i, <1>d, <2>2, <3>1, <3>2, OwnerFields, HandedOver DEF Close
    <2> QED BY <1>1, <2>1, <2>2 DEF Close
  <1>2. ASSUME NEW gui \in BOOLEAN, Open(gui) PROVE OwnInv'
    <2>1. CASE RefuseClose
      BY <1>2, <1>i, <2>1, SameOwner DEF RefuseClose, Open
    <2>2. ASSUME NEW s \in Slots, dlg.plugin = NoPlugin, Post(s, Opening(gui)),
                 dlg' = [dlg EXCEPT !.editor = gui, !.isLoading = TRUE]
          PROVE  OwnInv'
      <3>1. /\ \A t \in Slots : Continues(cmd[t], cmd'[t]) /\ cmd'[s] = Opening(gui)
            /\ \A t \in Slots : t # s => cmd'[t] = cmd[t]
        BY <1>i, <2>2, PostOwner, OwnerFields
      <3>2. \A t \in Slots : Opens(cmd'[t]) => cmd'[t].gui = gui
        BY <1>2, <1>o, <3>1, OwnerFields DEF Open
      <3> QED BY <1>2, <1>i, <1>d, <2>2, <3>1, <3>2, Kept DEF Open
    <2>3. ASSUME NEW s \in Slots, NEW t \in Slots, s # t, cmd[s] = Free, cmd[t] = Free,
                 dlg.plugin # NoPlugin,
                 cmd' = [cmd EXCEPT ![s] = Closing(dlg), ![t] = Opening(gui)],
                 dlg' = [Detached(dlg) EXCEPT !.editor = gui, !.isLoading = TRUE]
          PROVE  OwnInv'
      <3>1. /\ cmd'[s] = Closing(dlg) /\ cmd'[t] = Opening(gui)
            /\ \A u \in Slots : u # s /\ u # t => cmd'[u] = cmd[u]
        BY <1>i, <2>3 DEF TypeOK
      <3>2. \A u \in Slots : u # s => Continues(cmd[u], cmd'[u])
        <4>1. Continues(cmd[t], cmd'[t])
          BY <2>3, <3>1, OwnerFields DEF Continues
        <4>2. \A u \in Slots : u # s /\ u # t => Continues(cmd[u], cmd'[u])
          BY <3>1 DEF Continues
        <4> QED BY <4>1, <4>2
      <3>3. \A u \in Slots : Opens(cmd'[u]) => cmd'[u].gui = gui
        <4>1. \A u \in Slots : u # s /\ u # t => ~Opens(cmd'[u])
          BY <1>p, <2>3, <3>1 DEF Opens
        <4>2. ~Opens(cmd'[s]) /\ cmd'[t].gui = gui
          BY <3>1, OwnerFields
        <4> QED BY <4>1, <4>2
      <3>4. dlg'.plugin = NoPlugin /\ dlg'.editor = gui /\ life' = life
        BY <1>2, <1>d, <2>3 DEF Open
      <3>5. Closes(cmd'[s]) /\ cmd'[s].plugin = dlg.plugin /\ cmd'[s].gui = dlg.editor
            /\ cmd[s].plugin = NoPlugin
        BY <2>3, <3>1, OwnerFields
      <3>6. \A u \in Slots : Opens(cmd'[u]) => cmd'[u].gui = dlg'.editor
        BY <3>3, <3>4
      <3> QED BY <1>i, <2>3, <3>2, <3>4, <3>5, <3>6, HandedOver
    <2> QED BY <1>2, <2>1, <2>2, <2>3 DEF Open
  <1>s. ASSUME NEW op \in {"reset", "read", "write"}, Suspending(op), UNCHANGED life PROVE OwnInv'
    <2>1. dlg'.plugin = dlg.plugin /\ dlg'.editor = dlg.editor
      BY <1>d, <1>s DEF Suspending
    <2> QED BY <1>i, <1>s, <2>1, SameOwner, SentOwner DEF Suspending
  <1>3. CASE FreeUnit
    <2> DEFINE d == [dlg EXCEPT !.alive = FALSE]
    <2>1. d \in Delegates /\ d.plugin = dlg.plugin /\ d.editor = dlg.editor
      BY <1>i DEF Delegates
    <2>2. CASE dlg' = d /\ UNCHANGED <<cmd, toNrt, life, reaped>>
      BY <1>i, <2>1, <2>2, SameOwner
    <2>3. CASE ~Shared /\ Destruct("rt", d, cmd)
      <3>1. \A s \in Slots : Continues(cmd[s], cmd[s]) /\ ~Owned(cmd[s])
        BY <2>3 DEF Shared, InFlight, Continues
      <3> HIDE DEF d
      <3> QED BY <1>i, <2>1, <2>3, <3>1, DestructOwner DEF TypeOK
    <2> QED BY <1>3, <2>2, <2>3 DEF FreeUnit
  <1>4. CASE ShowEditor
    <2>1. dlg'.plugin = dlg.plugin /\ dlg'.editor = dlg.editor /\ life' = life
      BY <1>4 DEF ShowEditor
    <2> QED BY <1>4, <1>i, <2>1, SentOwner DEF ShowEditor
  <1>5. ASSUME NEW async \in BOOLEAN, Reset(async) PROVE OwnInv'
    BY <1>5, <1>i, <1>s, SameOwner DEF Reset, Calls
  <1>6. ASSUME NEW async \in BOOLEAN, ReadPreset(async) PROVE OwnInv'
    BY <1>6, <1>i, <1>s, SentOwner DEF ReadPreset
  <1>7. ASSUME NEW async \in BOOLEAN, WritePreset(async) PROVE OwnInv'
    BY <1>7, <1>i, <1>s, SameOwner DEF WritePreset
  <1>8. ASSUME NEW async \in BOOLEAN, VendorSpecific(async) PROVE OwnInv'
    BY <1>8, <1>i, SameOwner, SentOwner DEF VendorSpecific, Calls
  <1>9. CASE CallPlugin \/ SetProgram
    <2>1. UNCHANGED <<dlg, cmd, life>>
      BY <1>9 DEF CallPlugin, Calls, SetProgram
    <2> QED BY <1>i, <2>1, SameOwner
  <1> QED BY <1>1, <1>2, <1>3, <1>4, <1>5, <1>6, <1>7, <1>8, <1>9 DEF UnitCommand

LEMMA CallOwner ==
  IInv /\ OwnInv /\ (WriteData \/ Return \/ NextBegin \/ NextEnd) => OwnInv'
  <1> SUFFICES ASSUME IInv, OwnInv, WriteData \/ Return \/ NextBegin \/ NextEnd PROVE OwnInv'
    OBVIOUS
  <1>i. TypeOK
    BY DEF IInv
  <1>1. CASE WriteData
    <2>1. UNCHANGED <<dlg, life>>
      BY <1>1 DEF WriteData
    <2> QED BY <1>1, <1>i, <2>1, SameOwner, SentOwner DEF WriteData
  <1>2. CASE Return \/ NextBegin \/ NextEnd
    <2>1. UNCHANGED <<dlg, cmd, life>>
      BY <1>2 DEF Return, NextBegin, NextEnd
    <2> QED BY <1>i, <2>1, SameOwner
  <1> QED BY <1>1, <1>2

LEMMA RtStageOwner == IInv /\ OwnInv /\ (RtStage \/ DoneReadEnd) => OwnInv'
  <1> SUFFICES ASSUME IInv, OwnInv, RtStage \/ DoneReadEnd PROVE OwnInv'
    OBVIOUS
  <1> DEFINE h == Head(toRt)
  <1>i. TypeOK /\ dlg \in Delegates /\ cmd \in [Slots -> Commands]
    BY DEF IInv, TypeOK
  <1>h. h \in Slots
    BY <1>i, FifoFacts DEF RtStage, DoneOpen, DoneReset, DoneReadBegin, DoneWrite, DoneVendor,
       Done, Cleanup, DoneReadEnd, IInv, Safe, HeadsInv
  <1>d. \A b : /\ [dlg EXCEPT !.suspended = b].editor = dlg.editor
               /\ [dlg EXCEPT !.suspended = b].plugin = dlg.plugin
    BY <1>i DEF Delegates
  <1>1. CASE DoneOpen
    <2> DEFINE p == cmd[h].plugin
    <2>1. cmd[h].op = "open" /\ cmd[h].stage = 3 /\ dlg.plugin = NoPlugin
      BY <1>1, <1>h DEF DoneOpen, Done, IInv, Safe, LoadingInv, Pending
    <2>2. /\ dlg'.plugin = p /\ dlg'.editor = dlg.editor
          /\ life' = life
      BY <1>1, <1>i, <2>1, DelegateAssumption DEF DoneOpen, Delegates, TypeOK
    <2>3. /\ cmd'[h].plugin = NoPlugin /\ cmd'[h].op = "open" /\ cmd'[h].stage = 5
          /\ \A s \in Slots : s # h => cmd'[s] = cmd[s]
      BY <1>1, <1>h, <1>i, <2>1 DEF DoneOpen, Commands
    <2>4. p # NoPlugin => cmd[h].gui = (life[p] = "ui")
      BY <1>h DEF OwnInv, EditorInv
    <2>5. cmd[h].gui = dlg.editor
      BY <1>h, <2>1 DEF OwnInv, EditorInv, Opens
    <2>6. NoPlugin \notin Plugins
      BY DelegateAssumption
    <2> HIDE DEF h
    <2>7. HoldersInv'
      BY <1>h, <2>1, <2>2, <2>3, <2>6 DEF OwnInv, HoldersInv, Closes
    <2>8. EditorInv'
      BY <1>h, <2>1, <2>2, <2>3, <2>4, <2>5 DEF OwnInv, HoldersInv, EditorInv, Opens
    <2> QED BY <2>7, <2>8 DEF OwnInv
  <1>2. ASSUME NEW st \in {4, 5}, cmd' = [cmd EXCEPT ![h].stage = st], cmd[h].op \notin {"open", "close"},
               dlg'.plugin = dlg.plugin, dlg'.editor = dlg.editor, life' = life
        PROVE  OwnInv'
    <2>1. cmd[h].plugin = NoPlugin
      BY <1>h, <1>2 DEF OwnInv, HoldersInv, Closes
    <2> HIDE DEF h
    <2> QED BY <1>i, <1>h, <1>2, <2>1, MoveOwner, Kept
  <1>3. CASE DoneReset \/ DoneReadBegin \/ DoneWrite \/ DoneVendor
    <2>1. dlg'.plugin = dlg.plugin /\ dlg'.editor = dlg.editor /\ life' = life
      BY <1>3, <1>d DEF DoneReset, DoneReadBegin, DoneWrite, DoneVendor
    <2>2. cmd[h].op \notin {"open", "close"}
      BY <1>3 DEF DoneReset, DoneReadBegin, DoneWrite, DoneVendor, Done
    <2>3. \/ cmd' = [cmd EXCEPT ![h].stage = 5] \/ cmd' = [cmd EXCEPT ![h].stage = 4] \/ cmd' = cmd
      BY <1>3 DEF DoneReset, DoneReadBegin, DoneWrite, DoneVendor, ToCleanup, ToStage4
    <2> HIDE DEF h
    <2> QED BY <1>i, <1>2, <2>1, <2>2, <2>3, SameOwner
  <1>4. CASE DoneReadEnd
    <2>1. cmd[h].op = "read" /\ cmd' = [cmd EXCEPT ![h].stage = 4] /\ UNCHANGED <<dlg, life>>
      BY <1>4 DEF DoneReadEnd, ToStage4, IInv, Safe, HeadsInv
    <2> QED BY <1>2, <2>1
  <1>5. CASE Cleanup
    <2> DEFINE table == [cmd EXCEPT ![h] = Free]
    <2>1. cmd[h].plugin = NoPlugin
      BY <1>5, <1>h DEF Cleanup, OwnInv, HoldersInv, Closes
    <2>2. table \in [Slots -> Commands] /\ \A s \in Slots : Continues(cmd[s], table[s])
      BY <1>i, <1>h, <2>1, OwnerFields, CommandFacts DEF Continues
    <2>3. \A s \in Slots : Opens(table[s]) => table[s].gui = dlg.editor
      BY <1>i, <1>h, OwnerFields DEF OwnInv, EditorInv
    <2>4. CASE cmd' = table /\ UNCHANGED <<dlg, toNrt, life, reaped>>
      BY <1>i, <2>2, <2>3, <2>4, Kept
    <2>5. CASE Destruct("rt", dlg, table) /\ \A s \in Slots : ~Owned(table[s])
      <3> HIDE DEF table
      <3> QED BY <1>i, <2>2, <2>5, DestructOwner
    <2> QED BY <1>5, <2>4, <2>5 DEF Cleanup
  <1> QED BY <1>1, <1>3, <1>4, <1>5 DEF RtStage

LEMMA NrtOwner ==
  IInv /\ OwnInv /\ (NrtStage \/ NrtLeave \/ NrtNotify \/ NrtNotified) => OwnInv'
  <1> SUFFICES ASSUME IInv, OwnInv, NrtStage \/ NrtLeave \/ NrtNotify \/ NrtNotified PROVE OwnInv'
    OBVIOUS
  <1> DEFINE h == Head(toNrt)
  <1>i. TypeOK /\ UNCHANGED dlg /\ cmd \in [Slots -> Commands] /\ life \in [Plugins -> {"none", "nrt", "ui", "gone"}]
        /\ NoPlugin \notin Plugins
    BY DelegateAssumption DEF IInv, TypeOK, NrtStage, NrtOpen, NrtClose, NrtFileIO,
       NrtEnter, NrtFree,
       NrtLeave, NrtNotify, NrtNotified
  <1>h. toNrt # <<>> => h \in Slots
    BY <1>i, FifoFacts
  <1>1. ASSUME NEW st \in {3, 5}, h \in Slots, ToRt([cmd[h] EXCEPT !.stage = st]), life' = life,
               cmd[h].plugin = NoPlugin,
               cmd[h].op = "open" => st = 5 \/ cmd[h].stage = 2
        PROVE  OwnInv'
    <2>1. cmd' = [cmd EXCEPT ![h] = [cmd[h] EXCEPT !.stage = st]]
      BY <1>1 DEF ToRt
    <2> HIDE DEF h
    <2>2. /\ \A s \in Slots : Continues(cmd[s], cmd'[s])
          /\ \A s \in Slots : Opens(cmd'[s]) => cmd'[s].gui = dlg.editor
      <3>1. TypeOK /\ h \in Slots /\ st \in {3, 4, 5} /\ cmd[h].plugin = NoPlugin
        BY <1>i, <1>1
      <3>2. cmd[h].op = "open" => st = 5 \/ (st = 3 /\ cmd[h].stage = 2)
        BY <1>1
      <3> QED BY <2>1, <3>1, <3>2, MoveOwner
    <2> QED BY <1>i, <1>1, <2>2, Kept
  <1>2. CASE NrtOpen
    <2> DEFINE c == cmd[h]
    <2>0. h \in Slots /\ c.op = "open" /\ c.stage = 2 /\ c \in Commands
      BY <1>2, <1>i, <1>h DEF NrtOpen, NrtReady
    <2>1. /\ h \in Slots /\ c.op = "open" /\ c.stage = 2 /\ c.plugin = NoPlugin /\ dlg.plugin = NoPlugin
          /\ c \in Commands
      BY <2>0 DEF IInv, Safe, LoadingInv, Pending, OwnInv, HoldersInv, Closes
    <2>2. ASSUME NEW p \in Plugins, life[p] = "none",
                 life' = [life EXCEPT ![p] = IF c.gui THEN "ui" ELSE "nrt"],
                 ToRt([c EXCEPT !.stage = 3, !.plugin = p])
          PROVE  OwnInv'
      <3>1. /\ cmd'[h].plugin = p /\ cmd'[h].op = "open" /\ cmd'[h].stage = 3 /\ cmd'[h].gui = c.gui
            /\ \A s \in Slots : s # h => cmd'[s] = cmd[s]
        BY <1>i, <2>1, <2>2 DEF ToRt, Commands
      <3>2. \A s \in Slots : cmd[s].plugin # p
        BY <2>2 DEF OwnInv, HoldersInv
      <3>3. /\ c.gui \in BOOLEAN /\ c.gui = dlg.editor /\ \A s \in Slots : cmd[s].plugin \in Plugins \cup {NoPlugin}
        BY <1>i, <2>1 DEF Commands, OwnInv, EditorInv, Opens
      <3> HIDE DEF h
      <3>4. HoldersInv'
        BY <1>i, <2>1, <2>2, <3>1, <3>2, <3>3 DEF OwnInv, HoldersInv, Closes
      <3>5. EditorInv'
        BY <1>i, <2>1, <2>2, <3>1, <3>2, <3>3 DEF OwnInv, EditorInv, Opens
      <3> QED BY <3>4, <3>5 DEF OwnInv
    <2>3. CASE ToRt([c EXCEPT !.stage = 3]) /\ UNCHANGED life
      BY <1>1, <2>1, <2>3
    <2> QED BY <1>2, <2>2, <2>3 DEF NrtOpen
  <1>3. CASE NrtClose
    <2> DEFINE c == cmd[h]
    <2>1. /\ h \in Slots /\ c.op = "close" /\ c.stage = 2 /\ c.plugin \in Plugins /\ c \in Commands
          /\ \A s \in Slots : cmd[s].plugin \in Plugins \cup {NoPlugin}
      BY <1>3, <1>i, <1>h DEF NrtClose, NrtReady, OwnInv, HoldersInv, Closes, Commands
    <2>2. /\ life' = [life EXCEPT ![c.plugin] = "gone"]
          /\ cmd' = [cmd EXCEPT ![h] = [c EXCEPT !.stage = 5, !.plugin = NoPlugin]]
      BY <1>3 DEF NrtClose, ToRt
    <2>3. /\ cmd'[h].plugin = NoPlugin /\ cmd'[h].op = "close" /\ cmd'[h].stage = 5
          /\ \A s \in Slots : s # h => cmd'[s] = cmd[s]
      BY <1>i, <2>1, <2>2 DEF Commands
    <2>4. c.plugin # dlg.plugin /\ \A s \in Slots : s # h => cmd[s].plugin # c.plugin
      BY <1>i, <2>1 DEF OwnInv, HoldersInv
    <2> HIDE DEF h
    <2>5. HoldersInv'
      BY <1>i, <2>1, <2>2, <2>3, <2>4 DEF OwnInv, HoldersInv, Closes
    <2>6. EditorInv'
      <3>1. dlg.plugin \in Plugins \cup {NoPlugin}
        BY <1>i DEF TypeOK, Delegates
      <3> QED BY <1>i, <2>1, <2>2, <2>3, <2>4, <3>1 DEF OwnInv, EditorInv, Opens
    <2> QED BY <2>5, <2>6 DEF OwnInv
  <1>4. CASE NrtFileIO
    <2>1. h \in Slots /\ cmd[h].op \in {"read", "write"} /\ ToRt([cmd[h] EXCEPT !.stage = 3]) /\ UNCHANGED life
      BY <1>4, <1>h DEF NrtFileIO, NrtReady
    <2>2. cmd[h].plugin = NoPlugin
      BY <2>1 DEF OwnInv, HoldersInv, Closes
    <2> QED BY <1>1, <2>1, <2>2
  <1>5. CASE NrtFree
    <2>1. h \in Slots /\ cmd[h].stage = 4 /\ ToRt([cmd[h] EXCEPT !.stage = 5]) /\ UNCHANGED life
      BY <1>5, <1>h DEF NrtFree, NrtReady
    <2>2. cmd[h].plugin = NoPlugin
      BY <2>1 DEF OwnInv, HoldersInv, Closes
    <2> QED BY <1>1, <2>1, <2>2
  <1>6. CASE NrtLeave
    <2>1. h \in Slots /\ Calling(cmd[h]) /\ UNCHANGED life
      BY <1>6, <1>h DEF NrtLeave, IInv, Safe, HeadsInv
    <2>2. \/ ToRt([cmd[h] EXCEPT !.stage = 5]) \/ ToRt([cmd[h] EXCEPT !.stage = 3])
      BY <1>6 DEF NrtLeave
    <2>3. cmd[h].plugin = NoPlugin /\ cmd[h].op # "open"
      BY <2>1 DEF OwnInv, HoldersInv, Closes, Calling, Locking
    <2> QED BY <1>1, <2>1, <2>2, <2>3
  <1>7. CASE NrtEnter \/ NrtNotify \/ NrtNotified
    <2>1. UNCHANGED <<dlg, cmd, life>>
      BY <1>7 DEF NrtEnter, NrtNotify, NrtNotified
    <2> QED BY <1>i, <2>1, SameOwner
  <1> QED BY <1>2, <1>3, <1>4, <1>5, <1>6, <1>7 DEF NrtStage

LEMMA UiOwner == IInv /\ OwnInv /\ (UiLock \/ UiDeref \/ UiRelease) => OwnInv'
  <1> SUFFICES ASSUME IInv, OwnInv, UiLock \/ UiDeref \/ UiRelease PROVE OwnInv'
    OBVIOUS
  <1>i. TypeOK /\ dlg \in Delegates /\ cmd \in [Slots -> Commands]
    BY DEF IInv, TypeOK
  <1>1. CASE UNCHANGED <<dlg, cmd, life>>
    BY <1>i, <1>1, SameOwner
  <1>2. CASE ~InFlight /\ Destruct("ui", dlg, cmd)
    <2>1. \A s \in Slots : Continues(cmd[s], cmd[s]) /\ ~Owned(cmd[s])
      BY <1>2 DEF InFlight, Continues
    <2> QED BY <1>i, <1>2, <2>1, DestructOwner
  <1> QED BY <1>1, <1>2 DEF UiLock, UiDeref, UiRelease

LEMMA InitialOwner == Init => OwnInv
  <1> SUFFICES ASSUME Init PROVE OwnInv
    OBVIOUS
  <1>1. /\ dlg.plugin = NoPlugin /\ \A s \in Slots : cmd[s] = Free
        /\ \A p \in Plugins : life[p] = "none"
    BY DEF Init
  <1> QED BY <1>1, OwnerFields, DelegateAssumption DEF OwnInv, HoldersInv, EditorInv

LEMMA Ownership == Spec => []OwnInv
  <1>1. IInv /\ OwnInv /\ [Next]_vars => OwnInv'
    <2> SUFFICES ASSUME IInv, OwnInv, [Next]_vars PROVE OwnInv'
      OBVIOUS
    <2>1. CASE UNCHANGED vars
      <3>1. UNCHANGED <<dlg, cmd, life>> /\ TypeOK
        BY <2>1 DEF vars, IInv
      <3> QED BY <3>1, SameOwner
    <2> QED BY <2>1, UnitCommandOwner, CallOwner, RtStageOwner, NrtOwner, UiOwner DEF Next
  <1> QED BY <1>1, InitialOwner, Invariance, PTL DEF Spec

--------------------------------------------------------------------------------
(* Who is inside a plugin *)

\* the RT thread is in a plugin that its unit asked for
RtCalls == {"next", "call", "query", "write"}

\* Threads are inside plugin_ only, and as long as they are, something keeps it: the
\* unit, the command in stage 2 or 3, or the listener's reference.
InsideInv ==
  /\ \A t \in {"rt", "nrt", "ui"} : ptr[t] # NoPlugin => ptr[t] = dlg.plugin
  /\ rt = "idle" => ptr["rt"] = NoPlugin
  /\ rt \in RtCalls => dlg.alive
  /\ nrt = "idle" => ptr["nrt"] = NoPlugin
  /\ ui = "idle" => ptr["ui"] = NoPlugin
  /\ dlg.listener => dlg.plugin # NoPlugin

Nobody == \A t \in {"rt", "nrt", "ui"} : ptr[t] = NoPlugin

\* No reference is left but the unit's.
LEMMA NobodyInside ==
  ASSUME IInv, InsideInv, ~Shared, rt = "idle"
  PROVE  Nobody
  <1>1. nrt # "idle" => InFlight
    <2>1. nrt # "idle" => Head(toNrt) \in Slots /\ Owned(cmd[Head(toNrt)])
      BY FifoFacts DEF IInv, Safe, HeadsInv, Calling, Locking, Owned
    <2> QED BY <2>1 DEF InFlight
  <1> QED BY <1>1 DEF Shared, InsideInv, Nobody

\* ~VSTPluginDelegate leaves no plugin behind.
LEMMA DestructedDelegate ==
  ASSUME NEW t, NEW d \in Delegates, NEW table, Destruct(t, d, table)
  PROVE  dlg'.plugin = NoPlugin /\ ~dlg'.listener /\ dlg'.alive = d.alive
  BY DEF Destruct, Detached, Delegates

LEMMA InsideStep == IInv /\ InsideInv /\ [Next]_vars => InsideInv'
  <1> SUFFICES ASSUME IInv, InsideInv, [Next]_vars PROVE InsideInv'
    OBVIOUS
  <1>i. TypeOK /\ dlg \in Delegates /\ ptr \in [{"rt", "nrt", "ui"} -> Plugins \cup {NoPlugin}]
    BY DEF IInv, TypeOK
  <1>d. /\ Detached(dlg).plugin = NoPlugin /\ ~Detached(dlg).listener
        /\ Detached(dlg).alive = dlg.alive
        /\ \A b : LET e == [dlg EXCEPT !.alive = b] IN
                  e.plugin = dlg.plugin /\ e.alive = b /\ e.listener = dlg.listener
        /\ \A b : LET e == [Detached(dlg) EXCEPT !.editor = b, !.isLoading = TRUE] IN
                  e.plugin = NoPlugin /\ e.alive = dlg.alive /\ ~e.listener
    BY <1>i DEF Detached, Delegates
  \* plugin_ stays
  <1>k. ASSUME dlg'.plugin = dlg.plugin, dlg'.alive = dlg.alive \/ rt' \notin RtCalls,
               dlg'.listener => dlg.listener, UNCHANGED <<ptr, nrt, ui>>, rt' = rt
        PROVE  InsideInv'
    BY <1>k DEF InsideInv
  \* plugin_ goes while nobody is inside
  <1>n. ASSUME Nobody, ptr' = ptr, dlg'.listener => dlg'.plugin # NoPlugin,
               rt' = "idle"
        PROVE  InsideInv'
    BY <1>n DEF InsideInv, Nobody, RtCalls
  <1>1. CASE Close \/ \E gui \in BOOLEAN : Open(gui)
    <2>1. rt = "idle" /\ rt' = rt /\ UNCHANGED <<ptr, nrt, ui>>
      BY <1>1 DEF Close, Open, UnitReady, RtReady
    <2>2. CASE Shared \/ dlg.plugin = NoPlugin
      <3>1. dlg'.plugin = dlg.plugin /\ dlg'.alive = dlg.alive /\ dlg'.listener = dlg.listener
        <4>1. CASE Close
          BY <4>1, <2>2 DEF Close, RefuseClose
        <4>2. ASSUME NEW gui \in BOOLEAN, Open(gui)
              PROVE  dlg' = dlg \/ dlg' = [dlg EXCEPT !.editor = gui, !.isLoading = TRUE]
          BY <4>2, <2>2 DEF Open, RefuseClose
        <4> QED BY <1>1, <1>i, <4>1, <4>2 DEF Delegates
      <3> QED BY <1>k, <2>1, <3>1
    <2>3. CASE ~Shared /\ dlg.plugin # NoPlugin
      <3>1. ~dlg'.listener
        BY <1>1, <1>d, <2>3 DEF Close, Open, RefuseClose
      <3> QED BY <1>n, <2>1, <2>3, <3>1, NobodyInside
    <2> QED BY <2>2, <2>3
  <1>2. CASE FreeUnit
    <2>1. rt = "idle" /\ rt' = rt /\ UNCHANGED <<ptr, nrt, ui>>
      BY <1>2 DEF FreeUnit, UnitReady, RtReady
    <2>2. CASE dlg' = [dlg EXCEPT !.alive = FALSE]
      BY <1>d, <1>k, <2>1, <2>2 DEF RtCalls
    <2>3. CASE ~Shared /\ Destruct("rt", [dlg EXCEPT !.alive = FALSE], cmd)
      <3>1. [dlg EXCEPT !.alive = FALSE] \in Delegates
        BY <1>i DEF Delegates
      <3>2. ~dlg'.listener
        BY <2>3, <3>1, DestructedDelegate
      <3> QED BY <1>n, <2>1, <2>3, <3>2, NobodyInside
    <2> QED BY <1>2, <2>2, <2>3 DEF FreeUnit
  \* the RT thread enters the plugin
  <1>3. ASSUME dlg.alive, rt' \in RtCalls, Into("rt"), dlg'.plugin = dlg.plugin, dlg'.alive = dlg.alive,
               dlg'.listener = dlg.listener, UNCHANGED <<nrt, ui>>
        PROVE  InsideInv'
    BY <1>3, <1>i DEF InsideInv, Into, RtCalls
  <1>4. CASE \/ ShowEditor \/ CallPlugin \/ SetProgram \/ NextBegin
             \/ \E async \in BOOLEAN : Reset(async) \/ ReadPreset(async)
                                         \/ WritePreset(async) \/ VendorSpecific(async)
    <2>1. /\ dlg'.plugin = dlg.plugin /\ dlg'.alive = dlg.alive /\ dlg'.listener = dlg.listener
          /\ dlg.alive /\ UNCHANGED <<nrt, ui>>
      <3>1. dlg.alive /\ UNCHANGED <<nrt, ui>>
        BY <1>4 DEF ShowEditor, CallPlugin, SetProgram, NextBegin, Reset, ReadPreset, WritePreset,
           VendorSpecific, UnitReady
      <3>2. dlg' = dlg \/ dlg' = [dlg EXCEPT !.suspended = TRUE]
        BY <1>4 DEF ShowEditor, CallPlugin, SetProgram, NextBegin, Reset, ReadPreset, WritePreset,
           VendorSpecific, Suspending, Calls
      <3> QED BY <1>i, <3>1, <3>2 DEF Delegates
    <2>2. \/ UNCHANGED <<rt, ptr>>
          \/ rt' \in RtCalls /\ Into("rt")
      BY <1>4 DEF ShowEditor, CallPlugin, SetProgram, NextBegin, Reset, ReadPreset, WritePreset,
         VendorSpecific, Suspending, Calls, RtCalls
    <2> QED BY <1>k, <1>3, <2>1, <2>2
  <1>5. CASE WriteData \/ Return \/ NextEnd \/ DoneReadEnd
    <2>1. rt' = "idle" /\ OutOf("rt") /\ UNCHANGED <<dlg, nrt, ui>>
      BY <1>5 DEF WriteData, Return, NextEnd, DoneReadEnd
    <2> QED BY <1>i, <2>1 DEF OutOf, InsideInv, RtCalls
  <1>6. CASE DoneOpen
    <2>1. dlg.plugin = NoPlugin /\ rt = "idle" /\ UNCHANGED <<rt, ptr>>
      <3>1. Head(toRt) \in Slots /\ cmd[Head(toRt)].op = "open" /\ cmd[Head(toRt)].stage = 3
        BY <1>6, <1>i, FifoFacts DEF DoneOpen, Done
      <3> QED BY <1>6, <3>1 DEF DoneOpen, Done, RtReady, IInv, Safe, LoadingInv, Pending
    <2>2. Nobody
      BY <2>1 DEF InsideInv, Nobody
    <2>3. dlg'.listener => dlg'.plugin # NoPlugin
      BY <1>6, <1>i DEF DoneOpen, Delegates
    <2> QED BY <1>n, <2>1, <2>2, <2>3
  <1>7. CASE DoneReset \/ DoneWrite \/ DoneVendor
    <2>1. UNCHANGED <<rt, nrt, ui, ptr>>
      BY <1>7 DEF DoneReset, DoneWrite, DoneVendor
    <2>2. dlg' = dlg \/ \E b : dlg' = [dlg EXCEPT !.suspended = b]
      BY <1>7 DEF DoneReset, DoneWrite, DoneVendor
    <2>3. dlg'.plugin = dlg.plugin /\ dlg'.alive = dlg.alive /\ dlg'.listener = dlg.listener
      BY <2>2, <1>i DEF Delegates
    <2> QED BY <1>k, <2>1, <2>3
  <1>8. CASE DoneReadBegin
    <2>1. /\ UNCHANGED <<nrt, ui>>
          /\ UNCHANGED <<rt, ptr>> \/ (rt' = "stage3" /\ Into("rt"))
      BY <1>8 DEF DoneReadBegin
    <2>2. dlg' = dlg \/ \E b : dlg' = [dlg EXCEPT !.suspended = b]
      BY <1>8 DEF DoneReadBegin
    <2>3. dlg'.plugin = dlg.plugin /\ dlg'.alive = dlg.alive /\ dlg'.listener = dlg.listener
      BY <2>2, <1>i DEF Delegates
    <2> QED BY <1>i, <1>k, <2>1, <2>3 DEF Into, InsideInv, RtCalls
  <1>9. CASE Cleanup
    <2>1. rt = "idle" /\ rt' = rt /\ UNCHANGED <<ptr, nrt, ui>>
      BY <1>9 DEF Cleanup, RtReady
    <2>2. CASE dlg' = dlg
      BY <1>k, <2>1, <2>2
    <2>3. CASE /\ ui = "idle" /\ Destruct("rt", dlg, [cmd EXCEPT ![Head(toRt)] = Free])
               /\ \A s \in Slots : ~Owned([cmd EXCEPT ![Head(toRt)] = Free][s])
      <3>1. nrt = "idle"
        <4>1. nrt # "idle" => Head(toNrt) \in Slots /\ Owned(cmd[Head(toNrt)]) /\ cmd[Head(toNrt)].stage = 2
          BY <1>i, FifoFacts DEF IInv, Safe, HeadsInv, Calling, Locking, Owned
        <4>2. cmd[Head(toRt)].stage = 5
          BY <1>9 DEF Cleanup
        <4> QED BY <1>i, <2>3, <4>1, <4>2 DEF TypeOK
      <3>2. Nobody
        BY <2>1, <2>3, <3>1 DEF InsideInv, Nobody
      <3>3. ~dlg'.listener
        BY <1>i, <2>3, DestructedDelegate
      <3> QED BY <1>n, <2>1, <3>2, <3>3
    <2> QED BY <1>9, <2>2, <2>3 DEF Cleanup
  <1>10. CASE NrtOpen \/ NrtClose \/ NrtFileIO \/ NrtFree
    <2>1. UNCHANGED <<dlg, rt, nrt, ui, ptr>>
      BY <1>10 DEF NrtOpen, NrtClose, NrtFileIO, NrtFree
    <2> QED BY <1>k, <2>1
  <1>11. CASE NrtEnter \/ NrtLeave \/ NrtNotify \/ NrtNotified
    <2>1. UNCHANGED <<dlg, rt, ui>>
      BY <1>11 DEF NrtEnter, NrtLeave, NrtNotify, NrtNotified
    <2>2. \/ nrt' # "idle" /\ (ptr' = ptr \/ Into("nrt"))
          \/ nrt' = "idle" /\ OutOf("nrt")
      BY <1>11 DEF NrtEnter, NrtLeave, NrtNotify, NrtNotified
    <2> QED BY <1>i, <2>1, <2>2 DEF InsideInv, Into, OutOf
  <1>12. CASE UiLock \/ UiDeref
    <2>1. UNCHANGED <<dlg, rt, nrt>> /\ (Into("ui") \/ ptr' = ptr) /\ (ui' # "idle" \/ ui' = ui)
          /\ (Into("ui") => ui' # "idle")
      BY <1>12 DEF UiLock, UiDeref
    <2> QED BY <1>i, <2>1 DEF InsideInv, Into
  <1>13. CASE UiRelease
    <2>1. OutOf("ui") /\ ui' = "idle" /\ UNCHANGED <<rt, nrt>>
      BY <1>13 DEF UiRelease
    <2>2. CASE dlg' = dlg
      BY <1>i, <2>1, <2>2 DEF InsideInv, OutOf
    <2>3. CASE ~dlg.alive /\ ~InFlight /\ Destruct("ui", dlg, cmd)
      <3>1. nrt = "idle" /\ rt # "stage3"
        BY <1>i, <2>3, FifoFacts DEF IInv, Safe, HeadsInv, Calling, Locking, Owned, InFlight
      <3>2. rt = "idle"
        BY <1>i, <2>3, <3>1 DEF InsideInv, RtCalls, TypeOK
      <3>3. \A t \in {"rt", "nrt", "ui"} : ptr'[t] = NoPlugin
        BY <1>i, <2>1, <3>1, <3>2 DEF InsideInv, OutOf
      <3>4. ~dlg'.listener
        BY <1>i, <2>3, DestructedDelegate
      <3> QED BY <2>1, <3>2, <3>3, <3>4 DEF InsideInv, RtCalls
    <2> QED BY <1>13, <2>2, <2>3 DEF UiRelease
  <1>14. CASE UNCHANGED vars
    <2>1. UNCHANGED <<dlg, rt, nrt, ui, ptr>>
      BY <1>14 DEF vars
    <2> QED BY <1>k, <2>1
  <1> QED BY <1>1, <1>2, <1>4, <1>5, <1>6, <1>7, <1>8, <1>9, <1>10, <1>11, <1>12, <1>13, <1>14
          DEF Next, UnitCommand, RtStage, NrtStage

--------------------------------------------------------------------------------
(* The theorems *)

\* Whatever the order of opening, closing, freeing the unit and running out of memory,
\* every plugin that exists has exactly one owner, the delegate or one command: none
\* leaks and none is released twice.
THEOREM PluginOwnedOnce == Spec => []OneOwner
  <1>1. ASSUME OwnInv PROVE OneOwner
    <2> SUFFICES ASSUME NEW p \in Plugins
                 PROVE  IF life[p] \in {"nrt", "ui"}
                          THEN IF dlg.plugin = p THEN Owners(p) = {}
                                                 ELSE \E s \in Slots : Owners(p) = {s}
                          ELSE dlg.plugin # p /\ Owners(p) = {}
      BY DEF OneOwner
    <2>0. p # NoPlugin
      BY DelegateAssumption
    <2>1. CASE life[p] \in {"nrt", "ui"} /\ dlg.plugin # p
      <3>1. PICK s \in Slots : cmd[s].plugin = p
        BY <1>1, <2>1 DEF OwnInv, HoldersInv
      <3>2. Owners(p) = {s}
        BY <1>1, <2>0, <3>1 DEF OwnInv, HoldersInv, Owners
      <3> QED BY <2>1, <3>2
    <2>2. CASE life[p] \in {"nrt", "ui"} /\ dlg.plugin = p
      BY <1>1, <2>0, <2>2 DEF OwnInv, HoldersInv, Owners
    <2>3. CASE life[p] \notin {"nrt", "ui"}
      BY <1>1, <2>3 DEF OwnInv, HoldersInv, Owners
    <2> QED BY <2>1, <2>2, <2>3
  <1> QED BY <1>1, Ownership, PTL

\* The command that closes a plugin goes to the UI thread exactly if the UI thread
\* made the plugin, although editor_ is a member of the delegate that the next open
\* overwrites.
THEOREM ClosedWhereMade == Spec => []DestroyedWhereMade
  <1>1. ASSUME OwnInv PROVE DestroyedWhereMade
    BY <1>1 DEF OwnInv, HoldersInv, EditorInv, Closes, DestroyedWhereMade
  <1> QED BY <1>1, Ownership, PTL

--------------------------------------------------------------------------------
(* The delegate keeps the promise of PluginLifecycle *)

LEMMA InsideAlways == Spec => [](IInv /\ OwnInv /\ InsideInv)
  <1>1. Init => InsideInv
    BY DEF Init, InsideInv, RtCalls
  <1>2. IInv /\ InsideInv /\ [Next]_vars => InsideInv'
    BY InsideStep
  <1>3. Spec => []IInv
    BY Invariance
  <1>4. Spec => []OwnInv
    BY Ownership
  <1> QED BY <1>1, <1>2, <1>3, <1>4, PTL DEF Spec

\* A step that creates, destroys, enters and leaves nothing.
LEMMA LifeStutter ==
  ASSUME life' = life, ptr' = ptr
  PROVE  UNCHANGED Lifecycle!vars
  BY DEF Lifecycle!vars, Inside

\* Thread t enters plugin_.
LEMMA LifeEnter ==
  ASSUME IInv, OwnInv, NEW t \in {"rt", "nrt", "ui"}, ptr[t] = NoPlugin, dlg.plugin # NoPlugin,
         Into(t), life' = life
  PROVE  Lifecycle!Next
  <1>1. dlg.plugin \in Plugins /\ ptr \in [{"rt", "nrt", "ui"} -> Plugins \cup {NoPlugin}]
    BY DEF IInv, TypeOK, Delegates
  <1>2. life[dlg.plugin] \in {"nrt", "ui"}
    BY <1>1 DEF OwnInv, HoldersInv
  <1>3. \A p \in Plugins : Inside(p)' = IF p = dlg.plugin THEN Inside(p) \cup {t} ELSE Inside(p)
    BY <1>1, DelegateAssumption DEF Inside, Into
  <1>4. Lifecycle!Enter(t, dlg.plugin)
    BY <1>1, <1>2, <1>3 DEF Lifecycle!Enter
  <1> QED BY <1>1, <1>4 DEF Lifecycle!Next

\* Thread t leaves the plugin it is in, if it is in one.
LEMMA LifeLeave ==
  ASSUME IInv, NEW t \in {"rt", "nrt", "ui"}, OutOf(t), life' = life
  PROVE  [Lifecycle!Next]_(Lifecycle!vars)
  <1>1. ptr \in [{"rt", "nrt", "ui"} -> Plugins \cup {NoPlugin}]
    BY DEF IInv, TypeOK
  <1>2. CASE ptr[t] = NoPlugin
    <2>1. ptr' = ptr
      BY <1>1, <1>2 DEF OutOf
    <2> QED BY <2>1, LifeStutter
  <1>3. CASE ptr[t] # NoPlugin
    <2>1. ptr[t] \in Plugins
      BY <1>1, <1>3
    <2>2. \A p \in Plugins : Inside(p)' = IF p = ptr[t] THEN Inside(p) \ {t} ELSE Inside(p)
      BY <1>1, DelegateAssumption DEF Inside, OutOf
    <2>3. t \in Inside(ptr[t])
      BY DEF Inside
    <2>4. Lifecycle!Leave(t, ptr[t])
      BY <2>1, <2>2, <2>3 DEF Lifecycle!Leave
    <2> QED BY <2>1, <2>4 DEF Lifecycle!Next
  <1> QED BY <1>2, <1>3

\* ~VSTPluginDelegate releases no plugin itself: it has the memory for the command.
LEMMA DestructKeeps ==
  ASSUME ~AllocMayFail, NEW t, NEW d, NEW table, Destruct(t, d, table)
  PROVE  life' = life
  BY DEF Destruct

LEMMA UnitCommandLife ==
  ~AllocMayFail /\ IInv /\ OwnInv /\ InsideInv /\ UnitCommand => [Lifecycle!Next]_(Lifecycle!vars)
  <1> SUFFICES ASSUME ~AllocMayFail, IInv, OwnInv, InsideInv, UnitCommand
               PROVE  [Lifecycle!Next]_(Lifecycle!vars)
    OBVIOUS
  <1>1. rt = "idle" /\ ptr["rt"] = NoPlugin
    BY DEF UnitCommand, Close, Open, ShowEditor, Reset, ReadPreset, WritePreset, VendorSpecific,
       CallPlugin, SetProgram, FreeUnit, UnitReady, RtReady, InsideInv
  <1>2. CASE Close \/ (\E gui \in BOOLEAN : Open(gui)) \/ ShowEditor
    BY <1>2, LifeStutter DEF Close, Open, ShowEditor
  <1>3. ASSUME NEW async \in BOOLEAN,
               \/ Reset(async) \/ ReadPreset(async) \/ WritePreset(async) \/ VendorSpecific(async)
               \/ CallPlugin
        PROVE  [Lifecycle!Next]_(Lifecycle!vars)
    <2>1. life' = life
      BY <1>3 DEF Reset, ReadPreset, WritePreset, VendorSpecific, CallPlugin, Suspending, Calls
    <2>2. ptr' = ptr \/ (Into("rt") /\ dlg.plugin # NoPlugin)
      BY <1>3 DEF Reset, ReadPreset, WritePreset, VendorSpecific, CallPlugin, Suspending,
         Calls, Check
    <2> QED BY <1>1, <2>1, <2>2, LifeStutter, LifeEnter
  <1>4. CASE SetProgram
    <2>1. life' = life /\ (ptr' = ptr \/ (Into("rt") /\ dlg.plugin # NoPlugin))
      BY <1>4 DEF SetProgram
    <2> QED BY <1>1, <2>1, LifeStutter, LifeEnter
  <1>5. CASE FreeUnit
    <2>1. ptr' = ptr
      BY <1>5 DEF FreeUnit
    <2>2. life' = life
      BY <1>5, DestructKeeps DEF FreeUnit
    <2> QED BY <2>1, <2>2, LifeStutter
  <1> QED BY <1>2, <1>3, <1>4, <1>5 DEF UnitCommand

\* Stage 2 of close: the plugin is no longer the delegate's, so nobody is inside.
LEMMA CloseLife ==
  ASSUME IInv, OwnInv, InsideInv, NrtClose
  PROVE  Lifecycle!Next
  <1>1. Head(toNrt) \in Slots
    BY FifoFacts DEF IInv, NrtClose, NrtReady
  <1>2. Closes(cmd[Head(toNrt)])
    BY DEF NrtClose, NrtReady, Closes
  <1>3. PICK p \in Plugins : p = cmd[Head(toNrt)].plugin /\ p # dlg.plugin
    BY <1>1, <1>2 DEF OwnInv, HoldersInv, IInv, TypeOK, Commands
  <1>4. life[p] \in {"nrt", "ui"}
    BY <1>1, <1>3 DEF OwnInv, HoldersInv
  <1>5. Inside(p) = {}
    BY <1>3, DelegateAssumption DEF Inside, InsideInv
  <1>6. life' = [life EXCEPT ![p] = "gone"] /\ ptr' = ptr
    BY <1>3 DEF NrtClose
  <1>7. \A q \in Plugins : Inside(q)' = Inside(q)
    BY <1>6 DEF Inside
  <1>8. \A q \in Plugins : life'[q] = IF q = p THEN "gone" ELSE life[q]
    BY <1>6 DEF IInv, TypeOK
  <1>9. Lifecycle!Destroy(p)
    BY <1>4, <1>5, <1>7, <1>8 DEF Lifecycle!Destroy
  <1> QED BY <1>9 DEF Lifecycle!Next

\* Stage 2 of open makes a plugin or fails.
LEMMA OpenLife ==
  ASSUME IInv, NrtOpen
  PROVE  [Lifecycle!Next]_(Lifecycle!vars)
  <1>1. ptr' = ptr
    BY DEF NrtOpen
  <1>2. CASE life' = life
    BY <1>1, <1>2, LifeStutter
  <1>3. ASSUME NEW p \in Plugins, life[p] = "none", NEW m \in {"nrt", "ui"}, life' = [life EXCEPT ![p] = m]
        PROVE  Lifecycle!Next
    <2>1. \A q \in Plugins : Inside(q)' = Inside(q)
      BY <1>1 DEF Inside
    <2>2. \A q \in Plugins : life'[q] = IF q = p THEN m ELSE life[q]
      BY <1>3 DEF IInv, TypeOK
    <2>3. Lifecycle!Create(p)
      BY <1>3, <2>1, <2>2 DEF Lifecycle!Create
    <2> QED BY <2>3 DEF Lifecycle!Next
  <1> QED BY <1>2, <1>3 DEF NrtOpen

LEMMA LifeStep ==
  ~AllocMayFail /\ IInv /\ OwnInv /\ InsideInv /\ [Next]_vars => [Lifecycle!Next]_(Lifecycle!vars)
  <1> SUFFICES ASSUME ~AllocMayFail, IInv, OwnInv, InsideInv, [Next]_vars
               PROVE  [Lifecycle!Next]_(Lifecycle!vars)
    OBVIOUS
  <1>1. CASE UnitCommand
    BY <1>1, UnitCommandLife
  <1>2. CASE WriteData \/ Return \/ NextEnd \/ DoneReadEnd
    <2>1. OutOf("rt") /\ life' = life
      BY <1>2 DEF WriteData, Return, NextEnd, DoneReadEnd
    <2> QED BY <2>1, LifeLeave
  <1>3. CASE NextBegin
    <2>1. ptr["rt"] = NoPlugin /\ dlg.plugin # NoPlugin /\ Into("rt") /\ life' = life
      BY <1>3 DEF NextBegin, UnitReady, RtReady, InsideInv
    <2> QED BY <2>1, LifeEnter
  <1>4. CASE DoneOpen
    <2>1. dlg.plugin = NoPlugin
      <3>1. Head(toRt) \in Slots /\ cmd[Head(toRt)].op = "open" /\ cmd[Head(toRt)].stage = 3
        BY <1>4, FifoFacts DEF IInv, DoneOpen, Done
      <3> QED BY <3>1 DEF IInv, Safe, LoadingInv, Pending
    <2>2. life' = life
      BY <1>4, <2>1, DelegateAssumption DEF DoneOpen, IInv, TypeOK
    <2> QED BY <1>4, <2>2, LifeStutter DEF DoneOpen
  <1>5. CASE DoneReset \/ DoneWrite \/ DoneVendor
    BY <1>5, LifeStutter DEF DoneReset, DoneWrite, DoneVendor
  <1>6. CASE DoneReadBegin
    <2>1. /\ life' = life /\ ptr["rt"] = NoPlugin
          /\ ptr' = ptr \/ Into("rt")
      BY <1>6 DEF DoneReadBegin, Done, RtReady, InsideInv
    <2>2. dlg.plugin # NoPlugin
      <3>1. Head(toRt) \in Slots /\ cmd[Head(toRt)].op = "read"
        BY <1>6, FifoFacts DEF IInv, DoneReadBegin, Done
      <3> QED BY <3>1 DEF IInv, Safe, CommandsHavePlugin, ForPlugin
    <2> QED BY <2>1, <2>2, LifeStutter, LifeEnter
  <1>7. CASE Cleanup
    <2>1. ptr' = ptr
      BY <1>7 DEF Cleanup
    <2>2. life' = life
      BY <1>7, DestructKeeps DEF Cleanup
    <2> QED BY <2>1, <2>2, LifeStutter
  <1>8. CASE NrtOpen
    BY <1>8, OpenLife
  <1>9. CASE NrtClose
    BY <1>9, CloseLife
  <1>10. CASE NrtEnter
    <2>1. Head(toNrt) \in Slots
      BY <1>10, FifoFacts DEF IInv, NrtEnter, NrtReady
    <2>2. ptr["nrt"] = NoPlugin /\ Into("nrt") /\ life' = life /\ Calling(cmd[Head(toNrt)])
      BY <1>10 DEF NrtEnter, NrtReady, InsideInv
    <2>3. dlg.plugin # NoPlugin
      BY <2>1, <2>2 DEF Calling, Locking, IInv, Safe, CommandsHavePlugin, ForPlugin
    <2> QED BY <2>2, <2>3, LifeEnter
  <1>11. CASE NrtLeave
    <2>1. OutOf("nrt") /\ life' = life
      BY <1>11 DEF NrtLeave
    <2> QED BY <2>1, LifeLeave
  <1>12. CASE NrtFileIO \/ NrtFree \/ NrtNotify \/ NrtNotified \/ UiDeref
    BY <1>12, LifeStutter DEF NrtFileIO, NrtFree, NrtNotify, NrtNotified, UiDeref
  <1>13. CASE UiLock
    <2>1. /\ ptr["ui"] = NoPlugin /\ dlg.plugin # NoPlugin /\ Into("ui") /\ life' = life
      BY <1>13 DEF UiLock, InsideInv
    <2> QED BY <2>1, LifeEnter
  <1>14. CASE UiRelease
    <2>1. OutOf("ui")
      BY <1>14 DEF UiRelease
    <2>2. life' = life
      BY <1>14, DestructKeeps DEF UiRelease
    <2> QED BY <2>1, <2>2, LifeLeave
  <1>15. CASE UNCHANGED vars
    BY <1>15, LifeStutter DEF vars
  <1> QED BY <1>1, <1>2, <1>3, <1>4, <1>5, <1>6, <1>7, <1>8, <1>9, <1>10, <1>11, <1>12, <1>13,
             <1>14, <1>15 DEF Next, RtStage, NrtStage

\* Only stage 2 of open and of close change what became of a plugin.
LEMMA LifeOnNrt ==
  ASSUME ~AllocMayFail, IInv, [Next]_vars
  PROVE  life' = life \/ NrtOpen \/ NrtClose
  <1>1. CASE UnitCommand
    BY <1>1, DestructKeeps DEF UnitCommand, Close, Open, ShowEditor, Reset, ReadPreset,
       WritePreset, VendorSpecific, CallPlugin, SetProgram, FreeUnit, Suspending, Calls
  <1>2. CASE DoneOpen
    <2>1. dlg.plugin = NoPlugin
      <3>1. Head(toRt) \in Slots /\ cmd[Head(toRt)].op = "open" /\ cmd[Head(toRt)].stage = 3
        BY <1>2, FifoFacts DEF IInv, DoneOpen, Done
      <3> QED BY <3>1 DEF IInv, Safe, LoadingInv, Pending
    <2> QED BY <1>2, <2>1, DelegateAssumption DEF DoneOpen, IInv, TypeOK
  <1>3. CASE Cleanup \/ UiRelease
    BY <1>3, DestructKeeps DEF Cleanup, UiRelease
  <1>4. CASE WriteData \/ Return \/ NextBegin \/ NextEnd \/ DoneReset \/ DoneReadBegin \/ DoneReadEnd
             \/ DoneWrite \/ DoneVendor
    BY <1>4 DEF WriteData, Return, NextBegin, NextEnd, DoneReset, DoneReadBegin, DoneReadEnd,
       DoneWrite, DoneVendor
  <1>5. CASE NrtEnter \/ NrtLeave \/ NrtFileIO \/ NrtFree \/ NrtNotify \/ NrtNotified
    BY <1>5 DEF NrtEnter, NrtLeave, NrtFileIO, NrtFree, NrtNotify, NrtNotified
  <1>6. CASE UiLock \/ UiDeref \/ UNCHANGED vars
    BY <1>6 DEF UiLock, UiDeref, vars
  <1> QED BY <1>1, <1>2, <1>3, <1>4, <1>5, <1>6 DEF Next, RtStage, NrtStage

\* "Plugins are always opened/closed asynchronously in the NRT thread": whatever the client
\* sends and whenever the UGen is freed, as long as the command that closes can be allocated.
THEOREM MadeAndClosed == ASSUME ~AllocMayFail PROVE Spec => MadeAndClosedOnNrt
  <1> DEFINE Goal == \A p \in Plugins : life'[p] # life[p]
                       => IF life'[p] = "gone" THEN NrtRuns("close") ELSE NrtRuns("open")
  <1>1. ASSUME IInv, OwnInv, [Next]_vars PROVE Goal
    <2>1. CASE life' = life
      BY <2>1
    <2>2. CASE NrtOpen
      <3> SUFFICES ASSUME NEW p \in Plugins, life'[p] # life[p]
                   PROVE  life'[p] # "gone" /\ NrtRuns("open")
        OBVIOUS
      <3> QED BY <1>1, <2>2 DEF NrtOpen, NrtReady, NrtRuns, IInv, TypeOK
    <2>3. CASE NrtClose
      <3> SUFFICES ASSUME NEW p \in Plugins, life'[p] # life[p]
                   PROVE  life'[p] = "gone" /\ NrtRuns("close")
        OBVIOUS
      <3> QED BY <1>1, <2>3 DEF NrtClose, NrtReady, NrtRuns, IInv, TypeOK
    <2> QED BY <1>1, <2>1, <2>2, <2>3, LifeOnNrt
  <1>2. IInv /\ OwnInv /\ [Next]_vars => [Goal]_vars
    BY <1>1
  <1> QED BY <1>2, InsideAlways, PTL DEF Spec, MadeAndClosedOnNrt

\* Each plugin goes through the life cycle that PluginLifecycle promises: nobody is
\* inside a plugin that does not exist, and none is destroyed while a thread is inside.
\* When the memory for the close command is missing, ~VSTPluginDelegate ends its
\* listener call and destroys the plugin in one step, hence the assumption.
THEOREM LifecycleImplemented == ASSUME ~AllocMayFail PROVE Spec => LifecycleSpec
  <1>1. Init => Lifecycle!Init
    BY DelegateAssumption DEF Init, Lifecycle!Init, Inside
  <1>2. IInv /\ OwnInv /\ InsideInv /\ [Next]_vars => [Lifecycle!Next]_(Lifecycle!vars)
    BY LifeStep
  <1> QED BY <1>1, <1>2, InsideAlways, PTL DEF Spec, Lifecycle!Spec, LifecycleSpec
================================================================================
