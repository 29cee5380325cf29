--------------------------- MODULE VSTPluginDelegate ---------------------------
(***************************************************************************)
(* One VSTPlugin UGen of the SuperCollider server and its delegate, the    *)
(* reference-counted object that the UGen, the asynchronous commands and   *)
(* the plugin's listener share (sc/src/VSTPlugin.cpp).                     *)
(*                                                                         *)
(* Three threads act on it.  The RT (audio) thread runs the unit commands, *)
(* next(), stage 3 and the cleanup of commands.  The NRT thread runs       *)
(* stages 2 and 4, one command at a time.  The UI thread calls the         *)
(* listener when somebody moves a parameter in the plugin's window.        *)
(* A command travels RT -> NRT -> RT -> NRT -> RT through two FIFOs; the   *)
(* head of a FIFO is the command its reader is working on.                 *)
(***************************************************************************)
EXTENDS Naturals, Sequences

CONSTANTS Plugins,       \* the plugin instances that can be created
          NoPlugin,      \* a null IPlugin::ptr
          Slots,         \* bound: commands in flight at once
          AllocMayFail   \* may RTAlloc return null?

ASSUME DelegateAssumption == /\ NoPlugin \notin Plugins
                             /\ AllocMayFail \in BOOLEAN

VARIABLES
  dlg,      \* the members of VSTPluginDelegate
  mutex,    \* mutex_: "free" or the thread that holds it
  cmd,      \* [Slots -> Command], the command data in flight
  toNrt,    \* slots waiting for stage 2 or 4
  toRt,     \* slots waiting for stage 3 or cleanup (stage 5)
  rt,       \* what the RT thread is doing
  nrt,      \* what the NRT thread is doing with the head of toNrt
  ui,       \* what the UI thread is doing
  ptr,      \* per thread: the plugin it is inside of
  life,     \* per plugin: not created, created on thread nrt/ui, or gone
  reaped,   \* "no", or the thread that ran ~VSTPluginDelegate
  crashed   \* a null pointer was dereferenced, the server is gone

vars == <<dlg, mutex, cmd, toNrt, toRt, rt, nrt, ui, ptr,
          life, reaped, crashed>>

fifos   == <<cmd, toNrt, toRt>>
threads == <<rt, nrt, ui, ptr>>
fate    == <<life, reaped, crashed>>

Free == [op |-> "none", async |-> FALSE, gui |-> FALSE, plugin |-> NoPlugin,
         stage |-> 0]
\* Faulty: the command is sent as if stage 1 were still to come.
CommandFromStage1(op, async) ==
  [Free EXCEPT !.op = op, !.async = async, !.stage = 1]

Command(op, async) == [Free EXCEPT !.op = op, !.async = async, !.stage = 2]
Opening(gui)       == [Command("open", FALSE) EXCEPT !.gui = gui]
\* plugin_ is moved into the command, together with editor_
Closing(d)         == [Command("close", FALSE) EXCEPT !.gui = d.editor,
                                                      !.plugin = d.plugin]

Commands == [op : {"none", "open", "close", "vis", "reset", "read", "write",
                   "vendor"},
             async : BOOLEAN, gui : BOOLEAN, plugin : Plugins \cup {NoPlugin},
             stage : {0, 2, 3, 4, 5}]

Delegates == [alive : BOOLEAN, plugin : Plugins \cup {NoPlugin},
              editor : BOOLEAN, listener : BOOLEAN, isLoading : BOOLEAN,
              suspended : BOOLEAN]

TypeOK ==
  /\ dlg \in Delegates
  /\ mutex \in {"free", "rt", "nrt"}
  /\ cmd \in [Slots -> Commands]
  /\ toNrt \in Seq(Slots)
  /\ toRt \in Seq(Slots)
  /\ rt \in {"idle", "next", "call", "query", "write", "stage3"}
  /\ nrt \in {"idle", "in", "queue"}
  /\ ui \in {"idle", "locked", "queue"}
  /\ ptr \in [{"rt", "nrt", "ui"} -> Plugins \cup {NoPlugin}]
  /\ life \in [Plugins -> {"none", "nrt", "ui", "gone"}]
  /\ reaped \in {"no", "rt", "ui"}
  /\ crashed \in BOOLEAN

Init ==
  /\ dlg = [alive |-> TRUE, plugin |-> NoPlugin, editor |-> FALSE,
            listener |-> FALSE, isLoading |-> FALSE, suspended |-> FALSE]
  /\ mutex = "free"
  /\ cmd = [s \in Slots |-> Free]
  /\ toNrt = <<>> /\ toRt = <<>>
  /\ rt = "idle" /\ nrt = "idle" /\ ui = "idle"
  /\ ptr = [t \in {"rt", "nrt", "ui"} |-> NoPlugin]
  /\ life = [p \in Plugins |-> "none"]
  /\ reaped = "no"
  /\ crashed = FALSE

--------------------------------------------------------------------------------
(* Shared helpers *)

\* doCmd<true>: the command holds a shared_ptr to the delegate
Owned(c)  == c.op \notin {"none", "close"}
InFlight  == \E s \in Slots : Owned(cmd[s])
\* Faulty: commands are sent without storing a reference (doCmd<false>).
SharedByListener == ui # "idle"

\* !delegate_.unique(): a command or a listener call holds a reference, too
Shared    == InFlight \/ ui # "idle"
\* the command is about a plugin that is loaded
ForPlugin(c) == c.op \in {"vis", "reset", "read", "write", "vendor"}
\* stage 2 takes mutex_, and the UGen was suspended for it
Locking(c)   == c.op \in {"reset", "read", "write"} /\ c.async
\* stage 2 calls the plugin
Calling(c)   == Locking(c) \/ c.op \in {"vendor", "vis"}
\* Faulty: check() forgets the suspension.
CheckPluginOnly == dlg.plugin # NoPlugin

Check     == dlg.plugin # NoPlugin /\ ~dlg.suspended

RtReady   == ~crashed /\ rt = "idle"
UnitReady == RtReady /\ dlg.alive

\* thread t enters plugin_ and leaves the plugin it is in
Into(t) == ptr' = [ptr EXCEPT ![t] = dlg.plugin]
OutOf(t) == ptr' = [ptr EXCEPT ![t] = NoPlugin]

\* DoAsynchronousCommand; the guard on a free slot is the bound Slots
Post(s, c) == /\ cmd[s] = Free
              /\ cmd' = [cmd EXCEPT ![s] = c]
              /\ toNrt' = Append(toNrt, s)

\* Faulty: plugin_ still points to what was handed over.
DetachedListenerOnly(d) == [d EXCEPT !.listener = FALSE]

\* plugin_ is moved out and its listener unset
Detached(d) == [d EXCEPT !.plugin = NoPlugin, !.listener = FALSE]

\* Faulty: the destructor leaves plugin_ to its unique_ptr.
DestructInPlace(t, d, table) ==
  /\ reaped' = t
  /\ dlg' = Detached(d)
  /\ cmd' = table
  /\ life' = [p \in Plugins |-> IF p = d.plugin THEN "gone" ELSE life[p]]
  /\ UNCHANGED toNrt

\* ~VSTPluginDelegate on thread t: close() with no owner, so no reference is
\* counted; without memory for the command the member plugin_ dies right here
Destruct(t, d, table) ==
  /\ reaped' = t
  /\ dlg' = Detached(d)
  /\ \/ /\ d.plugin = NoPlugin
        /\ cmd' = table
        /\ UNCHANGED <<toNrt, life>>
     \/ /\ d.plugin # NoPlugin
        /\ \E s \in Slots : /\ table[s] = Free
                            /\ cmd' = [table EXCEPT ![s] = Closing(d)]
                            /\ toNrt' = Append(toNrt, s)
        /\ UNCHANGED life
     \/ /\ AllocMayFail /\ d.plugin # NoPlugin
        /\ life' = [life EXCEPT ![d.plugin] = "gone"]
        /\ cmd' = table
        /\ UNCHANGED toNrt

--------------------------------------------------------------------------------
(* RT thread: unit commands *)

\* close() with more than one reference: a warning, and nothing else
RefuseClose ==
  /\ dlg.plugin # NoPlugin /\ Shared
  /\ UNCHANGED <<dlg, cmd, toNrt>>

\* /close (running out of memory leaves everything as it was)
Close ==
  /\ UnitReady
  /\ \/ RefuseClose
     \/ /\ dlg.plugin # NoPlugin /\ ~Shared
        /\ \E s \in Slots : Post(s, Closing(dlg))
        /\ dlg' = Detached(dlg)
  /\ UNCHANGED <<mutex, toRt, threads, life, reaped, crashed>>

\* Faulty: a second open is accepted while the first is loading.
OpenTwice(gui) ==
  /\ UnitReady
  /\ dlg.plugin = NoPlugin
  /\ \E s \in Slots : Post(s, Opening(gui))
  /\ dlg' = [dlg EXCEPT !.editor = gui, !.isLoading = TRUE]
  /\ UNCHANGED <<mutex, toRt, threads, fate>>

\* Faulty: editor_ is assigned before the current plugin is closed.
OpenEditorFirst(gui) ==
  /\ UnitReady /\ ~dlg.isLoading
  /\ LET d == [dlg EXCEPT !.editor = gui] IN
     IF d.plugin # NoPlugin
       THEN /\ ~Shared
            /\ \E s \in Slots : Post(s, Closing(d))
            /\ dlg' = Detached(d)
       ELSE /\ \E s \in Slots : Post(s, Opening(gui))
            /\ dlg' = [d EXCEPT !.isLoading = TRUE]
  /\ UNCHANGED <<mutex, toRt, threads, fate>>

\* /open: closes the current plugin first, and gives up if that was refused
Open(gui) ==
  /\ UnitReady /\ ~dlg.isLoading
  /\ \/ RefuseClose
     \/ /\ dlg.plugin = NoPlugin
        /\ \E s \in Slots : Post(s, Opening(gui))
        /\ dlg' = [dlg EXCEPT !.editor = gui, !.isLoading = TRUE]
     \/ /\ dlg.plugin # NoPlugin /\ ~Shared
        /\ \E s, t \in Slots :
             /\ s # t /\ cmd[s] = Free /\ cmd[t] = Free
             /\ cmd' = [cmd EXCEPT ![s] = Closing(dlg), ![t] = Opening(gui)]
             /\ toNrt' = toNrt \o <<s, t>>
        /\ dlg' = [Detached(dlg) EXCEPT !.editor = gui, !.isLoading = TRUE]
  /\ UNCHANGED <<mutex, toRt, threads, life, reaped, crashed>>

\* /vis, not guarded by check(); only a plugin with an editor has a window
ShowEditor ==
  /\ UnitReady
  /\ dlg.plugin # NoPlugin /\ life[dlg.plugin] = "ui"
  /\ \E s \in Slots : Post(s, Command("vis", FALSE))
  /\ UNCHANGED <<dlg, mutex, toRt, threads, fate>>

\* suspended_ is set before doCmd sees whether there is a command to send
Suspending(op) ==
  /\ Check
  /\ dlg' = [dlg EXCEPT !.suspended = TRUE]
  /\ \/ \E s \in Slots : Post(s, Command(op, TRUE))
     \/ AllocMayFail /\ UNCHANGED <<cmd, toNrt>>
  /\ UNCHANGED <<rt, ptr, crashed>>

\* the RT thread is inside a method of the plugin until Return
Calls == /\ Check
         /\ rt' = "call" /\ Into("rt")
         /\ UNCHANGED <<dlg, cmd, toNrt, crashed>>

Reset(async) ==
  /\ UnitReady
  /\ IF async THEN Suspending("reset") ELSE Calls
  /\ UNCHANGED <<mutex, toRt, nrt, ui, life, reaped>>

\* /program_read and /bank_read; the synchronous form reads the file in stage 2
\* and the data in stage 3, without suspending
ReadPreset(async) ==
  /\ UnitReady
  /\ IF async
       THEN Suspending("read")
       ELSE /\ Check
            /\ \E s \in Slots : Post(s, Command("read", FALSE))
            /\ UNCHANGED <<dlg, rt, ptr, crashed>>
  /\ UNCHANGED <<mutex, toRt, nrt, ui, life, reaped>>

\* /program_write and /bank_write; the synchronous form calls the plugin first
\* (WriteData), into command data it never checked for null
WritePreset(async) ==
  /\ UnitReady
  /\ IF async
       THEN Suspending("write")
       ELSE /\ Check
            /\ \/ rt' = "write" /\ Into("rt") /\ UNCHANGED crashed
               \/ AllocMayFail /\ crashed' = TRUE /\ UNCHANGED <<rt, ptr>>
            /\ UNCHANGED <<dlg, cmd, toNrt>>
  /\ UNCHANGED <<mutex, toRt, nrt, ui, life, reaped>>

WriteData ==
  /\ ~crashed /\ rt = "write"
  /\ rt' = "idle" /\ OutOf("rt")
  /\ \/ \E s \in Slots : Post(s, Command("write", FALSE))
     \/ UNCHANGED <<cmd, toNrt>>          \* the plugin threw: goto fail
  /\ UNCHANGED <<dlg, mutex, toRt, nrt, ui, fate>>

\* /vendor_method: the asynchronous form neither suspends nor locks
VendorSpecific(async) ==
  /\ UnitReady
  /\ IF async
       THEN /\ Check
            /\ \E s \in Slots : Post(s, Command("vendor", TRUE))
            /\ UNCHANGED <<dlg, rt, ptr, crashed>>
       ELSE Calls
  /\ UNCHANGED <<mutex, toRt, nrt, ui, life, reaped>>

\* every other unit command: it does nothing unless check() succeeds
CallPlugin ==
  /\ UnitReady
  /\ Calls
  /\ UNCHANGED <<mutex, toRt, nrt, ui, life, reaped>>

\* /program_set answers with plugin_->getProgram(), whatever check() said
SetProgram ==
  /\ UnitReady
  /\ IF dlg.plugin = NoPlugin
       THEN crashed' = TRUE /\ UNCHANGED <<rt, ptr>>
       ELSE /\ rt' = IF Check THEN "call" ELSE "query"
            /\ Into("rt")
            /\ UNCHANGED crashed
  /\ UNCHANGED <<dlg, mutex, fifos, nrt, ui, life, reaped>>

Return ==
  /\ ~crashed /\ rt \in {"call", "query"}
  /\ rt' = "idle" /\ OutOf("rt")
  /\ UNCHANGED <<dlg, mutex, fifos, nrt, ui, fate>>

\* ~VSTPlugin: setOwner(nullptr), then the UGen's reference goes
FreeUnit ==
  /\ UnitReady
  /\ LET d == [dlg EXCEPT !.alive = FALSE] IN
     IF Shared THEN dlg' = d /\ UNCHANGED <<cmd, toNrt, life, reaped>>
               ELSE Destruct("rt", d, cmd)
  /\ UNCHANGED <<mutex, toRt, threads, crashed>>

--------------------------------------------------------------------------------
(* RT thread: next() *)

\* Faulty: next() processes a suspended plugin without the mutex.
NextWithoutLock ==
  /\ UnitReady
  /\ dlg.plugin # NoPlugin
  /\ rt' = "next" /\ Into("rt")
  /\ UNCHANGED <<dlg, mutex, fifos, nrt, ui, fate>>

\* a suspended plugin is processed only if try_lock succeeds, else bypassed
NextBegin ==
  /\ UnitReady
  /\ dlg.plugin # NoPlugin
  /\ IF dlg.suspended THEN mutex = "free" /\ mutex' = "rt" ELSE UNCHANGED mutex
  /\ rt' = "next" /\ Into("rt")
  /\ UNCHANGED <<dlg, fifos, nrt, ui, fate>>

NextEnd ==
  /\ ~crashed /\ rt = "next"
  /\ rt' = "idle" /\ OutOf("rt")
  /\ mutex' = IF dlg.suspended THEN "free" ELSE mutex
  /\ UNCHANGED <<dlg, fifos, nrt, ui, fate>>

--------------------------------------------------------------------------------
(* RT thread: stage 3 and cleanup of the command at the head of toRt *)

Done(op) == /\ RtReady /\ toRt # <<>>
            /\ cmd[Head(toRt)].op = op /\ cmd[Head(toRt)].stage = 3

\* stage 3 returned false: the command stays at the head for its cleanup
ToCleanup == cmd' = [cmd EXCEPT ![Head(toRt)].stage = 5]

\* stage 3 returned true: on to stage 4
ToStage4 == /\ cmd' = [cmd EXCEPT ![Head(toRt)].stage = 4]
            /\ toRt' = Tail(toRt)
            /\ toNrt' = Append(toNrt, Head(toRt))

\* Faulty: the loading flag is cleared only on success.
DoneOpenKeepLoading ==
  /\ Done("open")
  /\ LET p == cmd[Head(toRt)].plugin IN
     /\ dlg' = [dlg EXCEPT !.isLoading = p = NoPlugin, !.plugin = p,
                           !.listener = dlg.alive /\ p # NoPlugin]
     /\ cmd' = [cmd EXCEPT ![Head(toRt)].stage = 5,
                           ![Head(toRt)].plugin = NoPlugin]
  /\ UNCHANGED <<mutex, toNrt, toRt, threads, fate>>

\* doneOpen; assigning to plugin_ would destroy a plugin it still held
DoneOpen ==
  /\ Done("open")
  /\ LET p == cmd[Head(toRt)].plugin IN
     /\ dlg' = [dlg EXCEPT !.isLoading = FALSE, !.plugin = p,
                           !.listener = dlg.alive /\ p # NoPlugin]
     /\ cmd' = [cmd EXCEPT ![Head(toRt)].stage = 5,
                           ![Head(toRt)].plugin = NoPlugin]
  /\ life' = [p \in Plugins |-> IF p = dlg.plugin THEN "gone" ELSE life[p]]
  /\ UNCHANGED <<mutex, toNrt, toRt, threads, reaped, crashed>>

DoneReset ==
  /\ Done("reset")
  /\ dlg' = [dlg EXCEPT !.suspended = FALSE]
  /\ ToCleanup
  /\ UNCHANGED <<mutex, toNrt, toRt, threads, fate>>

\* cmdReadPresetDone: the synchronous form loads the data now, both forms then
\* ask the plugin for its program; neither looks at suspended_ or mutex_
DoneReadBegin ==
  /\ Done("read")
  /\ IF dlg.alive
       THEN /\ rt' = "stage3" /\ Into("rt")
            /\ dlg' = [dlg EXCEPT !.suspended = IF cmd[Head(toRt)].async
                                                THEN FALSE ELSE @]
            /\ UNCHANGED cmd
       ELSE ToCleanup /\ UNCHANGED <<dlg, rt, ptr>>
  /\ UNCHANGED <<mutex, toNrt, toRt, nrt, ui, fate>>

DoneReadEnd ==
  /\ ~crashed /\ rt = "stage3"
  /\ rt' = "idle" /\ OutOf("rt")
  /\ ToStage4
  /\ UNCHANGED <<dlg, mutex, nrt, ui, fate>>

\* Faulty: nobody resumes the UGen after an asynchronous write.
DoneWriteNoResume ==
  /\ Done("write")
  /\ ToStage4
  /\ UNCHANGED <<dlg, mutex, threads, fate>>

DoneWrite ==
  /\ Done("write")
  /\ dlg' = [dlg EXCEPT !.suspended = IF dlg.alive /\ cmd[Head(toRt)].async
                                      THEN FALSE ELSE @]
  /\ ToStage4
  /\ UNCHANGED <<mutex, threads, fate>>

DoneVendor ==
  /\ Done("vendor")
  /\ ToCleanup
  /\ UNCHANGED <<dlg, mutex, toNrt, toRt, threads, fate>>

\* Faulty: the memory is freed without running the command's destructor, so
\* its reference is never dropped.
CleanupNoDestructor ==
  /\ RtReady /\ toRt # <<>> /\ cmd[Head(toRt)].stage = 5
  /\ toRt' = Tail(toRt)
  /\ cmd' = [cmd EXCEPT ![Head(toRt)] = Free]
  /\ UNCHANGED <<dlg, mutex, toNrt, threads, fate>>

\* cmdRTfree: the command's reference goes, perhaps the last one
Cleanup ==
  /\ RtReady /\ toRt # <<>> /\ cmd[Head(toRt)].stage = 5
  /\ toRt' = Tail(toRt)
  /\ LET table == [cmd EXCEPT ![Head(toRt)] = Free] IN
     IF /\ Owned(cmd[Head(toRt)]) /\ ~dlg.alive /\ ui = "idle"
        /\ \A s \in Slots : ~Owned(table[s])
       THEN Destruct("rt", dlg, table)
       ELSE cmd' = table /\ UNCHANGED <<dlg, toNrt, life, reaped>>
  /\ UNCHANGED <<mutex, threads, crashed>>

--------------------------------------------------------------------------------
(* NRT thread: stages 2 and 4 of the command at the head of toNrt *)

NrtReady(stage) == /\ ~crashed /\ nrt = "idle" /\ toNrt # <<>>
                   /\ cmd[Head(toNrt)].stage = stage

\* the command, now c, is handed over to the RT thread
ToRt(c) == /\ cmd' = [cmd EXCEPT ![Head(toNrt)] = c]
           /\ toNrt' = Tail(toNrt)
           /\ toRt' = Append(toRt, Head(toNrt))

\* cmdOpen: with an editor the UI thread creates the plugin; may fail (what follows
\* the creation, suspend to resume, throws no Error in VST2Plugin.cpp and VST3Plugin.cpp)
NrtOpen ==
  /\ NrtReady(2)
  /\ LET c == cmd[Head(toNrt)] IN
     /\ c.op = "open"
     /\ \/ \E p \in Plugins :
             /\ life[p] = "none"
             /\ c.gui => ui = "idle"
             /\ life' = [life EXCEPT ![p] = IF c.gui THEN "ui" ELSE "nrt"]
             /\ ToRt([c EXCEPT !.stage = 3, !.plugin = p])
        \/ ToRt([c EXCEPT !.stage = 3]) /\ UNCHANGED life
  /\ UNCHANGED <<dlg, mutex, threads, reaped, crashed>>

\* stage 2 of close(): UIThread::destroy waits for the UI thread
NrtClose ==
  /\ NrtReady(2)
  /\ LET c == cmd[Head(toNrt)] IN
     /\ c.op = "close"
     /\ c.gui => ui = "idle"
     /\ life' = [life EXCEPT ![c.plugin] = "gone"]
     /\ ToRt([c EXCEPT !.stage = 5, !.plugin = NoPlugin])
  /\ UNCHANGED <<dlg, mutex, threads, reaped, crashed>>

\* stage 2 of a synchronous read or write: file or buffer I/O only
NrtFileIO ==
  /\ NrtReady(2)
  /\ LET c == cmd[Head(toNrt)] IN
     /\ c.op \in {"read", "write"} /\ ~c.async
     /\ ToRt([c EXCEPT !.stage = 3])
  /\ UNCHANGED <<dlg, mutex, threads, fate>>

\* stage 2 of the others calls data->owner->plugin(), between NrtEnter and
\* NrtLeave; reset, read and write hold the scopedLock meanwhile
NrtEnter ==
  /\ NrtReady(2)
  /\ Calling(cmd[Head(toNrt)])
  /\ IF Locking(cmd[Head(toNrt)])
       THEN mutex = "free" /\ mutex' = "nrt"
       ELSE UNCHANGED mutex
  /\ nrt' = "in" /\ Into("nrt")
  /\ UNCHANGED <<dlg, fifos, rt, ui, fate>>

NrtLeave ==
  /\ ~crashed /\ nrt = "in"
  /\ LET c == cmd[Head(toNrt)] IN
     /\ mutex' = IF Locking(c) THEN "free" ELSE mutex
     /\ ToRt([c EXCEPT !.stage = IF c.op = "vis" THEN 5 ELSE 3])
  /\ nrt' = "idle" /\ OutOf("nrt")
  /\ UNCHANGED <<dlg, rt, ui, fate>>

\* the plugin reports a parameter change: parameterAutomated goes through
\* owner_ to the UGen's queue
NrtNotify ==
  /\ ~crashed /\ nrt = "in" /\ dlg.listener
  /\ IF dlg.alive THEN nrt' = "queue" /\ UNCHANGED crashed
                  ELSE crashed' = TRUE /\ UNCHANGED nrt
  /\ UNCHANGED <<dlg, mutex, fifos, rt, ui, ptr, life, reaped>>

NrtNotified ==
  /\ ~crashed /\ nrt = "queue"
  /\ nrt' = "in"
  /\ UNCHANGED <<dlg, mutex, fifos, rt, ui, ptr, fate>>

\* stage 4: InfoCmdData::nrtFree
NrtFree ==
  /\ NrtReady(4)
  /\ ToRt([cmd[Head(toNrt)] EXCEPT !.stage = 5])
  /\ UNCHANGED <<dlg, mutex, threads, fate>>

--------------------------------------------------------------------------------
(* UI thread: parameterAutomated called by the plugin's editor *)

\* listener_.lock() makes a reference of its own
UiLock ==
  /\ ~crashed /\ ui = "idle"
  /\ reaped = "no" /\ dlg.listener /\ life[dlg.plugin] = "ui"
  /\ ui' = "locked" /\ Into("ui")
  /\ UNCHANGED <<dlg, mutex, fifos, rt, nrt, fate>>

\* owner_->paramQueueMutex_, owner_->paramQueue_
UiDeref ==
  /\ ~crashed /\ ui = "locked"
  /\ IF dlg.alive THEN ui' = "queue" /\ UNCHANGED crashed
                  ELSE crashed' = TRUE /\ UNCHANGED ui
  /\ UNCHANGED <<dlg, mutex, fifos, rt, nrt, ptr, life, reaped>>

\* the reference is dropped; after the last one ~VSTPluginDelegate runs here
UiRelease ==
  /\ ~crashed /\ ui = "queue"
  /\ ui' = "idle" /\ OutOf("ui")
  /\ IF dlg.alive \/ InFlight
       THEN UNCHANGED <<dlg, cmd, toNrt, life, reaped>>
       ELSE Destruct("ui", dlg, cmd)
  /\ UNCHANGED <<mutex, toRt, rt, nrt, crashed>>

--------------------------------------------------------------------------------
UnitCommand == \/ Close
               \/ \E gui \in BOOLEAN : Open(gui)
               \/ ShowEditor
               \/ \E async \in BOOLEAN : \/ Reset(async)
                                         \/ ReadPreset(async)
                                         \/ WritePreset(async)
                                         \/ VendorSpecific(async)
               \/ CallPlugin
               \/ SetProgram
               \/ FreeUnit

RtStage == \/ DoneOpen \/ DoneReset \/ DoneReadBegin \/ DoneWrite \/ DoneVendor
           \/ Cleanup

NrtStage == NrtOpen \/ NrtClose \/ NrtFileIO \/ NrtEnter \/ NrtFree

Next == \/ UnitCommand \/ WriteData \/ Return
        \/ NextBegin \/ NextEnd
        \/ RtStage \/ DoneReadEnd
        \/ NrtStage \/ NrtLeave \/ NrtNotify \/ NrtNotified
        \/ UiLock \/ UiDeref \/ UiRelease

Spec == Init /\ [][Next]_vars

\* No fairness for the client (UnitCommand), for next() starting and for the
\* plugin's notifications.  What a thread has begun it finishes; the RT thread
\* serves toRt between any two control blocks, and the NRT thread gets the
\* mutex and the UI thread, each of which is held only for a moment.
Fairness == /\ WF_vars(WriteData \/ Return \/ NextEnd \/ DoneReadEnd)
            /\ SF_vars(RtStage)
            /\ SF_vars(NrtStage)
            /\ SF_vars(NrtLeave)
            /\ WF_vars(NrtNotified)
            /\ WF_vars(UiDeref \/ UiRelease)

FairSpec == Spec /\ Fairness

--------------------------------------------------------------------------------
(* Safety *)

\* A command that will call, is calling or has called data->owner->plugin()
\* keeps plugin_ in place: stages 2 and 3 never dereference null
\* (close() refuses while it is in flight).
CommandsHavePlugin ==
  \A s \in Slots : ForPlugin(cmd[s]) => dlg.plugin # NoPlugin

\* The UGen is suspended from the moment an asynchronous reset, read or write
\* is issued until its stage 3, and there is only one at a time.
OneSuspender ==
  /\ \A s \in Slots : Locking(cmd[s]) /\ cmd[s].stage \in {2, 3}
                        /\ rt # "stage3" => dlg.suspended
  /\ \A s, t \in Slots : /\ Locking(cmd[s]) /\ cmd[s].stage = 2
                          /\ Locking(cmd[t]) /\ cmd[t].stage = 2
                          => s = t

\* While the NRT thread is in a reset, read or write, the audio thread is
\* neither in process() nor in a call that check() let through.
ProcessExclusion ==
  ~ /\ nrt # "idle" /\ Locking(cmd[Head(toNrt)])
    /\ rt \in {"next", "call", "write"}

\* The command that closes a plugin names the UI thread exactly if the UI thread
\* made it.  (A plugin that dies without a command, as a member of the delegate,
\* does so on whatever thread that is: Destruct.)
DestroyedWhereMade ==
  \A s \in Slots : cmd[s].op = "close" /\ cmd[s].stage = 2
                     => cmd[s].gui = (life[cmd[s].plugin] = "ui")

\* Every open plugin has exactly one owner, the delegate or a command: none
\* leaks, none is released twice.
Owners(p) == {s \in Slots : cmd[s].plugin = p}
OneOwner ==
  \A p \in Plugins :
    IF life[p] \in {"nrt", "ui"}
      THEN IF dlg.plugin = p THEN Owners(p) = {}
                             ELSE \E s \in Slots : Owners(p) = {s}
      ELSE dlg.plugin # p /\ Owners(p) = {}

\* Each plugin goes through the life cycle of PluginLifecycle: nobody is inside
\* a plugin that does not exist, and none is destroyed while a thread is inside.
Inside(p) == {t \in {"rt", "nrt", "ui"} : ptr[t] = p}
Lifecycle == INSTANCE PluginLifecycle
               WITH Threads <- {"rt", "nrt", "ui"},
                    state <- [p \in Plugins |-> IF life[p] \in {"nrt", "ui"}
                                                THEN "open" ELSE life[p]],
                    users <- [p \in Plugins |-> Inside(p)]
LifecycleSpec == Lifecycle!Spec

\* "Plugins are always opened/closed asynchronously in the NRT thread"
\* (VSTPluginController.schelp, Realtime Safety): a plugin appears only in stage
\* 2 of an open command and disappears only in stage 2 of a close command.
NrtRuns(op) == nrt = "idle" /\ toNrt # <<>> /\ cmd[Head(toNrt)].op = op
MadeAndClosedOnNrt ==
  [][\A p \in Plugins : life'[p] # life[p]
       => IF life'[p] = "gone" THEN NrtRuns("close") ELSE NrtRuns("open")]_vars

--------------------------------------------------------------------------------
(* What comments and documentation say and the code does not keep *)

\* "async: true means that the plugin method is called on the NRT thread.  The
\* UGen is temporarily suspended" (VSTPluginController.schelp, Realtime Safety):
\* while it is, the RT thread is not in the same plugin.
NrtCallIsAlone ==
  nrt # "idle" /\ cmd[Head(toNrt)].async => rt = "idle"

--------------------------------------------------------------------------------
(* Liveness, under FairSpec and unless the server is gone *)

\* Every open is answered: the loading flag, which refuses others, clears.
OpenAnswered == dlg.isLoading ~> (~dlg.isLoading \/ crashed)

\* "temporarily suspended": a suspended UGen accepts messages again.
SuspensionEnds == dlg.suspended ~> (~dlg.suspended \/ ~dlg.alive \/ crashed)

\* Whatever was in flight when the UGen was freed, the delegate goes and with
\* it every plugin, also one that was still being opened.
FreedUnitReleasesAll ==
  ~dlg.alive ~> \/ /\ reaped # "no"
                   /\ \A p \in Plugins : life[p] \in {"none", "gone"}
                \/ crashed
================================================================================
