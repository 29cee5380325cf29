----------------------------- MODULE UIEventLoop -----------------------------
(***************************************************************************)
(* The UI thread (vst/WindowX11.cpp, vst/WindowWin32.cpp): plugins with an *)
(* editor are created and destroyed there, at the request of a thread that *)
(* waits for the answer, and their windows live there.                     *)
(*                                                                         *)
(* The two platforms differ in how a request carries its data: in the one  *)
(* member data_ under lock_ (X11), or in a PluginData on the stack of the  *)
(* caller, without a lock (Win32).  mutex_ is held from clearing ready_ to *)
(* the wait, so that is one step here.  XIDs and instances are numbers,    *)
(* never used again.                                                       *)
(***************************************************************************)
EXTENDS Integers, Sequences, Functions

CONSTANTS Platforms,    \* a subset of {"x11", "win32"}
          Threads,      \* the threads that make requests
          Infos,        \* PluginInfos
          None,
          Overlaps,     \* whether requests overlap on Win32
          MaxPlugins    \* bound: instances made in a run

ASSUME LoopAssumption == /\ Platforms \subseteq {"x11", "win32"}
                         /\ MaxPlugins \in Nat /\ Overlaps \in BOOLEAN
                         /\ None \notin Threads /\ None \notin Infos /\ None \notin 1 .. MaxPlugins

VARIABLES
  platform,
  lock_,      \* X11: the thread that holds lock_, or None
  ready_,
  data,       \* PluginData: data_, or one on each caller's stack
  caller,     \* where each thread is in create() or destroy()
  events,     \* the events for the UI thread
  ui,         \* what the UI thread does
  made,       \* the instances made
  plugins,    \* the instances that exist -> their info, whether they have a
              \* window (pluginMap_, GWLP_USERDATA), and whether its editor is open
  lost        \* history: an open or close by the host for a window that is not there, or a
              \* plugin that was destroyed without its window

loop == <<platform, lock_, ready_, data, caller, events, ui, made, plugins, lost>>

Instances == 1 .. MaxPlugins
Slots     == Threads \cup {"data_"}
Slot(t)   == IF platform = "x11" THEN "data_" ELSE t
NoData    == [info |-> None, plugin |-> None, err |-> None]
Away      == [pc |-> "away", op |-> None, arg |-> None, result |-> None, err |-> None]
UIIdle    == [pc |-> "idle", object |-> None, plugin |-> None]

LoopInit == /\ platform \in Platforms
            /\ lock_ = None /\ ready_ = FALSE
            /\ data = [s \in Slots |-> NoData]
            /\ caller = [t \in Threads |-> Away]
            /\ events = <<>> /\ ui = UIIdle
            /\ made = 0 /\ plugins = <<>> /\ lost = FALSE

-----------------------------------------------------------------------------
(* Callers: create, destroy, sendClientEvent.                              *)

\* a faulty variant: X11 without lock_
UnlockedFree(t) == platform = "x11" \/ Overlaps \/ \A u \in Threads : caller[u].pc = "away"
LockFree(t) == IF platform = "x11" THEN lock_ = None
               ELSE Overlaps \/ \A u \in Threads : caller[u].pc = "away"

\* data is filled in, ready_ cleared, the event posted; then the thread waits
Request(t, op, arg) ==
    /\ caller[t].pc = "away" /\ LockFree(t)
    /\ lock_' = IF platform = "x11" THEN t ELSE None
    /\ data' = [data EXCEPT ![Slot(t)] = [info |-> IF op = "create" THEN arg ELSE None,
                                          plugin |-> IF op = "create" THEN None ELSE arg,
                                          err |-> IF platform = "x11" THEN data[Slot(t)].err ELSE None]]
    /\ ready_' = FALSE
    /\ events' = Append(events, [type |-> op, slot |-> Slot(t), window |-> None, host |-> TRUE])
    /\ caller' = [caller EXCEPT ![t] = [Away EXCEPT !.pc = "waiting", !.op = op, !.arg = arg]]
    /\ UNCHANGED <<platform, ui, made, plugins, lost>>

\* cond_.wait returns when ready_ is set; create() moves the plugin out of data
Wake(t) == /\ caller[t].pc = "woken"
           /\ IF ready_
              THEN /\ caller' = [caller EXCEPT ![t].pc = "back",
                                               ![t].result = data[Slot(t)].plugin,
                                               ![t].err = data[Slot(t)].err]
                   /\ lock_' = None
                   /\ data' = [data EXCEPT ![Slot(t)].plugin = None]
              ELSE /\ caller' = [caller EXCEPT ![t].pc = "waiting"]
                   /\ UNCHANGED <<lock_, data>>
           /\ UNCHANGED <<platform, ready_, events, ui, made, plugins, lost>>

-----------------------------------------------------------------------------
(* The event loop, run().                                                  *)

Handle(type) == ui.pc = "idle" /\ events # <<>> /\ Head(events).type = type
                    /\ events' = Tail(events)

HasWindow(p) == p \in DOMAIN plugins /\ plugins[p].window

\* a faulty variant: the answer is forgotten when the constructor throws
AnswerIfMade(failed) == /\ ready_' = (ready_ \/ ~failed)
                        /\ ui' = IF failed THEN UIIdle ELSE [ui EXCEPT !.pc = "notify"]

\* notify(): ready_ is set under mutex_, the condition is notified after it is released
Answer(failed) == ready_' = TRUE /\ ui' = [ui EXCEPT !.pc = "notify"]

\* WM_CREATE_PLUGIN: the constructor may throw an Error
CreatePlugin ==
    /\ Handle("create")
    /\ LET slot == Head(events).slot IN
       \/ /\ made < MaxPlugins
          /\ made' = made + 1
          /\ \E hasEditor \in BOOLEAN :
                 plugins' = [p \in DOMAIN plugins \cup {made'} |->
                                IF p = made' THEN [info |-> data[slot].info, window |-> hasEditor, open |-> FALSE]
                                             ELSE plugins[p]]
          /\ data' = [data EXCEPT ![slot].plugin = made']
          /\ Answer(FALSE)
       \/ /\ data' = [data EXCEPT ![slot].err = data[slot].info]
          /\ Answer(TRUE)
          /\ UNCHANGED <<made, plugins>>
    /\ UNCHANGED <<platform, lock_, caller, lost>>

\* WM_DESTROY_PLUGIN: out of the map; the window goes with the instance, and
\* its destructor closes the editor
DestroyPlugin ==
    /\ Handle("destroy")
    /\ LET slot == Head(events).slot IN
           /\ plugins' = Restrict(plugins, DOMAIN plugins \ {data[slot].plugin})
           /\ data' = [data EXCEPT ![slot].plugin = None]
    /\ Answer(FALSE)
    /\ UNCHANGED <<platform, lock_, caller, made, lost>>

\* cond_.notify_one: one of those who wait, if anyone does
Notify == /\ ui.pc = "notify"
          /\ ui' = UIIdle
          /\ LET Waiting == {t \in Threads : caller[t].pc = "waiting"} IN
                 IF Waiting = {} THEN UNCHANGED caller
                 ELSE \E t \in Waiting : caller' = [caller EXCEPT ![t].pc = "woken"]
          /\ UNCHANGED <<platform, lock_, ready_, data, events, made, plugins, lost>>

\* an editor is opened or closed; X11 looks at mapped_ first.  From the host, or
\* from the window manager (WM_DELETE_WINDOW, WM_CLOSE)
ShowEditor ==
    /\ \/ Handle("open") \/ Handle("close")
    /\ LET e == Head(events) IN
       IF HasWindow(e.window)
       THEN plugins' = [plugins EXCEPT ![e.window].open = (e.type = "open")] /\ UNCHANGED lost
       ELSE lost' = (lost \/ e.host) /\ UNCHANGED plugins
    /\ UNCHANGED <<platform, lock_, ready_, data, caller, ui, made>>

-----------------------------------------------------------------------------
(* What is posted to a window.                                             *)

Posted(type, window, host) == [type |-> type, slot |-> None, window |-> window, host |-> host]

\* the user closes a window
WindowManager ==
    /\ \E p \in DOMAIN plugins : /\ plugins[p].open
                                 /\ \A i \in DOMAIN events : events[i].host
                                 /\ events' = Append(events, Posted("close", p, FALSE))
    /\ UNCHANGED <<platform, lock_, ready_, data, caller, ui, made, plugins, lost>>

\* the timer thread of X11, the timers of Win32: the posted updates are not counted
Update == /\ \A i \in DOMAIN events : events[i].type # "update"
          /\ \E p \in DOMAIN plugins : plugins[p].open
          /\ events' = Append(events, Posted("update", None, TRUE))
          /\ UNCHANGED <<platform, lock_, ready_, data, caller, ui, made, plugins, lost>>

UIStep == CreatePlugin \/ DestroyPlugin \/ Notify \/ ShowEditor
=============================================================================
