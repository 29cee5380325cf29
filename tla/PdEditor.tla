------------------------------ MODULE PdEditor ------------------------------
(***************************************************************************)
(* Editors of the Pd external (pd/src/vstplugin~.cpp, t_vsteditor) with the *)
(* UI thread, the Pd thread and the worker thread.  Plugins notify their   *)
(* editor from the UI thread or from perform; the editor queues the event  *)
(* and arranges for a clock, whose tick sends the events to the outlet.    *)
(*                                                                         *)
(* The Pd thread holds the Pd lock in all it does, so each handler is a    *)
(* step, except a tick, which others may watch, and a synchronous open or  *)
(* close with an editor, which waits for the UI thread.  Opening and       *)
(* closing are reduced to what the editor sees: PdObject has the rest, and *)
(* the end of an object.                                                   *)
(***************************************************************************)
EXTENDS UIEventLoop

CONSTANTS Deadlocks,    \* whether Pd waits for the UI thread while that may wait for Pd
          Reopens,      \* whether an object is sent an open while one is under way
          MaxMessages,  \* bound: messages to the objects
          MaxEvents     \* bound: events of the plugins

ASSUME EditorAssumption == /\ Threads = {"pd", "worker"} /\ {Deadlocks, Reopens} \subseteq BOOLEAN
                           /\ MaxMessages \in Nat /\ MaxEvents \in Nat

Objects == Infos        \* every object opens a plugin of its own

VARIABLES
  x_plugin, x_async, x_uithread,  \* of each object
  opening,     \* whether an asynchronous open is under way
  listener,    \* instance -> the object whose editor listens, or None
  work,        \* the work queue, and
  results,     \*   what comes back
  dsp,         \* pd_getdspstate
  pd,          \* what the Pd thread does, and for which object; events left in a tick
  e_events,    \* e_automated, e_midi, e_sysex: the instances the events are from
  e_mutex,     \* who holds it: "pd", "ui" or None
  e_clock,     \* whether the clock is set
  e_needclock,
  messages, emitted

editor == <<x_plugin, x_async, x_uithread, opening, listener, work, results, dsp, pd, e_events,
            e_mutex, e_clock, e_needclock, messages, emitted>>
vars   == <<loop, editor>>
opened == <<x_plugin, x_async, x_uithread, opening, listener>>
queues == <<e_events, e_mutex, e_clock, e_needclock>>

PdIdle == [pc |-> "idle", object |-> None, left |-> <<>>]

Init == /\ LoopInit
        /\ x_plugin = [o \in Objects |-> None]
        /\ x_async = [o \in Objects |-> FALSE] /\ x_uithread = [o \in Objects |-> FALSE]
        /\ opening = [o \in Objects |-> FALSE]
        /\ listener = [p \in Instances |-> None]
        /\ work = <<>> /\ results = <<>>
        /\ dsp \in BOOLEAN /\ pd = PdIdle
        /\ e_events = [o \in Objects |-> <<>>] /\ e_mutex = [o \in Objects |-> None]
        /\ e_clock = [o \in Objects |-> FALSE] /\ e_needclock = [o \in Objects |-> FALSE]
        /\ messages = 0 /\ emitted = 0

PdFree  == pd.pc = "idle"                       \* the Pd lock is not held
Message == PdFree /\ messages < MaxMessages /\ messages' = messages + 1

\* No code, but an assumption that Deadlocks = FALSE makes: a synchronous request does not
\* begin while the UI thread waits for Pd,
MayWait == Deadlocks \/ ui.pc \in {"idle", "notify"} \/ (dsp /\ ui.pc # "clock")
\* and while there is one the UI thread does not begin to.
MayEmit == Deadlocks \/ dsp \/ caller["pd"].pc = "away"

-----------------------------------------------------------------------------
(* Messages: open, close, vis.                                             *)

\* vstplugin_open (after vstplugin_close): with an editor, on the UI thread.  The code does
\* not ask whether an open is under way; Reopens = FALSE assumes that none is.
Open(o, uithread, async) ==
    /\ Message /\ x_plugin[o] = None /\ (Reopens \/ ~opening[o])
    /\ x_async' = [x_async EXCEPT ![o] = async]
    /\ x_uithread' = [x_uithread EXCEPT ![o] = uithread]
    /\ IF async
       THEN /\ work' = Append(work, [op |-> "create", arg |-> o, object |-> o, uithread |-> uithread])
            /\ opening' = [opening EXCEPT ![o] = TRUE]
            /\ UNCHANGED <<loop, pd, x_plugin, listener>>
       ELSE /\ UNCHANGED <<work, opening>>
            /\ IF uithread
               THEN /\ MayWait /\ Request("pd", "create", o)
                    /\ pd' = [PdIdle EXCEPT !.pc = "open", !.object = o]
                    /\ UNCHANGED <<x_plugin, listener>>
               ELSE /\ made < MaxPlugins /\ made' = made + 1
                    /\ plugins' = [p \in DOMAIN plugins \cup {made'} |->
                          IF p = made' THEN [info |-> o, window |-> FALSE, open |-> FALSE] ELSE plugins[p]]
                    /\ x_plugin' = [x_plugin EXCEPT ![o] = made']
                    /\ listener' = [listener EXCEPT ![made'] = o]
                    /\ UNCHANGED <<platform, lock_, ready_, data, caller, events, ui, lost, pd>>
    /\ UNCHANGED <<results, dsp, queues, emitted>>

\* vstplugin_open_done: a plugin that is there already is destroyed by the assignment, on
\* the Pd thread, and its window, which the UI thread still knows, is left without it
OpenDone(o, p) ==
    IF p = None THEN UNCHANGED <<x_plugin, listener, plugins, lost>>
    ELSE /\ x_plugin' = [x_plugin EXCEPT ![o] = p]
         /\ listener' = [listener EXCEPT ![p] = o]
         /\ plugins' = Restrict(plugins, DOMAIN plugins \ {x_plugin[o]})
         /\ lost' = IF HasWindow(x_plugin[o]) THEN TRUE ELSE lost

\* a faulty variant: the editor hides the window when the plugin is on its way out
CloseHides(o) == events' = Append(events, Posted("close", x_plugin[o], TRUE))
                    /\ UNCHANGED <<platform, lock_, ready_, data, caller, ui, made, plugins, lost>>

\* t_vsteditor::vis(false), when x_plugin was moved away: there is no window
Hide(o) == UNCHANGED loop

\* vstplugin_close: no more events from the plugin; where it was opened, it is released
Close(o) ==
    /\ Message /\ x_plugin[o] # None
    /\ LET p == x_plugin[o] IN
       /\ listener' = [listener EXCEPT ![p] = None]
       /\ x_plugin' = [x_plugin EXCEPT ![o] = None]
       /\ IF x_async[o]
          THEN /\ work' = Append(work, [op |-> "destroy", arg |-> p, object |-> o, uithread |-> x_uithread[o]])
               /\ Hide(o) /\ UNCHANGED pd
          ELSE /\ UNCHANGED work
               /\ IF x_uithread[o]
                  THEN /\ MayWait /\ Request("pd", "destroy", p)
                       /\ pd' = [PdIdle EXCEPT !.pc = "close", !.object = o]
                  ELSE /\ plugins' = Restrict(plugins, DOMAIN plugins \ {p})
                       /\ UNCHANGED <<platform, lock_, ready_, data, caller, events, ui, made, lost, pd>>
    /\ UNCHANGED <<x_async, x_uithread, opening, results, dsp, queues, emitted>>

\* the request is done
Returned == /\ caller["pd"].pc = "back"
            /\ caller' = [caller EXCEPT !["pd"] = Away]
            /\ IF pd.pc = "open" THEN OpenDone(pd.object, caller["pd"].result)
                                 ELSE UNCHANGED <<x_plugin, listener, plugins, lost>>
            /\ pd' = PdIdle
            /\ UNCHANGED <<platform, lock_, ready_, data, events, ui, made, x_async, x_uithread,
                           opening, work, results, dsp, queues, messages, emitted>>

\* vstplugin_vis: check_plugin; only a plugin with a window has something to show
Vis(o) == /\ Message /\ x_plugin[o] # None /\ HasWindow(x_plugin[o])
          /\ \E type \in {"open", "close"} : events' = Append(events, Posted(type, x_plugin[o], TRUE))
          /\ UNCHANGED <<platform, lock_, ready_, data, caller, ui, made, plugins, lost, opened, work,
                         results, dsp, pd, queues, emitted>>

-----------------------------------------------------------------------------
(* The worker thread: vstplugin_open_do<true>, vstplugin_close_do<true>.   *)

WorkDone(result) == /\ work' = Tail(work)
                    /\ results' = IF Head(work).op = "create"
                                  THEN Append(results, <<Head(work).object, result>>) ELSE results

WorkerBegin ==
    /\ work # <<>> /\ Head(work).uithread
    /\ Request("worker", Head(work).op, Head(work).arg)
    /\ UNCHANGED editor

WorkerPlain ==
    /\ work # <<>> /\ ~Head(work).uithread
    /\ \/ /\ Head(work).op = "create"
          /\ made < MaxPlugins /\ made' = made + 1
          /\ plugins' = [p \in DOMAIN plugins \cup {made'} |->
                IF p = made' THEN [info |-> Head(work).arg, window |-> FALSE, open |-> FALSE] ELSE plugins[p]]
          /\ WorkDone(made')
       \/ /\ Head(work).op = "destroy"
          /\ plugins' = Restrict(plugins, DOMAIN plugins \ {Head(work).arg})
          /\ WorkDone(None) /\ UNCHANGED made
    /\ UNCHANGED <<platform, lock_, ready_, data, caller, events, ui, lost, opened, dsp, pd, queues,
                   messages, emitted>>

WorkerEnd == /\ caller["worker"].pc = "back"
             /\ caller' = [caller EXCEPT !["worker"] = Away]
             /\ WorkDone(caller["worker"].result)
             /\ UNCHANGED <<platform, lock_, ready_, data, events, ui, made, plugins, lost, opened, dsp,
                            pd, queues, messages, emitted>>

\* the Pd thread polls the work queue
Poll == /\ PdFree /\ results # <<>>
        /\ OpenDone(Head(results)[1], Head(results)[2])
        /\ opening' = [opening EXCEPT ![Head(results)[1]] = FALSE]
        /\ results' = Tail(results)
        /\ UNCHANGED <<platform, lock_, ready_, data, caller, events, ui, made, x_async, x_uithread,
                       work, dsp, pd, queues, messages, emitted>>

-----------------------------------------------------------------------------
(* Events: t_vsteditor::post_event.                                        *)

\* on the UI thread: updateEditor lets a plugin with an open editor notify its listener
UpdateEditors ==
    /\ Handle("update")
    /\ \/ /\ emitted < MaxEvents /\ MayEmit
          /\ \E p \in DOMAIN plugins :
                /\ plugins[p].open /\ listener[p] # None
                /\ ui' = [pc |-> "lock", object |-> listener[p], plugin |-> p]
          /\ emitted' = emitted + 1
       \/ UNCHANGED <<ui, emitted>>
    /\ UNCHANGED <<platform, lock_, ready_, data, caller, made, plugins, lost, opened, work, results, dsp,
                   pd, queues, messages>>

UIAt(pc, next) == ui.pc = pc /\ ui' = [ui EXCEPT !.pc = next]
                    /\ UNCHANGED <<platform, lock_, ready_, data, caller, events, made, plugins, lost,
                                   opened, work, results, dsp, pd, messages, emitted>>

LockQueue == /\ UIAt("lock", "push") /\ e_mutex[ui.object] = None
             /\ e_mutex' = [e_mutex EXCEPT ![ui.object] = "ui"]
             /\ UNCHANGED <<e_events, e_clock, e_needclock>>
PushEvent == /\ UIAt("push", "pushed")
             /\ e_events' = [e_events EXCEPT ![ui.object] = Append(@, ui.plugin)]
             /\ e_mutex' = [e_mutex EXCEPT ![ui.object] = None]
             /\ UNCHANGED <<e_clock, e_needclock>>
\* while DSP is on, perform sets the clock; otherwise it is set under the Pd lock
AskDsp    == UIAt("pushed", IF dsp THEN "need" ELSE "clock") /\ UNCHANGED queues
NeedClock == /\ UIAt("need", "idle")
             /\ e_needclock' = [e_needclock EXCEPT ![ui.object] = TRUE]
             /\ UNCHANGED <<e_events, e_mutex, e_clock>>
SetClock  == /\ UIAt("clock", "idle") /\ PdFree
             /\ e_clock' = [e_clock EXCEPT ![ui.object] = TRUE]
             /\ UNCHANGED <<e_events, e_mutex, e_needclock>>

\* a faulty variant: the clock is not set when the queue is busy
FlushIfFree(o, clock) == IF e_needclock[o]
                         THEN /\ e_needclock' = [e_needclock EXCEPT ![o] = FALSE]
                              /\ e_clock' = [e_clock EXCEPT ![o] = clock \/ e_events[o] = <<>>]
                         ELSE /\ e_clock' = [e_clock EXCEPT ![o] = clock] /\ UNCHANGED e_needclock

\* t_vsteditor::flush_queues, at the end of perform
flush_queues(o, clock) == /\ e_clock' = [e_clock EXCEPT ![o] = clock \/ e_needclock[o]]
                          /\ e_needclock' = [e_needclock EXCEPT ![o] = FALSE]

\* vstplugin_perform: processing, too, may bring an event, which sets the clock at once
Perform(o) ==
    /\ PdFree /\ dsp
    /\ \/ /\ e_needclock[o] /\ flush_queues(o, e_clock[o])
          /\ UNCHANGED <<e_events, emitted>>
       \/ /\ emitted < MaxEvents /\ emitted' = emitted + 1
          /\ x_plugin[o] # None /\ e_mutex[o] = None
          /\ e_events' = [e_events EXCEPT ![o] = Append(@, x_plugin[o])]
          /\ flush_queues(o, TRUE)
    /\ UNCHANGED <<loop, opened, work, results, dsp, pd, e_mutex, messages>>

\* t_vsteditor::tick: gives up when e_mutex is taken; otherwise holds it
Tick(o) == /\ PdFree /\ e_clock[o]
           /\ e_clock' = [e_clock EXCEPT ![o] = FALSE]
           /\ IF e_mutex[o] = None
              THEN /\ e_mutex' = [e_mutex EXCEPT ![o] = "pd"]
                   /\ pd' = [pc |-> "tick", object |-> o, left |-> e_events[o]]
              ELSE UNCHANGED <<e_mutex, pd>>
           /\ UNCHANGED <<loop, opened, work, results, dsp, e_events, e_needclock, messages,
                          emitted>>

\* one event goes to the outlet, and the patch may respond by switching DSP; an event
\* that a response causes on this thread is refused ("recursion detected")
Send == /\ pd.pc = "tick" /\ pd.left # <<>>
        /\ pd' = [pd EXCEPT !.left = Tail(@)]
        /\ \/ UNCHANGED <<dsp, messages>>
           \/ messages < MaxMessages /\ messages' = messages + 1 /\ dsp' = ~dsp
        /\ UNCHANGED <<loop, opened, work, results, queues, emitted>>

TickEnd == /\ pd.pc = "tick" /\ pd.left = <<>>
           /\ e_events' = [e_events EXCEPT ![pd.object] = <<>>]
           /\ e_mutex' = [e_mutex EXCEPT ![pd.object] = None]
           /\ pd' = PdIdle
           /\ UNCHANGED <<loop, opened, work, results, dsp, e_clock, e_needclock, messages,
                          emitted>>

SwitchDsp == /\ Message /\ dsp' = ~dsp
             /\ UNCHANGED <<loop, opened, work, results, pd, queues, emitted>>

-----------------------------------------------------------------------------

UIThread == UIStep /\ UNCHANGED editor
UIPost   == LockQueue \/ PushEvent \/ AskDsp \/ NeedClock \/ SetClock
Worker   == WorkerBegin \/ WorkerPlain \/ WorkerEnd
PdWaits  == (Wake("pd") /\ UNCHANGED editor) \/ Returned
Outside  == (WindowManager \/ Update) /\ UNCHANGED editor

Next == \/ \E o \in Objects : \/ \E uithread, async \in BOOLEAN : Open(o, uithread, async)
                              \/ Close(o) \/ Vis(o) \/ Perform(o) \/ Tick(o)
        \/ PdWaits \/ Poll \/ Send \/ TickEnd \/ SwitchDsp
        \/ Worker \/ (Wake("worker") /\ UNCHANGED editor)
        \/ UIThread \/ UpdateEditors \/ UIPost
        \/ Outside

\* threads go on, the Pd scheduler comes to its clocks, and while DSP is on, to perform
Fairness == /\ WF_vars(UIThread) /\ WF_vars(UpdateEditors) /\ WF_vars(UIPost)
            /\ WF_vars(Worker) /\ WF_vars(Wake("worker") /\ UNCHANGED editor)
            /\ WF_vars(PdWaits) /\ WF_vars(Poll) /\ WF_vars(Send) /\ WF_vars(TickEnd)
            /\ \A o \in Objects : WF_vars(Tick(o)) /\ WF_vars(Perform(o))

Spec == Init /\ [][Next]_vars /\ Fairness

-----------------------------------------------------------------------------
(* Properties.                                                             *)

\* Create and destroy answer their own caller (EventLoop::create, destroy): a
\* thread gets an instance of the plugin it asked for, or the Error of its own
\* request, and when destroy returns the instance is gone.
OwnAnswer == \A t \in Threads : caller[t].pc = "back" =>
    IF caller[t].op = "create"
    THEN \/ caller[t].result \in DOMAIN plugins /\ plugins[caller[t].result].info = caller[t].arg
         \/ caller[t].result = None /\ caller[t].err = caller[t].arg
    ELSE caller[t].arg \notin DOMAIN plugins

\* The host never opens or closes a window that is gone (LOG_ERROR("bug ...")), and none is
\* left behind: a plugin with a window is destroyed on the UI thread, where whatever is
\* queued for its window comes before the request that destroys it.
WindowsFound == ~lost

\* An event does not stay in the queue: it is sent, unless DSP was switched off
\* when its plugin counted on perform to set the clock.
EventsDelivered == \A o \in Objects :
    e_events[o] # <<>> ~> (e_events[o] = <<>> \/ (~dsp /\ e_needclock[o]))

\* No thread waits for the UI thread for ever (the wait in sendClientEvent, sendMessage).
RequestsEnd == \A t \in Threads : caller[t].pc = "waiting" ~> caller[t].pc = "away"
=============================================================================
