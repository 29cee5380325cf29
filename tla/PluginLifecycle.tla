---------------------------- MODULE PluginLifecycle ----------------------------
(***************************************************************************)
(* What the host promises to every plugin instance (vst/Interface.h,       *)
(* IPlugin): it is created once, threads call into it only while it is     *)
(* open, and it is destroyed at most once, when no thread is inside it.    *)
(* VSTPluginDelegate implements this specification.                        *)
(***************************************************************************)

CONSTANTS Plugins,  \* the plugin instances
          Threads   \* the threads that may call them

VARIABLES state,    \* [Plugins -> {"none", "open", "gone"}]
          users     \* [Plugins -> SUBSET Threads], who is inside

vars == <<state, users>>

Init == /\ state = [p \in Plugins |-> "none"]
        /\ users = [p \in Plugins |-> {}]

Create(p) == /\ state[p] = "none"
             /\ state' = [state EXCEPT ![p] = "open"]
             /\ UNCHANGED users

Enter(t, p) == /\ state[p] = "open"
               /\ users' = [users EXCEPT ![p] = @ \cup {t}]
               /\ UNCHANGED state

Leave(t, p) == /\ t \in users[p]
               /\ users' = [users EXCEPT ![p] = @ \ {t}]
               /\ UNCHANGED state

Destroy(p) == /\ state[p] = "open"
              /\ users[p] = {}
              /\ state' = [state EXCEPT ![p] = "gone"]
              /\ UNCHANGED users

Next == \E p \in Plugins :
          \/ Create(p)
          \/ Destroy(p)
          \/ \E t \in Threads : Enter(t, p) \/ Leave(t, p)

Spec == Init /\ [][Next]_vars
================================================================================
