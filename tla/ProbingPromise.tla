---------------------------- MODULE ProbingPromise ----------------------------
(***************************************************************************)
(* What probing a module promises to the caller (vst/Interface.h,          *)
(* IFactory::probe with a ProbeCallback): it asks for some plugins and     *)
(* tells of each of them, once, in any order, and then it is over.  Or it  *)
(* fails, with an exception, before it has asked for any.  While it asks   *)
(* for several, the host may be terminated.                                *)
(***************************************************************************)
EXTENDS Naturals, SequencesExt

CONSTANT Items
VARIABLES asked, told, end

Init == asked = {} /\ told = <<>> /\ end = "no"

Ask  == /\ asked = {} /\ end = "no"
        /\ \E items \in (SUBSET Items) \ {{}} : asked' = items
        /\ UNCHANGED <<told, end>>
Tell == /\ end = "no"
        /\ \E i \in asked \ ToSet(told) : told' = Append(told, i)
        /\ UNCHANGED <<asked, end>>
End  == /\ end = "no" /\ asked # {} /\ asked = ToSet(told)
        /\ end' = "over"
        /\ UNCHANGED <<asked, told>>
Fail == /\ end = "no" /\ asked = {}
        /\ end' = "failed"
        /\ UNCHANGED <<asked, told>>
Terminate == /\ end = "no" /\ \E i, j \in asked : i # j
             /\ end' = "terminated"
             /\ UNCHANGED <<asked, told>>

Next == Ask \/ Tell \/ End \/ Fail \/ Terminate
Spec == Init /\ [][Next]_<<asked, told, end>> /\ WF_<<asked, told, end>>(Next)
=============================================================================
