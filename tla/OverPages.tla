----------------------------- MODULE OverPages ------------------------------
(***************************************************************************)
(* What over_pages (site.cpp) promises the build, whatever pool is under   *)
(* it: every page's task is started at most once; the call returns success *)
(* only when every task was started and none failed, and an error that one *)
(* of them really gave otherwise; and once it has returned no task of this *)
(* call is started or fails any more, so the build may read the pages      *)
(* without a lock.                                                         *)
(***************************************************************************)
EXTENDS Integers

CONSTANTS Pages, Success, Running
VARIABLES todo, broken, result

promised == <<todo, broken, result>>

Init == todo = Pages /\ broken = {} /\ result = Running

Begin(p) ==
    /\ result = Running /\ p \in todo
    /\ todo' = todo \ {p}
    /\ UNCHANGED <<broken, result>>

Break(p) ==
    /\ result = Running /\ p \notin todo
    /\ broken' = broken \cup {p}
    /\ UNCHANGED <<todo, result>>

Succeed ==
    /\ result = Running /\ todo = {} /\ broken = {}
    /\ result' = Success
    /\ UNCHANGED <<todo, broken>>

GiveUp(p) ==
    /\ result = Running /\ p \in broken
    /\ result' = p
    /\ UNCHANGED <<todo, broken>>

Next == Succeed \/ \E p \in Pages : Begin(p) \/ Break(p) \/ GiveUp(p)

Safety == Init /\ [][Next]_promised

(* The call ends: as long as it has not, there is a task left to start, one *)
(* that can fail, or a result to give.                                      *)
Spec == Safety /\ WF_promised(Next)
==============================================================================
