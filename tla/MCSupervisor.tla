---------------------------- MODULE MCSupervisor ----------------------------
(* An instance of Supervisor for TLC. *)
EXTENDS Supervisor

CONSTANTS c1, c2, park

\* A checklist of one item, which an operator and an event may run at once.
OneItem == {<<park>>}

\* Bounds: a directory that is broken at the start is repaired at most once,
\* and the second caller only runs the item.
Bounded == /\ files' # files => files = Broken
           /\ call'[c2] \in {NoCall} \cup RunCall

CallsSpec == Init /\ [][Next /\ Bounded]_vars /\ Fairness
=============================================================================
