----------------------------- MODULE Invocations -----------------------------
(***************************************************************************)
(* What the workload executor promises, seen from outside: the entries of  *)
(* the workload are issued in order, each is launched at most once after   *)
(* it was issued, and the result of each is collected at most once after   *)
(* it was launched.  Launches and collections are counted, so that a       *)
(* second one is a step that the specification does not have.              *)
(***************************************************************************)
EXTENDS Naturals

CONSTANT N   \* number of entries in the workload

VARIABLES
    issued,     \* how many entries have been issued
    launched,   \* how often the process of each entry was started
    collected   \* how often its result was collected

vars == <<issued, launched, collected>>

Init ==
    /\ issued = 0
    /\ launched = [i \in 1..N |-> 0]
    /\ collected = [i \in 1..N |-> 0]

Issue ==
    /\ issued < N
    /\ issued' = issued + 1
    /\ UNCHANGED <<launched, collected>>

Launch(i) ==
    /\ i <= issued /\ launched[i] = 0
    /\ launched' = [launched EXCEPT ![i] = @ + 1]
    /\ UNCHANGED <<issued, collected>>

Collect(i) ==
    /\ launched[i] > 0 /\ collected[i] = 0
    /\ collected' = [collected EXCEPT ![i] = @ + 1]
    /\ UNCHANGED <<issued, launched>>

Next == Issue \/ \E i \in 1..N : Launch(i) \/ Collect(i)

Spec == Init /\ [][Next]_vars
==============================================================================
