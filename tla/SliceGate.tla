------------------------------ MODULE SliceGate ------------------------------
(***************************************************************************)
(* What the ask_userspace scheduler promises each task of SCHED_EXT, seen  *)
(* from outside: a task that enters is withheld, at some point it is given *)
(* a slice, and the scheduler puts it on the shared queue, from which CPUs *)
(* take their work, only while it has one.  When the scheduler exits, the  *)
(* kernel takes the tasks over and the promise ends.                       *)
(***************************************************************************)
CONSTANT Pids

VARIABLES
    gate,    \* "off" (not managed), "withheld", or "granted"
    placed,  \* whether the task is on the shared queue
    active   \* whether the scheduler is in charge

vars == <<gate, placed, active>>

TypeOK ==
    /\ gate \in [Pids -> {"off", "withheld", "granted"}]
    /\ placed \in [Pids -> BOOLEAN]
    /\ active \in BOOLEAN

Init ==
    /\ gate = [p \in Pids |-> "off"]
    /\ placed = [p \in Pids |-> FALSE]
    /\ active = TRUE

Enter(p) ==
    /\ gate[p] = "off"
    /\ gate' = [gate EXCEPT ![p] = "withheld"]
    /\ UNCHANGED <<placed, active>>

Grant(p) ==
    /\ gate[p] = "withheld"
    /\ gate' = [gate EXCEPT ![p] = "granted"]
    /\ UNCHANGED <<placed, active>>

\* The tasks of Q are queued together.
Place(Q) ==
    /\ \A p \in Q : gate[p] = "granted"
    /\ placed' = [p \in Pids |-> placed[p] \/ p \in Q]
    /\ UNCHANGED <<gate, active>>

Take(p) ==
    /\ placed[p]
    /\ placed' = [placed EXCEPT ![p] = FALSE]
    /\ UNCHANGED <<gate, active>>

Leave(p) ==
    /\ gate' = [gate EXCEPT ![p] = "off"]
    /\ placed' = [placed EXCEPT ![p] = FALSE]
    /\ UNCHANGED active

Stop ==
    /\ active' = FALSE
    /\ UNCHANGED <<gate, placed>>

Next ==
    /\ active
    /\ \/ \E p \in Pids : Enter(p) \/ Grant(p) \/ Take(p) \/ Leave(p)
       \/ \E Q \in SUBSET Pids : Place(Q)
       \/ Stop

Spec == Init /\ [][Next]_vars
==============================================================================
