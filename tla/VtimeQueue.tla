------------------------------ MODULE VtimeQueue ------------------------------
(***************************************************************************)
(* What the kernel variant promises the tasks that wait for a CPU, seen    *)
(* from outside: a CPU that looks for work takes the task of least vtime   *)
(* among those that have been waiting since it began to look, so that no   *)
(* task is taken twice and none overtakes another but by its vtime; and it *)
(* comes away without work only when none of them is left.                 *)
(***************************************************************************)
EXTENDS Naturals

CONSTANTS Tasks, Cpus, Cpu0

VARIABLES
    waiting,   \* the tasks that wait
    vtime,     \* the vtime of each, 0 for those that do not wait
    looking,   \* the CPUs that look for work
    since      \* what has been waiting since each of them began to look

vars == <<waiting, vtime, looking, since>>

Nothing == [c \in Cpus |-> {}]
NoVtime == [t \in Tasks |-> 0]

Init == waiting = {} /\ vtime = NoVtime /\ looking = {} /\ since = Nothing

\* With any vtime.
Arrive(t) ==
    /\ t \notin waiting
    /\ waiting' = waiting \cup {t}
    /\ vtime'[t] \in Nat
    /\ vtime' = [vtime EXCEPT ![t] = vtime'[t]]
    /\ UNCHANGED <<looking, since>>

\* CPU 0 does not look for work.
Look(c) ==
    /\ c \notin looking /\ c # Cpu0
    /\ looking' = looking \cup {c}
    /\ since' = [since EXCEPT ![c] = waiting]
    /\ UNCHANGED <<waiting, vtime>>

Take(c, t) ==
    /\ c \in looking /\ t \in since[c]
    /\ \A u \in since[c] : vtime[t] <= vtime[u]
    /\ waiting' = waiting \ {t}
    /\ vtime' = [vtime EXCEPT ![t] = 0]
    /\ looking' = looking \ {c}
    /\ since' = [d \in Cpus |-> IF d = c THEN {} ELSE since[d] \ {t}]

GiveUp(c) ==
    /\ c \in looking /\ since[c] = {}
    /\ looking' = looking \ {c}
    /\ UNCHANGED <<waiting, vtime, since>>

\* The scheduler is detached, and the kernel takes the tasks over.
Stop ==
    /\ waiting' = {} /\ vtime' = NoVtime
    /\ looking' = {} /\ since' = Nothing

Next ==
    \/ \E t \in Tasks : Arrive(t)
    \/ \E c \in Cpus : Look(c) \/ GiveUp(c) \/ \E t \in Tasks : Take(c, t)
    \/ Stop

Spec == Init /\ [][Next]_vars
===============================================================================
