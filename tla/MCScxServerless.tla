--------------------------- MODULE MCScxServerless ---------------------------
(***************************************************************************)
(* Instances of ScxServerless for TLC.                                     *)
(***************************************************************************)
EXTENDS ScxServerless, TLC

CONSTANTS t1, t2, loader, c0, c1, c2

TwoTasks == {t1, t2}
TaskAndLoader == {t1, loader}
OneShort == {t1}
WithCpu0 == {c0, c1}
TwoCpus == {c1, c2}

\* The executor starts functions with "taskset -c 1-...", away from CPU 0.
WorkloadOnly == [t \in Tasks |-> Cpus \ {Cpu0}]
LoaderAnywhere == [t \in Tasks |-> IF t = Loader THEN Cpus ELSE Cpus \ {Cpu0}]

LoaderReturns == [t \in Tasks |-> IF t = Loader THEN 2 ELSE 1]
SecondReturns == [t \in Tasks |-> IF t = t2 THEN 2 ELSE 1]

\* CPUs other than CPU 0 do not differ.
CpuSymmetry == Permutations(TwoCpus)

\* Exploration stops where the loader is told to exit; until it is in its loop
\* nothing runs.
Serving ==
    /\ exit_req = 0
    /\ lpc = "enter" => \A t \in Tasks : where[t] = "out"
===============================================================================
