---------------------------- MODULE MCAskUserspace ----------------------------
(***************************************************************************)
(* Instances of AskUserspace for TLC.                                      *)
(***************************************************************************)
EXTENDS AskUserspace, TLC

CONSTANTS p1, p2, c0, c1

TwoPids == {p1, p2}
FirstPid == {p1}
TwoCpus == {c0, c1}
OneCpu == {c1}

\* Exploration stops where the scheduler exits or the daemon is told to.
Serving == scx = "on" /\ exit_req = 0

\* Pids that are all known are interchangeable; CPU 0 is not like the others.
PidSymmetry == Permutations(TwoPids)
===============================================================================
