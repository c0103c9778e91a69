---------------------------- MODULE MCExecWorkload ----------------------------
(***************************************************************************)
(* Instances of ExecWorkload for TLC.                                      *)
(***************************************************************************)
EXTENDS ExecWorkload

CONSTANTS l1, l2, l3

ThreeLaunchers == {l1, l2, l3}
===============================================================================
