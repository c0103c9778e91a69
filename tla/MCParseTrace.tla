----------------------------- MODULE MCParseTrace -----------------------------
(***************************************************************************)
(* Instances of ParseTrace for TLC.                                        *)
(***************************************************************************)
EXTENDS ParseTrace

\* Pids 2 and 12: the digits of 2 are found in 12, which does not start with them.
SomePids == {2, 12}
Two == {<<30, 2>>, <<40, 12>>}
SomeWithin == {<<p, p>> : p \in SomePids} \cup {<<2, 12>>}
SomePrefix == {<<p, p>> : p \in SomePids}
===============================================================================
