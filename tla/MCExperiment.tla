----------------------------- MODULE MCExperiment -----------------------------
(* Instances of Experiment for TLC. *)
EXTENDS Experiment

Durations == <<2, 5>>

\* Three functions, one of them too long; the second table has another one.
Dur == {[fn |-> "f", avg |-> 2], [fn |-> "g", avg |-> 3],
        [fn |-> "h", avg |-> 7], [fn |-> "long", avg |-> 9]}
Row(fn, first, second) == [fn |-> fn, occ |-> <<first, second>>]

\* Invocations in both minutes, in the second only, a single one, too few.
Mixed == [dur |-> Dur, inv |-> {Row("f", 5, 3), Row("g", 1, 1), Row("h", 2, 1),
                                Row("long", 2, 2), Row("other", 2, 2)}]
Second == [dur |-> Dur, inv |-> {Row("f", 0, 2), Row("g", 1, 2)}]
Single == [dur |-> Dur, inv |-> {Row("g", 1, 1), Row("h", 1, 0)}]
Few == [dur |-> Dur, inv |-> {Row("f", 1, 1), Row("h", 1, 0)}]

AllTraces == {Mixed, Second, Single, Few}
OneTrace == {Mixed}
===============================================================================
