----------------------------- MODULE GenWorkload -----------------------------
(***************************************************************************)
(* gen_workload.py: how the invocations per function and minute of a trace *)
(* become the list of gaps and arguments the executor replays.  A trace is *)
(* a record of two sets of rows, dur and inv; arguments are the numbers of *)
(* their buckets (fib 24 is 1) and times are in units of which a minute    *)
(* has MinuteLen.                                                          *)
(***************************************************************************)
EXTENDS Integers, FiniteSets, Sequences, FiniteSetsExt

CONSTANTS
    dur_list,    \* the calibrated duration of each argument, increasing
    MaxAverage,  \* functions this long or longer are left out
    downscale,
    MinuteLen

Args == DOMAIN dur_list
Minutes == {0, 1}

ASSUME GenAssumption ==
    /\ dur_list \in Seq(Nat) /\ dur_list # <<>>
    /\ \A i, j \in Args : i < j => dur_list[i] < dur_list[j]
    /\ {MaxAverage, downscale, MinuteLen} \subseteq Nat \ {0}

\* The inner join of both tables, without durations out of range.
Merged(tr) ==
    {row \in tr.dur \X tr.inv :
        /\ row[1].fn = row[2].fn
        /\ row[1].avg > 0 /\ row[1].avg < MaxAverage}

\* How many invocations a set of rows has in a minute.
InvocationsOf(row, minute) == 1..row[2].occ[minute + 1]
Occurrences(rows, minute) ==
    Cardinality(UNION {{row} \X InvocationsOf(row, minute) : row \in rows})

\* The argument of a duration: the first that is long enough, or the last.
BucketOfBelow(a) ==
    Min({i \in Args : a < dur_list[i]} \cup {Len(dur_list)})
BucketOf(a) ==
    Min({i \in Args : a <= dur_list[i]} \cup {Len(dur_list)})

bucket(tr, arg, minute) ==
    Occurrences({row \in Merged(tr) : BucketOf(row[1].avg) = arg}, minute)

\* Each argument is spread evenly over the minute.
occur_time(tr) ==
    UNION {LET count == bucket(tr, arg, minute) IN
           {<<minute * MinuteLen + (n * MinuteLen * downscale) \div count, arg>> :
                n \in 0..(count \div downscale) - 1} :
           arg \in Args, minute \in Minutes}

\* Sorted by time; the sort is stable, and the arguments of a minute came in
\* their order.
InArgOrder(x, y) == x[2] < y[2] \/ (x[2] = y[2] /\ x[1] < y[1])
InTimeOrder(x, y) == x[1] < y[1] \/ (x[1] = y[1] /\ x[2] < y[2])
sort_list(tr) ==
    LET items == occur_time(tr) IN
    [k \in 1..Cardinality(items) |->
        CHOOSE x \in items :
            Cardinality({y \in items : InTimeOrder(y, x)}) = k - 1]

\* time_list[0] + np.diff(time_list): a scalar added to every difference.
DiffAlone(times) ==
    [k \in 1..Len(times) - 1 |-> times[k + 1][1] - times[k][1]]
diff_list(times) ==
    [k \in 1..Len(times) - 1 |-> times[1][1] + times[k + 1][1] - times[k][1]]

\* zip stops with the shorter list, and the last argument is left over.
output_list(tr) ==
    LET sorted == sort_list(tr) IN
    [k \in 1..Len(sorted) - 1 |->
        [iat |-> diff_list(sorted)[k], arg |-> sorted[k][2]]]

\* Without a single invocation there is nothing to unpack, and it raises.
Raises(tr) == occur_time(tr) = {}

-------------------------------------------------------------------------------
(* compare_workload_to_azure.py counts both sides of the sampling. *)

\* The invocations of the two minutes, by the average duration.
df_2min(tr) ==
    LET rows == {row \in tr.dur \X tr.inv : row[1].fn = row[2].fn /\ row[1].avg > 0}
        Count(avg) == LET same == {row \in rows : row[1].avg = avg}
                      IN Occurrences(same, 0) + Occurrences(same, 1)
    IN {group \in {<<row[1].avg, Count(row[1].avg)>> : row \in rows} : group[2] > 0}

\* The entries of the workload, by their argument.
workload_counts(lines) ==
    [arg \in Args |-> Cardinality({k \in DOMAIN lines : lines[k].arg = arg})]
===============================================================================
