--------------------------- MODULE ExperimentProofs ---------------------------
(***************************************************************************)
(* Proofs about Experiment, for any traces, any number of workloads and    *)
(* runs, and any number of crashes and signals.                            *)
(***************************************************************************)
EXTENDS Experiment, FiniteSetTheorems, SequenceTheorems, NaturalsInduction,
        WellFoundedInduction, TLAPS

-------------------------------------------------------------------------------
(* The workload and its copies. *)

\* A test sets its handler after it cut the workload, and keeps it to its end.
Phases ==
  /\ pc = "idle" => ~test
  /\ pc \in {"cp", "head", "mv", "trap"} => test /\ ~trapped
  /\ test /\ ~trapped => pc \in {"cp", "head", "mv", "trap"}
  /\ trapped => test
  /\ pending => trapped

\* Before anything was generated there is no workload to save or to cut.
Blank ==
  /\ generated = NoFile => dur = NoFile /\ original = NoFile
  /\ test /\ pc # "cp" => generated # NoFile

\* The workload is cut to its first lines, and kept aside.
CutAside == original = generated /\ dur = HeadOf(generated)

\* Where the workload is while a test works on it ...
InTest ==
  test /\ (~cut \/ ~stale) =>
    /\ pc = "cp" => dur = generated
    /\ pc \in {"head", "mv"} => dur = generated /\ original = generated
    /\ pc = "trap" => CutAside
    /\ trapped => CutAside \/ (original = NoFile /\ dur = generated)
    /\ pc = "sync" /\ ~early => CutAside

\* ... and where it is otherwise.
NoTest ==
  ~test =>
    /\ ~cut => dur = generated /\ original = NoFile
    /\ ~stale => generated \in {dur, original}

\* What is executed is the copy in the home directory.
Running == sim # "off" => pc \in {"ftrace", "perf"} /\ lines = home

FilesInv == Phases /\ Blank /\ InTest /\ NoTest /\ Running

LEMMA InitFiles == Init => FilesInv
BY DEF Init, FilesInv, Phases, Blank, InTest, NoTest, Running, Off

\* The program executes what it read at its start, and does not leave itself.
LEMMA KeepsLines == SimStep => lines' = lines /\ (sim' = "off" <=> sim = "off")
BY DEF SimStep, StartSimulation, Pop, Put, Dispatched, EndSimulation,
       StopMonitoring, FilterSamples, WriteSamples, MonitorRuns, MonitorTest,
       MonitorAppend, Tick, mainVars

LEMMA StepFiles == FilesInv /\ [Next]_vars => FilesInv'
<1> SUFFICES ASSUME FilesInv, [Next]_vars PROVE FilesInv'
  OBVIOUS
<1> USE DEF FilesInv, Phases, Blank, InTest, NoTest, Running, CutAside, counts, ghosts, files
<1>1. ASSUME NEW tr \in Traces, Generate(tr)
      PROVE  FilesInv'
  BY <1>1, NoFileAssumption DEF Generate, simVars, mainVars
<1>2. ASSUME NEW t \in BOOLEAN, Begin(t)
      PROVE  FilesInv'
  BY <1>2 DEF Begin, simVars, mainVars
<1>3. CASE Copy
  BY <1>3 DEF Copy, At, End, Saved, simVars, mainVars
<1>4. CASE HeadLines
  BY <1>4 DEF HeadLines, At, Unmoved, simVars, mainVars
<1>5. CASE TestMove
  BY <1>5 DEF TestMove, At, Unmoved, simVars, mainVars
<1>6. CASE SetTrap
  BY <1>6 DEF SetTrap, At, Unmoved, simVars, mainVars
<1>7. CASE Sync
  BY <1>7 DEF Sync, At, simVars, mainVars
<1>8. CASE ChangeDir
  BY <1>8 DEF ChangeDir, At, Unmoved, simVars, mainVars
<1>9. CASE Measure
  BY <1>9 DEF Measure, At, Start, Input
<1>10. CASE Measured
  BY <1>10 DEF Measured, Leave
<1>11. CASE SyncBack
  BY <1>11 DEF SyncBack, At, End, Restore, simVars, mainVars
<1>12. CASE NotRunnable
  BY <1>12 DEF NotRunnable, At, End, Restore, simVars, mainVars
<1>13. CASE Fail
  BY <1>13 DEF Fail, End, Restore, Leave
<1>14. CASE Crash
  BY <1>14 DEF Crash, Leave
<1>15. CASE Signal
  BY <1>15 DEF Signal, simVars, mainVars
<1>16. CASE Handle
  BY <1>16 DEF Handle, Restore, simVars, mainVars
<1>17. CASE Execute
  BY <1>17, KeepsLines DEF Execute
<1>18. CASE Done \/ UNCHANGED vars
  BY <1>18 DEF Done, vars, simVars, mainVars
<1> QED
  BY <1>1, <1>2, <1>3, <1>4, <1>5, <1>6, <1>7, <1>8, <1>9, <1>10, <1>11, <1>12,
     <1>13, <1>14, <1>15, <1>16, <1>17, <1>18 DEF Next

\* The invariant of the files holds throughout.
LEMMA FilesAlways == Spec => []FilesInv
BY InitFiles, StepFiles, PTL DEF Spec

\* Whatever a test, a failing command, a crash or a signal of
\* run_experiment.sh does when, the generated workload is in one of both files.
THEOREM WorkloadNotLost == Spec => []WorkloadKept
<1>1. FilesInv => WorkloadKept
  BY DEF FilesInv, Phases, Blank, InTest, NoTest, CutAside, WorkloadKept
<1> QED
  BY <1>1, FilesAlways, PTL

\* restore_workload leaves the generated workload and no second one, however
\* the script ends after its handler is set.
THEOREM WorkloadRestored == Spec => []RestoredAtEnd
<1>1. FilesInv => RestoredAtEnd
  BY DEF FilesInv, Phases, NoTest, RestoredAtEnd
<1> QED
  BY <1>1, FilesAlways, PTL

-------------------------------------------------------------------------------
(* What is measured, and the files it is written to. *)

\* Once it is copied, the copy is what was asked for.
Copied ==
    pc \in {"cd", "ftrace", "perf", "back"} /\ ~cut /\ ~early => home = Asked

LEMMA CopiedStep == FilesInv /\ Copied /\ [Next]_vars => Copied'
<1> SUFFICES ASSUME FilesInv, Copied, [Next]_vars PROVE Copied'
  OBVIOUS
<1> USE DEF Copied, Asked, HeadOf, counts, ghosts, files
<1>1. ASSUME NEW tr \in Traces, Generate(tr)
      PROVE  Copied'
  BY <1>1 DEF Generate
<1>2. ASSUME NEW t \in BOOLEAN, Begin(t)
      PROVE  Copied'
  BY <1>2 DEF Begin
<1>3. CASE Copy \/ HeadLines \/ TestMove \/ SetTrap
  BY <1>3 DEF Copy, HeadLines, TestMove, SetTrap, At, End, Saved, Unmoved
<1>4. CASE Sync
  <2>1. ~cut /\ ~early => dur = Asked
    BY <1>4 DEF Sync, At, FilesInv, InTest, NoTest, CutAside
  <2> QED
    BY <1>4, <2>1 DEF Sync
<1>5. CASE ChangeDir \/ Measure
  BY <1>5 DEF ChangeDir, Measure, At, Unmoved
<1>6. CASE Measured
  BY <1>6 DEF Measured, FilesInv, Running
<1>7. CASE SyncBack \/ NotRunnable \/ Fail \/ Crash
  BY <1>7 DEF SyncBack, NotRunnable, Fail, Crash, End
<1>8. CASE Signal \/ Execute \/ Done \/ UNCHANGED vars
  BY <1>8 DEF Signal, Execute, Done, vars
<1>9. CASE Handle
  BY <1>9 DEF Handle
<1> QED
  BY <1>1, <1>2, <1>3, <1>4, <1>5, <1>6, <1>7, <1>8, <1>9 DEF Next

\* Both runs of run_experiment.sh execute what was asked for.
THEOREM AsAsked == Spec => []MeasuredAsAsked
<1>1. Init => Copied
  BY DEF Init, Copied
<1>2. FilesInv /\ Copied => MeasuredAsAsked
  BY DEF FilesInv, Running, Copied, MeasuredAsAsked
<1> QED
  BY <1>1, <1>2, CopiedStep, FilesAlways, PTL DEF Spec

\* From its copy on, an experiment finds its own lines in the files only.
OwnLogs ==
  /\ pc \in {"cd", "ftrace", "perf"} => gen_stats = <<>>
  /\ pc = "back" => gen_stats \in {<<>>, <<runs>>}
  /\ pc \in {"cd", "ftrace", "perf", "back"} => cpu_util \subseteq {runs}

LEMMA OwnLogsStep == FilesInv /\ OwnLogs /\ [Next]_vars => OwnLogs'
<1> SUFFICES ASSUME FilesInv, OwnLogs, [Next]_vars PROVE OwnLogs'
  OBVIOUS
<1> USE DEF OwnLogs, counts, logs
<1>1. ASSUME NEW tr \in Traces, Generate(tr)
      PROVE  OwnLogs'
  BY <1>1 DEF Generate
<1>2. ASSUME NEW t \in BOOLEAN, Begin(t)
      PROVE  OwnLogs'
  BY <1>2 DEF Begin
<1>3. CASE Copy \/ HeadLines \/ TestMove \/ SetTrap
  BY <1>3 DEF Copy, HeadLines, TestMove, SetTrap, At, End, Saved, Unmoved
<1>4. CASE Sync \/ ChangeDir
  BY <1>4 DEF Sync, SyncLogs, ChangeDir, At, Unmoved
<1>5. CASE Measure \/ Signal \/ Execute
  BY <1>5 DEF Measure, Signal, Execute
<1>6. CASE Measured
  <2>1. pc \in {"ftrace", "perf"} /\ gen_stats = <<>> /\ cpu_util \subseteq {runs}
    BY <1>6 DEF Measured, FilesInv, Running
  <2>2. gen_stats' \in {<<>>, <<runs>>} /\ (pc' = "perf" => gen_stats' = <<>>)
    BY <1>6, <2>1 DEF Measured
  <2>3. cpu_util' \subseteq {runs} /\ runs' = runs /\ pc' \in {"perf", "back"}
    BY <1>6, <2>1 DEF Measured
  <2> QED
    BY <2>2, <2>3
<1>7. CASE SyncBack \/ NotRunnable \/ Fail \/ Crash
  BY <1>7 DEF SyncBack, NotRunnable, Fail, Crash, End
<1>8. CASE Handle \/ Done \/ UNCHANGED vars
  BY <1>8 DEF Handle, Done, vars
<1> QED
  BY <1>1, <1>2, <1>3, <1>4, <1>5, <1>6, <1>7, <1>8 DEF Next

\* The files the runners append to hold nothing of another experiment.
THEOREM OwnLogsOnly == Spec => []LogsOfThisRun
<1>1. Init => OwnLogs
  BY DEF Init, OwnLogs
<1>2. OwnLogs => LogsOfThisRun
  BY DEF OwnLogs, LogsOfThisRun
<1> QED
  BY <1>1, <1>2, OwnLogsStep, FilesAlways, PTL DEF Spec

-------------------------------------------------------------------------------
(* Arithmetic. *)

\* Facts about \div and *.
LEMMA Quotient ==
  ASSUME NEW a \in Nat, NEW b \in Nat \ {0}
  PROVE  /\ a \div b \in Nat
         /\ (a \div b) * b <= a
OBVIOUS

LEMMA ProductLeq ==
  ASSUME NEW a \in Nat, NEW b \in Nat, NEW m \in Nat, a <= b
  PROVE  m * a <= m * b
OBVIOUS

LEMMA QuotientBound ==
  ASSUME NEW a \in Nat, NEW b \in Nat \ {0}, NEW m \in Nat, a <= m * b
  PROVE  a \div b <= m
<1>1. (a \div b) * b <= a /\ a \div b \in Nat
  BY Quotient
<1> DEFINE q == a \div b
<1>2. q \in Nat /\ q * b <= m * b
  BY <1>1
<1> HIDE DEF q
<1>3. q <= m
  <2> SUFFICES ASSUME q >= m + 1 PROVE FALSE
    BY <1>2
  <2>1. (m + 1) * b <= q * b
    BY <1>2, ProductLeq
  <2>2. (m + 1) * b = m * b + b
    OBVIOUS
  <2> QED
    BY <2>1, <2>2, <1>2
<1> QED
  BY <1>3 DEF q

\* Evenly spread over a minute, no invocation falls behind its end.
LEMMA Spread ==
  ASSUME NEW len \in Nat \ {0}, NEW d \in Nat \ {0}, NEW count \in Nat,
         NEW n \in 0..(count \div d) - 1
  PROVE  (n * len * d) \div count \in 0..len
<1>1. count \div d \in Nat /\ (count \div d) * d <= count
  BY Quotient
<1>2. n \in Nat /\ n + 1 <= count \div d
  BY <1>1
<1>3. count \in Nat \ {0}
  <2> SUFFICES ASSUME count = 0 PROVE FALSE
    OBVIOUS
  <2>1. 0 \div d = 0
    OBVIOUS
  <2> QED
    BY <1>2, <2>1
<1>4. n * d <= count
  <2>1. d * n <= d * (count \div d)
    BY <1>1, <1>2, ProductLeq
  <2>2. n * d \in Nat /\ n * d = d * n /\ d * (count \div d) = (count \div d) * d
    BY <1>1, <1>2
  <2> QED
    BY <1>1, <2>1, <2>2
<1>5. n * len * d = len * (n * d) /\ n * d \in Nat
  BY <1>2
<1>6. n * len * d \in Nat /\ n * len * d <= len * count
  BY <1>4, <1>5, ProductLeq
<1>7. (n * len * d) \div count \in Nat
  BY <1>3, <1>6, Quotient
<1>8. (n * len * d) \div count <= len
  BY <1>3, <1>6, QuotientBound
<1> QED
  BY <1>7, <1>8

\* What is left by a division is less than the divisor.
LEMMA Remainder ==
  ASSUME NEW a \in Nat, NEW b \in Nat \ {0}
  PROVE  a < (a \div b) * b + b
OBVIOUS

LEMMA QuotientBelow ==
  ASSUME NEW a \in Nat, NEW b \in Nat \ {0}, NEW m \in Nat, a < m * b
  PROVE  a \div b < m
<1> DEFINE q == a \div b
<1>1. q \in Nat /\ q * b <= a
  BY Quotient
<1> HIDE DEF q
<1>2. q < m
  <2> SUFFICES ASSUME m <= q PROVE FALSE
    BY <1>1
  <2>1. b * m <= b * q
    BY <1>1, ProductLeq
  <2>2. b * m = m * b /\ b * q = q * b
    BY <1>1
  <2> QED
    BY <1>1, <2>1, <2>2
<1> QED
  BY <1>2 DEF q

LEMMA QuotientGrows ==
  ASSUME NEW a \in Nat, NEW c \in Nat, NEW b \in Nat \ {0}, a + b <= c
  PROVE  a \div b < c \div b
<1> DEFINE q == a \div b
           r == c \div b
<1>1. q \in Nat /\ q * b <= a
  BY Quotient
<1>2. r \in Nat /\ c < r * b + b
  BY Quotient, Remainder
<1> HIDE DEF q, r
<1>3. q < r
  <2> SUFFICES ASSUME r <= q PROVE FALSE
    BY <1>1, <1>2
  <2>1. b * r <= b * q
    BY <1>1, <1>2, ProductLeq
  <2>2. b * r = r * b /\ b * q = q * b /\ b * r \in Nat
    BY <1>1, <1>2
  <2> QED
    BY <1>1, <1>2, <2>1, <2>2
<1> QED
  BY <1>3 DEF q, r

\* The invocations of an argument stay in their minute, and apart.
LEMMA SpreadWithin ==
  ASSUME NEW len \in Nat \ {0}, NEW d \in Nat \ {0}, NEW count \in Nat,
         NEW n \in 0..(count \div d) - 1
  PROVE  /\ count \in Nat \ {0}
         /\ n * len * d \in Nat
         /\ (n * len * d) \div count < len
<1> DEFINE q == count \div d
<1>1. q \in Nat /\ q * d <= count
  BY Quotient
<1>2. n \in Nat /\ n + 1 <= q
  BY <1>1
<1> HIDE DEF q
<1>3. d * (n + 1) <= d * q
  BY <1>1, <1>2, ProductLeq
<1>4. n * d + d <= count /\ n * d \in Nat
  <2>1. d * (n + 1) = n * d + d /\ d * q = q * d /\ n * d \in Nat
    BY <1>1, <1>2
  <2> QED
    BY <1>1, <1>3, <2>1
<1>5. count \in Nat \ {0}
  BY <1>4
<1>6. n * len * d = len * (n * d) /\ n * len * d \in Nat
  BY <1>2
<1>7. len * (n * d + d) <= len * count
  BY <1>4, ProductLeq
<1>8. len * (n * d + d) = len * (n * d) + len * d /\ len * d \in Nat \ {0}
      /\ len * count \in Nat
  BY <1>4
<1>9. n * len * d < len * count
  BY <1>6, <1>7, <1>8
<1> QED
  BY <1>5, <1>6, <1>9, QuotientBelow

LEMMA SpreadApart ==
  ASSUME NEW len \in Nat \ {0}, NEW d \in Nat \ {0}, NEW count \in Nat,
         count <= len * d,
         NEW n \in 0..(count \div d) - 1, NEW m \in 0..(count \div d) - 1, n < m
  PROVE  (n * len * d) \div count < (m * len * d) \div count
<1>1. count \in Nat \ {0} /\ n * len * d \in Nat /\ m * len * d \in Nat
  BY SpreadWithin
<1>2. n \in Nat /\ m \in Nat /\ n + 1 <= m /\ len * d \in Nat
  BY Quotient
<1>3. (len * d) * (n + 1) <= (len * d) * m
  BY <1>2, ProductLeq
<1>4. (len * d) * (n + 1) = n * len * d + len * d /\ (len * d) * m = m * len * d
  BY <1>2
<1>5. n * len * d + count <= m * len * d
  BY <1>1, <1>2, <1>3, <1>4
<1> QED
  BY <1>1, <1>5, QuotientGrows

\* The image of a finite set is finite.
LEMMA ImageIsFinite ==
  ASSUME NEW S, IsFiniteSet(S), NEW f
  PROVE  IsFiniteSet({f[x] : x \in S})
<1> DEFINE T == {f[x] : x \in S}
           g == [x \in S |-> f[x]]
<1>1. g \in Surjection(S, T)
  BY DEF Surjection
<1> QED
  BY <1>1, FS_Surjection

-------------------------------------------------------------------------------
(* The invocations of a trace. *)

Counted(tr) ==
  /\ IsFiniteSet(tr.dur) /\ IsFiniteSet(tr.inv)
  /\ \A row \in tr.inv, minute \in Minutes : row.occ[minute + 1] \in Nat

\* The invocations of some rows in a minute are finitely many.
Units(rows, minute) == UNION {{row} \X InvocationsOf(row, minute) : row \in rows}

LEMMA UnitsFinite ==
  ASSUME NEW tr, Counted(tr), NEW rows \in SUBSET (tr.dur \X tr.inv),
         NEW minute \in Minutes
  PROVE  /\ IsFiniteSet(Units(rows, minute))
         /\ Occurrences(rows, minute) \in Nat
         /\ Occurrences(rows, minute) = Cardinality(Units(rows, minute))
<1> DEFINE f == [row \in rows |-> {row} \X InvocationsOf(row, minute)]
           T == {f[row] : row \in rows}
<1>1. IsFiniteSet(rows)
  <2>1. IsFiniteSet(tr.dur \X tr.inv)
    BY FS_Product DEF Counted
  <2> QED
    BY <2>1, FS_Subset
<1> HIDE DEF f
<1>2. IsFiniteSet(T)
  BY <1>1, ImageIsFinite
<1> USE DEF f
<1>3. ASSUME NEW U \in T
      PROVE  IsFiniteSet(U)
  <2>1. PICK row \in rows : U = {row} \X InvocationsOf(row, minute)
    OBVIOUS
  <2>2. row[2] \in tr.inv
    OBVIOUS
  <2>3. IsFiniteSet(InvocationsOf(row, minute))
    BY <2>2, FS_Interval DEF InvocationsOf, Counted
  <2>4. IsFiniteSet({row})
    BY FS_Singleton
  <2> QED
    BY <2>1, <2>3, <2>4, FS_Product
<1>4. IsFiniteSet(UNION T)
  BY <1>2, <1>3, FS_UNION
<1>5. T = {{row} \X InvocationsOf(row, minute) : row \in rows}
  OBVIOUS
<1> QED
  BY <1>4, <1>5, FS_CardinalityType DEF Occurrences, Units

\* The number of invocations in a bucket is a natural number.
LEMMA BucketCounts ==
  ASSUME NEW tr, Counted(tr), NEW arg \in Args, NEW minute \in Minutes
  PROVE  bucket(tr, arg, minute) \in Nat
<1>1. {row \in Merged(tr) : BucketOf(row[1].avg) = arg} \in SUBSET (tr.dur \X tr.inv)
  BY DEF Merged
<1> QED
  BY <1>1, UnitsFinite DEF bucket

\* The invocations of a trace are finitely many, each with its time and argument.
LEMMA OccurTimes ==
  ASSUME NEW tr, Counted(tr)
  PROVE  /\ IsFiniteSet(occur_time(tr))
         /\ occur_time(tr) \subseteq Nat \X Args
<1>1. MinuteLen \in Nat \ {0} /\ downscale \in Nat \ {0} /\ dur_list \in Seq(Nat)
  BY GenAssumption
<1> DEFINE all == (0..MinuteLen + MinuteLen) \X Args
<1>2. ASSUME NEW arg \in Args, NEW minute \in Minutes,
             NEW n \in 0..(bucket(tr, arg, minute) \div downscale) - 1
      PROVE  <<minute * MinuteLen
               + (n * MinuteLen * downscale) \div bucket(tr, arg, minute), arg>> \in all
  <2>1. (n * MinuteLen * downscale) \div bucket(tr, arg, minute) \in 0..MinuteLen
    BY <1>1, BucketCounts, Spread
  <2>2. minute * MinuteLen \in {0, MinuteLen}
    BY <1>1 DEF Minutes
  <2> QED
    BY <1>1, <2>1, <2>2
<1> HIDE DEF all
<1>3. occur_time(tr) \subseteq all
  <2> SUFFICES ASSUME NEW x \in occur_time(tr) PROVE x \in all
    OBVIOUS
  <2>1. PICK arg \in Args, minute \in Minutes :
          \E n \in 0..(bucket(tr, arg, minute) \div downscale) - 1 :
            x = <<minute * MinuteLen
                  + (n * MinuteLen * downscale) \div bucket(tr, arg, minute), arg>>
    <3> DEFINE part(arg, minute) ==
                 LET count == bucket(tr, arg, minute) IN
                 {<<minute * MinuteLen + (n * MinuteLen * downscale) \div count, arg>> :
                    n \in 0..(count \div downscale) - 1}
    <3>1. occur_time(tr) = UNION {part(arg, minute) : arg \in Args, minute \in Minutes}
      BY DEF occur_time
    <3> HIDE DEF part
    <3>2. PICK U \in {part(arg, minute) : arg \in Args, minute \in Minutes} : x \in U
      BY <3>1
    <3>3. PICK arg \in Args, minute \in Minutes : U = part(arg, minute)
      BY <3>2
    <3>4. x \in part(arg, minute)
      BY <3>2, <3>3
    <3> QED
      BY <3>4 DEF part
  <2> QED
    BY <1>2, <2>1, Zenon
<1> USE DEF all
<1>4. IsFiniteSet(all)
  <2>1. IsFiniteSet(0..MinuteLen + MinuteLen)
    BY <1>1, FS_Interval
  <2>2. Args = 1..Len(dur_list) /\ Len(dur_list) \in Nat
    BY <1>1 DEF Args
  <2>3. IsFiniteSet(Args)
    BY <2>2, FS_Interval
  <2> QED
    BY <2>1, <2>3, FS_Product
<1>5. all \subseteq Nat \X Args
  BY <1>1
<1> QED
  BY <1>3, <1>4, <1>5, FS_Subset

-------------------------------------------------------------------------------
(* The order they are sorted in. *)

Before(S, x) == {y \in S : InTimeOrder(y, x)}

\* An element has fewer elements before it than a later one.
LEMMA RankGrows ==
  ASSUME NEW S \in SUBSET (Nat \X Nat), IsFiniteSet(S),
         NEW x \in S, NEW y \in S, InTimeOrder(x, y)
  PROVE  /\ Cardinality(Before(S, x)) \in Nat
         /\ Cardinality(Before(S, y)) \in Nat
         /\ Cardinality(Before(S, x)) < Cardinality(Before(S, y))
<1>1. IsFiniteSet(Before(S, x)) /\ IsFiniteSet(Before(S, y))
  BY FS_Subset DEF Before
<1>2. Before(S, x) \subseteq Before(S, y)
  <2> SUFFICES ASSUME NEW z \in S, InTimeOrder(z, x) PROVE InTimeOrder(z, y)
    BY DEF Before
  <2> QED
    BY DEF InTimeOrder
<1>3. x \in Before(S, y) /\ x \notin Before(S, x)
  BY DEF Before, InTimeOrder
<1>4. Cardinality(Before(S, x)) # Cardinality(Before(S, y))
  BY <1>1, <1>2, <1>3, FS_Subset
<1> QED
  BY <1>1, <1>2, <1>4, FS_Subset, FS_CardinalityType

\* Invocations that differ are ordered.
LEMMA TimeOrderTotal ==
  ASSUME NEW x \in Nat \X Nat, NEW y \in Nat \X Nat, x # y
  PROVE  InTimeOrder(x, y) \/ InTimeOrder(y, x)
<1>1. x[1] # y[1] \/ x[2] # y[2]
  OBVIOUS
<1>2. x[1] \in Nat /\ x[2] \in Nat /\ y[1] \in Nat /\ y[2] \in Nat
  OBVIOUS
<1> QED
  BY <1>1, <1>2 DEF InTimeOrder

\* Every place in the order is taken by an element.
LEMMA Ranks ==
  ASSUME NEW S \in SUBSET (Nat \X Nat), IsFiniteSet(S),
         NEW k \in 1..Cardinality(S)
  PROVE  \E x \in S : Cardinality(Before(S, x)) = k - 1
<1> DEFINE n == Cardinality(S)
           rank == [x \in S |-> Cardinality(Before(S, x))]
<1>1. n \in Nat
  BY FS_CardinalityType
<1>2. ASSUME NEW x \in S PROVE rank[x] \in 0..n - 1
  <2>1. Before(S, x) \in SUBSET S /\ x \notin Before(S, x)
    BY DEF Before, InTimeOrder
  <2>2. IsFiniteSet(Before(S, x)) /\ Cardinality(Before(S, x)) <= n
        /\ Cardinality(Before(S, x)) # n
    BY <2>1, FS_Subset
  <2> QED
    BY <1>1, <2>2, FS_CardinalityType
<1>3. ASSUME NEW x \in S, NEW y \in S, rank[x] = rank[y] PROVE x = y
  <2> SUFFICES ASSUME x # y PROVE FALSE
    OBVIOUS
  <2>1. InTimeOrder(x, y) \/ InTimeOrder(y, x)
    BY TimeOrderTotal
  <2> QED
    BY <1>3, <2>1, RankGrows
<1>4. rank \in Injection(S, 0..n - 1)
  <2>1. rank \in [S -> 0..n - 1]
    BY <1>2
  <2> HIDE DEF rank
  <2> QED
    BY <1>3, <2>1 DEF Injection, IsInjective
<1>5. IsFiniteSet(0..n - 1) /\ Cardinality(0..n - 1) = n
  <2>1. 0 \in Int /\ n - 1 \in Int
    BY <1>1
  <2> HIDE DEF n
  <2>2. IsFiniteSet(0..n - 1)
        /\ Cardinality(0..n - 1) = IF 0 > n - 1 THEN 0 ELSE (n - 1) - 0 + 1
    BY <2>1, FS_Interval
  <2> QED
    BY <1>1, <2>2
<1>6. rank \in Surjection(S, 0..n - 1)
  BY <1>4, <1>5, FS_Injection
<1>7. k - 1 \in 0..n - 1
  BY <1>1
<1>8. \E x \in S : rank[x] = k - 1
  BY <1>6, <1>7 DEF Surjection
<1> QED
  BY <1>8

-------------------------------------------------------------------------------
\* Each of the sorted invocations is at its place.
LEMMA Sorted ==
  ASSUME NEW tr, Counted(tr)
  PROVE  /\ sort_list(tr) \in Seq(Nat \X Args)
         /\ Len(sort_list(tr)) = Cardinality(occur_time(tr))
         /\ \A k \in 1..Len(sort_list(tr)) :
              /\ sort_list(tr)[k] \in occur_time(tr)
              /\ Cardinality(Before(occur_time(tr), sort_list(tr)[k])) = k - 1
<1> DEFINE S == occur_time(tr)
           n == Cardinality(S)
<1>1. IsFiniteSet(S) /\ S \subseteq Nat \X Args /\ S \subseteq Nat \X Nat
  <2>1. Args \subseteq Nat
    BY GenAssumption DEF Args
  <2>2. Nat \X Args \subseteq Nat \X Nat
    BY <2>1
  <2>3. IsFiniteSet(S) /\ S \subseteq Nat \X Args
    BY OccurTimes
  <2> HIDE DEF S
  <2> QED
    BY <2>2, <2>3
<1>2. n \in Nat
  BY <1>1, FS_CardinalityType
<1>3. sort_list(tr) = [k \in 1..n |-> CHOOSE x \in S : Cardinality(Before(S, x)) = k - 1]
  BY Zenon DEF sort_list, Before
<1> HIDE DEF n, S
<1>4. ASSUME NEW k \in 1..n
      PROVE  /\ sort_list(tr)[k] \in S
             /\ Cardinality(Before(S, sort_list(tr)[k])) = k - 1
  <2>1. \E x \in S : Cardinality(Before(S, x)) = k - 1
    BY <1>1, Ranks DEF n
  <2>2. sort_list(tr)[k] = CHOOSE x \in S : Cardinality(Before(S, x)) = k - 1
    BY <1>3
  <2> QED
    BY <2>1, <2>2
<1>5. \A k \in 1..n : sort_list(tr)[k] \in Nat \X Args
  BY <1>1, <1>4
<1>6. sort_list(tr) \in [1..n -> Nat \X Args]
  BY <1>3, <1>5
<1>7. sort_list(tr) \in Seq(Nat \X Args) /\ Len(sort_list(tr)) = n
  BY <1>2, <1>6, SeqDef, LenProperties
<1> QED
  BY <1>4, <1>7 DEF n, S

\* Their times do not decrease.
LEMMA SortedTimes ==
  ASSUME NEW tr, Counted(tr), NEW k \in 1..Len(sort_list(tr)) - 1
  PROVE  sort_list(tr)[k][1] <= sort_list(tr)[k + 1][1]
<1> DEFINE S == occur_time(tr)
           x == sort_list(tr)[k]
           y == sort_list(tr)[k + 1]
<1>1. Len(sort_list(tr)) \in Nat
  BY Sorted, LenProperties
<1>2. k \in 1..Len(sort_list(tr)) /\ k + 1 \in 1..Len(sort_list(tr)) /\ k \in Nat
  BY <1>1
<1>3. x \in S /\ Cardinality(Before(S, x)) = k - 1
  BY <1>2, Sorted
<1>4. y \in S /\ Cardinality(Before(S, y)) = k
  BY <1>2, Sorted
<1>5. IsFiniteSet(S) /\ S \in SUBSET (Nat \X Nat)
  <2>1. Args \subseteq Nat
    BY GenAssumption DEF Args
  <2>2. Nat \X Args \subseteq Nat \X Nat
    BY <2>1
  <2>3. IsFiniteSet(S) /\ S \subseteq Nat \X Args
    BY OccurTimes
  <2> HIDE DEF S
  <2> QED
    BY <2>2, <2>3
<1> HIDE DEF S, x, y
<1>6. x # y
  BY <1>2, <1>3, <1>4
<1>7. InTimeOrder(x, y) \/ InTimeOrder(y, x)
  BY <1>3, <1>4, <1>5, <1>6, TimeOrderTotal
<1>8. ~InTimeOrder(y, x)
  <2> SUFFICES ASSUME InTimeOrder(y, x) PROVE FALSE
    OBVIOUS
  <2>1. Cardinality(Before(S, y)) < Cardinality(Before(S, x))
    BY <1>3, <1>4, <1>5, RankGrows
  <2> QED
    BY <1>2, <1>3, <1>4, <2>1
<1>9. x[1] \in Nat /\ y[1] \in Nat
  BY <1>3, <1>4, <1>5
<1>10. x[1] <= y[1]
  BY <1>7, <1>8, <1>9 DEF InTimeOrder
<1> QED
  BY <1>10 DEF x, y

\* An entry of a workload.
Entry == [iat : Nat, arg : Args]

\* The workload is a sequence of entries, with the gaps that gen_workload.py
\* writes.
LEMMA OutputList ==
  ASSUME NEW tr, Counted(tr), ~Raises(tr)
  PROVE  /\ output_list(tr) \in Seq(Entry)
         /\ Len(output_list(tr)) = Len(sort_list(tr)) - 1
         /\ \A k \in 1..Len(output_list(tr)) :
              output_list(tr)[k].iat
                = sort_list(tr)[1][1] + sort_list(tr)[k + 1][1] - sort_list(tr)[k][1]
<1> DEFINE s == sort_list(tr)
           n == Len(s) - 1
<1>1. s \in Seq(Nat \X Args) /\ Len(s) = Cardinality(occur_time(tr))
  BY Sorted
<1>2. Len(s) \in Nat \ {0}
  <2>1. IsFiniteSet(occur_time(tr)) /\ occur_time(tr) # {}
    BY OccurTimes DEF Raises
  <2>2. Cardinality(occur_time(tr)) \in Nat /\ Cardinality(occur_time(tr)) # 0
    BY <2>1, FS_CardinalityType, FS_EmptySet
  <2> QED
    BY <1>1, <2>2
<1>3. n \in Nat
  BY <1>2
<1>4. output_list(tr) = [k \in 1..n |-> [iat |-> diff_list(s)[k], arg |-> s[k][2]]]
  BY DEF output_list
<1>5. diff_list(s) = [k \in 1..n |-> s[1][1] + s[k + 1][1] - s[k][1]]
  BY DEF diff_list
<1>6. \A k \in 1..n : s[k][1] <= s[k + 1][1]
  BY SortedTimes
<1> HIDE DEF s
<1>7. ASSUME NEW k \in 1..n
      PROVE  /\ diff_list(s)[k] = s[1][1] + s[k + 1][1] - s[k][1]
             /\ diff_list(s)[k] \in Nat
             /\ s[k][2] \in Args
  <2>1. diff_list(s)[k] = s[1][1] + s[k + 1][1] - s[k][1]
    BY <1>5
  <2>2. 1 \in 1..Len(s) /\ k \in 1..Len(s) /\ k + 1 \in 1..Len(s)
    BY <1>2
  <2>3. s[1] \in Nat \X Args /\ s[k] \in Nat \X Args /\ s[k + 1] \in Nat \X Args
    BY <1>1, <2>2, ElementOfSeq
  <2>4. s[1][1] \in Nat /\ s[k][1] \in Nat /\ s[k + 1][1] \in Nat /\ s[k][2] \in Args
    BY <2>3
  <2>5. s[k][1] <= s[k + 1][1]
    BY <1>6
  <2> QED
    BY <2>1, <2>4, <2>5
<1> HIDE DEF n
<1>8. output_list(tr) \in [1..n -> Entry]
  BY <1>4, <1>7 DEF Entry
<1>9. output_list(tr) \in Seq(Entry) /\ Len(output_list(tr)) = n
  BY <1>3, <1>8, SeqDef, LenProperties
<1>10. \A k \in 1..n : output_list(tr)[k].iat = s[1][1] + s[k + 1][1] - s[k][1]
  BY <1>4, <1>7
<1> QED
  BY <1>9, <1>10 DEF n, s

-------------------------------------------------------------------------------
(* The sums of the gaps. *)

\* A set of naturals that is not empty has a least element.
LEMMA LeastElement ==
  ASSUME NEW T \in SUBSET Nat, T # {}
  PROVE  \E n \in T : \A m \in T : n <= m
<1>1. PICK n \in T : \A m \in T : <<m, n>> \notin OpToRel(<, Nat)
  BY NatLessThanWellFounded, WFMin
<1>2. \A m \in T : ~(m < n)
  BY <1>1 DEF OpToRel
<1> QED
  BY <1>2

\* g holds the sums of the gaps of the first m entries.
SumsTo(g, file, m) ==
  /\ g \in [0..m -> Nat]
  /\ g[0] = 0
  /\ \A k \in 1..m : g[k] = g[k - 1] + file[k].iat

\* They can be extended by an entry, and so ...
LEMMA SumsExtend ==
  ASSUME NEW file \in Seq(Entry), NEW m \in 1..Len(file),
         NEW g, SumsTo(g, file, m - 1)
  PROVE  \E h : SumsTo(h, file, m)
<1> DEFINE next == g[m - 1] + file[m].iat
           h == [k \in 0..m |-> IF k = m THEN next ELSE g[k]]
<1>1. m \in Nat /\ m >= 1 /\ m - 1 \in 0..(m - 1) /\ m - 1 \in Nat
  BY LenProperties
<1>2. file[m].iat \in Nat
  <2>1. file[m] \in Entry
    BY ElementOfSeq
  <2> QED
    BY <2>1 DEF Entry
<1>3. \A k \in 0..(m - 1) : g[k] \in Nat
  BY DEF SumsTo
<1>4. next \in Nat
  BY <1>1, <1>2, <1>3
<1> HIDE DEF next
<1>5. ASSUME NEW k \in 0..m PROVE h[k] \in Nat
  <2>1. k = m \/ k \in 0..(m - 1)
    BY <1>1
  <2> QED
    BY <1>3, <1>4, <2>1
<1>6. h \in [0..m -> Nat]
  BY <1>5
<1>7. h[0] = 0
  BY <1>1 DEF SumsTo
<1>8. ASSUME NEW k \in 1..m PROVE h[k] = h[k - 1] + file[k].iat
  <2>1. k - 1 \in 0..m /\ k - 1 # m /\ k \in 0..m
    BY <1>1
  <2>2. h[k - 1] = g[k - 1]
    BY <2>1
  <2>3. CASE k = m
    BY <2>1, <2>2, <2>3 DEF next
  <2>4. CASE k # m
    <3>1. k \in 1..(m - 1)
      BY <1>1, <2>4
    <3>2. g[k] = g[k - 1] + file[k].iat
      BY <3>1 DEF SumsTo
    <3>3. h[k] = g[k]
      BY <2>1, <2>4
    <3> QED
      BY <2>2, <3>2, <3>3
  <2> QED
    BY <2>3, <2>4
<1> HIDE DEF h
<1>9. SumsTo(h, file, m)
  BY <1>6, <1>7, <1>8 DEF SumsTo
<1> QED
  BY <1>9

\* ... exist for every workload.
LEMMA SumsExist ==
  ASSUME NEW file \in Seq(Entry)
  PROVE  \E g : SumsTo(g, file, Len(file))
<1> DEFINE T == {m \in 0..Len(file) : ~ \E g : SumsTo(g, file, m)}
<1>1. Len(file) \in Nat
  BY LenProperties
<1> SUFFICES ASSUME T # {} PROVE FALSE
  BY <1>1
<1>2. PICK m \in T : \A i \in T : m <= i
  <2>1. T \in SUBSET Nat
    BY <1>1
  <2> QED
    BY <2>1, LeastElement
<1>3. CASE m = 0
  <2> DEFINE g == [k \in 0..0 |-> 0]
  <2>1. SumsTo(g, file, 0)
    BY DEF SumsTo
  <2> QED
    BY <1>2, <1>3, <2>1
<1>4. CASE m # 0
  <2>1. m \in 1..Len(file) /\ m - 1 \in 0..Len(file) /\ ~(m <= m - 1)
    BY <1>1, <1>4
  <2>2. PICK g : SumsTo(g, file, m - 1)
    BY <1>2, <2>1
  <2>3. \E h : SumsTo(h, file, m)
    BY <2>1, <2>2, SumsExtend
  <2> QED
    BY <2>3
<1> QED
  BY <1>3, <1>4

\* Gaps adds up the gaps, one after the other.
LEMMA GapsAddUp ==
  ASSUME NEW file \in Seq(Entry)
  PROVE  SumsTo(Gaps(file), file, Len(file))
<1> DEFINE n == Len(file)
           Sums(g) == g = [k \in 0..n |-> IF k = 0 THEN 0 ELSE g[k - 1] + file[k].iat]
<1>1. n \in Nat
  BY LenProperties
<1>2. Gaps(file) = CHOOSE g : Sums(g)
  BY DEF Gaps
<1> HIDE DEF n
<1>3. ASSUME NEW g, SumsTo(g, file, n) PROVE Sums(g)
  <2>1. g \in [0..n -> Nat]
    BY <1>3 DEF SumsTo
  <2>2. ASSUME NEW k \in 0..n
        PROVE  g[k] = IF k = 0 THEN 0 ELSE g[k - 1] + file[k].iat
    <3>1. k = 0 \/ k \in 1..n
      BY <1>1
    <3> QED
      BY <1>3, <3>1 DEF SumsTo
  <2> QED
    BY <2>1, <2>2
<1>4. \E g : Sums(g)
  BY <1>3, SumsExist DEF n
<1> HIDE DEF Sums
<1>5. Sums(Gaps(file))
  BY <1>2, <1>4
<1>6. ASSUME NEW g, NEW h, Sums(g), SumsTo(h, file, n) PROVE SumsTo(g, file, n)
  <2>1. \A k \in 0..n : g[k] = IF k = 0 THEN 0 ELSE g[k - 1] + file[k].iat
    BY <1>6 DEF Sums
  <2>2. g[0] = 0 /\ \A k \in 1..n : g[k] = g[k - 1] + file[k].iat
    BY <1>1, <2>1
  <2>3. \A k \in 0..n : g[k] = h[k]
    <3> DEFINE T == {k \in 0..n : g[k] # h[k]}
    <3> SUFFICES ASSUME T # {} PROVE FALSE
      OBVIOUS
    <3>1. PICK k \in T : \A i \in T : k <= i
      <4>1. T \in SUBSET Nat
        OBVIOUS
      <4> QED
        BY <4>1, LeastElement
    <3>2. k # 0
      BY <1>6, <2>2 DEF SumsTo
    <3>3. k \in 1..n /\ k - 1 \in 0..n /\ ~(k <= k - 1)
      BY <1>1, <3>2
    <3>4. g[k - 1] = h[k - 1]
      BY <3>1, <3>3
    <3>5. g[k] = h[k]
      BY <1>6, <2>2, <3>3, <3>4 DEF SumsTo
    <3> QED
      BY <3>5
  <2>4. \A k \in 0..n : h[k] \in Nat
    BY <1>6 DEF SumsTo
  <2>5. DOMAIN g = 0..n /\ g = [k \in DOMAIN g |-> g[k]]
    BY <1>6 DEF Sums
  <2>6. g \in [0..n -> Nat]
    BY <2>3, <2>4, <2>5
  <2> QED
    BY <2>2, <2>6 DEF SumsTo
<1> QED
  BY <1>5, <1>6, SumsExist DEF n

-------------------------------------------------------------------------------
(* Typing. *)

IsFile(f) == f = NoFile \/ f \in Seq(Entry)

FileTypes ==
  /\ IsFile(dur) /\ IsFile(original) /\ IsFile(home) /\ IsFile(generated)
  /\ lines \in Seq(Entry)
  /\ pc \in {"head", "mv"} => dur # NoFile

\* The last workload that was generated is the one of its trace.
TraceKnown ==
  trace # NoFile =>
    trace \in Traces /\ ~Raises(trace) /\ generated = output_list(trace)

LEMMA HeadIsFile ==
  ASSUME NEW f \in Seq(Entry)
  PROVE  HeadOf(f) \in Seq(Entry)
<1>1. TestLines \in Nat /\ Len(f) \in Nat
  BY ExperimentAssumption, LenProperties
<1> DEFINE n == IF Len(f) < TestLines THEN Len(f) ELSE TestLines
<1>2. n \in Nat /\ n <= Len(f)
  BY <1>1
<1> HIDE DEF n
<1>3. SubSeq(f, 1, n) \in Seq(Entry)
  <2>1. \A k \in 1..n : k \in 1..Len(f)
    BY <1>1, <1>2
  <2>2. \A k \in 1..n : f[k] \in Entry
    BY <2>1, ElementOfSeq
  <2> QED
    BY <1>1, <1>2, <2>2, SubSeqProperties
<1> QED
  BY <1>3 DEF HeadOf, n

LEMMA GeneratedIsFile ==
  ASSUME NEW tr \in Traces, ~Raises(tr)
  PROVE  output_list(tr) \in Seq(Entry)
BY TracesAssumption, OutputList DEF Counted

LEMMA FileTypesStep == FilesInv /\ FileTypes /\ [Next]_vars => FileTypes'
<1> SUFFICES ASSUME FilesInv, FileTypes, [Next]_vars PROVE FileTypes'
  OBVIOUS
<1> USE DEF FileTypes, counts, ghosts, files
<1>0. IsFile(NoFile) /\ <<>> \in Seq(Entry)
  BY EmptySeq DEF IsFile
<1>1. ASSUME NEW tr \in Traces, Generate(tr)
      PROVE  FileTypes'
  <2>1. ~Raises(tr) => IsFile(output_list(tr))
    BY GeneratedIsFile DEF IsFile
  <2> QED
    BY <1>1, <2>1 DEF Generate, simVars, mainVars
<1>2. ASSUME NEW t \in BOOLEAN, Begin(t)
      PROVE  FileTypes'
  BY <1>2 DEF Begin, simVars, mainVars
<1>3. CASE Copy
  BY <1>3 DEF Copy, At, End, Saved, FilesInv, Phases, simVars, mainVars
<1>4. CASE HeadLines \/ SetTrap \/ ChangeDir
  BY <1>4 DEF HeadLines, SetTrap, ChangeDir, At, Unmoved, simVars, mainVars
<1>5. CASE TestMove
  <2>1. dur \in Seq(Entry)
    BY <1>5 DEF TestMove, At, IsFile
  <2>2. IsFile(HeadOf(dur))
    BY <2>1, HeadIsFile DEF IsFile
  <2> QED
    BY <1>5, <2>2 DEF TestMove, At, Unmoved, simVars, mainVars
<1>6. CASE Sync
  BY <1>6 DEF Sync, At, simVars, mainVars
<1>7. CASE Measure
  BY <1>7 DEF Measure, At, Start, Input, IsFile
<1>8. CASE Measured
  BY <1>0, <1>8 DEF Measured, Leave
<1>9. CASE SyncBack \/ NotRunnable
  BY <1>0, <1>9 DEF SyncBack, NotRunnable, At, End, Restore, simVars, mainVars
<1>10. CASE Fail \/ Crash
  BY <1>0, <1>10 DEF Fail, Crash, End, Restore, Leave
<1>11. CASE Signal \/ Handle
  BY <1>0, <1>11 DEF Signal, Handle, Restore, FilesInv, Phases, simVars, mainVars
<1>12. CASE Execute
  BY <1>12, KeepsLines DEF Execute
<1>13. CASE Done \/ UNCHANGED vars
  BY <1>13 DEF Done, vars, simVars, mainVars
<1> QED
  BY <1>1, <1>2, <1>3, <1>4, <1>5, <1>6, <1>7, <1>8, <1>9, <1>10, <1>11, <1>12,
     <1>13 DEF Next

LEMMA TraceKnownStep == TraceKnown /\ [Next]_vars => TraceKnown'
<1> SUFFICES ASSUME TraceKnown, [Next]_vars PROVE TraceKnown'
  OBVIOUS
<1>1. ASSUME NEW tr \in Traces, Generate(tr)
      PROVE  TraceKnown'
  BY <1>1 DEF Generate, TraceKnown
<1>2. ASSUME NEW t \in BOOLEAN, Begin(t)
      PROVE  TraceKnown'
  BY <1>2 DEF Begin, TraceKnown
<1>3. CASE Copy \/ HeadLines \/ TestMove \/ SetTrap \/ Sync \/ ChangeDir \/ Measure
           \/ Measured \/ SyncBack \/ NotRunnable \/ Fail \/ Crash \/ Signal
           \/ Handle \/ Execute \/ Done \/ UNCHANGED vars
  <2>1. trace' = trace /\ generated' = generated
    BY <1>3 DEF Copy, HeadLines, TestMove, SetTrap, Sync, ChangeDir, Measure,
                Measured, SyncBack, NotRunnable, Fail, Crash, Signal, Handle,
                Execute, Done, Unmoved, vars, ghosts
  <2> QED
    BY <2>1 DEF TraceKnown
<1> QED
  BY <1>1, <1>2, <1>3 DEF Next

ScriptTypes ==
  /\ pc \in {"idle", "cp", "head", "mv", "trap", "sync", "cd", "ftrace", "perf", "back"}
  /\ test \in BOOLEAN /\ trapped \in BOOLEAN /\ pending \in BOOLEAN
  /\ cut \in BOOLEAN /\ stale \in BOOLEAN /\ early \in BOOLEAN
  /\ cwd \in {"loadgen", "runners"}

LEMMA ScriptTypesStep == FilesInv /\ ScriptTypes /\ [Next]_vars => ScriptTypes'
<1> SUFFICES ASSUME FilesInv, ScriptTypes, [Next]_vars PROVE ScriptTypes'
  OBVIOUS
<1> USE DEF ScriptTypes, counts, ghosts
<1>1. ASSUME NEW tr \in Traces, Generate(tr)
      PROVE  ScriptTypes'
  BY <1>1 DEF Generate
<1>2. ASSUME NEW t \in BOOLEAN, Begin(t)
      PROVE  ScriptTypes'
  BY <1>2 DEF Begin
<1>3. CASE Copy \/ SyncBack \/ NotRunnable \/ Fail
  BY <1>3 DEF Copy, SyncBack, NotRunnable, Fail, End
<1>4. CASE HeadLines \/ TestMove \/ SetTrap \/ ChangeDir
  BY <1>4 DEF HeadLines, TestMove, SetTrap, ChangeDir, Unmoved
<1>5. CASE Sync \/ Measure \/ Measured \/ Execute
  BY <1>5 DEF Sync, Measure, Measured, Execute
<1>6. CASE Crash \/ Signal \/ Handle
  BY <1>6 DEF Crash, Signal, Handle
<1>7. CASE Done \/ UNCHANGED vars
  BY <1>7 DEF Done, vars
<1> QED
  BY <1>1, <1>2, <1>3, <1>4, <1>5, <1>6, <1>7 DEF Next

\* Runs are numbered, and the files name runs only.
LogTypes ==
  /\ runs \in 0..MaxRuns
  /\ pc # "idle" => runs # 0
  /\ gen_stats \in Seq(1..MaxRuns)
  /\ cpu_util \subseteq 1..MaxRuns

LEMMA LogTypesStep == FilesInv /\ LogTypes /\ [Next]_vars => LogTypes'
<1> SUFFICES ASSUME FilesInv, LogTypes, [Next]_vars PROVE LogTypes'
  OBVIOUS
<1>0. MaxRuns \in Nat
  BY ExperimentAssumption
<1>1. ASSUME NEW tr \in Traces, Generate(tr)
      PROVE  LogTypes'
  BY <1>1 DEF Generate, LogTypes, logs
<1>2. ASSUME NEW t \in BOOLEAN, Begin(t)
      PROVE  LogTypes'
  <2>1. runs' \in 1..MaxRuns
    BY <1>0, <1>2 DEF Begin, LogTypes
  <2>2. gen_stats' = gen_stats /\ cpu_util' = cpu_util
    BY <1>2 DEF Begin, logs
  <2> QED
    BY <2>1, <2>2 DEF LogTypes
<1>3. CASE Copy \/ HeadLines \/ TestMove \/ SetTrap \/ ChangeDir \/ Measure \/ SyncBack
           \/ NotRunnable \/ Fail \/ Crash \/ Signal \/ Handle \/ Execute
  <2>1. gen_stats' = gen_stats /\ cpu_util' = cpu_util /\ runs' = runs
    BY <1>3 DEF Copy, HeadLines, TestMove, SetTrap, ChangeDir, Measure, SyncBack,
                NotRunnable, Fail, Crash, Signal, Handle, Execute, Unmoved, logs, counts
  <2>2. pc' # "idle" => pc # "idle"
    BY <1>3 DEF Copy, HeadLines, TestMove, SetTrap, ChangeDir, Measure, SyncBack,
                NotRunnable, Fail, Crash, Signal, Handle, Execute, At, End
  <2> QED
    BY <2>1, <2>2 DEF LogTypes
<1>4. CASE Sync
  <2>1. <<>> \in Seq(1..MaxRuns)
    BY EmptySeq
  <2> QED
    BY <1>4, <2>1 DEF Sync, SyncLogs, At, LogTypes, counts
<1>5. CASE Measured
  <2>1. pc # "idle" /\ runs' = runs
    BY <1>5 DEF Measured, FilesInv, Running, counts
  <2>2. runs \in 1..MaxRuns
    BY <1>0, <2>1 DEF LogTypes
  <2>3. Append(gen_stats, runs) \in Seq(1..MaxRuns)
    BY <2>2, AppendProperties DEF LogTypes
  <2>4. gen_stats' \in Seq(1..MaxRuns)
    BY <1>5, <2>3 DEF Measured, LogTypes
  <2>5. cpu_util' \subseteq 1..MaxRuns
    BY <1>5, <2>2 DEF Measured, LogTypes
  <2> QED
    BY <2>1, <2>2, <2>4, <2>5 DEF LogTypes
<1>6. CASE Done \/ UNCHANGED vars
  BY <1>6 DEF Done, vars, LogTypes, logs, counts
<1> QED
  BY <1>1, <1>2, <1>3, <1>4, <1>5, <1>6 DEF Next

\* The sample that is taken was begun.
SimTypes ==
  /\ sim \in {"off", "load", "pop", "wait", "reap", "stop", "join", "write",
             "done"}
  /\ cpu_log \in BOOLEAN
  /\ now \in Nat /\ start_simulation \in Nat /\ end_simulation \in Nat
  /\ next_request_time \in Nat /\ due \in Nat /\ timestamp \in Nat
  /\ launches \in Seq(Nat)
  /\ mon \in {"off", "start", "test", "sample", "done"}
  /\ monitor_running \in BOOLEAN
  /\ cpu_data \subseteq begun /\ begun \subseteq Nat /\ written \subseteq Nat
  /\ mon = "sample" => timestamp \in begun

LEMMA SimTypesTyped == SimTypes => SimTypeOK
<1> SUFFICES ASSUME SimTypes PROVE SimTypeOK
  OBVIOUS
<1>1. {now, start_simulation, end_simulation, next_request_time, due, timestamp}
        \subseteq Nat
  BY DEF SimTypes
<1>2. {cpu_data, begun, written} \subseteq SUBSET Nat
  BY DEF SimTypes
<1> QED
  BY <1>1, <1>2 DEF SimTypes, SimTypeOK

LEMMA SimTypesOff == Off => SimTypes
<1> SUFFICES ASSUME Off PROVE SimTypes
  OBVIOUS
<1>1. launches \in Seq(Nat)
  <2>1. launches = <<>>
    BY DEF Off
  <2> QED
    BY <2>1, EmptySeq
<1>2. cpu_data \subseteq begun /\ begun \subseteq Nat /\ written \subseteq Nat
  BY DEF Off
<1> QED
  BY <1>1, <1>2 DEF Off, SimTypes

LEMMA SimTypesStart ==
  ASSUME NEW file, NEW log \in BOOLEAN, Start(file, log) \/ Leave
  PROVE  SimTypes'
<1>1. launches' \in Seq(Nat)
  <2>1. launches' = <<>>
    BY DEF Start, Leave
  <2> QED
    BY <2>1, EmptySeq
<1>2. cpu_data' \subseteq begun' /\ begun' \subseteq Nat /\ written' \subseteq Nat
  BY DEF Start, Leave
<1>3. /\ sim' \in {"load", "off"} /\ cpu_log' \in BOOLEAN
      /\ mon' \in {"off", "start"} /\ monitor_running' \in BOOLEAN
  BY DEF Start, Leave
<1>4. /\ now' = 0 /\ start_simulation' = 0 /\ end_simulation' = 0
      /\ next_request_time' = 0 /\ due' = 0 /\ timestamp' = 0
  BY DEF Start, Leave
<1> QED
  BY <1>1, <1>2, <1>3, <1>4 DEF SimTypes

LEMMA SimTypesStep == SimTypes /\ lines \in Seq(Entry) /\ SimStep => SimTypes'
<1> SUFFICES ASSUME SimTypes, lines \in Seq(Entry), SimStep PROVE SimTypes'
  OBVIOUS
<1> USE DEF SimTypes, mainVars, monVars
<1>1. CASE StartSimulation
  BY <1>1 DEF StartSimulation
<1>2. CASE Pop
  <2>1. Len(launches) \in Nat /\ Len(lines) \in Nat
    BY LenProperties
  <2>2. Len(launches) + 1 \in 1..Len(lines)
    BY <1>2, <2>1 DEF Pop
  <2>3. lines[Len(launches) + 1].iat \in Nat
    <3>1. lines[Len(launches) + 1] \in Entry
      BY <2>2, ElementOfSeq
    <3> QED
      BY <3>1 DEF Entry
  <2>4. next_request_time' \in Nat /\ due' \in Nat
    BY <1>2, <2>3 DEF Pop, RequestAfter
  <2> QED
    BY <1>2, <2>4 DEF Pop
<1>3. CASE Put
  <2>1. launches' \in Seq(Nat)
    BY <1>3, AppendProperties DEF Put
  <2> QED
    BY <1>3, <2>1 DEF Put
<1>4. CASE Dispatched \/ EndSimulation
  BY <1>4 DEF Dispatched, EndSimulation
<1>5. CASE StopMonitoring
  <2>1. due' \in Nat
    BY <1>5, SimulationAssumption DEF StopMonitoring
  <2> QED
    BY <1>5, <2>1 DEF StopMonitoring
<1>6. CASE FilterSamples \/ WriteSamples
  BY <1>6 DEF FilterSamples, WriteSamples
<1>7. CASE MonitorRuns \/ MonitorTest
  BY <1>7 DEF MonitorRuns, MonitorTest
<1>8. CASE MonitorAppend
  BY <1>8 DEF MonitorAppend
<1>9. CASE Tick
  BY <1>9 DEF Tick
<1> QED
  BY <1>1, <1>2, <1>3, <1>4, <1>5, <1>6, <1>7, <1>8, <1>9 DEF SimStep

\* What an experiment does to the program that runs, if it does not start it.
LEMMA ProgramSteps ==
  [Next]_vars => \/ UNCHANGED simVars
                 \/ Measure
                 \/ Leave
                 \/ SimStep
<1> SUFFICES ASSUME [Next]_vars
             PROVE  UNCHANGED simVars \/ Measure \/ Leave \/ SimStep
  OBVIOUS
<1>1. ASSUME NEW tr \in Traces, Generate(tr) PROVE UNCHANGED simVars
  BY <1>1 DEF Generate
<1>2. ASSUME NEW t \in BOOLEAN, Begin(t) PROVE UNCHANGED simVars
  BY <1>2 DEF Begin
<1>3. CASE Copy \/ HeadLines \/ TestMove \/ SetTrap \/ Sync \/ ChangeDir \/ SyncBack
           \/ NotRunnable \/ Signal \/ Handle
  BY <1>3 DEF Copy, HeadLines, TestMove, SetTrap, Sync, ChangeDir, SyncBack,
              NotRunnable, Signal, Handle, Unmoved
<1>4. CASE Measured \/ Fail \/ Crash
  BY <1>4 DEF Measured, Fail, Crash
<1>5. CASE Execute \/ Done \/ UNCHANGED vars
  BY <1>5 DEF Execute, Done, vars
<1> QED
  BY <1>1, <1>2, <1>3, <1>4, <1>5 DEF Next

Typed == FilesInv /\ FileTypes /\ TraceKnown /\ ScriptTypes /\ LogTypes /\ SimTypes

LEMMA InitTyped == Init => Typed
<1> SUFFICES ASSUME Init PROVE Typed
  OBVIOUS
<1>1. <<>> \in Seq(Entry) /\ <<>> \in Seq(1..MaxRuns) /\ 0 \in 0..MaxRuns
  BY EmptySeq, ExperimentAssumption
<1>2. FileTypes /\ TraceKnown /\ ScriptTypes /\ LogTypes
  BY <1>1 DEF Init, Off, FileTypes, IsFile, TraceKnown, ScriptTypes, LogTypes
<1> QED
  BY <1>2, InitFiles, SimTypesOff DEF Typed, Init

LEMMA StepTyped == Typed /\ [Next]_vars => Typed'
<1> SUFFICES ASSUME Typed, [Next]_vars PROVE Typed'
  OBVIOUS
<1>1. FilesInv' /\ FileTypes' /\ TraceKnown' /\ ScriptTypes' /\ LogTypes'
  BY StepFiles, FileTypesStep, TraceKnownStep, ScriptTypesStep, LogTypesStep DEF Typed
<1>2. SimTypes'
  <2>1. CASE UNCHANGED simVars
    BY <2>1 DEF Typed, SimTypes, simVars, mainVars, monVars
  <2>2. CASE Measure
    <3>1. (pc = "ftrace") \in BOOLEAN /\ Start(home, pc = "ftrace")
      BY <2>2 DEF Measure, Input
    <3> QED
      BY <3>1, SimTypesStart
  <2>3. CASE Leave
    BY <2>3, SimTypesStart
  <2>4. CASE SimStep
    BY <2>4, SimTypesStep DEF Typed, FileTypes
  <2> QED
    BY <2>1, <2>2, <2>3, <2>4, ProgramSteps
<1> QED
  BY <1>1, <1>2 DEF Typed

LEMMA TypedAlways == Spec => []Typed
BY InitTyped, StepTyped, PTL DEF Spec

\* The workloads are sequences of entries with gaps that are not negative, the
\* counts and times natural numbers: np.diff of the sorted times, to which the
\* first time is added, never yields a negative sleep.
THEOREM TypeCorrect == Spec => []TypeOK
<1>1. Typed => TypeOK
  <2> SUFFICES ASSUME Typed PROVE TypeOK
    OBVIOUS
  <2>1. {test, trapped, pending, cut, stale, early} \subseteq BOOLEAN
        /\ (trapped => test)
    BY DEF Typed, ScriptTypes, FilesInv, Phases
  <2>2. \A f \in {dur, original, home, generated} : f = NoFile \/ f \in Seq(Entry)
    BY DEF Typed, FileTypes, IsFile
  <2> QED
    BY <2>1, <2>2, SimTypesTyped DEF TypeOK, Typed, ScriptTypes, FileTypes, LogTypes, Entry
<1> QED
  BY <1>1, TypedAlways, PTL

-------------------------------------------------------------------------------
(* The workload against its trace. *)

\* The gaps up to an entry add up to at least the time of the entry after it.
LEMMA GapsReachTime ==
  ASSUME NEW tr, Counted(tr), ~Raises(tr), NEW k \in 1..Len(output_list(tr))
  PROVE  /\ k + 1 \in 1..Len(sort_list(tr))
         /\ sort_list(tr)[k + 1][1] \in Nat
         /\ Gaps(output_list(tr))[k] \in Nat
         /\ sort_list(tr)[k + 1][1] <= Gaps(output_list(tr))[k]
<1> DEFINE out == output_list(tr)
           s == sort_list(tr)
           n == Len(out)
           sum == Gaps(out)
           T == {i \in 1..n : ~(s[i + 1][1] <= sum[i])}
<1>1. /\ out \in Seq(Entry) /\ n \in Nat /\ n = Len(s) - 1 /\ Len(s) \in Nat
      /\ s \in Seq(Nat \X Args)
      /\ \A i \in 1..n : out[i].iat = s[1][1] + s[i + 1][1] - s[i][1]
  BY OutputList, Sorted, LenProperties
<1>2. /\ sum \in [0..n -> Nat] /\ sum[0] = 0
      /\ \A i \in 1..n : sum[i] = sum[i - 1] + out[i].iat
  BY <1>1, GapsAddUp DEF SumsTo
<1>3. \A i \in 1..Len(s) : s[i] \in Nat \X Args
  BY <1>1, ElementOfSeq
<1>4. \A i \in 1..Len(s) : s[i][1] \in Nat
  BY <1>3
<1> HIDE DEF out, s, n, sum
<1>5. T = {}
  <2> SUFFICES ASSUME T # {} PROVE FALSE
    OBVIOUS
  <2>1. PICK i \in T : \A j \in T : i <= j
    <3>1. T \in SUBSET Nat
      BY <1>1
    <3> QED
      BY <3>1, LeastElement
  <2>2. i \in 1..n /\ i \in Nat /\ i - 1 \in 0..n
    BY <1>1
  <2>3. 1 \in 1..Len(s) /\ i \in 1..Len(s) /\ i + 1 \in 1..Len(s)
    BY <1>1, <2>2
  <2>4. s[1][1] \in Nat /\ s[i][1] \in Nat /\ s[i + 1][1] \in Nat
    BY <1>4, <2>3
  <2>5. sum[i] = sum[i - 1] + (s[1][1] + s[i + 1][1] - s[i][1]) /\ sum[i - 1] \in Nat
    BY <1>1, <1>2, <2>2
  <2>6. s[i][1] <= sum[i - 1] + s[1][1]
    <3>1. CASE i = 1
      BY <2>4, <2>5, <3>1
    <3>2. CASE i # 1
      <4>1. i - 1 \in 1..n /\ ~(i <= i - 1)
        BY <2>2, <3>2
      <4>2. s[(i - 1) + 1][1] <= sum[i - 1]
        BY <2>1, <4>1
      <4>3. (i - 1) + 1 = i
        BY <2>2
      <4> QED
        BY ONLY <2>4, <2>5, <4>2, <4>3
    <3> QED
      BY <3>1, <3>2
  <2>7. s[i + 1][1] <= sum[i]
    BY ONLY <2>4, <2>5, <2>6
  <2> QED
    BY <2>7
<1>6. k \in 1..n
  BY DEF n, out
<1>7. k + 1 \in 1..Len(s)
  BY <1>1, <1>6
<1>8. s[k + 1][1] \in Nat /\ sum[k] \in Nat
  <2>1. k \in 0..n
    BY <1>1, <1>6
  <2> QED
    BY <1>2, <1>4, <1>7, <2>1
<1>9. s[k + 1][1] <= sum[k]
  BY <1>5, <1>6
<1> QED
  BY <1>7, <1>8, <1>9 DEF s, sum, out

\* The replay never leads the trace, whatever the trace.
THEOREM NeverAhead == Spec => []NotAheadOfTrace
<1>1. TraceKnown => NotAheadOfTrace
  <2> SUFFICES ASSUME TraceKnown, trace # NoFile, NEW k \in DOMAIN generated
               PROVE  Cardinality({x \in occur_time(trace) : x[1] <= Offset(k)}) >= k
    BY DEF NotAheadOfTrace
  <2> DEFINE S == occur_time(trace)
             y == sort_list(trace)[k + 1]
             past == {x \in S : x[1] <= Offset(k)}
  <2>1. Counted(trace) /\ ~Raises(trace) /\ generated = output_list(trace)
    BY TracesAssumption DEF TraceKnown, Counted
  <2>2. generated \in Seq(Entry) /\ k \in 1..Len(generated) /\ k \in Nat
    BY <2>1, OutputList, LenProperties
  <2>3. /\ k + 1 \in 1..Len(sort_list(trace))
        /\ y[1] \in Nat /\ Offset(k) \in Nat /\ y[1] <= Offset(k)
    BY <2>1, <2>2, GapsReachTime DEF Offset
  <2>4. Cardinality(Before(S, y)) = k
    BY <2>1, <2>2, <2>3, Sorted
  <2>5. IsFiniteSet(S) /\ S \subseteq Nat \X Args
    BY <2>1, OccurTimes
  <2> HIDE DEF S, y
  <2>6. ASSUME NEW x \in Before(S, y) PROVE x \in past
    <3>1. x \in S /\ InTimeOrder(x, y)
      BY DEF Before
    <3>2. x[1] \in Nat
      BY <2>5, <3>1
    <3>3. x[1] <= y[1]
      BY <2>3, <3>1, <3>2 DEF InTimeOrder
    <3>4. x[1] <= Offset(k)
      BY <2>3, <3>2, <3>3
    <3> QED
      BY <3>1, <3>4
  <2>7. IsFiniteSet(past)
    BY <2>5, FS_Subset
  <2>8. Cardinality(Before(S, y)) <= Cardinality(past) /\ Cardinality(past) \in Nat
    BY <2>6, <2>7, FS_Subset, FS_CardinalityType
  <2>9. Cardinality(past) >= k
    BY <2>2, <2>4, <2>8
  <2> QED
    BY <2>9 DEF S
<1> QED
  BY <1>1, TypedAlways, PTL DEF Typed

-------------------------------------------------------------------------------
(* The replay. *)

\* What NoDrift says of one entry.
OnTime(k) ==
    LET base == IF k > 1 /\ launches[k - 1] > Due(k) THEN launches[k - 1] ELSE Due(k)
    IN Due(k) <= launches[k] /\ launches[k] <= base + Late

\* Between two entries the requested time is what the gaps add up to, and the
\* main thread goes on from the entry it put last.
Paced ==
  /\ sim \in {"off", "load"} => launches = <<>>
  /\ sim = "pop" =>
       /\ Len(launches) <= Len(lines)
       /\ next_request_time = Due(Len(launches))
       /\ now = IF launches = <<>> THEN start_simulation ELSE launches[Len(launches)]
  /\ sim = "wait" =>
       /\ Len(launches) < Len(lines)
       /\ next_request_time = Due(Len(launches) + 1)
       /\ now <= due + Late
       /\ due # next_request_time =>
            launches # <<>> /\ due = launches[Len(launches)] /\ due > next_request_time
  /\ \A k \in DOMAIN launches : OnTime(k)

LEMMA PacedOff == launches = <<>> /\ sim \in {"off", "load"} => Paced
BY DEF Paced

\* A step that leaves the entries alone leaves them on time.
LEMMA SameOnTime ==
  ASSUME launches' = launches, lines' = lines, start_simulation' = start_simulation,
         \A k \in DOMAIN launches : OnTime(k)
  PROVE  \A k \in DOMAIN launches' : OnTime(k)'
BY DEF OnTime, Due

LEMMA PacedPop == SimTypes /\ lines \in Seq(Entry) /\ Paced /\ Pop => Paced'
<1> SUFFICES ASSUME SimTypes, lines \in Seq(Entry), Paced, Pop PROVE Paced'
  OBVIOUS
<1> DEFINE n == Len(launches)
           next == next_request_time + lines[n + 1].iat
<1>1. /\ n \in Nat /\ Len(lines) \in Nat /\ n + 1 \in 1..Len(lines) /\ n \in 0..Len(lines)
      /\ now \in Nat /\ start_simulation \in Nat
  <2>1. n \in Nat /\ Len(lines) \in Nat /\ now \in Nat /\ start_simulation \in Nat
    BY LenProperties DEF SimTypes
  <2> QED
    BY <2>1 DEF Pop
<1>2. SumsTo(Gaps(lines), lines, Len(lines))
  BY GapsAddUp
<1>3. Gaps(lines)[n + 1] = Gaps(lines)[(n + 1) - 1] + lines[n + 1].iat
  BY <1>1, <1>2 DEF SumsTo
<1>4. lines[n + 1] \in Entry
  BY <1>1, ElementOfSeq
<1>5. Gaps(lines)[n] \in Nat /\ lines[n + 1].iat \in Nat
  BY <1>1, <1>2, <1>4 DEF SumsTo, Entry
<1>6. next = Due(n + 1) /\ next \in Nat
  <2>1. next_request_time = start_simulation + Gaps(lines)[n]
    BY DEF Paced, Pop, Due
  <2>2. (n + 1) - 1 = n
    BY <1>1
  <2> QED
    <3>1. Due(n + 1) = start_simulation + (Gaps(lines)[n] + lines[n + 1].iat)
      BY <1>3, <2>2 DEF Due
    <3>2. start_simulation \in Nat
      BY <1>1
    <3> DEFINE a == start_simulation
               b == Gaps(lines)[n]
               d == lines[n + 1].iat
    <3>3. a \in Nat /\ b \in Nat /\ d \in Nat /\ next = a + b + d
      BY <1>5, <2>1, <3>2
    <3>4. Due(n + 1) = a + (b + d)
      BY <3>1
    <3> HIDE DEF a, b, d, next
    <3> QED
      BY ONLY <3>3, <3>4
<1>7. /\ next_request_time' = next /\ due' = IF now < next THEN next ELSE now
      /\ launches' = launches /\ lines' = lines /\ start_simulation' = start_simulation
      /\ now' = now /\ sim' = "wait"
  BY DEF Pop, RequestAfter
<1>8. Due(n + 1)' = Due(n + 1)
  BY <1>7 DEF Due
<1>9. launches = <<>> => now <= next
  BY <1>1, <1>5 DEF Paced, Pop, Due
<1> HIDE DEF next
<1>10. due' # next => launches # <<>> /\ due' = launches[n] /\ due' > next
  BY <1>1, <1>6, <1>7, <1>9 DEF Paced, Pop
<1>11. now <= due' + Late
  BY <1>1, <1>6, <1>7, SimulationAssumption
<1>12. \A k \in DOMAIN launches' : OnTime(k)'
  BY <1>7, SameOnTime DEF Paced
<1>13. n < Len(lines)
  BY <1>1
<1> QED
  BY <1>6, <1>7, <1>8, <1>10, <1>11, <1>12, <1>13 DEF Paced

LEMMA PacedPut == SimTypes /\ lines \in Seq(Entry) /\ Paced /\ Put => Paced'
<1> SUFFICES ASSUME SimTypes, lines \in Seq(Entry), Paced, Put PROVE Paced'
  OBVIOUS
<1>0. PICK n : n = Len(launches)
  OBVIOUS
<1>1. /\ n \in Nat /\ Len(lines) \in Nat /\ now \in Nat /\ due \in Nat
      /\ next_request_time \in Nat /\ launches \in Seq(Nat) /\ Late \in Nat
  BY <1>0, LenProperties, SimulationAssumption DEF SimTypes
<1>2. /\ n < Len(lines) /\ next_request_time = Due(n + 1) /\ now <= due + Late
      /\ now >= next_request_time
      /\ due # next_request_time =>
           launches # <<>> /\ due = launches[n] /\ due > next_request_time
  BY <1>0 DEF Paced, Put
<1>3. /\ launches' = Append(launches, now) /\ sim' = "pop" /\ lines' = lines
      /\ start_simulation' = start_simulation /\ now' = now
      /\ next_request_time' = next_request_time
  BY DEF Put
<1>4. /\ Len(launches') = n + 1 /\ launches'[n + 1] = now /\ launches' # <<>>
      /\ DOMAIN launches' = 1..(n + 1) /\ DOMAIN launches = 1..n
      /\ \A k \in 1..n : launches'[k] = launches[k]
  BY <1>0, <1>1, <1>3, AppendProperties, LenProperties
<1>5. \A k : Due(k)' = Due(k)
  BY <1>3 DEF Due
<1>6. OnTime(n + 1)'
  <2> DEFINE before == launches'[(n + 1) - 1]
             base == IF n + 1 > 1 /\ before > Due(n + 1) THEN before ELSE Due(n + 1)
  <2>1. Due(n + 1) \in Nat /\ Due(n + 1) <= now
    BY <1>1, <1>2
  <2>2. n # 0 => n \in 1..n /\ n + 1 > 1 /\ (n + 1) - 1 = n /\ before = launches[n]
    BY <1>1, <1>4
  <2>3. n # 0 => before \in Nat
    BY <1>0, <1>1, <2>2, ElementOfSeq
  <2>4. now <= base + Late
    <3>1. CASE due = next_request_time
      <4>1. n + 1 > 1 => before \in Nat
        BY <1>1, <2>3
      <4>2. base \in Nat /\ Due(n + 1) <= base
        BY <2>1, <4>1
      <4>3. now <= Due(n + 1) + Late
        BY <1>2, <3>1
      <4> HIDE DEF base
      <4> QED
        BY <1>1, <2>1, <4>2, <4>3
    <3>2. CASE due # next_request_time
      <4>1. launches # <<>> /\ due = launches[n] /\ due > Due(n + 1)
        BY <1>2, <3>2
      <4>2. n # 0
        BY <1>0, <1>1, <4>1, EmptySeq
      <4>3. base = due
        BY <2>2, <4>1, <4>2
      <4> QED
        BY <1>2, <4>3
    <3> QED
      BY <3>1, <3>2
  <2>5. Due(n + 1)' = Due(n + 1) /\ launches'[n + 1] = now
    BY <1>4, <1>5
  <2> HIDE DEF before
  <2>6. OnTime(n + 1)' <=> Due(n + 1) <= now /\ now <= base + Late
    BY <2>5 DEF OnTime, before
  <2> QED
    BY <2>1, <2>4, <2>6
<1>7. ASSUME NEW k \in 1..n PROVE OnTime(k)'
  <2>1. OnTime(k)
    BY <1>4 DEF Paced
  <2>2. launches'[k] = launches[k]
    BY <1>4
  <2>3. k > 1 => launches'[k - 1] = launches[k - 1]
    <3>1. k > 1 => k - 1 \in 1..n
      BY <1>1
    <3> QED
      BY <1>4, <3>1
  <2> QED
    BY <1>5, <2>1, <2>2, <2>3 DEF OnTime
<1>8. \A k \in DOMAIN launches' : OnTime(k)'
  <2>1. \A k \in 1..(n + 1) : k \in 1..n \/ k = n + 1
    BY <1>1
  <2> QED
    BY <1>4, <1>6, <1>7, <2>1
<1>9. n + 1 <= Len(lines)
  BY <1>1, <1>2
<1> QED
  BY <1>0, <1>2, <1>3, <1>4, <1>5, <1>8, <1>9 DEF Paced

LEMMA PacedStep == SimTypes /\ lines \in Seq(Entry) /\ Paced /\ SimStep => Paced'
<1> SUFFICES ASSUME SimTypes, lines \in Seq(Entry), Paced, SimStep PROVE Paced'
  OBVIOUS
<1>1. CASE StartSimulation
  <2>1. launches = <<>> /\ launches' = <<>> /\ Len(launches') = 0
    BY <1>1, EmptySeq DEF StartSimulation, Paced
  <2>2. Gaps(lines)[0] = 0
    BY GapsAddUp DEF SumsTo
  <2>3. now \in Nat /\ Len(lines) \in Nat
    BY LenProperties DEF SimTypes
  <2>4. Due(0)' = now
    BY <1>1, <2>2, <2>3 DEF StartSimulation, Due
  <2>5. \A k \in DOMAIN launches' : OnTime(k)'
    BY <2>1
  <2> QED
    BY <1>1, <2>1, <2>3, <2>4, <2>5 DEF StartSimulation, Paced
<1>2. CASE Pop
  BY <1>2, PacedPop
<1>3. CASE Put
  BY <1>3, PacedPut
<1>4. CASE \/ Dispatched \/ EndSimulation \/ StopMonitoring
           \/ FilterSamples \/ WriteSamples
  <2>1. /\ launches' = launches /\ lines' = lines /\ start_simulation' = start_simulation
        /\ sim' \in {"reap", "stop", "join", "write", "done"}
    BY <1>4 DEF Dispatched, EndSimulation, StopMonitoring, FilterSamples, WriteSamples
  <2>2. \A k \in DOMAIN launches' : OnTime(k)'
    BY <2>1, SameOnTime DEF Paced
  <2> QED
    BY <2>1, <2>2 DEF Paced
<1>5. CASE MonitorRuns \/ MonitorTest \/ MonitorAppend
  <2>1. UNCHANGED mainVars /\ now' = now
    BY <1>5 DEF MonitorRuns, MonitorTest, MonitorAppend
  <2>2. \A k \in DOMAIN launches' : OnTime(k)'
    BY <2>1, SameOnTime DEF Paced, mainVars
  <2>3. \A k : Due(k)' = Due(k)
    BY <2>1 DEF Due, mainVars
  <2> QED
    BY <2>1, <2>2, <2>3 DEF Paced, mainVars
<1>6. CASE Tick
  <2>1. /\ UNCHANGED mainVars /\ now' = now + 1
        /\ sim \in {"load", "wait", "reap", "join"}
        /\ sim = "wait" => now < due + Late
    BY <1>6 DEF Tick
  <2>2. \A k \in DOMAIN launches' : OnTime(k)'
    BY <2>1, SameOnTime DEF Paced, mainVars
  <2>3. \A k : Due(k)' = Due(k)
    BY <2>1 DEF Due, mainVars
  <2>4. sim = "wait" => now' <= due + Late
    BY <2>1, SimulationAssumption DEF SimTypes
  <2> QED
    BY <2>1, <2>2, <2>3, <2>4 DEF Paced, mainVars
<1> QED
  BY <1>1, <1>2, <1>3, <1>4, <1>5, <1>6 DEF SimStep

\* Lateness does not add up: next_request_time grows by the gaps alone.
THEOREM DriftFree == Spec => []NoDrift
<1>1. Init => Paced
  BY PacedOff DEF Init, Off
<1>2. Typed /\ Paced /\ [Next]_vars => Paced'
  <2> SUFFICES ASSUME Typed, Paced, [Next]_vars PROVE Paced'
    OBVIOUS
  <2>1. CASE UNCHANGED simVars
    <3>1. UNCHANGED mainVars /\ now' = now
      BY <2>1 DEF simVars
    <3>2. \A k \in DOMAIN launches' : OnTime(k)'
      BY <3>1, SameOnTime DEF Paced, mainVars
    <3>3. \A k : Due(k)' = Due(k)
      BY <3>1 DEF Due, mainVars
    <3> QED
      BY <3>1, <3>2, <3>3 DEF Paced, mainVars
  <2>2. CASE Measure \/ Leave
    <3>1. launches' = <<>> /\ sim' \in {"off", "load"}
      BY <2>2 DEF Measure, Start, Leave
    <3> QED
      BY <3>1 DEF Paced
  <2>3. CASE SimStep
    BY <2>3, PacedStep DEF Typed, FileTypes
  <2> QED
    BY <2>1, <2>2, <2>3, ProgramSteps
<1>3. Paced => NoDrift
  BY DEF Paced, OnTime, NoDrift
<1> QED
  BY <1>1, <1>2, <1>3, TypedAlways, PTL DEF Spec

-------------------------------------------------------------------------------
(* The monitor. *)

Within == {ts \in begun : start_simulation <= ts /\ ts <= end_simulation}

\* Of the samples of the simulation one may be missing ...
Short(kept) == kept \subseteq Within /\ \E ts : Within \ kept \subseteq {ts}

\* ... or one is there that is none of them: its interval has passed, so that a
\* monitor that still runs begins no sample of the simulation any more.
Long(kept) ==
  /\ Within \subseteq kept
  /\ \E ts : kept \ Within \subseteq {ts}
  /\ mon # "start"
  /\ monitor_running => end_simulation < now

\* While the file is written, a sample in the making may be missing from those
\* that were kept, or have been added to them; the next one is not finished.
Kept ==
  \/ /\ cpu_data \subseteq Within
     /\ \A ts \in Within \ cpu_data : mon = "sample" /\ ts = timestamp
  \/ Long(cpu_data) /\ (mon = "sample" => timestamp = now)

\* A monitor that started after it was stopped begins no sample before the end
\* of the simulation.
Sampled ==
  /\ cpu_log => mon # "off"
  /\ mon = "start" => begun = {}
  /\ \A ts \in begun : ts <= now
  /\ sim = "stop" => end_simulation = now
  /\ sim \in {"join", "write", "done"} => end_simulation <= now
  /\ sim = "join" => due = end_simulation + JoinTimeout
  /\ sim \in {"join", "write", "done"} /\ monitor_running =>
       \A ts \in begun : end_simulation <= ts
  /\ sim \notin {"write", "done"} =>
       \A ts \in begun : ts \in cpu_data \/ (mon = "sample" /\ ts = timestamp)
  /\ sim = "write" =>
       /\ Kept
       /\ now < end_simulation + JoinTimeout => mon = "done" /\ cpu_data = Within
  /\ sim = "done" /\ cpu_log =>
       /\ Short(written) \/ Long(written)
       /\ now < end_simulation + JoinTimeout => mon = "done" /\ written = Within

LEMMA SampledStop == SimTypes /\ Sampled /\ (EndSimulation \/ StopMonitoring) => Sampled'
<1> SUFFICES ASSUME SimTypes, Sampled, EndSimulation \/ StopMonitoring PROVE Sampled'
  OBVIOUS
<1>1. now \in Nat
  BY DEF SimTypes
<1>2. CASE EndSimulation
  BY <1>1, <1>2 DEF EndSimulation, monVars, Sampled
<1>3. CASE StopMonitoring
  <2>1. /\ sim = "stop" /\ cpu_log' = cpu_log /\ mon' = mon /\ begun' = begun
        /\ now' = now /\ end_simulation' = end_simulation /\ cpu_data' = cpu_data
        /\ timestamp' = timestamp /\ monitor_running' = FALSE
        /\ due' = now + JoinTimeout
        /\ sim' = IF mon = "off" THEN "done" ELSE "join"
    BY <1>3 DEF StopMonitoring
  <2>2. end_simulation = now
    BY <2>1 DEF Sampled
  <2>3. sim' = "done" => ~cpu_log
    BY <2>1 DEF Sampled
  <2>4. now \in Nat /\ sim' \in {"join", "done"} /\ end_simulation' <= now'
    BY <1>1, <2>1, <2>2
  <2>5. sim' = "join" => due' = end_simulation' + JoinTimeout
    BY <2>1, <2>2
  <2>6. \A ts \in begun' : ts <= now'
    BY <2>1 DEF Sampled
  <2>7. \A ts \in begun' : ts \in cpu_data' \/ (mon' = "sample" /\ ts = timestamp')
    BY <2>1 DEF Sampled
  <2>8. (cpu_log' => mon' # "off") /\ (mon' = "start" => begun' = {})
    BY <2>1 DEF Sampled
  <2> QED
    BY <2>1, <2>3, <2>4, <2>5, <2>6, <2>7, <2>8 DEF Sampled
<1> QED
  BY <1>2, <1>3

LEMMA SampledFilter == SimTypes /\ Sampled /\ FilterSamples => Sampled'
<1> SUFFICES ASSUME SimTypes, Sampled, FilterSamples PROVE Sampled'
  OBVIOUS
<1>1. /\ sim = "join" /\ sim' = "write" /\ cpu_log' = cpu_log /\ mon' = mon /\ begun' = begun
      /\ now' = now /\ end_simulation' = end_simulation /\ due' = due
      /\ start_simulation' = start_simulation /\ monitor_running' = monitor_running
      /\ timestamp' = timestamp
      /\ cpu_data' = {ts \in cpu_data : start_simulation <= ts /\ ts <= end_simulation}
  BY DEF FilterSamples
<1>2. Within' = Within
  BY <1>1 DEF Within
<1>3. cpu_data' \subseteq Within
  BY <1>1 DEF Within, SimTypes
<1>4. \A ts \in Within \ cpu_data' : mon = "sample" /\ ts = timestamp
  BY <1>1 DEF Within, Sampled
<1>5. Kept'
  BY <1>1, <1>2, <1>3, <1>4 DEF Kept
<1>6. now < end_simulation + JoinTimeout => mon = "done"
  <2>1. mon = "done" \/ now >= end_simulation + JoinTimeout
    BY <1>1 DEF FilterSamples, Joined, Sampled
  <2> QED
    BY <2>1, SimulationAssumption DEF SimTypes
<1>7. mon = "done" => cpu_data' = Within
  BY <1>3, <1>4
<1> QED
  BY <1>1, <1>2, <1>5, <1>6, <1>7 DEF Sampled

LEMMA SampledWrite == SimTypes /\ Sampled /\ WriteSamples => Sampled'
<1> SUFFICES ASSUME SimTypes, Sampled, WriteSamples PROVE Sampled'
  OBVIOUS
<1>1. /\ UNCHANGED <<cpu_log, start_simulation, end_simulation, now, monVars>>
      /\ sim = "write" /\ sim' = "done" /\ written' = cpu_data
  BY DEF WriteSamples
<1>2. Within' = Within
  BY <1>1 DEF Within, monVars
<1>3. Short(cpu_data) \/ Long(cpu_data)
  <2>1. Kept
    BY <1>1 DEF Sampled
  <2> QED
    BY <2>1 DEF Kept, Short
<1>4. Short(written)' \/ Long(written)'
  BY <1>1, <1>2, <1>3 DEF Short, Long, monVars
<1> QED
  BY <1>1, <1>2, <1>4 DEF Sampled, monVars

LEMMA SampledTest == SimTypes /\ Sampled /\ MonitorTest => Sampled'
<1> SUFFICES ASSUME SimTypes, Sampled, MonitorTest PROVE Sampled'
  OBVIOUS
<1>1. now \in Nat /\ end_simulation \in Nat /\ start_simulation \in Nat /\ begun \subseteq Nat
  BY DEF SimTypes
<1>2. /\ UNCHANGED <<mainVars, now, monitor_running, cpu_data, written>>
      /\ mon = "test"
  BY DEF MonitorTest
<1>3. CASE ~monitor_running
  <2>1. mon' = "done" /\ begun' = begun /\ timestamp' = timestamp
    BY <1>3 DEF MonitorTest
  <2>2. Within' = Within
    BY <1>2, <2>1 DEF Within, mainVars
  <2>3. Kept => Kept'
    BY <1>2, <1>3, <2>1, <2>2 DEF Kept, Long
  <2>4. Short(written) \/ Long(written) => Short(written)' \/ Long(written)'
    BY <1>2, <1>3, <2>1, <2>2 DEF Short, Long
  <2> QED
    BY <1>2, <2>1, <2>2, <2>3, <2>4 DEF Sampled, mainVars
<1>4. CASE monitor_running
  <2>1. mon' = "sample" /\ timestamp' = now /\ begun' = begun \cup {now}
    BY <1>4 DEF MonitorTest
  <2>2. \A ts \in begun' : ts <= now'
    BY <1>1, <1>2, <2>1 DEF Sampled
  <2>3. sim \in {"join", "write", "done"} => \A ts \in begun' : end_simulation <= ts
    BY <1>4, <2>1 DEF Sampled
  <2>4. sim \notin {"write", "done"} =>
          \A ts \in begun' : ts \in cpu_data \/ (mon' = "sample" /\ ts = timestamp')
    BY <1>2, <2>1 DEF Sampled
  <2>5. Within' = {ts \in begun' : start_simulation <= ts /\ ts <= end_simulation}
    BY <1>2 DEF Within, mainVars
  <2>6. Within \subseteq Within' /\ Within' \subseteq Within \cup {now}
    BY <2>1, <2>5 DEF Within
  <2>7. end_simulation < now => Within' = Within
    BY <1>1, <2>1, <2>5 DEF Within
  <2>8. ASSUME NEW kept, Long(kept) PROVE Within' = Within
    BY <1>4, <2>7, <2>8 DEF Long
  <2>9. sim = "write" => Kept'
    <3>1. CASE sim = "write" /\ Long(cpu_data)
      BY <1>2, <1>4, <2>1, <2>8, <3>1 DEF Long, Kept, mainVars
    <3>2. CASE sim = "write" /\ ~Long(cpu_data)
      <4>1. cpu_data = Within
        BY <1>2, <3>2 DEF Sampled, Kept
      <4> QED
        BY <1>2, <2>1, <2>6, <4>1 DEF Kept
    <3> QED
      BY <3>1, <3>2
  <2>10. sim = "done" /\ cpu_log => Short(written)' \/ Long(written)'
    <3>1. CASE Long(written)
      BY <1>2, <1>4, <2>1, <2>8, <3>1 DEF Long, mainVars
    <3>2. CASE sim = "done" /\ Short(written)
      <4>1. \A ts \in Within' : ts = end_simulation
        BY <1>1, <2>1, <2>3, <2>5, <3>2
      <4> QED
        BY <1>2, <2>6, <3>2, <4>1 DEF Short
    <3> QED
      BY <3>1, <3>2 DEF Sampled
  <2>11. sim = "write" \/ (sim = "done" /\ cpu_log) => ~(now < end_simulation + JoinTimeout)
    BY <1>2 DEF Sampled
  <2> QED
    BY <1>2, <2>1, <2>2, <2>3, <2>4, <2>9, <2>10, <2>11 DEF Sampled, mainVars
<1> QED
  BY <1>3, <1>4

LEMMA SampledAppend == SimTypes /\ Sampled /\ MonitorAppend => Sampled'
<1> SUFFICES ASSUME SimTypes, Sampled, MonitorAppend PROVE Sampled'
  OBVIOUS
<1>1. /\ UNCHANGED <<mainVars, now, monitor_running, timestamp, begun, written>>
      /\ cpu_data' = cpu_data \cup {timestamp} /\ mon' = "test" /\ mon = "sample"
      /\ now >= timestamp + Interval
  BY DEF MonitorAppend
<1>2. Within' = Within
  BY <1>1 DEF Within, mainVars
<1>3. timestamp \in begun /\ timestamp < now
  BY <1>1, SimulationAssumption DEF SimTypes
<1>4. sim = "write" => Kept'
  <2>1. CASE sim = "write"
    <3>1. cpu_data \subseteq Within /\ \A ts \in Within \ cpu_data : ts = timestamp
      BY <1>1, <1>3, <2>1 DEF Sampled, Kept, SimTypes
    <3>2. Within \subseteq cpu_data' /\ cpu_data' \ Within \subseteq {timestamp}
      BY <1>1, <3>1
    <3>3. monitor_running => end_simulation < now
      BY <1>3, <2>1 DEF Sampled, SimTypes
    <3>4. Long(cpu_data)'
      BY <1>1, <1>2, <3>2, <3>3 DEF Long, mainVars
    <3> QED
      BY <1>1, <3>4 DEF Kept
  <2> QED
    BY <2>1
<1>5. Short(written) \/ Long(written) => Short(written)' \/ Long(written)'
  BY <1>1, <1>2 DEF Short, Long, mainVars
<1> QED
  BY <1>1, <1>2, <1>4, <1>5 DEF Sampled, mainVars

LEMMA SampledStep == SimTypes /\ Sampled /\ SimStep => Sampled'
<1> SUFFICES ASSUME SimTypes, Sampled, SimStep PROVE Sampled'
  OBVIOUS
<1>1. CASE StartSimulation \/ Pop \/ Put \/ Dispatched
  <2>1. /\ UNCHANGED <<cpu_log, now, monVars>>
        /\ sim' \in {"pop", "wait", "reap"} /\ sim \notin {"write", "done"}
    BY <1>1 DEF StartSimulation, Pop, Put, Dispatched
  <2> QED
    BY <2>1 DEF Sampled, monVars
<1>2. CASE EndSimulation \/ StopMonitoring
  BY <1>2, SampledStop
<1>3. CASE FilterSamples \/ WriteSamples
  BY <1>3, SampledFilter, SampledWrite
<1>4. CASE MonitorRuns
  <2>1. /\ UNCHANGED <<mainVars, now, timestamp, cpu_data, begun, written>>
        /\ begun = {} /\ mon' = "test" /\ mon = "start" /\ cpu_data = {}
    BY <1>4 DEF MonitorRuns, Sampled, SimTypes
  <2>2. Within = {} /\ Within' = {}
    BY <2>1 DEF Within
  <2>3. Kept'
    BY <2>1, <2>2 DEF Kept
  <2>4. Short(written) \/ Long(written) => Short(written)'
    BY <2>1, <2>2 DEF Short, Long
  <2> QED
    BY <2>1, <2>2, <2>3, <2>4 DEF Sampled, mainVars
<1>5. CASE MonitorTest
  BY <1>5, SampledTest
<1>6. CASE MonitorAppend
  BY <1>6, SampledAppend
<1>7. CASE Tick
  <2>1. /\ UNCHANGED <<mainVars, monVars, written>> /\ now' = now + 1
        /\ sim \in {"load", "wait", "reap", "join"}
    BY <1>7 DEF Tick
  <2>2. now \in Nat /\ end_simulation \in Nat /\ begun \subseteq Nat
    BY DEF SimTypes
  <2>3. \A ts \in begun : ts <= now + 1
    BY <2>2 DEF Sampled
  <2>4. sim = "join" => end_simulation <= now + 1
    BY <2>2 DEF Sampled
  <2> QED
    BY <2>1, <2>3, <2>4 DEF Sampled, mainVars, monVars
<1> QED
  BY <1>1, <1>2, <1>3, <1>4, <1>5, <1>6, <1>7 DEF SimStep

\* stop_cpu_monitoring writes the samples of the simulation, all of them and no
\* other if its join did not time out; otherwise at most one is missing, or one
\* too many.
THEOREM NoSampleLost == Spec => []SamplesComplete
<1>1. Init => Sampled
  BY DEF Init, Off, Sampled
<1>2. Typed /\ Sampled /\ [Next]_vars => Sampled'
  <2> SUFFICES ASSUME Typed, Sampled, [Next]_vars PROVE Sampled'
    OBVIOUS
  <2>1. CASE UNCHANGED simVars
    <3>1. Within' = Within
      BY <2>1 DEF Within, simVars, mainVars, monVars
    <3>2. /\ Kept => Kept'
          /\ Short(written) \/ Long(written) => Short(written)' \/ Long(written)'
      BY <2>1, <3>1 DEF Kept, Short, Long, simVars, mainVars, monVars
    <3> QED
      BY <2>1, <3>1, <3>2 DEF Sampled, simVars, mainVars, monVars
  <2>2. CASE Measure
    <3>1. Start(home, pc = "ftrace")
      BY <2>2 DEF Measure, Input
    <3> QED
      BY <3>1 DEF Start, Sampled
  <2>3. CASE Leave
    BY <2>3 DEF Leave, Sampled
  <2>4. CASE SimStep
    BY <2>4, SampledStep DEF Typed
  <2> QED
    BY <2>1, <2>2, <2>3, <2>4, ProgramSteps
<1>3. Sampled => SamplesComplete
  <2> DEFINE D == (Within \ written) \cup (written \ Within)
  <2> SUFFICES ASSUME Sampled, sim = "done", cpu_log
               PROVE  /\ Cardinality(D) <= 1
                      /\ now < end_simulation + JoinTimeout => written = Within
    BY DEF SamplesComplete, Within
  <2>1. PICK ts : D \subseteq {ts}
    BY DEF Sampled, Short, Long
  <2>2. IsFiniteSet({ts}) /\ Cardinality({ts}) = 1
    BY FS_Singleton
  <2> HIDE DEF D
  <2>3. Cardinality(D) <= 1
    BY <2>1, <2>2, FS_Subset
  <2> QED
    BY <2>3 DEF Sampled
<1> QED
  BY <1>1, <1>2, <1>3, TypedAlways, PTL DEF Spec

-------------------------------------------------------------------------------
(* The mix of durations. *)

\* The least number of a set.
LEMMA MinIsLeast ==
  ASSUME NEW S \in SUBSET Nat, S # {}
  PROVE  Min(S) \in S /\ \A m \in S : Min(S) <= m
BY LeastElement DEF Min

\* The durations below the limit whose bucket is that of an argument are those
\* which belong to it.
LEMMA BucketIsRange ==
  ASSUME NEW a \in Nat \ {0}, NEW arg \in Args
  PROVE  a < MaxAverage /\ BucketOf(a) = arg <=> a \in DurationsOf(arg)
<1> DEFINE n == Len(dur_list)
           S == {i \in Args : a <= dur_list[i]} \cup {n}
<1>1. /\ n \in Nat \ {0} /\ Args = 1..n /\ arg \in 1..n /\ MaxAverage \in Nat
      /\ \A i \in 1..n : dur_list[i] \in Nat /\ dur_list[i] < MaxAverage
      /\ \A i, j \in 1..n : i < j => dur_list[i] < dur_list[j]
  BY GenAssumption, ResolutionAssumption, EmptySeq DEF Args
<1>2. BucketOf(a) \in S /\ \A m \in S : BucketOf(a) <= m
  <2>1. S \in SUBSET Nat /\ n \in S
    BY <1>1
  <2>2. BucketOf(a) = Min(S)
    BY DEF BucketOf
  <2> HIDE DEF S
  <2> QED
    BY <2>1, <2>2, MinIsLeast
<1>3. DurationsOf(arg) = (IF arg = 1 THEN 1 ELSE dur_list[arg - 1] + 1)
                           ..(IF arg = n THEN MaxAverage - 1 ELSE dur_list[arg])
  BY DEF DurationsOf
<1> HIDE DEF n
<1>4. ASSUME a < MaxAverage, BucketOf(a) = arg
      PROVE  a \in DurationsOf(arg)
  <2>1. arg # 1 => arg - 1 \in 1..n /\ ~(a <= dur_list[arg - 1])
    BY <1>1, <1>2, <1>4
  <2>2. arg # n => a <= dur_list[arg]
    BY <1>1, <1>2, <1>4
  <2> QED
    BY <1>1, <1>3, <1>4, <2>1, <2>2
<1>5. ASSUME a \in DurationsOf(arg)
      PROVE  a < MaxAverage /\ BucketOf(a) = arg
  <2>1. a < MaxAverage /\ arg \in S
    BY <1>1, <1>3, <1>5
  <2>2. ASSUME NEW m \in S PROVE arg <= m
    <3> SUFFICES ASSUME m < arg PROVE FALSE
      BY <1>1
    <3>1. m \in 1..n /\ a <= dur_list[m]
      BY <1>1
    <3>2. arg - 1 \in 1..n /\ dur_list[arg - 1] < a
      BY <1>1, <1>3, <1>5, <3>1
    <3>3. m < arg - 1 => dur_list[m] < dur_list[arg - 1]
      BY <1>1, <3>1, <3>2
    <3>4. dur_list[m] <= dur_list[arg - 1]
      BY <1>1, <3>1, <3>2, <3>3
    <3> QED
      BY <1>1, <3>1, <3>2, <3>4
  <2>3. BucketOf(a) <= arg /\ arg <= BucketOf(a) /\ BucketOf(a) \in Nat
    BY <1>1, <1>2, <2>1, <2>2
  <2> QED
    BY <1>1, <2>1, <2>3
<1> QED
  BY <1>4, <1>5

\* The invocations of an argument in a minute are a downscale-th of what its
\* bucket counts.
Part(tr, arg, minute) ==
  LET count == bucket(tr, arg, minute) IN
  {<<minute * MinuteLen + (n * MinuteLen * downscale) \div count, arg>> :
     n \in 0..(count \div downscale) - 1}

Sampling(tr, arg, minute) == bucket(tr, arg, minute) \div downscale

LEMMA PartCount ==
  ASSUME NEW tr \in Traces, NEW arg \in Args, NEW minute \in Minutes
  PROVE  /\ Sampling(tr, arg, minute) \in Nat
         /\ IsFiniteSet(Part(tr, arg, minute))
         /\ Cardinality(Part(tr, arg, minute)) = Sampling(tr, arg, minute)
         /\ \A x \in Part(tr, arg, minute) :
              /\ x[2] = arg
              /\ minute * MinuteLen <= x[1] /\ x[1] < minute * MinuteLen + MinuteLen
              /\ x[1] \in Nat
<1> DEFINE count == bucket(tr, arg, minute)
           q == count \div downscale
           base == minute * MinuteLen
           at(n) == (n * MinuteLen * downscale) \div count
           f == [n \in 0..q - 1 |-> <<base + at(n), arg>>]
<1>1. /\ count \in Nat /\ count <= MinuteLen * downscale
      /\ MinuteLen \in Nat \ {0} /\ downscale \in Nat \ {0}
  BY BucketCounts, TracesAssumption, ResolutionAssumption, GenAssumption DEF Counted
<1>2. q \in Nat /\ base \in Nat
  BY <1>1, Quotient DEF Minutes
<1>3. ASSUME NEW n \in 0..q - 1
      PROVE  at(n) \in Nat /\ at(n) < MinuteLen
  <2>1. /\ count \in Nat \ {0} /\ n * MinuteLen * downscale \in Nat
        /\ at(n) < MinuteLen
    BY <1>1, SpreadWithin
  <2> QED
    BY <2>1, Quotient
<1>4. ASSUME NEW n \in 0..q - 1, NEW m \in 0..q - 1, n < m
      PROVE  at(n) < at(m)
  <2> HIDE DEF count
  <2> QED
    BY <1>1, <1>4, SpreadApart
<1>5. Part(tr, arg, minute) = {f[n] : n \in 0..q - 1}
  BY DEF Part
<1> HIDE DEF count, q, base, at
<1>6. ASSUME NEW n \in 0..q - 1, NEW m \in 0..q - 1, f[n] = f[m]
      PROVE  n = m
  <2>1. base + at(n) = base + at(m)
    BY <1>6
  <2>2. at(n) = at(m)
    BY <1>2, <1>3, <2>1
  <2>3. ~(n < m) /\ ~(m < n)
    BY <1>3, <1>4, <2>2
  <2> QED
    BY <1>2, <2>3
<1>7. f \in Bijection(0..q - 1, {f[n] : n \in 0..q - 1})
  <2>1. f \in [0..q - 1 -> {f[n] : n \in 0..q - 1}]
    OBVIOUS
  <2> HIDE DEF f
  <2> QED
    BY <1>6, <2>1 DEF Bijection, Injection, Surjection, IsInjective
<1>8. IsFiniteSet(0..q - 1) /\ Cardinality(0..q - 1) = q
  <2>1. IsFiniteSet(0..q - 1) /\ Cardinality(0..q - 1)
          = IF 0 > q - 1 THEN 0 ELSE (q - 1) - 0 + 1
    <3>1. 0 \in Int /\ q - 1 \in Int
      BY <1>2
    <3> QED
      BY <3>1, FS_Interval
  <2> QED
    BY <1>2, <2>1
<1>9. /\ IsFiniteSet(Part(tr, arg, minute))
      /\ Cardinality(Part(tr, arg, minute)) = q
  <2>1. ExistsBijection(0..q - 1, Part(tr, arg, minute))
    BY <1>5, <1>7 DEF ExistsBijection
  <2> QED
    BY <1>8, <2>1, FS_Bijection
<1>10. ASSUME NEW x \in Part(tr, arg, minute)
       PROVE  x[2] = arg /\ base <= x[1] /\ x[1] < base + MinuteLen /\ x[1] \in Nat
  <2>1. PICK n \in 0..q - 1 : x = f[n]
    BY <1>5
  <2>2. x[2] = arg /\ x[1] = base + at(n)
    BY <2>1
  <2> QED
    BY <1>1, <1>2, <1>3, <2>2
<1> QED
  BY <1>2, <1>9, <1>10 DEF Sampling, q, count, base

\* Those of the two minutes do not meet.
LEMMA ItemsCount ==
  ASSUME NEW tr \in Traces, NEW arg \in Args
  PROVE  LET items == {x \in occur_time(tr) : x[2] = arg}
         IN /\ IsFiniteSet(items)
            /\ Cardinality(items) = Sampling(tr, arg, 0) + Sampling(tr, arg, 1)
<1> DEFINE items == {x \in occur_time(tr) : x[2] = arg}
           first == Part(tr, arg, 0)
           second == Part(tr, arg, 1)
<1>1. Minutes = {0, 1} /\ MinuteLen \in Nat
  BY GenAssumption DEF Minutes
<1>2. occur_time(tr) = UNION {Part(tr, b, minute) : b \in Args, minute \in Minutes}
  BY DEF occur_time, Part
<1>3. items = first \cup second
  <2>1. ASSUME NEW x \in items PROVE x \in first \cup second
    <3>1. PICK b \in Args, minute \in Minutes : x \in Part(tr, b, minute)
      BY <1>2
    <3>2. b = arg
      BY <3>1, PartCount
    <3> QED
      BY <1>1, <3>1, <3>2
  <2>2. ASSUME NEW x \in first \cup second PROVE x \in items
    BY <1>1, <1>2, PartCount
  <2> QED
    BY <2>1, <2>2
<1>4. first \cap second = {}
  <2> SUFFICES ASSUME NEW x \in first, x \in second PROVE FALSE
    OBVIOUS
  <2>1. x[1] < 0 * MinuteLen + MinuteLen /\ 1 * MinuteLen <= x[1] /\ x[1] \in Nat
    BY <1>1, PartCount
  <2> QED
    BY <1>1, <2>1
<1>5. /\ IsFiniteSet(first) /\ Cardinality(first) = Sampling(tr, arg, 0)
      /\ IsFiniteSet(second) /\ Cardinality(second) = Sampling(tr, arg, 1)
      /\ Sampling(tr, arg, 0) \in Nat /\ Sampling(tr, arg, 1) \in Nat
  BY <1>1, PartCount
<1> HIDE DEF items, first, second
<1>6. IsFiniteSet(items)
      /\ Cardinality(items) = Cardinality(first) + Cardinality(second) - Cardinality({})
  BY <1>3, <1>4, <1>5, FS_Union
<1> QED
  BY <1>5, <1>6, FS_EmptySet DEF items

\* Each of them is at one place of the sorted list.
LEMMA SortedCount ==
  ASSUME NEW tr \in Traces, NEW arg \in Args
  PROVE  LET places == {k \in 1..Len(sort_list(tr)) : sort_list(tr)[k][2] = arg}
         IN /\ IsFiniteSet(places)
            /\ Cardinality(places) = Sampling(tr, arg, 0) + Sampling(tr, arg, 1)
<1> DEFINE S == occur_time(tr)
           s == sort_list(tr)
           items == {x \in S : x[2] = arg}
           places == {k \in 1..Len(s) : s[k][2] = arg}
           f == [k \in places |-> s[k]]
<1>1. /\ Counted(tr) /\ Len(s) = Cardinality(S) /\ Len(s) \in Nat
      /\ \A k \in 1..Len(s) : s[k] \in S /\ Cardinality(Before(S, s[k])) = k - 1
  BY TracesAssumption, Sorted, LenProperties DEF Counted
<1>2. IsFiniteSet(S) /\ S \in SUBSET (Nat \X Nat)
  <2>1. Args \subseteq Nat
    BY GenAssumption DEF Args
  <2>2. Nat \X Args \subseteq Nat \X Nat
    BY <2>1
  <2>3. IsFiniteSet(S) /\ S \subseteq Nat \X Args
    BY <1>1, OccurTimes
  <2> HIDE DEF S
  <2> QED
    BY <2>2, <2>3
<1>3. /\ IsFiniteSet(items)
      /\ Cardinality(items) = Sampling(tr, arg, 0) + Sampling(tr, arg, 1)
  BY ItemsCount
<1> HIDE DEF S, s
<1>4. f \in Injection(places, items)
  <2>1. f \in [places -> items]
    BY <1>1
  <2>2. ASSUME NEW i \in places, NEW j \in places, f[i] = f[j] PROVE i = j
    BY <1>1, <2>2
  <2> HIDE DEF f
  <2> QED
    BY <2>1, <2>2 DEF Injection, IsInjective
<1>5. f \in Surjection(places, items)
  <2>1. ASSUME NEW x \in items PROVE \E k \in places : f[k] = x
    <3> DEFINE k == Cardinality(Before(S, x)) + 1
    <3>1. k \in 1..Len(s)
      <4>1. Before(S, x) \in SUBSET S /\ x \notin Before(S, x) /\ x \in S
        BY <1>2 DEF Before, InTimeOrder
      <4>2. /\ IsFiniteSet(Before(S, x))
            /\ Cardinality(Before(S, x)) <= Cardinality(S)
            /\ Cardinality(Before(S, x)) # Cardinality(S)
        BY <1>2, <4>1, FS_Subset
      <4>3. Cardinality(Before(S, x)) \in Nat
        BY <4>2, FS_CardinalityType
      <4> QED
        BY <1>1, <4>2, <4>3
    <3> HIDE DEF k
    <3>2. s[k] \in S /\ Cardinality(Before(S, s[k])) = k - 1
      BY <1>1, <3>1
    <3>3. Cardinality(Before(S, x)) = k - 1 /\ Cardinality(Before(S, x)) \in Nat
      <4>1. IsFiniteSet(Before(S, x))
        BY <1>2, FS_Subset DEF Before
      <4> QED
        BY <4>1, FS_CardinalityType DEF k
    <3>4. s[k] = x
      <4> SUFFICES ASSUME s[k] # x PROVE FALSE
        OBVIOUS
      <4>1. InTimeOrder(s[k], x) \/ InTimeOrder(x, s[k])
        BY <1>2, <3>2, TimeOrderTotal
      <4>2. Cardinality(Before(S, s[k])) # Cardinality(Before(S, x))
        BY <1>2, <3>2, <4>1, RankGrows
      <4> QED
        BY <3>2, <3>3, <4>2
    <3> QED
      BY <3>1, <3>4
  <2>2. f \in [places -> items]
    BY <1>1
  <2> HIDE DEF f
  <2> QED
    BY <2>1, <2>2 DEF Surjection
<1>6. IsFiniteSet(places) /\ Cardinality(places) = Cardinality(items)
  BY <1>3, <1>4, <1>5, FS_Injection
<1> QED
  BY <1>3, <1>6 DEF s

\* The workload has all but the last of them.
LEMMA WorkloadCount ==
  ASSUME NEW tr \in Traces, ~Raises(tr), NEW arg \in Args
  PROVE  /\ workload_counts(output_list(tr))[arg] \in Nat
         /\ workload_counts(output_list(tr))[arg]
              + (IF Last(sort_list(tr))[2] = arg THEN 1 ELSE 0)
            = Sampling(tr, arg, 0) + Sampling(tr, arg, 1)
<1> DEFINE s == sort_list(tr)
           n == Len(s)
           out == output_list(tr)
           places == {k \in 1..n : s[k][2] = arg}
           kept == {k \in DOMAIN out : out[k].arg = arg}
<1>1. Counted(tr) /\ n \in Nat
  BY TracesAssumption, Sorted, LenProperties DEF Counted
<1>2. out \in Seq(Entry) /\ Len(out) = n - 1 /\ Len(out) \in Nat
  BY <1>1, OutputList, LenProperties
<1>3. DOMAIN out = 1..n - 1 /\ \A k \in 1..n - 1 : out[k].arg = s[k][2]
  BY <1>2 DEF output_list
<1>4. IsFiniteSet(places)
      /\ Cardinality(places) = Sampling(tr, arg, 0) + Sampling(tr, arg, 1)
  BY SortedCount
<1>5. workload_counts(out)[arg] = Cardinality(kept) /\ Last(s) = s[n]
  BY DEF workload_counts, Last
<1> HIDE DEF s, out
<1>6. n \in 1..n /\ n \notin kept
  BY <1>1, <1>2, <1>3
<1> HIDE DEF n
<1>7. IsFiniteSet(kept) /\ Cardinality(kept) \in Nat
  <2>1. kept \subseteq places
    BY <1>1, <1>3
  <2> QED
    BY <1>4, <2>1, FS_Subset, FS_CardinalityType
<1>8. Cardinality(places) = Cardinality(kept) + IF s[n][2] = arg THEN 1 ELSE 0
  <2>1. CASE s[n][2] = arg
    <3>1. places = kept \cup {n}
      BY <1>1, <1>3, <1>6, <2>1
    <3> QED
      BY <1>6, <1>7, <2>1, <3>1, FS_AddElement
  <2>2. CASE s[n][2] # arg
    <3>1. places = kept
      BY <1>1, <1>3, <1>6, <2>2
    <3> HIDE DEF places, kept
    <3> QED
      BY <1>7, <2>2, <3>1
  <2> QED
    BY <2>1, <2>2
<1> HIDE DEF places, kept
<1> QED
  BY <1>4, <1>5, <1>7, <1>8 DEF s, out

\* Units that are counted by a key are as many as they are.
LEMMA GroupCount ==
  ASSUME NEW Z, IsFiniteSet(Z), NEW key \in [Z -> Nat],
         NEW N \in [Nat -> Nat],
         \A z \in Z : N[key[z]] = Cardinality({w \in Z : key[w] = key[z]})
  PROVE  Invoked({<<key[z], N[key[z]]>> : z \in Z}) = Cardinality(Z)
<1> DEFINE K == {key[z] : z \in Z}
           Of(a) == {w \in Z : key[w] = a}
           groups == {<<key[z], N[key[z]]>> : z \in Z}
           U == UNION {{g} \X (1..g[2]) : g \in groups}
           number == [a \in K |-> CHOOSE f : f \in Bijection(Of(a), 1..N[a])]
           h == [z \in Z |-> <<<<key[z], N[key[z]]>>, number[key[z]][z]>>]
<1>1. ASSUME NEW a \in K
      PROVE  number[a] \in Bijection(Of(a), 1..N[a])
  <2>1. IsFiniteSet(Of(a)) /\ Cardinality(Of(a)) = N[a] /\ N[a] \in Nat
    <3>1. Of(a) \in SUBSET Z
      OBVIOUS
    <3> QED
      BY <3>1, FS_Subset
  <2>2. IsFiniteSet(1..N[a]) /\ Cardinality(1..N[a]) = N[a]
    <3>1. 1 \in Int /\ N[a] \in Int
      BY <2>1
    <3>2. IsFiniteSet(1..N[a])
          /\ Cardinality(1..N[a]) = IF 1 > N[a] THEN 0 ELSE N[a] - 1 + 1
      <4> HIDE DEF K
      <4> QED
        BY <3>1, FS_Interval
    <3> QED
      BY <2>1, <3>2
  <2>3. Bijection(Of(a), 1..N[a]) # {}
    BY <2>1, <2>2, FS_SameCardinalityBij DEF ExistsBijection
  <2> QED
    BY <2>3
<1> HIDE DEF number
<1>2. ASSUME NEW z \in Z
      PROVE  /\ key[z] \in K /\ z \in Of(key[z])
             /\ number[key[z]][z] \in 1..N[key[z]]
  <2>1. key[z] \in K /\ z \in Of(key[z])
    OBVIOUS
  <2> HIDE DEF K, Of
  <2> QED
    BY <1>1, <2>1 DEF Bijection, Injection
<1>3. h \in [Z -> U]
  <2>1. ASSUME NEW z \in Z PROVE h[z] \in U
    <3>1. <<key[z], N[key[z]]>> \in groups
      OBVIOUS
    <3>2. h[z] = <<<<key[z], N[key[z]]>>, number[key[z]][z]>>
      OBVIOUS
    <3> HIDE DEF groups, h
    <3> QED
      BY <1>2, <3>1, <3>2
  <2> QED
    BY <2>1
<1>4. ASSUME NEW z \in Z, NEW w \in Z, h[z] = h[w]
      PROVE  z = w
  <2>1. key[z] = key[w] /\ number[key[z]][z] = number[key[w]][w]
    BY <1>4
  <2>2. z \in Of(key[z]) /\ w \in Of(key[z]) /\ key[z] \in K
    BY <1>2, <2>1
  <2> HIDE DEF K, Of, h
  <2> QED
    BY <1>1, <2>1, <2>2 DEF Bijection, Injection, IsInjective
<1>5. ASSUME NEW u \in U
      PROVE  \E z \in Z : h[z] = u
  <2>1. PICK g \in groups : u \in {g} \X (1..g[2])
    OBVIOUS
  <2>2. PICK y \in Z : g = <<key[y], N[key[y]]>>
    BY <2>1
  <2>3. u = <<g, u[2]>> /\ u[2] \in 1..N[key[y]]
    BY <2>1, <2>2
  <2>4. PICK z \in Of(key[y]) : number[key[y]][z] = u[2]
    <3>1. key[y] \in K
      BY <1>2
    <3> HIDE DEF K, Of
    <3> QED
      BY <1>1, <2>3, <3>1 DEF Bijection, Surjection
  <2>5. z \in Z /\ key[z] = key[y]
    OBVIOUS
  <2> QED
    BY <2>2, <2>3, <2>4, <2>5
<1>6. h \in Bijection(Z, U)
  <2> HIDE DEF h, U
  <2> QED
    BY <1>3, <1>4, <1>5 DEF Bijection, Injection, Surjection, IsInjective
<1>7. Cardinality(U) = Cardinality(Z)
  <2> HIDE DEF U
  <2> QED
    BY <1>6, FS_Bijection DEF ExistsBijection
<1> QED
  BY <1>7 DEF Invoked

\* Those of both minutes.
Both(rows) == (Units(rows, 0) \X {0}) \cup (Units(rows, 1) \X {1})

LEMMA BothCount ==
  ASSUME NEW tr, Counted(tr), NEW rows \in SUBSET (tr.dur \X tr.inv)
  PROVE  /\ IsFiniteSet(Both(rows))
         /\ Cardinality(Both(rows)) = Occurrences(rows, 0) + Occurrences(rows, 1)
         /\ Cardinality(Both(rows)) \in Nat
<1> DEFINE tagged(minute) == Units(rows, minute) \X {minute}
<1>1. ASSUME NEW minute \in Minutes
      PROVE  /\ IsFiniteSet(tagged(minute))
             /\ Cardinality(tagged(minute)) = Occurrences(rows, minute)
             /\ Occurrences(rows, minute) \in Nat
  <2>1. IsFiniteSet({minute}) /\ Cardinality({minute}) = 1
    BY FS_Singleton
  <2>2. /\ IsFiniteSet(Units(rows, minute)) /\ Occurrences(rows, minute) \in Nat
        /\ Cardinality(Units(rows, minute)) = Occurrences(rows, minute)
    BY UnitsFinite
  <2>3. /\ IsFiniteSet(tagged(minute))
        /\ Cardinality(tagged(minute)) = Cardinality(Units(rows, minute)) * Cardinality({minute})
    BY <2>1, <2>2, FS_Product
  <2> HIDE DEF tagged
  <2> QED
    BY <2>1, <2>2, <2>3
<1>2. 0 \in Minutes /\ 1 \in Minutes
  BY DEF Minutes
<1>3. tagged(0) \cap tagged(1) = {} /\ Both(rows) = tagged(0) \cup tagged(1)
  BY DEF Both
<1> HIDE DEF tagged
<1>4. /\ IsFiniteSet(tagged(0)) /\ Cardinality(tagged(0)) = Occurrences(rows, 0)
      /\ IsFiniteSet(tagged(1)) /\ Cardinality(tagged(1)) = Occurrences(rows, 1)
      /\ Occurrences(rows, 0) \in Nat /\ Occurrences(rows, 1) \in Nat
  BY <1>1, <1>2
<1>5. /\ IsFiniteSet(Both(rows))
      /\ Cardinality(Both(rows))
           = Cardinality(tagged(0)) + Cardinality(tagged(1)) - Cardinality({})
  BY <1>3, <1>4, FS_Union
<1> QED
  BY <1>4, <1>5, FS_EmptySet

\* The rows df_2min groups by their average.
AllRows(tr) == {row \in tr.dur \X tr.inv : row[1].fn = row[2].fn /\ row[1].avg > 0}
Same(tr, avg) == {row \in AllRows(tr) : row[1].avg = avg}
CountOf(tr, avg) == Occurrences(Same(tr, avg), 0) + Occurrences(Same(tr, avg), 1)

\* What they count for the durations of an argument is what its buckets count.
LEMMA AzureCount ==
  ASSUME NEW tr \in Traces, NEW arg \in Args
  PROVE  Invoked({group \in df_2min(tr) : group[1] \in DurationsOf(arg)})
           = bucket(tr, arg, 0) + bucket(tr, arg, 1)
<1> DEFINE rows == {row \in Merged(tr) : BucketOf(row[1].avg) = arg}
           Z == Both(rows)
           key == [z \in Z |-> z[1][1][1].avg]
           N == [a \in Nat |-> CountOf(tr, a)]
<1>1. Counted(tr) /\ \A row \in tr.dur : row.avg \in Nat
  BY TracesAssumption, ResolutionAssumption DEF Counted
<1>2. rows = {row \in AllRows(tr) : row[1].avg \in DurationsOf(arg)}
  <2>1. ASSUME NEW row \in AllRows(tr)
        PROVE  /\ row \in Merged(tr) <=> row[1].avg < MaxAverage
               /\ row[1].avg \in Nat \ {0}
    BY <1>1 DEF AllRows, Merged
  <2>2. ASSUME NEW row \in AllRows(tr)
        PROVE  row \in rows <=> row[1].avg \in DurationsOf(arg)
    BY <2>1, BucketIsRange
  <2>3. rows \subseteq AllRows(tr)
    BY DEF AllRows, Merged
  <2> QED
    BY <2>2, <2>3
<1>3. rows \in SUBSET (tr.dur \X tr.inv)
  BY DEF Merged
<1>4. /\ IsFiniteSet(Z) /\ Cardinality(Z) = Occurrences(rows, 0) + Occurrences(rows, 1)
  BY <1>1, <1>3, BothCount
<1>5. ASSUME NEW a \in Nat
      PROVE  /\ N[a] \in Nat
             /\ N[a] = Cardinality(Both(Same(tr, a)))
             /\ IsFiniteSet(Both(Same(tr, a)))
  <2>1. Same(tr, a) \in SUBSET (tr.dur \X tr.inv)
    BY DEF Same, AllRows
  <2> QED
    BY <1>1, <2>1, BothCount DEF CountOf
<1> HIDE DEF N, rows
<1>6. ASSUME NEW z \in Z
      PROVE  z[1][1] \in rows /\ key[z] = z[1][1][1].avg
  BY DEF Both, Units
<1>7. ASSUME NEW z \in Z
      PROVE  key[z] \in Nat /\ key[z] \in DurationsOf(arg) /\ z[1][1] \in Same(tr, key[z])
  <2>1. z[1][1] \in AllRows(tr) /\ z[1][1][1].avg \in DurationsOf(arg)
    BY <1>2, <1>6
  <2>2. z[1][1][1] \in tr.dur
    BY <2>1 DEF AllRows
  <2> QED
    BY <1>1, <1>6, <2>1, <2>2 DEF Same
<1>8. ASSUME NEW a \in DurationsOf(arg)
      PROVE  {w \in Z : key[w] = a} = Both(Same(tr, a))
  <2>1. ASSUME NEW w \in Z, key[w] = a
        PROVE  w \in Both(Same(tr, a))
    <3>1. w[1][1] \in Same(tr, a)
      BY <1>7, <2>1
    <3> QED
      BY <3>1 DEF Both, Units
  <2>2. ASSUME NEW w \in Both(Same(tr, a))
        PROVE  w \in Z /\ key[w] = a
    <3>1. w[1][1] \in Same(tr, a)
      BY DEF Both, Units
    <3>2. w[1][1] \in rows /\ w[1][1][1].avg = a
      BY <1>2, <3>1 DEF Same
    <3>3. w \in Z
      BY <3>2 DEF Both, Units
    <3> QED
      BY <1>6, <3>2, <3>3
  <2> QED
    BY <2>1, <2>2
<1> HIDE DEF Z
<1>9. /\ key \in [Z -> Nat] /\ N \in [Nat -> Nat]
      /\ \A z \in Z : N[key[z]] = Cardinality({w \in Z : key[w] = key[z]})
  <2>1. key \in [Z -> Nat]
    BY <1>7
  <2>2. N \in [Nat -> Nat]
    BY <1>5 DEF N
  <2> HIDE DEF key
  <2> QED
    BY <1>5, <1>7, <1>8, <2>1, <2>2
<1>10. {group \in df_2min(tr) : group[1] \in DurationsOf(arg)}
         = {<<key[z], N[key[z]]>> : z \in Z}
  <2>1. df_2min(tr) = {group \in {<<row[1].avg, CountOf(tr, row[1].avg)>> :
                                    row \in AllRows(tr)} : group[2] > 0}
    BY DEF df_2min, AllRows, Same, CountOf
  <2>2. ASSUME NEW group \in df_2min(tr), group[1] \in DurationsOf(arg)
        PROVE  group \in {<<key[z], N[key[z]]>> : z \in Z}
    <3>1. PICK row \in AllRows(tr) :
            group = <<row[1].avg, CountOf(tr, row[1].avg)>> /\ group[2] > 0
      BY <2>1
    <3> DEFINE a == row[1].avg
    <3>2. a \in Nat /\ a \in DurationsOf(arg) /\ N[a] = group[2] /\ group = <<a, N[a]>>
      BY <1>1, <2>2, <3>1 DEF AllRows, N
    <3> HIDE DEF a
    <3>3. Both(Same(tr, a)) # {}
      BY <1>5, <3>1, <3>2, FS_EmptySet
    <3>4. PICK z \in Z : key[z] = a
      BY <1>8, <3>2, <3>3
    <3> QED
      BY <3>2, <3>4
  <2>3. ASSUME NEW z \in Z
        PROVE  /\ <<key[z], N[key[z]]>> \in df_2min(tr)
               /\ key[z] \in DurationsOf(arg)
    <3>1. z[1][1] \in AllRows(tr) /\ z[1][1][1].avg = key[z]
          /\ N[key[z]] = CountOf(tr, key[z])
      BY <1>7 DEF Same, N
    <3>2. z \in Both(Same(tr, key[z])) /\ key[z] \in Nat /\ key[z] \in DurationsOf(arg)
      BY <1>7, <1>8
    <3> HIDE DEF key
    <3>3. N[key[z]] \in Nat /\ N[key[z]] # 0
      BY <1>5, <3>2, FS_EmptySet
    <3> QED
      BY <2>1, <3>1, <3>2, <3>3
  <2> HIDE DEF key
  <2> QED
    BY <2>2, <2>3
<1> HIDE DEF key
<1>11. Invoked({<<key[z], N[key[z]]>> : z \in Z}) = Cardinality(Z)
  BY <1>4, <1>9, GroupCount
<1> QED
  BY <1>4, <1>10, <1>11 DEF bucket, rows

\* For every trace, table of durations and scale, the workload has of each
\* argument a downscale-th of the trace's invocations of its durations, but for
\* a part of a downscaled invocation in each minute and the last one of all.
THEOREM MixKept == Spec => []CountsKept
<1>1. TraceKnown => CountsKept
  <2> SUFFICES ASSUME TraceKnown, trace # NoFile, NEW arg \in Args
               PROVE  LET azure == Invoked({group \in df_2min(trace) :
                                              group[1] \in DurationsOf(arg)})
                          sampled == workload_counts(generated)[arg]
                          left == IF Last(sort_list(trace))[2] = arg THEN 1 ELSE 0
                      IN /\ (sampled + left) * downscale <= azure
                         /\ azure < (sampled + left + 2) * downscale
    BY DEF CountsKept
  <2> DEFINE azure == Invoked({group \in df_2min(trace) : group[1] \in DurationsOf(arg)})
             sampled == workload_counts(generated)[arg]
             left == IF Last(sort_list(trace))[2] = arg THEN 1 ELSE 0
             c == bucket(trace, arg, 0)
             d == bucket(trace, arg, 1)
  <2>1. trace \in Traces /\ ~Raises(trace) /\ generated = output_list(trace)
    BY DEF TraceKnown
  <2>2. azure = c + d
    BY <2>1, AzureCount
  <2>3. sampled + left = c \div downscale + d \div downscale
    BY <2>1, WorkloadCount DEF Sampling
  <2>4. c \in Nat /\ d \in Nat /\ downscale \in Nat \ {0}
    BY <2>1, BucketCounts, TracesAssumption, GenAssumption DEF Counted, Minutes
  <2> HIDE DEF azure, sampled, left, c, d
  <2> DEFINE p == c \div downscale
             q == d \div downscale
  <2>5. p \in Nat /\ p * downscale <= c /\ c < p * downscale + downscale
    BY <2>4, Quotient, Remainder
  <2>6. q \in Nat /\ q * downscale <= d /\ d < q * downscale + downscale
    BY <2>4, Quotient, Remainder
  <2>7. sampled + left = p + q
    BY <2>3
  <2> HIDE DEF p, q
  <2>8. (p + q) * downscale = p * downscale + q * downscale
        /\ (p + q + 2) * downscale = p * downscale + q * downscale + downscale + downscale
        /\ p * downscale \in Nat /\ q * downscale \in Nat
    BY <2>4, <2>5, <2>6
  <2>9. (p + q) * downscale <= azure /\ azure < (p + q + 2) * downscale
    BY <2>2, <2>4, <2>5, <2>6, <2>8
  <2>10. (sampled + left) * downscale <= azure /\ azure < (sampled + left + 2) * downscale
    BY <2>7, <2>9
  <2> QED
    BY <2>10 DEF azure, sampled, left
<1> QED
  BY <1>1, TypedAlways, PTL DEF Typed
===============================================================================
