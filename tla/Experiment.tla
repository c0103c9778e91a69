------------------------------ MODULE Experiment ------------------------------
(***************************************************************************)
(* An experiment: gen_workload.py writes the workload, run_experiment.sh   *)
(* measures it twice, with ftrace and with perf, and may cut it to its     *)
(* first lines for a test; a run of the executor is that of Simulation.    *)
(*                                                                         *)
(* A workload file holds the sequence of its entries, or is NoFile.        *)
(***************************************************************************)
EXTENDS GenWorkload, Simulation, SequencesExt

CONSTANTS
    Traces,     \* the traces gen_workload.py is given
    TestLines,  \* the lines a test keeps
    NoFile,
    MaxGens, MaxRuns,     \* bounds: workloads generated, experiments started
    MaxCrashes, MaxTerms  \* bounds: crashes, signals that are handled

ASSUME ExperimentAssumption ==
    {TestLines, MaxGens, MaxRuns, MaxCrashes, MaxTerms} \subseteq Nat

\* A trace counts the invocations of finitely many functions.
ASSUME TracesAssumption ==
    \A tr \in Traces :
      /\ IsFiniteSet(tr.dur) /\ IsFiniteSet(tr.inv)
      /\ \A row \in tr.inv, minute \in Minutes : row.occ[minute + 1] \in Nat

\* Averages are whole numbers, all durations are below the limit, and a unit of
\* time is so short that no two invocations of an argument fall into the same.
ASSUME ResolutionAssumption ==
    /\ \A arg \in Args : dur_list[arg] < MaxAverage
    /\ \A tr \in Traces :
         /\ \A row \in tr.dur : row.avg \in Nat
         /\ \A arg \in Args, minute \in Minutes :
               bucket(tr, arg, minute) <= MinuteLen * downscale

\* No workload that is generated is taken for a missing file.
ASSUME NoFileAssumption == \A tr \in Traces : output_list(tr) # NoFile

VARIABLES
    pc,         \* the next command of run_experiment.sh
    test,       \* it was given --test
    trapped,    \* restore_workload is set as the handler
    pending,    \* a signal waits for the running command to end
    cwd,
    dur,        \* dataset/workload_dur.txt
    original,   \* dataset/workload_dur_original.txt
    home,       \* the copy of dur in the home directory, which is executed
    gen_stats,  \* runners/tmp/gen_stats.txt: the runs that wrote a line
    cpu_util,   \* and the CPU samples: the runs they are from
    gens, runs, crashes, terms,
    \* What is known about it from outside.
    trace, generated,  \* the last workload that was generated, and from what
    cut,        \* a test was cut off before it could restore the workload
    stale,      \* a test was started on something else than this workload
    early       \* the workload was restored before it was copied

files == <<dur, original, home>>
logs == <<gen_stats, cpu_util>>
counts == <<gens, runs, crashes, terms>>
ghosts == <<trace, generated, cut, stale, early>>
vars == <<pc, test, trapped, pending, cwd, files, logs, counts, ghosts, simVars>>

TypeOK ==
    /\ pc \in {"idle", "cp", "head", "mv", "trap", "sync", "cd", "ftrace",
               "perf", "back"}
    /\ {test, trapped, pending, cut, stale, early} \subseteq BOOLEAN
    /\ trapped => test
    /\ cwd \in {"loadgen", "runners"}
    /\ \A f \in {dur, original, home, generated} :
          f = NoFile \/ f \in Seq([iat : Nat, arg : Args])
    /\ lines \in Seq([iat : Nat, arg : Args])
    /\ gen_stats \in Seq(1..MaxRuns) /\ cpu_util \subseteq 1..MaxRuns
    /\ SimTypeOK

Init ==
    /\ pc = "idle" /\ test = FALSE /\ trapped = FALSE /\ pending = FALSE
    /\ cwd = "loadgen"
    /\ dur = NoFile /\ original = NoFile /\ home = NoFile
    /\ gen_stats = <<>> /\ cpu_util = {}
    /\ gens = 0 /\ runs = 0 /\ crashes = 0 /\ terms = 0
    /\ trace = NoFile /\ generated = NoFile
    /\ cut = FALSE /\ stale = FALSE /\ early = FALSE
    /\ Off

-------------------------------------------------------------------------------

\* gen_workload.py is run between the experiments.
Generate(tr) ==
    /\ pc = "idle" /\ gens < MaxGens
    /\ gens' = gens + 1
    /\ IF Raises(tr) THEN UNCHANGED <<dur, trace, generated, stale>>
       ELSE /\ dur' = output_list(tr)
            /\ trace' = tr /\ generated' = dur' /\ stale' = FALSE
    /\ UNCHANGED <<pc, test, trapped, pending, cwd, original, home, logs, runs,
                   crashes, terms, cut, early, simVars>>

\* run_experiment.sh is started, with --test or without.
Begin(t) ==
    /\ pc = "idle" /\ runs < MaxRuns
    /\ runs' = runs + 1
    /\ pc' = IF t THEN "cp" ELSE "sync"
    /\ test' = t /\ cwd' = "loadgen" /\ early' = FALSE
    /\ stale' = (stale \/ (t /\ dur # generated))
    /\ cut' = (cut /\ ~(t /\ dur = generated))
    /\ UNCHANGED <<trapped, pending, files, logs, gens, crashes, terms, trace,
                   generated, simVars>>

\* restore_workload.
RestoreNothing == UNCHANGED <<dur, original>>
Restore ==
    IF original = NoFile THEN UNCHANGED <<dur, original>>
    ELSE dur' = original /\ original' = NoFile

\* The script ends; a handler that is set runs before.
End ==
    /\ pc' = "idle" /\ test' = FALSE /\ trapped' = FALSE /\ pending' = FALSE
    /\ IF trapped THEN Restore ELSE UNCHANGED <<dur, original>>
    /\ UNCHANGED <<cwd, home>>

\* A command can start when no signal is to be handled.
At(command) == pc = command /\ ~pending /\ sim = "off"
Unmoved == UNCHANGED <<test, pending, logs, counts, ghosts, simVars>>

\* head -n.
HeadOf(file) == SubSeq(file, 1, IF Len(file) < TestLines THEN Len(file) ELSE TestLines)

\* The first command fails if there is no workload.
SavedHead == HeadOf(dur)
Saved == dur
Copy ==
    /\ At("cp")
    /\ IF dur = NoFile THEN End
       ELSE /\ original' = Saved
            /\ pc' = "head"
            /\ UNCHANGED <<test, pending, trapped, cwd, dur, home>>
    /\ UNCHANGED <<logs, counts, ghosts, simVars>>

\* head into a file that is then moved over the workload.
HeadLines ==
    /\ At("head") /\ pc' = "mv"
    /\ UNCHANGED <<trapped, cwd, files>> /\ Unmoved
TestMove ==
    /\ At("mv") /\ pc' = "trap"
    /\ dur' = HeadOf(dur)
    /\ UNCHANGED <<trapped, cwd, original, home>> /\ Unmoved
SetTrap ==
    /\ At("trap") /\ pc' = "sync"
    /\ trapped' = TRUE
    /\ UNCHANGED <<cwd, files>> /\ Unmoved

\* rsync --delete: home is a copy of the shared directory, which has no
\* runners/tmp.
SyncKeepsLogs == UNCHANGED logs
SyncLogs == gen_stats' = <<>> /\ cpu_util' = {}
Sync ==
    /\ At("sync") /\ pc' = "cd"
    /\ home' = dur
    /\ SyncLogs
    /\ UNCHANGED <<test, trapped, pending, cwd, dur, original, counts, ghosts,
                   simVars>>
ChangeDir ==
    /\ At("cd") /\ pc' = "ftrace"
    /\ cwd' = "runners"
    /\ UNCHANGED <<trapped, files>> /\ Unmoved

\* Both runs execute the copy; the CPU is monitored in the first.
InputShared == dur
Input == home
Measure ==
    /\ pc \in {"ftrace", "perf"} /\ At(pc)
    /\ cwd = "runners" /\ home # NoFile
    /\ Start(Input, pc = "ftrace")
    /\ UNCHANGED <<pc, test, trapped, pending, cwd, files, logs, counts, ghosts>>

\* The total time and the samples are appended to their files.
Measured ==
    /\ sim = "done"
    /\ pc' = IF pc = "ftrace" THEN "perf" ELSE "back"
    /\ gen_stats' = IF pc = "perf" THEN Append(gen_stats, runs) ELSE gen_stats
    /\ cpu_util' = IF written = {} THEN cpu_util ELSE cpu_util \cup {runs}
    /\ Leave
    /\ UNCHANGED <<test, trapped, pending, cwd, files, counts, ghosts>>

SyncBack ==
    /\ At("back") /\ End
    /\ UNCHANGED <<logs, counts, ghosts, simVars>>

-------------------------------------------------------------------------------
(* What may come between. *)

\* set -e: the runs fail when they are not found, or find no workload; the
\* script ends, and its handler runs ...
NotRunnable ==
    /\ pc \in {"ftrace", "perf"} /\ At(pc)
    /\ cwd # "runners" \/ home = NoFile
    /\ End
    /\ UNCHANGED <<logs, counts, ghosts, simVars>>

\* ... as they do when any command fails once the handler is set, or is
\* interrupted with the script.  What fails before that is in Crash.
Fail ==
    /\ pc # "idle" /\ (trapped \/ ~test) /\ crashes < MaxCrashes
    /\ crashes' = crashes + 1
    /\ End /\ Leave
    /\ UNCHANGED <<logs, gens, runs, terms, ghosts>>

\* The machine goes down, or the script ends before its handler is set.
Crash ==
    /\ pc # "idle" /\ crashes < MaxCrashes
    /\ crashes' = crashes + 1
    /\ pc' = "idle" /\ test' = FALSE /\ trapped' = FALSE /\ pending' = FALSE
    /\ cut' = (cut \/ test)
    /\ Leave
    /\ UNCHANGED <<cwd, files, logs, gens, runs, terms, trace, generated, stale,
                   early>>

\* A signal with a handler, which the command that runs survives.
Signal ==
    /\ trapped /\ ~pending /\ terms < MaxTerms
    /\ pending' = TRUE
    /\ terms' = terms + 1
    /\ UNCHANGED <<pc, test, trapped, cwd, files, logs, gens, runs, crashes,
                   ghosts, simVars>>

\* The handler runs when the command has ended, and the script goes on.
Handle ==
    /\ pending /\ sim = "off"
    /\ pending' = FALSE
    /\ Restore
    /\ cwd' = "loadgen"
    /\ early' = (early \/ pc = "sync")
    /\ UNCHANGED <<pc, test, trapped, home, logs, counts, trace, generated, cut,
                   stale, simVars>>

\* The steps of the executor that runs.
Execute ==
    /\ SimStep
    /\ UNCHANGED <<pc, test, trapped, pending, cwd, files, logs, counts, ghosts>>

Done == pc = "idle" /\ runs = MaxRuns /\ UNCHANGED vars

Next ==
    \/ \E tr \in Traces : Generate(tr)
    \/ \E t \in BOOLEAN : Begin(t)
    \/ Copy \/ HeadLines \/ TestMove \/ SetTrap \/ Sync \/ ChangeDir
    \/ Measure \/ Measured \/ SyncBack
    \/ NotRunnable \/ Fail \/ Crash \/ Signal \/ Handle
    \/ Execute
    \/ Done

Spec == Init /\ [][Next]_vars

-------------------------------------------------------------------------------
(* The workload that is generated. *)

\* What the gaps of a workload add up to, for each of its entries.
Gaps(file) ==
    LET sum[k \in 0..Len(file)] == IF k = 0 THEN 0 ELSE sum[k - 1] + file[k].iat
    IN sum

\* The durations that belong to an argument: above the one before.
DurationsOf(arg) ==
    (IF arg = 1 THEN 1 ELSE dur_list[arg - 1] + 1)
    ..(IF arg = Len(dur_list) THEN MaxAverage - 1 ELSE dur_list[arg])

\* The invocations that groups of df_2min count.
Invoked(groups) == Cardinality(UNION {{group} \X (1..group[2]) : group \in groups})

\* Sampling keeps the mix of durations: what compare_workload_to_azure.py
\* counts for an argument is, but for a part of a downscaled invocation in
\* each minute and the last invocation of all, a downscale-th of the
\* invocations of that duration in the trace.
CountsKept ==
    pc = "idle" /\ trace # NoFile =>
      \A arg \in Args :
        LET azure == Invoked({group \in df_2min(trace) : group[1] \in DurationsOf(arg)})
            sampled == workload_counts(generated)[arg]
            left == IF Last(sort_list(trace))[2] = arg THEN 1 ELSE 0
        IN /\ (sampled + left) * downscale <= azure
           /\ azure < (sampled + left + 2) * downscale

\* The gaps of the generated workload up to an entry.
Offset(k) == Gaps(generated)[k]

\* The replay never leads the trace: when an entry is due, its invocation and
\* all those before it had occurred.
NotAheadOfTrace ==
    pc = "idle" /\ trace # NoFile =>
      \A k \in DOMAIN generated :
        Cardinality({x \in occur_time(trace) : x[1] <= Offset(k)}) >= k

\* An entry is put at the time its invocation has in the trace, or as much
\* later as the main thread may be: "the time difference between each item,
\* which is the inter-arrival time" (gen_workload.py).
LaunchedWhenDue ==
    sim # "off" /\ lines = generated =>
      \A k \in DOMAIN launches :
        launches[k] - start_simulation <= sort_list(trace)[k][1] + k * Late

-------------------------------------------------------------------------------
(* The test mode. *)

\* Until a test is started on a workload that an earlier one left cut, the
\* generated workload is in one of both files, whatever happens when.
WorkloadKept ==
    trace # NoFile /\ ~stale => generated \in {dur, original}

\* A script that ends restores the workload, and leaves no second one that a
\* later exit could put in its place, unless it is cut off before its handler
\* is set or with the machine.
RestoredAtEnd ==
    pc = "idle" /\ ~cut => dur = generated /\ original = NoFile

\* Both runs of an experiment execute what was asked for: the workload last
\* generated, or in a test its first lines -- unless a test was cut off, or a
\* signal restored the workload before it was copied.
Asked == IF test THEN HeadOf(generated) ELSE generated
MeasuredAsAsked ==
    sim # "off" /\ ~cut /\ ~early => lines = Asked

\* The files a run appends to hold nothing of another experiment, although
\* they have the same names and an experiment may end before they are moved.
LogsOfThisRun ==
    pc \in {"ftrace", "perf", "back"} =>
        gen_stats \in {<<>>, <<runs>>} /\ cpu_util \subseteq {runs}

-------------------------------------------------------------------------------
(* A run. *)

\* Lateness does not add up: an entry is put no earlier than its gaps add up
\* to, and no later than the main thread may be, after that time or after the
\* entry before, if this was late.
Due(k) == start_simulation + Gaps(lines)[k]
NoDrift ==
    \A k \in DOMAIN launches :
      LET base == IF k > 1 /\ launches[k - 1] > Due(k) THEN launches[k - 1]
                  ELSE Due(k)
      IN Due(k) <= launches[k] /\ launches[k] <= base + Late

\* The file holds every sample that was begun within the simulation and no other;
\* if the monitor was not waited for to its end, the sample it was in the making
\* of may be missed, or, begun after the simulation, slip in behind the filter.
SamplesComplete ==
    sim = "done" /\ cpu_log =>
      LET within == {ts \in begun : start_simulation <= ts /\ ts <= end_simulation}
      IN /\ Cardinality((within \ written) \cup (written \ within)) <= 1
         /\ now < end_simulation + JoinTimeout => written = within
===============================================================================
