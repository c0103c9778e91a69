------------------------------ MODULE ParseTrace ------------------------------
(***************************************************************************)
(* The trace parsers: parse_trace.py, which finds the lines of every       *)
(* process of the workload in a scheduler trace and takes its times from   *)
(* them, and parse_from_workload_events.py, which repeats the second half  *)
(* from the file the first one leaves.                                     *)
(*                                                                         *)
(* Processes are looked up by the decimal digits of their pid: in a line   *)
(* anywhere (Within), in the fields of an event from their start (Prefix). *)
(* The parser looks at a line at a time and once, so it reads the line     *)
(* here when the kernel emits it.  A timestamp is the number of the line.  *)
(***************************************************************************)
EXTENDS Integers, FiniteSets, Sequences

CONSTANTS
    Pids,
    Launcher,    \* whatever else runs: the launcher, a waker, the idle task
    PidFile,     \* pairs of an argument and a pid, workload_pids
    Within,      \* <<p, q>>: the digits of p are found in those of q
    Prefix,      \* <<p, q>>: the digits of q start with those of p
    MaxLines,    \* bound: lines of the trace
    MaxLost      \* bound: lines the tracer drops

WorkPids == {entry[2] : entry \in PidFile}

ASSUME TraceAssumption ==
    /\ WorkPids \subseteq Pids /\ Launcher \notin Pids
    /\ Prefix \subseteq Within /\ Within \subseteq Pids \X Pids
    /\ \A p \in Pids : <<p, p>> \in Prefix
    /\ {MaxLines, MaxLost} \subseteq Nat

VARIABLES
    now,              \* lines emitted
    alive, oncpu,     \* the processes, and those that run
    lives,            \* how often a pid was given out
    life,             \* what really happened in the first life of a pid
    lost,             \* the pids whose lines were dropped
    lostEnd,          \* those whose first exit was among them
    drops,
    pc,
    pids_str,         \* the pids still looked for
    workload_events,  \* their events; a key exists with its first event
    events_out,       \* the file workload_events.out
    times, again      \* the results of the two parsers

kernelVars == <<now, alive, oncpu, lives, life, lost, lostEnd, drops>>
resultVars == <<events_out, times, again>>
vars == <<kernelVars, pc, pids_str, workload_events, resultVars>>

None == 0
Unknown == [start |-> None, first |-> None, exit |-> None, migrations |-> -1]
NoLife == [Unknown EXCEPT !.migrations = 0]
NoTimes == [start |-> None, latency |-> None, exit |-> None, migrations |-> -1]

Init ==
    /\ now = 0 /\ alive = {} /\ oncpu = {}
    /\ lives = [p \in Pids |-> 0] /\ life = [p \in Pids |-> NoLife]
    /\ lost = {} /\ lostEnd = {} /\ drops = 0
    /\ pc = "read"
    /\ pids_str = WorkPids
    /\ workload_events = [p \in WorkPids |-> <<>>]
    /\ events_out = [p \in WorkPids |-> <<>>]
    /\ times = [p \in WorkPids |-> NoTimes]
    /\ again = [p \in WorkPids |-> NoTimes]

-------------------------------------------------------------------------------
(* parse_ftrace. *)

\* An event is kept for a pid whose digits are in its head or its details; the
\* head repeats a pid of the details.
Mentions(e, p) == \E q \in {e.pid, e.next} : <<p, q>> \in Within

\* f"pid={pid_str} ": with the blank, exactly this pid.
ExitOfAny(e, p) == e.type = "sched_process_exit" /\ Mentions(e, p)
ExitOf(e, p) == e.type = "sched_process_exit" /\ e.pid = p

\* The pids are tried in the order of a set.  The exit of one of them takes it
\* out of the search and ends the round: those that come later miss the line.
Kept(e) ==
    LET found == {p \in pids_str : Mentions(e, p)}
        exits == {p \in found : ExitOf(e, p)}
    IN IF exits = {} THEN {found}
       ELSE {S \in SUBSET found : S \cap exits # {}}

Read(e) ==
    \E K \in Kept(e) :
      /\ workload_events' = [p \in WorkPids |->
            IF p \in K THEN Append(workload_events[p], e)
            ELSE workload_events[p]]
      /\ pids_str' = pids_str \ {p \in K : ExitOf(e, p)}

\* A line of the trace.
Event(type, pid, next, ts) == [type |-> type, pid |-> pid, next |-> next, ts |-> ts]

\* A line about p reaches the parser, or the tracer drops it.
Emit(type, pid, next, p) ==
    /\ pc = "read" /\ now < MaxLines
    /\ now' = now + 1
    /\ \/ /\ Read(Event(type, pid, next, now + 1))
          /\ UNCHANGED <<lost, lostEnd, drops>>
       \/ /\ drops < MaxLost
          /\ drops' = drops + 1
          /\ lost' = lost \cup ({p} \cap Pids)
          /\ lostEnd' = IF type = "sched_process_exit" /\ lives[p] = 1
                        THEN lostEnd \cup {p} ELSE lostEnd
          /\ UNCHANGED <<pids_str, workload_events>>
    /\ UNCHANGED <<pc, resultVars>>

\* What happens in the first life of a pid is recorded as it is.
Record(p, nth, known) ==
    life' = IF nth = 1 THEN [life EXCEPT ![p] = known] ELSE life

Fork(p) ==
    /\ p \notin alive
    /\ alive' = alive \cup {p}
    /\ lives' = [lives EXCEPT ![p] = @ + 1]
    /\ Record(p, lives[p] + 1, [life[p] EXCEPT !.start = now + 1])
    /\ Emit("sched_process_fork", Launcher, p, p)
    /\ UNCHANGED oncpu

\* A CPU switches from q to p.
Switch(q, p) ==
    /\ q \in oncpu \cup {Launcher} /\ p \in (alive \ oncpu) \cup {Launcher}
    /\ q # p
    /\ oncpu' = (oncpu \ {q}) \cup ({p} \cap Pids)
    /\ IF p \in Pids /\ life[p].first = None
       THEN Record(p, lives[p], [life[p] EXCEPT !.first = now + 1]) ELSE life' = life
    /\ Emit("sched_switch", q, p, p)
    /\ UNCHANGED <<alive, lives>>

Migrate(p) ==
    /\ p \in alive
    /\ Record(p, lives[p], [life[p] EXCEPT !.migrations = @ + 1])
    /\ Emit("sched_migrate_task", p, Launcher, p)
    /\ UNCHANGED <<alive, oncpu, lives>>

Exit(p) ==
    /\ p \in oncpu
    /\ alive' = alive \ {p} /\ oncpu' = oncpu \ {p}
    /\ Record(p, lives[p], [life[p] EXCEPT !.exit = now + 1])
    /\ Emit("sched_process_exit", p, Launcher, p)
    /\ UNCHANGED lives

\* The tracer stops when the executor has ended, and with it its processes.
EndOfTrace ==
    /\ pc = "read"
    /\ \A p \in WorkPids : lives[p] > 0 /\ p \notin alive
    /\ pc' = "check"
    /\ UNCHANGED <<kernelVars, pids_str, workload_events, resultVars>>

-------------------------------------------------------------------------------
(* The rest of main. *)

\* Every pid has a key, and so at least one event.
CheckAllPids ==
    /\ pc = "check"
    /\ pc' = IF \E p \in WorkPids : workload_events[p] = <<>>
             THEN "failed" ELSE "events_out"
    /\ UNCHANGED <<kernelVars, pids_str, workload_events, resultVars>>

WorkloadEventsOut ==
    /\ pc = "events_out"
    /\ pc' = "times"
    /\ events_out' = workload_events
    /\ UNCHANGED <<kernelVars, pids_str, workload_events, times, again>>

\* f"next_pid={pid}", without a blank, is also found before more digits.
NamesWithin(p, q) == <<p, q>> \in Within
Names(p, q) == <<p, q>> \in Prefix

\* The first fork, the first switch after it and the first exit after that;
\* migrations are counted up to the exit.
Forked(s, e, p) == s.start = None /\ e.type = "sched_process_fork" /\ Names(p, e.next)
Scheduled(s, e, p) ==
    /\ s.start # None /\ s.first = None
    /\ e.type = "sched_switch" /\ Names(p, e.next)
Exited(s, e, p) ==
    s.first # None /\ e.type = "sched_process_exit" /\ Names(p, e.pid)

Step(s, e, p) ==
    IF s.exit # None THEN s
    ELSE CASE Forked(s, e, p) -> [s EXCEPT !.start = e.ts]
           [] Scheduled(s, e, p) -> [s EXCEPT !.first = e.ts]
           [] Exited(s, e, p) -> [s EXCEPT !.exit = e.ts]
           [] e.type = "sched_migrate_task" /\ Names(p, e.pid) ->
                [s EXCEPT !.migrations = @ + 1]
           [] OTHER -> s

ScanTo(events, p) ==
    LET scan[k \in 0..Len(events)] ==
          IF k = 0 THEN Unknown ELSE Step(scan[k - 1], events[k], p)
    IN scan
Scan(events, p) == ScanTo(events, p)[Len(events)]

\* A time that is missing, or not in its order, ends the program.
ValidUnchecked(s) == s.start # None /\ s.first # None
Valid(s) ==
    /\ None \notin {s.start, s.first, s.exit}
    /\ s.start <= s.exit /\ s.first - s.start <= s.exit - s.start

Row(s) == [start |-> s.start, latency |-> s.first - s.start, exit |-> s.exit,
           migrations |-> s.migrations]

GetWorkloadTimes ==
    /\ pc = "times"
    /\ IF \A p \in WorkPids : Valid(Scan(workload_events[p], p))
       THEN /\ pc' = "times_out"
            /\ times' = [p \in WorkPids |-> Row(Scan(workload_events[p], p))]
       ELSE pc' = "failed" /\ times' = times
    /\ UNCHANGED <<kernelVars, pids_str, workload_events, events_out, again>>

WorkloadTimesOut ==
    /\ pc = "times_out"
    /\ pc' = "written"
    /\ UNCHANGED <<kernelVars, pids_str, workload_events, resultVars>>

\* parse_from_workload_events on the file: the same scan without migrations.
Reparse ==
    /\ pc = "written"
    /\ IF \A p \in WorkPids : Valid(Scan(events_out[p], p))
       THEN /\ pc' = "reparsed"
            /\ again' = [p \in WorkPids |->
                           [Row(Scan(events_out[p], p)) EXCEPT !.migrations = -1]]
       ELSE pc' = "reparse_failed" /\ again' = again
    /\ UNCHANGED <<kernelVars, pids_str, workload_events, events_out, times>>

\* Its workload_times_out expects pairs for keys, but they are pids.
ReparseOut ==
    /\ pc = "reparsed"
    /\ pc' = "raised"
    /\ UNCHANGED <<kernelVars, pids_str, workload_events, resultVars>>

Ended == pc \in {"raised", "failed", "reparse_failed"} /\ UNCHANGED vars

Next ==
    \/ \E p \in Pids : Fork(p) \/ Migrate(p) \/ Exit(p)
    \/ \E q, p \in Pids \cup {Launcher} : Switch(q, p)
    \/ EndOfTrace \/ CheckAllPids \/ WorkloadEventsOut \/ GetWorkloadTimes
    \/ WorkloadTimesOut \/ Reparse \/ ReparseOut \/ Ended

Spec == Init /\ [][Next]_vars

-------------------------------------------------------------------------------
\* The pids whose digits no other process of the trace starts with.
Unambiguous ==
    {p \in WorkPids : \A q \in Pids : lives[q] > 0 /\ q # p => <<p, q>> \notin Prefix}

HasTimes == pc \in {"times_out", "written", "reparsed", "raised", "reparse_failed"}

\* graph_per_proc_times: how long a process took from its first time on a CPU,
\* and from its start.
calculate_timing_metrics(row) ==
    [execution_time |-> row.exit - row.start - row.latency,
     turnaround_time |-> row.exit - row.start]

\* Digits of one pid inside another's, exits that end a round early, and a pid
\* that is used again do not mix processes up: a process whose lines all came
\* through has exactly its own times, also in the figures, and the migrations after
\* the first, which is the one from the affinity set.
TimesAreOwn ==
    HasTimes => \A p \in Unambiguous \ lost :
        /\ times[p] = [Row(life[p]) EXCEPT !.migrations = @ - 1]
        /\ calculate_timing_metrics(times[p]) =
              [execution_time |-> life[p].exit - life[p].first,
               turnaround_time |-> life[p].exit - life[p].start]

\* Lines the tracer drops cost migrations, or move the first time a process
\* runs; a start or an end that was dropped is noticed, and not replaced by that
\* of another process.  The one exception is a pid used again after its exit line
\* was dropped: nothing ended the search for it, and the parser takes the lines
\* of the later process, its exit in particular, for the first one's.
EndsAreOwn ==
    HasTimes => \A p \in Unambiguous :
        p \notin lostEnd \/ lives[p] = 1 =>
          /\ times[p].start = life[p].start /\ times[p].exit = life[p].exit
          /\ times[p].latency >= life[p].first - life[p].start

\* The parser gives up only for dropped lines or ambiguous pids.
FailsOnlyOnLoss ==
    pc = "failed" => lost # {} \/ Unambiguous # WorkPids
===============================================================================
