------------------------------ MODULE Simulation ------------------------------
(***************************************************************************)
(* A run of exec_workload.py in time: its main loop, which puts every      *)
(* entry when it is due, and the CPU monitor beside it.  What happens to   *)
(* the entries afterwards is the subject of ExecWorkload.                  *)
(*                                                                         *)
(* The clock is read in ticks and starts with the program.                 *)
(***************************************************************************)
EXTENDS Integers, FiniteSets, Sequences

CONSTANTS
    Late,         \* bound: how late the main thread goes on, in ticks
    Interval,     \* the length of a sample
    JoinTimeout,  \* how long stop_cpu_monitoring waits for the thread
    MaxAfter      \* bound: ticks after the last entry

ASSUME SimulationAssumption ==
    {Late, JoinTimeout, MaxAfter} \subseteq Nat /\ Interval \in Nat \ {0}

VARIABLES
    sim,          \* where the main thread is
    lines,        \* the workload it read
    cpu_log,
    now,
    start_simulation, end_simulation,
    next_request_time,
    due,          \* when the main thread can go on
    launches,     \* when the entries were put
    mon,          \* where the monitor thread is
    monitor_running,
    timestamp,
    cpu_data,     \* the timestamps of its samples
    begun,        \* all the samples it began
    written       \* the samples in the file

mainVars == <<sim, lines, cpu_log, start_simulation, end_simulation,
              next_request_time, due, launches>>
monVars == <<mon, monitor_running, timestamp, cpu_data, begun>>
simVars == <<mainVars, now, monVars, written>>

SimTypeOK ==
    /\ sim \in {"off", "load", "pop", "wait", "reap", "stop", "join", "write",
               "done"}
    /\ cpu_log \in BOOLEAN
    /\ {now, start_simulation, end_simulation, next_request_time, due,
        timestamp} \subseteq Nat
    /\ launches \in Seq(Nat)
    /\ mon \in {"off", "start", "test", "sample", "done"}
    /\ monitor_running \in BOOLEAN
    /\ {cpu_data, begun, written} \subseteq SUBSET Nat
    /\ cpu_data \subseteq begun

\* No program is running.
Off ==
    /\ sim = "off" /\ lines = <<>> /\ cpu_log = FALSE /\ now = 0
    /\ start_simulation = 0 /\ end_simulation = 0
    /\ next_request_time = 0 /\ due = 0 /\ launches = <<>>
    /\ mon = "off" /\ monitor_running = FALSE /\ timestamp = 0
    /\ cpu_data = {} /\ begun = {} /\ written = {}

\* The program starts, with --cpu_log or without, and reads the workload.
Start(file, log) ==
    /\ sim' = "load" /\ lines' = file /\ cpu_log' = log /\ now' = 0
    /\ start_simulation' = 0 /\ end_simulation' = 0
    /\ next_request_time' = 0 /\ due' = 0 /\ launches' = <<>>
    /\ mon' = IF log THEN "start" ELSE "off"
    /\ monitor_running' = FALSE /\ timestamp' = 0
    /\ cpu_data' = {} /\ begun' = {} /\ written' = {}

\* A program that has ended, or was killed, leaves nothing behind.
Leave ==
    /\ sim' = "off" /\ lines' = <<>> /\ cpu_log' = FALSE /\ now' = 0
    /\ start_simulation' = 0 /\ end_simulation' = 0
    /\ next_request_time' = 0 /\ due' = 0 /\ launches' = <<>>
    /\ mon' = "off" /\ monitor_running' = FALSE /\ timestamp' = 0
    /\ cpu_data' = {} /\ begun' = {} /\ written' = {}

-------------------------------------------------------------------------------
(* The main thread. *)

StartSimulation ==
    /\ sim = "load"
    /\ sim' = "pop"
    /\ start_simulation' = now /\ next_request_time' = now
    /\ UNCHANGED <<lines, cpu_log, end_simulation, due, launches, now, monVars,
                   written>>

\* next_request_time += IAT: the gaps add up from the start, however late the
\* entries before it were.
RequestAfterNow(gap) == now + gap
RequestAfter(gap) == next_request_time + gap
Pop ==
    /\ sim = "pop" /\ Len(launches) < Len(lines)
    /\ LET next == RequestAfter(lines[Len(launches) + 1].iat)
       IN /\ next_request_time' = next
          /\ due' = IF now < next THEN next ELSE now
    /\ sim' = "wait"
    /\ UNCHANGED <<lines, cpu_log, start_simulation, end_simulation, launches,
                   now, monVars, written>>

\* Sleep, then busy-wait until the request is due; put it.
Put ==
    /\ sim = "wait" /\ now >= next_request_time
    /\ launches' = Append(launches, now)
    /\ sim' = "pop"
    /\ UNCHANGED <<lines, cpu_log, start_simulation, end_simulation,
                   next_request_time, due, now, monVars, written>>

Dispatched ==
    /\ sim = "pop" /\ Len(launches) = Len(lines)
    /\ sim' = "reap" /\ due' = now
    /\ UNCHANGED <<lines, cpu_log, start_simulation, end_simulation,
                   next_request_time, launches, now, monVars, written>>

\* The launchers and the reaper have ended.
EndSimulation ==
    /\ sim = "reap"
    /\ sim' = "stop" /\ end_simulation' = now
    /\ UNCHANGED <<lines, cpu_log, start_simulation, next_request_time, due,
                   launches, now, monVars, written>>

\* stop_cpu_monitoring, up to its join ...
StopMonitoring ==
    /\ sim = "stop"
    /\ monitor_running' = FALSE
    /\ sim' = IF mon = "off" THEN "done" ELSE "join"
    /\ due' = now + JoinTimeout
    /\ UNCHANGED <<lines, cpu_log, start_simulation, end_simulation,
                   next_request_time, launches, now, mon, timestamp, cpu_data,
                   begun, written>>

\* ... which ends with the thread or the timeout; the samples of the simulation
\* are kept.
JoinedAnyway == TRUE
Joined == mon = "done" \/ now >= due
FilterSamples ==
    /\ sim = "join" /\ Joined
    /\ cpu_data' = {ts \in cpu_data : start_simulation <= ts /\ ts <= end_simulation}
    /\ sim' = "write"
    /\ UNCHANGED <<lines, cpu_log, start_simulation, end_simulation,
                   next_request_time, due, launches, now, mon, monitor_running,
                   timestamp, begun, written>>

\* output_cpu_utilization: a thread that was not joined may have gone on with
\* the list that was kept.
WriteSamples ==
    /\ sim = "write"
    /\ written' = cpu_data
    /\ sim' = "done"
    /\ UNCHANGED <<lines, cpu_log, start_simulation, end_simulation,
                   next_request_time, due, launches, now, monVars>>

-------------------------------------------------------------------------------
(* The monitor thread, and time. *)

\* The thread itself sets the flag its loop tests.
MonitorRuns ==
    /\ mon = "start"
    /\ monitor_running' = TRUE
    /\ mon' = "test"
    /\ UNCHANGED <<mainVars, now, timestamp, cpu_data, begun, written>>

MonitorTest ==
    /\ mon = "test"
    /\ IF monitor_running
       THEN /\ mon' = "sample" /\ timestamp' = now
            /\ begun' = begun \cup {now}
       ELSE mon' = "done" /\ UNCHANGED <<timestamp, begun>>
    /\ UNCHANGED <<mainVars, now, monitor_running, cpu_data, written>>

\* cpu_percent returns after the interval.
MonitorAppend ==
    /\ mon = "sample" /\ now >= timestamp + Interval
    /\ cpu_data' = cpu_data \cup {timestamp}
    /\ mon' = "test"
    /\ UNCHANGED <<mainVars, now, monitor_running, timestamp, begun, written>>

\* Time passes while the main thread reads the workload, and while it waits: for
\* the next entry, for the reaper or for the monitor.
Tick ==
    /\ \/ sim \in {"load", "wait"} /\ now < due + Late
       \/ sim = "reap" /\ now < due + MaxAfter
       \/ sim = "join" /\ now < due
    /\ now' = now + 1
    /\ UNCHANGED <<mainVars, monVars, written>>

SimStep ==
    \/ StartSimulation \/ Pop \/ Put \/ Dispatched \/ EndSimulation
    \/ StopMonitoring \/ FilterSamples \/ WriteSamples
    \/ MonitorRuns \/ MonitorTest \/ MonitorAppend \/ Tick
===============================================================================
