--------------------------- MODULE ServerlessLoader ---------------------------
(***************************************************************************)
(* The loader of the kernel variant, scx_serverless.c: it attaches the     *)
(* scheduler, puts itself under it, looks once a second whether it was     *)
(* told to exit or whether the kernel ejected the scheduler, and detaches  *)
(* it.                                                                     *)
(***************************************************************************)
EXTENDS ServerlessBpf

CONSTANTS
    Loader,      \* its own task, or NoTask to leave out how it is scheduled
    MaxEjects    \* bound: how often the kernel ejects the scheduler

ASSUME LoaderAssumption ==
    /\ MaxEjects \in Nat
    /\ Loader \in Tasks \cup {NoTask}

\* It enters SCHED_EXT each time it attaches the scheduler, and the bound on
\* entries does not stop it.
ASSUME EnterAssumption == Loader \in Tasks => MaxEnters[Loader] > MaxEjects

VARIABLES
    lpc,         \* the place in main
    exit_req,
    uei,         \* the exit info ops.exit recorded
    ejects,
    told         \* history: a signal has told it to exit

loaderVars == <<lpc, exit_req, uei, ejects, told>>

LoaderTypeOK ==
    /\ lpc \in {"bootstrap", "enter", "loop", "cleanup", "report", "ended"}
    /\ exit_req \in {0, 1}
    /\ uei \in {"none", "unregistered", "error", "restart"}
    /\ ejects \in 0..MaxEjects
    /\ told \in BOOLEAN

LoaderInit ==
    /\ lpc = "bootstrap" /\ exit_req = 0 /\ uei = "none" /\ ejects = 0
    /\ told = FALSE

\* The loader executes: it is in another class, or the scheduler that it has
\* attached has given it a CPU.
OnCpu ==
    Loader \in Tasks =>
      \/ where[Loader] = "out"
      \/ where[Loader] = "run" /\ mode[at[Loader]] = "run"

\* SIGINT or SIGTERM.
Signal ==
    /\ ~told /\ lpc # "ended"
    /\ told' = TRUE /\ exit_req' = 1
    /\ UNCHANGED <<lpc, uei, ejects, bpfVars>>

\* Open, load and attach.
Bootstrap ==
    /\ lpc = "bootstrap"
    /\ lpc' = "enter" /\ uei' = "none"
    /\ Attach
    /\ UNCHANGED <<exit_req, ejects, told>>

\* sched_setscheduler: ops.enable is called for the loader, unless the kernel
\* was faster and ejected the scheduler.
Enter ==
    /\ lpc = "enter"
    /\ lpc' = "loop"
    /\ IF Loader \in Tasks /\ scx = "on" THEN Enable(Loader)
                                         ELSE UNCHANGED bpfVars
    /\ UNCHANGED <<exit_req, uei, ejects, told>>

\* The test of sched_main_loop.
LeavesUnlessEjected == exit_req = 1
Leaves == exit_req = 1 \/ uei # "none"

\* It goes on: the statistics are printed, which takes a tick, unless its ticks
\* are used up, and sleep(1) follows.
LoopPrints ==
    /\ lpc = "loop" /\ ~Leaves
    /\ Loader \in Tasks /\ ran[Loader] = 0 /\ Tick(Loader)
    /\ UNCHANGED loaderVars

LoopSleeps ==
    /\ lpc = "loop" /\ ~Leaves
    /\ Loader \in Tasks /\ (ran[Loader] > 0 \/ sum[Loader] = MaxRun)
    /\ StopRunning(Loader, "sleep")
    /\ UNCHANGED loaderVars

\* The end of the second, or a signal.  Rounds that find nothing to do are
\* bounded by the ticks of the loader, the one that ends the loop is not.
LoopWakes ==
    /\ Loader \in Tasks /\ (sum[Loader] < MaxRun \/ Leaves)
    /\ SelectBusyCpu(Loader) \/ \E c \in Cpus : SelectIdleCpu(Loader, c)
    /\ UNCHANGED loaderVars

\* It does not, and the assignment that follows the loop is made.
LoopEnds ==
    /\ lpc = "loop" /\ Leaves /\ OnCpu
    /\ lpc' = "cleanup" /\ exit_req' = 1
    /\ UNCHANGED <<uei, ejects, told, bpfVars>>

\* bpf_link__destroy: the scheduler is detached unless the kernel was first.
DestroyLink ==
    IF scx = "on" THEN Detach /\ uei' = "unregistered"
    ELSE UNCHANGED <<uei, bpfVars>>
Cleanup ==
    /\ lpc = "cleanup" /\ OnCpu
    /\ lpc' = "report"
    /\ DestroyLink
    /\ UNCHANGED <<exit_req, ejects, told>>

\* UEI_REPORT, and the jump back when the kernel asks for a restart.
Report ==
    /\ lpc = "report"
    /\ lpc' = IF uei = "restart" THEN "bootstrap" ELSE "ended"
    /\ UNCHANGED <<exit_req, uei, ejects, told, bpfVars>>

\* The kernel ejects the scheduler: an error, or an event after which it may be
\* restarted.  ops.exit records why.
Eject ==
    /\ scx = "on" /\ ejects < MaxEjects
    /\ Detach
    /\ uei' \in {"error", "restart"}
    /\ ejects' = ejects + 1
    /\ UNCHANGED <<lpc, exit_req, told>>

\* The kernel's watchdog: the loader itself waits and gets no CPU.
Stalled ==
    /\ scx = "on" /\ Loader \in Tasks /\ where[Loader] = "shared"
    /\ Detach
    /\ uei' = "error"
    /\ UNCHANGED <<lpc, exit_req, ejects, told>>

LoaderStep ==
    \/ Bootstrap \/ Enter \/ LoopPrints \/ LoopSleeps \/ LoopWakes
    \/ LoopEnds \/ Cleanup \/ Report
===============================================================================
