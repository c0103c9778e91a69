---------------------------- MODULE ScxServerless ----------------------------
(***************************************************************************)
(* The kernel variant as a whole: its BPF half under its loader.           *)
(***************************************************************************)
EXTENDS ServerlessLoader

vars == <<bpfVars, loaderVars>>

Init == BpfInit /\ LoaderInit

\* The program has ended.
Ended == lpc = "ended" /\ UNCHANGED vars

\* The tasks besides the loader.
Others == Tasks \ {Loader}

Next ==
    \/ /\ \/ \E t \in Others : TaskStep(t) \/ RunStep(t)
          \/ \E t \in Tasks : EnqueueStep(t)
          \/ \E c \in Cpus : CpuStep(c)
       /\ UNCHANGED loaderVars
    \/ LoaderStep \/ Signal \/ Eject \/ Stalled
    \/ Ended

Spec == Init /\ [][Next]_vars

\* BPF programs terminate and CPUs schedule; a task that runs uses its slice,
\* sleeps or ends; the loader runs when it has a CPU and wakes up every second;
\* the kernel's watchdog does not leave it waiting for ever.  A CPU that idles
\* wakes up for a kick only.  Nothing obliges processes to enter, wake up or
\* leave, and nobody to signal or eject.
Fairness ==
    /\ \A t \in Tasks : WF_vars(EnqueueStep(t) /\ UNCHANGED loaderVars)
    /\ \A t \in Others : WF_vars(RunStep(t) /\ UNCHANGED loaderVars)
    /\ \A c \in Cpus : WF_vars(CpuStep(c) /\ UNCHANGED loaderVars)
    /\ WF_vars(LoaderStep)
    /\ WF_vars(Stalled)

FairSpec == Spec /\ Fairness

-------------------------------------------------------------------------------
\* Every variable keeps its type.
TypeOK == BpfTypeOK /\ LoaderTypeOK

\* The shared queue, which serverless_dispatch trusts to be in the order of
\* vtime: it holds exactly the waiting tasks, each once, least vtime first.
QueueOrdered ==
    /\ \A t \in Tasks : where[t] = "shared" <=> \E i \in DOMAIN queue : queue[i] = t
    /\ \A i, j \in DOMAIN queue :
         i < j => queue[i] # queue[j] /\ dsq_vtime[queue[i]] <= dsq_vtime[queue[j]]

\* The compare-and-swap of serverless_dispatch: however many CPUs raise
\* global_vtime from values they read at different times, it never goes back
\* while one scheduler is attached.
GlobalNeverBack == [][scx' = scx => global_vtime' >= global_vtime]_vars

\* No task waits beside sleeping CPUs: when a task is on the shared queue,
\* some CPU that may take it is awake or about to be woken, or the call that
\* inserted it has yet to wake one.  This is what the "double tap" of
\* serverless_enqueue and SCX_OPS_ENQ_LAST depend on.  Tasks that may run on
\* CPU 0, whose kick is left out, are not in it.
NoWorkAsleep ==
    \A t \in Tasks :
        where[t] = "shared" /\ Cpu0 \notin Allowed[t] =>
            \/ tokick # {}
            \/ \E c \in Cpus \ {Cpu0} : mode[c] # "idle" \/ c \in kicked

\* The accounting of serverless_stopping: a task is charged exactly what it ran
\* since it last got a CPU, however it lost it.  Left out is the first charge of
\* a task that left SCHED_EXT, ran elsewhere and came back: create_task_ctx finds
\* its old context, and what it ran elsewhere is charged too, although "our first
\* delta calculation is 0 (or small)".
ChargedForRun ==
    [][\A t \in Tasks :
          where[t] = "run" /\ where'[t] # "run" /\ scx' = "on"
          /\ outside[t] = 0 =>
            dsq_vtime'[t] - dsq_vtime[t] = ran[t]]_vars

\* However many CPUs iterate the shared queue while others insert, charge and
\* take: serverless_dispatch gives a CPU the waiting task of least vtime among
\* those that were there when its loop began and still are, and none only when
\* none is left.
Waiting == {t \in Tasks : where[t] = "shared"}
WaitingVtime ==
    [t \in Tasks |-> IF where[t] = "shared" THEN dsq_vtime[t] ELSE 0]
Looking == {c \in Cpus : Iterating(c)}
Since == [c \in Cpus |-> IF Iterating(c) THEN Waiting \ newer[c] ELSE {}]
Queue == INSTANCE VtimeQueue WITH
    waiting <- Waiting, vtime <- WaitingVtime, looking <- Looking, since <- Since
ImplementsQueue == Queue!Spec

\* Whoever is told to exit, or has the scheduler ejected for an error, ends: the
\* loader is itself a task of the scheduler it watches, and gets to its test of
\* exit_req and UEI_EXITED all the same.  It ends with the scheduler detached,
\* not with tasks in the hands of one that nobody watches.
LoaderEnds ==
    (told \/ uei = "error") ~>
        /\ lpc = "ended" /\ scx = "off"
        /\ queue = <<>> /\ \A t \in Tasks : where[t] = "out"

\* "main: restarting due to UEI_ECODE_RESTART": a loader that the kernel asked to
\* restart serves again, and leaves its loop only for a signal or when the kernel
\* has taken the scheduler out again.
ServesUntilTold ==
    [][lpc = "loop" /\ lpc' = "cleanup" => told \/ uei # "none"]_vars

\* A task of the workload that waits on the shared queue gets a CPU, or the
\* scheduler is detached.
WaitingRuns ==
    \A t \in Tasks :
        (where[t] = "shared" /\ Cpu0 \notin Allowed[t]) ~> where[t] # "shared"
===============================================================================
