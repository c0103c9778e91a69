----------------------------- MODULE AskUserspace -----------------------------
(***************************************************************************)
(* The ask_userspace scheduler: its BPF half and its daemon, interleaved   *)
(* step by step over the state they share, and what the two guarantee      *)
(* together.                                                               *)
(***************************************************************************)
EXTENDS AskBpf, AskDaemon

vars == <<mapVars, procVars, bpfVars, daemonVars>>

Init == MapsInit /\ BpfInit /\ DaemonInit

Next ==
    \/ BpfNext /\ UNCHANGED daemonVars
    \/ DaemonNext /\ UNCHANGED bpfVars

Spec == Init /\ [][Next]_vars

\* Handlers that began run to their end; the daemon, whose task is queued on
\* the global DSQ whenever it is runnable, runs; and ops.dispatch is called
\* again and again: some CPU of the machine keeps looking for work.
Fairness ==
    /\ \A p \in Pids : WF_vars(/\ scx = "on" /\ HandlerStep(p)
                               /\ UNCHANGED daemonVars)
    /\ \A c \in Cpus : WF_vars(/\ scx = "on" /\ DispatchStep(c)
                               /\ UNCHANGED daemonVars)
    /\ WF_vars(/\ scx = "on" /\ (\E c \in Cpus : DispatchBegin(c))
               /\ UNCHANGED daemonVars)
    /\ WF_vars(DaemonStep /\ UNCHANGED bpfVars)

FairSpec == Spec /\ Fairness

-------------------------------------------------------------------------------
(* Safety. *)

\* Every variable keeps its type: the maps their capacity, the dispatch
\* buffers their slots.
TypeOK == MapsTypeOK /\ BpfTypeOK /\ DaemonTypeOK

\* local_enqueue_task and dispatch_batch keep three records of one fact, the
\* list, the is_queued flags and the counter, in agreement: no entry is twice
\* in the list (which would tie the STAILQ into a loop), and the "auto-correct"
\* of sched_main_loop never has a drift to correct.
DaemonListConsistent ==
    /\ \A i, j \in 1..Len(dispatch_head) :
         dispatch_head[i].pid = dispatch_head[j].pid => i = j
    /\ \A p \in KnownPids : is_queued[p] <=> InMsgs(p, dispatch_head)
    /\ nr_curr_enqueued = Len(dispatch_head)

\* Some queue, list or CPU still carries the answer task p waits for.
InFlight(p) ==
    \/ epc[p] = "push"
    \/ In(p, enqueued)
    \/ InMsgs(p, dispatch_head)
    \/ InMsgs(p, dispatched)
    \/ \E c \in Cpus : /\ cmsg[c].pid = p
                       /\ \/ cpc[c] = "lookup"
                          \/ cpc[c] = "apply" /\ cref[c] = "ctx"

\* A task that serverless_enqueue withholds is never forgotten: while its
\* has_slice is false, its pid is on the way to the daemon or the answer is on
\* the way back.  Ignoring a pid that is already queued loses nothing, and
\* neither does a full map on the way back.
NoLostTask ==
    scx = "on" /\ nr_failed_enqueues = 0
      => \A p \in KnownPids : ctx[p] = "waiting" => InFlight(p)

\* The daemon never sleeps on a request: once it has seen the map "enqueued"
\* empty, a pid in it means that a wake-up is in the ring buffer or on its way
\* there (the push precedes the flag, the flag is cleared before the message is
\* sent, and the daemon drains after it consumed the messages).
NoLostWakeup ==
    scx = "on" /\ exit_req = 0 /\ dpc \in {"batch", "check", "wait"}
      /\ enqueued # <<>>
      => \/ usersched_needed = 1
         \/ ring > 0
         \/ \E p \in Pids : epc[p] = "flag"
         \/ \E c \in Cpus : cpc[c] = "wake"

\* A task that the BPF scheduler holds although it has a slice is about to be
\* inserted by some CPU: serverless_enqueue, reading has_slice too early to see
\* it, and dequeue_tasks_from_userspace, inserting too early for the kernel to
\* accept it, cannot both happen, because has_slice is stored before the
\* insertion.
NoStuckTask ==
    scx = "on" => \A p \in Pids :
      where[p] = "queued" /\ HasSlice(p)
        => \E c \in Cpus :
             p \in buf[c] \/ (cpc[c] = "insert" /\ cmsg[c].pid = p
                                /\ cref[c] # "gone")

\* Every task the callbacks of the kernel can be called for has a task_ctx, so
\* the scx_bpf_error branches of select_cpu, enqueue and stopping are dead.
ManagedHasCtx ==
    \A p \in Pids : where[p] # "out" => task[p] = "ext" /\ ctx[p] # "none"

\* A task on the shared queue has been given a slice ("BLOCK THE TASK: If
\* userspace hasn't assigned a slice, do not insert into any DSQ").
GateRespected ==
    scx = "on" => \A p \in Pids : where[p] = "shared" => HasSlice(p)

\* Only a function with a short argument runs with the infinite slice ("Run to
\* exhaustion the small ones"): a long one would keep its CPU to itself.
InfOnlyForShort ==
    scx = "on" => \A p \in Pids : ctx[p] = "INF" => arg[p] = "short"

-------------------------------------------------------------------------------
(* Refinement and liveness. *)

\* What an observer sees of a task's context, of the shared queue and of the
\* scheduler.
GateOf(p) ==
    IF ctx[p] = "none" THEN "off"
    ELSE IF HasSlice(p) THEN "granted" ELSE "withheld"
gateBar == [p \in Pids |-> GateOf(p)]
placedBar == [p \in Pids |-> where[p] = "shared"]
activeBar == scx = "on"

Gate == INSTANCE SliceGate WITH
          gate <- gateBar, placed <- placedBar, active <- activeBar

\* Seen from outside the scheduler is the slice gate.
ImplementsGate == Gate!Spec

\* A task whose request reached the daemon does not wait for its slice for
\* ever, whatever else is enabled, preempted, killed or moved meanwhile.
WithheldIsReleased ==
    \A p \in Pids :
      (ctx[p] = "waiting" /\ nr_failed_enqueues = 0)
        ~> (ctx[p] # "waiting" \/ nr_failed_enqueues # 0 \/ scx = "exited")

\* A task the BPF scheduler holds does not stay there.
HeldIsQueued ==
    \A p \in Pids :
      (where[p] = "queued" /\ nr_failed_enqueues = 0)
        ~> (where[p] # "queued" \/ nr_failed_enqueues # 0 \/ scx = "exited")

\* The daemon leaves its loop once SIGINT or SIGTERM was handled, or once a pid
\* it has no entry for made it give up ("SIGINT received, exiting...").
ExitIsHonoured == exit_req = 1 ~> dpc = "done"
===============================================================================
