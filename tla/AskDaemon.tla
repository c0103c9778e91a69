------------------------------ MODULE AskDaemon ------------------------------
(***************************************************************************)
(* The daemon half, scx_serverless_ask_userspace.c: one thread that drains *)
(* the pids the kernel sent, reads the command line of each, queues it     *)
(* with the slice it derives, answers in batches, and blocks on the ring   *)
(* buffer when its list is empty.  SIGINT and SIGTERM are handled at any   *)
(* point.                                                                  *)
(***************************************************************************)
EXTENDS AskMaps

CONSTANT BatchSize   \* option -b

ASSUME DaemonAssumption == BatchSize \in Nat \ {0}

VARIABLES
    dpc,               \* where the thread is in sched_main_loop
    dispatch_head,     \* the list of queued entries: their pid and slice
    is_queued,         \* tasks[pid].is_queued
    nr_curr_enqueued,
    batch_i,           \* i of dispatch_batch
    exit_req

daemonVars == <<dpc, dispatch_head, is_queued, nr_curr_enqueued, batch_i,
                exit_req>>

DaemonTypeOK ==
    /\ dpc \in {"loop", "drain", "batch", "check", "wait", "done"}
    /\ dispatch_head \in Seq([pid : KnownPids, slice : SliceCode])
    /\ is_queued \in [KnownPids -> BOOLEAN]
    /\ nr_curr_enqueued \in Nat
    /\ batch_i \in 0..BatchSize
    /\ exit_req \in {0, 1}

DaemonInit ==
    /\ dpc = "loop"
    /\ dispatch_head = <<>>
    /\ is_queued = [p \in KnownPids |-> FALSE]
    /\ nr_curr_enqueued = 0
    /\ batch_i = 0
    /\ exit_req = 0

\* read_cmdline, parse_fib_arg_from_cmdline and get_slice_for_fib_arg: a
\* process that is gone, or has no command line while it execs, gives 0.
SliceRead(p) == {0} \cup (IF task[p] = "dead" THEN {} ELSE {CodeOf(arg[p])})

------------------------------------------------------------------------------
\* while (!exit_req)
LoopHead ==
    /\ dpc = "loop"
    /\ dpc' = IF exit_req = 1 THEN "done" ELSE "drain"
    /\ UNCHANGED <<mapVars, procVars, dispatch_head, is_queued,
                   nr_curr_enqueued, batch_i, exit_req>>

\* The test for a request that was not answered yet.
AlreadyQueuedNever(p) == FALSE
AlreadyQueued(p) == is_queued[p]

\* local_enqueue_task of a pid that is not queued yet.
LocalEnqueue(p) ==
    /\ p \in KnownPids /\ ~AlreadyQueued(p)
    /\ is_queued' = [is_queued EXCEPT ![p] = TRUE]
    /\ nr_curr_enqueued' = nr_curr_enqueued + 1
    /\ \E s \in SliceRead(p) :
         dispatch_head' = Append(dispatch_head, [pid |-> p, slice |-> s])
    /\ UNCHANGED <<dpc, exit_req>>

\* local_enqueue_task of a pid that is queued: the duplicate is ignored.
LocalEnqueueDup(p) ==
    /\ p \in KnownPids /\ AlreadyQueued(p)
    /\ UNCHANGED <<dpc, dispatch_head, is_queued, nr_curr_enqueued,
                   exit_req>>

\* get_enqueued_task returns NULL: the daemon gives up.
LocalEnqueueFails(p) ==
    /\ p \notin KnownPids
    /\ exit_req' = 1
    /\ dpc' = "batch"
    /\ UNCHANGED <<dispatch_head, is_queued, nr_curr_enqueued>>

\* One iteration of drain_enqueued_map.
DrainOne ==
    /\ dpc = "drain"
    /\ enqueued # <<>>
    /\ enqueued' = Tail(enqueued)
    /\ LET p == Head(enqueued) IN
         LocalEnqueue(p) \/ LocalEnqueueDup(p) \/ LocalEnqueueFails(p)
    /\ UNCHANGED <<dispatched, usersched_needed, ring, nr_userspace_queued,
                   nr_userspace_scheduled, procVars, batch_i>>

\* The last iteration of drain_enqueued_map.
DrainEnd ==
    /\ dpc = "drain"
    /\ enqueued = <<>>
    /\ nr_userspace_queued' = 0
    /\ nr_userspace_scheduled' = nr_curr_enqueued
    /\ dpc' = "batch"
    /\ UNCHANGED <<enqueued, dispatched, usersched_needed, ring, procVars,
                   dispatch_head, is_queued, nr_curr_enqueued, batch_i,
                   exit_req>>

\* The map "dispatched" has room.
RoomInDispatchedOffByOne == Len(dispatched) <= DCap
RoomInDispatched == Len(dispatched) < DCap

\* dispatch_task: the push onto the map "dispatched".
PushDispatched(m) ==
    RoomInDispatched /\ dispatched' = Append(dispatched, m)

\* An answered request may be made again.
UnqueueForgotten(p) == UNCHANGED is_queued
Unqueue(p) == is_queued' = [is_queued EXCEPT ![p] = FALSE]

\* dispatch_batch goes on: the first entry is sent, then removed.
DispatchOne ==
    /\ dpc = "batch"
    /\ batch_i < BatchSize
    /\ dispatch_head # <<>>
    /\ PushDispatched(Head(dispatch_head))
    /\ Unqueue(Head(dispatch_head).pid)
    /\ dispatch_head' = Tail(dispatch_head)
    /\ nr_curr_enqueued' = nr_curr_enqueued - 1
    /\ batch_i' = batch_i + 1
    /\ UNCHANGED <<enqueued, usersched_needed, ring, nr_userspace_queued,
                   nr_userspace_scheduled, procVars, dpc, exit_req>>

\* dispatch_batch ends: the batch is complete, the list is empty, or the map
\* "dispatched" is full and the entry stays where it is.
BatchEnd ==
    /\ dpc = "batch"
    /\ \/ batch_i = BatchSize
       \/ dispatch_head = <<>>
       \/ ~RoomInDispatched
    /\ nr_userspace_scheduled' = nr_curr_enqueued
    /\ batch_i' = 0
    /\ dpc' = "check"
    /\ UNCHANGED <<enqueued, dispatched, usersched_needed, ring,
                   nr_userspace_queued, procVars, dispatch_head, is_queued,
                   nr_curr_enqueued, exit_req>>

\* if (STAILQ_EMPTY(&dispatch_head)): correct the counter and wait for work.
CheckEmpty ==
    /\ dpc = "check"
    /\ \/ /\ dispatch_head = <<>>
          /\ nr_curr_enqueued' = 0
          /\ dpc' = "wait"
       \/ /\ dispatch_head # <<>>
          /\ dpc' = "loop"
          /\ UNCHANGED nr_curr_enqueued
    /\ UNCHANGED <<mapVars, procVars, dispatch_head, is_queued, batch_i,
                   exit_req>>

\* The thread goes on without draining the map.
WaitForWorkNoDrain ==
    /\ dpc = "wait"
    /\ ring > 0
    /\ ring' = 0
    /\ dpc' = "batch"
    /\ UNCHANGED <<enqueued, dispatched, usersched_needed, nr_userspace_queued,
                   nr_userspace_scheduled, procVars, dispatch_head, is_queued,
                   nr_curr_enqueued, batch_i, exit_req>>

\* wait_for_work: ring_buffer__poll consumes every message and returns.
WaitForWork ==
    /\ dpc = "wait"
    /\ ring > 0
    /\ ring' = 0
    /\ dpc' = "loop"
    /\ UNCHANGED <<enqueued, dispatched, usersched_needed, nr_userspace_queued,
                   nr_userspace_scheduled, procVars, dispatch_head, is_queued,
                   nr_curr_enqueued, batch_i, exit_req>>

\* sigint_handler; ring_buffer__poll returns only if it was already waiting.
Signal ==
    /\ exit_req = 0 /\ dpc # "done"
    /\ exit_req' = 1
    /\ dpc' = IF dpc = "wait" THEN "loop" ELSE dpc
    /\ UNCHANGED <<mapVars, procVars, dispatch_head, is_queued,
                   nr_curr_enqueued, batch_i>>

\* main after the loop: exit_req = 1 and bpf_link__destroy.
Detach ==
    /\ dpc = "done"
    /\ scx = "on"
    /\ scx' = "exited"
    /\ exit_req' = 1
    /\ UNCHANGED <<mapVars, task, arg, dpc, dispatch_head, is_queued,
                   nr_curr_enqueued, batch_i>>

------------------------------------------------------------------------------
\* The steps the thread takes by itself; Signal is up to the environment.
DaemonStep ==
    \/ LoopHead \/ DrainOne \/ DrainEnd \/ DispatchOne \/ BatchEnd
    \/ CheckEmpty \/ WaitForWork \/ Detach

DaemonNext == DaemonStep \/ Signal
==============================================================================
