-------------------------------- MODULE AskBpf --------------------------------
(***************************************************************************)
(* The kernel half: the sched_ext operations of                            *)
(* scx_serverless_ask_userspace.bpf.c, and as much of the kernel around    *)
(* them as decides when they are called.                                   *)
(*                                                                         *)
(* A task is withheld until the daemon has answered with a slice: enable   *)
(* sends its pid to the daemon, enqueue inserts it nowhere while has_slice *)
(* is false, and dispatch inserts it when the answer arrives.              *)
(*                                                                         *)
(* The handlers of different tasks and of different CPUs overlap, so each  *)
(* is cut into the steps another handler can observe.  vtime, the choice   *)
(* of a CPU and kicks do not decide who is withheld and are left out.      *)
(***************************************************************************)
EXTENDS AskMaps

CONSTANTS
    Cpus,        \* the CPUs that call ops.dispatch
    Cpu0,        \* the CPU that consumes nothing from the shared queue
    MaxBatch,    \* slots of a CPU's dispatch buffer (external: the kernel's)
    MaxEnables   \* bound: how often a pid enters SCHED_EXT; 1: never reused

ASSUME BpfAssumption ==
    /\ MaxBatch \in Nat \ {0}
    /\ MaxEnables \in Nat \ {0}

VARIABLES
    where,               \* where the kernel has each SCHED_EXT task
    ctx,                 \* its task_ctx: "none", "waiting", or its slice
    epc,                 \* how far its ops.enable call has come
    enables,             \* how often the pid was enabled
    nr_failed_enqueues,
    cpc,                 \* how far each CPU's ops.dispatch call has come
    cmsg,                \* the u_task it works on
    cref,                \* what became of the task_struct and ctx it looked up
    buf,                 \* the tasks its dispatch buffer can still dispatch
    slots                \* slots of its dispatch buffer that are used

taskVars == <<where, ctx, epc, enables, nr_failed_enqueues>>
cpuVars == <<cpc, cmsg, cref, buf, slots>>
bpfVars == <<taskVars, cpuVars>>

NoMsg == [pid |-> NoPid, slice |-> 0]

\* "out" of SCHED_EXT, on a CPU or its local queue, asleep, inside ops.enqueue
\* before ("queueing") and after ("holding") it read has_slice, held by the
\* BPF scheduler ("queued"), or on the DSQ SHARED_DSQ_ID.
Places == {"out", "running", "sleeping", "queueing", "holding", "queued",
           "shared"}

\* has_slice, and slice once has_slice is set; "waiting": has_slice is false.
HasSlice(p) == ctx[p] \in {"DFL", "INF"}

SliceOfSwapped(code) == IF code = 0 THEN "INF" ELSE "DFL"
SliceOf(code) == IF code = 0 THEN "DFL" ELSE "INF"

\* The test of has_slice in select_cpu and enqueue.
ReleasedAlways(p) == ctx[p] # "none"
Released(p) == HasSlice(p)

\* What create_task_ctx leaves in the storage of the task: has_slice is false.
NewCtxMissing == "none"
NewCtxReleased == "DFL"
NewCtx == "waiting"

BpfTypeOK ==
    /\ where \in [Pids -> Places]
    /\ ctx \in [Pids -> {"none", "waiting", "DFL", "INF"}]
    /\ epc \in [Pids -> {"idle", "push", "flag"}]
    /\ enables \in [Pids -> 0..MaxEnables]
    /\ nr_failed_enqueues \in Nat
    /\ cpc \in [Cpus -> {"out", "wake", "pop", "lookup", "apply", "insert",
                         "consume", "flush"}]
    /\ cmsg \in [Cpus -> Msg \cup {NoMsg}]
    /\ cref \in [Cpus -> {"ctx", "noctx", "gone"}]
    /\ buf \in [Cpus -> SUBSET Pids]
    /\ slots \in [Cpus -> 0..MaxBatch]

BpfInit ==
    /\ where = [p \in Pids |-> "out"]
    /\ ctx = [p \in Pids |-> "none"]
    /\ epc = [p \in Pids |-> "idle"]
    /\ enables = [p \in Pids |-> 0]
    /\ nr_failed_enqueues = 0
    /\ cpc = [c \in Cpus |-> "out"]
    /\ cmsg = [c \in Cpus |-> NoMsg]
    /\ cref = [c \in Cpus |-> "gone"]
    /\ buf = [c \in Cpus |-> {}]
    /\ slots = [c \in Cpus |-> 0]

\* set_usersched_needed.
SetNeededForgotten == UNCHANGED usersched_needed
SetNeeded == usersched_needed' = 1

\* The buffered insertions of p are dropped: its ops_state or its sequence
\* number is no longer the one they were made for.
Revoke(p) == buf' = [c \in Cpus |-> buf[c] \ {p}]

\* scx_bpf_error, or the kernel finding a misuse of a kfunc: the kernel takes
\* the scheduler out and hands every task back to the default class.
Abort ==
    /\ scx' = "exited"
    /\ UNCHANGED <<mapVars, task, arg, bpfVars>>

-------------------------------------------------------------------------------
(* Processes: fork, exit, leaving SCHED_EXT. *)

\* A process with pid p is created by a process outside of SCHED_EXT.  Pids
\* are reused up to the bound MaxEnables.
Fork(p) ==
    /\ task[p] = "dead" /\ enables[p] < MaxEnables
    /\ task' = [task EXCEPT ![p] = "other"]
    /\ \E a \in Args : arg' = [arg EXCEPT ![p] = a]
    /\ UNCHANGED <<mapVars, scx, bpfVars>>

\* CPUs that looked p up keep a reference to a task that is gone, or to one
\* whose task_ctx was deleted.
LosesRef(p, left) ==
    cref' = [c \in Cpus |->
               IF cmsg[c].pid = p /\ cpc[c] \in {"apply", "insert"}
                    /\ cref[c] # "gone"
                 THEN left ELSE cref[c]]

\* The process ends (its pid is free again); only a task on a CPU can.
Exit(p) ==
    /\ \/ task[p] = "other"
       \/ task[p] = "ext" /\ where[p] = "running"
    /\ task' = [task EXCEPT ![p] = "dead"]
    /\ arg' = [arg EXCEPT ![p] = "long"]
    /\ where' = [where EXCEPT ![p] = "out"]
    /\ ctx' = [ctx EXCEPT ![p] = "none"]
    /\ LosesRef(p, "gone")
    /\ Revoke(p)
    /\ UNCHANGED <<mapVars, scx, epc, enables, nr_failed_enqueues, cpc,
                   cmsg, slots>>

\* serverless_disable: the task is moved to another scheduling class.
Disable(p) ==
    /\ task[p] = "ext"
    /\ where[p] \in {"running", "sleeping", "queued", "shared"}
    /\ task' = [task EXCEPT ![p] = "other"]
    /\ where' = [where EXCEPT ![p] = "out"]
    /\ ctx' = [ctx EXCEPT ![p] = "none"]
    /\ LosesRef(p, "noctx")
    /\ Revoke(p)
    /\ UNCHANGED <<mapVars, scx, arg, epc, enables, nr_failed_enqueues, cpc,
                   cmsg, slots>>

-------------------------------------------------------------------------------
(* serverless_enable, in three steps. *)

\* create_task_ctx: the new context waits for a slice.
EnableCtx(p) ==
    /\ task[p] = "other" /\ enables[p] < MaxEnables
    /\ task' = [task EXCEPT ![p] = "ext"]
    /\ ctx' = [ctx EXCEPT ![p] = NewCtx]
    /\ epc' = [epc EXCEPT ![p] = "push"]
    /\ enables' = [enables EXCEPT ![p] = @ + 1]
    /\ UNCHANGED <<mapVars, scx, arg, where, nr_failed_enqueues, cpuVars>>

\* create_task_ctx fails: the storage cannot be allocated.
EnableFails(p) ==
    /\ task[p] = "other" /\ enables[p] < MaxEnables
    /\ Abort

\* Where the kernel has the task when ops.enable returns: it called
\* sched_setscheduler itself, is being created, or was runnable.
Enabled(p) ==
    /\ epc' = [epc EXCEPT ![p] = "idle"]
    /\ \E w \in {"running", "sleeping", "queueing"} :
         where' = [where EXCEPT ![p] = w]

\* enqueue_task_in_userspace: the push onto the queue map.
EnablePush(p) ==
    /\ epc[p] = "push"
    /\ Len(enqueued) < QCap
    /\ enqueued' = Append(enqueued, p)
    /\ epc' = [epc EXCEPT ![p] = "flag"]
    /\ UNCHANGED <<dispatched, usersched_needed, ring, nr_userspace_queued,
                   nr_userspace_scheduled, procVars, where, ctx, enables,
                   nr_failed_enqueues, cpuVars>>

\* The map is full.  The insertion that follows has no effect: the task is not
\* inside ops.enqueue, and has_slice stays false.
EnablePushFull(p) ==
    /\ epc[p] = "push"
    /\ Len(enqueued) = QCap
    /\ nr_failed_enqueues' = nr_failed_enqueues + 1
    /\ Enabled(p)
    /\ UNCHANGED <<mapVars, procVars, ctx, enables, cpuVars>>

\* The map is full, on a kernel that rejects an insertion made by ops.enable.
EnablePushRejected(p) ==
    /\ epc[p] = "push"
    /\ Len(enqueued) = QCap
    /\ Abort

\* set_usersched_needed, and ops.enable returns.
EnableFlag(p) ==
    /\ epc[p] = "flag"
    /\ SetNeeded
    /\ Enabled(p)
    /\ UNCHANGED <<enqueued, dispatched, ring, nr_userspace_queued,
                   nr_userspace_scheduled, procVars, ctx, enables,
                   nr_failed_enqueues, cpuVars>>

-------------------------------------------------------------------------------
(* A task becomes runnable, stops, is enqueued. *)

\* serverless_select_cpu, on a wake-up: onto an idle CPU only with a slice.
Wake(p) ==
    /\ where[p] = "sleeping"
    /\ \E is_idle \in BOOLEAN :
         where' = [where EXCEPT ![p] =
                     IF is_idle /\ Released(p) THEN "running" ELSE "queueing"]
    /\ UNCHANGED <<mapVars, procVars, ctx, epc, enables, nr_failed_enqueues,
                   cpuVars>>

\* serverless_stopping: a running task blocks, or is runnable and preempted.
Stop(p) ==
    /\ where[p] = "running"
    /\ \E w \in {"queueing", "sleeping"} : where' = [where EXCEPT ![p] = w]
    /\ UNCHANGED <<mapVars, procVars, ctx, epc, enables, nr_failed_enqueues,
                   cpuVars>>

\* serverless_enqueue reads has_slice: the shared queue, or no queue at all.
Enqueue(p) ==
    /\ where[p] = "queueing"
    /\ \/ /\ Released(p)
          /\ where' = [where EXCEPT ![p] = "shared"]
          /\ Revoke(p)
       \/ /\ ~Released(p)
          /\ where' = [where EXCEPT ![p] = "holding"]
          /\ UNCHANGED buf
    /\ UNCHANGED <<mapVars, procVars, ctx, epc, enables, nr_failed_enqueues,
                   cpc, cmsg, cref, slots>>

\* serverless_enqueue returned without an insertion: the kernel marks the task
\* as held by the BPF scheduler.
EnqueueReturn(p) ==
    /\ where[p] = "holding"
    /\ where' = [where EXCEPT ![p] = "queued"]
    /\ UNCHANGED <<mapVars, procVars, ctx, epc, enables, nr_failed_enqueues,
                   cpuVars>>

\* The kernel dequeues and enqueues a waiting task whose priority, affinity or
\* group changes.
Requeue(p) ==
    /\ where[p] \in {"queued", "shared"}
    /\ where' = [where EXCEPT ![p] = "queueing"]
    /\ Revoke(p)
    /\ UNCHANGED <<mapVars, procVars, ctx, epc, enables, nr_failed_enqueues,
                   cpc, cmsg, cref, slots>>

-------------------------------------------------------------------------------
(* serverless_dispatch on CPU c. *)

At(c, from, to) == cpc[c] = from /\ cpc' = [cpc EXCEPT ![c] = to]

\* test_and_clear_usersched_needed.
DispatchBegin(c) ==
    /\ At(c, "out", IF usersched_needed = 1 THEN "wake" ELSE "pop")
    /\ usersched_needed' = 0
    /\ UNCHANGED <<enqueued, dispatched, ring, nr_userspace_queued,
                   nr_userspace_scheduled, procVars, taskVars, cmsg, cref, buf,
                   slots>>

\* dispatch_user_scheduler: a slot for the daemon's task, and a message.
WakeUsersched(c) ==
    /\ At(c, "wake", "pop")
    /\ ring < RingSlots
    /\ ring' = ring + 1
    /\ slots' = [slots EXCEPT ![c] = 1]
    /\ UNCHANGED <<enqueued, dispatched, usersched_needed, nr_userspace_queued,
                   nr_userspace_scheduled, procVars, taskVars, cmsg, cref, buf>>

\* send_wake_msg finds the ring buffer full.
WakeFails(c) ==
    /\ cpc[c] = "wake"
    /\ ring = RingSlots
    /\ Abort

\* dequeue_tasks_from_userspace: the pop, which ends the loop when it fails.
PopDispatched(c) ==
    /\ \/ /\ dispatched = <<>>
          /\ At(c, "pop", "consume")
          /\ UNCHANGED <<dispatched, cmsg>>
       \/ /\ dispatched # <<>>
          /\ At(c, "pop", "lookup")
          /\ cmsg' = [cmsg EXCEPT ![c] = Head(dispatched)]
          /\ dispatched' = Tail(dispatched)
    /\ UNCHANGED <<enqueued, usersched_needed, ring, nr_userspace_queued,
                   nr_userspace_scheduled, procVars, taskVars, cref, buf, slots>>

\* bpf_task_from_pid and bpf_task_storage_get.
LookupTask(c) ==
    LET p == cmsg[c].pid IN
    /\ cpc[c] = "lookup"
    /\ \/ /\ task[p] = "dead"
          /\ At(c, "lookup", "pop")
          /\ cmsg' = [cmsg EXCEPT ![c] = NoMsg]
          /\ UNCHANGED cref
       \/ /\ task[p] # "dead" /\ ctx[p] = "none"
          /\ At(c, "lookup", "insert")
          /\ cref' = [cref EXCEPT ![c] = "noctx"]
          /\ UNCHANGED cmsg
       \/ /\ task[p] # "dead" /\ ctx[p] # "none"
          /\ At(c, "lookup", "apply")
          /\ cref' = [cref EXCEPT ![c] = "ctx"]
          /\ UNCHANGED cmsg
    /\ UNCHANGED <<mapVars, procVars, taskVars, buf, slots>>

\* A task the kernel accepts an insertion of: inside ops.enqueue, or held.
Insertable(p) == where[p] \in {"queueing", "holding", "queued"}

\* The insertion made before the slice is stored.
ApplySliceLate(c) ==
    LET p == cmsg[c].pid IN
    /\ \/ /\ cpc[c] = "apply" /\ cref[c] = "ctx"
          /\ buf' = [buf EXCEPT ![c] = IF Insertable(p) THEN @ \cup {p} ELSE @]
          /\ cref' = [cref EXCEPT ![c] = "noctx"]
          /\ UNCHANGED <<ctx, cpc, cmsg>>
       \/ /\ cref[c] # "ctx"
          /\ At(c, "apply", "pop")
          /\ ctx' = [ctx EXCEPT ![p] =
                       IF @ = "none" THEN @ ELSE SliceOf(cmsg[c].slice)]
          /\ cmsg' = [cmsg EXCEPT ![c] = NoMsg]
          /\ UNCHANGED <<buf, cref>>
    /\ UNCHANGED <<mapVars, procVars, where, epc, enables, nr_failed_enqueues,
                   slots>>

\* The slice and has_slice are stored, which a context deleted since the
\* lookup no longer shows.
ApplySlice(c) ==
    LET p == cmsg[c].pid IN
    /\ At(c, "apply", "insert")
    /\ ctx' = [ctx EXCEPT ![p] =
                 IF cref[c] = "ctx" THEN SliceOf(cmsg[c].slice) ELSE @]
    /\ UNCHANGED <<mapVars, procVars, where, epc, enables, nr_failed_enqueues,
                   cmsg, cref, buf, slots>>

\* scx_bpf_dsq_insert_vtime: a slot of the buffer, which can dispatch the task
\* only if the task is in the hands of ops.enqueue or the BPF scheduler now.
InsertTask(c) ==
    LET p == cmsg[c].pid IN
    /\ At(c, "insert", "pop")
    /\ slots[c] < MaxBatch
    /\ slots' = [slots EXCEPT ![c] = @ + 1]
    /\ buf' = [buf EXCEPT ![c] =
                 IF cref[c] # "gone" /\ Insertable(p)
                   THEN @ \cup {p} ELSE @]
    /\ cmsg' = [cmsg EXCEPT ![c] = NoMsg]
    /\ cref' = [cref EXCEPT ![c] = "gone"]
    /\ UNCHANGED <<mapVars, procVars, taskVars>>

\* The kernel finds the dispatch buffer full.
InsertOverflows(c) ==
    /\ cpc[c] = "insert"
    /\ slots[c] = MaxBatch
    /\ Abort

\* The loop over SHARED_DSQ_ID: CPU 0 returns before it, another CPU moves the
\* first task it may run, if there is one.
Consume(c) ==
    /\ At(c, "consume", "flush")
    /\ \/ UNCHANGED where
       \/ /\ c # Cpu0
          /\ \E p \in Pids :
               where[p] = "shared" /\ where' = [where EXCEPT ![p] = "running"]
    /\ UNCHANGED <<mapVars, procVars, ctx, epc, enables, nr_failed_enqueues,
                   cmsg, cref, buf, slots>>

\* serverless_dispatch returned: the kernel carries the buffer out, waiting for
\* tasks that are still inside ops.enqueue.
Flush(c) ==
    /\ At(c, "flush", "out")
    /\ \A p \in buf[c] : where[p] \notin {"queueing", "holding"}
    /\ where' = [p \in Pids |-> IF p \in buf[c] THEN "shared" ELSE where[p]]
    /\ buf' = [d \in Cpus |-> buf[d] \ buf[c]]
    /\ slots' = [slots EXCEPT ![c] = 0]
    /\ UNCHANGED <<mapVars, procVars, ctx, epc, enables, nr_failed_enqueues,
                   cmsg, cref>>

\* serverless_update_idle: CPU c goes idle and a counter says there is work.
UpdateIdle(c) ==
    /\ cpc[c] = "out"
    /\ nr_userspace_queued # 0 \/ nr_userspace_scheduled # 0
    /\ SetNeeded
    /\ UNCHANGED <<enqueued, dispatched, ring, nr_userspace_queued,
                   nr_userspace_scheduled, procVars, bpfVars>>

-------------------------------------------------------------------------------
\* The steps of ops.enable and ops.enqueue calls that have begun.
HandlerStep(p) ==
    \/ EnablePush(p) \/ EnablePushFull(p) \/ EnablePushRejected(p)
    \/ EnableFlag(p) \/ Enqueue(p) \/ EnqueueReturn(p)

TaskStep(p) ==
    \/ Fork(p) \/ Exit(p) \/ Disable(p) \/ EnableCtx(p) \/ EnableFails(p)
    \/ Wake(p) \/ Stop(p) \/ Requeue(p)
    \/ HandlerStep(p)

\* The steps of an ops.dispatch call that has begun.
DispatchStep(c) ==
    \/ WakeUsersched(c) \/ WakeFails(c) \/ PopDispatched(c) \/ LookupTask(c)
    \/ ApplySlice(c) \/ InsertTask(c) \/ InsertOverflows(c) \/ Consume(c)
    \/ Flush(c)

CpuStep(c) == DispatchBegin(c) \/ DispatchStep(c) \/ UpdateIdle(c)

BpfNext ==
    /\ scx = "on"
    /\ \/ \E p \in Pids : TaskStep(p)
       \/ \E c \in Cpus : CpuStep(c)
===============================================================================
