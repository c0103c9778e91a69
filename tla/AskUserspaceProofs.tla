-------------------------- MODULE AskUserspaceProofs --------------------------
(***************************************************************************)
(* Proofs about AskUserspace, for every number of tasks and CPUs, every    *)
(* capacity of the maps and every batch size.                              *)
(***************************************************************************)
EXTENDS AskUserspace, SequenceTheorems, TLAPS

-------------------------------------------------------------------------------
(* Typing. *)

\* A CPU past the pop of serverless_dispatch has a message in its hands.
MsgHeld == \A c \in Cpus : cpc[c] \in {"lookup", "apply", "insert"}
                             => cmsg[c] \in Msg

\* Without this nr_curr_enqueued could be decremented below zero.
CounterIsLength == nr_curr_enqueued = Len(dispatch_head)

TypeInv == TypeOK /\ MsgHeld /\ CounterIsLength

USE MapsAssumption, BpfAssumption, DaemonAssumption

LEMMA InitTypeInv == Init => TypeInv
<1> SUFFICES ASSUME Init PROVE TypeInv
  OBVIOUS
<1> USE DEF Init
<1>1. MapsTypeOK
  BY DEF MapsInit, MapsTypeOK, Args
<1>2. BpfTypeOK
  BY DEF BpfInit, BpfTypeOK, Places
<1>3. DaemonTypeOK /\ CounterIsLength
  <2>1. dispatch_head \in Seq([pid : KnownPids, slice : SliceCode])
    BY DEF DaemonInit
  <2>2. Len(dispatch_head) = 0
    BY DEF DaemonInit
  <2> QED
    BY <2>1, <2>2 DEF DaemonInit, DaemonTypeOK, CounterIsLength
<1>4. MsgHeld
  BY DEF BpfInit, MsgHeld
<1> QED
  BY <1>1, <1>2, <1>3, <1>4 DEF TypeInv, TypeOK

\* A step of a task keeps the types.
LEMMA TaskStepTypeInv ==
  ASSUME TypeInv, NEW p \in Pids, TaskStep(p), UNCHANGED daemonVars
  PROVE  TypeInv'
<1> USE DEF TypeInv, TypeOK, MapsTypeOK, BpfTypeOK, DaemonTypeOK, MsgHeld,
            CounterIsLength, mapVars, procVars, taskVars, cpuVars, bpfVars,
            daemonVars, Places, Args
<1>1. CASE Fork(p)
  BY <1>1 DEF Fork
<1>2. CASE Exit(p)
  BY <1>2 DEF Exit, LosesRef, Revoke
<1>3. CASE Disable(p)
  BY <1>3 DEF Disable, LosesRef, Revoke
<1>4. CASE EnableCtx(p)
  BY <1>4 DEF EnableCtx, NewCtx
<1>5. CASE EnableFails(p)
  BY <1>5 DEF EnableFails, Abort
<1>6. CASE Wake(p)
  BY <1>6 DEF Wake
<1>7. CASE Stop(p)
  BY <1>7 DEF Stop
<1>8. CASE Requeue(p)
  BY <1>8 DEF Requeue, Revoke
<1>9. CASE EnablePush(p)
  BY <1>9 DEF EnablePush
<1>10. CASE EnablePushFull(p)
  BY <1>10 DEF EnablePushFull, Enabled
<1>11. CASE EnablePushRejected(p)
  BY <1>11 DEF EnablePushRejected, Abort
<1>12. CASE EnableFlag(p)
  BY <1>12 DEF EnableFlag, Enabled, SetNeeded
<1>13. CASE Enqueue(p)
  <2>1. CASE HasSlice(p)
    <3>1. /\ where' = [where EXCEPT ![p] = "shared"]
          /\ buf' = [c \in Cpus |-> buf[c] \ {p}]
          /\ UNCHANGED <<mapVars, procVars, ctx, epc, enables,
                         nr_failed_enqueues, cpc, cmsg, cref, slots>>
      BY <1>13, <2>1 DEF Enqueue, Released, Revoke
    <3> QED
      BY <3>1
  <2>2. CASE ~HasSlice(p)
    BY <1>13, <2>2 DEF Enqueue, Released
  <2> QED
    BY <2>1, <2>2
<1>14. CASE EnqueueReturn(p)
  BY <1>14 DEF EnqueueReturn
<1> QED
  BY <1>1, <1>2, <1>3, <1>4, <1>5, <1>6, <1>7, <1>8, <1>9, <1>10, <1>11,
     <1>12, <1>13, <1>14 DEF TaskStep, HandlerStep

\* A step of a CPU keeps the types.
LEMMA CpuStepTypeInv ==
  ASSUME TypeInv, NEW c \in Cpus, CpuStep(c), UNCHANGED daemonVars
  PROVE  TypeInv'
<1> USE DEF TypeInv, TypeOK, MapsTypeOK, BpfTypeOK, DaemonTypeOK, MsgHeld,
            CounterIsLength, mapVars, procVars, taskVars, cpuVars, bpfVars,
            daemonVars, Places, At
<1>1. CASE DispatchBegin(c)
  BY <1>1 DEF DispatchBegin
<1>2. CASE WakeUsersched(c)
  BY <1>2 DEF WakeUsersched
<1>3. CASE WakeFails(c)
  BY <1>3 DEF WakeFails, Abort
<1>4. CASE PopDispatched(c)
  <2>1. CASE dispatched = <<>>
    BY <1>4, <2>1 DEF PopDispatched
  <2>2. CASE dispatched # <<>>
    <3>1. /\ Head(dispatched) \in Msg
          /\ Tail(dispatched) \in Seq(Msg)
          /\ Len(Tail(dispatched)) <= DCap
      BY <2>2, HeadTailProperties, LenProperties
    <3>2. /\ cpc' = [cpc EXCEPT ![c] = "lookup"]
          /\ cmsg' = [cmsg EXCEPT ![c] = Head(dispatched)]
          /\ dispatched' = Tail(dispatched)
          /\ UNCHANGED <<enqueued, usersched_needed, ring, nr_userspace_queued,
                         nr_userspace_scheduled, procVars, taskVars, cref, buf,
                         slots>>
      BY <1>4, <2>2 DEF PopDispatched
    <3> QED
      BY <3>1, <3>2
  <2> QED
    BY <2>1, <2>2
<1>5. CASE LookupTask(c)
  <2> DEFINE p == cmsg[c].pid
  <2>1. cmsg[c] \in Msg
    BY <1>5 DEF LookupTask
  <2>2. UNCHANGED <<mapVars, procVars, taskVars, buf, slots>>
    BY <1>5 DEF LookupTask
  <2>3. CASE task[p] = "dead"
    <3>1. /\ cpc' = [cpc EXCEPT ![c] = "pop"]
          /\ cmsg' = [cmsg EXCEPT ![c] = NoMsg]
          /\ cref' = cref
      BY <1>5, <2>3 DEF LookupTask
    <3> QED
      BY <2>2, <3>1
  <2>4. CASE task[p] # "dead" /\ ctx[p] = "none"
    <3>1. /\ cpc' = [cpc EXCEPT ![c] = "insert"]
          /\ cref' = [cref EXCEPT ![c] = "noctx"]
          /\ cmsg' = cmsg
      BY <1>5, <2>4 DEF LookupTask
    <3> QED
      BY <2>1, <2>2, <3>1
  <2>5. CASE task[p] # "dead" /\ ctx[p] # "none"
    <3>1. /\ cpc' = [cpc EXCEPT ![c] = "apply"]
          /\ cref' = [cref EXCEPT ![c] = "ctx"]
          /\ cmsg' = cmsg
      BY <1>5, <2>5 DEF LookupTask
    <3> QED
      BY <2>1, <2>2, <3>1
  <2> QED
    BY <2>3, <2>4, <2>5
<1>6. CASE ApplySlice(c)
  BY <1>6 DEF ApplySlice, SliceOf
<1>7. CASE InsertTask(c)
  BY <1>7 DEF InsertTask, Msg, NoMsg
<1>8. CASE InsertOverflows(c)
  BY <1>8 DEF InsertOverflows, Abort
<1>9. CASE Consume(c)
  <2>1. where' \in [Pids -> Places]
    <3>1. CASE UNCHANGED where
      BY <3>1
    <3>2. CASE \E p \in Pids : where' = [where EXCEPT ![p] = "running"]
      BY <3>2
    <3> QED
      BY <1>9, <3>1, <3>2 DEF Consume
  <2>2. /\ cpc' = [cpc EXCEPT ![c] = "flush"]
        /\ UNCHANGED <<mapVars, procVars, ctx, epc, enables,
                       nr_failed_enqueues, cmsg, cref, buf, slots>>
    BY <1>9 DEF Consume
  <2> QED
    BY <2>1, <2>2
<1>10. CASE Flush(c)
  BY <1>10 DEF Flush
<1>11. CASE UpdateIdle(c)
  BY <1>11 DEF UpdateIdle, SetNeeded
<1> QED
  BY <1>1, <1>2, <1>3, <1>4, <1>5, <1>6, <1>7, <1>8, <1>9, <1>10, <1>11
     DEF CpuStep, DispatchStep

\* A step of the daemon keeps the types.
LEMMA DaemonStepTypeInv ==
  ASSUME TypeInv, DaemonNext, UNCHANGED bpfVars
  PROVE  TypeInv'
<1> USE DEF TypeInv, TypeOK, MapsTypeOK, BpfTypeOK, DaemonTypeOK, MsgHeld,
            CounterIsLength, mapVars, procVars, taskVars, cpuVars, bpfVars
<1>1. CASE LoopHead
  BY <1>1 DEF LoopHead
<1>2. CASE DrainOne
  <2> DEFINE p == Head(enqueued)
             Entry == [pid : KnownPids, slice : SliceCode]
  <2>1. /\ p \in Pids
        /\ Tail(enqueued) \in Seq(Pids)
        /\ Len(Tail(enqueued)) <= QCap
    BY <1>2, HeadTailProperties, LenProperties DEF DrainOne
  <2>2. CASE LocalEnqueue(p)
    <3>1. PICK s \in SliceRead(p) :
            dispatch_head' = Append(dispatch_head, [pid |-> p, slice |-> s])
      BY <2>2 DEF LocalEnqueue
    <3>2. [pid |-> p, slice |-> s] \in Entry
      BY <2>2, <3>1 DEF LocalEnqueue, SliceRead, CodeOf, SliceCode
    <3>3. /\ dispatch_head' \in Seq(Entry)
          /\ Len(dispatch_head') = Len(dispatch_head) + 1
      BY <3>1, <3>2, AppendProperties
    <3> QED
      BY <1>2, <2>1, <2>2, <3>3 DEF DrainOne, LocalEnqueue
  <2>3. CASE LocalEnqueueDup(p)
    BY <1>2, <2>1, <2>3 DEF DrainOne, LocalEnqueueDup
  <2>4. CASE LocalEnqueueFails(p)
    BY <1>2, <2>1, <2>4 DEF DrainOne, LocalEnqueueFails
  <2> QED
    BY <1>2, <2>2, <2>3, <2>4 DEF DrainOne
<1>3. CASE DrainEnd
  BY <1>3 DEF DrainEnd
<1>4. CASE DispatchOne
  <2> DEFINE Entry == [pid : KnownPids, slice : SliceCode]
             e == Head(dispatch_head)
  <2>1. /\ e \in Entry
        /\ Tail(dispatch_head) \in Seq(Entry)
        /\ Len(Tail(dispatch_head)) = Len(dispatch_head) - 1
        /\ Len(dispatch_head) \in Nat \ {0}
    BY <1>4, HeadTailProperties, EmptySeq DEF DispatchOne
  <2>2. e \in Msg
    BY <2>1 DEF Msg
  <2>3. /\ dispatched' \in Seq(Msg)
        /\ Len(dispatched') <= DCap
    BY <1>4, <2>2, AppendProperties, LenProperties
      DEF DispatchOne, PushDispatched, RoomInDispatched
  <2> QED
    BY <1>4, <2>1, <2>3 DEF DispatchOne, Unqueue
<1>5. CASE BatchEnd
  BY <1>5 DEF BatchEnd
<1>6. CASE CheckEmpty
  BY <1>6 DEF CheckEmpty
<1>7. CASE WaitForWork
  BY <1>7 DEF WaitForWork
<1>8. CASE Detach
  BY <1>8 DEF Detach
<1>9. CASE Signal
  BY <1>9 DEF Signal
<1> QED
  BY <1>1, <1>2, <1>3, <1>4, <1>5, <1>6, <1>7, <1>8, <1>9
     DEF DaemonNext, DaemonStep

LEMMA StutterTypeInv == TypeInv /\ UNCHANGED vars => TypeInv'
  BY DEF TypeInv, TypeOK, MapsTypeOK, BpfTypeOK, DaemonTypeOK, MsgHeld,
         CounterIsLength, vars, mapVars, procVars, taskVars, cpuVars, bpfVars,
         daemonVars

\* The variables keep their types: the maps stay within their capacity, no
\* dispatch buffer is used beyond its slots, and no counter is decremented
\* below zero.
THEOREM TypeCorrect == Spec => []TypeOK
<1>1. TypeInv /\ [Next]_vars => TypeInv'
  BY TaskStepTypeInv, CpuStepTypeInv, DaemonStepTypeInv, StutterTypeInv
     DEF Next, BpfNext
<1>2. TypeInv => TypeOK
  BY DEF TypeInv
<1> QED
  BY InitTypeInv, <1>1, <1>2, PTL DEF Spec

\* The same, for use in the proofs of other invariants.
LEMMA TypeInvariance == Spec => []TypeInv
<1>1. TypeInv /\ [Next]_vars => TypeInv'
  BY TaskStepTypeInv, CpuStepTypeInv, DaemonStepTypeInv, StutterTypeInv
     DEF Next, BpfNext
<1> QED
  BY InitTypeInv, <1>1, PTL DEF Spec

-------------------------------------------------------------------------------
(* Tasks, their contexts and the claims of the dispatch buffers. *)

\* A buffered insertion that was not revoked is for a task that is still inside
\* ops.enqueue or held.
ClaimsHeld ==
    \A c \in Cpus : \A p \in buf[c] :
      where[p] \in {"queueing", "holding", "queued"}

\* A task inside ops.enable is in SCHED_EXT, and nowhere yet.
EnablingIsOut ==
    \A p \in Pids :
      epc[p] # "idle" => task[p] = "ext" /\ where[p] = "out" /\ ctx[p] # "none"

KernelInv == ClaimsHeld /\ EnablingIsOut /\ ManagedHasCtx

LEMMA InitKernelInv == Init => KernelInv
  BY DEF Init, MapsInit, BpfInit, KernelInv, ClaimsHeld, EnablingIsOut,
         ManagedHasCtx

\* Most steps touch nothing KernelInv speaks of.
LEMMA QuietKernelInv ==
  ASSUME KernelInv, UNCHANGED <<where, ctx, epc, task, buf>>
  PROVE  KernelInv'
  BY DEF KernelInv, ClaimsHeld, EnablingIsOut, ManagedHasCtx

LEMMA TaskStepKernelInv ==
  ASSUME TypeInv, KernelInv, NEW p \in Pids, TaskStep(p)
  PROVE  KernelInv'
<1> USE DEF TypeInv, TypeOK, MapsTypeOK, BpfTypeOK, KernelInv, ClaimsHeld,
            EnablingIsOut, ManagedHasCtx, mapVars, procVars, taskVars, cpuVars,
            bpfVars, Places
<1>1. CASE Fork(p)
  BY <1>1 DEF Fork
<1>2. CASE Exit(p)
  BY <1>2 DEF Exit, Revoke
<1>3. CASE Disable(p)
  BY <1>3 DEF Disable, Revoke
<1>4. CASE EnableCtx(p)
  BY <1>4 DEF EnableCtx, NewCtx
<1>5. CASE EnableFails(p)
  BY <1>5 DEF EnableFails, Abort
<1>6. CASE Wake(p)
  BY <1>6 DEF Wake
<1>7. CASE Stop(p)
  BY <1>7 DEF Stop
<1>8. CASE Requeue(p)
  BY <1>8 DEF Requeue, Revoke
<1>9. CASE EnablePush(p)
  BY <1>9 DEF EnablePush
<1>10. CASE EnablePushFull(p)
  BY <1>10 DEF EnablePushFull, Enabled
<1>11. CASE EnablePushRejected(p)
  BY <1>11 DEF EnablePushRejected, Abort
<1>12. CASE EnableFlag(p)
  BY <1>12 DEF EnableFlag, Enabled, SetNeeded
<1>13. CASE Enqueue(p)
  <2>1. CASE HasSlice(p)
    <3>1. /\ where' = [where EXCEPT ![p] = "shared"]
          /\ buf' = [c \in Cpus |-> buf[c] \ {p}]
          /\ UNCHANGED <<task, ctx, epc>>
          /\ where[p] = "queueing"
      BY <1>13, <2>1 DEF Enqueue, Released, Revoke
    <3> QED
      BY <3>1
  <2>2. CASE ~HasSlice(p)
    <3>1. /\ where' = [where EXCEPT ![p] = "holding"]
          /\ UNCHANGED <<task, ctx, epc, buf>>
          /\ where[p] = "queueing"
      BY <1>13, <2>2 DEF Enqueue, Released
    <3> QED
      BY <3>1
  <2> QED
    BY <2>1, <2>2
<1>14. CASE EnqueueReturn(p)
  BY <1>14 DEF EnqueueReturn
<1> QED
  BY <1>1, <1>2, <1>3, <1>4, <1>5, <1>6, <1>7, <1>8, <1>9, <1>10, <1>11,
     <1>12, <1>13, <1>14 DEF TaskStep, HandlerStep

LEMMA CpuStepKernelInv ==
  ASSUME TypeInv, KernelInv, NEW c \in Cpus, CpuStep(c)
  PROVE  KernelInv'
<1> USE DEF mapVars, procVars, taskVars, cpuVars, bpfVars
<1>1. CASE DispatchBegin(c)
  BY <1>1, QuietKernelInv DEF DispatchBegin
<1>2. CASE WakeUsersched(c)
  BY <1>2, QuietKernelInv DEF WakeUsersched
<1>3. CASE WakeFails(c)
  BY <1>3, QuietKernelInv DEF WakeFails, Abort
<1>4. CASE PopDispatched(c)
  BY <1>4, QuietKernelInv DEF PopDispatched
<1>5. CASE LookupTask(c)
  BY <1>5, QuietKernelInv DEF LookupTask
<1>6. CASE ApplySlice(c)
  <2>1. ctx' = [ctx EXCEPT ![cmsg[c].pid] =
                  IF cref[c] = "ctx" THEN SliceOf(cmsg[c].slice) ELSE @]
    BY <1>6 DEF ApplySlice
  <2>2. UNCHANGED <<where, epc, task, buf>>
    BY <1>6 DEF ApplySlice
  <2>3. \A p \in Pids : ctx[p] # "none" => ctx'[p] # "none"
    BY <2>1 DEF SliceOf, TypeInv, TypeOK, BpfTypeOK
  <2> QED
    BY <2>2, <2>3 DEF KernelInv, ClaimsHeld, EnablingIsOut, ManagedHasCtx,
                      TypeInv, TypeOK, BpfTypeOK
<1>7. CASE InsertTask(c)
  <2>1. /\ UNCHANGED <<where, ctx, epc, task>>
        /\ \A d \in Cpus : \A p \in buf'[d] :
             p \in buf[d] \/ where[p] \in {"queueing", "holding", "queued"}
    BY <1>7 DEF InsertTask, Insertable, TypeInv, TypeOK, BpfTypeOK
  <2> QED
    BY <2>1 DEF KernelInv, ClaimsHeld, EnablingIsOut, ManagedHasCtx
<1>8. CASE InsertOverflows(c)
  BY <1>8, QuietKernelInv DEF InsertOverflows, Abort
<1>9. CASE Consume(c)
  <2>1. CASE UNCHANGED where
    BY <1>9, <2>1, QuietKernelInv DEF Consume
  <2>2. CASE \E p \in Pids : /\ where[p] = "shared"
                             /\ where' = [where EXCEPT ![p] = "running"]
    <3>1. UNCHANGED <<ctx, epc, task, buf>>
      BY <1>9 DEF Consume
    <3> QED
      BY <2>2, <3>1 DEF KernelInv, ClaimsHeld, EnablingIsOut, ManagedHasCtx,
                        TypeInv, TypeOK, BpfTypeOK
  <2> QED
    BY <1>9, <2>1, <2>2 DEF Consume
<1>10. CASE Flush(c)
  <2>1. /\ where' = [p \in Pids |-> IF p \in buf[c] THEN "shared" ELSE where[p]]
        /\ buf' = [d \in Cpus |-> buf[d] \ buf[c]]
        /\ UNCHANGED <<ctx, epc, task>>
    BY <1>10 DEF Flush
  <2>2. \A p \in buf[c] : p \in Pids /\ where[p] # "out"
    BY DEF KernelInv, ClaimsHeld, TypeInv, TypeOK, BpfTypeOK
  <2>3. ClaimsHeld'
    BY <2>1 DEF KernelInv, ClaimsHeld, TypeInv, TypeOK, BpfTypeOK
  <2>4. EnablingIsOut' /\ ManagedHasCtx'
    BY <2>1, <2>2 DEF KernelInv, EnablingIsOut, ManagedHasCtx
  <2> QED
    BY <2>3, <2>4 DEF KernelInv
<1>11. CASE UpdateIdle(c)
  BY <1>11, QuietKernelInv DEF UpdateIdle
<1> QED
  BY <1>1, <1>2, <1>3, <1>4, <1>5, <1>6, <1>7, <1>8, <1>9, <1>10, <1>11
     DEF CpuStep, DispatchStep

\* The daemon touches no task.
LEMMA DaemonStepQuiet ==
  ASSUME DaemonNext, UNCHANGED bpfVars
  PROVE  UNCHANGED <<where, ctx, epc, task, buf, cpc, cmsg, cref,
                     usersched_needed, nr_failed_enqueues>>
  BY DEF DaemonNext, DaemonStep, LoopHead, DrainOne, DrainEnd, DispatchOne,
         BatchEnd, CheckEmpty, WaitForWork, Detach, Signal, mapVars, procVars,
         bpfVars, taskVars, cpuVars

LEMMA KernelInvariance == Spec => []KernelInv
<1>1. TypeInv /\ KernelInv /\ [Next]_vars => KernelInv'
  <2> SUFFICES ASSUME TypeInv, KernelInv, [Next]_vars
               PROVE  KernelInv'
    OBVIOUS
  <2>1. CASE BpfNext
    BY <2>1, TaskStepKernelInv, CpuStepKernelInv DEF BpfNext
  <2>2. CASE DaemonNext /\ UNCHANGED bpfVars
    BY <2>2, DaemonStepQuiet, QuietKernelInv
  <2>3. CASE UNCHANGED vars
    BY <2>3, QuietKernelInv DEF vars, mapVars, procVars, bpfVars, taskVars,
                                cpuVars
  <2> QED
    BY <2>1, <2>2, <2>3 DEF Next
<1> QED
  BY InitKernelInv, TypeInvariance, <1>1, PTL DEF Spec

\* Every task the kernel calls the scheduler for has a task_ctx: the
\* scx_bpf_error branches of select_cpu, enqueue and stopping are never taken,
\* however enable, disable, exit and dispatch interleave.
THEOREM ContextsExist == Spec => []ManagedHasCtx
  BY KernelInvariance, PTL DEF KernelInv

-------------------------------------------------------------------------------
(* The wake-up protocol. *)

\* A wake-up of the daemon is in the ring buffer, or on its way there.
WakeUpComing ==
    \/ usersched_needed = 1
    \/ ring > 0
    \/ \E p \in Pids : epc[p] = "flag"
    \/ \E c \in Cpus : cpc[c] = "wake"

\* The state in which one has to be: the daemon has looked at "enqueued".
WakeUpNeeded ==
    /\ scx = "on" /\ exit_req = 0
    /\ dpc \in {"batch", "check", "wait"}
    /\ enqueued # <<>>

LEMMA NoLostWakeupForm == NoLostWakeup <=> (WakeUpNeeded => WakeUpComing)
  BY DEF NoLostWakeup, WakeUpNeeded, WakeUpComing

\* A task announces what it pushes: no step of a task consumes a wake-up.
LEMMA TaskStepWakeup ==
  ASSUME TypeInv, KernelInv, NoLostWakeup, NEW p \in Pids, TaskStep(p),
         UNCHANGED daemonVars
  PROVE  NoLostWakeup'
<1> SUFFICES ASSUME WakeUpNeeded'
             PROVE  WakeUpComing'
  BY DEF NoLostWakeup, WakeUpNeeded, WakeUpComing
<1> USE DEF mapVars, procVars, taskVars, cpuVars, bpfVars, daemonVars
<1>1. CASE EnablePush(p)
  BY <1>1 DEF EnablePush, WakeUpComing, TypeInv, TypeOK, BpfTypeOK
<1>2. CASE EnableFlag(p)
  BY <1>2 DEF EnableFlag, SetNeeded, WakeUpComing
<1>3. CASE EnableCtx(p)
  <2>1. WakeUpComing
    BY <1>3, NoLostWakeupForm DEF EnableCtx, WakeUpNeeded
  <2>2. epc[p] = "idle"
    BY <1>3 DEF EnableCtx, KernelInv, EnablingIsOut
  <2> QED
    BY <1>3, <2>1, <2>2 DEF EnableCtx, WakeUpComing, TypeInv, TypeOK, BpfTypeOK
<1>4. CASE EnablePushFull(p)
  <2>1. WakeUpComing
    BY <1>4, NoLostWakeupForm DEF EnablePushFull, WakeUpNeeded
  <2> QED
    BY <1>4, <2>1 DEF EnablePushFull, Enabled, WakeUpComing, TypeInv, TypeOK,
                      BpfTypeOK
<1>5. CASE EnableFails(p) \/ EnablePushRejected(p)
  BY <1>5 DEF EnableFails, EnablePushRejected, Abort, WakeUpNeeded
<1>6. CASE \/ Fork(p) \/ Exit(p) \/ Disable(p) \/ Wake(p) \/ Stop(p)
           \/ Requeue(p) \/ Enqueue(p) \/ EnqueueReturn(p)
  <2>1. UNCHANGED <<usersched_needed, ring, epc, cpc, scx, enqueued>>
    BY <1>6 DEF Fork, Exit, Disable, Wake, Stop, Requeue, Enqueue,
                EnqueueReturn
  <2> QED
    BY <2>1, NoLostWakeupForm DEF WakeUpNeeded, WakeUpComing
<1> QED
  BY <1>1, <1>2, <1>3, <1>4, <1>5, <1>6 DEF TaskStep, HandlerStep

\* Dispatch turns the flag into a message: no step of a CPU loses a wake-up.
LEMMA CpuStepWakeup ==
  ASSUME TypeInv, NoLostWakeup, NEW c \in Cpus, CpuStep(c),
         UNCHANGED daemonVars
  PROVE  NoLostWakeup'
<1> SUFFICES ASSUME WakeUpNeeded'
             PROVE  WakeUpComing'
  BY DEF NoLostWakeup, WakeUpNeeded, WakeUpComing
<1> USE DEF mapVars, procVars, taskVars, cpuVars, bpfVars, daemonVars
<1>1. CASE WakeFails(c) \/ InsertOverflows(c)
  BY <1>1 DEF WakeFails, InsertOverflows, Abort, WakeUpNeeded
<1>2. CASE WakeUsersched(c)
  BY <1>2 DEF WakeUsersched, WakeUpComing, TypeInv, TypeOK, MapsTypeOK
<1>3. CASE UpdateIdle(c)
  BY <1>3 DEF UpdateIdle, SetNeeded, WakeUpComing
<1>4. ASSUME ~(WakeFails(c) \/ InsertOverflows(c) \/ WakeUsersched(c)
                 \/ UpdateIdle(c))
      PROVE  WakeUpComing'
  <2>1. UNCHANGED <<ring, epc, scx, enqueued>>
    BY <1>4 DEF CpuStep, DispatchStep, DispatchBegin, PopDispatched,
                LookupTask, ApplySlice, InsertTask, Consume, Flush
  <2>2. WakeUpComing
    BY <2>1, NoLostWakeupForm DEF WakeUpNeeded
  <2>3. CASE DispatchBegin(c)
    <3>1. cpc' = [cpc EXCEPT ![c] = IF usersched_needed = 1
                                      THEN "wake" ELSE "pop"]
          /\ cpc[c] = "out"
      BY <2>3 DEF DispatchBegin, At
    <3> QED
      BY <2>1, <2>2, <3>1 DEF WakeUpComing, TypeInv, TypeOK, BpfTypeOK
  <2>4. CASE ~DispatchBegin(c)
    <3>1. UNCHANGED usersched_needed
      BY <1>4, <2>4 DEF CpuStep, DispatchStep, PopDispatched, LookupTask,
                        ApplySlice, InsertTask, Consume, Flush
    <3>2. /\ cpc[c] # "wake"
          /\ \A d \in Cpus \ {c} : cpc'[d] = cpc[d]
      BY <1>4, <2>4 DEF CpuStep, DispatchStep, PopDispatched, LookupTask,
                        ApplySlice, InsertTask, Consume, Flush, At, TypeInv,
                        TypeOK, BpfTypeOK
    <3> QED
      BY <2>1, <2>2, <3>1, <3>2 DEF WakeUpComing
  <2> QED
    BY <2>3, <2>4
<1> QED
  BY <1>1, <1>2, <1>3, <1>4

\* The daemon drains after it took the messages, and looks once more before it
\* leaves the states in which it needs a wake-up.
LEMMA DaemonStepWakeup ==
  ASSUME NoLostWakeup, DaemonNext, UNCHANGED bpfVars
  PROVE  NoLostWakeup'
<1> SUFFICES ASSUME WakeUpNeeded'
             PROVE  WakeUpComing'
  BY DEF NoLostWakeup, WakeUpNeeded, WakeUpComing
<1> USE DEF mapVars, procVars, taskVars, cpuVars, bpfVars
<1>1. CASE LoopHead
  BY <1>1 DEF LoopHead, WakeUpNeeded
<1>2. CASE DrainOne
  BY <1>2 DEF DrainOne, LocalEnqueue, LocalEnqueueDup, LocalEnqueueFails,
              WakeUpNeeded
<1>3. CASE DrainEnd
  BY <1>3 DEF DrainEnd, WakeUpNeeded
<1>4. CASE WaitForWork
  BY <1>4 DEF WaitForWork, WakeUpNeeded
<1>5. CASE Detach
  BY <1>5 DEF Detach, WakeUpNeeded
<1>6. CASE Signal
  BY <1>6 DEF Signal, WakeUpNeeded
<1>7. CASE DispatchOne \/ BatchEnd \/ CheckEmpty
  <2>1. /\ UNCHANGED <<usersched_needed, ring, epc, cpc, scx, enqueued,
                       exit_req>>
        /\ dpc \in {"batch", "check"}
    BY <1>7 DEF DispatchOne, BatchEnd, CheckEmpty
  <2> QED
    BY <2>1, NoLostWakeupForm DEF WakeUpNeeded, WakeUpComing
<1> QED
  BY <1>1, <1>2, <1>3, <1>4, <1>5, <1>6, <1>7 DEF DaemonNext, DaemonStep

\* The daemon never sleeps on a request, whatever the number of tasks that
\* enter at once and of CPUs that test and clear the flag.
THEOREM WakeupsAreNotLost == Spec => []NoLostWakeup
<1>1. Init => NoLostWakeup
  BY DEF Init, DaemonInit, NoLostWakeup
<1>2. TypeInv /\ KernelInv /\ NoLostWakeup /\ [Next]_vars => NoLostWakeup'
  <2> SUFFICES ASSUME TypeInv, KernelInv, NoLostWakeup, [Next]_vars
               PROVE  NoLostWakeup'
    OBVIOUS
  <2>1. CASE BpfNext /\ UNCHANGED daemonVars
    BY <2>1, TaskStepWakeup, CpuStepWakeup DEF BpfNext
  <2>2. CASE DaemonNext /\ UNCHANGED bpfVars
    BY <2>2, DaemonStepWakeup
  <2>3. CASE UNCHANGED vars
    BY <2>3 DEF NoLostWakeup, vars, mapVars, procVars, bpfVars, taskVars,
                cpuVars, daemonVars
  <2> QED
    BY <2>1, <2>2, <2>3 DEF Next
<1> QED
  BY <1>1, <1>2, TypeInvariance, KernelInvariance, PTL DEF Spec
===============================================================================
