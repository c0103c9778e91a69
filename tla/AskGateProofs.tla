---------------------------- MODULE AskGateProofs ----------------------------
(***************************************************************************)
(* Proofs about the gate of AskUserspace: no task is held with a slice,    *)
(* and, as long as no pid enters SCHED_EXT twice, none is queued without   *)
(* one and none has a slice its argument does not earn.                    *)
(***************************************************************************)
EXTENDS AskRequestProofs

-------------------------------------------------------------------------------
(* Every task with a slice that waits is about to be queued. *)

\* Some CPU has inserted p, or will.
Claimed(p) ==
    \E c \in Cpus : \/ p \in buf[c]
                    \/ cpc[c] = "insert" /\ cmsg[c].pid = p /\ cref[c] # "gone"

\* NoStuckTask, from the moment serverless_enqueue has read has_slice.
HeldClaimed ==
    scx = "on" => \A p \in Pids :
      where[p] \in {"holding", "queued"} /\ HasSlice(p) => Claimed(p)

LEMMA HeldClaimedForm == HeldClaimed => NoStuckTask
  BY DEF HeldClaimed, NoStuckTask, Claimed

LEMMA TaskStepHeldClaimed ==
  ASSUME TypeInv, HeldClaimed, scx = "on", NEW p \in Pids, TaskStep(p)
  PROVE  HeldClaimed'
<1> SUFFICES ASSUME NEW q \in Pids, scx' = "on",
                    where'[q] \in {"holding", "queued"}, HasSlice(q)'
             PROVE  Claimed(q)'
  BY DEF HeldClaimed
<1> USE DEF mapVars, procVars, taskVars, cpuVars, bpfVars
<1> USE DEF TypeInv, TypeOK, BpfTypeOK
<1>1. CASE Exit(p) \/ Disable(p)
  <2>1. /\ ctx' = [ctx EXCEPT ![p] = "none"]
        /\ where' = [where EXCEPT ![p] = "out"]
        /\ buf' = [c \in Cpus |-> buf[c] \ {p}]
        /\ \E left \in {"gone", "noctx"} : LosesRef(p, left)
        /\ UNCHANGED <<cpc, cmsg>>
    BY <1>1 DEF Exit, Disable, Revoke
  <2>2. q # p /\ where'[q] = where[q] /\ ctx'[q] = ctx[q]
    BY <2>1
  <2>3. Claimed(q)
    BY <2>2 DEF HeldClaimed, HasSlice
  <2>4. \A c \in Cpus : cmsg[c].pid = q => cref'[c] = cref[c]
    BY <2>1, <2>2 DEF LosesRef
  <2> QED
    BY <2>1, <2>2, <2>3, <2>4 DEF Claimed
<1>2. CASE EnableCtx(p)
  <2>1. /\ ctx' = [ctx EXCEPT ![p] = "waiting"]
        /\ UNCHANGED <<where, buf, cpc, cmsg, cref>>
    BY <1>2 DEF EnableCtx, NewCtx
  <2>2. q # p /\ ctx'[q] = ctx[q]
    BY <2>1 DEF HasSlice
  <2> QED
    BY <2>1, <2>2 DEF HeldClaimed, HasSlice, Claimed
<1>3. CASE EnableFails(p) \/ EnablePushRejected(p)
  BY <1>3 DEF EnableFails, EnablePushRejected, Abort
<1>4. CASE EnablePushFull(p) \/ EnableFlag(p)
  <2>1. /\ \E w \in {"running", "sleeping", "queueing"} :
             where' = [where EXCEPT ![p] = w]
        /\ UNCHANGED <<ctx, buf, cpc, cmsg, cref>>
    BY <1>4 DEF EnablePushFull, EnableFlag, Enabled
  <2>2. q # p /\ where'[q] = where[q]
    BY <2>1
  <2> QED
    BY <2>1, <2>2 DEF HeldClaimed, HasSlice, Claimed
<1>5. CASE Wake(p) \/ Stop(p)
  <2>1. /\ \E w \in {"running", "sleeping", "queueing"} :
             where' = [where EXCEPT ![p] = w]
        /\ UNCHANGED <<ctx, buf, cpc, cmsg, cref>>
    BY <1>5 DEF Wake, Stop
  <2>2. q # p /\ where'[q] = where[q]
    BY <2>1
  <2> QED
    BY <2>1, <2>2 DEF HeldClaimed, HasSlice, Claimed
<1>6. CASE Requeue(p) \/ (Enqueue(p) /\ HasSlice(p))
  <2>1. /\ \E w \in {"queueing", "shared"} : where' = [where EXCEPT ![p] = w]
        /\ buf' = [c \in Cpus |-> buf[c] \ {p}]
        /\ UNCHANGED <<ctx, cpc, cmsg, cref>>
    BY <1>6 DEF Requeue, Enqueue, Released, Revoke
  <2>2. q # p /\ where'[q] = where[q]
    BY <2>1
  <2> QED
    BY <2>1, <2>2 DEF HeldClaimed, HasSlice, Claimed
<1>7. CASE (Enqueue(p) /\ ~HasSlice(p)) \/ EnqueueReturn(p)
  <2>1. UNCHANGED <<ctx, buf, cpc, cmsg, cref>>
    BY <1>7 DEF Enqueue, EnqueueReturn, Released
  <2>2. where[q] \in {"holding", "queued"}
    BY <1>7, <2>1 DEF Enqueue, EnqueueReturn, Released, HasSlice
  <2> QED
    BY <2>1, <2>2 DEF HeldClaimed, HasSlice, Claimed
<1>8. CASE Fork(p) \/ EnablePush(p)
  <2>1. UNCHANGED <<where, ctx, buf, cpc, cmsg, cref>>
    BY <1>8 DEF Fork, EnablePush
  <2> QED
    BY <2>1 DEF HeldClaimed, HasSlice, Claimed
<1> QED
  BY <1>1, <1>2, <1>3, <1>4, <1>5, <1>6, <1>7, <1>8 DEF TaskStep, HandlerStep

LEMMA CpuStepHeldClaimed ==
  ASSUME TypeInv, HeldClaimed, scx = "on", NEW c \in Cpus, CpuStep(c)
  PROVE  HeldClaimed'
<1> SUFFICES ASSUME NEW q \in Pids, scx' = "on",
                    where'[q] \in {"holding", "queued"}, HasSlice(q)'
             PROVE  Claimed(q)'
  BY DEF HeldClaimed
<1> USE DEF mapVars, procVars, taskVars, cpuVars, bpfVars
<1> USE DEF TypeInv, TypeOK, BpfTypeOK
<1>1. CASE WakeFails(c) \/ InsertOverflows(c)
  BY <1>1 DEF WakeFails, InsertOverflows, Abort
<1>2. CASE ApplySlice(c)
  <2>1. /\ ctx' = [ctx EXCEPT ![cmsg[c].pid] =
                     IF cref[c] = "ctx" THEN SliceOf(cmsg[c].slice) ELSE @]
        /\ cpc' = [cpc EXCEPT ![c] = "insert"]
        /\ cpc[c] = "apply"
        /\ UNCHANGED <<where, buf, cmsg, cref>>
    BY <1>2 DEF ApplySlice, At
  <2>2. CASE cmsg[c].pid = q /\ cref[c] = "ctx"
    BY <2>1, <2>2 DEF Claimed
  <2>3. CASE ~(cmsg[c].pid = q /\ cref[c] = "ctx")
    <3>1. ctx'[q] = ctx[q]
      BY <2>1, <2>3
    <3>2. Claimed(q)
      BY <2>1, <3>1 DEF HeldClaimed, HasSlice
    <3> QED
      BY <2>1, <3>2 DEF Claimed
  <2> QED
    BY <2>2, <2>3
<1>3. CASE InsertTask(c)
  <2>1. /\ cpc' = [cpc EXCEPT ![c] = "pop"]
        /\ cmsg' = [cmsg EXCEPT ![c] = NoMsg]
        /\ cref' = [cref EXCEPT ![c] = "gone"]
        /\ buf' = [buf EXCEPT ![c] =
                     IF cref[c] # "gone" /\ Insertable(cmsg[c].pid)
                       THEN @ \cup {cmsg[c].pid} ELSE @]
        /\ UNCHANGED <<where, ctx>>
    BY <1>3 DEF InsertTask, At
  <2>2. PICK d \in Cpus :
          \/ q \in buf[d]
          \/ cpc[d] = "insert" /\ cmsg[d].pid = q /\ cref[d] # "gone"
    BY <2>1 DEF HeldClaimed, HasSlice, Claimed
  <2>3. CASE q \in buf[d]
    BY <2>1, <2>3 DEF Claimed
  <2>4. CASE d # c
    BY <2>1, <2>2, <2>4 DEF Claimed
  <2>5. CASE d = c /\ cmsg[d].pid = q /\ cref[d] # "gone"
    <3>1. Insertable(q)
      BY <2>1 DEF Insertable
    <3>2. q \in buf'[c]
      BY <2>1, <2>5, <3>1
    <3> QED
      BY <3>2 DEF Claimed
  <2> QED
    BY <2>2, <2>3, <2>4, <2>5
<1>4. CASE Flush(c)
  <2>1. /\ cpc' = [cpc EXCEPT ![c] = "out"]
        /\ cpc[c] = "flush"
        /\ where' = [p \in Pids |-> IF p \in buf[c] THEN "shared" ELSE where[p]]
        /\ buf' = [d \in Cpus |-> buf[d] \ buf[c]]
        /\ UNCHANGED <<ctx, cmsg, cref>>
    BY <1>4 DEF Flush, At
  <2>2. q \notin buf[c] /\ where'[q] = where[q]
    BY <2>1
  <2>3. Claimed(q)
    BY <2>1, <2>2 DEF HeldClaimed, HasSlice
  <2> QED
    BY <2>1, <2>2, <2>3 DEF Claimed
<1>5. CASE Consume(c)
  <2>1. /\ cpc' = [cpc EXCEPT ![c] = "flush"]
        /\ cpc[c] = "consume"
        /\ UNCHANGED <<ctx, buf, cmsg, cref>>
    BY <1>5 DEF Consume, At
  <2>2. where[q] \in {"holding", "queued"}
    BY <1>5 DEF Consume
  <2>3. Claimed(q)
    BY <2>1, <2>2 DEF HeldClaimed, HasSlice
  <2> QED
    BY <2>1, <2>3 DEF Claimed
<1>6. CASE \/ DispatchBegin(c) \/ WakeUsersched(c) \/ PopDispatched(c)
           \/ LookupTask(c) \/ UpdateIdle(c)
  <2>1. UNCHANGED <<where, ctx, buf>>
    BY <1>6 DEF DispatchBegin, WakeUsersched, PopDispatched, LookupTask,
                UpdateIdle
  <2>2. Claimed(q)
    BY <2>1 DEF HeldClaimed, HasSlice
  <2>3. \A d \in Cpus : cpc[d] = "insert" =>
          cpc'[d] = cpc[d] /\ cmsg'[d] = cmsg[d] /\ cref'[d] = cref[d]
    BY <1>6 DEF DispatchBegin, WakeUsersched, PopDispatched, LookupTask,
                UpdateIdle, At
  <2> QED
    BY <2>1, <2>2, <2>3 DEF Claimed
<1> QED
  BY <1>1, <1>2, <1>3, <1>4, <1>5, <1>6 DEF CpuStep, DispatchStep

\* A task that has its slice is never left behind: whatever the CPUs that
\* answer and the CPU that enqueues do first, one of them queues the task.
THEOREM NoTaskIsStuck == Spec => []NoStuckTask
<1>1. Init => HeldClaimed
  BY DEF Init, BpfInit, HeldClaimed
<1>2. TypeInv /\ HeldClaimed /\ [Next]_vars => HeldClaimed'
  <2> SUFFICES ASSUME TypeInv, HeldClaimed, [Next]_vars
               PROVE  HeldClaimed'
    OBVIOUS
  <2>1. CASE BpfNext
    BY <2>1, TaskStepHeldClaimed, CpuStepHeldClaimed DEF BpfNext
  <2>2. CASE DaemonNext /\ UNCHANGED bpfVars
    <3>1. UNCHANGED bpfVars /\ (scx' = "on" => scx = "on")
      BY <2>2 DEF DaemonNext, DaemonStep, LoopHead, DrainOne, DrainEnd,
           DispatchOne, BatchEnd, CheckEmpty, WaitForWork, Detach, Signal,
           procVars
    <3> QED
      BY <3>1 DEF HeldClaimed, HasSlice, Claimed, bpfVars, taskVars, cpuVars
  <2>3. CASE UNCHANGED vars
    BY <2>3 DEF HeldClaimed, HasSlice, Claimed, vars, procVars, bpfVars,
                taskVars, cpuVars
  <2> QED
    BY <2>1, <2>2, <2>3 DEF Next
<1> QED
  BY <1>1, <1>2, HeldClaimedForm, TypeInvariance, PTL DEF Spec
==============================================================================
