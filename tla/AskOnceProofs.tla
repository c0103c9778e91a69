---------------------------- MODULE AskOnceProofs ----------------------------
(***************************************************************************)
(* Proofs about AskUserspace while a pid names one life of one task        *)
(* (MaxEnables = 1): the gate holds, the infinite slice goes to short      *)
(* functions only, and the scheduler implements SliceGate.  Without the    *)
(* assumption the first two do not hold.                                   *)
(***************************************************************************)
EXTENDS AskGateProofs

-------------------------------------------------------------------------------
(* A pid that is named anywhere will not be enabled again. *)

Spent(p) == enables[p] = MaxEnables

Holds(c, p) == cpc[c] \in {"lookup", "apply", "insert"} /\ cmsg[c].pid = p

Named(p) ==
    \/ epc[p] # "idle"
    \/ In(p, enqueued)
    \/ InMsgs(p, dispatch_head)
    \/ InMsgs(p, dispatched)
    \/ \E c \in Cpus : Holds(c, p)

NamedIsSpent == \A p \in Pids : Named(p) \/ ctx[p] # "none" => Spent(p)

\* A task names itself when it enters, and only then.
LEMMA TaskStepNamed ==
  ASSUME TypeInv, NEW p \in Pids, NEW q \in Pids, TaskStep(p),
         UNCHANGED daemonVars, ~EnableCtx(p), Named(q)' \/ ctx'[q] # "none"
  PROVE  (Named(q) \/ ctx[q] # "none") /\ UNCHANGED enables
<1> USE DEF mapVars, procVars, taskVars, cpuVars, bpfVars, daemonVars
<1> USE DEF TypeInv, TypeOK, MapsTypeOK, BpfTypeOK
<1>1. CASE EnablePush(p)
  <2>1. /\ epc[p] = "push"
        /\ epc' = [epc EXCEPT ![p] = "flag"]
        /\ enqueued' = Append(enqueued, p)
        /\ UNCHANGED <<ctx, enables, dispatched, dispatch_head, cpc, cmsg>>
    BY <1>1 DEF EnablePush
  <2>2. In(q, enqueued') <=> In(q, enqueued) \/ p = q
    BY <2>1, InAppend
  <2> QED
    BY <2>1, <2>2 DEF Named, Holds
<1>2. CASE EnablePushFull(p) \/ EnableFlag(p)
  <2>1. /\ epc' = [epc EXCEPT ![p] = "idle"]
        /\ UNCHANGED <<ctx, enables, enqueued, dispatched, dispatch_head, cpc,
                       cmsg>>
    BY <1>2 DEF EnablePushFull, EnableFlag, Enabled
  <2> QED
    BY <2>1 DEF Named, Holds
<1>3. CASE Exit(p) \/ Disable(p)
  <2>1. /\ ctx' = [ctx EXCEPT ![p] = "none"]
        /\ UNCHANGED <<epc, enables, enqueued, dispatched, dispatch_head, cpc,
                       cmsg>>
    BY <1>3 DEF Exit, Disable
  <2> QED
    BY <2>1 DEF Named, Holds
<1>4. CASE \/ Fork(p) \/ EnableFails(p) \/ Wake(p) \/ Stop(p) \/ Requeue(p)
           \/ EnablePushRejected(p) \/ Enqueue(p) \/ EnqueueReturn(p)
  <2>1. UNCHANGED <<ctx, epc, enables, enqueued, dispatched, dispatch_head,
                    cpc, cmsg>>
    BY <1>4 DEF Fork, EnableFails, Abort, Wake, Stop, Requeue,
                EnablePushRejected, Enqueue, EnqueueReturn
  <2> QED
    BY <2>1 DEF Named, Holds
<1> QED
  BY <1>1, <1>2, <1>3, <1>4 DEF TaskStep, HandlerStep

LEMMA CpuStepNamed ==
  ASSUME TypeInv, RequestInv, NEW c \in Cpus, NEW q \in Pids, CpuStep(c),
         UNCHANGED daemonVars, Named(q)' \/ ctx'[q] # "none"
  PROVE  (Named(q) \/ ctx[q] # "none") /\ UNCHANGED enables
<1> USE DEF mapVars, procVars, taskVars, cpuVars, bpfVars, daemonVars
<1> USE DEF TypeInv, TypeOK, MapsTypeOK, BpfTypeOK
<1>1. CASE ApplySlice(c)
  <2>1. /\ cpc[c] = "apply"
        /\ cpc' = [cpc EXCEPT ![c] = "insert"]
        /\ ctx' = [ctx EXCEPT ![cmsg[c].pid] =
                     IF cref[c] = "ctx" THEN SliceOf(cmsg[c].slice) ELSE @]
        /\ UNCHANGED <<epc, enables, enqueued, dispatched, dispatch_head, cmsg>>
    BY <1>1 DEF ApplySlice, At
  <2>2. \A d \in Cpus : Holds(d, q)' <=> Holds(d, q)
    BY <2>1 DEF Holds
  <2>3. ctx'[q] # "none" => ctx[q] # "none" \/ Holds(c, q)
    BY <2>1 DEF Holds
  <2> QED
    BY <2>1, <2>2, <2>3 DEF Named
<1>2. ASSUME ~ApplySlice(c)
      PROVE  (Named(q) \/ ctx[q] # "none") /\ UNCHANGED enables
  <2>1. UNCHANGED <<ctx, epc, enables, enqueued, dispatch_head>>
    BY <1>2 DEF CpuStep, DispatchStep, DispatchBegin, WakeUsersched, WakeFails,
                Abort, PopDispatched, LookupTask, InsertTask, InsertOverflows,
                Consume, Flush, UpdateIdle
  <2>2. \A d \in Cpus \ {c} : cpc'[d] = cpc[d] /\ cmsg'[d] = cmsg[d]
    BY <1>2 DEF CpuStep, DispatchStep, DispatchBegin, WakeUsersched, WakeFails,
                Abort, PopDispatched, LookupTask, InsertTask, InsertOverflows,
                Consume, Flush, UpdateIdle, At
  <2>3. CASE PopDispatched(c) /\ dispatched # <<>>
    <3>1. /\ cmsg' = [cmsg EXCEPT ![c] = Head(dispatched)]
          /\ dispatched' = Tail(dispatched)
      BY <2>3 DEF PopDispatched
    <3>2. cmsg'[c] = Head(dispatched)
      BY <3>1
    <3>3. InMsgs(q, dispatched)
            <=> InMsgs(q, dispatched') \/ Head(dispatched).pid = q
      BY <2>3, <3>1, InMsgsTail
    <3> QED
      BY <2>1, <2>2, <3>2, <3>3 DEF Named, Holds
  <2>4. ASSUME ~(PopDispatched(c) /\ dispatched # <<>>)
        PROVE  Named(q) \/ ctx[q] # "none"
    <3>1. dispatched' = dispatched
      BY <1>2, <2>4 DEF CpuStep, DispatchStep, DispatchBegin, WakeUsersched,
           WakeFails, Abort, PopDispatched, LookupTask, InsertTask,
           InsertOverflows, Consume, Flush, UpdateIdle
    <3>2. Holds(c, q)' => Holds(c, q)
      <4>1. CASE LookupTask(c)
        <5>1. cpc[c] = "lookup"
          BY <4>1 DEF LookupTask
        <5>2. CASE cmsg' = cmsg
          BY <5>1, <5>2 DEF Holds
        <5>3. CASE cpc' = [cpc EXCEPT ![c] = "pop"]
          BY <5>3 DEF Holds
        <5> QED
          BY <4>1, <5>2, <5>3 DEF LookupTask, At
      <4>2. CASE InsertTask(c)
        BY <4>2 DEF InsertTask, At, Holds
      <4>3. ASSUME ~LookupTask(c), ~InsertTask(c)
            PROVE  Holds(c, q)' => Holds(c, q)
        <5>1. \/ UNCHANGED <<cpc, cmsg>>
              \/ \E to \in {"wake", "pop", "consume", "flush", "out"} :
                   cpc' = [cpc EXCEPT ![c] = to]
          BY <1>2, <2>4, <4>3 DEF CpuStep, DispatchStep, DispatchBegin,
               WakeUsersched, WakeFails, Abort, PopDispatched,
               InsertOverflows, Consume, Flush, UpdateIdle, At
        <5> QED
          BY <5>1 DEF Holds
      <4> QED
        BY <4>1, <4>2, <4>3
    <3> QED
      BY <2>1, <2>2, <3>1, <3>2 DEF Named, Holds
  <2> QED
    BY <2>1, <2>3, <2>4
<1> QED
  BY <1>1, <1>2

LEMMA DaemonStepNamed ==
  ASSUME TypeInv, NEW q \in Pids, DaemonNext, UNCHANGED bpfVars,
         Named(q)' \/ ctx'[q] # "none"
  PROVE  (Named(q) \/ ctx[q] # "none") /\ UNCHANGED enables
<1> USE DEF mapVars, procVars, taskVars, cpuVars, bpfVars
<1>1. CASE DrainOne
  <2> DEFINE p == Head(enqueued)
  <2>1. /\ enqueued \in Seq(Pids) /\ enqueued # <<>>
        /\ enqueued' = Tail(enqueued)
        /\ dispatched' = dispatched
    BY <1>1 DEF DrainOne, TypeInv, TypeOK, MapsTypeOK
  <2>2. In(q, enqueued) <=> In(q, enqueued') \/ p = q
    BY <2>1, InTail
  <2>3. InMsgs(q, dispatch_head') => InMsgs(q, dispatch_head) \/ p = q
    <3>1. CASE LocalEnqueue(p)
      <4>1. PICK s \in SliceRead(p) :
              dispatch_head' = Append(dispatch_head, [pid |-> p, slice |-> s])
        BY <3>1 DEF LocalEnqueue
      <4>2. [pid |-> p, slice |-> s] \in Entry
        BY <3>1, <4>1 DEF LocalEnqueue, SliceRead, CodeOf, SliceCode, Entry
      <4>3. dispatch_head \in Seq(Entry)
        BY DEF TypeInv, TypeOK, DaemonTypeOK, Entry
      <4> QED
        BY <4>1, <4>2, <4>3, InMsgsAppend
    <3>2. CASE LocalEnqueueDup(p) \/ LocalEnqueueFails(p)
      BY <3>2 DEF LocalEnqueueDup, LocalEnqueueFails
    <3> QED
      BY <1>1, <3>1, <3>2 DEF DrainOne
  <2> QED
    BY <2>1, <2>2, <2>3 DEF Named, Holds
<1>2. CASE DispatchOne
  <2> DEFINE e == Head(dispatch_head)
  <2>1. /\ dispatch_head \in Seq(Entry) /\ dispatch_head # <<>>
        /\ dispatch_head' = Tail(dispatch_head)
        /\ enqueued' = enqueued
        /\ dispatched' = Append(dispatched, e)
    BY <1>2 DEF DispatchOne, PushDispatched, TypeInv, TypeOK, DaemonTypeOK,
                Entry
  <2>2. e \in Msg
    <3>1. e \in Entry
      BY <2>1, HeadTailProperties
    <3> QED
      BY <3>1, MapsAssumption DEF Entry, Msg
  <2>3. InMsgs(q, dispatch_head) <=> InMsgs(q, dispatch_head') \/ e.pid = q
    BY <2>1, InMsgsTail
  <2>4. InMsgs(q, dispatched') <=> InMsgs(q, dispatched) \/ e.pid = q
    BY <2>1, <2>2, InMsgsAppend DEF TypeInv, TypeOK, MapsTypeOK
  <2> QED
    BY <2>1, <2>3, <2>4 DEF Named, Holds
<1>3. CASE \/ LoopHead \/ DrainEnd \/ BatchEnd \/ CheckEmpty \/ WaitForWork
           \/ Detach \/ Signal
  <2>1. UNCHANGED <<enqueued, dispatched, dispatch_head>>
    BY <1>3 DEF LoopHead, DrainEnd, BatchEnd, CheckEmpty, WaitForWork, Detach,
                Signal
  <2> QED
    BY <2>1 DEF Named, Holds
<1> QED
  BY <1>1, <1>2, <1>3 DEF DaemonNext, DaemonStep

LEMMA NamedInvariance ==
  ASSUME MaxEnables = 1
  PROVE  Spec => []NamedIsSpent
<1>1. Init => NamedIsSpent
  <2> SUFFICES ASSUME Init, NEW p \in Pids PROVE ~Named(p) /\ ctx[p] = "none"
    BY DEF NamedIsSpent
  <2>1. Len(enqueued) = 0 /\ Len(dispatched) = 0 /\ Len(dispatch_head) = 0
    BY DEF Init, MapsInit, DaemonInit
  <2> QED
    BY <2>1 DEF Init, BpfInit, Named, In, InMsgs, Holds
<1>2. TypeInv /\ RequestInv /\ NamedIsSpent /\ [Next]_vars => NamedIsSpent'
  <2> SUFFICES ASSUME TypeInv, RequestInv, NamedIsSpent, [Next]_vars,
                      NEW q \in Pids, Named(q)' \/ ctx'[q] # "none"
               PROVE  Spent(q)'
    BY DEF NamedIsSpent
  <2>1. ASSUME NEW p \in Pids, EnableCtx(p), UNCHANGED daemonVars
        PROVE  Spent(q)'
    <3>1. /\ enables[p] < MaxEnables
          /\ enables' = [enables EXCEPT ![p] = @ + 1]
          /\ epc' = [epc EXCEPT ![p] = "push"]
          /\ ctx' = [ctx EXCEPT ![p] = "waiting"]
          /\ UNCHANGED <<enqueued, dispatched, dispatch_head, cpc, cmsg>>
      BY <2>1 DEF EnableCtx, NewCtx, mapVars, cpuVars, daemonVars
    <3>2. CASE p = q
      BY <3>1, <3>2 DEF Spent, TypeInv, TypeOK, BpfTypeOK
    <3>3. CASE p # q
      <4>1. epc'[q] = epc[q] /\ ctx'[q] = ctx[q] /\ enables'[q] = enables[q]
        BY <3>1, <3>3 DEF TypeInv, TypeOK, BpfTypeOK
      <4> QED
        BY <3>1, <4>1 DEF NamedIsSpent, Named, Holds, Spent
    <3> QED
      BY <3>2, <3>3
  <2>2. CASE BpfNext /\ UNCHANGED daemonVars
    <3>1. ASSUME NEW p \in Pids, TaskStep(p), ~EnableCtx(p) PROVE Spent(q)'
      BY <2>2, <3>1, TaskStepNamed DEF NamedIsSpent, Spent
    <3>2. ASSUME NEW c \in Cpus, CpuStep(c) PROVE Spent(q)'
      BY <2>2, <3>2, CpuStepNamed DEF NamedIsSpent, Spent
    <3> QED
      BY <2>1, <2>2, <3>1, <3>2 DEF BpfNext
  <2>3. CASE DaemonNext /\ UNCHANGED bpfVars
    BY <2>3, DaemonStepNamed DEF NamedIsSpent, Spent
  <2>4. CASE UNCHANGED vars
    BY <2>4 DEF NamedIsSpent, Named, Holds, Spent, vars, mapVars, bpfVars,
                taskVars, cpuVars, daemonVars
  <2> QED
    BY <2>2, <2>3, <2>4 DEF Next
<1> QED
  BY <1>1, <1>2, TypeInvariance, RequestInvariance, PTL DEF Spec

-------------------------------------------------------------------------------
(* The gate. *)

\* What is queued, or buffered to be queued, has a slice.
QueuedHasSlice == \A p \in Pids : where[p] = "shared" => HasSlice(p)
BufferedHasSlice == \A c \in Cpus : \A p \in buf[c] : HasSlice(p)

\* A CPU that is about to insert a task stored its slice, or saw it without a
\* context, which it cannot have got back.
InsertHasSlice ==
    \A c \in Cpus :
      /\ cpc[c] = "insert" /\ cref[c] = "ctx" => HasSlice(cmsg[c].pid)
      /\ cpc[c] \in {"apply", "insert"} /\ cref[c] = "noctx"
           => ctx[cmsg[c].pid] = "none"

GateInv == QueuedHasSlice /\ BufferedHasSlice /\ InsertHasSlice

LEMMA InitGateInv == Init => GateInv
  BY DEF Init, BpfInit, GateInv, QueuedHasSlice, BufferedHasSlice,
         InsertHasSlice

LEMMA QuietGateInv ==
  ASSUME GateInv, UNCHANGED <<where, ctx, buf, cpc, cmsg, cref>>
  PROVE  GateInv'
  BY DEF GateInv, QueuedHasSlice, BufferedHasSlice, InsertHasSlice, HasSlice

LEMMA TaskStepGateInv ==
  ASSUME TypeInv, KernelInv, RequestInv, NamedIsSpent, GateInv,
         NEW p \in Pids, TaskStep(p)
  PROVE  GateInv'
<1> USE DEF mapVars, procVars, taskVars, cpuVars, bpfVars
<1> USE DEF TypeInv, TypeOK, BpfTypeOK
<1> USE DEF GateInv, QueuedHasSlice, BufferedHasSlice, InsertHasSlice, HasSlice
<1>1. CASE Exit(p) \/ Disable(p)
  <2>1. /\ ctx' = [ctx EXCEPT ![p] = "none"]
        /\ where' = [where EXCEPT ![p] = "out"]
        /\ buf' = [c \in Cpus |-> buf[c] \ {p}]
        /\ \E left \in {"gone", "noctx"} : LosesRef(p, left)
        /\ UNCHANGED <<cpc, cmsg>>
    BY <1>1 DEF Exit, Disable, Revoke
  <2>2. QueuedHasSlice' /\ BufferedHasSlice'
    BY <2>1
  <2>3. ASSUME NEW c \in Cpus, cpc[c] \in {"apply", "insert"}
        PROVE  \/ cmsg[c].pid # p /\ cref'[c] = cref[c]
               \/ cmsg[c].pid = p /\ cref'[c] \in {"gone", "noctx"}
    BY <2>1, <2>3 DEF LosesRef
  <2>4. \A c \in Cpus : cpc[c] \in {"apply", "insert"} => cmsg[c].pid \in Pids
    BY DEF MsgHeld, Msg
  <2>5. InsertHasSlice'
    BY <2>1, <2>3, <2>4
  <2> QED
    BY <2>2, <2>5
<1>2. CASE EnableCtx(p)
  <2>1. /\ task[p] = "other" /\ ~Spent(p)
        /\ ctx' = [ctx EXCEPT ![p] = "waiting"]
        /\ UNCHANGED <<where, buf, cpc, cmsg, cref>>
    BY <1>2, BpfAssumption DEF EnableCtx, NewCtx, Spent
  <2>2. ctx[p] = "none"
    BY <2>1 DEF RequestInv, CtxWithClass
  <2>3. \A c \in Cpus : cpc[c] \in {"apply", "insert"} => cmsg[c].pid # p
    BY <2>1 DEF NamedIsSpent, Named, Holds
  <2>4. \A c \in Cpus : p \notin buf[c]
    BY <2>2
  <2> QED
    BY <2>1, <2>2, <2>3, <2>4
<1>3. CASE Enqueue(p)
  <2>1. CASE HasSlice(p)
    <3>1. /\ where' = [where EXCEPT ![p] = "shared"]
          /\ buf' = [c \in Cpus |-> buf[c] \ {p}]
          /\ UNCHANGED <<ctx, cpc, cmsg, cref>>
      BY <1>3, <2>1 DEF Enqueue, Released, Revoke
    <3> QED
      BY <2>1, <3>1
  <2>2. CASE ~HasSlice(p)
    <3>1. /\ where' = [where EXCEPT ![p] = "holding"]
          /\ UNCHANGED <<ctx, buf, cpc, cmsg, cref>>
      BY <1>3, <2>2 DEF Enqueue, Released
    <3> QED
      BY <3>1
  <2> QED
    BY <2>1, <2>2
<1>4. CASE \/ EnablePushFull(p) \/ EnableFlag(p) \/ Wake(p) \/ Stop(p)
           \/ EnqueueReturn(p) \/ Requeue(p)
  <2>1. /\ \E w \in {"running", "sleeping", "queueing", "queued"} :
             where' = [where EXCEPT ![p] = w]
        /\ UNCHANGED <<ctx, cpc, cmsg, cref>>
    BY <1>4 DEF EnablePushFull, EnableFlag, Enabled, Wake, Stop, EnqueueReturn,
                Requeue
  <2>2. \A c \in Cpus : buf'[c] \subseteq buf[c]
    BY <1>4 DEF EnablePushFull, EnableFlag, Wake, Stop, EnqueueReturn, Requeue,
                Revoke
  <2> QED
    BY <2>1, <2>2
<1>5. CASE Fork(p) \/ EnableFails(p) \/ EnablePush(p) \/ EnablePushRejected(p)
  <2>1. UNCHANGED <<where, ctx, buf, cpc, cmsg, cref>>
    BY <1>5 DEF Fork, EnableFails, EnablePush, EnablePushRejected, Abort
  <2> QED
    BY <2>1, QuietGateInv
<1> QED
  BY <1>1, <1>2, <1>3, <1>4, <1>5 DEF TaskStep, HandlerStep

LEMMA CpuStepGateInv ==
  ASSUME TypeInv, KernelInv, RequestInv, GateInv, NEW c \in Cpus, CpuStep(c)
  PROVE  GateInv'
<1> USE DEF mapVars, procVars, taskVars, cpuVars, bpfVars
<1> USE DEF TypeInv, TypeOK, BpfTypeOK
<1> USE DEF GateInv, QueuedHasSlice, BufferedHasSlice, InsertHasSlice, HasSlice
<1>0. \A d \in Cpus : cpc[d] \in {"lookup", "apply", "insert"}
                        => cmsg[d].pid \in Pids
  BY DEF MsgHeld, Msg
<1>1. CASE ApplySlice(c)
  <2> DEFINE p == cmsg[c].pid
  <2>1. /\ cpc[c] = "apply"
        /\ cpc' = [cpc EXCEPT ![c] = "insert"]
        /\ ctx' = [ctx EXCEPT ![p] =
                     IF cref[c] = "ctx" THEN SliceOf(cmsg[c].slice) ELSE @]
        /\ UNCHANGED <<where, buf, cmsg, cref>>
    BY <1>1 DEF ApplySlice, At
  <2>2. CASE cref[c] = "ctx"
    <3>1. ctx[p] # "none"
      BY <2>1, <2>2 DEF RequestInv, LookupValid
    <3>2. HasSlice(p)'
      BY <1>0, <2>1, <2>2 DEF SliceOf
    <3>3. \A q \in Pids : HasSlice(q) => HasSlice(q)'
      BY <2>1, <3>2
    <3>4. \A q \in Pids : ctx[q] = "none" => ctx'[q] = "none"
      BY <2>1, <3>1
    <3>5. QueuedHasSlice' /\ BufferedHasSlice'
      BY <2>1, <3>3
    <3>6. InsertHasSlice'
      BY <1>0, <2>1, <2>2, <3>2, <3>3, <3>4
    <3> QED
      BY <3>5, <3>6
  <2>3. CASE cref[c] # "ctx"
    <3>1. ctx' = ctx
      BY <2>1, <2>3
    <3> QED
      BY <2>1, <2>3, <3>1
  <2> QED
    BY <2>2, <2>3
<1>2. CASE LookupTask(c)
  <2>1. UNCHANGED <<where, ctx, buf>>
    BY <1>2 DEF LookupTask
  <2>2. \A d \in Cpus \ {c} : /\ cpc'[d] = cpc[d] /\ cmsg'[d] = cmsg[d]
                              /\ cref'[d] = cref[d]
    BY <1>2 DEF LookupTask, At
  <2>3. CASE cpc' = [cpc EXCEPT ![c] = "pop"]
    BY <2>1, <2>2, <2>3
  <2>4. CASE /\ ctx[cmsg[c].pid] = "none"
             /\ cref' = [cref EXCEPT ![c] = "noctx"]
             /\ cmsg' = cmsg
    BY <2>1, <2>2, <2>4
  <2>5. CASE /\ cpc' = [cpc EXCEPT ![c] = "apply"]
             /\ cref' = [cref EXCEPT ![c] = "ctx"]
    BY <2>1, <2>2, <2>5
  <2> QED
    BY <1>2, <2>3, <2>4, <2>5 DEF LookupTask, At
<1>3. CASE InsertTask(c)
  <2> DEFINE p == cmsg[c].pid
  <2>1. /\ cpc[c] = "insert"
        /\ cpc' = [cpc EXCEPT ![c] = "pop"]
        /\ cmsg' = [cmsg EXCEPT ![c] = NoMsg]
        /\ cref' = [cref EXCEPT ![c] = "gone"]
        /\ buf' = [buf EXCEPT ![c] = IF cref[c] # "gone" /\ Insertable(p)
                                       THEN @ \cup {p} ELSE @]
        /\ UNCHANGED <<where, ctx>>
    BY <1>3 DEF InsertTask, At
  <2>2. cref[c] # "gone" /\ Insertable(p) => HasSlice(p)
    BY <1>0, <2>1 DEF Insertable, KernelInv, ManagedHasCtx
  <2>3. BufferedHasSlice'
    BY <2>1, <2>2
  <2> QED
    BY <2>1, <2>3
<1>4. CASE Flush(c)
  <2>1. /\ cpc' = [cpc EXCEPT ![c] = "out"]
        /\ where' = [p \in Pids |-> IF p \in buf[c] THEN "shared" ELSE where[p]]
        /\ buf' = [d \in Cpus |-> buf[d] \ buf[c]]
        /\ UNCHANGED <<ctx, cmsg, cref>>
    BY <1>4 DEF Flush, At
  <2> QED
    BY <2>1
<1>5. CASE Consume(c)
  <2>1. /\ cpc' = [cpc EXCEPT ![c] = "flush"]
        /\ UNCHANGED <<ctx, buf, cmsg, cref>>
    BY <1>5 DEF Consume, At
  <2>2. \A p \in Pids : where'[p] = "shared" => where[p] = "shared"
    BY <1>5 DEF Consume
  <2> QED
    BY <2>1, <2>2
<1>6. CASE DispatchBegin(c) \/ WakeUsersched(c) \/ PopDispatched(c)
  <2>1. UNCHANGED <<where, ctx, buf, cref>>
    BY <1>6 DEF DispatchBegin, WakeUsersched, PopDispatched
  <2>2. \A d \in Cpus \ {c} : cpc'[d] = cpc[d] /\ cmsg'[d] = cmsg[d]
    BY <1>6 DEF DispatchBegin, WakeUsersched, PopDispatched, At
  <2>3. cpc'[c] \notin {"apply", "insert"}
    BY <1>6 DEF DispatchBegin, WakeUsersched, PopDispatched, At
  <2> QED
    BY <2>1, <2>2, <2>3
<1>7. CASE WakeFails(c) \/ InsertOverflows(c) \/ UpdateIdle(c)
  <2>1. UNCHANGED <<where, ctx, buf, cpc, cmsg, cref>>
    BY <1>7 DEF WakeFails, InsertOverflows, Abort, UpdateIdle
  <2> QED
    BY <2>1, QuietGateInv
<1> QED
  BY <1>1, <1>2, <1>3, <1>4, <1>5, <1>6, <1>7 DEF CpuStep, DispatchStep

LEMMA GateInvariance ==
  ASSUME MaxEnables = 1
  PROVE  Spec => []GateInv
<1>1. TypeInv /\ KernelInv /\ RequestInv /\ NamedIsSpent /\ GateInv
        /\ [Next]_vars => GateInv'
  <2> SUFFICES ASSUME TypeInv, KernelInv, RequestInv, NamedIsSpent, GateInv,
                      [Next]_vars
               PROVE  GateInv'
    OBVIOUS
  <2>1. CASE BpfNext
    BY <2>1, TaskStepGateInv, CpuStepGateInv DEF BpfNext
  <2>2. CASE DaemonNext /\ UNCHANGED bpfVars
    BY <2>2, QuietGateInv DEF bpfVars, taskVars, cpuVars
  <2>3. CASE UNCHANGED vars
    BY <2>3, QuietGateInv DEF vars, bpfVars, taskVars, cpuVars
  <2> QED
    BY <2>1, <2>2, <2>3 DEF Next
<1>2. Spec => []NamedIsSpent
  BY NamedInvariance
<1> QED
  BY InitGateInv, <1>1, <1>2, TypeInvariance, KernelInvariance,
     RequestInvariance, PTL DEF Spec

\* While no pid is used for a second life, a task is on the shared queue only
\* if it has been given a slice.
THEOREM GateHolds ==
  ASSUME MaxEnables = 1
  PROVE  Spec => []GateRespected
<1>1. GateInv => GateRespected
  BY DEF GateInv, QueuedHasSlice, GateRespected
<1>2. Spec => []GateInv
  BY GateInvariance
<1> QED
  BY <1>1, <1>2, PTL
-------------------------------------------------------------------------------
(* The refinement of SliceGate. *)

\* Steps that change neither a context nor the shared queue are invisible.
LEMMA QuietGate ==
  ASSUME UNCHANGED <<ctx, where, scx>>
  PROVE  UNCHANGED Gate!vars
  BY DEF Gate!vars, gateBar, placedBar, activeBar, GateOf, HasSlice

\* A change of place that keeps the shared queue is invisible.
LEMMA MoveOffQueue ==
  ASSUME TypeInv, NEW p \in Pids, NEW w, w # "shared", where[p] # "shared",
         where' = [where EXCEPT ![p] = w], UNCHANGED <<ctx, scx>>
  PROVE  UNCHANGED Gate!vars
<1>1. placedBar' = placedBar
  BY DEF placedBar, TypeInv, TypeOK, BpfTypeOK
<1> QED
  BY <1>1 DEF Gate!vars, gateBar, activeBar, GateOf, HasSlice

\* The scheduler exits.
LEMMA AbortStopsGate ==
  ASSUME scx' = "exited", UNCHANGED <<ctx, where>>
  PROVE  Gate!Stop
  BY DEF Gate!Stop, gateBar, placedBar, activeBar, GateOf, HasSlice

\* A task is taken from the queue.
LEMMA TakeFromQueue ==
  ASSUME TypeInv, NEW p \in Pids, NEW w, w # "shared", where[p] = "shared",
         where' = [where EXCEPT ![p] = w], UNCHANGED <<ctx, scx>>
  PROVE  Gate!Take(p)
<1>1. placedBar[p] /\ placedBar' = [placedBar EXCEPT ![p] = FALSE]
  BY DEF placedBar, TypeInv, TypeOK, BpfTypeOK
<1>2. UNCHANGED <<gateBar, activeBar>>
  BY DEF gateBar, activeBar, GateOf, HasSlice
<1> QED
  BY <1>1, <1>2 DEF Gate!Take

\* Tasks that have a slice are put on the queue.
LEMMA PutOnQueue ==
  ASSUME TypeInv, NEW Q \in SUBSET Pids, \A p \in Q : HasSlice(p),
         where' = [p \in Pids |-> IF p \in Q THEN "shared" ELSE where[p]],
         UNCHANGED <<ctx, scx>>
  PROVE  Gate!Place(Q)
<1>1. placedBar' = [p \in Pids |-> placedBar[p] \/ p \in Q]
  BY DEF placedBar, TypeInv, TypeOK, BpfTypeOK
<1>2. \A p \in Q : gateBar[p] = "granted"
  BY DEF gateBar, GateOf, HasSlice
<1>3. UNCHANGED <<gateBar, activeBar>>
  BY DEF gateBar, activeBar, GateOf, HasSlice
<1> QED
  BY <1>1, <1>2, <1>3 DEF Gate!Place

LEMMA TaskStepGate ==
  ASSUME TypeInv, RequestInv, scx = "on", NEW p \in Pids, TaskStep(p)
  PROVE  Gate!Next \/ UNCHANGED Gate!vars
<1> USE DEF mapVars, procVars, taskVars, cpuVars, bpfVars
<1> USE DEF TypeInv, TypeOK, BpfTypeOK
<1>0. activeBar
  BY DEF activeBar
<1>1. CASE EnableCtx(p)
  <2>1. /\ task[p] = "other"
        /\ ctx' = [ctx EXCEPT ![p] = "waiting"]
        /\ UNCHANGED <<where, scx>>
    BY <1>1 DEF EnableCtx, NewCtx
  <2>2. ctx[p] = "none"
    BY <2>1 DEF RequestInv, CtxWithClass
  <2>3. gateBar[p] = "off" /\ gateBar' = [gateBar EXCEPT ![p] = "withheld"]
    BY <2>1, <2>2 DEF gateBar, GateOf, HasSlice
  <2>4. UNCHANGED <<placedBar, activeBar>>
    BY <2>1 DEF placedBar, activeBar
  <2>5. Gate!Enter(p)
    BY <2>3, <2>4 DEF Gate!Enter
  <2> QED
    BY <1>0, <2>5 DEF Gate!Next
<1>2. CASE Exit(p) \/ Disable(p)
  <2>1. /\ ctx' = [ctx EXCEPT ![p] = "none"]
        /\ where' = [where EXCEPT ![p] = "out"]
        /\ scx' = scx
    BY <1>2 DEF Exit, Disable
  <2>2. gateBar' = [gateBar EXCEPT ![p] = "off"]
    BY <2>1 DEF gateBar, GateOf, HasSlice
  <2>3. placedBar' = [placedBar EXCEPT ![p] = FALSE] /\ activeBar' = activeBar
    BY <2>1 DEF placedBar, activeBar
  <2>4. Gate!Leave(p)
    BY <2>2, <2>3 DEF Gate!Leave
  <2> QED
    BY <1>0, <2>4 DEF Gate!Next
<1>3. CASE EnableFails(p) \/ EnablePushRejected(p)
  <2>1. scx' = "exited" /\ UNCHANGED <<ctx, where>>
    BY <1>3 DEF EnableFails, EnablePushRejected, Abort
  <2> QED
    BY <1>0, <2>1, AbortStopsGate DEF Gate!Next
<1>4. CASE Enqueue(p)
  <2>1. where[p] = "queueing" /\ UNCHANGED <<ctx, scx>>
    BY <1>4 DEF Enqueue
  <2>2. CASE HasSlice(p)
    <3>1. where' = [q \in Pids |-> IF q \in {p} THEN "shared" ELSE where[q]]
      BY <1>4, <2>2 DEF Enqueue, Released
    <3>2. Gate!Place({p})
      BY <2>1, <2>2, <3>1, PutOnQueue
    <3> QED
      BY <1>0, <3>2 DEF Gate!Next
  <2>3. CASE ~HasSlice(p)
    <3>1. where' = [where EXCEPT ![p] = "holding"]
      BY <1>4, <2>3 DEF Enqueue, Released
    <3> QED
      BY <2>1, <3>1, MoveOffQueue
  <2> QED
    BY <2>2, <2>3
<1>5. CASE Requeue(p)
  <2>1. /\ where' = [where EXCEPT ![p] = "queueing"]
        /\ UNCHANGED <<ctx, scx>>
    BY <1>5 DEF Requeue
  <2>2. CASE where[p] = "shared"
    <3>1. Gate!Take(p)
      BY <2>1, <2>2, TakeFromQueue
    <3> QED
      BY <1>0, <3>1 DEF Gate!Next
  <2>3. CASE where[p] # "shared"
    BY <2>1, <2>3, MoveOffQueue
  <2> QED
    BY <2>2, <2>3
<1>6. CASE Wake(p) \/ Stop(p) \/ EnqueueReturn(p)
  <2>1. /\ where[p] # "shared"
        /\ \E w \in {"running", "sleeping", "queueing", "queued"} :
             where' = [where EXCEPT ![p] = w]
        /\ UNCHANGED <<ctx, scx>>
    BY <1>6 DEF Wake, Stop, EnqueueReturn
  <2> QED
    BY <2>1, MoveOffQueue
<1>7. CASE EnablePushFull(p) \/ EnableFlag(p)
  <2>1. /\ \E w \in {"running", "sleeping", "queueing"} :
             where' = [where EXCEPT ![p] = w]
        /\ UNCHANGED <<ctx, scx>>
    BY <1>7 DEF EnablePushFull, EnableFlag, Enabled
  <2>2. CASE where[p] = "shared"
    <3>1. Gate!Take(p)
      BY <2>1, <2>2, TakeFromQueue
    <3> QED
      BY <1>0, <3>1 DEF Gate!Next
  <2>3. CASE where[p] # "shared"
    BY <2>1, <2>3, MoveOffQueue
  <2> QED
    BY <2>2, <2>3
<1>8. CASE Fork(p) \/ EnablePush(p)
  BY <1>8, QuietGate DEF Fork, EnablePush
<1> QED
  BY <1>1, <1>2, <1>3, <1>4, <1>5, <1>6, <1>7, <1>8 DEF TaskStep, HandlerStep

LEMMA CpuStepGate ==
  ASSUME TypeInv, RequestInv, GateInv, scx = "on", NEW c \in Cpus, CpuStep(c)
  PROVE  Gate!Next \/ UNCHANGED Gate!vars
<1> USE DEF mapVars, procVars, taskVars, cpuVars, bpfVars
<1> USE DEF TypeInv, TypeOK, BpfTypeOK
<1>0. activeBar
  BY DEF activeBar
<1>1. CASE WakeFails(c) \/ InsertOverflows(c)
  <2>1. scx' = "exited" /\ UNCHANGED <<ctx, where>>
    BY <1>1 DEF WakeFails, InsertOverflows, Abort
  <2> QED
    BY <1>0, <2>1, AbortStopsGate DEF Gate!Next
<1>2. CASE ApplySlice(c)
  <2> DEFINE p == cmsg[c].pid
  <2>1. /\ cpc[c] = "apply"
        /\ ctx' = [ctx EXCEPT ![p] =
                     IF cref[c] = "ctx" THEN SliceOf(cmsg[c].slice) ELSE @]
        /\ UNCHANGED <<where, scx>>
    BY <1>2 DEF ApplySlice, At
  <2>2. p \in Pids
    BY <2>1 DEF MsgHeld, Msg
  <2>3. UNCHANGED <<placedBar, activeBar>>
    BY <2>1 DEF placedBar, activeBar
  <2>4. CASE cref[c] = "ctx"
    <3>1. ctx[p] # "none"
      BY <2>1, <2>4 DEF RequestInv, LookupValid
    <3>2. gateBar' = [gateBar EXCEPT ![p] = "granted"]
      BY <2>1, <2>2, <2>4 DEF gateBar, GateOf, HasSlice, SliceOf
    <3>3. CASE ctx[p] = "waiting"
      <4>1. gateBar[p] = "withheld"
        BY <2>2, <3>3 DEF gateBar, GateOf, HasSlice
      <4>2. Gate!Grant(p)
        BY <2>3, <3>2, <4>1 DEF Gate!Grant
      <4> QED
        BY <1>0, <2>2, <4>2 DEF Gate!Next
    <3>4. CASE ctx[p] # "waiting"
      <4>1. gateBar[p] = "granted"
        BY <2>2, <3>1, <3>4 DEF gateBar, GateOf, HasSlice
      <4>2. gateBar' = gateBar
        BY <3>2, <4>1 DEF gateBar
      <4> QED
        BY <2>3, <4>2 DEF Gate!vars
    <3> QED
      BY <3>3, <3>4
  <2>5. CASE cref[c] # "ctx"
    <3>1. ctx' = ctx
      BY <2>1, <2>5
    <3> QED
      BY <2>1, <3>1, QuietGate
  <2> QED
    BY <2>4, <2>5
<1>3. CASE Flush(c)
  <2>1. /\ where' = [p \in Pids |-> IF p \in buf[c] THEN "shared" ELSE where[p]]
        /\ UNCHANGED <<ctx, scx>>
    BY <1>3 DEF Flush
  <2>2. buf[c] \in SUBSET Pids /\ \A p \in buf[c] : HasSlice(p)
    BY DEF GateInv, BufferedHasSlice
  <2>3. Gate!Place(buf[c])
    BY <2>1, <2>2, PutOnQueue
  <2> QED
    BY <1>0, <2>2, <2>3 DEF Gate!Next
<1>4. CASE Consume(c)
  <2>1. UNCHANGED <<ctx, scx>>
    BY <1>4 DEF Consume
  <2>2. CASE UNCHANGED where
    BY <2>1, <2>2, QuietGate
  <2>3. ASSUME NEW p \in Pids, where[p] = "shared",
               where' = [where EXCEPT ![p] = "running"]
        PROVE  Gate!Next
    <3>1. Gate!Take(p)
      BY <2>1, <2>3, TakeFromQueue
    <3> QED
      BY <1>0, <3>1 DEF Gate!Next
  <2> QED
    BY <1>4, <2>2, <2>3 DEF Consume
<1>5. CASE \/ DispatchBegin(c) \/ WakeUsersched(c) \/ PopDispatched(c)
           \/ LookupTask(c) \/ InsertTask(c) \/ UpdateIdle(c)
  <2>1. UNCHANGED <<ctx, where, scx>>
    BY <1>5 DEF DispatchBegin, WakeUsersched, PopDispatched, LookupTask,
                InsertTask, UpdateIdle
  <2> QED
    BY <2>1, QuietGate
<1> QED
  BY <1>1, <1>2, <1>3, <1>4, <1>5 DEF CpuStep, DispatchStep

LEMMA DaemonStepGate ==
  ASSUME DaemonNext, UNCHANGED bpfVars
  PROVE  Gate!Next \/ UNCHANGED Gate!vars
<1> USE DEF mapVars, procVars, taskVars, bpfVars
<1>1. CASE Detach
  <2>1. scx = "on" /\ scx' = "exited" /\ UNCHANGED <<ctx, where>>
    BY <1>1 DEF Detach
  <2>2. activeBar
    BY <2>1 DEF activeBar
  <2> QED
    BY <2>1, <2>2, AbortStopsGate DEF Gate!Next
<1>2. ASSUME ~Detach PROVE UNCHANGED Gate!vars
  <2>1. UNCHANGED <<ctx, where, scx>>
    BY <1>2 DEF DaemonNext, DaemonStep, LoopHead, DrainOne, DrainEnd,
         DispatchOne, BatchEnd, CheckEmpty, WaitForWork, Signal
  <2> QED
    BY <2>1, QuietGate
<1> QED
  BY <1>1, <1>2

\* Seen from outside, the two halves of the scheduler are the slice gate, as
\* long as no pid is used for a second life: each task is withheld when it
\* enters, given a slice at most once, and queued only while it has one.
THEOREM GateIsImplemented ==
  ASSUME MaxEnables = 1
  PROVE  Spec => ImplementsGate
<1>1. Init => Gate!Init
  <2> SUFFICES ASSUME Init PROVE Gate!Init
    OBVIOUS
  <2>1. gateBar = [p \in Pids |-> "off"]
    BY DEF Init, BpfInit, gateBar, GateOf
  <2>2. placedBar = [p \in Pids |-> FALSE]
    BY DEF Init, BpfInit, placedBar
  <2>3. activeBar = TRUE
    BY DEF Init, MapsInit, activeBar
  <2> QED
    BY <2>1, <2>2, <2>3 DEF Gate!Init
<1>2. TypeInv /\ RequestInv /\ GateInv /\ [Next]_vars => [Gate!Next]_(Gate!vars)
  <2> SUFFICES ASSUME TypeInv, RequestInv, GateInv, [Next]_vars
               PROVE  Gate!Next \/ UNCHANGED Gate!vars
    OBVIOUS
  <2>1. CASE BpfNext
    BY <2>1, TaskStepGate, CpuStepGate DEF BpfNext
  <2>2. CASE DaemonNext /\ UNCHANGED bpfVars
    BY <2>2, DaemonStepGate
  <2>3. CASE UNCHANGED vars
    BY <2>3, QuietGate DEF vars, procVars, bpfVars, taskVars
  <2> QED
    BY <2>1, <2>2, <2>3 DEF Next
<1>3. Spec => []GateInv
  BY GateInvariance
<1> QED
  BY <1>1, <1>2, <1>3, TypeInvariance, RequestInvariance, PTL
     DEF Spec, ImplementsGate, Gate!Spec

-------------------------------------------------------------------------------
(* The infinite slice. *)

Promise(p) == [pid |-> p, slice |-> 1]

\* An answer that gives p the infinite slice is under way.
Promised(p) ==
    \/ In(Promise(p), dispatch_head)
    \/ In(Promise(p), dispatched)
    \/ \E c \in Cpus : cpc[c] \in {"lookup", "apply"} /\ cmsg[c] = Promise(p)

\* Such an answer was derived from the command line the process has, and so
\* was the slice of a task that has it.
PromisesKept ==
    \A p \in Pids :
      /\ Promised(p) => arg[p] = "short" \/ task[p] = "dead"
      /\ ctx[p] = "INF" => arg[p] = "short"

LEMMA InIsInMsgs ==
  ASSUME NEW p, NEW s, In(Promise(p), s)
  PROVE  InMsgs(p, s)
  BY DEF In, InMsgs, Promise

LEMMA PromisedIsNamed ==
  ASSUME NEW p \in Pids, Promised(p)
  PROVE  Named(p)
<1>1. CASE In(Promise(p), dispatch_head) \/ In(Promise(p), dispatched)
  BY <1>1, InIsInMsgs DEF Named
<1>2. CASE \E c \in Cpus : cpc[c] \in {"lookup", "apply"}
                             /\ cmsg[c] = Promise(p)
  BY <1>2 DEF Named, Holds, Promise
<1> QED
  BY <1>1, <1>2 DEF Promised

LEMMA TaskStepPromises ==
  ASSUME TypeInv, RequestInv, NamedIsSpent, PromisesKept, NEW p \in Pids,
         TaskStep(p), UNCHANGED daemonVars
  PROVE  PromisesKept'
<1> USE DEF mapVars, procVars, taskVars, cpuVars, bpfVars, daemonVars
<1> USE DEF TypeInv, TypeOK, MapsTypeOK, BpfTypeOK
<1>1. ASSUME UNCHANGED <<dispatched, cpc, cmsg>>, NEW q \in Pids
      PROVE  Promised(q)' <=> Promised(q)
  BY <1>1 DEF Promised
<1>2. CASE Fork(p)
  <2>1. /\ \E a \in Args : arg' = [arg EXCEPT ![p] = a]
        /\ task' = [task EXCEPT ![p] = "other"]
        /\ UNCHANGED <<ctx, dispatched, cpc, cmsg>>
    BY <1>2 DEF Fork
  <2>2. ~Spent(p)
    BY <1>2, BpfAssumption DEF Fork, Spent
  <2>3. ~Promised(p) /\ ctx[p] = "none"
    BY <2>2, PromisedIsNamed DEF NamedIsSpent
  <2> QED
    BY <1>1, <2>1, <2>3 DEF PromisesKept
<1>3. CASE Exit(p)
  <2>1. /\ ctx' = [ctx EXCEPT ![p] = "none"]
        /\ task' = [task EXCEPT ![p] = "dead"]
        /\ arg' = [arg EXCEPT ![p] = "long"]
        /\ UNCHANGED <<dispatched, cpc, cmsg>>
    BY <1>3 DEF Exit
  <2> QED
    BY <1>1, <2>1 DEF PromisesKept
<1>4. CASE Disable(p) \/ EnableCtx(p)
  <2>1. /\ \E x \in {"none", "waiting"} : ctx' = [ctx EXCEPT ![p] = x]
        /\ task[p] # "dead"
        /\ \E t \in {"other", "ext"} : task' = [task EXCEPT ![p] = t]
        /\ UNCHANGED <<arg, dispatched, cpc, cmsg>>
    BY <1>4 DEF Disable, EnableCtx, NewCtx
  <2> QED
    BY <1>1, <2>1 DEF PromisesKept
<1>5. CASE \/ EnableFails(p) \/ Wake(p) \/ Stop(p) \/ Requeue(p)
           \/ HandlerStep(p)
  <2>1. UNCHANGED <<ctx, task, arg, dispatched, cpc, cmsg>>
    BY <1>5 DEF EnableFails, Abort, Wake, Stop, Requeue, HandlerStep,
                EnablePush, EnablePushFull, EnablePushRejected, EnableFlag,
                Enqueue, EnqueueReturn
  <2> QED
    BY <1>1, <2>1 DEF PromisesKept
<1> QED
  BY <1>2, <1>3, <1>4, <1>5 DEF TaskStep

LEMMA CpuStepPromises ==
  ASSUME TypeInv, RequestInv, PromisesKept, NEW c \in Cpus, CpuStep(c),
         UNCHANGED daemonVars
  PROVE  PromisesKept'
<1> USE DEF mapVars, procVars, taskVars, cpuVars, bpfVars, daemonVars
<1> USE DEF TypeInv, TypeOK, MapsTypeOK, BpfTypeOK
<1>0. UNCHANGED <<arg, task>>
  BY DEF CpuStep, DispatchStep, DispatchBegin, WakeUsersched, WakeFails, Abort,
         PopDispatched, LookupTask, ApplySlice, InsertTask, InsertOverflows,
         Consume, Flush, UpdateIdle
<1>1. ASSUME NEW q \in Pids, Promised(q)' PROVE Promised(q)
  <2>1. CASE PopDispatched(c) /\ dispatched # <<>>
    <3>1. /\ cpc' = [cpc EXCEPT ![c] = "lookup"]
          /\ cmsg' = [cmsg EXCEPT ![c] = Head(dispatched)]
          /\ dispatched' = Tail(dispatched)
      BY <2>1 DEF PopDispatched, At
    <3>2. In(Promise(q), dispatched)
            <=> In(Promise(q), dispatched') \/ Head(dispatched) = Promise(q)
      BY <2>1, <3>1, InTail
    <3> QED
      BY <1>1, <3>1, <3>2 DEF Promised
  <2>2. ASSUME ~(PopDispatched(c) /\ dispatched # <<>>)
        PROVE  Promised(q)
    <3>1. dispatched' = dispatched
      BY <2>2 DEF CpuStep, DispatchStep, DispatchBegin, WakeUsersched,
           WakeFails, Abort, PopDispatched, LookupTask, ApplySlice, InsertTask,
           InsertOverflows, Consume, Flush, UpdateIdle
    <3>2. \A d \in Cpus \ {c} : cpc'[d] = cpc[d] /\ cmsg'[d] = cmsg[d]
      BY <2>2 DEF CpuStep, DispatchStep, DispatchBegin, WakeUsersched,
           WakeFails, Abort, PopDispatched, LookupTask, ApplySlice, InsertTask,
           InsertOverflows, Consume, Flush, UpdateIdle, At
    <3>3. CASE LookupTask(c)
      <4>1. cpc[c] = "lookup"
        BY <3>3 DEF LookupTask
      <4>2. cmsg' = cmsg \/ cpc' = [cpc EXCEPT ![c] = "pop"]
        BY <3>3 DEF LookupTask, At
      <4> QED
        BY <1>1, <3>1, <3>2, <4>1, <4>2 DEF Promised
    <3>4. ASSUME ~LookupTask(c)
          PROVE  \/ UNCHANGED <<cpc, cmsg>>
                 \/ cpc'[c] \notin {"lookup", "apply"}
      BY <2>2, <3>4 DEF CpuStep, DispatchStep, DispatchBegin, WakeUsersched,
           WakeFails, Abort, PopDispatched, ApplySlice, InsertTask,
           InsertOverflows, Consume, Flush, UpdateIdle, At
    <3> QED
      BY <1>1, <3>1, <3>2, <3>3, <3>4 DEF Promised
  <2> QED
    BY <2>1, <2>2
<1>2. ASSUME NEW q \in Pids, ctx'[q] = "INF" PROVE arg[q] = "short"
  <2>1. CASE ApplySlice(c)
    <3>1. /\ cpc[c] = "apply"
          /\ ctx' = [ctx EXCEPT ![cmsg[c].pid] =
                       IF cref[c] = "ctx" THEN SliceOf(cmsg[c].slice) ELSE @]
      BY <2>1 DEF ApplySlice, At
    <3>2. CASE cmsg[c].pid = q /\ cref[c] = "ctx"
      <4>1. cmsg[c] \in Msg /\ cmsg[c].slice # 0
        BY <1>2, <3>1, <3>2 DEF MsgHeld, SliceOf
      <4>2. cmsg[c] = Promise(q)
        BY <3>2, <4>1 DEF Msg, SliceCode, Promise
      <4>3. Promised(q)
        BY <3>1, <4>2 DEF Promised
      <4>4. task[q] # "dead"
        BY <3>1, <3>2 DEF RequestInv, CtxWithClass, LookupValid
      <4> QED
        BY <4>3, <4>4 DEF PromisesKept
    <3>3. CASE ~(cmsg[c].pid = q /\ cref[c] = "ctx")
      <4>1. ctx'[q] = ctx[q]
        BY <3>1, <3>3
      <4> QED
        BY <1>2, <4>1 DEF PromisesKept
    <3> QED
      BY <3>2, <3>3
  <2>2. CASE ~ApplySlice(c)
    <3>1. ctx' = ctx
      BY <2>2 DEF CpuStep, DispatchStep, DispatchBegin, WakeUsersched,
           WakeFails, Abort, PopDispatched, LookupTask, InsertTask,
           InsertOverflows, Consume, Flush, UpdateIdle
    <3> QED
      BY <1>2, <3>1 DEF PromisesKept
  <2> QED
    BY <2>1, <2>2
<1> QED
  BY <1>0, <1>1, <1>2 DEF PromisesKept

LEMMA DaemonStepPromises ==
  ASSUME TypeInv, PromisesKept, DaemonNext, UNCHANGED bpfVars
  PROVE  PromisesKept'
<1> USE DEF mapVars, procVars, taskVars, cpuVars, bpfVars
<1>0. UNCHANGED <<arg, task, ctx, cpc, cmsg>>
  BY DEF DaemonNext, DaemonStep, LoopHead, DrainOne, DrainEnd, DispatchOne,
         BatchEnd, CheckEmpty, WaitForWork, Detach, Signal
<1> SUFFICES ASSUME NEW q \in Pids, Promised(q)'
             PROVE  arg[q] = "short" \/ task[q] = "dead"
  BY <1>0 DEF PromisesKept
<1> DEFINE m == Promise(q)
<1>1. CASE DrainOne
  <2> DEFINE p == Head(enqueued)
  <2>1. dispatched' = dispatched
    BY <1>1 DEF DrainOne
  <2>2. CASE LocalEnqueue(p)
    <3>1. PICK s \in SliceRead(p) :
            dispatch_head' = Append(dispatch_head, [pid |-> p, slice |-> s])
      BY <2>2 DEF LocalEnqueue
    <3>2. [pid |-> p, slice |-> s] \in Entry
      BY <2>2, <3>1 DEF LocalEnqueue, SliceRead, CodeOf, SliceCode, Entry
    <3>3. dispatch_head \in Seq(Entry)
      BY DEF TypeInv, TypeOK, DaemonTypeOK, Entry
    <3>4. In(m, dispatch_head')
            <=> In(m, dispatch_head) \/ [pid |-> p, slice |-> s] = m
      BY <3>1, <3>2, <3>3, InAppend
    <3>5. [pid |-> p, slice |-> s] = m => arg[q] = "short"
      BY <3>1 DEF Promise, SliceRead, CodeOf
    <3> QED
      BY <1>0, <2>1, <3>4, <3>5 DEF Promised, PromisesKept
  <2>3. CASE LocalEnqueueDup(p) \/ LocalEnqueueFails(p)
    <3>1. dispatch_head' = dispatch_head
      BY <2>3 DEF LocalEnqueueDup, LocalEnqueueFails
    <3> QED
      BY <1>0, <2>1, <3>1 DEF Promised, PromisesKept
  <2> QED
    BY <1>1, <2>2, <2>3 DEF DrainOne
<1>2. CASE DispatchOne
  <2> DEFINE e == Head(dispatch_head)
  <2>1. /\ dispatch_head \in Seq(Entry) /\ dispatch_head # <<>>
        /\ dispatch_head' = Tail(dispatch_head)
        /\ dispatched' = Append(dispatched, e)
    BY <1>2 DEF DispatchOne, PushDispatched, TypeInv, TypeOK, DaemonTypeOK,
                Entry
  <2>2. e \in Msg
    <3>1. e \in Entry
      BY <2>1, HeadTailProperties
    <3> QED
      BY <3>1, MapsAssumption DEF Entry, Msg
  <2>3. In(m, dispatch_head) <=> In(m, dispatch_head') \/ e = m
    BY <2>1, InTail
  <2>4. In(m, dispatched') <=> In(m, dispatched) \/ e = m
    BY <2>1, <2>2, InAppend DEF TypeInv, TypeOK, MapsTypeOK
  <2> QED
    BY <1>0, <2>3, <2>4 DEF Promised, PromisesKept
<1>3. CASE \/ LoopHead \/ DrainEnd \/ BatchEnd \/ CheckEmpty \/ WaitForWork
           \/ Detach \/ Signal
  <2>1. UNCHANGED <<dispatched, dispatch_head>>
    BY <1>3 DEF LoopHead, DrainEnd, BatchEnd, CheckEmpty, WaitForWork, Detach,
                Signal
  <2> QED
    BY <1>0, <2>1 DEF Promised, PromisesKept
<1> QED
  BY <1>1, <1>2, <1>3 DEF DaemonNext, DaemonStep

\* While no pid is used for a second life, only a function with a short
\* argument runs to exhaustion, however late its command line is read and its
\* answer applied.
THEOREM InfiniteSliceIsEarned ==
  ASSUME MaxEnables = 1
  PROVE  Spec => []InfOnlyForShort
<1>1. Init => PromisesKept
  <2> SUFFICES ASSUME Init, NEW p \in Pids
               PROVE  ~Promised(p) /\ ctx[p] = "none"
    BY DEF PromisesKept
  <2>1. Len(dispatched) = 0 /\ Len(dispatch_head) = 0
    BY DEF Init, MapsInit, DaemonInit
  <2> QED
    BY <2>1 DEF Init, BpfInit, Promised, In
<1>2. TypeInv /\ RequestInv /\ NamedIsSpent /\ PromisesKept /\ [Next]_vars
        => PromisesKept'
  <2> SUFFICES ASSUME TypeInv, RequestInv, NamedIsSpent, PromisesKept,
                      [Next]_vars
               PROVE  PromisesKept'
    OBVIOUS
  <2>1. CASE BpfNext /\ UNCHANGED daemonVars
    BY <2>1, TaskStepPromises, CpuStepPromises DEF BpfNext
  <2>2. CASE DaemonNext /\ UNCHANGED bpfVars
    BY <2>2, DaemonStepPromises
  <2>3. CASE UNCHANGED vars
    BY <2>3 DEF PromisesKept, Promised, vars, mapVars, procVars, bpfVars,
                taskVars, cpuVars, daemonVars
  <2> QED
    BY <2>1, <2>2, <2>3 DEF Next
<1>3. PromisesKept => InfOnlyForShort
  BY DEF PromisesKept, InfOnlyForShort
<1>4. Spec => []NamedIsSpent
  BY NamedInvariance
<1> QED
  BY <1>1, <1>2, <1>3, <1>4, TypeInvariance, RequestInvariance, PTL DEF Spec
==============================================================================
