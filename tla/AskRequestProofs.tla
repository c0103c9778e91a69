--------------------------- MODULE AskRequestProofs ---------------------------
(***************************************************************************)
(* Proofs about the requests of AskUserspace on their way to the daemon    *)
(* and back: its records agree, and none is lost.                          *)
(***************************************************************************)
EXTENDS AskUserspaceProofs

-------------------------------------------------------------------------------
(* What the operations on queues and lists do to their members. *)

LEMMA InAppend ==
  ASSUME NEW S, NEW s \in Seq(S), NEW e \in S, NEW p
  PROVE  In(p, Append(s, e)) <=> In(p, s) \/ e = p
<1>1. /\ Append(s, e) \in Seq(S)
      /\ Len(Append(s, e)) = Len(s) + 1
      /\ Append(s, e)[Len(s) + 1] = e
      /\ \A i \in 1..Len(s) : Append(s, e)[i] = s[i]
  BY AppendProperties
<1>2. Len(s) \in Nat
  BY LenProperties
<1> QED
  BY <1>1, <1>2 DEF In

LEMMA InTail ==
  ASSUME NEW S, NEW s \in Seq(S), s # <<>>, NEW p
  PROVE  In(p, s) <=> In(p, Tail(s)) \/ Head(s) = p
<1>1. /\ Head(s) = s[1]
      /\ Len(s) \in Nat \ {0}
      /\ Len(Tail(s)) = Len(s) - 1
      /\ \A i \in 1..Len(Tail(s)) : Tail(s)[i] = s[i + 1]
  BY HeadTailProperties, LenProperties, EmptySeq
<1>2. ASSUME In(p, s) PROVE In(p, Tail(s)) \/ Head(s) = p
  <2>1. PICK i \in 1..Len(s) : s[i] = p
    BY <1>2 DEF In
  <2>2. CASE i = 1
    BY <1>1, <2>1, <2>2
  <2>3. CASE i # 1
    <3>1. i - 1 \in 1..Len(Tail(s))
      BY <1>1, <2>3
    <3>2. Tail(s)[i - 1] = p
      BY <1>1, <2>1, <3>1
    <3> QED
      BY <3>1, <3>2 DEF In
  <2> QED
    BY <2>2, <2>3
<1>3. ASSUME In(p, Tail(s)) \/ Head(s) = p PROVE In(p, s)
  <2>1. CASE Head(s) = p
    BY <1>1, <2>1 DEF In
  <2>2. CASE In(p, Tail(s))
    <3>1. PICK i \in 1..Len(Tail(s)) : Tail(s)[i] = p
      BY <2>2 DEF In
    <3>2. i + 1 \in 1..Len(s) /\ s[i + 1] = p
      BY <1>1, <3>1
    <3> QED
      BY <3>2 DEF In
  <2> QED
    BY <1>3, <2>1, <2>2
<1> QED
  BY <1>2, <1>3

LEMMA InMsgsAppend ==
  ASSUME NEW S, NEW s \in Seq(S), NEW e \in S, NEW p
  PROVE  InMsgs(p, Append(s, e)) <=> InMsgs(p, s) \/ e.pid = p
<1>1. /\ Append(s, e) \in Seq(S)
      /\ Len(Append(s, e)) = Len(s) + 1
      /\ Append(s, e)[Len(s) + 1] = e
      /\ \A i \in 1..Len(s) : Append(s, e)[i] = s[i]
  BY AppendProperties
<1>2. Len(s) \in Nat
  BY LenProperties
<1> QED
  BY <1>1, <1>2 DEF InMsgs

LEMMA InMsgsTail ==
  ASSUME NEW S, NEW s \in Seq(S), s # <<>>, NEW p
  PROVE  InMsgs(p, s) <=> InMsgs(p, Tail(s)) \/ Head(s).pid = p
<1>1. /\ Head(s) = s[1]
      /\ Len(s) \in Nat \ {0}
      /\ Len(Tail(s)) = Len(s) - 1
      /\ \A i \in 1..Len(Tail(s)) : Tail(s)[i] = s[i + 1]
  BY HeadTailProperties, LenProperties, EmptySeq
<1>2. ASSUME InMsgs(p, s) PROVE InMsgs(p, Tail(s)) \/ Head(s).pid = p
  <2>1. PICK i \in 1..Len(s) : s[i].pid = p
    BY <1>2 DEF InMsgs
  <2>2. CASE i = 1
    BY <1>1, <2>1, <2>2
  <2>3. CASE i # 1
    <3>1. i - 1 \in 1..Len(Tail(s))
      BY <1>1, <2>3
    <3>2. Tail(s)[i - 1].pid = p
      BY <1>1, <2>1, <3>1
    <3> QED
      BY <3>1, <3>2 DEF InMsgs
  <2> QED
    BY <2>2, <2>3
<1>3. ASSUME InMsgs(p, Tail(s)) \/ Head(s).pid = p PROVE InMsgs(p, s)
  <2>1. CASE Head(s).pid = p
    BY <1>1, <2>1 DEF InMsgs
  <2>2. CASE InMsgs(p, Tail(s))
    <3>1. PICK i \in 1..Len(Tail(s)) : Tail(s)[i].pid = p
      BY <2>2 DEF InMsgs
    <3>2. i + 1 \in 1..Len(s) /\ s[i + 1].pid = p
      BY <1>1, <3>1
    <3> QED
      BY <3>2 DEF InMsgs
  <2> QED
    BY <1>3, <2>1, <2>2
<1> QED
  BY <1>2, <1>3

-------------------------------------------------------------------------------
(* The daemon's records. *)

\* No pid is twice in the list.
NoDuplicate(list) ==
    \A i, j \in 1..Len(list) : list[i].pid = list[j].pid => i = j

FlagsMatch == \A p \in KnownPids : is_queued[p] <=> InMsgs(p, dispatch_head)

Entry == [pid : KnownPids, slice : SliceCode]

LEMMA ListForm ==
  DaemonListConsistent <=>
    NoDuplicate(dispatch_head) /\ FlagsMatch /\ CounterIsLength
  BY DEF DaemonListConsistent, NoDuplicate, FlagsMatch, CounterIsLength

LEMMA AppendNoDuplicate ==
  ASSUME NEW s \in Seq(Entry), NEW e \in Entry, NoDuplicate(s),
         ~InMsgs(e.pid, s)
  PROVE  NoDuplicate(Append(s, e))
<1>1. /\ Len(Append(s, e)) = Len(s) + 1
      /\ Append(s, e)[Len(s) + 1] = e
      /\ \A i \in 1..Len(s) : Append(s, e)[i] = s[i]
  BY AppendProperties
<1>2. Len(s) \in Nat
  BY LenProperties
<1>3. \A i \in 1..Len(s) : s[i].pid # e.pid
  BY DEF InMsgs
<1> QED
  BY <1>1, <1>2, <1>3 DEF NoDuplicate

LEMMA TailNoDuplicate ==
  ASSUME NEW s \in Seq(Entry), s # <<>>, NoDuplicate(s)
  PROVE  NoDuplicate(Tail(s)) /\ ~InMsgs(Head(s).pid, Tail(s))
<1>1. /\ Head(s) = s[1]
      /\ Len(s) \in Nat \ {0}
      /\ Len(Tail(s)) = Len(s) - 1
      /\ \A i \in 1..Len(Tail(s)) : Tail(s)[i] = s[i + 1]
  BY HeadTailProperties, LenProperties, EmptySeq
<1>2. \A i \in 1..Len(Tail(s)) : i + 1 \in 1..Len(s) /\ i + 1 # 1
  BY <1>1
<1>3. NoDuplicate(Tail(s))
  <2> SUFFICES ASSUME NEW i \in 1..Len(Tail(s)), NEW j \in 1..Len(Tail(s)),
                      Tail(s)[i].pid = Tail(s)[j].pid
               PROVE  i = j
    BY DEF NoDuplicate
  <2>1. s[i + 1].pid = s[j + 1].pid
    BY <1>1
  <2>2. i + 1 = j + 1
    BY <1>2, <2>1 DEF NoDuplicate
  <2> QED
    BY <1>1, <2>2
<1>4. \A i \in 1..Len(Tail(s)) : Tail(s)[i].pid # Head(s).pid
  BY <1>1, <1>2 DEF NoDuplicate
<1> QED
  BY <1>3, <1>4 DEF InMsgs

\* The list grows and shrinks with its flags and its counter.
LEMMA DaemonStepList ==
  ASSUME TypeInv, DaemonListConsistent, DaemonNext
  PROVE  NoDuplicate(dispatch_head)' /\ FlagsMatch'
<1> USE DEF mapVars, procVars
<1>1. dispatch_head \in Seq(Entry) /\ is_queued \in [KnownPids -> BOOLEAN]
  BY DEF TypeInv, TypeOK, DaemonTypeOK, Entry
<1>2. NoDuplicate(dispatch_head) /\ FlagsMatch
  BY ListForm
<1>3. ASSUME NEW p, LocalEnqueue(p)
      PROVE  NoDuplicate(dispatch_head)' /\ FlagsMatch'
  <2>1. p \in KnownPids /\ ~is_queued[p]
        /\ is_queued' = [is_queued EXCEPT ![p] = TRUE]
    BY <1>3 DEF LocalEnqueue, AlreadyQueued
  <2>2. PICK s \in SliceRead(p) :
          dispatch_head' = Append(dispatch_head, [pid |-> p, slice |-> s])
    BY <1>3 DEF LocalEnqueue
  <2>3. [pid |-> p, slice |-> s] \in Entry
    BY <2>1, <2>2 DEF SliceRead, CodeOf, SliceCode, Entry
  <2>4. ~InMsgs(p, dispatch_head)
    BY <1>2, <2>1 DEF FlagsMatch
  <2>5. NoDuplicate(dispatch_head')
    BY <1>1, <1>2, <2>2, <2>3, <2>4, AppendNoDuplicate
  <2>6. \A q : InMsgs(q, dispatch_head') <=> InMsgs(q, dispatch_head) \/ p = q
    BY <1>1, <2>2, <2>3, InMsgsAppend
  <2> QED
    BY <1>1, <1>2, <2>1, <2>5, <2>6 DEF FlagsMatch, NoDuplicate
<1>4. CASE DispatchOne
  <2> DEFINE p == Head(dispatch_head).pid
  <2>1. /\ dispatch_head # <<>>
        /\ dispatch_head' = Tail(dispatch_head)
        /\ is_queued' = [is_queued EXCEPT ![p] = FALSE]
    BY <1>4 DEF DispatchOne, Unqueue
  <2>2. NoDuplicate(dispatch_head') /\ ~InMsgs(p, dispatch_head')
    BY <1>1, <1>2, <2>1, TailNoDuplicate
  <2>3. \A q : InMsgs(q, dispatch_head) <=> InMsgs(q, dispatch_head') \/ p = q
    BY <1>1, <2>1, InMsgsTail
  <2>4. FlagsMatch'
    BY <1>1, <1>2, <2>1, <2>2, <2>3 DEF FlagsMatch
  <2> QED
    BY <2>2, <2>4 DEF NoDuplicate
<1>5. CASE DrainOne
  <2>1. CASE LocalEnqueue(Head(enqueued))
    BY <1>3, <2>1
  <2>2. CASE LocalEnqueueDup(Head(enqueued)) \/ LocalEnqueueFails(Head(enqueued))
    BY <1>2, <2>2 DEF LocalEnqueueDup, LocalEnqueueFails, FlagsMatch,
                      NoDuplicate
  <2> QED
    BY <1>5, <2>1, <2>2 DEF DrainOne
<1>6. CASE \/ LoopHead \/ DrainEnd \/ BatchEnd \/ CheckEmpty \/ WaitForWork
           \/ Detach \/ Signal
  <2>1. UNCHANGED <<dispatch_head, is_queued>>
    BY <1>6 DEF LoopHead, DrainEnd, BatchEnd, CheckEmpty, WaitForWork, Detach,
                Signal
  <2> QED
    BY <1>2, <2>1 DEF FlagsMatch, NoDuplicate
<1> QED
  BY <1>4, <1>5, <1>6 DEF DaemonNext, DaemonStep

\* The list, the is_queued flags and the counter of the daemon agree, and no
\* entry is linked twice, whatever pids arrive and however often.
THEOREM DaemonRecordsAgree == Spec => []DaemonListConsistent
<1>1. Init => DaemonListConsistent
  <2> SUFFICES ASSUME Init PROVE DaemonListConsistent
    OBVIOUS
  <2>1. /\ dispatch_head = <<>> /\ Len(dispatch_head) = 0
        /\ is_queued = [p \in KnownPids |-> FALSE]
        /\ nr_curr_enqueued = 0
    BY DEF Init, DaemonInit
  <2> QED
    BY <2>1 DEF DaemonListConsistent, InMsgs
<1>2. TypeInv /\ TypeInv' /\ DaemonListConsistent /\ [Next]_vars
        => DaemonListConsistent'
  <2> SUFFICES ASSUME TypeInv, TypeInv', DaemonListConsistent, [Next]_vars
               PROVE  DaemonListConsistent'
    OBVIOUS
  <2>1. CASE DaemonNext
    <3>1. NoDuplicate(dispatch_head)' /\ FlagsMatch'
      BY <2>1, DaemonStepList
    <3>2. CounterIsLength'
      BY DEF TypeInv
    <3> QED
      BY <3>1, <3>2 DEF DaemonListConsistent, NoDuplicate, FlagsMatch,
                        CounterIsLength
  <2>2. CASE UNCHANGED daemonVars
    BY <2>2 DEF DaemonListConsistent, daemonVars
  <2> QED
    BY <2>1, <2>2 DEF Next, vars
<1> QED
  BY <1>1, <1>2, TypeInvariance, PTL DEF Spec

-------------------------------------------------------------------------------
(* Requests and answers. *)

\* A task has a context exactly while it is in SCHED_EXT.
CtxWithClass == \A p \in Pids : ctx[p] # "none" <=> task[p] = "ext"

\* A CPU that looked a context up and was not told that it went away has one.
LookupValid ==
    \A c \in Cpus :
      cpc[c] = "apply" /\ cref[c] = "ctx" => ctx[cmsg[c].pid] # "none"

RequestInv == CtxWithClass /\ LookupValid

LEMMA InitRequestInv == Init => RequestInv
  BY DEF Init, MapsInit, BpfInit, RequestInv, CtxWithClass, LookupValid

LEMMA QuietRequestInv ==
  ASSUME RequestInv, UNCHANGED <<ctx, task, cpc, cmsg, cref>>
  PROVE  RequestInv'
  BY DEF RequestInv, CtxWithClass, LookupValid

LEMMA TaskStepRequestInv ==
  ASSUME TypeInv, RequestInv, NEW p \in Pids, TaskStep(p)
  PROVE  RequestInv'
<1> USE DEF mapVars, procVars, taskVars, cpuVars, bpfVars
<1> USE DEF TypeInv, TypeOK, MapsTypeOK, BpfTypeOK
<1>1. CASE Fork(p)
  BY <1>1 DEF Fork, RequestInv, CtxWithClass, LookupValid
<1>2. CASE Exit(p) \/ Disable(p)
  <2>1. /\ ctx' = [ctx EXCEPT ![p] = "none"]
        /\ \E t \in {"dead", "other"} : task' = [task EXCEPT ![p] = t]
        /\ \E left \in {"gone", "noctx"} : LosesRef(p, left)
        /\ UNCHANGED <<cpc, cmsg>>
    BY <1>2 DEF Exit, Disable
  <2>2. CtxWithClass'
    BY <2>1 DEF RequestInv, CtxWithClass
  <2>3. LookupValid'
    <3> SUFFICES ASSUME NEW c \in Cpus, cpc[c] = "apply", cref'[c] = "ctx"
                 PROVE  ctx'[cmsg[c].pid] # "none"
      BY <2>1 DEF LookupValid
    <3>1. cref[c] = "ctx" /\ cmsg[c].pid # p
      BY <2>1 DEF LosesRef
    <3> QED
      BY <2>1, <3>1 DEF RequestInv, LookupValid
  <2> QED
    BY <2>2, <2>3 DEF RequestInv
<1>3. CASE EnableCtx(p)
  <2>1. /\ ctx' = [ctx EXCEPT ![p] = "waiting"]
        /\ task' = [task EXCEPT ![p] = "ext"]
        /\ UNCHANGED <<cpc, cmsg, cref>>
    BY <1>3 DEF EnableCtx, NewCtx
  <2> QED
    BY <2>1 DEF RequestInv, CtxWithClass, LookupValid
<1>4. CASE \/ EnableFails(p) \/ Wake(p) \/ Stop(p) \/ Requeue(p)
           \/ HandlerStep(p)
  <2>1. UNCHANGED <<ctx, task, cpc, cmsg, cref>>
    BY <1>4 DEF EnableFails, Abort, Wake, Stop, Requeue, HandlerStep,
                EnablePush, EnablePushFull, EnablePushRejected, EnableFlag,
                Enqueue, EnqueueReturn
  <2> QED
    BY <2>1, QuietRequestInv
<1> QED
  BY <1>1, <1>2, <1>3, <1>4 DEF TaskStep

LEMMA CpuStepRequestInv ==
  ASSUME TypeInv, RequestInv, NEW c \in Cpus, CpuStep(c)
  PROVE  RequestInv'
<1> USE DEF mapVars, procVars, taskVars, cpuVars, bpfVars
<1>1. CASE ApplySlice(c)
  <2>1. /\ ctx' = [ctx EXCEPT ![cmsg[c].pid] =
                     IF cref[c] = "ctx" THEN SliceOf(cmsg[c].slice) ELSE @]
        /\ cpc' = [cpc EXCEPT ![c] = "insert"]
        /\ cpc[c] = "apply"
        /\ UNCHANGED <<task, cmsg, cref>>
    BY <1>1 DEF ApplySlice, At
  <2>2. \A p \in Pids : ctx'[p] # "none" <=> ctx[p] # "none"
    BY <2>1 DEF RequestInv, LookupValid, SliceOf, TypeInv, TypeOK, BpfTypeOK
  <2>3. \A d \in Cpus : cpc'[d] = "apply" => cmsg[d].pid \in Pids
    BY <2>1 DEF TypeInv, MsgHeld, TypeOK, BpfTypeOK, Msg
  <2> QED
    BY <2>1, <2>2, <2>3 DEF RequestInv, CtxWithClass, LookupValid, TypeInv,
                            TypeOK, BpfTypeOK
<1>2. CASE LookupTask(c)
  <2>1. UNCHANGED <<ctx, task>>
    BY <1>2 DEF LookupTask
  <2>2. \A d \in Cpus \ {c} : /\ cpc'[d] = cpc[d] /\ cmsg'[d] = cmsg[d]
                              /\ cref'[d] = cref[d]
    BY <1>2 DEF LookupTask, At, TypeInv, TypeOK, BpfTypeOK
  <2>3. cpc'[c] = "apply" => ctx'[cmsg'[c].pid] # "none"
    <3>1. cpc \in [Cpus -> {"out", "wake", "pop", "lookup", "apply", "insert",
                            "consume", "flush"}]
      BY DEF TypeInv, TypeOK, BpfTypeOK
    <3>2. CASE cpc' = [cpc EXCEPT ![c] = "apply"]
      BY <1>2, <2>1, <3>1, <3>2 DEF LookupTask, At
    <3>3. CASE \E to \in {"pop", "insert"} : cpc' = [cpc EXCEPT ![c] = to]
      BY <3>1, <3>3
    <3> QED
      BY <1>2, <3>2, <3>3 DEF LookupTask, At
  <2> QED
    BY <2>1, <2>2, <2>3 DEF RequestInv, CtxWithClass, LookupValid
<1>3. CASE \/ DispatchBegin(c) \/ WakeUsersched(c) \/ PopDispatched(c)
           \/ InsertTask(c) \/ Consume(c) \/ Flush(c)
  <2>1. UNCHANGED <<ctx, task>>
    BY <1>3 DEF DispatchBegin, WakeUsersched, PopDispatched, InsertTask,
                Consume, Flush
  <2>2. \A d \in Cpus \ {c} : /\ cpc'[d] = cpc[d] /\ cmsg'[d] = cmsg[d]
                              /\ cref'[d] = cref[d]
    BY <1>3 DEF DispatchBegin, WakeUsersched, PopDispatched, InsertTask,
                Consume, Flush, At, TypeInv, TypeOK, BpfTypeOK
  <2>3. cpc'[c] # "apply"
    BY <1>3 DEF DispatchBegin, WakeUsersched, PopDispatched, InsertTask,
                Consume, Flush, At, TypeInv, TypeOK, BpfTypeOK
  <2> QED
    BY <2>1, <2>2, <2>3 DEF RequestInv, CtxWithClass, LookupValid
<1>4. CASE WakeFails(c) \/ InsertOverflows(c) \/ UpdateIdle(c)
  <2>1. UNCHANGED <<ctx, task, cpc, cmsg, cref>>
    BY <1>4 DEF WakeFails, InsertOverflows, Abort, UpdateIdle
  <2> QED
    BY <2>1, QuietRequestInv
<1> QED
  BY <1>1, <1>2, <1>3, <1>4 DEF CpuStep, DispatchStep

LEMMA RequestInvariance == Spec => []RequestInv
<1>1. TypeInv /\ RequestInv /\ [Next]_vars => RequestInv'
  <2> SUFFICES ASSUME TypeInv, RequestInv, [Next]_vars
               PROVE  RequestInv'
    OBVIOUS
  <2>1. CASE BpfNext
    BY <2>1, TaskStepRequestInv, CpuStepRequestInv DEF BpfNext
  <2>2. CASE DaemonNext /\ UNCHANGED bpfVars
    BY <2>2, DaemonStepQuiet, QuietRequestInv
  <2>3. CASE UNCHANGED vars
    BY <2>3, QuietRequestInv DEF vars, procVars, bpfVars, taskVars, cpuVars
  <2> QED
    BY <2>1, <2>2, <2>3 DEF Next
<1> QED
  BY InitRequestInv, TypeInvariance, <1>1, PTL DEF Spec

\* What NoLostTask says of one task.
Waits(q) == scx = "on" /\ nr_failed_enqueues = 0 /\ ctx[q] = "waiting"

LEMMA TaskStepInFlight ==
  ASSUME TypeInv, RequestInv, NEW q \in KnownPids, Waits(q) => InFlight(q),
         NEW p \in Pids, TaskStep(p), UNCHANGED daemonVars, Waits(q)'
  PROVE  InFlight(q)'
<1> USE DEF mapVars, procVars, taskVars, cpuVars, bpfVars, daemonVars
<1>0. q \in Pids
  BY MapsAssumption
<1>1. CASE Exit(p) \/ Disable(p)
  <2>1. /\ ctx' = [ctx EXCEPT ![p] = "none"]
        /\ \E left \in {"gone", "noctx"} : LosesRef(p, left)
        /\ UNCHANGED <<scx, nr_failed_enqueues, epc, enqueued, dispatched,
                       dispatch_head, cpc, cmsg>>
    BY <1>1 DEF Exit, Disable
  <2>2. p # q /\ Waits(q)
    BY <1>0, <2>1 DEF Waits, TypeInv, TypeOK, BpfTypeOK
  <2>3. \A c \in Cpus : cmsg[c].pid = q => cref'[c] = cref[c]
    BY <2>1, <2>2 DEF LosesRef
  <2> QED
    BY <2>1, <2>2, <2>3 DEF InFlight
<1>2. CASE EnableCtx(p)
  <2>1. /\ ctx' = [ctx EXCEPT ![p] = "waiting"]
        /\ epc' = [epc EXCEPT ![p] = "push"]
        /\ UNCHANGED <<scx, nr_failed_enqueues, enqueued, dispatched,
                       dispatch_head, cpc, cmsg, cref>>
    BY <1>2 DEF EnableCtx, NewCtx
  <2>2. CASE p = q
    BY <1>0, <2>1, <2>2 DEF InFlight, TypeInv, TypeOK, BpfTypeOK
  <2>3. CASE p # q
    <3>1. Waits(q) /\ epc'[q] = epc[q]
      BY <1>0, <2>1, <2>3 DEF Waits, TypeInv, TypeOK, BpfTypeOK
    <3> QED
      BY <2>1, <3>1 DEF InFlight
  <2> QED
    BY <2>2, <2>3
<1>3. CASE EnablePush(p)
  <2>1. /\ enqueued' = Append(enqueued, p)
        /\ epc' = [epc EXCEPT ![p] = "flag"]
        /\ UNCHANGED <<scx, ctx, nr_failed_enqueues, dispatched,
                       dispatch_head, cpc, cmsg, cref>>
    BY <1>3 DEF EnablePush
  <2>2. In(q, enqueued') <=> In(q, enqueued) \/ p = q
    BY <2>1, InAppend DEF TypeInv, TypeOK, MapsTypeOK
  <2>3. epc'[q] = epc[q] \/ p = q
    BY <1>0, <2>1 DEF TypeInv, TypeOK, BpfTypeOK
  <2>4. Waits(q)
    BY <2>1 DEF Waits
  <2> QED
    BY <2>1, <2>2, <2>3, <2>4 DEF InFlight
<1>4. CASE EnablePushFull(p)
  BY <1>4 DEF EnablePushFull, Waits, TypeInv, TypeOK, BpfTypeOK
<1>5. CASE EnableFails(p) \/ EnablePushRejected(p)
  BY <1>5 DEF EnableFails, EnablePushRejected, Abort, Waits
<1>6. CASE EnableFlag(p)
  <2>1. /\ epc[p] = "flag"
        /\ epc' = [epc EXCEPT ![p] = "idle"]
        /\ UNCHANGED <<scx, ctx, nr_failed_enqueues, enqueued, dispatched,
                       dispatch_head, cpc, cmsg, cref>>
    BY <1>6 DEF EnableFlag, Enabled
  <2>2. epc[q] = "push" => epc'[q] = "push"
    BY <1>0, <2>1 DEF TypeInv, TypeOK, BpfTypeOK
  <2> QED
    BY <2>1, <2>2 DEF InFlight, Waits
<1>7. CASE \/ Fork(p) \/ Wake(p) \/ Stop(p) \/ Requeue(p) \/ Enqueue(p)
           \/ EnqueueReturn(p)
  <2>1. UNCHANGED <<scx, ctx, nr_failed_enqueues, epc, enqueued, dispatched,
                    dispatch_head, cpc, cmsg, cref>>
    BY <1>7 DEF Fork, Wake, Stop, Requeue, Enqueue, EnqueueReturn
  <2> QED
    BY <2>1 DEF InFlight, Waits
<1> QED
  BY <1>1, <1>2, <1>3, <1>4, <1>5, <1>6, <1>7 DEF TaskStep, HandlerStep

LEMMA CpuStepInFlight ==
  ASSUME TypeInv, RequestInv, NEW q \in KnownPids, Waits(q) => InFlight(q),
         NEW c \in Cpus, CpuStep(c), UNCHANGED daemonVars, Waits(q)'
  PROVE  InFlight(q)'
<1> USE DEF mapVars, procVars, taskVars, cpuVars, bpfVars, daemonVars
<1>0. q \in Pids
  BY MapsAssumption
<1>1. CASE WakeFails(c) \/ InsertOverflows(c)
  BY <1>1 DEF WakeFails, InsertOverflows, Abort, Waits
<1>2. CASE ApplySlice(c)
  <2>1. /\ ctx' = [ctx EXCEPT ![cmsg[c].pid] =
                     IF cref[c] = "ctx" THEN SliceOf(cmsg[c].slice) ELSE @]
        /\ cpc' = [cpc EXCEPT ![c] = "insert"]
        /\ cpc[c] = "apply"
        /\ UNCHANGED <<scx, nr_failed_enqueues, epc, enqueued, dispatched,
                       dispatch_head, cmsg, cref>>
    BY <1>2 DEF ApplySlice, At
  <2>2. ~(cmsg[c].pid = q /\ cref[c] = "ctx")
    BY <1>0, <2>1 DEF Waits, SliceOf, TypeInv, TypeOK, BpfTypeOK
  <2>3. ctx'[q] = ctx[q]
    BY <1>0, <2>1, <2>2 DEF TypeInv, TypeOK, BpfTypeOK
  <2>4. \A d \in Cpus \ {c} : cpc'[d] = cpc[d]
    BY <2>1 DEF TypeInv, TypeOK, BpfTypeOK
  <2>5. Waits(q)
    BY <2>1, <2>3 DEF Waits
  <2> QED
    BY <2>1, <2>2, <2>4, <2>5 DEF InFlight
<1>3. ASSUME ~(ApplySlice(c) \/ WakeFails(c) \/ InsertOverflows(c))
      PROVE  InFlight(q)'
  <2>1. UNCHANGED <<scx, ctx, nr_failed_enqueues, epc, enqueued,
                    dispatch_head, task>>
    BY <1>3 DEF CpuStep, DispatchStep, DispatchBegin, WakeUsersched,
                PopDispatched, LookupTask, InsertTask, Consume, Flush,
                UpdateIdle
  <2>2. InFlight(q)
    BY <2>1 DEF Waits
  <2>3. \A d \in Cpus \ {c} : /\ cpc'[d] = cpc[d] /\ cmsg'[d] = cmsg[d]
                              /\ cref'[d] = cref[d]
    BY <1>3 DEF CpuStep, DispatchStep, DispatchBegin, WakeUsersched,
                PopDispatched, LookupTask, InsertTask, Consume, Flush,
                UpdateIdle, At, TypeInv, TypeOK, BpfTypeOK
  <2>4. CASE PopDispatched(c) /\ dispatched # <<>>
    <3>1. /\ cpc[c] = "pop"
          /\ cpc' = [cpc EXCEPT ![c] = "lookup"]
          /\ cmsg' = [cmsg EXCEPT ![c] = Head(dispatched)]
          /\ dispatched' = Tail(dispatched)
      BY <2>4 DEF PopDispatched, At
    <3>2. cpc'[c] = "lookup" /\ cmsg'[c] = Head(dispatched)
      BY <3>1 DEF TypeInv, TypeOK, BpfTypeOK
    <3>3. InMsgs(q, dispatched)
            <=> InMsgs(q, dispatched') \/ Head(dispatched).pid = q
      BY <2>4, <3>1, InMsgsTail DEF TypeInv, TypeOK, MapsTypeOK
    <3> QED
      BY <2>1, <2>2, <2>3, <3>1, <3>2, <3>3 DEF InFlight
  <2>5. CASE LookupTask(c)
    <3>1. UNCHANGED dispatched /\ cpc[c] = "lookup"
      BY <2>5 DEF LookupTask
    <3>2. CASE cmsg[c].pid # q
      BY <2>1, <2>2, <2>3, <3>1, <3>2 DEF InFlight
    <3>3. CASE cmsg[c].pid = q
      <4>1. ctx[q] = "waiting" /\ task[q] = "ext"
        BY <1>0, <2>1 DEF Waits, RequestInv, CtxWithClass
      <4>2. /\ cpc' = [cpc EXCEPT ![c] = "apply"]
            /\ cref' = [cref EXCEPT ![c] = "ctx"]
            /\ cmsg' = cmsg
        BY <2>5, <3>3, <4>1 DEF LookupTask, At
      <4>3. cpc'[c] = "apply" /\ cref'[c] = "ctx" /\ cmsg'[c].pid = q
        BY <3>3, <4>2 DEF TypeInv, TypeOK, BpfTypeOK
      <4> QED
        BY <4>3 DEF InFlight
    <3> QED
      BY <3>2, <3>3
  <2>6. ASSUME ~LookupTask(c), ~(PopDispatched(c) /\ dispatched # <<>>)
        PROVE  InFlight(q)'
    <3>1. /\ cpc[c] \notin {"lookup", "apply"}
          /\ UNCHANGED dispatched
      BY <1>3, <2>6 DEF CpuStep, DispatchStep, DispatchBegin, WakeUsersched,
                PopDispatched, InsertTask, Consume, Flush, UpdateIdle, At
    <3> QED
      BY <2>1, <2>2, <2>3, <3>1 DEF InFlight
  <2> QED
    BY <2>4, <2>5, <2>6
<1> QED
  BY <1>1, <1>2, <1>3

LEMMA DaemonStepInFlight ==
  ASSUME TypeInv, DaemonListConsistent, NEW q \in KnownPids,
         Waits(q) => InFlight(q), DaemonNext, UNCHANGED bpfVars, Waits(q)'
  PROVE  InFlight(q)'
<1> USE DEF mapVars, procVars, taskVars, cpuVars, bpfVars
<1>1. CASE Detach
  BY <1>1 DEF Detach, Waits
<1>2. ASSUME ~Detach PROVE InFlight(q)
  BY <1>2 DEF DaemonNext, DaemonStep, LoopHead, DrainOne, DrainEnd,
         DispatchOne, BatchEnd, CheckEmpty, WaitForWork, Signal, Waits
<1>3. CASE DrainOne
  <2> DEFINE p == Head(enqueued)
  <2>1. /\ enqueued \in Seq(Pids) /\ enqueued # <<>>
        /\ enqueued' = Tail(enqueued)
        /\ dispatched' = dispatched
    BY <1>3 DEF DrainOne, TypeInv, TypeOK, MapsTypeOK
  <2>2. In(q, enqueued) <=> In(q, enqueued') \/ p = q
    BY <2>1, InTail
  <2>3. InFlight(q)
    BY <1>2, <1>3 DEF DrainOne, Detach
  <2>4. CASE LocalEnqueue(p)
    <3>1. PICK s \in SliceRead(p) :
            dispatch_head' = Append(dispatch_head, [pid |-> p, slice |-> s])
      BY <2>4 DEF LocalEnqueue
    <3>2. [pid |-> p, slice |-> s] \in Entry
      BY <2>4, <3>1 DEF LocalEnqueue, SliceRead, CodeOf, SliceCode, Entry
    <3>3. dispatch_head \in Seq(Entry)
      BY DEF TypeInv, TypeOK, DaemonTypeOK, Entry
    <3>4. InMsgs(q, dispatch_head') <=> InMsgs(q, dispatch_head) \/ p = q
      BY <3>1, <3>2, <3>3, InMsgsAppend
    <3> QED
      BY <2>1, <2>2, <2>3, <3>4 DEF InFlight
  <2>5. CASE LocalEnqueueDup(p)
    <3>1. dispatch_head' = dispatch_head
      BY <2>5 DEF LocalEnqueueDup
    <3>2. p = q => InMsgs(q, dispatch_head)
      BY <2>5 DEF LocalEnqueueDup, AlreadyQueued, DaemonListConsistent
    <3> QED
      BY <2>1, <2>2, <2>3, <3>1, <3>2 DEF InFlight
  <2>6. CASE LocalEnqueueFails(p)
    <3>1. dispatch_head' = dispatch_head /\ p # q
      BY <2>6 DEF LocalEnqueueFails
    <3> QED
      BY <2>1, <2>2, <2>3, <3>1 DEF InFlight
  <2> QED
    BY <1>3, <2>4, <2>5, <2>6 DEF DrainOne
<1>4. CASE DispatchOne
  <2> DEFINE e == Head(dispatch_head)
  <2>1. /\ dispatch_head \in Seq(Entry) /\ dispatch_head # <<>>
        /\ dispatch_head' = Tail(dispatch_head)
        /\ enqueued' = enqueued
        /\ dispatched' = Append(dispatched, e)
    BY <1>4 DEF DispatchOne, PushDispatched, TypeInv, TypeOK, DaemonTypeOK,
                Entry
  <2>2. e \in Msg
    <3>1. e \in Entry
      BY <2>1, HeadTailProperties
    <3> QED
      BY <3>1, MapsAssumption DEF Entry, Msg
  <2>3. InMsgs(q, dispatch_head) <=> InMsgs(q, dispatch_head') \/ e.pid = q
    BY <2>1, InMsgsTail
  <2>4. InMsgs(q, dispatched') <=> InMsgs(q, dispatched) \/ e.pid = q
    BY <2>1, <2>2, InMsgsAppend DEF TypeInv, TypeOK, MapsTypeOK
  <2>5. InFlight(q)
    BY <1>2, <1>4 DEF DispatchOne, Detach
  <2> QED
    BY <2>1, <2>3, <2>4, <2>5 DEF InFlight
<1>5. CASE \/ LoopHead \/ DrainEnd \/ BatchEnd \/ CheckEmpty \/ WaitForWork
           \/ Signal
  <2>1. UNCHANGED <<scx, enqueued, dispatched, dispatch_head>>
    BY <1>5 DEF LoopHead, DrainEnd, BatchEnd, CheckEmpty, WaitForWork, Signal
  <2>2. InFlight(q)
    BY <2>1 DEF Waits
  <2> QED
    BY <2>1, <2>2 DEF InFlight
<1> QED
  BY <1>1, <1>3, <1>4, <1>5 DEF DaemonNext, DaemonStep

\* No request is forgotten: a task that is withheld has its request or its
\* answer in one of the queues or in the hands of a CPU, for any number of
\* tasks, of CPUs, of entries into SCHED_EXT, and for maps of any capacity.
THEOREM RequestsAreNotLost == Spec => []NoLostTask
<1>1. Init => NoLostTask
  BY MapsAssumption DEF Init, BpfInit, NoLostTask
<1>2. TypeInv /\ RequestInv /\ DaemonListConsistent /\ NoLostTask
        /\ [Next]_vars => NoLostTask'
  <2> SUFFICES ASSUME TypeInv, RequestInv, DaemonListConsistent, NoLostTask,
                      [Next]_vars, NEW q \in KnownPids, Waits(q)'
               PROVE  InFlight(q)'
    BY DEF NoLostTask, Waits
  <2>0. Waits(q) => InFlight(q)
    BY DEF NoLostTask, Waits
  <2>1. CASE BpfNext /\ UNCHANGED daemonVars
    BY <2>0, <2>1, TaskStepInFlight, CpuStepInFlight DEF BpfNext
  <2>2. CASE DaemonNext /\ UNCHANGED bpfVars
    BY <2>0, <2>2, DaemonStepInFlight
  <2>3. CASE UNCHANGED vars
    BY <2>0, <2>3 DEF InFlight, Waits, vars, mapVars, procVars, bpfVars,
                      taskVars, cpuVars, daemonVars
  <2> QED
    BY <2>1, <2>2, <2>3 DEF Next
<1> QED
  BY <1>1, <1>2, TypeInvariance, RequestInvariance, DaemonRecordsAgree, PTL
     DEF Spec
===============================================================================
