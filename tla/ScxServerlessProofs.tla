-------------------------- MODULE ScxServerlessProofs --------------------------
(***************************************************************************)
(* Proofs about ScxServerless, for any number of tasks and CPUs, any       *)
(* slice, and however often the kernel ejects the scheduler.               *)
(***************************************************************************)
EXTENDS ScxServerless, FiniteSetTheorems, SequenceTheorems, TLAPS

USE BpfAssumption

-------------------------------------------------------------------------------
(* What a step is. *)

\* A step of a task, be it the loader's own.
AnyTaskStep(t) ==
    TaskStep(t) \/ RunStep(t) \/ EnqueueStep(t) \/ StopRunning(t, "sleep")

\* What the loader does of main while a task takes a step: nothing, or, when it
\* is its own task that enters SCHED_EXT, it goes on to its loop.
Entered == lpc = "enter" /\ lpc' = "loop" /\ UNCHANGED <<exit_req, uei, ejects, told>>
TaskTurn(t) == AnyTaskStep(t) /\ (UNCHANGED loaderVars \/ Entered)

\* The steps that are no task's and no CPU's.
LoaderMoves ==
    \/ Bootstrap \/ LoopEnds \/ Cleanup \/ Report \/ Signal \/ Eject \/ Stalled
    \/ Entered /\ UNCHANGED bpfVars
    \/ UNCHANGED vars

LEMMA StepCases ==
  ASSUME [Next]_vars
  PROVE  \/ \E t \in Tasks : TaskTurn(t)
         \/ \E c \in Cpus : CpuStep(c) /\ UNCHANGED loaderVars
         \/ LoaderMoves
<1>1. LoopPrints => TaskTurn(Loader) /\ Loader \in Tasks
  BY DEF LoopPrints, TaskTurn, AnyTaskStep, RunStep
<1>2. LoopSleeps => TaskTurn(Loader) /\ Loader \in Tasks
  BY DEF LoopSleeps, TaskTurn, AnyTaskStep
<1>3. LoopWakes => TaskTurn(Loader) /\ Loader \in Tasks
  BY DEF LoopWakes, TaskTurn, AnyTaskStep, TaskStep
<1>4. Enter => (TaskTurn(Loader) /\ Loader \in Tasks) \/ LoaderMoves
  BY DEF Enter, Entered, LoaderMoves, TaskTurn, AnyTaskStep, TaskStep
<1>5. LoaderStep =>
        \/ TaskTurn(Loader) /\ Loader \in Tasks
        \/ LoaderMoves
  BY <1>1, <1>2, <1>3, <1>4 DEF LoaderStep, LoaderMoves
<1>6. ASSUME NEW t \in Tasks, TaskStep(t) \/ RunStep(t) \/ EnqueueStep(t),
             UNCHANGED loaderVars
      PROVE  TaskTurn(t)
  BY <1>6 DEF TaskTurn, AnyTaskStep
<1> QED
  BY <1>5, <1>6 DEF Next, Ended, Others, LoaderMoves

-------------------------------------------------------------------------------
(* Sequences and sets of numbers. *)

\* r is q with e as its new k-th element, and without its k-th element.
PutAt(r, q, n, k, e) ==
  \A i \in 1..n + 1 : r[i] = IF i < k THEN q[i]
                             ELSE IF i = k THEN e ELSE q[i - 1]
Occurs(u, q, n) == \E i \in 1..n : q[i] = u
TakenOut(r, q, n, k) ==
  \A i \in 1..n - 1 : r[i] = IF i < k THEN q[i] ELSE q[i + 1]

\* What inserting an element into a sequence and removing one give.
LEMMA InsertElement ==
  ASSUME NEW S, NEW s \in Seq(S), NEW n \in Nat, Len(s) = n,
         NEW k \in 1..n + 1, NEW e \in S
  PROVE  /\ InsertAt(s, k, e) \in Seq(S)
         /\ Len(InsertAt(s, k, e)) = n + 1
         /\ PutAt(InsertAt(s, k, e), s, n, k, e)
BY DEF InsertAt, PutAt

LEMMA RemoveElement ==
  ASSUME NEW S, NEW s \in Seq(S), NEW n \in Nat, Len(s) = n, NEW k \in 1..n
  PROVE  /\ RemoveAt(s, k) \in Seq(S)
         /\ Len(RemoveAt(s, k)) = n - 1
         /\ TakenOut(RemoveAt(s, k), s, n, k)
BY DEF RemoveAt, TakenOut

\* An element that is put into an ordered sequence behind those that are not
\* after it leaves the sequence ordered.  Key gives the order.
LEMMA InsertInOrder ==
  ASSUME NEW n \in Nat, NEW q, NEW r, NEW k \in 0..n, NEW e, NEW Key,
         PutAt(r, q, n, k + 1, e),
         \A i \in 1..n : q[i] # e /\ Key[q[i]] \in Nat,
         \A i, j \in 1..n : i < j => q[i] # q[j] /\ Key[q[i]] <= Key[q[j]],
         Key[e] \in Nat,
         \A i \in 1..n : i <= k <=> Key[q[i]] <= Key[e]
  PROVE  \A i, j \in 1..n + 1 : i < j => r[i] # r[j] /\ Key[r[i]] <= Key[r[j]]
<1>1. ASSUME NEW i \in 1..n + 1
      PROVE  /\ i <= k => i \in 1..n /\ r[i] = q[i]
             /\ i = k + 1 => r[i] = e
             /\ k + 1 < i => i - 1 \in 1..n /\ k < i - 1 /\ r[i] = q[i - 1]
  BY DEF PutAt
<1>2. \A j \in 1..n : k < j => Key[e] <= Key[q[j]]
  OBVIOUS
<1> SUFFICES ASSUME NEW i \in 1..n + 1, NEW j \in 1..n + 1, i < j
             PROVE  r[i] # r[j] /\ Key[r[i]] <= Key[r[j]]
  OBVIOUS
<1>3. CASE j <= k
  <2>1. i <= k
    BY <1>3
  <2> QED
    BY <1>1, <1>3, <2>1
<1>4. CASE j = k + 1
  <2>1. i <= k
    BY <1>4
  <2> QED
    BY <1>1, <1>4, <2>1
<1>5. CASE k + 1 < j /\ i <= k
  <2>1. i < j - 1
    BY <1>5
  <2> QED
    BY <1>1, <1>5, <2>1
<1>6. CASE k + 1 < j /\ i = k + 1
  BY <1>1, <1>2, <1>6
<1>7. CASE k + 1 < i
  <2>1. i - 1 < j - 1 /\ k + 1 < j
    BY <1>7
  <2> QED
    BY <1>1, <1>7, <2>1
<1> QED
  BY <1>3, <1>4, <1>5, <1>6, <1>7

\* The elements of a sequence into which one is inserted.
LEMMA InsertAddsOne ==
  ASSUME NEW n \in Nat, NEW q, NEW r, NEW k \in 0..n, NEW e,
         PutAt(r, q, n, k + 1, e), NEW u
  PROVE  Occurs(u, r, n + 1) <=> (u = e \/ Occurs(u, q, n))
<1>1. ASSUME NEW i \in 1..n + 1
      PROVE  r[i] = e \/ \E j \in 1..n : q[j] = r[i]
  <2>1. i < k + 1 => i \in 1..n
    OBVIOUS
  <2>2. k + 1 < i => i - 1 \in 1..n
    OBVIOUS
  <2> QED
    BY <2>1, <2>2 DEF PutAt
<1>2. k + 1 \in 1..n + 1 /\ r[k + 1] = e
  BY DEF PutAt
<1>3. ASSUME NEW j \in 1..n
      PROVE  \E i \in 1..n + 1 : r[i] = q[j]
  <2>1. CASE j < k + 1
    BY <2>1 DEF PutAt
  <2>2. CASE ~(j < k + 1)
    <3>1. j + 1 \in 1..n + 1 /\ r[j + 1] = q[j]
      BY <2>2 DEF PutAt
    <3> QED
      BY <3>1
  <2> QED
    BY <2>1, <2>2
<1> QED
  BY <1>1, <1>2, <1>3 DEF Occurs

\* Removing one leaves the others, in their order.
LEMMA RemoveInOrder ==
  ASSUME NEW n \in Nat, NEW q, NEW r, NEW k \in 1..n, NEW Key,
         TakenOut(r, q, n, k),
         \A i, j \in 1..n : i < j => q[i] # q[j] /\ Key[q[i]] <= Key[q[j]]
  PROVE  \A i, j \in 1..n - 1 : i < j => r[i] # r[j] /\ Key[r[i]] <= Key[r[j]]
<1>1. ASSUME NEW i \in 1..n - 1
      PROVE  /\ i < k => i \in 1..n /\ r[i] = q[i]
             /\ ~(i < k) => i + 1 \in 1..n /\ k < i + 1 /\ r[i] = q[i + 1]
  BY DEF TakenOut
<1>2. ASSUME NEW i \in 1..n - 1, NEW j \in 1..n - 1, i < j
      PROVE  r[i] # r[j] /\ Key[r[i]] <= Key[r[j]]
  <2>1. CASE j < k
    <3>1. i < k
      BY <1>2, <2>1
    <3> QED
      BY <1>1, <1>2, <2>1, <3>1
  <2>2. CASE ~(j < k)
    <3>1. i < j + 1 /\ i + 1 < j + 1
      BY <1>2
    <3> QED
      BY <1>1, <1>2, <2>2, <3>1
  <2> QED
    BY <2>1, <2>2
<1> QED
  BY <1>2

LEMMA RemoveTakesOne ==
  ASSUME NEW n \in Nat, NEW q, NEW r, NEW k \in 1..n,
         TakenOut(r, q, n, k),
         \A i, j \in 1..n : i < j => q[i] # q[j], NEW u
  PROVE  Occurs(u, r, n - 1) <=> (u # q[k] /\ Occurs(u, q, n))
<1>1. ASSUME NEW i \in 1..n - 1
      PROVE  /\ i < k => i \in 1..n /\ r[i] = q[i]
             /\ ~(i < k) => i + 1 \in 1..n /\ k < i + 1 /\ r[i] = q[i + 1]
  BY DEF TakenOut
<1>2. ASSUME NEW i \in 1..n - 1
      PROVE  r[i] # q[k] /\ \E j \in 1..n : q[j] = r[i]
  BY <1>1
<1>3. ASSUME NEW j \in 1..n, q[j] # q[k]
      PROVE  \E i \in 1..n - 1 : r[i] = q[j]
  <2>1. CASE j < k
    <3>1. j \in 1..n - 1
      BY <2>1
    <3> QED
      BY <1>1, <2>1, <3>1
  <2>2. CASE k < j
    <3>1. j - 1 \in 1..n - 1 /\ ~(j - 1 < k) /\ (j - 1) + 1 = j
      BY <2>2
    <3> QED
      BY <1>1, <3>1
  <2> QED
    BY <1>3, <2>1, <2>2
<1> QED
  BY <1>2, <1>3 DEF Occurs

\* A set of naturals that is not empty has a least element.
LEMMA LeastElement ==
  ASSUME NEW T \in SUBSET Nat, T # {}
  PROVE  \E n \in T : \A m \in T : n <= m
<1>1. PICK n \in T : \A m \in T : <<m, n>> \notin OpToRel(<, Nat)
  BY NatLessThanWellFounded, WFMin
<1>2. \A m \in T : ~(m < n)
  BY <1>1 DEF OpToRel
<1> QED
  BY <1>2

\* The elements below a bound are the first ones, as many as they are.
LEMMA FirstOnes ==
  ASSUME NEW n \in Nat, NEW A \in SUBSET (1..n),
         \A i \in A, j \in 1..n : j < i => j \in A
  PROVE  /\ Cardinality(A) \in 0..n
         /\ A = 1..Cardinality(A)
<1>1. PICK k \in Nat : k <= n /\ A = 1..k
  <2> DEFINE T == {i \in 1..n + 1 : i \notin A}
  <2>1. T \in SUBSET Nat /\ n + 1 \in T
    OBVIOUS
  <2>2. PICK k \in T : \A m \in T : k <= m
    BY <2>1, LeastElement
  <2>3. \A i \in 1..n : i < k => i \in A
    BY <2>2
  <2>4. \A i \in A : i < k
    BY <2>2
  <2>5. k - 1 \in Nat /\ k - 1 <= n /\ A = 1..(k - 1)
    <3>1. k \in 1..n + 1
      OBVIOUS
    <3>2. A \subseteq 1..(k - 1)
      BY <2>4, <3>1
    <3>3. 1..(k - 1) \subseteq A
      <4>1. \A i \in 1..(k - 1) : i \in 1..n /\ i < k
        BY <3>1
      <4> QED
        BY <2>3, <4>1
    <3>4. A = 1..(k - 1)
      BY <3>2, <3>3, Zenon
    <3>5. k - 1 \in Nat /\ k - 1 <= n
      BY <3>1
    <3> QED
      BY <3>4, <3>5, Zenon
  <2> HIDE DEF T
  <2>6. k - 1 \in Nat /\ k - 1 <= n /\ A = 1..(k - 1)
    BY <2>5
  <2> QED
    BY <2>6
<1>2. Cardinality(A) = k
  BY <1>1, FS_Interval
<1> QED
  BY <1>1, <1>2
-------------------------------------------------------------------------------
(* Typing, and what every later invariant rests on. *)

\* Without a scheduler no task is in its hands and no CPU in its code.
Detached ==
    scx = "off" =>
      /\ \A t \in Tasks : where[t] = "out" /\ ran[t] = 0 /\ outside[t] = 0
      /\ \A c \in Cpus : mode[c] = "idle" /\ newer[c] = {}
      /\ queue = <<>> /\ tokick = {} /\ kicked = {}

\* A loader that is not in its loop, or past it and about to detach, has no
\* scheduler attached.
LoaderPlaces == lpc \in {"bootstrap", "report", "ended"} => scx = "off"

\* A CPU that works on a task holds one.
RegsHeld ==
    \A c \in Cpus : mode[c] \in {"vtime", "global", "cas", "move", "put"} => reg[c].p \in Tasks

\* What a task ran is charged, or kept to be charged.
Accounts ==
    \A t \in Tasks :
      /\ where[t] # "run" => ran[t] = 0
      /\ ctx[t] = NoCtx => where[t] = "out" /\ ran[t] = 0 /\ outside[t] = 0
      /\ scx = "on" /\ ctx[t] # NoCtx => sum[t] = ctx[t].last + ran[t] + outside[t]

TypeInv == TypeOK /\ Detached /\ LoaderPlaces /\ RegsHeld /\ Accounts /\ QueueOrdered

\* A context in use has a slice.
Contexts == [slice : {Dfl, Inf}, last : Nat]

LEMMA SliceIsPositive ==
  /\ Dfl \in Nat /\ Inf \in Nat /\ Dfl > 0 /\ Inf > 0
  /\ \A x \in Contexts : x # NoCtx
BY DEF Inf, Contexts, NoCtx

\* The task that holds a CPU is one that runs on it.
LEMMA CurrentRuns ==
  ASSUME NEW c \in Cpus, Current(c) # NoTask
  PROVE  Current(c) \in Tasks /\ where[Current(c)] = "run" /\ at[Current(c)] = c
BY DEF Current

\* A task is inserted at a place of the queue, or at its end.
LEMMA AheadIsPlace ==
  ASSUME NEW n \in Nat, Len(queue) = n, DOMAIN queue = 1..n, NEW v
  PROVE  Ahead(v) \in 0..n
<1> DEFINE A == {i \in DOMAIN queue : dsq_vtime[queue[i]] <= v}
<1>1. A \in SUBSET (1..n) /\ Ahead(v) = Cardinality(A)
  BY DEF Ahead
<1> HIDE DEF A
<1>2. IsFiniteSet(1..n) /\ Cardinality(1..n) = n
  BY FS_Interval
<1>3. IsFiniteSet(A) /\ Cardinality(A) <= n
  BY <1>1, <1>2, FS_Subset
<1>4. Cardinality(A) \in Nat
  BY <1>3, FS_CardinalityType
<1> QED
  BY <1>1, <1>3, <1>4

\* The locals of an ops.dispatch call keep their type when one is assigned.
Regs == [p : Tasks \cup {NoTask}, vtime : Nat, old : Nat]

\* A value of the range keeps a function in its set.
LEMMA Assigned ==
  ASSUME NEW S, NEW T, NEW f \in [S -> T], NEW x \in S, NEW v \in T
  PROVE  [f EXCEPT ![x] = v] \in [S -> T]
OBVIOUS

LEMMA TaskAssigned ==
  ASSUME NEW R \in [Cpus -> Regs], NEW c \in Cpus, NEW t \in Tasks
  PROVE  [R EXCEPT ![c].p = t] \in [Cpus -> Regs]
<1>1. R[c] \in Regs
  OBVIOUS
<1>2. [R[c] EXCEPT !.p = t] \in Regs
  BY <1>1 DEF Regs
<1>3. [R EXCEPT ![c].p = t] = [R EXCEPT ![c] = [R[c] EXCEPT !.p = t]]
  BY <1>1 DEF Regs
<1> QED
  BY <1>2, <1>3

LEMMA TimesAssigned ==
  ASSUME NEW R \in [Cpus -> Regs], NEW c \in Cpus, NEW v \in Nat
  PROVE  /\ [R EXCEPT ![c].vtime = v] \in [Cpus -> Regs]
         /\ [R EXCEPT ![c].old = v] \in [Cpus -> Regs]
<1>1. R[c] \in Regs
  OBVIOUS
<1>2. [R[c] EXCEPT !.vtime = v] \in Regs /\ [R[c] EXCEPT !.old = v] \in Regs
  BY <1>1 DEF Regs
<1>3. /\ [R EXCEPT ![c].vtime = v] = [R EXCEPT ![c] = [R[c] EXCEPT !.vtime = v]]
      /\ [R EXCEPT ![c].old = v] = [R EXCEPT ![c] = [R[c] EXCEPT !.old = v]]
  BY <1>1 DEF Regs
<1> QED
  BY <1>2, <1>3

\* A context holds numbers, used or not.
LEMMA SlicesAreNumbers ==
  ASSUME BpfTypeOK, NEW t \in Tasks
  PROVE  ctx[t].slice \in Nat /\ ctx[t].last \in Nat
<1>1. ctx[t] \in Contexts \/ ctx[t] = NoCtx
  BY DEF BpfTypeOK, Contexts
<1>2. CASE ctx[t] \in Contexts
  BY <1>2, SliceIsPositive DEF Contexts
<1>3. CASE ctx[t] = NoCtx
  BY <1>3 DEF NoCtx
<1> QED
  BY <1>1, <1>2, <1>3

LEMMA InitTypeInv == Init => TypeInv
<1> SUFFICES ASSUME Init PROVE TypeInv
  OBVIOUS
<1>1. TypeOK
  <2>1. BpfTypeOK
    BY EmptySeq, SliceIsPositive DEF Init, BpfInit, BpfTypeOK, NoReg, Places, Modes
  <2>2. LoaderTypeOK
    <3>1. told \in BOOLEAN /\ exit_req \in {0, 1}
      BY Zenon DEF Init, LoaderInit
    <3> QED
      BY <3>1, LoaderAssumption DEF Init, LoaderInit, LoaderTypeOK
  <2> QED
    BY <2>1, <2>2 DEF TypeOK
<1>2. Detached /\ LoaderPlaces /\ RegsHeld /\ Accounts
  BY DEF Init, BpfInit, LoaderInit, Detached, LoaderPlaces, RegsHeld, Accounts
<1>3. QueueOrdered
  BY DEF Init, BpfInit, QueueOrdered
<1> QED
  BY <1>1, <1>2, <1>3 DEF TypeInv

LEMMA TaskStepTypeOK ==
  ASSUME TypeInv, NEW t \in Tasks, TaskTurn(t)
  PROVE  TypeOK'
<1>0. BpfTypeOK
  BY DEF TypeInv, TypeOK
<1>13. LoaderTypeOK'
  BY DEF TypeInv, TaskTurn, Entered, TypeOK, LoaderTypeOK, loaderVars
<1> USE <1>13, SliceIsPositive
    DEF TypeOK, BpfTypeOK, clockVars, cpuVars, taskVars,
        Places, Modes, Contexts
<1>1. CASE Enable(t)
  <2>1. ctx' \in [Tasks -> Contexts \cup {NoCtx}]
    <3>1. ctx \in [Tasks -> Contexts \cup {NoCtx}] /\ sum[t] \in 0..MaxRun
      BY <1>0
    <3>2. sum[t] \in Nat /\ get_task_slice(t) \in {Dfl, Inf}
      BY <3>1 DEF get_task_slice
    <3>3. create_task_ctx(t) \in Contexts \cup {NoCtx}
      BY <3>1, <3>2 DEF create_task_ctx
    <3>4. ctx' = [ctx EXCEPT ![t] = create_task_ctx(t)]
      BY <1>1 DEF Enable
    <3> QED
      BY <3>1, <3>3, <3>4, Assigned, Zenon
  <2>2. left' \in [Tasks -> Nat]
    BY <1>0, <1>1 DEF Enable, get_task_slice
  <2>3. enters' \in [Tasks -> Nat] /\ \A u \in Tasks : enters'[u] <= MaxEnters[u]
    <3>1. /\ enters' = [enters EXCEPT ![t] = enters[t] + 1] /\ enters[t] \in Nat
          /\ enters[t] < MaxEnters[t]
      BY <1>0, <1>1 DEF Enable
    <3>2. enters[t] + 1 \in Nat /\ enters[t] + 1 <= MaxEnters[t]
      <4>1. MaxEnters[t] \in Nat
        BY BpfAssumption
      <4> QED
        BY <3>1, <4>1
    <3>3. enters \in [Tasks -> Nat] /\ \A u \in Tasks : enters[u] <= MaxEnters[u]
      BY <1>0
    <3>4. enters' \in [Tasks -> Nat]
      BY <3>1, <3>2, <3>3, Assigned, Zenon
    <3> QED
      BY <3>1, <3>2, <3>3, <3>4, Zenon
  <2>4. where' \in [Tasks -> Places]
    <3>1. \/ where' = [where EXCEPT ![t] = "sleep"]
          \/ where' = [where EXCEPT ![t] = "run"]
      BY <1>0, <1>1 DEF Enable
    <3> QED
      BY <1>0, <3>1
  <2>5. /\ at' \in [Tasks -> Cpus] /\ mode' \in [Cpus -> Modes]
        /\ idle' \in SUBSET Cpus /\ kicked' \in SUBSET Cpus
    <3>1. CASE UNCHANGED <<at, cpuVars>>
      BY <1>0, <3>1
    <3>2. ASSUME NEW c \in Allowed[t],
                 at' = [at EXCEPT ![t] = c], mode' = [mode EXCEPT ![c] = "run"],
                 idle' = idle \ {c}, kicked' = kicked \ {c}
          PROVE  /\ at' \in [Tasks -> Cpus] /\ mode' \in [Cpus -> Modes]
                 /\ idle' \in SUBSET Cpus /\ kicked' \in SUBSET Cpus
      <4>1. c \in Cpus
        BY <1>0
      <4> QED
        BY <1>0, <3>2, <4>1
    <3> QED
      BY <1>0, <1>1, <3>1, <3>2 DEF Enable
  <2>6. UNCHANGED <<reg, newer, tokick>>
    BY <1>0, <1>1 DEF Enable
  <2>7. dsq_vtime' = [dsq_vtime EXCEPT ![t] = global_vtime]
    BY <1>0, <1>1 DEF Enable
  <2>8. dsq_vtime' \in [Tasks -> Nat]
    BY <1>0, <2>7
  <2> QED
    BY <1>0, <1>1, <2>1, <2>2, <2>3, <2>4, <2>5, <2>6, <2>8 DEF Enable
<1>2. CASE RunOutside(t)
  <2>1. sum' \in [Tasks -> 0..MaxRun]
    <3>1. /\ sum' = [sum EXCEPT ![t] = sum[t] + 1] /\ sum \in [Tasks -> 0..MaxRun]
          /\ sum[t] \in 0..MaxRun /\ sum[t] < MaxRun
      BY <1>0, <1>2 DEF RunOutside
    <3>2. sum[t] + 1 \in 0..MaxRun
      BY <3>1, BpfAssumption
    <3> QED
      BY <3>1, <3>2, Assigned, Zenon
  <2>2. outside' \in [Tasks -> Nat]
    <3>1. outside' = [outside EXCEPT ![t] = outside[t] + 1] /\ outside \in [Tasks -> Nat]
      BY <1>0, <1>2 DEF RunOutside
    <3>2. outside[t] + 1 \in Nat
      BY <1>0
    <3> QED
      BY <3>1, <3>2, Assigned, Zenon
  <2> QED
    BY <1>0, <1>2, <2>1, <2>2 DEF RunOutside
<1>3. CASE SelectBusyCpu(t)
  BY <1>0, <1>3 DEF SelectBusyCpu
<1>4. ASSUME NEW c \in Cpus, SelectIdleCpu(t, c)
      PROVE  TypeOK'
  <2>1. left' \in [Tasks -> Nat]
    <3>1. ctx[t].slice \in Nat
      BY <1>0, SlicesAreNumbers
    <3> QED
      BY <1>0, <1>4, <3>1 DEF SelectIdleCpu
  <2>2. where' \in [Tasks -> Places] /\ at' \in [Tasks -> Cpus]
    BY <1>0, <1>4 DEF SelectIdleCpu
  <2>3. idle' \in SUBSET Cpus /\ kicked' \in SUBSET Cpus
    BY <1>0, <1>4 DEF SelectIdleCpu, KickIdle
  <2> QED
    BY <1>0, <1>4, <2>1, <2>2, <2>3 DEF SelectIdleCpu
<1>5. CASE Tick(t)
  <2>1. sum' \in [Tasks -> 0..MaxRun]
    <3>1. /\ sum' = [sum EXCEPT ![t] = sum[t] + 1] /\ sum \in [Tasks -> 0..MaxRun]
          /\ sum[t] \in 0..MaxRun /\ sum[t] < MaxRun
      BY <1>0, <1>5 DEF Tick
    <3>2. sum[t] + 1 \in 0..MaxRun
      BY <3>1, BpfAssumption
    <3> QED
      BY <3>1, <3>2, Assigned, Zenon
  <2>2. ran' \in [Tasks -> Nat]
    <3>1. ran' = [ran EXCEPT ![t] = ran[t] + 1] /\ ran \in [Tasks -> Nat]
      BY <1>0, <1>5 DEF Tick
    <3>2. ran[t] + 1 \in Nat
      BY <1>0
    <3> QED
      BY <3>1, <3>2, Assigned, Zenon
  <2>3. left' \in [Tasks -> Nat]
    <3>1. /\ left' = [left EXCEPT ![t] = IF left[t] = Inf THEN Inf ELSE left[t] - 1]
          /\ left \in [Tasks -> Nat] /\ left[t] \in Nat /\ left[t] > 0
      BY <1>0, <1>5 DEF Tick
    <3>2. (IF left[t] = Inf THEN Inf ELSE left[t] - 1) \in Nat
      BY <1>0, <3>1
    <3> QED
      BY <3>1, <3>2, Assigned, Zenon
  <2> QED
    BY <1>0, <1>5, <2>1, <2>2, <2>3 DEF Tick
<1>6. ASSUME NEW place \in {"sleep", "out"}, StopRunning(t, place)
      PROVE  TypeOK'
  <2>1. ctx[t] \in Contexts /\ sum[t] >= ctx[t].last
    <3>1. where[t] # "out" /\ scx = "on"
      BY <1>0, <1>6 DEF StopRunning, TypeInv, Detached
    <3>2. ctx[t] # NoCtx
      BY <1>0, <3>1 DEF TypeInv, Accounts
    <3>3. sum[t] = ctx[t].last + ran[t] + outside[t]
      BY <1>0, <3>1, <3>2 DEF TypeInv, Accounts
    <3>4. ctx[t] \in Contexts /\ ran[t] \in Nat /\ outside[t] \in Nat
      BY <1>0, <3>2
    <3>5. ctx[t].last \in Nat
      BY <3>4
    <3> QED
      BY <3>3, <3>4, <3>5
  <2>2. Delta(t) \in Nat /\ ChargedMark(t) \in Nat
    BY <1>0, <2>1 DEF Delta, ChargedMark
  <2>3. ctx' \in [Tasks -> Contexts \cup {NoCtx}]
    BY <1>0, <1>6, <2>1, <2>2 DEF StopRunning, Stopping
  <2>4. dsq_vtime' \in [Tasks -> Nat]
    <3>1. dsq_vtime' = [dsq_vtime EXCEPT ![t] = dsq_vtime[t] + Delta(t)]
      BY <1>0, <1>6 DEF StopRunning, Stopping
    <3>2. dsq_vtime[t] \in Nat /\ dsq_vtime \in [Tasks -> Nat]
      BY <1>0
    <3>3. dsq_vtime[t] + Delta(t) \in Nat
      BY <2>2, <3>2
    <3> QED
      BY <3>1, <3>2, <3>3, Assigned, Zenon
  <2> QED
    BY <1>0, <1>6, <2>3, <2>4 DEF StopRunning, Stopping
<1>7. CASE ReadLimit(t)
  BY <1>0, <1>7 DEF ReadLimit
<1>8. CASE Insert(t)
  <2>1. queue' \in Seq(Tasks)
    <3>1. Len(queue) \in Nat /\ DOMAIN queue = 1..Len(queue)
      BY <1>0
    <3>2. Ahead(Clamp(t)) + 1 \in 1..Len(queue) + 1
      <4>1. Ahead(Clamp(t)) \in 0..Len(queue)
        BY <3>1, AheadIsPlace
      <4> QED
        BY ONLY <3>1, <4>1
    <3>3. queue \in Seq(Tasks)
      BY <1>0
    <3>4. InsertAt(queue, Ahead(Clamp(t)) + 1, t) \in Seq(Tasks)
      BY <1>0, <3>1, <3>2, <3>3, InsertElement
    <3> QED
      BY <1>0, <1>8, <3>4 DEF Insert
  <2>2. dsq_vtime' \in [Tasks -> Nat]
    <3>1. Clamp(t) \in Nat
      BY <1>0 DEF Clamp
    <3> QED
      BY <1>0, <1>8, <3>1 DEF Insert
  <2>3. left' \in [Tasks -> Nat]
    <3>1. ctx[t].slice \in Nat
      BY <1>0, SlicesAreNumbers
    <3> QED
      BY <1>0, <1>8, <3>1 DEF Insert
  <2>4. newer' \in [Cpus -> SUBSET Tasks]
    BY <1>0, <1>8 DEF Insert
  <2> QED
    BY <1>0, <1>8, <2>1, <2>2, <2>3, <2>4 DEF Insert
<1>9. CASE DoubleTap(t)
  <2>1. kicked' \in SUBSET Cpus
    BY <1>0, <1>9 DEF DoubleTap, SecondTap, KickIdle
  <2>2. tokick' \in SUBSET Tasks
    BY <1>0, <1>9 DEF DoubleTap
  <2> QED
    BY <1>0, <1>9, <2>1, <2>2 DEF DoubleTap
<1>10. ASSUME NEW c \in Cpus, WakeIdleCpu(t, c)
       PROVE  TypeOK'
  BY <1>0, <1>10 DEF WakeIdleCpu, KickIdle
<1> QED
  BY <1>0, <1>1, <1>2, <1>3, <1>4, <1>5, <1>6, <1>7, <1>8, <1>9, <1>10
  DEF TaskTurn, AnyTaskStep, TaskStep, RunStep, EnqueueStep, Block, Leave

LEMMA CpuStepTypeOK ==
  ASSUME TypeInv, NEW c \in Cpus, CpuStep(c), UNCHANGED loaderVars
  PROVE  TypeOK'
<1>0. BpfTypeOK
  BY DEF TypeInv, TypeOK
<1>13. LoaderTypeOK'
  BY DEF TypeInv, TypeOK, LoaderTypeOK, loaderVars
<1> USE <1>13, SliceIsPositive
    DEF TypeOK, BpfTypeOK, clockVars, cpuVars, taskVars,
        Places, Modes, Contexts
<1>1. CASE Expire(c)
  BY <1>0, <1>1 DEF Expire, SetMode
<1>2. CASE WakeUp(c)
  BY <1>0, <1>2 DEF WakeUp, SetMode
<1>3. CASE Balance(c)
  BY <1>0, <1>3 DEF Balance, SetMode
<1>4. CASE Iterate(c)
  <2>1. CASE UNCHANGED reg /\ newer' = [newer EXCEPT ![c] = {}]
             /\ SetMode(c, "pick")
    BY <1>0, <1>4, <2>1 DEF Iterate, SetMode
  <2>2. ASSUME NEW t \in Tasks, SetMode(c, "vtime"),
               reg' = [reg EXCEPT ![c].p = t], UNCHANGED newer
        PROVE  TypeOK'
    <3>1. reg' \in [Cpus -> Regs]
      <4>1. reg \in [Cpus -> Regs]
        BY <1>0 DEF Regs
      <4>2. [reg EXCEPT ![c].p = t] \in [Cpus -> Regs]
        BY <4>1, TaskAssigned, Zenon
      <4> QED
        BY <1>0, <2>2, <4>2
    <3>2. newer' \in [Cpus -> SUBSET Tasks]
      BY <1>0, <2>2
    <3>3. mode' \in [Cpus -> Modes]
      BY <1>0, <2>2 DEF SetMode
    <3> QED
      BY <1>0, <1>4, <3>1, <3>2, <3>3 DEF Iterate, Regs
  <2>3. \A i \in DOMAIN queue : queue[i] \in Tasks
    BY <1>0
  <2> QED
    BY <1>0, <1>4, <2>1, <2>2, <2>3 DEF Iterate, Visible
<1>5. CASE ReadVtime(c)
  <2>1. reg[c].p \in Tasks
    BY <1>0, <1>5 DEF ReadVtime, TypeInv, RegsHeld
  <2>2. reg' \in [Cpus -> Regs]
    <3>1. reg \in [Cpus -> Regs] /\ dsq_vtime[reg[c].p] \in Nat
      BY <1>0, <2>1 DEF Regs
    <3>2. [reg EXCEPT ![c].vtime = dsq_vtime[reg[c].p]] \in [Cpus -> Regs]
      BY <3>1, TimesAssigned, Zenon
    <3> QED
      BY <1>0, <1>5, <3>2 DEF ReadVtime
  <2> QED
    BY <1>0, <1>5, <2>2 DEF ReadVtime, SetMode, Regs
<1>12. CASE ReadGlobal(c)
  <2>1. reg' \in [Cpus -> Regs]
    <3>1. reg \in [Cpus -> Regs] /\ global_vtime \in Nat
      BY <1>0 DEF Regs
    <3>2. [reg EXCEPT ![c].old = global_vtime] \in [Cpus -> Regs]
      BY <3>1, TimesAssigned, Zenon
    <3> QED
      BY <1>0, <1>12, <3>2 DEF ReadGlobal
  <2> QED
    BY <1>0, <1>12, <2>1 DEF ReadGlobal, SetMode, Regs
<1>6. CASE RaiseGlobal(c)
  BY <1>0, <1>6 DEF RaiseGlobal, SetMode, Raised
<1>7. CASE Move(c)
  <2>1. reg' \in [Cpus -> Regs]
    <3>1. reg \in [Cpus -> Regs] 
      BY <1>0 DEF Regs
    <3>2. reg' = [reg EXCEPT ![c] = NoReg]
      BY <1>0, <1>7 DEF Move
    <3> QED
      BY <1>0, <3>1, <3>2 DEF Regs, NoReg
  <2>2. mode' \in [Cpus -> Modes]
    <3>1. SetMode(c, "pick") \/ SetMode(c, "iterate")
      BY <1>0, <1>7 DEF Move
    <3> QED
      BY <1>0, <3>1 DEF SetMode
  <2>3. /\ where' \in [Tasks -> Places] /\ at' \in [Tasks -> Cpus]
        /\ queue' \in Seq(Tasks) /\ newer' \in [Cpus -> SUBSET Tasks]
    <3>1. ASSUME NEW i \in DOMAIN queue, NEW t, t = reg[c].p,
                 where' = [where EXCEPT ![t] = "local"],
                 at' = [at EXCEPT ![t] = c], queue' = RemoveAt(queue, i),
                 newer' = [newer EXCEPT ![c] = {}]
          PROVE  /\ where' \in [Tasks -> Places] /\ at' \in [Tasks -> Cpus]
                 /\ queue' \in Seq(Tasks) /\ newer' \in [Cpus -> SUBSET Tasks]
      <4>1. Len(queue) \in Nat /\ DOMAIN queue = 1..Len(queue)
        BY <1>0
      <4>2. queue \in Seq(Tasks)
        BY <1>0
      <4>3. RemoveAt(queue, i) \in Seq(Tasks)
        BY <1>0, <4>1, <4>2, RemoveElement
      <4> QED
        BY <1>0, <3>1, <4>3
    <3>2. CASE UNCHANGED <<where, at, queue, newer>>
      BY <1>0, <3>2
    <3> QED
      BY <1>0, <1>7, <3>1, <3>2 DEF Move
  <2> QED
    BY <1>0, <1>7, <2>1, <2>2, <2>3 DEF Move, Regs
<1>8. CASE PutPrev(c)
  <2> DEFINE t == Current(c)
  <2>1. t \in Tasks /\ where[t] = "run"
    BY <1>0, <1>8, CurrentRuns DEF PutPrev
  <2> HIDE DEF t
  <2>2. /\ Stopping(t) /\ where' = [where EXCEPT ![t] = "enqueue"]
        /\ reg' = [reg EXCEPT ![c].p = t]
    BY <1>0, <1>8 DEF PutPrev, t
  <2>3. scx = "on" /\ ctx[t] # NoCtx
    BY <1>0, <2>1 DEF TypeInv, Detached, Accounts
  <2>4. ctx[t] \in Contexts /\ sum[t] = ctx[t].last + ran[t] + outside[t]
    BY <1>0, <2>1, <2>3 DEF TypeInv, Accounts
  <2>5. Delta(t) \in Nat /\ ChargedMark(t) \in Nat
    <3>1. /\ sum[t] = ctx[t].last + ran[t] + outside[t] /\ ctx[t].last \in Nat
          /\ ran[t] \in Nat /\ outside[t] \in Nat
      BY <1>0, <2>1, <2>4
    <3> QED
      BY <3>1 DEF Delta, ChargedMark
  <2>6. ctx' \in [Tasks -> Contexts \cup {NoCtx}]
    BY <1>0, <2>1, <2>2, <2>4, <2>5 DEF Stopping
  <2>7. dsq_vtime' \in [Tasks -> Nat]
    <3>1. dsq_vtime' = [dsq_vtime EXCEPT ![t] = dsq_vtime[t] + Delta(t)]
      BY <1>0, <2>2 DEF Stopping
    <3>2. dsq_vtime[t] + Delta(t) \in Nat
      <4>1. dsq_vtime[t] \in Nat
        BY <1>0, <2>1
      <4> QED
        BY <2>5, <4>1
    <3>3. dsq_vtime \in [Tasks -> Nat]
      BY <1>0
    <3> QED
      BY <2>1, <3>1, <3>2, <3>3, Assigned, Zenon
  <2>8. ran' \in [Tasks -> Nat] /\ outside' \in [Tasks -> Nat]
    BY <1>0, <2>1, <2>2 DEF Stopping
  <2>9. where' \in [Tasks -> Places]
    BY <1>0, <2>1, <2>2
  <2>10. reg' \in [Cpus -> Regs]
    <3>1. reg \in [Cpus -> Regs]
      BY <1>0 DEF Regs
    <3>2. [reg EXCEPT ![c].p = t] \in [Cpus -> Regs]
      BY <2>1, <3>1, TaskAssigned, Zenon
    <3> QED
      BY <1>0, <2>2, <3>2
  <2>11. mode' \in [Cpus -> Modes]
    BY <1>0, <1>8 DEF PutPrev, SetMode
  <2> QED
    BY <1>0, <1>8, <2>6, <2>7, <2>8, <2>9, <2>10, <2>11 DEF PutPrev, Regs
<1>9. CASE PutDone(c)
  <2>1. reg' \in [Cpus -> Regs]
    <3>1. reg \in [Cpus -> Regs] 
      BY <1>0 DEF Regs
    <3>2. reg' = [reg EXCEPT ![c] = NoReg]
      BY <1>0, <1>9 DEF PutDone
    <3> QED
      BY <1>0, <3>1, <3>2 DEF Regs, NoReg
  <2> QED
    BY <1>0, <1>9, <2>1 DEF PutDone, SetMode, Regs
<1>10. ASSUME NEW t \in Tasks, PickLocal(c, t)
       PROVE  TypeOK'
  BY <1>0, <1>10 DEF PickLocal, SetMode
<1>11. CASE PickIdle(c)
  BY <1>0, <1>11 DEF PickIdle, SetMode
<1> QED
  BY <1>0, <1>1, <1>2, <1>3, <1>4, <1>5, <1>6, <1>7, <1>8, <1>9, <1>10, <1>11, <1>12
  DEF CpuStep

LEMMA LoaderStepTypeOK ==
  ASSUME TypeInv, LoaderMoves
  PROVE  TypeOK'
<1>0. TypeOK
  BY DEF TypeInv
<1> USE SliceIsPositive
    DEF TypeOK, BpfTypeOK, LoaderTypeOK, clockVars, cpuVars, taskVars, bpfVars,
        Places, Modes, Contexts
<1>1. ASSUME Detach
      PROVE  BpfTypeOK'
  <2>1. queue' \in Seq(Tasks)
    BY <1>0, <1>1, EmptySeq DEF Detach
  <2>2. reg' \in [Cpus -> [p : Tasks \cup {NoTask}, vtime : Nat, old : Nat]]
    BY <1>0, <1>1 DEF Detach, NoReg
  <2> QED
    BY <1>0, <1>1, <2>1, <2>2 DEF Detach
<1>2. ASSUME UNCHANGED bpfVars
      PROVE  BpfTypeOK'
  BY <1>0, <1>2
<1>3. CASE Bootstrap
  BY <1>0, <1>3 DEF Bootstrap, Attach
<1>4. CASE LoopEnds
  BY <1>0, <1>2, <1>4 DEF LoopEnds
<1>5. CASE Cleanup
  <2>1. BpfTypeOK'
    BY <1>0, <1>1, <1>2, <1>5 DEF Cleanup, DestroyLink
  <2> QED
    BY <1>0, <1>5, <2>1 DEF Cleanup, DestroyLink
<1>6. CASE Report
  BY <1>0, <1>2, <1>6 DEF Report
<1>7. CASE Signal
  BY <1>0, <1>2, <1>7 DEF Signal
<1>8. CASE Eject
  <2>1. ejects' \in 0..MaxEjects
    BY <1>0, <1>8, LoaderAssumption DEF Eject
  <2> QED
    BY <1>0, <1>1, <1>8, <2>1 DEF Eject
<1>9. CASE Stalled
  BY <1>0, <1>1, <1>9 DEF Stalled
<1>10. CASE Entered /\ UNCHANGED bpfVars
  BY <1>0, <1>2, <1>10 DEF Entered
<1>11. CASE UNCHANGED vars
  BY <1>0, <1>2, <1>11 DEF vars, loaderVars
<1> QED
  BY <1>3, <1>4, <1>5, <1>6, <1>7, <1>8, <1>9, <1>10, <1>11 DEF LoaderMoves

\* Tasks and CPUs take steps under a scheduler, which stays attached.
LEMMA TasksAreAttached ==
  ASSUME TypeInv, NEW t \in Tasks, AnyTaskStep(t)
  PROVE  scx = "on" /\ scx' = "on"
<1>1. (scx = "on" \/ scx = "off") /\ Detached
  BY DEF TypeInv, TypeOK, BpfTypeOK
<1>2. TaskStep(t) => scx = "on" /\ scx' = scx
  BY DEF TaskStep, Enable, RunOutside, SelectBusyCpu, SelectIdleCpu
<1>3. RunStep(t) \/ StopRunning(t, "sleep") => where[t] = "run" /\ scx' = scx
  BY DEF RunStep, Tick, Block, Leave, StopRunning
<1>4. EnqueueStep(t) => scx = "on" /\ scx' = scx
  BY DEF EnqueueStep, ReadLimit, Insert, DoubleTap, WakeIdleCpu
<1> QED
  BY <1>1, <1>2, <1>3, <1>4 DEF Detached, AnyTaskStep

LEMMA CpusAreAttached ==
  ASSUME TypeInv, NEW c \in Cpus, CpuStep(c)
  PROVE  scx = "on" /\ scx' = "on"
<1>1. (scx = "on" \/ scx = "off") /\ Detached
  BY DEF TypeInv, TypeOK, BpfTypeOK
<1>2. mode[c] # "idle" \/ c \in kicked
  BY DEF CpuStep, Expire, WakeUp, Balance, Iterate, ReadVtime, ReadGlobal, RaiseGlobal,
         Move, PutPrev, PutDone, PickLocal, PickIdle
<1>3. scx' = scx
  BY DEF CpuStep, Expire, WakeUp, Balance, Iterate, ReadVtime, ReadGlobal, RaiseGlobal,
         Move, PutPrev, PutDone, PickLocal, PickIdle
<1> QED
  BY <1>1, <1>2, <1>3 DEF Detached

\* ops.stopping settles the account of the task it is called for.
LEMMA ChargedOnce ==
  ASSUME TypeInv, scx = "on", NEW t \in Tasks, where[t] = "run", Stopping(t)
  PROVE  /\ ctx'[t] # NoCtx /\ ctx'[t].last = sum[t]
         /\ ran'[t] = 0 /\ outside'[t] = 0
         /\ dsq_vtime'[t] = dsq_vtime[t] + ran[t] + outside[t]
         /\ \A u \in Tasks : u # t => /\ ctx'[u] = ctx[u] /\ ran'[u] = ran[u]
                                      /\ outside'[u] = outside[u]
                                      /\ dsq_vtime'[u] = dsq_vtime[u]
<1>1. /\ ran \in [Tasks -> Nat] /\ outside \in [Tasks -> Nat]
      /\ sum \in [Tasks -> 0..MaxRun] /\ dsq_vtime \in [Tasks -> Nat]
      /\ ctx \in [Tasks -> Contexts \cup {NoCtx}]
  BY DEF TypeInv, TypeOK, BpfTypeOK, Contexts
<1>2. ctx[t] # NoCtx
  BY DEF TypeInv, Accounts
<1>3. ctx[t] \in Contexts /\ sum[t] = ctx[t].last + ran[t] + outside[t]
  BY <1>1, <1>2 DEF TypeInv, Accounts
<1>4. /\ ctx'[t] = [slice |-> ctx[t].slice, last |-> sum[t]]
      /\ \A u \in Tasks : u # t => ctx'[u] = ctx[u]
  BY <1>1 DEF Stopping, ChargedMark
<1>5. ctx'[t] \in Contexts
  BY <1>1, <1>3, <1>4, SliceIsPositive DEF Contexts
<1>6. /\ dsq_vtime'[t] = dsq_vtime[t] + Delta(t)
      /\ \A u \in Tasks : u # t => dsq_vtime'[u] = dsq_vtime[u]
  BY <1>1 DEF Stopping
<1>7. Delta(t) = ran[t] + outside[t]
  BY <1>1, <1>3 DEF Delta, Contexts
<1>8. /\ ran'[t] = 0 /\ outside'[t] = 0
      /\ \A u \in Tasks : u # t => ran'[u] = ran[u] /\ outside'[u] = outside[u]
  BY <1>1 DEF Stopping
<1>9. dsq_vtime'[t] = dsq_vtime[t] + ran[t] + outside[t]
  BY <1>1, <1>6, <1>7
<1> QED
  BY <1>4, <1>5, <1>6, <1>8, <1>9, SliceIsPositive

LEMMA TaskStepAccounts ==
  ASSUME TypeInv, NEW t \in Tasks, AnyTaskStep(t)
  PROVE  Accounts'
<1>1. /\ where \in [Tasks -> Places] /\ ran \in [Tasks -> Nat]
      /\ outside \in [Tasks -> Nat] /\ sum \in [Tasks -> 0..MaxRun]
      /\ ctx \in [Tasks -> Contexts \cup {NoCtx}]
  BY DEF TypeInv, TypeOK, BpfTypeOK, Contexts
<1>2. scx = "on" /\ scx' = "on"
  BY TasksAreAttached
<1> SUFFICES ASSUME NEW u \in Tasks
             PROVE  /\ where'[u] # "run" => ran'[u] = 0
                    /\ ctx'[u] = NoCtx =>
                         where'[u] = "out" /\ ran'[u] = 0 /\ outside'[u] = 0
                    /\ ctx'[u] # NoCtx =>
                         sum'[u] = ctx'[u].last + ran'[u] + outside'[u]
  BY <1>2 DEF Accounts
<1>3. ASSUME NEW v \in Tasks
      PROVE  /\ where[v] # "run" => ran[v] = 0
             /\ ctx[v] = NoCtx => where[v] = "out" /\ ran[v] = 0 /\ outside[v] = 0
             /\ ctx[v] # NoCtx => sum[v] = ctx[v].last + ran[v] + outside[v]
  BY <1>2 DEF TypeInv, Accounts
<1>4. CASE Enable(t)
  <2>1. where'[t] \in {"sleep", "run"} /\ \A v \in Tasks : v # t => where'[v] = where[v]
    BY <1>1, <1>4 DEF Enable
  <2>2. ctx'[t] = create_task_ctx(t) /\ \A v \in Tasks : v # t => ctx'[v] = ctx[v]
    BY <1>1, <1>4 DEF Enable
  <2>3. /\ ctx'[t] # NoCtx
        /\ ctx[t] # NoCtx => ctx'[t] = ctx[t]
        /\ ctx[t] = NoCtx => ctx'[t].last = sum[t]
    BY <2>2, SliceIsPositive DEF create_task_ctx, get_task_slice, NoCtx
  <2>4. UNCHANGED <<ran, outside, sum>> /\ where[t] = "out"
    BY <1>4 DEF Enable
  <2>5. sum[t] \in Nat
    BY <1>1, SliceIsPositive
  <2> QED
    BY <1>3, <2>1, <2>2, <2>3, <2>4, <2>5
<1>5. CASE RunOutside(t)
  BY <1>1, <1>3, <1>5 DEF RunOutside, Contexts
<1>6. CASE SelectBusyCpu(t)
  BY <1>1, <1>3, <1>6 DEF SelectBusyCpu
<1>7. CASE \E c \in Cpus : SelectIdleCpu(t, c)
  <2>1. where[t] = "sleep" /\ where' = [where EXCEPT ![t] = "local"]
    BY <1>7 DEF SelectIdleCpu
  <2>2. UNCHANGED <<ran, outside, sum, ctx>>
    BY <1>7 DEF SelectIdleCpu
  <2> QED
    BY <1>1, <1>3, <2>1, <2>2
<1>8. CASE Tick(t)
  <2>1. where[t] = "run" /\ ctx[t] \in Contexts
    BY <1>1, <1>3, <1>8 DEF Tick
  <2>2. /\ ran'[t] = ran[t] + 1 /\ sum'[t] = sum[t] + 1
        /\ \A v \in Tasks : v # t => ran'[v] = ran[v] /\ sum'[v] = sum[v]
    BY <1>1, <1>8 DEF Tick
  <2>3. UNCHANGED <<where, ctx, outside>>
    BY <1>8 DEF Tick
  <2>4. ctx[t].last \in Nat /\ ran[t] \in Nat /\ outside[t] \in Nat
    BY <1>1, <2>1 DEF Contexts
  <2> QED
    BY <1>3, <2>1, <2>2, <2>3, <2>4
<1>9. CASE \E place \in {"sleep", "out"} : StopRunning(t, place)
  <2>1. where[t] = "run" /\ \A v \in Tasks : v # t => where'[v] = where[v]
    BY <1>1, <1>9 DEF StopRunning
  <2>2. Stopping(t) /\ sum' = sum
    BY <1>9 DEF StopRunning
  <2> QED
    BY <1>1, <1>2, <1>3, <2>1, <2>2, ChargedOnce DEF Contexts
<1>10. CASE ReadLimit(t)
  BY <1>1, <1>3, <1>10 DEF ReadLimit
<1>11. CASE Insert(t)
  BY <1>1, <1>3, <1>11 DEF Insert
<1>12. CASE DoubleTap(t)
  BY <1>3, <1>12 DEF DoubleTap, taskVars
<1>13. CASE \E c \in Cpus : WakeIdleCpu(t, c)
  BY <1>3, <1>13 DEF WakeIdleCpu, taskVars
<1> QED
  BY <1>4, <1>5, <1>6, <1>7, <1>8, <1>9, <1>10, <1>11, <1>12, <1>13
  DEF AnyTaskStep, TaskStep, RunStep, EnqueueStep, Block, Leave

LEMMA CpuStepAccounts ==
  ASSUME TypeInv, NEW c \in Cpus, CpuStep(c)
  PROVE  Accounts'
<1>1. /\ where \in [Tasks -> Places] /\ ran \in [Tasks -> Nat]
      /\ outside \in [Tasks -> Nat] /\ sum \in [Tasks -> 0..MaxRun]
      /\ ctx \in [Tasks -> Contexts \cup {NoCtx}]
  BY DEF TypeInv, TypeOK, BpfTypeOK, Contexts
<1>2. scx = "on" /\ scx' = "on"
  BY CpusAreAttached
<1> SUFFICES ASSUME NEW u \in Tasks
             PROVE  /\ where'[u] # "run" => ran'[u] = 0
                    /\ ctx'[u] = NoCtx =>
                         where'[u] = "out" /\ ran'[u] = 0 /\ outside'[u] = 0
                    /\ ctx'[u] # NoCtx =>
                         sum'[u] = ctx'[u].last + ran'[u] + outside'[u]
  BY <1>2 DEF Accounts
<1>3. ASSUME NEW v \in Tasks
      PROVE  /\ where[v] # "run" => ran[v] = 0
             /\ ctx[v] = NoCtx => where[v] = "out" /\ ran[v] = 0 /\ outside[v] = 0
             /\ ctx[v] # NoCtx => sum[v] = ctx[v].last + ran[v] + outside[v]
  BY <1>2 DEF TypeInv, Accounts
<1>4. CASE UNCHANGED <<where, ran, outside, sum, ctx>>
  BY <1>3, <1>4
<1>5. CASE Move(c) /\ ~UNCHANGED where
  <2>1. PICK i \in DOMAIN queue :
          queue[i] = reg[c].p /\ where' = [where EXCEPT ![reg[c].p] = "local"]
    BY <1>5 DEF Move
  <2>2. reg[c].p \in Tasks
    BY <1>5 DEF Move, TypeInv, RegsHeld
  <2>3. where[reg[c].p] = "shared"
    BY <2>1, <2>2 DEF TypeInv, QueueOrdered
  <2>4. UNCHANGED <<ran, outside, sum, ctx>>
    BY <1>5 DEF Move
  <2> QED
    BY <1>1, <1>3, <2>1, <2>2, <2>3, <2>4
<1>6. CASE PutPrev(c)
  <2> DEFINE t == Current(c)
  <2>1. t \in Tasks /\ where[t] = "run"
    BY <1>6, CurrentRuns DEF PutPrev
  <2> HIDE DEF t
  <2>2. Stopping(t) /\ where' = [where EXCEPT ![t] = "enqueue"] /\ sum' = sum
    BY <1>6 DEF PutPrev, t
  <2>3. \A v \in Tasks : v # t => where'[v] = where[v]
    BY <1>1, <2>2
  <2> QED
    BY <1>1, <1>2, <1>3, <2>1, <2>2, <2>3, ChargedOnce DEF Contexts
<1>7. ASSUME NEW t \in Tasks, PickLocal(c, t)
      PROVE  /\ where'[u] # "run" => ran'[u] = 0
             /\ ctx'[u] = NoCtx =>
                  where'[u] = "out" /\ ran'[u] = 0 /\ outside'[u] = 0
             /\ ctx'[u] # NoCtx =>
                  sum'[u] = ctx'[u].last + ran'[u] + outside'[u]
  <2>1. where[t] = "local" /\ where' = [where EXCEPT ![t] = "run"]
    BY <1>7 DEF PickLocal, Local
  <2>2. UNCHANGED <<ran, outside, sum, ctx>>
    BY <1>7 DEF PickLocal
  <2> QED
    BY <1>1, <1>3, <2>1, <2>2
<1> QED
  BY <1>4, <1>5, <1>6, <1>7
  DEF CpuStep, Expire, WakeUp, Balance, Iterate, ReadVtime, ReadGlobal, RaiseGlobal, Move,
      PutDone, PickIdle, taskVars

-------------------------------------------------------------------------------
(* The order of the queue. *)

\* A step that leaves the waiting tasks alone leaves the queue in order.
LEMMA QueueUntouched ==
  ASSUME TypeInv, queue' = queue,
         \A t \in Tasks : where'[t] = "shared" <=> where[t] = "shared",
         \A t \in Tasks : where[t] = "shared" => dsq_vtime'[t] = dsq_vtime[t]
  PROVE  QueueOrdered'
<1>1. \A i \in DOMAIN queue : queue[i] \in Tasks
  BY DEF TypeInv, TypeOK, BpfTypeOK
<1>2. \A i \in DOMAIN queue : where[queue[i]] = "shared"
  BY <1>1 DEF TypeInv, QueueOrdered
<1>3. \A t \in Tasks : where'[t] = "shared" <=> \E i \in DOMAIN queue : queue[i] = t
  BY DEF TypeInv, QueueOrdered
<1>4. \A i, j \in DOMAIN queue :
        i < j => queue[i] # queue[j] /\ dsq_vtime'[queue[i]] <= dsq_vtime'[queue[j]]
  BY <1>1, <1>2 DEF TypeInv, QueueOrdered
<1> QED
  BY <1>3, <1>4 DEF QueueOrdered

\* serverless_enqueue: the task is put behind those that are not after it.
LEMMA InsertKeepsOrder ==
  ASSUME TypeInv, NEW t \in Tasks, Insert(t)
  PROVE  QueueOrdered'
<1> DEFINE n == Len(queue)
           v == Clamp(t)
           A == {i \in DOMAIN queue : dsq_vtime[queue[i]] <= v}
           k == Ahead(v)
<1>1. n \in Nat /\ DOMAIN queue = 1..n /\ queue \in Seq(Tasks)
  BY DEF TypeInv, TypeOK, BpfTypeOK
<1>2. dsq_vtime \in [Tasks -> Nat] /\ limit \in [Tasks -> Nat]
  BY DEF TypeInv, TypeOK, BpfTypeOK
<1>3. v \in Nat
  <2>1. limit[t] \in Nat /\ dsq_vtime[t] \in Nat
    BY <1>2
  <2> QED
    BY <2>1, SliceIsPositive DEF Clamp
<1>4. \A i \in 1..n : queue[i] \in Tasks /\ where[queue[i]] = "shared"
  <2>1. \A i \in 1..n : queue[i] \in Tasks
    BY <1>1
  <2>2. \A u \in Tasks : where[u] = "shared" <=> \E i \in 1..n : queue[i] = u
    BY <1>1 DEF TypeInv, QueueOrdered
  <2> QED
    BY ONLY <2>1, <2>2
<1>5. \A i, j \in 1..n :
        i < j => queue[i] # queue[j] /\ dsq_vtime[queue[i]] <= dsq_vtime[queue[j]]
  BY <1>1 DEF TypeInv, QueueOrdered
<1>6. A \in SUBSET (1..n) /\ \A i \in A, j \in 1..n : j < i => j \in A
  <2>1. \A i \in 1..n : dsq_vtime[queue[i]] \in Nat
    BY <1>2, <1>4
  <2>2. A = {i \in 1..n : dsq_vtime[queue[i]] <= v}
    BY <1>1
  <2> HIDE DEF A, v, n
  <2>3. \A i \in A, j \in 1..n : j < i => dsq_vtime[queue[j]] <= v
    BY <1>3, <1>5, <2>1, <2>2
  <2> QED
    BY <2>2, <2>3
<1>7. k = Cardinality(A)
  BY DEF Ahead
<1>8. k \in 0..n /\ A = 1..k
  <2> HIDE DEF A, k, n
  <2>1. Cardinality(A) \in 0..n /\ A = 1..Cardinality(A)
    BY <1>1, <1>6, FirstOnes, Zenon
  <2> QED
    BY <1>7, <2>1
<1>9. \A i \in 1..n : i <= k <=> dsq_vtime[queue[i]] <= v
  BY <1>1, <1>8
<1>10. /\ queue' = InsertAt(queue, k + 1, t) /\ where[t] = "clamp"
       /\ where' = [where EXCEPT ![t] = "shared"]
       /\ dsq_vtime' = [dsq_vtime EXCEPT ![t] = v]
  BY DEF Insert
<1> HIDE DEF v, A, k
<1>11. /\ queue' \in Seq(Tasks) /\ Len(queue') = n + 1
       /\ PutAt(queue', queue, n, k + 1, t)
  <2> HIDE DEF n
  <2>1. k + 1 \in 1..n + 1
    BY <1>1, <1>8
  <2>2. queue \in Seq(Tasks) /\ Len(queue) = n
    BY <1>1 DEF n
  <2>3. /\ InsertAt(queue, k + 1, t) \in Seq(Tasks)
        /\ Len(InsertAt(queue, k + 1, t)) = n + 1
        /\ PutAt(InsertAt(queue, k + 1, t), queue, n, k + 1, t)
    BY <1>1, <1>8, <2>2, <2>1, InsertElement
  <2> QED
    BY <1>10, <2>3, Zenon
<1> HIDE DEF n
<1>12. DOMAIN queue' = 1..n + 1
  BY <1>11
<1>13. \A i \in 1..n : queue[i] # t
  BY <1>4, <1>10
<1>14. /\ dsq_vtime'[t] = v /\ \A u \in Tasks : u # t => dsq_vtime'[u] = dsq_vtime[u]
       /\ where'[t] = "shared" /\ \A u \in Tasks : u # t => where'[u] = where[u]
  <2>1. where \in [Tasks -> Places]
    BY DEF TypeInv, TypeOK, BpfTypeOK
  <2> QED
    BY <1>2, <1>10, <2>1
<1>15. ASSUME NEW u \in Tasks
       PROVE  Occurs(u, queue', n + 1) <=> (u = t \/ Occurs(u, queue, n))
  <2>1. n \in Nat /\ k \in 0..n
    BY <1>1, <1>8
  <2>2. PutAt(queue', queue, n, k + 1, t)
    BY <1>11
  <2> QED
    BY ONLY <2>1, <2>2, InsertAddsOne
<1>16. ASSUME NEW u \in Tasks
       PROVE  where'[u] = "shared" <=> \E i \in DOMAIN queue' : queue'[i] = u
  <2>1. where[u] = "shared" <=> Occurs(u, queue, n)
    BY <1>1 DEF TypeInv, QueueOrdered, Occurs
  <2>2. where'[u] = "shared" <=> Occurs(u, queue', n + 1)
    BY <1>14, <1>15, <2>1
  <2> QED
    BY <1>12, <2>2 DEF Occurs
<1>17. \A i \in 1..n : queue[i] # t /\ dsq_vtime'[queue[i]] \in Nat
  BY <1>2, <1>4, <1>13, <1>14
<1>18. \A i, j \in 1..n :
         i < j => queue[i] # queue[j] /\ dsq_vtime'[queue[i]] <= dsq_vtime'[queue[j]]
  BY <1>4, <1>5, <1>13, <1>14
<1>19. dsq_vtime'[t] \in Nat
  BY <1>3, <1>14
<1>20. \A i \in 1..n : i <= k <=> dsq_vtime'[queue[i]] <= dsq_vtime'[t]
  BY <1>4, <1>9, <1>13, <1>14, Zenon
<1>21. \A i, j \in 1..n + 1 :
         i < j => queue'[i] # queue'[j] /\ dsq_vtime'[queue'[i]] <= dsq_vtime'[queue'[j]]
  <2>1. n \in Nat /\ k \in 0..n
    BY <1>1, <1>8
  <2>2. PutAt(queue', queue, n, k + 1, t)
    BY <1>11
  <2> QED
    BY ONLY <2>1, <2>2, <1>17, <1>18, <1>19, <1>20, InsertInOrder, SMTT(30)
<1> QED
  BY <1>12, <1>16, <1>21 DEF QueueOrdered

\* serverless_dispatch: the task that is moved leaves the others in order.
LEMMA MoveKeepsOrder ==
  ASSUME TypeInv, NEW c \in Cpus, NEW i \in DOMAIN queue,
         where' = [where EXCEPT ![queue[i]] = "local"],
         queue' = RemoveAt(queue, i), dsq_vtime' = dsq_vtime
  PROVE  QueueOrdered'
<1> DEFINE n == Len(queue)
<1>1. n \in Nat /\ DOMAIN queue = 1..n /\ queue \in Seq(Tasks) /\ Len(queue) = n
  BY DEF TypeInv, TypeOK, BpfTypeOK
<1> HIDE DEF n
<1>2. /\ RemoveAt(queue, i) \in Seq(Tasks) /\ Len(RemoveAt(queue, i)) = n - 1
      /\ TakenOut(RemoveAt(queue, i), queue, n, i)
  <2>1. n \in Nat /\ i \in 1..n /\ queue \in Seq(Tasks) /\ Len(queue) = n
    BY <1>1
  <2> QED
    BY ONLY <2>1, RemoveElement
<1>3. queue' \in Seq(Tasks) /\ Len(queue') = n - 1 /\ TakenOut(queue', queue, n, i)
  BY <1>2, Zenon
<1>4. DOMAIN queue' = 1..n - 1
  BY <1>3
<1>5. \A j, k \in 1..n :
        j < k => queue[j] # queue[k] /\ dsq_vtime'[queue[j]] <= dsq_vtime'[queue[k]]
  BY <1>1 DEF TypeInv, QueueOrdered
<1> SUFFICES ASSUME i \in 1..n
             PROVE  QueueOrdered'
  BY <1>1
<1>6. \A j, k \in 1..n - 1 :
        j < k => queue'[j] # queue'[k] /\ dsq_vtime'[queue'[j]] <= dsq_vtime'[queue'[k]]
  <2>1. n \in Nat /\ TakenOut(queue', queue, n, i)
    BY <1>1, <1>3
  <2> QED
    BY <1>5, <2>1, RemoveInOrder
<1>7. ASSUME NEW u \in Tasks
      PROVE  where'[u] = "shared" <=> \E j \in DOMAIN queue' : queue'[j] = u
  <2>1. where[u] = "shared" <=> Occurs(u, queue, n)
    <3>1. where[u] = "shared" <=> \E j \in DOMAIN queue : queue[j] = u
      BY DEF TypeInv, QueueOrdered
    <3> QED
      BY ONLY <1>1, <3>1 DEF Occurs
  <2>2. queue[i] \in Tasks /\ where \in [Tasks -> Places]
    <3>1. where \in [Tasks -> Places]
      BY DEF TypeInv, TypeOK, BpfTypeOK
    <3>2. queue[i] \in Tasks
      BY ONLY <1>1, i \in 1..n, ElementOfSeq
    <3> QED
      BY <3>1, <3>2
  <2>3. where'[u] = IF u = queue[i] THEN "local" ELSE where[u]
    BY <2>2
  <2>4. \A j, k \in 1..n : j < k => queue[j] # queue[k]
    BY <1>5, Zenon
  <2>5. Occurs(u, queue', n - 1) <=> (u # queue[i] /\ Occurs(u, queue, n))
    BY <1>1, <1>3, <2>4, RemoveTakesOne, Zenon
  <2>6. where'[u] = "shared" <=> Occurs(u, queue', n - 1)
    BY <2>1, <2>3, <2>5
  <2> QED
    BY <1>4, <2>6 DEF Occurs
<1> QED
  BY <1>4, <1>6, <1>7 DEF QueueOrdered

LEMMA TaskStepQueue ==
  ASSUME TypeInv, NEW t \in Tasks, AnyTaskStep(t)
  PROVE  QueueOrdered'
<1>1. where \in [Tasks -> Places] /\ dsq_vtime \in [Tasks -> Nat]
  BY DEF TypeInv, TypeOK, BpfTypeOK
<1>2. CASE Insert(t)
  BY <1>2, InsertKeepsOrder
<1>3. ASSUME where[t] # "shared", where'[t] # "shared", queue' = queue,
             \A u \in Tasks : u # t => where'[u] = where[u] /\ dsq_vtime'[u] = dsq_vtime[u]
      PROVE  QueueOrdered'
  BY <1>3, QueueUntouched
<1>4. CASE UNCHANGED <<where, dsq_vtime, queue>>
  BY <1>4, QueueUntouched
<1>5. CASE Enable(t)
  <2>1. where[t] = "out" /\ where'[t] \in {"sleep", "run"} /\ queue' = queue
    BY <1>1, <1>5 DEF Enable
  <2>2. \A u \in Tasks : u # t => where'[u] = where[u] /\ dsq_vtime'[u] = dsq_vtime[u]
    BY <1>1, <1>5 DEF Enable
  <2> QED
    BY <1>3, <2>1, <2>2
<1>6. CASE SelectBusyCpu(t) \/ (\E c \in Cpus : SelectIdleCpu(t, c)) \/ ReadLimit(t)
  <2>1. where[t] \in {"sleep", "enqueue"} /\ where'[t] # "shared" /\ queue' = queue
    BY <1>1, <1>6 DEF SelectBusyCpu, SelectIdleCpu, ReadLimit
  <2>2. \A u \in Tasks : u # t => where'[u] = where[u]
    BY <1>1, <1>6 DEF SelectBusyCpu, SelectIdleCpu, ReadLimit
  <2>3. dsq_vtime' = dsq_vtime
    BY <1>6 DEF SelectBusyCpu, SelectIdleCpu, ReadLimit, clockVars
  <2> QED
    BY <1>3, <2>1, <2>2, <2>3
<1>7. CASE Block(t) \/ Leave(t) \/ StopRunning(t, "sleep")
  <2>1. where[t] = "run" /\ where'[t] \in {"sleep", "out"} /\ queue' = queue
    BY <1>1, <1>7 DEF Block, Leave, StopRunning
  <2>2. \A u \in Tasks : u # t => where'[u] = where[u] /\ dsq_vtime'[u] = dsq_vtime[u]
    BY <1>1, <1>7 DEF Block, Leave, StopRunning, Stopping
  <2> QED
    BY <1>3, <2>1, <2>2
<1> QED
  BY <1>2, <1>4, <1>5, <1>6, <1>7
  DEF AnyTaskStep, TaskStep, RunStep, EnqueueStep, RunOutside, Tick, DoubleTap, WakeIdleCpu,
      clockVars, taskVars

LEMMA CpuStepQueue ==
  ASSUME TypeInv, NEW c \in Cpus, CpuStep(c)
  PROVE  QueueOrdered'
<1>1. where \in [Tasks -> Places] /\ dsq_vtime \in [Tasks -> Nat]
  BY DEF TypeInv, TypeOK, BpfTypeOK
<1>2. CASE UNCHANGED <<where, dsq_vtime, queue>>
  BY <1>2, QueueUntouched
<1>3. CASE Move(c) /\ ~UNCHANGED <<where, dsq_vtime, queue>>
  <2>1. dsq_vtime' = dsq_vtime
    BY <1>3 DEF Move, clockVars
  <2>2. PICK i \in DOMAIN queue :
          where' = [where EXCEPT ![queue[i]] = "local"] /\ queue' = RemoveAt(queue, i)
    BY <1>3, <2>1 DEF Move
  <2> QED
    BY <2>1, <2>2, MoveKeepsOrder
<1>4. ASSUME NEW t \in Tasks, where[t] # "shared", where'[t] # "shared", queue' = queue,
             \A u \in Tasks : u # t => where'[u] = where[u] /\ dsq_vtime'[u] = dsq_vtime[u]
      PROVE  QueueOrdered'
  BY <1>4, QueueUntouched
<1>5. CASE PutPrev(c)
  <2> DEFINE t == Current(c)
  <2>1. t \in Tasks /\ where[t] = "run"
    BY <1>5, CurrentRuns DEF PutPrev
  <2> HIDE DEF t
  <2>2. Stopping(t) /\ where' = [where EXCEPT ![t] = "enqueue"] /\ queue' = queue
    BY <1>5 DEF PutPrev, t
  <2>3. /\ where'[t] = "enqueue"
        /\ \A u \in Tasks : u # t => where'[u] = where[u] /\ dsq_vtime'[u] = dsq_vtime[u]
    BY <1>1, <2>1, <2>2 DEF Stopping
  <2> QED
    BY <1>4, <2>1, <2>2, <2>3
<1>6. ASSUME NEW t \in Tasks, PickLocal(c, t)
      PROVE  QueueOrdered'
  <2>1. where[t] = "local" /\ where'[t] = "run" /\ UNCHANGED <<dsq_vtime, queue>>
    BY <1>1, <1>6 DEF PickLocal, Local, clockVars
  <2>2. \A u \in Tasks : u # t => where'[u] = where[u]
    BY <1>1, <1>6 DEF PickLocal
  <2> QED
    BY <1>4, <2>1, <2>2
<1> QED
  BY <1>2, <1>3, <1>5, <1>6
  DEF CpuStep, Expire, WakeUp, Balance, Iterate, ReadVtime, ReadGlobal, RaiseGlobal,
      PutDone, PickIdle, clockVars, taskVars

-------------------------------------------------------------------------------
(* TypeInv is inductive. *)

\* A CPU that works on a task keeps it until it is done.
LEMMA RegsStayHeld ==
  ASSUME TypeInv, TypeOK', [Next]_vars
  PROVE  RegsHeld'
<1>1. mode \in [Cpus -> Modes] /\ reg \in [Cpus -> Regs]
  BY DEF TypeInv, TypeOK, BpfTypeOK, Regs
<1>2. \A d \in Cpus : mode[d] \in {"vtime", "global", "cas", "move", "put"} => reg[d].p \in Tasks
  BY DEF TypeInv, RegsHeld
<1>3. CASE UNCHANGED <<mode, reg>>
  BY <1>2, <1>3 DEF RegsHeld
<1>4. ASSUME NEW c \in Cpus, NEW m \in {"run", "schedule", "iterate", "pick", "idle"},
             mode' = [mode EXCEPT ![c] = m],
             \A d \in Cpus : d # c => reg'[d] = reg[d]
      PROVE  RegsHeld'
  BY <1>1, <1>2, <1>4 DEF RegsHeld
<1>5. ASSUME NEW c \in Cpus, NEW m \in Modes,
             mode' = [mode EXCEPT ![c] = m], reg'[c].p \in Tasks,
             \A d \in Cpus : d # c => reg'[d] = reg[d]
      PROVE  RegsHeld'
  BY <1>1, <1>2, <1>5 DEF RegsHeld
<1>6. ASSUME NEW t \in Tasks, AnyTaskStep(t)
      PROVE  RegsHeld'
  <2>1. CASE Enable(t)
    <3>1. CASE mode' = mode
      BY <1>3, <2>1, <3>1 DEF Enable, cpuVars
    <3>2. CASE mode' # mode
      <4>1. PICK c \in Allowed[t] : mode' = [mode EXCEPT ![c] = "run"] /\ reg' = reg
        BY <2>1, <3>2 DEF Enable, cpuVars
      <4>2. c \in Cpus
        OBVIOUS
      <4> QED
        BY <1>4, <4>1, <4>2
    <3> QED
      BY <3>1, <3>2
  <2>2. CASE Block(t) \/ Leave(t) \/ StopRunning(t, "sleep")
    <3>1. at[t] \in Cpus
      BY DEF TypeInv, TypeOK, BpfTypeOK
    <3>2. mode' = [mode EXCEPT ![at[t]] = "schedule"] /\ reg' = reg
      BY <2>2 DEF Block, Leave, StopRunning
    <3> QED
      BY <1>4, <3>1, <3>2
  <2>3. CASE UNCHANGED <<mode, reg>>
    BY <1>3, <2>3
  <2> QED
    BY <1>6, <2>1, <2>2, <2>3
    DEF AnyTaskStep, TaskStep, RunStep, EnqueueStep, RunOutside, SelectBusyCpu, SelectIdleCpu,
        Tick, ReadLimit, Insert, DoubleTap, WakeIdleCpu, cpuVars
<1>7. ASSUME NEW c \in Cpus, CpuStep(c)
      PROVE  RegsHeld'
  <2>1. CASE Expire(c) \/ WakeUp(c) \/ Balance(c) \/ PickIdle(c)
             \/ \E t \in Tasks : PickLocal(c, t)
    <3>1. reg' = reg
      BY <2>1 DEF Expire, WakeUp, Balance, PickIdle, PickLocal
    <3>2. \E m \in {"run", "schedule", "iterate", "pick", "idle"} :
            mode' = [mode EXCEPT ![c] = m]
      BY <2>1 DEF Expire, WakeUp, Balance, PickIdle, PickLocal, SetMode
    <3> QED
      BY <1>4, <3>1, <3>2
  <2>2. CASE Iterate(c)
    <3>1. CASE SetMode(c, "pick") /\ reg' = reg
      BY <1>4, <3>1 DEF SetMode
    <3>2. ASSUME NEW i \in DOMAIN queue, SetMode(c, "vtime"),
                 reg' = [reg EXCEPT ![c].p = queue[i]]
          PROVE  RegsHeld'
      <4>1. reg[c] \in Regs /\ queue[i] \in Tasks
        BY <1>1 DEF TypeInv, TypeOK, BpfTypeOK
      <4>2. reg'[c].p \in Tasks /\ \A d \in Cpus : d # c => reg'[d] = reg[d]
        BY <1>1, <3>2, <4>1 DEF Regs
      <4> QED
        BY <1>5, <3>2, <4>2 DEF SetMode, Modes
    <3> QED
      BY <2>2, <3>1, <3>2 DEF Iterate, Visible
  <2>3. CASE ReadVtime(c)
    <3>1. reg[c] \in Regs /\ reg[c].p \in Tasks
      BY <1>1, <1>2, <2>3 DEF ReadVtime
    <3>2. reg'[c].p = reg[c].p /\ \A d \in Cpus : d # c => reg'[d] = reg[d]
      BY <1>1, <2>3, <3>1 DEF ReadVtime, Regs
    <3>3. \E m \in Modes : mode' = [mode EXCEPT ![c] = m]
      BY <2>3 DEF ReadVtime, SetMode, Modes
    <3> QED
      BY <1>5, <3>1, <3>2, <3>3
  <2>7. CASE ReadGlobal(c)
    <3>1. reg[c] \in Regs /\ reg[c].p \in Tasks
      BY <1>1, <1>2, <2>7 DEF ReadGlobal
    <3>2. reg'[c].p = reg[c].p /\ \A d \in Cpus : d # c => reg'[d] = reg[d]
      BY <1>1, <2>7, <3>1 DEF ReadGlobal, Regs
    <3>3. \E m \in Modes : mode' = [mode EXCEPT ![c] = m]
      BY <2>7 DEF ReadGlobal, SetMode, Modes
    <3> QED
      BY <1>5, <3>1, <3>2, <3>3
  <2>4. CASE RaiseGlobal(c)
    <3>1. reg[c].p \in Tasks /\ reg' = reg
      BY <1>2, <2>4 DEF RaiseGlobal
    <3> QED
      BY <1>5, <2>4, <3>1 DEF RaiseGlobal, SetMode, Modes
  <2>5. CASE Move(c) \/ PutDone(c)
    <3>1. \A d \in Cpus : d # c => reg'[d] = reg[d]
      BY <1>1, <2>5 DEF Move, PutDone
    <3>2. \E m \in {"iterate", "pick"} : mode' = [mode EXCEPT ![c] = m]
      BY <2>5 DEF Move, PutDone, SetMode
    <3> QED
      BY <1>4, <3>1, <3>2
  <2>6. CASE PutPrev(c)
    <3>1. Current(c) \in Tasks /\ reg[c] \in Regs
      BY <1>1, <2>6, CurrentRuns DEF PutPrev
    <3>2. reg'[c].p = Current(c) /\ \A d \in Cpus : d # c => reg'[d] = reg[d]
      BY <1>1, <2>6, <3>1 DEF PutPrev, Regs
    <3> QED
      BY <1>5, <2>6, <3>1, <3>2 DEF PutPrev, SetMode, Modes
  <2> QED
    BY <1>7, <2>1, <2>2, <2>3, <2>4, <2>5, <2>6, <2>7 DEF CpuStep
<1>8. CASE LoaderMoves
  <2>1. CASE Detach
    BY <2>1 DEF Detach, RegsHeld
  <2>2. CASE ~Detach
    <3>1. UNCHANGED <<mode, reg>>
      BY <1>8, <2>2 DEF LoaderMoves, Entered, Stalled, Bootstrap, Attach, LoopEnds, Cleanup, DestroyLink,
                        Report, Signal, Eject, vars, bpfVars, cpuVars
    <3> QED
      BY <1>3, <3>1
  <2> QED
    BY <2>1, <2>2
<1> QED
  BY <1>6, <1>7, <1>8, StepCases DEF TaskTurn

\* What the loader and the kernel's ejection leave.
LEMMA LoaderStepInv ==
  ASSUME TypeInv, LoaderMoves
  PROVE  Detached' /\ LoaderPlaces' /\ Accounts' /\ QueueOrdered'
<1>1. /\ sum \in [Tasks -> 0..MaxRun] /\ scx \in {"on", "off"}
      /\ ctx \in [Tasks -> Contexts \cup {NoCtx}]
  BY DEF TypeInv, TypeOK, BpfTypeOK, Contexts
<1>2. CASE UNCHANGED bpfVars /\ (lpc' \in {"bootstrap", "report", "ended"} => scx = "off")
  <2>1. Detached'
    BY <1>2 DEF TypeInv, Detached, bpfVars, cpuVars, taskVars
  <2>2. LoaderPlaces'
    BY <1>2 DEF LoaderPlaces, bpfVars
  <2>3. Accounts'
    BY <1>2 DEF TypeInv, Accounts, bpfVars, taskVars
  <2>4. QueueOrdered'
    BY <1>2, QueueUntouched DEF bpfVars, taskVars, clockVars
  <2> QED
    BY <2>1, <2>2, <2>3, <2>4
<1>3. CASE Detach
  <2>1. Detached' /\ LoaderPlaces'
    BY <1>3 DEF Detach, Detached, LoaderPlaces
  <2>2. Accounts'
    BY <1>3 DEF Detach, Accounts
  <2>3. QueueOrdered'
    BY <1>3 DEF Detach, QueueOrdered
  <2> QED
    BY <2>1, <2>2, <2>3
<1>4. CASE Bootstrap
  <2>1. scx = "off" /\ scx' = "on" /\ lpc' = "enter"
    BY <1>4 DEF Bootstrap, Attach, TypeInv, LoaderPlaces
  <2>2. Detached' /\ LoaderPlaces'
    BY <2>1 DEF Detached, LoaderPlaces
  <2>3. Accounts'
    <3>1. \A t \in Tasks : where[t] = "out" /\ ran[t] = 0 /\ outside[t] = 0
      BY <2>1 DEF TypeInv, Detached
    <3>2. /\ UNCHANGED <<where, ran, outside>>
          /\ \A t \in Tasks : ctx'[t] = NoCtx
      BY <1>4 DEF Bootstrap, Attach
    <3> QED
      BY <3>1, <3>2 DEF Accounts
  <2>4. QueueOrdered'
    BY <1>4, QueueUntouched DEF Bootstrap, Attach
  <2> QED
    BY <2>2, <2>3, <2>4
<1>5. CASE LoopEnds
  BY <1>2, <1>5 DEF LoopEnds
<1>6. CASE Cleanup
  <2>1. CASE scx = "on"
    BY <1>3, <1>6, <2>1 DEF Cleanup, DestroyLink
  <2>2. CASE scx = "off"
    BY <1>2, <1>6, <2>2 DEF Cleanup, DestroyLink
  <2> QED
    BY <1>1, <2>1, <2>2
<1>7. CASE Report
  BY <1>2, <1>7 DEF Report, TypeInv, LoaderPlaces
<1>8. CASE Signal
  BY <1>2, <1>8 DEF Signal, TypeInv, LoaderPlaces
<1>9. CASE Eject
  BY <1>3, <1>9 DEF Eject
<1>10. CASE UNCHANGED vars
  BY <1>2, <1>10 DEF vars, loaderVars, TypeInv, LoaderPlaces
<1>11. CASE Stalled
  BY <1>3, <1>11 DEF Stalled
<1>12. CASE Entered /\ UNCHANGED bpfVars
  BY <1>2, <1>12 DEF Entered
<1> QED
  BY <1>4, <1>5, <1>6, <1>7, <1>8, <1>9, <1>10, <1>11, <1>12 DEF LoaderMoves

LEMMA NextTypeInv == TypeInv /\ [Next]_vars => TypeInv'
<1> SUFFICES ASSUME TypeInv, [Next]_vars PROVE TypeInv'
  OBVIOUS
<1>1. ASSUME NEW t \in Tasks, TaskTurn(t)
      PROVE  TypeInv'
  <2>1. TypeOK'
    BY <1>1, TaskStepTypeOK
  <2>2. Accounts' /\ QueueOrdered'
    BY <1>1, TaskStepAccounts, TaskStepQueue DEF TaskTurn
  <2>3. scx = "on" /\ scx' = "on"
    BY <1>1, TasksAreAttached DEF TaskTurn
  <2>4. Detached' /\ LoaderPlaces'
    BY <1>1, <2>3 DEF TaskTurn, Entered, Detached, LoaderPlaces, TypeInv, loaderVars
  <2>5. RegsHeld'
    BY <2>1, RegsStayHeld
  <2> QED
    BY <2>1, <2>2, <2>4, <2>5 DEF TypeInv
<1>2. ASSUME NEW c \in Cpus, CpuStep(c), UNCHANGED loaderVars
      PROVE  TypeInv'
  <2>1. TypeOK'
    BY <1>2, CpuStepTypeOK
  <2>2. Accounts' /\ QueueOrdered'
    BY <1>2, CpuStepAccounts, CpuStepQueue
  <2>3. scx = "on" /\ scx' = "on"
    BY <1>2, CpusAreAttached
  <2>4. Detached' /\ LoaderPlaces'
    BY <1>2, <2>3 DEF Detached, LoaderPlaces, TypeInv, loaderVars
  <2>5. RegsHeld'
    BY <2>1, RegsStayHeld
  <2> QED
    BY <2>1, <2>2, <2>4, <2>5 DEF TypeInv
<1>3. CASE LoaderMoves
  <2>1. TypeOK'
    BY <1>3, LoaderStepTypeOK
  <2>2. RegsHeld'
    BY <2>1, RegsStayHeld
  <2> QED
    BY <1>3, <2>1, <2>2, LoaderStepInv DEF TypeInv
<1> QED
  BY <1>1, <1>2, <1>3, StepCases

\* Every variable keeps its type, in every state of every behaviour.
THEOREM TypeCorrect == Spec => []TypeOK
<1>1. Init => TypeInv
  BY InitTypeInv
<1>2. TypeInv /\ [Next]_vars => TypeInv'
  BY NextTypeInv
<1>3. TypeInv => TypeOK
  BY DEF TypeInv
<1> QED
  BY <1>1, <1>2, <1>3, PTL DEF Spec

\* The shared queue holds exactly the waiting tasks, each once, least vtime
\* first, whatever CPUs take from it while others insert.
THEOREM QueueIsOrdered == Spec => []QueueOrdered
<1>1. Init => TypeInv
  BY InitTypeInv
<1>2. TypeInv /\ [Next]_vars => TypeInv'
  BY NextTypeInv
<1>3. TypeInv => QueueOrdered
  BY DEF TypeInv
<1> QED
  BY <1>1, <1>2, <1>3, PTL DEF Spec

-------------------------------------------------------------------------------
(* What a task is charged, and the clock of the queue. *)

\* Only ops.stopping takes a task off its CPU while the scheduler is attached.
LEMMA ChargedWhenStopped ==
  ASSUME TypeInv, [Next]_vars, NEW t \in Tasks,
         where[t] = "run", where'[t] # "run", scx' = "on"
  PROVE  dsq_vtime'[t] - dsq_vtime[t] = ran[t] + outside[t]
<1>1. where \in [Tasks -> Places] /\ scx \in {"on", "off"}
  BY DEF TypeInv, TypeOK, BpfTypeOK
<1>2. dsq_vtime[t] \in Nat /\ ran[t] \in Nat /\ outside[t] \in Nat
  BY DEF TypeInv, TypeOK, BpfTypeOK
<1>3. scx = "on"
  BY <1>1 DEF TypeInv, Detached
<1>4. CASE Stopping(t)
  <2>1. dsq_vtime'[t] = dsq_vtime[t] + ran[t] + outside[t]
    BY <1>3, <1>4, ChargedOnce
  <2> QED
    BY <1>2, <2>1
<1>5. ASSUME NEW u \in Tasks, AnyTaskStep(u)
      PROVE  Stopping(t)
  <2>1. CASE Block(u) \/ Leave(u) \/ StopRunning(u, "sleep")
    <3>1. u = t
      BY <1>1, <2>1 DEF Block, Leave, StopRunning
    <3> QED
      BY <2>1, <3>1 DEF Block, Leave, StopRunning
  <2>2. CASE UNCHANGED where
    BY <2>2
  <2>3. CASE ~UNCHANGED where /\ ~Block(u) /\ ~Leave(u) /\ ~StopRunning(u, "sleep")
    <3>1. where[u] # "run" /\ \A v \in Tasks : v # u => where'[v] = where[v]
      BY <1>1, <1>5, <2>3
      DEF AnyTaskStep, TaskStep, RunStep, EnqueueStep, Enable, RunOutside, SelectBusyCpu,
          SelectIdleCpu, Tick, ReadLimit, Insert, DoubleTap, WakeIdleCpu, taskVars
    <3> QED
      BY <3>1
  <2> QED
    BY <2>1, <2>2, <2>3
<1>6. ASSUME NEW c \in Cpus, CpuStep(c)
      PROVE  Stopping(t)
  <2>1. CASE UNCHANGED where
    BY <2>1
  <2>2. CASE Move(c) /\ ~UNCHANGED where
    <3>1. reg[c].p \in Tasks /\ where' = [where EXCEPT ![reg[c].p] = "local"]
      BY <2>2 DEF Move, TypeInv, RegsHeld
    <3>2. where[reg[c].p] = "shared"
      BY <2>2, <3>1 DEF Move, TypeInv, QueueOrdered
    <3> QED
      BY <1>1, <3>1, <3>2
  <2>3. CASE PutPrev(c)
    <3>1. Current(c) \in Tasks /\ where' = [where EXCEPT ![Current(c)] = "enqueue"]
      BY <2>3, CurrentRuns DEF PutPrev
    <3>2. Current(c) = t
      BY <1>1, <3>1
    <3> QED
      BY <2>3, <3>2 DEF PutPrev
  <2>4. CASE \E u \in Tasks : PickLocal(c, u)
    <3>1. PICK u \in Tasks : where' = [where EXCEPT ![u] = "run"]
      BY <2>4 DEF PickLocal
    <3> QED
      BY <1>1, <3>1
  <2> QED
    BY <1>6, <2>1, <2>2, <2>3, <2>4
    DEF CpuStep, Expire, WakeUp, Balance, Iterate, ReadVtime, ReadGlobal, RaiseGlobal, PutDone,
        PickIdle, taskVars
<1>7. ASSUME LoaderMoves
      PROVE  where' = where
  BY <1>7
  DEF LoaderMoves, Entered, Stalled, Bootstrap, Attach, LoopEnds, Cleanup, DestroyLink, Report, Signal,
      Eject, Detach, vars, bpfVars, taskVars
<1> QED
  BY <1>4, <1>5, <1>6, <1>7, StepCases DEF TaskTurn

\* A task that has not come back from another class is charged exactly what it
\* ran since it last got a CPU.
THEOREM StoppingChargesTheRun == Spec => ChargedForRun
<1> DEFINE P == \A t \in Tasks :
                  where[t] = "run" /\ where'[t] # "run" /\ scx' = "on"
                  /\ outside[t] = 0 =>
                    dsq_vtime'[t] - dsq_vtime[t] = ran[t]
<1>1. Init => TypeInv
  BY InitTypeInv
<1>2. TypeInv /\ [Next]_vars => TypeInv'
  BY NextTypeInv
<1>3. TypeInv /\ [Next]_vars => [P]_vars
  <2> SUFFICES ASSUME TypeInv, [Next]_vars, NEW t \in Tasks,
                      where[t] = "run", where'[t] # "run", scx' = "on", outside[t] = 0
               PROVE  dsq_vtime'[t] - dsq_vtime[t] = ran[t]
    OBVIOUS
  <2>1. dsq_vtime'[t] - dsq_vtime[t] = ran[t] + outside[t]
    BY ChargedWhenStopped
  <2>2. ran[t] \in Nat
    BY DEF TypeInv, TypeOK, BpfTypeOK
  <2> QED
    BY <2>1, <2>2
<1>4. ChargedForRun <=> [][P]_vars
  BY DEF ChargedForRun
<1> QED
  BY <1>1, <1>2, <1>3, <1>4, PTL DEF Spec

\* A CPU that is about to raise global_vtime saw a task ahead of it.
CasRaises == \A c \in Cpus : mode[c] = "cas" => reg[c].vtime > reg[c].old

\* ops.dispatch comes to the compare-and-swap from its test alone.
LEMMA CasAfterTest ==
  ASSUME TypeInv, [Next]_vars, NEW d \in Cpus, mode'[d] = "cas"
  PROVE  \/ mode[d] = "cas" /\ reg'[d] = reg[d]
         \/ ReadGlobal(d)
<1>1. mode \in [Cpus -> Modes] /\ reg \in [Cpus -> Regs] /\ at \in [Tasks -> Cpus]
  BY DEF TypeInv, TypeOK, BpfTypeOK, Regs
<1>2. ASSUME NEW t \in Tasks, AnyTaskStep(t)
      PROVE  mode[d] = "cas" /\ reg'[d] = reg[d]
  BY <1>1, <1>2
  DEF AnyTaskStep, TaskStep, RunStep, EnqueueStep, Enable, RunOutside, SelectBusyCpu, SelectIdleCpu,
      Tick, Block, Leave, StopRunning, ReadLimit, Insert, DoubleTap, WakeIdleCpu, cpuVars
<1>3. ASSUME NEW c \in Cpus, CpuStep(c)
      PROVE  \/ mode[d] = "cas" /\ reg'[d] = reg[d]
             \/ ReadGlobal(d)
  <2>1. CASE ReadGlobal(c)
    BY <1>1, <2>1 DEF ReadGlobal, SetMode
  <2>2. CASE ~ReadGlobal(c)
    <3>1. \E m \in Modes \ {"cas"} : mode' = [mode EXCEPT ![c] = m]
      BY <1>3, <2>2
      DEF CpuStep, Expire, WakeUp, Balance, Iterate, ReadVtime, RaiseGlobal, Move, PutPrev,
          PutDone, PickLocal, PickIdle, SetMode, Modes
    <3>2. \A e \in Cpus : e # c => reg'[e] = reg[e]
      BY <1>1, <1>3, <2>2
      DEF CpuStep, Expire, WakeUp, Balance, Iterate, ReadVtime, RaiseGlobal, Move, PutPrev,
          PutDone, PickLocal, PickIdle
    <3> QED
      BY <1>1, <3>1, <3>2
  <2> QED
    BY <2>1, <2>2
<1>4. CASE LoaderMoves
  BY <1>4
  DEF LoaderMoves, Entered, Stalled, Bootstrap, Attach, LoopEnds, Cleanup, DestroyLink, Report, Signal,
      Eject, Detach, vars, bpfVars, cpuVars
<1> QED
  BY <1>2, <1>3, <1>4, StepCases DEF TaskTurn

LEMMA NextCasRaises == TypeInv /\ CasRaises /\ [Next]_vars => CasRaises'
<1> SUFFICES ASSUME TypeInv, CasRaises, [Next]_vars, NEW d \in Cpus, mode'[d] = "cas"
             PROVE  reg'[d].vtime > reg'[d].old
  BY DEF CasRaises
<1>1. CASE mode[d] = "cas" /\ reg'[d] = reg[d]
  BY <1>1 DEF CasRaises
<1>2. CASE ReadGlobal(d)
  <2>1. mode \in [Cpus -> Modes] /\ reg \in [Cpus -> Regs] /\ reg[d] \in Regs
    BY DEF TypeInv, TypeOK, BpfTypeOK, Regs
  <2>2. reg[d].vtime > global_vtime
    BY <1>2, <2>1 DEF ReadGlobal, SetMode
  <2>3. reg'[d].vtime = reg[d].vtime /\ reg'[d].old = global_vtime
    BY <1>2, <2>1 DEF ReadGlobal, Regs
  <2> QED
    BY <2>2, <2>3
<1> QED
  BY <1>1, <1>2, CasAfterTest

\* The only step that changes the clock is the compare-and-swap.
LEMMA GlobalRises ==
  ASSUME TypeInv, CasRaises, [Next]_vars, scx' = scx
  PROVE  global_vtime' >= global_vtime
<1>1. global_vtime \in Nat
  BY DEF TypeInv, TypeOK, BpfTypeOK
<1>2. CASE global_vtime' = global_vtime
  BY <1>1, <1>2
<1>3. ASSUME NEW c \in Cpus, RaiseGlobal(c)
      PROVE  global_vtime' >= global_vtime
  <2>1. reg[c] \in Regs /\ reg[c].vtime > reg[c].old
    BY <1>3 DEF RaiseGlobal, CasRaises, TypeInv, TypeOK, BpfTypeOK, Regs
  <2> QED
    BY <1>1, <1>3, <2>1 DEF RaiseGlobal, Raised, Regs
<1>4. ASSUME NEW t \in Tasks, AnyTaskStep(t)
      PROVE  global_vtime' = global_vtime
  BY <1>4
  DEF AnyTaskStep, TaskStep, RunStep, EnqueueStep, Enable, RunOutside, SelectBusyCpu, SelectIdleCpu,
      Tick, Block, Leave, StopRunning, ReadLimit, Insert, DoubleTap, WakeIdleCpu, clockVars
<1>5. ASSUME NEW c \in Cpus, CpuStep(c), ~RaiseGlobal(c)
      PROVE  global_vtime' = global_vtime
  BY <1>5
  DEF CpuStep, Expire, WakeUp, Balance, Iterate, ReadVtime, ReadGlobal, Move, PutPrev,
      PutDone, PickLocal, PickIdle, clockVars
<1>6. CASE LoaderMoves
  <2>1. ~Bootstrap
    BY DEF Bootstrap, Attach, TypeInv, LoaderPlaces
  <2> QED
    BY <1>2, <1>6, <2>1
    DEF LoaderMoves, Entered, Stalled, LoopEnds, Cleanup, DestroyLink, Report, Signal, Eject, Detach,
        vars, bpfVars, clockVars
<1> QED
  BY <1>2, <1>3, <1>4, <1>5, <1>6, StepCases DEF TaskTurn

\* While one scheduler is attached global_vtime never goes back, however many
\* CPUs raise it from what they read at different times.
THEOREM ClockNeverBack == Spec => GlobalNeverBack
<1> DEFINE P == scx' = scx => global_vtime' >= global_vtime
           I == TypeInv /\ CasRaises
<1>1. Init => I
  BY InitTypeInv DEF CasRaises, Init, BpfInit
<1>2. I /\ [Next]_vars => I'
  BY NextTypeInv, NextCasRaises
<1>3. I /\ [Next]_vars => [P]_vars
  BY GlobalRises
<1>4. GlobalNeverBack <=> [][P]_vars
  BY DEF GlobalNeverBack
<1> HIDE DEF I, P
<1> QED
  BY <1>1, <1>2, <1>3, <1>4, PTL DEF Spec

-------------------------------------------------------------------------------
(* No waiting task is forgotten. *)

\* Only an iteration has tasks it passes over, and CPU 0 never iterates.
Visits ==
  \A c \in Cpus : /\ ~Iterating(c) => newer[c] = {}
                  /\ Iterating(c) => c # Cpu0

\* A task of the workload is never put on CPU 0.
AwayFromCpu0 == \A t \in Tasks : Cpu0 \notin Allowed[t] => at[t] # Cpu0

\* CPU c will look at t, or find other work first and look again after it: it
\* is about to be woken, it runs or is on its way to ops.dispatch, it has a
\* local task to run, or it is iterating a queue that t was in before.
Seeks(c, t) ==
  \/ c \in kicked \/ mode[c] \in {"run", "schedule"}
  \/ mode[c] \in {"pick", "put"} /\ Local(c) # {}
  \/ Iterating(c) /\ t \notin newer[c]

\* Each waiting task of the workload has its own guarantee.
Sought ==
  \A t \in Tasks :
    where[t] = "shared" /\ Cpu0 \notin Allowed[t] =>
      t \in tokick \/ \E c \in Cpus \ {Cpu0} : Seeks(c, t)

WakeInv == TypeInv /\ Visits /\ AwayFromCpu0 /\ Sought

\* What a task's step may do to a CPU: give an idle one work, stop the task
\* that runs, or hide an inserted task from its iteration.
LEMMA TaskStepCpus ==
  ASSUME TypeInv, NEW t \in Tasks, AnyTaskStep(t),
         NEW d \in Cpus
  PROVE  /\ \/ mode'[d] = mode[d]
            \/ mode[d] = "idle" /\ mode'[d] = "run"
            \/ mode[d] = "run" /\ mode'[d] = "schedule"
         /\ reg'[d] = reg[d]
         /\ newer'[d] = newer[d] \/ (Iterating(d) /\ newer'[d] = newer[d] \cup {t})
<1>1. mode \in [Cpus -> Modes] /\ newer \in [Cpus -> SUBSET Tasks] /\ at[t] \in Cpus
  BY DEF TypeInv, TypeOK, BpfTypeOK
<1>2. CASE Enable(t)
  <2>1. reg' = reg /\ newer' = newer
    BY <1>2 DEF Enable, cpuVars
  <2>2. CASE mode' = mode
    BY <2>1, <2>2
  <2>3. CASE mode' # mode
    <3>1. PICK c \in Allowed[t] : mode[c] = "idle" /\ mode' = [mode EXCEPT ![c] = "run"]
      BY <1>2, <2>3 DEF Enable, cpuVars
    <3>2. c \in Cpus
      OBVIOUS
    <3> QED
      BY <1>1, <2>1, <3>1, <3>2
  <2> QED
    BY <2>2, <2>3
<1>3. CASE Block(t) \/ Leave(t) \/ StopRunning(t, "sleep")
  BY <1>1, <1>3 DEF Block, Leave, StopRunning
<1>4. CASE Insert(t)
  BY <1>1, <1>4 DEF Insert, Iterating
<1>5. CASE UNCHANGED <<mode, reg, newer>>
  BY <1>5
<1> QED
  BY <1>2, <1>3, <1>4, <1>5
  DEF AnyTaskStep, TaskStep, RunStep, EnqueueStep, RunOutside, SelectBusyCpu, SelectIdleCpu, Tick,
      ReadLimit, DoubleTap, WakeIdleCpu, cpuVars

\* A task on the local queue of a CPU stays there until the CPU picks it.
LEMMA LocalStays ==
  ASSUME TypeInv, [Next]_vars, scx' = "on", NEW d \in Cpus, NEW u \in Tasks, u \in Local(d)
  PROVE  u \in Local(d)' \/ PickLocal(d, u)
<1>1. /\ where \in [Tasks -> Places] /\ at \in [Tasks -> Cpus]
      /\ where[u] = "local" /\ at[u] = d
  BY DEF TypeInv, TypeOK, BpfTypeOK, Local
<1>2. CASE where'[u] = where[u] /\ at'[u] = at[u]
  BY <1>1, <1>2 DEF Local
<1>3. ASSUME NEW t \in Tasks, AnyTaskStep(t)
      PROVE  where'[u] = where[u] /\ at'[u] = at[u]
  <2>1. CASE UNCHANGED <<where, at>>
    BY <2>1
  <2>2. CASE Enable(t)
    <3>1. where[t] = "out" /\ \A v \in Tasks : v # t => where'[v] = where[v] /\ at'[v] = at[v]
      BY <1>1, <2>2 DEF Enable
    <3> QED
      BY <1>1, <3>1
  <2>3. CASE ~Enable(t) /\ ~UNCHANGED <<where, at>>
    <3>1. where[t] # "local"
      BY <1>3, <2>3
      DEF AnyTaskStep, TaskStep, RunStep, EnqueueStep, RunOutside, SelectBusyCpu, SelectIdleCpu, Tick,
          Block, Leave, StopRunning, ReadLimit, Insert, DoubleTap, WakeIdleCpu, taskVars
    <3>2. \A v \in Tasks : v # t => where'[v] = where[v] /\ at'[v] = at[v]
      BY <1>1, <1>3, <2>3
      DEF AnyTaskStep, TaskStep, RunStep, EnqueueStep, RunOutside, SelectBusyCpu, SelectIdleCpu, Tick,
          Block, Leave, StopRunning, ReadLimit, Insert, DoubleTap, WakeIdleCpu, taskVars
    <3> QED
      BY <1>1, <3>1, <3>2
  <2> QED
    BY <2>1, <2>2, <2>3
<1>4. ASSUME NEW c \in Cpus, CpuStep(c)
      PROVE  (where'[u] = where[u] /\ at'[u] = at[u]) \/ PickLocal(d, u)
  <2>1. CASE UNCHANGED <<where, at>>
    BY <2>1
  <2>2. CASE Move(c) /\ ~UNCHANGED <<where, at>>
    <3>1. reg[c].p \in Tasks
      BY <2>2 DEF Move, TypeInv, RegsHeld
    <3>2. where[reg[c].p] = "shared"
      BY <2>2, <3>1 DEF Move, TypeInv, QueueOrdered
    <3>3. /\ where' = [where EXCEPT ![reg[c].p] = "local"]
          /\ at' = [at EXCEPT ![reg[c].p] = c]
      BY <2>2 DEF Move
    <3> QED
      BY <1>1, <3>1, <3>2, <3>3
  <2>3. CASE PutPrev(c)
    <3>1. /\ Current(c) \in Tasks /\ where[Current(c)] = "run"
          /\ where' = [where EXCEPT ![Current(c)] = "enqueue"] /\ at' = at
      BY <2>3, CurrentRuns DEF PutPrev
    <3> QED
      BY <1>1, <3>1
  <2>4. ASSUME NEW t \in Tasks, PickLocal(c, t)
        PROVE  (where'[u] = where[u] /\ at'[u] = at[u]) \/ PickLocal(d, u)
    <3>1. at[t] = c /\ where' = [where EXCEPT ![t] = "run"] /\ at' = at
      BY <2>4 DEF PickLocal, Local
    <3>2. CASE u = t
      BY <1>1, <2>4, <3>1, <3>2
    <3>3. CASE u # t
      BY <1>1, <3>1, <3>3
    <3> QED
      BY <3>2, <3>3
  <2> QED
    BY <1>4, <2>1, <2>2, <2>3, <2>4
    DEF CpuStep, Expire, WakeUp, Balance, Iterate, ReadVtime, ReadGlobal, RaiseGlobal, PutDone,
        PickIdle, taskVars
<1>5. ASSUME LoaderMoves
      PROVE  where' = where /\ at' = at
  BY <1>5
  DEF LoaderMoves, Entered, Stalled, Bootstrap, Attach, LoopEnds, Cleanup, DestroyLink, Report, Signal,
      Eject, Detach, vars, bpfVars, taskVars
<1> QED
  BY <1>2, <1>3, <1>4, <1>5, StepCases DEF TaskTurn

LEMMA NextVisits == TypeInv /\ Visits /\ [Next]_vars => Visits'
<1> SUFFICES ASSUME TypeInv, Visits, [Next]_vars, NEW d \in Cpus
             PROVE  (~Iterating(d) => newer[d] = {})' /\ (Iterating(d) => d # Cpu0)'
  BY DEF Visits
<1>1. mode \in [Cpus -> Modes] /\ newer \in [Cpus -> SUBSET Tasks]
  BY DEF TypeInv, TypeOK, BpfTypeOK
<1>2. (~Iterating(d) => newer[d] = {}) /\ (Iterating(d) => d # Cpu0)
  BY DEF Visits
<1>3. CASE mode'[d] = mode[d] /\ newer'[d] = newer[d]
  BY <1>2, <1>3 DEF Iterating
<1>4. ASSUME NEW t \in Tasks, AnyTaskStep(t)
      PROVE  (~Iterating(d) => newer[d] = {})' /\ (Iterating(d) => d # Cpu0)'
  BY <1>2, <1>4, TaskStepCpus DEF Iterating
<1>5. ASSUME NEW c \in Cpus, CpuStep(c)
      PROVE  (~Iterating(d) => newer[d] = {})' /\ (Iterating(d) => d # Cpu0)'
  <2>1. CASE d # c
    <3>1. mode'[d] = mode[d] /\ newer'[d] = newer[d]
      BY <1>1, <1>5, <2>1
      DEF CpuStep, Expire, WakeUp, Balance, Iterate, ReadVtime, ReadGlobal, RaiseGlobal, Move,
          PutPrev, PutDone, PickLocal, PickIdle, SetMode
    <3> QED
      BY <1>3, <3>1
  <2>2. CASE d = c /\ (Expire(c) \/ WakeUp(c) \/ PutPrev(c) \/ PutDone(c) \/ PickIdle(c)
                        \/ \E t \in Tasks : PickLocal(c, t))
    <3>1. ~Iterating(c) /\ newer' = newer
      BY <1>1, <2>2
      DEF Expire, WakeUp, PutPrev, PutDone, PickLocal, PickIdle, SetMode, Iterating
    <3>2. mode'[c] \in {"schedule", "put", "pick", "idle", "run"}
      BY <1>1, <2>2 DEF Expire, WakeUp, PutPrev, PutDone, PickLocal, PickIdle, SetMode
    <3> QED
      BY <1>2, <2>2, <3>1, <3>2 DEF Iterating
  <2>3. CASE d = c /\ Balance(c)
    BY <1>1, <1>2, <2>3 DEF Balance, SetMode, Iterating
  <2>4. CASE d = c /\ Iterate(c)
    BY <1>1, <1>2, <2>4 DEF Iterate, SetMode, Iterating
  <2>5. CASE d = c /\ (ReadVtime(c) \/ ReadGlobal(c) \/ RaiseGlobal(c))
    BY <1>1, <1>2, <2>5 DEF ReadVtime, ReadGlobal, RaiseGlobal, SetMode, Iterating
  <2>6. CASE d = c /\ Move(c)
    BY <1>1, <1>2, <2>6 DEF Move, SetMode, Iterating
  <2> QED
    BY <1>5, <2>1, <2>2, <2>3, <2>4, <2>5, <2>6 DEF CpuStep
<1>6. CASE LoaderMoves
  <2>1. CASE Detach
    BY <2>1 DEF Detach, Iterating
  <2>2. CASE ~Detach
    <3>1. mode' = mode /\ newer' = newer
      BY <1>6, <2>2
      DEF LoaderMoves, Entered, Stalled, Bootstrap, Attach, LoopEnds, Cleanup, DestroyLink, Report, Signal,
          Eject, vars, bpfVars, cpuVars
    <3> QED
      BY <1>3, <3>1
  <2> QED
    BY <2>1, <2>2
<1> QED
  BY <1>4, <1>5, <1>6, StepCases DEF TaskTurn

LEMMA NextAwayFromCpu0 == TypeInv /\ Visits /\ AwayFromCpu0 /\ [Next]_vars => AwayFromCpu0'
<1> SUFFICES ASSUME TypeInv, Visits, AwayFromCpu0, [Next]_vars,
                    NEW u \in Tasks, Cpu0 \notin Allowed[u]
             PROVE  at'[u] # Cpu0
  BY DEF AwayFromCpu0
<1>1. at \in [Tasks -> Cpus] /\ at[u] # Cpu0
  BY DEF AwayFromCpu0, TypeInv, TypeOK, BpfTypeOK
<1>2. ASSUME NEW t \in Tasks, AnyTaskStep(t)
      PROVE  at'[u] # Cpu0
  <2>1. CASE Enable(t) \/ \E c \in Cpus : SelectIdleCpu(t, c)
    <3>1. at' = at \/ \E c \in Allowed[t] : at' = [at EXCEPT ![t] = c]
      BY <2>1 DEF Enable, SelectIdleCpu
    <3> QED
      BY <1>1, <3>1
  <2>2. CASE at' = at
    BY <1>1, <2>2
  <2> QED
    BY <1>2, <2>1, <2>2
    DEF AnyTaskStep, TaskStep, RunStep, EnqueueStep, RunOutside, SelectBusyCpu, Tick,
        Block, Leave, StopRunning, ReadLimit, Insert, DoubleTap, WakeIdleCpu, taskVars
<1>3. ASSUME NEW c \in Cpus, CpuStep(c)
      PROVE  at'[u] # Cpu0
  <2>1. CASE at' = at
    BY <1>1, <2>1
  <2>2. CASE Move(c) /\ at' # at
    <3>1. at' = [at EXCEPT ![reg[c].p] = c] /\ Iterating(c)
      BY <2>2 DEF Move, Iterating
    <3>2. c # Cpu0
      BY <3>1 DEF Visits
    <3> QED
      BY <1>1, <3>1, <3>2
  <2> QED
    BY <1>3, <2>1, <2>2
    DEF CpuStep, Expire, WakeUp, Balance, Iterate, ReadVtime, ReadGlobal, RaiseGlobal, Move, PutPrev,
        PutDone, PickLocal, PickIdle, taskVars
<1>4. CASE LoaderMoves
  <2>1. at' = at
    BY <1>4
    DEF LoaderMoves, Entered, Stalled, Bootstrap, Attach, LoopEnds, Cleanup, DestroyLink, Report, Signal,
        Eject, Detach, vars, bpfVars, taskVars
  <2> QED
    BY <1>1, <2>1
<1> QED
  BY <1>2, <1>3, <1>4, StepCases DEF TaskTurn

\* A CPU whose state a step leaves alone goes on seeking.
LEMMA SeeksKept ==
  ASSUME NEW d \in Cpus, NEW u \in Tasks, Seeks(d, u),
         mode'[d] = mode[d], reg'[d] = reg[d],
         d \in kicked => d \in kicked',
         u \in newer'[d] => u \in newer[d],
         Local(d) # {} => Local(d)' # {}
  PROVE  Seeks(d, u)'
BY DEF Seeks, Iterating

\* A task's step does not make a CPU forget another task.
LEMMA TaskStepSeeks ==
  ASSUME TypeInv, [Next]_vars, NEW t \in Tasks, AnyTaskStep(t),
         NEW d \in Cpus, NEW u \in Tasks, Seeks(d, u), Insert(t) => u # t
  PROVE  Seeks(d, u)'
<1>1. scx' = "on"
  BY TasksAreAttached
<1>2. Local(d) # {} => Local(d)' # {}
  <2>1. ASSUME NEW v \in Local(d), PickLocal(d, v)
        PROVE  FALSE
    <3>1. mode[d] = "pick" /\ mode'[d] = "run"
      BY <2>1 DEF PickLocal, SetMode, TypeInv, TypeOK, BpfTypeOK
    <3> QED
      BY <3>1, TaskStepCpus
  <2>2. \A v \in Local(d) : v \in Tasks
    BY DEF Local
  <2> QED
    BY <1>1, <2>1, <2>2, LocalStays
<1>3. u \in newer'[d] => u \in newer[d]
  <2>1. CASE Insert(t)
    BY <2>1, TaskStepCpus
  <2>2. CASE ~Insert(t)
    <3>1. newer' = newer
      BY <2>2
      DEF AnyTaskStep, TaskStep, RunStep, EnqueueStep, Enable, RunOutside, SelectBusyCpu,
          SelectIdleCpu, Tick, Block, Leave, StopRunning, ReadLimit, DoubleTap,
          WakeIdleCpu, cpuVars
    <3> QED
      BY <3>1
  <2> QED
    BY <2>1, <2>2
<1>4. d \in kicked => d \in kicked' \/ mode'[d] = "run"
  <2>1. mode \in [Cpus -> Modes]
    BY DEF TypeInv, TypeOK, BpfTypeOK
  <2>2. CASE Enable(t)
    BY <2>1, <2>2 DEF Enable, cpuVars
  <2>3. CASE ~Enable(t)
    BY <2>3
    DEF AnyTaskStep, TaskStep, RunStep, EnqueueStep, RunOutside, SelectBusyCpu,
        SelectIdleCpu, Tick, Block, Leave, StopRunning, ReadLimit, Insert, DoubleTap,
        WakeIdleCpu, SecondTap, KickIdle, cpuVars
  <2> QED
    BY <2>2, <2>3
<1>5. CASE mode'[d] \in {"run", "schedule"}
  BY <1>5 DEF Seeks
<1>6. CASE mode'[d] \notin {"run", "schedule"}
  <2>1. mode'[d] = mode[d] /\ reg'[d] = reg[d]
    BY <1>6, TaskStepCpus
  <2> QED
    BY <1>2, <1>3, <1>4, <1>6, <2>1, SeeksKept
<1> QED
  BY <1>5, <1>6

\* A CPU that ends its iteration has seen every task of the queue, and one
\* that leaves it with a task has work.
LEMMA CpuStepSeeks ==
  ASSUME TypeInv, Visits, [Next]_vars, NEW c \in Cpus, CpuStep(c), c # Cpu0,
         NEW u \in Tasks, where[u] = "shared", where'[u] = "shared", Seeks(c, u)
  PROVE  Seeks(c, u)'
<1>1. /\ mode \in [Cpus -> Modes] /\ newer \in [Cpus -> SUBSET Tasks]
      /\ reg \in [Cpus -> Regs] /\ where \in [Tasks -> Places] /\ at \in [Tasks -> Cpus]
  BY DEF TypeInv, TypeOK, BpfTypeOK, Regs
<1>2. ASSUME \A v \in Tasks : ~PickLocal(c, v), Local(c) # {}
      PROVE  Local(c)' # {}
  <2>1. scx' = "on"
    BY CpusAreAttached
  <2>2. \A v \in Local(c) : v \in Tasks
    BY DEF Local
  <2> QED
    BY <1>2, <2>1, <2>2, LocalStays
<1>3. CASE Expire(c) \/ WakeUp(c)
  <2>1. mode'[c] = "schedule"
    BY <1>1, <1>3 DEF Expire, WakeUp, SetMode
  <2> QED
    BY <2>1 DEF Seeks
<1>4. CASE Balance(c)
  <2>1. CASE Local(c) # {}
    <3>1. \A v \in Tasks : ~PickLocal(c, v)
      BY <1>4 DEF Balance, PickLocal
    <3>2. Local(c)' # {} /\ mode'[c] = "pick"
      BY <1>1, <1>2, <1>4, <2>1, <3>1 DEF Balance, SetMode
    <3> QED
      BY <3>2 DEF Seeks
  <2>2. CASE Local(c) = {}
    <3>1. mode'[c] = "iterate" /\ newer'[c] = newer[c]
      BY <1>1, <1>4, <2>2 DEF Balance, SetMode
    <3>2. newer[c] = {}
      BY <1>4 DEF Balance, Visits, Iterating
    <3>3. u \notin newer'[c] /\ mode'[c] = "iterate"
      BY <3>1, <3>2
    <3>4. Iterating(c)'
      BY <3>3 DEF Iterating
    <3> QED
      BY <3>3, <3>4 DEF Seeks
  <2> QED
    BY <2>1, <2>2
<1>5. CASE Iterate(c)
  <2>0. mode[c] = "iterate" /\ kicked' = kicked
    BY <1>5 DEF Iterate
  <2>1. CASE Visible(c) = {}
    <3>1. PICK i \in DOMAIN queue : queue[i] = u
      BY DEF TypeInv, QueueOrdered
    <3>2. u \in newer[c]
      BY <2>1, <3>1 DEF Visible
    <3>3. c \in kicked
      BY <2>0, <3>2 DEF Seeks, Iterating
    <3> QED
      BY <2>0, <3>3 DEF Seeks
  <2>2. CASE SetMode(c, "vtime") /\ newer' = newer
    <3>1. mode'[c] = "vtime"
      BY <1>1, <2>2 DEF SetMode
    <3>2. c \in kicked \/ u \notin newer[c]
      BY <2>0 DEF Seeks, Iterating
    <3> QED
      BY <2>0, <2>2, <3>1, <3>2 DEF Seeks, Iterating
  <2> QED
    BY <1>5, <2>1, <2>2 DEF Iterate
<1>6. CASE ReadVtime(c) \/ ReadGlobal(c) \/ RaiseGlobal(c)
  <2>1. Iterating(c) /\ kicked' = kicked /\ newer' = newer
    BY <1>6 DEF ReadVtime, ReadGlobal, RaiseGlobal, Iterating
  <2>2. mode'[c] \in {"global", "cas", "move"}
    BY <1>1, <1>6 DEF ReadVtime, ReadGlobal, RaiseGlobal, SetMode
  <2>3. c \in kicked \/ u \notin newer[c]
    BY <2>1 DEF Seeks, Iterating
  <2> QED
    BY <2>1, <2>2, <2>3 DEF Seeks, Iterating
<1>7. CASE Move(c)
  <2>1. CASE mode'[c] = "pick"
    <3>1. where' = [where EXCEPT ![reg[c].p] = "local"] /\ at' = [at EXCEPT ![reg[c].p] = c]
      BY <1>1, <1>7, <2>1 DEF Move, SetMode
    <3>2. reg[c].p \in Tasks
      BY <1>7 DEF Move, TypeInv, RegsHeld
    <3>3. reg[c].p \in Local(c)'
      BY <1>1, <3>1, <3>2 DEF Local
    <3> QED
      BY <2>1, <3>3 DEF Seeks
  <2>2. CASE mode'[c] # "pick"
    <3>1. mode'[c] = "iterate"
      BY <1>1, <1>7, <2>2 DEF Move, SetMode
    <3>2. newer' = newer /\ kicked' = kicked /\ mode[c] = "move"
      BY <1>1, <1>7, <2>2 DEF Move, SetMode
    <3>3. c \in kicked \/ u \notin newer[c]
      BY <3>1, <3>2 DEF Seeks, Iterating
    <3> QED
      BY <3>1, <3>2, <3>3 DEF Seeks, Iterating
  <2> QED
    BY <2>1, <2>2
<1>8. CASE PutPrev(c) \/ PutDone(c)
  <2>1. mode[c] \in {"pick", "put"} /\ kicked' = kicked
    BY <1>8 DEF PutPrev, PutDone
  <2>2. mode'[c] \in {"pick", "put"}
    BY <1>1, <1>8 DEF PutPrev, PutDone, SetMode
  <2>3. \A v \in Tasks : ~PickLocal(c, v)
    <3>1. ASSUME NEW v \in Tasks, PickLocal(c, v)
          PROVE  FALSE
      BY <1>1, <2>2, <3>1 DEF PickLocal, SetMode
    <3> QED
      BY <3>1
  <2>4. c \in kicked \/ Local(c) # {}
    BY <2>1 DEF Seeks, Iterating
  <2> QED
    BY <1>2, <2>1, <2>2, <2>3, <2>4 DEF Seeks
<1>9. CASE \E t \in Tasks : PickLocal(c, t)
  <2>1. mode'[c] = "run"
    BY <1>1, <1>9 DEF PickLocal, SetMode
  <2> QED
    BY <2>1 DEF Seeks
<1>10. CASE PickIdle(c)
  <2>1. mode[c] = "pick" /\ Local(c) = {} /\ kicked' = kicked
    BY <1>10 DEF PickIdle
  <2> QED
    BY <2>1 DEF Seeks, Iterating
<1> QED
  BY <1>3, <1>4, <1>5, <1>6, <1>7, <1>8, <1>9, <1>10 DEF CpuStep

LEMMA OtherCpuSeeks ==
  ASSUME TypeInv, [Next]_vars, NEW c \in Cpus, CpuStep(c),
         NEW d \in Cpus, d # c, NEW u \in Tasks, Seeks(d, u)
  PROVE  Seeks(d, u)'
<1>1. /\ mode \in [Cpus -> Modes] /\ newer \in [Cpus -> SUBSET Tasks]
      /\ reg \in [Cpus -> Regs] /\ where \in [Tasks -> Places] /\ at \in [Tasks -> Cpus]
  BY DEF TypeInv, TypeOK, BpfTypeOK, Regs
<1>2. mode'[d] = mode[d] /\ reg'[d] = reg[d] /\ newer'[d] = newer[d]
  BY <1>1
  DEF CpuStep, Expire, WakeUp, Balance, Iterate, ReadVtime, ReadGlobal, RaiseGlobal, Move, PutPrev,
      PutDone, PickLocal, PickIdle, SetMode
<1>3. d \in kicked => d \in kicked'
  BY DEF CpuStep, Expire, WakeUp, Balance, Iterate, ReadVtime, ReadGlobal, RaiseGlobal, Move, PutPrev,
         PutDone, PickLocal, PickIdle
<1>4. Local(d) # {} => Local(d)' # {}
  <2>1. scx' = "on"
    BY CpusAreAttached
  <2>2. \A v \in Local(d) : v \in Tasks
    BY DEF Local
  <2>3. ASSUME NEW v \in Tasks, PickLocal(d, v)
        PROVE  FALSE
    <3>1. mode[d] = "pick" /\ mode'[d] = "run"
      BY <1>1, <2>3 DEF PickLocal, SetMode
    <3> QED
      BY <1>2, <3>1
  <2> QED
    BY <2>1, <2>2, <2>3, LocalStays
<1> QED
  BY <1>2, <1>3, <1>4, SeeksKept

LEMMA NextSought == WakeInv /\ [Next]_vars => Sought'
<1> SUFFICES ASSUME TypeInv, Visits, AwayFromCpu0, Sought, [Next]_vars, NEW u \in Tasks,
                    where'[u] = "shared", Cpu0 \notin Allowed[u]
             PROVE  u \in tokick' \/ \E c \in Cpus \ {Cpu0} : Seeks(c, u)'
  BY DEF WakeInv, Sought
<1>1. /\ where \in [Tasks -> Places] /\ mode \in [Cpus -> Modes] /\ at \in [Tasks -> Cpus]
      /\ tokick \in SUBSET Tasks
  BY DEF TypeInv, TypeOK, BpfTypeOK
<1>2. where[u] = "shared" => u \in tokick \/ \E d \in Cpus \ {Cpu0} : Seeks(d, u)
  BY DEF Sought
<1>3. ASSUME NEW t \in Tasks, AnyTaskStep(t)
      PROVE  u \in tokick' \/ \E c \in Cpus \ {Cpu0} : Seeks(c, u)'
  <2>1. CASE Insert(t) /\ u = t
    BY <2>1 DEF Insert
  <2>2. CASE ~(Insert(t) /\ u = t)
    <3>1. where[u] = "shared"
      BY <1>1, <1>3, <2>2
      DEF AnyTaskStep, TaskStep, RunStep, EnqueueStep, Enable, RunOutside, SelectBusyCpu,
          SelectIdleCpu, Tick, Block, Leave, StopRunning, ReadLimit, Insert, DoubleTap,
          WakeIdleCpu, taskVars
    <3>2. \A d \in Cpus \ {Cpu0} : Seeks(d, u) => Seeks(d, u)'
      BY <1>3, <2>2, TaskStepSeeks
    <3>3. CASE u \in tokick'
      BY <3>3
    <3>4. CASE u \notin tokick
      BY <1>2, <3>1, <3>2, <3>4
    <3>5. CASE u \in tokick /\ u \notin tokick'
      <4>1. u = t /\ (DoubleTap(t) \/ \E c \in Cpus : WakeIdleCpu(t, c))
        BY <1>3, <3>5
        DEF AnyTaskStep, TaskStep, RunStep, EnqueueStep, Enable, RunOutside, SelectBusyCpu,
            SelectIdleCpu, Tick, Block, Leave, StopRunning, ReadLimit, Insert, DoubleTap,
            WakeIdleCpu, cpuVars
      <4>2. CASE DoubleTap(t)
        <5>1. at[u] \in Cpus \ {Cpu0}
          BY <1>1 DEF AwayFromCpu0
        <5>2. PICK c \in Cpus \ {Cpu0} : c = at[u]
          BY <5>1
        <5>3. mode' = mode /\ SecondTap(c)
          BY <4>1, <4>2, <5>2 DEF DoubleTap
        <5>4. KickIdle(c)
          BY <5>2, <5>3 DEF SecondTap
        <5>5. c \in kicked' \/ mode'[c] = "run"
          BY <5>3, <5>4 DEF KickIdle
        <5>6. Seeks(c, u)'
          BY <5>5 DEF Seeks
        <5> QED
          BY <5>6
      <4>3. ASSUME NEW c \in Cpus, WakeIdleCpu(t, c)
            PROVE  \E d \in Cpus \ {Cpu0} : Seeks(d, u)'
        <5>1. c \in Allowed[u]
          BY <4>1, <4>3 DEF WakeIdleCpu
        <5>2. mode' = mode /\ (c \in kicked' \/ mode[c] = "run")
          BY <4>3 DEF WakeIdleCpu, KickIdle
        <5>3. Seeks(c, u)'
          BY <5>2 DEF Seeks
        <5> QED
          BY <5>1, <5>3
      <4> QED
        BY <4>1, <4>2, <4>3
    <3> QED
      BY <3>3, <3>4, <3>5
  <2> QED
    BY <2>1, <2>2
<1>4. ASSUME NEW c \in Cpus, CpuStep(c)
      PROVE  u \in tokick' \/ \E d \in Cpus \ {Cpu0} : Seeks(d, u)'
  <2>1. where[u] = "shared"
    <3>1. CASE where' = where
      BY <3>1
    <3>2. CASE Move(c)
      BY <1>1, <3>2 DEF Move
    <3>3. CASE PutPrev(c)
      BY <1>1, <3>3 DEF PutPrev
    <3>4. CASE \E t \in Tasks : PickLocal(c, t)
      BY <1>1, <3>4 DEF PickLocal
    <3> QED
      BY <1>4, <3>1, <3>2, <3>3, <3>4
      DEF CpuStep, Expire, WakeUp, Balance, Iterate, ReadVtime, ReadGlobal, RaiseGlobal, PutDone,
          PickIdle, taskVars
  <2>2. tokick' = tokick
    BY <1>4
    DEF CpuStep, Expire, WakeUp, Balance, Iterate, ReadVtime, ReadGlobal, RaiseGlobal, Move, PutPrev,
        PutDone, PickLocal, PickIdle
  <2>3. \A d \in Cpus \ {Cpu0} : Seeks(d, u) => Seeks(d, u)'
    BY <1>4, <2>1, CpuStepSeeks, OtherCpuSeeks
  <2> QED
    BY <1>2, <2>1, <2>2, <2>3
<1>5. CASE LoaderMoves
  <2>1. ~Detach
    BY DEF Detach
  <2>2. UNCHANGED <<where, at, mode, reg, newer, kicked, tokick>>
    BY <1>5, <2>1
    DEF LoaderMoves, Entered, Stalled, Bootstrap, Attach, LoopEnds, Cleanup, DestroyLink, Report, Signal,
        Eject, vars, bpfVars, taskVars, cpuVars
  <2>3. \A d \in Cpus : Local(d)' = Local(d)
    BY <2>2 DEF Local
  <2>4. \A d \in Cpus : Seeks(d, u) => Seeks(d, u)'
    BY <2>2, <2>3, SeeksKept
  <2> QED
    BY <1>2, <2>2, <2>4
<1> QED
  BY <1>3, <1>4, <1>5, StepCases DEF TaskTurn

\* No task of the workload waits beside sleeping CPUs, whatever the order in
\* which CPUs go idle, are kicked and iterate while tasks are inserted.
THEOREM NobodySleepsOverWork == Spec => []NoWorkAsleep
<1>1. Init => WakeInv
  <2> SUFFICES ASSUME Init PROVE WakeInv
    OBVIOUS
  <2>1. Visits /\ Sought
    BY DEF Init, BpfInit, Visits, Iterating, Sought
  <2>2. AwayFromCpu0
    BY DEF Init, BpfInit, AwayFromCpu0
  <2> QED
    BY <2>1, <2>2, InitTypeInv DEF WakeInv
<1>2. WakeInv /\ [Next]_vars => WakeInv'
  BY NextTypeInv, NextVisits, NextAwayFromCpu0, NextSought DEF WakeInv
<1>3. WakeInv => NoWorkAsleep
  <2> SUFFICES ASSUME WakeInv, NEW t \in Tasks, where[t] = "shared", Cpu0 \notin Allowed[t],
                      tokick = {}
               PROVE  \E c \in Cpus \ {Cpu0} : mode[c] # "idle" \/ c \in kicked
    BY DEF NoWorkAsleep
  <2>1. PICK c \in Cpus \ {Cpu0} : Seeks(c, t)
    BY DEF WakeInv, Sought
  <2>2. mode[c] # "idle" \/ c \in kicked
    BY <2>1 DEF Seeks, Iterating
  <2> QED
    BY <2>2
<1> QED
  BY <1>1, <1>2, <1>3, PTL DEF Spec

-------------------------------------------------------------------------------
(* The shared queue implements VtimeQueue. *)

\* The task a CPU holds is the least of those it may take.
HeldIsLeast ==
  \A c \in Cpus :
    mode[c] \in {"vtime", "global", "cas", "move"} /\ reg[c].p \in Waiting \ newer[c] =>
      \A u \in Waiting \ newer[c] : dsq_vtime[reg[c].p] <= dsq_vtime[u]

QueueInv == TypeInv /\ Visits /\ HeldIsLeast

\* What VtimeQueue sees of the queue, and of a CPU.
SameQueue == Waiting' = Waiting /\ \A u \in Waiting : dsq_vtime'[u] = dsq_vtime[u]
SameCpu(d) == Iterating(d)' = Iterating(d) /\ newer'[d] = newer[d]

LEMMA QueueView ==
  /\ WaitingVtime = [t \in Tasks |-> IF t \in Waiting THEN dsq_vtime[t] ELSE 0]
  /\ WaitingVtime' = [t \in Tasks |-> IF t \in Waiting' THEN dsq_vtime'[t] ELSE 0]
  /\ Since = [c \in Cpus |-> IF c \in Looking THEN Waiting \ newer[c] ELSE {}]
  /\ Since' = [c \in Cpus |-> IF c \in Looking' THEN Waiting' \ newer'[c] ELSE {}]
<1>1. \A t \in Tasks : (t \in Waiting <=> where[t] = "shared")
                      /\ (t \in Waiting' <=> where'[t] = "shared")
  BY DEF Waiting
<1>2. \A c \in Cpus : (c \in Looking <=> Iterating(c))
                     /\ (c \in Looking' <=> Iterating(c)')
  BY DEF Looking
<1> QED
  BY <1>1, <1>2 DEF WaitingVtime, Since

LEMMA QueueUnseen ==
  ASSUME SameQueue, \A d \in Cpus : SameCpu(d)
  PROVE  UNCHANGED Queue!vars
<1>1. WaitingVtime' = WaitingVtime
  BY QueueView DEF SameQueue
<1>2. Looking' = Looking
  BY DEF SameCpu, Looking
<1>3. Since' = Since
  BY <1>2, QueueView DEF SameQueue, SameCpu, Looking
<1> QED
  BY <1>1, <1>2, <1>3 DEF SameQueue, Queue!vars

\* A task that does not wait may change without the queue noticing.
LEMMA OthersWait ==
  ASSUME NEW t \in Tasks, where[t] # "shared", where'[t] # "shared",
         \A u \in Tasks : u # t => where'[u] = where[u] /\ dsq_vtime'[u] = dsq_vtime[u]
  PROVE  SameQueue
BY DEF SameQueue, Waiting

LEMMA TaskStepUnseen ==
  ASSUME TypeInv, NEW t \in Tasks, AnyTaskStep(t), ~Insert(t)
  PROVE  SameQueue /\ (\A d \in Cpus : SameCpu(d)) /\ reg' = reg
<1>1. where \in [Tasks -> Places] /\ dsq_vtime \in [Tasks -> Nat]
  BY DEF TypeInv, TypeOK, BpfTypeOK
<1>2. newer' = newer /\ reg' = reg
  BY DEF AnyTaskStep, TaskStep, RunStep, EnqueueStep, Enable, RunOutside, SelectBusyCpu,
         SelectIdleCpu, Tick, Block, Leave, StopRunning, ReadLimit, DoubleTap,
         WakeIdleCpu, cpuVars
<1>3. \A d \in Cpus : SameCpu(d)
  BY <1>2, TaskStepCpus DEF SameCpu, Iterating
<1>4. CASE UNCHANGED <<where, dsq_vtime>>
  BY <1>2, <1>3, <1>4 DEF SameQueue, Waiting
<1>5. CASE Enable(t)
  <2>1. where[t] = "out" /\ where'[t] \in {"sleep", "run"}
    BY <1>1, <1>5 DEF Enable
  <2>2. \A u \in Tasks : u # t => where'[u] = where[u] /\ dsq_vtime'[u] = dsq_vtime[u]
    BY <1>1, <1>5 DEF Enable
  <2> QED
    BY <1>2, <1>3, <2>1, <2>2, OthersWait
<1>6. CASE SelectBusyCpu(t) \/ (\E c \in Cpus : SelectIdleCpu(t, c)) \/ ReadLimit(t)
  <2>1. where[t] \in {"sleep", "enqueue"} /\ where'[t] # "shared"
    BY <1>1, <1>6 DEF SelectBusyCpu, SelectIdleCpu, ReadLimit
  <2>2. \A u \in Tasks : u # t => where'[u] = where[u]
    BY <1>1, <1>6 DEF SelectBusyCpu, SelectIdleCpu, ReadLimit
  <2>3. dsq_vtime' = dsq_vtime
    BY <1>6 DEF SelectBusyCpu, SelectIdleCpu, ReadLimit, clockVars
  <2> QED
    BY <1>2, <1>3, <2>1, <2>2, <2>3, OthersWait
<1>7. CASE Block(t) \/ Leave(t) \/ StopRunning(t, "sleep")
  <2>1. where[t] = "run" /\ where'[t] \in {"sleep", "out"}
    BY <1>1, <1>7 DEF Block, Leave, StopRunning
  <2>2. \A u \in Tasks : u # t => where'[u] = where[u] /\ dsq_vtime'[u] = dsq_vtime[u]
    BY <1>1, <1>7 DEF Block, Leave, StopRunning, Stopping
  <2> QED
    BY <1>2, <1>3, <2>1, <2>2, OthersWait
<1> QED
  BY <1>4, <1>5, <1>6, <1>7
  DEF AnyTaskStep, TaskStep, RunStep, EnqueueStep, RunOutside, Tick, DoubleTap, WakeIdleCpu,
      clockVars, taskVars

\* ops.enqueue adds a task, which the iterations under way pass over.
LEMMA InsertSeen ==
  ASSUME TypeInv, NEW t \in Tasks, Insert(t)
  PROVE  /\ t \notin Waiting /\ Waiting' = Waiting \cup {t}
         /\ dsq_vtime'[t] \in Nat
         /\ \A u \in Tasks : u # t => dsq_vtime'[u] = dsq_vtime[u]
         /\ mode' = mode /\ reg' = reg
         /\ \A d \in Cpus : newer'[d] = IF Iterating(d) THEN newer[d] \cup {t} ELSE newer[d]
<1>1. /\ where \in [Tasks -> Places]
      /\ dsq_vtime \in [Tasks -> Nat] /\ limit \in [Tasks -> Nat]
  BY DEF TypeInv, TypeOK, BpfTypeOK
<1>2. where[t] = "clamp" /\ where' = [where EXCEPT ![t] = "shared"]
  BY DEF Insert
<1>3. t \notin Waiting /\ Waiting' = Waiting \cup {t}
  BY <1>1, <1>2 DEF Waiting
<1>4. Clamp(t) \in Nat
  BY <1>1 DEF Clamp
<1>5. dsq_vtime' = [dsq_vtime EXCEPT ![t] = Clamp(t)]
  BY DEF Insert
<1>6. dsq_vtime'[t] \in Nat /\ \A u \in Tasks : u # t => dsq_vtime'[u] = dsq_vtime[u]
  BY <1>1, <1>4, <1>5
<1>7. mode' = mode /\ reg' = reg
  BY DEF Insert
<1>8. \A d \in Cpus : newer'[d] = IF Iterating(d) THEN newer[d] \cup {t} ELSE newer[d]
  BY DEF Insert
<1> QED
  BY <1>3, <1>6, <1>7, <1>8

\* A CPU that does not end a move leaves the queue as it is ...
LEMMA CpuStepKeepsQueue ==
  ASSUME TypeInv, NEW c \in Cpus, CpuStep(c), where' = where \/ ~Move(c)
  PROVE  SameQueue
<1>1. where \in [Tasks -> Places] /\ dsq_vtime \in [Tasks -> Nat]
  BY DEF TypeInv, TypeOK, BpfTypeOK
<1>2. CASE UNCHANGED <<where, dsq_vtime>>
  BY <1>2 DEF SameQueue, Waiting
<1>3. CASE PutPrev(c)
  <2> DEFINE t == Current(c)
  <2>1. t \in Tasks /\ where[t] = "run"
    BY <1>3, CurrentRuns DEF PutPrev
  <2> HIDE DEF t
  <2>2. Stopping(t) /\ where' = [where EXCEPT ![t] = "enqueue"]
    BY <1>3 DEF PutPrev, t
  <2>3. /\ where'[t] = "enqueue"
        /\ \A u \in Tasks : u # t => where'[u] = where[u] /\ dsq_vtime'[u] = dsq_vtime[u]
    BY <1>1, <2>1, <2>2 DEF Stopping
  <2> QED
    BY <2>1, <2>3, OthersWait
<1>4. ASSUME NEW t \in Tasks, PickLocal(c, t)
      PROVE  SameQueue
  <2>1. where[t] = "local" /\ where'[t] = "run" /\ dsq_vtime' = dsq_vtime
    BY <1>1, <1>4 DEF PickLocal, Local, clockVars
  <2>2. \A u \in Tasks : u # t => where'[u] = where[u]
    BY <1>1, <1>4 DEF PickLocal
  <2> QED
    BY <2>1, <2>2, OthersWait
<1> QED
  BY <1>2, <1>3, <1>4
  DEF CpuStep, Expire, WakeUp, Balance, Iterate, ReadVtime, ReadGlobal, RaiseGlobal, Move,
      PutDone, PickIdle, clockVars, taskVars

\* ... and never changes what another one does.
LEMMA OtherCpuSame ==
  ASSUME TypeInv, NEW c \in Cpus, CpuStep(c), NEW d \in Cpus, d # c
  PROVE  mode'[d] = mode[d] /\ reg'[d] = reg[d] /\ SameCpu(d)
<1>1. /\ mode \in [Cpus -> Modes] /\ newer \in [Cpus -> SUBSET Tasks]
      /\ reg \in [Cpus -> Regs]
  BY DEF TypeInv, TypeOK, BpfTypeOK, Regs
<1>2. mode'[d] = mode[d] /\ reg'[d] = reg[d] /\ newer'[d] = newer[d]
  BY <1>1
  DEF CpuStep, Expire, WakeUp, Balance, Iterate, ReadVtime, ReadGlobal, RaiseGlobal, Move, PutPrev,
      PutDone, PickLocal, PickIdle, SetMode
<1> QED
  BY <1>2 DEF SameCpu, Iterating

\* The task a CPU moves, seen from outside.
LEMMA MoveSeen ==
  ASSUME TypeInv, NEW c \in Cpus, Move(c), where' # where
  PROVE  /\ Iterating(c) /\ ~Iterating(c)' /\ newer'[c] = {}
         /\ reg[c].p \in Waiting \ newer[c]
         /\ Waiting' = Waiting \ {reg[c].p} /\ dsq_vtime' = dsq_vtime
<1>1. /\ mode \in [Cpus -> Modes] /\ newer \in [Cpus -> SUBSET Tasks]
      /\ where \in [Tasks -> Places]
  BY DEF TypeInv, TypeOK, BpfTypeOK
<1>2. mode[c] = "move" /\ reg[c].p \in Tasks
  BY DEF Move, TypeInv, RegsHeld
<1>3. /\ \E i \in DOMAIN queue : queue[i] = reg[c].p
      /\ reg[c].p \notin newer[c]
      /\ where' = [where EXCEPT ![reg[c].p] = "local"]
      /\ newer' = [newer EXCEPT ![c] = {}] /\ SetMode(c, "pick")
  BY DEF Move
<1>4. where[reg[c].p] = "shared"
  BY <1>2, <1>3 DEF TypeInv, QueueOrdered
<1>5. Iterating(c) /\ ~Iterating(c)' /\ newer'[c] = {}
  BY <1>1, <1>2, <1>3 DEF Iterating, SetMode
<1>6. Waiting' = Waiting \ {reg[c].p}
  BY <1>1, <1>2, <1>3 DEF Waiting
<1>7. dsq_vtime' = dsq_vtime
  BY DEF Move, clockVars
<1> QED
  BY <1>2, <1>3, <1>4, <1>5, <1>6, <1>7 DEF Waiting

\* A CPU that goes on holding what it held holds the least while nothing that
\* it may take arrives.
LEMMA StillLeast ==
  ASSUME NEW d \in Cpus,
         mode[d] \in {"vtime", "global", "cas", "move"} /\ reg[d].p \in Waiting \ newer[d] =>
           \A u \in Waiting \ newer[d] : dsq_vtime[reg[d].p] <= dsq_vtime[u],
         mode'[d] \in {"vtime", "global", "cas", "move"} => mode[d] \in {"vtime", "global", "cas", "move"},
         reg'[d].p = reg[d].p,
         Waiting' \ newer'[d] \subseteq Waiting \ newer[d],
         \A u \in Waiting \ newer[d] : dsq_vtime'[u] = dsq_vtime[u]
  PROVE  mode'[d] \in {"vtime", "global", "cas", "move"} /\ reg'[d].p \in Waiting' \ newer'[d] =>
           \A u \in Waiting' \ newer'[d] : dsq_vtime'[reg'[d].p] <= dsq_vtime'[u]
OBVIOUS

\* The first task that a CPU comes to has the least vtime.
LEMMA FirstIsLeast ==
  ASSUME TypeInv, NEW c \in Cpus, Iterate(c), mode'[c] = "vtime"
  PROVE  \A u \in Waiting \ newer[c] : dsq_vtime[reg'[c].p] <= dsq_vtime[u]
<1>1. /\ mode \in [Cpus -> Modes] /\ reg \in [Cpus -> Regs]
      /\ dsq_vtime \in [Tasks -> Nat]
      /\ DOMAIN queue = 1..Len(queue) /\ Len(queue) \in Nat
      /\ \A i \in DOMAIN queue : queue[i] \in Tasks
  BY DEF TypeInv, TypeOK, BpfTypeOK, Regs
<1>2. PICK i \in Visible(c) : /\ \A j \in Visible(c) : i <= j
                             /\ reg' = [reg EXCEPT ![c].p = queue[i]]
  BY <1>1 DEF Iterate, SetMode
<1>3. i \in DOMAIN queue /\ reg'[c].p = queue[i]
  BY <1>1, <1>2 DEF Visible, Regs
<1>4. SUFFICES ASSUME NEW u \in Waiting \ newer[c]
               PROVE  dsq_vtime[queue[i]] <= dsq_vtime[u]
  BY <1>3
<1>5. PICK j \in DOMAIN queue : queue[j] = u
  BY DEF Waiting, TypeInv, QueueOrdered
<1>6. i <= j
  BY <1>2, <1>5 DEF Visible
<1>7. i < j => dsq_vtime[queue[i]] <= dsq_vtime[queue[j]]
  BY <1>3 DEF TypeInv, QueueOrdered
<1>8. dsq_vtime[queue[i]] \in Nat
  BY <1>1, <1>3
<1> QED
  BY <1>1, <1>3, <1>5, <1>6, <1>7, <1>8

LEMMA NextHeldIsLeast == TypeInv /\ Visits /\ HeldIsLeast /\ [Next]_vars => HeldIsLeast'
<1> SUFFICES ASSUME TypeInv, HeldIsLeast, [Next]_vars, NEW d \in Cpus
             PROVE  mode'[d] \in {"vtime", "global", "cas", "move"} /\ reg'[d].p \in Waiting' \ newer'[d] =>
                      \A u \in Waiting' \ newer'[d] : dsq_vtime'[reg'[d].p] <= dsq_vtime'[u]
  BY DEF HeldIsLeast
<1> DEFINE Goal == mode'[d] \in {"vtime", "global", "cas", "move"} /\ reg'[d].p \in Waiting' \ newer'[d] =>
                     \A u \in Waiting' \ newer'[d] : dsq_vtime'[reg'[d].p] <= dsq_vtime'[u]
<1>1. mode[d] \in {"vtime", "global", "cas", "move"} /\ reg[d].p \in Waiting \ newer[d] =>
        \A u \in Waiting \ newer[d] : dsq_vtime[reg[d].p] <= dsq_vtime[u]
  BY DEF HeldIsLeast
<1>2. /\ mode \in [Cpus -> Modes] /\ newer \in [Cpus -> SUBSET Tasks]
      /\ reg \in [Cpus -> Regs]
  BY DEF TypeInv, TypeOK, BpfTypeOK, Regs
<1>3. CASE /\ SameQueue /\ newer'[d] = newer[d] /\ reg'[d].p = reg[d].p
           /\ mode'[d] \in {"vtime", "global", "cas", "move"} => mode[d] \in {"vtime", "global", "cas", "move"}
  BY <1>1, <1>3, StillLeast DEF SameQueue
<1>4. ASSUME NEW t \in Tasks, AnyTaskStep(t)
      PROVE  Goal
  <2>1. CASE Insert(t)
    <3>1. Waiting' \ newer'[d] \subseteq Waiting \ newer[d] \/ ~Iterating(d)
      BY <2>1, InsertSeen
    <3>2. \A u \in Waiting : dsq_vtime'[u] = dsq_vtime[u]
      BY <2>1, InsertSeen DEF Waiting
    <3>3. mode'[d] = mode[d] /\ reg'[d] = reg[d]
      BY <2>1, InsertSeen
    <3>4. CASE Iterating(d)
      BY <1>1, <3>1, <3>2, <3>3, <3>4, StillLeast
    <3> QED
      BY <3>3, <3>4 DEF Iterating
  <2>2. CASE ~Insert(t)
    <3>1. SameQueue /\ newer'[d] = newer[d] /\ reg' = reg
      BY <1>4, <2>2, TaskStepUnseen DEF SameCpu
    <3>2. mode'[d] \in {"vtime", "global", "cas", "move"} => mode[d] \in {"vtime", "global", "cas", "move"}
      BY <1>4, TaskStepCpus
    <3> QED
      BY <1>3, <3>1, <3>2
  <2> QED
    BY <2>1, <2>2
<1>5. ASSUME NEW c \in Cpus, CpuStep(c)
      PROVE  Goal
  <2>1. CASE d = c /\ (ReadVtime(c) \/ ReadGlobal(c) \/ RaiseGlobal(c))
    <3>1. SameQueue
      BY <1>5, <2>1, CpuStepKeepsQueue DEF ReadVtime, ReadGlobal, RaiseGlobal, taskVars
    <3>2. newer' = newer /\ reg'[c].p = reg[c].p /\ mode[c] \in {"vtime", "global", "cas"}
      BY <1>2, <2>1 DEF ReadVtime, ReadGlobal, RaiseGlobal, Regs
    <3> QED
      BY <1>3, <2>1, <3>1, <3>2
  <2>2. CASE d = c /\ Iterate(c)
    <3>1. SameQueue
      BY <1>5, <2>2, CpuStepKeepsQueue DEF Iterate, taskVars
    <3>2. mode'[c] \in {"pick", "vtime"}
      BY <1>2, <2>2 DEF Iterate, SetMode
    <3>3. mode'[c] = "vtime" => newer' = newer
      BY <1>2, <2>2 DEF Iterate, SetMode
    <3>4. mode'[c] = "vtime" => \A u \in Waiting \ newer[c] : dsq_vtime[reg'[c].p] <= dsq_vtime[u]
      BY <2>2, FirstIsLeast
    <3> QED
      BY <2>2, <3>1, <3>2, <3>3, <3>4 DEF SameQueue
  <2>3. CASE d = c /\ ~(ReadVtime(c) \/ ReadGlobal(c) \/ RaiseGlobal(c) \/ Iterate(c))
    <3>1. mode'[c] \notin {"vtime", "global", "cas", "move"}
      BY <1>2, <1>5, <2>3
      DEF CpuStep, Expire, WakeUp, Balance, Move, PutPrev, PutDone, PickLocal, PickIdle,
          SetMode
    <3> QED
      BY <2>3, <3>1
  <2>4. CASE d # c
    <3>1. mode'[d] = mode[d] /\ reg'[d] = reg[d] /\ newer'[d] = newer[d]
      BY <1>5, <2>4, OtherCpuSame DEF SameCpu
    <3>2. Waiting' \subseteq Waiting /\ \A u \in Waiting : dsq_vtime'[u] = dsq_vtime[u]
      <4>1. CASE Move(c) /\ where' # where
        BY <4>1, MoveSeen
      <4>2. CASE where' = where \/ ~Move(c)
        BY <1>5, <4>2, CpuStepKeepsQueue DEF SameQueue
      <4> QED
        BY <4>1, <4>2
    <3> QED
      BY <1>1, <3>1, <3>2, StillLeast
  <2> QED
    BY <2>1, <2>2, <2>3, <2>4
<1>6. CASE LoaderMoves
  <2>1. CASE Detach
    BY <2>1 DEF Detach
  <2>2. CASE ~Detach
    <3>1. UNCHANGED <<where, dsq_vtime, mode, reg, newer>>
      BY <1>6, <2>2
      DEF LoaderMoves, Entered, Stalled, Bootstrap, Attach, LoopEnds, Cleanup, DestroyLink, Report, Signal,
          Eject, vars, bpfVars, taskVars, cpuVars, clockVars
    <3> QED
      BY <1>3, <3>1 DEF SameQueue, Waiting
  <2> QED
    BY <2>1, <2>2
<1> QED
  BY <1>4, <1>5, <1>6, StepCases DEF TaskTurn

LEMMA StepImplementsQueue ==
  ASSUME QueueInv, [Next]_vars
  PROVE  [Queue!Next]_(Queue!vars)
<1>1. /\ mode \in [Cpus -> Modes] /\ newer \in [Cpus -> SUBSET Tasks]
      /\ where \in [Tasks -> Places] /\ TypeInv /\ Visits
  BY DEF QueueInv, TypeInv, TypeOK, BpfTypeOK
<1>2. ASSUME NEW t \in Tasks, AnyTaskStep(t)
      PROVE  [Queue!Next]_(Queue!vars)
  <2>1. CASE ~Insert(t)
    BY <1>1, <1>2, <2>1, TaskStepUnseen, QueueUnseen
  <2>2. CASE Insert(t)
    <3>1. /\ t \notin Waiting /\ Waiting' = Waiting \cup {t}
          /\ dsq_vtime'[t] \in Nat
          /\ \A u \in Tasks : u # t => dsq_vtime'[u] = dsq_vtime[u]
          /\ mode' = mode
          /\ \A d \in Cpus : newer'[d] = IF Iterating(d) THEN newer[d] \cup {t} ELSE newer[d]
      BY <1>1, <2>2, InsertSeen
    <3>2. WaitingVtime'[t] \in Nat
      BY <3>1, QueueView
    <3>3. WaitingVtime' = [WaitingVtime EXCEPT ![t] = WaitingVtime'[t]]
      BY <3>1, QueueView
    <3>4. Looking' = Looking
      BY <3>1 DEF Looking, Iterating
    <3>5. Since' = Since
      <4>1. \A d \in Looking : Waiting' \ newer'[d] = Waiting \ newer[d]
        BY <3>1 DEF Looking
      <4> QED
        BY <3>4, <4>1, QueueView
    <3>6. Queue!Arrive(t)
      BY <3>1, <3>2, <3>3, <3>4, <3>5 DEF Queue!Arrive
    <3> QED
      BY <3>6 DEF Queue!Next
  <2> QED
    BY <2>1, <2>2
<1>3. ASSUME NEW c \in Cpus, CpuStep(c)
      PROVE  [Queue!Next]_(Queue!vars)
  <2>1. \A d \in Cpus : d # c => Iterating(d)' = Iterating(d) /\ newer'[d] = newer[d]
    BY <1>1, <1>3, OtherCpuSame DEF SameCpu
  <2>2. CASE Move(c) /\ where' # where
    <3> DEFINE t == reg[c].p
    <3>1. /\ Iterating(c) /\ ~Iterating(c)' /\ newer'[c] = {}
          /\ t \in Waiting \ newer[c]
          /\ Waiting' = Waiting \ {t} /\ dsq_vtime' = dsq_vtime
      BY <1>1, <2>2, MoveSeen
    <3>2. \A u \in Waiting \ newer[c] : dsq_vtime[t] <= dsq_vtime[u]
      BY <2>2, <3>1 DEF Move, QueueInv, HeldIsLeast
    <3> HIDE DEF t
    <3>3. t \in Tasks /\ c \in Looking /\ Since[c] = Waiting \ newer[c]
      BY <3>1, QueueView DEF Waiting, Looking
    <3>4. \A u \in Since[c] : WaitingVtime[t] <= WaitingVtime[u]
      BY <3>1, <3>2, <3>3, QueueView DEF Waiting
    <3>5. WaitingVtime' = [WaitingVtime EXCEPT ![t] = 0]
      BY <3>1, QueueView
    <3>6. Looking' = Looking \ {c}
      BY <2>1, <3>1 DEF Looking
    <3>7. Since' = [d \in Cpus |-> IF d = c THEN {} ELSE Since[d] \ {t}]
      <4>1. \A d \in Cpus : Since'[d] = IF d = c THEN {} ELSE Since[d] \ {t}
        BY <2>1, <3>1, <3>6, QueueView
      <4> QED
        BY <4>1, QueueView
    <3>8. Queue!Take(c, t)
      BY <3>1, <3>3, <3>4, <3>5, <3>6, <3>7 DEF Queue!Take
    <3> QED
      BY <3>3, <3>8 DEF Queue!Next
  <2>3. CASE where' = where \/ ~Move(c)
    <3>1. SameQueue /\ WaitingVtime' = WaitingVtime
      <4>1. SameQueue
        BY <1>1, <1>3, <2>3, CpuStepKeepsQueue
      <4> QED
        BY <4>1, QueueView DEF SameQueue
    <3>2. CASE SameCpu(c)
      BY <2>1, <3>1, <3>2, QueueUnseen DEF SameCpu
    <3>3. CASE Balance(c) /\ ~SameCpu(c)
      <4>1. /\ ~Iterating(c) /\ Iterating(c)' /\ newer' = newer /\ c # Cpu0
        BY <1>1, <3>3 DEF Balance, SetMode, SameCpu, Iterating
      <4>2. newer[c] = {}
        BY <1>1, <4>1 DEF Visits
      <4>3. c \notin Looking /\ Looking' = Looking \cup {c}
        BY <2>1, <4>1 DEF Looking
      <4>4. Since' = [Since EXCEPT ![c] = Waiting]
        BY <3>1, <4>1, <4>2, <4>3, QueueView DEF SameQueue
      <4>5. Queue!Look(c)
        BY <3>1, <4>1, <4>3, <4>4 DEF Queue!Look, SameQueue
      <4> QED
        BY <4>5 DEF Queue!Next
    <3>4. CASE Iterate(c) /\ ~SameCpu(c)
      <4>1. /\ Iterating(c) /\ Visible(c) = {} /\ ~Iterating(c)'
            /\ newer' = [newer EXCEPT ![c] = {}]
        BY <1>1, <3>4 DEF Iterate, SetMode, SameCpu, Iterating
      <4>2. Waiting \ newer[c] = {}
        BY <1>1, <4>1 DEF Visible, Waiting, TypeInv, QueueOrdered
      <4>3. c \in Looking /\ Since[c] = {} /\ Looking' = Looking \ {c}
        BY <2>1, <4>1, <4>2, QueueView DEF Looking
      <4>4. Since' = Since
        <5>1. \A d \in Cpus : Since'[d] = Since[d]
          BY <2>1, <3>1, <4>3, QueueView DEF SameQueue
        <5> QED
          BY <5>1, QueueView
      <4>5. Queue!GiveUp(c)
        BY <3>1, <4>3, <4>4 DEF Queue!GiveUp, SameQueue
      <4> QED
        BY <4>5 DEF Queue!Next
    <3>5. SameCpu(c) \/ Balance(c) \/ Iterate(c)
      <4>1. CASE Expire(c) \/ WakeUp(c) \/ PutPrev(c) \/ PutDone(c)
        BY <1>1, <4>1
        DEF Expire, WakeUp, PutPrev, PutDone, SetMode, SameCpu, Iterating
      <4>2. CASE PickIdle(c) \/ \E u \in Tasks : PickLocal(c, u)
        BY <1>1, <4>2 DEF PickIdle, PickLocal, SetMode, SameCpu, Iterating
      <4>3. CASE ReadVtime(c) \/ ReadGlobal(c) \/ RaiseGlobal(c)
        BY <1>1, <4>3 DEF ReadVtime, ReadGlobal, RaiseGlobal, SetMode, SameCpu, Iterating
      <4>4. CASE Move(c)
        <5> DEFINE t == reg[c].p
        <5>1. mode[c] = "move" /\ t \in Tasks
          BY <1>1, <4>4 DEF Move, TypeInv, RegsHeld
        <5>2. ~\E i \in DOMAIN queue : /\ queue[i] = t
                                      /\ where' = [where EXCEPT ![t] = "local"]
          BY <1>1, <2>3, <4>4, <5>1 DEF TypeInv, QueueOrdered
        <5>3. SetMode(c, "iterate") /\ newer' = newer
          BY <4>4, <5>2 DEF Move
        <5> QED
          BY <1>1, <5>1, <5>3 DEF SetMode, SameCpu, Iterating
      <4> QED
        BY <1>3, <4>1, <4>2, <4>3, <4>4 DEF CpuStep
    <3> QED
      BY <3>2, <3>3, <3>4, <3>5
  <2> QED
    BY <2>2, <2>3
<1>4. CASE LoaderMoves
  <2>1. CASE Detach
    <3>1. Waiting' = {} /\ Looking' = {}
      BY <2>1 DEF Detach, Waiting, Looking, Iterating
    <3>2. WaitingVtime' = Queue!NoVtime /\ Since' = Queue!Nothing
      BY <3>1, QueueView DEF Queue!NoVtime, Queue!Nothing
    <3> QED
      BY <3>1, <3>2 DEF Queue!Next, Queue!Stop
  <2>2. CASE ~Detach
    <3>1. UNCHANGED <<where, dsq_vtime, mode, newer>>
      BY <1>4, <2>2
      DEF LoaderMoves, Entered, Stalled, Bootstrap, Attach, LoopEnds, Cleanup, DestroyLink, Report, Signal,
          Eject, vars, bpfVars, taskVars, cpuVars, clockVars
    <3>2. SameQueue /\ \A d \in Cpus : SameCpu(d)
      BY <3>1 DEF SameQueue, SameCpu, Waiting, Iterating
    <3> QED
      BY <3>2, QueueUnseen
  <2> QED
    BY <2>1, <2>2
<1> QED
  BY <1>2, <1>3, <1>4, StepCases DEF TaskTurn

\* However many CPUs run serverless_dispatch and serverless_enqueue at once, the
\* shared queue is one from which a CPU takes the least vtime of the tasks that
\* were there when it began to look, each task once, and comes away without
\* one only when none of them is left.
THEOREM QueueIsImplemented == Spec => ImplementsQueue
<1>1. Init => QueueInv
  <2> SUFFICES ASSUME Init PROVE QueueInv
    OBVIOUS
  <2>1. Visits /\ HeldIsLeast
    BY DEF Init, BpfInit, Visits, Iterating, HeldIsLeast
  <2> QED
    BY <2>1, InitTypeInv DEF QueueInv
<1>2. QueueInv /\ [Next]_vars => QueueInv'
  BY NextTypeInv, NextVisits, NextHeldIsLeast DEF QueueInv
<1>3. Init => Queue!Init
  <2> SUFFICES ASSUME Init PROVE Queue!Init
    OBVIOUS
  <2>1. Waiting = {} /\ Looking = {}
    BY DEF Init, BpfInit, Waiting, Looking, Iterating
  <2> QED
    BY <2>1, QueueView DEF Queue!Init, Queue!NoVtime, Queue!Nothing
<1> QED
  BY <1>1, <1>2, <1>3, StepImplementsQueue, PTL DEF Spec, ImplementsQueue, Queue!Spec

===============================================================================
