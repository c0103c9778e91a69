--------------------------- MODULE ParseTraceProofs ---------------------------
(***************************************************************************)
(* Proofs about ParseTrace, for any pids, any relation between their       *)
(* digits that the assumptions allow, and any number of lines and losses.  *)
(***************************************************************************)
EXTENDS ParseTrace, FiniteSetTheorems, SequenceTheorems, NaturalsInduction,
        WellFoundedInduction, TLAPS

-------------------------------------------------------------------------------
(* What a scan of events computes. *)

Kinds == {"sched_process_fork", "sched_switch", "sched_migrate_task",
          "sched_process_exit"}
Events == [type : Kinds, pid : Pids \cup {Launcher}, next : Pids \cup {Launcher},
           ts : Nat]
Scans == [start : Nat, first : Nat, exit : Nat, migrations : Int]

\* A set of naturals that is not empty has a least element.
LEMMA LeastElement ==
  ASSUME NEW T \in SUBSET Nat, T # {}
  PROVE  \E n \in T : \A m \in T : n <= m
<1>1. PICK n \in T : \A m \in T : <<m, n>> \notin OpToRel(<, Nat)
  BY NatLessThanWellFounded, WFMin
<1>2. \A m \in T : ~(m < n)
  BY <1>1 DEF OpToRel
<1> QED
  BY <1>2

\* g holds the results of the scan after each of the first m events.
ScansTo(g, events, p, m) ==
  /\ DOMAIN g = 0..m /\ g = [k \in 0..m |-> g[k]]
  /\ g[0] = Unknown
  /\ \A k \in 1..m : g[k] = Step(g[k - 1], events[k], p)

LEMMA ScansExtend ==
  ASSUME NEW events, NEW p, NEW m \in Nat, m # 0, NEW g, ScansTo(g, events, p, m - 1)
  PROVE  \E h : ScansTo(h, events, p, m)
<1> DEFINE last == Step(g[m - 1], events[m], p)
           h == [k \in 0..m |-> IF k = m THEN last ELSE g[k]]
<1>1. 0 \in 0..m /\ 0 # m
  OBVIOUS
<1>2. h[0] = Unknown
  BY <1>1 DEF ScansTo
<1>3. ASSUME NEW k \in 1..m PROVE h[k] = Step(h[k - 1], events[k], p)
  <2>1. k - 1 \in 0..m /\ k - 1 # m /\ k \in 0..m
    OBVIOUS
  <2> HIDE DEF last
  <2>2. h[k - 1] = g[k - 1]
    BY <2>1
  <2>3. CASE k = m
    <3>1. h[k] = last
      BY <2>1, <2>3
    <3> QED
      BY <2>2, <2>3, <3>1 DEF last
  <2>4. CASE k # m
    <3>1. k \in 1..(m - 1)
      BY <2>4
    <3>2. g[k] = Step(g[k - 1], events[k], p)
      BY <3>1 DEF ScansTo
    <3>3. h[k] = g[k]
      BY <2>1, <2>4
    <3> QED
      BY <2>2, <3>2, <3>3
  <2> QED
    BY <2>3, <2>4
<1>4. DOMAIN h = 0..m /\ h = [k \in 0..m |-> h[k]]
  OBVIOUS
<1> HIDE DEF h
<1>5. ScansTo(h, events, p, m)
  BY <1>2, <1>3, <1>4 DEF ScansTo
<1> QED
  BY <1>5

LEMMA ScansExist ==
  ASSUME NEW events, NEW p, NEW n \in Nat
  PROVE  \E g : ScansTo(g, events, p, n)
<1> DEFINE T == {m \in 0..n : ~ \E g : ScansTo(g, events, p, m)}
<1> SUFFICES ASSUME T # {} PROVE FALSE
  OBVIOUS
<1>1. PICK m \in T : \A i \in T : m <= i
  <2>1. T \in SUBSET Nat
    OBVIOUS
  <2> QED
    BY <2>1, LeastElement
<1>2. CASE m = 0
  <2> DEFINE g == [k \in 0..0 |-> Unknown]
  <2>1. DOMAIN g = 0..0 /\ g = [k \in 0..0 |-> g[k]] /\ g[0] = Unknown
    OBVIOUS
  <2> HIDE DEF g
  <2>2. ScansTo(g, events, p, 0)
    BY <2>1 DEF ScansTo
  <2> QED
    BY <1>1, <1>2, <2>2
<1>3. CASE m # 0
  <2>1. m \in Nat /\ m - 1 \in 0..n /\ ~(m <= m - 1)
    BY <1>3
  <2>2. PICK g : ScansTo(g, events, p, m - 1)
    BY <1>1, <2>1
  <2>3. \E h : ScansTo(h, events, p, m)
    BY <1>3, <2>1, <2>2, ScansExtend
  <2> QED
    BY <2>3
<1> QED
  BY <1>2, <1>3

\* ScanTo is such a function ...
LEMMA ScanToScans ==
  ASSUME NEW events, NEW p, Len(events) \in Nat
  PROVE  ScansTo(ScanTo(events, p), events, p, Len(events))
<1> DEFINE n == Len(events)
           Is(g) == g = [k \in 0..n |-> IF k = 0 THEN Unknown
                                        ELSE Step(g[k - 1], events[k], p)]
<1>1. ScanTo(events, p) = CHOOSE g : Is(g)
  BY DEF ScanTo
<1>2. n \in Nat
  OBVIOUS
<1> HIDE DEF n
<1>3. ASSUME NEW g, ScansTo(g, events, p, n) PROVE Is(g)
  <2>1. ASSUME NEW k \in 0..n
        PROVE  g[k] = IF k = 0 THEN Unknown ELSE Step(g[k - 1], events[k], p)
    <3>1. k = 0 \/ k \in 1..n
      BY <1>2
    <3> QED
      BY <1>3, <3>1 DEF ScansTo
  <2>2. g = [k \in 0..n |-> g[k]]
    BY <1>3 DEF ScansTo
  <2> QED
    BY <2>1, <2>2
<1>4. \E g : Is(g)
  BY <1>2, <1>3, ScansExist
<1> HIDE DEF Is
<1>5. Is(ScanTo(events, p))
  BY <1>1, <1>4
<1>6. ASSUME NEW g, Is(g) PROVE ScansTo(g, events, p, n)
  <2>1. DOMAIN g = 0..n /\ g = [k \in 0..n |-> g[k]]
    BY <1>6 DEF Is
  <2>2. \A k \in 0..n : g[k] = IF k = 0 THEN Unknown ELSE Step(g[k - 1], events[k], p)
    BY <1>6 DEF Is
  <2>3. g[0] = Unknown /\ \A k \in 1..n : g[k] = Step(g[k - 1], events[k], p)
    BY <1>2, <2>2
  <2> QED
    BY <2>1, <2>3 DEF ScansTo
<1> QED
  BY <1>5, <1>6 DEF n

\* ... and there is only one.
LEMMA ScansUnique ==
  ASSUME NEW e1, NEW e2, NEW p, NEW m \in Nat, NEW n \in Nat, NEW l \in Nat, l <= m, l <= n,
         \A k \in 1..l : e1[k] = e2[k],
         NEW g, NEW h, ScansTo(g, e1, p, m), ScansTo(h, e2, p, n)
  PROVE  g[l] = h[l]
<1> DEFINE T == {k \in 0..l : g[k] # h[k]}
<1> SUFFICES ASSUME T # {} PROVE FALSE
  OBVIOUS
<1>1. PICK k \in T : \A i \in T : k <= i
  <2>1. T \in SUBSET Nat
    OBVIOUS
  <2> QED
    BY <2>1, LeastElement
<1>2. k # 0
  BY DEF ScansTo
<1>3. k \in 1..l /\ k \in 1..m /\ k \in 1..n /\ k - 1 \in 0..l /\ ~(k <= k - 1)
  BY <1>2
<1>4. g[k - 1] = h[k - 1]
  BY <1>1, <1>3
<1>5. g[k] = Step(g[k - 1], e1[k], p) /\ h[k] = Step(h[k - 1], e2[k], p)
  BY <1>3 DEF ScansTo
<1>6. g[k] = h[k]
  BY <1>3, <1>4, <1>5
<1> QED
  BY <1>6

LEMMA ScanEmpty ==
  ASSUME NEW p
  PROVE  Scan(<<>>, p) = Unknown
<1>1. Len(<<>>) = 0
  BY EmptySeq
<1>2. ScansTo(ScanTo(<<>>, p), <<>>, p, 0)
  BY <1>1, ScanToScans
<1> QED
  BY <1>1, <1>2 DEF Scan, ScansTo

\* The scan goes on with an event from where it was.
LEMMA ScanAppend ==
  ASSUME NEW events \in Seq(Events), NEW e \in Events, NEW p
  PROVE  Scan(Append(events, e), p) = Step(Scan(events, p), e, p)
<1> DEFINE n == Len(events)
           more == Append(events, e)
<1>1. /\ n \in Nat /\ Len(more) = n + 1 /\ more[n + 1] = e
      /\ \A k \in 1..n : events[k] = more[k]
  BY AppendProperties, LenProperties
<1> HIDE DEF n, more
<1>2. ScansTo(ScanTo(events, p), events, p, n)
  BY <1>1, ScanToScans DEF n
<1>3. ScansTo(ScanTo(more, p), more, p, n + 1)
  BY <1>1, ScanToScans
<1>4. ScanTo(events, p)[n] = ScanTo(more, p)[n]
  <2>1. n \in Nat /\ n + 1 \in Nat /\ n <= n /\ n <= n + 1
    BY <1>1
  <2>2. \A k \in 1..n : events[k] = more[k]
    BY <1>1
  <2> DEFINE g == ScanTo(events, p)
             h == ScanTo(more, p)
  <2>3. ScansTo(g, events, p, n) /\ ScansTo(h, more, p, n + 1)
    BY <1>2, <1>3
  <2> HIDE DEF g, h
  <2>4. g[n] = h[n]
    BY <2>1, <2>2, <2>3, ScansUnique
  <2> QED
    BY <2>4 DEF g, h
<1>5. ScanTo(more, p)[n + 1] = Step(ScanTo(more, p)[(n + 1) - 1], more[n + 1], p)
  <2>1. n + 1 \in 1..(n + 1)
    BY <1>1
  <2> QED
    BY <1>3, <2>1, Zenon DEF ScansTo
<1>6. (n + 1) - 1 = n
  BY <1>1
<1>7. ScanTo(more, p)[Len(more)] = Step(ScanTo(events, p)[n], e, p)
  BY <1>1, <1>4, <1>5, <1>6
<1> QED
  BY <1>7 DEF Scan, n, more

-------------------------------------------------------------------------------
(* What an event does to the scan for a pid. *)

\* The process a line is about.
Subject(e) == IF e.type \in {"sched_process_fork", "sched_switch"} THEN e.next ELSE e.pid

LEMMA StepDone ==
  ASSUME NEW s, NEW e, NEW p, s.exit # None
  PROVE  Step(s, e, p) = s
BY DEF Step

LEMMA StepOther ==
  ASSUME NEW s, NEW e \in Events, NEW p, ~Names(p, Subject(e))
  PROVE  Step(s, e, p) = s
<1>1. ~Forked(s, e, p) /\ ~Scheduled(s, e, p)
  BY DEF Subject, Forked, Scheduled
<1>2. ~Exited(s, e, p) /\ ~(e.type = "sched_migrate_task" /\ Names(p, e.pid))
  BY DEF Subject, Exited
<1> QED
  BY <1>1, <1>2 DEF Step

LEMMA StepFork ==
  ASSUME NEW s \in Scans, NEW e \in Events, NEW p,
         e.type = "sched_process_fork", Names(p, e.next), s.exit = None
  PROVE  Step(s, e, p) = IF s.start = None THEN [s EXCEPT !.start = e.ts] ELSE s
<1>1. Forked(s, e, p) <=> s.start = None
  BY DEF Forked
<1>2. ~Scheduled(s, e, p) /\ ~Exited(s, e, p) /\ e.type # "sched_migrate_task"
  BY DEF Scheduled, Exited
<1> QED
  BY <1>1, <1>2 DEF Step

LEMMA StepSwitch ==
  ASSUME NEW s \in Scans, NEW e \in Events, NEW p,
         e.type = "sched_switch", Names(p, e.next), s.exit = None
  PROVE  Step(s, e, p) = IF s.start # None /\ s.first = None
                         THEN [s EXCEPT !.first = e.ts] ELSE s
<1>1. Scheduled(s, e, p) <=> s.start # None /\ s.first = None
  BY DEF Scheduled
<1>2. ~Forked(s, e, p) /\ ~Exited(s, e, p) /\ e.type # "sched_migrate_task"
  BY DEF Forked, Exited
<1> QED
  BY <1>1, <1>2 DEF Step

LEMMA StepExit ==
  ASSUME NEW s \in Scans, NEW e \in Events, NEW p,
         e.type = "sched_process_exit", Names(p, e.pid), s.exit = None
  PROVE  Step(s, e, p) = IF s.first # None THEN [s EXCEPT !.exit = e.ts] ELSE s
<1>1. Exited(s, e, p) <=> s.first # None
  BY DEF Exited
<1>2. ~Forked(s, e, p) /\ ~Scheduled(s, e, p) /\ e.type # "sched_migrate_task"
  BY DEF Forked, Scheduled
<1> QED
  BY <1>1, <1>2 DEF Step

LEMMA StepMigrate ==
  ASSUME NEW s \in Scans, NEW e \in Events, NEW p,
         e.type = "sched_migrate_task", Names(p, e.pid), s.exit = None
  PROVE  Step(s, e, p) = [s EXCEPT !.migrations = @ + 1]
<1>1. ~Forked(s, e, p) /\ ~Scheduled(s, e, p) /\ ~Exited(s, e, p)
  BY DEF Forked, Scheduled, Exited
<1> QED
  BY <1>1 DEF Step

LEMMA StepScans ==
  ASSUME NEW s \in Scans, NEW e \in Events, NEW p
  PROVE  Step(s, e, p) \in Scans
<1>1. e.ts \in Nat
  BY DEF Events
<1>2. /\ [s EXCEPT !.start = e.ts] \in Scans /\ [s EXCEPT !.first = e.ts] \in Scans
      /\ [s EXCEPT !.exit = e.ts] \in Scans /\ [s EXCEPT !.migrations = @ + 1] \in Scans
  BY <1>1 DEF Scans
<1> QED
  BY <1>2 DEF Step

-------------------------------------------------------------------------------
(* What the search does with a line. *)

SearchTypes ==
  /\ pids_str \subseteq WorkPids
  /\ workload_events \in [WorkPids -> Seq(Events)]

\* A process that is looked for gets the lines about it, and is looked for until
\* its exit.
LEMMA ReadLine ==
  ASSUME SearchTypes, NEW e \in Events, Read(e), NEW p \in WorkPids
  PROVE  /\ \/ workload_events'[p] = workload_events[p]
            \/ workload_events'[p] = Append(workload_events[p], e)
         /\ p = Subject(e) /\ p \in pids_str =>
              workload_events'[p] = Append(workload_events[p], e)
         /\ p \notin pids_str => workload_events'[p] = workload_events[p]
         /\ p \in pids_str' <=> p \in pids_str /\ ~ExitOf(e, p)
<1> DEFINE found == {q \in pids_str : Mentions(e, q)}
           exits == {q \in found : ExitOf(e, q)}
<1>1. PICK K \in Kept(e) :
        /\ workload_events' = [q \in WorkPids |->
              IF q \in K THEN Append(workload_events[q], e) ELSE workload_events[q]]
        /\ pids_str' = pids_str \ {q \in K : ExitOf(e, q)}
  BY DEF Read
<1>2. K \subseteq found /\ (exits = {} => K = found) /\ (exits # {} => K \cap exits # {})
  BY DEF Kept
<1>3. K \subseteq pids_str
  BY <1>2
<1>4. <<p, p>> \in Within
  BY TraceAssumption
<1>5. p = Subject(e) => Mentions(e, p)
  BY <1>4 DEF Subject, Mentions
<1>6. ExitOf(e, p) => p = Subject(e)
  BY DEF ExitOf, Subject
<1>7. p = Subject(e) /\ p \in pids_str => p \in K
  <2> SUFFICES ASSUME p = Subject(e), p \in pids_str PROVE p \in K
    OBVIOUS
  <2>1. p \in found
    BY <1>5
  <2>2. CASE exits = {}
    BY <1>2, <2>1, <2>2
  <2>3. CASE exits # {}
    <3>1. PICK q \in K : q \in exits
      BY <1>2, <2>3
    <3>2. e.type = "sched_process_exit" /\ e.pid = q
      BY <3>1 DEF ExitOf
    <3>3. q = p
      BY <3>2 DEF Subject
    <3> QED
      BY <3>1, <3>3
  <2> QED
    BY <2>2, <2>3
<1>8. p \in pids_str' <=> p \in pids_str /\ ~ExitOf(e, p)
  BY <1>1, <1>3, <1>6, <1>7
<1>9. workload_events'[p] = IF p \in K THEN Append(workload_events[p], e) ELSE workload_events[p]
  BY <1>1
<1> QED
  BY <1>3, <1>7, <1>8, <1>9

LEMMA ReadTypes == ASSUME SearchTypes, NEW e \in Events, Read(e) PROVE SearchTypes'
<1>1. PICK K \in Kept(e) :
        /\ workload_events' = [q \in WorkPids |->
              IF q \in K THEN Append(workload_events[q], e) ELSE workload_events[q]]
        /\ pids_str' = pids_str \ {q \in K : ExitOf(e, q)}
  BY DEF Read
<1>2. ASSUME NEW q \in WorkPids
      PROVE  /\ workload_events[q] \in Seq(Events)
             /\ Append(workload_events[q], e) \in Seq(Events)
  BY AppendProperties DEF SearchTypes
<1>3. workload_events' \in [WorkPids -> Seq(Events)]
  BY <1>1, <1>2
<1> QED
  BY <1>1, <1>3 DEF SearchTypes

-------------------------------------------------------------------------------
(* The kernel: what is true of the lives of the processes. *)

Lives == [start : Nat, first : Nat, exit : Nat, migrations : Nat]

KernelTypes ==
  /\ now \in Nat
  /\ lives \in [Pids -> Nat] /\ life \in [Pids -> Lives]
  /\ alive \subseteq Pids /\ oncpu \subseteq alive

\* Times are in their order, and a pid is used again only after an exit.
Living(p) ==
  /\ lives[p] = 0 => life[p] = NoLife /\ p \notin alive
  /\ lives[p] > 0 => 0 < life[p].start /\ life[p].start <= now
  /\ life[p].first # 0 => life[p].start < life[p].first /\ life[p].first <= now
  /\ life[p].exit # 0 =>
       life[p].first # 0 /\ life[p].first < life[p].exit /\ life[p].exit <= now
  /\ lives[p] = 1 => (p \in alive <=> life[p].exit = 0)
  /\ lives[p] > 1 => life[p].exit # 0
  /\ p \in oncpu => life[p].first # 0

KernelInv == KernelTypes /\ \A p \in Pids : Living(p)

\* What a line is: a step of the kernel that the parser reads, or does not.
Emitted(e) ==
  /\ e \in Events /\ e.ts = now + 1
  /\ pc = "read" /\ now' = now + 1 /\ UNCHANGED <<pc, resultVars>>
  /\ \/ Read(e) /\ UNCHANGED <<lost, lostEnd>>
     \/ /\ UNCHANGED <<pids_str, workload_events>>
        /\ lost' = lost \cup ({Subject(e)} \cap Pids)
        /\ lostEnd' = IF e.type = "sched_process_exit" /\ lives[Subject(e)] = 1
                      THEN lostEnd \cup {Subject(e)} ELSE lostEnd

LEMMA EmitsLine ==
  ASSUME now \in Nat, NEW type \in Kinds, NEW pid \in Pids \cup {Launcher},
         NEW next \in Pids \cup {Launcher}, NEW p, Emit(type, pid, next, p),
         p = IF type \in {"sched_process_fork", "sched_switch"} THEN next ELSE pid
  PROVE  LET e == Event(type, pid, next, now + 1)
         IN /\ Emitted(e) /\ e.type = type /\ e.pid = pid /\ e.next = next
            /\ e.ts = now + 1 /\ Subject(e) = p
<1> DEFINE e == Event(type, pid, next, now + 1)
<1>1. e \in Events /\ e.type = type /\ e.pid = pid /\ e.next = next /\ e.ts = now + 1
  BY DEF Event, Events
<1>2. Subject(e) = p
  BY <1>1 DEF Subject
<1> HIDE DEF e
<1>3. \/ Read(e) /\ UNCHANGED <<lost, lostEnd>>
      \/ /\ UNCHANGED <<pids_str, workload_events>> /\ lost' = lost \cup ({p} \cap Pids)
         /\ lostEnd' = IF type = "sched_process_exit" /\ lives[p] = 1
                       THEN lostEnd \cup {p} ELSE lostEnd
  BY DEF Emit, e
<1>4. pc = "read" /\ now' = now + 1 /\ UNCHANGED <<pc, resultVars>>
  BY DEF Emit
<1>5. Emitted(e)
  BY <1>1, <1>2, <1>3, <1>4 DEF Emitted
<1> QED
  BY <1>1, <1>2, <1>5 DEF e

\* A process in the kernel is not changed by lines about others.
Untouched(p) ==
  /\ lives'[p] = lives[p] /\ life'[p] = life[p]
  /\ p \in alive' <=> p \in alive
  /\ p \in oncpu' => p \in oncpu

LEMMA UntouchedLives ==
  ASSUME KernelTypes, NEW p \in Pids, Living(p), Untouched(p), now' = now + 1
  PROVE  Living(p)'
<1>1. life[p] \in Lives /\ now \in Nat
  BY DEF KernelTypes
<1>2. life[p].start \in Nat /\ life[p].first \in Nat /\ life[p].exit \in Nat
  BY <1>1 DEF Lives
<1> QED
  BY <1>1, <1>2 DEF Living, Untouched

LEMMA ForkLives ==
  ASSUME KernelInv, NEW p \in Pids, Fork(p)
  PROVE  /\ KernelInv'
         /\ \A x \in Pids \ {p} : Untouched(x)
         /\ lives'[p] = lives[p] + 1 /\ p \notin alive
         /\ lives[p] = 0 => life'[p] = [NoLife EXCEPT !.start = now + 1]
         /\ lives[p] # 0 => life'[p] = life[p] /\ life[p].exit # 0
<1>1. /\ p \notin alive /\ alive' = alive \cup {p} /\ oncpu' = oncpu /\ now' = now + 1
      /\ lives' = [lives EXCEPT ![p] = @ + 1]
      /\ life' = IF lives[p] + 1 = 1 THEN [life EXCEPT ![p] = [life[p] EXCEPT !.start = now + 1]]
                 ELSE life
  BY DEF Fork, Record, Emit
<1>2. KernelTypes /\ Living(p) /\ now \in Nat /\ lives[p] \in Nat /\ life[p] \in Lives
  BY DEF KernelInv, KernelTypes
<1> DEFINE new == [life[p] EXCEPT !.start = now + 1]
<1>3. new \in Lives
  BY <1>2 DEF Lives
<1> HIDE DEF new
<1>4. life' = IF lives[p] = 0 THEN [life EXCEPT ![p] = new] ELSE life
  BY <1>1, <1>2 DEF new
<1>5. KernelTypes'
  BY <1>1, <1>2, <1>3, <1>4 DEF KernelTypes
<1>6. ASSUME NEW x \in Pids \ {p} PROVE Untouched(x)
  BY <1>1, <1>2, <1>4 DEF Untouched, KernelTypes
<1>7. lives'[p] = lives[p] + 1 /\ life'[p] = IF lives[p] = 0 THEN new ELSE life[p]
  BY <1>1, <1>2, <1>4 DEF KernelTypes
<1>8. lives[p] = 0 => life[p] = NoLife
  BY <1>2 DEF Living
<1>9. lives[p] = 0 => /\ life'[p] = [NoLife EXCEPT !.start = now + 1]
                      /\ life'[p].start = now + 1 /\ life'[p].first = 0
                      /\ life'[p].exit = 0
  BY <1>7, <1>8 DEF new, NoLife, Unknown, None
<1>10. lives[p] # 0 => life'[p] = life[p] /\ life[p].exit # 0
  BY <1>1, <1>2, <1>7 DEF Living
<1>11. life[p].start \in Nat /\ life[p].first \in Nat /\ life[p].exit \in Nat
  BY <1>2 DEF Lives
<1>12. p \notin oncpu'
  BY <1>1, <1>2 DEF KernelTypes
<1>13. Living(p)'
  <2>1. CASE lives[p] = 0
    BY <1>1, <1>2, <1>7, <1>9, <1>12, <2>1 DEF Living
  <2>2. CASE lives[p] # 0
    BY <1>1, <1>2, <1>7, <1>10, <1>11, <1>12, <2>2 DEF Living
  <2> QED
    BY <2>1, <2>2
<1>14. ASSUME NEW x \in Pids PROVE Living(x)'
  <2>1. CASE x = p
    BY <1>13, <2>1
  <2>2. CASE x # p
    BY <1>1, <1>2, <1>6, <2>2, UntouchedLives DEF KernelInv
  <2> QED
    BY <2>1, <2>2
<1> QED
  BY <1>5, <1>6, <1>7, <1>9, <1>10, <1>1, <1>14 DEF KernelInv

LEMMA SwitchLives ==
  ASSUME KernelInv, NEW q \in Pids \cup {Launcher}, NEW p \in Pids \cup {Launcher},
         Switch(q, p)
  PROVE  /\ KernelInv'
         /\ \A x \in Pids \ {p} : Untouched(x)
         /\ lives' = lives
         /\ p \in Pids =>
              /\ lives[p] > 0
              /\ life[p].first = 0 =>
                   lives[p] = 1 /\ life'[p] = [life[p] EXCEPT !.first = now + 1]
              /\ life[p].first # 0 => life'[p] = life[p]
<1>1. /\ p \in (alive \ oncpu) \cup {Launcher} /\ alive' = alive
      /\ oncpu' = (oncpu \ {q}) \cup ({p} \cap Pids) /\ now' = now + 1 /\ lives' = lives
  BY DEF Switch, Emit
<1>2. KernelTypes /\ now \in Nat
  BY DEF KernelInv, KernelTypes
<1>3. CASE p \notin Pids
  <2>1. life' = life
    BY <1>3 DEF Switch
  <2>2. KernelTypes'
    BY <1>1, <1>2, <1>3, <2>1 DEF KernelTypes
  <2>3. ASSUME NEW x \in Pids PROVE Untouched(x)
    BY <1>1, <1>3, <2>1 DEF Untouched
  <2>4. ASSUME NEW x \in Pids PROVE Living(x)'
    BY <1>1, <1>2, <2>3, UntouchedLives DEF KernelInv
  <2> QED
    BY <1>1, <1>3, <2>2, <2>3, <2>4 DEF KernelInv
<1>4. CASE p \in Pids
  <2>1. Living(p) /\ lives[p] \in Nat /\ life[p] \in Lives
    BY <1>4 DEF KernelInv, KernelTypes
  <2>2. p # Launcher /\ p \in alive
    BY <1>1, <1>4, TraceAssumption
  <2>3. lives[p] > 0
    BY <2>1, <2>2 DEF Living
  <2>4. life[p].start \in Nat /\ life[p].first \in Nat /\ life[p].exit \in Nat
    BY <2>1 DEF Lives
  <2>5. life[p].first = 0 => lives[p] = 1
    BY <2>1, <2>3 DEF Living
  <2> DEFINE new == [life[p] EXCEPT !.first = now + 1]
  <2>6. new \in Lives /\ new.start = life[p].start /\ new.exit = life[p].exit
        /\ new.first = now + 1
    BY <1>2, <2>1 DEF Lives
  <2>7. life' = IF life[p].first = 0 THEN [life EXCEPT ![p] = new] ELSE life
    BY <1>4, <2>5 DEF Switch, Record, None
  <2>8. life'[p] = IF life[p].first = 0 THEN new ELSE life[p]
    BY <1>2, <1>4, <2>7 DEF KernelTypes
  <2>9. \A x \in Pids \ {p} : Untouched(x)
    BY <1>1, <2>7 DEF Untouched
  <2> HIDE DEF new
  <2>10. KernelTypes'
    BY <1>1, <1>2, <2>2, <2>6, <2>7 DEF KernelTypes
  <2>11. Living(p)'
    <3>1. CASE life[p].first = 0
      <4>1. life[p].exit = 0 /\ life'[p] = new /\ 0 < life[p].start /\ life[p].start <= now
        BY <2>1, <2>3, <2>8, <3>1 DEF Living
      <4> QED
        BY <1>1, <1>2, <2>1, <2>2, <2>4, <2>5, <2>6, <3>1, <4>1 DEF Living
    <3>2. CASE life[p].first # 0
      <4>1. life'[p] = life[p]
        BY <2>8, <3>2
      <4> QED
        BY <1>1, <1>2, <2>1, <2>2, <2>4, <3>2, <4>1 DEF Living
    <3> QED
      BY <3>1, <3>2
  <2>12. ASSUME NEW x \in Pids PROVE Living(x)'
    <3>1. CASE x = p
      BY <2>11, <3>1
    <3>2. CASE x # p
      BY <1>1, <1>2, <2>9, <3>2, UntouchedLives DEF KernelInv
    <3> QED
      BY <3>1, <3>2
  <2>13. KernelInv'
    BY <2>10, <2>12 DEF KernelInv
  <2> QED
    BY <1>1, <2>3, <2>5, <2>8, <2>9, <2>13 DEF new
<1> QED
  BY <1>3, <1>4

LEMMA MigrateLives ==
  ASSUME KernelInv, NEW p \in Pids, Migrate(p)
  PROVE  /\ KernelInv'
         /\ \A x \in Pids \ {p} : Untouched(x)
         /\ lives' = lives /\ lives[p] > 0
         /\ lives[p] = 1 =>
              life[p].exit = 0 /\ life'[p] = [life[p] EXCEPT !.migrations = @ + 1]
         /\ lives[p] # 1 => life'[p] = life[p] /\ life[p].exit # 0
<1>1. /\ p \in alive /\ alive' = alive /\ oncpu' = oncpu /\ now' = now + 1 /\ lives' = lives
  BY DEF Migrate, Emit
<1>2. KernelTypes /\ Living(p) /\ now \in Nat /\ lives[p] \in Nat /\ life[p] \in Lives
  BY DEF KernelInv, KernelTypes
<1>3. lives[p] > 0
  BY <1>1, <1>2 DEF Living
<1>4. life[p].start \in Nat /\ life[p].first \in Nat /\ life[p].exit \in Nat
  BY <1>2 DEF Lives
<1> DEFINE new == [life[p] EXCEPT !.migrations = @ + 1]
<1>5. new \in Lives /\ new.start = life[p].start /\ new.exit = life[p].exit
      /\ new.first = life[p].first
  BY <1>2 DEF Lives
<1>6. life' = IF lives[p] = 1 THEN [life EXCEPT ![p] = new] ELSE life
  BY DEF Migrate, Record
<1>7. life'[p] = IF lives[p] = 1 THEN new ELSE life[p]
  BY <1>2, <1>6 DEF KernelTypes
<1>8. \A x \in Pids \ {p} : Untouched(x)
  BY <1>1, <1>6 DEF Untouched
<1>9. lives[p] = 1 => life[p].exit = 0
  BY <1>1, <1>2 DEF Living
<1>10. lives[p] # 1 => life[p].exit # 0
  BY <1>2, <1>3 DEF Living
<1> HIDE DEF new
<1>11. KernelTypes'
  BY <1>1, <1>2, <1>5, <1>6 DEF KernelTypes
<1>12. Living(p)'
  <2>1. /\ life'[p].start = life[p].start /\ life'[p].first = life[p].first
        /\ life'[p].exit = life[p].exit
    BY <1>5, <1>7
  <2> QED
    BY <1>1, <1>2, <1>3, <1>4, <2>1 DEF Living
<1>13. ASSUME NEW x \in Pids PROVE Living(x)'
  <2>1. CASE x = p
    BY <1>12, <2>1
  <2>2. CASE x # p
    BY <1>1, <1>2, <1>8, <2>2, UntouchedLives DEF KernelInv
  <2> QED
    BY <2>1, <2>2
<1>14. KernelInv'
  BY <1>11, <1>13 DEF KernelInv
<1> QED
  BY <1>1, <1>3, <1>7, <1>8, <1>9, <1>10, <1>14 DEF new

LEMMA ExitLives ==
  ASSUME KernelInv, NEW p \in Pids, Exit(p)
  PROVE  /\ KernelInv'
         /\ \A x \in Pids \ {p} : Untouched(x)
         /\ lives' = lives /\ lives[p] > 0 /\ life[p].first # 0
         /\ lives[p] = 1 =>
              life[p].exit = 0 /\ life'[p] = [life[p] EXCEPT !.exit = now + 1]
         /\ lives[p] # 1 => life'[p] = life[p] /\ life[p].exit # 0
<1>1. /\ p \in oncpu /\ alive' = alive \ {p} /\ oncpu' = oncpu \ {p} /\ now' = now + 1
      /\ lives' = lives
  BY DEF Exit, Emit
<1>2. /\ KernelTypes /\ Living(p) /\ now \in Nat /\ lives[p] \in Nat /\ life[p] \in Lives
      /\ p \in alive
  BY <1>1 DEF KernelInv, KernelTypes
<1>3. lives[p] > 0 /\ life[p].first # 0
  BY <1>1, <1>2 DEF Living
<1>4. life[p].start \in Nat /\ life[p].first \in Nat /\ life[p].exit \in Nat
  BY <1>2 DEF Lives
<1> DEFINE new == [life[p] EXCEPT !.exit = now + 1]
<1>5. new \in Lives /\ new.start = life[p].start /\ new.exit = now + 1
      /\ new.first = life[p].first
  BY <1>2 DEF Lives
<1>6. life' = IF lives[p] = 1 THEN [life EXCEPT ![p] = new] ELSE life
  BY DEF Exit, Record
<1>7. life'[p] = IF lives[p] = 1 THEN new ELSE life[p]
  BY <1>2, <1>6 DEF KernelTypes
<1>8. \A x \in Pids \ {p} : Untouched(x)
  BY <1>1, <1>6 DEF Untouched
<1>9. lives[p] = 1 => life[p].exit = 0
  BY <1>2 DEF Living
<1>10. lives[p] # 1 => life[p].exit # 0
  BY <1>2, <1>3 DEF Living
<1> HIDE DEF new
<1>11. KernelTypes'
  BY <1>1, <1>2, <1>5, <1>6 DEF KernelTypes
<1>12. Living(p)'
  <2>1. /\ life'[p].start = life[p].start /\ life'[p].first = life[p].first
        /\ life'[p].exit = IF lives[p] = 1 THEN now + 1 ELSE life[p].exit
    BY <1>5, <1>7
  <2>2. p \notin alive' /\ p \notin oncpu'
    BY <1>1
  <2> QED
    BY <1>1, <1>2, <1>3, <1>4, <1>10, <2>1, <2>2 DEF Living
<1>13. ASSUME NEW x \in Pids PROVE Living(x)'
  <2>1. CASE x = p
    BY <1>12, <2>1
  <2>2. CASE x # p
    BY <1>1, <1>2, <1>8, <2>2, UntouchedLives DEF KernelInv
  <2> QED
    BY <2>1, <2>2
<1>14. KernelInv'
  BY <1>11, <1>13 DEF KernelInv
<1> QED
  BY <1>1, <1>3, <1>7, <1>8, <1>9, <1>10, <1>14 DEF new

-------------------------------------------------------------------------------
(* The parser against the kernel. *)

View(p) == Scan(workload_events[p], p)

\* What a line does to the view of a process.
LEMMA LineView ==
  ASSUME SearchTypes, NEW e, Emitted(e), NEW p \in WorkPids, View(p) \in Scans
  PROVE  /\ SearchTypes' /\ View(p)' \in Scans
         /\ View(p)' \in {View(p), Step(View(p), e, p)}
         /\ ~Names(p, Subject(e)) => View(p)' = View(p)
         /\ p \notin lost' => p \notin lost
         /\ p \notin pids_str => View(p)' = View(p)
         /\ p = Subject(e) /\ p \notin lost' =>
              /\ p \in pids_str => View(p)' = Step(View(p), e, p)
              /\ p \in pids_str' <=> p \in pids_str /\ ~ExitOf(e, p)
         /\ p # Subject(e) => (p \in pids_str' <=> p \in pids_str)
         /\ p \notin lostEnd' => p \notin lostEnd
         /\ p \notin pids_str => p \notin pids_str'
         /\ p = Subject(e) /\ p \notin lostEnd' /\ (~ExitOf(e, p) \/ lives[p] = 1) =>
              (p \in pids_str' <=> p \in pids_str /\ ~ExitOf(e, p))
<1>1. e \in Events /\ p \in Pids
  BY TraceAssumption DEF Emitted
<1>2. (p \notin lost' => p \notin lost) /\ (p \notin lostEnd' => p \notin lostEnd)
  BY DEF Emitted
<1>3. CASE Read(e)
  <2>1. SearchTypes'
    BY <1>1, <1>3, ReadTypes
  <2>2. workload_events[p] \in Seq(Events)
    BY DEF SearchTypes
  <2>3. Scan(Append(workload_events[p], e), p) = Step(View(p), e, p)
    BY <1>1, <2>2, ScanAppend DEF View
  <2>4. /\ \/ workload_events'[p] = workload_events[p]
           \/ workload_events'[p] = Append(workload_events[p], e)
        /\ p = Subject(e) /\ p \in pids_str =>
             workload_events'[p] = Append(workload_events[p], e)
        /\ p \notin pids_str => workload_events'[p] = workload_events[p]
        /\ p \in pids_str' <=> p \in pids_str /\ ~ExitOf(e, p)
    BY <1>1, <1>3, ReadLine
  <2>5. View(p)' = Scan(workload_events'[p], p)
    BY DEF View
  <2>6. View(p)' \in {View(p), Step(View(p), e, p)}
    BY <2>3, <2>4, <2>5 DEF View
  <2>7. View(p)' \in Scans
    BY <1>1, <2>6, StepScans
  <2>8. ~Names(p, Subject(e)) => View(p)' = View(p)
    BY <1>1, <2>6, StepOther
  <2>9. p # Subject(e) => ~ExitOf(e, p)
    BY DEF ExitOf, Subject
  <2>10. p \notin pids_str => View(p)' = View(p)
    BY <2>4, <2>5 DEF View
  <2>11. p = Subject(e) /\ p \in pids_str => View(p)' = Step(View(p), e, p)
    BY <2>3, <2>4, <2>5
  <2> QED
    BY <1>2, <2>1, <2>4, <2>6, <2>7, <2>8, <2>9, <2>10, <2>11
<1>4. CASE /\ UNCHANGED <<pids_str, workload_events>>
           /\ lost' = lost \cup ({Subject(e)} \cap Pids)
           /\ lostEnd' = IF e.type = "sched_process_exit" /\ lives[Subject(e)] = 1
                         THEN lostEnd \cup {Subject(e)} ELSE lostEnd
  <2>1. SearchTypes' /\ View(p)' = View(p) /\ pids_str' = pids_str
    BY <1>4 DEF SearchTypes, View
  <2>2. p = Subject(e) => p \in lost'
    BY <1>1, <1>4
  <2>3. p = Subject(e) /\ ExitOf(e, p) /\ lives[p] = 1 => p \in lostEnd'
    BY <1>4 DEF ExitOf
  <2> QED
    BY <1>2, <2>1, <2>2, <2>3
<1> QED
  BY <1>3, <1>4 DEF Emitted

\* A pid that is unambiguous was so before.
LEMMA UnambiguousBefore ==
  ASSUME NEW p \in WorkPids, p \in Unambiguous',
         \A q \in Pids : lives[q] > 0 => lives'[q] > 0
  PROVE  p \in Unambiguous
BY DEF Unambiguous

LEMMA OthersNotNamed ==
  ASSUME NEW p \in WorkPids, p \in Unambiguous', NEW u \in Pids \cup {Launcher},
         u \in Pids => lives'[u] > 0, u # p
  PROVE  ~Names(p, u)
<1>1. u \notin Pids => <<p, u>> \notin Prefix
  BY TraceAssumption
<1> QED
  BY <1>1 DEF Unambiguous, Names

\* What is known of a process whose lines all came through ...
OwnScan(p) ==
  p \notin lost =>
    /\ p \in pids_str <=> life[p].exit = 0
    /\ p \in Unambiguous =>
         /\ View(p).start = life[p].start /\ View(p).first = life[p].first
         /\ View(p).exit = life[p].exit
         /\ View(p).migrations = life[p].migrations - 1

\* ... and of any: the search for it ends with its first exit, unless that line
\* was dropped, and then its pid must not be used again.
OwnEnds(p) ==
  /\ p \notin lostEnd => (p \in pids_str <=> life[p].exit = 0)
  /\ p \in Unambiguous /\ (p \notin lostEnd \/ lives[p] <= 1) =>
       /\ View(p).start \in {0, life[p].start}
       /\ View(p).exit \in {0, life[p].exit}
       /\ View(p).first # 0 => life[p].first # 0 /\ life[p].first <= View(p).first

ScanInv ==
  /\ SearchTypes
  /\ \A p \in WorkPids : View(p) \in Scans /\ OwnScan(p) /\ OwnEnds(p)

\* A line about another process changes nothing of this.
LEMMA OtherLine ==
  ASSUME ScanInv, NEW e, Emitted(e), NEW p \in WorkPids, p # Subject(e), Untouched(p),
         \A q \in Pids : lives[q] > 0 => lives'[q] > 0,
         Subject(e) \in Pids => lives'[Subject(e)] > 0
  PROVE  View(p)' \in Scans /\ OwnScan(p)' /\ OwnEnds(p)'
<1>1. /\ SearchTypes /\ View(p) \in Scans /\ OwnScan(p) /\ OwnEnds(p)
  BY DEF ScanInv
<1>2. /\ View(p)' \in Scans
      /\ ~Names(p, Subject(e)) => View(p)' = View(p)
      /\ (p \notin lost' => p \notin lost) /\ (p \notin lostEnd' => p \notin lostEnd)
      /\ p \in pids_str' <=> p \in pids_str
  BY <1>1, LineView
<1>3. Subject(e) \in Pids \cup {Launcher}
  BY DEF Emitted, Events, Subject
<1>4. p \in Unambiguous' => p \in Unambiguous /\ View(p)' = View(p)
  BY <1>2, <1>3, UnambiguousBefore, OthersNotNamed
<1>5. lives'[p] = lives[p] /\ life'[p] = life[p]
  BY DEF Untouched
<1>6. OwnScan(p)'
  BY <1>1, <1>2, <1>4, <1>5 DEF OwnScan
<1>7. OwnEnds(p)'
  BY <1>1, <1>2, <1>4, <1>5 DEF OwnEnds
<1> QED
  BY <1>2, <1>6, <1>7

\* What all four kinds of lines about p itself have in common.
LEMMA OwnLine ==
  ASSUME ScanInv, KernelInv, NEW e, Emitted(e), NEW p \in WorkPids, p = Subject(e)
  PROVE  /\ SearchTypes' /\ View(p)' \in Scans /\ View(p) \in Scans
         /\ OwnScan(p) /\ OwnEnds(p) /\ Living(p)
         /\ e \in Events /\ Names(p, p)
         /\ lives[p] \in Nat /\ life[p] \in Lives /\ now \in Nat
         /\ View(p)' \in {View(p), Step(View(p), e, p)}
         /\ p \notin lost' => p \notin lost
         /\ p \notin pids_str => View(p)' = View(p)
         /\ p \notin lost' /\ p \in pids_str => View(p)' = Step(View(p), e, p)
         /\ p \notin lost' => (p \in pids_str' <=> p \in pids_str /\ ~ExitOf(e, p))
         /\ p \notin lostEnd' => p \notin lostEnd
         /\ p \notin pids_str => p \notin pids_str'
         /\ p \notin lostEnd' /\ (~ExitOf(e, p) \/ lives[p] = 1) =>
              (p \in pids_str' <=> p \in pids_str /\ ~ExitOf(e, p))
<1>1. p \in Pids /\ e \in Events
  BY TraceAssumption DEF Emitted
<1>2. SearchTypes /\ View(p) \in Scans /\ OwnScan(p) /\ OwnEnds(p)
  BY DEF ScanInv
<1>3. lives[p] \in Nat /\ life[p] \in Lives /\ now \in Nat /\ Living(p)
  BY <1>1 DEF KernelInv, KernelTypes
<1>4. Names(p, p)
  BY <1>1, TraceAssumption DEF Names
<1> QED
  BY <1>1, <1>2, <1>3, <1>4, LineView

LEMMA ForkLine ==
  ASSUME ScanInv, KernelInv, NEW p \in WorkPids, Fork(p)
  PROVE  View(p)' \in Scans /\ OwnScan(p)' /\ OwnEnds(p)'
<1> DEFINE e == Event("sched_process_fork", Launcher, p, now + 1)
<1>1. p \in Pids
  BY TraceAssumption
<1>2. Emitted(e) /\ e.type = "sched_process_fork" /\ e.next = p /\ e.ts = now + 1
      /\ Subject(e) = p
  <2>1. now \in Nat /\ Emit("sched_process_fork", Launcher, p, p)
    BY DEF Fork, KernelInv, KernelTypes
  <2> QED
    BY <1>1, <2>1, EmitsLine DEF Kinds
<1> HIDE DEF e
<1>3. /\ lives'[p] = lives[p] + 1
      /\ lives[p] = 0 => life'[p] = [NoLife EXCEPT !.start = now + 1]
      /\ lives[p] # 0 => life'[p] = life[p] /\ life[p].exit # 0
      /\ \A x \in Pids \ {p} : Untouched(x)
  BY <1>1, ForkLives
<1>4. /\ View(p)' \in Scans /\ View(p) \in Scans /\ OwnScan(p) /\ OwnEnds(p) /\ Living(p)
      /\ e \in Events /\ Names(p, p) /\ lives[p] \in Nat /\ life[p] \in Lives /\ now \in Nat
      /\ View(p)' \in {View(p), Step(View(p), e, p)}
      /\ p \notin lost' => p \notin lost
      /\ p \notin pids_str => View(p)' = View(p)
      /\ p \notin lost' /\ p \in pids_str => View(p)' = Step(View(p), e, p)
      /\ p \notin lost' => (p \in pids_str' <=> p \in pids_str /\ ~ExitOf(e, p))
      /\ p \notin lostEnd' => p \notin lostEnd
      /\ p \notin pids_str => p \notin pids_str'
      /\ p \notin lostEnd' /\ (~ExitOf(e, p) \/ lives[p] = 1) =>
           (p \in pids_str' <=> p \in pids_str /\ ~ExitOf(e, p))
  BY <1>2, OwnLine
<1>5. ~ExitOf(e, p)
  BY <1>2 DEF ExitOf
<1>6. \A x \in Pids : lives[x] > 0 => lives'[x] > 0
  BY <1>3, <1>4 DEF Untouched
<1>7. p \in Unambiguous' => p \in Unambiguous
  BY <1>6, UnambiguousBefore
<1>8. CASE lives[p] = 0
  <2>1. /\ life[p].start = 0 /\ life[p].first = 0 /\ life[p].exit = 0
        /\ life[p].migrations = 0
        /\ life'[p].start = now + 1 /\ life'[p].first = 0 /\ life'[p].exit = 0
        /\ life'[p].migrations = 0
    BY <1>3, <1>4, <1>8 DEF Living, NoLife, Unknown, None
  <2>2. OwnScan(p)'
    <3> SUFFICES ASSUME p \notin lost' PROVE OwnScan(p)'
      BY DEF OwnScan
    <3>1. p \in pids_str /\ p \in pids_str'
      BY <1>4, <1>5, <2>1 DEF OwnScan
    <3>2. View(p)' = Step(View(p), e, p)
      BY <1>4, <3>1
    <3>3. ASSUME p \in Unambiguous'
          PROVE  /\ View(p)'.start = now + 1 /\ View(p)'.first = 0 /\ View(p)'.exit = 0
                 /\ View(p)'.migrations = 0 - 1
      <4>1. /\ View(p).start = 0 /\ View(p).first = 0 /\ View(p).exit = 0
            /\ View(p).migrations = 0 - 1
        BY <1>4, <1>7, <2>1, <3>3 DEF OwnScan
      <4>2. View(p)' = [View(p) EXCEPT !.start = now + 1]
        BY <1>2, <1>4, <3>2, <4>1, StepFork DEF None
      <4> QED
        BY <1>4, <4>1, <4>2 DEF Scans
    <3> QED
      BY <2>1, <3>1, <3>3 DEF OwnScan
  <2>3. OwnEnds(p)'
    <3>4. p \notin lostEnd' => p \in pids_str'
      BY <1>4, <1>5, <2>1 DEF OwnEnds
    <3> SUFFICES ASSUME p \in Unambiguous'
                 PROVE  /\ View(p)'.start \in {0, life'[p].start}
                        /\ View(p)'.exit \in {0, life'[p].exit}
                        /\ View(p)'.first = 0
      BY <2>1, <3>4 DEF OwnEnds
    <3>1. View(p).start = 0 /\ View(p).exit = 0 /\ View(p).first = 0
      BY <1>4, <1>7, <1>8, <2>1 DEF OwnEnds
    <3>2. Step(View(p), e, p) = [View(p) EXCEPT !.start = now + 1]
      BY <1>2, <1>4, <3>1, StepFork DEF None
    <3>3. View(p)' = View(p) \/ View(p)' = [View(p) EXCEPT !.start = now + 1]
      BY <1>4, <3>2
    <3> QED
      BY <1>4, <2>1, <3>1, <3>3 DEF Scans
  <2> QED
    BY <1>4, <2>2, <2>3
<1>9. CASE lives[p] # 0
  <2>1. life'[p] = life[p] /\ life[p].exit # 0
    BY <1>3, <1>9
  <2>2. ASSUME p \notin lost' PROVE View(p)' = View(p) /\ p \notin pids_str /\ p \notin pids_str'
    BY <1>4, <2>1, <2>2 DEF OwnScan
  <2>3. OwnScan(p)'
    BY <1>4, <1>7, <2>1, <2>2 DEF OwnScan
  <2>4. OwnEnds(p)'
    <3>1. ASSUME p \notin lostEnd'
          PROVE  View(p)' = View(p) /\ p \notin pids_str' /\ p \notin lostEnd
      BY <1>4, <2>1, <3>1 DEF OwnEnds
    <3>2. ~(lives'[p] <= 1)
      BY <1>3, <1>4, <1>9
    <3> QED
      BY <1>4, <1>7, <2>1, <3>1, <3>2 DEF OwnEnds
  <2> QED
    BY <1>4, <2>3, <2>4
<1> QED
  BY <1>8, <1>9

LEMMA SwitchLine ==
  ASSUME ScanInv, KernelInv, NEW q \in Pids \cup {Launcher}, NEW p \in WorkPids, Switch(q, p)
  PROVE  View(p)' \in Scans /\ OwnScan(p)' /\ OwnEnds(p)'
<1> DEFINE e == Event("sched_switch", q, p, now + 1)
<1>1. p \in Pids
  BY TraceAssumption
<1>2. Emitted(e) /\ e.type = "sched_switch" /\ e.next = p /\ e.ts = now + 1
      /\ Subject(e) = p
  <2>1. now \in Nat /\ Emit("sched_switch", q, p, p)
    BY DEF Switch, KernelInv, KernelTypes
  <2> QED
    BY <1>1, <2>1, EmitsLine DEF Kinds
<1> HIDE DEF e
<1>3. /\ lives' = lives /\ lives[p] > 0
      /\ life[p].first = 0 =>
           lives[p] = 1 /\ life'[p] = [life[p] EXCEPT !.first = now + 1]
      /\ life[p].first # 0 => life'[p] = life[p]
  BY <1>1, SwitchLives
<1>4. /\ View(p)' \in Scans /\ View(p) \in Scans /\ OwnScan(p) /\ OwnEnds(p) /\ Living(p)
      /\ e \in Events /\ Names(p, p) /\ lives[p] \in Nat /\ life[p] \in Lives /\ now \in Nat
      /\ View(p)' \in {View(p), Step(View(p), e, p)}
      /\ p \notin lost' => p \notin lost
      /\ p \notin pids_str => View(p)' = View(p)
      /\ p \notin lost' /\ p \in pids_str => View(p)' = Step(View(p), e, p)
      /\ p \notin lost' => (p \in pids_str' <=> p \in pids_str /\ ~ExitOf(e, p))
      /\ p \notin lostEnd' => p \notin lostEnd
      /\ p \notin pids_str => p \notin pids_str'
      /\ p \notin lostEnd' /\ (~ExitOf(e, p) \/ lives[p] = 1) =>
           (p \in pids_str' <=> p \in pids_str /\ ~ExitOf(e, p))
  BY <1>2, OwnLine
<1>5. ~ExitOf(e, p)
  BY <1>2 DEF ExitOf
<1>6. p \in Unambiguous' => p \in Unambiguous
  BY <1>3, UnambiguousBefore
<1>7. /\ life'[p].start = life[p].start /\ life'[p].exit = life[p].exit
      /\ life'[p].migrations = life[p].migrations
      /\ life'[p].first = IF life[p].first = 0 THEN now + 1 ELSE life[p].first
      /\ life[p].start # 0 /\ life[p].first \in Nat
      /\ life[p].first = 0 => life[p].exit = 0
      /\ life[p].first <= now
  BY <1>3, <1>4 DEF Living, Lives
<1>8. OwnScan(p)'
  <2> SUFFICES ASSUME p \notin lost' PROVE OwnScan(p)'
    BY DEF OwnScan
  <2>1. p \in pids_str' <=> life'[p].exit = 0
    BY <1>4, <1>5, <1>7 DEF OwnScan
  <2>2. ASSUME p \in Unambiguous'
        PROVE  /\ View(p)'.start = life[p].start /\ View(p)'.exit = life[p].exit
               /\ View(p)'.migrations = life[p].migrations - 1
               /\ View(p)'.first = life'[p].first
    <3>1. /\ View(p).start = life[p].start /\ View(p).first = life[p].first
          /\ View(p).exit = life[p].exit
          /\ View(p).migrations = life[p].migrations - 1
      BY <1>4, <1>6, <2>2 DEF OwnScan
    <3>2. CASE life[p].exit # 0
      <4>1. View(p)' = View(p)
        BY <1>4, <3>2 DEF OwnScan
      <4> QED
        BY <1>7, <3>1, <3>2, <4>1
    <3>3. CASE life[p].exit = 0
      <4>1. View(p)' = Step(View(p), e, p)
        BY <1>4, <3>3 DEF OwnScan
      <4>2. View(p)' = IF View(p).first = 0 THEN [View(p) EXCEPT !.first = now + 1] ELSE View(p)
        BY <1>2, <1>4, <1>7, <3>1, <3>3, <4>1, StepSwitch DEF None
      <4> QED
        BY <1>4, <1>7, <3>1, <4>2 DEF Scans
    <3> QED
      BY <3>2, <3>3
  <2> QED
    BY <1>7, <2>1, <2>2 DEF OwnScan
<1>9. OwnEnds(p)'
  <2>5. p \notin lostEnd' => (p \in pids_str' <=> life'[p].exit = 0)
    BY <1>4, <1>5, <1>7 DEF OwnEnds
  <2> SUFFICES ASSUME p \in Unambiguous', p \notin lostEnd' \/ lives[p] <= 1
               PROVE  /\ View(p)'.start \in {0, life'[p].start}
                      /\ View(p)'.exit \in {0, life'[p].exit}
                      /\ View(p)'.first # 0 =>
                           life'[p].first # 0 /\ life'[p].first <= View(p)'.first
    BY <1>3, <2>5 DEF OwnEnds
  <2>1. /\ View(p).start \in {0, life[p].start} /\ View(p).exit \in {0, life[p].exit}
        /\ View(p).first # 0 => life[p].first # 0 /\ life[p].first <= View(p).first
    BY <1>4, <1>6 DEF OwnEnds
  <2>2. View(p)' = View(p) \/ View(p)' = [View(p) EXCEPT !.first = now + 1]
    <3>1. CASE View(p).exit # 0
      BY <1>4, <3>1, StepDone DEF None
    <3>2. CASE View(p).exit = 0
      <4>1. Step(View(p), e, p) \in {View(p), [View(p) EXCEPT !.first = now + 1]}
        BY <1>2, <1>4, <3>2, StepSwitch DEF None
      <4> QED
        BY <1>4, <4>1
    <3> QED
      BY <3>1, <3>2
  <2>3. CASE View(p)' = View(p)
    BY <1>7, <2>1, <2>3
  <2>4. CASE View(p)' = [View(p) EXCEPT !.first = now + 1]
    <3>1. View(p)'.start = View(p).start /\ View(p)'.exit = View(p).exit
          /\ View(p)'.first = now + 1
      BY <1>4, <2>4 DEF Scans
    <3>2. life'[p].first # 0 /\ life'[p].first <= now + 1
      BY <1>4, <1>7
    <3> QED
      BY <1>7, <2>1, <3>1, <3>2
  <2> QED
    BY <2>2, <2>3, <2>4
<1> QED
  BY <1>4, <1>8, <1>9

LEMMA MigrateLine ==
  ASSUME ScanInv, KernelInv, NEW p \in WorkPids, Migrate(p)
  PROVE  View(p)' \in Scans /\ OwnScan(p)' /\ OwnEnds(p)'
<1> DEFINE e == Event("sched_migrate_task", p, Launcher, now + 1)
<1>1. p \in Pids
  BY TraceAssumption
<1>2. Emitted(e) /\ e.type = "sched_migrate_task" /\ e.pid = p /\ e.ts = now + 1
      /\ Subject(e) = p
  <2>1. now \in Nat /\ Emit("sched_migrate_task", p, Launcher, p)
    BY DEF Migrate, KernelInv, KernelTypes
  <2> QED
    BY <1>1, <2>1, EmitsLine DEF Kinds
<1> HIDE DEF e
<1>3. /\ lives' = lives /\ lives[p] > 0
      /\ lives[p] = 1 =>
           life[p].exit = 0 /\ life'[p] = [life[p] EXCEPT !.migrations = @ + 1]
      /\ lives[p] # 1 => life'[p] = life[p] /\ life[p].exit # 0
  BY <1>1, MigrateLives
<1>4. /\ View(p)' \in Scans /\ View(p) \in Scans /\ OwnScan(p) /\ OwnEnds(p) /\ Living(p)
      /\ e \in Events /\ Names(p, p) /\ lives[p] \in Nat /\ life[p] \in Lives /\ now \in Nat
      /\ View(p)' \in {View(p), Step(View(p), e, p)}
      /\ p \notin lost' => p \notin lost
      /\ p \notin pids_str => View(p)' = View(p)
      /\ p \notin lost' /\ p \in pids_str => View(p)' = Step(View(p), e, p)
      /\ p \notin lost' => (p \in pids_str' <=> p \in pids_str /\ ~ExitOf(e, p))
      /\ p \notin lostEnd' => p \notin lostEnd
      /\ p \notin pids_str => p \notin pids_str'
      /\ p \notin lostEnd' /\ (~ExitOf(e, p) \/ lives[p] = 1) =>
           (p \in pids_str' <=> p \in pids_str /\ ~ExitOf(e, p))
  BY <1>2, OwnLine
<1>5. ~ExitOf(e, p)
  BY <1>2 DEF ExitOf
<1>6. p \in Unambiguous' => p \in Unambiguous
  BY <1>3, UnambiguousBefore
<1>7. /\ life'[p].start = life[p].start /\ life'[p].exit = life[p].exit
      /\ life'[p].first = life[p].first
      /\ life'[p].migrations = IF lives[p] = 1 THEN life[p].migrations + 1
                               ELSE life[p].migrations
      /\ life[p].exit = 0 <=> lives[p] = 1
      /\ life[p].migrations \in Nat
  BY <1>3, <1>4 DEF Lives
<1>8. OwnScan(p)'
  <2> SUFFICES ASSUME p \notin lost' PROVE OwnScan(p)'
    BY DEF OwnScan
  <2>1. p \in pids_str' <=> life'[p].exit = 0
    BY <1>4, <1>5, <1>7 DEF OwnScan
  <2>2. ASSUME p \in Unambiguous'
        PROVE  /\ View(p)'.start = life[p].start /\ View(p)'.exit = life[p].exit
               /\ View(p)'.migrations = life'[p].migrations - 1
               /\ View(p)'.first = life[p].first
    <3>1. /\ View(p).start = life[p].start /\ View(p).first = life[p].first
          /\ View(p).exit = life[p].exit
          /\ View(p).migrations = life[p].migrations - 1
      BY <1>4, <1>6, <2>2 DEF OwnScan
    <3>2. CASE life[p].exit # 0
      <4>1. View(p)' = View(p)
        BY <1>4, <3>2 DEF OwnScan
      <4> QED
        BY <1>7, <3>1, <3>2, <4>1
    <3>3. CASE life[p].exit = 0
      <4>1. View(p)' = Step(View(p), e, p)
        BY <1>4, <3>3 DEF OwnScan
      <4>2. View(p)' = [View(p) EXCEPT !.migrations = @ + 1]
        BY <1>2, <1>4, <3>1, <3>3, <4>1, StepMigrate DEF None
      <4> QED
        BY <1>4, <1>7, <3>1, <3>3, <4>2 DEF Scans
    <3> QED
      BY <3>2, <3>3
  <2> QED
    BY <1>7, <2>1, <2>2 DEF OwnScan
<1>9. OwnEnds(p)'
  <2>4. p \notin lostEnd' => (p \in pids_str' <=> life'[p].exit = 0)
    BY <1>4, <1>5, <1>7 DEF OwnEnds
  <2> SUFFICES ASSUME p \in Unambiguous', p \notin lostEnd' \/ lives[p] <= 1
               PROVE  /\ View(p)'.start \in {0, life[p].start}
                      /\ View(p)'.exit \in {0, life[p].exit}
                      /\ View(p)'.first # 0 =>
                           life[p].first # 0 /\ life[p].first <= View(p)'.first
    BY <1>3, <1>7, <2>4 DEF OwnEnds
  <2>1. /\ View(p).start \in {0, life[p].start} /\ View(p).exit \in {0, life[p].exit}
        /\ View(p).first # 0 => life[p].first # 0 /\ life[p].first <= View(p).first
    BY <1>4, <1>6 DEF OwnEnds
  <2>2. View(p)' = View(p) \/ View(p)' = [View(p) EXCEPT !.migrations = @ + 1]
    <3>1. CASE View(p).exit # 0
      BY <1>4, <3>1, StepDone DEF None
    <3>2. CASE View(p).exit = 0
      <4>1. Step(View(p), e, p) = [View(p) EXCEPT !.migrations = @ + 1]
        BY <1>2, <1>4, <3>2, StepMigrate DEF None
      <4> QED
        BY <1>4, <4>1
    <3> QED
      BY <3>1, <3>2
  <2>3. View(p)'.start = View(p).start /\ View(p)'.exit = View(p).exit
        /\ View(p)'.first = View(p).first
    BY <1>4, <2>2 DEF Scans
  <2> QED
    BY <2>1, <2>3
<1> QED
  BY <1>4, <1>8, <1>9

LEMMA ExitLine ==
  ASSUME ScanInv, KernelInv, NEW p \in WorkPids, Exit(p)
  PROVE  View(p)' \in Scans /\ OwnScan(p)' /\ OwnEnds(p)'
<1> DEFINE e == Event("sched_process_exit", p, Launcher, now + 1)
<1>1. p \in Pids
  BY TraceAssumption
<1>2. Emitted(e) /\ e.type = "sched_process_exit" /\ e.pid = p /\ e.ts = now + 1
      /\ Subject(e) = p
  <2>1. now \in Nat /\ Emit("sched_process_exit", p, Launcher, p)
    BY DEF Exit, KernelInv, KernelTypes
  <2> QED
    BY <1>1, <2>1, EmitsLine DEF Kinds
<1> HIDE DEF e
<1>3. /\ lives' = lives /\ lives[p] > 0 /\ life[p].first # 0
      /\ lives[p] = 1 =>
           life[p].exit = 0 /\ life'[p] = [life[p] EXCEPT !.exit = now + 1]
      /\ lives[p] # 1 => life'[p] = life[p] /\ life[p].exit # 0
  BY <1>1, ExitLives
<1>4. /\ View(p)' \in Scans /\ View(p) \in Scans /\ OwnScan(p) /\ OwnEnds(p) /\ Living(p)
      /\ e \in Events /\ Names(p, p) /\ lives[p] \in Nat /\ life[p] \in Lives /\ now \in Nat
      /\ View(p)' \in {View(p), Step(View(p), e, p)}
      /\ p \notin lost' => p \notin lost
      /\ p \notin pids_str => View(p)' = View(p)
      /\ p \notin lost' /\ p \in pids_str => View(p)' = Step(View(p), e, p)
      /\ p \notin lost' => (p \in pids_str' <=> p \in pids_str /\ ~ExitOf(e, p))
      /\ p \notin lostEnd' => p \notin lostEnd
      /\ p \notin pids_str => p \notin pids_str'
      /\ p \notin lostEnd' /\ (~ExitOf(e, p) \/ lives[p] = 1) =>
           (p \in pids_str' <=> p \in pids_str /\ ~ExitOf(e, p))
  BY <1>2, OwnLine
<1>5. ExitOf(e, p)
  BY <1>2 DEF ExitOf
<1>6. p \in Unambiguous' => p \in Unambiguous
  BY <1>3, UnambiguousBefore
<1>7. /\ life'[p].start = life[p].start /\ life'[p].first = life[p].first
      /\ life'[p].migrations = life[p].migrations
      /\ life'[p].exit = IF lives[p] = 1 THEN now + 1 ELSE life[p].exit
      /\ life'[p].exit # 0
      /\ life[p].exit = 0 <=> lives[p] = 1
  BY <1>3, <1>4 DEF Lives
<1>8. OwnScan(p)'
  <2> SUFFICES ASSUME p \notin lost' PROVE OwnScan(p)'
    BY DEF OwnScan
  <2>1. p \notin pids_str' /\ life'[p].exit # 0
    BY <1>4, <1>5, <1>7
  <2>2. ASSUME p \in Unambiguous'
        PROVE  /\ View(p)'.start = life[p].start /\ View(p)'.exit = life'[p].exit
               /\ View(p)'.migrations = life[p].migrations - 1
               /\ View(p)'.first = life[p].first
    <3>1. /\ View(p).start = life[p].start /\ View(p).first = life[p].first
          /\ View(p).exit = life[p].exit
          /\ View(p).migrations = life[p].migrations - 1
      BY <1>4, <1>6, <2>2 DEF OwnScan
    <3>2. CASE life[p].exit # 0
      <4>1. View(p)' = View(p)
        BY <1>4, <3>2 DEF OwnScan
      <4> QED
        BY <1>7, <3>1, <3>2, <4>1
    <3>3. CASE life[p].exit = 0
      <4>1. View(p)' = Step(View(p), e, p)
        BY <1>4, <3>3 DEF OwnScan
      <4>2. View(p)' = [View(p) EXCEPT !.exit = now + 1]
        BY <1>2, <1>3, <1>4, <3>1, <3>3, <4>1, StepExit DEF None
      <4> QED
        BY <1>4, <1>7, <3>1, <3>3, <4>2 DEF Scans
    <3> QED
      BY <3>2, <3>3
  <2> QED
    BY <1>7, <2>1, <2>2 DEF OwnScan
<1>9. OwnEnds(p)'
  <2>5. p \notin lostEnd' => p \notin pids_str'
    BY <1>4, <1>5, <1>7 DEF OwnEnds
  <2> SUFFICES ASSUME p \in Unambiguous', p \notin lostEnd' \/ lives[p] <= 1
               PROVE  /\ View(p)'.start \in {0, life[p].start}
                      /\ View(p)'.exit \in {0, life'[p].exit}
                      /\ View(p)'.first # 0 =>
                           life[p].first # 0 /\ life[p].first <= View(p)'.first
    BY <1>3, <1>7, <2>5 DEF OwnEnds
  <2>1. /\ View(p).start \in {0, life[p].start} /\ View(p).exit \in {0, life[p].exit}
        /\ View(p).first # 0 => life[p].first # 0 /\ life[p].first <= View(p).first
    BY <1>4, <1>6 DEF OwnEnds
  <2>2. CASE lives[p] # 1
    <3>1. p \notin lostEnd' /\ life[p].exit # 0 /\ life'[p].exit = life[p].exit
      BY <1>3, <1>4, <1>7, <2>2
    <3>2. View(p)' = View(p)
      BY <1>4, <3>1 DEF OwnEnds
    <3> QED
      BY <2>1, <3>1, <3>2
  <2>3. CASE lives[p] = 1
    <3>1. life[p].exit = 0 /\ life'[p].exit = now + 1 /\ View(p).exit = 0
      BY <1>7, <2>1, <2>3
    <3>2. View(p)' = View(p) \/ View(p)' = [View(p) EXCEPT !.exit = now + 1]
      <4>1. Step(View(p), e, p) \in {View(p), [View(p) EXCEPT !.exit = now + 1]}
        BY <1>2, <1>4, <3>1, StepExit DEF None
      <4> QED
        BY <1>4, <4>1
    <3>3. View(p)'.start = View(p).start /\ View(p)'.exit \in {0, now + 1}
          /\ View(p)'.first = View(p).first
      BY <1>4, <3>1, <3>2 DEF Scans
    <3> QED
      BY <2>1, <3>1, <3>3
  <2> QED
    BY <2>2, <2>3
<1> QED
  BY <1>4, <1>8, <1>9

\* A line about a process, for all that are looked for.
LEMMA LineScans ==
  ASSUME ScanInv, NEW e, Emitted(e),
         \A p \in Pids \ {Subject(e)} : Untouched(p),
         \A q \in Pids : lives[q] > 0 => lives'[q] > 0,
         Subject(e) \in Pids => lives'[Subject(e)] > 0,
         Subject(e) \in WorkPids =>
           LET p == Subject(e) IN View(p)' \in Scans /\ OwnScan(p)' /\ OwnEnds(p)'
  PROVE  ScanInv'
<1>1. SearchTypes'
  <2>1. e \in Events /\ SearchTypes
    BY DEF Emitted, ScanInv
  <2> QED
    BY <2>1, ReadTypes DEF Emitted, SearchTypes
<1>2. ASSUME NEW p \in WorkPids PROVE View(p)' \in Scans /\ OwnScan(p)' /\ OwnEnds(p)'
  <2>1. CASE p = Subject(e)
    <3>1. Subject(e) = p
      BY <2>1
    <3> QED
      BY <2>1, <3>1
  <2>2. CASE p # Subject(e)
    <3>1. p \in Pids
      BY TraceAssumption
    <3> QED
      BY <2>2, <3>1, OtherLine
  <2> QED
    BY <2>1, <2>2
<1> QED
  BY <1>1, <1>2 DEF ScanInv

-------------------------------------------------------------------------------
(* All steps, and what follows when the trace has ended. *)

\* All that main does once the trace is read.
Main ==
  EndOfTrace \/ CheckAllPids \/ WorkloadEventsOut \/ GetWorkloadTimes
  \/ WorkloadTimesOut \/ Reparse \/ ReparseOut \/ Ended

LEMMA MainSteps ==
  ASSUME Main \/ UNCHANGED vars
  PROVE  UNCHANGED <<kernelVars, pids_str, workload_events>>
BY DEF Main, EndOfTrace, CheckAllPids, WorkloadEventsOut, GetWorkloadTimes,
       WorkloadTimesOut, Reparse, ReparseOut, Ended, vars

LEMMA KernelInit == Init => KernelInv
<1> SUFFICES ASSUME Init PROVE KernelInv
  OBVIOUS
<1>1. NoLife \in Lives /\ NoLife.start = 0 /\ NoLife.first = 0 /\ NoLife.exit = 0
  BY DEF NoLife, Unknown, None, Lives
<1>2. KernelTypes
  BY <1>1 DEF Init, KernelTypes
<1>3. ASSUME NEW p \in Pids PROVE Living(p)
  BY <1>1 DEF Init, Living
<1> QED
  BY <1>2, <1>3 DEF KernelInv

LEMMA ScanInit == Init => ScanInv
<1> SUFFICES ASSUME Init PROVE ScanInv
  OBVIOUS
<1>1. <<>> \in Seq(Events)
  BY EmptySeq
<1>2. SearchTypes
  BY <1>1 DEF Init, SearchTypes
<1>3. ASSUME NEW p \in WorkPids PROVE View(p) \in Scans /\ OwnScan(p) /\ OwnEnds(p)
  <2>1. View(p) = Unknown
    BY ScanEmpty DEF Init, View
  <2>2. p \in Pids /\ p \in pids_str /\ life[p] = NoLife
    BY TraceAssumption DEF Init
  <2>3. /\ Unknown \in Scans /\ Unknown.start = 0 /\ Unknown.first = 0
        /\ Unknown.exit = 0 /\ Unknown.migrations = 0 - 1
    BY DEF Unknown, Scans, None
  <2>4. /\ NoLife.start = 0 /\ NoLife.first = 0 /\ NoLife.exit = 0
        /\ NoLife.migrations = 0
    BY DEF NoLife, Unknown, None
  <2> QED
    BY <2>1, <2>2, <2>3, <2>4 DEF OwnScan, OwnEnds
<1> QED
  BY <1>2, <1>3 DEF ScanInv

LEMMA ScanStep == KernelInv /\ ScanInv /\ [Next]_vars => KernelInv' /\ ScanInv'
<1> SUFFICES ASSUME KernelInv, ScanInv, [Next]_vars PROVE KernelInv' /\ ScanInv'
  OBVIOUS
<1> USE TraceAssumption
<1>1. now \in Nat /\ WorkPids \subseteq Pids
  BY DEF KernelInv, KernelTypes
<1>2. ASSUME NEW p \in Pids, Fork(p) PROVE KernelInv' /\ ScanInv'
  <2>1. PICK e : e = Event("sched_process_fork", Launcher, p, now + 1)
    OBVIOUS
  <2>2. Emitted(e) /\ Subject(e) = p
    <3>1. Emit("sched_process_fork", Launcher, p, p)
      BY <1>2 DEF Fork
    <3> QED
      BY <1>1, <2>1, <3>1, EmitsLine DEF Kinds
  <2>3. /\ KernelInv' /\ \A x \in Pids \ {p} : Untouched(x)
        /\ lives'[p] = lives[p] + 1 /\ lives[p] \in Nat
    BY <1>2, ForkLives DEF KernelInv, KernelTypes
  <2>4. lives'[p] > 0 /\ \A q \in Pids : lives[q] > 0 => lives'[q] > 0
    BY <2>3 DEF Untouched
  <2>5. p \in WorkPids => View(p)' \in Scans /\ OwnScan(p)' /\ OwnEnds(p)'
    BY <1>2, ForkLine
  <2> QED
    BY <2>2, <2>3, <2>4, <2>5, LineScans
<1>3. ASSUME NEW p \in Pids, Migrate(p) PROVE KernelInv' /\ ScanInv'
  <2>1. PICK e : e = Event("sched_migrate_task", p, Launcher, now + 1)
    OBVIOUS
  <2>2. Emitted(e) /\ Subject(e) = p
    <3>1. Emit("sched_migrate_task", p, Launcher, p)
      BY <1>3 DEF Migrate
    <3> QED
      BY <1>1, <2>1, <3>1, EmitsLine DEF Kinds
  <2>3. /\ KernelInv' /\ \A x \in Pids \ {p} : Untouched(x)
        /\ lives' = lives /\ lives[p] > 0
    BY <1>3, MigrateLives
  <2>4. p \in WorkPids => View(p)' \in Scans /\ OwnScan(p)' /\ OwnEnds(p)'
    BY <1>3, MigrateLine
  <2> QED
    BY <2>2, <2>3, <2>4, LineScans
<1>4. ASSUME NEW p \in Pids, Exit(p) PROVE KernelInv' /\ ScanInv'
  <2>1. PICK e : e = Event("sched_process_exit", p, Launcher, now + 1)
    OBVIOUS
  <2>2. Emitted(e) /\ Subject(e) = p
    <3>1. Emit("sched_process_exit", p, Launcher, p)
      BY <1>4 DEF Exit
    <3> QED
      BY <1>1, <2>1, <3>1, EmitsLine DEF Kinds
  <2>3. /\ KernelInv' /\ \A x \in Pids \ {p} : Untouched(x)
        /\ lives' = lives /\ lives[p] > 0
    BY <1>4, ExitLives
  <2>4. p \in WorkPids => View(p)' \in Scans /\ OwnScan(p)' /\ OwnEnds(p)'
    BY <1>4, ExitLine
  <2> QED
    BY <2>2, <2>3, <2>4, LineScans
<1>5. ASSUME NEW q \in Pids \cup {Launcher}, NEW p \in Pids \cup {Launcher}, Switch(q, p)
      PROVE  KernelInv' /\ ScanInv'
  <2>1. PICK e : e = Event("sched_switch", q, p, now + 1)
    OBVIOUS
  <2>2. Emitted(e) /\ Subject(e) = p
    <3>1. Emit("sched_switch", q, p, p)
      BY <1>5 DEF Switch
    <3> QED
      BY <1>1, <2>1, <3>1, EmitsLine DEF Kinds
  <2>3. /\ KernelInv' /\ \A x \in Pids \ {p} : Untouched(x)
        /\ lives' = lives
        /\ p \in Pids => lives[p] > 0
    BY <1>5, SwitchLives
  <2>4. p \in WorkPids => View(p)' \in Scans /\ OwnScan(p)' /\ OwnEnds(p)'
    BY <1>5, SwitchLine
  <2> QED
    BY <2>2, <2>3, <2>4, LineScans
<1>6. ASSUME Main \/ UNCHANGED vars PROVE KernelInv' /\ ScanInv'
  <2>1. UNCHANGED <<kernelVars, pids_str, workload_events>>
    BY <1>6, MainSteps
  <2>2. KernelInv'
    <3>1. now' = now /\ alive' = alive /\ oncpu' = oncpu /\ lives' = lives /\ life' = life
      BY <2>1 DEF kernelVars
    <3>2. KernelTypes'
      BY <3>1 DEF KernelInv, KernelTypes
    <3>3. ASSUME NEW p \in Pids PROVE Living(p)'
      BY <3>1 DEF KernelInv, Living
    <3> QED
      BY <3>2, <3>3 DEF KernelInv
  <2>3. SearchTypes'
    BY <2>1 DEF ScanInv, SearchTypes
  <2>4. Unambiguous' = Unambiguous
    BY <2>1 DEF Unambiguous, kernelVars
  <2>5. ASSUME NEW p \in WorkPids PROVE View(p)' \in Scans /\ OwnScan(p)' /\ OwnEnds(p)'
    <3>1. View(p)' = View(p) /\ View(p) \in Scans /\ OwnScan(p) /\ OwnEnds(p)
      BY <2>1 DEF ScanInv, View
    <3>2. OwnScan(p)'
      BY <2>1, <2>4, <3>1 DEF OwnScan, kernelVars
    <3>3. OwnEnds(p)'
      BY <2>1, <2>4, <3>1 DEF OwnEnds, kernelVars
    <3> QED
      BY <3>1, <3>2, <3>3
  <2> QED
    BY <2>2, <2>3, <2>5 DEF ScanInv
<1> QED
  BY <1>2, <1>3, <1>4, <1>5, <1>6, Zenon DEF Next, Main

LEMMA AlwaysScanned == Spec => [](KernelInv /\ ScanInv)
<1>1. Init => KernelInv /\ ScanInv
  BY KernelInit, ScanInit
<1> QED
  BY <1>1, ScanStep, PTL DEF Spec

\* The processes have ended when the trace has, and the times are those of the
\* scans.
PhaseInv ==
  /\ pc # "read" => \A p \in WorkPids : lives[p] > 0 /\ p \notin alive
  /\ HasTimes =>
       /\ \A p \in WorkPids : Valid(View(p))
       /\ times = [p \in WorkPids |-> Row(View(p))]
  /\ FailsOnlyOnLoss

\* When no line is lost and no pid is ambiguous, every scan is valid.
LEMMA GoodScan ==
  ASSUME KernelInv, ScanInv, NEW p \in WorkPids, p \in Unambiguous, p \notin lost,
         lives[p] > 0, p \notin alive
  PROVE  Valid(View(p)) /\ workload_events[p] # <<>>
<1>1. p \in Pids
  BY TraceAssumption
<1>2. Living(p) /\ lives[p] \in Nat /\ life[p] \in Lives
  BY <1>1 DEF KernelInv, KernelTypes
<1>3. life[p].exit # 0
  BY <1>2 DEF Living
<1>4. /\ 0 < life[p].start /\ life[p].first # 0 /\ life[p].start < life[p].first
      /\ life[p].first < life[p].exit
  BY <1>2, <1>3 DEF Living
<1>5. life[p].start \in Nat /\ life[p].first \in Nat /\ life[p].exit \in Nat
  BY <1>2 DEF Lives
<1>6. /\ View(p).start = life[p].start /\ View(p).first = life[p].first
      /\ View(p).exit = life[p].exit
  BY DEF ScanInv, OwnScan
<1>7. Valid(View(p))
  BY <1>3, <1>4, <1>5, <1>6 DEF Valid, None
<1>8. ASSUME workload_events[p] = <<>> PROVE FALSE
  <2>1. View(p).start = 0
    BY <1>8, ScanEmpty DEF View, Unknown, None
  <2> QED
    BY <1>4, <1>5, <1>6, <2>1
<1> QED
  BY <1>7, <1>8

LEMMA PhaseInit == Init => PhaseInv
BY DEF Init, PhaseInv, HasTimes, FailsOnlyOnLoss

LEMMA PhaseStep ==
  KernelInv /\ ScanInv /\ PhaseInv /\ [Next]_vars => PhaseInv'
<1> SUFFICES ASSUME KernelInv, ScanInv, PhaseInv, [Next]_vars PROVE PhaseInv'
  OBVIOUS
<1>1. ASSUME pc = "read", pc' = "read" PROVE PhaseInv'
  BY <1>1 DEF PhaseInv, HasTimes, FailsOnlyOnLoss
<1>2. CASE ~Main /\ ~UNCHANGED vars
  <2>1. pc = "read" /\ pc' = pc
    BY <1>2, Zenon DEF Next, Main, Fork, Switch, Migrate, Exit, Emit
  <2> QED
    BY <1>1, <2>1
<1>3. CASE Main \/ UNCHANGED vars
  <2>1. UNCHANGED <<kernelVars, pids_str, workload_events>>
    BY <1>3, MainSteps
  <2>2. lives' = lives /\ alive' = alive /\ lost' = lost /\ workload_events' = workload_events
    BY <2>1 DEF kernelVars
  <2>3. Unambiguous' = Unambiguous
    BY <2>2 DEF Unambiguous
  <2>4. \A p \in WorkPids : View(p)' = View(p)
    BY <2>2 DEF View
  <2>5. pc' # "read" => \A p \in WorkPids : lives[p] > 0 /\ p \notin alive
    BY <1>3 DEF PhaseInv, Main, EndOfTrace, CheckAllPids, WorkloadEventsOut,
                GetWorkloadTimes, WorkloadTimesOut, Reparse, ReparseOut, Ended, vars
  <2>6. HasTimes' =>
          \/ HasTimes /\ times' = times
          \/ /\ GetWorkloadTimes
             /\ \A p \in WorkPids : Valid(View(p))
             /\ times' = [p \in WorkPids |-> Row(View(p))]
    <3>1. CASE GetWorkloadTimes
      BY <3>1 DEF GetWorkloadTimes, HasTimes, View
    <3>2. CASE ~GetWorkloadTimes
      <4>1. times' = times
        BY <1>3, <3>2 DEF Main, EndOfTrace, CheckAllPids, WorkloadEventsOut,
                          WorkloadTimesOut, Reparse, ReparseOut, Ended, vars, resultVars
      <4>2. HasTimes' => HasTimes
        BY <1>3, <3>2 DEF HasTimes, Main, EndOfTrace, CheckAllPids, WorkloadEventsOut,
                          WorkloadTimesOut, Reparse, ReparseOut, Ended, vars
      <4> QED
        BY <4>1, <4>2
    <3> QED
      BY <3>1, <3>2
  <2>7. HasTimes' =>
          /\ \A p \in WorkPids : Valid(View(p))
          /\ times' = [p \in WorkPids |-> Row(View(p))]
    BY <2>6 DEF PhaseInv
  <2>8. ASSUME HasTimes'
        PROVE  /\ \A p \in WorkPids : Valid(View(p)')
               /\ times' = [p \in WorkPids |-> Row(View(p)')]
    BY <2>4, <2>7, <2>8
  <2>9. ASSUME pc' = "failed", pc # "failed"
        PROVE  /\ pc # "read"
               /\ \E p \in WorkPids : workload_events[p] = <<>> \/ ~Valid(View(p))
    BY <1>3, <2>9 DEF Main, EndOfTrace, CheckAllPids, WorkloadEventsOut, View,
                GetWorkloadTimes, WorkloadTimesOut, Reparse, ReparseOut, Ended, vars
  <2>10. FailsOnlyOnLoss'
    <3>1. CASE pc = "failed" \/ pc' # "failed"
      BY <2>2, <2>3, <3>1 DEF PhaseInv, FailsOnlyOnLoss
    <3>2. CASE pc # "failed" /\ pc' = "failed"
      <4>1. PICK p \in WorkPids : workload_events[p] = <<>> \/ ~Valid(View(p))
        BY <2>9, <3>2
      <4>2. lives[p] > 0 /\ p \notin alive
        BY <2>9, <3>2 DEF PhaseInv
      <4>3. p \in lost \/ p \notin Unambiguous
        BY <4>1, <4>2, GoodScan
      <4> QED
        BY <2>2, <2>3, <4>3 DEF FailsOnlyOnLoss
    <3> QED
      BY <3>1, <3>2
  <2> QED
    BY <2>2, <2>5, <2>8, <2>10 DEF PhaseInv
<1> QED
  BY <1>2, <1>3

\* The parser never gives up a trace that has all its lines and no pid that the
\* digits of another begin with (parse_trace.py, the checks of main and of
\* get_workload_times).
THEOREM NoFalseAlarm == Spec => []FailsOnlyOnLoss
<1>1. Init => PhaseInv
  BY PhaseInit
<1>2. PhaseInv => FailsOnlyOnLoss
  BY DEF PhaseInv
<1> QED
  BY <1>1, <1>2, PhaseStep, AlwaysScanned, PTL DEF Spec

\* The times a process is given are those of its own first life, when no line
\* about it is lost: neither exits that end a round, nor pids inside pids, nor a
\* pid used again mix two processes up (parse_ftrace, get_workload_times).
THEOREM OwnTimes == Spec => []TimesAreOwn
<1>1. KernelInv /\ ScanInv /\ PhaseInv => TimesAreOwn
  <2> SUFFICES ASSUME KernelInv, ScanInv, PhaseInv, HasTimes,
                      NEW p \in Unambiguous \ lost
               PROVE  /\ times[p] = [Row(life[p]) EXCEPT !.migrations = @ - 1]
                      /\ calculate_timing_metrics(times[p]) =
                            [execution_time |-> life[p].exit - life[p].first,
                             turnaround_time |-> life[p].exit - life[p].start]
    BY DEF TimesAreOwn
  <2>1. p \in WorkPids /\ p \in Pids
    BY TraceAssumption DEF Unambiguous
  <2>2. /\ View(p).start = life[p].start /\ View(p).first = life[p].first
        /\ View(p).exit = life[p].exit
        /\ View(p).migrations = life[p].migrations - 1
    BY <2>1 DEF ScanInv, OwnScan
  <2>3. times[p] = Row(View(p))
    BY <2>1 DEF PhaseInv
  <2>4. /\ life[p].start \in Nat /\ life[p].first \in Nat /\ life[p].exit \in Nat
    BY <2>1 DEF KernelInv, KernelTypes, Lives
  <2>5. times[p] = [start |-> life[p].start, latency |-> life[p].first - life[p].start,
                    exit |-> life[p].exit, migrations |-> life[p].migrations - 1]
    BY <2>2, <2>3 DEF Row
  <2>6. times[p] = [Row(life[p]) EXCEPT !.migrations = @ - 1]
    BY <2>5 DEF Row
  <2>7. calculate_timing_metrics(times[p]) =
          [execution_time |-> life[p].exit - life[p].start - (life[p].first - life[p].start),
           turnaround_time |-> life[p].exit - life[p].start]
    BY <2>5 DEF calculate_timing_metrics
  <2>8. life[p].exit - life[p].start - (life[p].first - life[p].start)
          = life[p].exit - life[p].first
    BY <2>4
  <2> QED
    BY <2>6, <2>7, <2>8
<1>2. Init => PhaseInv
  BY PhaseInit
<1> QED
  BY <1>1, <1>2, PhaseStep, AlwaysScanned, PTL DEF Spec

\* The start and the end that are written for a process are its own, or the parser
\* has given up, whatever lines are lost but one: with the exit line of a process
\* whose pid is used again, the search goes on into the later process
\* (parse_ftrace, get_workload_times).
THEOREM OwnEnd == Spec => []EndsAreOwn
<1>1. KernelInv /\ ScanInv /\ PhaseInv => EndsAreOwn
  <2> SUFFICES ASSUME KernelInv, ScanInv, PhaseInv, HasTimes,
                      NEW p \in Unambiguous, p \notin lostEnd \/ lives[p] = 1
               PROVE  /\ times[p].start = life[p].start /\ times[p].exit = life[p].exit
                      /\ times[p].latency >= life[p].first - life[p].start
    BY DEF EndsAreOwn
  <2>1. p \in WorkPids /\ p \in Pids
    BY TraceAssumption DEF Unambiguous
  <2>2. /\ View(p).start \in {0, life[p].start} /\ View(p).exit \in {0, life[p].exit}
        /\ View(p).first # 0 => life[p].first # 0 /\ life[p].first <= View(p).first
    BY <2>1 DEF ScanInv, OwnEnds
  <2>3. times[p] = Row(View(p)) /\ Valid(View(p))
    BY <2>1 DEF PhaseInv
  <2>4. View(p).start # 0 /\ View(p).first # 0 /\ View(p).exit # 0
    BY <2>3 DEF Valid, None
  <2>5. /\ life[p].start \in Nat /\ life[p].first \in Nat /\ View(p).first \in Nat
    BY <2>1 DEF KernelInv, KernelTypes, Lives, ScanInv, Scans
  <2>6. /\ times[p].start = View(p).start /\ times[p].exit = View(p).exit
        /\ times[p].latency = View(p).first - View(p).start
    BY <2>3 DEF Row
  <2> QED
    BY <2>2, <2>4, <2>5, <2>6
<1>2. Init => PhaseInv
  BY PhaseInit
<1> QED
  BY <1>1, <1>2, PhaseStep, AlwaysScanned, PTL DEF Spec

===============================================================================
