-------------------------- MODULE ExecWorkloadProofs --------------------------
(***************************************************************************)
(* Proofs about ExecWorkload, for every workload, every number of          *)
(* launchers, and whatever may fail.                                       *)
(***************************************************************************)
EXTENDS ExecWorkload, FiniteSetTheorems, SequenceTheorems, TLAPS

USE ExecAssumption

Item == Entries \cup {Poison}

\* What a launcher and the reaper may do, besides their regular steps.
AnyLauncherStep(l) == LauncherStep(l) \/ TimeOut(l) \/ PopenFails(l)
AnyReaperStep == ReaperStep \/ RecordFails

\* A step is one of these.
LEMMA StepCases ==
  ASSUME [Next]_vars
  PROVE  \/ MainStep
         \/ \E l \in Launchers : AnyLauncherStep(l)
         \/ \E i \in Entries : ChildExits(i)
         \/ AnyReaperStep
         \/ UNCHANGED vars
BY DEF Next, AnyLauncherStep, AnyReaperStep, Terminated

-------------------------------------------------------------------------------
(* Typing, and the count of the queue. *)

\* The main thread has put as many Nones as its place says.
NonesCounted ==
    /\ mpc \in {"dispatch", "join"} => poisoned = 0
    /\ mpc = "poison" => poisoned < Nones

\* A launcher with work has an entry.
HasEntry == \A l \in InHand : item[l] \in Entries

\* A reaper at work holds a child, and has not recorded all.
ReaperBusy ==
    /\ rpc \in {"pop", "read"} => rpid \in Entries
    /\ rpc \in {"wait", "pop", "read"} => reaped_count < N

TypeInv == TypeOK /\ CountMatches /\ NonesCounted /\ HasEntry /\ ReaperBusy

LEMMA LaunchersCounted == Nones \in Nat /\ Nones > 0
BY FS_EmptySet, FS_CardinalityType DEF Nones

\* Taking up or laying down an item changes the count by one.
LEMMA HandCount ==
  ASSUME TypeOK, NEW l \in Launchers
  PROVE  /\ Cardinality(InHand) \in Nat
         /\ l \notin InHand
              => Cardinality(InHand \cup {l}) = Cardinality(InHand) + 1
         /\ l \in InHand
              => Cardinality(InHand \ {l}) = Cardinality(InHand) - 1
<1>1. IsFiniteSet(InHand)
  BY FS_Subset DEF InHand
<1> QED
  BY <1>1, FS_CardinalityType, FS_AddElement, FS_RemoveElement

\* An item is put at the end of the queue.
LEMMA PutItem ==
  ASSUME task_queue \in Seq(Item), NEW x \in Item
  PROVE  /\ Append(task_queue, x) \in Seq(Item)
         /\ Len(Append(task_queue, x)) = Len(task_queue) + 1
BY AppendProperties

\* An item is taken from its front.
LEMMA TakeItem ==
  ASSUME task_queue \in Seq(Item), task_queue # <<>>
  PROVE  /\ Head(task_queue) \in Item
         /\ Left \in Seq(Item)
         /\ Len(Left) = Len(task_queue) - 1
         /\ Len(task_queue) \in Nat
BY HeadTailProperties, LenProperties DEF Left

LEMMA InitTypeInv == Init => TypeInv
<1> SUFFICES ASSUME Init PROVE TypeInv
  OBVIOUS
<1>1. TypeOK
  <2>1. task_queue \in Seq(Item) /\ Len(task_queue) = 0
    BY EmptySeq DEF Init
  <2>2. poisoned \in 0..Cardinality(Launchers)
    BY LaunchersCounted DEF Init, Nones
  <2> QED
    BY <2>1, <2>2 DEF Init, TypeOK, Item, Entries
<1>2. CountMatches
  <2>1. InHand = {}
    BY DEF Init, InHand
  <2> QED
    BY <2>1, FS_EmptySet DEF Init, CountMatches
<1>3. NonesCounted /\ HasEntry /\ ReaperBusy
  BY LaunchersCounted DEF Init, NonesCounted, HasEntry, InHand, ReaperBusy
<1> QED
  BY <1>1, <1>2, <1>3 DEF TypeInv

LEMMA MainStepTypeInv ==
  ASSUME TypeInv, MainStep
  PROVE  TypeInv'
<1> USE DEF TypeInv, TypeOK, CountMatches, NonesCounted, HasEntry, InHand,
            ReaperBusy, queueVars, launcherVars, childVars, reaperVars
<1>q. task_queue \in Seq(Item) /\ Len(task_queue) \in Nat
  BY LenProperties DEF Item
<1>c. Cardinality(InHand) \in Nat
  <2>1. PICK l : l \in Launchers
    OBVIOUS
  <2> QED
    BY <2>1, HandCount
<1>1. CASE Dispatch
  <2>1. Popped \in Entries
    BY <1>1 DEF Dispatch, Popped, Entries
  <2>2. /\ task_queue' \in Seq(Item)
        /\ Len(task_queue') = Len(task_queue) + 1
    BY <1>1, <1>q, <2>1, PutItem DEF Dispatch, Item
  <2> QED
    BY <1>1, <1>q, <1>c, <2>2 DEF Dispatch, Item
<1>2. CASE DispatchEnd
  BY <1>2 DEF DispatchEnd
<1>3. CASE JoinQueue
  BY <1>3, LaunchersCounted DEF JoinQueue
<1>4. CASE PutPoison
  <2>1. /\ task_queue' \in Seq(Item)
        /\ Len(task_queue') = Len(task_queue) + 1
    BY <1>4, <1>q, PutItem DEF PutPoison, Item
  <2>2. /\ poisoned' \in 0..Nones
        /\ mpc' = "poison" => poisoned' < Nones
        /\ mpc' \in {"poison", "launchers"}
    BY <1>4, LaunchersCounted DEF PutPoison, Nones
  <2> QED
    BY <1>4, <1>q, <1>c, <2>1, <2>2 DEF PutPoison, Item, Nones
<1>5. CASE JoinLaunchers
  BY <1>5 DEF JoinLaunchers
<1>6. CASE JoinReaper
  BY <1>6 DEF JoinReaper
<1>7. CASE LogOutput
  BY <1>7 DEF LogOutput
<1> QED
  BY <1>1, <1>2, <1>3, <1>4, <1>5, <1>6, <1>7 DEF MainStep

LEMMA LauncherStepTypeInv ==
  ASSUME TypeInv, NEW l \in Launchers, AnyLauncherStep(l)
  PROVE  TypeInv'
<1> USE DEF TypeInv, TypeOK, CountMatches, NonesCounted, HasEntry, ReaperBusy,
            mainVars, queueVars, launcherVars, childVars, reaperVars, Goes
<1>q. task_queue \in Seq(Item) /\ Len(task_queue) \in Nat
  BY LenProperties DEF Item
<1>c. /\ Cardinality(InHand) \in Nat
      /\ l \notin InHand => Cardinality(InHand \cup {l}) = Cardinality(InHand) + 1
      /\ l \in InHand => Cardinality(InHand \ {l}) = Cardinality(InHand) - 1
  BY HandCount
<1>1. CASE Get(l)
  <2>1. /\ item' = [item EXCEPT ![l] = Head(task_queue)]
        /\ Head(task_queue) \in Entries
        /\ task_queue' \in Seq(Item)
        /\ Len(task_queue') = Len(task_queue) - 1
    BY <1>1, <1>q, TakeItem DEF Get, Item
  <2>2. l \notin InHand /\ InHand' = InHand \cup {l}
    BY <1>1 DEF Get, InHand
  <2>3. CountMatches'
    BY <1>1, <1>q, <1>c, <2>1, <2>2 DEF Get
  <2>4. HasEntry'
    BY <1>1, <2>1, <2>2
  <2>5. item' \in [Launchers -> 0..N]
    BY <2>1 DEF Entries
  <2>6. TypeOK'
    BY <1>1, <2>1, <2>5 DEF Get, Item
  <2> QED
    BY <1>1, <2>3, <2>4, <2>6 DEF Get
<1>2. CASE GetPoison(l)
  <2>1. /\ task_queue' \in Seq(Item)
        /\ Len(task_queue') = Len(task_queue) - 1
        /\ Len(task_queue') \in Nat
    BY <1>2, <1>q, TakeItem, LenProperties DEF GetPoison, Item
  <2>2. InHand' = InHand
    BY <1>2 DEF GetPoison, InHand
  <2>3. CountMatches' /\ unfinished' \in Nat
    BY <1>2, <1>q, <1>c, <2>1, <2>2 DEF GetPoison
  <2> QED
    BY <1>2, <2>1, <2>2, <2>3 DEF GetPoison, Item
<1>3. CASE TimeOut(l)
  <2>1. InHand' = InHand
    BY <1>3 DEF TimeOut, InHand
  <2> QED
    BY <1>3, <2>1 DEF TimeOut, CountAfterTimeOut
<1>4. CASE Lock(l) \/ Popen(l) \/ Register(l) \/ PopenFails(l)
  <2>1. l \in InHand /\ InHand' = InHand
    BY <1>4 DEF Lock, Popen, Register, PopenFails, AfterError, InHand
  <2>2. CASE Popen(l)
    <3>1. item[l] \in Entries /\ starts' \in [Entries -> Nat]
      BY <2>1, <2>2 DEF Popen
    <3> QED
      BY <2>1, <2>2, <3>1 DEF Popen
  <2>3. CASE Lock(l) \/ Register(l) \/ PopenFails(l)
    BY <2>1, <2>3 DEF Lock, Register, PopenFails, AfterError
  <2> QED
    BY <1>4, <2>2, <2>3
<1>5. CASE TaskDone(l)
  <2>1. l \in InHand /\ InHand' = InHand \ {l}
    BY <1>5 DEF TaskDone, InHand
  <2>2. Cardinality(InHand') \in Nat
    BY <1>5, <2>1, HandCount, FS_Subset, FS_CardinalityType DEF InHand
  <2>3. CountMatches' /\ unfinished' \in Nat
    BY <1>5, <1>q, <1>c, <2>1, <2>2 DEF TaskDone
  <2>4. HasEntry'
    BY <1>5, <2>1 DEF TaskDone, InHand
  <2>5. item' \in [Launchers -> 0..N]
    BY <1>5 DEF TaskDone
  <2>6. TypeOK'
    BY <1>5, <2>3, <2>5 DEF TaskDone
  <2> QED
    BY <1>5, <2>3, <2>4, <2>6 DEF TaskDone
<1> QED
  BY <1>1, <1>2, <1>3, <1>4, <1>5 DEF AnyLauncherStep, LauncherStep

LEMMA ReaperStepTypeInv ==
  ASSUME TypeInv, AnyReaperStep
  PROVE  TypeInv'
<1> USE DEF TypeInv, TypeOK, CountMatches, NonesCounted, HasEntry, InHand,
            ReaperBusy, mainVars, queueVars, launcherVars, childVars, reaperVars
<1>1. CASE ReaperTest
  BY <1>1 DEF ReaperTest
<1>2. CASE Wait
  <2>1. /\ child' \in [Entries -> {"none", "running", "zombie", "reaped"}]
        /\ rpid' \in Entries
    BY <1>2 DEF Wait
  <2>2. /\ rpc' = "pop" /\ rpc = "wait"
        /\ UNCHANGED <<mainVars, queueVars, launcherVars, tasks_lock,
                       active_tasks, silent, starts, results, reaped_count,
                       records>>
    BY <1>2 DEF Wait
  <2>3. InHand' = InHand
    BY <2>2 DEF InHand
  <2> HIDE DEF InHand
  <2>4. CountMatches' /\ NonesCounted' /\ HasEntry'
    BY <2>2, <2>3
  <2>5. ReaperBusy'
    BY <2>1, <2>2
  <2>6. rpid' \in 0..N
    BY <2>1, ExecAssumption DEF Entries
  <2>7. TypeOK'
    BY <2>1, <2>2, <2>6
  <2> QED
    BY <2>4, <2>5, <2>7
<1>3. CASE WaitNoChild
  BY <1>3 DEF WaitNoChild
<1>4. CASE Pop
  BY <1>4 DEF Pop, PoppedTasks
<1>5. CASE Record
  BY <1>5 DEF Record
<1>6. CASE RecordFails
  BY <1>6 DEF RecordFails
<1> QED
  BY <1>1, <1>2, <1>3, <1>4, <1>5, <1>6 DEF AnyReaperStep, ReaperStep

LEMMA ChildExitsTypeInv ==
  ASSUME TypeInv, NEW i \in Entries, ChildExits(i)
  PROVE  TypeInv'
BY DEF ChildExits, TypeInv, TypeOK, CountMatches, NonesCounted, HasEntry,
       InHand, ReaperBusy, mainVars, queueVars, launcherVars, reaperVars

LEMMA TypeInvariance == Spec => []TypeInv
<1>1. ASSUME TypeInv, [Next]_vars PROVE TypeInv'
  <2>1. CASE UNCHANGED vars
    BY <1>1, <2>1 DEF vars, mainVars, queueVars, launcherVars, childVars,
         reaperVars, TypeInv, TypeOK, CountMatches, NonesCounted, HasEntry,
         InHand, ReaperBusy
  <2> QED
    BY <1>1, <2>1, StepCases, MainStepTypeInv, LauncherStepTypeInv,
       ReaperStepTypeInv, ChildExitsTypeInv
<1> QED
  BY <1>1, InitTypeInv, PTL DEF Spec

\* The types hold, whatever the workload and the number of launchers: neither
\* count ever leaves its range.
THEOREM TypeCorrect == Spec => []TypeOK
<1>1. TypeInv => TypeOK
  BY DEF TypeInv
<1> QED
  BY <1>1, TypeInvariance, PTL

\* task_queue.join() waits for what is in the queue or in the hands of a
\* launcher, also after a launch that failed.
THEOREM JoinCountsRight == Spec => []CountMatches
<1>1. TypeInv => CountMatches
  BY DEF TypeInv
<1> QED
  BY <1>1, TypeInvariance, PTL

-------------------------------------------------------------------------------
(* join() means handled. *)

\* An empty count means an empty queue and idle launchers.
LEMMA NothingUnfinished ==
  ASSUME TypeInv, unfinished = 0
  PROVE  InHand = {} /\ task_queue = <<>>
<1>1. IsFiniteSet(InHand)
  BY FS_Subset DEF InHand
<1>2. /\ Cardinality(InHand) \in Nat
      /\ Len(task_queue) \in Nat
  BY <1>1, FS_CardinalityType, LenProperties DEF TypeInv, TypeOK
<1>3. Cardinality(InHand) = 0 /\ Len(task_queue) = 0
  BY <1>2 DEF TypeInv, CountMatches
<1> QED
  BY <1>1, <1>3, FS_EmptySet, EmptySeq DEF TypeInv, TypeOK

LEMMA JoinMeansHandledStep ==
  ASSUME TypeInv, JoinMeansHandled, [Next]_vars
  PROVE  JoinMeansHandled'
<1> USE DEF JoinMeansHandled, InHand, mainVars, queueVars, launcherVars,
            childVars, reaperVars
<1>q. task_queue \in Seq(Item)
  BY DEF TypeInv, TypeOK, Item
<1>1. CASE MainStep
  <2>1. CASE Dispatch \/ DispatchEnd
    BY <2>1 DEF Dispatch, DispatchEnd
  <2>2. CASE JoinQueue
    BY <2>2, NothingUnfinished DEF JoinQueue, Joined
  <2>3. CASE PutPoison
    <3>1. \A j \in DOMAIN task_queue' : task_queue'[j] = Poison
      BY <2>3, <1>q, AppendProperties DEF PutPoison, Item
    <3> QED
      BY <2>3, <3>1 DEF PutPoison
  <2>4. CASE JoinLaunchers \/ JoinReaper \/ LogOutput
    BY <2>4 DEF JoinLaunchers, JoinReaper, LogOutput
  <2> QED
    BY <1>1, <2>1, <2>2, <2>3, <2>4 DEF MainStep
<1>2. ASSUME NEW l \in Launchers, AnyLauncherStep(l)
      PROVE  JoinMeansHandled'
  <2> SUFFICES ASSUME mpc \notin {"dispatch", "join"} PROVE JoinMeansHandled'
    BY <1>2 DEF AnyLauncherStep, LauncherStep, Get, GetPoison, TimeOut, Lock,
         Popen, PopenFails, Register, TaskDone
  <2>1. lpc[l] \notin {"lock", "popen", "register", "finally"}
    OBVIOUS
  <2>2. ~Get(l)
    BY <1>q, LenProperties, HeadTailProperties DEF Get
  <2>3. CASE GetPoison(l)
    <3>1. \A j \in DOMAIN task_queue' : task_queue'[j] = Poison
      BY <2>3, <1>q, HeadTailProperties, LenProperties DEF GetPoison, Left
    <3>2. InHand' = {}
      BY <2>3 DEF GetPoison, Goes, TypeInv, TypeOK
    <3> QED
      BY <3>1, <3>2
  <2>4. CASE TimeOut(l)
    BY <2>4 DEF TimeOut, Goes, TypeInv, TypeOK
  <2> QED
    BY <1>2, <2>1, <2>2, <2>3, <2>4 DEF AnyLauncherStep, LauncherStep, Lock,
       Popen, PopenFails, Register, TaskDone, Goes
<1>3. ASSUME NEW i \in Entries, ChildExits(i)
      PROVE  JoinMeansHandled'
  BY <1>3 DEF ChildExits
<1>4. CASE AnyReaperStep
  BY <1>4 DEF AnyReaperStep, ReaperStep, ReaperTest, Wait, WaitNoChild, Pop,
       Record, RecordFails
<1>5. CASE UNCHANGED vars
  BY <1>5 DEF vars
<1> QED
  BY <1>1, <1>2, <1>3, <1>4, <1>5, StepCases

\* Whatever fails and whenever launchers give up, join() returns only when
\* every entry was taken and handled.
THEOREM JoinIsEnough == Spec => []JoinMeansHandled
<1>1. Init => JoinMeansHandled
  BY DEF Init, JoinMeansHandled
<1> QED
  BY <1>1, TypeInvariance, JoinMeansHandledStep, PTL DEF Spec

-------------------------------------------------------------------------------
(* An entry is started once. *)

\* Nothing is ahead of the main thread: what is queued, in hand or started has
\* been dispatched.
Dispatched ==
    /\ \A j \in DOMAIN task_queue :
         task_queue[j] # Poison => task_queue[j] <= dispatched
    /\ \A l \in InHand : item[l] <= dispatched
    /\ \A i \in Entries : child[i] # "none" => i <= dispatched

OnceInv == EntryInOnePlace /\ Dispatched

LEMMA MainStepOnceInv ==
  ASSUME TypeInv, OnceInv, MainStep
  PROVE  OnceInv'
<1> USE DEF OnceInv, EntryInOnePlace, Dispatched, InHand, Starting, mainVars,
            queueVars, launcherVars, childVars, reaperVars
<1>q. /\ task_queue \in Seq(Item) /\ dispatched \in Nat
      /\ \A j \in DOMAIN task_queue : task_queue[j] \in Item
      /\ Len(task_queue) \in Nat /\ DOMAIN task_queue = 1..Len(task_queue)
  BY LenProperties, ElementOfSeq DEF TypeInv, TypeOK, Item
<1>1. CASE Dispatch
  <2> DEFINE new == dispatched + 1
  <2>1. /\ new \in Item /\ new # Poison /\ new \in Entries
        /\ task_queue' = Append(task_queue, new)
        /\ dispatched' = new
        /\ UNCHANGED <<lpc, item, child>>
    BY <1>1, <1>q DEF Dispatch, Popped, Item, Entries
  <2>2. /\ \A j \in DOMAIN task_queue : task_queue[j] # new
        /\ \A l \in InHand : item[l] # new
        /\ child[new] = "none"
    BY <1>q, <2>1 DEF TypeInv, TypeOK, HasEntry, Entries
  <2>3. /\ DOMAIN task_queue' = 1..(Len(task_queue) + 1)
        /\ \A j \in DOMAIN task_queue : task_queue'[j] = task_queue[j]
        /\ task_queue'[Len(task_queue) + 1] = new
    BY <1>q, <2>1, AppendProperties
  <2>4. Dispatched'
    BY <1>q, <2>1, <2>3 DEF Entries, Item, TypeInv, TypeOK, HasEntry
  <2>5. EntryInOnePlace'
    BY <1>q, <2>1, <2>2, <2>3
  <2> QED
    BY <2>4, <2>5
<1>2. CASE PutPoison
  <2>1. /\ DOMAIN task_queue' = 1..(Len(task_queue) + 1)
        /\ \A j \in DOMAIN task_queue : task_queue'[j] = task_queue[j]
        /\ task_queue'[Len(task_queue) + 1] = Poison
        /\ UNCHANGED <<dispatched, lpc, item, child>>
    BY <1>2, <1>q, AppendProperties DEF PutPoison, Item
  <2> QED
    BY <1>q, <2>1
<1>3. CASE DispatchEnd \/ JoinQueue \/ JoinLaunchers \/ JoinReaper \/ LogOutput
  BY <1>3 DEF DispatchEnd, JoinQueue, JoinLaunchers, JoinReaper, LogOutput
<1> QED
  BY <1>1, <1>2, <1>3 DEF MainStep

LEMMA LauncherStepOnceInv ==
  ASSUME TypeInv, OnceInv, NEW l \in Launchers, AnyLauncherStep(l)
  PROVE  OnceInv'
<1> USE DEF OnceInv, EntryInOnePlace, Dispatched, InHand, Starting, mainVars,
            queueVars, launcherVars, childVars, reaperVars, Goes
<1>q. /\ task_queue \in Seq(Item)
      /\ \A j \in DOMAIN task_queue : task_queue[j] \in Item
      /\ Len(task_queue) \in Nat /\ DOMAIN task_queue = 1..Len(task_queue)
  BY LenProperties, ElementOfSeq DEF TypeInv, TypeOK, Item
<1>t. /\ lpc \in [Launchers -> {"get", "lock", "popen", "register", "finally",
                                "done"}]
      /\ item \in [Launchers -> 0..N]
      /\ \A k \in InHand : item[k] \in Entries
  BY DEF TypeInv, TypeOK, HasEntry
<1>h. ASSUME task_queue # <<>>
      PROVE  /\ 1 \in DOMAIN task_queue /\ Head(task_queue) = task_queue[1]
             /\ DOMAIN Left = 1..(Len(task_queue) - 1)
             /\ \A j \in DOMAIN Left : /\ j + 1 \in DOMAIN task_queue
                                       /\ Left[j] = task_queue[j + 1]
  BY <1>h, <1>q, HeadTailProperties, LenProperties, EmptySeq DEF Left
<1>1. CASE Get(l)
  <2>1. /\ lpc' = [lpc EXCEPT ![l] = "lock"]
        /\ item' = [item EXCEPT ![l] = task_queue[1]]
        /\ task_queue' = Left
        /\ task_queue[1] # Poison
        /\ lpc[l] = "get"
        /\ UNCHANGED <<dispatched, child>>
    BY <1>1, <1>h DEF Get
  <2>2. /\ 1 \in DOMAIN task_queue
        /\ \A j \in DOMAIN task_queue' :
             j + 1 \in DOMAIN task_queue /\ task_queue'[j] = task_queue[j + 1]
        /\ \A j \in DOMAIN task_queue' : j \in Nat /\ j + 1 # 1
    BY <1>1, <1>h, <1>q, <2>1 DEF Get
  <2>3. /\ InHand' = InHand \cup {l} /\ l \notin InHand
        /\ Starting' = Starting \cup {l}
        /\ \A k \in Launchers : item'[k] = IF k = l THEN task_queue[1] ELSE item[k]
    BY <1>t, <2>1
  <2>4. \A k \in InHand : item[k] # task_queue[1]
    BY <2>1, <2>2
  <2>5. \A j \in DOMAIN task_queue' : task_queue'[j] # Poison =>
           /\ child[task_queue'[j]] = "none"
           /\ \A k \in DOMAIN task_queue' : task_queue'[k] = task_queue'[j] => k = j
           /\ \A k \in InHand' : item'[k] # task_queue'[j]
    <3> SUFFICES ASSUME NEW j \in DOMAIN task_queue', task_queue'[j] # Poison
                 PROVE  /\ child[task_queue'[j]] = "none"
                        /\ \A k \in DOMAIN task_queue' :
                             task_queue'[k] = task_queue'[j] => k = j
                        /\ \A k \in InHand' : item'[k] # task_queue'[j]
      OBVIOUS
    <3>1. j + 1 \in DOMAIN task_queue /\ task_queue'[j] = task_queue[j + 1]
      BY <2>2
    <3>2. child[task_queue'[j]] = "none"
      BY <3>1
    <3>3. ASSUME NEW k \in DOMAIN task_queue', task_queue'[k] = task_queue'[j]
          PROVE  k = j
      <4>1. k + 1 = j + 1
        BY <2>2, <3>1, <3>3
      <4> QED
        BY <4>1, <2>2
    <3>4. ASSUME NEW k \in InHand' PROVE item'[k] # task_queue'[j]
      BY <2>2, <2>3, <3>1, <3>4
    <3> QED
      BY <3>2, <3>3, <3>4
  <2>6. \A k \in Starting' : child'[item'[k]] = "none"
    BY <2>1, <2>2, <2>3
  <2>7. \A k, m \in InHand' : item'[k] = item'[m] => k = m
    BY <2>3, <2>4
  <2>8. Dispatched'
    BY <2>1, <2>2, <2>3
  <2> QED
    BY <2>1, <2>5, <2>6, <2>7, <2>8
<1>2. CASE GetPoison(l)
  <2>1. /\ InHand' = InHand /\ Starting' = Starting
        /\ task_queue' = Left /\ task_queue # <<>>
        /\ UNCHANGED <<item, child, dispatched>>
    BY <1>2, <1>t DEF GetPoison
  <2>2. /\ \A j \in DOMAIN task_queue' :
             j + 1 \in DOMAIN task_queue /\ task_queue'[j] = task_queue[j + 1]
        /\ \A j \in DOMAIN task_queue' : j \in Nat
    BY <1>h, <1>q, <2>1
  <2>3. \A j, k \in DOMAIN task_queue' : j + 1 = k + 1 => j = k
    BY <2>2
  <2> QED
    BY <2>1, <2>2, <2>3
<1>3. CASE TimeOut(l)
  <2>1. /\ InHand' = InHand /\ Starting' = Starting
        /\ UNCHANGED <<item, child, dispatched, task_queue>>
    BY <1>3, <1>t DEF TimeOut
  <2> QED
    BY <2>1
<1>4. CASE Lock(l) \/ Register(l) \/ PopenFails(l)
  <2>1. /\ InHand' = InHand /\ Starting' \subseteq Starting
        /\ UNCHANGED <<item, child, dispatched, task_queue>>
    BY <1>4, <1>t DEF Lock, Register, PopenFails, AfterError
  <2> QED
    BY <2>1
<1>5. CASE Popen(l)
  <2>1. /\ InHand' = InHand /\ Starting' = Starting \ {l} /\ l \in InHand
        /\ item[l] \in Entries
        /\ child' = [child EXCEPT ![item[l]] = "running"]
        /\ UNCHANGED <<item, dispatched, task_queue>>
    BY <1>5, <1>t DEF Popen
  <2>2. \A j \in DOMAIN task_queue :
          task_queue[j] # Poison => task_queue[j] \in Entries
    BY <1>q DEF Item
  <2>3. \A k \in Starting' : k \in InHand /\ k # l
    BY <2>1
  <2> QED
    BY <1>t, <2>1, <2>2, <2>3 DEF TypeInv, TypeOK
<1>6. CASE TaskDone(l)
  <2>1. /\ InHand' = InHand \ {l} /\ Starting' = Starting
        /\ \A k \in Launchers \ {l} : item'[k] = item[k]
        /\ l \notin Starting
        /\ UNCHANGED <<child, dispatched, task_queue>>
    BY <1>6, <1>t DEF TaskDone
  <2> QED
    BY <2>1
<1> QED
  BY <1>1, <1>2, <1>3, <1>4, <1>5, <1>6 DEF AnyLauncherStep, LauncherStep

LEMMA OnceInvariance == Spec => [](TypeInv /\ OnceInv)
<1> USE DEF OnceInv, EntryInOnePlace, Dispatched, InHand, Starting, mainVars,
            queueVars, launcherVars, childVars, reaperVars
<1>1. Init => OnceInv
  <2> SUFFICES ASSUME Init PROVE OnceInv
    OBVIOUS
  <2>1. InHand = {} /\ Starting = {} /\ DOMAIN task_queue = {}
    BY EmptySeq DEF Init
  <2> QED
    BY <2>1 DEF Init
<1>2. ASSUME TypeInv, OnceInv, [Next]_vars PROVE OnceInv'
  <2>1. ASSUME NEW i \in Entries, ChildExits(i) PROVE OnceInv'
    <3>1. /\ \A k \in Entries : child'[k] = "none" <=> child[k] = "none"
          /\ UNCHANGED <<lpc, item, dispatched, task_queue>>
      BY <2>1, <1>2 DEF ChildExits, TypeInv, TypeOK
    <3>2. /\ \A j \in DOMAIN task_queue :
               task_queue[j] # Poison => task_queue[j] \in Entries
          /\ \A l \in InHand : item[l] \in Entries
      BY <1>2, ElementOfSeq DEF TypeInv, TypeOK, HasEntry
    <3> QED
      BY <1>2, <3>1, <3>2
  <2>2. CASE AnyReaperStep
    <3>1. /\ \A k \in Entries : child'[k] = "none" <=> child[k] = "none"
          /\ UNCHANGED <<lpc, item, dispatched, task_queue>>
      BY <2>2, <1>2 DEF AnyReaperStep, ReaperStep, ReaperTest, Wait,
           WaitNoChild, Pop, Record, RecordFails, TypeInv, TypeOK
    <3>2. /\ \A j \in DOMAIN task_queue :
               task_queue[j] # Poison => task_queue[j] \in Entries
          /\ \A l \in InHand : item[l] \in Entries
      BY <1>2, ElementOfSeq DEF TypeInv, TypeOK, HasEntry
    <3> QED
      BY <1>2, <3>1, <3>2
  <2>3. CASE UNCHANGED vars
    BY <1>2, <2>3 DEF vars
  <2> QED
    BY <1>2, <2>1, <2>2, <2>3, StepCases, MainStepOnceInv, LauncherStepOnceInv
<1> QED
  BY <1>1, <1>2, TypeInvariance, PTL DEF Spec

\* Every entry is started by one launcher only, for any number of launchers.
THEOREM EntriesStartOnce == Spec => []EntryInOnePlace
<1>1. OnceInv => EntryInOnePlace
  BY DEF OnceInv
<1> QED
  BY <1>1, OnceInvariance, PTL

-------------------------------------------------------------------------------
(* No child is lost. *)

\* tasks_lock is held from Lock to Register.
LockOwner ==
    \A l \in Launchers : lpc[l] \in {"popen", "register"} <=> tasks_lock = l

\* What is registered was started, what is recorded was reaped, and the child
\* the reaper holds is known to somebody.
Accounted ==
    /\ \A i \in active_tasks \cup Registering : child[i] # "none"
    /\ \A i \in results : child[i] = "reaped"
    /\ rpc \in {"pop", "read"} => child[rpid] = "reaped" /\ rpid \notin results
    /\ rpc = "pop" => rpid \in active_tasks \cup Registering

ChildInv == LockOwner /\ Accounted /\ ChildrenTracked /\ NoResultDropped

\* Only the holder of the lock can be registering.
LEMMA NoneRegistering ==
  ASSUME LockOwner, tasks_lock = NoThread
  PROVE  Registering = {}
BY DEF LockOwner, Registering

LEMMA LauncherStepChildInv ==
  ASSUME TypeInv, OnceInv, ChildInv, NEW l \in Launchers, AnyLauncherStep(l)
  PROVE  ChildInv'
<1> USE DEF ChildInv, LockOwner, Accounted, ChildrenTracked, NoResultDropped,
            Reading, mainVars, queueVars, launcherVars, childVars, reaperVars,
            Goes
<1>t. /\ lpc \in [Launchers -> {"get", "lock", "popen", "register", "finally",
                                "done"}]
      /\ item \in [Launchers -> 0..N]
      /\ \A k \in InHand : item[k] \in Entries
      /\ child \in [Entries -> {"none", "running", "zombie", "reaped"}]
      /\ active_tasks \subseteq Entries /\ results \subseteq Entries
  BY DEF TypeInv, TypeOK, HasEntry
<1>1. CASE Get(l) \/ GetPoison(l) \/ TimeOut(l) \/ Lock(l) \/ TaskDone(l)
           \/ PopenFails(l)
  <2>1. Registering' = Registering
    BY <1>1, <1>t DEF Get, GetPoison, TimeOut, Lock, TaskDone, PopenFails,
         AfterError, Registering
  <2>2. LockOwner'
    BY <1>1, <1>t DEF Get, GetPoison, TimeOut, Lock, TaskDone, PopenFails,
         AfterError
  <2>3. UNCHANGED <<active_tasks, child, rpc, rpid, results, reaped_count>>
    BY <1>1 DEF Get, GetPoison, TimeOut, Lock, TaskDone, PopenFails
  <2> QED
    BY <2>1, <2>2, <2>3
<1>2. CASE Popen(l)
  <2> DEFINE i == item[l]
  <2>1. /\ lpc[l] = "popen" /\ lpc' = [lpc EXCEPT ![l] = "register"]
        /\ child' = [child EXCEPT ![i] = "running"]
        /\ i \in Entries /\ child[i] = "none"
        /\ UNCHANGED <<item, tasks_lock, active_tasks, rpc, rpid, results,
                       reaped_count>>
    BY <1>2, <1>t DEF Popen, InHand, OnceInv, EntryInOnePlace, Starting
  <2>2. LockOwner'
    BY <1>t, <2>1
  <2>3. Registering = {} /\ Registering' = {i}
    BY <1>t, <2>1 DEF Registering
  <2>4. i \notin active_tasks \cup results \cup Reading
    BY <2>1 DEF TypeInv, ReaperBusy
  <2>5. \A j \in Entries : child'[j] = IF j = i THEN "running" ELSE child[j]
    BY <1>t, <2>1
  <2>6. Accounted'
    BY <1>t, <2>1, <2>3, <2>4, <2>5 DEF TypeInv, ReaperBusy
  <2>7. ChildrenTracked'
    BY <1>t, <2>1, <2>3, <2>4, <2>5
  <2>8. NoResultDropped'
    BY <1>t, <2>1, <2>5
  <2> QED
    BY <2>2, <2>6, <2>7, <2>8
<1>3. CASE Register(l)
  <2> DEFINE i == item[l]
  <2>1. /\ lpc[l] = "register" /\ lpc' = [lpc EXCEPT ![l] = "finally"]
        /\ active_tasks' = active_tasks \cup {i}
        /\ tasks_lock' = NoThread
        /\ UNCHANGED <<item, child, rpc, rpid, results, reaped_count>>
    BY <1>3 DEF Register
  <2>2. LockOwner'
    BY <1>t, <2>1
  <2>3. Registering = {i} /\ Registering' = {}
    BY <1>t, <2>1 DEF Registering
  <2> QED
    BY <1>t, <2>1, <2>2, <2>3
<1> QED
  BY <1>1, <1>2, <1>3 DEF AnyLauncherStep, LauncherStep

LEMMA ReaperStepChildInv ==
  ASSUME TypeInv, ChildInv, AnyReaperStep
  PROVE  ChildInv'
<1> USE DEF ChildInv, LockOwner, Accounted, ChildrenTracked, NoResultDropped,
            Reading, Registering, mainVars, queueVars, launcherVars, childVars,
            reaperVars
<1>t. /\ child \in [Entries -> {"none", "running", "zombie", "reaped"}]
      /\ active_tasks \subseteq Entries /\ results \subseteq Entries
      /\ rpc \in {"pop", "read"} => rpid \in Entries
  BY DEF TypeInv, TypeOK, ReaperBusy
<1>1. CASE ReaperTest
  BY <1>1 DEF ReaperTest
<1>2. CASE Wait
  <2>1. PICK i \in Entries : /\ child[i] = "zombie"
                             /\ child' = [child EXCEPT ![i] = "reaped"]
                             /\ rpid' = i
    BY <1>2 DEF Wait
  <2>2. /\ rpc = "wait" /\ rpc' = "pop"
        /\ UNCHANGED <<lpc, item, tasks_lock, active_tasks, results,
                       reaped_count>>
    BY <1>2 DEF Wait
  <2>3. \A j \in Entries : child'[j] = IF j = i THEN "reaped" ELSE child[j]
    BY <1>t, <2>1
  <2>4. i \in active_tasks \cup Registering /\ i \notin results
    BY <2>1, <2>2
  <2>5. Registering \subseteq Entries
    BY DEF TypeInv, HasEntry, InHand
  <2>6. Accounted'
    BY <1>t, <2>1, <2>2, <2>3, <2>4, <2>5
  <2>7. ChildrenTracked'
    BY <1>t, <2>1, <2>2, <2>3
  <2>8. NoResultDropped'
    BY <1>t, <2>1, <2>2, <2>3
  <2> QED
    BY <2>2, <2>6, <2>7, <2>8
<1>3. CASE WaitNoChild
  BY <1>3 DEF WaitNoChild
<1>4. CASE Pop
  <2>1. Registering = {}
    BY <1>4, NoneRegistering DEF Pop, PopLock
  <2>2. rpid \in active_tasks /\ rpc = "pop"
    BY <1>4, <2>1 DEF Pop
  <2>3. /\ active_tasks' = active_tasks \ {rpid}
        /\ rpc' = "read"
        /\ UNCHANGED <<lpc, item, tasks_lock, child, rpid, results,
                       reaped_count>>
    BY <1>4, <2>2 DEF Pop, PoppedTasks
  <2> QED
    BY <2>1, <2>2, <2>3
<1>5. CASE Record
  <2>1. /\ rpc = "read" /\ rpc' = "test"
        /\ results' = results \cup {rpid}
        /\ reaped_count' = reaped_count + 1
        /\ UNCHANGED <<lpc, item, tasks_lock, active_tasks, child, rpid>>
    BY <1>5 DEF Record
  <2>2. IsFiniteSet(results)
    BY <1>t, FS_Interval, FS_Subset DEF Entries
  <2>3. Cardinality(results') = Cardinality(results) + 1
    BY <2>1, <2>2, FS_AddElement
  <2>4. reaped_count' = Cardinality(results')
    BY <2>1, <2>3
  <2> QED
    BY <2>1, <2>4
<1>6. CASE RecordFails
  BY <1>6 DEF RecordFails
<1> QED
  BY <1>1, <1>2, <1>3, <1>4, <1>5, <1>6 DEF AnyReaperStep, ReaperStep

LEMMA ChildInvariance == Spec => [](TypeInv /\ OnceInv /\ ChildInv)
<1> USE DEF ChildInv, LockOwner, Accounted, ChildrenTracked, NoResultDropped,
            Reading, Registering, mainVars, queueVars, launcherVars, reaperVars
<1>1. Init => ChildInv
  BY FS_EmptySet DEF Init
<1>2. ASSUME TypeInv, OnceInv, ChildInv, [Next]_vars PROVE ChildInv'
  <2>1. CASE MainStep
    BY <1>2, <2>1 DEF MainStep, Dispatch, DispatchEnd, JoinQueue, PutPoison,
         JoinLaunchers, JoinReaper, LogOutput, childVars
  <2>2. ASSUME NEW i \in Entries, ChildExits(i) PROVE ChildInv'
    <3>1. /\ \A k \in Entries :
               child'[k] = IF k = i THEN "zombie" ELSE child[k]
          /\ child[i] = "running"
          /\ UNCHANGED <<lpc, item, tasks_lock, active_tasks, rpc, rpid,
                         results, reaped_count>>
      BY <1>2, <2>2 DEF ChildExits, TypeInv, TypeOK
    <3>2. /\ active_tasks \subseteq Entries /\ results \subseteq Entries
          /\ Registering \subseteq Entries
          /\ rpc \in {"pop", "read"} => rpid \in Entries
      BY <1>2 DEF TypeInv, TypeOK, HasEntry, InHand, ReaperBusy
    <3>3. Accounted'
      BY <1>2, <3>1, <3>2
    <3>4. ChildrenTracked' /\ NoResultDropped' /\ LockOwner'
      BY <1>2, <3>1
    <3> QED
      BY <3>3, <3>4
  <2>3. CASE UNCHANGED vars
    BY <1>2, <2>3 DEF vars, childVars
  <2> QED
    BY <1>2, <2>1, <2>2, <2>3, StepCases, LauncherStepChildInv,
       ReaperStepChildInv
<1> QED
  BY <1>1, <1>2, OnceInvariance, PTL DEF Spec

\* A started process is always registered, about to be, in the hands of the
\* reaper or recorded, and only one of these; the count the reaper stops at is
\* that of the results.
THEOREM ChildrenAreTracked == Spec => []ChildrenTracked
<1>1. ChildInv => ChildrenTracked
  BY DEF ChildInv
<1> QED
  BY <1>1, ChildInvariance, PTL

\* However early a child exits, its result is not dropped.
THEOREM NoResultIsDropped == Spec => []NoResultDropped
<1>1. ChildInv => NoResultDropped
  BY DEF ChildInv
<1> QED
  BY <1>1, ChildInvariance, PTL

-------------------------------------------------------------------------------
(* The output is written. *)

\* The log comes after the reaper, which ends with all results or early; what
\* makes the log fail does not go away.
WrittenInv ==
    /\ mpc \in {"log", "crash"} => rpc = "done"
    /\ mpc = "crash" => silent # {} \/ reaped_count < N

LEMMA WrittenStep ==
  ASSUME TypeInv, ChildInv, WrittenInv, [Next]_vars
  PROVE  WrittenInv'
<1> USE DEF WrittenInv, mainVars, queueVars, launcherVars, childVars, reaperVars
<1>1. CASE MainStep
  <2>1. CASE LogOutput
    <3>1. reaped_count \in 0..N /\ reaped_count = Cardinality(results)
      BY <2>1 DEF ChildInv, ChildrenTracked, TypeInv, TypeOK
    <3>2. /\ IsFiniteSet(Entries) /\ Cardinality(Entries) = N
          /\ results \in SUBSET Entries
      <4>1. /\ IsFiniteSet(1..N)
            /\ Cardinality(1..N) = IF 1 > N THEN 0 ELSE N - 1 + 1
        BY FS_Interval
      <4> QED
        BY <4>1 DEF Entries, TypeInv, TypeOK
    <3>3. results = Entries \/ reaped_count < N
      BY <3>1, <3>2, FS_Subset
    <3> QED
      BY <2>1, <3>3 DEF LogOutput, Logs
  <2>2. CASE ~LogOutput
    BY <1>1, <2>2 DEF MainStep, Dispatch, DispatchEnd, JoinQueue, PutPoison,
       JoinLaunchers, JoinReaper, ReaperJoined
  <2> QED
    BY <2>1, <2>2
<1>2. ASSUME NEW l \in Launchers, AnyLauncherStep(l) PROVE WrittenInv'
  BY <1>2 DEF AnyLauncherStep, LauncherStep, Get, GetPoison, TimeOut, Lock,
     Popen, PopenFails, Register, TaskDone
<1>3. ASSUME NEW i \in Entries, ChildExits(i) PROVE WrittenInv'
  BY <1>3 DEF ChildExits
<1>4. CASE AnyReaperStep
  BY <1>4 DEF AnyReaperStep, ReaperStep, ReaperTest, Wait, WaitNoChild, Pop,
     Record, RecordFails, TypeInv, TypeOK
<1>5. CASE UNCHANGED vars
  BY <1>5 DEF vars
<1> QED
  BY <1>1, <1>2, <1>3, <1>4, <1>5, StepCases

\* The log finds the output of every entry, unless a process ended without its
\* pid or the reaper ended early.
THEOREM OutputIsWritten == Spec => []Complete
<1>1. Init => WrittenInv
  BY DEF Init, WrittenInv
<1>2. TypeInv /\ ChildInv /\ WrittenInv /\ [Next]_vars => WrittenInv'
  BY WrittenStep
<1>3. WrittenInv => Complete
  BY DEF WrittenInv, Complete
<1> QED
  BY <1>1, <1>2, <1>3, ChildInvariance, PTL DEF Spec

-------------------------------------------------------------------------------
(* The executor implements Invocations. *)

\* What the history counts: a process that was started was started once, and a
\* result that is there was recorded once.
Tally ==
    \A i \in Entries :
      /\ starts[i] = IF child[i] = "none" THEN 0 ELSE 1
      /\ records[i] = IF i \in results THEN 1 ELSE 0

\* A launcher starts an entry that was issued and not started before.
LEMMA PopenIsFirst ==
  ASSUME TypeInv, OnceInv, Tally, NEW l \in Launchers, Popen(l)
  PROVE  /\ item[l] \in Entries /\ item[l] <= dispatched
         /\ child[item[l]] = "none" /\ starts[item[l]] = 0
BY DEF Popen, Goes, TypeInv, HasEntry, InHand, OnceInv, EntryInOnePlace,
       Dispatched, Starting, Tally

\* The reaper records a child that was started and not recorded before.
LEMMA RecordIsFirst ==
  ASSUME TypeInv, ChildInv, Tally, Record
  PROVE  /\ rpid \in Entries /\ rpid \notin results
         /\ starts[rpid] > 0 /\ records[rpid] = 0
BY DEF Record, TypeInv, ReaperBusy, ChildInv, Accounted, Tally

LEMMA TallyStep ==
  ASSUME TypeInv, OnceInv, ChildInv, Tally, [Next]_vars
  PROVE  Tally'
<1> USE DEF mainVars, queueVars, launcherVars, childVars, reaperVars
<1>t. /\ child \in [Entries -> {"none", "running", "zombie", "reaped"}]
      /\ starts \in [Entries -> Nat] /\ records \in [Entries -> Nat]
  BY DEF TypeInv, TypeOK
<1>s. ASSUME \A i \in Entries : child'[i] = "none" <=> child[i] = "none",
             UNCHANGED <<starts, records, results>>
      PROVE  Tally'
  BY <1>s DEF Tally
<1>1. CASE MainStep
  BY <1>1, <1>s DEF MainStep, Dispatch, DispatchEnd, JoinQueue, PutPoison,
     JoinLaunchers, JoinReaper, LogOutput
<1>2. ASSUME NEW l \in Launchers, AnyLauncherStep(l) PROVE Tally'
  <2>1. CASE Popen(l)
    <3>1. /\ item[l] \in Entries /\ starts[item[l]] = 0
          /\ child' = [child EXCEPT ![item[l]] = "running"]
          /\ starts' = [starts EXCEPT ![item[l]] = @ + 1]
          /\ UNCHANGED <<results, records>>
      BY <2>1, PopenIsFirst DEF Popen
    <3>2. \A i \in Entries :
            /\ child'[i] = IF i = item[l] THEN "running" ELSE child[i]
            /\ starts'[i] = IF i = item[l] THEN 1 ELSE starts[i]
      BY <1>t, <3>1
    <3> QED
      BY <3>1, <3>2 DEF Tally
  <2>2. CASE ~Popen(l)
    BY <1>2, <1>s, <2>2 DEF AnyLauncherStep, LauncherStep, Get, GetPoison,
       TimeOut, Lock, PopenFails, Register, TaskDone
  <2> QED
    BY <2>1, <2>2
<1>3. ASSUME NEW i \in Entries, ChildExits(i) PROVE Tally'
  BY <1>3, <1>s, <1>t DEF ChildExits
<1>4. CASE AnyReaperStep
  <2>1. CASE Record
    <3>1. /\ rpid \in Entries /\ records[rpid] = 0
          /\ results' = results \cup {rpid}
          /\ records' = [records EXCEPT ![rpid] = @ + 1]
          /\ UNCHANGED <<child, starts>>
      BY <2>1, RecordIsFirst DEF Record
    <3>2. \A i \in Entries :
            records'[i] = IF i = rpid THEN 1 ELSE records[i]
      BY <1>t, <3>1
    <3> QED
      BY <3>1, <3>2 DEF Tally
  <2>2. CASE Wait
    BY <2>2, <1>s, <1>t DEF Wait
  <2>3. CASE ~Record /\ ~Wait
    BY <1>4, <1>s, <2>3 DEF AnyReaperStep, ReaperStep, ReaperTest, WaitNoChild,
       Pop, RecordFails
  <2> QED
    BY <2>1, <2>2, <2>3
<1>5. CASE UNCHANGED vars
  BY <1>5, <1>s DEF vars
<1> QED
  BY <1>1, <1>2, <1>3, <1>4, <1>5, StepCases

LEMMA StepImplements ==
  ASSUME TypeInv, OnceInv, ChildInv, Tally, [Next]_vars
  PROVE  [Abstract!Next]_(Abstract!vars)
<1> USE DEF mainVars, queueVars, launcherVars, childVars, reaperVars
<1>t. Entries = 1..N
  BY DEF Entries
<1>1. CASE MainStep
  <2>1. CASE Dispatch
    BY <2>1 DEF Dispatch, Abstract!Next, Abstract!Issue
  <2>2. CASE ~Dispatch
    BY <1>1, <2>2 DEF MainStep, DispatchEnd, JoinQueue, PutPoison,
       JoinLaunchers, JoinReaper, LogOutput, Abstract!vars
  <2> QED
    BY <2>1, <2>2
<1>2. ASSUME NEW l \in Launchers, AnyLauncherStep(l)
      PROVE  [Abstract!Next]_(Abstract!vars)
  <2>1. CASE Popen(l)
    <3>1. item[l] \in Entries /\ Abstract!Launch(item[l])
      BY <2>1, PopenIsFirst DEF Popen, Abstract!Launch
    <3> QED
      BY <1>t, <3>1 DEF Abstract!Next
  <2>2. CASE ~Popen(l)
    BY <1>2, <2>2 DEF AnyLauncherStep, LauncherStep, Get, GetPoison, TimeOut,
       Lock, PopenFails, Register, TaskDone, Abstract!vars
  <2> QED
    BY <2>1, <2>2
<1>3. ASSUME NEW i \in Entries, ChildExits(i)
      PROVE  [Abstract!Next]_(Abstract!vars)
  BY <1>3 DEF ChildExits, Abstract!vars
<1>4. CASE AnyReaperStep
  <2>1. CASE Record
    <3>1. rpid \in Entries /\ Abstract!Collect(rpid)
      BY <2>1, RecordIsFirst DEF Record, Abstract!Collect
    <3> QED
      BY <1>t, <3>1 DEF Abstract!Next
  <2>2. CASE ~Record
    BY <1>4, <2>2 DEF AnyReaperStep, ReaperStep, ReaperTest, Wait, WaitNoChild,
       Pop, RecordFails, Abstract!vars
  <2> QED
    BY <2>1, <2>2
<1>5. CASE UNCHANGED vars
  BY <1>5 DEF vars, Abstract!vars
<1> QED
  BY <1>1, <1>2, <1>3, <1>4, <1>5, StepCases

\* Seen from outside, the executor issues the entries in order, starts each at
\* most once, after it was issued, and records the result of each at most once,
\* after it was started, for any number of launchers and whatever fails.
THEOREM ExecutorImplements == Spec => ImplementsInvocations
<1>1. Init => Abstract!Init /\ Tally
  BY DEF Init, Abstract!Init, Tally, Entries
<1>2. ASSUME TypeInv, OnceInv, ChildInv, Tally, [Next]_vars
      PROVE  Tally' /\ [Abstract!Next]_(Abstract!vars)
  BY <1>2, TallyStep, StepImplements
<1> QED
  BY <1>1, <1>2, ChildInvariance, PTL
     DEF Spec, ImplementsInvocations, Abstract!Spec
===============================================================================
