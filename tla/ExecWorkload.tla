----------------------------- MODULE ExecWorkload -----------------------------
(***************************************************************************)
(* The workload executor, exec_workload.py: the main thread issues the     *)
(* entries of the workload over a queue, launcher threads start a child    *)
(* process for each and register it in active_tasks under tasks_lock, and  *)
(* the reaper thread waits for children, looks them up and records their   *)
(* results.                                                                *)
(*                                                                         *)
(* An entry is its number, and so is its child process: no pid is used     *)
(* twice in a run.  Time is abstract: sleeping and busy-waiting between    *)
(* entries leave only the question whether a gap outlasts the timeout of   *)
(* the launchers.                                                          *)
(***************************************************************************)
EXTENDS Naturals, Sequences, FiniteSets

CONSTANTS
    N,           \* lines of the workload file
    Launchers,   \* the launcher threads
    Poison,      \* the None that ends a launcher
    NoThread,    \* nobody holds the lock
    LongGap,     \* whether a gap of the workload outlasts the timeout
    Failures     \* what may fail: "launch", "function", "reader"

Entries == 1..N

ASSUME ExecAssumption ==
    /\ N \in Nat
    /\ IsFiniteSet(Launchers) /\ Launchers # {}
    /\ Poison \notin Nat
    /\ NoThread \notin Launchers
    /\ LongGap \in BOOLEAN
    /\ Failures \subseteq {"launch", "function", "reader"}

VARIABLES
    mpc,           \* where the main thread is
    dispatched,    \* entries the main thread put
    poisoned,      \* Nones the main thread put
    task_queue,    \* the queue
    unfinished,    \* its count of items that were not task_done yet
    lpc,           \* where each launcher is
    item,          \* the entry it took
    tasks_lock,    \* who holds it
    active_tasks,  \* the registered children
    child,         \* state of the process of each entry
    silent,        \* the processes that ended without printing their pid
    rpc,           \* where the reaper is
    rpid,          \* the child os.wait returned
    results,       \* the entries whose results are recorded
    reaped_count,
    starts,        \* history: how often the process of each entry was started
    records        \* history: how often its result was recorded

mainVars == <<mpc, dispatched, poisoned>>
queueVars == <<task_queue, unfinished>>
launcherVars == <<lpc, item>>
childVars == <<child, silent, starts>>
reaperVars == <<rpc, rpid, results, reaped_count, records>>
vars == <<mainVars, queueVars, launcherVars, tasks_lock, active_tasks,
                   childVars, reaperVars>>

TypeOK ==
    /\ mpc \in {"dispatch", "join", "poison", "launchers", "reaper", "log",
                "done", "crash"}
    /\ dispatched \in 0..N
    /\ poisoned \in 0..Cardinality(Launchers)
    /\ task_queue \in Seq(Entries \cup {Poison})
    /\ unfinished \in Nat
    /\ lpc \in [Launchers -> {"get", "lock", "popen", "register", "finally",
                              "done"}]
    /\ item \in [Launchers -> 0..N]
    /\ tasks_lock \in Launchers \cup {NoThread}
    /\ active_tasks \subseteq Entries
    /\ child \in [Entries -> {"none", "running", "zombie", "reaped"}]
    /\ silent \subseteq Entries
    /\ rpc \in {"test", "wait", "pop", "read", "done"}
    /\ rpid \in 0..N
    /\ results \subseteq Entries
    /\ reaped_count \in 0..N
    /\ starts \in [Entries -> Nat]
    /\ records \in [Entries -> Nat]

Init ==
    /\ mpc = "dispatch"
    /\ dispatched = 0
    /\ poisoned = 0
    /\ task_queue = <<>>
    /\ unfinished = 0
    /\ lpc = [l \in Launchers |-> "get"]
    /\ item = [l \in Launchers |-> 0]
    /\ tasks_lock = NoThread
    /\ active_tasks = {}
    /\ child = [i \in Entries |-> "none"]
    /\ silent = {}
    /\ rpc = "test"
    /\ rpid = 0
    /\ results = {}
    /\ reaped_count = 0
    /\ starts = [i \in Entries |-> 0]
    /\ records = [i \in Entries |-> 0]
-------------------------------------------------------------------------------
(* The main thread. *)

\* The entry the loop pops next: the workload is reversed and popped from its
\* end.
Popped == dispatched + 1

\* One iteration of the dispatch loop, after its gap: the next entry is put.
Dispatch ==
    /\ mpc = "dispatch" /\ dispatched < N
    /\ dispatched' = dispatched + 1
    /\ task_queue' = Append(task_queue, Popped)
    /\ unfinished' = unfinished + 1
    /\ UNCHANGED <<mpc, poisoned, launcherVars, tasks_lock, active_tasks,
                   childVars, reaperVars>>

DispatchEnd ==
    /\ mpc = "dispatch" /\ dispatched = N
    /\ mpc' = "join"
    /\ UNCHANGED <<dispatched, poisoned, queueVars, launcherVars, tasks_lock,
                   active_tasks, childVars, reaperVars>>

\* task_queue.join() returns.
JoinedEmpty == task_queue = <<>>
Joined == unfinished = 0
JoinQueue ==
    /\ mpc = "join" /\ Joined
    /\ mpc' = "poison"
    /\ UNCHANGED <<dispatched, poisoned, queueVars, launcherVars, tasks_lock,
                   active_tasks, childVars, reaperVars>>

\* task_queue.put(None), once for each launcher.
NonesForOne == 1
Nones == Cardinality(Launchers)
PutPoison ==
    /\ mpc = "poison"
    /\ poisoned' = poisoned + 1
    /\ task_queue' = Append(task_queue, Poison)
    /\ unfinished' = unfinished + 1
    /\ mpc' = IF poisoned + 1 = Nones THEN "launchers" ELSE mpc
    /\ UNCHANGED <<dispatched, launcherVars, tasks_lock, active_tasks,
                   childVars, reaperVars>>

JoinLaunchers ==
    /\ mpc = "launchers"
    /\ \A l \in Launchers : lpc[l] = "done"
    /\ mpc' = "reaper"
    /\ UNCHANGED <<dispatched, poisoned, queueVars, launcherVars, tasks_lock,
                   active_tasks, childVars, reaperVars>>

\* reaper.join() returns.
ReaperJoinedEarly == TRUE
ReaperJoined == rpc = "done"
JoinReaper ==
    /\ mpc = "reaper" /\ ReaperJoined
    /\ mpc' = "log"
    /\ UNCHANGED <<dispatched, poisoned, queueVars, launcherVars, tasks_lock,
                   active_tasks, childVars, reaperVars>>

\* The pids are taken from the output of every entry and written.  A result
\* that is missing or empty raises, and nothing is written.
Logs == results = Entries /\ silent = {}
LogOutput ==
    /\ mpc = "log"
    /\ mpc' = IF Logs THEN "done" ELSE "crash"
    /\ UNCHANGED <<dispatched, poisoned, queueVars, launcherVars, tasks_lock,
                   active_tasks, childVars, reaperVars>>

Terminated == mpc \in {"done", "crash"} /\ UNCHANGED vars

-------------------------------------------------------------------------------
(* A launcher. *)

Goes(l, from, to) == lpc[l] = from /\ lpc' = [lpc EXCEPT ![l] = to]

\* What taking an item leaves in the queue.
LeftAll == task_queue
Left == Tail(task_queue)

\* task_queue.get: an entry.
Get(l) ==
    /\ Goes(l, "get", "lock")
    /\ task_queue # <<>> /\ Head(task_queue) # Poison
    /\ item' = [item EXCEPT ![l] = Head(task_queue)]
    /\ task_queue' = Left
    /\ UNCHANGED <<mainVars, unfinished, tasks_lock, active_tasks, childVars,
                   reaperVars>>

\* task_queue.get: the None that ends the thread.
GetPoison(l) ==
    /\ Goes(l, "get", "done")
    /\ task_queue # <<>> /\ Head(task_queue) = Poison
    /\ task_queue' = Left
    /\ unfinished' = unfinished - 1
    /\ UNCHANGED <<mainVars, item, tasks_lock, active_tasks, childVars,
                   reaperVars>>

\* Whether get can wait for 3 seconds.  If every gap is shorter, the last
\* launcher cannot: the next entry is put in time.
WaitsTooLongAnyway(l) == TRUE
WaitsTooLong(l) ==
    \/ LongGap
    \/ mpc # "dispatch"
    \/ \E k \in Launchers \ {l} : lpc[k] # "done"

\* task_queue.get raises Empty: the launcher ends, without task_done().
CountAfterTimeOutDone == unfinished - 1
CountAfterTimeOut == unfinished
TimeOut(l) ==
    /\ Goes(l, "get", "done")
    /\ task_queue = <<>>
    /\ WaitsTooLong(l)
    /\ unfinished' = CountAfterTimeOut
    /\ UNCHANGED <<mainVars, task_queue, item, tasks_lock, active_tasks,
                   childVars, reaperVars>>

\* with tasks_lock
Lock(l) ==
    /\ Goes(l, "lock", "popen")
    /\ tasks_lock = NoThread
    /\ tasks_lock' = l
    /\ UNCHANGED <<mainVars, queueVars, item, active_tasks, childVars,
                   reaperVars>>

\* subprocess.Popen: from here on the child may exit.
Popen(l) ==
    /\ Goes(l, "popen", "register")
    /\ child' = [child EXCEPT ![item[l]] = "running"]
    /\ starts' = [starts EXCEPT ![item[l]] = @ + 1]
    /\ UNCHANGED <<mainVars, queueVars, item, tasks_lock, active_tasks, silent,
                   reaperVars>>

\* Popen raises: "Launcher Error", and the finally clause comes next.
AfterErrorLoop == "get"
AfterError == "finally"
PopenFails(l) ==
    /\ "launch" \in Failures
    /\ Goes(l, "popen", AfterError)
    /\ tasks_lock' = NoThread
    /\ UNCHANGED <<mainVars, queueVars, item, active_tasks, childVars,
                   reaperVars>>

\* active_tasks[proc.pid] = ..., and the lock is released.
Register(l) ==
    /\ Goes(l, "register", "finally")
    /\ active_tasks' = active_tasks \cup {item[l]}
    /\ tasks_lock' = NoThread
    /\ UNCHANGED <<mainVars, queueVars, item, childVars, reaperVars>>

\* finally: task_queue.task_done()
TaskDone(l) ==
    /\ Goes(l, "finally", "get")
    /\ item' = [item EXCEPT ![l] = 0]
    /\ unfinished' = unfinished - 1
    /\ UNCHANGED <<mainVars, task_queue, tasks_lock, active_tasks, childVars,
                   reaperVars>>

-------------------------------------------------------------------------------
(* The children and the reaper. *)

\* The process ends, with its pid printed or, if it fails, not.
ChildExits(i) ==
    /\ child[i] = "running"
    /\ \/ silent' = silent
       \/ "function" \in Failures /\ silent' = silent \cup {i}
    /\ child' = [child EXCEPT ![i] = "zombie"]
    /\ UNCHANGED <<mainVars, queueVars, launcherVars, tasks_lock, active_tasks,
                   starts, reaperVars>>

\* while reaped_count < total_tasks
ReaperTest ==
    /\ rpc = "test"
    /\ rpc' = IF reaped_count < N THEN "wait" ELSE "done"
    /\ UNCHANGED <<mainVars, queueVars, launcherVars, tasks_lock, active_tasks,
                   childVars, rpid, results, reaped_count, records>>

\* os.wait returns a child that has exited.
Wait ==
    /\ rpc = "wait"
    /\ \E i \in Entries :
         /\ child[i] = "zombie"
         /\ child' = [child EXCEPT ![i] = "reaped"]
         /\ rpid' = i
    /\ rpc' = "pop"
    /\ UNCHANGED <<mainVars, queueVars, launcherVars, tasks_lock, active_tasks,
                   silent, starts, results, reaped_count, records>>

\* os.wait raises ChildProcessError: there is no child.
WaitNoChild ==
    /\ rpc = "wait"
    /\ \A i \in Entries : child[i] \in {"none", "reaped"}
    /\ rpc' = "test"
    /\ UNCHANGED <<mainVars, queueVars, launcherVars, tasks_lock, active_tasks,
                   childVars, rpid, results, reaped_count, records>>

\* Whether the reaper can have tasks_lock for the lookup.
PopLockForgotten == TRUE
PopLock == tasks_lock = NoThread

\* active_tasks without the child that was looked up.
PoppedByGet == active_tasks
PoppedTasks == active_tasks \ {rpid}

\* active_tasks.pop(pid, None) under tasks_lock; an unknown pid is dropped.
Pop ==
    /\ rpc = "pop"
    /\ PopLock
    /\ active_tasks' = PoppedTasks
    /\ rpc' = IF rpid \in active_tasks THEN "read" ELSE "test"
    /\ UNCHANGED <<mainVars, queueVars, launcherVars, tasks_lock, childVars,
                   rpid, results, reaped_count, records>>

\* The output is read and the result recorded.
Record ==
    /\ rpc = "read"
    /\ results' = results \cup {rpid}
    /\ records' = [records EXCEPT ![rpid] = @ + 1]
    /\ reaped_count' = reaped_count + 1
    /\ rpc' = "test"
    /\ UNCHANGED <<mainVars, queueVars, launcherVars, tasks_lock, active_tasks,
                   childVars, rpid>>

\* Reading the output raises: "Reaper Error", and the thread ends.
RecordFails ==
    /\ "reader" \in Failures
    /\ rpc = "read"
    /\ rpc' = "done"
    /\ UNCHANGED <<mainVars, queueVars, launcherVars, tasks_lock, active_tasks,
                   childVars, rpid, results, reaped_count, records>>

-------------------------------------------------------------------------------
MainStep ==
    \/ Dispatch \/ DispatchEnd \/ JoinQueue \/ PutPoison \/ JoinLaunchers
    \/ JoinReaper \/ LogOutput

\* What a launcher does without the environment.
LauncherStep(l) ==
    \/ Get(l) \/ GetPoison(l) \/ Lock(l) \/ Popen(l) \/ Register(l)
    \/ TaskDone(l)

ReaperStep == ReaperTest \/ Wait \/ WaitNoChild \/ Pop \/ Record

Next ==
    \/ MainStep
    \/ \E l \in Launchers : LauncherStep(l) \/ TimeOut(l) \/ PopenFails(l)
    \/ \E i \in Entries : ChildExits(i)
    \/ ReaperStep
    \/ RecordFails
    \/ Terminated

Spec == Init /\ [][Next]_vars

\* The threads run, a function ends, and a launcher whose process cannot be
\* started takes the exception.
Fairness ==
    /\ WF_vars(MainStep)
    /\ \A l \in Launchers : WF_vars(LauncherStep(l) \/ PopenFails(l))
    /\ \A i \in Entries : WF_vars(ChildExits(i))
    /\ WF_vars(ReaperStep \/ RecordFails)

FairSpec == Spec /\ Fairness

-------------------------------------------------------------------------------
(* Safety. *)

\* Launchers with an item they have not called task_done for.
InHand ==
    {l \in Launchers : lpc[l] \in {"lock", "popen", "register", "finally"}}

\* Launchers with an entry whose process is not started yet.
Starting == {l \in Launchers : lpc[l] \in {"lock", "popen"}}

\* task_queue.join() counts right: what is unfinished is what is in the queue,
\* entries and Nones, or in the hands of a launcher.
CountMatches == unfinished = Len(task_queue) + Cardinality(InHand)

\* When join() returned, every entry was taken and handled, whatever the
\* launchers that end by the timeout leave in the queue: only Nones.
JoinMeansHandled ==
    mpc \notin {"dispatch", "join"} =>
      /\ InHand = {}
      /\ \A j \in DOMAIN task_queue : task_queue[j] = Poison

\* An entry is started by one launcher only: until it is started it is once in
\* the queue or with one launcher, afterwards nowhere.
EntryInOnePlace ==
    /\ \A j \in DOMAIN task_queue : task_queue[j] # Poison =>
         /\ child[task_queue[j]] = "none"
         /\ \A k \in DOMAIN task_queue : task_queue[k] = task_queue[j] => k = j
         /\ \A l \in InHand : item[l] # task_queue[j]
    /\ \A l \in Starting : child[item[l]] = "none"
    /\ \A l, k \in InHand : item[l] = item[k] => l = k

\* A process that was started is registered, about to be registered, in the
\* hands of the reaper, or recorded, and only one of these.
Registering == {item[l] : l \in {k \in Launchers : lpc[k] = "register"}}
Reading == IF rpc = "read" THEN {rpid} ELSE {}
ChildrenTracked ==
    /\ \A i \in Entries : child[i] # "none" =>
         \/ i \in active_tasks \cup Registering \cup Reading \cup results
         \/ rpc = "done" /\ "reader" \in Failures
    /\ active_tasks \cap (Registering \cup Reading \cup results) = {}
    /\ Registering \cap (Reading \cup results) = {}
    /\ Reading \cap results = {}
    /\ reaped_count = Cardinality(results)

\* os.wait can return a child before its launcher registered it.  The lookup
\* waits for the launcher all the same, so no child is taken for an unknown pid
\* and no result is dropped.
NoResultDropped ==
    \A i \in Entries : child[i] = "reaped" =>
      i \in results \/ (rpid = i /\ rpc \in {"pop", "read", "done"})

\* The program fails to write its output only if a process ended without its
\* pid or the reaper ended early: the log never comes before the results.
Complete ==
    mpc = "crash" => silent # {} \/ (rpc = "done" /\ reaped_count < N)

-------------------------------------------------------------------------------
(* Refinement and liveness. *)

\* Seen from outside, entries are issued in order, each is launched at most
\* once, after it was issued, and collected at most once, after it was launched:
\* two launchers never start the same entry, and the reaper records no result a
\* second time.
Abstract == INSTANCE Invocations WITH
              issued <- dispatched,
              launched <- starts,
              collected <- records
ImplementsInvocations == Abstract!Spec

\* An entry was issued and its launch failed.
LaunchFailed ==
    \E i \in 1..dispatched :
      /\ child[i] = "none" /\ \A l \in Starting : item[l] # i
      /\ \A j \in DOMAIN task_queue : task_queue[j] # i

\* "Waiting for reaper to collect results..." comes to an end, unless a launch
\* failed: functions and the reaper may fail.
Terminates == <>(mpc \in {"done", "crash"} \/ LaunchFailed)

\* The reaper that finds no child polls until "the Launchers catch up": one of
\* them will start a child, or failed to.
NoChild == \A i \in Entries : child[i] \in {"none", "reaped"}
LaunchersCatchUp == rpc = "wait" /\ NoChild ~> ~NoChild \/ LaunchFailed
===============================================================================
