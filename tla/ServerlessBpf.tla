---------------------------- MODULE ServerlessBpf ----------------------------
(***************************************************************************)
(* The kernel variant: the sched_ext operations of scx_serverless.bpf.c,   *)
(* and as much of the kernel around them as decides when they are called.  *)
(*                                                                         *)
(* Waiting tasks are kept on one queue in the order of their vtime.  Every *)
(* CPU but CPU 0 takes from it when it has nothing else, and goes to sleep *)
(* when it finds it empty; who inserts a task must then wake a CPU.        *)
(* global_vtime follows the vtime of the tasks that are taken, and limits  *)
(* how far behind it a task may be queued.                                 *)
(*                                                                         *)
(* Time is counted in ticks of the running tasks, SCX_SLICE_DFL being Dfl  *)
(* of them.                                                                *)
(***************************************************************************)
EXTENDS Integers, FiniteSets, Sequences, SequencesExt

CONSTANTS
    Tasks,       \* the tasks that enter SCHED_EXT
    Short,       \* those whose argument maps to SCX_SLICE_INF
    Cpus,
    Cpu0,        \* the CPU of the simulator
    Allowed,     \* per task, the CPUs of its affinity
    NoTask,
    Dfl,         \* SCX_SLICE_DFL and LAG_LIMIT, in ticks
    MaxRun,      \* bound: the ticks a task runs in its life
    MaxEnters    \* bound: how often each task enters SCHED_EXT

ASSUME BpfAssumption ==
    /\ Short \subseteq Tasks
    /\ Allowed \in [Tasks -> SUBSET Cpus]
    /\ NoTask \notin Tasks
    /\ {Dfl, MaxRun} \subseteq Nat \ {0}
    /\ MaxEnters \in [Tasks -> Nat]

\* The CPUs that dispatch take any task, so every task must be allowed there.
ASSUME AffinityAssumption == \A t \in Tasks : Cpus \ {Cpu0} \subseteq Allowed[t]

VARIABLES
    scx,         \* whether the scheduler is attached
    global_vtime,
    where,       \* where the kernel has each task
    at,          \* its CPU (scx_bpf_task_cpu)
    dsq_vtime,
    left,        \* p->scx.slice: the ticks left of its slice
    sum,         \* p->se.sum_exec_runtime
    ctx,         \* its task_ctx, kept by ops.disable
    limit,       \* what its ops.enqueue call read of global_vtime
    tokick,      \* tasks inserted by a call that has yet to wake a CPU
    queue,       \* SHARED_DSQ_ID, the least vtime first
    mode,        \* what each CPU is doing
    reg,         \* the locals of its ops.dispatch call
    newer,       \* tasks queued since its iteration of the queue began
    idle,        \* the mask of idle CPUs
    kicked,      \* CPUs with a kick under way
    ran,         \* ticks since the task last got a CPU
    outside,     \* ticks outside of SCHED_EXT not yet charged
    enters       \* how often it entered SCHED_EXT

clockVars == <<global_vtime, dsq_vtime, limit>>
taskVars == <<where, at, left, sum, ctx, ran, outside, enters>>
cpuVars == <<mode, reg, newer, idle, kicked, tokick>>
bpfVars == <<scx, clockVars, taskVars, cpuVars, queue>>

Inf == MaxRun + 1
NoCtx == [slice |-> 0, last |-> 0]
NoReg == [p |-> NoTask, vtime |-> 0, old |-> 0]

Places == {"out", "sleep", "enqueue", "clamp", "shared", "local", "run"}
Modes == {"idle", "run", "schedule", "iterate", "vtime", "global", "cas",
          "move", "pick", "put"}

BpfTypeOK ==
    /\ scx \in {"on", "off"}
    /\ global_vtime \in Nat
    /\ where \in [Tasks -> Places]
    /\ at \in [Tasks -> Cpus]
    /\ dsq_vtime \in [Tasks -> Nat] /\ limit \in [Tasks -> Nat]
    /\ outside \in [Tasks -> Nat] /\ ran \in [Tasks -> Nat]
    /\ left \in [Tasks -> Nat]
    /\ sum \in [Tasks -> 0..MaxRun]
    /\ ctx \in [Tasks -> [slice : {Dfl, Inf}, last : Nat] \cup {NoCtx}]
    /\ tokick \in SUBSET Tasks
    /\ queue \in Seq(Tasks)
    /\ mode \in [Cpus -> Modes]
    /\ reg \in [Cpus -> [p : Tasks \cup {NoTask}, vtime : Nat, old : Nat]]
    /\ newer \in [Cpus -> SUBSET Tasks]
    /\ idle \in SUBSET Cpus
    /\ kicked \in SUBSET Cpus
    /\ enters \in [Tasks -> Nat] /\ \A t \in Tasks : enters[t] <= MaxEnters[t]

BpfInit ==
    /\ scx = "off" /\ global_vtime = 0
    /\ where = [t \in Tasks |-> "out"]
    /\ at \in {f \in [Tasks -> Cpus] : \A t \in Tasks : f[t] \in Allowed[t]}
    /\ dsq_vtime = [t \in Tasks |-> 0] /\ limit = [t \in Tasks |-> 0]
    /\ left = [t \in Tasks |-> 0] /\ sum = [t \in Tasks |-> 0]
    /\ ctx = [t \in Tasks |-> NoCtx]
    /\ ran = [t \in Tasks |-> 0] /\ outside = [t \in Tasks |-> 0]
    /\ enters = [t \in Tasks |-> 0]
    /\ tokick = {} /\ queue = <<>>
    /\ mode = [c \in Cpus |-> "idle"] /\ reg = [c \in Cpus |-> NoReg]
    /\ newer = [c \in Cpus |-> {}]
    /\ idle = Cpus /\ kicked = {}

\* The task that holds CPU c, NoTask when there is none.
Current(c) ==
    LET S == {t \in Tasks : where[t] = "run" /\ at[t] = c}
    IN IF S = {} THEN NoTask ELSE CHOOSE t \in S : TRUE

Local(c) == {t \in Tasks : where[t] = "local" /\ at[t] = c}

\* CPU c is in the loop of serverless_dispatch.
Iterating(c) == mode[c] \in {"iterate", "vtime", "global", "cas", "move"}

-------------------------------------------------------------------------------
(* Entering and leaving. *)

\* get_task_slice and the mapping table: the slice by the argument.
get_task_slice(t) == IF t \in Short THEN Inf ELSE Dfl

\* bpf_task_storage_get with F_CREATE: an existing context is found, and the
\* initial value ignored.
create_task_ctx(t) ==
    IF ctx[t] = NoCtx THEN [slice |-> get_task_slice(t), last |-> sum[t]]
    ELSE ctx[t]

\* ops.enable, when the scheduler is attached or the task enters SCHED_EXT:
\* asleep, or running on a CPU it keeps.
Enable(t) ==
    /\ scx = "on" /\ where[t] = "out" /\ enters[t] < MaxEnters[t]
    /\ dsq_vtime' = [dsq_vtime EXCEPT ![t] = global_vtime]
    /\ ctx' = [ctx EXCEPT ![t] = create_task_ctx(t)]
    /\ left' = [left EXCEPT ![t] = get_task_slice(t)]
    /\ enters' = [enters EXCEPT ![t] = @ + 1]
    /\ \/ /\ where' = [where EXCEPT ![t] = "sleep"]
          /\ UNCHANGED <<at, cpuVars>>
       \/ \E c \in Allowed[t] :
            /\ mode[c] = "idle" /\ c \in idle
            /\ where' = [where EXCEPT ![t] = "run"]
            /\ at' = [at EXCEPT ![t] = c]
            /\ mode' = [mode EXCEPT ![c] = "run"]
            /\ idle' = idle \ {c} /\ kicked' = kicked \ {c}
            /\ UNCHANGED <<reg, newer, tokick>>
    /\ UNCHANGED <<scx, global_vtime, limit, sum, ran, outside, queue>>

\* A tick of a task that is in another class.
RunOutside(t) ==
    /\ scx = "on" /\ where[t] = "out" /\ ctx[t] # NoCtx
    /\ sum[t] < MaxRun
    /\ sum' = [sum EXCEPT ![t] = @ + 1]
    /\ outside' = [outside EXCEPT ![t] = @ + 1]
    /\ UNCHANGED <<scx, clockVars, where, at, left, ctx, ran, enters,
                   cpuVars, queue>>

\* ops.stopping: the task is charged what it ran since the last call.
DeltaSwapped(t) == ctx[t].last - sum[t]
Delta(t) == sum[t] - ctx[t].last
UnchargedMark(t) == ctx[t].last
ChargedMark(t) == sum[t]
Stopping(t) ==
    /\ dsq_vtime' = [dsq_vtime EXCEPT ![t] = @ + Delta(t)]
    /\ ctx' = [ctx EXCEPT ![t] = [slice |-> ctx[t].slice, last |-> ChargedMark(t)]]
    /\ ran' = [ran EXCEPT ![t] = 0] /\ outside' = [outside EXCEPT ![t] = 0]

\* A running task sleeps or leaves SCHED_EXT; the CPU looks for another one.
StopRunning(t, place) ==
    /\ where[t] = "run" /\ mode[at[t]] = "run"
    /\ Stopping(t)
    /\ where' = [where EXCEPT ![t] = place]
    /\ mode' = [mode EXCEPT ![at[t]] = "schedule"]
    /\ UNCHANGED <<scx, global_vtime, limit, at, left, sum, enters, reg,
                   newer, idle, kicked, tokick, queue>>

\* A task of the workload runs for a tick at least, unless its ticks are used
\* up.  ops.disable keeps the context of the one that leaves.
Block(t) == ran[t] > 0 /\ sum[t] < MaxRun /\ StopRunning(t, "sleep")
Leave(t) == (ran[t] > 0 \/ sum[t] = MaxRun) /\ StopRunning(t, "out")

-------------------------------------------------------------------------------
(* Wake-ups: ops.select_cpu and ops.enqueue. *)

\* scx_bpf_kick_cpu with SCX_KICK_IDLE: a CPU that runs a task ignores it.
KickIdle(c) == kicked' = IF mode[c] = "run" THEN kicked ELSE kicked \cup {c}

\* The task wakes up and is given an idle CPU, on its local queue.
SelectIdleCpu(t, c) ==
    /\ scx = "on" /\ where[t] = "sleep" /\ c \in idle \cap Allowed[t]
    /\ where' = [where EXCEPT ![t] = "local"]
    /\ at' = [at EXCEPT ![t] = c]
    /\ left' = [left EXCEPT ![t] = ctx[t].slice]
    /\ idle' = idle \ {c}
    /\ KickIdle(c)
    /\ UNCHANGED <<scx, clockVars, sum, ctx, ran, outside, enters, mode, reg,
                   newer, tokick, queue>>

\* The task wakes up while no CPU is idle: ops.enqueue is called for it.
SelectBusyCpu(t) ==
    /\ scx = "on" /\ where[t] = "sleep" /\ idle \cap Allowed[t] = {}
    /\ where' = [where EXCEPT ![t] = "enqueue"]
    /\ UNCHANGED <<scx, clockVars, at, left, sum, ctx, ran, outside, enters,
                   cpuVars, queue>>

\* ops.enqueue reads global_vtime ...
ReadLimit(t) ==
    /\ scx = "on" /\ where[t] = "enqueue"
    /\ limit' = [limit EXCEPT ![t] = global_vtime]
    /\ where' = [where EXCEPT ![t] = "clamp"]
    /\ UNCHANGED <<scx, global_vtime, dsq_vtime, at, left, sum, ctx, ran,
                   outside, enters, cpuVars, queue>>

\* ... and queues the task, at most one slice behind what it read.  CPUs that
\* are iterating the queue do not see what is inserted meanwhile.
Clamp(t) ==
    IF limit[t] > Dfl /\ dsq_vtime[t] < limit[t] - Dfl
    THEN limit[t] - Dfl ELSE dsq_vtime[t]
\* How many tasks of the queue are before a vtime.
AheadFifo(v) == Len(queue)
Ahead(v) == Cardinality({i \in DOMAIN queue : dsq_vtime[queue[i]] <= v})
Insert(t) ==
    /\ scx = "on" /\ where[t] = "clamp"
    /\ dsq_vtime' = [dsq_vtime EXCEPT ![t] = Clamp(t)]
    /\ limit' = [limit EXCEPT ![t] = 0]
    /\ left' = [left EXCEPT ![t] = ctx[t].slice]
    /\ where' = [where EXCEPT ![t] = "shared"]
    /\ queue' = InsertAt(queue, Ahead(Clamp(t)) + 1, t)
    /\ tokick' = tokick \cup {t}
    /\ newer' = [c \in Cpus |->
                     IF Iterating(c) THEN newer[c] \cup {t} ELSE newer[c]]
    /\ UNCHANGED <<scx, global_vtime, at, sum, ctx, ran, outside, enters,
                   mode, reg, idle, kicked>>

\* The end of ops.enqueue: an idle CPU is claimed and woken; when there is
\* none ("might be a race condition"), the CPU of the task is kicked.
WakeIdleCpu(t, c) ==
    /\ scx = "on" /\ t \in tokick /\ c \in idle \cap Allowed[t]
    /\ idle' = idle \ {c}
    /\ KickIdle(c)
    /\ tokick' = tokick \ {t}
    /\ UNCHANGED <<scx, clockVars, taskVars, mode, reg, newer, queue>>

SecondTapNever(target) == kicked' = kicked
SecondTap(target) == IF target # Cpu0 THEN KickIdle(target) ELSE kicked' = kicked
DoubleTap(t) ==
    /\ scx = "on" /\ t \in tokick /\ idle \cap Allowed[t] = {}
    /\ SecondTap(at[t])
    /\ tokick' = tokick \ {t}
    /\ UNCHANGED <<scx, clockVars, taskVars, mode, reg, newer, idle, queue>>

-------------------------------------------------------------------------------
(* A CPU: the kernel's scheduling loop around ops.dispatch. *)

SetMode(c, m) == mode' = [mode EXCEPT ![c] = m]

\* The running task uses up a tick of its slice.
Tick(t) ==
    /\ where[t] = "run" /\ mode[at[t]] = "run" /\ left[t] > 0
    /\ sum[t] < MaxRun
    /\ sum' = [sum EXCEPT ![t] = @ + 1]
    /\ ran' = [ran EXCEPT ![t] = @ + 1]
    /\ left' = [left EXCEPT ![t] = IF @ = Inf THEN Inf ELSE @ - 1]
    /\ UNCHANGED <<scx, clockVars, where, at, ctx, outside, enters,
                   cpuVars, queue>>

\* The slice of the running task is used up, or an idle CPU was kicked.
Expire(c) ==
    /\ mode[c] = "run" /\ left[Current(c)] = 0
    /\ SetMode(c, "schedule")
    /\ UNCHANGED <<scx, clockVars, taskVars, reg, newer, idle, kicked, tokick,
                   queue>>

WakeUp(c) ==
    /\ mode[c] = "idle" /\ c \in kicked
    /\ SetMode(c, "schedule")
    /\ idle' = idle \ {c} /\ kicked' = kicked \ {c}
    /\ UNCHANGED <<scx, clockVars, taskVars, reg, newer, tokick, queue>>

\* ops.dispatch is called when the local queue is empty; CPU 0 returns at once.
Balance(c) ==
    /\ mode[c] = "schedule"
    /\ SetMode(c, IF Local(c) # {} \/ c = Cpu0 THEN "pick" ELSE "iterate")
    /\ UNCHANGED <<scx, clockVars, taskVars, reg, newer, idle, kicked, tokick,
                   queue>>

\* The places of the queue that its iteration comes to: what was queued since
\* it began is passed over.
Visible(c) == {i \in DOMAIN queue : queue[i] \notin newer[c]}

\* bpf_for_each: the next task of the queue, if there is one.
Iterate(c) ==
    /\ mode[c] = "iterate"
    /\ \/ /\ Visible(c) = {}
          /\ SetMode(c, "pick")
          /\ newer' = [newer EXCEPT ![c] = {}] /\ UNCHANGED reg
       \/ \E i \in Visible(c) :
            /\ \A j \in Visible(c) : i <= j
            /\ SetMode(c, "vtime")
            /\ reg' = [reg EXCEPT ![c].p = queue[i]] /\ UNCHANGED newer
    /\ UNCHANGED <<scx, clockVars, taskVars, idle, kicked, tokick, queue>>

\* The vtime of the task, which another CPU may have taken and charged ...
ReadVtime(c) ==
    /\ mode[c] = "vtime"
    /\ reg' = [reg EXCEPT ![c].vtime = dsq_vtime[reg[c].p]]
    /\ SetMode(c, "global")
    /\ UNCHANGED <<scx, clockVars, taskVars, newer, idle, kicked, tokick, queue>>

\* ... and then global_vtime, which the vtime that was read may be above.
ReadGlobal(c) ==
    /\ mode[c] = "global"
    /\ reg' = [reg EXCEPT ![c].old = global_vtime]
    /\ SetMode(c, IF reg[c].vtime > global_vtime THEN "cas" ELSE "move")
    /\ UNCHANGED <<scx, clockVars, taskVars, newer, idle, kicked, tokick, queue>>

\* __sync_val_compare_and_swap: another CPU may have been faster.
RaisedStore(c) == reg[c].vtime
Raised(c) == IF global_vtime = reg[c].old THEN reg[c].vtime ELSE global_vtime
RaiseGlobal(c) ==
    /\ mode[c] = "cas"
    /\ global_vtime' = Raised(c)
    /\ SetMode(c, "move")
    /\ UNCHANGED <<scx, dsq_vtime, limit, taskVars, reg, newer, idle, kicked,
                   tokick, queue>>

\* scx_bpf_dsq_move fails when the task left the queue meanwhile, even if it
\* has come back.
Move(c) ==
    LET t == reg[c].p
    IN /\ mode[c] = "move"
       /\ \/ \E i \in DOMAIN queue :
               /\ queue[i] = t /\ t \notin newer[c]
               /\ where' = [where EXCEPT ![t] = "local"]
               /\ at' = [at EXCEPT ![t] = c]
               /\ queue' = RemoveAt(queue, i)
               /\ newer' = [newer EXCEPT ![c] = {}]
               /\ SetMode(c, "pick")
          \/ /\ where[t] # "shared" \/ t \in newer[c]
             /\ SetMode(c, "iterate") /\ UNCHANGED <<where, at, queue, newer>>
       /\ reg' = [reg EXCEPT ![c] = NoReg]
       /\ UNCHANGED <<scx, clockVars, left, sum, ctx, ran, outside, enters,
                      idle, kicked, tokick>>

\* The task that used up its slice is charged and queued again (also when it
\* is the last one, SCX_OPS_ENQ_LAST); the CPU waits for its ops.enqueue.
PutPrev(c) ==
    LET t == Current(c)
    IN /\ mode[c] = "pick" /\ t # NoTask
       /\ Stopping(t)
       /\ where' = [where EXCEPT ![t] = "enqueue"]
       /\ SetMode(c, "put")
       /\ reg' = [reg EXCEPT ![c].p = t]
       /\ UNCHANGED <<scx, global_vtime, limit, at, left, sum, enters, newer,
                      idle, kicked, tokick, queue>>

PutDone(c) ==
    /\ mode[c] = "put"
    /\ where[reg[c].p] \notin {"enqueue", "clamp"} /\ reg[c].p \notin tokick
    /\ SetMode(c, "pick")
    /\ reg' = [reg EXCEPT ![c] = NoReg]
    /\ UNCHANGED <<scx, clockVars, taskVars, newer, idle, kicked, tokick,
                   queue>>

\* The CPU runs a task of its local queue, and goes idle when there is none.
PickLocal(c, t) ==
    /\ mode[c] = "pick" /\ Current(c) = NoTask /\ t \in Local(c)
    /\ where' = [where EXCEPT ![t] = "run"]
    /\ SetMode(c, "run")
    /\ kicked' = kicked \ {c}
    /\ UNCHANGED <<scx, clockVars, at, left, sum, ctx, ran, outside, enters, reg,
                   newer, idle, tokick, queue>>

PickIdle(c) ==
    /\ mode[c] = "pick" /\ Current(c) = NoTask /\ Local(c) = {}
    /\ SetMode(c, "idle")
    /\ idle' = idle \cup {c}
    /\ UNCHANGED <<scx, clockVars, taskVars, reg, newer, kicked, tokick, queue>>

-------------------------------------------------------------------------------
(* Attaching and detaching (external: the kernel's side of the link). *)

\* A skeleton that is loaded has empty maps and a zero .bss.
Attach ==
    /\ scx' = "on" /\ global_vtime' = 0
    /\ ctx' = [t \in Tasks |-> NoCtx]
    /\ UNCHANGED <<dsq_vtime, limit, where, at, left, sum, ran, outside, enters,
                   cpuVars, queue>>

\* The kernel takes the scheduler out: every task is in another class again.
Detach ==
    /\ scx' = "off"
    /\ where' = [t \in Tasks |-> "out"]
    /\ ran' = [t \in Tasks |-> 0] /\ outside' = [t \in Tasks |-> 0]
    /\ limit' = [t \in Tasks |-> 0]
    /\ queue' = <<>> /\ tokick' = {}
    /\ mode' = [c \in Cpus |-> "idle"] /\ reg' = [c \in Cpus |-> NoReg]
    /\ newer' = [c \in Cpus |-> {}]
    /\ idle' = Cpus /\ kicked' = {}
    /\ UNCHANGED <<global_vtime, dsq_vtime, at, left, sum, ctx, enters>>

-------------------------------------------------------------------------------
\* The steps that are under way by themselves, and what processes decide.
EnqueueStep(t) ==
    \/ ReadLimit(t) \/ Insert(t) \/ DoubleTap(t)
    \/ \E c \in Cpus : WakeIdleCpu(t, c)
CpuStep(c) ==
    \/ Expire(c) \/ WakeUp(c) \/ Balance(c) \/ Iterate(c) \/ ReadVtime(c)
    \/ ReadGlobal(c) \/ RaiseGlobal(c) \/ Move(c) \/ PutPrev(c) \/ PutDone(c)
    \/ PickIdle(c) \/ \E t \in Tasks : PickLocal(c, t)
RunStep(t) == Tick(t) \/ Block(t) \/ Leave(t)
TaskStep(t) ==
    \/ Enable(t) \/ RunOutside(t) \/ SelectBusyCpu(t)
    \/ \E c \in Cpus : SelectIdleCpu(t, c)
===============================================================================
