------------------------------- MODULE AskMaps -------------------------------
(***************************************************************************)
(* What the two halves of the ask_userspace scheduler share.  The BPF half *)
(* (scx_serverless_ask_userspace.bpf.c) and the daemon                     *)
(* (scx_serverless_ask_userspace.c) run concurrently and meet only here:   *)
(* two bounded BPF queues, the wake-up flag, the wake-up ring buffer, two  *)
(* counters in the .bss section, and the processes of the machine, whose   *)
(* /proc/<pid>/cmdline the daemon reads.                                   *)
(***************************************************************************)
EXTENDS Naturals, Sequences, FiniteSets

CONSTANTS
    Pids,       \* the process ids of the instance
    NoPid,      \* not a process id
    KnownPids,  \* the pids below the pid_max the daemon read when it started
    QCap,       \* max_entries of the queue map "enqueued"
    DCap,       \* max_entries of the queue map "dispatched"
    RingSlots   \* messages the ring buffer holds

ASSUME MapsAssumption ==
    /\ NoPid \notin Pids
    /\ KnownPids \subseteq Pids
    /\ QCap \in Nat \ {0}
    /\ DCap \in Nat \ {0}
    /\ RingSlots \in Nat \ {0}

VARIABLES
    enqueued,                 \* BPF queue, kernel to daemon: pids
    dispatched,               \* BPF queue, daemon to kernel: messages
    usersched_needed,         \* the flag that asks for a wake-up of the daemon
    ring,                     \* number of messages in wake_ringbuf
    nr_userspace_queued,      \* .bss counters, read by update_idle
    nr_userspace_scheduled,
    scx,                      \* "on" while the kernel runs this scheduler
    task,                     \* what each pid is: "dead", "other", "ext"
    arg                       \* class of the argument in its command line
                              \* ("long" while there is no process)

mapVars == <<enqueued, dispatched, usersched_needed, ring,
             nr_userspace_queued, nr_userspace_scheduled>>
procVars == <<scx, task, arg>>

\* The slice a message carries.  Every entry of fib_slice_map is 0 or 1 (0
\* asks for the default slice, 1 for the infinite one), and so is the answer
\* for an argument outside of the map.
SliceCode == {0, 1}

Msg == [pid : Pids, slice : SliceCode]

\* 24 to 35 are "short" (1 in fib_slice_map); everything else the parser can
\* see, a command line without an argument included, is "long".
Args == {"short", "long"}

CodeOf(a) == IF a = "short" THEN 1 ELSE 0

MapsTypeOK ==
    /\ enqueued \in Seq(Pids) /\ Len(enqueued) <= QCap
    /\ dispatched \in Seq(Msg) /\ Len(dispatched) <= DCap
    /\ usersched_needed \in {0, 1}
    /\ ring \in 0..RingSlots
    /\ nr_userspace_queued \in Nat
    /\ nr_userspace_scheduled \in Nat
    /\ scx \in {"on", "exited"}
    /\ task \in [Pids -> {"dead", "other", "ext"}]
    /\ arg \in [Pids -> Args]

MapsInit ==
    /\ enqueued = <<>>
    /\ dispatched = <<>>
    /\ usersched_needed = 0
    /\ ring = 0
    /\ nr_userspace_queued = 0
    /\ nr_userspace_scheduled = 0
    /\ scx = "on"
    /\ task = [p \in Pids |-> "dead"]
    /\ arg = [p \in Pids |-> "long"]

\* The pid p is in the queue of pids, or of messages, s.
In(p, s) == \E i \in 1..Len(s) : s[i] = p
InMsgs(p, s) == \E i \in 1..Len(s) : s[i].pid = p
==============================================================================
