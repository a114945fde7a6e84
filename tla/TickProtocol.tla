---------------------------- MODULE TickProtocol ----------------------------
(***************************************************************************)
(* How the scheduler thread, the CPU workers and a caller of start(),      *)
(* pause(), resume() and stop() keep step: scheduler_mtx_, the flags       *)
(* paused_, sched_running_ and CPUWorker::running_, pause_cv_ and the      *)
(* std::barrier, each with its own rules.  What a tick does to the         *)
(* processes is in module Scheduler; here it is one step, "work".          *)
(*                                                                         *)
(* A definition whose name ends in Fault is not the code: it is what a     *)
(* slip would make of the definition after it, and shows that a property   *)
(* would notice.                                                           *)
(***************************************************************************)
EXTENDS Naturals, FiniteSets

CONSTANTS
  NumCpu,    \* cfg.num_cpu
  Commands,  \* what the caller may call besides start()
  MaxStarts, \* bound: how often start() makes a new set of threads
  TickMod    \* bound: tick_ is counted modulo this

ASSUME CpuAssumption == NumCpu \in Nat \ {0}
ASSUME CommandAssumption == Commands \subseteq {"pause", "resume", "stop"}
ASSUME BoundAssumption == MaxStarts \in Nat /\ TickMod \in Nat \ {0, 1}

Cpus == 0 .. NumCpu - 1
Sched == NumCpu
Main == NumCpu + 1
Threads == 0 .. NumCpu + 1
NoOwner == NumCpu + 2

VARIABLES
  pc,            \* where each thread is
  tick,          \* tick_
  paused,        \* paused_
  schedRunning,  \* sched_running_
  workerRunning, \* CPUWorker::running_ of each worker
  owner,         \* the thread that holds scheduler_mtx_
  expected,      \* the barrier: how many arrivals complete the next phase
  pending,       \* the barrier: how many arrivals complete this phase
  starts,        \* how often start() made a set of threads
  next,          \* the index in cpu_workers_ stop() is at
  pausedAtStop,  \* whether stop() began in a pause
  overrun,       \* ticks counted since pause() returned or stop() began
  crashed        \* the barrier was used against its contract

flags == <<paused, schedRunning, workerRunning>>
barrier == <<expected, pending>>
caller == <<starts, next, pausedAtStop>>
vars == <<pc, tick, flags, owner, barrier, caller, overrun, crashed>>

Goto(t, label) == pc' = [pc EXCEPT ![t] = label]

\* A pause flag that nobody reads.
IsPausedFault == FALSE

\* is_paused(), and the predicate pause_check waits for.
IsPaused == paused

-----------------------------------------------------------------------------
(***************************************************************************)
(* std::barrier.  A phase completes with its last arrival, which lets      *)
(* every waiting thread go and starts the next phase with the expected     *)
(* count, less the threads that dropped.  An arrival that is not expected  *)
(* breaks the barrier's precondition; libstdc++ then divides by zero.      *)
(***************************************************************************)
WaitAt == [b1 |-> "b1w", b2 |-> "b2w", b3 |-> "b3w"]
Waiting == {"b1w", "b2w", "b3w"}
SchedAfter == [b1w |-> "work", b2w |-> "advance", b3w |-> "unlock"]
WorkerAfter == [b1w |-> "work", b2w |-> "b3", b3w |-> "loop"]

\* Forgets the scheduler thread; counts the caller.
BarrierTooSmallFault == NumCpu
BarrierTooLargeFault == NumCpu + 2

\* start() sizes the barrier for the workers and the scheduler thread.
BarrierSize == NumCpu + 1

Released(where) ==
  [t \in Threads |->
     IF where[t] \notin Waiting THEN where[t]
     ELSE IF t = Sched THEN SchedAfter[where[t]] ELSE WorkerAfter[where[t]]]

\* One arrival, with the program counters after it; drop is 1 or 0.
Arrive(where, drop) ==
  IF pending = 0
  THEN crashed' = TRUE /\ UNCHANGED <<pc, barrier>>
  ELSE /\ expected' = expected - drop
       /\ pending' = IF pending = 1 THEN expected' ELSE pending - 1
       /\ pc' = IF pending = 1 THEN Released(where) ELSE where
       /\ UNCHANGED crashed

TickBarrierSync(t) ==
  /\ pc[t] \in DOMAIN WaitAt
  /\ Arrive([pc EXCEPT ![t] = WaitAt[@]], 0)
  /\ UNCHANGED <<tick, flags, owner, caller, overrun>>

-----------------------------------------------------------------------------
(***************************************************************************)
(* The scheduler thread: tick_loop with pause_check.                       *)
(***************************************************************************)

\* Does not read sched_running_.
LoopTestFault ==
  /\ pc[Sched] = "loop"
  /\ Goto(Sched, "p_lock")
  /\ UNCHANGED <<tick, flags, owner, barrier, caller, overrun, crashed>>

LoopTest ==
  /\ pc[Sched] = "loop"
  /\ Goto(Sched, IF schedRunning THEN "p_lock" ELSE "exit")
  /\ UNCHANGED <<tick, flags, owner, barrier, caller, overrun, crashed>>

\* pause_check: its unique_lock, and the wait's re-lock after a notification.
PauseLock ==
  /\ pc[Sched] = "p_lock"
  /\ owner = NoOwner
  /\ owner' = Sched
  /\ Goto(Sched, "p_test")
  /\ UNCHANGED <<tick, flags, barrier, caller, overrun, crashed>>

\* Unlocks between the test and the wait.
PauseTestFault ==
  /\ pc[Sched] = "p_test"
  /\ Goto(Sched, IF IsPaused THEN "p_block" ELSE "lock")
  /\ owner' = NoOwner
  /\ UNCHANGED <<tick, flags, barrier, caller, overrun, crashed>>

\* The predicate, read with the mutex held; pause_check returns without it.
PauseTest ==
  /\ pc[Sched] = "p_test"
  /\ IF IsPaused
     THEN Goto(Sched, "p_block") /\ UNCHANGED owner
     ELSE Goto(Sched, "lock") /\ owner' = NoOwner
  /\ UNCHANGED <<tick, flags, barrier, caller, overrun, crashed>>

\* Releasing the mutex and starting to wait is one step.
PauseBlock ==
  /\ pc[Sched] = "p_block"
  /\ owner' = NoOwner
  /\ Goto(Sched, "p_wait")
  /\ UNCHANGED <<tick, flags, barrier, caller, overrun, crashed>>

SpuriousWakeup ==
  /\ pc[Sched] = "p_wait"
  /\ Goto(Sched, "p_lock")
  /\ UNCHANGED <<tick, flags, owner, barrier, caller, overrun, crashed>>

\* The lock_guard of the tick, held until its third barrier is passed; then
\* timer_check and preemption_check.
LockTick ==
  /\ pc[Sched] = "lock"
  /\ owner = NoOwner
  /\ owner' = Sched
  /\ Goto(Sched, "before")
  /\ UNCHANGED <<tick, flags, barrier, caller, overrun, crashed>>

SchedWork ==
  /\ pc[Sched] \in {"before", "work"}
  /\ Goto(Sched, IF pc[Sched] = "before" THEN "b1" ELSE "b2")
  /\ UNCHANGED <<tick, flags, owner, barrier, caller, overrun, crashed>>

AdvanceTick ==
  /\ pc[Sched] = "advance"
  /\ tick' = (tick + 1) % TickMod
  /\ overrun' = IF overrun < 2 THEN overrun + 1 ELSE overrun
  /\ Goto(Sched, "b3")
  /\ UNCHANGED <<flags, owner, barrier, caller, crashed>>

UnlockTick ==
  /\ pc[Sched] = "unlock"
  /\ owner' = NoOwner
  /\ Goto(Sched, "loop")
  /\ UNCHANGED <<tick, flags, barrier, caller, overrun, crashed>>

SchedulerStep ==
  \/ LoopTest \/ PauseLock \/ PauseTest \/ PauseBlock \/ LockTick \/ SchedWork
  \/ AdvanceTick \/ UnlockTick
  \/ TickBarrierSync(Sched)

-----------------------------------------------------------------------------
(***************************************************************************)
(* The worker of CPU c.                                                    *)
(***************************************************************************)

WorkerLoopTest(c) ==
  /\ pc[c] = "loop"
  /\ Goto(c, IF workerRunning[c] THEN "spin" ELSE "exit")
  /\ UNCHANGED <<tick, flags, owner, barrier, caller, overrun, crashed>>

\* Polling is_paused() every 50 ms.
SpinWhilePaused(c) ==
  /\ pc[c] = "spin"
  /\ ~IsPaused
  /\ Goto(c, "b1")
  /\ UNCHANGED <<tick, flags, owner, barrier, caller, overrun, crashed>>

WorkerWork(c) ==
  /\ pc[c] = "work"
  /\ Goto(c, "b2")
  /\ UNCHANGED <<tick, flags, owner, barrier, caller, overrun, crashed>>

WorkerStep(c) == \/ WorkerLoopTest(c) \/ SpinWhilePaused(c) \/ WorkerWork(c)
                 \/ TickBarrierSync(c)

-----------------------------------------------------------------------------
(***************************************************************************)
(* The caller.                                                             *)
(***************************************************************************)

\* Makes a barrier only when there is none.
StartFault ==
  /\ pc[Main] = "idle"
  /\ ~schedRunning
  /\ starts < MaxStarts
  /\ starts' = starts + 1
  /\ schedRunning' = TRUE
  /\ workerRunning' = [c \in Cpus |-> TRUE]
  /\ expected' = IF starts = 0 THEN BarrierSize ELSE expected
  /\ pending' = expected'
  /\ pc' = [t \in Threads |-> IF t = Main THEN "idle" ELSE "loop"]
  /\ UNCHANGED <<tick, paused, owner, next, pausedAtStop, overrun, crashed>>

\* start() returns at once while the scheduler runs.  cpu_workers_ keeps the
\* workers of an earlier start(), in front of the new ones.
Start ==
  /\ pc[Main] = "idle"
  /\ ~schedRunning
  /\ starts < MaxStarts
  /\ starts' = starts + 1
  /\ schedRunning' = TRUE
  /\ workerRunning' = [c \in Cpus |-> TRUE]
  /\ expected' = BarrierSize
  /\ pending' = BarrierSize
  /\ pc' = [t \in Threads |-> IF t = Main THEN "idle" ELSE "loop"]
  /\ UNCHANGED <<tick, paused, owner, next, pausedAtStop, overrun, crashed>>

OldWorkers == NumCpu * (starts - 1)

\* pause() and resume() at any time, stop() once for a start(), as ~Scheduler.
Call(command) ==
  /\ command \in Commands
  /\ command = "stop" => schedRunning
  /\ pc[Main] = "idle"
  /\ Goto(Main, command)
  /\ UNCHANGED <<tick, flags, owner, barrier, caller, overrun, crashed>>

\* pause() and resume() write the flag under scheduler_mtx_: lock ...
LockFlag ==
  /\ pc[Main] \in {"pause", "resume"}
  /\ owner = NoOwner
  /\ owner' = Main
  /\ Goto(Main, IF pc[Main] = "pause" THEN "set" ELSE "clear")
  /\ UNCHANGED <<tick, flags, barrier, caller, overrun, crashed>>

\* ... store and unlock.
SetPaused ==
  /\ pc[Main] = "set"
  /\ paused' = TRUE
  /\ overrun' = 0
  /\ owner' = NoOwner
  /\ Goto(Main, "idle")
  /\ UNCHANGED <<tick, schedRunning, workerRunning, barrier, caller, crashed>>

ClearPaused ==
  /\ pc[Main] = "clear"
  /\ paused' = FALSE
  /\ owner' = NoOwner
  /\ Goto(Main, "notify")
  /\ UNCHANGED <<tick, schedRunning, workerRunning, barrier, caller, overrun,
                 crashed>>

\* notify_all wakes the scheduler thread only if it waits already.
Notified == [pc EXCEPT ![Sched] = IF @ = "p_wait" THEN "p_lock" ELSE @]

NotifyResumed ==
  /\ pc[Main] = "notify"
  /\ pc' = [Notified EXCEPT ![Main] = "idle"]
  /\ UNCHANGED <<tick, flags, owner, barrier, caller, overrun, crashed>>

\* stop(): the flags are stored one after the other, without the mutex.
StopScheduler ==
  /\ pc[Main] = "stop"
  /\ schedRunning' = FALSE
  /\ next' = 0
  /\ pausedAtStop' = paused
  /\ overrun' = 0
  /\ Goto(Main, "s_clear")
  /\ UNCHANGED <<tick, paused, workerRunning, owner, barrier, starts, crashed>>

StopClearsPaused ==
  /\ pc[Main] = "s_clear"
  /\ paused' = FALSE
  /\ Goto(Main, "s_notify")
  /\ UNCHANGED <<tick, schedRunning, workerRunning, owner, barrier, caller,
                 overrun, crashed>>

StopNotifies ==
  /\ pc[Main] = "s_notify"
  /\ pc' = [Notified EXCEPT ![Main] = "s_flag"]
  /\ UNCHANGED <<tick, flags, owner, barrier, caller, overrun, crashed>>

\* CPUWorker::stop() of each worker there ever was: clear its flag ...
StopWorker ==
  /\ pc[Main] = "s_flag"
  /\ next < OldWorkers + NumCpu
  /\ workerRunning' = [c \in Cpus |-> workerRunning[c] /\ next # OldWorkers + c]
  /\ Goto(Main, "s_drop")
  /\ UNCHANGED <<tick, paused, schedRunning, owner, barrier, caller, overrun,
                 crashed>>

\* ... and stop_barrier_sync(), on the caller's own thread.
StopBarrierSync ==
  /\ pc[Main] = "s_drop"
  /\ Arrive([pc EXCEPT ![Main] = "s_flag"], 1)
  /\ next' = next + 1
  /\ UNCHANGED <<tick, flags, owner, starts, pausedAtStop, overrun>>

\* The last drop, for the scheduler thread.
StopDropsScheduler ==
  /\ pc[Main] = "s_flag"
  /\ next = OldWorkers + NumCpu
  /\ Arrive([pc EXCEPT ![Main] = "s_join"], 1)
  /\ UNCHANGED <<tick, flags, owner, caller, overrun>>

\* The threads of an earlier start() were joined by an earlier stop().
Join ==
  /\ pc[Main] = "s_join"
  /\ \A t \in Threads \ {Main} : pc[t] = "exit"
  /\ Goto(Main, "idle")
  /\ UNCHANGED <<tick, flags, owner, barrier, caller, overrun, crashed>>

CallerStep ==
  \/ Start \/ LockFlag \/ SetPaused \/ ClearPaused \/ NotifyResumed
  \/ StopScheduler \/ StopClearsPaused \/ StopNotifies \/ StopWorker
  \/ StopBarrierSync \/ StopDropsScheduler \/ Join

-----------------------------------------------------------------------------
Init ==
  /\ pc = [t \in Threads |-> IF t = Main THEN "idle" ELSE "unborn"]
  /\ tick = 1
  /\ paused = FALSE
  /\ schedRunning = FALSE
  /\ workerRunning = [c \in Cpus |-> FALSE]
  /\ owner = NoOwner
  /\ expected = 0
  /\ pending = 0
  /\ starts = 0
  /\ next = 0
  /\ pausedAtStop = FALSE
  /\ overrun = 0
  /\ crashed = FALSE

Step ==
  \/ SchedulerStep
  \/ SpuriousWakeup
  \/ \E c \in Cpus : WorkerStep(c)
  \/ CallerStep
  \/ \E command \in Commands : Call(command)

Ended == crashed /\ UNCHANGED vars

Next == (~crashed /\ Step) \/ Ended

\* The operating system runs every thread that can run, and a thread that
\* keeps trying to lock a mutex that keeps becoming free gets it; whether the
\* caller calls anything, and spurious wakeups, are up to them.
Fairness == /\ WF_vars(~crashed /\ SchedulerStep)
            /\ \A c \in Cpus : WF_vars(~crashed /\ WorkerStep(c))
            /\ WF_vars(~crashed /\ CallerStep)
            /\ SF_vars(~crashed /\ (PauseLock \/ LockTick))
            /\ SF_vars(~crashed /\ LockFlag)

Spec == Init /\ [][Next]_vars
FairSpec == Spec /\ Fairness

-----------------------------------------------------------------------------
(***************************************************************************)
(* Properties.                                                             *)
(***************************************************************************)
SchedLabels == {"unborn", "loop", "p_lock", "p_test", "p_block", "p_wait",
                "lock", "before", "b1", "b1w", "work", "b2", "b2w", "advance",
                "b3", "b3w", "unlock", "exit"}
WorkerLabels == {"unborn", "loop", "spin", "b1", "b1w", "work", "b2", "b2w",
                 "b3", "b3w", "exit"}
MainLabels == {"idle", "pause", "resume", "set", "clear", "notify",
               "stop", "s_clear", "s_notify", "s_flag", "s_drop", "s_join"}

\* Every thread is at one of its labels, and the barrier never expects more
\* arrivals than there are threads that share it.
TypeOK ==
  /\ pc \in [Threads -> SchedLabels \cup WorkerLabels \cup MainLabels]
  /\ pc[Sched] \in SchedLabels
  /\ \A c \in Cpus : pc[c] \in WorkerLabels
  /\ pc[Main] \in MainLabels
  /\ tick \in 0 .. TickMod - 1
  /\ paused \in BOOLEAN
  /\ schedRunning \in BOOLEAN
  /\ workerRunning \in [Cpus -> BOOLEAN]
  /\ owner \in Threads \cup {NoOwner}
  /\ expected \in 0 .. NumCpu + 1
  /\ pending \in 0 .. NumCpu + 1
  /\ starts \in 0 .. MaxStarts
  /\ next \in 0 .. NumCpu * MaxStarts
  /\ pausedAtStop \in BOOLEAN
  /\ overrun \in 0 .. 2
  /\ crashed \in BOOLEAN

\* The parts of a tick for the scheduler thread and for a worker.
SchedPart == [before |-> {"unborn", "loop", "p_lock", "p_test", "p_block",
                          "p_wait", "lock", "before", "b1", "b1w"},
              work |-> {"work", "b2", "b2w"},
              advance |-> {"advance", "b3", "b3w"},
              after |-> {"unlock"}]
WorkerPart == [before |-> {"unborn", "loop", "spin", "b1", "b1w"},
               work |-> {"work", "b2", "b2w"},
               advance |-> {"b3", "b3w"},
               after |-> {"loop", "spin", "b1", "b1w"}]

\* README.md:66 "in lockstep using a barrier": until stop() begins, pausing and
\* resuming at any moment never lets a worker do its part of a tick while the
\* scheduler thread is in another part of it, or in another tick.
Lockstep ==
  schedRunning =>
    \E part \in DOMAIN SchedPart :
      /\ pc[Sched] \in SchedPart[part]
      /\ \A c \in Cpus : pc[c] \in WorkerPart[part]

\* Once pause() has returned, tick_ is advanced at most once until the next
\* resume(): a tick that had passed pause_check may still run.
PauseStopsTicks == paused => overrun <= 1

\* Once stop() has cleared sched_running_, tick_ is advanced at most once more,
\* in whatever order the drops complete the barrier's phases.
StopStopsTicks == ~schedRunning => overrun <= 1

\* resume() never misses the scheduler thread: until stop() begins, a thread
\* that waits on pause_cv_ is paused, or its notification is still to come.
NoLostWakeup ==
  schedRunning /\ pc[Sched] = "p_wait" => paused \/ pc[Main] = "notify"

\* stop() never leaves the scheduler thread waiting on pause_cv_, to be joined for
\* ever: it stores paused_ and notifies without the mutex (src/scheduler.cpp:70),
\* but only a stop() that begins in a pause can come between the thread's test
\* and its wait.
StopLeavesNobodyWaiting ==
  pc[Main] \in {"s_flag", "s_drop", "s_join"} /\ ~pausedAtStop =>
    pc[Sched] \notin {"p_block", "p_wait"}

\* Left alone, the scheduler ticks forever, also when it was stopped and started
\* before: no order in which the threads reach the three barriers and the mutex
\* stops all of them.
TicksForever ==
  <>[]schedRunning /\ [](pc[Main] \notin {"pause", "resume"}) =>
    []<>(pc[Sched] = "advance") /\ []<>(pc[Sched] # "advance")

\* tests/test_scheduler.cpp:135 "Resumed.": a resume() ends the pause.
ResumeResumes == pc[Main] = "resume" ~> ~paused

\* tests/test_scheduler.cpp:141 "Stopped safely.": stop() uses the barrier within
\* its contract.
StopIsSafe == ~crashed
=============================================================================
