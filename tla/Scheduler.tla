----------------------------- MODULE Scheduler -----------------------------
(***************************************************************************)
(* The scheduler thread (Scheduler::tick_loop) and the CPU workers         *)
(* (CPUWorker::loop) from start() on, in lockstep over one std::barrier,   *)
(* with the queues they move processes between.  pause(), resume() and     *)
(* stop() are in module TickProtocol.                                      *)
(*                                                                         *)
(* A process is its id: the ready queue orders by it.  Thread c of 0 ..    *)
(* NumCpu - 1 is the worker of CPU c, thread NumCpu is the scheduler.      *)
(*                                                                         *)
(* A definition whose name ends in Fault is not the code: it is what a     *)
(* slip would make of the definition after it, and shows that a property   *)
(* would notice.                                                           *)
(***************************************************************************)
EXTENDS ProcessExec, FiniteSets

CONSTANTS
  NumCpu,           \* cfg.num_cpu
  Procs,            \* ids of the processes that may be submitted
  Program,          \* the unrolled instructions of each process
  Priority,         \* Process::priority
  TickDelay,        \* cfg.scheduler_tick_delay, passed on as delays_per_exec
  Policy,           \* cfg.scheduler
  PolicyChoices,    \* the policies setSchedulingPolicy is called with
  QuantumCycles,    \* cfg.quantum_cycles
  SnapshotCooldown, \* cfg.snapshot_cooldown
  MaxCount,         \* the largest uint32_t: 2^32 - 1 in the code
  MaxTick,          \* bound: the scheduler starts no tick from MaxTick on
  MaxSubmitTick,    \* bound: no submission after this tick
  NoProc            \* the null shared_ptr

Policies == {"RR", "FCFS", "PRIORITY"}

ASSUME CpuAssumption == NumCpu \in Nat
ASSUME ProcAssumption == /\ Procs \subseteq Nat
                         /\ NoProc \notin Procs
                         /\ Program \in [Procs -> Seq(Instruction)]
                         /\ Priority \in [Procs -> Nat]
ASSUME ConfigAssumption == /\ TickDelay \in Nat
                           /\ Policy \in Policies
                           /\ PolicyChoices \subseteq Policies
                           /\ MaxCount \in Nat
                           /\ QuantumCycles \in 0 .. MaxCount
                           /\ SnapshotCooldown \in Nat
ASSUME BoundAssumption == MaxTick \in Nat /\ MaxSubmitTick \in Nat

\* The unsigned quantum_cycles - 1.
Quantum == IF QuantumCycles = 0 THEN MaxCount ELSE QuantumCycles - 1

Cpus == 0 .. NumCpu - 1
Sched == NumCpu
Threads == 0 .. NumCpu

VARIABLES
  tick,        \* tick_
  queuePolicy, \* policy_ of the ready queue
  jobQueue,    \* job_queue_
  readyQueue,  \* ready_queue_, a multiset ordered by Before
  sleepQueue,  \* sleep_queue_, its timer entries
  running,     \* running_
  finished,    \* the processes in finished_
  pcb,         \* the control block of each process
  lastActive,  \* Process::last_active_tick
  quantum,     \* cpu_quantum_remaining_
  logQueue,    \* log_queue: of each snapshot, the CPUs it lists as busy
  pc,          \* where each thread is
  k,           \* the loop variable of the scheduler thread
  held,        \* long_term_admission's p, between receive and send
  seen,        \* the busy CPUs in the snapshot being written
  cur,         \* each worker's process
  ctx,         \* each worker's context
  submitted,   \* the processes submit_process was called with
  crashed      \* a null pointer was followed, or divided by zero

queueVars == <<jobQueue, readyQueue, sleepQueue, held, finished>>
processVars == <<pcb, lastActive>>
workerVars == <<cur, ctx>>
logVars == <<logQueue, seen>>
envVars == <<queuePolicy, submitted>>
vars == <<tick, queueVars, running, processVars, quantum, logVars, pc, k,
          workerVars, envVars, crashed>>

(***************************************************************************)
(* The barrier.  A thread at an arriving label arrives; it then waits at   *)
(* the corresponding waiting label.  All threads share one barrier, which  *)
(* does not know which of the three synchronisations an arrival is for.    *)
(***************************************************************************)
WaitAt == [b1 |-> "b1w", b2 |-> "b2w", b3 |-> "b3w"]
Waiting == {"b1w", "b2w", "b3w"}
SchedAfter == [b1w |-> "admit", b2w |-> "advance", b3w |-> "timer"]
\* A worker that forgets the third synchronisation.
WorkerAfterFault == [b1w |-> "fetch", b2w |-> "b1", b3w |-> "b1"]
WorkerAfter == [b1w |-> "fetch", b2w |-> "b3", b3w |-> "b1"]

SchedLabels == {"timer", "preempt", "redispatch", "b1", "b1w", "admit",
                "admit_send", "dispatch", "scan", "claim", "log", "snap",
                "deref", "b2", "b2w", "advance", "b3", "b3w"}
WorkerLabels == {"b1", "b1w", "fetch", "exec", "release", "b2", "b2w", "b3",
                 "b3w"}

Goto(t, label) == pc' = [pc EXCEPT ![t] = label]

\* arrive_and_wait: the last of the NumCpu + 1 threads lets all of them go.
TickBarrierSync(t) ==
  LET arrived == [pc EXCEPT ![t] = WaitAt[@]]
  IN  /\ pc[t] \in DOMAIN WaitAt
      /\ pc' = IF \A u \in Threads : arrived[u] \in Waiting
               THEN [u \in Threads |-> IF u = Sched
                                       THEN SchedAfter[arrived[u]]
                                       ELSE WorkerAfter[arrived[u]]]
               ELSE arrived
      /\ UNCHANGED <<tick, queueVars, running, processVars, quantum, logVars,
                     k, workerVars, envVars, crashed>>

(***************************************************************************)
(* What scheduler and workers share, each under short_term_mtx_.           *)
(***************************************************************************)

\* rr_cmp and fcfs_cmp, which are the same; prio_cmp.
Before(p, q) ==
  IF queuePolicy = "PRIORITY"
  THEN \/ Priority[p] > Priority[q]
       \/ Priority[p] = Priority[q] /\ p < q
  ELSE \/ lastActive[p] < lastActive[q]
       \/ lastActive[p] = lastActive[q] /\ p < q

\* The process receiveNext takes.
IsNext(p) == p \in readyQueue /\ \A q \in readyQueue \ {p} : Before(p, q)

\* Takes a process without looking at running_ again under the mutex.
DispatchToCpuFault(c) ==
  \/ readyQueue = {} /\ UNCHANGED <<running, readyQueue, processVars>>
  \/ \E p \in readyQueue :
       /\ IsNext(p)
       /\ readyQueue' = readyQueue \ {p}
       /\ running' = [running EXCEPT ![c] = p]
       /\ pcb' = [pcb EXCEPT ![p].state = "RUNNING"]
       /\ lastActive' = [lastActive EXCEPT ![p] = tick]

\* dispatch_to_cpu, which returns what is then in running_.  It holds
\* short_term_mtx_ from its first line to its last and is one step here.  Who does
\* not take that mutex can see the process in neither place: module Reporter, about
\* who reads both, makes it two steps.
DispatchToCpu(c) ==
  \/ /\ running[c] # NoProc \/ readyQueue = {}
     /\ UNCHANGED <<running, readyQueue, processVars>>
  \/ /\ running[c] = NoProc
     /\ \E p \in readyQueue :
          /\ IsNext(p)
          /\ readyQueue' = readyQueue \ {p}
          /\ running' = [running EXCEPT ![c] = p]
          /\ pcb' = [pcb EXCEPT ![p].state = "RUNNING"]
          /\ lastActive' = [lastActive EXCEPT ![p] = tick]

\* Puts a sleeper into the timer queue but leaves it in running_.
ReleaseKeepsCpuFault(c, p, context) ==
  \/ /\ pcb[p].state = "FINISHED"
     /\ running' = [running EXCEPT ![c] = NoProc]
     /\ finished' = finished \cup {p}
     /\ UNCHANGED sleepQueue
  \/ /\ pcb[p].state = "WAITING"
     /\ sleepQueue' = sleepQueue \cup
                        {[proc |-> p, wake |-> context.arg + tick]}
     /\ UNCHANGED <<running, finished>>
  \/ /\ pcb[p].state \notin {"FINISHED", "WAITING"}
     /\ UNCHANGED <<running, finished, sleepQueue>>

\* Preempts without sending the process back to the ready queue.
ReleaseDropsReadyFault(c, p, context) ==
  /\ running' = [running EXCEPT ![c] = NoProc]
  /\ finished' = IF pcb[p].state = "FINISHED" THEN finished \cup {p} ELSE finished
  /\ sleepQueue' = IF pcb[p].state = "WAITING"
                   THEN sleepQueue \cup {[proc |-> p, wake |-> context.arg + tick]}
                   ELSE sleepQueue

\* release_cpu_interrupt: the state of the process decides, not the context,
\* and a process that is neither finished nor waiting keeps its CPU.  One step
\* here and two in module Reporter, like DispatchToCpu.
ReleaseCpuInterrupt(c, p, context) ==
  \/ /\ pcb[p].state = "FINISHED"
     /\ running' = [running EXCEPT ![c] = NoProc]
     /\ finished' = finished \cup {p}
     /\ UNCHANGED sleepQueue
  \/ /\ pcb[p].state = "WAITING"
     /\ running' = [running EXCEPT ![c] = NoProc]
     /\ sleepQueue' = sleepQueue \cup
                        {[proc |-> p, wake |-> context.arg + tick]}
     /\ UNCHANGED finished
  \/ /\ pcb[p].state \notin {"FINISHED", "WAITING"}
     /\ UNCHANGED <<running, finished, sleepQueue>>

-----------------------------------------------------------------------------
(***************************************************************************)
(* Callers of the scheduler: the CLI and the process generator.            *)
(***************************************************************************)

SubmitProcess(p) ==
  /\ p \notin submitted
  /\ tick <= MaxSubmitTick
  /\ submitted' = submitted \cup {p}
  /\ pcb' = [pcb EXCEPT ![p].state = "NEW"]
  /\ jobQueue' = Append(jobQueue, p)
  /\ UNCHANGED <<tick, queuePolicy, readyQueue, sleepQueue, held, finished,
                 running, lastActive, quantum, logVars, pc, k, workerVars,
                 crashed>>

\* setSchedulingPolicy reorders the ready queue; preemption_check goes on
\* using cfg_.scheduler.
SetSchedulingPolicy(policy) ==
  /\ queuePolicy' = policy
  /\ UNCHANGED <<tick, queueVars, running, processVars, quantum, logVars, pc,
                 k, workerVars, submitted, crashed>>

-----------------------------------------------------------------------------
(***************************************************************************)
(* The scheduler thread.                                                   *)
(***************************************************************************)

\* Misses the entries of this very tick.
DueFault == {e \in sleepQueue : e.wake < tick}

\* The entries the timer has reached, and the processes they hold.
Due == {e \in sleepQueue : e.wake <= tick}
DueProcs == {e.proc : e \in Due}

\* timer_check; preemption_check loops only under RR.
TimerCheck ==
  /\ pc[Sched] = "timer"
  /\ tick < MaxTick
  /\ sleepQueue' = sleepQueue \ Due
  /\ readyQueue' = readyQueue \cup DueProcs
  /\ pcb' = [p \in Procs |-> IF p \in DueProcs
                             THEN [pcb[p] EXCEPT !.state = "READY"]
                             ELSE pcb[p]]
  /\ k' = 0
  /\ Goto(Sched, IF Policy = "RR" THEN "preempt" ELSE "b1")
  /\ UNCHANGED <<tick, jobQueue, held, finished, running, lastActive, quantum,
                 logVars, workerVars, envVars, crashed>>

\* Decrements a quantum that is used up.
CountQuantumFault ==
  /\ pc[Sched] = "preempt"
  /\ k < NumCpu
  /\ quantum' = IF running[k] = NoProc THEN quantum
                ELSE [quantum EXCEPT ![k] = @ - 1]
  /\ k' = k + 1
  /\ UNCHANGED <<tick, queueVars, running, processVars, logVars, pc,
                 workerVars, envVars, crashed>>

\* preemption_check leaves an idle CPU alone and takes a tick from a quantum
\* that has one left.
CountQuantum ==
  /\ pc[Sched] = "preempt"
  /\ k < NumCpu
  /\ running[k] = NoProc \/ quantum[k] > 0
  /\ quantum' = IF running[k] = NoProc THEN quantum
                ELSE [quantum EXCEPT ![k] = @ - 1]
  /\ k' = k + 1
  /\ UNCHANGED <<tick, queueVars, running, processVars, logVars, pc,
                 workerVars, envVars, crashed>>

\* "Time to preempt": release the CPU with the context READY ...
Preempt ==
  /\ pc[Sched] = "preempt"
  /\ k < NumCpu
  /\ running[k] # NoProc /\ quantum[k] = 0
  /\ ReleaseCpuInterrupt(k, running[k], [state |-> "READY", arg |-> 0])
  /\ Goto(Sched, "redispatch")
  /\ UNCHANGED <<tick, jobQueue, readyQueue, held, processVars, quantum,
                 logVars, k, workerVars, envVars, crashed>>

\* ... and dispatch to it, with a new quantum.
Redispatch ==
  /\ pc[Sched] = "redispatch"
  /\ DispatchToCpu(k)
  /\ quantum' = [quantum EXCEPT ![k] = Quantum]
  /\ k' = k + 1
  /\ Goto(Sched, "preempt")
  /\ UNCHANGED <<tick, jobQueue, sleepQueue, held, finished, logVars,
                 workerVars, envVars, crashed>>

EndPreemptionCheck ==
  /\ pc[Sched] = "preempt"
  /\ k = NumCpu
  /\ Goto(Sched, "b1")
  /\ UNCHANGED <<tick, queueVars, running, processVars, quantum, logVars, k,
                 workerVars, envVars, crashed>>

\* long_term_admission, one turn of its loop: receive ...
ReceiveJob ==
  /\ pc[Sched] = "admit"
  /\ jobQueue # <<>>
  /\ held' = Head(jobQueue)
  /\ jobQueue' = Tail(jobQueue)
  /\ Goto(Sched, "admit_send")
  /\ UNCHANGED <<tick, readyQueue, sleepQueue, finished, running, processVars,
                 quantum, logVars, k, workerVars, envVars, crashed>>

\* Admits a process without making it READY.
AdmitJobFault ==
  /\ pc[Sched] = "admit_send"
  /\ readyQueue' = readyQueue \cup {held}
  /\ held' = NoProc
  /\ Goto(Sched, "admit")
  /\ UNCHANGED <<tick, jobQueue, sleepQueue, finished, running, processVars,
                 quantum, logVars, k, workerVars, envVars, crashed>>

\* ... and send.
AdmitJob ==
  /\ pc[Sched] = "admit_send"
  /\ pcb' = [pcb EXCEPT ![held].state = "READY"]
  /\ readyQueue' = readyQueue \cup {held}
  /\ held' = NoProc
  /\ Goto(Sched, "admit")
  /\ UNCHANGED <<tick, jobQueue, sleepQueue, finished, running, lastActive,
                 quantum, logVars, k, workerVars, envVars, crashed>>

EndAdmission ==
  /\ pc[Sched] = "admit"
  /\ jobQueue = <<>>
  /\ Goto(Sched, "dispatch")
  /\ UNCHANGED <<tick, queueVars, running, processVars, quantum, logVars, k,
                 workerVars, envVars, crashed>>

\* The isEmpty() in tick_loop before short_term_dispatch.
CheckReady ==
  /\ pc[Sched] = "dispatch"
  /\ k' = 0
  /\ Goto(Sched, IF readyQueue = {} THEN "log" ELSE "scan")
  /\ UNCHANGED <<tick, queueVars, running, processVars, quantum, logVars,
                 workerVars, envVars, crashed>>

\* short_term_dispatch reads running_ without the mutex; what it saw may be
\* out of date when dispatch_to_cpu locks it.
ScanCpu ==
  /\ pc[Sched] = "scan"
  /\ k < NumCpu
  /\ IF running[k] = NoProc
     THEN k' = k /\ Goto(Sched, "claim")
     ELSE k' = k + 1 /\ UNCHANGED pc
  /\ UNCHANGED <<tick, queueVars, running, processVars, quantum, logVars,
                 workerVars, envVars, crashed>>

ClaimCpu ==
  /\ pc[Sched] = "claim"
  /\ DispatchToCpu(k)
  /\ k' = k + 1
  /\ Goto(Sched, "scan")
  /\ UNCHANGED <<tick, jobQueue, sleepQueue, held, finished, quantum, logVars,
                 workerVars, envVars, crashed>>

\* Stops before the last CPU.
EndScanFault ==
  /\ pc[Sched] = "scan"
  /\ k = NumCpu - 1
  /\ Goto(Sched, "log")
  /\ UNCHANGED <<tick, queueVars, running, processVars, quantum, logVars, k,
                 workerVars, envVars, crashed>>

EndScan ==
  /\ pc[Sched] = "scan"
  /\ k = NumCpu
  /\ Goto(Sched, "log")
  /\ UNCHANGED <<tick, queueVars, running, processVars, quantum, logVars, k,
                 workerVars, envVars, crashed>>

\* log_status, which divides by the cooldown.
LogStatus ==
  /\ pc[Sched] = "log"
  /\ k' = 0
  /\ crashed' = (SnapshotCooldown = 0)
  /\ Goto(Sched, IF SnapshotCooldown > 0 /\ tick % SnapshotCooldown = 0
                 THEN "snap" ELSE "b2")
  /\ UNCHANGED <<tick, queueVars, running, processVars, quantum, logVars,
                 workerVars, envVars>>

\* cpu_state_snapshot, without the mutex: test the pointer ...
SnapshotCpu ==
  /\ pc[Sched] = "snap"
  /\ k < NumCpu
  /\ IF running[k] = NoProc
     THEN k' = k + 1 /\ UNCHANGED pc
     ELSE k' = k /\ Goto(Sched, "deref")
  /\ UNCHANGED <<tick, queueVars, running, processVars, quantum, logVars,
                 workerVars, envVars, crashed>>

\* ... and follow it: proc is a reference to running_[i], not a copy.
FollowPointer ==
  /\ pc[Sched] = "deref"
  /\ crashed' = (running[k] = NoProc)
  /\ seen' = seen \cup {k}
  /\ k' = k + 1
  /\ Goto(Sched, "snap")
  /\ UNCHANGED <<tick, queueVars, running, processVars, quantum, logQueue,
                 workerVars, envVars>>

SendSnapshot ==
  /\ pc[Sched] = "snap"
  /\ k = NumCpu
  /\ logQueue' = Append(logQueue, seen)
  /\ seen' = {}
  /\ Goto(Sched, "b2")
  /\ UNCHANGED <<tick, queueVars, running, processVars, quantum, k,
                 workerVars, envVars, crashed>>

AdvanceTick ==
  /\ pc[Sched] = "advance"
  /\ tick' = tick + 1
  /\ Goto(Sched, "b3")
  /\ UNCHANGED <<queueVars, running, processVars, quantum, logVars, k,
                 workerVars, envVars, crashed>>

SchedulerStep ==
  \/ TimerCheck \/ CountQuantum \/ Preempt \/ Redispatch \/ EndPreemptionCheck
  \/ ReceiveJob \/ AdmitJob \/ EndAdmission
  \/ CheckReady \/ ScanCpu \/ ClaimCpu \/ EndScan
  \/ LogStatus \/ SnapshotCpu \/ FollowPointer \/ SendSnapshot
  \/ AdvanceTick
  \/ TickBarrierSync(Sched)

-----------------------------------------------------------------------------
(***************************************************************************)
(* The worker of CPU c.                                                    *)
(***************************************************************************)

Fetch(c) ==
  /\ pc[c] = "fetch"
  /\ DispatchToCpu(c)
  /\ cur' = [cur EXCEPT ![c] = running'[c]]
  /\ Goto(c, IF running'[c] = NoProc THEN "b2" ELSE "exec")
  /\ UNCHANGED <<tick, jobQueue, sleepQueue, held, finished, quantum, logVars,
                 k, ctx, envVars, crashed>>

Execute(c) ==
  LET r == ExecuteTick(pcb[cur[c]], Program[cur[c]], TickDelay)
  IN  /\ pc[c] = "exec"
      /\ pcb' = [pcb EXCEPT ![cur[c]] = r.block]
      /\ ctx' = [ctx EXCEPT ![c] = r.ctx]
      /\ Goto(c, IF IsYielded(r.ctx) THEN "release" ELSE "b2")
      /\ UNCHANGED <<tick, queueVars, running, lastActive, quantum, logVars, k,
                     cur, envVars, crashed>>

Release(c) ==
  /\ pc[c] = "release"
  /\ ReleaseCpuInterrupt(c, cur[c], ctx[c])
  /\ Goto(c, "b2")
  /\ UNCHANGED <<tick, jobQueue, readyQueue, held, processVars, quantum,
                 logVars, k, workerVars, envVars, crashed>>

WorkerStep(c) == Fetch(c) \/ Execute(c) \/ Release(c) \/ TickBarrierSync(c)

-----------------------------------------------------------------------------
Init ==
  /\ tick = 1
  /\ queuePolicy = Policy
  /\ jobQueue = <<>>
  /\ readyQueue = {}
  /\ sleepQueue = {}
  /\ running = [c \in Cpus |-> NoProc]
  /\ finished = {}
  /\ pcb = [p \in Procs |-> NewBlock]
  /\ lastActive = [p \in Procs |-> 0]
  /\ quantum = [c \in Cpus |-> Quantum]
  /\ logQueue = <<>>
  /\ pc = [t \in Threads |-> IF t = Sched THEN "timer" ELSE "b1"]
  /\ k = 0
  /\ held = NoProc
  /\ seen = {}
  /\ cur = [c \in Cpus |-> NoProc]
  /\ ctx = [c \in Cpus |-> [state |-> "RUNNING", arg |-> 0]]
  /\ submitted = {}
  /\ crashed = FALSE

Step ==
  \/ \E p \in Procs : SubmitProcess(p)
  \/ \E policy \in PolicyChoices : SetSchedulingPolicy(policy)
  \/ SchedulerStep
  \/ \E c \in Cpus : WorkerStep(c)

\* Where the model ends: the bound on ticks, or the crash of the process.
Ended == /\ \/ crashed
            \/ /\ pc[Sched] = "timer" /\ tick >= MaxTick
               /\ \A c \in Cpus : pc[c] = "b1w"
         /\ UNCHANGED vars

Next == (~crashed /\ Step) \/ Ended

\* The operating system runs every thread that can run.
Fairness == /\ WF_vars(~crashed /\ SchedulerStep)
            /\ \A c \in Cpus : WF_vars(~crashed /\ WorkerStep(c))

Spec == Init /\ [][Next]_vars
FairSpec == Spec /\ Fairness
-----------------------------------------------------------------------------
(***************************************************************************)
(* Properties.                                                             *)
(***************************************************************************)

\* Where a process can be.
Jobs == {jobQueue[i] : i \in DOMAIN jobQueue}
InTransit == {held} \ {NoProc}
OnCpu == {running[c] : c \in Cpus} \ {NoProc}
Asleep == {e.proc : e \in sleepQueue}

DataTypes ==
  /\ tick \in Nat
  /\ queuePolicy \in Policies
  /\ jobQueue \in Seq(Procs)
  /\ readyQueue \subseteq Procs
  /\ sleepQueue \subseteq [proc : Procs, wake : Nat]
  /\ running \in [Cpus -> Procs \cup {NoProc}]
  /\ finished \subseteq Procs
  /\ pcb \in [Procs -> ControlBlock]
  /\ lastActive \in [Procs -> Nat]
  /\ quantum \in [Cpus -> 0 .. Quantum]
  /\ logQueue \in Seq(SUBSET Cpus)
  /\ submitted \subseteq Procs
  /\ crashed \in BOOLEAN

LocalTypes ==
  /\ k \in 0 .. NumCpu
  /\ held \in Procs \cup {NoProc}
  /\ seen \subseteq Cpus
  /\ cur \in [Cpus -> Procs \cup {NoProc}]
  /\ ctx \in [Cpus -> Context]

LabelTypes ==
  /\ pc \in [Threads -> SchedLabels \cup WorkerLabels]
  /\ pc[Sched] \in SchedLabels
  /\ \A c \in Cpus : pc[c] \in WorkerLabels

\* Every variable has its type: the queues hold processes, every thread is at
\* one of its labels, counters are naturals and no quantum underflows.
TypeOK == DataTypes /\ LocalTypes /\ LabelTypes

\* The parts of a tick: before the first barrier, between the first and the
\* second, between the second and the third.
SchedPart == [before |-> {"timer", "preempt", "redispatch", "b1", "b1w"},
              work |-> {"admit", "admit_send", "dispatch", "scan", "claim",
                        "log", "snap", "deref", "b2", "b2w"},
              advance |-> {"advance", "b3", "b3w"}]
WorkerPart == [before |-> {"b1", "b1w"},
               work |-> {"fetch", "exec", "release", "b2", "b2w"},
               advance |-> {"b3", "b3w"}]

\* README "lockstep using a barrier": every thread is in the same part of the
\* same tick, so that timer_check, preemption_check and the increment of
\* tick_ never run beside a worker's work.
Lockstep ==
  \E part \in DOMAIN SchedPart :
    /\ pc[Sched] \in SchedPart[part]
    /\ \A c \in Cpus : pc[c] \in WorkerPart[part]

\* What dispatch_to_cpu returned to a worker is still in running_ when the
\* worker executes it and when it releases it: the scheduler thread, which
\* dispatches to the same CPUs meanwhile, never exchanges it.
WorkerOwnsProcess ==
  \A c \in Cpus : pc[c] \in {"exec", "release"} =>
                     cur[c] # NoProc /\ running[c] = cur[c]

\* No process is lost or duplicated on its way through job queue, admission,
\* ready queue, CPUs, timer queue and finished map: each submitted process is
\* in exactly one of them, once.
Conservation ==
  /\ submitted = Jobs \cup InTransit \cup readyQueue \cup OnCpu \cup Asleep
                   \cup finished
  /\ \A i, j \in DOMAIN jobQueue : jobQueue[i] = jobQueue[j] => i = j
  /\ \A c, d \in Cpus : running[c] = running[d] /\ running[c] # NoProc => c = d
  /\ \A e, f \in sleepQueue : e.proc = f.proc => e = f
  /\ InTransit \cap Jobs = {}
  /\ readyQueue \cap (Jobs \cup InTransit) = {}
  /\ OnCpu \cap (Jobs \cup InTransit \cup readyQueue) = {}
  /\ Asleep \cap (Jobs \cup InTransit \cup readyQueue \cup OnCpu) = {}
  /\ finished \cap (Jobs \cup InTransit \cup readyQueue \cup OnCpu \cup Asleep)
       = {}

\* A process's own m_state, which release_cpu_interrupt decides by, agrees with
\* the queue that holds it.  Between its worker's execute_tick and release it
\* may be anything but NEW.
StateMatchesPlace ==
  /\ \A p \in Jobs \cup InTransit : pcb[p].state = "NEW"
  /\ \A p \in readyQueue : pcb[p].state = "READY"
  /\ \A p \in Asleep : pcb[p].state = "WAITING"
  /\ \A p \in finished : pcb[p].state = "FINISHED"
  /\ \A c \in Cpus : running[c] # NoProc =>
       \/ pcb[running[c]].state \in {"RUNNING", "READY"}
       \/ pc[c] = "release" /\ pcb[running[c]].state \in {"WAITING", "FINISHED"}

\* timer_check never finds an entry whose tick has passed: a process is in the
\* ready queue by the start of the tick its SLEEP named, although workers add
\* entries while the scheduler thread runs.
NoLateWakeup ==
  \A e \in sleepQueue :
     IF pc[Sched] \in {"b3", "b3w", "timer"} THEN e.wake >= tick ELSE e.wake > tick

\* No CPU that had nothing to do all tick leaves a process in the ready queue:
\* when the tick ends, an idle CPU beside a ready process is one whose worker
\* released a process in this very tick.
WorkConserving ==
  pc[Sched] = "advance" /\ readyQueue # {} =>
    \A c \in Cpus : running[c] = NoProc => cur[c] # NoProc

\* The scheduler implements ProcessLifecycle: every queue operation is a stage
\* change it allows or no change, also where an operation takes several steps.
StageOf(p) ==
  CASE p \in Jobs \cup InTransit -> "new"
    [] p \in readyQueue -> "ready"
    [] p \in OnCpu -> "running"
    [] p \in Asleep -> "asleep"
    [] p \in finished -> "finished"
    [] OTHER -> "absent"

Lifecycle == INSTANCE ProcessLifecycle
               WITH Length <- [p \in Procs |-> Len(Program[p])],
                    stage <- [p \in Procs |-> StageOf(p)],
                    cpu <- running,
                    done <- [p \in Procs |-> pcb[p].pc]

ImplementsLifecycle == Lifecycle!Spec

\* Every submitted process finishes, whichever way submissions, the two kinds
\* of dispatch and the timer interleave.
EventuallyFinished ==
  \A p \in Procs : p \in submitted ~> p \in finished

\* docs/scheduler.md:16 "S.T.S Algo RR rotates running P": a preemption with
\* another process ready gives the CPU to another process.
PreemptionRotates ==
  [][ pc[Sched] = "redispatch" /\ pc'[Sched] = "preempt" /\ readyQueue # {}
        => running'[k] # cur[k] ]_vars

\* src/process.cpp:520 "SLEEP(X) -> relinquish CPU for X ticks": the timer
\* holds a process for its X ticks, so what it puts back has slept enough.
SleptInFull == \A p \in readyQueue : pcb[p].sleep = 0

\* README.md:66 "Snapshots aggregate job/ready/CPU/sleep/finished state", which
\* cpu_state_snapshot does while the workers run: the process it found on a CPU
\* is still there when it asks for its name.
SnapshotIsSafe == ~crashed
=============================================================================
