-------------------------- MODULE SchedulerProofs --------------------------
(***************************************************************************)
(* Proofs about module Scheduler, for every number of CPUs, every set of   *)
(* processes, every program and every configuration.                       *)
(***************************************************************************)
EXTENDS Scheduler, ProcessExecProofs, TLAPS

\* What the type of the variables rests on: the loop variable is in range
\* where it is used, and the process a thread is about to handle is there.
LocalsOK ==
  /\ pc[Sched] \in {"redispatch", "claim", "deref"} => k < NumCpu
  /\ (pc[Sched] = "admit_send") <=> (held # NoProc)
  /\ \A c \in Cpus : pc[c] \in {"exec", "release"} => cur[c] # NoProc

TypeInv == TypeOK /\ LocalsOK

USE DEF Cpus, Threads, Sched

-----------------------------------------------------------------------------
\* The barrier moves program counters and nothing else, each to a label of its
\* own thread at which no loop variable and no process is in use.
LEMMA BarrierType ==
  ASSUME TypeInv, NEW t \in Threads, TickBarrierSync(t)
  PROVE  TypeInv'
<1> DEFINE arrived == [pc EXCEPT ![t] = WaitAt[@]]
<1>1. /\ pc[t] \in {"b1", "b2", "b3"}
      /\ WaitAt[pc[t]] \in Waiting
  BY DEF TickBarrierSync, WaitAt, Waiting
<1>2. DataTypes' /\ LocalTypes' /\ UNCHANGED <<k, held, cur>>
  BY DEF TickBarrierSync, TypeInv, TypeOK, DataTypes, LocalTypes, queueVars,
         processVars, logVars, workerVars, envVars
<1>3. NumCpu \in Nat
  BY CpuAssumption
<1>4. /\ arrived \in [Threads -> SchedLabels \cup WorkerLabels]
      /\ arrived[Sched] \in SchedLabels
      /\ \A c \in Cpus : arrived[c] \in WorkerLabels
  BY <1>1, <1>3 DEF TypeInv, TypeOK, LabelTypes, SchedLabels, WorkerLabels, Waiting
<1>5. CASE \A u \in Threads : arrived[u] \in Waiting
  <2>1. pc' = [u \in Threads |-> IF u = Sched THEN SchedAfter[arrived[u]]
                                 ELSE WorkerAfter[arrived[u]]]
    BY <1>5 DEF TickBarrierSync
  <2>2. pc'[Sched] \in {"admit", "advance", "timer"}
    BY <1>3, <1>5, <2>1 DEF SchedAfter, Waiting
  <2>3. \A c \in Cpus : pc'[c] \in {"fetch", "b3", "b1"}
    BY <1>3, <1>5, <2>1 DEF WorkerAfter, Waiting
  <2>4. LabelTypes'
    <3>1. \A u \in Threads : u = Sched \/ u \in Cpus
      BY <1>3
    <3> QED
      BY <2>1, <2>2, <2>3, <3>1 DEF LabelTypes, SchedLabels, WorkerLabels
  <2>5. pc[Sched] # "admit_send" /\ held = NoProc
    BY <1>1, <1>3, <1>4, <1>5 DEF Waiting, TypeInv, LocalsOK, TypeOK, LabelTypes
  <2> QED
    BY <1>2, <2>2, <2>3, <2>4, <2>5 DEF TypeInv, TypeOK, LocalsOK
<1>6. CASE ~ \A u \in Threads : arrived[u] \in Waiting
  <2>1. pc' = arrived
    BY <1>6 DEF TickBarrierSync
  <2>2. LabelTypes'
    BY <1>4, <2>1 DEF LabelTypes
  <2>3. \A u \in Threads : \/ pc'[u] = pc[u]
                           \/ u = t /\ pc'[u] \in Waiting
    <3>1. pc \in [Threads -> SchedLabels \cup WorkerLabels]
      BY DEF TypeInv, TypeOK, LabelTypes
    <3>2. pc' = [pc EXCEPT ![t] = WaitAt[pc[t]]]
      BY <2>1
    <3> QED
      BY <1>1, <3>1, <3>2
  <2>4. LocalsOK'
    <3>1. Sched \in Threads /\ Cpus \subseteq Threads
      BY <1>3
    <3>2. /\ pc[Sched] # pc'[Sched] => /\ pc[Sched] \in {"b1", "b2", "b3"}
                                      /\ pc'[Sched] \in Waiting
          /\ \A c \in Cpus : pc[c] # pc'[c] => pc'[c] \in Waiting
      BY <1>1, <2>3, <3>1
    <3> QED
      BY <1>2, <3>2 DEF TypeInv, LocalsOK, Waiting
  <2> QED
    BY <1>2, <2>2, <2>4 DEF TypeInv, TypeOK
<1> QED
  BY <1>5, <1>6

\* What dispatch_to_cpu and release_cpu_interrupt leave behind.
LEMMA DispatchType ==
  ASSUME TypeOK, NEW c \in Cpus, DispatchToCpu(c)
  PROVE  /\ running' \in [Cpus -> Procs \cup {NoProc}]
         /\ readyQueue' \subseteq Procs
         /\ pcb' \in [Procs -> ControlBlock]
         /\ lastActive' \in [Procs -> Nat]
<1>1. CASE UNCHANGED <<running, readyQueue, processVars>>
  BY <1>1 DEF TypeOK, DataTypes, processVars
<1>2. ASSUME NEW p \in readyQueue,
             readyQueue' = readyQueue \ {p},
             running' = [running EXCEPT ![c] = p],
             pcb' = [pcb EXCEPT ![p].state = "RUNNING"],
             lastActive' = [lastActive EXCEPT ![p] = tick]
      PROVE  /\ running' \in [Cpus -> Procs \cup {NoProc}]
             /\ readyQueue' \subseteq Procs
             /\ pcb' \in [Procs -> ControlBlock]
             /\ lastActive' \in [Procs -> Nat]
  <2>1. p \in Procs /\ pcb[p] \in ControlBlock /\ "RUNNING" \in ProcessState
    BY DEF TypeOK, DataTypes, ProcessState
  <2>2. [pcb[p] EXCEPT !.state = "RUNNING"] \in ControlBlock
    BY <2>1 DEF ControlBlock
  <2> QED
    BY <1>2, <2>1, <2>2 DEF TypeOK, DataTypes
<1> QED
  BY <1>1, <1>2 DEF DispatchToCpu

LEMMA ReleaseType ==
  ASSUME TypeOK, NEW c \in Cpus, NEW p \in Procs, NEW context \in Context,
         ReleaseCpuInterrupt(c, p, context)
  PROVE  /\ running' \in [Cpus -> Procs \cup {NoProc}]
         /\ finished' \subseteq Procs
         /\ sleepQueue' \subseteq [proc : Procs, wake : Nat]
<1>1. context.arg + tick \in Nat
  BY DEF Context, TypeOK, DataTypes
<1> QED
  BY <1>1 DEF ReleaseCpuInterrupt, TypeOK, DataTypes

\* A step that moves one thread to one of its labels.
LEMMA SchedGoto ==
  ASSUME LabelTypes, NEW label \in SchedLabels, Goto(Sched, label)
  PROVE  /\ LabelTypes'
         /\ pc'[Sched] = label
         /\ \A c \in Cpus : pc'[c] = pc[c]
<1>1. NumCpu \in Nat
  BY CpuAssumption
<1>2. pc \in [Threads -> SchedLabels \cup WorkerLabels]
  BY DEF LabelTypes
<1> QED
  BY <1>1, <1>2 DEF LabelTypes, Goto

LEMMA WorkerGoto ==
  ASSUME LabelTypes, NEW c \in Cpus, NEW label \in WorkerLabels, Goto(c, label)
  PROVE  /\ LabelTypes'
         /\ pc'[Sched] = pc[Sched]
         /\ pc'[c] = label
         /\ \A d \in Cpus \ {c} : pc'[d] = pc[d]
<1>1. NumCpu \in Nat
  BY CpuAssumption
<1>2. pc \in [Threads -> SchedLabels \cup WorkerLabels]
  BY DEF LabelTypes
<1> QED
  BY <1>1, <1>2 DEF LabelTypes, Goto

-----------------------------------------------------------------------------
LEMMA TypeInit == Init => TypeInv
<1> SUFFICES ASSUME Init PROVE TypeInv
  OBVIOUS
<1>1. NumCpu \in Nat
  BY CpuAssumption
<1>2. NewBlock \in ControlBlock
  BY DEF NewBlock, ControlBlock, ProcessState
<1>3. DataTypes
  <2>1. Quantum \in 0 .. Quantum /\ Policy \in Policies
    BY ConfigAssumption DEF Quantum
  <2>2. /\ tick \in Nat /\ queuePolicy \in Policies /\ jobQueue \in Seq(Procs)
        /\ logQueue \in Seq(SUBSET Cpus)
        /\ readyQueue \subseteq Procs /\ finished \subseteq Procs
        /\ submitted \subseteq Procs
        /\ sleepQueue \subseteq [proc : Procs, wake : Nat]
    BY <2>1 DEF Init
  <2>3. /\ running \in [Cpus -> Procs \cup {NoProc}]
        /\ pcb \in [Procs -> ControlBlock] /\ lastActive \in [Procs -> Nat]
        /\ quantum \in [Cpus -> 0 .. Quantum] /\ crashed \in BOOLEAN
    BY <1>2, <2>1 DEF Init
  <2> QED
    BY <2>2, <2>3 DEF DataTypes
<1>4. LocalTypes
  BY <1>1 DEF Init, LocalTypes, Context, ProcessState
<1>5. LabelTypes
  <2>1. /\ "timer" \in SchedLabels /\ "b1" \in WorkerLabels
        /\ \A c \in Cpus : c \in Threads /\ c # Sched
        /\ Sched \in Threads
    BY <1>1 DEF SchedLabels, WorkerLabels
  <2> QED
    BY <2>1 DEF Init, LabelTypes
<1>6. LocalsOK
  BY <1>1 DEF Init, LocalsOK
<1> QED
  BY <1>3, <1>4, <1>5, <1>6 DEF TypeInv, TypeOK

\* The callers of the scheduler.
LEMMA TypeEnv ==
  ASSUME TypeInv,
         \/ \E p \in Procs : SubmitProcess(p)
         \/ \E policy \in PolicyChoices : SetSchedulingPolicy(policy)
  PROVE  TypeInv'
<1>1. ASSUME NEW p \in Procs, SubmitProcess(p) PROVE TypeInv'
  <2>1. pcb[p] \in ControlBlock /\ "NEW" \in ProcessState
    BY DEF TypeInv, TypeOK, DataTypes, ProcessState
  <2>2. [pcb[p] EXCEPT !.state = "NEW"] \in ControlBlock
    BY <2>1 DEF ControlBlock
  <2>3. DataTypes'
    BY <1>1, <2>2 DEF SubmitProcess, TypeInv, TypeOK, DataTypes, logVars
  <2> QED
    BY <1>1, <2>3 DEF SubmitProcess, TypeInv, TypeOK, LocalTypes, LabelTypes,
       LocalsOK, logVars, workerVars
<1>2. ASSUME NEW policy \in PolicyChoices, SetSchedulingPolicy(policy)
      PROVE  TypeInv'
  BY <1>2, ConfigAssumption DEF SetSchedulingPolicy, TypeInv, TypeOK, DataTypes,
     LocalTypes, LabelTypes, LocalsOK, queueVars, processVars, logVars,
     workerVars
<1> QED
  BY <1>1, <1>2

\* The worker of one CPU.
LEMMA TypeWorker ==
  ASSUME TypeInv, NEW c \in Cpus, WorkerStep(c)
  PROVE  TypeInv'
<1>1. CASE Fetch(c)
  <2> DEFINE label == IF running'[c] = NoProc THEN "b2" ELSE "exec"
  <2>1. DataTypes'
    BY <1>1, DispatchType
       DEF Fetch, TypeInv, TypeOK, DataTypes, logVars, envVars
  <2>2. LocalTypes' /\ cur'[c] = running'[c] /\ UNCHANGED <<k, held>>
    BY <1>1, <2>1 DEF Fetch, TypeInv, TypeOK, DataTypes, LocalTypes, logVars
  <2>3. \A d \in Cpus \ {c} : cur'[d] = cur[d]
    BY <1>1 DEF Fetch, TypeInv, TypeOK, LocalTypes
  <2>4. Goto(c, label) /\ label \in WorkerLabels
    BY <1>1 DEF Fetch, WorkerLabels
  <2>5. /\ LabelTypes' /\ pc'[Sched] = pc[Sched] /\ pc'[c] = label
        /\ \A d \in Cpus \ {c} : pc'[d] = pc[d]
    BY <2>4, WorkerGoto DEF TypeInv, TypeOK
  <2> QED
    BY <2>1, <2>2, <2>3, <2>5 DEF TypeInv, TypeOK, LocalsOK
<1>2. CASE Execute(c)
  <2> DEFINE r == ExecuteTick(pcb[cur[c]], Program[cur[c]], TickDelay)
             label == IF IsYielded(r.ctx) THEN "release" ELSE "b2"
  <2>1. cur[c] \in Procs /\ cur[c] # NoProc
    BY <1>2 DEF Execute, TypeInv, TypeOK, LocalTypes, LocalsOK
  <2>2. r.block \in ControlBlock /\ r.ctx \in Context
    BY <2>1, TickCases, ProcAssumption, ConfigAssumption
       DEF TypeInv, TypeOK, DataTypes
  <2>3. /\ DataTypes' /\ LocalTypes' /\ UNCHANGED <<k, held, cur>>
    BY <1>2, <2>2 DEF Execute, TypeInv, TypeOK, DataTypes, LocalTypes, queueVars,
       logVars, envVars
  <2>4. Goto(c, label) /\ label \in WorkerLabels
    BY <1>2 DEF Execute, WorkerLabels
  <2>5. /\ LabelTypes' /\ pc'[Sched] = pc[Sched] /\ pc'[c] = label
        /\ \A d \in Cpus \ {c} : pc'[d] = pc[d]
    BY <2>4, WorkerGoto DEF TypeInv, TypeOK
  <2> QED
    BY <2>1, <2>3, <2>5 DEF TypeInv, TypeOK, LocalsOK
<1>3. CASE Release(c)
  <2>1. cur[c] \in Procs /\ ctx[c] \in Context
    BY <1>3 DEF Release, TypeInv, TypeOK, LocalTypes, LocalsOK
  <2>2. ReleaseCpuInterrupt(c, cur[c], ctx[c])
    BY <1>3 DEF Release
  <2>3. /\ DataTypes' /\ LocalTypes' /\ UNCHANGED <<k, held, cur>>
    BY <1>3, <2>1, <2>2, ReleaseType DEF Release, TypeInv, TypeOK, DataTypes,
       LocalTypes, processVars, logVars, workerVars, envVars
  <2>4. Goto(c, "b2") /\ "b2" \in WorkerLabels
    BY <1>3 DEF Release, WorkerLabels
  <2>5. /\ LabelTypes' /\ pc'[Sched] = pc[Sched] /\ pc'[c] = "b2"
        /\ \A d \in Cpus \ {c} : pc'[d] = pc[d]
    BY <2>4, WorkerGoto DEF TypeInv, TypeOK
  <2> QED
    BY <2>3, <2>5 DEF TypeInv, TypeOK, LocalsOK
<1>4. CASE TickBarrierSync(c)
  <2>1. c \in Threads
    BY CpuAssumption
  <2> QED
    BY <1>4, <2>1, BarrierType
<1> QED
  BY <1>1, <1>2, <1>3, <1>4 DEF WorkerStep

\* The scheduler thread, first the steps that change no queue and no process.
LEMMA TypeControl ==
  ASSUME TypeInv,
         \/ CountQuantum \/ EndPreemptionCheck \/ EndAdmission \/ CheckReady
         \/ ScanCpu \/ EndScan \/ LogStatus \/ SnapshotCpu \/ FollowPointer
         \/ SendSnapshot \/ AdvanceTick
  PROVE  TypeInv'
<1> USE DEF TypeInv, TypeOK, LocalsOK
<1>1. /\ NumCpu \in Nat
      /\ {"preempt", "b1", "dispatch", "scan", "log", "claim", "snap", "b2",
          "deref", "b3"} \subseteq SchedLabels
  BY CpuAssumption DEF SchedLabels
<1>2. CASE CountQuantum
  <2>1. k \in Cpus /\ k + 1 \in 0 .. NumCpu
    BY <1>1, <1>2 DEF CountQuantum, LocalTypes
  <2>2. quantum' \in [Cpus -> 0 .. Quantum]
    <3>1. quantum[k] \in 0 .. Quantum /\ Quantum \in Nat
      BY <2>1, ConfigAssumption DEF DataTypes, Quantum
    <3>2. CASE running[k] = NoProc
      BY <1>2, <3>2 DEF CountQuantum, DataTypes
    <3>3. CASE running[k] # NoProc
      BY <1>2, <2>1, <3>1, <3>3 DEF CountQuantum, DataTypes
    <3> QED
      BY <3>2, <3>3
  <2> QED
    BY <1>2, <2>1, <2>2 DEF CountQuantum, DataTypes, LocalTypes, LabelTypes,
       queueVars, processVars, logVars, workerVars, envVars
<1>3. CASE EndPreemptionCheck
  <2>1. Goto(Sched, "b1")
    BY <1>3 DEF EndPreemptionCheck
  <2> QED
    BY <1>1, <1>3, <2>1, SchedGoto DEF EndPreemptionCheck, DataTypes, LocalTypes,
       queueVars, processVars, logVars, workerVars, envVars
<1>4. CASE EndAdmission
  <2>1. Goto(Sched, "dispatch")
    BY <1>4 DEF EndAdmission
  <2> QED
    BY <1>1, <1>4, <2>1, SchedGoto DEF EndAdmission, DataTypes, LocalTypes,
       queueVars, processVars, logVars, workerVars, envVars
<1>5. CASE CheckReady
  <2> DEFINE label == IF readyQueue = {} THEN "log" ELSE "scan"
  <2>1. Goto(Sched, label) /\ label \in SchedLabels /\ k' \in 0 .. NumCpu
    BY <1>1, <1>5 DEF CheckReady
  <2>2. LabelTypes' /\ pc'[Sched] = label /\ \A c \in Cpus : pc'[c] = pc[c]
    BY <2>1, SchedGoto
  <2> QED
    BY <1>5, <2>1, <2>2 DEF CheckReady, DataTypes, LocalTypes, queueVars,
       processVars, logVars, workerVars, envVars
<1>6. CASE ScanCpu
  <2>1. CASE running[k] = NoProc
    <3>1. Goto(Sched, "claim") /\ k' = k /\ k < NumCpu
      BY <1>6, <2>1 DEF ScanCpu
    <3>2. LabelTypes' /\ pc'[Sched] = "claim" /\ \A c \in Cpus : pc'[c] = pc[c]
      BY <1>1, <3>1, SchedGoto
    <3> QED
      BY <1>6, <3>1, <3>2 DEF ScanCpu, DataTypes, LocalTypes, queueVars,
         processVars, logVars, workerVars, envVars
  <2>2. CASE running[k] # NoProc
    <3>1. k' \in 0 .. NumCpu /\ UNCHANGED pc /\ pc[Sched] = "scan"
      BY <1>1, <1>6, <2>2 DEF ScanCpu, LocalTypes
    <3> QED
      BY <1>6, <3>1 DEF ScanCpu, DataTypes, LocalTypes, LabelTypes, queueVars,
         processVars, logVars, workerVars, envVars
  <2> QED
    BY <2>1, <2>2
<1>7. CASE EndScan
  <2>1. Goto(Sched, "log")
    BY <1>7 DEF EndScan
  <2> QED
    BY <1>1, <1>7, <2>1, SchedGoto DEF EndScan, DataTypes, LocalTypes,
       queueVars, processVars, logVars, workerVars, envVars
<1>8. CASE LogStatus
  <2> DEFINE label == IF SnapshotCooldown > 0 /\ tick % SnapshotCooldown = 0
                     THEN "snap" ELSE "b2"
  <2>1. Goto(Sched, label) /\ label \in SchedLabels /\ k' \in 0 .. NumCpu
    BY <1>1, <1>8 DEF LogStatus
  <2>2. /\ LabelTypes' /\ pc'[Sched] = label /\ \A c \in Cpus : pc'[c] = pc[c]
        /\ label \in {"snap", "b2"}
    BY <2>1, SchedGoto
  <2> HIDE DEF label
  <2> QED
    BY <1>8, <2>1, <2>2 DEF LogStatus, DataTypes, LocalTypes, queueVars,
       processVars, logVars, workerVars, envVars
<1>9. CASE SnapshotCpu
  <2>1. CASE running[k] # NoProc
    <3>1. Goto(Sched, "deref") /\ k' = k /\ k < NumCpu
      BY <1>9, <2>1 DEF SnapshotCpu
    <3>2. LabelTypes' /\ pc'[Sched] = "deref" /\ \A c \in Cpus : pc'[c] = pc[c]
      BY <1>1, <3>1, SchedGoto
    <3> QED
      BY <1>9, <3>1, <3>2 DEF SnapshotCpu, DataTypes, LocalTypes, queueVars,
         processVars, logVars, workerVars, envVars
  <2>2. CASE running[k] = NoProc
    <3>1. k' \in 0 .. NumCpu /\ UNCHANGED pc /\ pc[Sched] = "snap"
      BY <1>1, <1>9, <2>2 DEF SnapshotCpu, LocalTypes
    <3> QED
      BY <1>9, <3>1 DEF SnapshotCpu, DataTypes, LocalTypes, LabelTypes,
         queueVars, processVars, logVars, workerVars, envVars
  <2> QED
    BY <2>1, <2>2
<1>10. CASE FollowPointer
  <2>1. /\ Goto(Sched, "snap") /\ crashed' \in BOOLEAN
        /\ k' \in 0 .. NumCpu /\ seen' \subseteq Cpus
    BY <1>1, <1>10 DEF FollowPointer, LocalTypes
  <2>2. LabelTypes' /\ pc'[Sched] = "snap" /\ \A c \in Cpus : pc'[c] = pc[c]
    BY <1>1, <2>1, SchedGoto
  <2> QED
    BY <1>10, <2>1, <2>2 DEF FollowPointer, DataTypes, LocalTypes, queueVars,
       processVars, workerVars, envVars
<1>11. CASE SendSnapshot
  <2>1. /\ Goto(Sched, "b2") /\ logQueue' \in Seq(SUBSET Cpus) /\ seen' = {}
    BY <1>11 DEF SendSnapshot, DataTypes, LocalTypes
  <2>2. LabelTypes' /\ pc'[Sched] = "b2" /\ \A c \in Cpus : pc'[c] = pc[c]
    BY <1>1, <2>1, SchedGoto
  <2> QED
    BY <1>11, <2>1, <2>2 DEF SendSnapshot, DataTypes, LocalTypes, queueVars,
       processVars, workerVars, envVars
<1>12. CASE AdvanceTick
  <2>1. Goto(Sched, "b3") /\ tick' \in Nat
    BY <1>12 DEF AdvanceTick, DataTypes
  <2>2. LabelTypes' /\ pc'[Sched] = "b3" /\ \A c \in Cpus : pc'[c] = pc[c]
    BY <1>1, <2>1, SchedGoto
  <2> QED
    BY <1>12, <2>1, <2>2 DEF AdvanceTick, DataTypes, LocalTypes, queueVars,
       processVars, logVars, workerVars, envVars
<1> QED
  BY <1>2, <1>3, <1>4, <1>5, <1>6, <1>7, <1>8, <1>9, <1>10, <1>11, <1>12

\* Then the steps that move processes.
LEMMA TypeMove ==
  ASSUME TypeInv,
         \/ TimerCheck \/ Preempt \/ Redispatch \/ ReceiveJob \/ AdmitJob
         \/ ClaimCpu
  PROVE  TypeInv'
<1> USE DEF TypeInv, TypeOK, LocalsOK
<1>1. /\ NumCpu \in Nat
      /\ {"preempt", "b1", "redispatch", "admit", "admit_send", "scan"}
           \subseteq SchedLabels
  BY CpuAssumption DEF SchedLabels
<1>2. CASE TimerCheck
  <2> DEFINE label == IF Policy = "RR" THEN "preempt" ELSE "b1"
  <2>1. Goto(Sched, label) /\ label \in {"preempt", "b1"} /\ k' \in 0 .. NumCpu
    BY <1>1, <1>2 DEF TimerCheck
  <2>2. LabelTypes' /\ pc'[Sched] = label /\ \A c \in Cpus : pc'[c] = pc[c]
    BY <1>1, <2>1, SchedGoto
  <2>3. DueProcs \subseteq Procs
    BY DEF DueProcs, Due, DataTypes
  <2>4. \A p \in Procs : [pcb[p] EXCEPT !.state = "READY"] \in ControlBlock
    BY DEF DataTypes, ControlBlock, ProcessState
  <2>5. DataTypes'
    BY <1>2, <2>3, <2>4 DEF TimerCheck, DataTypes, Due, logVars, envVars
  <2> QED
    BY <1>2, <2>1, <2>2, <2>5 DEF TimerCheck, LocalTypes, logVars, workerVars
<1>3. CASE Preempt
  <2>1. /\ k \in Cpus /\ running[k] \in Procs
        /\ [state |-> "READY", arg |-> 0] \in Context
    BY <1>1, <1>3 DEF Preempt, LocalTypes, DataTypes, Context, ProcessState
  <2>2. /\ Goto(Sched, "redispatch")
        /\ ReleaseCpuInterrupt(k, running[k], [state |-> "READY", arg |-> 0])
    BY <1>3 DEF Preempt
  <2>3. LabelTypes' /\ pc'[Sched] = "redispatch"
        /\ \A c \in Cpus : pc'[c] = pc[c]
    BY <1>1, <2>2, SchedGoto
  <2>4. DataTypes'
    BY <1>3, <2>1, <2>2, ReleaseType
       DEF Preempt, DataTypes, processVars, logVars, envVars
  <2> QED
    BY <1>1, <1>3, <2>1, <2>3, <2>4 DEF Preempt, LocalTypes, logVars, workerVars
<1>4. ASSUME k \in Cpus, DispatchToCpu(k), k' = k + 1,
             NEW label \in {"preempt", "scan"}, Goto(Sched, label),
             pc[Sched] \in {"redispatch", "claim"},
             quantum' \in [Cpus -> 0 .. Quantum],
             UNCHANGED <<tick, jobQueue, sleepQueue, held, finished, logVars,
                         workerVars, envVars, crashed>>
      PROVE  TypeInv'
  <2>1. LabelTypes' /\ pc'[Sched] = label /\ \A c \in Cpus : pc'[c] = pc[c]
    BY <1>1, <1>4, SchedGoto
  <2>2. DataTypes'
    BY <1>4, DispatchType DEF DataTypes, logVars, envVars
  <2>3. LocalTypes'
    BY <1>1, <1>4 DEF LocalTypes, logVars, workerVars
  <2> QED
    BY <1>4, <2>1, <2>2, <2>3 DEF workerVars
<1>5. CASE Redispatch
  <2>1. k \in Cpus /\ Quantum \in 0 .. Quantum
    BY <1>1, <1>5, ConfigAssumption DEF Redispatch, LocalTypes, Quantum
  <2>2. quantum' \in [Cpus -> 0 .. Quantum]
    BY <1>5, <2>1 DEF Redispatch, DataTypes
  <2> QED
    BY <1>4, <1>5, <2>1, <2>2 DEF Redispatch
<1>6. CASE ClaimCpu
  <2>1. k \in Cpus /\ quantum' \in [Cpus -> 0 .. Quantum]
    BY <1>1, <1>6 DEF ClaimCpu, LocalTypes, DataTypes
  <2> QED
    BY <1>4, <1>6, <2>1 DEF ClaimCpu
<1>7. CASE ReceiveJob
  <2>1. /\ Head(jobQueue) \in Procs /\ Tail(jobQueue) \in Seq(Procs)
        /\ Head(jobQueue) # NoProc
    BY <1>7, ProcAssumption DEF ReceiveJob, DataTypes
  <2>2. Goto(Sched, "admit_send")
    BY <1>7 DEF ReceiveJob
  <2>3. /\ LabelTypes' /\ pc'[Sched] = "admit_send"
        /\ \A c \in Cpus : pc'[c] = pc[c]
    BY <1>1, <2>2, SchedGoto
  <2> QED
    BY <1>7, <2>1, <2>3 DEF ReceiveJob, DataTypes, LocalTypes, processVars,
       logVars, workerVars, envVars
<1>8. CASE AdmitJob
  <2>1. held \in Procs
    BY <1>8 DEF AdmitJob, LocalTypes
  <2>2. [pcb[held] EXCEPT !.state = "READY"] \in ControlBlock
    BY <2>1 DEF DataTypes, ControlBlock, ProcessState
  <2>3. Goto(Sched, "admit")
    BY <1>8 DEF AdmitJob
  <2>4. LabelTypes' /\ pc'[Sched] = "admit" /\ \A c \in Cpus : pc'[c] = pc[c]
    BY <1>1, <2>3, SchedGoto
  <2>5. DataTypes'
    BY <1>8, <2>1, <2>2 DEF AdmitJob, DataTypes, logVars, envVars
  <2> QED
    BY <1>8, <2>4, <2>5 DEF AdmitJob, LocalTypes, logVars, workerVars
<1> QED
  BY <1>2, <1>3, <1>5, <1>6, <1>7, <1>8

LEMMA TypeNext == TypeInv /\ [Next]_vars => TypeInv'
<1> SUFFICES ASSUME TypeInv, [Next]_vars PROVE TypeInv'
  OBVIOUS
<1>1. CASE UNCHANGED vars
  BY <1>1 DEF TypeInv, TypeOK, DataTypes, LocalTypes, LabelTypes, LocalsOK,
     vars, queueVars, processVars, logVars, workerVars, envVars
<1>2. CASE Step
  <2>1. CASE SchedulerStep
    <3>1. Sched \in Threads
      BY CpuAssumption
    <3> QED
      BY <2>1, <3>1, TypeControl, TypeMove, BarrierType DEF SchedulerStep
  <2> QED
    BY <1>2, <2>1, TypeEnv, TypeWorker DEF Step
<1> QED
  BY <1>1, <1>2 DEF Next, Ended

\* Every reachable state is well typed: no queue ever holds a null pointer, no
\* quantum underflows, no loop runs past the last CPU.
THEOREM TypeCorrect == Spec => []TypeOK
<1>1. TypeInv => TypeOK
  BY DEF TypeInv
<1> QED
  BY <1>1, TypeInit, TypeNext, PTL DEF Spec

-----------------------------------------------------------------------------
(***************************************************************************)
(* Lockstep is inductive: a step within a part leaves the parts alone, and *)
(* the last arrival moves all threads, which wait at the same of the three *)
(* synchronisations, into the next part together.                          *)
(***************************************************************************)

LEMMA Parts == /\ DOMAIN SchedPart = {"before", "work", "advance"}
               /\ DOMAIN SchedAfter = Waiting /\ DOMAIN WorkerAfter = Waiting
BY DEF SchedPart, SchedAfter, WorkerAfter, Waiting

\* A thread that moves within the part it is in.
LEMMA SchedMove ==
  ASSUME LabelTypes, Lockstep, NEW label \in SchedLabels, Goto(Sched, label),
         \A part \in DOMAIN SchedPart :
            pc[Sched] \in SchedPart[part] => label \in SchedPart[part]
  PROVE  Lockstep'
<1>1. pc'[Sched] = label /\ \A c \in Cpus : pc'[c] = pc[c]
  BY SchedGoto
<1> QED
  BY <1>1 DEF Lockstep

LEMMA WorkerMove ==
  ASSUME LabelTypes, Lockstep, NEW c \in Cpus, NEW label \in WorkerLabels,
         Goto(c, label),
         \A part \in DOMAIN SchedPart :
            pc[c] \in WorkerPart[part] => label \in WorkerPart[part]
  PROVE  Lockstep'
<1>1. /\ pc'[Sched] = pc[Sched] /\ pc'[c] = label
      /\ \A d \in Cpus \ {c} : pc'[d] = pc[d]
  BY WorkerGoto
<1> QED
  BY <1>1 DEF Lockstep

LEMMA BarrierLockstep ==
  ASSUME TypeInv, Lockstep, NEW t \in Threads, TickBarrierSync(t)
  PROVE  Lockstep'
<1> DEFINE arrived == [pc EXCEPT ![t] = WaitAt[@]]
<1>1. NumCpu \in Nat
  BY CpuAssumption
<1>2. /\ pc \in [Threads -> SchedLabels \cup WorkerLabels]
      /\ pc[t] \in {"b1", "b2", "b3"}
  BY DEF TypeInv, TypeOK, LabelTypes, TickBarrierSync, WaitAt
<1>3. PICK part \in DOMAIN SchedPart :
        /\ pc[Sched] \in SchedPart[part]
        /\ \A c \in Cpus : pc[c] \in WorkerPart[part]
  BY DEF Lockstep
<1>4. /\ arrived[Sched] \in SchedPart[part]
      /\ \A c \in Cpus : arrived[c] \in WorkerPart[part]
  <2>1. /\ Sched \in Threads /\ Cpus \subseteq Threads /\ Sched \notin Cpus
        /\ \A u \in Threads \ {t} : arrived[u] = pc[u]
        /\ arrived[t] = WaitAt[pc[t]]
    BY <1>1, <1>2
  <2>2. \A l \in {"b1", "b2", "b3"} :
          /\ l \in SchedPart[part] => WaitAt[l] \in SchedPart[part]
          /\ l \in WorkerPart[part] => WaitAt[l] \in WorkerPart[part]
    BY <1>3, Parts DEF SchedPart, WorkerPart, WaitAt
  <2> QED
    BY <1>2, <1>3, <2>1, <2>2
<1>5. CASE \A u \in Threads : arrived[u] \in Waiting
  <2>1. pc' = [u \in Threads |-> IF u = Sched THEN SchedAfter[arrived[u]]
                                 ELSE WorkerAfter[arrived[u]]]
    BY <1>5 DEF TickBarrierSync
  <2>2. /\ pc'[Sched] = SchedAfter[arrived[Sched]]
        /\ \A c \in Cpus : pc'[c] = WorkerAfter[arrived[c]]
        /\ arrived[Sched] \in Waiting
        /\ \A c \in Cpus : arrived[c] \in Waiting
    BY <1>1, <1>5, <2>1
  <2>3. CASE part = "before"
    <3>1. arrived[Sched] = "b1w" /\ \A c \in Cpus : arrived[c] = "b1w"
      BY <1>4, <2>2, <2>3 DEF SchedPart, WorkerPart, Waiting
    <3>2. pc'[Sched] = "admit" /\ \A c \in Cpus : pc'[c] = "fetch"
      BY <2>2, <3>1 DEF SchedAfter, WorkerAfter
    <3>3. "admit" \in SchedPart["work"] /\ "fetch" \in WorkerPart["work"]
      BY DEF SchedPart, WorkerPart
    <3> QED
      BY <3>2, <3>3, Parts DEF Lockstep
  <2>4. CASE part = "work"
    <3>1. arrived[Sched] = "b2w" /\ \A c \in Cpus : arrived[c] = "b2w"
      BY <1>4, <2>2, <2>4 DEF SchedPart, WorkerPart, Waiting
    <3>2. pc'[Sched] = "advance" /\ \A c \in Cpus : pc'[c] = "b3"
      BY <2>2, <3>1 DEF SchedAfter, WorkerAfter
    <3>3. "advance" \in SchedPart["advance"] /\ "b3" \in WorkerPart["advance"]
      BY DEF SchedPart, WorkerPart
    <3> QED
      BY <3>2, <3>3, Parts DEF Lockstep
  <2>5. CASE part = "advance"
    <3>1. arrived[Sched] = "b3w" /\ \A c \in Cpus : arrived[c] = "b3w"
      BY <1>4, <2>2, <2>5 DEF SchedPart, WorkerPart, Waiting
    <3>2. pc'[Sched] = "timer" /\ \A c \in Cpus : pc'[c] = "b1"
      BY <2>2, <3>1 DEF SchedAfter, WorkerAfter
    <3>3. "timer" \in SchedPart["before"] /\ "b1" \in WorkerPart["before"]
      BY DEF SchedPart, WorkerPart
    <3> QED
      BY <3>2, <3>3, Parts DEF Lockstep
  <2> QED
    BY <1>3, <2>3, <2>4, <2>5, Parts
<1>6. CASE ~ \A u \in Threads : arrived[u] \in Waiting
  <2>1. pc' = arrived
    BY <1>6 DEF TickBarrierSync
  <2> QED
    BY <1>3, <1>4, <2>1 DEF Lockstep
<1> QED
  BY <1>5, <1>6

LEMMA LockstepInit == Init => Lockstep
<1> SUFFICES ASSUME Init PROVE Lockstep
  OBVIOUS
<1>1. pc[Sched] = "timer" /\ \A c \in Cpus : pc[c] = "b1"
  BY CpuAssumption DEF Init
<1>2. "timer" \in SchedPart["before"] /\ "b1" \in WorkerPart["before"]
  BY DEF SchedPart, WorkerPart
<1> QED
  BY <1>1, <1>2, Parts DEF Lockstep

LEMMA LockstepNext == TypeInv /\ Lockstep /\ [Next]_vars => Lockstep'
<1> SUFFICES ASSUME TypeInv, Lockstep, [Next]_vars PROVE Lockstep'
  OBVIOUS
<1>1. LabelTypes
  BY DEF TypeInv, TypeOK
<1>2. CASE UNCHANGED pc
  BY <1>2 DEF Lockstep
<1>3. CASE SchedulerStep
  <2>1. CASE TickBarrierSync(Sched)
    BY <2>1, BarrierLockstep, CpuAssumption
  <2>2. CASE \/ TimerCheck \/ CountQuantum \/ Preempt \/ Redispatch
             \/ EndPreemptionCheck
    <3>1. CASE CountQuantum
      BY <1>2, <3>1 DEF CountQuantum
    <3>2. CASE \/ TimerCheck \/ Preempt \/ Redispatch \/ EndPreemptionCheck
      <4>1. PICK label \in {"preempt", "b1", "redispatch"} : Goto(Sched, label)
        BY <3>2 DEF TimerCheck, Preempt, Redispatch, EndPreemptionCheck
      <4>2. pc[Sched] \in {"timer", "preempt", "redispatch"}
        BY <3>2 DEF TimerCheck, Preempt, Redispatch, EndPreemptionCheck
      <4> QED
        BY <1>1, <4>1, <4>2, SchedMove, Parts DEF SchedPart, SchedLabels
    <3> QED
      BY <2>2, <3>1, <3>2
  <2>3. CASE \/ ReceiveJob \/ AdmitJob \/ EndAdmission \/ CheckReady \/ ScanCpu
             \/ ClaimCpu \/ EndScan \/ LogStatus \/ SnapshotCpu
             \/ FollowPointer \/ SendSnapshot
    <3> DEFINE labels == {"admit", "admit_send", "dispatch", "scan", "claim",
                          "log", "snap", "deref", "b2"}
    <3>1. pc[Sched] \in labels
      BY <2>3 DEF ReceiveJob, AdmitJob, EndAdmission, CheckReady, ScanCpu,
         ClaimCpu, EndScan, LogStatus, SnapshotCpu, FollowPointer, SendSnapshot
    <3>2. UNCHANGED pc \/ \E label \in labels : Goto(Sched, label)
      BY <2>3 DEF ReceiveJob, AdmitJob, EndAdmission, CheckReady, ScanCpu,
         ClaimCpu, EndScan, LogStatus, SnapshotCpu, FollowPointer, SendSnapshot
    <3>3. ASSUME NEW label \in labels, Goto(Sched, label) PROVE Lockstep'
      BY <1>1, <3>1, <3>3, SchedMove, Parts DEF SchedPart, SchedLabels
    <3> QED
      BY <1>2, <3>2, <3>3
  <2>4. CASE AdvanceTick
    <3>1. Goto(Sched, "b3") /\ pc[Sched] = "advance"
      BY <2>4 DEF AdvanceTick
    <3> QED
      BY <1>1, <3>1, SchedMove, Parts DEF SchedPart, SchedLabels
  <2> QED
    BY <1>3, <2>1, <2>2, <2>3, <2>4 DEF SchedulerStep
<1>4. ASSUME NEW c \in Cpus, WorkerStep(c) PROVE Lockstep'
  <2>1. CASE TickBarrierSync(c)
    BY <2>1, BarrierLockstep, CpuAssumption
  <2>2. CASE Fetch(c) \/ Execute(c) \/ Release(c)
    <3>1. PICK label \in {"b2", "exec", "release"} : Goto(c, label)
      BY <2>2 DEF Fetch, Execute, Release
    <3>2. pc[c] \in {"fetch", "exec", "release"}
      BY <2>2 DEF Fetch, Execute, Release
    <3> QED
      BY <1>1, <3>1, <3>2, WorkerMove, Parts DEF WorkerPart, WorkerLabels
  <2> QED
    BY <1>4, <2>1, <2>2 DEF WorkerStep
<1> QED
  BY <1>2, <1>3, <1>4 DEF Next, Step, Ended, vars, SubmitProcess,
     SetSchedulingPolicy

\* The scheduler thread and all the workers are in the same part of the same
\* tick, whatever the number of CPUs: timer_check, preemption_check and the
\* increment of tick_ never run beside a worker's work.
THEOREM LockstepCorrect == Spec => []Lockstep
BY TypeInit, TypeNext, LockstepInit, LockstepNext, PTL DEF Spec

-----------------------------------------------------------------------------
(***************************************************************************)
(* A worker owns the process it executes.  Preemption happens in another   *)
(* part of the tick, and what the scheduler thread does in this one keeps  *)
(* a CPU that has a process.                                               *)
(***************************************************************************)

LEMMA WorkWindow ==
  ASSUME Lockstep, NEW c \in Cpus, pc[c] \in {"fetch", "exec", "release"}
  PROVE  pc[Sched] \in SchedPart["work"]
BY Parts DEF Lockstep, WorkerPart

\* No barrier lets a worker go to where it would use a process.
LEMMA BarrierLabels ==
  ASSUME TypeInv, NEW t \in Threads, TickBarrierSync(t), NEW c \in Cpus,
         pc'[c] \in {"exec", "release"}
  PROVE  pc'[c] = pc[c]
<1> DEFINE arrived == [pc EXCEPT ![t] = WaitAt[@]]
<1>1. /\ NumCpu \in Nat /\ c \in Threads /\ c # Sched
      /\ pc \in [Threads -> SchedLabels \cup WorkerLabels]
  BY CpuAssumption DEF TypeInv, TypeOK, LabelTypes
<1>2. pc[t] \in {"b1", "b2", "b3"} /\ WaitAt[pc[t]] \in Waiting
  BY DEF TickBarrierSync, WaitAt, Waiting
<1>3. CASE \A u \in Threads : arrived[u] \in Waiting
  <2>1. pc'[c] = WorkerAfter[arrived[c]] /\ arrived[c] \in Waiting
    BY <1>1, <1>3 DEF TickBarrierSync
  <2>2. pc'[c] \in {"fetch", "b3", "b1"}
    BY <2>1 DEF WorkerAfter, Waiting
  <2> QED
    BY <2>2
<1>4. CASE ~ \A u \in Threads : arrived[u] \in Waiting
  <2>1. pc' = arrived
    BY <1>4 DEF TickBarrierSync
  <2>2. CASE c = t
    BY <1>1, <1>2, <2>1, <2>2 DEF Waiting
  <2>3. CASE c # t
    BY <1>1, <2>1, <2>3
  <2> QED
    BY <2>2, <2>3
<1> QED
  BY <1>3, <1>4

LEMMA OwnershipNext ==
  TypeInv /\ Lockstep /\ WorkerOwnsProcess /\ [Next]_vars => WorkerOwnsProcess'
<1> SUFFICES ASSUME TypeInv, Lockstep, WorkerOwnsProcess, [Next]_vars,
                    NEW c \in Cpus, pc'[c] \in {"exec", "release"}
             PROVE  cur'[c] # NoProc /\ running'[c] = cur'[c]
  BY DEF WorkerOwnsProcess
<1> DEFINE Goal == cur'[c] # NoProc /\ running'[c] = cur'[c]
<1>1. /\ LabelTypes
      /\ running \in [Cpus -> Procs \cup {NoProc}]
      /\ cur \in [Cpus -> Procs \cup {NoProc}]
  BY DEF TypeInv, TypeOK, DataTypes, LocalTypes
<1>2. ASSUME pc'[c] = pc[c], UNCHANGED cur,
             running'[c] = running[c] \/ running[c] = NoProc
      PROVE  Goal
  BY <1>2 DEF WorkerOwnsProcess
<1>3. ASSUME NEW t \in Threads, TickBarrierSync(t) PROVE Goal
  <2>1. pc'[c] = pc[c]
    BY <1>3, BarrierLabels
  <2> QED
    BY <1>2, <1>3, <2>1 DEF TickBarrierSync, workerVars
<1>4. CASE SchedulerStep
  <2>1. CASE TickBarrierSync(Sched)
    BY <1>3, <2>1, CpuAssumption
  <2>2. CASE ~TickBarrierSync(Sched)
    <3>1. UNCHANGED cur
      BY <1>4, <2>2 DEF SchedulerStep, TimerCheck, CountQuantum, Preempt,
         Redispatch, EndPreemptionCheck, ReceiveJob, AdmitJob, EndAdmission,
         CheckReady, ScanCpu, ClaimCpu, EndScan, LogStatus, SnapshotCpu,
         FollowPointer, SendSnapshot, AdvanceTick, workerVars
    <3>2. UNCHANGED pc \/ \E label \in SchedLabels : Goto(Sched, label)
      BY <1>4, <2>2 DEF SchedulerStep, TimerCheck, CountQuantum, Preempt,
         Redispatch, EndPreemptionCheck, ReceiveJob, AdmitJob, EndAdmission,
         CheckReady, ScanCpu, ClaimCpu, EndScan, LogStatus, SnapshotCpu,
         FollowPointer, SendSnapshot, AdvanceTick, SchedLabels
    <3>3. pc'[c] = pc[c]
      BY <1>1, <3>2, SchedGoto
    <3>4. pc[Sched] \in SchedPart["work"]
      BY <3>3, WorkWindow
    <3>5. UNCHANGED running \/ ClaimCpu
      BY <1>4, <2>2, <3>4 DEF SchedulerStep, TimerCheck, CountQuantum, Preempt,
         Redispatch, EndPreemptionCheck, ReceiveJob, AdmitJob, EndAdmission,
         CheckReady, ScanCpu, EndScan, LogStatus, SnapshotCpu, FollowPointer,
         SendSnapshot, AdvanceTick, SchedPart
    <3>6. running'[c] = running[c] \/ running[c] = NoProc
      BY <1>1, <3>5 DEF ClaimCpu, DispatchToCpu
    <3> QED
      BY <1>2, <3>1, <3>3, <3>6
  <2> QED
    BY <2>1, <2>2
<1>5. ASSUME NEW d \in Cpus, WorkerStep(d) PROVE Goal
  <2>1. CASE TickBarrierSync(d)
    BY <1>3, <2>1, CpuAssumption
  <2>2. CASE d # c /\ ~TickBarrierSync(d)
    <3>1. cur'[c] = cur[c] /\ running'[c] = running[c]
      BY <1>1, <1>5, <2>2 DEF WorkerStep, Fetch, Execute, Release, workerVars,
         DispatchToCpu, ReleaseCpuInterrupt
    <3>2. \E label \in WorkerLabels : Goto(d, label)
      BY <1>5, <2>2 DEF WorkerStep, Fetch, Execute, Release, WorkerLabels
    <3>3. pc'[c] = pc[c]
      BY <1>1, <2>2, <3>2, WorkerGoto
    <3> QED
      BY <3>1, <3>3 DEF WorkerOwnsProcess
  <2>3. CASE d = c /\ Fetch(c)
    <3>1. Goto(c, IF running'[c] = NoProc THEN "b2" ELSE "exec")
      BY <2>3 DEF Fetch
    <3>2. pc'[c] = IF running'[c] = NoProc THEN "b2" ELSE "exec"
      BY <1>1, <3>1, WorkerGoto DEF WorkerLabels
    <3> QED
      BY <1>1, <2>3, <3>2 DEF Fetch
  <2>4. CASE d = c /\ Execute(c)
    BY <2>4 DEF Execute, WorkerOwnsProcess
  <2>5. CASE d = c /\ Release(c)
    <3>1. pc'[c] = "b2"
      BY <1>1, <2>5, WorkerGoto DEF Release, WorkerLabels
    <3> QED
      BY <3>1
  <2> QED
    BY <1>5, <2>1, <2>2, <2>3, <2>4, <2>5 DEF WorkerStep
<1>6. CASE UNCHANGED <<pc, cur, running>>
  BY <1>2, <1>6
<1> QED
  BY <1>4, <1>5, <1>6 DEF Next, Step, Ended, vars, SubmitProcess,
     SetSchedulingPolicy, workerVars

\* The process dispatch_to_cpu gave a worker stays in running_ until that worker
\* releases it, although the scheduler thread dispatches at the same time.
THEOREM OwnershipCorrect == Spec => []WorkerOwnsProcess
<1>1. Init => WorkerOwnsProcess
  BY CpuAssumption DEF Init, WorkerOwnsProcess
<1> QED
  BY <1>1, TypeInit, TypeNext, LockstepInit, LockstepNext, OwnershipNext, PTL
     DEF Spec

-----------------------------------------------------------------------------
(***************************************************************************)
(* Conservation: one lemma per way a process changes place.                *)
(***************************************************************************)

LEMMA ConservationSubmit ==
  ASSUME TypeInv, Conservation, NEW p \in Procs, SubmitProcess(p)
  PROVE  Conservation'
<1>1. /\ p \notin submitted /\ submitted' = submitted \cup {p}
      /\ jobQueue' = Append(jobQueue, p) /\ jobQueue \in Seq(Procs)
      /\ UNCHANGED <<readyQueue, sleepQueue, held, finished, running>>
  BY DEF SubmitProcess, TypeInv, TypeOK, DataTypes
<1>2. /\ DOMAIN jobQueue = 1 .. Len(jobQueue) /\ Len(jobQueue) \in Nat
      /\ DOMAIN jobQueue' = 1 .. Len(jobQueue) + 1
      /\ \A i \in DOMAIN jobQueue : jobQueue'[i] = jobQueue[i]
      /\ jobQueue'[Len(jobQueue) + 1] = p
  BY <1>1
<1>3. Jobs' = Jobs \cup {p} /\ p \notin Jobs
  BY <1>1, <1>2 DEF Jobs, Conservation
<1>4. \A i, j \in DOMAIN jobQueue' : jobQueue'[i] = jobQueue'[j] => i = j
  BY <1>1, <1>2, <1>3 DEF Jobs, Conservation
<1>5. UNCHANGED <<InTransit, OnCpu, Asleep>>
  BY <1>1 DEF InTransit, OnCpu, Asleep
<1> QED
  BY <1>1, <1>3, <1>4, <1>5 DEF Conservation

LEMMA ConservationTimer ==
  ASSUME TypeInv, Conservation, TimerCheck
  PROVE  Conservation'
<1>1. /\ sleepQueue' = sleepQueue \ Due /\ readyQueue' = readyQueue \cup DueProcs
      /\ UNCHANGED <<jobQueue, held, finished, running, submitted>>
  BY DEF TimerCheck, envVars
<1>2. DueProcs \subseteq Asleep /\ Asleep' = Asleep \ DueProcs
  BY <1>1 DEF DueProcs, Due, Asleep, Conservation
<1>3. UNCHANGED <<Jobs, InTransit, OnCpu>>
  BY <1>1 DEF Jobs, InTransit, OnCpu
<1> QED
  BY <1>1, <1>2, <1>3 DEF Conservation

LEMMA ConservationDispatch ==
  ASSUME TypeInv, Conservation, NEW c \in Cpus, DispatchToCpu(c),
         UNCHANGED <<jobQueue, held, sleepQueue, finished, submitted>>
  PROVE  Conservation'
<1>1. CASE UNCHANGED <<running, readyQueue>>
  BY <1>1 DEF Conservation, Jobs, InTransit, OnCpu, Asleep
<1>2. ASSUME NEW p \in readyQueue, running[c] = NoProc,
             readyQueue' = readyQueue \ {p},
             running' = [running EXCEPT ![c] = p]
      PROVE  Conservation'
  <2>1. running \in [Cpus -> Procs \cup {NoProc}] /\ p # NoProc
    BY ProcAssumption DEF TypeInv, TypeOK, DataTypes
  <2>2. running'[c] = p /\ \A d \in Cpus \ {c} : running'[d] = running[d]
    BY <1>2, <2>1
  <2>3. OnCpu' = OnCpu \cup {p}
    BY <1>2, <2>1, <2>2 DEF OnCpu
  <2>4. p \notin OnCpu
    BY DEF Conservation
  <2>5. \A d, e \in Cpus :
           running'[d] = running'[e] /\ running'[d] # NoProc => d = e
    BY <2>1, <2>2, <2>4 DEF OnCpu, Conservation
  <2>6. UNCHANGED <<Jobs, InTransit, Asleep>>
    BY DEF Jobs, InTransit, Asleep
  <2> QED
    BY <1>2, <2>3, <2>5, <2>6 DEF Conservation
<1> QED
  BY <1>1, <1>2 DEF DispatchToCpu

LEMMA ConservationRelease ==
  ASSUME TypeInv, Conservation, NEW c \in Cpus, running[c] # NoProc,
         NEW context, ReleaseCpuInterrupt(c, running[c], context),
         UNCHANGED <<jobQueue, held, readyQueue, submitted>>
  PROVE  Conservation'
<1> DEFINE p == running[c]
           entry == [proc |-> p, wake |-> context.arg + tick]
<1>1. running \in [Cpus -> Procs \cup {NoProc}]
  BY DEF TypeInv, TypeOK, DataTypes
<1>2. UNCHANGED <<Jobs, InTransit>>
  BY DEF Jobs, InTransit
<1>3. ASSUME running' = [running EXCEPT ![c] = NoProc]
      PROVE  /\ OnCpu' = OnCpu \ {p} /\ p \in OnCpu
             /\ \A d, e \in Cpus :
                  running'[d] = running'[e] /\ running'[d] # NoProc => d = e
  BY <1>1, <1>3 DEF OnCpu, Conservation
<1>4. CASE UNCHANGED <<running, finished, sleepQueue>>
  BY <1>2, <1>4 DEF Conservation, OnCpu, Asleep
<1>5. CASE /\ running' = [running EXCEPT ![c] = NoProc]
           /\ finished' = finished \cup {p} /\ UNCHANGED sleepQueue
  <2>1. UNCHANGED Asleep
    BY <1>5 DEF Asleep
  <2> QED
    BY <1>2, <1>3, <1>5, <2>1 DEF Conservation
<1>6. CASE /\ running' = [running EXCEPT ![c] = NoProc]
           /\ sleepQueue' = sleepQueue \cup {entry} /\ UNCHANGED finished
  <2>1. Asleep' = Asleep \cup {p} /\ p \notin Asleep
    <3>1. p \notin Asleep
      BY <1>3, <1>6 DEF Conservation
    <3>2. entry.proc = p
      OBVIOUS
    <3> HIDE DEF entry, p
    <3>3. Asleep' = Asleep \cup {p}
      BY <1>6, <3>2 DEF Asleep
    <3> QED
      BY <3>1, <3>3
  <2>2. \A e, f \in sleepQueue' : e.proc = f.proc => e = f
    BY <1>6, <2>1 DEF Asleep, Conservation
  <2> QED
    BY <1>2, <1>3, <1>6, <2>1, <2>2 DEF Conservation
<1> QED
  BY <1>4, <1>5, <1>6 DEF ReleaseCpuInterrupt

LEMMA ConservationAdmission ==
  ASSUME TypeInv, Conservation, ReceiveJob \/ AdmitJob
  PROVE  Conservation'
<1>1. CASE ReceiveJob
  <2>1. /\ held = NoProc /\ held' = Head(jobQueue) /\ jobQueue' = Tail(jobQueue)
        /\ jobQueue \in Seq(Procs) /\ jobQueue # <<>>
        /\ UNCHANGED <<readyQueue, sleepQueue, finished, running, submitted>>
    BY <1>1 DEF ReceiveJob, TypeInv, TypeOK, DataTypes, LocalsOK, envVars
  <2>2. /\ Len(jobQueue) \in Nat \ {0}
        /\ DOMAIN jobQueue = 1 .. Len(jobQueue)
        /\ DOMAIN jobQueue' = 1 .. Len(jobQueue) - 1
        /\ \A i \in DOMAIN jobQueue' : jobQueue'[i] = jobQueue[i + 1]
        /\ held' = jobQueue[1]
    BY <2>1
  <2>3. held' \in Procs /\ held' # NoProc
    BY <2>1, <2>2, ProcAssumption
  <2>4. \A i \in DOMAIN jobQueue \ {1} : jobQueue'[i - 1] = jobQueue[i]
    BY <2>2
  <2>5. Jobs' \subseteq Jobs /\ held' \in Jobs
    BY <2>2 DEF Jobs
  <2>6. \A i \in DOMAIN jobQueue \ {1} : i - 1 \in DOMAIN jobQueue'
    BY <2>2
  <2>7. Jobs \subseteq Jobs' \cup {held'}
    BY <2>2, <2>4, <2>6 DEF Jobs
  <2>8. held' \notin Jobs'
    BY <2>2 DEF Jobs, Conservation
  <2>9. \A i, j \in DOMAIN jobQueue' : jobQueue'[i] = jobQueue'[j] => i = j
    BY <2>2 DEF Conservation
  <2>10. InTransit = {} /\ InTransit' = {held'}
    BY <2>1, <2>3 DEF InTransit
  <2>11. UNCHANGED <<OnCpu, Asleep>>
    BY <2>1 DEF OnCpu, Asleep
  <2> QED
    BY <2>1, <2>5, <2>7, <2>8, <2>9, <2>10, <2>11 DEF Conservation
<1>2. CASE AdmitJob
  <2>1. /\ held # NoProc /\ held' = NoProc /\ readyQueue' = readyQueue \cup {held}
        /\ UNCHANGED <<jobQueue, sleepQueue, finished, running, submitted>>
    BY <1>2 DEF AdmitJob, TypeInv, LocalsOK, envVars
  <2>2. InTransit = {held} /\ InTransit' = {}
    BY <2>1 DEF InTransit
  <2>3. UNCHANGED <<Jobs, OnCpu, Asleep>>
    BY <2>1 DEF Jobs, OnCpu, Asleep
  <2> QED
    BY <2>1, <2>2, <2>3 DEF Conservation
<1> QED
  BY <1>1, <1>2

LEMMA ConservationNext ==
  TypeInv /\ WorkerOwnsProcess /\ Conservation /\ [Next]_vars => Conservation'
<1> SUFFICES ASSUME TypeInv, WorkerOwnsProcess, Conservation, [Next]_vars
             PROVE  Conservation'
  OBVIOUS
<1>1. CASE UNCHANGED <<jobQueue, held, readyQueue, running, sleepQueue, finished,
                       submitted>>
  BY <1>1 DEF Conservation, Jobs, InTransit, OnCpu, Asleep
<1>2. ASSUME NEW t \in Threads, TickBarrierSync(t) PROVE Conservation'
  BY <1>1, <1>2 DEF TickBarrierSync, queueVars, envVars
<1>3. CASE SchedulerStep
  <2>1. CASE TickBarrierSync(Sched)
    BY <1>2, <2>1, CpuAssumption
  <2>2. CASE Preempt
    <3>1. k \in Cpus
      BY <2>2, CpuAssumption DEF Preempt, TypeInv, TypeOK, LocalTypes
    <3> QED
      BY <2>2, <3>1, ConservationRelease DEF Preempt, envVars
  <2>3. CASE Redispatch \/ ClaimCpu
    <3>1. k \in Cpus
      BY <2>3, CpuAssumption
         DEF Redispatch, ClaimCpu, TypeInv, TypeOK, LocalTypes, LocalsOK
    <3> QED
      BY <2>3, <3>1, ConservationDispatch DEF Redispatch, ClaimCpu, envVars
  <2>4. CASE \/ CountQuantum \/ EndPreemptionCheck \/ EndAdmission \/ CheckReady
             \/ ScanCpu \/ EndScan \/ LogStatus \/ SnapshotCpu \/ FollowPointer
             \/ SendSnapshot \/ AdvanceTick
    BY <1>1, <2>4 DEF CountQuantum, EndPreemptionCheck, EndAdmission, CheckReady,
       ScanCpu, EndScan, LogStatus, SnapshotCpu, FollowPointer, SendSnapshot,
       AdvanceTick, queueVars, envVars
  <2> QED
    BY <1>3, <2>1, <2>2, <2>3, <2>4, ConservationTimer, ConservationAdmission
       DEF SchedulerStep
<1>4. ASSUME NEW c \in Cpus, WorkerStep(c) PROVE Conservation'
  <2>1. CASE TickBarrierSync(c)
    BY <1>2, <2>1, CpuAssumption
  <2>2. CASE Fetch(c)
    BY <2>2, ConservationDispatch DEF Fetch, envVars
  <2>3. CASE Execute(c)
    BY <1>1, <2>3 DEF Execute, queueVars, envVars
  <2>4. CASE Release(c)
    <3>1. cur[c] = running[c] /\ running[c] # NoProc
      BY <2>4 DEF Release, WorkerOwnsProcess
    <3> QED
      BY <2>4, <3>1, ConservationRelease DEF Release, envVars
  <2> QED
    BY <1>4, <2>1, <2>2, <2>3, <2>4 DEF WorkerStep
<1> QED
  BY <1>1, <1>3, <1>4, ConservationSubmit DEF Next, Step, Ended, vars, queueVars,
     envVars, SetSchedulingPolicy

\* No process is lost or duplicated: every submitted process is in exactly one
\* of job queue, admission, ready queue, CPUs, timer queue and finished map.
THEOREM ConservationCorrect == Spec => []Conservation
<1>1. Init => WorkerOwnsProcess
  BY CpuAssumption DEF Init, WorkerOwnsProcess
<1>2. Init => Conservation
  BY DEF Init, Conservation, Jobs, InTransit, OnCpu, Asleep
<1> QED
  BY <1>1, <1>2, TypeInit, TypeNext, LockstepInit, LockstepNext, OwnershipNext,
     ConservationNext, PTL DEF Spec

-----------------------------------------------------------------------------
(***************************************************************************)
(* What builds on these: the state of a process agrees with the queue that *)
(* holds it, no sleeper is late, no CPU idles beside a ready process, and  *)
(* the scheduler implements ProcessLifecycle.                              *)
(***************************************************************************)

-----------------------------------------------------------------------------
(***************************************************************************)
(* What each step leaves alone.                                            *)
(***************************************************************************)

LEMMA PlacesAreProcs ==
  ASSUME TypeInv
  PROVE  /\ Jobs \subseteq Procs /\ InTransit \subseteq Procs
         /\ readyQueue \subseteq Procs /\ OnCpu \subseteq Procs
         /\ Asleep \subseteq Procs /\ finished \subseteq Procs
BY DEF TypeInv, TypeOK, DataTypes, LocalTypes, Jobs, InTransit, OnCpu, Asleep

LEMMA StateUpdate ==
  ASSUME TypeInv, NEW p \in Procs, NEW s \in ProcessState,
         pcb' = [pcb EXCEPT ![p].state = s]
  PROVE  \A q \in Procs : /\ pcb'[q].state = IF q = p THEN s ELSE pcb[q].state
                          /\ pcb'[q].pc = pcb[q].pc
                          /\ pcb'[q].sleep = pcb[q].sleep
BY DEF TypeInv, TypeOK, DataTypes, ControlBlock

\* Neither a barrier nor the scheduler thread moves a worker that is at work, nor
\* does one worker another.
LEMMA BarrierKeeps ==
  ASSUME TypeInv, NEW t \in Threads, TickBarrierSync(t), NEW u \in Threads,
         pc[u] \notin {"b1", "b2", "b3"} \cup Waiting
  PROVE  pc'[u] = pc[u]
<1> DEFINE arrived == [pc EXCEPT ![t] = WaitAt[@]]
<1>1. /\ pc \in [Threads -> SchedLabels \cup WorkerLabels]
      /\ pc[t] \in {"b1", "b2", "b3"}
  BY DEF TypeInv, TypeOK, LabelTypes, TickBarrierSync, WaitAt
<1>2. u # t /\ arrived[u] = pc[u]
  BY <1>1
<1>3. pc' = arrived
  BY <1>2 DEF TickBarrierSync
<1> QED
  BY <1>2, <1>3

SchedulerAction ==
  \/ TimerCheck \/ CountQuantum \/ Preempt \/ Redispatch \/ EndPreemptionCheck
  \/ ReceiveJob \/ AdmitJob \/ EndAdmission
  \/ CheckReady \/ ScanCpu \/ ClaimCpu \/ EndScan
  \/ LogStatus \/ SnapshotCpu \/ FollowPointer \/ SendSnapshot
  \/ AdvanceTick

LEMMA SchedulerKeepsWorkers ==
  ASSUME TypeInv, SchedulerAction
  PROVE  UNCHANGED <<cur, ctx>> /\ \A c \in Cpus : pc'[c] = pc[c]
<1>1. UNCHANGED <<cur, ctx>>
  BY DEF SchedulerAction, TimerCheck, CountQuantum, Preempt, Redispatch,
     EndPreemptionCheck, ReceiveJob, AdmitJob, EndAdmission, CheckReady, ScanCpu,
     ClaimCpu, EndScan, LogStatus, SnapshotCpu, FollowPointer, SendSnapshot,
     AdvanceTick, workerVars
<1>2. UNCHANGED pc \/ \E label \in SchedLabels : Goto(Sched, label)
  BY DEF SchedulerAction, TimerCheck, CountQuantum, Preempt, Redispatch,
     EndPreemptionCheck, ReceiveJob, AdmitJob, EndAdmission, CheckReady, ScanCpu,
     ClaimCpu, EndScan, LogStatus, SnapshotCpu, FollowPointer, SendSnapshot,
     AdvanceTick, SchedLabels
<1> QED
  BY <1>1, <1>2, SchedGoto DEF TypeInv, TypeOK

LEMMA WorkerKeepsOthers ==
  ASSUME TypeInv, NEW c \in Cpus, Fetch(c) \/ Execute(c) \/ Release(c)
  PROVE  /\ pc'[Sched] = pc[Sched]
         /\ pc'[c] \in {"b2", "exec", "release"}
         /\ \A d \in Cpus \ {c} : /\ pc'[d] = pc[d] /\ cur'[d] = cur[d]
                                  /\ ctx'[d] = ctx[d] /\ running'[d] = running[d]
<1>1. PICK label \in {"b2", "exec", "release"} : Goto(c, label)
  BY DEF Fetch, Execute, Release
<1>2. /\ pc'[Sched] = pc[Sched] /\ pc'[c] = label
      /\ \A d \in Cpus \ {c} : pc'[d] = pc[d]
  BY <1>1, WorkerGoto DEF WorkerLabels, TypeInv, TypeOK
<1>3. /\ cur \in [Cpus -> Procs \cup {NoProc}] /\ ctx \in [Cpus -> Context]
      /\ running \in [Cpus -> Procs \cup {NoProc}]
  BY DEF TypeInv, TypeOK, DataTypes, LocalTypes
<1>4. \A d \in Cpus \ {c} : cur'[d] = cur[d] /\ ctx'[d] = ctx[d]
  BY <1>3 DEF Fetch, Execute, Release, workerVars
<1>5. \A d \in Cpus \ {c} : running'[d] = running[d]
  BY <1>3 DEF Fetch, Execute, Release, DispatchToCpu, ReleaseCpuInterrupt
<1> QED
  BY <1>1, <1>2, <1>4, <1>5

\* A step is one of the callers', a barrier, or an action of one thread.
LEMMA StepCases ==
  ASSUME [Next]_vars
  PROVE  \/ \E p \in Procs : SubmitProcess(p)
         \/ \E policy \in PolicyChoices : SetSchedulingPolicy(policy)
         \/ SchedulerAction
         \/ \E c \in Cpus : Fetch(c) \/ Execute(c) \/ Release(c)
         \/ \E t \in Threads : TickBarrierSync(t)
         \/ UNCHANGED vars
<1>1. Sched \in Threads /\ Cpus \subseteq Threads
  BY CpuAssumption
<1>2. SchedulerStep => SchedulerAction \/ TickBarrierSync(Sched)
  BY DEF SchedulerStep, SchedulerAction
<1>3. ASSUME NEW c \in Cpus, WorkerStep(c)
      PROVE  Fetch(c) \/ Execute(c) \/ Release(c) \/ TickBarrierSync(c)
  BY <1>3 DEF WorkerStep
<1> QED
  BY <1>1, <1>2, <1>3 DEF Next, Step, Ended

-----------------------------------------------------------------------------
(***************************************************************************)
(* A process stays within its program and is FINISHED only at its end.     *)
(***************************************************************************)

WithinProgram ==
  \A p \in Procs : /\ pcb[p].pc <= Len(Program[p])
                   /\ pcb[p].state = "FINISHED" => pcb[p].pc = Len(Program[p])

LEMMA TickEffect ==
  ASSUME TypeInv, WithinProgram, NEW p \in Procs
  PROVE  LET b == pcb[p]
             r == ExecuteTick(b, Program[p], TickDelay)
         IN  /\ r.block.state = r.ctx.state
             /\ r.ctx.state \in {"READY", "RUNNING", "WAITING", "FINISHED"}
             /\ r.ctx.state = "WAITING" => r.ctx.arg > 0
             /\ \/ r.block.pc = b.pc
                \/ r.block.pc = b.pc + 1 /\ b.pc < Len(Program[p])
             /\ r.block.state = "FINISHED" => r.block.pc = Len(Program[p])
<1>1. /\ pcb[p] \in ControlBlock /\ Program[p] \in Seq(Instruction)
      /\ TickDelay \in Nat
  BY ProcAssumption, ConfigAssumption DEF TypeInv, TypeOK, DataTypes
<1>2. /\ pcb[p].pc <= Len(Program[p]) /\ pcb[p].pc \in Nat
      /\ pcb[p].state = "FINISHED" => pcb[p].pc = Len(Program[p])
      /\ pcb[p].delay \in Nat /\ pcb[p].sleep \in Nat /\ Len(Program[p]) \in Nat
  BY <1>1 DEF WithinProgram, ControlBlock
<1> DEFINE r == ExecuteTick(pcb[p], Program[p], TickDelay)
<1>3. TickCase(pcb[p], Program[p], TickDelay, r.block) /\ Tells(r.block, r.ctx)
  BY <1>1, TickCases
<1> HIDE DEF r
<1>4. /\ r.block.state = r.ctx.state
      /\ r.ctx.state \in {"READY", "RUNNING", "WAITING", "FINISHED"}
      /\ r.ctx.state = "WAITING" => r.ctx.arg > 0
      /\ \/ r.block.pc = pcb[p].pc
         \/ r.block.pc = pcb[p].pc + 1 /\ pcb[p].pc < Len(Program[p])
      /\ r.block.state = "FINISHED" => r.block.pc = Len(Program[p])
  BY <1>2, <1>3 DEF TickCase, ServesDelay, IsOver, ServesSleep, Ends, Sleeps, Works,
     HasFields, Tells, AtSleep
<1> QED
  BY <1>4 DEF r

LEMMA WithinProgramInit == Init => WithinProgram
BY ProcAssumption DEF Init, WithinProgram, NewBlock

\* Only execute_tick moves pc, sets or counts down a sleep, or leaves a process
\* WAITING or FINISHED that was not.
LEMMA BlocksKept ==
  ASSUME TypeInv, [Next]_vars, \A c \in Cpus : ~Execute(c), NEW q \in Procs
  PROVE  /\ pcb'[q].pc = pcb[q].pc /\ pcb'[q].sleep = pcb[q].sleep
         /\ pcb'[q].state \in {pcb[q].state, "NEW", "READY", "RUNNING"}
<1> DEFINE Kept == /\ pcb'[q].pc = pcb[q].pc /\ pcb'[q].sleep = pcb[q].sleep
                   /\ pcb'[q].state \in {pcb[q].state, "NEW", "READY", "RUNNING"}
<1> SUFFICES Kept
  OBVIOUS
<1>1. CASE UNCHANGED pcb
  BY <1>1
<1>2. ASSUME NEW p \in Procs, NEW s \in {"NEW", "READY", "RUNNING"},
             pcb' = [pcb EXCEPT ![p].state = s]
      PROVE  Kept
  BY <1>2, StateUpdate DEF ProcessState
<1> HIDE DEF Kept
<1>3. ASSUME NEW c, DispatchToCpu(c) PROVE Kept
  <2>1. readyQueue \subseteq Procs
    BY DEF TypeInv, TypeOK, DataTypes
  <2> QED
    BY <1>1, <1>2, <1>3, <2>1 DEF DispatchToCpu, processVars
<1>4. ASSUME NEW p \in Procs, SubmitProcess(p) PROVE Kept
  BY <1>2, <1>4 DEF SubmitProcess
<1>5. CASE TimerCheck
  BY <1>5 DEF TimerCheck, Kept, TypeInv, TypeOK, DataTypes, ControlBlock
<1>6. CASE AdmitJob
  BY <1>2, <1>6 DEF AdmitJob, TypeInv, TypeOK, LocalTypes, LocalsOK
<1>7. CASE SchedulerAction
  BY <1>1, <1>3, <1>5, <1>6, <1>7 DEF SchedulerAction, CountQuantum, Preempt,
     Redispatch, EndPreemptionCheck, ReceiveJob, EndAdmission, CheckReady, ScanCpu,
     ClaimCpu, EndScan, LogStatus, SnapshotCpu, FollowPointer, SendSnapshot,
     AdvanceTick, processVars
<1> QED
  BY <1>1, <1>3, <1>4, <1>7, StepCases DEF SetSchedulingPolicy, Fetch, Release,
     TickBarrierSync, processVars, vars

LEMMA WithinProgramNext == TypeInv /\ WithinProgram /\ [Next]_vars => WithinProgram'
<1> SUFFICES ASSUME TypeInv, WithinProgram, [Next]_vars PROVE WithinProgram'
  OBVIOUS
<1>1. ASSUME NEW c \in Cpus, Execute(c) PROVE WithinProgram'
  <2> DEFINE p == cur[c]
             b == pcb[p]
             r == ExecuteTick(b, Program[p], TickDelay)
  <2>1. p \in Procs /\ pcb \in [Procs -> ControlBlock] /\ b \in ControlBlock
    BY <1>1 DEF Execute, TypeInv, TypeOK, DataTypes, LocalTypes, LocalsOK
  <2>2. /\ \/ r.block.pc = b.pc
           \/ r.block.pc = b.pc + 1 /\ b.pc < Len(Program[p])
        /\ r.block.state = "FINISHED" => r.block.pc = Len(Program[p])
    BY <2>1, TickEffect
  <2>3. b.pc \in Nat /\ Len(Program[p]) \in Nat /\ b.pc <= Len(Program[p])
    <3>1. b.pc \in Nat
      BY <2>1 DEF ControlBlock
    <3>2. Program[p] \in Seq(Instruction) /\ b.pc <= Len(Program[p])
      BY <2>1, ProcAssumption DEF WithinProgram
    <3> QED
      BY <3>1, <3>2
  <2>4. pcb' = [pcb EXCEPT ![p] = r.block]
    BY <1>1 DEF Execute
  <2> HIDE DEF r
  <2> QED
    BY <2>1, <2>2, <2>3, <2>4 DEF WithinProgram
<1>2. CASE \A c \in Cpus : ~Execute(c)
  BY <1>2, BlocksKept DEF WithinProgram
<1> QED
  BY <1>1, <1>2

-----------------------------------------------------------------------------
(***************************************************************************)
(* A process's state agrees with its place: one lemma per way it changes.  *)
(***************************************************************************)

\* A worker about to release a process stays there unless it does so.
ReleasersStay == \A c \in Cpus : pc[c] = "release" => pc'[c] = "release"

LEMMA StateSubmit ==
  ASSUME TypeInv, Conservation, StateMatchesPlace, NEW p \in Procs, SubmitProcess(p)
  PROVE  StateMatchesPlace'
<1>1. /\ p \notin submitted /\ jobQueue' = Append(jobQueue, p)
      /\ jobQueue \in Seq(Procs) /\ pcb' = [pcb EXCEPT ![p].state = "NEW"]
      /\ UNCHANGED <<readyQueue, sleepQueue, held, finished, running, pc>>
  BY DEF SubmitProcess, TypeInv, TypeOK, DataTypes
<1>2. \A q \in Procs : pcb'[q].state = IF q = p THEN "NEW" ELSE pcb[q].state
  BY <1>1, StateUpdate DEF ProcessState
<1>3. Jobs' \subseteq Jobs \cup {p}
  BY <1>1 DEF Jobs
<1>4. UNCHANGED <<InTransit, OnCpu, Asleep>>
  BY <1>1 DEF InTransit, OnCpu, Asleep
<1>5. p \notin readyQueue \cup OnCpu \cup Asleep \cup finished
  BY <1>1 DEF Conservation
<1>6. \A c \in Cpus : running[c] # NoProc => running[c] \in OnCpu /\ running[c] # p
  BY <1>5 DEF OnCpu
<1> QED
  BY <1>1, <1>2, <1>3, <1>4, <1>5, <1>6, PlacesAreProcs DEF StateMatchesPlace

LEMMA StateTimer ==
  ASSUME TypeInv, Conservation, StateMatchesPlace, ReleasersStay, TimerCheck
  PROVE  StateMatchesPlace'
<1>1. /\ sleepQueue' = sleepQueue \ Due /\ readyQueue' = readyQueue \cup DueProcs
      /\ UNCHANGED <<jobQueue, held, finished, running>>
  BY DEF TimerCheck
<1>2. \A q \in Procs : pcb'[q].state = IF q \in DueProcs THEN "READY"
                                       ELSE pcb[q].state
  BY DEF TimerCheck, TypeInv, TypeOK, DataTypes, ControlBlock
<1>3. DueProcs \subseteq Asleep /\ Asleep' = Asleep \ DueProcs
  BY <1>1 DEF DueProcs, Due, Asleep, Conservation
<1>4. UNCHANGED <<Jobs, InTransit, OnCpu>>
  BY <1>1 DEF Jobs, InTransit, OnCpu
<1>5. DueProcs \cap (Jobs \cup InTransit \cup OnCpu \cup finished) = {}
  BY <1>3 DEF Conservation
<1>6. \A c \in Cpus : running[c] # NoProc => running[c] \in OnCpu
  BY DEF OnCpu
<1> QED
  BY <1>1, <1>2, <1>3, <1>4, <1>5, <1>6, PlacesAreProcs
     DEF StateMatchesPlace, ReleasersStay

LEMMA StateDispatch ==
  ASSUME TypeInv, Conservation, StateMatchesPlace, ReleasersStay, NEW c \in Cpus,
         DispatchToCpu(c), UNCHANGED <<jobQueue, held, sleepQueue, finished>>
  PROVE  StateMatchesPlace'
<1>1. UNCHANGED <<Jobs, InTransit, Asleep>>
  BY DEF Jobs, InTransit, Asleep
<1>2. CASE UNCHANGED <<running, readyQueue, processVars>>
  BY <1>1, <1>2 DEF StateMatchesPlace, ReleasersStay, processVars
<1>3. ASSUME NEW p \in readyQueue,
             readyQueue' = readyQueue \ {p},
             running' = [running EXCEPT ![c] = p],
             pcb' = [pcb EXCEPT ![p].state = "RUNNING"]
      PROVE  StateMatchesPlace'
  <2>1. p \in Procs /\ running \in [Cpus -> Procs \cup {NoProc}]
    BY DEF TypeInv, TypeOK, DataTypes
  <2>2. \A q \in Procs : pcb'[q].state = IF q = p THEN "RUNNING" ELSE pcb[q].state
    BY <1>3, <2>1, StateUpdate DEF ProcessState
  <2>3. p \notin Jobs \cup InTransit \cup OnCpu \cup Asleep \cup finished
    BY DEF Conservation
  <2>4. \A d \in Cpus : running[d] # p
    BY <2>1, <2>3, ProcAssumption DEF OnCpu
  <2>5. \A d \in Cpus : running'[d] # NoProc =>
          \/ pcb'[running'[d]].state \in {"RUNNING", "READY"}
          \/ /\ pc'[d] = "release"
             /\ pcb'[running'[d]].state \in {"WAITING", "FINISHED"}
    <3> SUFFICES ASSUME NEW d \in Cpus, running'[d] # NoProc
                 PROVE  \/ pcb'[running'[d]].state \in {"RUNNING", "READY"}
                        \/ /\ pc'[d] = "release"
                           /\ pcb'[running'[d]].state \in {"WAITING", "FINISHED"}
      OBVIOUS
    <3>1. CASE d = c
      BY <1>3, <2>1, <2>2, <3>1
    <3>2. CASE d # c
      <4>1. running'[d] = running[d] /\ running[d] \in Procs \ {p}
        BY <1>3, <2>1, <2>4, <3>2
      <4>2. pcb'[running[d]].state = pcb[running[d]].state
        BY <2>2, <4>1
      <4> QED
        BY <4>1, <4>2 DEF StateMatchesPlace, ReleasersStay
    <3> QED
      BY <3>1, <3>2
  <2> QED
    BY <1>1, <1>3, <2>2, <2>3, <2>5, PlacesAreProcs DEF StateMatchesPlace
<1> QED
  BY <1>2, <1>3 DEF DispatchToCpu

\* Outside a release there is nothing for preemption_check to release: the
\* process of a CPU is READY or RUNNING, and keeps it.
LEMMA PreemptReleasesNothing ==
  ASSUME TypeInv, Lockstep, StateMatchesPlace, Preempt
  PROVE  UNCHANGED <<running, finished, sleepQueue>>
<1>1. k \in Cpus /\ running[k] # NoProc /\ pc[Sched] = "preempt"
  BY CpuAssumption DEF Preempt, TypeInv, TypeOK, LocalTypes
<1>2. pc[k] # "release"
  BY <1>1, WorkWindow DEF SchedPart
<1>3. pcb[running[k]].state \in {"RUNNING", "READY"}
  BY <1>1, <1>2 DEF StateMatchesPlace
<1> QED
  BY <1>3 DEF Preempt, ReleaseCpuInterrupt

LEMMA StateAdmission ==
  ASSUME TypeInv, Conservation, StateMatchesPlace, ReleasersStay,
         ReceiveJob \/ AdmitJob
  PROVE  StateMatchesPlace'
<1>1. CASE ReceiveJob
  <2>1. /\ held = NoProc /\ held' = Head(jobQueue) /\ jobQueue' = Tail(jobQueue)
        /\ jobQueue \in Seq(Procs) /\ jobQueue # <<>>
        /\ UNCHANGED <<readyQueue, sleepQueue, finished, running, pcb>>
    BY <1>1 DEF ReceiveJob, TypeInv, TypeOK, DataTypes, LocalsOK, processVars
  <2>2. /\ Len(jobQueue) \in Nat \ {0}
        /\ DOMAIN jobQueue = 1 .. Len(jobQueue)
        /\ DOMAIN jobQueue' = 1 .. Len(jobQueue) - 1
        /\ \A i \in DOMAIN jobQueue' : jobQueue'[i] = jobQueue[i + 1]
        /\ held' = jobQueue[1]
    BY <2>1
  <2>3. Jobs' \subseteq Jobs /\ InTransit' \subseteq Jobs
    BY <2>2 DEF Jobs, InTransit
  <2>4. UNCHANGED Asleep
    BY <2>1 DEF Asleep
  <2> QED
    BY <2>1, <2>3, <2>4 DEF StateMatchesPlace, ReleasersStay
<1>2. CASE AdmitJob
  <2>1. /\ held \in Procs /\ held # NoProc /\ held' = NoProc
        /\ readyQueue' = readyQueue \cup {held}
        /\ pcb' = [pcb EXCEPT ![held].state = "READY"]
        /\ UNCHANGED <<jobQueue, sleepQueue, finished, running>>
    BY <1>2 DEF AdmitJob, TypeInv, TypeOK, LocalTypes, LocalsOK
  <2>2. \A q \in Procs : pcb'[q].state = IF q = held THEN "READY" ELSE pcb[q].state
    BY <2>1, StateUpdate DEF ProcessState
  <2>3. held \notin Jobs \cup OnCpu \cup Asleep \cup finished /\ InTransit' = {}
    BY <2>1 DEF Conservation, InTransit
  <2>4. UNCHANGED <<Jobs, OnCpu, Asleep>>
    BY <2>1 DEF Jobs, OnCpu, Asleep
  <2>5. \A c \in Cpus : running[c] # NoProc => running[c] \in OnCpu
    BY DEF OnCpu
  <2> QED
    BY <2>1, <2>2, <2>3, <2>4, <2>5, PlacesAreProcs
       DEF StateMatchesPlace, ReleasersStay
<1> QED
  BY <1>1, <1>2

LEMMA StateExecute ==
  ASSUME TypeInv, Conservation, WorkerOwnsProcess, WithinProgram,
         StateMatchesPlace, NEW c \in Cpus, Execute(c)
  PROVE  StateMatchesPlace'
<1> DEFINE p == cur[c]
           r == ExecuteTick(pcb[p], Program[p], TickDelay)
<1>1. /\ p \in Procs /\ running[c] = p /\ p # NoProc
      /\ pcb \in [Procs -> ControlBlock] /\ pc[c] = "exec"
  BY DEF Execute, WorkerOwnsProcess, TypeInv, TypeOK, DataTypes, LocalTypes
<1>2. /\ r.block.state = r.ctx.state
      /\ r.ctx.state \in {"READY", "RUNNING", "WAITING", "FINISHED"}
  BY <1>1, TickEffect
<1>3. /\ pcb' = [pcb EXCEPT ![p] = r.block]
      /\ Goto(c, IF IsYielded(r.ctx) THEN "release" ELSE "b2")
      /\ UNCHANGED <<jobQueue, held, readyQueue, sleepQueue, finished, running>>
  BY DEF Execute, queueVars
<1> HIDE DEF r
<1>4. \A q \in Procs : pcb'[q] = IF q = p THEN r.block ELSE pcb[q]
  BY <1>1, <1>3
<1>5. UNCHANGED <<Jobs, InTransit, OnCpu, Asleep>>
  BY <1>3 DEF Jobs, InTransit, OnCpu, Asleep
<1>6. p \in OnCpu
  BY <1>1 DEF OnCpu
<1>7. p \notin Jobs \cup InTransit \cup readyQueue \cup Asleep \cup finished
  BY <1>6 DEF Conservation
<1>8. /\ pc'[c] = IF IsYielded(r.ctx) THEN "release" ELSE "b2"
      /\ \A d \in Cpus \ {c} : pc'[d] = pc[d]
  BY <1>3, WorkerGoto DEF TypeInv, TypeOK, WorkerLabels
<1>9. \A d \in Cpus : running'[d] # NoProc =>
        \/ pcb'[running'[d]].state \in {"RUNNING", "READY"}
        \/ pc'[d] = "release" /\ pcb'[running'[d]].state \in {"WAITING", "FINISHED"}
  <2> SUFFICES ASSUME NEW d \in Cpus, running[d] # NoProc
               PROVE  \/ pcb'[running[d]].state \in {"RUNNING", "READY"}
                      \/ /\ pc'[d] = "release"
                         /\ pcb'[running[d]].state \in {"WAITING", "FINISHED"}
    BY <1>3
  <2>1. CASE d = c
    BY <1>1, <1>2, <1>4, <1>8, <2>1 DEF IsYielded
  <2>2. CASE d # c
    <3>1. running[d] \in Procs \ {p}
      BY <1>1, <2>2 DEF TypeInv, TypeOK, DataTypes, Conservation
    <3> QED
      BY <1>4, <1>8, <2>2, <3>1 DEF StateMatchesPlace
  <2> QED
    BY <2>1, <2>2
<1> QED
  BY <1>3, <1>4, <1>5, <1>7, <1>9, PlacesAreProcs DEF StateMatchesPlace

LEMMA StateRelease ==
  ASSUME TypeInv, Conservation, WorkerOwnsProcess, StateMatchesPlace,
         NEW c \in Cpus, Release(c)
  PROVE  StateMatchesPlace'
<1> DEFINE p == cur[c]
           entry == [proc |-> p, wake |-> ctx[c].arg + tick]
<1>1. /\ p \in Procs /\ running[c] = p /\ p # NoProc
      /\ running \in [Cpus -> Procs \cup {NoProc}]
  BY DEF Release, WorkerOwnsProcess, TypeInv, TypeOK, DataTypes, LocalTypes
<1>2. /\ ReleaseCpuInterrupt(c, p, ctx[c])
      /\ UNCHANGED <<jobQueue, held, readyQueue, pcb>>
  BY DEF Release, processVars
<1>3. UNCHANGED <<Jobs, InTransit>>
  BY <1>2 DEF Jobs, InTransit
<1>4. \A d \in Cpus \ {c} : pc'[d] = pc[d] /\ running'[d] = running[d]
  BY WorkerKeepsOthers
<1>5. CASE pcb[p].state \in {"FINISHED", "WAITING"}
  <2>1. running' = [running EXCEPT ![c] = NoProc]
    BY <1>2, <1>5 DEF ReleaseCpuInterrupt
  <2>2. running'[c] = NoProc
    BY <1>1, <2>1
  <2>3. /\ \A q \in finished' : pcb[q].state = "FINISHED"
        /\ \A e \in sleepQueue' : pcb[e.proc].state = "WAITING"
    <3>1. entry.proc = p
      OBVIOUS
    <3>2. \A e \in sleepQueue : pcb[e.proc].state = "WAITING"
      BY DEF StateMatchesPlace, Asleep
    <3>3. CASE pcb[p].state = "FINISHED"
      BY <1>2, <3>2, <3>3 DEF ReleaseCpuInterrupt, StateMatchesPlace
    <3>4. CASE pcb[p].state = "WAITING"
      <4> HIDE DEF entry
      <4>1. sleepQueue' = sleepQueue \cup {entry} /\ UNCHANGED finished
        BY <1>2, <3>4 DEF ReleaseCpuInterrupt, entry
      <4> QED
        BY <3>1, <3>2, <3>4, <4>1 DEF StateMatchesPlace
    <3> QED
      BY <1>5, <3>3, <3>4
  <2>4. \A d \in Cpus : running'[d] # NoProc =>
          /\ running'[d] = running[d] /\ pc'[d] = pc[d]
    BY <1>4, <2>2
  <2> QED
    BY <1>2, <1>3, <2>3, <2>4 DEF StateMatchesPlace, Asleep
<1>6. CASE pcb[p].state \notin {"FINISHED", "WAITING"}
  <2>1. UNCHANGED <<running, finished, sleepQueue>>
    BY <1>2, <1>6 DEF ReleaseCpuInterrupt
  <2>2. \A d \in Cpus : running[d] # NoProc =>
          \/ pcb[running[d]].state \in {"RUNNING", "READY"}
          \/ pc'[d] = "release" /\ pcb[running[d]].state \in {"WAITING", "FINISHED"}
    <3>1. pcb[running[c]].state \in {"RUNNING", "READY"}
      BY <1>1, <1>6 DEF StateMatchesPlace
    <3> QED
      BY <1>4, <3>1 DEF StateMatchesPlace
  <2>3. UNCHANGED Asleep
    BY <2>1 DEF Asleep
  <2> QED
    BY <1>2, <1>3, <2>1, <2>2, <2>3 DEF StateMatchesPlace
<1> QED
  BY <1>5, <1>6

LEMMA StateInit == Init => StateMatchesPlace
BY DEF Init, StateMatchesPlace, Jobs, InTransit, Asleep

LEMMA StateNext ==
  /\ TypeInv /\ Lockstep /\ WorkerOwnsProcess /\ Conservation /\ WithinProgram
  /\ StateMatchesPlace /\ [Next]_vars
  => StateMatchesPlace'
<1> SUFFICES ASSUME TypeInv, Lockstep, WorkerOwnsProcess, Conservation,
                    WithinProgram, StateMatchesPlace, [Next]_vars
             PROVE  StateMatchesPlace'
  OBVIOUS
<1>1. ASSUME ReleasersStay,
             UNCHANGED <<jobQueue, held, readyQueue, running, sleepQueue, finished,
                         pcb>>
      PROVE  StateMatchesPlace'
  BY <1>1 DEF StateMatchesPlace, ReleasersStay, Jobs, InTransit, OnCpu, Asleep
<1>2. CASE SchedulerAction
  <2>1. ReleasersStay
    BY <1>2, SchedulerKeepsWorkers DEF ReleasersStay
  <2>2. CASE Preempt
    BY <1>1, <2>1, <2>2, PreemptReleasesNothing DEF Preempt, processVars
  <2>3. CASE Redispatch \/ ClaimCpu
    <3>1. k \in Cpus
      BY <2>3, CpuAssumption
         DEF Redispatch, ClaimCpu, TypeInv, TypeOK, LocalTypes, LocalsOK
    <3> QED
      BY <2>1, <2>3, <3>1, StateDispatch DEF Redispatch, ClaimCpu
  <2>4. CASE \/ CountQuantum \/ EndPreemptionCheck \/ EndAdmission \/ CheckReady
             \/ ScanCpu \/ EndScan \/ LogStatus \/ SnapshotCpu \/ FollowPointer
             \/ SendSnapshot \/ AdvanceTick
    BY <1>1, <2>1, <2>4 DEF CountQuantum, EndPreemptionCheck, EndAdmission,
       CheckReady, ScanCpu, EndScan, LogStatus, SnapshotCpu, FollowPointer,
       SendSnapshot, AdvanceTick, queueVars, processVars
  <2> QED
    BY <1>2, <2>1, <2>2, <2>3, <2>4, StateTimer, StateAdmission
       DEF SchedulerAction
<1>3. ASSUME NEW c \in Cpus, Fetch(c) PROVE StateMatchesPlace'
  <2>1. ReleasersStay
    BY <1>3, WorkerKeepsOthers DEF ReleasersStay, Fetch
  <2> QED
    BY <1>3, <2>1, StateDispatch DEF Fetch
<1>4. ASSUME NEW t \in Threads, TickBarrierSync(t) PROVE StateMatchesPlace'
  <2>1. ReleasersStay
    BY <1>4, BarrierKeeps, CpuAssumption DEF ReleasersStay, Waiting
  <2> QED
    BY <1>1, <1>4, <2>1 DEF TickBarrierSync, queueVars, processVars
<1>5. CASE \/ \E policy \in PolicyChoices : SetSchedulingPolicy(policy)
           \/ UNCHANGED vars
  BY <1>1, <1>5 DEF SetSchedulingPolicy, ReleasersStay, vars, queueVars,
     processVars
<1> QED
  BY <1>2, <1>3, <1>4, <1>5, StateSubmit, StateExecute, StateRelease, StepCases

\* What the following proofs build on.
SchedInv == /\ TypeInv /\ Lockstep /\ WorkerOwnsProcess /\ Conservation
            /\ WithinProgram /\ StateMatchesPlace

LEMMA SchedInvInit == Init => SchedInv
<1>1. Init => WorkerOwnsProcess
  BY CpuAssumption DEF Init, WorkerOwnsProcess
<1>2. Init => Conservation
  BY DEF Init, Conservation, Jobs, InTransit, OnCpu, Asleep
<1> QED
  BY <1>1, <1>2, TypeInit, LockstepInit, WithinProgramInit, StateInit DEF SchedInv

LEMMA SchedInvNext == SchedInv /\ [Next]_vars => SchedInv'
BY TypeNext, LockstepNext, OwnershipNext, ConservationNext, WithinProgramNext,
   StateNext DEF SchedInv

\* What release_cpu_interrupt and timer_check go by is right: the state a process
\* says it is in is that of the queue that holds it, for any number of CPUs and
\* any programs, although worker, scheduler thread and callers set it in turn.
THEOREM StateMatchesPlaceCorrect == Spec => []StateMatchesPlace
<1>1. SchedInv => StateMatchesPlace
  BY DEF SchedInv
<1> QED
  BY <1>1, SchedInvInit, SchedInvNext, PTL DEF Spec

-----------------------------------------------------------------------------
(***************************************************************************)
(* No sleeper is late: a worker that puts one into the timer's queue does  *)
(* so for a tick to come, and tick_ moves when no worker can.              *)
(***************************************************************************)

\* Where the scheduler thread goes when it arrives at a barrier or one completes.
LEMMA BarrierSched ==
  ASSUME TypeInv, NEW t \in Threads, TickBarrierSync(t)
  PROVE  \/ pc'[Sched] = pc[Sched]
         \/ pc[Sched] \in {"b1", "b1w"} /\ pc'[Sched] \in {"b1w", "admit"}
         \/ pc[Sched] \in {"b2", "b2w"} /\ pc'[Sched] \in {"b2w", "advance"}
         \/ pc[Sched] \in {"b3", "b3w"} /\ pc'[Sched] \in {"b3w", "timer"}
<1> DEFINE arrived == [pc EXCEPT ![t] = WaitAt[@]]
<1>1. /\ pc \in [Threads -> SchedLabels \cup WorkerLabels] /\ Sched \in Threads
      /\ pc[t] \in {"b1", "b2", "b3"}
  BY CpuAssumption DEF TypeInv, TypeOK, LabelTypes, TickBarrierSync, WaitAt
<1>2. \/ arrived[Sched] = pc[Sched]
      \/ pc[Sched] = "b1" /\ arrived[Sched] = "b1w"
      \/ pc[Sched] = "b2" /\ arrived[Sched] = "b2w"
      \/ pc[Sched] = "b3" /\ arrived[Sched] = "b3w"
  BY <1>1 DEF WaitAt
<1>3. CASE \A u \in Threads : arrived[u] \in Waiting
  <2>1. pc' = [u \in Threads |-> IF u = Sched THEN SchedAfter[arrived[u]]
                                 ELSE WorkerAfter[arrived[u]]]
    BY <1>3 DEF TickBarrierSync
  <2>2. pc'[Sched] = SchedAfter[arrived[Sched]] /\ arrived[Sched] \in Waiting
    BY <1>1, <1>3, <2>1
  <2> QED
    BY <1>2, <2>2 DEF SchedAfter, Waiting
<1>4. CASE ~ \A u \in Threads : arrived[u] \in Waiting
  <2>1. pc' = arrived
    BY <1>4 DEF TickBarrierSync
  <2> QED
    BY <1>2, <2>1
<1> QED
  BY <1>3, <1>4

\* A worker that is about to release a waiting process has been told for how long.
SleepIsAhead ==
  \A c \in Cpus : pc[c] = "release" /\ pcb[cur[c]].state = "WAITING" =>
                     ctx[c].arg > 0

LEMMA SleepIsAheadNext ==
  SchedInv /\ SleepIsAhead /\ [Next]_vars => SleepIsAhead'
<1> SUFFICES ASSUME SchedInv, SleepIsAhead, [Next]_vars, NEW d \in Cpus,
                    pc'[d] = "release", pcb'[cur'[d]].state = "WAITING"
             PROVE  ctx'[d].arg > 0
  BY DEF SleepIsAhead
<1> USE DEF SchedInv
<1>1. ASSUME pc[d] = "release", cur'[d] = cur[d], ctx'[d] = ctx[d],
             pcb[cur[d]].state = "WAITING"
      PROVE  ctx'[d].arg > 0
  BY <1>1 DEF SleepIsAhead
<1>2. ASSUME NEW c \in Cpus, Execute(c) PROVE ctx'[d].arg > 0
  <2> DEFINE p == cur[c]
             r == ExecuteTick(pcb[p], Program[p], TickDelay)
  <2>1. /\ p \in Procs /\ running[c] = p /\ p # NoProc /\ pc[c] = "exec"
        /\ pcb \in [Procs -> ControlBlock] /\ ctx \in [Cpus -> Context]
    BY <1>2 DEF Execute, WorkerOwnsProcess, TypeInv, TypeOK, DataTypes, LocalTypes
  <2>2. /\ r.block.state = r.ctx.state
        /\ r.ctx.state = "WAITING" => r.ctx.arg > 0
    BY <2>1, TickEffect
  <2>3. /\ pcb' = [pcb EXCEPT ![p] = r.block]
        /\ ctx' = [ctx EXCEPT ![c] = r.ctx] /\ cur' = cur
    BY <1>2 DEF Execute
  <2> HIDE DEF r
  <2>4. CASE d = c
    BY <2>1, <2>2, <2>3, <2>4
  <2>5. CASE d # c
    <3>1. pc[d] = "release" /\ ctx'[d] = ctx[d] /\ cur'[d] = cur[d]
      BY <1>2, <2>5, WorkerKeepsOthers
    <3>2. running[d] = cur[d] /\ cur[d] # NoProc /\ cur[d] # p
      BY <2>1, <2>5, <3>1 DEF WorkerOwnsProcess, Conservation
    <3>3. pcb'[cur[d]] = pcb[cur[d]]
      <4>1. cur[d] \in Procs
        BY <3>2 DEF TypeInv, TypeOK, LocalTypes
      <4> QED
        BY <2>1, <2>3, <3>2, <4>1
    <3> QED
      BY <1>1, <3>1, <3>3
  <2> QED
    BY <2>4, <2>5
<1>3. CASE \A c \in Cpus : ~Execute(c)
  <2>1. pc[d] = "release" /\ cur'[d] = cur[d] /\ ctx'[d] = ctx[d]
    <3>1. CASE SchedulerAction
      BY <3>1, SchedulerKeepsWorkers
    <3>2. ASSUME NEW c \in Cpus, Fetch(c) \/ Release(c)
          PROVE  pc[d] = "release" /\ cur'[d] = cur[d] /\ ctx'[d] = ctx[d]
      <4>1. pc'[c] # "release"
        <5>1. Goto(c, "b2") \/ Goto(c, "exec")
          BY <3>2 DEF Fetch, Release
        <5> QED
          BY <5>1, WorkerGoto DEF WorkerLabels, TypeInv, TypeOK
      <4> QED
        BY <3>2, <4>1, WorkerKeepsOthers
    <3>3. ASSUME NEW t \in Threads, TickBarrierSync(t)
          PROVE  pc[d] = "release" /\ cur'[d] = cur[d] /\ ctx'[d] = ctx[d]
      BY <3>3, BarrierLabels DEF TickBarrierSync, workerVars
    <3> QED
      BY <1>3, <3>1, <3>2, <3>3, StepCases DEF SubmitProcess,
         SetSchedulingPolicy, vars, workerVars
  <2>2. cur[d] \in Procs
    BY <2>1 DEF TypeInv, TypeOK, LocalTypes, LocalsOK
  <2>3. pcb[cur[d]].state = "WAITING"
    BY <1>3, <2>1, <2>2, BlocksKept
  <2> QED
    BY <1>1, <2>1, <2>3
<1> QED
  BY <1>2, <1>3

\* Until the third barrier of a tick is passed its sleepers are not due.
LEMMA NoLateWakeupNext ==
  SchedInv /\ SleepIsAhead /\ NoLateWakeup /\ [Next]_vars => NoLateWakeup'
<1> SUFFICES ASSUME SchedInv, SleepIsAhead, NoLateWakeup, [Next]_vars
             PROVE  NoLateWakeup'
  OBVIOUS
<1> USE DEF SchedInv
<1> DEFINE ending == {"b3", "b3w", "timer"}
<1>1. tick \in Nat /\ sleepQueue \subseteq [proc : Procs, wake : Nat]
  BY DEF TypeInv, TypeOK, DataTypes
<1>2. ASSUME UNCHANGED <<tick, sleepQueue>>,
             pc[Sched] \in ending <=> pc'[Sched] \in ending
      PROVE  NoLateWakeup'
  BY <1>2 DEF NoLateWakeup
<1>3. CASE TimerCheck
  <2>1. /\ sleepQueue' = sleepQueue \ Due /\ tick' = tick
        /\ \E label \in {"preempt", "b1"} : Goto(Sched, label)
    BY <1>3 DEF TimerCheck
  <2>2. pc'[Sched] \in {"preempt", "b1"}
    BY <2>1, SchedGoto DEF SchedLabels, TypeInv, TypeOK
  <2>3. \A e \in sleepQueue' : e.wake > tick
    BY <1>1, <2>1 DEF Due
  <2> QED
    BY <2>1, <2>2, <2>3 DEF NoLateWakeup
<1>4. CASE AdvanceTick
  <2>1. /\ pc[Sched] = "advance" /\ tick' = tick + 1 /\ Goto(Sched, "b3")
        /\ UNCHANGED sleepQueue
    BY <1>4 DEF AdvanceTick, queueVars
  <2>2. pc'[Sched] = "b3"
    BY <2>1, SchedGoto DEF SchedLabels, TypeInv, TypeOK
  <2>3. \A e \in sleepQueue : e.wake \in Nat /\ e.wake > tick
    BY <1>1, <2>1 DEF NoLateWakeup
  <2> QED
    BY <1>1, <2>1, <2>2, <2>3 DEF NoLateWakeup
<1>5. CASE SchedulerAction /\ ~TimerCheck /\ ~AdvanceTick
  <2> DEFINE labels == {"preempt", "redispatch", "b1", "admit", "admit_send",
                        "dispatch", "scan", "claim", "log", "snap", "deref", "b2"}
  <2>1. pc[Sched] \in labels
    BY <1>5 DEF SchedulerAction, CountQuantum, Preempt, Redispatch,
       EndPreemptionCheck, ReceiveJob, AdmitJob, EndAdmission, CheckReady, ScanCpu,
       ClaimCpu, EndScan, LogStatus, SnapshotCpu, FollowPointer, SendSnapshot
  <2>2. UNCHANGED pc \/ \E label \in labels : Goto(Sched, label)
    BY <1>5 DEF SchedulerAction, CountQuantum, Preempt, Redispatch,
       EndPreemptionCheck, ReceiveJob, AdmitJob, EndAdmission, CheckReady, ScanCpu,
       ClaimCpu, EndScan, LogStatus, SnapshotCpu, FollowPointer, SendSnapshot
  <2>3. pc'[Sched] \in labels
    BY <2>1, <2>2, SchedGoto DEF SchedLabels, TypeInv, TypeOK
  <2>4. UNCHANGED <<tick, sleepQueue>>
    BY <1>5, PreemptReleasesNothing DEF SchedulerAction, CountQuantum, Preempt,
       Redispatch, EndPreemptionCheck, ReceiveJob, AdmitJob, EndAdmission,
       CheckReady, ScanCpu, ClaimCpu, EndScan, LogStatus, SnapshotCpu,
       FollowPointer, SendSnapshot, queueVars
  <2> QED
    BY <1>2, <2>1, <2>3, <2>4
<1>6. ASSUME NEW c \in Cpus, Fetch(c) \/ Execute(c) PROVE NoLateWakeup'
  BY <1>2, <1>6, WorkerKeepsOthers DEF Fetch, Execute, queueVars
<1>7. ASSUME NEW c \in Cpus, Release(c) PROVE NoLateWakeup'
  <2> DEFINE entry == [proc |-> cur[c], wake |-> ctx[c].arg + tick]
  <2>1. /\ pc[c] = "release" /\ tick' = tick /\ pc'[Sched] = pc[Sched]
        /\ ReleaseCpuInterrupt(c, cur[c], ctx[c])
    BY <1>7, WorkerKeepsOthers DEF Release
  <2>2. pc[Sched] \notin ending
    BY <2>1, WorkWindow DEF SchedPart
  <2>3. ctx[c].arg \in Nat
    BY DEF TypeInv, TypeOK, LocalTypes, Context
  <2>4. CASE pcb[cur[c]].state = "WAITING"
    <3>1. ctx[c].arg > 0
      BY <2>1, <2>4 DEF SleepIsAhead
    <3>2. entry.wake > tick
      BY <1>1, <2>3, <3>1
    <3>3. sleepQueue' = sleepQueue \cup {entry}
      BY <2>1, <2>4 DEF ReleaseCpuInterrupt
    <3> HIDE DEF entry
    <3> QED
      BY <2>1, <2>2, <3>2, <3>3 DEF NoLateWakeup
  <2>5. CASE pcb[cur[c]].state # "WAITING"
    <3>1. UNCHANGED sleepQueue
      BY <2>1, <2>5 DEF ReleaseCpuInterrupt
    <3> QED
      BY <1>2, <2>1, <3>1
  <2> QED
    BY <2>4, <2>5
<1>8. ASSUME NEW t \in Threads, TickBarrierSync(t) PROVE NoLateWakeup'
  BY <1>2, <1>8, BarrierSched DEF TickBarrierSync, queueVars
<1> QED
  BY <1>2, <1>3, <1>4, <1>5, <1>6, <1>7, <1>8, StepCases
     DEF SubmitProcess, SetSchedulingPolicy, vars, queueVars

\* timer_check is never late: when it begins no entry's tick has passed, for any
\* programs and any number of workers that add entries while the tick runs.
THEOREM NoLateWakeupCorrect == Spec => []NoLateWakeup
<1>1. Init => SleepIsAhead /\ NoLateWakeup
  BY CpuAssumption DEF Init, SleepIsAhead, NoLateWakeup
<1> QED
  BY <1>1, SchedInvInit, SchedInvNext, SleepIsAheadNext, NoLateWakeupNext, PTL
     DEF Spec

-----------------------------------------------------------------------------
(***************************************************************************)
(* Nobody idles beside a ready process.  An idle worker looked into the    *)
(* ready queue once, perhaps before the admission filled it; the scheduler *)
(* thread then looks for idle CPUs itself.                                 *)
(***************************************************************************)

\* The scheduler thread has CPU c behind it in this tick.
Scanned(c) == \/ pc[Sched] \in {"scan", "claim"} /\ c < k
              \/ pc[Sched] \in {"log", "snap", "deref", "b2", "b2w", "advance"}

ScannedIsBusy ==
  \A c \in Cpus : Scanned(c) /\ readyQueue # {} /\ running[c] = NoProc =>
                     pc[c] = "fetch" \/ cur[c] # NoProc

LEMMA ScannedIsBusyNext ==
  SchedInv /\ ScannedIsBusy /\ [Next]_vars => ScannedIsBusy'
<1> SUFFICES ASSUME SchedInv, ScannedIsBusy, [Next]_vars, NEW d \in Cpus,
                    Scanned(d)', readyQueue' # {}, running'[d] = NoProc
             PROVE  pc'[d] = "fetch" \/ cur'[d] # NoProc
  BY DEF ScannedIsBusy
<1> DEFINE Goal == pc'[d] = "fetch" \/ cur'[d] # NoProc
<1> USE DEF SchedInv
<1>1. /\ LabelTypes /\ NumCpu \in Nat /\ k \in 0 .. NumCpu
      /\ running \in [Cpus -> Procs \cup {NoProc}]
      /\ cur \in [Cpus -> Procs \cup {NoProc}]
  BY CpuAssumption DEF TypeInv, TypeOK, DataTypes, LocalTypes
<1>2. ASSUME Scanned(d), readyQueue' \subseteq readyQueue, running'[d] = running[d],
             pc'[d] = pc[d], cur'[d] = cur[d]
      PROVE  Goal
  BY <1>2 DEF ScannedIsBusy
<1>3. ASSUME NEW c \in Cpus, DispatchToCpu(c)
      PROVE  /\ readyQueue' \subseteq readyQueue /\ d # c
             /\ running'[d] = running[d]
  <2>1. CASE UNCHANGED <<running, readyQueue>>
    <3>1. running[d] = NoProc /\ readyQueue # {}
      BY <2>1
    <3>2. running[c] # NoProc
      BY <1>3, <2>1, <3>1 DEF DispatchToCpu
    <3> QED
      BY <2>1, <3>1, <3>2
  <2>2. ASSUME NEW p \in readyQueue, running' = [running EXCEPT ![c] = p],
               readyQueue' = readyQueue \ {p}
        PROVE  readyQueue' \subseteq readyQueue /\ d # c /\ running'[d] = running[d]
    BY <1>1, <2>2, ProcAssumption DEF TypeInv, TypeOK, DataTypes
  <2> QED
    BY <1>3, <2>1, <2>2 DEF DispatchToCpu
<1>4. CASE SchedulerAction
  <2>1. UNCHANGED cur /\ pc'[d] = pc[d]
    BY <1>4, SchedulerKeepsWorkers
  <2>2. ASSUME NEW label \in SchedLabels, Goto(Sched, label)
        PROVE  pc'[Sched] = label
    BY <1>1, <2>2, SchedGoto
  <2>3. CASE \/ TimerCheck \/ Preempt \/ Redispatch \/ EndPreemptionCheck
             \/ CountQuantum
    <3>1. pc'[Sched] \in {"preempt", "b1", "redispatch"}
      BY <2>2, <2>3 DEF TimerCheck, Preempt, Redispatch, EndPreemptionCheck,
         CountQuantum, SchedLabels
    <3> QED
      BY <3>1 DEF Scanned
  <2>4. CASE ReceiveJob \/ AdmitJob \/ EndAdmission
    <3>1. pc'[Sched] \in {"admit_send", "admit", "dispatch"}
      BY <2>2, <2>4 DEF ReceiveJob, AdmitJob, EndAdmission, SchedLabels
    <3> QED
      BY <3>1 DEF Scanned
  <2>5. CASE CheckReady
    <3>1. pc'[Sched] = "scan" /\ k' = 0
      BY <2>2, <2>5 DEF CheckReady, SchedLabels, queueVars
    <3> QED
      BY <1>1, <3>1 DEF Scanned
  <2>6. CASE ScanCpu
    <3>1. /\ pc[Sched] = "scan" /\ pc'[Sched] \in {"scan", "claim"}
          /\ k' = k \/ (k' = k + 1 /\ running[k] # NoProc)
          /\ UNCHANGED <<readyQueue, running>>
      BY <2>2, <2>6 DEF ScanCpu, SchedLabels, queueVars
    <3>2. d < k
      BY <1>1, <3>1 DEF Scanned
    <3> QED
      BY <1>2, <2>1, <3>1, <3>2 DEF Scanned
  <2>7. CASE ClaimCpu
    <3>1. /\ pc[Sched] = "claim" /\ pc'[Sched] = "scan" /\ k' = k + 1
          /\ DispatchToCpu(k)
      BY <2>2, <2>7 DEF ClaimCpu, SchedLabels
    <3>2. k \in Cpus
      BY <1>1, <3>1 DEF TypeInv, LocalsOK
    <3>3. d < k
      BY <1>1, <1>3, <3>1, <3>2 DEF Scanned
    <3> QED
      BY <1>2, <1>3, <2>1, <3>1, <3>2, <3>3 DEF Scanned
  <2>8. CASE EndScan
    <3>1. pc[Sched] = "scan" /\ k = NumCpu /\ UNCHANGED <<readyQueue, running>>
      BY <2>8 DEF EndScan, queueVars
    <3> QED
      BY <1>1, <1>2, <2>1, <3>1 DEF Scanned
  <2>9. CASE LogStatus \/ SnapshotCpu \/ FollowPointer \/ SendSnapshot
    <3>1. /\ pc[Sched] \in {"log", "snap", "deref"}
          /\ UNCHANGED <<readyQueue, running>>
      BY <2>9 DEF LogStatus, SnapshotCpu, FollowPointer, SendSnapshot, queueVars
    <3> QED
      BY <1>2, <2>1, <3>1 DEF Scanned
  <2>10. CASE AdvanceTick
    <3>1. pc'[Sched] = "b3"
      BY <2>2, <2>10 DEF AdvanceTick, SchedLabels
    <3> QED
      BY <3>1 DEF Scanned
  <2> QED
    BY <1>4, <2>3, <2>4, <2>5, <2>6, <2>7, <2>8, <2>9, <2>10 DEF SchedulerAction
<1>5. ASSUME NEW c \in Cpus, Fetch(c) \/ Execute(c) \/ Release(c) PROVE Goal
  <2>1. Scanned(d)
    <3>1. pc'[Sched] = pc[Sched] /\ k' = k
      BY <1>5, WorkerKeepsOthers DEF Fetch, Execute, Release
    <3> QED
      BY <3>1 DEF Scanned
  <2>2. readyQueue' \subseteq readyQueue
    BY <1>3, <1>5 DEF Fetch, Execute, Release, queueVars
  <2>3. CASE c # d
    BY <1>2, <1>5, <2>1, <2>2, <2>3, WorkerKeepsOthers
  <2>4. CASE c = d /\ Fetch(c)
    BY <1>3, <2>4 DEF Fetch
  <2>5. CASE c = d /\ (Execute(c) \/ Release(c))
    <3>1. cur'[d] = cur[d] /\ cur[d] # NoProc
      BY <2>5 DEF Execute, Release, WorkerOwnsProcess, workerVars
    <3> QED
      BY <3>1
  <2> QED
    BY <1>5, <2>3, <2>4, <2>5
<1>6. ASSUME NEW t \in Threads, TickBarrierSync(t) PROVE Goal
  <2>1. UNCHANGED <<readyQueue, running, cur, k>>
    BY <1>6 DEF TickBarrierSync, queueVars, workerVars
  <2>2. Scanned(d)
    BY <1>6, <2>1, BarrierSched DEF Scanned
  <2>3. pc[d] = "fetch" => pc'[d] = "fetch"
    BY <1>1, <1>6, BarrierKeeps DEF Waiting
  <2> QED
    BY <2>1, <2>2, <2>3 DEF ScannedIsBusy
<1>7. CASE UNCHANGED <<pc, k, readyQueue, running, cur>>
  BY <1>2, <1>7 DEF Scanned
<1>8. ASSUME NEW p \in Procs, SubmitProcess(p) PROVE Goal
  BY <1>7, <1>8 DEF SubmitProcess, workerVars
<1>9. ASSUME NEW policy, SetSchedulingPolicy(policy) PROVE Goal
  BY <1>7, <1>9 DEF SetSchedulingPolicy, queueVars, workerVars
<1>10. CASE UNCHANGED vars
  BY <1>7, <1>10 DEF vars, queueVars, workerVars
<1> QED
  BY <1>4, <1>5, <1>6, <1>8, <1>9, <1>10, StepCases

\* When a tick ends, a CPU that is idle beside a ready process is one whose
\* worker released a process in that tick, however the admission, the two kinds
\* of dispatch and the releases interleaved.
THEOREM WorkConservingCorrect == Spec => []WorkConserving
<1>1. Init => ScannedIsBusy
  BY CpuAssumption DEF Init, ScannedIsBusy
<1>2. SchedInv /\ ScannedIsBusy => WorkConserving
  <2> SUFFICES ASSUME SchedInv, ScannedIsBusy, pc[Sched] = "advance",
                      readyQueue # {}, NEW c \in Cpus, running[c] = NoProc
               PROVE  cur[c] # NoProc
    BY DEF WorkConserving
  <2>1. pc[c] # "fetch"
    BY WorkWindow DEF SchedInv, SchedPart
  <2> QED
    BY <2>1 DEF ScannedIsBusy, Scanned
<1> QED
  BY <1>1, <1>2, SchedInvInit, SchedInvNext, ScannedIsBusyNext, PTL DEF Spec

-----------------------------------------------------------------------------
(***************************************************************************)
(* Module Scheduler implements module ProcessLifecycle: whatever number of *)
(* steps of whatever threads a queue operation takes, a caller sees one    *)
(* change of a process's stage, at the step that moves it, or none.        *)
(***************************************************************************)

\* The processes of S, and no others, change their stage, to s.
StageMoves(S, s) ==
  \A q \in Procs : StageOf(q)' = IF q \in S THEN s ELSE StageOf(q)

\* What execute_tick counts as done changes in no other step.
DoneKept == \A q \in Procs : pcb'[q].pc = pcb[q].pc

-----------------------------------------------------------------------------
LEMMA StagesStay ==
  ASSUME UNCHANGED <<jobQueue, held, readyQueue, running, sleepQueue, finished>>
  PROVE  StageMoves({}, "new")
<1>1. UNCHANGED <<Jobs, InTransit, OnCpu, Asleep>>
  BY DEF Jobs, InTransit, OnCpu, Asleep
<1> QED
  BY <1>1 DEF StageMoves, StageOf

LEMMA StageSubmitted ==
  ASSUME SchedInv, NEW p \in Procs, SubmitProcess(p)
  PROVE  StageOf(p) = "absent" /\ StageMoves({p}, "new")
<1>1. /\ p \notin submitted /\ jobQueue' = Append(jobQueue, p)
      /\ jobQueue \in Seq(Procs)
      /\ UNCHANGED <<readyQueue, sleepQueue, held, finished, running>>
  BY DEF SubmitProcess, SchedInv, TypeInv, TypeOK, DataTypes
<1>2. UNCHANGED <<InTransit, OnCpu, Asleep>>
  BY <1>1 DEF InTransit, OnCpu, Asleep
<1>3. Jobs' = Jobs \cup {p}
  BY <1>1 DEF Jobs
<1> QED
  BY <1>1, <1>2, <1>3 DEF StageMoves, StageOf, SchedInv, Conservation

\* Between receive and send a process is new still.
LEMMA StageReceived ==
  ASSUME SchedInv, ReceiveJob
  PROVE  StageMoves({}, "new")
<1>1. /\ held = NoProc /\ held' = Head(jobQueue) /\ jobQueue' = Tail(jobQueue)
      /\ jobQueue \in Seq(Procs) /\ jobQueue # <<>>
      /\ UNCHANGED <<readyQueue, sleepQueue, finished, running>>
  BY DEF ReceiveJob, SchedInv, TypeInv, TypeOK, DataTypes, LocalsOK
<1>2. UNCHANGED <<OnCpu, Asleep>>
  BY <1>1 DEF OnCpu, Asleep
<1>3. Jobs = Jobs' \cup {held'}
  <2>1. /\ DOMAIN jobQueue = 1 .. Len(jobQueue) /\ Len(jobQueue) \in Nat \ {0}
        /\ DOMAIN jobQueue' = 1 .. Len(jobQueue) - 1
        /\ \A i \in DOMAIN jobQueue' : jobQueue'[i] = jobQueue[i + 1]
        /\ held' = jobQueue[1]
    BY <1>1
  <2>2. Jobs' \cup {held'} \subseteq Jobs
    BY <2>1 DEF Jobs
  <2>3. \A i \in DOMAIN jobQueue \ {1} :
           i - 1 \in DOMAIN jobQueue' /\ jobQueue'[i - 1] = jobQueue[i]
    BY <2>1
  <2>4. Jobs \subseteq Jobs' \cup {held'}
    BY <2>1, <2>3 DEF Jobs
  <2> QED
    BY <2>2, <2>4
<1>4. InTransit = {} /\ InTransit' = {held'}
  <2>1. held' \in Procs
    BY <1>1
  <2> QED
    BY <1>1, <2>1, ProcAssumption DEF InTransit
<1> QED
  BY <1>1, <1>2, <1>3, <1>4 DEF StageMoves, StageOf

LEMMA StageAdmitted ==
  ASSUME SchedInv, AdmitJob
  PROVE  held \in Procs /\ StageOf(held) = "new" /\ StageMoves({held}, "ready")
<1>1. /\ held # NoProc /\ held' = NoProc /\ readyQueue' = readyQueue \cup {held}
      /\ UNCHANGED <<jobQueue, sleepQueue, finished, running>> /\ held \in Procs
  BY DEF AdmitJob, SchedInv, TypeInv, TypeOK, LocalTypes, LocalsOK
<1>2. InTransit = {held} /\ InTransit' = {}
  BY <1>1 DEF InTransit
<1>3. UNCHANGED <<Jobs, OnCpu, Asleep>>
  BY <1>1 DEF Jobs, OnCpu, Asleep
<1> QED
  BY <1>1, <1>2, <1>3 DEF StageMoves, StageOf, SchedInv, Conservation

LEMMA StageDispatched ==
  ASSUME SchedInv, NEW c \in Cpus, DispatchToCpu(c),
         UNCHANGED <<jobQueue, held, sleepQueue, finished>>
  PROVE  \/ UNCHANGED running /\ StageMoves({}, "new")
         \/ \E p \in Procs : /\ StageOf(p) = "ready" /\ running[c] = NoProc
                             /\ StageMoves({p}, "running")
                             /\ running' = [running EXCEPT ![c] = p]
<1>1. CASE UNCHANGED <<running, readyQueue>>
  BY <1>1, StagesStay
<1>2. ASSUME NEW p \in readyQueue, running[c] = NoProc,
             readyQueue' = readyQueue \ {p},
             running' = [running EXCEPT ![c] = p]
      PROVE  /\ p \in Procs /\ StageOf(p) = "ready"
             /\ StageMoves({p}, "running")
  <2>1. running \in [Cpus -> Procs \cup {NoProc}] /\ p \in Procs /\ p # NoProc
    BY ProcAssumption DEF SchedInv, TypeInv, TypeOK, DataTypes
  <2>2. OnCpu' = OnCpu \cup {p}
    BY <1>2, <2>1 DEF OnCpu
  <2>3. UNCHANGED <<Jobs, InTransit, Asleep>>
    BY DEF Jobs, InTransit, Asleep
  <2> QED
    BY <1>2, <2>1, <2>2, <2>3 DEF StageMoves, StageOf, SchedInv, Conservation
<1> QED
  BY <1>1, <1>2 DEF DispatchToCpu

LEMMA StageWoken ==
  ASSUME SchedInv, TimerCheck
  PROVE  /\ DueProcs \subseteq Procs
         /\ \A q \in DueProcs : StageOf(q) = "asleep"
         /\ StageMoves(DueProcs, "ready")
<1>1. /\ sleepQueue' = sleepQueue \ Due /\ readyQueue' = readyQueue \cup DueProcs
      /\ UNCHANGED <<jobQueue, held, finished, running>>
  BY DEF TimerCheck
<1>2. DueProcs \subseteq Asleep /\ Asleep' = Asleep \ DueProcs
  BY <1>1 DEF DueProcs, Due, Asleep, SchedInv, Conservation
<1>3. UNCHANGED <<Jobs, InTransit, OnCpu>>
  BY <1>1 DEF Jobs, InTransit, OnCpu
<1>4. Asleep \subseteq Procs
  BY PlacesAreProcs DEF SchedInv
<1> QED
  BY <1>1, <1>2, <1>3, <1>4 DEF StageMoves, StageOf, SchedInv, Conservation

\* What leaves a CPU goes to sleep, or has executed its whole program.
LEMMA StageReleased ==
  ASSUME SchedInv, NEW c \in Cpus, Release(c)
  PROVE  \/ UNCHANGED running /\ StageMoves({}, "new")
         \/ /\ running[c] \in Procs /\ running' = [running EXCEPT ![c] = NoProc]
            /\ \/ StageMoves({running[c]}, "asleep")
               \/ /\ StageMoves({running[c]}, "finished")
                  /\ pcb[running[c]].pc = Len(Program[running[c]])
<1> DEFINE p == running[c]
           entry == [proc |-> p, wake |-> ctx[c].arg + tick]
<1>1. /\ p \in Procs /\ p # NoProc /\ cur[c] = p
      /\ running \in [Cpus -> Procs \cup {NoProc}]
      /\ ReleaseCpuInterrupt(c, p, ctx[c])
      /\ UNCHANGED <<jobQueue, held, readyQueue>>
  BY DEF Release, SchedInv, WorkerOwnsProcess, TypeInv, TypeOK, DataTypes,
     LocalTypes
<1>2. UNCHANGED <<Jobs, InTransit>>
  BY <1>1 DEF Jobs, InTransit
<1>3. ASSUME running' = [running EXCEPT ![c] = NoProc]
      PROVE  OnCpu' = OnCpu \ {p} /\ p \in OnCpu
  BY <1>1, <1>3 DEF OnCpu, SchedInv, Conservation
<1>4. CASE UNCHANGED <<running, finished, sleepQueue>>
  BY <1>1, <1>4, StagesStay
<1>5. CASE /\ pcb[p].state = "FINISHED"
           /\ running' = [running EXCEPT ![c] = NoProc]
           /\ finished' = finished \cup {p} /\ UNCHANGED sleepQueue
  <2>1. UNCHANGED Asleep
    BY <1>5 DEF Asleep
  <2>2. StageMoves({p}, "finished")
    BY <1>1, <1>2, <1>3, <1>5, <2>1
       DEF StageMoves, StageOf, SchedInv, Conservation
  <2>3. pcb[p].pc = Len(Program[p])
    BY <1>1, <1>5 DEF SchedInv, WithinProgram
  <2> QED
    BY <1>1, <1>5, <2>2, <2>3
<1>6. CASE /\ running' = [running EXCEPT ![c] = NoProc]
           /\ sleepQueue' = sleepQueue \cup {entry} /\ UNCHANGED finished
  <2>1. entry.proc = p
    OBVIOUS
  <2>2. Asleep' = Asleep \cup {p}
    <3> HIDE DEF entry, p
    <3> QED
      BY <1>6, <2>1 DEF Asleep
  <2>3. StageMoves({p}, "asleep")
    BY <1>1, <1>2, <1>3, <1>6, <2>2
       DEF StageMoves, StageOf, SchedInv, Conservation
  <2> QED
    BY <1>1, <1>6, <2>3
<1> QED
  BY <1>1, <1>4, <1>5, <1>6 DEF ReleaseCpuInterrupt

\* A tick executes an instruction of the running process or none.
LEMMA DoneByExecute ==
  ASSUME SchedInv, NEW c \in Cpus, Execute(c)
  PROVE  /\ StageMoves({}, "new") /\ UNCHANGED running
         /\ \/ DoneKept
            \/ \E p \in Procs :
                 /\ StageOf(p) = "running" /\ pcb[p].pc < Len(Program[p])
                 /\ \A q \in Procs : pcb'[q].pc = IF q = p THEN pcb[p].pc + 1
                                                          ELSE pcb[q].pc
<1> DEFINE p == cur[c]
           r == ExecuteTick(pcb[p], Program[p], TickDelay)
<1>1. /\ p \in Procs /\ running[c] = p /\ p # NoProc
      /\ pcb \in [Procs -> ControlBlock] /\ pc[c] = "exec"
  BY DEF Execute, SchedInv, WorkerOwnsProcess, TypeInv, TypeOK, DataTypes,
     LocalTypes
<1>2. /\ pcb' = [pcb EXCEPT ![p] = r.block]
      /\ UNCHANGED <<jobQueue, held, readyQueue, sleepQueue, finished, running>>
  BY DEF Execute, queueVars
<1>3. \/ r.block.pc = pcb[p].pc
      \/ r.block.pc = pcb[p].pc + 1 /\ pcb[p].pc < Len(Program[p])
  BY <1>1, TickEffect DEF SchedInv
<1> HIDE DEF r
<1>4. \A q \in Procs : pcb'[q] = IF q = p THEN r.block ELSE pcb[q]
  BY <1>1, <1>2
<1>5. StageOf(p) = "running"
  BY <1>1 DEF StageOf, OnCpu, SchedInv, Conservation
<1>6. StageMoves({}, "new")
  BY <1>2, StagesStay
<1> QED
  BY <1>1, <1>2, <1>3, <1>4, <1>5, <1>6 DEF DoneKept

-----------------------------------------------------------------------------
(***************************************************************************)
(* The refinement mapping: from the effect of a step on stages, CPUs and   *)
(* program counters to a step of the abstract specification.               *)
(***************************************************************************)

LEMMA LifecycleInit == Init => Lifecycle!Init
<1> SUFFICES ASSUME Init PROVE Lifecycle!Init
  OBVIOUS
<1>1. /\ Jobs = {} /\ InTransit = {} /\ readyQueue = {} /\ OnCpu = {}
      /\ Asleep = {} /\ finished = {}
  BY DEF Init, Jobs, InTransit, OnCpu, Asleep
<1>2. \A p \in Procs : StageOf(p) = "absent" /\ pcb[p].pc = 0
  BY <1>1 DEF StageOf, Init, NewBlock
<1> QED
  BY <1>2 DEF Lifecycle!Init, Init

LEMMA Stutters ==
  ASSUME StageMoves({}, "new"), UNCHANGED running, DoneKept
  PROVE  UNCHANGED Lifecycle!vars
BY DEF StageMoves, DoneKept, Lifecycle!vars

LEMMA LifecycleStep ==
  SchedInv /\ [Next]_vars => [Lifecycle!Next]_Lifecycle!vars
<1> SUFFICES ASSUME SchedInv, [Next]_vars PROVE [Lifecycle!Next]_Lifecycle!vars
  OBVIOUS
<1> USE DEF StageMoves
<1>1. ASSUME \A c \in Cpus : ~Execute(c) PROVE DoneKept
  BY <1>1, BlocksKept DEF SchedInv, DoneKept
<1>2. CASE \A c \in Cpus : ~Execute(c)
  <2> USE <1>1, <1>2
  <2>1. ASSUME NEW p \in Procs, SubmitProcess(p) PROVE Lifecycle!Submit(p)
    <3>1. UNCHANGED running
      BY <2>1 DEF SubmitProcess
    <3> QED
      BY <2>1, <3>1, StageSubmitted DEF Lifecycle!Submit, DoneKept
  <2>2. CASE AdmitJob
    <3>1. UNCHANGED running
      BY <2>2 DEF AdmitJob
    <3>2. held \in Procs /\ Lifecycle!Admit(held)
      BY <2>2, <3>1, StageAdmitted DEF Lifecycle!Admit, DoneKept
    <3> QED
      BY <3>2 DEF Lifecycle!Next
  <2>3. ASSUME NEW c \in Cpus, DispatchToCpu(c),
               UNCHANGED <<jobQueue, held, sleepQueue, finished>>
        PROVE  [Lifecycle!Next]_Lifecycle!vars
    <3>1. CASE UNCHANGED running /\ StageMoves({}, "new")
      BY <3>1, Stutters
    <3>2. ASSUME NEW p \in Procs, StageOf(p) = "ready", running[c] = NoProc,
                 StageMoves({p}, "running"),
                 running' = [running EXCEPT ![c] = p]
          PROVE  Lifecycle!Dispatch(p, c)
      BY <3>2 DEF Lifecycle!Dispatch, DoneKept
    <3> QED
      BY <2>3, <3>1, <3>2, StageDispatched DEF Lifecycle!Next
  <2>4. CASE TimerCheck
    <3>1. UNCHANGED running
      BY <2>4 DEF TimerCheck
    <3>2. DueProcs \in SUBSET Procs /\ Lifecycle!Wake(DueProcs)
      BY <2>4, <3>1, StageWoken DEF Lifecycle!Wake, DoneKept
    <3> QED
      BY <3>2 DEF Lifecycle!Next
  <2>5. CASE ReceiveJob
    <3>1. UNCHANGED running
      BY <2>5 DEF ReceiveJob
    <3> QED
      BY <2>5, <3>1, StageReceived, Stutters
  <2>6. ASSUME UNCHANGED <<jobQueue, held, readyQueue, running, sleepQueue,
                           finished>>
        PROVE  UNCHANGED Lifecycle!vars
    BY <2>6, StagesStay, Stutters
  <2>7. CASE Preempt
    <3>1. UNCHANGED <<running, finished, sleepQueue>>
      BY <2>7, PreemptReleasesNothing DEF SchedInv
    <3> QED
      BY <2>6, <2>7, <3>1 DEF Preempt
  <2>8. CASE Redispatch \/ ClaimCpu
    <3>1. k \in Cpus
      BY <2>8, CpuAssumption
         DEF Cpus, Redispatch, ClaimCpu, SchedInv, TypeInv, TypeOK, LocalTypes,
            LocalsOK
    <3> QED
      BY <2>3, <2>8, <3>1 DEF Redispatch, ClaimCpu
  <2>9. CASE \/ CountQuantum \/ EndPreemptionCheck \/ EndAdmission \/ CheckReady
             \/ ScanCpu \/ EndScan \/ LogStatus \/ SnapshotCpu \/ FollowPointer
             \/ SendSnapshot \/ AdvanceTick
    BY <2>6, <2>9 DEF CountQuantum, EndPreemptionCheck, EndAdmission, CheckReady,
       ScanCpu, EndScan, LogStatus, SnapshotCpu, FollowPointer, SendSnapshot,
       AdvanceTick, queueVars
  <2>10. ASSUME NEW c \in Cpus, Fetch(c) PROVE [Lifecycle!Next]_Lifecycle!vars
    BY <2>3, <2>10 DEF Fetch
  <2>11. ASSUME NEW c \in Cpus, Release(c) PROVE [Lifecycle!Next]_Lifecycle!vars
    <3>1. CASE UNCHANGED running /\ StageMoves({}, "new")
      BY <3>1, Stutters
    <3>2. CASE /\ running[c] \in Procs /\ running' = [running EXCEPT ![c] = NoProc]
               /\ StageMoves({running[c]}, "asleep")
      <4>1. Lifecycle!Sleep(c)
        BY <3>2, ProcAssumption DEF Lifecycle!Sleep, Lifecycle!Leave, DoneKept
      <4> QED
        BY <4>1 DEF Lifecycle!Next
    <3>3. CASE /\ running[c] \in Procs /\ running' = [running EXCEPT ![c] = NoProc]
               /\ StageMoves({running[c]}, "finished")
               /\ pcb[running[c]].pc = Len(Program[running[c]])
      <4>1. Lifecycle!Finish(c)
        BY <3>3, ProcAssumption DEF Lifecycle!Finish, Lifecycle!Leave, DoneKept
      <4> QED
        BY <4>1 DEF Lifecycle!Next
    <3> QED
      BY <2>11, <3>1, <3>2, <3>3, StageReleased
  <2>12. ASSUME NEW t \in Threads, TickBarrierSync(t) PROVE UNCHANGED Lifecycle!vars
    BY <2>6, <2>12 DEF TickBarrierSync, queueVars
  <2>13. ASSUME NEW policy, SetSchedulingPolicy(policy)
         PROVE  UNCHANGED Lifecycle!vars
    BY <2>6, <2>13 DEF SetSchedulingPolicy, queueVars
  <2>14. CASE UNCHANGED vars
    BY <2>6, <2>14 DEF vars, queueVars
  <2>15. CASE SchedulerAction
    BY <2>2, <2>4, <2>5, <2>7, <2>8, <2>9, <2>15 DEF SchedulerAction
  <2> QED
    BY <2>1, <2>10, <2>11, <2>12, <2>13, <2>14, <2>15, StepCases
       DEF Lifecycle!Next
<1>3. ASSUME NEW c \in Cpus, Execute(c) PROVE [Lifecycle!Next]_Lifecycle!vars
  <2>1. CASE DoneKept
    BY <1>3, <2>1, DoneByExecute, Stutters
  <2>2. ASSUME NEW p \in Procs, StageOf(p) = "running",
               pcb[p].pc < Len(Program[p]),
               \A q \in Procs : pcb'[q].pc = IF q = p THEN pcb[p].pc + 1
                                                      ELSE pcb[q].pc
        PROVE  Lifecycle!Run(p)
    BY <1>3, <2>2, DoneByExecute DEF Lifecycle!Run
  <2> QED
    BY <1>3, <2>1, <2>2, DoneByExecute DEF Lifecycle!Next
<1> QED
  BY <1>2, <1>3

\* The scheduler keeps the promise of ProcessLifecycle: a process moves from
\* stage to stage in the order a caller expects, has its CPU to itself, executes
\* its program one instruction at a time and is finished only when all of it is
\* done, for any number of CPUs, processes, programs and policies.
THEOREM LifecycleImplemented == Spec => ImplementsLifecycle
BY LifecycleInit, LifecycleStep, SchedInvInit, SchedInvNext, PTL
   DEF Spec, ImplementsLifecycle, Lifecycle!Spec
=============================================================================
