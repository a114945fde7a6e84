--------------------------- MODULE ReporterProofs ---------------------------
(***************************************************************************)
(* Proofs about module Reporter: what a report can rely on although it is  *)
(* read section by section while any number of workers go on.  Building it *)
(* changes nothing of the scheduler's state but the crash flag, so that    *)
(* what is proved of module Scheduler holds beside it.                     *)
(***************************************************************************)
EXTENDS Reporter, SchedulerProofs, FiniteSetTheorems

USE DEF Cpus, Threads, Sched

-----------------------------------------------------------------------------
(***************************************************************************)
(* Building a report changes nothing of the scheduler's state.             *)
(***************************************************************************)
LEMMA ReportKeepsScheduler ==
  ASSUME ReportStep
  PROVE  UNCHANGED <<tick, queuePolicy, jobQueue, readyQueue, sleepQueue, held,
                     finished, running, pcb, lastActive, quantum, logQueue, seen,
                     pc, k, cur, ctx, submitted>>
BY DEF ReportStep, Command, DeriveUtilization, Emptied, ListSleepers, ListJobs,
   ListReady, ListSection, ListCpu, ListCpuProcess, ListFinished, vars, queueVars,
   processVars, logVars, workerVars, envVars

LEMMA ReportKeepsSchedInv ==
  ASSUME SchedInv, ReportStep
  PROVE  SchedInv'
<1>1. crashed' \in BOOLEAN
  BY DEF ReportStep, Command, DeriveUtilization, ListSleepers, ListJobs, ListReady,
     ListSection, ListCpu, ListCpuProcess, ListFinished, vars, SchedInv, TypeInv,
     TypeOK, DataTypes
<1>2. UNCHANGED <<Jobs, InTransit, OnCpu, Asleep>>
  BY ReportKeepsScheduler DEF Jobs, InTransit, OnCpu, Asleep
<1>3. TypeInv'
  BY <1>1, ReportKeepsScheduler
     DEF SchedInv, TypeInv, TypeOK, DataTypes, LocalTypes, LabelTypes, LocalsOK
<1>4. Lockstep' /\ WorkerOwnsProcess' /\ WithinProgram' /\ StateMatchesPlace'
  BY <1>2, ReportKeepsScheduler
     DEF SchedInv, Lockstep, WorkerOwnsProcess, WithinProgram, StateMatchesPlace
<1>5. Conservation'
  BY <1>2, ReportKeepsScheduler DEF SchedInv, Conservation
<1> QED
  BY <1>3, <1>4, <1>5 DEF SchedInv

LEMMA ReportSchedInit == ReportInit => SchedInv
BY SchedInvInit DEF ReportInit

\* What is not the report's doing is a step of Scheduler, the end of one, or what
\* the scheduler thread makes of a CPU that looks idle.
LEMMA StepKinds ==
  ASSUME [ReportNext]_allVars
  PROVE  \/ ~crashed /\ ReportStep
         \/ [Next]_vars /\ UNCHANGED reportVars
         \/ FindsCpuIdle
<1>1. ASSUME NEW t \in Threads, ThreadMoves(t), ~crashed PROVE Next
  BY <1>1, CpuAssumption DEF ThreadMoves, ThreadStep, Next, Step
<1>2. ASSUME CallerMoves, ~crashed PROVE Next
  BY <1>2 DEF CallerMoves, Next, Step
<1>3. Ended => Next
  BY DEF Next
<1>4. ASSUME NEW t \in Threads, ThreadMoves(t) PROVE UNCHANGED reportVars
  BY <1>4 DEF ThreadMoves
<1>5. PutDown => UNCHANGED <<vars, reportVars>>
  BY DEF PutDown
<1>6. CallerMoves => UNCHANGED reportVars
  BY DEF CallerMoves
<1>7. CASE UNCHANGED allVars
  BY <1>7 DEF allVars
<1>8. CASE ReportNext
  BY <1>1, <1>2, <1>3, <1>4, <1>5, <1>6, <1>8 DEF ReportNext
<1> QED
  BY <1>7, <1>8

LEMMA FindsIdleKeeps ==
  ASSUME FindsCpuIdle
  PROVE  /\ UNCHANGED <<tick, queuePolicy, jobQueue, readyQueue, sleepQueue, held,
                       finished, running, pcb, lastActive, quantum, logQueue, seen,
                       cur, ctx, submitted, crashed, hand>>
         /\ UNCHANGED reportVars
         /\ \/ pc[Sched] = "scan" /\ Goto(Sched, "claim") /\ k < NumCpu /\ k' = k
            \/ pc[Sched] = "snap" /\ pc' = pc /\ k < NumCpu /\ k' = k + 1
BY DEF FindsCpuIdle, TestsHand, queueVars, processVars, logVars, workerVars, envVars

LEMMA FindsIdleKeepsSchedInv ==
  ASSUME SchedInv, FindsCpuIdle
  PROVE  SchedInv'
<1> USE DEF SchedInv
<1>1. /\ LabelTypes /\ k \in 0 .. NumCpu /\ NumCpu \in Nat /\ "claim" \in SchedLabels
  BY CpuAssumption DEF TypeInv, TypeOK, LocalTypes, SchedLabels
<1>2. /\ LabelTypes' /\ \A c \in Cpus : pc'[c] = pc[c]
      /\ \/ pc[Sched] = "scan" /\ pc'[Sched] = "claim" /\ k < NumCpu /\ k' = k
         \/ pc[Sched] = "snap" /\ pc'[Sched] = "snap" /\ k < NumCpu /\ k' = k + 1
  BY <1>1, FindsIdleKeeps, SchedGoto DEF LabelTypes
<1>3. UNCHANGED <<Jobs, InTransit, OnCpu, Asleep>>
  BY FindsIdleKeeps DEF Jobs, InTransit, OnCpu, Asleep
<1>4. TypeInv'
  <2>1. DataTypes'
    BY FindsIdleKeeps DEF TypeInv, TypeOK, DataTypes
  <2>2. LocalTypes'
    <3>1. k' \in 0 .. NumCpu
      BY <1>1, <1>2
    <3> QED
      BY <3>1, FindsIdleKeeps DEF TypeInv, TypeOK, LocalTypes
  <2>3. LocalsOK'
    BY <1>1, <1>2, FindsIdleKeeps DEF TypeInv, LocalsOK
  <2> QED
    BY <1>2, <2>1, <2>2, <2>3 DEF TypeInv, TypeOK
<1>5. Lockstep'
  BY <1>2 DEF Lockstep, SchedPart
<1>6. WorkerOwnsProcess' /\ WithinProgram' /\ StateMatchesPlace'
  BY <1>2, <1>3, FindsIdleKeeps DEF WorkerOwnsProcess, WithinProgram, StateMatchesPlace
<1>7. Conservation'
  BY <1>3, FindsIdleKeeps DEF Conservation
<1> QED
  BY <1>4, <1>5, <1>6, <1>7

LEMMA ReportSchedNext == SchedInv /\ [ReportNext]_allVars => SchedInv'
<1> SUFFICES ASSUME SchedInv, [ReportNext]_allVars PROVE SchedInv'
  OBVIOUS
<1>1. CASE ReportStep
  BY <1>1, ReportKeepsSchedInv
<1>2. CASE [Next]_vars
  BY <1>2, SchedInvNext
<1>3. CASE FindsCpuIdle
  BY <1>3, FindsIdleKeepsSchedInv
<1> QED
  BY <1>1, <1>2, <1>3, StepKinds

-----------------------------------------------------------------------------
(***************************************************************************)
(* Who is taken in hand: one process, by a thread that takes the mutex.    *)
(***************************************************************************)
\* Nobody is taken out of submitted.
LEMMA SubmittedStays ==
  ASSUME [ReportNext]_allVars
  PROVE  submitted \subseteq submitted'
<1>1. CASE ReportStep
  BY <1>1, ReportKeepsScheduler
<1>2. CASE [Next]_vars
  <2>1. CASE SchedulerAction
    BY <2>1 DEF SchedulerAction, TimerCheck, CountQuantum, Preempt, Redispatch,
       EndPreemptionCheck, ReceiveJob, AdmitJob, EndAdmission, CheckReady, ScanCpu,
       ClaimCpu, EndScan, LogStatus, SnapshotCpu, FollowPointer, SendSnapshot,
       AdvanceTick, envVars
  <2> QED
    BY <1>2, <2>1, StepCases DEF SubmitProcess, SetSchedulingPolicy, Fetch, Execute,
       Release, TickBarrierSync, vars, envVars
<1> QED
  BY <1>1, <1>2, StepKinds, FindsIdleKeeps

LEMMA DispatchTakes ==
  ASSUME SchedInv, NEW c \in Cpus, DispatchToCpu(c)
  PROVE  \/ Taken = {} /\ UNCHANGED running
         \/ \E q \in readyQueue : /\ Taken \subseteq {q}
                                 /\ running' = [running EXCEPT ![c] = q]
<1>1. running \in [Cpus -> Procs \cup {NoProc}]
  BY DEF SchedInv, TypeInv, TypeOK, DataTypes
<1>2. CASE UNCHANGED <<running, readyQueue>>
  BY <1>2 DEF Taken, OnCpu
<1>3. ASSUME NEW q \in readyQueue, running[c] = NoProc,
             readyQueue' = readyQueue \ {q}, running' = [running EXCEPT ![c] = q]
      PROVE  Taken \subseteq {q}
  <2>1. \A d \in Cpus \ {c} : running'[d] = running[d]
    BY <1>1, <1>3
  <2>2. OnCpu \subseteq OnCpu'
    BY <1>3, <2>1 DEF OnCpu
  <2> QED
    BY <1>3, <2>2 DEF Taken
<1> QED
  BY <1>2, <1>3 DEF DispatchToCpu

LEMMA ReleaseTakes ==
  ASSUME SchedInv, NEW c \in Cpus, Release(c)
  PROVE  /\ running[c] = cur[c] /\ cur[c] \in OnCpu
         /\ Taken \subseteq {cur[c]}
         /\ finished' # finished =>
              finished' = finished \cup {cur[c]} /\ running'[c] = NoProc
         /\ \A d \in Cpus \ {c} : running'[d] = running[d]
<1>1. running \in [Cpus -> Procs \cup {NoProc}]
  BY DEF SchedInv, TypeInv, TypeOK, DataTypes
<1>2. /\ running[c] = cur[c] /\ cur[c] # NoProc
      /\ ReleaseCpuInterrupt(c, cur[c], ctx[c]) /\ UNCHANGED readyQueue
  BY DEF Release, SchedInv, WorkerOwnsProcess
<1>3. \A d \in Cpus \ {c} : running'[d] = running[d]
  BY WorkerKeepsOthers DEF SchedInv
<1>4. OnCpu \ OnCpu' \subseteq {cur[c]}
  BY <1>2, <1>3 DEF OnCpu
<1>5. finished' # finished =>
        finished' = finished \cup {cur[c]} /\ running'[c] = NoProc
  BY <1>1, <1>2 DEF ReleaseCpuInterrupt
<1> QED
  BY <1>2, <1>3, <1>4, <1>5 DEF Taken, OnCpu

\* What a thread's step does to ready queue, CPUs and finished map.
LEMMA ThreadCases ==
  ASSUME SchedInv, NEW t \in Threads, ThreadStep(t)
  PROVE  \/ /\ Taken = {}
            /\ UNCHANGED <<running, finished>> /\ readyQueue \subseteq readyQueue'
         \/ /\ pc[t] \in LockLabels /\ UNCHANGED finished
            /\ \E c \in Cpus : DispatchToCpu(c)
         \/ pc[t] \in LockLabels /\ t \in Cpus /\ Release(t)
<1> USE DEF SchedInv
<1>1. UNCHANGED <<running, finished>> /\ readyQueue \subseteq readyQueue' => Taken = {}
  BY DEF Taken, OnCpu
<1>2. CASE t = Sched
  <2>1. SchedulerStep
    BY <1>2 DEF ThreadStep
  <2>2. CASE Redispatch \/ ClaimCpu
    <3>1. k \in Cpus /\ DispatchToCpu(k) /\ UNCHANGED finished
      BY <2>2, CpuAssumption DEF Redispatch, ClaimCpu, TypeInv, TypeOK, LocalTypes,
         LocalsOK
    <3>2. pc[t] \in LockLabels
      BY <1>2, <2>2 DEF Redispatch, ClaimCpu, LockLabels
    <3> QED
      BY <3>1, <3>2
  <2>3. CASE Preempt
    BY <1>1, <2>3, PreemptReleasesNothing DEF Preempt
  <2>4. CASE TimerCheck \/ AdmitJob
    BY <1>1, <2>4 DEF TimerCheck, AdmitJob
  <2> QED
    BY <1>1, <2>1, <2>2, <2>3, <2>4 DEF SchedulerStep, CountQuantum,
       EndPreemptionCheck, ReceiveJob, EndAdmission, CheckReady, ScanCpu, EndScan,
       LogStatus, SnapshotCpu, FollowPointer, SendSnapshot, AdvanceTick,
       TickBarrierSync, queueVars
<1>3. CASE t # Sched
  <2>1. t \in Cpus /\ WorkerStep(t)
    BY <1>3, CpuAssumption DEF ThreadStep
  <2>2. CASE Fetch(t)
    BY <2>1, <2>2 DEF Fetch, LockLabels
  <2>3. CASE Release(t)
    BY <2>1, <2>3 DEF Release, LockLabels
  <2> QED
    BY <1>1, <2>1, <2>2, <2>3 DEF WorkerStep, Execute, TickBarrierSync, queueVars
<1> QED
  BY <1>2, <1>3

HandTypes == /\ hand \subseteq [by : Threads, proc : submitted]
             /\ \A h, g \in hand : h = g

\* Whoever has a finished process in hand is a worker that has cleared its CPU.
HandInv == \A h \in hand : h.proc \in finished =>
                            h.by \in Cpus /\ running[h.by] = NoProc

LEMMA HandNext ==
  ASSUME SchedInv, HandTypes, HandInv, [ReportNext]_allVars
  PROVE  HandTypes' /\ HandInv'
<1> USE DEF SchedInv
<1>1. submitted \subseteq submitted'
  BY SubmittedStays
<1>2. CASE hand' \subseteq hand /\ UNCHANGED <<running, finished>>
  BY <1>1, <1>2 DEF HandTypes, HandInv
<1>3. ASSUME NEW t \in Threads, ThreadMoves(t) PROVE HandTypes' /\ HandInv'
  <2>1. /\ ThreadStep(t) /\ hand' = hand \cup {[by |-> t, proc |-> p] : p \in Taken}
        /\ pc[t] \in LockLabels => hand = {}
    BY <1>3 DEF ThreadMoves
  <2>2. CASE Taken = {} /\ UNCHANGED <<running, finished>>
    BY <1>2, <2>1, <2>2
  <2>3. ASSUME hand = {}, NEW q \in submitted, Taken \subseteq {q} PROVE HandTypes'
    BY <1>1, <2>1, <2>3 DEF HandTypes
  <2>4. ASSUME pc[t] \in LockLabels, UNCHANGED finished,
               NEW c \in Cpus, DispatchToCpu(c)
        PROVE  HandTypes' /\ HandInv'
    <3>1. \A q \in readyQueue : q \in submitted /\ q \notin finished
      BY DEF Conservation
    <3>2. CASE Taken = {} /\ UNCHANGED running
      BY <2>2, <2>4, <3>2
    <3>3. ASSUME NEW q \in readyQueue, Taken \subseteq {q} PROVE HandTypes' /\ HandInv'
      <4>1. \A h \in hand' : h.proc = q
        BY <2>1, <2>4, <3>3
      <4> QED
        BY <2>1, <2>3, <2>4, <3>1, <3>3, <4>1 DEF HandInv
    <3> QED
      BY <2>4, <3>2, <3>3, DispatchTakes
  <2>5. ASSUME pc[t] \in LockLabels, t \in Cpus, Release(t)
        PROVE  HandTypes' /\ HandInv'
    <3>1. /\ cur[t] \in OnCpu /\ Taken \subseteq {cur[t]}
          /\ finished' # finished =>
               finished' = finished \cup {cur[t]} /\ running'[t] = NoProc
      BY <2>5, ReleaseTakes
    <3>2. cur[t] \in submitted /\ cur[t] \notin finished
      BY <3>1 DEF Conservation
    <3>3. \A h \in hand' : h.proc = cur[t] /\ h.by = t
      BY <2>1, <2>5, <3>1
    <3>4. HandInv'
      BY <2>5, <3>1, <3>2, <3>3 DEF HandInv
    <3> QED
      BY <2>1, <2>3, <2>5, <3>1, <3>2, <3>4
  <2> QED
    BY <2>1, <2>2, <2>4, <2>5, ThreadCases
<1>4. CASE ReportStep
  BY <1>2, <1>4, ReportKeepsScheduler DEF ReportStep, Command, DeriveUtilization,
     ListSleepers, ListJobs, ListReady, ListSection, ListCpu, ListCpuProcess,
     ListFinished
<1>5. CASE FindsCpuIdle
  BY <1>2, <1>5, FindsIdleKeeps
<1>6. CASE PutDown \/ CallerMoves \/ (Ended /\ UNCHANGED hand) \/ UNCHANGED allVars
  BY <1>2, <1>6 DEF PutDown, CallerMoves, SubmitProcess, SetSchedulingPolicy, Ended,
     allVars, vars, queueVars
<1> QED
  BY <1>3, <1>4, <1>5, <1>6 DEF ReportNext

-----------------------------------------------------------------------------
(***************************************************************************)
(* Types.                                                                  *)
(***************************************************************************)
ReportInv == ReportTypeOK /\ built \in Nat /\ HandInv

LEMMA ReportTypesInit == ReportInit => ReportInv
BY ReportAssumption, CpuAssumption DEF ReportInit, ReportInv, ReportTypeOK, HandInv

\* The IDLE lines are finitely many, so the unsigned arithmetic on their number
\* is that of the naturals.
LEMMA IdleFinite ==
  SchedInv => IsFiniteSet(IdleLines) /\ Cardinality(IdleLines) \in Nat
<1> SUFFICES ASSUME SchedInv
             PROVE  IsFiniteSet(IdleLines) /\ Cardinality(IdleLines) \in Nat
  OBVIOUS
<1>1. Len(logQueue) \in Nat /\ DOMAIN logQueue = 1 .. Len(logQueue)
  BY DEF SchedInv, TypeInv, TypeOK, DataTypes
<1>2. IsFiniteSet(DOMAIN logQueue) /\ IsFiniteSet(Cpus)
  BY <1>1, FS_Interval, CpuAssumption
<1>3. IsFiniteSet((DOMAIN logQueue) \X Cpus)
  BY <1>2, FS_Product
<1>4. IsFiniteSet(IdleLines)
  BY <1>3, FS_Subset DEF IdleLines
<1> QED
  BY <1>4, FS_CardinalityType

LEMMA ReportTypesNext ==
  SchedInv /\ ReportInv /\ [ReportNext]_allVars => ReportInv'
<1> SUFFICES ASSUME SchedInv, ReportInv, [ReportNext]_allVars PROVE ReportInv'
  OBVIOUS
<1> DEFINE Own == /\ main \in {"prompt", "derive", "sleepers", "jobs", "ready", "cpus",
                               "follow"}
                  /\ todo \in 0 .. 2
                  /\ todo = 0 <=> main = "prompt"
                  /\ built + todo <= MaxReports
                  /\ used \in 0 .. NumCpu
                  /\ at \in 0 .. NumCpu
                  /\ main = "follow" => at < NumCpu
                  /\ owed \subseteq submitted
                  /\ passed \subseteq submitted
                  /\ built \in Nat
<1>0. HandTypes' /\ HandInv'
  BY HandNext DEF ReportInv, ReportTypeOK, HandTypes
<1>1. submitted \subseteq submitted' /\ InHand \subseteq submitted /\ Own
  BY SubmittedStays DEF ReportInv, ReportTypeOK, InHand
<1> SUFFICES Own'
  BY <1>0 DEF ReportInv, ReportTypeOK, HandTypes
<1>2. NumCpu \in Nat /\ MaxReports \in Nat
  BY CpuAssumption, ReportAssumption
<1>3. CASE UNCHANGED reportVars
  BY <1>1, <1>3 DEF reportVars
<1>4. ASSUME NEW n \in {1, 2}, Command(n) PROVE Own'
  BY <1>1, <1>2, <1>4 DEF Command
<1>5. CASE DeriveUtilization
  <2>1. used' \in 0 .. NumCpu
    BY <1>2, <1>5, IdleFinite DEF DeriveUtilization
  <2> QED
    BY <1>1, <1>2, <1>5, <2>1 DEF DeriveUtilization
<1>6. CASE ListSleepers
  <2>1. owed' \subseteq submitted
    BY <1>6 DEF ListSleepers, SchedInv, Conservation
  <2> QED
    BY <1>1, <1>2, <1>6, <2>1 DEF ListSleepers
<1>7. CASE ListJobs \/ ListReady
  BY <1>1, <1>2, <1>7 DEF ListJobs, ListReady, ListSection
<1>8. CASE ListCpu \/ ListCpuProcess
  BY <1>1, <1>2, <1>8 DEF ListCpu, ListCpuProcess
<1>9. CASE ListFinished
  BY <1>1, <1>2, <1>9 DEF ListFinished
<1> QED
  BY <1>3, <1>4, <1>5, <1>6, <1>7, <1>8, <1>9, StepKinds, FindsIdleKeeps DEF ReportStep

\* The reports' own bookkeeping, for any number of CPUs and reports: the loop
\* over the CPUs stays on them and nothing is owed that was never submitted.
THEOREM ReportTypeCorrect == ReportSpec => []ReportTypeOK
<1>1. ReportInv => ReportTypeOK
  BY DEF ReportInv
<1> QED
  BY <1>1, ReportSchedInit, ReportSchedNext, ReportTypesInit, ReportTypesNext, PTL
     DEF ReportSpec

-----------------------------------------------------------------------------
(***************************************************************************)
(* The log queue only grows, since a report only reads it; with it grow    *)
(* the IDLE lines that the utilization counts.                             *)
(***************************************************************************)
LEMMA LogGrows ==
  ASSUME SchedInv, [ReportNext]_allVars
  PROVE  UNCHANGED logQueue \/ logQueue' = Append(logQueue, seen)
<1>1. CASE ReportStep
  BY <1>1, ReportKeepsScheduler
<1>2. CASE [Next]_vars
  <2>1. CASE SchedulerAction
    BY <2>1 DEF SchedulerAction, TimerCheck, CountQuantum, Preempt, Redispatch,
       EndPreemptionCheck, ReceiveJob, AdmitJob, EndAdmission, CheckReady, ScanCpu,
       ClaimCpu, EndScan, LogStatus, SnapshotCpu, FollowPointer, SendSnapshot,
       AdvanceTick, logVars
  <2> QED
    BY <1>2, <2>1, StepCases DEF SubmitProcess, SetSchedulingPolicy, Fetch, Execute,
       Release, TickBarrierSync, vars, logVars
<1> QED
  BY <1>1, <1>2, StepKinds, FindsIdleKeeps

LEMMA IdleLinesStay ==
  ASSUME SchedInv, [ReportNext]_allVars
  PROVE  /\ Cardinality(IdleLines') \in Nat
         /\ Cardinality(IdleLines) <= Cardinality(IdleLines')
<1>1. logQueue \in Seq(SUBSET Cpus) /\ seen \subseteq Cpus
  BY DEF SchedInv, TypeInv, TypeOK, DataTypes, LocalTypes
<1>2. IdleLines \subseteq IdleLines'
  <2>1. \A n \in DOMAIN logQueue : n \in DOMAIN logQueue' /\ logQueue'[n] = logQueue[n]
    BY <1>1, LogGrows
  <2> SUFFICES ASSUME NEW l \in (DOMAIN logQueue) \X Cpus, l[2] \notin logQueue[l[1]]
               PROVE  l \in (DOMAIN logQueue') \X Cpus /\ l[2] \notin logQueue'[l[1]]
    BY DEF IdleLines
  <2> QED
    BY <2>1
<1>3. (IsFiniteSet(IdleLines) /\ Cardinality(IdleLines) \in Nat)'
  <2>1. SchedInv'
    BY ReportSchedNext
  <2> QED
    BY <2>1, IdleFinite, PTL
<1> QED
  BY <1>2, <1>3, FS_Subset

\* The cores that are not "used" have an IDLE line.
UsedInv == NumCpu <= used + Cardinality(IdleLines)

LEMMA UsedNext ==
  ASSUME SchedInv, ReportInv, UsedInv, [ReportNext]_allVars
  PROVE  UsedInv' /\ used' <= used
<1>1. /\ used \in Nat /\ NumCpu \in Nat /\ Cardinality(IdleLines) \in Nat
      /\ Cardinality(IdleLines') \in Nat
      /\ Cardinality(IdleLines) <= Cardinality(IdleLines')
  BY CpuAssumption, IdleFinite, IdleLinesStay DEF ReportInv, ReportTypeOK
<1>2. CASE DeriveUtilization
  BY <1>1, <1>2 DEF DeriveUtilization, UsedInv
<1>3. CASE UNCHANGED used
  BY <1>1, <1>3 DEF UsedInv
<1> QED
  BY <1>2, <1>3, StepKinds, FindsIdleKeeps DEF ReportStep, Command, ListSleepers,
     ListJobs, ListReady, ListSection, ListCpu, ListCpuProcess, ListFinished,
     reportVars

\* The "Cores used" of the reports of one run never rise, for any number of CPUs
\* and however processes come and go: the log queue is never emptied.
THEOREM UtilizationCorrect == ReportSpec => UtilizationNeverRises
<1>1. ReportInit => UsedInv
  <2> SUFFICES ASSUME ReportInit PROVE UsedInv
    OBVIOUS
  <2>1. Cardinality(IdleLines) \in Nat
    BY ReportSchedInit, IdleFinite
  <2> QED
    BY <2>1, CpuAssumption DEF ReportInit, UsedInv
<1>2. SchedInv /\ ReportInv /\ UsedInv /\ [ReportNext]_allVars =>
        UsedInv' /\ [used' <= used]_allVars
  BY UsedNext
<1> QED
  BY <1>1, <1>2, ReportSchedInit, ReportSchedNext, ReportTypesInit, ReportTypesNext,
     PTL DEF ReportSpec, UtilizationNeverRises

-----------------------------------------------------------------------------
(***************************************************************************)
(* The log queue holds one snapshot per cooldown that has passed: one more *)
(* from the moment SendSnapshot sends it until the tick counter follows.   *)
(***************************************************************************)
LEMMA CooldownPassed ==
  ASSUME NEW C \in Nat, C > 0, NEW t \in Nat
  PROVE  t \div C = ((t - 1) \div C) + (IF t % C = 0 THEN 1 ELSE 0)
<1>1. t \div C \in Int /\ t % C \in 0 .. C - 1 /\ t = C * (t \div C) + (t % C)
  OBVIOUS
<1>2. /\ (t - 1) \div C \in Int /\ (t - 1) % C \in 0 .. C - 1
      /\ t - 1 = C * ((t - 1) \div C) + ((t - 1) % C)
  OBVIOUS
<1> QED
  BY <1>1, <1>2

LogInv ==
  /\ Len(logQueue) = IF pc[Sched] \in {"b2", "b2w", "advance"}
                     THEN tick \div SnapshotCooldown
                     ELSE (tick - 1) \div SnapshotCooldown
  /\ pc[Sched] \in {"snap", "deref"} => tick % SnapshotCooldown = 0

LEMMA LogNext ==
  ASSUME SnapshotCooldown > 0, SchedInv, LogInv, [ReportNext]_allVars
  PROVE  LogInv'
<1> USE DEF SchedInv
<1> DEFINE sent == {"b2", "b2w", "advance"}
<1>1. /\ tick \in Nat /\ SnapshotCooldown \in Nat /\ Len(logQueue) \in Nat
      /\ logQueue \in Seq(SUBSET Cpus) /\ LabelTypes
  BY ConfigAssumption DEF TypeInv, TypeOK, DataTypes
<1>2. ASSUME NEW label \in SchedLabels, Goto(Sched, label) PROVE pc'[Sched] = label
  BY <1>1, <1>2, SchedGoto
<1>3. ASSUME UNCHANGED <<tick, logQueue>>,
             pc'[Sched] \in sent <=> pc[Sched] \in sent,
             pc'[Sched] \in {"snap", "deref"} => pc[Sched] \in {"snap", "deref"}
      PROVE  LogInv'
  BY <1>3 DEF LogInv
<1>4. CASE UNCHANGED <<tick, logQueue, pc>>
  BY <1>3, <1>4
<1>5. CASE ReportStep
  BY <1>4, <1>5, ReportKeepsScheduler
<1>6. CASE LogStatus
  <2>1. /\ pc[Sched] = "log" /\ UNCHANGED <<tick, logQueue>>
        /\ pc'[Sched] = IF tick % SnapshotCooldown = 0 THEN "snap" ELSE "b2"
    BY <1>2, <1>6 DEF LogStatus, logVars, SchedLabels
  <2>2. tick \div SnapshotCooldown = ((tick - 1) \div SnapshotCooldown)
           + (IF tick % SnapshotCooldown = 0 THEN 1 ELSE 0)
    BY <1>1, CooldownPassed
  <2>3. (tick - 1) \div SnapshotCooldown \in Int
    BY <1>1
  <2> QED
    BY <2>1, <2>2, <2>3 DEF LogInv
<1>7. CASE SendSnapshot
  <2>1. /\ pc[Sched] = "snap" /\ pc'[Sched] = "b2" /\ tick' = tick
        /\ Len(logQueue') = Len(logQueue) + 1
    BY <1>1, <1>2, <1>7 DEF SendSnapshot, SchedLabels
  <2>2. tick \div SnapshotCooldown = ((tick - 1) \div SnapshotCooldown) + 1
    BY <1>1, <2>1, CooldownPassed DEF LogInv
  <2> QED
    BY <2>1, <2>2 DEF LogInv
<1>8. CASE AdvanceTick
  <2>1. /\ pc[Sched] = "advance" /\ pc'[Sched] = "b3" /\ tick' - 1 = tick
        /\ UNCHANGED logQueue
    BY <1>1, <1>2, <1>8 DEF AdvanceTick, SchedLabels, logVars
  <2> QED
    BY <2>1 DEF LogInv
<1>9. CASE SchedulerAction /\ ~LogStatus /\ ~SendSnapshot /\ ~AdvanceTick
  <2> DEFINE labels == {"timer", "preempt", "redispatch", "b1", "admit",
                        "admit_send", "dispatch", "scan", "claim", "log"}
  <2>1. UNCHANGED <<tick, logQueue>>
    BY <1>9 DEF SchedulerAction, TimerCheck, CountQuantum, Preempt, Redispatch,
       EndPreemptionCheck, ReceiveJob, AdmitJob, EndAdmission, CheckReady, ScanCpu,
       ClaimCpu, EndScan, SnapshotCpu, FollowPointer, logVars
  <2>2. CASE SnapshotCpu \/ FollowPointer
    <3>1. /\ pc[Sched] \in {"snap", "deref"}
          /\ UNCHANGED pc \/ \E label \in {"snap", "deref"} : Goto(Sched, label)
      BY <2>2 DEF SnapshotCpu, FollowPointer
    <3>2. pc'[Sched] \in {"snap", "deref"}
      BY <1>2, <3>1 DEF SchedLabels
    <3> QED
      BY <1>3, <2>1, <3>1, <3>2
  <2>3. CASE ~SnapshotCpu /\ ~FollowPointer
    <3>1. /\ pc[Sched] \in labels
          /\ UNCHANGED pc \/ \E label \in labels : Goto(Sched, label)
      BY <1>9, <2>3 DEF SchedulerAction, TimerCheck, CountQuantum, Preempt,
         Redispatch, EndPreemptionCheck, ReceiveJob, AdmitJob, EndAdmission,
         CheckReady, ScanCpu, ClaimCpu, EndScan
    <3>2. pc'[Sched] \in labels
      BY <1>2, <3>1 DEF SchedLabels
    <3> QED
      BY <1>3, <2>1, <3>1, <3>2
  <2> QED
    BY <2>2, <2>3
<1>10. ASSUME NEW t \in Threads, TickBarrierSync(t) PROVE LogInv'
  BY <1>3, <1>10, BarrierSched DEF TickBarrierSync, logVars
<1>11. ASSUME NEW c \in Cpus, Fetch(c) \/ Execute(c) \/ Release(c) PROVE LogInv'
  BY <1>3, <1>11, WorkerKeepsOthers DEF Fetch, Execute, Release, logVars
<1>12. CASE [Next]_vars
  BY <1>4, <1>6, <1>7, <1>8, <1>9, <1>10, <1>11, <1>12, StepCases
     DEF SubmitProcess, SetSchedulingPolicy, vars, logVars
<1>13. CASE FindsCpuIdle
  BY <1>2, <1>3, <1>13, FindsIdleKeeps DEF SchedLabels
<1> QED
  BY <1>5, <1>12, <1>13, StepKinds

\* However often reports are built, log_queue keeps one snapshot for every
\* cooldown that has passed.  The code divides by the cooldown, so it is not 0.
THEOREM LogCompleteCorrect ==
  ASSUME SnapshotCooldown > 0
  PROVE  ReportSpec => []LogIsComplete
<1>1. ReportInit => LogInv
  <2> SUFFICES ASSUME ReportInit PROVE LogInv
    OBVIOUS
  <2>1. /\ pc[Sched] = "timer" /\ tick = 1 /\ logQueue = <<>>
    BY CpuAssumption DEF ReportInit, Init
  <2>2. (1 - 1) \div SnapshotCooldown = 0
    BY ConfigAssumption
  <2> QED
    BY <2>1, <2>2 DEF LogInv
<1>2. LogInv => LogIsComplete
  BY DEF LogInv, LogIsComplete
<1>3. SchedInv /\ LogInv /\ [ReportNext]_allVars => LogInv'
  BY LogNext
<1> QED
  BY <1>1, <1>2, <1>3, ReportSchedInit, ReportSchedNext, PTL DEF ReportSpec

-----------------------------------------------------------------------------
(***************************************************************************)
(* A report reads ready queue, CPUs and finished map in the order in which *)
(* a process that never sleeps moves.  So it misses such a process only if *)
(* a thread had it in hand when the report came to a CPU.                  *)
(***************************************************************************)
\* A process without a SLEEP never waits, so no release takes it to the timer.
AwakeInv == \A p \in Procs : NeverSleeps(p) => /\ pcb[p].sleep = 0
                                               /\ pcb[p].state # "WAITING"

LEMMA TickStaysAwake ==
  ASSUME NEW b \in ControlBlock, NEW program \in Seq(Instruction),
         NEW delays \in Nat, b.sleep = 0,
         \A n \in DOMAIN program : program[n].op # "SLEEP"
  PROVE  LET r == ExecuteTick(b, program, delays)
         IN  r.block.sleep = 0 /\ r.block.state # "WAITING"
<1> DEFINE r == ExecuteTick(b, program, delays)
<1>1. b.pc \in Nat /\ b.sleep \in Nat
  BY DEF ControlBlock
<1>2. b.pc < Len(program) => ~AtSleep(b, program)
  BY <1>1 DEF AtSleep
<1>3. TickCase(b, program, delays, r.block)
  BY TickCases
<1> HIDE DEF r
<1>4. r.block.sleep = 0 /\ r.block.state # "WAITING"
  BY <1>1, <1>2, <1>3 DEF TickCase, ServesDelay, IsOver, ServesSleep, Ends, Sleeps,
     Works, HasFields
<1> QED
  BY <1>4 DEF r

LEMMA AwakeNext ==
  ASSUME SchedInv, AwakeInv, [Next]_vars
  PROVE  AwakeInv'
<1> USE DEF SchedInv
<1> SUFFICES ASSUME NEW p \in Procs, NeverSleeps(p)
             PROVE  pcb'[p].sleep = 0 /\ pcb'[p].state # "WAITING"
  BY DEF AwakeInv, NeverSleeps
<1>1. pcb[p].sleep = 0 /\ pcb[p].state # "WAITING"
  BY DEF AwakeInv
<1>2. CASE \A c \in Cpus : ~Execute(c)
  BY <1>1, <1>2, BlocksKept
<1>3. ASSUME NEW c \in Cpus, Execute(c)
      PROVE  pcb'[p].sleep = 0 /\ pcb'[p].state # "WAITING"
  <2> DEFINE r == ExecuteTick(pcb[cur[c]], Program[cur[c]], TickDelay)
  <2>1. /\ pcb' = [pcb EXCEPT ![cur[c]] = r.block] /\ pcb \in [Procs -> ControlBlock]
        /\ pcb[p] \in ControlBlock /\ Program[p] \in Seq(Instruction)
        /\ TickDelay \in Nat
    BY <1>3, ProcAssumption, ConfigAssumption DEF Execute, TypeInv, TypeOK, DataTypes
  <2>2. CASE cur[c] # p
    <3> HIDE DEF r
    <3> QED
      BY <1>1, <2>1, <2>2
  <2>3. CASE cur[c] = p
    <3>1. r.block.sleep = 0 /\ r.block.state # "WAITING"
      BY <1>1, <2>1, <2>3, TickStaysAwake DEF NeverSleeps
    <3> HIDE DEF r
    <3> QED
      BY <2>1, <2>3, <3>1
  <2> QED
    BY <2>2, <2>3
<1> QED
  BY <1>2, <1>3

\* Ready queue, CPUs, finished map: a process that never sleeps stays in the one
\* it is in or goes on to the next.
LEMMA StaysInView ==
  ASSUME SchedInv, AwakeInv, [Next]_vars, NEW p \in Procs, NeverSleeps(p)
  PROVE  /\ p \in finished => p \in finished'
         /\ p \in readyQueue => p \in readyQueue' \cup OnCpu'
         /\ \A c \in Cpus : running[c] = p => running'[c] = p \/ p \in finished'
<1> DEFINE InView == /\ p \in finished => p \in finished'
                     /\ p \in readyQueue => p \in readyQueue' \cup OnCpu'
                     /\ \A c \in Cpus :
                          running[c] = p => running'[c] = p \/ p \in finished'
<1> SUFFICES InView
  OBVIOUS
<1> USE DEF SchedInv
<1>1. /\ running \in [Cpus -> Procs \cup {NoProc}] /\ readyQueue \subseteq Procs
      /\ NoProc \notin Procs
  BY ProcAssumption DEF TypeInv, TypeOK, DataTypes
<1>2. CASE readyQueue \subseteq readyQueue' /\ UNCHANGED <<running, finished>>
  BY <1>2
<1>3. ASSUME NEW c \in Cpus, DispatchToCpu(c), UNCHANGED finished PROVE InView
  <2>1. ASSUME NEW q \in readyQueue, running[c] = NoProc,
               readyQueue' = readyQueue \ {q}, running' = [running EXCEPT ![c] = q]
        PROVE  InView
    <3>1. /\ running'[c] = q /\ q # NoProc
          /\ \A d \in Cpus \ {c} : running'[d] = running[d]
      BY <1>1, <2>1
    <3>2. q \in OnCpu'
      BY <3>1 DEF OnCpu
    <3>3. \A d \in Cpus : running[d] = p => running'[d] = p
      BY <1>1, <2>1, <3>1
    <3> QED
      BY <1>3, <2>1, <3>2, <3>3
  <2> HIDE DEF InView
  <2> QED
    BY <1>2, <1>3, <2>1 DEF DispatchToCpu
<1>4. ASSUME NEW c \in Cpus, Release(c) PROVE InView
  <2>1. /\ running[c] = cur[c] /\ cur[c] # NoProc
        /\ ReleaseCpuInterrupt(c, cur[c], ctx[c]) /\ UNCHANGED readyQueue
    BY <1>4 DEF Release, WorkerOwnsProcess
  <2>2. finished \subseteq finished'
    BY <2>1 DEF ReleaseCpuInterrupt
  <2>3. \A d \in Cpus \ {c} : running'[d] = running[d]
    BY <1>4, WorkerKeepsOthers
  <2>4. running[c] = p => running'[c] = p \/ p \in finished'
    <3> SUFFICES ASSUME cur[c] = p PROVE running'[c] = running[c] \/ p \in finished'
      BY <2>1
    <3>1. pcb[p].state # "WAITING"
      BY DEF AwakeInv
    <3> QED
      BY <2>1, <3>1 DEF ReleaseCpuInterrupt
  <2> QED
    BY <2>1, <2>2, <2>3, <2>4
<1> HIDE DEF InView
<1>5. CASE SchedulerAction
  <2>1. CASE Redispatch \/ ClaimCpu
    <3>1. k \in Cpus /\ DispatchToCpu(k) /\ UNCHANGED finished
      BY <2>1, CpuAssumption DEF Redispatch, ClaimCpu, TypeInv, TypeOK, LocalTypes,
         LocalsOK
    <3> QED
      BY <1>3, <3>1
  <2>2. CASE Preempt
    BY <1>2, <2>2, PreemptReleasesNothing DEF Preempt
  <2>3. CASE TimerCheck \/ AdmitJob
    BY <1>2, <2>3 DEF TimerCheck, AdmitJob
  <2> QED
    BY <1>2, <1>5, <2>1, <2>2, <2>3 DEF SchedulerAction, CountQuantum,
       EndPreemptionCheck, ReceiveJob, EndAdmission, CheckReady, ScanCpu, EndScan,
       LogStatus, SnapshotCpu, FollowPointer, SendSnapshot, AdvanceTick, queueVars
<1> QED
  BY <1>2, <1>3, <1>4, <1>5, StepCases DEF SubmitProcess, SetSchedulingPolicy, Fetch,
     Execute, TickBarrierSync, queueVars, vars

\* p is on a CPU that the report has still to come to, or in the finished map; if a
\* thread has it in hand on its way there, it cleared a CPU that is still to come.
ToCome(p) == \/ \E c \in Cpus : c >= at /\ running[c] = p
             \/ p \in finished /\ \A h \in hand : h.proc = p => h.by \in at .. NumCpu - 1

\* Where a report that runs will still find p, if it owes it.
Findable(p) ==
  /\ main \in {"jobs", "ready"} => p \in readyQueue \cup OnCpu \cup finished
  /\ main \in {"cpus", "follow"} => crashed \/ ToCome(p)
  /\ ~Complete

OwedInv == /\ main \notin {"cpus", "follow"} => at = 0
           /\ main # "sleepers" =>
                \A p \in owed \ passed : NeverSleeps(p) => Findable(p)

\* What takes nothing in hand and moves no process.
LEMMA OwedQuietStep ==
  ASSUME OwedInv, UNCHANGED <<readyQueue, running, finished, crashed, reportVars>>,
         hand' \subseteq hand
  PROVE  OwedInv'
BY DEF OwedInv, Findable, ToCome, Complete, NeverSleeps, OnCpu, reportVars

LEMMA OwedThreadStep ==
  ASSUME SchedInv, ReportInv, AwakeInv, OwedInv, ~crashed,
         NEW t \in Threads, ThreadMoves(t)
  PROVE  OwedInv'
<1>1. /\ UNCHANGED <<main, at, owed, passed>> /\ owed \subseteq Procs
      /\ at \in Nat /\ NumCpu \in Nat
  BY CpuAssumption DEF ThreadMoves, reportVars, SchedInv, ReportInv, ReportTypeOK,
     TypeInv, TypeOK, DataTypes
<1>2. /\ ThreadStep(t) /\ hand' = hand \cup {[by |-> t, proc |-> q] : q \in Taken}
      /\ pc[t] \in LockLabels => hand = {}
  BY DEF ThreadMoves
<1>3. [Next]_vars
  BY <1>2, CpuAssumption DEF ThreadStep, Next, Step
<1>4. readyQueue \cap finished = {} /\ OnCpu \cap finished = {}
  BY DEF SchedInv, Conservation
<1> SUFFICES ASSUME NEW p \in owed, NeverSleeps(p), Findable(p) PROVE Findable(p)'
  BY <1>1 DEF OwedInv, NeverSleeps
<1>5. /\ p \in finished => p \in finished'
      /\ p \in readyQueue => p \in readyQueue' \cup OnCpu'
      /\ \A c \in Cpus : running[c] = p => running'[c] = p \/ p \in finished'
  BY <1>1, <1>3, StaysInView
<1>6. p \in OnCpu => p \in OnCpu' \cup finished'
  BY <1>5 DEF OnCpu
<1>7. ASSUME ToCome(p) PROVE ToCome(p)'
  <2>1. CASE Taken = {} /\ UNCHANGED <<running, finished>>
    BY <1>1, <1>2, <1>7, <2>1 DEF ToCome
  <2>2. ASSUME hand = {}, UNCHANGED finished, NEW d \in Cpus, DispatchToCpu(d)
        PROVE  ToCome(p)'
    <3>1. p \in finished => p \notin Taken
      BY <1>4, <2>2, DispatchTakes
    <3>2. \A c \in Cpus : running[c] = p => p \notin finished
      BY <1>1, <1>4, ProcAssumption DEF OnCpu
    <3> QED
      BY <1>1, <1>2, <1>5, <1>7, <2>2, <3>1, <3>2 DEF ToCome
  <2>3. ASSUME hand = {}, t \in Cpus, Release(t) PROVE ToCome(p)'
    <3>1. /\ cur[t] \in OnCpu /\ Taken \subseteq {cur[t]}
          /\ \A d \in Cpus \ {t} : running'[d] = running[d]
      BY <2>3, ReleaseTakes
    <3>2. \A h \in hand' : h.proc = cur[t] /\ h.by = t
      BY <1>2, <2>3, <3>1
    <3>3. CASE p \in finished
      BY <1>4, <1>5, <3>1, <3>2, <3>3 DEF ToCome
    <3>4. ASSUME NEW c \in Cpus, c >= at, running[c] = p PROVE ToCome(p)'
      <4>1. CASE running'[c] = p
        BY <1>1, <3>4, <4>1 DEF ToCome
      <4>2. CASE running'[c] # p
        <5>1. c = t /\ p \in finished'
          BY <1>5, <3>1, <3>4, <4>2
        <5>2. t \in at .. NumCpu - 1
          BY <1>1, <3>4, <5>1
        <5> QED
          BY <1>1, <3>2, <5>1, <5>2 DEF ToCome
      <4> QED
        BY <4>1, <4>2
    <3> QED
      BY <1>7, <3>3, <3>4 DEF ToCome
  <2> QED
    BY <1>2, <2>1, <2>2, <2>3, ThreadCases
<1> QED
  BY <1>1, <1>5, <1>6, <1>7 DEF Findable, Complete

LEMMA OwedReportStep ==
  ASSUME SchedInv, ReportInv, OwedInv, ~crashed, ReportStep
  PROVE  OwedInv'
<1>1. UNCHANGED <<jobQueue, readyQueue, running, finished>>
  BY ReportKeepsScheduler
<1>2. UNCHANGED <<Jobs, OnCpu>>
  BY <1>1 DEF Jobs, OnCpu
<1>3. /\ \A p \in OnCpu : p # NoProc /\ \E c \in Cpus : running[c] = p
      /\ Jobs \cap (readyQueue \cup OnCpu \cup finished) = {}
  BY DEF OnCpu, SchedInv, Conservation
<1>4. /\ at \in 0 .. NumCpu /\ NumCpu \in Nat /\ HandInv
      /\ owed \subseteq Procs /\ NoProc \notin Procs
  BY CpuAssumption, ProcAssumption
     DEF ReportInv, ReportTypeOK, SchedInv, TypeInv, TypeOK, DataTypes
<1>5. ASSUME NEW n \in {1, 2}, Command(n) PROVE OwedInv'
  BY <1>5 DEF Command, OwedInv, Findable, Complete
<1>6. CASE DeriveUtilization
  BY <1>6 DEF DeriveUtilization, OwedInv
<1>7. CASE ListSleepers
  BY <1>1, <1>2, <1>7 DEF ListSleepers, OwedInv, Findable, Complete
<1>8. CASE ListJobs
  BY <1>1, <1>2, <1>3, <1>8
     DEF ListJobs, ListSection, OwedInv, Findable, Complete, NeverSleeps
<1>9. CASE ListReady
  <2>1. /\ main = "ready" /\ main' = "cpus" /\ owed' = owed \ readyQueue /\ at = 0
        /\ UNCHANGED <<at, passed, hand>>
    BY <1>9 DEF ListReady, ListSection, OwedInv
  <2>2. ASSUME NEW p \in owed' \ passed, NeverSleeps(p) PROVE ToCome(p)
    <3>1. p \in OnCpu \cup finished
      BY <2>1, <2>2 DEF OwedInv, Findable
    <3>2. CASE p \in OnCpu
      BY <1>3, <2>1, <3>2 DEF ToCome
    <3>3. CASE p \in finished
      BY <1>4, <2>1, <3>3 DEF ToCome, HandInv
    <3> QED
      BY <3>1, <3>2, <3>3
  <2> QED
    BY <1>1, <2>1, <2>2 DEF OwedInv, Findable, ToCome, Complete, NeverSleeps
<1>10. CASE ListCpu
  <2>1. /\ main = "cpus" /\ at < NumCpu /\ UNCHANGED <<owed, hand>>
        /\ passed' = passed \cup InHand
        /\ \/ RunningNow(at) = NoProc /\ at' = at + 1 /\ main' = "cpus"
           \/ RunningNow(at) # NoProc /\ at' = at /\ main' = "follow"
    BY <1>10 DEF ListCpu
  <2>2. ASSUME NEW p \in owed \ passed', NeverSleeps(p) PROVE ToCome(p)'
    <3>1. ToCome(p) /\ p \notin InHand
      BY <2>1, <2>2 DEF OwedInv, Findable
    <3>2. \A h \in hand : h.proc # p
      BY <3>1 DEF InHand
    <3>3. at' = at + 1 => running[at] # p
      BY <1>4, <2>1, <3>1 DEF RunningNow
    <3> QED
      BY <1>1, <1>4, <2>1, <3>1, <3>2, <3>3 DEF ToCome
  <2> QED
    BY <2>1, <2>2 DEF OwedInv, Findable, Complete, NeverSleeps
<1>11. CASE ListCpuProcess
  <2>1. /\ main = "follow" /\ main' = "cpus" /\ at' = at + 1
        /\ owed' = owed \ {RunningNow(at)} /\ UNCHANGED <<passed, hand>>
        /\ crashed' = (RunningNow(at) = NoProc)
    BY <1>11 DEF ListCpuProcess
  <2>2. ASSUME NEW p \in owed' \ passed, NeverSleeps(p), RunningNow(at) # NoProc
        PROVE  ToCome(p)'
    <3>1. ToCome(p) /\ running[at] # p /\ running[at] # NoProc
      BY <2>1, <2>2 DEF OwedInv, Findable, RunningNow
    <3>2. CASE p \in finished
      <4>1. \A h \in hand : h.proc = p => running[h.by] = NoProc /\ h.by \in Cpus
        BY <1>4, <3>2 DEF HandInv
      <4>2. ASSUME p \in finished, \A h \in hand : h.proc = p => h.by \in at .. NumCpu - 1
            PROVE ToCome(p)'
        BY <1>1, <1>4, <2>1, <3>1, <4>1, <4>2 DEF ToCome
      <4>3. ASSUME NEW c \in Cpus, c >= at, running[c] = p PROVE ToCome(p)'
        BY <1>1, <1>4, <2>1, <3>1, <4>3 DEF ToCome
      <4> QED
        BY <3>1, <4>2, <4>3 DEF ToCome
    <3>3. CASE p \notin finished
      BY <1>1, <1>4, <2>1, <3>1, <3>3 DEF ToCome
    <3> QED
      BY <3>2, <3>3
  <2> QED
    BY <2>1, <2>2 DEF OwedInv, Findable, Complete, NeverSleeps
<1>12. CASE ListFinished
  <2>1. /\ main = "cpus" /\ at = NumCpu /\ owed' = owed \ FinishedNow /\ at' = 0
        /\ UNCHANGED passed
    BY <1>12 DEF ListFinished
  <2>2. ASSUME NEW p \in owed \ passed, NeverSleeps(p) PROVE p \in FinishedNow
    BY <1>4, <2>1, <2>2 DEF OwedInv, Findable, ToCome, FinishedNow, InHand
  <2> QED
    BY <2>1, <2>2 DEF OwedInv, NeverSleeps
<1> QED
  BY <1>5, <1>6, <1>7, <1>8, <1>9, <1>10, <1>11, <1>12 DEF ReportStep

\* For any number of CPUs and processes and wherever the report and the threads
\* interleave: whoever was admitted before a report began and never sleeps is in
\* it, unless a thread had it in hand when the report came to a CPU.
THEOREM OverlookedInHandCorrect == ReportSpec => []OverlookedInHand
<1>1. ReportInit => AwakeInv /\ OwedInv
  BY DEF ReportInit, Init, NewBlock, AwakeInv, OwedInv
<1>2. SchedInv /\ ReportInv /\ AwakeInv /\ OwedInv /\ [ReportNext]_allVars =>
        AwakeInv' /\ OwedInv'
  <2> SUFFICES ASSUME SchedInv, ReportInv, AwakeInv, OwedInv, [ReportNext]_allVars
               PROVE  AwakeInv' /\ OwedInv'
    OBVIOUS
  <2>1. ASSUME UNCHANGED pcb PROVE AwakeInv'
    BY <2>1 DEF AwakeInv, NeverSleeps
  <2>2. AwakeInv'
    BY <2>1, StepKinds, ReportKeepsScheduler, FindsIdleKeeps, AwakeNext
  <2>3. CASE ~crashed /\ ReportStep
    BY <2>2, <2>3, OwedReportStep
  <2>4. CASE ~crashed /\ \E t \in Threads : ThreadMoves(t)
    BY <2>2, <2>4, OwedThreadStep
  <2>5. CASE FindsCpuIdle
    BY <2>2, <2>5, FindsIdleKeeps, OwedQuietStep
  <2>6. CASE PutDown \/ CallerMoves \/ (Ended /\ UNCHANGED <<reportVars, hand>>)
               \/ UNCHANGED allVars
    BY <2>2, <2>6, OwedQuietStep DEF PutDown, CallerMoves, SubmitProcess,
       SetSchedulingPolicy, Ended, allVars, vars, queueVars, envVars
  <2> QED
    BY <2>2, <2>3, <2>4, <2>5, <2>6 DEF ReportNext
<1>3. OwedInv => OverlookedInHand
  BY DEF OwedInv, Findable, OverlookedInHand, Complete
<1> QED
  BY <1>1, <1>2, <1>3, ReportSchedInit, ReportSchedNext, ReportTypesInit,
     ReportTypesNext, PTL DEF ReportSpec

=============================================================================
