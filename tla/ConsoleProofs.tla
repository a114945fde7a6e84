--------------------------- MODULE ConsoleProofs ----------------------------
(***************************************************************************)
(* Proofs about Console, for any number of initializes, processes, names   *)
(* and ticks.  What holds of the map of finished processes follows from    *)
(* the theorems of FinishedMapProofs, Console being shown to implement     *)
(* FinishedMap.                                                            *)
(***************************************************************************)
EXTENDS Console, FiniteSetTheorems, TLAPS

Finished == INSTANCE FinishedMapProofs WITH
              GivenName <- [p \in Procs |-> p.given],
              held <- {screens[n] : n \in DOMAIN screens}

-----------------------------------------------------------------------------
(***************************************************************************)
(* Types, and where both threads can be.                                   *)
(***************************************************************************)
Mains == {"prompt", "init_scheduler", "init_generator", "join", "exit_join",
          "exit_delete", "ended", "attached"}

Threads == {"none", "loop", "make", "submit", "done"}

GeneratorType ==
  [sched : Nat, running : BOOLEAN, joinable : BOOLEAN, nextId : Nat]

\* Makers and ids of processes; user_pid only grows.
Submitted == [sched : Nat, by : {"user", "generator"}, pid : Nat,
              given : Seq(Nat)]

TypeInv ==
  /\ main \in Mains /\ inits \in 0 .. MaxInits /\ scheduler \in {0, inits}
  /\ main = "init_scheduler" => inits < MaxInits
  /\ generator \in GeneratorType /\ generator.sched \in 0 .. inits
  /\ thread \in Threads /\ id \in Nat
  /\ userPid \in FirstUserPid .. FirstUserPid + MaxUser
  /\ submitted \in Seq(Submitted)
  /\ typed \in Seq(UserNames)

LEMMA ConstantTypes ==
  /\ MaxInits \in Nat /\ MaxGenerated \in Nat /\ MaxUser \in Nat
  /\ FirstUserPid \in Nat /\ UserNames \subseteq Seq(Nat)
BY BoundAssumption, PidAssumption, NameAssumption

LEMMA InitTypeInv == Init => TypeInv
<1> SUFFICES ASSUME Init PROVE TypeInv
  OBVIOUS
<1>1. /\ main = "prompt" /\ inits = 0 /\ scheduler = 0 /\ thread = "none" /\ id = 0
      /\ userPid = FirstUserPid /\ submitted = <<>> /\ typed = <<>>
      /\ generator = NoGenerator
  BY DEF Init
<1>2. NoGenerator \in GeneratorType /\ NoGenerator.sched = 0
  BY DEF NoGenerator, GeneratorType
<1> QED
  BY <1>1, <1>2, ConstantTypes DEF TypeInv, Mains, Threads

-----------------------------------------------------------------------------
(***************************************************************************)
(* What each action does to the generator.                                 *)
(***************************************************************************)
SameGenerator == generator' = generator

\* Only these fields change.
Flags(running, joinable) ==
  /\ generator' \in GeneratorType
  /\ generator'.sched = generator.sched /\ generator'.nextId = generator.nextId
  /\ generator'.running <=> running
  /\ generator'.joinable <=> joinable

LEMMA NewGeneratorFields ==
  ASSUME NEW s \in Nat
  PROVE  /\ NewGenerator(s) \in GeneratorType
         /\ NewGenerator(s).sched = s /\ NewGenerator(s).nextId = 1
         /\ ~NewGenerator(s).running /\ ~NewGenerator(s).joinable
BY DEF NewGenerator, NoGenerator, GeneratorType

LEMMA GeneratorFlags ==
  ASSUME generator \in GeneratorType
  PROVE  /\ StartGenerator /\ ~generator.joinable => Flags(TRUE, TRUE)
         /\ \A next : StopGenerator(next) => Flags(FALSE, generator.joinable)
         /\ JoinGenerator => Flags(generator.running, FALSE)
<1>1. /\ generator.running \in BOOLEAN /\ generator.joinable \in BOOLEAN
      /\ generator.sched \in Nat /\ generator.nextId \in Nat
  BY DEF GeneratorType
<1>2. StartGenerator /\ ~generator.joinable => Flags(TRUE, TRUE)
  BY <1>1 DEF StartGenerator, Flags, GeneratorType
<1>3. \A next : StopGenerator(next) => Flags(FALSE, generator.joinable)
  BY <1>1 DEF StopGenerator, Flags, GeneratorType
<1>4. JoinGenerator => Flags(generator.running, FALSE)
  BY <1>1 DEF JoinGenerator, Flags, GeneratorType
<1> QED
  BY <1>2, <1>3, <1>4

\* The actions of Next, once each.
StepCase ==
  \/ Initialize \/ NewScheduler \/ ReplaceGenerator
  \/ StartGenerator \/ SchedulerStop \/ Exit \/ JoinGenerator \/ DeleteScheduler
  \/ \E n \in UserNames : CreateScreen(n)
  \/ \E n \in UserNames : AttachScreen(n)
  \/ DetachScreen
  \/ LoopTest \/ MakeProcess \/ SubmitGenerated
  \/ \E p \in Procs, t \in 1 .. MaxTick : FinishProcess(p, t)

LEMMA NextCases == [Next]_vars => (~crashed /\ StepCase) \/ UNCHANGED vars
BY DEF Next, Step, Ended, StepCase, CliStep, CliCommand, GeneratorStep

\* What CreateScreen and SubmitGenerated append.
LEMMA SubmitType ==
  ASSUME TypeInv, NEW by \in {"user", "generator"}, NEW pid \in Nat, NEW given \in Seq(Nat),
         Submit(Process(by, pid, given))
  PROVE  /\ submitted' \in Seq(Submitted)
         /\ Len(submitted') = Len(submitted) + 1
         /\ \A i \in 1 .. Len(submitted) : submitted'[i] = submitted[i]
         /\ submitted'[Len(submitted) + 1] = Process(by, pid, given)
         /\ Process(by, pid, given).by = by /\ Process(by, pid, given).pid = pid
<1>1. scheduler \in Nat
  BY ConstantTypes DEF TypeInv
<1>2. Process(by, pid, given) \in Submitted
  BY <1>1 DEF Process, Submitted
<1>3. submitted' = Append(submitted, Process(by, pid, given))
  BY DEF Submit
<1>4. Process(by, pid, given).by = by /\ Process(by, pid, given).pid = pid
  BY DEF Process
<1> QED
  BY <1>2, <1>3, <1>4 DEF TypeInv

LEMMA NextTypeInv == TypeInv /\ [Next]_vars => TypeInv'
<1> SUFFICES ASSUME TypeInv, [Next]_vars PROVE TypeInv'
  OBVIOUS
<1> USE ConstantTypes
<1>1. /\ inits \in Nat /\ userPid \in Nat /\ generator.sched \in Nat
      /\ generator.nextId \in Nat /\ scheduler \in Nat
  BY DEF TypeInv, GeneratorType
<1>2. CASE Initialize
  BY <1>2 DEF Initialize, TypeInv, screenVars, Mains
<1>3. CASE NewScheduler
  <2>1. inits' = inits + 1 /\ scheduler' = inits' /\ submitted' = <<>>
        /\ main' = "init_generator" /\ generator' = generator /\ thread' = thread
        /\ id' = id /\ userPid' = userPid /\ typed' = typed
    BY <1>3 DEF NewScheduler, screenVars
  <2>2. inits' \in 0 .. MaxInits /\ generator'.sched \in 0 .. inits'
    BY <1>1, <1>3, <2>1 DEF NewScheduler, TypeInv
  <2>3. generator' \in GeneratorType /\ thread' \in Threads /\ id' \in Nat
        /\ userPid' \in FirstUserPid .. FirstUserPid + MaxUser
        /\ typed' \in Seq(UserNames) /\ submitted' \in Seq(Submitted)
    BY <2>1 DEF TypeInv
  <2> QED
    BY <2>1, <2>2, <2>3 DEF TypeInv, Mains
<1>4. CASE ReplaceGenerator
  BY <1>1, <1>4, NewGeneratorFields DEF ReplaceGenerator, TypeInv, screenVars, Mains
<1>5. CASE StartGenerator
  BY <1>5, GeneratorFlags DEF StartGenerator, Flags, TypeInv, screenVars, Threads
<1>6. ASSUME NEW next \in {"join", "exit_join"}, StopGenerator(next) PROVE TypeInv'
  <2>1. Flags(FALSE, generator.joinable)
    BY <1>6, GeneratorFlags DEF TypeInv
  <2>2. /\ main' = next /\ inits' = inits /\ scheduler' = scheduler
        /\ thread' = thread /\ id' = id /\ userPid' = userPid
        /\ submitted' = submitted /\ typed' = typed /\ main = "prompt"
    BY <1>6 DEF StopGenerator, screenVars
  <2> QED
    BY <1>6, <2>1, <2>2 DEF Flags, TypeInv, Mains
<1>7. CASE JoinGenerator
  BY <1>7, GeneratorFlags DEF JoinGenerator, Flags, TypeInv, screenVars, Mains, Threads
<1>8. CASE DeleteScheduler
  BY <1>8 DEF DeleteScheduler, TypeInv, screenVars, Mains
<1>9. ASSUME NEW n \in UserNames, CreateScreen(n) PROVE TypeInv'
  <2>1. submitted' \in Seq(Submitted)
    BY <1>1, <1>9, SubmitType DEF CreateScreen
  <2>2. typed' \in Seq(UserNames)
    BY <1>9 DEF CreateScreen, TypeInv
  <2> QED
    BY <1>1, <1>9, <2>1, <2>2 DEF CreateScreen, TypeInv
<1>10. CASE \E n \in UserNames : AttachScreen(n)
  BY <1>10 DEF AttachScreen, TypeInv, screenVars, Mains
<1>11. CASE DetachScreen
  BY <1>11 DEF DetachScreen, TypeInv, screenVars, Mains
<1>12. CASE LoopTest
  BY <1>12 DEF LoopTest, TypeInv, screenVars, Threads
<1>13. CASE MakeProcess
  <2>1. generator.nextId + 1 \in Nat
    BY <1>1
  <2>2. generator' \in GeneratorType /\ generator'.sched = generator.sched
    BY <1>13, <2>1 DEF MakeProcess, TypeInv, GeneratorType
  <2> QED
    BY <1>1, <1>13, <2>2 DEF MakeProcess, TypeInv, screenVars, Threads
<1>14. CASE SubmitGenerated
  <2>1. submitted' \in Seq(Submitted)
    <3>1. id \in Nat /\ <<id>> \in Seq(Nat)
      BY DEF TypeInv
    <3> QED
      BY <1>14, <3>1, SubmitType DEF SubmitGenerated, TypeInv
  <2> QED
    BY <1>14, <2>1 DEF SubmitGenerated, TypeInv, screenVars, Threads
<1>15. CASE \E p \in Procs, t \in 1 .. MaxTick : FinishProcess(p, t)
  BY <1>15 DEF FinishProcess, TypeInv, screenVars
<1>16. CASE UNCHANGED vars
  BY <1>16 DEF vars, TypeInv, screenVars
<1>17. SchedulerStop => StopGenerator("join")
  BY DEF SchedulerStop
<1>18. Exit => StopGenerator("exit_join")
  BY DEF Exit
<1> QED
  BY <1>2, <1>3, <1>4, <1>5, <1>6, <1>7, <1>8, <1>9, <1>10, <1>11, <1>12, <1>13,
     <1>14, <1>15, <1>16, <1>17, <1>18, NextCases DEF StepCase

-----------------------------------------------------------------------------
(***************************************************************************)
(* Where the scheduler, the generator and its thread are to each other.    *)
(***************************************************************************)
PlaceInv ==
  /\ main \in {"prompt", "attached", "init_generator", "join", "exit_join"} =>
       scheduler = inits
  /\ main = "init_generator" =>
       inits > 0 /\ submitted = <<>> /\ generator.sched # scheduler
  /\ inits > 0 /\ main # "init_generator" => generator.sched > 0
  /\ thread # "none" => generator.sched > 0

\* A thread runs until it is joined, and is told to stop before that.
ThreadInv ==
  /\ generator.joinable <=> thread # "none"
  /\ generator.running => generator.joinable
  /\ ~crashed /\ generator.joinable =>
       generator.running \/ main \in {"join", "exit_join"}
  /\ main \in {"join", "exit_join", "exit_delete", "ended"} => ~generator.running
  /\ main \in {"exit_delete", "ended"} => ~generator.joinable

\* The id a thread has drawn is the last.
CounterInv ==
  /\ generator.nextId \in 1 .. MaxGenerated + 1
  /\ thread = "make" => generator.nextId <= MaxGenerated
  /\ thread = "submit" => id \in 1 .. MaxGenerated /\ generator.nextId = id + 1

RunInv == TypeInv /\ PlaceInv /\ ThreadInv /\ CounterInv

LEMMA InitRunInv == Init => RunInv
<1> SUFFICES ASSUME Init PROVE RunInv
  OBVIOUS
<1>1. /\ main = "prompt" /\ inits = 0 /\ scheduler = 0 /\ thread = "none"
      /\ ~generator.running /\ ~generator.joinable /\ generator.nextId = 1
  BY DEF Init, NoGenerator
<1>2. PlaceInv /\ ThreadInv
  BY <1>1 DEF PlaceInv, ThreadInv
<1>3. CounterInv
  BY <1>1, ConstantTypes DEF CounterInv
<1> QED
  BY <1>2, <1>3, InitTypeInv DEF RunInv

LEMMA NextPlaceInv == RunInv /\ [Next]_vars => PlaceInv'
<1> SUFFICES ASSUME RunInv, [Next]_vars PROVE PlaceInv'
  OBVIOUS
<1>1. /\ TypeInv /\ PlaceInv /\ ThreadInv
      /\ inits \in Nat /\ generator.sched \in 0 .. inits /\ generator \in GeneratorType
      /\ scheduler \in {0, inits}
  BY ConstantTypes DEF RunInv, TypeInv
<1>2. CASE Initialize
  BY <1>1, <1>2 DEF Initialize, PlaceInv
<1>3. CASE NewScheduler
  <2>1. inits' = inits + 1 /\ scheduler' = inits' /\ submitted' = <<>>
        /\ main' = "init_generator" /\ generator' = generator /\ thread' = thread
    BY <1>3 DEF NewScheduler
  <2>2. generator'.sched # scheduler' /\ inits' > 0
    BY <1>1, <2>1
  <2> QED
    BY <1>1, <2>1, <2>2 DEF PlaceInv
<1>4. CASE ReplaceGenerator
  BY <1>1, <1>4, NewGeneratorFields DEF ReplaceGenerator, PlaceInv, ThreadInv
<1>5. CASE StartGenerator
  BY <1>1, <1>5, GeneratorFlags DEF StartGenerator, Initialized, Flags, PlaceInv
<1>6. ASSUME NEW next \in {"join", "exit_join"}, StopGenerator(next) PROVE PlaceInv'
  <2>1. Flags(FALSE, generator.joinable)
    BY <1>1, <1>6, GeneratorFlags
  <2>2. /\ main' = next /\ inits' = inits /\ scheduler' = scheduler
        /\ thread' = thread /\ submitted' = submitted /\ main = "prompt"
    BY <1>6 DEF StopGenerator
  <2> QED
    BY <1>1, <1>6, <2>1, <2>2 DEF Flags, PlaceInv
<1>7. CASE JoinGenerator
  BY <1>1, <1>7, GeneratorFlags DEF JoinGenerator, Flags, PlaceInv
<1>8. CASE DeleteScheduler
  BY <1>1, <1>8 DEF DeleteScheduler, PlaceInv
<1>9. CASE \E n \in UserNames : CreateScreen(n)
  BY <1>1, <1>9 DEF CreateScreen, PlaceInv
<1>10. CASE \E n \in UserNames : AttachScreen(n)
  BY <1>1, <1>10 DEF AttachScreen, PlaceInv
<1>11. CASE DetachScreen
  BY <1>1, <1>11 DEF DetachScreen, PlaceInv
<1>12. CASE LoopTest
  BY <1>1, <1>12 DEF LoopTest, PlaceInv
<1>13. CASE MakeProcess
  <2>1. generator'.sched = generator.sched
    BY <1>1, <1>13 DEF MakeProcess, GeneratorType
  <2> QED
    BY <1>1, <1>13, <2>1 DEF MakeProcess, PlaceInv
<1>14. CASE SubmitGenerated
  BY <1>1, <1>14 DEF SubmitGenerated, PlaceInv
<1>15. CASE \E p \in Procs, t \in 1 .. MaxTick : FinishProcess(p, t)
  BY <1>1, <1>15 DEF FinishProcess, PlaceInv
<1>16. CASE UNCHANGED vars
  BY <1>1, <1>16 DEF vars, PlaceInv
<1> QED
  BY <1>2, <1>3, <1>4, <1>5, <1>6, <1>7, <1>8, <1>9, <1>10, <1>11, <1>12, <1>13,
     <1>14, <1>15, <1>16, NextCases DEF StepCase, SchedulerStop, Exit

LEMMA NextThreadInv == RunInv /\ [Next]_vars => ThreadInv' /\ CounterInv'
<1> SUFFICES ASSUME RunInv, [Next]_vars PROVE ThreadInv' /\ CounterInv'
  OBVIOUS
<1>1. /\ ThreadInv /\ CounterInv /\ generator \in GeneratorType /\ id \in Nat
      /\ generator.nextId \in Nat /\ MaxGenerated \in Nat
  BY ConstantTypes DEF RunInv, TypeInv, GeneratorType
<1>2. ASSUME generator' = generator, thread' = thread, id' = id,
             crashed' = crashed,
             main' = main \/ main' \in {"init_scheduler", "init_generator", "prompt",
                                        "attached", "ended"},
             ~crashed => main \notin {"join", "exit_join"},
             main' = "ended" => main \in {"exit_delete", "ended"}
      PROVE  ThreadInv' /\ CounterInv'
  BY <1>1, <1>2 DEF ThreadInv, CounterInv
<1>3. CASE ~crashed /\ (\/ Initialize \/ NewScheduler \/ DeleteScheduler
                        \/ (\E n \in UserNames : CreateScreen(n))
                        \/ (\E n \in UserNames : AttachScreen(n)) \/ DetachScreen)
  BY <1>2, <1>3 DEF Initialize, NewScheduler, DeleteScheduler, CreateScreen,
    AttachScreen, DetachScreen
<1>4. CASE ReplaceGenerator
  BY <1>1, <1>4, ConstantTypes, NewGeneratorFields
     DEF ReplaceGenerator, ThreadInv, CounterInv, RunInv, TypeInv
<1>5. CASE StartGenerator
  BY <1>1, <1>5, GeneratorFlags DEF StartGenerator, Flags, ThreadInv, CounterInv
<1>6. ASSUME NEW next \in {"join", "exit_join"}, StopGenerator(next)
      PROVE  ThreadInv' /\ CounterInv'
  <2>1. Flags(FALSE, generator.joinable)
    BY <1>1, <1>6, GeneratorFlags
  <2>2. main' = next /\ thread' = thread /\ id' = id
    BY <1>6 DEF StopGenerator
  <2> QED
    BY <1>1, <1>6, <2>1, <2>2 DEF Flags, ThreadInv, CounterInv
<1>7. CASE JoinGenerator
  BY <1>1, <1>7, GeneratorFlags DEF JoinGenerator, Flags, ThreadInv, CounterInv
<1>12. CASE LoopTest
  BY <1>1, <1>12 DEF LoopTest, ThreadInv, CounterInv
<1>13. CASE MakeProcess
  <2>1. /\ generator'.nextId = generator.nextId + 1
        /\ generator'.running = generator.running
        /\ generator'.joinable = generator.joinable
    BY <1>1, <1>13 DEF MakeProcess, GeneratorType
  <2>2. id' = generator.nextId /\ thread' = "submit" /\ thread = "make" /\ main' = main
        /\ crashed' = crashed
    BY <1>13 DEF MakeProcess
  <2>3. CounterInv'
    BY <1>1, <2>1, <2>2 DEF CounterInv
  <2> QED
    BY <1>1, <2>1, <2>2, <2>3 DEF ThreadInv
<1>14. CASE SubmitGenerated
  BY <1>1, <1>14 DEF SubmitGenerated, ThreadInv, CounterInv
<1>15. CASE \E p \in Procs, t \in 1 .. MaxTick : FinishProcess(p, t)
  BY <1>1, <1>15 DEF FinishProcess, ThreadInv, CounterInv
<1>16. CASE UNCHANGED vars
  BY <1>1, <1>16 DEF vars, ThreadInv, CounterInv
<1> QED
  BY <1>3, <1>4, <1>5, <1>6, <1>7, <1>12, <1>13,
     <1>14, <1>15, <1>16, NextCases DEF StepCase, SchedulerStop, Exit

LEMMA RunInvariant == Spec => []RunInv
<1>1. RunInv /\ [Next]_vars => RunInv'
  BY NextTypeInv, NextPlaceInv, NextThreadInv DEF RunInv
<1> QED
  BY <1>1, InitRunInv, PTL DEF Spec

-----------------------------------------------------------------------------
(***************************************************************************)
(* Lifetimes.                                                              *)
(***************************************************************************)
LifeInv ==
  /\ ~crashed
  /\ main \in {"init_scheduler", "init_generator"} => ~generator.joinable
  /\ main \in {"prompt", "attached", "join", "exit_join"} =>
       generator.sched = scheduler

LEMMA NextLifeInv ==
  ASSUME StopFirst
  PROVE  RunInv /\ LifeInv /\ [Next]_vars => LifeInv'
<1> SUFFICES ASSUME RunInv, LifeInv, [Next]_vars PROVE LifeInv'
  OBVIOUS
<1>1. /\ TypeInv /\ PlaceInv /\ ThreadInv /\ generator \in GeneratorType
      /\ scheduler \in Nat /\ generator.sched \in Nat
  BY ConstantTypes DEF RunInv, TypeInv
<1>2. CASE Initialize
  BY <1>1, <1>2 DEF Initialize, LifeInv, ThreadInv
<1>3. CASE NewScheduler \/ DeleteScheduler
  BY <1>1, <1>3 DEF NewScheduler, DeleteScheduler, LifeInv
<1>4. CASE ReplaceGenerator
  BY <1>1, <1>4, NewGeneratorFields DEF ReplaceGenerator, LifeInv
<1>5. CASE StartGenerator
  BY <1>1, <1>5, GeneratorFlags DEF StartGenerator, Flags, LifeInv, ThreadInv
<1>6. ASSUME NEW next \in {"join", "exit_join"}, StopGenerator(next) PROVE LifeInv'
  <2>1. Flags(FALSE, generator.joinable)
    BY <1>1, <1>6, GeneratorFlags
  <2>2. /\ main' = next /\ main = "prompt" /\ scheduler' = scheduler
        /\ crashed' = crashed
    BY <1>6 DEF StopGenerator
  <2> QED
    BY <1>1, <1>6, <2>1, <2>2 DEF Flags, LifeInv
<1>7. CASE JoinGenerator
  BY <1>1, <1>7, GeneratorFlags DEF JoinGenerator, Flags, LifeInv
<1>8. CASE \/ (\E n \in UserNames : CreateScreen(n))
           \/ (\E n \in UserNames : AttachScreen(n)) \/ DetachScreen
  BY <1>1, <1>8 DEF CreateScreen, AttachScreen, DetachScreen, LifeInv
<1>9. CASE LoopTest
  BY <1>1, <1>9 DEF LoopTest, LifeInv
<1>10. CASE MakeProcess
  <2>1. generator'.sched = generator.sched /\ generator'.joinable = generator.joinable
    BY <1>1, <1>10 DEF MakeProcess, GeneratorType
  <2> QED
    BY <1>1, <1>10, <2>1 DEF MakeProcess, LifeInv
<1>11. CASE SubmitGenerated
  <2>1. generator.joinable
    BY <1>1, <1>11 DEF SubmitGenerated, ThreadInv
  <2>2. generator.sched = scheduler
    BY <1>1, <2>1 DEF LifeInv, ThreadInv, TypeInv, Mains
  <2> QED
    BY <1>1, <1>11, <2>2 DEF SubmitGenerated, LifeInv
<1>12. CASE \E p \in Procs, t \in 1 .. MaxTick : FinishProcess(p, t)
  BY <1>12 DEF FinishProcess, LifeInv
<1>13. CASE UNCHANGED vars
  BY <1>13 DEF vars, LifeInv
<1> QED
  BY <1>2, <1>3, <1>4, <1>5, <1>6, <1>7, <1>8, <1>9, <1>10, <1>11, <1>12, <1>13,
     NextCases DEF StepCase, SchedulerStop, Exit

\* If the user stops the generator before each initialize, no thread uses a
\* scheduler that was deleted and no generator is deleted with its thread.
THEOREM LifetimesCorrect ==
  ASSUME StopFirst
  PROVE  Spec => []LifetimesAreRespected
<1>1. Init => LifeInv
  BY DEF Init, NoGenerator, LifeInv
<1>2. RunInv /\ LifeInv /\ [Next]_vars => LifeInv'
  BY NextLifeInv
<1>3. LifeInv => LifetimesAreRespected
  BY DEF LifeInv, LifetimesAreRespected
<1> QED
  BY <1>1, <1>2, <1>3, RunInvariant, PTL DEF Spec

-----------------------------------------------------------------------------
(***************************************************************************)
(* What is submitted.                                                      *)
(***************************************************************************)
Made(s, n) == {i \in 1 .. n : s[i].by = "generator"}

LEMMA MadeFinite ==
  ASSUME NEW s, NEW n \in Nat
  PROVE  IsFiniteSet(Made(s, n)) /\ Cardinality(Made(s, n)) \in Nat
<1>1. IsFiniteSet(1 .. n)
  BY FS_Interval
<1>2. IsFiniteSet(Made(s, n))
  BY <1>1, FS_Subset DEF Made
<1> QED
  BY <1>2, FS_CardinalityType

\* A step submits nothing, or one process, or leaves a scheduler nothing was
\* submitted to.
LEMMA SubmitCases ==
  ASSUME RunInv, [Next]_vars
  PROVE  \/ submitted' = submitted
         \/ NewScheduler /\ submitted' = <<>>
         \/ \E n \in UserNames : CreateScreen(n)
         \/ ~crashed /\ SubmitGenerated /\ generator.sched = scheduler
<1>1. CASE UNCHANGED vars
  BY <1>1 DEF vars
<1>2. CASE ~crashed /\ StepCase
  BY <1>2 DEF StepCase, Initialize, NewScheduler, ReplaceGenerator, StartGenerator,
    SchedulerStop, Exit, StopGenerator, JoinGenerator, DeleteScheduler, AttachScreen,
    DetachScreen, LoopTest, MakeProcess, SubmitGenerated, FinishProcess
<1> QED
  BY <1>1, <1>2, NextCases

\* Both ways to submit.
LEMMA CreateSubmits ==
  ASSUME RunInv, NEW n \in UserNames, CreateScreen(n)
  PROVE  /\ submitted' \in Seq(Submitted) /\ Len(submitted') = Len(submitted) + 1
         /\ \A i \in 1 .. Len(submitted) : submitted'[i] = submitted[i]
         /\ submitted'[Len(submitted) + 1].by = "user"
         /\ submitted'[Len(submitted) + 1].pid = userPid
<1>1. TypeInv /\ userPid \in Nat /\ n \in Seq(Nat)
  BY ConstantTypes DEF RunInv, TypeInv
<1>2. Submit(Process("user", userPid, n))
  BY DEF CreateScreen
<1> QED
  BY <1>1, <1>2, SubmitType

LEMMA GeneratorSubmits ==
  ASSUME RunInv, SubmitGenerated, generator.sched = scheduler
  PROVE  /\ submitted' \in Seq(Submitted) /\ Len(submitted') = Len(submitted) + 1
         /\ \A i \in 1 .. Len(submitted) : submitted'[i] = submitted[i]
         /\ submitted'[Len(submitted) + 1].by = "generator"
         /\ submitted'[Len(submitted) + 1].pid = id
<1>1. TypeInv /\ id \in Nat /\ <<id>> \in Seq(Nat)
  BY DEF RunInv, TypeInv
<1>2. Submit(Process("generator", id, <<id>>))
  BY DEF SubmitGenerated
<1> QED
  BY <1>1, <1>2, SubmitType

LEMMA MadeGrows ==
  ASSUME NEW s \in Seq(Submitted), NEW t \in Seq(Submitted), Len(t) = Len(s) + 1,
         \A i \in 1 .. Len(s) : t[i] = s[i]
  PROVE  /\ \A n \in 1 .. Len(s) : Made(t, n) = Made(s, n)
         /\ Cardinality(Made(t, Len(t))) =
              Cardinality(Made(s, Len(s)))
                + IF t[Len(s) + 1].by = "generator" THEN 1 ELSE 0
<1> DEFINE L == Len(s)
<1>1. L \in Nat
  OBVIOUS
<1>2. \A n \in 1 .. L : Made(t, n) = Made(s, n)
  <2> SUFFICES ASSUME NEW n \in 1 .. L PROVE Made(t, n) = Made(s, n)
    OBVIOUS
  <2>1. \A i \in 1 .. n : t[i] = s[i]
    OBVIOUS
  <2> QED
    BY <2>1 DEF Made
<1>3. IsFiniteSet(Made(s, L)) /\ Cardinality(Made(s, L)) \in Nat /\ L + 1 \notin Made(s, L)
  BY <1>1, MadeFinite DEF Made
<1>4. CASE t[L + 1].by = "generator"
  <2>1. Made(t, L + 1) = Made(s, L) \cup {L + 1}
    BY <1>1, <1>4 DEF Made
  <2> QED
    BY <1>2, <1>3, <1>4, <2>1, FS_AddElement
<1>5. CASE t[L + 1].by # "generator"
  <2>1. Made(t, L + 1) = Made(s, L)
    BY <1>1, <1>5 DEF Made
  <2> QED
    BY <1>2, <1>3, <1>5, <2>1
<1> QED
  BY <1>4, <1>5

\* Once scheduler-stop has returned, the generator's thread is gone: only one that
\* still runs or is waited for submits.
THEOREM StopMeansStoppedCorrect == Spec => StopMeansStopped
<1> DEFINE count == Cardinality(Generated(Len(submitted)))
           Right == Cardinality(Generated(Len(submitted))')
                      > Cardinality(Generated(Len(submitted))) =>
                        generator.running \/ main \in {"join", "exit_join"}
<1>1. RunInv /\ [Next]_vars => Right
  <2> SUFFICES ASSUME RunInv, [Next]_vars PROVE Right
    OBVIOUS
  <2>1. count = Cardinality(Made(submitted, Len(submitted)))
        /\ count' = Cardinality(Made(submitted', Len(submitted')))
    BY DEF Generated, Made
  <2>2. submitted \in Seq(Submitted) /\ Len(submitted) \in Nat /\ count \in Nat
    BY <2>1, MadeFinite DEF RunInv, TypeInv
  <2>3. CASE submitted' = submitted
    BY <2>1, <2>2, <2>3
  <2>4. CASE NewScheduler /\ submitted' = <<>>
    <3>1. Made(submitted', Len(submitted')) = {}
      BY <2>4 DEF Made
    <3> QED
      BY <2>1, <2>2, <3>1, FS_EmptySet
  <2>5. CASE \E n \in UserNames : CreateScreen(n)
    <3>1. PICK n \in UserNames : CreateScreen(n)
      BY <2>5
    <3>2. count' = count + 0
      BY <2>1, <2>2, <3>1, CreateSubmits, MadeGrows
    <3> QED
      BY <2>2, <3>2
  <2>6. CASE ~crashed /\ SubmitGenerated
    BY <2>6 DEF SubmitGenerated, RunInv, ThreadInv
  <2> QED
    BY <2>3, <2>4, <2>5, <2>6, SubmitCases
<1>2. RunInv /\ [Next]_vars => [Right]_vars
  BY <1>1
<1> QED
  BY <1>2, RunInvariant, PTL DEF Spec, StopMeansStopped

\* The generator has submitted one process for each id it has drawn, except the one
\* it has in hand, as long as the scheduler is its own.
CountInv ==
  ~crashed /\ generator.sched = scheduler =>
    Cardinality(Generated(Len(submitted))) + 1 =
      IF thread = "submit" THEN id ELSE generator.nextId

OrderInv == GeneratedInOrder /\ CountInv

LEMMA SubmitOrderInv ==
  ASSUME RunInv, OrderInv, NEW by \in {"user", "generator"}, NEW pid \in Nat,
         submitted' \in Seq(Submitted), Len(submitted') = Len(submitted) + 1,
         \A i \in 1 .. Len(submitted) : submitted'[i] = submitted[i],
         submitted'[Len(submitted) + 1].by = by,
         submitted'[Len(submitted) + 1].pid = pid,
         by = "generator" =>
           pid = Cardinality(Generated(Len(submitted))) + 1
  PROVE  /\ GeneratedInOrder'
         /\ Cardinality(Generated(Len(submitted))') =
              Cardinality(Generated(Len(submitted)))
                + IF by = "generator" THEN 1 ELSE 0
<1> DEFINE s == submitted
           t == submitted'
           L == Len(s)
<1>1. s \in Seq(Submitted) /\ L \in Nat /\ DOMAIN s = 1 .. L
  BY DEF RunInv, TypeInv
<1>2. /\ \A n \in 1 .. L : Made(t, n) = Made(s, n)
      /\ Cardinality(Made(t, L + 1)) =
           Cardinality(Made(s, L)) + IF by = "generator" THEN 1 ELSE 0
  BY <1>1, MadeGrows
<1>3. \A i \in Made(s, L) : s[i].pid = Cardinality(Made(s, i))
  BY DEF OrderInv, GeneratedInOrder, Generated, Made
<1>4. \A i \in Made(t, L + 1) : t[i].pid = Cardinality(Made(t, i))
  <2> SUFFICES ASSUME NEW i \in Made(t, L + 1)
               PROVE  t[i].pid = Cardinality(Made(t, i))
    OBVIOUS
  <2>1. CASE i \in 1 .. L
    <3>1. i \in Made(s, L) /\ t[i] = s[i]
      BY <1>1, <2>1 DEF Made
    <3> QED
      BY <1>2, <1>3, <2>1, <3>1
  <2>2. CASE i = L + 1
    <3>1. by = "generator"
      BY <2>2 DEF Made
    <3>2. pid = Cardinality(Made(s, L)) + 1
      BY <3>1 DEF Generated, Made
    <3> QED
      BY <1>2, <2>2, <3>1, <3>2
  <2> QED
    BY <1>1, <2>1, <2>2 DEF Made
<1>5. GeneratedInOrder'
  <2>1. GeneratedInOrder' <=>
          \A i \in Made(t, L + 1) : t[i].pid = Cardinality(Made(t, i))
    BY DEF GeneratedInOrder, Generated, Made
  <2> QED
    BY <1>4, <2>1
<1>6. Generated(Len(submitted))' = Made(t, L + 1) /\ Generated(L) = Made(s, L)
  BY DEF Generated, Made
<1> QED
  BY <1>2, <1>5, <1>6

LEMMA NextGeneratedInOrder == RunInv /\ OrderInv /\ [Next]_vars => GeneratedInOrder'
<1> SUFFICES ASSUME RunInv, OrderInv, [Next]_vars PROVE GeneratedInOrder'
  OBVIOUS
<1>1. CASE submitted' = submitted
  BY <1>1 DEF OrderInv, GeneratedInOrder, Generated
<1>2. CASE submitted' = <<>>
  BY <1>2 DEF GeneratedInOrder, Generated
<1>3. ASSUME NEW n \in UserNames, CreateScreen(n) PROVE GeneratedInOrder'
  <2>1. userPid \in Nat
    BY ConstantTypes DEF RunInv, TypeInv
  <2> QED
    BY <1>3, <2>1, CreateSubmits, SubmitOrderInv
<1>4. CASE ~crashed /\ SubmitGenerated /\ generator.sched = scheduler
  <2>1. id \in Nat /\ id = Cardinality(Generated(Len(submitted))) + 1
    BY <1>4 DEF RunInv, TypeInv, OrderInv, CountInv, SubmitGenerated
  <2> QED
    BY <1>4, <2>1, GeneratorSubmits, SubmitOrderInv
<1> QED
  BY <1>1, <1>2, <1>3, <1>4, SubmitCases

LEMMA NextCountInv == RunInv /\ OrderInv /\ [Next]_vars => CountInv'
<1> SUFFICES ASSUME RunInv, OrderInv, [Next]_vars PROVE CountInv'
  OBVIOUS
<1> DEFINE count == Cardinality(Made(submitted, Len(submitted)))
           last == IF thread = "submit" THEN id ELSE generator.nextId
<1>1. /\ TypeInv /\ PlaceInv /\ ThreadInv /\ CounterInv
      /\ generator \in GeneratorType /\ generator.nextId \in Nat
      /\ scheduler \in Nat /\ generator.sched \in Nat /\ inits \in Nat
      /\ generator.sched <= inits
  BY ConstantTypes DEF RunInv, TypeInv, GeneratorType
<1>2. count \in Nat
  BY MadeFinite DEF RunInv, TypeInv
<1>3. /\ CountInv <=> (~crashed /\ generator.sched = scheduler => count + 1 = last)
      /\ CountInv' <=> (~crashed' /\ generator'.sched = scheduler' =>
                          count' + 1 = last')
  BY DEF CountInv, Generated, Made
<1>4. CountInv
  BY DEF OrderInv
<1>5. submitted' = submitted => count' = count
  OBVIOUS
<1> HIDE DEF count
<1>6. ASSUME submitted' = submitted, generator' = generator, thread' = thread,
             id' = id, crashed' = crashed,
             scheduler' = scheduler \/ (scheduler' = 0 /\ main # "init_generator")
      PROVE  CountInv'
  BY <1>1, <1>3, <1>4, <1>5, <1>6 DEF PlaceInv, TypeInv
<1>7. CASE Initialize \/ DeleteScheduler \/ DetachScreen
           \/ (\E n \in UserNames : AttachScreen(n))
           \/ (\E p \in Procs, t \in 1 .. MaxTick : FinishProcess(p, t))
           \/ UNCHANGED vars
  <2>1. /\ submitted' = submitted /\ generator' = generator /\ thread' = thread
        /\ id' = id /\ crashed' = crashed
    BY <1>7 DEF Initialize, DeleteScheduler, DetachScreen, AttachScreen,
      FinishProcess, vars
  <2>2. scheduler' = scheduler \/ (scheduler' = 0 /\ main # "init_generator")
    <3>1. CASE Initialize \/ DeleteScheduler
      BY <3>1 DEF Initialize, DeleteScheduler
    <3>2. CASE ~(Initialize \/ DeleteScheduler)
      BY <1>7, <3>2 DEF DetachScreen, AttachScreen, FinishProcess, vars
    <3> QED
      BY <3>1, <3>2
  <2> QED
    BY <1>6, <2>1, <2>2
<1>8. CASE NewScheduler
  <2>1. inits' = inits + 1 /\ scheduler' = inits' /\ generator' = generator
    BY <1>8 DEF NewScheduler
  <2> QED
    BY <1>1, <1>3, <2>1
<1>9. CASE ReplaceGenerator
  <2>1. CASE generator.joinable
    BY <1>3, <1>9, <2>1 DEF ReplaceGenerator
  <2>2. CASE ~generator.joinable
    <3>1. generator'.nextId = 1 /\ thread' = "none"
      BY <1>1, <1>9, <2>2, NewGeneratorFields DEF ReplaceGenerator, ThreadInv
    <3>2. Made(submitted', Len(submitted')) = {}
      BY <1>1, <1>9 DEF ReplaceGenerator, PlaceInv, Made
    <3>3. count' = 0
      BY <3>2, FS_EmptySet DEF count
    <3> QED
      BY <1>3, <3>1, <3>3
  <2> QED
    BY <2>1, <2>2
<1>10. CASE StartGenerator
  <2>1. CASE generator.joinable
    BY <1>3, <1>10, <2>1 DEF StartGenerator
  <2>2. CASE ~generator.joinable
    <3>1. Flags(TRUE, TRUE)
      BY <1>1, <1>10, <2>2, GeneratorFlags
    <3>2. thread = "none" /\ thread' = "loop" /\ submitted' = submitted
          /\ scheduler' = scheduler /\ crashed' = crashed
      BY <1>1, <1>10, <2>2 DEF StartGenerator, ThreadInv
    <3> QED
      BY <1>3, <1>4, <1>5, <3>1, <3>2 DEF Flags
  <2> QED
    BY <2>1, <2>2
<1>11. ASSUME NEW next, StopGenerator(next) PROVE CountInv'
  <2>1. Flags(FALSE, generator.joinable)
    BY <1>1, <1>11, GeneratorFlags
  <2> QED
    BY <1>3, <1>4, <1>5, <1>11, <2>1 DEF StopGenerator, Flags
<1>12. CASE JoinGenerator
  <2>1. Flags(generator.running, FALSE)
    BY <1>1, <1>12, GeneratorFlags
  <2>2. thread # "submit" /\ thread' # "submit"
    BY <1>1, <1>12 DEF JoinGenerator, ThreadInv
  <2> QED
    BY <1>3, <1>4, <1>5, <1>12, <2>1, <2>2 DEF JoinGenerator, Flags
<1>13. CASE LoopTest
  BY <1>3, <1>4, <1>5, <1>13 DEF LoopTest
<1>14. CASE MakeProcess
  <2>1. generator'.sched = generator.sched
    BY <1>1, <1>14 DEF MakeProcess, GeneratorType
  <2> QED
    BY <1>3, <1>4, <1>5, <1>14, <2>1 DEF MakeProcess
<1>15. ASSUME NEW n \in UserNames, CreateScreen(n) PROVE CountInv'
  <2>1. userPid \in Nat
    BY <1>1, ConstantTypes DEF TypeInv
  <2>2. Cardinality(Generated(Len(submitted))') = Cardinality(Generated(Len(submitted))) + 0
    BY <1>15, <2>1, CreateSubmits, SubmitOrderInv
  <2>3. count' = count + 0
    BY <2>2 DEF count, Generated, Made
  <2> QED
    BY <1>2, <1>3, <1>4, <1>15, <2>3 DEF CreateScreen
<1>16. CASE SubmitGenerated
  <2>1. CASE generator.sched # scheduler
    BY <1>3, <1>16, <2>1 DEF SubmitGenerated
  <2>2. CASE ~crashed /\ generator.sched = scheduler
    <3>1. id \in Nat /\ id = count + 1
      BY <1>1, <1>3, <1>4, <1>16, <2>2 DEF TypeInv, SubmitGenerated
    <3>2. id = Cardinality(Generated(Len(submitted))) + 1
      BY <3>1 DEF count, Generated, Made
    <3>3. Cardinality(Generated(Len(submitted))') = Cardinality(Generated(Len(submitted))) + 1
      BY <1>16, <2>2, <3>1, <3>2, GeneratorSubmits, SubmitOrderInv
    <3>4. count' = count + 1
      BY <3>3 DEF count, Generated, Made
    <3>5. generator' = generator /\ generator.nextId = id + 1 /\ thread' = "loop"
      BY <1>1, <1>16 DEF SubmitGenerated, CounterInv
    <3> QED
      BY <1>2, <1>3, <3>1, <3>4, <3>5
  <2>3. CASE crashed
    BY <1>3, <1>16, <2>3 DEF SubmitGenerated
  <2> QED
    BY <2>1, <2>2, <2>3
<1> QED
  BY <1>7, <1>8, <1>9, <1>10, <1>11, <1>12, <1>13, <1>14, <1>15, <1>16, NextCases
     DEF StepCase, SchedulerStop, Exit

\* The generator's processes reach a scheduler in the order of their ids, and none
\* is missing, however often it was stopped and started.
THEOREM GeneratedInOrderCorrect == Spec => []GeneratedInOrder
<1>1. Init => OrderInv
  <2> SUFFICES ASSUME Init PROVE OrderInv
    OBVIOUS
  <2>1. submitted = <<>> /\ thread = "none" /\ generator.nextId = 1
    BY DEF Init, NoGenerator
  <2>2. \A n \in Nat : n = 0 => Generated(n) = {}
    BY DEF Generated
  <2>3. Cardinality(Generated(Len(submitted))) = 0 /\ Generated(Len(submitted)) = {}
    BY <2>1, <2>2, FS_EmptySet
  <2> QED
    BY <2>1, <2>3 DEF OrderInv, CountInv, GeneratedInOrder
<1>2. RunInv /\ OrderInv /\ [Next]_vars => OrderInv'
  BY NextGeneratedInOrder, NextCountInv DEF OrderInv
<1>3. OrderInv => GeneratedInOrder
  BY DEF OrderInv
<1> QED
  BY <1>1, <1>2, <1>3, RunInvariant, PTL DEF Spec

-----------------------------------------------------------------------------
(***************************************************************************)
(* Ids: each of the two counters is above the ids it gave, and the user's  *)
(* are all above where it began.                                           *)
(***************************************************************************)
Drawn == IF thread = "submit" THEN id ELSE generator.nextId

IdInv ==
  /\ \A i \in DOMAIN submitted :
       \/ submitted[i].by = "user" /\ submitted[i].pid \in FirstUserPid .. userPid - 1
       \/ submitted[i].by = "generator" /\ submitted[i].pid < Drawn
  /\ \A i, j \in DOMAIN submitted :
       submitted[i].by = submitted[j].by /\ submitted[i].pid = submitted[j].pid => i = j

LEMMA PidType ==
  ASSUME RunInv
  PROVE  \A i \in DOMAIN submitted : submitted[i].pid \in Nat
<1>1. \A i \in DOMAIN submitted : submitted[i] \in Submitted
  BY DEF RunInv, TypeInv
<1> QED
  BY <1>1 DEF Submitted

LEMMA NextDrawn ==
  ASSUME RunInv, [Next]_vars
  PROVE  /\ userPid \in Nat /\ userPid' \in Nat /\ userPid <= userPid'
         /\ Drawn \in Nat /\ Drawn' \in Nat
         /\ Drawn <= Drawn' \/ submitted' = <<>>
<1>1. /\ TypeInv /\ ThreadInv /\ PlaceInv /\ CounterInv /\ generator \in GeneratorType
      /\ generator.nextId \in Nat /\ id \in Nat /\ userPid \in Nat
  BY ConstantTypes DEF RunInv, TypeInv, GeneratorType
<1>2. /\ Drawn \in Nat /\ (thread = "submit" => generator.nextId = id + 1)
  BY <1>1 DEF Drawn, CounterInv
<1>3. userPid' = userPid \/ userPid' = userPid + 1
  <2>1. CASE \E n \in UserNames : CreateScreen(n)
    BY <2>1 DEF CreateScreen
  <2>2. CASE UNCHANGED vars
    BY <2>2 DEF vars, screenVars
  <2>3. CASE StepCase /\ ~(\E n \in UserNames : CreateScreen(n))
    BY <2>3 DEF StepCase, screenVars, Initialize, NewScheduler, ReplaceGenerator,
      StartGenerator, SchedulerStop, Exit, StopGenerator, JoinGenerator,
      DeleteScheduler, AttachScreen, DetachScreen, LoopTest, MakeProcess,
      SubmitGenerated, FinishProcess
  <2> QED
    BY <2>1, <2>2, <2>3, NextCases
<1>4. ASSUME generator' = generator, thread' = thread, id' = id
      PROVE  Drawn' = Drawn
  BY <1>4 DEF Drawn
<1>5. CASE Initialize \/ NewScheduler \/ DeleteScheduler \/ DetachScreen
           \/ (\E n \in UserNames : CreateScreen(n))
           \/ (\E n \in UserNames : AttachScreen(n))
           \/ (\E p \in Procs, t \in 1 .. MaxTick : FinishProcess(p, t))
           \/ UNCHANGED vars
  <2>1. generator' = generator /\ thread' = thread /\ id' = id
    BY <1>5 DEF Initialize, NewScheduler, DeleteScheduler, DetachScreen, CreateScreen,
      AttachScreen, FinishProcess, vars
  <2> QED
    BY <1>1, <1>2, <1>3, <1>4, <2>1
<1>6. CASE ReplaceGenerator
  <2>1. submitted' = <<>>
    BY <1>1, <1>6 DEF ReplaceGenerator, PlaceInv
  <2>2. generator' \in GeneratorType /\ thread' = thread /\ id' = id
    BY <1>1, <1>6, NewGeneratorFields, ConstantTypes DEF ReplaceGenerator, TypeInv
  <2>3. Drawn' \in Nat
    BY <1>1, <2>2 DEF Drawn, GeneratorType
  <2> QED
    BY <1>1, <1>2, <1>3, <2>1, <2>3
<1>7. CASE StartGenerator \/ (\E next : StopGenerator(next)) \/ JoinGenerator
  <2>1. /\ generator'.nextId = generator.nextId /\ id' = id
        /\ thread' = thread \/ (thread # "submit" /\ thread' # "submit")
    <3>1. CASE StartGenerator
      <4>1. CASE generator.joinable
        BY <3>1, <4>1 DEF StartGenerator
      <4>2. CASE ~generator.joinable
        BY <1>1, <3>1, <4>2, GeneratorFlags DEF StartGenerator, Flags, ThreadInv
      <4> QED
        BY <4>1, <4>2
    <3>2. CASE \E next : StopGenerator(next)
      BY <1>1, <3>2, GeneratorFlags DEF StopGenerator, Flags
    <3>3. CASE JoinGenerator
      BY <1>1, <3>3, GeneratorFlags DEF JoinGenerator, Flags, ThreadInv
    <3> QED
      BY <1>7, <3>1, <3>2, <3>3
  <2>2. Drawn' = Drawn
    BY <2>1 DEF Drawn
  <2> QED
    BY <1>1, <1>2, <1>3, <2>2
<1>8. CASE LoopTest
  BY <1>1, <1>2, <1>3, <1>8 DEF LoopTest, Drawn
<1>9. CASE MakeProcess
  BY <1>1, <1>2, <1>3, <1>9 DEF MakeProcess, Drawn
<1>10. CASE SubmitGenerated
  BY <1>1, <1>2, <1>3, <1>10 DEF SubmitGenerated, Drawn
<1> QED
  BY <1>5, <1>6, <1>7, <1>8, <1>9, <1>10, NextCases DEF StepCase, SchedulerStop, Exit

LEMMA SubmitIdInv ==
  ASSUME RunInv, IdInv, [Next]_vars, NEW by \in {"user", "generator"},
         submitted' \in Seq(Submitted), Len(submitted') = Len(submitted) + 1,
         \A i \in 1 .. Len(submitted) : submitted'[i] = submitted[i],
         submitted'[Len(submitted) + 1].by = by,
         LET pid == submitted'[Len(submitted) + 1].pid
         IN  IF by = "user" THEN pid = userPid /\ userPid' = userPid + 1
             ELSE pid = Drawn /\ Drawn' = Drawn + 1
  PROVE  IdInv'
<1> DEFINE L == Len(submitted)
<1>1. submitted \in Seq(Submitted) /\ L \in Nat /\ DOMAIN submitted = 1 .. L
      /\ DOMAIN submitted' = 1 .. L + 1 /\ FirstUserPid \in Nat
      /\ userPid >= FirstUserPid
  BY ConstantTypes DEF RunInv, TypeInv
<1>2. /\ userPid \in Nat /\ userPid' \in Nat /\ userPid <= userPid'
      /\ Drawn \in Nat /\ Drawn' \in Nat /\ Drawn <= Drawn'
  BY <1>1, NextDrawn
<1>3. /\ \A i \in 1 .. L :
           /\ submitted[i].pid \in Nat
           /\ \/ submitted[i].by = "user" /\ submitted[i].pid \in FirstUserPid .. userPid - 1
              \/ submitted[i].by = "generator" /\ submitted[i].pid < Drawn
      /\ \A i, j \in 1 .. L :
           submitted[i].by = submitted[j].by /\ submitted[i].pid = submitted[j].pid => i = j
  BY <1>1, PidType DEF IdInv
<1> DEFINE new == submitted'[L + 1]
<1>4. /\ new.by = by
      /\ by = "user" => new.pid = userPid /\ userPid' = userPid + 1
      /\ by = "generator" => new.pid = Drawn /\ Drawn' = Drawn + 1
  OBVIOUS
<1>5. \A i \in 1 .. L + 1 : i \in 1 .. L \/ i = L + 1
  BY <1>1
<1> HIDE DEF new
<1>6. \A i \in 1 .. L + 1 :
        \/ submitted'[i].by = "user" /\ submitted'[i].pid \in FirstUserPid .. userPid' - 1
        \/ submitted'[i].by = "generator" /\ submitted'[i].pid < Drawn'
  <2> SUFFICES ASSUME NEW i \in 1 .. L + 1
               PROVE
        \/ submitted'[i].by = "user" /\ submitted'[i].pid \in FirstUserPid .. userPid' - 1
        \/ submitted'[i].by = "generator" /\ submitted'[i].pid < Drawn'
    OBVIOUS
  <2>1. CASE i \in 1 .. L
    BY <1>1, <1>2, <1>3, <2>1
  <2>2. CASE i = L + 1
    BY <1>1, <1>2, <1>4, <2>2 DEF new
  <2> QED
    BY <1>5, <2>1, <2>2
<1>7. ASSUME NEW i \in 1 .. L, submitted[i].by = by PROVE submitted[i].pid # new.pid
  BY <1>1, <1>2, <1>3, <1>4, <1>7
<1>8. \A i, j \in 1 .. L + 1 :
        submitted'[i].by = submitted'[j].by /\ submitted'[i].pid = submitted'[j].pid => i = j
  <2> SUFFICES ASSUME NEW i \in 1 .. L + 1, NEW j \in 1 .. L + 1,
                      submitted'[i].by = submitted'[j].by,
                      submitted'[i].pid = submitted'[j].pid
               PROVE  i = j
    OBVIOUS
  <2>1. CASE i \in 1 .. L /\ j \in 1 .. L
    BY <1>3, <2>1
  <2>2. CASE i = L + 1 /\ j \in 1 .. L
    BY <1>4, <1>7, <2>2 DEF new
  <2>3. CASE j = L + 1 /\ i \in 1 .. L
    BY <1>4, <1>7, <2>3 DEF new
  <2> QED
    BY <1>5, <2>1, <2>2, <2>3
<1> QED
  BY <1>1, <1>6, <1>8 DEF IdInv

LEMMA NextIdInv == RunInv /\ IdInv /\ [Next]_vars => IdInv'
<1> SUFFICES ASSUME RunInv, IdInv, [Next]_vars PROVE IdInv'
  OBVIOUS
<1>1. CASE submitted' = <<>>
  BY <1>1 DEF IdInv
<1>2. CASE submitted' = submitted /\ submitted' # <<>>
  <2>1. /\ userPid \in Nat /\ userPid' \in Nat /\ userPid <= userPid'
        /\ Drawn \in Nat /\ Drawn' \in Nat /\ Drawn <= Drawn' /\ FirstUserPid \in Nat
    BY <1>2, NextDrawn, ConstantTypes
  <2>2. \A i \in DOMAIN submitted : submitted[i].pid \in Nat
    BY PidType
  <2> QED
    BY <1>2, <2>1, <2>2 DEF IdInv
<1>3. ASSUME NEW n \in UserNames, CreateScreen(n) PROVE IdInv'
  <2>1. userPid' = userPid + 1
    BY <1>3 DEF CreateScreen
  <2> QED
    BY <1>3, <2>1, CreateSubmits, SubmitIdInv
<1>4. CASE SubmitGenerated /\ generator.sched = scheduler
  <2>1. Drawn = id /\ Drawn' = id + 1
    BY <1>4 DEF SubmitGenerated, Drawn, RunInv, CounterInv
  <2> QED
    BY <1>4, <2>1, GeneratorSubmits, SubmitIdInv
<1> QED
  BY <1>1, <1>2, <1>3, <1>4, SubmitCases

\* Two counters that know nothing of each other never give one id twice, until the
\* generator's reaches where the user's began.
THEOREM IdsDifferCorrect == Spec => []IdsDiffer
<1>1. Init => IdInv
  BY DEF Init, IdInv
<1>2. RunInv /\ IdInv => IdsDiffer
  <2> SUFFICES ASSUME RunInv, IdInv, generator.nextId <= FirstUserPid,
                      NEW i \in DOMAIN submitted, NEW j \in DOMAIN submitted,
                      submitted[i].pid = submitted[j].pid
               PROVE  i = j
    BY DEF IdsDiffer
  <2>1. /\ FirstUserPid \in Nat /\ userPid \in Nat /\ generator.nextId \in Nat
        /\ Drawn \in Nat /\ Drawn <= generator.nextId
    BY ConstantTypes DEF RunInv, TypeInv, CounterInv, Drawn
  <2>2. \A k \in DOMAIN submitted : submitted[k].pid \in Nat
    BY PidType
  <2>3. \A k \in DOMAIN submitted :
          \/ submitted[k].by = "user" /\ submitted[k].pid >= FirstUserPid
          \/ submitted[k].by = "generator" /\ submitted[k].pid < FirstUserPid
    BY <2>1, <2>2 DEF IdInv
  <2>4. submitted[i].by = submitted[j].by
    BY <2>1, <2>2, <2>3
  <2> QED
    BY <2>4 DEF IdInv
<1> QED
  BY <1>1, <1>2, NextIdInv, RunInvariant, PTL DEF Spec

-----------------------------------------------------------------------------
(***************************************************************************)
(* Screens.                                                                *)
(***************************************************************************)
ScreenInv ==
  /\ Len(typed) = userPid - FirstUserPid
  /\ \A n \in DOMAIN screens :
       /\ n \in UserNames /\ screens[n] \in Procs
       /\ \E m \in DOMAIN typed : typed[m] = n
  /\ ScreenShowsFirst

LEMMA CreatedProcess ==
  ASSUME RunInv, NEW n \in UserNames, CreateScreen(n)
  PROVE  Process("user", userPid, n) \in Procs
         /\ Process("user", userPid, n).pid = userPid
<1>1. scheduler \in 1 .. MaxInits
  BY ConstantTypes DEF RunInv, TypeInv, PlaceInv, CreateScreen, Initialized
<1>2. userPid \in FirstUserPid .. FirstUserPid + MaxUser - 1
  BY ConstantTypes DEF RunInv, TypeInv, CreateScreen
<1>3. Process("user", userPid, n) \in
        [sched : 1 .. MaxInits, by : {"user"},
         pid : FirstUserPid .. FirstUserPid + MaxUser - 1, given : UserNames]
  BY <1>1, <1>2 DEF Process
<1> QED
  BY <1>3 DEF Procs, Process

LEMMA KeptScreens ==
  ASSUME NEW n, CreateScreen(n)
  PROVE  /\ n \in DOMAIN screens => screens' = screens
         /\ n \notin DOMAIN screens =>
              /\ DOMAIN screens' = DOMAIN screens \cup {n}
              /\ screens'[n] = Process("user", userPid, n)
              /\ \A x \in DOMAIN screens : screens'[x] = screens[x]
BY DEF CreateScreen, KeepScreen, Map!Put

LEMMA CreateScreenInv ==
  ASSUME RunInv, ScreenInv, NEW n \in UserNames, CreateScreen(n)
  PROVE  ScreenInv'
<1> DEFINE L == Len(typed)
           p == Process("user", userPid, n)
<1>1. /\ typed \in Seq(UserNames) /\ L \in Nat /\ DOMAIN typed = 1 .. L
      /\ userPid \in Nat /\ FirstUserPid \in Nat /\ L = userPid - FirstUserPid
  BY ConstantTypes DEF RunInv, TypeInv, ScreenInv
<1>2. typed' = Append(typed, n) /\ userPid' = userPid + 1
  BY DEF CreateScreen
<1>3. /\ Len(typed') = L + 1 /\ DOMAIN typed' = 1 .. L + 1 /\ typed'[L + 1] = n
      /\ \A m \in 1 .. L : typed'[m] = typed[m]
  BY <1>1, <1>2
<1>4. p \in Procs /\ p.pid = FirstUserPid + (L + 1) - 1
  BY <1>1, CreatedProcess
<1>5. /\ DOMAIN screens' = DOMAIN screens \cup {n}
      /\ \A x \in DOMAIN screens : screens'[x] = screens[x]
      /\ n \notin DOMAIN screens => screens'[n] = p
  BY KeptScreens
<1> HIDE DEF p
<1>6. \A x \in DOMAIN screens' :
        /\ x \in UserNames /\ screens'[x] \in Procs
        /\ \E m \in DOMAIN typed' : typed'[m] = x
  <2> SUFFICES ASSUME NEW x \in DOMAIN screens'
               PROVE  /\ x \in UserNames /\ screens'[x] \in Procs
                      /\ \E m \in DOMAIN typed' : typed'[m] = x
    OBVIOUS
  <2>1. CASE x \in DOMAIN screens
    <3>1. PICK m \in 1 .. L : typed[m] = x
      BY <1>1, <2>1 DEF ScreenInv
    <3>2. m \in DOMAIN typed' /\ typed'[m] = x
      BY <1>1, <1>3, <3>1
    <3> QED
      BY <1>5, <2>1, <3>2 DEF ScreenInv
  <2>2. CASE x = n /\ n \notin DOMAIN screens
    <3>1. L + 1 \in DOMAIN typed' /\ typed'[L + 1] = x
      BY <1>1, <1>3, <2>2
    <3> QED
      BY <1>4, <1>5, <2>2, <3>1
  <2> QED
    BY <1>5, <2>1, <2>2
<1> DEFINE First(s, t, f, x) ==
             /\ t[f] = x /\ \A l \in 1 .. f - 1 : t[l] # x
             /\ x \in DOMAIN s /\ s[x].pid = FirstUserPid + f - 1
<1>7. \A m \in 1 .. L : \E f \in 1 .. m : First(screens, typed, f, typed[m])
  BY <1>1 DEF ScreenInv, ScreenShowsFirst
<1>8. ASSUME NEW m \in 1 .. L, NEW f \in 1 .. m, First(screens, typed, f, typed[m])
      PROVE  First(screens', typed', f, typed[m])
  <2>1. f \in 1 .. L /\ \A l \in 1 .. f - 1 : l \in 1 .. L
    BY <1>1
  <2> QED
    BY <1>3, <1>5, <1>8, <2>1
<1>9. \A m \in 1 .. L + 1 : \E f \in 1 .. m : First(screens', typed', f, typed'[m])
  <2> SUFFICES ASSUME NEW m \in 1 .. L + 1
               PROVE  \E f \in 1 .. m : First(screens', typed', f, typed'[m])
    OBVIOUS
  <2>1. CASE m \in 1 .. L
    <3>1. PICK f \in 1 .. m : First(screens, typed, f, typed[m])
      BY <1>7, <2>1
    <3>2. First(screens', typed', f, typed[m])
      BY <1>8, <2>1, <3>1
    <3> QED
      BY <1>3, <2>1, <3>2
  <2>2. CASE m = L + 1 /\ n \in DOMAIN screens
    <3>1. PICK k \in 1 .. L : typed[k] = n
      BY <1>1, <2>2 DEF ScreenInv
    <3>2. PICK f \in 1 .. k : First(screens, typed, f, typed[k])
      BY <1>7, <3>1
    <3>3. First(screens', typed', f, n)
      BY <1>8, <3>1, <3>2
    <3>4. f \in 1 .. m /\ typed'[m] = n
      BY <1>1, <1>3, <2>2
    <3> QED
      BY <3>3, <3>4
  <2>3. CASE m = L + 1 /\ n \notin DOMAIN screens
    <3>1. \A l \in 1 .. L : typed[l] # n
      BY <1>7, <2>3
    <3>2. \A l \in 1 .. m - 1 : typed'[l] # n
      BY <1>1, <1>3, <2>3, <3>1
    <3>3. n \in DOMAIN screens' /\ screens'[n].pid = FirstUserPid + m - 1
      BY <1>4, <1>5, <2>3
    <3>4. m \in 1 .. m /\ typed'[m] = n
      BY <1>1, <1>3, <2>3
    <3> QED
      BY <3>2, <3>3, <3>4
  <2> QED
    BY <1>1, <2>1, <2>2, <2>3
<1>10. ScreenShowsFirst'
  BY <1>3, <1>9 DEF ScreenShowsFirst
<1>11. Len(typed') = userPid' - FirstUserPid
  BY <1>1, <1>2, <1>3
<1> QED
  BY <1>6, <1>10, <1>11 DEF ScreenInv

LEMMA ScreenCases ==
  ASSUME [Next]_vars
  PROVE  \/ UNCHANGED screenVars
         \/ \E n \in UserNames : CreateScreen(n)
<1>1. CASE UNCHANGED vars
  BY <1>1 DEF vars
<1>2. CASE StepCase
  BY <1>2 DEF StepCase, Initialize, NewScheduler, ReplaceGenerator, StartGenerator,
    SchedulerStop, Exit, StopGenerator, JoinGenerator, DeleteScheduler, AttachScreen,
    DetachScreen, LoopTest, MakeProcess, SubmitGenerated, FinishProcess
<1> QED
  BY <1>1, <1>2, NextCases

LEMMA NoScreens == DOMAIN <<>> = {}
OBVIOUS

LEMMA ScreenInvariant == Spec => []ScreenInv
<1>1. Init => ScreenInv
  BY ConstantTypes, NoScreens DEF Init, ScreenInv, ScreenShowsFirst
<1>2. RunInv /\ ScreenInv /\ [Next]_vars => ScreenInv'
  <2>1. UNCHANGED screenVars /\ ScreenInv => ScreenInv'
    BY DEF screenVars, ScreenInv, ScreenShowsFirst
  <2> QED
    BY <2>1, ScreenCases, CreateScreenInv
<1> QED
  BY <1>1, <1>2, RunInvariant, PTL DEF Spec

\* create_screen keeps the first process of a name, whatever is typed later.
THEOREM ScreenShowsFirstCorrect == Spec => []ScreenShowsFirst
<1>1. ScreenInv => ScreenShowsFirst
  BY DEF ScreenInv
<1> QED
  BY <1>1, ScreenInvariant, PTL

-----------------------------------------------------------------------------
(***************************************************************************)
(* Console implements FinishedMap.                                         *)
(***************************************************************************)
\* Who makes an entry, and who clears them all.
LEMMA MapCases ==
  ASSUME [Next]_vars
  PROVE  \/ UNCHANGED mapVars
         \/ Map!Clear /\ UNCHANGED screens
         \/ \E p \in Procs, t \in 1 .. MaxTick : Map!Insert(p, t) /\ UNCHANGED screens
<1>1. CASE UNCHANGED vars
  BY <1>1 DEF vars
<1>2. CASE NewScheduler
  BY <1>2 DEF NewScheduler, screenVars
<1>3. CASE \E p \in Procs, t \in 1 .. MaxTick : FinishProcess(p, t)
  BY <1>3 DEF FinishProcess, screenVars
<1>4. CASE StepCase /\ ~NewScheduler
           /\ ~(\E p \in Procs, t \in 1 .. MaxTick : FinishProcess(p, t))
  BY <1>4 DEF StepCase, Initialize, ReplaceGenerator, StartGenerator, SchedulerStop,
    Exit, StopGenerator, JoinGenerator, DeleteScheduler, CreateScreen, AttachScreen,
    DetachScreen, LoopTest, MakeProcess, SubmitGenerated
<1> QED
  BY <1>1, <1>2, <1>3, <1>4, NextCases

Held == {screens[n] : n \in DOMAIN screens}

\* A screen is given a process once and keeps it.
LEMMA HeldGrows ==
  ASSUME RunInv, [Next]_vars
  PROVE  Held' = Held \/ \E p \in Procs : Held' = Held \cup {p}
<1>1. CASE UNCHANGED screenVars
  BY <1>1 DEF screenVars, Held
<1>2. ASSUME NEW n \in UserNames, CreateScreen(n)
      PROVE  Held' = Held \/ \E p \in Procs : Held' = Held \cup {p}
  <2>1. CASE n \in DOMAIN screens
    <3>1. screens' = screens
      BY <1>2, <2>1, KeptScreens
    <3> QED
      BY <3>1 DEF Held
  <2>2. CASE n \notin DOMAIN screens
    <3> DEFINE p == Process("user", userPid, n)
    <3>1. /\ DOMAIN screens' = DOMAIN screens \cup {n} /\ screens'[n] = p
          /\ \A x \in DOMAIN screens : screens'[x] = screens[x]
      BY <1>2, <2>2, KeptScreens
    <3>2. p \in Procs
      BY <1>2, CreatedProcess
    <3> HIDE DEF p
    <3>3. Held' = Held \cup {p}
      BY <2>2, <3>1 DEF Held
    <3> QED
      BY <3>2, <3>3
  <2> QED
    BY <2>1, <2>2
<1> QED
  BY <1>1, <1>2, ScreenCases

LEMMA MapInit == Init => Map!Init
BY NoScreens DEF Init, Map!Init

LEMMA MapNext == RunInv /\ [Next]_vars => [Map!Next]_(Map!vars)
<1> SUFFICES ASSUME RunInv, [Next]_vars PROVE [Map!Next]_(Map!vars)
  OBVIOUS
<1>1. CASE Map!Clear /\ UNCHANGED screens
  BY <1>1 DEF Map!Next
<1>2. CASE \E p \in Procs, t \in 1 .. MaxTick : Map!Insert(p, t) /\ UNCHANGED screens
  BY <1>2 DEF Map!Next
<1>3. CASE UNCHANGED mapVars
  BY <1>3, HeldGrows DEF Map!Next, Map!vars, Held, mapVars
<1> QED
  BY <1>1, <1>2, <1>3, MapCases

\* Whatever is typed and wherever the generator's thread is, the map of finished
\* processes sees no more than module FinishedMap allows.
THEOREM ImplementsMapCorrect == Spec => ImplementsFinishedMap
BY MapInit, MapNext, RunInvariant, PTL DEF Spec, ImplementsFinishedMap, Map!Spec

-----------------------------------------------------------------------------
(***************************************************************************)
(* What FinishedMapProofs says of the map, of the one in Console.          *)
(***************************************************************************)
\* No name the user types is a numbered one; the generator makes none.
PlainUserNames == \A n \in UserNames : \E m \in Nat : n = <<m>>

LEMMA GivenNames ==
  ASSUME NEW p \in Procs
  PROVE  p.given \in UserNames \/ \E m \in Nat : p.given = <<m>>
<1>1. CASE p \in [sched : 1 .. MaxInits, by : {"user"},
                  pid : FirstUserPid .. FirstUserPid + MaxUser - 1,
                  given : UserNames]
  BY <1>1
<1>2. ASSUME NEW s \in 1 .. MaxInits, NEW n \in 1 .. MaxGenerated,
             p = [sched |-> s, by |-> "generator", pid |-> n, given |-> <<n>>]
      PROVE  n \in Nat /\ p.given = <<n>>
  BY <1>2
<1> QED
  BY <1>1, <1>2 DEF Procs

LEMMA NamesAreNames == [p \in Procs |-> p.given] \in [Procs -> Seq(Nat)]
<1>1. \A m \in Nat : <<m>> \in Seq(Nat)
  OBVIOUS
<1>2. \A p \in Procs : p.given \in Seq(Nat)
  BY <1>1, GivenNames, ConstantTypes
<1> QED
  BY <1>2

LEMMA NamesArePlain == PlainUserNames => Finished!PlainNames
BY GivenNames, NamesAreNames DEF PlainUserNames, Finished!PlainNames

LEMMA SameCardinality ==
  ASSUME NEW S
  PROVE  Map!Cardinality(S) = Finished!Cardinality(S)
BY DEF Map!Cardinality, Finished!Cardinality

LEMMA SameInsert ==
  ASSUME NEW p, NEW t, Map!Insert(p, t)
  PROVE  Finished!Insert(p, t)
<1>1. Map!Position(t) = Finished!Position(t)
  BY SameCardinality DEF Map!Position, Finished!Position
<1>2. Map!RenameProcess(p) => Finished!RenameProcess(p)
  BY DEF Map!RenameProcess, Finished!RenameProcess, Map!Put, Finished!Put,
    Map!DuplicateCount, Finished!DuplicateCount, Map!Contains, Finished!Contains
<1>3. \A f, k, v : Map!Put(f, k, v) = Finished!Put(f, k, v)
  BY DEF Map!Put, Finished!Put
<1>4. \A s, i, e : Map!Seqs!InsertAt(s, i, e) = Finished!Seqs!InsertAt(s, i, e)
  BY DEF Map!Seqs!InsertAt, Finished!Seqs!InsertAt
<1> QED
  BY <1>1, <1>2, <1>3, <1>4 DEF Map!Insert, Finished!Insert

LEMMA SameSpec == Map!Spec => Finished!Spec
<1>1. Map!Init => Finished!Init
  BY DEF Map!Init, Finished!Init
<1>2. [Map!Next]_(Map!vars) => [Finished!Next]_(Finished!vars)
  BY SameInsert DEF Map!Next, Finished!Next, Map!vars, Finished!vars, Map!Clear,
    Finished!Clear
<1> QED
  BY <1>1, <1>2, PTL DEF Map!Spec, Finished!Spec

LEMMA SameKept == Map!Kept = Finished!Kept
BY DEF Map!Kept, Finished!Kept

\* No finished process replaces another, whoever of the two made them and however
\* many under one name, as long as the user types no numbered name.
THEOREM FoundByNameCorrect ==
  ASSUME PlainUserNames
  PROVE  Spec => []FoundByName
<1>1. Finished!Spec => []Finished!FoundByName
  BY NamesArePlain, Finished!FoundByNameCorrect
<1>2. Finished!FoundByName => FoundByName
  BY SameKept DEF Finished!FoundByName, FoundByName, Map!FoundByName,
    Map!Contains, Finished!Contains
<1> QED
  BY <1>1, <1>2, SameSpec, ImplementsMapCorrect, PTL DEF ImplementsFinishedMap

\* Those of one name, the generator's and the user's, are numbered without a gap,
\* as long as the user types no numbered name.
THEOREM NumberedInOrderCorrect ==
  ASSUME PlainUserNames
  PROVE  Spec => []NumberedInOrder
<1>1. Finished!Spec => []Finished!NumberedInOrder
  BY NamesArePlain, Finished!NumberedInOrderCorrect
<1>2. Finished!NumberedInOrder => NumberedInOrder
  BY SameKept DEF Finished!NumberedInOrder, NumberedInOrder, Map!NumberedInOrder
<1> QED
  BY <1>1, <1>2, SameSpec, ImplementsMapCorrect, PTL DEF ImplementsFinishedMap

\* What is listed by tick is what is found by name, whatever screens hold, as
\* long as the user types no numbered name.
THEOREM ListedOnceCorrect ==
  ASSUME PlainUserNames
  PROVE  Spec => []ListedOnce
<1>1. Finished!Spec => []Finished!ListedOnce
  BY NamesArePlain, Finished!ListedOnceCorrect
<1>2. Finished!ListedOnce => ListedOnce
  BY SameCardinality DEF Finished!ListedOnce, ListedOnce, Map!ListedOnce,
    Map!Ordered, Finished!Ordered, Map!Alive, Finished!Alive, Map!Size, Finished!Size
<1> QED
  BY <1>1, <1>2, SameSpec, ImplementsMapCorrect, PTL DEF ImplementsFinishedMap

\* Both threads are where they can be, a thread exists as long as it must be joined,
\* and the screens and the map hold processes that were made.
THEOREM TypeCorrect == Spec => []TypeOK
<1>1. Finished!Spec => []Finished!TypeOK
  BY NamesAreNames, Finished!FinishedTypeCorrect
<1>2. Finished!TypeOK => Map!TypeOK
  BY SameKept, SameCardinality DEF Finished!TypeOK, Map!TypeOK
<1>3. RunInv /\ ScreenInv /\ Map!TypeOK => TypeOK
  BY DEF RunInv, TypeInv, ThreadInv, ScreenInv, TypeOK, Mains, Threads
<1> QED
  BY <1>1, <1>2, <1>3, RunInvariant, ScreenInvariant, SameSpec, ImplementsMapCorrect,
     PTL DEF ImplementsFinishedMap

=============================================================================
