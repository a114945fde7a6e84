------------------------------ MODULE Reporter ------------------------------
(***************************************************************************)
(* screen -ls and report-util (src/reporter.cpp, src/cli.cpp): the CLI's   *)
(* thread reads the log queue and then the scheduler's state, one section  *)
(* after the other, while the threads of module Scheduler run.             *)
(*                                                                         *)
(* A section takes the mutex of the queue it lists, but not                *)
(* short_term_mtx_.  So it can look into dispatch_to_cpu and               *)
(* release_cpu_interrupt, which module Scheduler takes as one step each:   *)
(* there they are two, the one that takes a process out of the place it    *)
(* was in and the one that puts it where it goes.  In between a thread has *)
(* it in hand.                                                             *)
(*                                                                         *)
(* A definition whose name ends in Fault is not the code: it is what a     *)
(* slip would make of the definition after it, and shows that a property   *)
(* would notice.                                                           *)
(***************************************************************************)
EXTENDS Scheduler

CONSTANT MaxReports \* bound: how many reports are built

ASSUME ReportAssumption == MaxReports \in Nat

VARIABLES
  main,   \* where the CLI's thread is
  todo,   \* how many reports its command has still to build
  built,  \* how many reports were built
  used,   \* "Cores used" of the last report; NumCpu before the first
  at,     \* cpu_state_snapshot's loop variable
  owed,   \* the processes that had a CPU, waited for one or had finished when
          \* snapshot() began, and that it has not listed
  passed, \* those that a thread had in hand when it came to a CPU
  hand    \* the process in hand and the thread that has it: one at most

reportVars == <<main, todo, built, used, at, owed, passed>>
allVars == <<vars, reportVars, hand>>

-----------------------------------------------------------------------------
(***************************************************************************)
(* The scheduler's threads.  What Scheduler's variables say of a process   *)
(* in hand, that it is on a CPU or in the finished map, is not yet so.     *)
(***************************************************************************)
InHand == {h.proc : h \in hand}

\* What running_ holds, and finished_.
RunningNow(c) == IF running[c] \in InHand THEN NoProc ELSE running[c]
FinishedNow == finished \ InHand

\* The process a step takes from the ready queue or from a CPU.
Taken == (readyQueue \ readyQueue') \cup (OnCpu \ OnCpu')

\* Where a thread is about to take short_term_mtx_.  preemption_check takes it
\* too, to release nothing, while every other thread is at the barrier.
LockLabels == {"redispatch", "claim", "fetch", "release"}

ThreadStep(t) == IF t = Sched THEN SchedulerStep ELSE WorkerStep(t)

\* The scheduler thread tests running_ without the mutex, in
\* short_term_dispatch and in cpu_state_snapshot.
TestsHand == /\ pc[Sched] \in {"scan", "snap"}
             /\ k < NumCpu
             /\ running[k] \in InHand

\* A thread that has a process in hand holds the mutex, and does nothing else
\* before it has put it down.
ThreadMoves(t) ==
  /\ hand # {} => pc[t] \notin LockLabels /\ t \notin {h.by : h \in hand}
  /\ t = Sched => ~TestsHand
  /\ ThreadStep(t)
  /\ hand' = hand \cup {[by |-> t, proc |-> p] : p \in Taken}
  /\ UNCHANGED reportVars

\* The CPU looks idle, and short_term_dispatch goes on to dispatch_to_cpu.
FindsCpuIdle ==
  /\ TestsHand
  /\ IF pc[Sched] = "scan"
     THEN Goto(Sched, "claim") /\ UNCHANGED k
     ELSE k' = k + 1 /\ UNCHANGED pc
  /\ UNCHANGED <<tick, queueVars, running, processVars, quantum, logVars,
                 workerVars, envVars, crashed, reportVars, hand>>

PutDown == /\ hand # {}
           /\ hand' = {}
           /\ UNCHANGED <<vars, reportVars>>

\* Submissions and policy changes take other mutexes.
CallerMoves ==
  /\ \/ \E p \in Procs : SubmitProcess(p)
     \/ \E policy \in PolicyChoices : SetSchedulingPolicy(policy)
  /\ UNCHANGED <<reportVars, hand>>

-----------------------------------------------------------------------------
(***************************************************************************)
(* The CLI's thread.                                                       *)
(***************************************************************************)

\* screen -ls builds one report, report-util one to print and, if the file opens,
\* one to log.
Command(reports) ==
  /\ main = "prompt"
  /\ built + reports <= MaxReports
  /\ todo' = reports
  /\ main' = "derive"
  /\ UNCHANGED <<vars, built, used, at, owed, passed, hand>>

\* The IDLE lines of all snapshots there are.
IdleLines == {l \in (DOMAIN logQueue) \X Cpus : l[2] \notin logQueue[l[1]]}

\* What its name says.
EmptiedFault == <<>>

\* Channel::empty asks the deque whether it is empty.
Emptied == logQueue

\* derive_utilization; get_sched_snapshots copies and empties in two critical
\* sections, the second of which changes nothing.
DeriveUtilization ==
  LET idle == Cardinality(IdleLines)
  IN  /\ main = "derive"
      /\ used' = IF idle >= NumCpu THEN 0 ELSE NumCpu - idle
      /\ logQueue' = Emptied
      /\ main' = "sleepers"
      /\ UNCHANGED <<tick, queueVars, running, processVars, quantum, seen, pc, k,
                     workerVars, envVars, crashed, todo, built, at, owed,
                     passed, hand>>

\* A section of snapshot().  Where the code tests for emptiness and then copies
\* in a second critical section, what it lists is what was there at one of the
\* two moments.
ListSection(label, procs, next) ==
  /\ main = label
  /\ owed' = owed \ procs
  /\ main' = next
  /\ UNCHANGED <<vars, todo, built, used, at, passed, hand>>

ListSleepers ==
  /\ main = "sleepers"
  /\ owed' = readyQueue \cup OnCpu \cup finished
  /\ passed' = {}
  /\ main' = "jobs"
  /\ UNCHANGED <<vars, todo, built, used, at, hand>>

ListJobs == ListSection("jobs", Jobs, "ready")

\* Looks for ready processes when it has the CPUs behind it.
ListReadyFault ==
  /\ main = "ready"
  /\ main' = "cpus"
  /\ UNCHANGED <<vars, todo, built, used, at, owed, passed, hand>>

ListReady == ListSection("ready", readyQueue, "cpus")

\* cpu_state_snapshot, as in Scheduler, on another thread: test ...
ListCpu ==
  /\ main = "cpus"
  /\ at < NumCpu
  /\ IF RunningNow(at) = NoProc
     THEN at' = at + 1 /\ UNCHANGED main
     ELSE main' = "follow" /\ UNCHANGED at
  /\ passed' = passed \cup InHand
  /\ UNCHANGED <<vars, todo, built, used, owed, hand>>

\* ... and follow.
ListCpuProcess ==
  /\ main = "follow"
  /\ crashed' = (RunningNow(at) = NoProc)
  /\ owed' = owed \ {RunningNow(at)}
  /\ at' = at + 1
  /\ main' = "cpus"
  /\ UNCHANGED <<tick, queueVars, running, processVars, quantum, logVars, pc, k,
                 workerVars, envVars, todo, built, used, passed, hand>>

\* Builds one report too many.
ListFinishedFault ==
  /\ main = "cpus"
  /\ at = NumCpu
  /\ owed' = owed \ FinishedNow
  /\ built' = built + 1
  /\ todo' = todo - 1
  /\ main' = IF todo = 0 THEN "prompt" ELSE "derive"
  /\ at' = 0
  /\ UNCHANGED <<vars, used, passed, hand>>

\* The last section, and the end of build_report.
ListFinished ==
  /\ main = "cpus"
  /\ at = NumCpu
  /\ owed' = owed \ FinishedNow
  /\ built' = built + 1
  /\ todo' = todo - 1
  /\ main' = IF todo = 1 THEN "prompt" ELSE "derive"
  /\ at' = 0
  /\ UNCHANGED <<vars, used, passed, hand>>

ReportStep ==
  \/ Command(1) \/ Command(2)
  \/ DeriveUtilization
  \/ ListSleepers \/ ListJobs \/ ListReady \/ ListCpu \/ ListCpuProcess
  \/ ListFinished

ReportInit ==
  /\ Init
  /\ main = "prompt"
  /\ todo = 0
  /\ built = 0
  /\ used = NumCpu
  /\ at = 0
  /\ owed = {}
  /\ passed = {}
  /\ hand = {}

ReportNext ==
  \/ ~crashed /\ (\/ \E t \in Threads : ThreadMoves(t)
                  \/ FindsCpuIdle \/ PutDown \/ CallerMoves
                  \/ ReportStep)
  \/ Ended /\ UNCHANGED <<reportVars, hand>>

ReportSpec == ReportInit /\ [][ReportNext]_allVars

-----------------------------------------------------------------------------
(***************************************************************************)
(* Properties.                                                             *)
(***************************************************************************)

\* The report's variables have their types, its loop stays on the CPUs, and one
\* thread at most has one process in hand.
ReportTypeOK ==
  /\ main \in {"prompt", "derive", "sleepers", "jobs", "ready", "cpus", "follow"}
  /\ todo \in 0 .. 2
  /\ todo = 0 <=> main = "prompt"
  /\ built + todo <= MaxReports
  /\ used \in 0 .. NumCpu
  /\ at \in 0 .. NumCpu
  /\ main = "follow" => at < NumCpu
  /\ owed \subseteq submitted
  /\ passed \subseteq submitted
  /\ hand \subseteq [by : Threads, proc : submitted]
  /\ \A h, g \in hand : h = g

NeverSleeps(p) == \A n \in DOMAIN Program[p] : Program[p][n].op # "SLEEP"

\* A report is complete when the next one begins or the prompt is back.
Complete == main \in {"prompt", "derive"}

\* README.md:66 "Snapshots aggregate job/ready/CPU/sleep/finished state".  A report
\* is no picture of one moment, but it is read in the order processes move
\* (src/scheduler.cpp:317), so that whatever they do meanwhile, it overlooks one
\* that had been admitted and never sleeps only if a thread had it in hand when
\* the report came to a CPU.  One that falls asleep behind the report's back is
\* overlooked, and so is one that admission holds between its two queues.
OverlookedInHand == Complete => \A p \in owed \ passed : ~NeverSleeps(p)

\* Nothing takes a snapshot out of log_queue again (include/util.hpp:70): it
\* holds one for each cooldown that has passed, however often it was read.
LogIsComplete ==
  pc[Sched] = "timer" => Len(logQueue) = (tick - 1) \div SnapshotCooldown

\* The utilization counts the idle lines of all snapshots ever taken
\* (src/reporter.cpp:29): with processes coming and going at any moment, no
\* report shows more used cores than one before it.
UtilizationNeverRises == [][used' <= used]_allVars
=============================================================================
