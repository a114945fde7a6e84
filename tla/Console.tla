------------------------------ MODULE Console ------------------------------
(***************************************************************************)
(* The CLI (src/cli.cpp), the generator's thread                           *)
(* (src/process_generator.cpp) and the objects they share: initialize      *)
(* deletes the scheduler and the generator it made before, while the       *)
(* generator's thread may be using them, and keeps the screens.  A         *)
(* scheduler's finished processes are in module FinishedMap.               *)
(*                                                                         *)
(* A scheduler is the number of the initialize that made it.  That its     *)
(* stop() returns is taken for granted here; what can go wrong inside is   *)
(* module TickProtocol's subject, what reports read module Reporter's.     *)
(*                                                                         *)
(* A definition whose name ends in Fault is not the code: it is what a     *)
(* slip would make of the definition after it, and shows that a property   *)
(* would notice.                                                           *)
(***************************************************************************)
EXTENDS Naturals, Sequences, FiniteSets

CONSTANTS
  FirstUserPid, \* where user_pid starts: 100000 in the code
  MaxInits,     \* bound: how often the user types initialize
  StopFirst,    \* whether the user only does so with the generator stopped
  MaxGenerated, \* bound: processes made by one generator
  MaxUser,      \* bound: processes made by `screen -s`
  MaxTick,      \* bound: the ticks at which processes finish
  UserNames     \* what the user types as a name, in the form of FinishedMap: the
                \* generator gives its n-th process the name <<n>>

ASSUME PidAssumption == FirstUserPid \in Nat
ASSUME NameAssumption == UserNames \subseteq Seq(Nat)
ASSUME BoundAssumption == /\ MaxInits \in Nat /\ MaxGenerated \in Nat
                          /\ MaxUser \in Nat /\ MaxTick \in Nat
                          /\ StopFirst \in BOOLEAN

VARIABLES
  main,      \* where the CLI's thread is
  inits,     \* how often initialize was run
  scheduler, \* scheduler_, 0 when there is none
  generator, \* generator_: the scheduler it refers to (0: no generator yet),
             \* running_, thread_.joinable(), next_id_
  thread,    \* where the generator's thread is
  id,        \* the id the generator's thread has drawn
  userPid,   \* handle_screen_command's static user_pid
  submitted, \* the processes submitted to the scheduler there is now, in order
  screens,   \* ScreenManager::screens_
  typed,     \* the names the user has typed, in order
  name, inserted, byName, byTick, duplicates, \* as in FinishedMap
  crashed    \* std::terminate was called or a deleted scheduler used

screenVars == <<userPid, screens, typed>>
mapVars == <<name, inserted, byName, byTick, duplicates>>
vars == <<main, inits, scheduler, generator, thread, id, submitted, screenVars,
          mapVars, crashed>>

\* A process: the scheduler it was made for, by whom, its id and its first name.
Process(by, pid, given) ==
  [sched |-> scheduler, by |-> by, pid |-> pid, given |-> given]

Procs ==
  {[sched |-> s, by |-> "generator", pid |-> n, given |-> <<n>>] :
     s \in 1 .. MaxInits, n \in 1 .. MaxGenerated} \cup
  [sched : 1 .. MaxInits, by : {"user"},
   pid : FirstUserPid .. FirstUserPid + MaxUser - 1, given : UserNames]

Map == INSTANCE FinishedMap WITH
         GivenName <- [p \in Procs |-> p.given],
         held <- {screens[n] : n \in DOMAIN screens}

NoGenerator == [sched |-> 0, running |-> FALSE, joinable |-> FALSE, nextId |-> 1]
NewGenerator(s) == [NoGenerator EXCEPT !.sched = s]

\* require_init
Initialized == inits > 0

Submit(p) == submitted' = Append(submitted, p)

-----------------------------------------------------------------------------
(***************************************************************************)
(* The CLI's thread.                                                       *)
(***************************************************************************)

\* initialize_system: stop and delete the old scheduler ...
Initialize ==
  /\ main = "prompt"
  /\ inits < MaxInits
  /\ StopFirst => ~generator.running
  /\ scheduler' = 0
  /\ main' = "init_scheduler"
  /\ UNCHANGED <<inits, generator, thread, id, submitted, screenVars,
                 mapVars, crashed>>

\* ... make a new one and start it ...
NewScheduler ==
  /\ main = "init_scheduler"
  /\ inits' = inits + 1
  /\ scheduler' = inits'
  /\ submitted' = <<>>
  /\ Map!Clear
  /\ main' = "init_generator"
  /\ UNCHANGED <<generator, thread, id, screenVars, crashed>>

\* Keeps the old generator and its reference to the old scheduler.
ReplaceGeneratorFault ==
  /\ main = "init_generator"
  /\ generator' = IF generator.sched = 0 THEN NewGenerator(scheduler) ELSE generator
  /\ main' = "prompt"
  /\ UNCHANGED <<inits, scheduler, thread, id, submitted, screenVars,
                 mapVars, crashed>>

\* ... and replace the generator, which has no destructor: deleting one whose
\* thread was not joined terminates the program.
ReplaceGenerator ==
  /\ main = "init_generator"
  /\ IF generator.joinable
     THEN crashed' = TRUE /\ UNCHANGED generator
     ELSE generator' = NewGenerator(scheduler) /\ UNCHANGED crashed
  /\ main' = "prompt"
  /\ UNCHANGED <<inits, scheduler, thread, id, submitted, screenVars,
                 mapVars>>

\* scheduler-start: ProcessGenerator::start.
StartGenerator ==
  /\ main = "prompt"
  /\ Initialized
  /\ ~generator.running
  /\ IF generator.joinable
     THEN crashed' = TRUE /\ UNCHANGED <<thread, generator>>
     ELSE /\ thread' = "loop"
          /\ generator' = [generator EXCEPT !.running = TRUE, !.joinable = TRUE]
          /\ UNCHANGED crashed
  /\ UNCHANGED <<main, inits, scheduler, id, submitted, screenVars,
                 mapVars>>

\* scheduler-stop and ~CLI: ProcessGenerator::stop clears running_ ...
StopGenerator(next) ==
  /\ main = "prompt"
  /\ generator' = [generator EXCEPT !.running = FALSE]
  /\ main' = next
  /\ UNCHANGED <<inits, scheduler, thread, id, submitted, screenVars,
                 mapVars, crashed>>

SchedulerStop == Initialized /\ StopGenerator("join")
Exit == StopGenerator("exit_join")

\* Does not wait for the thread.
JoinGeneratorFault ==
  /\ main \in {"join", "exit_join"}
  /\ generator' = [generator EXCEPT !.joinable = FALSE]
  /\ main' = IF main = "join" THEN "prompt" ELSE "exit_delete"
  /\ UNCHANGED <<inits, scheduler, thread, id, submitted, screenVars,
                 mapVars, crashed>>

\* ... and joins the thread if there is one.
JoinGenerator ==
  /\ main \in {"join", "exit_join"}
  /\ generator.joinable => thread = "done"
  /\ generator' = [generator EXCEPT !.joinable = FALSE]
  /\ thread' = "none"
  /\ main' = IF main = "join" THEN "prompt" ELSE "exit_delete"
  /\ UNCHANGED <<inits, scheduler, id, submitted, screenVars,
                 mapVars, crashed>>

\* ~CLI goes on to stop and delete the scheduler.
DeleteScheduler ==
  /\ main = "exit_delete"
  /\ scheduler' = 0
  /\ main' = "ended"
  /\ UNCHANGED <<inits, generator, thread, id, submitted, screenVars,
                 mapVars, crashed>>

\* Replaces the screen of that name.
KeepScreenFault(n, p) == Map!Put(screens, n, p)

\* create_screen leaves a screen of that name alone, and the CLI does not look
\* at what it returns.
KeepScreen(n, p) == IF n \in DOMAIN screens THEN screens ELSE Map!Put(screens, n, p)

\* screen -s
CreateScreen(n) ==
  /\ main = "prompt"
  /\ Initialized
  /\ userPid < FirstUserPid + MaxUser
  /\ userPid' = userPid + 1
  /\ typed' = Append(typed, n)
  /\ screens' = KeepScreen(n, Process("user", userPid, n))
  /\ Submit(Process("user", userPid, n))
  /\ UNCHANGED <<main, inits, scheduler, generator, thread, id, mapVars, crashed>>

\* screen -r, if find() finds the name, reads commands until exit.
AttachScreen(n) ==
  /\ main = "prompt"
  /\ Initialized
  /\ n \in DOMAIN screens
  /\ main' = "attached"
  /\ UNCHANGED <<inits, scheduler, generator, thread, id, submitted, screenVars,
                 mapVars, crashed>>

DetachScreen ==
  /\ main = "attached"
  /\ main' = "prompt"
  /\ UNCHANGED <<inits, scheduler, generator, thread, id, submitted, screenVars,
                 mapVars, crashed>>

CliStep == \/ NewScheduler \/ ReplaceGenerator \/ JoinGenerator \/ DeleteScheduler

CliCommand ==
  \/ Initialize \/ StartGenerator \/ SchedulerStop \/ Exit
  \/ \E n \in UserNames : CreateScreen(n)
  \/ \E n \in UserNames : AttachScreen(n)
  \/ DetachScreen

-----------------------------------------------------------------------------
(***************************************************************************)
(* The generator's thread: ProcessGenerator::loop.  What the program of a  *)
(* process is, is in module ProcessGenerator.                              *)
(***************************************************************************)

\* Forgets what it had counted when the loop begins again.
LoopTestFault ==
  /\ thread = "loop"
  /\ generator.running => generator.nextId <= MaxGenerated
  /\ thread' = IF generator.running THEN "make" ELSE "done"
  /\ generator' = IF generator.running THEN generator
                  ELSE [generator EXCEPT !.nextId = 1]
  /\ UNCHANGED <<main, inits, scheduler, id, submitted, screenVars,
                 mapVars, crashed>>

\* Never looks at running_.
LoopForeverFault ==
  /\ thread = "loop"
  /\ generator.nextId <= MaxGenerated
  /\ thread' = "make"
  /\ UNCHANGED <<main, inits, scheduler, generator, id, submitted,
                 screenVars, mapVars, crashed>>

\* At the bound it sleeps until it is stopped.
LoopTest ==
  /\ thread = "loop"
  /\ generator.running => generator.nextId <= MaxGenerated
  /\ thread' = IF generator.running THEN "make" ELSE "done"
  /\ UNCHANGED <<main, inits, scheduler, generator, id, submitted,
                 screenVars, mapVars, crashed>>

MakeProcess ==
  /\ thread = "make"
  /\ id' = generator.nextId
  /\ generator' = [generator EXCEPT !.nextId = @ + 1]
  /\ thread' = "submit"
  /\ UNCHANGED <<main, inits, scheduler, submitted, screenVars, mapVars, crashed>>

\* submit_process through sched_, a reference fixed when the generator was made.
SubmitGenerated ==
  /\ thread = "submit"
  /\ IF generator.sched = scheduler
     THEN Submit(Process("generator", id, <<id>>)) /\ UNCHANGED crashed
     ELSE crashed' = TRUE /\ UNCHANGED submitted
  /\ thread' = "loop"
  /\ UNCHANGED <<main, inits, scheduler, generator, id, screenVars, mapVars>>

GeneratorStep == LoopTest \/ MakeProcess \/ SubmitGenerated

\* A worker's release_cpu_interrupt puts a process of this scheduler that is done
\* into its map.
FinishProcess(p, t) ==
  /\ scheduler # 0
  /\ \E i \in DOMAIN submitted : submitted[i] = p
  /\ Map!Insert(p, t)
  /\ UNCHANGED <<main, inits, scheduler, generator, thread, id, submitted,
                 screenVars, crashed>>

-----------------------------------------------------------------------------
Init ==
  /\ main = "prompt"
  /\ inits = 0
  /\ scheduler = 0
  /\ generator = NoGenerator
  /\ thread = "none"
  /\ id = 0
  /\ userPid = FirstUserPid
  /\ submitted = <<>>
  /\ screens = <<>>
  /\ typed = <<>>
  /\ Map!Init
  /\ crashed = FALSE

Step == \/ CliStep \/ CliCommand \/ GeneratorStep
        \/ \E p \in Procs, t \in 1 .. MaxTick : FinishProcess(p, t)

Ended == (crashed \/ main = "ended") /\ UNCHANGED vars

Next == (~crashed /\ Step) \/ Ended

\* The operating system runs both threads; the user may never type again.
Fairness == WF_vars(~crashed /\ CliStep) /\ WF_vars(~crashed /\ GeneratorStep)

Spec == Init /\ [][Next]_vars
FairSpec == Spec /\ Fairness

-----------------------------------------------------------------------------
(***************************************************************************)
(* Properties.                                                             *)
(***************************************************************************)
\* Which of the first n submitted processes the generator made.
Generated(n) == {i \in 1 .. n : submitted[i].by = "generator"}

\* Threads are where they can be; a generator, once there is one, refers to a
\* scheduler that was made, and a thread exists exactly as long as it must be
\* joined.
TypeOK ==
  /\ main \in {"prompt", "init_scheduler", "init_generator", "join",
               "exit_join", "exit_delete", "ended", "attached"}
  /\ inits \in 0 .. MaxInits
  /\ scheduler \in {0, inits}
  /\ generator.sched \in 0 .. inits
  /\ thread \in {"none", "loop", "make", "submit", "done"}
  /\ generator.joinable <=> thread # "none"
  /\ userPid \in FirstUserPid .. FirstUserPid + MaxUser
  /\ \A n \in DOMAIN screens : n \in UserNames /\ screens[n] \in Procs
  /\ Map!TypeOK

\* src/process_generator.cpp:230 "References to cfg and sched must remain valid
\* for generator lifetime", and :318 "Must be paired with stop() to clean up
\* resources": commands in any order neither delete a scheduler the generator's
\* thread still uses nor a generator whose thread still runs.  It takes that the
\* user stops the generator before initialize (StopFirst), which does not itself.
LifetimesAreRespected == ~crashed

\* Once scheduler-stop has returned, however the thread was caught in its loop,
\* no process comes from the generator until the next scheduler-start.
StopMeansStopped ==
  [][ Cardinality(Generated(Len(submitted))') > Cardinality(Generated(Len(submitted))) =>
        generator.running \/ main \in {"join", "exit_join"} ]_vars

\* The generator numbers the processes of a scheduler 1, 2, 3 ... also across
\* scheduler-stop and scheduler-start: none is made and not submitted.
GeneratedInOrder ==
  \A i \in Generated(Len(submitted)) :
    submitted[i].pid = Cardinality(Generated(i))

\* src/cli.cpp:111 "avoid collision with generator": two counters that know nothing
\* of each other give the processes of a scheduler different ids, which the ready
\* queue's order needs, through stops, restarts and new generators; until the
\* generator has used all below the user's first, from which on they meet.
IdsDiffer ==
  generator.nextId <= FirstUserPid =>
    \A i, j \in DOMAIN submitted : submitted[i].pid = submitted[j].pid => i = j

\* src/screen.cpp:8 "Create a new screen entry if it doesn't already exist": what
\* screen -r shows for a name is the first process the user gave that name to,
\* with whichever processes of that name later, finished or not, and whichever
\* schedulers in between.
ScreenShowsFirst ==
  \A m \in DOMAIN typed :
    \E first \in 1 .. m :
      /\ typed[first] = typed[m]
      /\ \A l \in 1 .. first - 1 : typed[l] # typed[m]
      /\ typed[m] \in DOMAIN screens
      /\ screens[typed[m]].pid = FirstUserPid + first - 1

\* Of the processes a scheduler finished, created by the user and the generator
\* under names that may be the same but are plain, none replaces another, the
\* duplicates are numbered without a gap, and each is listed once.  Where the user
\* types a numbered name, as handle_screen_command lets him, the first of these
\* fails, though src/finished_map.cpp:8 says "ensure unique name if duplicates".
FoundByName == Map!FoundByName
NumberedInOrder == Map!NumberedInOrder
ListedOnce == Map!ListedOnce

\* Whatever the user and the generator do, the map sees what module FinishedMap
\* lets happen to it: processes that finish one by one, a clear that comes with a
\* new scheduler, and screens that keep hold of every process they were ever given.
ImplementsFinishedMap == Map!Spec

\* The exit command ends the program, with the generator's thread at whatever
\* point of its loop.
ExitEnds == main = "exit_join" ~> main = "ended"
=============================================================================
