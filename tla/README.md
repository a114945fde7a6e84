# A TLA+ model of the CSOPESY-FONTAINE scheduler

The program is an emulator of an operating system's process scheduler. A CLI
creates processes by hand or through a generator thread; a scheduler thread
and one worker thread per CPU run them in lockstep, tick by tick, over one
`std::barrier`. This directory models it in TLA+, checks the models with TLC
and proves with TLAPS, for every number of CPUs, processes and workers, the
safety properties and refinements the models are checked for.

Source lines are cited by their path in the repository.

## 1. Inventory

| Component | State | Operations | Talks to |
|---|---|---|---|
| Scheduler thread (`src/scheduler.cpp`) | `tick_`, `job_queue_`, `ready_queue_`, `sleep_queue_`, `running_`, `cpu_quantum_remaining_`, `finished_`, `log_queue` | `tick_loop`: `pause_check`, `timer_check`, `preemption_check`, `long_term_admission`, `short_term_dispatch`, `log_status`, `snapshot` | the workers through the barrier and `short_term_mtx_`; its callers through the job queue |
| CPU workers (`src/cpu_worker.cpp`) | `running_` (their own flag), their process and its context | `loop`: `dispatch_to_cpu`, `execute_tick`, `release_cpu_interrupt` | scheduler, process |
| Start, pause, resume, stop (`src/scheduler.cpp`, `src/scheduler_utils.cpp`) | `sched_running_`, `paused_`, `scheduler_mtx_`, `pause_cv_`, the barrier's counts | `start`, `pause`, `resume`, `stop` | every thread |
| Process (`src/process.cpp`) | `m_state`, `pc`, `m_sleep_remaining`, `m_delay_remaining`, `vars`, `m_logs`, the metrics | the constructor (unrolls FOR), `execute_tick`, `set_state` | called by one worker at a time |
| Ready queue (`DynamicVictimChannel`, `src/scheduler_utils.cpp`) | a multiset ordered by policy | `send`, `receiveNext`, `receiveVictim`, `setPolicy` | scheduler thread, workers |
| Channels (`include/util.hpp`) | a deque | `send`, `receive`, `isEmpty`, `snapshot`, `empty` | job queue, log queue |
| Finished map (`src/finished_map.cpp`) | processes by name, by tick, by time; duplicate counts | `insert` (renames duplicates), queries, `clear` | workers insert, snapshots read |
| Generator (`src/process_generator.cpp`) | `running_`, `thread_`, `next_id_`, a reference to a scheduler | `start`, `stop`, `loop`, the estimate of the unrolled size | scheduler |
| CLI (`src/cli.cpp`), screens (`src/screen.cpp`) | `scheduler_`, `generator_`, `reporter_`, `user_pid`, `screens_` | `initialize`, `scheduler-start`, `scheduler-stop`, `screen`, `report-util`, `exit` | everything |
| Reporter (`src/reporter.cpp`) | none | `derive_utilization` from the log queue, `build_report`, `write_log`, on the CLI's thread | scheduler |
| Configuration (`src/config.cpp`) | none | `load_config` reads `config.txt` word by word | CLI, which gives copies to scheduler and generator |

What is hard here:

* Concurrency. The scheduler thread reads `running_` without the mutex under
  which the workers write it, and dispatches to the same CPUs as they do. Three
  synchronisations per tick share one barrier that cannot tell them apart.
* Two views of a process. Its own `m_state` and the queue it is in are written
  by different threads, and `release_cpu_interrupt` goes by the former.
* Two sleeps. A sleeping process is counted down by the timer and by itself.
* Lifetimes. `pause`, `resume` and `stop` may come at any point of a tick;
  `initialize` deletes what another thread uses, and keeps what it does not
  delete (the screens).
* Reports without a snapshot. `snapshot()` reads one queue after the other while
  processes move between them, not under the mutex under which they move; the log
  queue it feeds is never emptied.
* Names and ids. Users and generator choose both without looking at each other.

What makes each component correct, and which property says so:

| Component | Correct means | Properties |
|---|---|---|
| Scheduler and workers | nobody acts in another part of the tick | `Lockstep` |
| | a worker's process stays its own | `WorkerOwnsProcess` |
| | no process is lost, duplicated or on two CPUs | `Conservation` |
| | a process's state fits its queue | `StateMatchesPlace` |
| | sleepers are woken on time; CPUs are not idle beside ready processes | `NoLateWakeup`, `WorkConserving` |
| | it is what the callers are promised | `ImplementsLifecycle`, `EventuallyFinished` |
| Start, pause, stop | a pause holds, a resume arrives, a stop ends, a second start ticks | `PauseStopsTicks`, `NoLostWakeup`, `StopStopsTicks`, `StopLeavesNobodyWaiting`, `TicksForever` (and what fails, section 4) |
| Process | it computes its program, in the ticks its program is worth, and is shown so | `ComputesItsProgram`, `CallsAreAccountedFor`, `ReportedAsRun` |
| Configuration | the last line of a key decides | `LastLineDecides` |
| Finished map | every process is found, under a name of its own | `FoundByName`, `NumberedInOrder`, `ListedOnce`, `ImplementsFinishedMap` |
| Generation | estimate and unrolling agree; the budget holds | `EstimateIsExact`, `WithinBudget`, `GeneratedIsFlat` |
| CLI, screens, generator thread | nothing deleted is used; stop stops; exit ends; a screen stays its process's | `LifetimesAreRespected`, `StopMeansStopped`, `GeneratedInOrder`, `IdsDiffer`, `ExitEnds`, `ScreenShowsFirst` |
| Reporter | nobody is overlooked but in the hands of a thread; what utilization and log really are | `OverlookedInHand`, `UtilizationNeverRises`, `LogIsComplete` |

The hazards behind them, each at its line, are in `PROJECT.json`.

## 2. Modules

`ProcessExec` -> `Scheduler` -> `Reporter` -> `MCReporter`, and `Scheduler` ->
`MCScheduler`; `ProcessExec` -> `Process` -> `MCProcess`; `Config` ->
`ProcessGenerator` -> `MCProcessGenerator`. `Console` ->
`MCConsole`. `Scheduler` instantiates `ProcessLifecycle`, `Console` instantiates
`FinishedMap`. `TickProtocol` stands
alone.

The proofs are beside them: `ProcessExecProofs` (lemmas only) -> `SchedulerProofs`
-> `ReporterProofs`; `ProcessProofs` extends `ProcessExecProofs` too;
`GeneratorProofs` (of `ProcessGenerator` and `Config`), `TickProtocolProofs`,
`FinishedMapProofs` and `ConsoleProofs` extend the modules they are named after,
and `ConsoleProofs` instantiates `FinishedMapProofs`.

* **ProcessExec**: `execute_tick` as an operator on a control block (state, pc,
  sleep, delay, executed), with the five cases in the code's order. An
  instruction is WORK, SLEEP or FOR: what the control block can tell apart.
* **Scheduler**: the core. Each thread has a program counter. One step of the
  model is a stretch of code that holds `short_term_mtx_` or a channel's mutex,
  or that touches what other threads see at most once: the unlocked test of
  `running_` in `short_term_dispatch` and the locked dispatch after it are two
  steps, as are the test and the use of the pointer in `cpu_state_snapshot`.
  `timer_check` and the tests at the start of a tick are single steps, because
  the workers are at a barrier then, which `Lockstep` checks and proves.
  `dispatch_to_cpu` and `release_cpu_interrupt` hold `short_term_mtx_` from end to end
  and are one step each; what a thread without that mutex sees of them is split
  in `Reporter`.
  `NewBlock`, `running`, `quantum` and so on are the code's variables under the
  names given where they are declared. The timer's heap is the set of its
  entries: `timer_check` takes all that are due, and the ready queue they go to
  has an order of its own. The ready queue's multiset is a set with the
  comparator `Before`, which is total because ids differ.
* **ProcessLifecycle**: what a caller is promised, without queues, threads and
  ticks: absent, new, ready, running, asleep, finished. `Scheduler` implements
  it under the mapping in its definition of `Lifecycle` (a process between
  `receive` and `send` of the admission is still new; `done` is its `pc`).
* **TickProtocol**: the same threads seen from `pause`, `resume` and `stop`:
  flags, mutex, condition variable, and a `std::barrier` with its counts
  (arrivals that complete this phase, arrivals that complete the next, drops).
  A tick's work is one step. It is apart from `Scheduler` because the two share
  only the barrier, and each keeps a state space small enough for the other's
  detail. `start()` may come again after `stop()`: it makes a new barrier and new
  threads, while `cpu_workers_` keeps the old workers in front, for which the
  next `stop()` drops too. Their threads have ended, so the model keeps only
  their number.
* **Reporter**: the CLI's thread beside `Scheduler`'s. `screen -ls` builds one
  report, `report-util` two. Each section of `snapshot()` is a step, as is the
  copy of the log queue; the CPUs are read pointer by pointer, as in
  `Scheduler`'s own snapshot. A report does not take `short_term_mtx_`, so here a
  dispatch and a release are two steps: one takes a process out of its place
  (`src/scheduler.cpp:114`, `:129`, `:133`) and the other puts it where it goes (`:118`,
  `:130`, `:144`). `hand` is the process a thread has in between; what `Scheduler`'s
  variables say of it is not yet so for a reader (`RunningNow`, `FinishedNow`),
  be it the report or an unlocked test of the scheduler thread (`FindsCpuIdle`),
  and no other thread passes the mutex meanwhile. A snapshot in `logQueue` is the set of the CPUs it
  lists as busy, so that its IDLE lines are the others.
* **Process**: one process with variables, clamped arithmetic, log and a CPU
  that calls it once a tick. A token is a literal of any size, a sign without
  digits or a variable. `ReadToken` and `SleepTicks` contain what `std::stoll` and
  `std::stoul` throw at, and the 0 their handlers take. `Meaning` is the reference:
  the program's instructions one after the other, without ticks; `Value` and
  `SleepsFor` are its own account of operands, by what they are worth and not by
  how they are converted. `Meaning` and `Cost` are recursive functions on the
  positions of the program.
* **Config**: `load_config` as an operator on the words of the file: pairs of a
  word and the next, the field a key sets, `stoul` with its wrap-around and its
  exception. `Stoul` maps the words it accepts to the numbers they begin with.
* **ProcessGenerator**: from the configuration to a program: `initialize` loads a
  file, the generator's thread or `screen -s` picks a length from it and adds
  instructions within the budget, the constructor unrolls them. What the code
  computes by recursion (a random instruction, the estimate, the unrolling) is a
  recursive function on how deep FORs may still be nested, `FOR_MAX_NESTING` less
  the code's `depth`; the loops over a sequence (`Sum`, `Read`) are recursive
  functions on its positions. `Instruction` is the domain of the unrolling, one
  level deeper than the limit, so that what happens at the limit is there;
  `RandomInstruction` is what the generator makes. Sizes are natural numbers: that
  they fit the code's `uint32_t` is a theorem (`SizesStaySmall`).
* **FinishedMap**: the map of finished processes. A name is a sequence: `a` is
  `<<n>>` and `a_(1)` is `<<n, 1>>`.
* **Console**: CLI thread and generator thread with the objects they share, the
  screens, and a `FinishedMap` for the processes that finish. A scheduler is the
  number of the `initialize` that made it; a submission through a reference to
  another one is a use after delete. The user may type the names the generator
  gives (`p01` is `<<1>>`), numbered names, and the same name twice, also after
  another `initialize`.
* **MC...**: the processes, programs and names of the runs.

A definition whose name ends in `Fault` is not the code. It is what a slip
would make of the definition after it; `PROJECT.json` says which property then
fails.

## 3. Runs that pass

| Run | Question | Bounds | States |
|---|---|---|---|
| `sched_safety` | the eight properties of the scheduler | 2 CPUs, 3 processes (sleep then work; work twice; sleep last), RR with quantum 1, a policy change at any time, a snapshot at tick 4, 5 ticks | 662 000 |
| `sched_liveness` | does every submitted process finish | 1 CPU, 3 processes, busy waits of 1 tick, `quantum-cycles 0` with a largest count of 2, submissions up to tick 3, 15 ticks | 275 000 |
| `tick_protocol` | pause, resume, stop and a second start at any moment | 2 workers, any number of pauses and resumes, 2 starts | 73 800 |
| `process_exec` | the meaning of programs, their cost in calls, what reports show | all programs of 0 to 3 of 14 instructions; delays 0 and 2 | 39 900 |
| `gen_budget` | configuration, estimate, budget and unrolling | all files of up to 4 of 6 words, numbers modulo 4; nesting 2, repeats 1 to 3, bodies of 1 or 2, budget 6 | 144 000 |
| `console` | lifetimes, stop, exit, screens, names of finished processes | 2 initializes, each with the generator stopped; 2 generated processes for each and 2 typed ones, 2 plain names, finishing at ticks 1 and 2; users' ids from 2 | 580 000 |
| `report` | reports against the running scheduler | 2 CPUs, 2 processes (work; sleep then work), FCFS, a snapshot every second tick, 2 ticks, 2 reports begun at any moment | 3 890 000 |

Why the bounds are enough. Two CPUs and three processes give every kind of
competition: two dispatchers for one CPU, a process that waits, sleepers due at
once, a worker that releases while the scheduler scans. Five ticks contain a
sleep, its wakeup, the process's second sleep on the CPU, a preemption and a
snapshot. `MaxTick` ends a behaviour at the start of a tick, with all workers at
the barrier; no other thread is cut off. `MaxSubmitTick` bounds when processes
arrive. In `sched_liveness` the bound on ticks lies beyond the longest run of
the three programs, or the property would fail. `TickProtocol` has no bound
but a modulus for `tick_`. In `process_exec` `SleepWidth` is 8 in place
of 2^32, so that SLEEP(-5) sleeps for 3 ticks in place of 4294967291; `LongLongMax`
is 99999 in place of 2^63 - 1 and `UlongMax` 63 in place of 2^64 - 1, and the
instructions contain literals within and beyond each. In `gen_budget` the code's limits
(nesting 3, bodies of 3) are scaled; the bounds of the range are in the wrong
order by default to pass through `rand_range`'s swap, and `-1` wraps to 3 in place
of 4294967295. Two lines make a file with a key twice, a value left out, a word
that is no number and a word that is no key. In `console` two names and two users'
processes give every way for user and generator to meet in a name, and a second
`initialize` a screen that outlives its scheduler. In `report` a process moves
in each way while the report passes it: onto a CPU, off it, asleep and, once awake,
onto the other one. One snapshot is enough for the log queue to have
something to lose: without it the second report would show more used cores than
the first.

Some properties have a precondition, stated with them. `Lockstep`,
`NoLostWakeup` and `TicksForever` of `TickProtocol` end where `stop()` begins,
after which the barrier may be misused (`tick_stop`), and begin again with the
next `start()`; `TicksForever` is about behaviours in which in the end nobody
calls anything, for a `pause()` may stop the program for good (`tick_resume`).
`StopLeavesNobodyWaiting` leaves out a `stop()` that begins in a pause, as
section 4 explains. `FoundByName`, `NumberedInOrder` and `ListedOnce` take names that are
not numbered (`UserNames` in `console`; the model allows any),
`LifetimesAreRespected` a user who stops the generator before `initialize`
(`StopFirst`); section 4 says what happens otherwise. `OverlookedInHand` is
about processes that never sleep, because one that falls asleep behind the report
is missed, and that no thread had in hand when the report came to a CPU, because
such a one may be missed too. A literal that `std::stoll` cannot read counts as 0 in
`ComputesItsProgram`, as in the code. Section 4 describes all three.
`UtilizationNeverRises` and `LogIsComplete` state what the code does, which is
hardly what was meant: section 4.

Deadlock is checked except in the runs of `TickProtocol`, where the program
really can stop.

Fairness. The operating system runs every thread that can run: weak fairness
for each thread, the workers', the scheduler's, the generator's, and the
caller's once it is inside a call. A thread that keeps trying to lock a mutex
that keeps becoming free gets it (strong fairness for the locks), which no
standard promises but every system provides in practice; no violation rests on
its absence. Nothing makes a user type, a caller call or a spurious wakeup
happen.

## 4. Runs that show a disagreement

Each checks what a doc, a comment or a test says, and finds it violated by the
code. The quotations are in `PROJECT.json`.

| Run | What the code does |
|---|---|
| `sched_rotation` | RR never rotates: `release_cpu_interrupt` ignores a process that is READY or RUNNING, so `dispatch_to_cpu` returns the one already there |
| `sched_sleep` | SLEEP(X) is served twice, by the timer and again on the CPU |
| `sched_snapshot` | the snapshot follows a pointer that a worker has cleared since it was tested |
| `tick_resume` | a pause between `pause_check` and the tick's lock ends in a deadlock: the scheduler thread holds the mutex at a barrier the workers do not come to, `resume()` waits for it |
| `tick_stop` | `stop()` arrives at the barrier for threads that arrive themselves |

What holds in spite of these: all threads stay in step until `stop()`
(`tick_protocol`, `sched_safety`), `PauseStopsTicks` and `StopStopsTicks`
say how far a pause or a stop can overrun, one tick, and `OverlookedInHand` that
nothing but the gap makes a report miss a process that never sleeps.

The modules show these as well, for a reader who follows the definition; no
run is spent on them:

* `execute_tick` is called with `get_scheduler_tick_delay()` (`src/cpu_worker.cpp:61`),
  so the milliseconds of a tick are also a busy wait of as many ticks.
  `delay-per-exec` is read and never used. (`Scheduler`, `TickDelay`)
* The busy wait is set after the last instruction too (`src/process.cpp:575`, a test
  that is always true), in spite of the comment on the next line; nobody serves
  it, because a process that is FINISHED is released at once. (`ProcessExec`,
  `Advance`; `CallsAreAccountedFor`)
* A SLEEP returns before it is counted as executed (`src/process.cpp:537`; the
  comment at `:554` excepts FOR only): `ReportedAsRun` says by how much the
  "executed / total" of a finished process is short.
* `Channel::empty()` empties nothing (`include/util.hpp:70`), so that the log queue
  keeps every snapshot (`LogIsComplete`) and the utilization, which counts the IDLE
  lines of all of them, can only fall (`UtilizationNeverRises`): 100% before the
  first snapshot, 0% for good once as many idle CPUs have been logged as there
  are CPUs. (`Reporter`)
* A word that is no number where `load_config` wants one ends the program
  (`src/config.cpp:31`), a value left out shifts all pairs after it (`:26`), and
  `-1` is taken for 4294967295. (`Config`)
* `snapshot-cooldown 0` divides by zero in the first tick (`src/scheduler.cpp:221`);
  `quantum-cycles 0` makes the quantum 4294967295; with `num-cpu 0` ticks go by
  and nothing runs. (`Scheduler`, `LogStatus`, `Quantum`)
* A second process of a name gets no screen and no word about it
  (`src/cli.cpp:115`); `screen -r` shows the first, even when it belonged to a
  scheduler that is gone (`ScreenShowsFirst`). (`Console`)
* A report may miss a process that never sleeps. `snapshot()` does not take
  `short_term_mtx_`: what `dispatch_to_cpu` has taken out of the ready queue
  (`src/scheduler.cpp:114`) and not yet put on its CPU (`:118`), or
  `release_cpu_interrupt` has taken off its CPU (`:129`) and not yet inserted into
  the finished map (`:130`), is in no section of a report that looks in between.
  `OverlookedInHand` says that nothing else makes a report miss such a process;
  without `\ passed` in it TLC finds the gap. (`Reporter`, `ThreadMoves` and
  `PutDown`)
* A literal that `std::stoll` cannot read, of 2^63 or more, is 0 and not 65535
  (`src/process.cpp:352`), in spite of "will be clamped" at `:339`; an operand of SLEEP
  that `std::stoul` cannot read is no sleep at all (`:525`). (`Process`, `ReadToken`
  and `SleepTicks`)
* A numbered name may be taken. `screen -s` takes any name (`src/cli.cpp:107`), and
  `rename_process` (`src/finished_map.cpp:70`) does not look up the one it makes: the
  process the user called `a_(1)` is replaced by the second that is called `a`, in
  spite of "ensure unique name if duplicates" at `:8`. (`FinishedMap`,
  `RenameProcess`; `FoundByName` with `<<0, 1>>` among `UserNames`)
* FOR is unrolled three levels deep (`include/instruction.hpp:20`), not the ten of
  the comment at `src/process.cpp:120`. The generator never nests deeper
  (`GeneratedIsFlat`); a caller who does keeps a FOR that is skipped.
  (`ProcessGenerator`, `Unroll`)
* `initialize` while the generator runs (`src/cli.cpp:65`) deletes the scheduler the
  thread refers to and then the generator with its joinable thread.
  (`Console` with `StopFirst` FALSE)
* The ids of user and generator meet after 99999 generated processes
  (`src/cli.cpp:111`); `IdsDiffer` holds until then. (`Console`, `userPid`)
* `stop()` stores `paused_` and notifies without the mutex (`src/scheduler.cpp:70`). A
  scheduler thread between its test and its wait misses both and is joined for
  ever, but only if the program was paused when `stop()` began:
  `StopLeavesNobodyWaiting`. (`TickProtocol`, `StopNotifies` between `PauseTest`
  and `PauseBlock`)
* A `stop()` after a second `start()` drops for the first workers too
  (`src/scheduler.cpp:73`), more often than the new barrier has threads. Nothing
  in the program starts a scheduler twice. (`TickProtocol`, `OldWorkers`)

## 5. Proofs

Every theorem is of a module's specification, for every value of the constants
its named assumptions allow: no theorem bounds the number of CPUs, processes,
names, instructions, words of a file or ticks. A theorem about a run's property
states it by name. The assumptions say that numbers are natural, that the quantum
fits the type of its counter, that the null pointer is no process, that `TickProtocol` has
a worker, that programs are sequences of instructions and files sequences of
words, that no leaf is a FOR, that a FOR has room for a repeat and an instruction,
and that `Config`'s initializers (`include/config.hpp:11`) are numbers of a `uint32_t`,
one for each key, and that `SleepWidth` divides `UlongMax + 1`. Some theorems take
more, and say so in their statement: see `LogCompleteCorrect`, `LifetimesCorrect`,
and `PlainNames` and `PlainUserNames` below.

`SchedulerProofs` (module `Scheduler`):

* `TypeCorrect`: `TypeOK` is not inductive: that `k` indexes
  a CPU at the labels that use it, that the admission holds a process exactly
  between receive and send, and that a worker that executes has one, is
  `LocalsOK`. `TypeInv == TypeOK /\ LocalsOK` is inductive. `ExecuteTickType`
  carries it through `execute_tick`, and the quantum's part needs the guard of
  `preemption_check`: it never underflows.
* `LockstepCorrect`: inductive beside `TypeInv`. `BarrierLockstep` is its heart: a
  barrier completes only with all threads waiting, and when all are in the same
  part they wait at the same one of the three, so that all go on to the same part.
* `OwnershipCorrect` (`WorkerOwnsProcess`): needs `Lockstep`. The
  preemption, which could take a CPU's process away, runs in another part of
  the tick than a worker's execution; the scheduler's other dispatches leave a
  CPU alone that is busy when they hold the mutex, whatever they saw before.
* `ConservationCorrect`: needs ownership (a worker
  releases what its CPU holds) and `TypeInv` (the admission sends what it
  received); one lemma per way a process moves.

On these four build:

* `StateMatchesPlaceCorrect`: needs `WithinProgram`, that a process is FINISHED
  only with its `pc` at the program's end, or `dispatch_to_cpu` could bring one
  back; and `Lockstep`, since between `execute_tick` and the release the process's
  state fits no queue but the worker that must release it is still to come.
  `SchedInv` is all of this together, and what the rest rests on.
* `NoLateWakeupCorrect`: needs `SleepIsAhead`: a worker that is about to put a
  process to sleep was told to for at least one tick, and by `Lockstep` `tick_` does
  not move before it has done so.
* `WorkConservingCorrect`: needs `ScannedIsBusy`, what the property becomes while
  the scan is under way: a CPU behind it that is idle beside a ready process had a
  process, or its worker has yet to look. The scan trusts a test made without the
  mutex.
* `LifecycleImplemented`: `Spec => ImplementsLifecycle`, the refinement of
  `ProcessLifecycle` under the mapping in `Scheduler`. Each action moves the stage
  of a set of processes (`StageMoves`), which for `SchedInv` is one stage change
  of one process or, where two processes change CPUs, one that the abstract
  specification allows; every other step stutters.

`TickProtocolProofs` (module `TickProtocol`): the invariant is in two parts.
`FlagInv` holds for all time. `CallerInv` relates `stop()`'s progress to
`sched_running_` and says that old threads are gone before a second `start()`;
`MutexInv` is who holds `scheduler_mtx_` where; `TickInv` is where the scheduler
thread can be when a tick has passed since a pause or stop; `WakeInv` that the
test of `paused_` and the wait are one step for whoever locks, and that `stop()`,
which does not, finds the thread there only in a pause. From it follow
`TypeCorrect` (with `pending <= expected`, so that nothing the barrier counts
becomes negative), `PauseStopsTicksCorrect`, `StopStopsTicksCorrect`,
`NoLostWakeupCorrect` and `StopLeavesNobodyWaitingCorrect`. `BarrierInv` holds
until `stop()` begins: the barrier's count is the cardinality of the set of threads
that have not arrived. It gives `LockstepCorrect` (the arrival that completes a
phase is the last thread's) and `ContractUntilStop`: until `stop()` begins nobody
arrives more often than a phase expects, so that what `tick_stop` shows is
`stop()`'s doing alone.

`ReporterProofs` (module `Reporter`): a step of `Reporter` is one of the scheduler's
threads, the putting down of a process, an unlocked test that finds a CPU idle
while its process is on the way to it (`FindsIdleKeepsSchedInv`), or a report's,
which changes nothing of the scheduler's but the crash flag: `SchedInv` holds
beside it. `HandInv` says that the thread with a finished process in hand is the one
whose CPU has lost it.

* `ReportTypeCorrect`; `UtilizationCorrect`: `Spec => UtilizationNeverRises`, from
  `UsedInv` (the cores that are not "used" each have an IDLE line, and the lines
  only grow).
* `LogCompleteCorrect`: from `LogInv`, which ties the length of the log queue to
  `tick_` at every label. For `SnapshotCooldown > 0`; with 0 the first tick divides
  by zero.
* `OverlookedInHandCorrect`: `AwakeInv` (a program without SLEEP never makes its
  process wait) and `OwedInv`: whoever a report owes, has not shown and has not met
  in a thread's hand is where the report has yet to look (`Findable`): in the ready
  queue, at a CPU not before the one it is at (`ToCome`), or finished, and then
  not in hand unless the CPU it left is still to come. `StaysInView` is how the
  scheduler's steps move a process, `OwedThreadStep` that none moves it behind the
  report without a hand the report meets.

`ProcessProofs` (module `Process`), for programs of any length: `ProcessInv` is
types, `MeaningInv` (log and variables against `Meaning`), `CountInv` (executed
instructions counted as a set), `EndInv` (who is at the end and not FINISHED ends
in a SLEEP or is empty), `CallsInv` (calls against `Cost`, less what is still to be
waited). `SleepsForTicks` is that the ticks an operand asks for are the remainder
the cast leaves: there is one such number below `SleepWidth` (`OneCongruent`).
`ReadTokenAgrees` is that `read_token_value` reads what a token is worth. Hence `TypeCorrect`, `ComputesCorrect`, `CallsCorrect`, `ReportCorrect`.
`Meaning` and `Cost` are recursive functions. That such a function exists and
unfolds is proved by induction over a set of numbers (`SetInduction`, `Recursion`)
from the library's fact that < on the naturals is well-founded, because the
library's induction theorems take a predicate as a parameter. `Agrees` is why
`ComputesItsProgram` says of variables what it says: `read_token_value` declares
what it does not find, which the meaning does not.

`GeneratorProofs` (module `ProcessGenerator`), for every file, budget and limit on
nesting, repeats and bodies. `GenInv` is types (`CfgInv`, `BuildInv`), `LoadedInv`
(the configuration is what the file says, as long as the file is remembered),
`BetweenInv` (no instructions while there is no program to make), `SizeInv` (the
running sum is that of the estimates), `BudgetInv` and `MadeInv`. The work is in
the lemmas about the functions it speaks of. Each is first shown to exist and to
unfold (`...Unfolds`), by induction over a set of numbers as in `ProcessProofs`.

* `LastLineCorrect`: `ReadDecides`, by induction along the pairs: a field holds what
  the last pair with its key says, or what it held. `PairsType` takes that from
  pairs to the words of the file, `LoadDecides` to the property.
* `TypeCorrect`: what is read from a file that `load_config` does not throw at is in
  range (`LoadType`), so that both ends of the range of lengths are.
* `EstimateCorrect`: `RandomAgrees`, by induction on the depth: an instruction the
  generator can make unrolls to leaves only, as many as its estimate. A body's
  estimate is a sum and its unrolling a concatenation (`FlattenLength`: a
  concatenation is as long as its parts together), a FOR multiplies the one and
  repeats the other (`SumRepeated`). `ConstructAgrees` is the same of a program.
  The unrolling's two other branches, at the depth limit and for no repeats, are
  in the definition and the proof shows that no generated instruction takes them
  (`RandomForType`, `LeafIsNoFor`).
* `BudgetCorrect`, from `BudgetInv` and `ConstructAgrees`; `FlatCorrect`, from the latter.
* `SizesStaySmall`: what is compared with the budget exceeds it by at most
  `LargestSize`, the size of FORs with most repeats and longest bodies at every
  level (`EstimateBounded`). With the code's limits that is 729 (`LargestOfCode`)
  and the budget 10000, which no line of `config.txt` changes: nothing wraps round.

`FinishedMapProofs` (module `FinishedMap`), for every set of processes:

* `FinishedTypeCorrect`: whatever the names. Beside `TypeOK`, that
  the list by tick is a sequence of entries and the processes in it are finitely
  many. `InsertAtAdds` says of the list what `InsertAt` does to it.
* `FoundByNameCorrect`: if the names given are not numbered
  (`PlainNames`). Not inductive by itself: a numbered name must be new when it is
  made. `NamesCounted` says so: a name in the map was given and is counted, or was
  made from one and its number was counted, so that the next number is free.
* `NumberedInOrderCorrect`, from that invariant, and `ListedOnceCorrect`, from it and
  `OwnName`: the map by name is a bijection with the processes kept, and each
  entry by tick has its process, because the map by name holds it.

`ConsoleProofs` (module `Console`), for any number of initializes and processes:
`RunInv` is types, `PlaceInv` (which scheduler there is at which point of a
command, and that a generator refers to one that was made), `ThreadInv` (a thread
runs until it is joined and is told to stop before that) and `CounterInv` (the id
the thread has drawn is the last).

* `LifetimesCorrect`: for a user who stops the generator before `initialize`
  (`StopFirst`); `LifeInv` says that at every prompt the generator refers to the
  scheduler there is, and that it has no thread while `initialize` runs.
* `StopMeansStoppedCorrect`, an action property, from `ThreadInv`.
* `GeneratedInOrderCorrect`: needs `CountInv`: the next id is one more than the number of
  processes the generator submitted, wherever its thread is.
* `IdsDifferCorrect`: `IdInv`: each counter is above the ids it gave out.
* `ScreenShowsFirstCorrect`: `ScreenInv`: as many names were typed as ids drawn, and a
  screen's name was typed.
* `ImplementsMapCorrect`: `Spec => ImplementsFinishedMap`: each step is one of
  `FinishedMap` or leaves its variables alone; the processes screens hold grow by
  at most one. `FoundByNameCorrect`, `NumberedInOrderCorrect` and
  `ListedOnceCorrect` of `Console` then are the theorems of `FinishedMapProofs`, for a
  user who types no numbered name (`PlainUserNames`): with the generator's names
  these fulfil `PlainNames` (`NamesArePlain`). Without that they are false
  (section 4). All else of `ConsoleProofs` is for any names, and
  `TypeCorrect` takes its part about the map from there.

Only model-checked: liveness under fairness (`EventuallyFinished`, `TicksForever`,
`ExitEnds`) and the absence of deadlock, for which this prover has no means. Every
other property of a passing run is a theorem.

## 6. Not modelled

Paging and swapping (declared, without code), `sleep_process` and
`receiveVictim` (nothing calls them), the text of snapshots, reports and
`process-smi`, the clock, and the split of a command line into words. The ready
queue's rebuild under `setPolicy` is one step of `Scheduler`, as it holds the
channel's mutex. Data races are modelled where they have outcomes to enumerate
(the pointers in `running_`); the unlocked copy of the timer's heap in a
snapshot, and the name that `FinishedMap` changes while others read it, are
hazards without a property. That `stop()` returns is assumed in `Console`.

## 7. Plan

1. **ReadyQueue**: `DynamicVictimChannel` alone, with `receiveVictim` and the
   rebuild under `setPolicy`, as an implementation of an abstract priority
   queue; the overtaking of waiting processes by new ones, against "a FIFO data
   structure" (`docs/scheduler.md:101`).
