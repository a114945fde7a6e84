------------------------- MODULE TickProtocolProofs -------------------------
(***************************************************************************)
(* Proofs about module TickProtocol, for every number of CPUs and whatever *)
(* sequence of start(), pause(), resume() and stop() the caller makes.     *)
(***************************************************************************)
EXTENDS TickProtocol, FiniteSetTheorems, TLAPS

\* The threads start() makes.
Others == 0 .. NumCpu

\* The caller in stop(), from its first store on.
StopLabels == {"s_clear", "s_notify", "s_flag", "s_drop", "s_join"}

USE DEF Cpus, Sched, Main, Threads, NoOwner, Others

-----------------------------------------------------------------------------
(***************************************************************************)
(* Types.  The barrier's count of a phase never passes what it expects, so *)
(* an arrival it accepts can also be dropped; stop() drops once for every  *)
(* worker there ever was.                                                  *)
(***************************************************************************)
TypeInv == /\ TypeOK
           /\ pending <= expected
           /\ pc[Main] = "s_drop" /\ ~crashed => next < NumCpu * starts

Labels == SchedLabels \cup WorkerLabels \cup MainLabels

Labelled(where) == /\ where \in [Threads -> Labels]
                   /\ where[Sched] \in SchedLabels
                   /\ \A c \in Cpus : where[c] \in WorkerLabels
                   /\ where[Main] \in MainLabels

LEMMA ThreadFacts ==
  /\ NumCpu \in Nat \ {0} /\ Sched \in Threads /\ Main \in Threads
  /\ Cpus \subseteq Threads /\ Sched \notin Cpus /\ Main \notin Cpus
  /\ Sched # Main /\ Threads = Cpus \cup {Sched, Main} /\ NoOwner \notin Threads
  /\ Others = Cpus \cup {Sched} /\ Main \notin Others
BY CpuAssumption

LEMMA TypeHasLabels == TypeOK => Labelled(pc)
BY DEF TypeOK, Labelled, Labels

\* One thread moves to one of its labels.
LEMMA MovesTo ==
  ASSUME TypeInv, NEW t \in Threads, NEW label, Goto(t, label),
         \/ t = Sched /\ label \in SchedLabels
         \/ t \in Cpus /\ label \in WorkerLabels
         \/ t = Main /\ label \in MainLabels
  PROVE  /\ Labelled(pc') /\ pc'[t] = label
         /\ \A u \in Threads \ {t} : pc'[u] = pc[u]
<1>1. Labelled(pc) /\ pc' = [pc EXCEPT ![t] = label]
  BY TypeHasLabels DEF TypeInv, Goto
<1> QED
  BY <1>1, ThreadFacts DEF Labelled, Labels

\* A phase that completes lets every thread go to one of its own labels.
LEMMA ReleasedLabelled ==
  ASSUME NEW where, Labelled(where)
  PROVE  /\ Labelled(Released(where))
         /\ \A t \in Threads : where[t] \notin Waiting => Released(where)[t] = where[t]
         /\ Released(where)[Main] = where[Main]
<1>1. /\ {SchedAfter[w] : w \in Waiting} \subseteq SchedLabels
      /\ {WorkerAfter[w] : w \in Waiting} \subseteq WorkerLabels
  BY DEF SchedAfter, WorkerAfter, Waiting, SchedLabels, WorkerLabels
<1>2. MainLabels \cap Waiting = {}
  BY DEF MainLabels, Waiting
<1> QED
  BY <1>1, <1>2, ThreadFacts DEF Labelled, Labels, Released

LEMMA ArriveType ==
  ASSUME TypeInv, NEW where, Labelled(where), NEW drop \in {0, 1}, Arrive(where, drop)
  PROVE  /\ Labelled(pc')
         /\ pc'[Main] \in {pc[Main], where[Main]}
         /\ ~crashed' => pc'[Main] = where[Main]
         /\ expected' \in 0 .. NumCpu + 1 /\ pending' \in 0 .. NumCpu + 1
         /\ pending' <= expected'
         /\ crashed' \in BOOLEAN
<1>1. /\ expected \in 0 .. NumCpu + 1 /\ pending \in 0 .. expected
      /\ NumCpu \in Nat /\ crashed \in BOOLEAN /\ Labelled(pc)
  BY TypeHasLabels, ThreadFacts DEF TypeInv, TypeOK
<1>2. CASE pending = 0
  BY <1>1, <1>2 DEF Arrive, barrier, TypeInv
<1>3. CASE pending # 0
  <2>1. /\ expected' = expected - drop
        /\ pending' = IF pending = 1 THEN expected' ELSE pending - 1
        /\ pc' = IF pending = 1 THEN Released(where) ELSE where
        /\ crashed' = crashed
    BY <1>3 DEF Arrive
  <2> QED
    BY <1>1, <1>3, <2>1, ReleasedLabelled
<1> QED
  BY <1>2, <1>3

LEMMA TypeInit == Init => TypeInv
<1> SUFFICES ASSUME Init PROVE TypeInv
  OBVIOUS
<1>1. /\ {"unborn", "idle"} \subseteq Labels /\ "unborn" \in SchedLabels
      /\ "unborn" \in WorkerLabels /\ "idle" \in MainLabels
  BY DEF Labels, SchedLabels, WorkerLabels, MainLabels
<1>2. Labelled(pc) /\ pc[Main] = "idle"
  BY <1>1, ThreadFacts DEF Init, Labelled
<1>3. 1 \in 0 .. TickMod - 1 /\ 0 \in 0 .. NumCpu * MaxStarts
  BY ThreadFacts, BoundAssumption
<1>4. workerRunning \in [Cpus -> BOOLEAN]
  BY DEF Init
<1>5. /\ pc \in [Threads -> SchedLabels \cup WorkerLabels \cup MainLabels]
      /\ pc[Sched] \in SchedLabels /\ \A c \in Cpus : pc[c] \in WorkerLabels
      /\ pc[Main] \in MainLabels /\ pc[Main] # "s_drop"
  BY <1>2 DEF Labelled, Labels
<1>6. /\ tick \in 0 .. TickMod - 1 /\ owner \in Threads \cup {NoOwner}
      /\ expected \in 0 .. NumCpu + 1 /\ pending \in 0 .. NumCpu + 1
      /\ starts \in 0 .. MaxStarts /\ next \in 0 .. NumCpu * MaxStarts
      /\ overrun \in 0 .. 2 /\ pending <= expected
  BY <1>3, ThreadFacts, BoundAssumption DEF Init
<1>7. /\ paused \in BOOLEAN /\ schedRunning \in BOOLEAN
      /\ pausedAtStop \in BOOLEAN /\ crashed \in BOOLEAN
  BY DEF Init
<1> QED
  BY <1>4, <1>5, <1>6, <1>7 DEF TypeInv, TypeOK

LEMMA BarrierType ==
  ASSUME TypeInv, NEW t \in Others, TickBarrierSync(t)
  PROVE  TypeInv'
<1> DEFINE where == [pc EXCEPT ![t] = WaitAt[@]]
<1>1. pc[t] \in {"b1", "b2", "b3"} /\ WaitAt[pc[t]] \in Waiting
  BY DEF TickBarrierSync, WaitAt, Waiting
<1>2. where = [pc EXCEPT ![t] = WaitAt[pc[t]]]
  BY TypeHasLabels, ThreadFacts DEF TypeInv, Labelled
<1>3. Labelled(where) /\ where[Main] = pc[Main]
  <2>1. Labelled(pc) /\ Waiting \subseteq SchedLabels \cap WorkerLabels
    BY TypeHasLabels DEF TypeInv, Waiting, SchedLabels, WorkerLabels
  <2>2. t = Sched \/ t \in Cpus
    BY ThreadFacts
  <2> QED
    BY <1>1, <1>2, <2>1, <2>2, ThreadFacts DEF Labelled, Labels
<1>4. /\ Arrive(where, 0)
      /\ UNCHANGED <<tick, paused, schedRunning, workerRunning, owner, starts, next,
                     pausedAtStop, overrun>>
  BY DEF TickBarrierSync, flags, caller
<1> HIDE DEF where
<1>5. /\ Labelled(pc') /\ expected' \in 0 .. NumCpu + 1
      /\ pending' \in 0 .. NumCpu + 1 /\ pending' <= expected'
      /\ crashed' \in BOOLEAN /\ pc'[Main] = pc[Main] /\ (~crashed' => ~crashed)
  BY <1>3, <1>4, ArriveType DEF Arrive
<1> QED
  BY <1>4, <1>5 DEF TypeInv, TypeOK, Labelled, Labels

\* What the steps that neither arrive at the barrier nor start or stop the
\* workers have to show.
LEMMA TypeKept ==
  ASSUME TypeInv, Labelled(pc'), pc'[Main] # "s_drop" \/ pc'[Main] = pc[Main],
         tick' \in 0 .. TickMod - 1, paused' \in BOOLEAN,
         owner' \in Threads \cup {NoOwner}, overrun' \in 0 .. 2,
         UNCHANGED <<schedRunning, workerRunning, barrier, caller, crashed>>
  PROVE  TypeInv'
BY DEF TypeInv, TypeOK, Labelled, Labels, barrier, caller

\* A thread that moves and, at most, takes or returns the mutex.
LEMMA MoveType ==
  ASSUME TypeInv, NEW t \in Threads, NEW label, Goto(t, label),
         \/ t = Sched /\ label \in SchedLabels
         \/ t \in Cpus /\ label \in WorkerLabels
         \/ t = Main /\ label \in MainLabels \ {"s_drop"},
         owner' \in Threads \cup {NoOwner},
         UNCHANGED <<tick, flags, barrier, caller, overrun, crashed>>
  PROVE  TypeInv'
<1>1. Labelled(pc') /\ (pc'[Main] # "s_drop" \/ pc'[Main] = pc[Main])
  <2>1. Labelled(pc') /\ pc'[t] = label /\ \A u \in Threads \ {t} : pc'[u] = pc[u]
    BY MovesTo
  <2> QED
    BY <2>1, ThreadFacts
<1>2. /\ tick' \in 0 .. TickMod - 1 /\ overrun' \in 0 .. 2
      /\ paused' \in BOOLEAN /\ UNCHANGED <<schedRunning, workerRunning>>
  BY DEF TypeInv, TypeOK, flags
<1> QED
  BY <1>1, <1>2, TypeKept

LEMMA TypeScheduler ==
  ASSUME TypeInv, SchedulerStep \/ SpuriousWakeup
  PROVE  TypeInv'
<1> USE ThreadFacts
<1>1. CASE LoopTest \/ SchedWork \/ SpuriousWakeup
  <2>1. PICK label \in SchedLabels : Goto(Sched, label)
    BY <1>1 DEF LoopTest, SchedWork, SpuriousWakeup, SchedLabels
  <2>2. UNCHANGED <<tick, flags, owner, barrier, caller, overrun, crashed>>
    BY <1>1 DEF LoopTest, SchedWork, SpuriousWakeup
  <2> QED
    BY <2>1, <2>2, MoveType DEF TypeInv, TypeOK
<1>2. CASE PauseLock \/ PauseTest \/ PauseBlock \/ LockTick \/ UnlockTick
  <2>1. PICK label \in SchedLabels : Goto(Sched, label)
    BY <1>2 DEF PauseLock, PauseTest, PauseBlock, LockTick, UnlockTick, SchedLabels
  <2>2. /\ owner' \in Threads \cup {NoOwner}
        /\ UNCHANGED <<tick, flags, barrier, caller, overrun, crashed>>
    BY <1>2 DEF PauseLock, PauseTest, PauseBlock, LockTick, UnlockTick, TypeInv,
       TypeOK
  <2> QED
    BY <2>1, <2>2, MoveType
<1>3. CASE AdvanceTick
  <2>1. /\ Goto(Sched, "b3") /\ "b3" \in SchedLabels
        /\ UNCHANGED <<flags, owner, barrier, caller, crashed>>
    BY <1>3 DEF AdvanceTick, SchedLabels
  <2>2. Labelled(pc') /\ pc'[Main] = pc[Main]
    BY <2>1, MovesTo, ThreadFacts
  <2>3. tick' \in 0 .. TickMod - 1 /\ overrun' \in 0 .. 2
    BY <1>3, BoundAssumption DEF AdvanceTick, TypeInv, TypeOK
  <2>4. paused' \in BOOLEAN /\ UNCHANGED <<schedRunning, workerRunning, owner>>
    BY <2>1 DEF TypeInv, TypeOK, flags
  <2>5. owner' \in Threads \cup {NoOwner}
    BY <2>4 DEF TypeInv, TypeOK
  <2> QED
    BY <2>1, <2>2, <2>3, <2>4, <2>5, TypeKept
<1> QED
  BY <1>1, <1>2, <1>3, BarrierType DEF SchedulerStep

LEMMA TypeWorker ==
  ASSUME TypeInv, NEW c \in Cpus, WorkerStep(c)
  PROVE  TypeInv'
<1> USE ThreadFacts
<1>1. CASE WorkerLoopTest(c) \/ SpinWhilePaused(c) \/ WorkerWork(c)
  <2>1. PICK label \in WorkerLabels : Goto(c, label)
    BY <1>1 DEF WorkerLoopTest, SpinWhilePaused, WorkerWork, WorkerLabels
  <2>2. UNCHANGED <<tick, flags, owner, barrier, caller, overrun, crashed>>
    BY <1>1 DEF WorkerLoopTest, SpinWhilePaused, WorkerWork
  <2> QED
    BY <2>1, <2>2, MoveType DEF TypeInv, TypeOK
<1> QED
  BY <1>1, BarrierType DEF WorkerStep

LEMMA TypeStart ==
  ASSUME TypeInv, Start
  PROVE  TypeInv'
<1>1. /\ pc' = [t \in Threads |-> IF t = Main THEN "idle" ELSE "loop"]
      /\ starts' = starts + 1 /\ starts < MaxStarts
      /\ schedRunning' = TRUE /\ workerRunning' = [c \in Cpus |-> TRUE]
      /\ expected' = NumCpu + 1 /\ pending' = NumCpu + 1
      /\ UNCHANGED <<tick, paused, owner, next, pausedAtStop, overrun, crashed>>
  BY DEF Start, BarrierSize
<1>2. Labelled(pc') /\ pc'[Main] = "idle"
  BY <1>1, ThreadFacts DEF Labelled, Labels, SchedLabels, WorkerLabels, MainLabels
<1>3. starts' \in 0 .. MaxStarts
  BY <1>1, BoundAssumption DEF TypeInv, TypeOK
<1>4. workerRunning' \in [Cpus -> BOOLEAN] /\ schedRunning' \in BOOLEAN
  BY <1>1
<1>5. /\ expected' \in 0 .. NumCpu + 1 /\ pending' \in 0 .. NumCpu + 1
      /\ pending' <= expected'
  BY <1>1, ThreadFacts
<1> QED
  BY <1>1, <1>2, <1>3, <1>4, <1>5 DEF TypeInv, TypeOK, Labelled, Labels

LEMMA TypeCall ==
  ASSUME TypeInv,
         \/ LockFlag \/ SetPaused \/ ClearPaused
         \/ \E command \in Commands : Call(command)
  PROVE  TypeInv'
<1>1. PICK label \in MainLabels \ {"s_drop"} : Goto(Main, label)
  BY CommandAssumption DEF LockFlag, SetPaused, ClearPaused, Call, MainLabels
<1>2. Labelled(pc') /\ pc'[Main] # "s_drop"
  BY <1>1, MovesTo, ThreadFacts
<1>3. /\ paused' \in BOOLEAN /\ owner' \in Threads \cup {NoOwner}
      /\ overrun' \in 0 .. 2
      /\ UNCHANGED <<tick, schedRunning, workerRunning, barrier, caller, crashed>>
  <2>1. /\ paused \in BOOLEAN /\ owner \in Threads \cup {NoOwner}
        /\ overrun \in 0 .. 2
    BY DEF TypeInv, TypeOK
  <2>2. CASE LockFlag \/ \E command \in Commands : Call(command)
    BY <2>1, <2>2, ThreadFacts DEF LockFlag, Call, flags
  <2>3. CASE SetPaused \/ ClearPaused
    <3>1. /\ paused' \in BOOLEAN /\ owner' = NoOwner
          /\ overrun' \in {0, overrun}
          /\ UNCHANGED <<tick, schedRunning, workerRunning, barrier, caller, crashed>>
      BY <2>3 DEF SetPaused, ClearPaused
    <3> QED
      BY <2>1, <3>1
  <2> QED
    BY <2>2, <2>3
<1>4. tick' \in 0 .. TickMod - 1
  BY <1>3 DEF TypeInv, TypeOK
<1> QED
  BY <1>2, <1>3, <1>4, TypeKept

\* notify_all and the caller's own move.
LEMMA NotifyMoves ==
  ASSUME TypeInv, NEW label \in MainLabels, pc' = [Notified EXCEPT ![Main] = label]
  PROVE  /\ Labelled(pc') /\ pc'[Main] = label
         /\ pc'[Sched] = IF pc[Sched] = "p_wait" THEN "p_lock" ELSE pc[Sched]
         /\ \A c \in Cpus : pc'[c] = pc[c]
<1>1. Labelled(pc) /\ "p_lock" \in SchedLabels
  BY TypeHasLabels DEF TypeInv, SchedLabels
<1>2. /\ Labelled(Notified)
      /\ Notified[Sched] = IF pc[Sched] = "p_wait" THEN "p_lock" ELSE pc[Sched]
      /\ \A c \in Cpus : Notified[c] = pc[c]
  BY <1>1, ThreadFacts DEF Labelled, Labels, Notified
<1> QED
  BY <1>2, ThreadFacts DEF Labelled, Labels

LEMMA TypeNotify ==
  ASSUME TypeInv, NotifyResumed \/ StopNotifies
  PROVE  TypeInv'
<1>1. Labelled(pc') /\ pc'[Main] \in {"idle", "s_flag"}
  BY NotifyMoves DEF NotifyResumed, StopNotifies, MainLabels
<1>2. UNCHANGED <<tick, flags, owner, barrier, caller, overrun, crashed>>
  BY DEF NotifyResumed, StopNotifies
<1>3. /\ tick' \in 0 .. TickMod - 1 /\ paused' \in BOOLEAN
      /\ owner' \in Threads \cup {NoOwner} /\ overrun' \in 0 .. 2
      /\ UNCHANGED <<schedRunning, workerRunning>>
  BY <1>2 DEF TypeInv, TypeOK, flags
<1> QED
  BY <1>1, <1>2, <1>3, TypeKept

LEMMA TypeStop ==
  ASSUME TypeInv, ~crashed,
         \/ StopScheduler \/ StopClearsPaused \/ StopWorker \/ StopBarrierSync
         \/ StopDropsScheduler \/ Join
  PROVE  TypeInv'
<1> USE ThreadFacts
<1>1. /\ starts \in 0 .. MaxStarts /\ next \in 0 .. NumCpu * MaxStarts
      /\ Labelled(pc)
  BY TypeHasLabels DEF TypeInv, TypeOK
<1>2. CASE StopScheduler
  <2>1. Goto(Main, "s_clear") /\ "s_clear" \in MainLabels
    BY <1>2 DEF StopScheduler, MainLabels
  <2>2. Labelled(pc') /\ pc'[Main] = "s_clear"
    BY <2>1, MovesTo
  <2>3. next' \in 0 .. NumCpu * MaxStarts
    <3>1. next' = 0 /\ NumCpu * MaxStarts \in Nat
      BY <1>2, BoundAssumption DEF StopScheduler
    <3> QED
      BY <3>1
  <2>4. schedRunning' \in BOOLEAN /\ pausedAtStop' \in BOOLEAN
    BY <1>2 DEF StopScheduler, TypeInv, TypeOK
  <2> QED
    BY <1>2, <2>2, <2>3, <2>4 DEF StopScheduler, TypeInv, TypeOK, Labelled, Labels,
       barrier
<1>3. CASE StopClearsPaused
  <2>1. Goto(Main, "s_notify") /\ "s_notify" \in MainLabels
    BY <1>3 DEF StopClearsPaused, MainLabels
  <2>2. Labelled(pc') /\ pc'[Main] = "s_notify"
    BY <2>1, MovesTo
  <2>3. /\ paused' \in BOOLEAN
        /\ UNCHANGED <<tick, schedRunning, workerRunning, owner, barrier, caller,
                       overrun, crashed>>
    BY <1>3 DEF StopClearsPaused
  <2> QED
    BY <2>2, <2>3, TypeKept DEF TypeInv, TypeOK
<1>4. CASE StopWorker
  <2>1. Goto(Main, "s_drop") /\ "s_drop" \in MainLabels
    BY <1>4 DEF StopWorker, MainLabels
  <2>2. Labelled(pc') /\ pc'[Main] = "s_drop"
    BY <2>1, MovesTo
  <2>3. next < NumCpu * starts
    BY <1>1, <1>4 DEF StopWorker, OldWorkers
  <2>4. workerRunning' \in [Cpus -> BOOLEAN]
    BY <1>4 DEF StopWorker
  <2>5. UNCHANGED <<tick, paused, schedRunning, owner, expected, pending, starts,
                    next, pausedAtStop, overrun, crashed>>
    BY <1>4 DEF StopWorker, barrier, caller
  <2> QED
    BY <2>2, <2>3, <2>4, <2>5 DEF TypeInv, TypeOK, Labelled, Labels
<1>5. CASE StopBarrierSync
  <2> DEFINE where == [pc EXCEPT ![Main] = "s_flag"]
  <2>1. pc[Main] = "s_drop" /\ Arrive(where, 1) /\ next' = next + 1
    BY <1>5 DEF StopBarrierSync
  <2>2. Labelled(where) /\ where[Main] = "s_flag"
    BY <1>1 DEF Labelled, Labels, MainLabels
  <2> HIDE DEF where
  <2>3. /\ Labelled(pc') /\ (~crashed' => pc'[Main] = "s_flag")
        /\ expected' \in 0 .. NumCpu + 1 /\ pending' \in 0 .. NumCpu + 1
        /\ pending' <= expected' /\ crashed' \in BOOLEAN
    BY <2>1, <2>2, ArriveType
  <2>4. next < NumCpu * starts
    BY <2>1 DEF TypeInv
  <2>5. NumCpu * starts <= NumCpu * MaxStarts
    BY <1>1, BoundAssumption
  <2>6. next' \in 0 .. NumCpu * MaxStarts
    <3>1. NumCpu * starts \in Nat /\ NumCpu * MaxStarts \in Nat
      BY <1>1, BoundAssumption
    <3> QED
      BY <1>1, <2>1, <2>4, <2>5, <3>1
  <2>7. UNCHANGED <<tick, paused, schedRunning, workerRunning, owner, starts,
                    pausedAtStop, overrun>>
    BY <1>5 DEF StopBarrierSync, flags
  <2> QED
    BY <2>3, <2>6, <2>7 DEF TypeInv, TypeOK, Labelled, Labels
<1>6. CASE StopDropsScheduler
  <2> DEFINE where == [pc EXCEPT ![Main] = "s_join"]
  <2>1. pc[Main] = "s_flag" /\ Arrive(where, 1)
    BY <1>6 DEF StopDropsScheduler
  <2>2. Labelled(where) /\ where[Main] = "s_join"
    BY <1>1 DEF Labelled, Labels, MainLabels
  <2> HIDE DEF where
  <2>3. /\ Labelled(pc') /\ pc'[Main] # "s_drop"
        /\ expected' \in 0 .. NumCpu + 1 /\ pending' \in 0 .. NumCpu + 1
        /\ pending' <= expected' /\ crashed' \in BOOLEAN
    BY <2>1, <2>2, ArriveType
  <2>4. UNCHANGED <<tick, paused, schedRunning, workerRunning, owner, starts, next,
                    pausedAtStop, overrun>>
    BY <1>6 DEF StopDropsScheduler, flags, caller
  <2> QED
    BY <2>3, <2>4 DEF TypeInv, TypeOK, Labelled, Labels
<1>7. CASE Join
  <2>1. Goto(Main, "idle") /\ "idle" \in MainLabels \ {"s_drop"}
    BY <1>7 DEF Join, MainLabels
  <2>2. UNCHANGED <<tick, flags, owner, barrier, caller, overrun, crashed>>
    BY <1>7 DEF Join
  <2> QED
    BY <2>1, <2>2, MoveType DEF TypeInv, TypeOK
<1> QED
  BY <1>2, <1>3, <1>4, <1>5, <1>6, <1>7

LEMMA TypeNext == TypeInv /\ [Next]_vars => TypeInv'
<1> SUFFICES ASSUME TypeInv, [Next]_vars PROVE TypeInv'
  OBVIOUS
<1>1. CASE UNCHANGED vars
  BY <1>1 DEF vars, flags, barrier, caller, TypeInv, TypeOK
<1> QED
  BY <1>1, TypeScheduler, TypeWorker, TypeStart, TypeCall, TypeNotify, TypeStop
     DEF Next, Step, Ended, CallerStep

\* The threads stay at their labels and the barrier never expects, or counts,
\* more arrivals than there are threads, however often stop() drops from it.
THEOREM TypeCorrect == Spec => []TypeOK
<1>1. TypeInv => TypeOK
  BY DEF TypeInv
<1> QED
  BY <1>1, TypeInit, TypeNext, PTL DEF Spec

-----------------------------------------------------------------------------
(***************************************************************************)
(* How threads move: by themselves, or let go by another one's arrival.    *)
(***************************************************************************)
LEMMA SchedGoes ==
  ASSUME TypeInv, NEW label \in SchedLabels, Goto(Sched, label)
  PROVE  pc'[Sched] = label /\ \A t \in Cpus \cup {Main} : pc'[t] = pc[t]
BY MovesTo, ThreadFacts

LEMMA WorkerGoes ==
  ASSUME TypeInv, NEW c \in Cpus, NEW label \in WorkerLabels, Goto(c, label)
  PROVE  /\ pc'[c] = label
         /\ \A t \in (Cpus \ {c}) \cup {Sched, Main} : pc'[t] = pc[t]
BY MovesTo, ThreadFacts

LEMMA MainGoes ==
  ASSUME TypeInv, NEW label \in MainLabels, Goto(Main, label)
  PROVE  pc'[Main] = label /\ \A t \in Others : pc'[t] = pc[t]
BY MovesTo, ThreadFacts

\* What an arrival of anyone, or a drop, does to the scheduler thread, to the
\* caller and to the rest of the state.
Passes == \/ pc'[Sched] = pc[Sched]
          \/ pc[Sched] \in {"b1", "b1w"} /\ pc'[Sched] \in {"b1w", "work"}
          \/ pc[Sched] \in {"b2", "b2w"} /\ pc'[Sched] \in {"b2w", "advance"}
          \/ pc[Sched] \in {"b3", "b3w"} /\ pc'[Sched] \in {"b3w", "unlock"}

LEMMA ArrivePasses ==
  ASSUME TypeInv, NEW where, Labelled(where), NEW drop, Arrive(where, drop),
         \/ where[Sched] = pc[Sched]
         \/ pc[Sched] \in {"b1", "b2", "b3"} /\ where[Sched] = WaitAt[pc[Sched]]
  PROVE  Passes /\ pc'[Main] \in {pc[Main], where[Main]}
<1>1. pc' \in {pc, where, Released(where)}
  BY DEF Arrive
<1>2. where[Sched] \in Waiting => Released(where)[Sched] = SchedAfter[where[Sched]]
  BY ThreadFacts DEF Released
<1>3. where[Sched] \notin Waiting => Released(where)[Sched] = where[Sched]
  BY ThreadFacts DEF Released
<1>4. Released(where)[Main] = where[Main]
  BY ReleasedLabelled
<1> QED
  BY <1>1, <1>2, <1>3, <1>4 DEF Passes, Waiting, WaitAt, SchedAfter

LEMMA BarrierMoves ==
  ASSUME TypeInv,
         \/ \E t \in Others : TickBarrierSync(t)
         \/ StopBarrierSync \/ StopDropsScheduler
  PROVE  /\ Passes
         /\ \/ pc'[Main] = pc[Main]
            \/ pc[Main] \in StopLabels /\ pc'[Main] \in StopLabels
         /\ UNCHANGED <<paused, schedRunning, workerRunning, owner, starts,
                        pausedAtStop, overrun>>
<1>1. Labelled(pc)
  BY TypeHasLabels DEF TypeInv
<1>2. ASSUME NEW t \in Others, TickBarrierSync(t)
      PROVE  Passes /\ pc'[Main] = pc[Main]
  <2> DEFINE where == [pc EXCEPT ![t] = WaitAt[@]]
  <2>1. pc[t] \in {"b1", "b2", "b3"} /\ WaitAt[pc[t]] \in Waiting
    BY <1>2 DEF TickBarrierSync, WaitAt, Waiting
  <2>2. where = [pc EXCEPT ![t] = WaitAt[pc[t]]]
    BY <1>1, ThreadFacts DEF Labelled
  <2>3. Waiting \subseteq SchedLabels \cap WorkerLabels
    BY DEF Waiting, SchedLabels, WorkerLabels
  <2>4. /\ Labelled(where) /\ where[Main] = pc[Main]
        /\ where[Sched] = IF t = Sched THEN WaitAt[pc[t]] ELSE pc[Sched]
    BY <1>1, <2>1, <2>2, <2>3, ThreadFacts DEF Labelled, Labels
  <2>5. Arrive(where, 0)
    BY <1>2 DEF TickBarrierSync
  <2> HIDE DEF where
  <2> QED
    BY <2>1, <2>4, <2>5, ArrivePasses
<1>3. ASSUME NEW label \in StopLabels, Arrive([pc EXCEPT ![Main] = label], 1)
      PROVE  Passes /\ pc'[Main] \in {pc[Main], label}
  <2> DEFINE where == [pc EXCEPT ![Main] = label]
  <2>1. /\ Labelled(where) /\ where[Main] = label /\ where[Sched] = pc[Sched]
    BY <1>1, ThreadFacts DEF Labelled, Labels, MainLabels, StopLabels
  <2>2. Arrive(where, 1)
    BY <1>3
  <2> HIDE DEF where
  <2> QED
    BY <2>1, <2>2, ArrivePasses
<1>4. UNCHANGED <<paused, schedRunning, workerRunning, owner, starts,
                  pausedAtStop, overrun>>
  BY DEF TickBarrierSync, StopBarrierSync, StopDropsScheduler, flags, caller
<1>5. CASE StopBarrierSync
  <2>1. /\ pc[Main] \in StopLabels /\ "s_flag" \in StopLabels
        /\ Arrive([pc EXCEPT ![Main] = "s_flag"], 1)
    BY <1>5 DEF StopBarrierSync, StopLabels
  <2> QED
    BY <1>3, <1>4, <2>1
<1>6. CASE StopDropsScheduler
  <2>1. /\ pc[Main] \in StopLabels /\ "s_join" \in StopLabels
        /\ Arrive([pc EXCEPT ![Main] = "s_join"], 1)
    BY <1>6 DEF StopDropsScheduler, StopLabels
  <2> QED
    BY <1>3, <1>4, <2>1
<1> QED
  BY <1>2, <1>4, <1>5, <1>6

BarrierStep == \/ \E t \in Others : TickBarrierSync(t)
               \/ StopBarrierSync \/ StopDropsScheduler

LEMMA StepCases ==
  ASSUME [Next]_vars
  PROVE  \/ LoopTest \/ PauseLock \/ PauseTest \/ PauseBlock \/ SpuriousWakeup
         \/ LockTick \/ SchedWork \/ AdvanceTick \/ UnlockTick
         \/ \E c \in Cpus : WorkerLoopTest(c) \/ SpinWhilePaused(c) \/ WorkerWork(c)
         \/ Start \/ LockFlag \/ SetPaused \/ ClearPaused \/ NotifyResumed
         \/ StopScheduler \/ StopClearsPaused \/ StopNotifies \/ StopWorker \/ Join
         \/ \E command \in Commands : Call(command)
         \/ BarrierStep
         \/ UNCHANGED vars
BY ThreadFacts DEF Next, Step, Ended, SchedulerStep, WorkerStep, CallerStep,
   BarrierStep

-----------------------------------------------------------------------------
(***************************************************************************)
(* What the caller's commands and the flags have to do with each other.    *)
(***************************************************************************)

\* sched_running_ is set exactly from start() to the first store of stop(); the
\* threads of an earlier start() are gone when the next one can be called.
CallerInv ==
  /\ pc[Main] \in StopLabels => ~schedRunning
  /\ pc[Main] = "stop" => schedRunning
  /\ ~schedRunning /\ pc[Main] \notin StopLabels =>
       \A t \in Others : pc[t] \in {"exit", "unborn"}
  /\ schedRunning => \A c \in Cpus : workerRunning[c]

LEMMA CallerInit == Init => CallerInv
BY ThreadFacts DEF Init, CallerInv, StopLabels

LEMMA CallerNext == TypeInv /\ CallerInv /\ [Next]_vars => CallerInv'
<1> SUFFICES ASSUME TypeInv, CallerInv, [Next]_vars PROVE CallerInv'
  OBVIOUS
<1> USE ThreadFacts
<1>1. schedRunning \in BOOLEAN
  BY DEF TypeInv, TypeOK
<1>2. ASSUME UNCHANGED <<schedRunning, workerRunning>>, NEW t \in Others,
             pc[t] \notin {"exit", "unborn"},
             \/ pc'[Main] = pc[Main]
             \/ pc[Main] \in StopLabels /\ pc'[Main] \in StopLabels
      PROVE  CallerInv'
  BY <1>2 DEF CallerInv, StopLabels
<1>3. CASE \/ LoopTest \/ PauseLock \/ PauseTest \/ PauseBlock \/ SpuriousWakeup
           \/ LockTick \/ SchedWork \/ AdvanceTick \/ UnlockTick
  <2>1. /\ pc[Sched] \notin {"exit", "unborn"}
        /\ UNCHANGED <<schedRunning, workerRunning>>
        /\ \E label \in SchedLabels : Goto(Sched, label)
    BY <1>3 DEF LoopTest, PauseLock, PauseTest, PauseBlock, SpuriousWakeup,
       LockTick, SchedWork, AdvanceTick, UnlockTick, flags, SchedLabels
  <2> QED
    BY <1>2, <2>1, SchedGoes
<1>4. ASSUME NEW c \in Cpus,
             WorkerLoopTest(c) \/ SpinWhilePaused(c) \/ WorkerWork(c)
      PROVE  CallerInv'
  <2>1. /\ pc[c] \notin {"exit", "unborn"}
        /\ UNCHANGED <<schedRunning, workerRunning>>
        /\ \E label \in WorkerLabels : Goto(c, label)
    BY <1>4 DEF WorkerLoopTest, SpinWhilePaused, WorkerWork, flags, WorkerLabels
  <2> QED
    BY <1>2, <2>1, WorkerGoes
<1>5. CASE Start
  <2>1. /\ pc'[Main] = "idle" /\ schedRunning' = TRUE
        /\ \A c \in Cpus : workerRunning'[c]
    BY <1>5 DEF Start
  <2> QED
    BY <2>1 DEF CallerInv, StopLabels
<1>6. CASE LockFlag \/ SetPaused \/ ClearPaused
  <2>1. /\ pc[Main] \notin StopLabels /\ UNCHANGED <<schedRunning, workerRunning>>
        /\ \E label \in {"set", "clear", "idle", "notify"} : Goto(Main, label)
    BY <1>6 DEF LockFlag, SetPaused, ClearPaused, flags, StopLabels
  <2>2. /\ pc'[Main] \in {"set", "clear", "idle", "notify"}
        /\ \A t \in Others : pc'[t] = pc[t]
    BY <2>1, MainGoes DEF MainLabels
  <2> QED
    BY <2>1, <2>2 DEF CallerInv, StopLabels
<1>7. ASSUME NEW command \in Commands, Call(command) PROVE CallerInv'
  <2>1. /\ pc[Main] \notin StopLabels /\ UNCHANGED <<schedRunning, workerRunning>>
        /\ command \in {"pause", "resume", "stop"} /\ Goto(Main, command)
        /\ command = "stop" => schedRunning
    BY <1>7, CommandAssumption DEF Call, flags, StopLabels
  <2>2. pc'[Main] = command /\ \A t \in Others : pc'[t] = pc[t]
    BY <2>1, MainGoes DEF MainLabels
  <2> QED
    BY <2>1, <2>2 DEF CallerInv, StopLabels
<1>8. CASE NotifyResumed
  <2>1. /\ pc'[Main] = "idle" /\ \A c \in Cpus : pc'[c] = pc[c]
        /\ pc'[Sched] = IF pc[Sched] = "p_wait" THEN "p_lock" ELSE pc[Sched]
        /\ pc[Main] = "notify" /\ UNCHANGED <<schedRunning, workerRunning>>
    BY <1>8, NotifyMoves DEF NotifyResumed, MainLabels, flags
  <2> QED
    BY <2>1 DEF CallerInv, StopLabels
<1>9. CASE StopScheduler
  <2>1. pc'[Main] = "s_clear" /\ schedRunning' = FALSE
    BY <1>9, MainGoes DEF StopScheduler, MainLabels
  <2> QED
    BY <2>1 DEF CallerInv, StopLabels
<1>10. CASE StopClearsPaused \/ StopNotifies \/ StopWorker
  <2>1. pc[Main] \in StopLabels /\ UNCHANGED schedRunning
    BY <1>10 DEF StopClearsPaused, StopNotifies, StopWorker, StopLabels, flags
  <2>2. pc'[Main] \in {"s_notify", "s_flag", "s_drop"}
    BY <1>10, MainGoes, NotifyMoves
       DEF StopClearsPaused, StopNotifies, StopWorker, MainLabels
  <2> QED
    BY <2>1, <2>2 DEF CallerInv, StopLabels
<1>11. CASE Join
  <2>1. pc'[Main] = "idle" /\ \A t \in Others : pc'[t] = pc[t]
    BY <1>11, MainGoes DEF Join, MainLabels
  <2>2. /\ \A t \in Others : pc[t] = "exit"
        /\ pc[Main] = "s_join" /\ UNCHANGED <<schedRunning, workerRunning>>
    BY <1>11 DEF Join, flags
  <2> QED
    BY <2>1, <2>2 DEF CallerInv, StopLabels
<1>12. CASE BarrierStep
  <2>1. /\ UNCHANGED <<schedRunning, workerRunning>>
        /\ \/ pc'[Main] = pc[Main]
           \/ pc[Main] \in StopLabels /\ pc'[Main] \in StopLabels
    BY <1>12, BarrierMoves DEF BarrierStep
  <2>2. CASE pc[Main] \in StopLabels
    BY <2>1, <2>2 DEF CallerInv, StopLabels
  <2>3. CASE pc[Main] \notin StopLabels
    <3>1. PICK t \in Others : TickBarrierSync(t)
      BY <1>12, <2>3 DEF BarrierStep, StopBarrierSync, StopDropsScheduler,
         StopLabels
    <3>2. pc[t] \notin {"exit", "unborn"}
      BY <3>1 DEF TickBarrierSync, WaitAt
    <3> QED
      BY <1>2, <2>1, <3>2
  <2> QED
    BY <2>2, <2>3
<1>13. CASE UNCHANGED vars
  BY <1>13 DEF vars, flags, CallerInv
<1> QED
  BY <1>3, <1>4, <1>5, <1>6, <1>7, <1>8, <1>9, <1>10, <1>11, <1>12, <1>13, StepCases

-----------------------------------------------------------------------------
(***************************************************************************)
(* The mutex, and what a tick begun before a pause or a stop may still do. *)
(***************************************************************************)

\* Where a thread holds scheduler_mtx_.
Holding == {"p_test", "p_block", "before", "b1", "b1w", "work", "b2", "b2w",
            "advance", "b3", "b3w", "unlock"}

MutexInv == /\ pc[Sched] \in Holding => owner = Sched
            /\ pc[Main] \in {"set", "clear"} => owner = Main

\* Between counting a tick and the next test of the flag that stops it.
Ticked == {"b3", "b3w", "unlock", "loop", "exit", "unborn"}

TickInv ==
  /\ paused /\ overrun # 0 =>
       overrun = 1 /\ pc[Sched] \in Ticked \cup {"p_lock", "p_test", "p_block", "p_wait"}
  /\ ~schedRunning /\ overrun # 0 => overrun = 1 /\ pc[Sched] \in Ticked

\* The test of paused_ and the wait are one step for whoever locks; stop() does
\* not, but finds the thread there only in a pause.
WakeInv ==
  /\ schedRunning /\ pc[Sched] = "p_block" => paused
  /\ NoLostWakeup
  /\ pc[Main] \in StopLabels /\ ~pausedAtStop =>
       ~paused /\ pc[Sched] \notin {"p_block", "p_wait"}

FlagInv == TypeInv /\ CallerInv /\ MutexInv /\ TickInv /\ WakeInv

LEMMA FlagInit == Init => FlagInv
<1> SUFFICES ASSUME Init PROVE MutexInv /\ TickInv /\ WakeInv
  BY TypeInit, CallerInit DEF FlagInv
<1>1. /\ pc[Sched] = "unborn" /\ pc[Main] = "idle" /\ overrun = 0
  BY ThreadFacts DEF Init
<1> QED
  BY <1>1 DEF MutexInv, TickInv, WakeInv, NoLostWakeup, Holding, Ticked, StopLabels

LEMMA FlagNext == FlagInv /\ [Next]_vars => FlagInv'
<1> SUFFICES ASSUME FlagInv, [Next]_vars PROVE MutexInv' /\ TickInv' /\ WakeInv'
  BY TypeNext, CallerNext DEF FlagInv
<1> DEFINE Goal == MutexInv' /\ TickInv' /\ WakeInv'
<1> USE ThreadFacts DEF FlagInv, NoLostWakeup
<1>1. /\ paused \in BOOLEAN /\ schedRunning \in BOOLEAN /\ pausedAtStop \in BOOLEAN
      /\ overrun \in 0 .. 2 /\ pc[Main] \in MainLabels
  BY DEF TypeInv, TypeOK
<1>2. CASE LoopTest \/ PauseLock \/ PauseTest \/ PauseBlock \/ SpuriousWakeup
  <2>1. /\ UNCHANGED <<paused, schedRunning, pausedAtStop, overrun>>
        /\ pc'[Main] = pc[Main]
    BY <1>2, SchedGoes DEF LoopTest, PauseLock, PauseTest, PauseBlock,
       SpuriousWakeup, flags, caller, SchedLabels
  <2>2. \/ pc[Sched] = "loop" /\ schedRunning /\ pc'[Sched] = "p_lock"
           /\ UNCHANGED owner
        \/ pc[Sched] = "loop" /\ ~schedRunning /\ pc'[Sched] = "exit"
           /\ UNCHANGED owner
        \/ pc[Sched] = "p_lock" /\ pc'[Sched] = "p_test" /\ owner = NoOwner
           /\ owner' = Sched
        \/ pc[Sched] = "p_test" /\ pc'[Sched] = "p_block" /\ paused
           /\ UNCHANGED owner
        \/ pc[Sched] = "p_test" /\ pc'[Sched] = "lock" /\ ~paused
           /\ owner' = NoOwner
        \/ pc[Sched] = "p_block" /\ pc'[Sched] = "p_wait" /\ owner' = NoOwner
        \/ pc[Sched] = "p_wait" /\ pc'[Sched] = "p_lock" /\ UNCHANGED owner
    BY <1>1, <1>2, SchedGoes DEF LoopTest, PauseLock, PauseTest, PauseBlock,
       SpuriousWakeup, SchedLabels, IsPaused
  <2> QED
    BY <1>1, <2>1, <2>2 DEF MutexInv, TickInv, WakeInv, Holding, Ticked, StopLabels
<1>3. CASE LockTick \/ SchedWork \/ AdvanceTick \/ UnlockTick
  <2>1. /\ UNCHANGED <<paused, schedRunning, pausedAtStop>>
        /\ pc'[Main] = pc[Main]
    BY <1>3, SchedGoes DEF LockTick, SchedWork, AdvanceTick, UnlockTick, flags,
       caller, SchedLabels
  <2>2. \/ pc[Sched] = "lock" /\ pc'[Sched] = "before" /\ owner = NoOwner
           /\ owner' = Sched /\ UNCHANGED overrun
        \/ pc[Sched] = "before" /\ pc'[Sched] = "b1" /\ UNCHANGED <<owner, overrun>>
        \/ pc[Sched] = "work" /\ pc'[Sched] = "b2" /\ UNCHANGED <<owner, overrun>>
        \/ pc[Sched] = "advance" /\ pc'[Sched] = "b3" /\ UNCHANGED owner
           /\ (overrun = 0 => overrun' = 1)
        \/ pc[Sched] = "unlock" /\ pc'[Sched] = "loop" /\ owner' = NoOwner
           /\ UNCHANGED overrun
    BY <1>1, <1>3, SchedGoes DEF LockTick, SchedWork, AdvanceTick, UnlockTick,
       SchedLabels
  <2> QED
    BY <1>1, <2>1, <2>2 DEF MutexInv, TickInv, WakeInv, Holding, Ticked, StopLabels
<1>4. ASSUME pc'[Sched] = pc[Sched], pc'[Main] = pc[Main],
             UNCHANGED <<paused, schedRunning, owner, pausedAtStop, overrun>>
      PROVE  Goal
  BY <1>4 DEF MutexInv, TickInv, WakeInv
<1>5. ASSUME NEW c \in Cpus,
             WorkerLoopTest(c) \/ SpinWhilePaused(c) \/ WorkerWork(c)
      PROVE  Goal
  BY <1>4, <1>5, WorkerGoes DEF WorkerLoopTest, SpinWhilePaused, WorkerWork,
     flags, caller, WorkerLabels
<1>6. CASE Start
  <2>1. /\ pc'[Main] = "idle" /\ pc'[Sched] = "loop" /\ pc[Sched] \in {"exit", "unborn"}
        /\ schedRunning' = TRUE /\ UNCHANGED <<paused, pausedAtStop, overrun>>
    BY <1>6 DEF Start, CallerInv, StopLabels
  <2> QED
    BY <1>1, <2>1 DEF MutexInv, TickInv, WakeInv, Holding, Ticked, StopLabels
<1>7. CASE LockFlag \/ SetPaused \/ ClearPaused \/ \E command \in Commands : Call(command)
  <2>1. /\ UNCHANGED <<schedRunning, pausedAtStop>> /\ pc'[Sched] = pc[Sched]
        /\ pc[Main] \notin StopLabels /\ pc'[Main] \notin StopLabels
    BY <1>7, MainGoes, CommandAssumption DEF LockFlag, SetPaused, ClearPaused, Call,
       MainLabels, StopLabels, flags, caller
  <2>2. \/ /\ owner = NoOwner /\ owner' = Main /\ UNCHANGED <<paused, overrun>>
           /\ pc[Main] # "notify"
        \/ /\ pc[Main] = "set" /\ pc'[Main] = "idle" /\ paused' /\ overrun' = 0
           /\ owner' = NoOwner
        \/ /\ pc[Main] = "clear" /\ pc'[Main] = "notify" /\ ~paused'
           /\ UNCHANGED overrun /\ owner' = NoOwner
        \/ /\ pc'[Main] \notin {"set", "clear"} /\ pc[Main] # "notify"
           /\ UNCHANGED <<owner, paused, overrun>>
    BY <1>7, MainGoes, CommandAssumption DEF LockFlag, SetPaused, ClearPaused, Call,
       MainLabels, flags
  <2> QED
    BY <1>1, <2>1, <2>2 DEF MutexInv, TickInv, WakeInv, Holding, Ticked
<1>8. CASE NotifyResumed \/ StopNotifies
  <2>1. /\ pc'[Main] = IF pc[Main] = "notify" THEN "idle" ELSE "s_flag"
        /\ pc[Main] \in {"notify", "s_notify"}
        /\ pc'[Sched] = IF pc[Sched] = "p_wait" THEN "p_lock" ELSE pc[Sched]
        /\ UNCHANGED <<paused, schedRunning, owner, pausedAtStop, overrun>>
    BY <1>8, NotifyMoves DEF NotifyResumed, StopNotifies, MainLabels, flags, caller
  <2>2. pc[Main] \in StopLabels <=> pc'[Main] \in StopLabels
    BY <2>1 DEF StopLabels
  <2> QED
    BY <1>1, <2>1, <2>2 DEF MutexInv, TickInv, WakeInv, CallerInv, Holding, Ticked
<1>9. CASE StopScheduler
  <2>1. /\ pc[Main] = "stop" /\ pc'[Main] = "s_clear" /\ schedRunning' = FALSE
        /\ pausedAtStop' = paused /\ overrun' = 0 /\ UNCHANGED <<paused, owner>>
        /\ pc'[Sched] = pc[Sched]
    BY <1>9, MainGoes DEF StopScheduler, MainLabels
  <2> QED
    BY <1>1, <2>1 DEF MutexInv, TickInv, WakeInv, CallerInv
<1>10. CASE StopClearsPaused \/ StopWorker \/ Join
  <2>1. /\ pc'[Sched] = pc[Sched] /\ pc[Main] \in StopLabels
        /\ pc'[Main] \notin {"set", "clear"}
        /\ UNCHANGED <<schedRunning, owner, pausedAtStop, overrun>>
        /\ paused' => paused
    BY <1>10, MainGoes DEF StopClearsPaused, StopWorker, Join, MainLabels, StopLabels,
       flags, caller
  <2> QED
    BY <1>1, <2>1 DEF MutexInv, TickInv, WakeInv, CallerInv
<1>11. CASE BarrierStep
  <2>1. /\ Passes
        /\ \/ pc'[Main] = pc[Main]
           \/ pc[Main] \in StopLabels /\ pc'[Main] \in StopLabels
        /\ UNCHANGED <<paused, schedRunning, owner, pausedAtStop, overrun>>
    BY <1>11, BarrierMoves DEF BarrierStep
  <2> QED
    BY <1>1, <2>1 DEF Passes, MutexInv, TickInv, WakeInv, Holding, Ticked, StopLabels
<1>12. CASE UNCHANGED vars
  BY <1>4, <1>12 DEF vars, flags, caller
<1> QED
  BY <1>2, <1>3, <1>5, <1>6, <1>7, <1>8, <1>9, <1>10, <1>11, <1>12, StepCases

\* Once pause() has returned at most one tick, already begun, is counted, for
\* any number of workers and wherever each of them is when the flag is set.
THEOREM PauseStopsTicksCorrect == Spec => []PauseStopsTicks
<1>1. FlagInv => PauseStopsTicks
  BY DEF FlagInv, TypeInv, TypeOK, TickInv, PauseStopsTicks
<1> QED
  BY <1>1, FlagInit, FlagNext, PTL DEF Spec

\* Once stop() has begun at most one tick more is counted, whatever the drops
\* from the barrier let through.
THEOREM StopStopsTicksCorrect == Spec => []StopStopsTicks
<1>1. FlagInv => StopStopsTicks
  BY DEF FlagInv, TypeInv, TypeOK, TickInv, StopStopsTicks
<1> QED
  BY <1>1, FlagInit, FlagNext, PTL DEF Spec

\* No resume() is lost between the scheduler thread's test of paused_ and its
\* wait on pause_cv_.
THEOREM NoLostWakeupCorrect == Spec => []NoLostWakeup
<1>1. FlagInv => NoLostWakeup
  BY DEF FlagInv, WakeInv
<1> QED
  BY <1>1, FlagInit, FlagNext, PTL DEF Spec

\* A stop() that does not begin in a pause never joins a thread that waits on
\* pause_cv_, although it stores and notifies without the mutex.
THEOREM StopLeavesNobodyWaitingCorrect == Spec => []StopLeavesNobodyWaiting
<1>1. FlagInv => StopLeavesNobodyWaiting
  BY DEF FlagInv, WakeInv, StopLeavesNobodyWaiting, StopLabels
<1> QED
  BY <1>1, FlagInit, FlagNext, PTL DEF Spec

-----------------------------------------------------------------------------
(***************************************************************************)
(* The barrier.  Until stop() drops from it, its count is the number of    *)
(* threads that have not arrived; so the arrival that completes a phase is *)
(* that of the last thread, and all are then in the same part of a tick.   *)
(***************************************************************************)
Busy == {t \in Others : pc[t] \notin Waiting}

BarrierInv == schedRunning => /\ expected = NumCpu + 1
                              /\ pending = Cardinality(Busy)
                              /\ ~crashed

LEMMA BusyFinite == IsFiniteSet(Busy) /\ Cardinality(Busy) \in Nat
<1>1. IsFiniteSet(Others)
  BY ThreadFacts, FS_Interval
<1>2. IsFiniteSet(Busy)
  BY <1>1, FS_Subset DEF Busy
<1> QED
  BY <1>2, FS_CardinalityType

\* Steps that arrive nowhere leave the barrier and the count alone.
LEMMA BarrierKept ==
  ASSUME BarrierInv, UNCHANGED <<expected, pending, crashed>>,
         schedRunning' => schedRunning,
         \A t \in Others : pc'[t] \in Waiting <=> pc[t] \in Waiting
  PROVE  BarrierInv'
<1>1. Busy' = Busy
  BY DEF Busy
<1> QED
  BY <1>1 DEF BarrierInv

\* The arrival of thread t while the scheduler runs: the others are waiting and
\* all go on, or t waits with them.
LEMMA ArrivalCounts ==
  ASSUME FlagInv, BarrierInv, schedRunning, NEW t \in Others, TickBarrierSync(t)
  PROVE  /\ BarrierInv'
         /\ \/ /\ pc' = [pc EXCEPT ![t] = WaitAt[@]]
            \/ /\ \A u \in Others \ {t} : pc[u] \in Waiting
               /\ pc' = Released([pc EXCEPT ![t] = WaitAt[@]])
<1> DEFINE where == [pc EXCEPT ![t] = WaitAt[@]]
<1> USE ThreadFacts
<1>1. /\ pc[t] \in {"b1", "b2", "b3"} /\ WaitAt[pc[t]] \in Waiting
      /\ Arrive(where, 0) /\ schedRunning'
  BY DEF TickBarrierSync, WaitAt, Waiting, flags
<1>2. t \in Busy
  BY <1>1 DEF Busy, Waiting
<1>3. /\ expected = NumCpu + 1 /\ pending = Cardinality(Busy) /\ ~crashed
      /\ pending \in Nat /\ pending # 0
  BY <1>2, BusyFinite, FS_EmptySet DEF BarrierInv
<1>4. Cardinality(Busy \ {t}) = pending - 1
  BY <1>2, <1>3, BusyFinite, FS_RemoveElement
<1>5. \A u \in Threads : where[u] = IF u = t THEN WaitAt[pc[t]] ELSE pc[u]
  BY DEF FlagInv, TypeInv, TypeOK
<1>6. /\ expected' = NumCpu + 1 /\ crashed' = crashed
      /\ pending' = IF pending = 1 THEN NumCpu + 1 ELSE pending - 1
      /\ pc' = IF pending = 1 THEN Released(where) ELSE where
  BY <1>1, <1>3 DEF Arrive
<1> HIDE DEF where
<1>7. CASE pending # 1
  <2>1. Busy' = Busy \ {t}
    BY <1>1, <1>5, <1>6, <1>7 DEF Busy
  <2> QED
    BY <1>3, <1>4, <1>6, <1>7, <2>1 DEF BarrierInv, where
<1>8. CASE pending = 1
  <2>1. Busy \ {t} = {}
    <3>1. IsFiniteSet(Busy \ {t})
      BY BusyFinite, FS_RemoveElement
    <3>2. Cardinality(Busy \ {t}) = 0
      BY <1>3, <1>4, <1>8
    <3> QED
      BY <3>1, <3>2, FS_EmptySet
  <2>2. \A u \in Others \ {t} : pc[u] \in Waiting
    BY <2>1 DEF Busy
  <2>3. \A u \in Others : where[u] \in Waiting
    BY <1>1, <1>5, <2>2
  <2>4. \A w \in Waiting : SchedAfter[w] \notin Waiting /\ WorkerAfter[w] \notin Waiting
    BY DEF SchedAfter, WorkerAfter, Waiting
  <2>5. \A u \in Others : pc'[u] \notin Waiting
    BY <1>6, <1>8, <2>3, <2>4 DEF Released
  <2>6. Busy' = 0 .. NumCpu
    BY <2>5 DEF Busy
  <2>7. Cardinality(0 .. NumCpu) = NumCpu + 1
    BY FS_Interval
  <2> QED
    BY <1>3, <1>6, <1>8, <2>2, <2>6, <2>7 DEF BarrierInv, where
<1> QED
  BY <1>7, <1>8

\* The steps other than arrivals that are taken while the scheduler runs: each
\* moves one thread from one label that is no wait to another.
LEMMA RunningMoves ==
  ASSUME FlagInv, [Next]_vars, schedRunning', ~BarrierStep, ~Start
  PROVE  /\ schedRunning /\ UNCHANGED <<expected, pending, crashed>>
         /\ \/ pc'[Sched] = pc[Sched]
            \/ pc[Sched] = "unlock" /\ pc'[Sched] = "loop"
            \/ /\ pc[Sched] \in {"loop", "p_lock", "p_test", "p_block", "p_wait",
                                 "lock", "before"}
               /\ pc'[Sched] \in {"p_lock", "p_test", "p_block", "p_wait", "lock",
                                  "before", "b1"}
            \/ pc[Sched] = "work" /\ pc'[Sched] = "b2"
            \/ pc[Sched] = "advance" /\ pc'[Sched] = "b3"
         /\ \A c \in Cpus : \/ pc'[c] = pc[c]
                            \/ pc[c] = "loop" /\ pc'[c] = "spin"
                            \/ pc[c] = "spin" /\ pc'[c] = "b1"
                            \/ pc[c] = "work" /\ pc'[c] = "b2"
<1> USE ThreadFacts DEF FlagInv
<1>1. CASE \/ LoopTest \/ PauseLock \/ PauseTest \/ PauseBlock \/ SpuriousWakeup
           \/ LockTick \/ SchedWork \/ AdvanceTick \/ UnlockTick
  <2>1. /\ \A c \in Cpus : pc'[c] = pc[c]
        /\ UNCHANGED <<schedRunning, expected, pending, crashed>>
    BY <1>1, SchedGoes DEF LoopTest, PauseLock, PauseTest, PauseBlock,
       SpuriousWakeup, LockTick, SchedWork, AdvanceTick, UnlockTick, SchedLabels,
       flags, barrier
  <2>2. CASE LoopTest \/ PauseLock \/ PauseTest \/ PauseBlock \/ SpuriousWakeup
    BY <2>1, <2>2, SchedGoes DEF LoopTest, PauseLock, PauseTest, PauseBlock,
       SpuriousWakeup, SchedLabels
  <2>3. CASE LockTick \/ SchedWork \/ AdvanceTick \/ UnlockTick
    BY <2>1, <2>3, SchedGoes DEF LockTick, SchedWork, AdvanceTick, UnlockTick,
       SchedLabels
  <2> QED
    BY <1>1, <2>2, <2>3
<1>2. ASSUME NEW c \in Cpus,
             WorkerLoopTest(c) \/ SpinWhilePaused(c) \/ WorkerWork(c)
      PROVE  /\ UNCHANGED <<schedRunning, expected, pending, crashed>>
             /\ pc'[Sched] = pc[Sched] /\ \A d \in Cpus \ {c} : pc'[d] = pc[d]
             /\ \/ pc[c] = "loop" /\ pc'[c] = "spin"
                \/ pc[c] = "spin" /\ pc'[c] = "b1"
                \/ pc[c] = "work" /\ pc'[c] = "b2"
  <2>1. UNCHANGED <<schedRunning, expected, pending, crashed>>
    BY <1>2 DEF WorkerLoopTest, SpinWhilePaused, WorkerWork, flags, barrier
  <2>2. workerRunning[c]
    BY <2>1 DEF CallerInv
  <2>3. PICK label \in {"spin", "b1", "b2"} :
          /\ Goto(c, label)
          /\ \/ pc[c] = "loop" /\ label = "spin"
             \/ pc[c] = "spin" /\ label = "b1"
             \/ pc[c] = "work" /\ label = "b2"
    BY <1>2, <2>2 DEF WorkerLoopTest, SpinWhilePaused, WorkerWork
  <2>4. /\ pc'[c] = label
        /\ \A t \in (Cpus \ {c}) \cup {Sched, Main} : pc'[t] = pc[t]
    BY <2>3, WorkerGoes DEF WorkerLabels
  <2> QED
    BY <2>1, <2>3, <2>4
<1>3. CASE \/ LockFlag \/ SetPaused \/ ClearPaused
           \/ \E command \in Commands : Call(command)
  <2>1. /\ \A t \in Others : pc'[t] = pc[t]
        /\ UNCHANGED <<schedRunning, expected, pending, crashed>>
    BY <1>3, MainGoes, CommandAssumption DEF LockFlag, SetPaused, ClearPaused, Call,
       MainLabels, flags, barrier
  <2> QED
    BY <2>1
<1>4. CASE NotifyResumed
  <2>1. /\ \A c \in Cpus : pc'[c] = pc[c]
        /\ pc'[Sched] = IF pc[Sched] = "p_wait" THEN "p_lock" ELSE pc[Sched]
        /\ UNCHANGED <<schedRunning, expected, pending, crashed>>
    BY <1>4, NotifyMoves DEF NotifyResumed, MainLabels, flags, barrier
  <2> QED
    BY <2>1
<1>5. ~(StopScheduler \/ StopClearsPaused \/ StopNotifies \/ StopWorker \/ Join)
  BY DEF StopScheduler, StopClearsPaused, StopNotifies, StopWorker, Join, flags,
     StopLabels, CallerInv
<1>6. CASE UNCHANGED vars
  BY <1>6 DEF vars, flags, barrier
<1> QED
  BY <1>1, <1>2, <1>3, <1>4, <1>5, <1>6, StepCases

LEMMA BarrierNext ==
  FlagInv /\ BarrierInv /\ [Next]_vars => BarrierInv'
<1> SUFFICES ASSUME FlagInv, BarrierInv, [Next]_vars, schedRunning'
             PROVE  BarrierInv'
  BY DEF BarrierInv
<1> USE ThreadFacts
<1>1. CASE Start
  <2>1. /\ expected' = NumCpu + 1 /\ pending' = NumCpu + 1 /\ crashed' = crashed
        /\ \A t \in Others : pc'[t] = "loop"
    BY <1>1 DEF Start, BarrierSize
  <2>2. Busy' = 0 .. NumCpu
    BY <2>1 DEF Busy, Waiting
  <2>3. Cardinality(0 .. NumCpu) = NumCpu + 1
    BY FS_Interval
  <2>4. ~crashed
    BY <1>1 DEF Next, Ended, Start, vars, flags
  <2> QED
    BY <2>1, <2>2, <2>3, <2>4 DEF BarrierInv
<1>2. CASE BarrierStep
  <2>1. schedRunning
    BY <1>2, BarrierMoves DEF BarrierStep, FlagInv
  <2>2. PICK t \in Others : TickBarrierSync(t)
    BY <1>2, <2>1 DEF BarrierStep, StopBarrierSync, StopDropsScheduler, FlagInv,
       CallerInv, StopLabels
  <2> QED
    BY <2>1, <2>2, ArrivalCounts
<1>3. CASE ~Start /\ ~BarrierStep
  <2>1. /\ schedRunning /\ UNCHANGED <<expected, pending, crashed>>
        /\ \A t \in Others : pc'[t] = pc[t] \/ {pc'[t], pc[t]} \cap Waiting = {}
    BY <1>3, RunningMoves DEF Waiting
  <2> QED
    BY <2>1, BarrierKept
<1> QED
  BY <1>1, <1>2, <1>3

LEMMA Parts == /\ DOMAIN SchedPart = {"before", "work", "advance", "after"}
               /\ DOMAIN SchedAfter = Waiting /\ DOMAIN WorkerAfter = Waiting
BY DEF SchedPart, SchedAfter, WorkerAfter, Waiting

LEMMA LockstepNext ==
  FlagInv /\ BarrierInv /\ Lockstep /\ [Next]_vars => Lockstep'
<1> SUFFICES ASSUME FlagInv, BarrierInv, Lockstep, [Next]_vars, schedRunning'
             PROVE  Lockstep'
  BY DEF Lockstep
<1> USE ThreadFacts
<1> DEFINE InPart(part) == /\ pc[Sched] \in SchedPart[part]
                           /\ \A c \in Cpus : pc[c] \in WorkerPart[part]
<1>1. CASE Start
  <2>1. pc'[Sched] = "loop" /\ \A c \in Cpus : pc'[c] = "loop"
    BY <1>1 DEF Start
  <2> QED
    BY <2>1, Parts DEF Lockstep, SchedPart, WorkerPart
<1>2. ASSUME schedRunning
      PROVE  \E part \in {"before", "work", "advance", "after"} : InPart(part)
  BY <1>2, Parts DEF Lockstep
<1>3. CASE BarrierStep
  <2>1. schedRunning
    BY <1>3, BarrierMoves DEF BarrierStep, FlagInv
  <2>2. PICK t \in Others : TickBarrierSync(t)
    BY <1>3, <2>1 DEF BarrierStep, StopBarrierSync, StopDropsScheduler, FlagInv,
       CallerInv, StopLabels
  <2>3. PICK part \in {"before", "work", "advance", "after"} : InPart(part)
    BY <1>2, <2>1
  <2> DEFINE where == [pc EXCEPT ![t] = WaitAt[@]]
  <2>4. pc[t] \in {"b1", "b2", "b3"}
    BY <2>2 DEF TickBarrierSync, WaitAt
  <2>5. \A u \in Threads : where[u] = IF u = t THEN WaitAt[pc[t]] ELSE pc[u]
    BY DEF FlagInv, TypeInv, TypeOK
  <2>6. where[Sched] \in SchedPart[part] /\ \A c \in Cpus : where[c] \in WorkerPart[part]
    BY <2>3, <2>4, <2>5 DEF WaitAt, SchedPart, WorkerPart
  <2>7. CASE pc' = where
    BY <2>6, <2>7, Parts DEF Lockstep
  <2>8. CASE /\ \A u \in Others \ {t} : pc[u] \in Waiting
             /\ pc' = Released(where)
    <3>1. \A u \in Others : where[u] \in Waiting
      BY <2>4, <2>5, <2>8 DEF WaitAt, Waiting
    <3> HIDE DEF where
    <3>2. /\ pc'[Sched] = SchedAfter[where[Sched]]
          /\ \A c \in Cpus : pc'[c] = WorkerAfter[where[c]]
      BY <2>8, <3>1 DEF Released
    <3>3. CASE part = "before"
      <4>1. where[Sched] = "b1w" /\ \A c \in Cpus : where[c] = "b1w"
        BY <2>6, <3>1, <3>3 DEF SchedPart, WorkerPart, Waiting
      <4>2. pc'[Sched] = "work" /\ \A c \in Cpus : pc'[c] = "work"
        BY <3>2, <4>1 DEF SchedAfter, WorkerAfter
      <4> QED
        BY <4>2, Parts DEF Lockstep, SchedPart, WorkerPart
    <3>4. CASE part = "work"
      <4>1. where[Sched] = "b2w" /\ \A c \in Cpus : where[c] = "b2w"
        BY <2>6, <3>1, <3>4 DEF SchedPart, WorkerPart, Waiting
      <4>2. pc'[Sched] = "advance" /\ \A c \in Cpus : pc'[c] = "b3"
        BY <3>2, <4>1 DEF SchedAfter, WorkerAfter
      <4> QED
        BY <4>2, Parts DEF Lockstep, SchedPart, WorkerPart
    <3>5. CASE part = "advance"
      <4>1. where[Sched] = "b3w" /\ \A c \in Cpus : where[c] = "b3w"
        BY <2>6, <3>1, <3>5 DEF SchedPart, WorkerPart, Waiting
      <4>2. pc'[Sched] = "unlock" /\ \A c \in Cpus : pc'[c] = "loop"
        BY <3>2, <4>1 DEF SchedAfter, WorkerAfter
      <4> QED
        BY <4>2, Parts DEF Lockstep, SchedPart, WorkerPart
    <3>6. part # "after"
      BY <2>6, <3>1 DEF SchedPart, Waiting
    <3> QED
      BY <2>3, <3>3, <3>4, <3>5, <3>6
  <2> QED
    BY <2>1, <2>2, <2>7, <2>8, ArrivalCounts
<1>4. CASE ~Start /\ ~BarrierStep
  <2>1. schedRunning
    BY <1>4, RunningMoves
  <2>2. PICK part \in {"before", "work", "advance", "after"} : InPart(part)
    BY <1>2, <2>1
  <2>3. \A c \in Cpus : pc'[c] \in WorkerPart[part]
    BY <1>4, <2>2, RunningMoves DEF WorkerPart
  <2>4. CASE pc[Sched] = "unlock" /\ pc'[Sched] = "loop"
    <3>1. part = "after" /\ pc'[Sched] \in SchedPart["before"]
      BY <2>2, <2>4 DEF SchedPart
    <3>2. \A c \in Cpus : pc'[c] \in WorkerPart["before"]
      BY <2>3, <3>1 DEF WorkerPart
    <3> QED
      BY <3>1, <3>2, Parts DEF Lockstep
  <2>5. CASE ~(pc[Sched] = "unlock" /\ pc'[Sched] = "loop")
    <3>1. pc'[Sched] \in SchedPart[part]
      BY <1>4, <2>2, <2>5, RunningMoves DEF SchedPart
    <3> QED
      BY <2>3, <3>1, Parts DEF Lockstep
  <2> QED
    BY <2>4, <2>5
<1> QED
  BY <1>1, <1>3, <1>4

\* Until stop() begins no worker does its part of a tick while the scheduler
\* thread is in another part of it or in another tick, for any number of workers
\* and whenever pause() and resume() come.
THEOREM LockstepCorrect == Spec => []Lockstep
<1>1. Init => BarrierInv /\ Lockstep
  BY DEF Init, BarrierInv, Lockstep
<1> QED
  BY <1>1, FlagInit, FlagNext, BarrierNext, LockstepNext, PTL DEF Spec

\* Until stop() begins nobody uses the barrier against its contract: the arrivals
\* it did not expect all come from the drops of stop().
THEOREM ContractUntilStop == Spec => [](schedRunning => ~crashed)
<1>1. Init => BarrierInv
  BY DEF Init, BarrierInv
<1>2. BarrierInv => (schedRunning => ~crashed)
  BY DEF BarrierInv
<1> QED
  BY <1>1, <1>2, FlagInit, FlagNext, BarrierNext, PTL DEF Spec

=============================================================================
