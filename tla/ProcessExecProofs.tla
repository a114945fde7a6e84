------------------------- MODULE ProcessExecProofs --------------------------
(***************************************************************************)
(* What one call of execute_tick does, case by case: the lemmas that the   *)
(* proofs about its callers rest on.                                       *)
(***************************************************************************)
EXTENDS ProcessExec, TLAPS

\* The fields of a control block.
HasFields(b, state, n, sleep, delay, executed) ==
  /\ b.state = state /\ b.pc = n /\ b.sleep = sleep /\ b.delay = delay
  /\ b.executed = executed

\* The instruction at pc is a SLEEP of at least one tick.
AtSleep(b, program) ==
  program[b.pc + 1].op = "SLEEP" /\ program[b.pc + 1].ticks > 0

(***************************************************************************)
(* The cases, each with its condition and the block it leaves.             *)
(***************************************************************************)
ServesDelay(b, after) ==
  /\ b.delay > 0
  /\ HasFields(after, "RUNNING", b.pc, b.sleep, b.delay - 1, b.executed)

IsOver(b, after) ==
  /\ b.delay = 0 /\ b.state = "FINISHED"
  /\ HasFields(after, "FINISHED", b.pc, b.sleep, 0, b.executed)

ServesSleep(b, after) ==
  /\ b.delay = 0 /\ b.state # "FINISHED" /\ b.sleep > 0
  /\ HasFields(after, IF b.sleep = 1 THEN "READY" ELSE "WAITING", b.pc,
               b.sleep - 1, 0, b.executed)

Ends(b, program, after) ==
  /\ b.delay = 0 /\ b.state # "FINISHED" /\ b.sleep = 0 /\ b.pc >= Len(program)
  /\ HasFields(after, "FINISHED", b.pc, 0, 0, b.executed)

Sleeps(b, program, after) ==
  /\ b.delay = 0 /\ b.state # "FINISHED" /\ b.sleep = 0 /\ b.pc < Len(program)
  /\ AtSleep(b, program)
  /\ HasFields(after, "WAITING", b.pc + 1, program[b.pc + 1].ticks, 0, b.executed)

Works(b, program, delays, after) ==
  /\ b.delay = 0 /\ b.state # "FINISHED" /\ b.sleep = 0 /\ b.pc < Len(program)
  /\ ~AtSleep(b, program)
  /\ HasFields(after, IF b.pc + 1 = Len(program) THEN "FINISHED" ELSE "RUNNING",
               b.pc + 1, 0, delays,
               IF program[b.pc + 1].op = "FOR" THEN b.executed
               ELSE b.executed + 1)

TickCase(b, program, delays, after) ==
  \/ ServesDelay(b, after) \/ IsOver(b, after) \/ ServesSleep(b, after)
  \/ Ends(b, program, after) \/ Sleeps(b, program, after)
  \/ Works(b, program, delays, after)

-----------------------------------------------------------------------------
\* The context that goes with a block names its state and, if it waits, for how
\* many ticks.
Tells(b, ctx) ==
  ctx.state = b.state /\ ctx.arg = IF b.state = "WAITING" THEN b.sleep ELSE 0

LEMMA OutcomeType ==
  ASSUME NEW b \in ControlBlock, NEW arg \in Nat, NEW r,
         r = Outcome(b, b.state, arg), b.state # "WAITING" => arg = 0,
         b.state = "WAITING" => arg = b.sleep
  PROVE  r.block = b /\ r.ctx \in Context /\ Tells(b, r.ctx)
<1>1. b.state \in ProcessState
  BY DEF ControlBlock
<1>2. r.block = b /\ r.ctx = [state |-> b.state, arg |-> arg]
  BY DEF Outcome
<1> QED
  BY <1>1, <1>2 DEF Context, Tells

\* Every call is one of the cases, and its context tells the worker what it needs
\* to know of the block.
LEMMA TickCases ==
  ASSUME NEW b \in ControlBlock, NEW program \in Seq(Instruction),
         NEW delays \in Nat
  PROVE  LET r == ExecuteTick(b, program, delays)
         IN  /\ r.block \in ControlBlock /\ r.ctx \in Context
             /\ TickCase(b, program, delays, r.block)
             /\ Tells(r.block, r.ctx)
<1> DEFINE r == ExecuteTick(b, program, delays)
           Goal == /\ r.block \in ControlBlock /\ r.ctx \in Context
                   /\ TickCase(b, program, delays, r.block)
                   /\ Tells(r.block, r.ctx)
<1> SUFFICES Goal
  OBVIOUS
<1>1. /\ b.pc \in Nat /\ b.sleep \in Nat /\ b.delay \in Nat /\ b.executed \in Nat
      /\ Len(program) \in Nat
      /\ {"READY", "RUNNING", "WAITING", "FINISHED"} \subseteq ProcessState
      /\ b.state \in ProcessState
  BY DEF ControlBlock, ProcessState
<1>2. ASSUME NEW after \in ControlBlock, TickCase(b, program, delays, after),
             NEW arg \in Nat, r = Outcome(after, after.state, arg),
             after.state # "WAITING" => arg = 0,
             after.state = "WAITING" => arg = after.sleep
      PROVE  Goal
  <2> HIDE DEF r
  <2> QED
    BY <1>2, OutcomeType
<1> HIDE DEF Goal
<1>3. CASE b.delay > 0
  <2> DEFINE left == b.delay - 1
             after == [b EXCEPT !.delay = left, !.state = "RUNNING"]
  <2>1. left \in Nat
    BY <1>1, <1>3
  <2>2. r = Outcome(after, "RUNNING", 0)
    BY <1>3 DEF ExecuteTick, BusyWait
  <2>3. /\ after \in ControlBlock
        /\ HasFields(after, "RUNNING", b.pc, b.sleep, left, b.executed)
    BY <1>1, <2>1 DEF ControlBlock, HasFields
  <2> HIDE DEF after, r
  <2> QED
    BY <1>2, <1>3, <2>2, <2>3 DEF TickCase, ServesDelay, HasFields
<1>4. CASE b.delay = 0 /\ b.state = "FINISHED"
  <2>1. r = Outcome(b, "FINISHED", 0)
    BY <1>4 DEF ExecuteTick
  <2> HIDE DEF r
  <2> QED
    BY <1>2, <1>4, <2>1 DEF TickCase, IsOver, HasFields
<1>5. CASE b.delay = 0 /\ b.state # "FINISHED" /\ b.sleep > 0
  <2> DEFINE next == IF b.sleep = 1 THEN "READY" ELSE "WAITING"
             after == [b EXCEPT !.sleep = b.sleep - 1, !.state = next]
  <2>1. b.sleep - 1 \in Nat /\ (b.sleep - 1 = 0 <=> b.sleep = 1)
        /\ next \in ProcessState
    BY <1>1, <1>5
  <2>2. r = Outcome(after, next, b.sleep - 1)
    BY <1>5, <2>1 DEF ExecuteTick, CountDownSleep
  <2>3. /\ after \in ControlBlock
        /\ HasFields(after, next, b.pc, b.sleep - 1, 0, b.executed)
    BY <1>5, <1>1, <2>1 DEF ControlBlock, HasFields
  <2>4. ServesSleep(b, after)
    BY <1>5, <2>3 DEF ServesSleep
  <2>5. after.state = next /\ after.sleep = b.sleep - 1
    BY <2>3 DEF HasFields
  <2>6. next # "WAITING" => b.sleep - 1 = 0
    BY <2>1
  <2> HIDE DEF after, r, next
  <2> QED
    BY <1>2, <2>1, <2>2, <2>3, <2>4, <2>5, <2>6 DEF TickCase
<1>6. CASE b.delay = 0 /\ b.state # "FINISHED" /\ b.sleep = 0
           /\ b.pc >= Len(program)
  <2> DEFINE after == [b EXCEPT !.state = "FINISHED"]
  <2>1. r = Outcome(after, "FINISHED", 0)
    BY <1>6 DEF ExecuteTick
  <2>2. after \in ControlBlock /\ HasFields(after, "FINISHED", b.pc, 0, 0, b.executed)
    BY <1>1, <1>6 DEF ControlBlock, HasFields
  <2> HIDE DEF after, r
  <2> QED
    BY <1>2, <1>6, <2>1, <2>2 DEF TickCase, Ends, HasFields
<1>7. CASE b.delay = 0 /\ b.state # "FINISHED" /\ b.sleep = 0
           /\ b.pc < Len(program)
  <2> DEFINE instr == program[b.pc + 1]
  <2>1. r = ExecuteInstruction(b, program, delays)
    BY <1>1, <1>7 DEF ExecuteTick
  <2>2. instr \in Instruction /\ b.pc + 1 \in Nat
    BY <1>1, <1>7
  <2>3. CASE AtSleep(b, program)
    <3> DEFINE after == [b EXCEPT !.state = "WAITING", !.sleep = instr.ticks,
                                  !.pc = b.pc + 1]
    <3>1. r = Outcome(after, "WAITING", instr.ticks)
      BY <2>1, <2>3 DEF AtSleep, ExecuteInstruction, FallAsleep
    <3>2. instr.ticks \in Nat
      BY <2>2, <2>3 DEF AtSleep, Instruction
    <3>3. /\ after \in ControlBlock
          /\ HasFields(after, "WAITING", b.pc + 1, instr.ticks, 0, b.executed)
      BY <1>1, <1>7, <2>2, <3>2 DEF ControlBlock, HasFields
    <3>4. Sleeps(b, program, after)
      BY <1>7, <2>3, <3>3 DEF Sleeps
    <3> HIDE DEF after, r
    <3> QED
      BY <1>2, <3>1, <3>2, <3>3, <3>4 DEF TickCase, HasFields
  <2>4. CASE ~AtSleep(b, program)
    <3> DEFINE next == IF b.pc + 1 = Len(program) THEN "FINISHED" ELSE "RUNNING"
               count == IF instr.op = "FOR" THEN b.executed ELSE b.executed + 1
               after == [b EXCEPT !.state = next, !.pc = b.pc + 1,
                                  !.delay = delays, !.executed = count]
    <3>1. b.pc + 1 >= Len(program) <=> b.pc + 1 = Len(program)
      BY <1>1, <1>7
    <3>2. next \in ProcessState \ {"WAITING"} /\ count \in Nat
      BY <1>1
    <3>3. r = Outcome(after, next, 0)
      BY <2>1, <2>4, <3>1 DEF AtSleep, ExecuteInstruction, Advance
    <3>4. /\ after \in ControlBlock
          /\ HasFields(after, next, b.pc + 1, 0, delays, count)
      BY <1>1, <1>7, <2>2, <3>2 DEF ControlBlock, HasFields
    <3>5. Works(b, program, delays, after)
      BY <1>7, <2>4, <3>4 DEF Works
    <3> HIDE DEF after, r, next, count
    <3> QED
      BY <1>2, <3>2, <3>3, <3>4, <3>5 DEF TickCase, HasFields
  <2> QED
    BY <2>3, <2>4
<1> QED
  BY <1>1, <1>3, <1>4, <1>5, <1>6, <1>7

=============================================================================
