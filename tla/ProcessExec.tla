---------------------------- MODULE ProcessExec ----------------------------
(***************************************************************************)
(* Process::execute_tick (src/process.cpp) as an operator: what one call   *)
(* does to the control block of a process and what it returns to the CPU   *)
(* worker.                                                                 *)
(*                                                                         *)
(* An instruction is its opcode and, for SLEEP, its tick count.  PRINT,    *)
(* DECLARE, ADD and SUBTRACT differ in what they do to the log and to the  *)
(* variables, never in how they move the control block: they are all       *)
(* "WORK" here.  "FOR" is one that unrolling left in the program.          *)
(***************************************************************************)
EXTENDS Naturals, Sequences

Instruction == [op : {"WORK", "FOR"}] \cup [op : {"SLEEP"}, ticks : Nat]

Work == [op |-> "WORK"]
For == [op |-> "FOR"]
Sleep(n) == [op |-> "SLEEP", ticks |-> n]

\* The states of ProcessState that anything in the program ever sets.
ProcessState == {"NEW", "READY", "RUNNING", "WAITING", "FINISHED"}

(***************************************************************************)
(* The control block: m_state, pc, m_sleep_remaining, m_delay_remaining    *)
(* and m_metrics.executed_instructions.                                    *)
(***************************************************************************)
ControlBlock == [state : ProcessState, pc : Nat, sleep : Nat, delay : Nat,
                 executed : Nat]

NewBlock == [state |-> "NEW", pc |-> 0, sleep |-> 0, delay |-> 0,
             executed |-> 0]

\* ProcessReturnContext: the state, and args[0] (0 when args is empty).
Context == [state : ProcessState, arg : Nat]

Outcome(block, state, arg) ==
  [block |-> block, ctx |-> [state |-> state, arg |-> arg]]

\* Counts the ticks, not the instructions.
BusyWaitFault(b) ==
  Outcome([b EXCEPT !.delay = @ - 1, !.state = "RUNNING", !.executed = @ + 1],
          "RUNNING", 0)

\* Case 1: the busy wait that follows an instruction.
BusyWait(b) ==
  Outcome([b EXCEPT !.delay = @ - 1, !.state = "RUNNING"], "RUNNING", 0)

\* Case 3: every call of a sleeping process counts its own sleep down.
CountDownSleep(b) ==
  LET left == b.sleep - 1
      next == IF left = 0 THEN "READY" ELSE "WAITING"
  IN  Outcome([b EXCEPT !.sleep = left, !.state = next], next, left)

\* Sleeps one tick less than the timer is told.
FallAsleepFault(b, ticks) ==
  Outcome([b EXCEPT !.state = "WAITING", !.sleep = ticks - 1, !.pc = @ + 1],
          "WAITING", ticks)

\* Case 5, a SLEEP of at least one tick: yields before the instruction is
\* counted and before any busy wait is set.
FallAsleep(b, ticks) ==
  Outcome([b EXCEPT !.state = "WAITING", !.sleep = ticks, !.pc = @ + 1],
          "WAITING", ticks)

\* Finishes one instruction early.
AdvanceFault(b, instr, size, delaysPerExec) ==
  LET next == IF b.pc + 2 >= size THEN "FINISHED" ELSE "RUNNING"
  IN  Outcome([b EXCEPT !.state = next, !.pc = @ + 1, !.delay = delaysPerExec,
                        !.executed = IF instr.op = "FOR" THEN @ ELSE @ + 1],
              next, 0)

\* Case 5, every other instruction.  The busy wait is set after the last one too,
\* the test pc <= size being always true, but nobody calls to serve it.
Advance(b, instr, size, delaysPerExec) ==
  LET next == IF b.pc + 1 >= size THEN "FINISHED" ELSE "RUNNING"
  IN  Outcome([b EXCEPT !.state = next, !.pc = @ + 1, !.delay = delaysPerExec,
                        !.executed = IF instr.op = "FOR" THEN @ ELSE @ + 1],
              next, 0)

ExecuteInstruction(b, program, delaysPerExec) ==
  LET instr == program[b.pc + 1]
  IN  IF instr.op = "SLEEP" /\ instr.ticks > 0
      THEN FallAsleep(b, instr.ticks)
      ELSE Advance(b, instr, Len(program), delaysPerExec)

\* The five cases in the order the code tries them.
ExecuteTick(b, program, delaysPerExec) ==
  CASE b.delay > 0 -> BusyWait(b)
    [] b.delay = 0 /\ b.state = "FINISHED" -> Outcome(b, "FINISHED", 0)
    [] b.delay = 0 /\ b.state # "FINISHED" /\ b.sleep > 0 -> CountDownSleep(b)
    [] b.delay = 0 /\ b.state # "FINISHED" /\ b.sleep = 0 ->
         IF b.pc >= Len(program)
         THEN Outcome([b EXCEPT !.state = "FINISHED"], "FINISHED", 0)
         ELSE ExecuteInstruction(b, program, delaysPerExec)

\* is_yielded: the contexts on which the worker calls release_cpu_interrupt.
IsYielded(ctx) == ctx.state \in {"READY", "WAITING", "FINISHED"}
=============================================================================
