------------------------------ MODULE Process ------------------------------
(***************************************************************************)
(* One process and the CPU that calls its execute_tick once per tick,      *)
(* with the variables and the log the control block of ProcessExec leaves  *)
(* out.                                                                    *)
(*                                                                         *)
(* A definition whose name ends in Fault is not the code: it is what a     *)
(* slip would make of the definition after it, and shows that a property   *)
(* would notice.                                                           *)
(***************************************************************************)
EXTENDS ProcessExec, Integers, FiniteSets

CONSTANTS
  Programs,     \* the programs a process may have
  DelayChoices, \* what delays_per_exec may be
  LongLongMax,  \* the largest number std::stoll reads, 2^63 - 1
  UlongMax,     \* the largest std::stoul reads, 2^64 - 1
  SleepWidth    \* SLEEP's operand is cast to an integer of this many values, 2^32;
                \* the three are less where TLC counts

ASSUME WidthAssumption ==
  /\ LongLongMax \in Nat /\ UlongMax \in Nat
  /\ SleepWidth \in Nat \ {0}
  /\ (UlongMax + 1) % SleepWidth = 0

VARIABLES
  code,   \* m_instr
  delays, \* the caller's delays_per_exec
  block,  \* the control block
  data,   \* vars and m_logs
  calls   \* how often execute_tick was called before the process finished

vars == <<code, delays, block, data, calls>>

-----------------------------------------------------------------------------
(***************************************************************************)
(* Tokens and variables.  A token is a literal, a sign without digits,     *)
(* which is_number takes for a number, or the name of a variable.          *)
(***************************************************************************)
Literal(n) == [kind |-> "literal", n |-> n]
Sign == [kind |-> "sign"]
Variable(v) == [kind |-> "variable", v |-> v]

\* std::string
Text == STRING

Token == [kind : {"literal"}, n : Int] \cup [kind : {"sign"}]
           \cup [kind : {"variable"}, v : Text]

\* Instruction with its arguments.
FullInstruction ==
  [op : {"PRINT"}, text : Text]
    \cup [op : {"DECLARE"}, dst : Text, a : Token]
    \cup [op : {"ADD", "SUBTRACT"}, dst : Text, a : Token, b : Token]
    \cup [op : {"SLEEP"}, a : Token]
    \cup [op : {"FOR"}]

ASSUME ProgramAssumption ==
  Programs \subseteq Seq(FullInstruction) /\ DelayChoices \subseteq Nat

MaxValue == 65535

\* Lets a negative difference wrap around.
ClampFault(v) == v % (MaxValue + 1)

\* Cuts at zero only.
ClampLowFault(v) == IF v < 0 THEN 0 ELSE v

\* clamp_uint16
Clamp(v) == IF v < 0 THEN 0 ELSE IF v > MaxValue THEN MaxValue ELSE v

Store(memory, v, n) ==
  [w \in DOMAIN memory \cup {v} |-> IF w = v THEN n ELSE memory[w]]

\* read_token_value declares a variable it does not find.
Touch(memory, token) ==
  IF token.kind = "variable" /\ token.v \notin DOMAIN memory
  THEN Store(memory, token.v, 0)
  ELSE memory

\* What stoll and stoul read; they throw where they find no digits and for a number
\* beyond their range.
ReadsLongLong(token) ==
  token.kind = "literal" /\ token.n \in -LongLongMax - 1 .. LongLongMax
ReadsUlong(token) == token.kind = "literal" /\ token.n \in -UlongMax .. UlongMax

\* Clamps a literal of any size.
ReadTokenFault(memory, token) ==
  IF token.kind = "variable" THEN Touch(memory, token)[token.v]
  ELSE IF token.kind = "literal" THEN Clamp(token.n) ELSE 0

\* read_token_value, which catches what stoll throws and takes 0.
ReadToken(memory, token) ==
  IF token.kind = "variable" THEN Touch(memory, token)[token.v]
  ELSE IF ReadsLongLong(token) THEN Clamp(token.n) ELSE 0

\* The switch of case 5: what an instruction does to vars and m_logs.
Arithmetic(memory, dst, a, b, result) ==
  Store(Touch(Touch(memory, a), b), dst, result)

Apply(d, i) ==
  CASE i.op = "PRINT" -> [d EXCEPT !.logs = Append(@, i.text)]
    [] i.op = "DECLARE" ->
         [d EXCEPT !.memory = Store(Touch(@, i.a), i.dst, ReadToken(@, i.a))]
    [] i.op = "ADD" ->
         [d EXCEPT !.memory =
            Arithmetic(@, i.dst, i.a, i.b,
                       Clamp(ReadToken(@, i.a) + ReadToken(@, i.b)))]
    [] i.op = "SUBTRACT" ->
         [d EXCEPT !.memory =
            Arithmetic(@, i.dst, i.a, i.b,
                       Clamp(ReadToken(@, i.a) - ReadToken(@, i.b)))]
    [] i.op \in {"SLEEP", "FOR"} -> d

\* Takes the largest number there is for one that stoul cannot read, as
\* strtoul would.
SleepTicksFault(token) ==
  IF ReadsUlong(token) THEN token.n % SleepWidth
  ELSE IF token.kind = "literal" THEN SleepWidth - 1 ELSE 0

\* The ticks of a SLEEP.  stoul wraps a negative operand, the cast to uint32_t drops
\* what does not fit; what stoul throws is caught, and a variable is not read.
SleepTicks(token) == IF ReadsUlong(token) THEN token.n % SleepWidth ELSE 0

\* What the control block sees of an instruction.
Control(i) ==
  CASE i.op = "SLEEP" -> Sleep(SleepTicks(i.a))
    [] i.op = "FOR" -> For
    [] OTHER -> Work

ControlProgram == [n \in DOMAIN code |-> Control(code[n])]

\* get_executed_instructions and get_total_instructions, which reports print.
Progress == [executed |-> block.executed, total |-> Len(code)]

-----------------------------------------------------------------------------
Init ==
  /\ code \in Programs
  /\ delays \in DelayChoices
  /\ block = [NewBlock EXCEPT !.state = "RUNNING"]
  /\ data = [memory |-> <<>>, logs |-> <<>>]
  /\ calls = 0

\* An instruction has run when pc has moved.
CallExecuteTick ==
  LET r == ExecuteTick(block, ControlProgram, delays)
  IN  /\ block.state # "FINISHED"
      /\ block' = r.block
      /\ data' = IF r.block.pc = block.pc THEN data
                 ELSE Apply(data, code[block.pc + 1])
      /\ calls' = calls + 1
      /\ UNCHANGED <<code, delays>>

\* After FINISHED the worker releases the process and nothing calls it again.
Released == block.state = "FINISHED" /\ UNCHANGED vars

Next == CallExecuteTick \/ Released

Spec == Init /\ [][Next]_vars

-----------------------------------------------------------------------------
(***************************************************************************)
(* Properties.                                                             *)
(***************************************************************************)

\* The control block is one, within the program.
TypeOK ==
  /\ block \in ControlBlock
  /\ block.pc \in 0 .. Len(code)
  /\ \A v \in DOMAIN data.memory : data.memory[v] \in 0 .. MaxValue
  /\ calls \in Nat

\* The program's meaning: each of its first n instructions once, in order, over
\* the integers, cut to 0 .. 65535 where a result is stored.  A literal beyond what
\* std::stoll reads is worth 0, though src/process.cpp:339 says "A literal number
\* (will be clamped to uint16_t range)".
Value(memory, token) ==
  IF token.kind = "sign" THEN 0
  ELSE IF token.kind = "literal"
  THEN IF token.n > LongLongMax \/ token.n + LongLongMax < -1 THEN 0
       ELSE CHOOSE n \in 0 .. MaxValue :
              \/ n = token.n
              \/ n = 0 /\ token.n < 0
              \/ n = MaxValue /\ token.n > MaxValue
  ELSE IF token.v \in DOMAIN memory THEN memory[token.v] ELSE 0

Nearest(v) == IF v \in 0 .. MaxValue THEN v ELSE IF v < 0 THEN 0 ELSE MaxValue

Result(before, i) ==
  LET Becomes(n) == [w \in DOMAIN before.memory \cup {i.dst} |->
                       IF w = i.dst THEN n ELSE before.memory[w]]
  IN  CASE i.op = "PRINT" ->
             [before EXCEPT !.logs = Append(@, i.text)]
        [] i.op = "DECLARE" ->
             [before EXCEPT !.memory = Becomes(Value(@, i.a))]
        [] i.op = "ADD" ->
             [before EXCEPT !.memory =
                Becomes(Nearest(Value(@, i.a) + Value(@, i.b)))]
        [] i.op = "SUBTRACT" ->
             [before EXCEPT !.memory =
                Becomes(Nearest(Value(@, i.a) - Value(@, i.b)))]
        [] i.op \in {"SLEEP", "FOR"} -> before

Meaning(program) ==
  LET m[n \in 0 .. Len(program)] ==
        IF n = 0 THEN [memory |-> <<>>, logs |-> <<>>]
        ELSE Result(m[n - 1], program[n])
  IN  m

\* Sleeps and busy waits between the instructions change when a process
\* computes, never what: its log and every variable it assigned are those of
\* the instructions before pc, each executed once.
ComputesItsProgram ==
  LET expected == Meaning(code)[block.pc]
  IN  /\ data.logs = expected.logs
      /\ \A v \in DOMAIN expected.memory :
            v \in DOMAIN data.memory /\ data.memory[v] = expected.memory[v]
      /\ \A v \in DOMAIN data.memory \ DOMAIN expected.memory :
            data.memory[v] = 0

\* For how many ticks an instruction puts the process to sleep: for those its
\* operand asks for, as far as they fit into SleepWidth, and for none if the
\* operand is no number or beyond what an unsigned long holds.
SleepsFor(i) ==
  IF i.op = "SLEEP" /\ i.a.kind = "literal" /\ i.a.n <= UlongMax /\ -i.a.n <= UlongMax
  THEN CHOOSE t \in 0 .. SleepWidth - 1 : (i.a.n - t) % SleepWidth = 0
  ELSE 0

SleepsOrSkipped(i) == i.op = "FOR" \/ SleepsFor(i) > 0

\* src/process.cpp:554 "Increment executed-instruction count (skip FOR)": when a
\* report lists a process as finished, its "executed / total" is short of the total
\* by the FORs that were left and the SLEEPs that slept, which return before they
\* are counted, and by nothing else, whatever ticks the process waited.
ReportedAsRun ==
  block.state = "FINISHED" =>
    Progress.total - Progress.executed =
      Cardinality({n \in DOMAIN code : SleepsOrSkipped(code[n])})

\* How many calls an instruction is worth, and the first n of a program are.
Price(i, d) ==
  IF SleepsFor(i) > 0 THEN 1 + SleepsFor(i) ELSE 1 + d

Cost(program, d) ==
  LET c[n \in 0 .. Len(program)] ==
        IF n = 0 THEN 0 ELSE c[n - 1] + Price(program[n], d)
  IN  c

\* A process takes 1 + delays_per_exec calls for each instruction and 1 + X for one
\* that sleeps X ticks: no call is wasted and none is skipped.  The one extra call of case
\* 4 finds a program that is empty or ends in a SLEEP at its end.
CallsAreAccountedFor ==
  LET extra == IF /\ block.state = "FINISHED"
                  /\ code = <<>> \/ SleepsFor(code[Len(code)]) > 0
               THEN 1 ELSE 0
  IN  calls = Cost(code, delays)[block.pc] - block.delay - block.sleep + extra
=============================================================================
