-------------------------- MODULE ProcessGenerator --------------------------
(***************************************************************************)
(* How a program comes to be: the CLI loads the configuration, the         *)
(* generator picks random instructions within a budget it estimates        *)
(* (src/process_generator.cpp), the constructor of Process unrolls their   *)
(* FORs (src/process.cpp).  Its thread is in module Console.               *)
(*                                                                         *)
(* An instruction is [op |-> "FOR", repeats |-> n, body |-> sequence], or a *)
(* leaf.  A missing or malformed repeat count is 0: unrolling, unlike the  *)
(* estimate, takes both alike, and the generator makes neither.            *)
(*                                                                         *)
(* A definition whose name ends in Fault is not the code: it is what a     *)
(* slip would make of the definition after it, and shows that a property   *)
(* would notice.                                                           *)
(***************************************************************************)
EXTENDS Config

Seqs == INSTANCE SequencesExt

CONSTANTS
  Leaves,     \* the instructions other than FOR
  MaxNesting, \* FOR_MAX_NESTING
  MaxRepeats, \* repeats of a random FOR: 1 .. 3 in the code
  MaxBody,    \* length of its body: 1 .. 3 in the code
  Files       \* what config.txt may be at an initialize, as tokens

ASSUME LeavesAssumption == "FOR" \notin Leaves
ASSUME BoundsAssumption ==
  MaxNesting \in Nat /\ MaxRepeats \in Nat \ {0} /\ MaxBody \in Nat \ {0}
ASSUME FilesAssumption == Files \subseteq Seq(STRING)
ASSUME BudgetAssumption ==
  /\ "max_unrolled_instructions" \in DOMAIN Defaults
  /\ Defaults.max_unrolled_instructions \in Nat

VARIABLES
  stage,   \* "start", "loaded", "pick", "grow", "full", "made", "terminated"
  file,    \* config.txt, until the first process is made from it
  cfg,     \* cfg_
  maker,   \* "loop" or "screen": who makes the process
  target,  \* num_instructions or target_top_level
  ins,     \* the top-level instructions so far
  size,    \* estimated_size
  program  \* m_instr of the process made last

vars == <<stage, file, cfg, maker, target, ins, size, program>>

IsFor(i) == i.op = "FOR"

-----------------------------------------------------------------------------
(***************************************************************************)
(* Instructions, by how deep their FORs may still be nested: FOR_MAX_-     *)
(* NESTING less the depth the code counts.                                 *)
(***************************************************************************)
LeafInstruction == [op : Leaves]

\* The instructions there can be, the generator's or not.
Instruction[n \in 0 .. MaxNesting + 1] ==
  IF n = 0 THEN LeafInstruction
  ELSE LeafInstruction \cup
       [op : {"FOR"}, repeats : Int, body : Seq(Instruction[n - 1])]

\* The FORs the generator makes of its choices for a body.
RandomFor(inner) ==
  [op : {"FOR"}, repeats : 1 .. MaxRepeats,
   body : UNION {[1 .. length -> inner] : length \in 1 .. MaxBody}]

\* What random_instruction can return: no FOR from the depth limit on.
RandomInstruction[n \in 0 .. MaxNesting] ==
  IF n = 0 THEN LeafInstruction
  ELSE LeafInstruction \cup RandomFor(RandomInstruction[n - 1])

TopLevel == RandomInstruction[MaxNesting]

Sum(numbers) ==
  LET total[n \in 0 .. Len(numbers)] ==
        IF n = 0 THEN 0 ELSE total[n - 1] + numbers[n]
  IN  total[Len(numbers)]

\* A FOR's repetitions added to its body instead of multiplied.
EstimateFault(i) ==
  LET sizes[n \in 0 .. MaxNesting] ==
        [x \in RandomInstruction[n] |->
           IF IsFor(x)
           THEN x.repeats + Sum([j \in DOMAIN x.body |-> sizes[n - 1][x.body[j]]])
           ELSE 1]
  IN  sizes[MaxNesting][i]

\* estimate_unrolled_size_for_instr, which sees random instructions only.
Estimate(i) ==
  LET sizes[n \in 0 .. MaxNesting] ==
        [x \in RandomInstruction[n] |->
           IF IsFor(x)
           THEN x.repeats * Sum([j \in DOMAIN x.body |-> sizes[n - 1][x.body[j]]])
           ELSE 1]
  IN  sizes[MaxNesting][i]

\* Repeats a body without looking for a FOR in it.
UnrollFault(i) ==
  IF ~IsFor(i) THEN <<i>>
  ELSE IF MaxNesting = 0 \/ i.repeats <= 0 THEN i.body
  ELSE Seqs!FlattenSeq([r \in 1 .. i.repeats |-> i.body])

\* unroll_instruction: past the depth limit, and for a repeat count that is
\* not positive, the body as it stands, once.  Its argument may be nested one
\* level deeper than the limit.
Unroll(i) ==
  LET flat[n \in 0 .. MaxNesting] ==
        [x \in Instruction[n + 1] |->
           IF ~IsFor(x) THEN <<x>>
           ELSE IF n = 0 \/ x.repeats <= 0 THEN x.body
           ELSE Seqs!FlattenSeq([r \in 1 .. x.repeats |->
                  Seqs!FlattenSeq([j \in DOMAIN x.body |-> flat[n - 1][x.body[j]]])])]
  IN  flat[MaxNesting][i]

\* The constructor of Process.
Construct(instrs) == Seqs!FlattenSeq([j \in DOMAIN instrs |-> Unroll(instrs[j])])

\* rand_range: the bounds may come in either order.
RandRange(a, b) == IF a > b THEN b .. a ELSE a .. b

-----------------------------------------------------------------------------
\* Keeps what the file before said.
LoadFault(f) ==
  /\ stage \in {"start", "pick"}
  /\ IF Throws(f)
     THEN stage' = "terminated" /\ UNCHANGED <<file, cfg>>
     ELSE /\ stage' = "loaded"
          /\ file' = f
          /\ cfg' = Read(cfg, Pairs(f))
  /\ UNCHANGED <<maker, target, ins, size, program>>

\* initialize, with the generator between two processes.
Load(f) ==
  /\ stage \in {"start", "pick"}
  /\ IF Throws(f)
     THEN stage' = "terminated" /\ UNCHANGED <<file, cfg>>
     ELSE stage' = "loaded" /\ file' = f /\ cfg' = LoadConfig(f)
  /\ UNCHANGED <<maker, target, ins, size, program>>

Begin(who, length) ==
  /\ stage \in {"loaded", "pick"}
  /\ maker' = who
  /\ target' = length
  /\ ins' = <<>>
  /\ size' = 0
  /\ stage' = "grow"
  /\ file' = <<>>
  /\ UNCHANGED <<cfg, program>>

\* The generator's thread picks a length in the range ...
PickTarget == \E n \in RandRange(cfg.min_ins, cfg.max_ins) : Begin("loop", n)

\* ... and `screen -s` calls generate_instructions with its lower end.
ScreenTarget == Begin("screen", cfg.min_ins)

Budget == cfg.max_unrolled_instructions

\* Compares before it adds.
ExceedsFault(n) == Budget > 0 /\ size > Budget

Exceeds(n) == Budget > 0 /\ size + n > Budget

\* Goes once too often round the loop.
AddInstructionFault(i) ==
  /\ stage = "grow"
  /\ Len(ins) <= target
  /\ IF Exceeds(Estimate(i))
     THEN stage' = "full" /\ UNCHANGED <<ins, size>>
     ELSE /\ ins' = Append(ins, i)
          /\ size' = size + Estimate(i)
          /\ UNCHANGED stage
  /\ UNCHANGED <<file, cfg, maker, target, program>>

\* One turn of the loop, which breaks at the first instruction that exceeds the
\* budget, though a shorter one might still fit.
AddInstruction(i) ==
  /\ stage = "grow"
  /\ Len(ins) < target
  /\ IF Exceeds(Estimate(i))
     THEN stage' = "full" /\ UNCHANGED <<ins, size>>
     ELSE /\ ins' = Append(ins, i)
          /\ size' = size + Estimate(i)
          /\ UNCHANGED stage
  /\ UNCHANGED <<file, cfg, maker, target, program>>

\* The loop has two copies, which are the same.
LoopAdds(i) == maker = "loop" /\ AddInstruction(i)
GenerateInstructionsAdds(i) == maker = "screen" /\ AddInstruction(i)

MakeProcess ==
  /\ stage = "full" \/ (stage = "grow" /\ Len(ins) = target)
  /\ program' = Construct(ins)
  /\ stage' = "made"
  /\ UNCHANGED <<file, cfg, maker, target, ins, size>>

NextProcess ==
  /\ stage = "made"
  /\ stage' = "pick"
  /\ target' = 0
  /\ ins' = <<>>
  /\ size' = 0
  /\ program' = <<>>
  /\ UNCHANGED <<file, cfg, maker>>

Init ==
  /\ stage = "start"
  /\ file = <<>>
  /\ cfg = Defaults
  /\ maker = "loop"
  /\ target = 0
  /\ ins = <<>>
  /\ size = 0
  /\ program = <<>>

Next ==
  \/ \E f \in Files : Load(f)
  \/ PickTarget
  \/ ScreenTarget
  \/ \E i \in TopLevel : LoopAdds(i)
  \/ \E i \in TopLevel : GenerateInstructionsAdds(i)
  \/ MakeProcess
  \/ NextProcess
  \/ stage = "terminated" /\ UNCHANGED vars

Spec == Init /\ [][Next]_vars

-----------------------------------------------------------------------------
(***************************************************************************)
(* Properties.                                                             *)
(***************************************************************************)

\* What is being built is a sequence of instructions the generator can make, no
\* longer than the length picked, which fits in a uint32_t.
TypeOK ==
  /\ stage \in {"start", "loaded", "pick", "grow", "full", "made", "terminated"}
  /\ DOMAIN cfg = DOMAIN Defaults
  /\ maker \in {"loop", "screen"}
  /\ target \in 0 .. Width - 1
  /\ size \in Nat
  /\ Len(ins) <= target
  /\ \A j \in DOMAIN ins : ins[j] \in TopLevel

\* Each initialize goes by the file as it then is: whatever the order of its
\* lines, the last one of a key decides, and a key the file does not have is back
\* at its default, whatever an earlier file said.
LastLineDecides ==
  stage = "loaded" =>
    \A f \in DOMAIN Key :
      LET lines == {i \in 1 .. Len(file) - 1 : i % 2 = 1 /\ file[i] = Key[f]}
      IN  IF lines = {} THEN cfg[f] = Defaults[f]
          ELSE \E i \in lines : /\ \A j \in lines : j <= i
                                /\ cfg[f] = Value(f, file[i + 1])

\* The generator's estimate and the constructor's unrolling are two pieces of
\* code in two files; for every program the generator makes they agree.
EstimateIsExact == stage = "made" => Len(program) = size

\* A generated process never exceeds the budget after unrolling, in spite of
\* nesting, and however the instructions fall.
WithinBudget == stage = "made" /\ Budget > 0 => Len(program) <= Budget

\* README.md:62 "a flat instruction list": no FOR of a generated program is left
\* for execute_tick, which would skip its body.
GeneratedIsFlat == stage = "made" => \A j \in DOMAIN program : ~IsFor(program[j])
=============================================================================
