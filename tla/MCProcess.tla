----------------------------- MODULE MCProcess -----------------------------
(***************************************************************************)
(* The programs of module Process's runs: all short ones over a few        *)
(* instructions that reach each case and each boundary of the arithmetic.  *)
(***************************************************************************)
EXTENDS Process

SomeInstructions ==
  { [op |-> "PRINT", text |-> "hello"],
    [op |-> "DECLARE", dst |-> "x", a |-> Literal(65535)],
    [op |-> "DECLARE", dst |-> "x", a |-> Literal(-5)],
    [op |-> "ADD", dst |-> "x", a |-> Variable("x"), b |-> Literal(70000)],
    [op |-> "SUBTRACT", dst |-> "y", a |-> Variable("y"), b |-> Variable("x")],
    [op |-> "SUBTRACT", dst |-> "x", a |-> Variable("x"), b |-> Literal(1)],
    [op |-> "DECLARE", dst |-> "y", a |-> Literal(LongLongMax + 1)],
    [op |-> "ADD", dst |-> "y", a |-> Sign, b |-> Literal(-LongLongMax - 2)],
    [op |-> "SLEEP", a |-> Literal(0)],
    [op |-> "SLEEP", a |-> Literal(2)],
    [op |-> "SLEEP", a |-> Literal(-5)],
    [op |-> "SLEEP", a |-> Literal(UlongMax + 3)],
    [op |-> "SLEEP", a |-> Variable("x")],
    [op |-> "FOR"] }

ShortPrograms == UNION {[1 .. n -> SomeInstructions] : n \in 0 .. 3}
=============================================================================
