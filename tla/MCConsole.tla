----------------------------- MODULE MCConsole -----------------------------
(***************************************************************************)
(* The names the user types in the run of module Console: the one of the   *)
(* generator's first process and another.                                  *)
(***************************************************************************)
EXTENDS Console

PlainNames == {<<0>>, <<1>>}
=============================================================================
