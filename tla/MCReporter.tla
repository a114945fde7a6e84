----------------------------- MODULE MCReporter -----------------------------
(***************************************************************************)
(* The processes the run of module Reporter submits: one that works and    *)
(* one that sleeps first.                                                  *)
(***************************************************************************)
EXTENDS Reporter, TLC

ReportedPrograms == (1 :> <<Work>>) @@ (2 :> <<Sleep(1), Work>>)
NoPriority == (1 :> 0) @@ (2 :> 0)
=============================================================================
