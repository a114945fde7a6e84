---------------------------- MODULE MCScheduler ----------------------------
(***************************************************************************)
(* The processes the runs of module Scheduler submit.                      *)
(***************************************************************************)
EXTENDS Scheduler, TLC

\* One that sleeps between two instructions, one that only works, one that
\* ends with a SLEEP.
MixedPrograms == (1 :> <<Sleep(2), Work>>) @@ (2 :> <<Work, Work>>) @@ (3 :> <<Sleep(1)>>)
MixedPriority == (1 :> 0) @@ (2 :> 1) @@ (3 :> 1)
=============================================================================
