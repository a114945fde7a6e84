------------------------- MODULE MCProcessGenerator -------------------------
(***************************************************************************)
(* The configuration files of the run of module ProcessGenerator: all of   *)
(* at most two lines, over words that matter to the generator, some of     *)
(* which are keys, numbers or neither.                                     *)
(***************************************************************************)
EXTENDS ProcessGenerator, TLC

Tokens == {"min-ins", "max-ins", "0", "-1", "RR", "scheduler"}
TwoLines == UNION {[1 .. n -> Tokens] : n \in 0 .. 4}

Numbers == ("0" :> 0) @@ ("-1" :> -1)

ScaledDefaults ==
  [num_cpu |-> 1, scheduler |-> "FCFS", quantum_cycles |-> 1,
   batch_process_freq |-> 1, min_ins |-> 2, max_ins |-> 1, delay_per_exec |-> 0,
   scheduler_tick_delay |-> 1, max_unrolled_instructions |-> 6,
   snapshot_cooldown |-> 1]
=============================================================================
