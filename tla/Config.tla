------------------------------- MODULE Config -------------------------------
(***************************************************************************)
(* What a configuration file says (load_config, src/config.cpp).  The file *)
(* is read as key, value, key, value ... whatever the tokens are: a value  *)
(* left out makes the next key the value, and shifts the rest.             *)
(***************************************************************************)
EXTENDS Integers, Sequences

CONSTANTS
  Stoul,   \* std::stoul: the number each token it accepts begins with
  Width,   \* values of a uint32_t: 2^32 in the code
  Defaults \* Config's initializers

ASSUME StoulAssumption == \A token \in DOMAIN Stoul : Stoul[token] \in Int
ASSUME WidthAssumption == Width \in Nat \ {0}

\* The key that sets a field.
Key == [num_cpu |-> "num-cpu", scheduler |-> "scheduler",
        quantum_cycles |-> "quantum-cycles",
        batch_process_freq |-> "batch-process-freq", min_ins |-> "min-ins",
        max_ins |-> "max-ins", delay_per_exec |-> "delay-per-exec",
        snapshot_cooldown |-> "snapshot-cooldown"]

ASSUME DefaultsAssumption ==
  /\ DOMAIN Key \subseteq DOMAIN Defaults
  /\ \A f \in DOMAIN Key \ {"scheduler"} : Defaults[f] \in 0 .. Width - 1

\* Policies are compared in lower case, and any other word means FCFS; a number
\* with a minus sign wraps round.
Value(field, token) ==
  IF field # "scheduler" THEN Stoul[token] % Width
  ELSE IF token \in {"rr", "rR", "Rr", "RR"} THEN "RR" ELSE "FCFS"

\* A key and its value; a last key without one is not read.
Pairs(file) == [i \in 1 .. Len(file) \div 2 |-> <<file[2 * i - 1], file[2 * i]>>]

\* stoul throws, and nobody catches.
Throws(file) ==
  \E i \in DOMAIN Pairs(file), f \in DOMAIN Key \ {"scheduler"} :
    Pairs(file)[i][1] = Key[f] /\ Pairs(file)[i][2] \notin DOMAIN Stoul

\* One turn of the loop; a key that is not known sets nothing.
Set(cfg, pair) ==
  [f \in DOMAIN cfg |->
     IF f \in DOMAIN Key /\ pair[1] = Key[f] THEN Value(f, pair[2]) ELSE cfg[f]]

\* The loop, over a configuration that is there already.
Read(cfg, pairs) ==
  LET after[n \in 0 .. Len(pairs)] ==
        IF n = 0 THEN cfg ELSE Set(after[n - 1], pairs[n])
  IN  after[Len(pairs)]

\* A missing file is like an empty one.
LoadConfig(file) == Read(Defaults, Pairs(file))
=============================================================================
