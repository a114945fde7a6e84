-------------------------- MODULE ProcessLifecycle --------------------------
(***************************************************************************)
(* What the scheduler promises its callers, without queues, threads or     *)
(* ticks: a submitted process is admitted, waits for a CPU, has it to      *)
(* itself, executes its instructions one by one, gives the CPU up only to  *)
(* sleep or because all its instructions are done, and is never lost.      *)
(***************************************************************************)
EXTENDS Naturals

CONSTANTS
  Procs,   \* the processes
  Cpus,    \* the CPUs
  Length,  \* how many instructions each process has
  NoProc   \* an idle CPU holds this

VARIABLES
  stage,   \* where each process is in its life
  cpu,     \* the process each CPU holds
  done     \* how many instructions each process has executed

vars == <<stage, cpu, done>>

Stages == {"absent", "new", "ready", "running", "asleep", "finished"}

Init == /\ stage = [p \in Procs |-> "absent"]
        /\ cpu = [c \in Cpus |-> NoProc]
        /\ done = [p \in Procs |-> 0]

Submit(p) == /\ stage[p] = "absent"
             /\ stage' = [stage EXCEPT ![p] = "new"]
             /\ UNCHANGED <<cpu, done>>

Admit(p) == /\ stage[p] = "new"
            /\ stage' = [stage EXCEPT ![p] = "ready"]
            /\ UNCHANGED <<cpu, done>>

Dispatch(p, c) == /\ stage[p] = "ready"
                  /\ cpu[c] = NoProc
                  /\ stage' = [stage EXCEPT ![p] = "running"]
                  /\ cpu' = [cpu EXCEPT ![c] = p]
                  /\ UNCHANGED done

Run(p) == /\ stage[p] = "running"
          /\ done[p] < Length[p]
          /\ done' = [done EXCEPT ![p] = @ + 1]
          /\ UNCHANGED <<stage, cpu>>

\* The process on CPU c leaves it, to sleep or for good.
Leave(c, next) == /\ cpu[c] # NoProc
                  /\ stage' = [stage EXCEPT ![cpu[c]] = next]
                  /\ cpu' = [cpu EXCEPT ![c] = NoProc]
                  /\ UNCHANGED done

Sleep(c) == Leave(c, "asleep")

Finish(c) == /\ Leave(c, "finished")
             /\ done[cpu[c]] = Length[cpu[c]]

\* The timer wakes all that are due at once.
Wake(S) == /\ \A p \in S : stage[p] = "asleep"
           /\ stage' = [p \in Procs |-> IF p \in S THEN "ready" ELSE stage[p]]
           /\ UNCHANGED <<cpu, done>>

Next == \/ \E p \in Procs : Submit(p) \/ Admit(p) \/ Run(p)
        \/ \E p \in Procs, c \in Cpus : Dispatch(p, c)
        \/ \E c \in Cpus : Sleep(c) \/ Finish(c)
        \/ \E S \in SUBSET Procs : Wake(S)

Spec == Init /\ [][Next]_vars
=============================================================================
