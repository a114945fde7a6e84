---------------------------- MODULE FinishedMap ----------------------------
(***************************************************************************)
(* The map of finished processes (src/finished_map.cpp): by name, with     *)
(* strong references, and by tick, with weak ones.  Each method holds the  *)
(* map's mutex from its first line to its last, so each is one action.     *)
(* Names are those the user gave to `screen -s` and the generator made up; *)
(* nothing keeps two processes from having the same one.                   *)
(*                                                                         *)
(* A definition whose name ends in Fault is not the code: it is what a     *)
(* slip would make of the definition after it, and shows that a property   *)
(* would notice.                                                           *)
(***************************************************************************)
EXTENDS Naturals, FiniteSets, Sequences

Seqs == INSTANCE SequencesExt

CONSTANTS
  Procs,     \* the processes that may finish
  GivenName, \* the name each process is created with
  MaxTick    \* bound on the ticks at which processes finish

\* The name "a" is <<a>>, and "a_(1)" is <<a, 1>>.
VARIABLES
  name,      \* Process::m_name
  held,      \* the processes somebody else holds: ScreenManager::screens_
  inserted,  \* the processes that have finished
  byName,    \* finished_by_name_
  byTick,    \* finished_by_tick_, its entries in the map's order
  duplicates \* duplicate_count_

vars == <<name, held, inserted, byName, byTick, duplicates>>

Put(f, key, value) == [x \in DOMAIN f \cup {key} |-> IF x = key THEN value ELSE f[x]]

\* contains, size; the process get_by_name finds.
Contains(n) == n \in DOMAIN byName
Size == Cardinality(DOMAIN byName)

\* weak_ptr::lock() finds a process somebody still holds.
Alive(p) == p \in held \/ \E n \in DOMAIN byName : byName[n] = p

\* The entries that snapshot and ordered list, in the map's order.
Ordered == {i \in DOMAIN byTick : Alive(byTick[i].proc)}

\* operator[] of duplicate_count_ makes a missing entry zero.
DuplicateCount(n) == IF n \in DOMAIN duplicates THEN duplicates[n] ELSE 0

\* Numbers a duplicate before it counts it.
RenameEarlyFault(p) ==
  LET n == name[p]
      idx == DuplicateCount(n)
  IN  IF Contains(n)
      THEN /\ duplicates' = Put(duplicates, n, idx + 1)
           /\ name' = [name EXCEPT ![p] = IF idx = 0 THEN n ELSE Append(n, idx)]
      ELSE duplicates' = Put(duplicates, n, 0) /\ UNCHANGED name

\* Counts the first process of a name as a duplicate.
RenameLateFault(p) ==
  LET n == name[p]
      idx == DuplicateCount(n) + 1
  IN  IF Contains(n)
      THEN /\ duplicates' = Put(duplicates, n, idx)
           /\ name' = [name EXCEPT ![p] = Append(n, idx)]
      ELSE duplicates' = Put(duplicates, n, 1) /\ UNCHANGED name

\* rename_process; the numbered name is not looked up in turn.
RenameProcess(p) ==
  LET n == name[p]
      idx == DuplicateCount(n) + 1
  IN  IF Contains(n)
      THEN /\ duplicates' = Put(duplicates, n, idx)
           /\ name' = [name EXCEPT ![p] = Append(n, idx)]
      ELSE duplicates' = Put(duplicates, n, 0) /\ UNCHANGED name

\* Where emplace puts an entry of tick t: after those of the same tick.
Position(t) == 1 + Cardinality({i \in DOMAIN byTick : byTick[i].tick >= t})

\* A process finishes once, at a tick not before the last.
Insert(p, t) ==
  /\ p \notin inserted
  /\ \A i \in DOMAIN byTick : byTick[i].tick <= t
  /\ RenameProcess(p)
  /\ byName' = Put(byName, name'[p], p)
  /\ byTick' = Seqs!InsertAt(byTick, Position(t), [tick |-> t, proc |-> p])
  /\ inserted' = inserted \cup {p}

\* clear, and the new map of a new scheduler.
Clear ==
  /\ byName' = <<>>
  /\ byTick' = <<>>
  /\ duplicates' = <<>>
  /\ UNCHANGED <<name, inserted>>

Init ==
  /\ name = GivenName
  /\ held = {}
  /\ inserted = {}
  /\ byName = <<>>
  /\ byTick = <<>>
  /\ duplicates = <<>>

Next ==
  \/ Clear /\ UNCHANGED held
  \/ \E p \in Procs, t \in 1 .. MaxTick : Insert(p, t) /\ UNCHANGED held
  \/ \E p \in Procs : /\ held' = held \cup {p}
                      /\ UNCHANGED <<name, inserted, byName, byTick, duplicates>>

Spec == Init /\ [][Next]_vars

-----------------------------------------------------------------------------
(***************************************************************************)
(* Properties.                                                             *)
(***************************************************************************)

\* The processes inserted since the last clear.
Kept == {byTick[i].proc : i \in DOMAIN byTick}

\* The two maps hold processes that finished, one entry by tick for each, and
\* a count for each name seen.
TypeOK ==
  /\ name \in [Procs -> Seq(Nat)]
  /\ held \subseteq Procs
  /\ inserted \subseteq Procs
  /\ Kept \subseteq inserted
  /\ Len(byTick) = Cardinality(Kept)
  /\ \A n \in DOMAIN byName : byName[n] \in Kept
  /\ \A n \in DOMAIN duplicates : duplicates[n] \in 0 .. Cardinality(Kept)

\* src/finished_map.cpp:8 "ensure unique name if duplicates": whichever names
\* processes share and in whatever order they finish, none replaces another, and
\* each is found under the name it ends up with.  It takes that nobody was given
\* a numbered name: rename_process does not look up the name it makes, and "a_(1)"
\* would be replaced by the second "a".
FoundByName ==
  \A p \in Kept : Contains(name[p]) /\ byName[name[p]] = p

\* The processes given the name n are shown as n, n_(1), n_(2) and so on
\* without a gap, and the count is the last number.
NumberedInOrder ==
  \A n \in {GivenName[p] : p \in Kept} :
    {name[p] : p \in {q \in Kept : GivenName[q] = n}} =
      {n} \cup {Append(n, i) : i \in 1 .. duplicates[n]}

\* What snapshot() and ordered() list, by tick and through weak references, is
\* what size() counts and get_by_name finds.
ListedOnce == Cardinality(Ordered) = Size
=============================================================================
