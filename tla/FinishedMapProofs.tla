------------------------- MODULE FinishedMapProofs -------------------------
(***************************************************************************)
(* Proofs about module FinishedMap, for every set of processes, whatever   *)
(* plain names they share and in whatever order they finish.               *)
(***************************************************************************)
EXTENDS FinishedMap, FiniteSetTheorems, SequenceTheorems, TLAPS

\* Nobody was given a numbered name.
PlainNames == /\ GivenName \in [Procs -> Seq(Nat)]
              /\ \A p \in Procs : \E n \in Nat : GivenName[p] = <<n>>

Entry == [tick : Nat, proc : Procs]

TypeInv ==
  /\ name \in [Procs -> Seq(Nat)]
  /\ inserted \subseteq Procs
  /\ byTick \in Seq(Entry)
  /\ Kept \subseteq inserted
  /\ \A n \in DOMAIN duplicates : duplicates[n] \in Nat

\* Who has not finished has the name it was given.
NotYetRenamed == \A p \in Procs \ inserted : name[p] = GivenName[p]

\* A name in the map is one that was given and is counted, or was made from one
\* and has a number that was counted.
NamesCounted ==
  \A x \in DOMAIN byName :
    \/ \E m \in Nat : /\ x = <<m>>
                      /\ x \in DOMAIN duplicates
                      /\ \E q \in Kept : GivenName[q] = x
    \/ \E m \in Nat : /\ <<m>> \in DOMAIN byName
                      /\ \E i \in 1 .. duplicates[<<m>>] : x = <<m, i>>

\* A process in the map is under the name it has.
OwnName == \A n \in DOMAIN byName : byName[n] \in Kept /\ name[byName[n]] = n

NameInv == TypeInv /\ NotYetRenamed /\ NamesCounted /\ FoundByName /\ OwnName

-----------------------------------------------------------------------------
\* InsertAt adds the element and nothing else.
LEMMA InsertAtAdds ==
  ASSUME NEW S, NEW s \in Seq(S), NEW e \in S, NEW i \in 1 .. Len(s) + 1
  PROVE  LET t == Seqs!InsertAt(s, i, e)
         IN  /\ t \in Seq(S)
             /\ Len(t) = Len(s) + 1
             /\ \A j \in DOMAIN t : t[j] = e \/ \E n \in DOMAIN s : t[j] = s[n]
             /\ \A n \in DOMAIN s : \E j \in DOMAIN t : t[j] = s[n]
             /\ \E j \in DOMAIN t : t[j] = e
<1> DEFINE before == SubSeq(s, 1, i - 1)
           after == SubSeq(s, i, Len(s))
           t == (before \o <<e>>) \o after
<1>0. Seqs!InsertAt(s, i, e) = t
  BY DEF Seqs!InsertAt
<1>a. /\ before \in Seq(S) /\ Len(before) = i - 1
      /\ \A j \in 1 .. i - 1 : before[j] = s[j]
  BY SubSeqProperties, ElementOfSeq
<1>b. /\ after \in Seq(S) /\ Len(after) = Len(s) - i + 1
      /\ \A j \in 1 .. Len(s) - i + 1 : after[j] = s[i + j - 1]
  BY SubSeqProperties, ElementOfSeq
<1>c. <<e>> \in Seq(S) /\ Len(<<e>>) = 1 /\ <<e>>[1] = e
  OBVIOUS
<1> HIDE DEF before, after
<1>d. /\ before \o <<e>> \in Seq(S)
      /\ Len(before \o <<e>>) = i
      /\ \A j \in 1 .. i : (before \o <<e>>)[j] = IF j < i THEN s[j] ELSE e
  BY <1>a, <1>c, ConcatProperties
<1>1. t \in Seq(S) /\ Len(t) = Len(s) + 1
  BY <1>b, <1>d, ConcatProperties
<1>2. \A j \in 1 .. Len(t) :
        t[j] = IF j < i THEN s[j] ELSE IF j = i THEN e ELSE s[j - 1]
  <2> TAKE j \in 1 .. Len(t)
  <2>1. t[j] = IF j <= i THEN (before \o <<e>>)[j] ELSE after[j - i]
    BY <1>b, <1>d, <1>1, ConcatProperties
  <2>2. CASE j <= i
    BY <2>1, <2>2, <1>d
  <2>3. CASE j > i
    <3>1. j - i \in 1 .. Len(s) - i + 1 /\ i + (j - i) - 1 = j - 1
      BY <2>3, <1>1
    <3> QED BY <2>1, <2>3, <3>1, <1>b
  <2> QED BY <2>2, <2>3, <1>1
<1> HIDE DEF t
<1>3. DOMAIN t = 1 .. Len(s) + 1 /\ DOMAIN s = 1 .. Len(s)
  BY <1>1
<1>4. \A j \in DOMAIN t : t[j] = e \/ \E n \in DOMAIN s : t[j] = s[n]
  <2> TAKE j \in DOMAIN t
  <2>1. CASE j < i
    BY <2>1, <1>1, <1>2, <1>3
  <2>2. CASE j = i
    BY <2>2, <1>1, <1>2, <1>3
  <2>3. CASE j > i
    <3>1. j - 1 \in DOMAIN s /\ t[j] = s[j - 1]
      BY <2>3, <1>1, <1>2, <1>3
    <3> QED BY <3>1
  <2> QED BY <2>1, <2>2, <2>3, <1>3
<1>5. \A n \in DOMAIN s : \E j \in DOMAIN t : t[j] = s[n]
  <2> TAKE n \in DOMAIN s
  <2>1. CASE n < i
    BY <2>1, <1>1, <1>2, <1>3
  <2>2. CASE n >= i
    <3>1. n + 1 \in DOMAIN t /\ t[n + 1] = s[n]
      BY <2>2, <1>1, <1>2, <1>3
    <3> QED BY <3>1
  <2> QED BY <2>1, <2>2, <1>3
<1>6. t[i] = e /\ i \in DOMAIN t
  BY <1>1, <1>2, <1>3
<1> QED BY <1>0, <1>1, <1>4, <1>5, <1>6

\* Where an entry goes is a place in the list.
LEMMA PositionInList ==
  ASSUME byTick \in Seq(Entry), NEW t \in Nat
  PROVE  Position(t) \in 1 .. Len(byTick) + 1
<1> DEFINE Later == {i \in DOMAIN byTick : byTick[i].tick >= t}
<1>1. DOMAIN byTick = 1 .. Len(byTick) /\ Len(byTick) \in Nat
  OBVIOUS
<1>2. /\ IsFiniteSet(1 .. Len(byTick))
      /\ Cardinality(1 .. Len(byTick)) = Len(byTick)
  BY <1>1, FS_Interval
<1>3. Later \in SUBSET (1 .. Len(byTick))
  BY <1>1
<1>4. IsFiniteSet(Later) /\ Cardinality(Later) <= Len(byTick)
  BY <1>2, <1>3, FS_Subset
<1>5. Cardinality(Later) \in Nat
  BY <1>4, FS_CardinalityType
<1> QED BY <1>1, <1>4, <1>5 DEF Position

\* An insertion keeps one process more.
LEMMA InsertKeeps ==
  ASSUME TypeInv, NEW p \in Procs, NEW t \in Nat, Insert(p, t)
  PROVE  /\ byTick' \in Seq(Entry)
         /\ Len(byTick') = Len(byTick) + 1
         /\ Kept' = Kept \cup {p}
<1> DEFINE e == [tick |-> t, proc |-> p]
<1>1. e \in Entry
  BY DEF Entry
<1>2. Position(t) \in 1 .. Len(byTick) + 1
  BY PositionInList DEF TypeInv
<1>3. byTick' = Seqs!InsertAt(byTick, Position(t), e)
  BY DEF Insert
<1> HIDE DEF e
<1>4. /\ byTick' \in Seq(Entry)
      /\ Len(byTick') = Len(byTick) + 1
      /\ \A j \in DOMAIN byTick' :
           byTick'[j] = e \/ \E n \in DOMAIN byTick : byTick'[j] = byTick[n]
      /\ \A n \in DOMAIN byTick : \E j \in DOMAIN byTick' : byTick'[j] = byTick[n]
      /\ \E j \in DOMAIN byTick' : byTick'[j] = e
  <2>1. byTick \in Seq(Entry)
    BY DEF TypeInv
  <2> QED BY <2>1, <1>1, <1>2, <1>3, InsertAtAdds
<1>5. e.proc = p
  BY DEF e
<1> QED BY <1>4, <1>5 DEF Kept

\* The number goes behind the name.
LEMMA AppendNumber ==
  ASSUME NEW m \in Nat, NEW i \in Nat
  PROVE  Append(<<m>>, i) = <<m, i>> /\ <<m, i>> \in Seq(Nat)
<1>1. <<m>> \in Seq(Nat) /\ Len(<<m>>) = 1 /\ <<m>>[1] = m
  OBVIOUS
<1>2. <<m, i>> \in Seq(Nat) /\ Len(<<m, i>>) = 2
  OBVIOUS
<1>3. /\ Append(<<m>>, i) \in Seq(Nat)
      /\ Len(Append(<<m>>, i)) = 2
      /\ Append(<<m>>, i)[1] = m
      /\ Append(<<m>>, i)[2] = i
  BY <1>1, AppendProperties
<1>4. \A j \in 1 .. 2 : Append(<<m>>, i)[j] = <<m, i>>[j]
  BY <1>3
<1> QED BY <1>2, <1>3, <1>4, SeqEqual

\* Whoever finishes has a name no finished process has, and it is counted.
LEMMA InsertNames ==
  ASSUME PlainNames, NameInv, NEW p \in Procs, NEW t \in Nat, Insert(p, t)
  PROVE  /\ name'[p] \notin DOMAIN byName
         /\ name' \in [Procs -> Seq(Nat)]
         /\ \A q \in Procs \ {p} : name'[q] = name[q]
         /\ \A n \in DOMAIN duplicates' : duplicates'[n] \in Nat
         /\ NamesCounted'
<1>1. PICK m \in Nat : GivenName[p] = <<m>>
  BY DEF PlainNames
<1>2. p \notin inserted /\ name[p] = <<m>>
  BY <1>1 DEF Insert, NameInv, NotYetRenamed
<1>3. byName' = Put(byName, name'[p], p) /\ Kept' = Kept \cup {p}
  BY InsertKeeps DEF Insert, NameInv
<1>4. DOMAIN byName' = DOMAIN byName \cup {name'[p]}
  BY <1>3 DEF Put
<1>5. CASE ~Contains(<<m>>)
  <2>1. duplicates' = Put(duplicates, <<m>>, 0) /\ name' = name
    BY <1>2, <1>5 DEF Insert, RenameProcess
  <2>2. name'[p] \notin DOMAIN byName
    BY <1>2, <1>5, <2>1 DEF Contains
  <2>3. /\ name' \in [Procs -> Seq(Nat)]
        /\ \A q \in Procs \ {p} : name'[q] = name[q]
    BY <2>1 DEF NameInv, TypeInv
  <2>4. \A n \in DOMAIN duplicates' : duplicates'[n] \in Nat
    BY <2>1 DEF Put, NameInv, TypeInv
  <2>5. \A n \in DOMAIN byName \cap DOMAIN duplicates :
          n \in DOMAIN duplicates' /\ duplicates'[n] = duplicates[n]
    BY <1>5, <2>1 DEF Put, Contains
  <2>6. <<m>> \in DOMAIN duplicates'
    BY <2>1 DEF Put
  <2>7. ASSUME NEW x \in DOMAIN byName'
        PROVE  \/ \E k \in Nat : /\ x = <<k>>
                                 /\ x \in DOMAIN duplicates'
                                 /\ \E q \in Kept' : GivenName[q] = x
               \/ \E k \in Nat : /\ <<k>> \in DOMAIN byName'
                                 /\ \E i \in 1 .. duplicates'[<<k>>] : x = <<k, i>>
    <3>1. CASE x = name'[p]
      BY <3>1, <1>1, <1>2, <1>3, <2>1, <2>6
    <3>2. CASE x \in DOMAIN byName /\ \E k \in Nat : x = <<k>>
      BY <3>2, <1>3, <2>5 DEF NameInv, NamesCounted
    <3>3. CASE x \in DOMAIN byName /\ ~\E k \in Nat : x = <<k>>
      <4>1. PICK k \in Nat : /\ <<k>> \in DOMAIN byName
                             /\ \E i \in 1 .. duplicates[<<k>>] : x = <<k, i>>
        BY <3>3 DEF NameInv, NamesCounted
      <4>2. <<k>> \in DOMAIN duplicates
        BY <4>1 DEF NameInv, NamesCounted
      <4> QED BY <4>1, <4>2, <1>4, <2>5
    <3> QED BY <1>4, <3>1, <3>2, <3>3
  <2> QED BY <2>2, <2>3, <2>4, <2>7 DEF NamesCounted
<1>6. CASE Contains(<<m>>)
  <2>1. <<m>> \in DOMAIN byName /\ <<m>> \in DOMAIN duplicates
    BY <1>6 DEF Contains, NameInv, NamesCounted
  <2>2. PICK idx \in Nat : /\ idx = DuplicateCount(<<m>>) + 1
                           /\ idx = duplicates[<<m>>] + 1
                           /\ duplicates[<<m>>] \in Nat
    BY <2>1 DEF DuplicateCount, NameInv, TypeInv
  <2>3. /\ duplicates' = Put(duplicates, <<m>>, idx)
        /\ name' = [name EXCEPT ![p] = Append(<<m>>, idx)]
    BY <1>2, <1>6, <2>2 DEF Insert, RenameProcess
  <2>4. Append(<<m>>, idx) = <<m, idx>>
    BY AppendNumber
  <2>5. /\ name'[p] = <<m, idx>>
        /\ name' \in [Procs -> Seq(Nat)]
        /\ \A q \in Procs \ {p} : name'[q] = name[q]
    BY <2>3, <2>4, AppendNumber DEF NameInv, TypeInv
  <2>6. name'[p] \notin DOMAIN byName
    <3> SUFFICES ASSUME <<m, idx>> \in DOMAIN byName PROVE FALSE
      BY <2>5
    <3>1. PICK k \in Nat : \E i \in 1 .. duplicates[<<k>>] : <<m, idx>> = <<k, i>>
      BY <2>2 DEF NameInv, NamesCounted
    <3>2. idx \in 1 .. duplicates[<<m>>]
      BY <3>1
    <3> QED BY <3>2, <2>2
  <2>7. /\ DOMAIN duplicates' = DOMAIN duplicates
        /\ \A n \in DOMAIN duplicates :
             duplicates'[n] = IF n = <<m>> THEN idx ELSE duplicates[n]
    BY <2>1, <2>3 DEF Put
  <2>8. \A n \in DOMAIN duplicates : /\ duplicates'[n] \in Nat
                                     /\ duplicates'[n] >= duplicates[n]
    <3>1. \A n \in DOMAIN duplicates : duplicates[n] \in Nat
      BY DEF NameInv, TypeInv
    <3>2. idx \in Nat /\ idx >= duplicates[<<m>>]
      BY <2>2
    <3> QED BY <3>1, <3>2, <2>7
  <2>9. ASSUME NEW x \in DOMAIN byName'
        PROVE  \/ \E k \in Nat : /\ x = <<k>>
                                 /\ x \in DOMAIN duplicates'
                                 /\ \E q \in Kept' : GivenName[q] = x
               \/ \E k \in Nat : /\ <<k>> \in DOMAIN byName'
                                 /\ \E i \in 1 .. duplicates'[<<k>>] : x = <<k, i>>
    <3>1. CASE x = name'[p]
      <4>1. idx \in 1 .. duplicates'[<<m>>] /\ <<m>> \in DOMAIN byName'
        BY <1>4, <2>1, <2>2, <2>7
      <4> QED BY <3>1, <4>1, <2>5
    <3>2. CASE x \in DOMAIN byName /\ \E k \in Nat : x = <<k>>
      BY <3>2, <1>3, <2>7 DEF NameInv, NamesCounted
    <3>3. CASE x \in DOMAIN byName /\ ~\E k \in Nat : x = <<k>>
      <4>1. PICK k \in Nat : /\ <<k>> \in DOMAIN byName
                             /\ \E i \in 1 .. duplicates[<<k>>] : x = <<k, i>>
        BY <3>3 DEF NameInv, NamesCounted
      <4>2. <<k>> \in DOMAIN duplicates
        BY <4>1 DEF NameInv, NamesCounted
      <4>3. duplicates[<<k>>] \in Nat /\ duplicates'[<<k>>] \in Nat
            /\ duplicates'[<<k>>] >= duplicates[<<k>>]
        BY <4>2, <2>8 DEF NameInv, TypeInv
      <4>4. PICK i \in 1 .. duplicates[<<k>>] : x = <<k, i>>
        BY <4>1
      <4>5. i \in 1 .. duplicates'[<<k>>]
        BY <4>3, <4>4
      <4> QED BY <4>1, <4>4, <4>5, <1>4
    <3> QED BY <1>4, <3>1, <3>2, <3>3
  <2> QED BY <2>5, <2>6, <2>7, <2>8, <2>9 DEF NamesCounted
<1> QED BY <1>5, <1>6

LEMMA InsertNameInv ==
  ASSUME PlainNames, NameInv, NEW p \in Procs, NEW t \in Nat, Insert(p, t)
  PROVE  NameInv'
<1>1. /\ p \notin inserted
      /\ inserted' = inserted \cup {p}
      /\ byName' = Put(byName, name'[p], p)
  BY DEF Insert
<1>2. /\ byTick' \in Seq(Entry)
      /\ Kept' = Kept \cup {p}
  BY InsertKeeps DEF NameInv
<1>3. /\ name'[p] \notin DOMAIN byName
      /\ name' \in [Procs -> Seq(Nat)]
      /\ \A q \in Procs \ {p} : name'[q] = name[q]
      /\ \A n \in DOMAIN duplicates' : duplicates'[n] \in Nat
      /\ NamesCounted'
  BY InsertNames
<1>4. TypeInv'
  BY <1>1, <1>2, <1>3 DEF NameInv, TypeInv
<1>5. NotYetRenamed'
  BY <1>1, <1>3 DEF NameInv, NotYetRenamed
<1>6. FoundByName'
  <2> SUFFICES ASSUME NEW q \in Kept'
               PROVE  name'[q] \in DOMAIN byName' /\ byName'[name'[q]] = q
    BY DEF FoundByName, Contains
  <2>1. CASE q = p
    BY <2>1, <1>1 DEF Put
  <2>2. CASE q # p
    <3>1. q \in Kept /\ q \in Procs
      BY <2>2, <1>2 DEF NameInv, TypeInv
    <3>2. /\ name'[q] = name[q]
          /\ name[q] \in DOMAIN byName
          /\ byName[name[q]] = q
      BY <2>2, <3>1, <1>3 DEF NameInv, FoundByName, Contains
    <3> QED BY <3>2, <1>1, <1>3 DEF Put
  <2> QED BY <2>1, <2>2
<1>7. OwnName'
  <2>1. p \notin Kept
    BY <1>1 DEF NameInv, TypeInv
  <2>2. \A n \in DOMAIN byName :
          byName[n] \in Procs \ {p} /\ byName[n] \in Kept /\ name[byName[n]] = n
    BY <2>1 DEF NameInv, OwnName, TypeInv
  <2> QED BY <1>1, <1>2, <1>3, <2>2 DEF OwnName, Put
<1> QED BY <1>3, <1>4, <1>5, <1>6, <1>7 DEF NameInv

LEMMA ClearNameInv ==
  ASSUME NameInv, Clear
  PROVE  NameInv'
<1>1. byTick' = <<>> /\ byName' = <<>> /\ duplicates' = <<>>
  BY DEF Clear
<1>2. name' = name /\ inserted' = inserted
  BY DEF Clear
<1>3. Kept' = {}
  BY <1>1 DEF Kept
<1> QED BY <1>1, <1>2, <1>3
        DEF NameInv, TypeInv, NotYetRenamed, NamesCounted, FoundByName, OwnName

LEMMA InitNameInv ==
  ASSUME PlainNames, Init
  PROVE  NameInv
<1>1. byTick = <<>> /\ byName = <<>> /\ duplicates = <<>>
  BY DEF Init
<1>2. name = GivenName /\ inserted = {}
  BY DEF Init
<1>3. Kept = {}
  BY <1>1 DEF Kept
<1>4. TypeInv
  BY <1>1, <1>2, <1>3 DEF TypeInv, PlainNames
<1> QED BY <1>1, <1>2, <1>3, <1>4
        DEF NameInv, NotYetRenamed, NamesCounted, FoundByName, OwnName

LEMMA NextNameInv ==
  ASSUME PlainNames, NameInv, [Next]_vars
  PROVE  NameInv'
<1>1. CASE Clear
  BY <1>1, ClearNameInv
<1>2. CASE \E p \in Procs, t \in 1 .. MaxTick : Insert(p, t)
  <2>1. PICK p \in Procs, t \in 1 .. MaxTick : Insert(p, t)
    BY <1>2
  <2>2. t \in Nat
    OBVIOUS
  <2> QED BY <2>1, <2>2, InsertNameInv
<1>3. CASE UNCHANGED <<name, inserted, byName, byTick, duplicates>>
  BY <1>3 DEF NameInv, TypeInv, NotYetRenamed, NamesCounted, FoundByName,
              OwnName, Kept, Contains
<1> QED BY <1>1, <1>2, <1>3 DEF Next, vars

\* src/finished_map.cpp:8 "ensure unique name if duplicates": however many
\* processes share a plain name and in whatever order they finish, rename_process and
\* insert never let one replace another.
THEOREM FoundByNameCorrect ==
  ASSUME PlainNames
  PROVE  Spec => []FoundByName
<1>1. Init => NameInv
  BY InitNameInv
<1>2. NameInv /\ [Next]_vars => NameInv'
  BY NextNameInv
<1>3. NameInv => FoundByName
  BY DEF NameInv
<1> QED BY <1>1, <1>2, <1>3, PTL DEF Spec

-----------------------------------------------------------------------------
\* A process that was given a name and is kept means that somebody has the name.
LEMMA GivenIsContained ==
  ASSUME PlainNames, NameInv, NumberedInOrder, NEW q \in Kept
  PROVE  /\ GivenName[q] \in DOMAIN byName
         /\ GivenName[q] \in DOMAIN duplicates
<1>0. GivenName[q] \in {name[r] : r \in {o \in Kept : GivenName[o] = GivenName[q]}}
  BY DEF NumberedInOrder
<1>1. \E r \in Kept : name[r] = GivenName[q]
  BY <1>0
<1>2. GivenName[q] \in DOMAIN byName
  BY <1>1 DEF NameInv, FoundByName, Contains
<1>3. PICK k \in Nat : GivenName[q] = <<k>>
  BY DEF NameInv, TypeInv, PlainNames
<1>4. GivenName[q] \in DOMAIN duplicates
  BY <1>2, <1>3 DEF NameInv, NamesCounted
<1> QED BY <1>2, <1>4

LEMMA InsertNumbers ==
  ASSUME PlainNames, NameInv, NumberedInOrder,
         NEW p \in Procs, NEW t \in Nat, Insert(p, t)
  PROVE  NumberedInOrder'
<1> DEFINE Names(n) == {name[q] : q \in {r \in Kept : GivenName[r] = n}}
           NewNames(n) == {name'[q] : q \in {r \in Kept' : GivenName[r] = n}}
           Numbered(n, last) == {n} \cup {Append(n, i) : i \in 1 .. last}
<1>1. PICK m \in Nat : GivenName[p] = <<m>>
  BY DEF PlainNames
<1>2. p \notin inserted /\ name[p] = <<m>>
  BY <1>1 DEF Insert, NameInv, NotYetRenamed
<1>3. Kept' = Kept \cup {p} /\ Kept \subseteq Procs /\ p \notin Kept
  BY <1>2, InsertKeeps DEF NameInv, TypeInv
<1>4. \A q \in Procs \ {p} : name'[q] = name[q]
  BY InsertNames
<1>5. SUFFICES ASSUME NEW n \in {GivenName[q] : q \in Kept'}
               PROVE  NewNames(n) = Numbered(n, duplicates'[n])
  BY DEF NumberedInOrder
<1>6. \A q \in Kept : Names(GivenName[q]) =
                       Numbered(GivenName[q], duplicates[GivenName[q]])
  BY DEF NumberedInOrder
<1> HIDE DEF Names, NewNames, Numbered
<1>7. CASE n # <<m>>
  <2>1. n \in {GivenName[q] : q \in Kept}
    BY <1>1, <1>3, <1>7
  <2>2. NewNames(n) = Names(n)
    BY <1>1, <1>3, <1>4, <1>7 DEF Names, NewNames
  <2>3. n \in DOMAIN duplicates
    BY <2>1, GivenIsContained
  <2>4. duplicates'[n] = duplicates[n]
    BY <1>2, <1>7, <2>3 DEF Insert, RenameProcess, Put
  <2> QED BY <1>6, <2>1, <2>2, <2>4
<1>8. CASE n = <<m>> /\ ~Contains(<<m>>)
  <2>1. ~\E q \in Kept : GivenName[q] = n
    BY <1>8, GivenIsContained DEF Contains
  <2>2. NewNames(n) = {name'[p]}
    BY <1>1, <1>3, <1>8, <2>1 DEF NewNames
  <2>3. name'[p] = <<m>> /\ duplicates' = Put(duplicates, <<m>>, 0)
    BY <1>2, <1>8 DEF Insert, RenameProcess
  <2>4. duplicates'[n] = 0
    BY <1>8, <2>3 DEF Put
  <2>5. Numbered(n, 0) = {n}
    BY DEF Numbered
  <2> QED BY <1>8, <2>2, <2>3, <2>4, <2>5
<1>9. CASE n = <<m>> /\ Contains(<<m>>)
  <2>1. PICK r \in Kept : GivenName[r] = <<m>>
    BY <1>9 DEF NameInv, NamesCounted, Contains
  <2>2. <<m>> \in DOMAIN duplicates
    BY <2>1, GivenIsContained
  <2>3. PICK last \in Nat : last = duplicates[<<m>>]
    BY <2>2 DEF NameInv, TypeInv
  <2>4. Names(n) = Numbered(n, last)
    BY <1>6, <1>9, <2>1, <2>3
  <2>5. /\ duplicates' = Put(duplicates, <<m>>, last + 1)
        /\ name' = [name EXCEPT ![p] = Append(<<m>>, last + 1)]
    BY <1>2, <1>9, <2>2, <2>3 DEF Insert, RenameProcess, DuplicateCount
  <2>6. duplicates'[n] = last + 1 /\ name'[p] = Append(n, last + 1)
    BY <1>9, <2>5 DEF Put, NameInv, TypeInv
  <2>7. NewNames(n) = Names(n) \cup {name'[p]}
    BY <1>1, <1>3, <1>4, <1>9 DEF Names, NewNames
  <2>8. 1 .. last + 1 = (1 .. last) \cup {last + 1}
    OBVIOUS
  <2>9. Numbered(n, last + 1) = Numbered(n, last) \cup {Append(n, last + 1)}
    BY <2>8 DEF Numbered
  <2> QED BY <2>4, <2>6, <2>7, <2>9
<1> QED BY <1>7, <1>8, <1>9

\* The processes of a name are shown as the name and the numbers 1, 2, 3 ... behind
\* it, without a gap and whatever order they finish in.
THEOREM NumberedInOrderCorrect ==
  ASSUME PlainNames
  PROVE  Spec => []NumberedInOrder
<1>1. Init => NameInv /\ NumberedInOrder
  <2> SUFFICES ASSUME Init PROVE NameInv /\ NumberedInOrder
    OBVIOUS
  <2>1. Kept = {}
    BY DEF Init, Kept
  <2> QED BY <2>1, InitNameInv DEF NumberedInOrder
<1>2. NameInv /\ NumberedInOrder /\ [Next]_vars => NameInv' /\ NumberedInOrder'
  <2> SUFFICES ASSUME NameInv, NumberedInOrder, [Next]_vars
               PROVE  NumberedInOrder'
    BY NextNameInv
  <2>1. CASE Clear
    <3>1. Kept' = {}
      BY <2>1 DEF Clear, Kept
    <3> QED BY <3>1 DEF NumberedInOrder
  <2>2. CASE \E p \in Procs, t \in 1 .. MaxTick : Insert(p, t)
    <3>1. PICK p \in Procs, t \in 1 .. MaxTick : Insert(p, t)
      BY <2>2
    <3>2. t \in Nat
      OBVIOUS
    <3> QED BY <3>1, <3>2, InsertNumbers
  <2>3. CASE UNCHANGED <<name, inserted, byName, byTick, duplicates>>
    <3>1. Kept' = Kept /\ name' = name /\ duplicates' = duplicates
      BY <2>3 DEF Kept
    <3> QED BY <3>1 DEF NumberedInOrder
  <2> QED BY <2>1, <2>2, <2>3 DEF Next, vars
<1> QED BY <1>1, <1>2, PTL DEF Spec

-----------------------------------------------------------------------------
LEMMA InsertType ==
  ASSUME TypeInv, TypeOK, IsFiniteSet(Kept),
         NEW p \in Procs, NEW t \in Nat, Insert(p, t), UNCHANGED held
  PROVE  TypeInv' /\ TypeOK' /\ IsFiniteSet(Kept')
<1>1. /\ p \notin inserted
      /\ inserted' = inserted \cup {p}
      /\ byName' = Put(byName, name'[p], p)
  BY DEF Insert
<1>2. /\ byTick' \in Seq(Entry)
      /\ Len(byTick') = Len(byTick) + 1
      /\ Kept' = Kept \cup {p}
  BY InsertKeeps
<1>3. p \notin Kept
  BY <1>1 DEF TypeInv
<1>4. Cardinality(Kept) \in Nat
  BY FS_CardinalityType
<1>5. /\ IsFiniteSet(Kept')
      /\ Cardinality(Kept') = Cardinality(Kept) + 1
  BY <1>2, <1>3, FS_AddElement
<1>6. PICK idx \in Nat : /\ idx = DuplicateCount(name[p]) + 1
                         /\ idx <= Cardinality(Kept) + 1
  BY <1>4 DEF DuplicateCount, TypeOK
<1>7. name' \in [Procs -> Seq(Nat)]
  <2>1. name[p] \in Seq(Nat)
    BY DEF TypeInv
  <2>2. Append(name[p], idx) \in Seq(Nat)
    BY <2>1, <1>6, AppendProperties
  <2>3. name' = name \/ name' = [name EXCEPT ![p] = Append(name[p], idx)]
    BY <1>6 DEF Insert, RenameProcess
  <2> QED BY <2>2, <2>3 DEF TypeInv
<1>8. \E n \in {0, idx} : duplicates' = Put(duplicates, name[p], n)
  BY <1>6 DEF Insert, RenameProcess
<1>9. \A n \in DOMAIN duplicates' : duplicates'[n] \in 0 .. Cardinality(Kept')
  <2>1. \A n \in DOMAIN duplicates : duplicates[n] \in 0 .. Cardinality(Kept)
    BY DEF TypeOK
  <2> QED BY <2>1, <1>4, <1>5, <1>6, <1>8 DEF Put
<1>10. \A n \in DOMAIN byName' : byName'[n] \in Kept'
  BY <1>1, <1>2 DEF Put, TypeOK
<1>11. TypeInv'
  BY <1>1, <1>2, <1>4, <1>5, <1>7, <1>9 DEF TypeInv
<1>12. Len(byTick') = Cardinality(Kept')
  BY <1>2, <1>5 DEF TypeOK
<1>13. TypeOK'
  BY <1>1, <1>7, <1>9, <1>10, <1>11, <1>12 DEF TypeOK, TypeInv
<1> QED BY <1>5, <1>11, <1>13

\* The maps hold processes that finished, the list by tick holds each once, and no
\* count exceeds their number, whatever names the processes are given.
THEOREM FinishedTypeCorrect ==
  ASSUME GivenName \in [Procs -> Seq(Nat)]
  PROVE  Spec => []TypeOK
<1> DEFINE Inv == TypeInv /\ TypeOK /\ IsFiniteSet(Kept)
<1>1. Init => Inv
  <2> SUFFICES ASSUME Init PROVE Inv
    OBVIOUS
  <2>1. /\ byTick = <<>> /\ byName = <<>> /\ duplicates = <<>>
        /\ name = GivenName /\ inserted = {} /\ held = {}
    BY DEF Init
  <2>2. Kept = {} /\ IsFiniteSet({}) /\ Cardinality({}) = 0
    BY <2>1, FS_EmptySet DEF Kept
  <2> QED BY <2>1, <2>2 DEF TypeInv, TypeOK
<1>2. Inv /\ [Next]_vars => Inv'
  <2> SUFFICES ASSUME Inv, [Next]_vars PROVE Inv'
    OBVIOUS
  <2>1. CASE Clear /\ UNCHANGED held
    <3>1. /\ byTick' = <<>> /\ byName' = <<>> /\ duplicates' = <<>>
          /\ name' = name /\ inserted' = inserted /\ held' = held
      BY <2>1 DEF Clear
    <3>2. Kept' = {} /\ IsFiniteSet({}) /\ Cardinality({}) = 0
      BY <3>1, FS_EmptySet DEF Kept
    <3> QED BY <3>1, <3>2 DEF TypeInv, TypeOK
  <2>2. CASE \E p \in Procs, t \in 1 .. MaxTick : Insert(p, t) /\ UNCHANGED held
    <3>1. PICK p \in Procs, t \in 1 .. MaxTick : Insert(p, t) /\ UNCHANGED held
      BY <2>2
    <3>2. t \in Nat
      OBVIOUS
    <3> QED BY <3>1, <3>2, InsertType
  <2>3. CASE /\ UNCHANGED <<name, inserted, byName, byTick, duplicates>>
             /\ held' \subseteq Procs
    <3>1. Kept' = Kept /\ Len(byTick') = Len(byTick)
      BY <2>3 DEF Kept
    <3> QED BY <2>3, <3>1 DEF TypeInv, TypeOK
  <2>4. held \subseteq Procs
    BY DEF TypeOK
  <2>5. CASE \E p \in Procs : /\ held' = held \cup {p}
                             /\ UNCHANGED <<name, inserted, byName, byTick,
                                            duplicates>>
    BY <2>3, <2>4, <2>5
  <2>6. CASE UNCHANGED vars
    BY <2>3, <2>4, <2>6 DEF vars
  <2> QED BY <2>1, <2>2, <2>5, <2>6 DEF Next
<1>3. Inv => TypeOK
  OBVIOUS
<1> QED BY <1>1, <1>2, <1>3, PTL DEF Spec

-----------------------------------------------------------------------------
\* What snapshot() and ordered() list is what size() counts: no entry by tick is
\* left without its process, and no two processes share a name in the map.
THEOREM ListedOnceCorrect ==
  ASSUME PlainNames
  PROVE  Spec => []ListedOnce
<1>1. NameInv /\ TypeOK => ListedOnce
  <2> SUFFICES ASSUME NameInv, TypeOK PROVE ListedOnce
    OBVIOUS
  <2>1. byTick \in Seq(Entry) /\ DOMAIN byTick = 1 .. Len(byTick) /\ Len(byTick) \in Nat
    BY DEF NameInv, TypeInv
  <2>2. \A i \in DOMAIN byTick : Alive(byTick[i].proc)
    BY DEF NameInv, FoundByName, Contains, Kept, Alive
  <2>3. Ordered = 1 .. Len(byTick)
    BY <2>1, <2>2 DEF Ordered
  <2>4. IsFiniteSet(Ordered) /\ Cardinality(Ordered) = Len(byTick)
    BY <2>1, <2>3, FS_Interval
  <2>5. Cardinality(Ordered) = Cardinality(Kept)
    BY <2>4 DEF TypeOK
  <2>6. IsFiniteSet(Kept)
    <3> DEFINE proc == [i \in 1 .. Len(byTick) |-> byTick[i].proc]
    <3>1. proc \in Surjection(1 .. Len(byTick), Kept)
      BY <2>1 DEF Kept, Surjection
    <3>2. IsFiniteSet(1 .. Len(byTick))
      BY <2>3, <2>4
    <3> HIDE DEF proc
    <3> QED BY <3>1, <3>2, FS_Surjection
  <2>7. ExistsBijection(Kept, DOMAIN byName)
    <3> DEFINE own == [p \in Kept |-> name[p]]
    <3>1. \A p \in Kept : name[p] \in DOMAIN byName /\ byName[name[p]] = p
      BY DEF NameInv, FoundByName, Contains
    <3>2. \A n \in DOMAIN byName : byName[n] \in Kept /\ name[byName[n]] = n
      BY DEF NameInv, OwnName
    <3>3. own \in Bijection(Kept, DOMAIN byName)
      BY <3>1, <3>2 DEF Bijection, Injection, IsInjective, Surjection
    <3> QED BY <3>3 DEF ExistsBijection
  <2> QED BY <2>5, <2>6, <2>7, FS_Bijection DEF ListedOnce, Size
<1>2. PlainNames => GivenName \in [Procs -> Seq(Nat)]
  BY DEF PlainNames
<1>3. Spec => []TypeOK
  BY <1>2, FinishedTypeCorrect
<1>4. Init => NameInv
  BY InitNameInv
<1>5. NameInv /\ [Next]_vars => NameInv'
  BY NextNameInv
<1> QED BY <1>1, <1>3, <1>4, <1>5, PTL DEF Spec

=============================================================================
