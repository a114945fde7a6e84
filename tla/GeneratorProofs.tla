--------------------------- MODULE GeneratorProofs --------------------------
(***************************************************************************)
(* Proofs about ProcessGenerator: whatever the file, the budget and the    *)
(* depth of nesting, the last line of a key decides, and the estimate of   *)
(* a program's size is the size it has after unrolling.                    *)
(*                                                                         *)
(* Every recursion of the module is a function over an interval of natural *)
(* numbers.  Each is first shown to exist and to unfold, by induction over *)
(* a set of numbers.                                                       *)
(***************************************************************************)
EXTENDS ProcessGenerator, SequenceTheorems, WellFoundedInduction, TLAPS

-----------------------------------------------------------------------------
(***************************************************************************)
(* Induction.                                                              *)
(***************************************************************************)
LEMMA LeastNumber ==
  ASSUME NEW T, T \subseteq Nat, T # {}
  PROVE  \E x \in T : \A y \in T : ~(y < x)
<1>1. IsWellFoundedOn(OpToRel(<, Nat), Nat)
  BY NatLessThanWellFounded
<1>2. \E x \in T : \A y \in T : ~(<<y, x>> \in OpToRel(<, Nat))
  <2> HIDE DEF OpToRel
  <2> QED
    BY <1>1, WFMin
<1>3. \A x, y \in T : y < x => <<y, x>> \in OpToRel(<, Nat)
  BY DEF OpToRel
<1> QED
  BY <1>2, <1>3

LEMMA SetInduction ==
  ASSUME NEW S, 0 \in S, \A n \in Nat : n \in S => n + 1 \in S
  PROVE  Nat \subseteq S
<1> SUFFICES ASSUME Nat \ S # {} PROVE FALSE
  OBVIOUS
<1>1. PICK x \in Nat \ S : \A y \in Nat \ S : ~(y < x)
  BY LeastNumber
<1>2. x # 0 /\ x - 1 \in Nat /\ x - 1 < x
  BY <1>1
<1>3. x - 1 \in S
  BY <1>1, <1>2
<1> QED
  BY <1>1, <1>2, <1>3

-----------------------------------------------------------------------------
(***************************************************************************)
(* Reading a configuration.                                                *)
(***************************************************************************)
LEMMA ReadUnfolds ==
  ASSUME NEW c, NEW pairs, Len(pairs) \in Nat
  PROVE  \E f : /\ f[0] = c
                /\ \A n \in 1 .. Len(pairs) : f[n] = Set(f[n - 1], pairs[n])
                /\ Read(c, pairs) = f[Len(pairs)]
<1> DEFINE Unfolded(f, k) ==
             f = [n \in 0 .. k |-> IF n = 0 THEN c ELSE Set(f[n - 1], pairs[n])]
           S == {k \in Nat : \E f : Unfolded(f, k)}
<1>1. 0 \in S
  <2>1. Unfolded([n \in 0 .. 0 |-> c], 0)
    OBVIOUS
  <2> QED
    BY <2>1
<1>2. ASSUME NEW k \in Nat, k \in S PROVE k + 1 \in S
  <2>1. PICK f : Unfolded(f, k)
    BY <1>2
  <2> DEFINE g == [n \in 0 .. k + 1 |->
                     IF n = k + 1 THEN Set(f[k], pairs[k + 1]) ELSE f[n]]
  <2>2. \A n \in 0 .. k + 1 : g[n] = IF n = 0 THEN c ELSE Set(g[n - 1], pairs[n])
    BY <2>1
  <2>3. \E h : Unfolded(h, k + 1)
    <3>1. Unfolded(g, k + 1)
      BY <2>2
    <3> HIDE DEF g, Unfolded
    <3> QED
      BY <3>1
  <2> HIDE DEF g, Unfolded
  <2> QED
    BY <2>3
<1>3. Nat \subseteq S
  <2> HIDE DEF S
  <2> QED
    BY <1>1, <1>2, SetInduction
<1> DEFINE N == Len(pairs)
           d == CHOOSE f : Unfolded(f, N)
<1>4. Unfolded(d, N)
  BY <1>3
<1>5. Read(c, pairs) = d[N]
  BY DEF Read
<1> HIDE DEF d
<1>6. d[0] = c /\ \A n \in 1 .. N : d[n] = Set(d[n - 1], pairs[n])
  BY <1>4
<1> QED
  BY <1>5, <1>6

\* A field holds what the last of the pairs that name its key says, or what it held.
Decided(v, c, field, pairs, k) ==
  \/ v = c /\ \A j \in 1 .. k : pairs[j][1] # Key[field]
  \/ \E j \in 1 .. k : /\ pairs[j][1] = Key[field]
                       /\ v = Value(field, pairs[j][2])
                       /\ \A i \in j + 1 .. k : pairs[i][1] # Key[field]

LEMMA ReadDecides ==
  ASSUME NEW c, DOMAIN Key \subseteq DOMAIN c, NEW pairs, Len(pairs) \in Nat
  PROVE  /\ DOMAIN Read(c, pairs) = DOMAIN c
         /\ \A field \in DOMAIN c \ DOMAIN Key : Read(c, pairs)[field] = c[field]
         /\ \A field \in DOMAIN Key :
              Decided(Read(c, pairs)[field], c[field], field, pairs, Len(pairs))
<1> DEFINE N == Len(pairs)
<1>1. PICK f : /\ f[0] = c
               /\ \A n \in 1 .. N : f[n] = Set(f[n - 1], pairs[n])
               /\ Read(c, pairs) = f[N]
  BY ReadUnfolds
<1> DEFINE Good(k) == /\ DOMAIN f[k] = DOMAIN c
                      /\ \A field \in DOMAIN c \ DOMAIN Key : f[k][field] = c[field]
                      /\ \A field \in DOMAIN Key :
                           Decided(f[k][field], c[field], field, pairs, k)
           S == {k \in Nat : k <= N => Good(k)}
<1>2. 0 \in S
  BY <1>1 DEF Decided
<1>3. ASSUME NEW k \in Nat, k \in S PROVE k + 1 \in S
  <2> SUFFICES ASSUME k + 1 <= N PROVE Good(k + 1)
    OBVIOUS
  <2>1. Good(k)
    BY <1>3
  <2> DEFINE a == f[k]
             b == f[k + 1]
             p == pairs[k + 1]
  <2>2. b = Set(a, p)
    <3>1. k + 1 \in 1 .. N /\ (k + 1) - 1 = k
      OBVIOUS
    <3> QED
      BY <1>1, <3>1
  <2>3. /\ DOMAIN a = DOMAIN c
        /\ \A field \in DOMAIN c \ DOMAIN Key : a[field] = c[field]
        /\ \A field \in DOMAIN Key :
             Decided(a[field], c[field], field, pairs, k)
    BY <2>1
  <2> HIDE DEF a, b
  <2>4. /\ DOMAIN b = DOMAIN a
        /\ \A field \in DOMAIN a : b[field] =
             IF field \in DOMAIN Key /\ p[1] = Key[field] THEN Value(field, p[2])
             ELSE a[field]
    <3> HIDE DEF p
    <3> QED
      BY <2>2 DEF Set
  <2>5. \A field \in DOMAIN c \ DOMAIN Key : b[field] = c[field]
    <3> HIDE DEF p
    <3> QED
      BY <2>3, <2>4
  <2>6. ASSUME NEW field \in DOMAIN Key
        PROVE  Decided(b[field], c[field], field, pairs, k + 1)
    <3>1. Decided(a[field], c[field], field, pairs, k)
      BY <2>3
    <3>2. field \in DOMAIN a
      BY <2>3
    <3>3. CASE p[1] = Key[field]
      <4>1. b[field] = Value(field, p[2])
        BY <2>4, <3>2, <3>3
      <4>2. k + 1 \in 1 .. k + 1 /\ \A i \in k + 1 + 1 .. k + 1 : FALSE
        OBVIOUS
      <4> QED
        BY <3>3, <4>1, <4>2 DEF Decided
    <3>4. CASE p[1] # Key[field]
      <4>1. b[field] = a[field]
        BY <2>4, <3>2, <3>4
      <4>2. \A j \in 1 .. k + 1 : j \in 1 .. k \/ j = k + 1
        OBVIOUS
      <4>3. ASSUME a[field] = c[field], \A j \in 1 .. k : pairs[j][1] # Key[field]
            PROVE  Decided(b[field], c[field], field, pairs, k + 1)
        BY <3>4, <4>1, <4>2, <4>3 DEF Decided
      <4>4. ASSUME NEW j \in 1 .. k, pairs[j][1] = Key[field],
                   a[field] = Value(field, pairs[j][2]),
                   \A i \in j + 1 .. k : pairs[i][1] # Key[field]
            PROVE  Decided(b[field], c[field], field, pairs, k + 1)
        <5>1. j \in 1 .. k + 1
          OBVIOUS
        <5>2. \A i \in j + 1 .. k + 1 : i \in j + 1 .. k \/ i = k + 1
          OBVIOUS
        <5>3. \A i \in j + 1 .. k + 1 : pairs[i][1] # Key[field]
          BY <3>4, <4>4, <5>2
        <5> QED
          BY <4>1, <4>4, <5>1, <5>3 DEF Decided
      <4> QED
        BY <3>1, <4>3, <4>4 DEF Decided
    <3> QED
      BY <3>3, <3>4
  <2>7. Good(k + 1)
    BY <2>3, <2>4, <2>5, <2>6 DEF a, b
  <2> QED
    BY <2>7
<1>4. Nat \subseteq S
  <2> HIDE DEF S
  <2> QED
    BY <1>2, <1>3, SetInduction
<1>5. Good(N)
  BY <1>4
<1> HIDE DEF Good
<1> QED
  BY <1>1, <1>5 DEF Good

LEMMA PairsType ==
  ASSUME NEW f \in Seq(STRING)
  PROVE  /\ Len(Pairs(f)) \in Nat
         /\ \A j \in 1 .. Len(Pairs(f)) :
              /\ 2 * j - 1 \in 1 .. Len(f) - 1 /\ (2 * j - 1) % 2 = 1
              /\ Pairs(f)[j][1] = f[2 * j - 1] /\ Pairs(f)[j][2] = f[2 * j]
         /\ \A i \in 1 .. Len(f) - 1 :
              i % 2 = 1 => \E j \in 1 .. Len(Pairs(f)) : i = 2 * j - 1
<1> DEFINE L == Len(f)
           N == L \div 2
<1>1. L \in Nat /\ N \in Nat /\ 2 * N <= L /\ L <= 2 * N + 1
  <2>1. L \in Nat
    OBVIOUS
  <2> QED
    BY <2>1, SMT
<1>2. Len(Pairs(f)) = N /\ \A j \in 1 .. N : Pairs(f)[j] = <<f[2 * j - 1], f[2 * j]>>
  BY <1>1 DEF Pairs
<1> HIDE DEF L, N
<1>3. \A j \in 1 .. N : 2 * j - 1 \in 1 .. L - 1 /\ (2 * j - 1) % 2 = 1
  BY <1>1, SMT
<1>4. \A j \in 1 .. N : Pairs(f)[j][1] = f[2 * j - 1] /\ Pairs(f)[j][2] = f[2 * j]
  BY <1>2
<1>5. ASSUME NEW i \in 1 .. L - 1, i % 2 = 1
      PROVE  \E j \in 1 .. N : i = 2 * j - 1
  <2> DEFINE j == (i + 1) \div 2
  <2>1. j \in Int /\ i = 2 * j - 1
    BY <1>1, <1>5, SMT
  <2> HIDE DEF j
  <2>2. j \in 1 .. N
    BY <1>1, <1>5, <2>1, SMT
  <2> QED
    BY <2>1, <2>2
<1> QED
  BY <1>2, <1>1, <1>3, <1>4, <1>5 DEF L

\* LastLineDecides, of a file and what is read from it.
LastLine(f, c) ==
  \A field \in DOMAIN Key :
    LET lines == {i \in 1 .. Len(f) - 1 : i % 2 = 1 /\ f[i] = Key[field]}
    IN  IF lines = {} THEN c[field] = Defaults[field]
        ELSE \E i \in lines : /\ \A j \in lines : j <= i
                              /\ c[field] = Value(field, f[i + 1])

LEMMA LoadDecides ==
  ASSUME NEW f \in Seq(STRING)
  PROVE  /\ DOMAIN LoadConfig(f) = DOMAIN Defaults
         /\ \A field \in DOMAIN Defaults \ DOMAIN Key :
              LoadConfig(f)[field] = Defaults[field]
         /\ LastLine(f, LoadConfig(f))
<1> DEFINE c == LoadConfig(f)
           pairs == Pairs(f)
           N == Len(pairs)
<1>1. /\ DOMAIN c = DOMAIN Defaults
      /\ \A field \in DOMAIN Defaults \ DOMAIN Key : c[field] = Defaults[field]
      /\ \A field \in DOMAIN Key : Decided(c[field], Defaults[field], field, pairs, N)
  BY PairsType, ReadDecides, DefaultsAssumption DEF LoadConfig, DefaultsAssumption
<1>2. /\ N \in Nat
      /\ \A j \in 1 .. N : /\ 2 * j - 1 \in 1 .. Len(f) - 1 /\ (2 * j - 1) % 2 = 1
                           /\ pairs[j][1] = f[2 * j - 1] /\ pairs[j][2] = f[2 * j]
      /\ \A i \in 1 .. Len(f) - 1 : i % 2 = 1 => \E j \in 1 .. N : i = 2 * j - 1
  BY PairsType
<1> HIDE DEF c, pairs, N
<1>3. ASSUME NEW field \in DOMAIN Key
      PROVE  LET lines == {i \in 1 .. Len(f) - 1 : i % 2 = 1 /\ f[i] = Key[field]}
             IN  IF lines = {} THEN c[field] = Defaults[field]
                 ELSE \E i \in lines : /\ \A j \in lines : j <= i
                                       /\ c[field] = Value(field, f[i + 1])
  <2> DEFINE lines == {i \in 1 .. Len(f) - 1 : i % 2 = 1 /\ f[i] = Key[field]}
  <2>1. \A i \in lines : \E j \in 1 .. N : i = 2 * j - 1 /\ pairs[j][1] = Key[field]
    BY <1>2
  <2>2. \A j \in 1 .. N : pairs[j][1] = Key[field] => 2 * j - 1 \in lines
    BY <1>2
  <2> HIDE DEF lines
  <2>3. CASE c[field] = Defaults[field] /\ \A j \in 1 .. N : pairs[j][1] # Key[field]
    <3>1. lines = {}
      BY <2>1, <2>3
    <3> QED
      BY <2>3, <3>1 DEF lines
  <2>4. ASSUME NEW j \in 1 .. N, pairs[j][1] = Key[field],
               c[field] = Value(field, pairs[j][2]),
               \A i \in j + 1 .. N : pairs[i][1] # Key[field]
        PROVE  IF lines = {} THEN c[field] = Defaults[field]
               ELSE \E i \in lines : /\ \A k \in lines : k <= i
                                     /\ c[field] = Value(field, f[i + 1])
    <3> DEFINE i == 2 * j - 1
    <3>1. i \in lines
      BY <2>2, <2>4
    <3>2. c[field] = Value(field, f[i + 1])
      <4>1. i + 1 = 2 * j
        OBVIOUS
      <4> QED
        BY <1>2, <2>4, <4>1
    <3>3. ASSUME NEW k \in lines PROVE k <= i
      <4>1. PICK l \in 1 .. N : k = 2 * l - 1 /\ pairs[l][1] = Key[field]
        BY <2>1
      <4>2. ~(l \in j + 1 .. N)
        BY <2>4, <4>1
      <4>3. l <= j
        BY <1>2, <4>2
      <4> QED
        BY <4>1, <4>3
    <3> HIDE DEF i
    <3> QED
      BY <3>1, <3>2, <3>3
  <2>5. IF lines = {} THEN c[field] = Defaults[field]
        ELSE \E i \in lines : /\ \A k \in lines : k <= i
                              /\ c[field] = Value(field, f[i + 1])
    BY <1>1, <2>3, <2>4 DEF Decided, lines
  <2> QED
    BY <2>5 DEF lines
<1>4. LastLine(f, c)
  BY <1>3 DEF LastLine
<1> QED
  BY <1>1, <1>4 DEF c

\* What is read from a file that load_config does not throw at.
LEMMA LoadType ==
  ASSUME NEW f \in Seq(STRING), ~Throws(f)
  PROVE  \A field \in DOMAIN Key \ {"scheduler"} :
           LoadConfig(f)[field] \in 0 .. Width - 1
<1> SUFFICES ASSUME NEW field \in DOMAIN Key, field # "scheduler"
             PROVE  LoadConfig(f)[field] \in 0 .. Width - 1
  OBVIOUS
<1> DEFINE c == LoadConfig(f)
           pairs == Pairs(f)
           N == Len(pairs)
<1>1. Decided(c[field], Defaults[field], field, pairs, N)
  BY PairsType, ReadDecides, DefaultsAssumption DEF LoadConfig, DefaultsAssumption
<1>2. Defaults[field] \in 0 .. Width - 1
  BY DefaultsAssumption DEF DefaultsAssumption
<1>3. N \in Nat /\ DOMAIN pairs = 1 .. N
  BY PairsType DEF Pairs
<1>4. ASSUME NEW j \in 1 .. N, pairs[j][1] = Key[field],
             c[field] = Value(field, pairs[j][2])
      PROVE  c[field] \in 0 .. Width - 1
  <2>1. pairs[j][2] \in DOMAIN Stoul
    <3> HIDE DEF pairs, N
    <3>1. field \in DOMAIN Key \ {"scheduler"} /\ j \in DOMAIN pairs
      BY <1>3
    <3>2. \A i \in DOMAIN pairs, d \in DOMAIN Key \ {"scheduler"} :
            ~(pairs[i][1] = Key[d] /\ pairs[i][2] \notin DOMAIN Stoul)
      BY DEF Throws, pairs
    <3> QED
      BY <1>4, <3>1, <3>2
  <2>2. Stoul[pairs[j][2]] \in Int
    BY <2>1, StoulAssumption DEF StoulAssumption
  <2> DEFINE n == Stoul[pairs[j][2]]
  <2>3. c[field] = n % Width
    BY <1>4 DEF Value
  <2> HIDE DEF n
  <2>4. n \in Int /\ Width \in Nat \ {0}
    BY <2>2, WidthAssumption DEF WidthAssumption, n
  <2>5. n % Width \in 0 .. Width - 1
    BY <2>4, SMT
  <2> QED
    BY <2>3, <2>5
<1> HIDE DEF c, pairs, N
<1> QED
  BY <1>1, <1>2, <1>4 DEF Decided, c

-----------------------------------------------------------------------------
(***************************************************************************)
(* Sums and concatenations.                                                *)
(***************************************************************************)
\* The sums of a sequence's beginnings.
Totals(f, numbers) ==
  f[0] = 0 /\ \A n \in 1 .. Len(numbers) : f[n] = f[n - 1] + numbers[n]

LEMMA SumUnfolds ==
  ASSUME NEW numbers, Len(numbers) \in Nat
  PROVE  \E f : Totals(f, numbers) /\ Sum(numbers) = f[Len(numbers)]
<1> DEFINE Unfolded(f, k) ==
             f = [n \in 0 .. k |-> IF n = 0 THEN 0 ELSE f[n - 1] + numbers[n]]
           S == {k \in Nat : \E f : Unfolded(f, k)}
<1>1. 0 \in S
  <2>1. Unfolded([n \in 0 .. 0 |-> 0], 0)
    OBVIOUS
  <2> QED
    BY <2>1
<1>2. ASSUME NEW k \in Nat, k \in S PROVE k + 1 \in S
  <2>1. PICK f : Unfolded(f, k)
    BY <1>2
  <2> DEFINE g == [n \in 0 .. k + 1 |->
                     IF n = k + 1 THEN f[k] + numbers[k + 1] ELSE f[n]]
  <2>2. \A n \in 0 .. k + 1 : g[n] = IF n = 0 THEN 0 ELSE g[n - 1] + numbers[n]
    BY <2>1
  <2>3. \E h : Unfolded(h, k + 1)
    <3>1. Unfolded(g, k + 1)
      BY <2>2
    <3> HIDE DEF g, Unfolded
    <3> QED
      BY <3>1
  <2> HIDE DEF g, Unfolded
  <2> QED
    BY <2>3
<1>3. Nat \subseteq S
  <2> HIDE DEF S
  <2> QED
    BY <1>1, <1>2, SetInduction
<1> DEFINE N == Len(numbers)
           d == CHOOSE f : Unfolded(f, N)
<1>4. Unfolded(d, N)
  BY <1>3
<1>5. Sum(numbers) = d[N]
  BY DEF Sum
<1> HIDE DEF d
<1>6. d[0] = 0 /\ \A n \in 1 .. N : d[n] = d[n - 1] + numbers[n]
  BY <1>4
<1> QED
  BY <1>5, <1>6 DEF Totals

LEMMA TotalsType ==
  ASSUME NEW numbers, Len(numbers) \in Nat,
         \A n \in 1 .. Len(numbers) : numbers[n] \in Nat,
         NEW f, Totals(f, numbers)
  PROVE  \A n \in 0 .. Len(numbers) : f[n] \in Nat
<1> DEFINE N == Len(numbers)
           S == {k \in Nat : k <= N => f[k] \in Nat}
<1>1. 0 \in S
  BY DEF Totals
<1>2. ASSUME NEW k \in Nat, k \in S PROVE k + 1 \in S
  <2> SUFFICES ASSUME k + 1 <= N PROVE f[k + 1] \in Nat
    OBVIOUS
  <2>1. k + 1 \in 1 .. N /\ (k + 1) - 1 = k /\ f[k] \in Nat
    BY <1>2
  <2>2. f[k + 1] = f[k] + numbers[k + 1] /\ numbers[k + 1] \in Nat
    BY <2>1 DEF Totals
  <2> QED
    BY <2>1, <2>2
<1>3. Nat \subseteq S
  <2> HIDE DEF S
  <2> QED
    BY <1>1, <1>2, SetInduction
<1> QED
  BY <1>3

LEMMA SumType ==
  ASSUME NEW numbers, Len(numbers) \in Nat,
         \A n \in 1 .. Len(numbers) : numbers[n] \in Nat
  PROVE  Sum(numbers) \in Nat
<1>1. PICK f : Totals(f, numbers) /\ Sum(numbers) = f[Len(numbers)]
  BY SumUnfolds
<1> QED
  BY <1>1, TotalsType

\* Sequences that begin alike have the same totals as far as they do.
LEMMA TotalsAgree ==
  ASSUME NEW a, Len(a) \in Nat, NEW b, Len(b) \in Nat, NEW f, Totals(f, a),
         NEW g, Totals(g, b), NEW N \in Nat, N <= Len(a), N <= Len(b),
         \A n \in 1 .. N : a[n] = b[n]
  PROVE  f[N] = g[N]
<1> DEFINE S == {k \in Nat : k <= N => f[k] = g[k]}
<1>1. 0 \in S
  BY DEF Totals
<1>2. ASSUME NEW k \in Nat, k \in S PROVE k + 1 \in S
  <2> SUFFICES ASSUME k + 1 <= N PROVE f[k + 1] = g[k + 1]
    OBVIOUS
  <2>1. k + 1 \in 1 .. N /\ k + 1 \in 1 .. Len(a) /\ k + 1 \in 1 .. Len(b)
        /\ (k + 1) - 1 = k /\ f[k] = g[k]
    BY <1>2
  <2>2. f[k + 1] = f[k] + a[k + 1] /\ g[k + 1] = g[k] + b[k + 1]
    BY <2>1 DEF Totals
  <2> QED
    BY <2>1, <2>2
<1>3. Nat \subseteq S
  <2> HIDE DEF S
  <2> QED
    BY <1>1, <1>2, SetInduction
<1> QED
  BY <1>3

LEMMA SumAppend ==
  ASSUME NEW a, Len(a) \in Nat, NEW b, Len(b) = Len(a) + 1,
         \A n \in 1 .. Len(a) : a[n] = b[n]
  PROVE  Sum(b) = Sum(a) + b[Len(a) + 1]
<1>1. PICK f : Totals(f, a) /\ Sum(a) = f[Len(a)]
  BY SumUnfolds
<1>2. PICK g : Totals(g, b) /\ Sum(b) = g[Len(b)]
  BY SumUnfolds
<1>3. f[Len(a)] = g[Len(a)]
  BY <1>1, <1>2, TotalsAgree
<1>4. g[Len(a) + 1] = g[Len(a)] + b[Len(a) + 1]
  <2>1. Len(a) + 1 \in 1 .. Len(b) /\ (Len(a) + 1) - 1 = Len(a)
    OBVIOUS
  <2> QED
    BY <1>2, <2>1 DEF Totals
<1> QED
  BY <1>1, <1>2, <1>3, <1>4

LEMMA SumRepeated ==
  ASSUME NEW numbers, Len(numbers) \in Nat, NEW c \in Nat,
         \A n \in 1 .. Len(numbers) : numbers[n] = c
  PROVE  Sum(numbers) = Len(numbers) * c
<1>1. PICK f : Totals(f, numbers) /\ Sum(numbers) = f[Len(numbers)]
  BY SumUnfolds
<1> DEFINE N == Len(numbers)
           S == {k \in Nat : k <= N => f[k] = k * c}
<1>2. 0 \in S
  <2>1. 0 * c = 0
    OBVIOUS
  <2> QED
    BY <1>1, <2>1 DEF Totals
<1>3. ASSUME NEW k \in Nat, k \in S PROVE k + 1 \in S
  <2> SUFFICES ASSUME k + 1 <= N PROVE f[k + 1] = (k + 1) * c
    OBVIOUS
  <2>1. k + 1 \in 1 .. N /\ (k + 1) - 1 = k /\ f[k] = k * c
    BY <1>3
  <2>2. f[k + 1] = f[k] + c
    BY <1>1, <2>1 DEF Totals
  <2>3. (k + 1) * c = k * c + c
    OBVIOUS
  <2> QED
    BY <2>1, <2>2, <2>3
<1>4. Nat \subseteq S
  <2> HIDE DEF S
  <2> QED
    BY <1>2, <1>3, SetInduction
<1> QED
  BY <1>1, <1>4

\* FlattenSeq of the community modules.
Join(a, b) == a \o b

Joins(f, seqs) ==
  \A n \in 1 .. Len(seqs) : f[n] = IF n = 1 THEN seqs[n] ELSE Join(f[n - 1], seqs[n])

LEMMA FlattenUnfolds ==
  ASSUME NEW seqs, Len(seqs) \in Nat, Len(seqs) # 0
  PROVE  \E f : Joins(f, seqs) /\ Seqs!FlattenSeq(seqs) = f[Len(seqs)]
<1> DEFINE Unfolded(f, k) ==
             f = [i \in 1 .. k |-> IF i = 1 THEN seqs[i] ELSE Join(f[i - 1], seqs[i])]
           S == {k \in Nat : \E f : Unfolded(f, k)}
<1>1. 0 \in S
  <2>1. Unfolded([i \in 1 .. 0 |-> 0], 0)
    OBVIOUS
  <2> QED
    BY <2>1
<1>2. ASSUME NEW k \in Nat, k \in S PROVE k + 1 \in S
  <2>1. PICK f : Unfolded(f, k)
    BY <1>2
  <2> DEFINE next == IF k = 0 THEN seqs[1] ELSE Join(f[k], seqs[k + 1])
             g == [i \in 1 .. k + 1 |-> IF i = k + 1 THEN next ELSE f[i]]
  <2>2. \A i \in 1 .. k + 1 :
          g[i] = IF i = 1 THEN seqs[i] ELSE Join(g[i - 1], seqs[i])
    <3>1. CASE k = 0
      BY <3>1
    <3>2. CASE k # 0
      <4>1. g[k + 1] = Join(g[(k + 1) - 1], seqs[k + 1])
        BY <3>2
      <4>2. \A i \in 1 .. k : g[i] = IF i = 1 THEN seqs[i] ELSE Join(g[i - 1], seqs[i])
        BY <2>1
      <4> HIDE DEF g
      <4> QED
        BY <3>2, <4>1, <4>2
    <3> QED
      BY <3>1, <3>2
  <2>3. \E h : Unfolded(h, k + 1)
    <3>1. g = [i \in 1 .. k + 1 |-> g[i]]
      OBVIOUS
    <3>2. Unfolded(g, k + 1)
      <4> HIDE DEF g
      <4> QED
        BY <2>2, <3>1
    <3> HIDE DEF g, Unfolded
    <3> QED
      BY <3>2
  <2> HIDE DEF g, Unfolded
  <2> QED
    BY <2>3
<1>3. Nat \subseteq S
  <2> HIDE DEF S
  <2> QED
    BY <1>1, <1>2, SetInduction
<1> DEFINE N == Len(seqs)
           d == CHOOSE f : Unfolded(f, N)
<1>4. Unfolded(d, N)
  BY <1>3
<1>5. Seqs!FlattenSeq(seqs) = d[N]
  BY DEF Seqs!FlattenSeq, Join
<1> HIDE DEF d
<1>6. \A n \in 1 .. N : d[n] = IF n = 1 THEN seqs[n] ELSE Join(d[n - 1], seqs[n])
  BY <1>4
<1> QED
  BY <1>5, <1>6 DEF Joins

\* A concatenation is as long as its parts together.
LEMMA FlattenLength ==
  ASSUME NEW T, NEW seqs, Len(seqs) \in Nat, Len(seqs) # 0,
         \A n \in 1 .. Len(seqs) : seqs[n] \in Seq(T)
  PROVE  /\ Seqs!FlattenSeq(seqs) \in Seq(T)
         /\ \A numbers :
              Len(numbers) = Len(seqs)
              /\ (\A n \in 1 .. Len(seqs) : numbers[n] = Len(seqs[n]))
              => Len(Seqs!FlattenSeq(seqs)) = Sum(numbers)
<1>1. PICK f : Joins(f, seqs) /\ Seqs!FlattenSeq(seqs) = f[Len(seqs)]
  BY FlattenUnfolds
<1> DEFINE N == Len(seqs)
           Step(n) == f[n] = IF n = 1 THEN seqs[n] ELSE Join(f[n - 1], seqs[n])
<1>2. \A n \in 1 .. N : Step(n)
  BY <1>1 DEF Joins
<1> DEFINE S == {k \in Nat : k + 1 <= N => f[k + 1] \in Seq(T)}
<1>3. 0 \in S
  <2>1. 1 \in 1 .. N
    OBVIOUS
  <2>2. f[1] = seqs[1]
    BY <1>2, <2>1
  <2> QED
    BY <2>1, <2>2
<1>4. ASSUME NEW k \in Nat, k \in S PROVE k + 1 \in S
  <2> SUFFICES ASSUME k + 2 <= N PROVE f[k + 2] \in Seq(T)
    OBVIOUS
  <2>1. k + 2 \in 1 .. N /\ k + 2 # 1 /\ (k + 2) - 1 = k + 1 /\ f[k + 1] \in Seq(T)
    BY <1>4
  <2>2. f[k + 2] = Join(f[k + 1], seqs[k + 2]) /\ seqs[k + 2] \in Seq(T)
    BY <1>2, <2>1
  <2> QED
    BY <2>1, <2>2 DEF Join
<1>5. \A n \in 1 .. N : f[n] \in Seq(T)
  <2>1. Nat \subseteq S
    <3> HIDE DEF S
    <3> QED
      BY <1>3, <1>4, SetInduction
  <2>2. ASSUME NEW n \in 1 .. N PROVE f[n] \in Seq(T)
    <3>1. n - 1 \in S /\ (n - 1) + 1 = n
      <4> HIDE DEF S
      <4> QED
        BY <2>1
    <3> QED
      BY <3>1
  <2> QED
    BY <2>2
<1>6. ASSUME NEW numbers, Len(numbers) = N,
             \A n \in 1 .. N : numbers[n] = Len(seqs[n])
      PROVE  Len(f[N]) = Sum(numbers)
  <2>1. PICK t : Totals(t, numbers) /\ Sum(numbers) = t[N]
    BY <1>6, SumUnfolds
  <2>2. t[0] = 0 /\ \A n \in 1 .. N : t[n] = t[n - 1] + Len(seqs[n])
    BY <1>6, <2>1 DEF Totals
  <2> DEFINE R == {k \in Nat : k + 1 <= N => Len(f[k + 1]) = t[k + 1]}
  <2>3. 0 \in R
    <3>1. 1 \in 1 .. N /\ 1 - 1 = 0
      OBVIOUS
    <3>2. f[1] = seqs[1] /\ t[1] = t[0] + Len(seqs[1]) /\ Len(seqs[1]) \in Nat
      BY <1>2, <2>2, <3>1
    <3> QED
      BY <2>2, <3>2
  <2>4. ASSUME NEW k \in Nat, k \in R PROVE k + 1 \in R
    <3> SUFFICES ASSUME k + 2 <= N PROVE Len(f[k + 2]) = t[k + 2]
      OBVIOUS
    <3>1. k + 2 \in 1 .. N /\ k + 1 \in 1 .. N /\ k + 2 # 1 /\ (k + 2) - 1 = k + 1
          /\ Len(f[k + 1]) = t[k + 1]
      BY <2>4
    <3>2. f[k + 2] = Join(f[k + 1], seqs[k + 2]) /\ seqs[k + 2] \in Seq(T)
          /\ f[k + 1] \in Seq(T)
      BY <1>2, <1>5, <3>1
    <3>3. Len(f[k + 2]) = Len(f[k + 1]) + Len(seqs[k + 2])
      BY <3>2, ConcatProperties DEF Join
    <3> QED
      BY <2>2, <3>1, <3>3
  <2>5. Nat \subseteq R
    <3> HIDE DEF R
    <3> QED
      BY <2>3, <2>4, SetInduction
  <2>6. N - 1 \in R /\ (N - 1) + 1 = N
    <3> HIDE DEF R
    <3> QED
      BY <2>5
  <2> QED
    BY <2>1, <2>6
<1> HIDE DEF Step
<1> QED
  BY <1>1, <1>5, <1>6

-----------------------------------------------------------------------------
(***************************************************************************)
(* Instructions: the sets of those that may be nested n deep.              *)
(***************************************************************************)
OtherFor(inner) == [op : {"FOR"}, repeats : Int, body : Seq(inner)]

OtherAbove(inner) == LeafInstruction \cup OtherFor(inner)
RandomAbove(inner) == LeafInstruction \cup RandomFor(inner)

LEMMA InstructionUnfolds ==
  /\ Instruction[0] = LeafInstruction
  /\ \A n \in 1 .. MaxNesting + 1 :
       Instruction[n] = LeafInstruction \cup OtherFor(Instruction[n - 1])
<1> DEFINE Unfolded(f, k) ==
             f = [n \in 0 .. k |->
                    IF n = 0 THEN LeafInstruction ELSE OtherAbove(f[n - 1])]
           S == {k \in Nat : \E f : Unfolded(f, k)}
<1>1. 0 \in S
  <2>1. Unfolded([n \in 0 .. 0 |-> LeafInstruction], 0)
    OBVIOUS
  <2> QED
    BY <2>1
<1>2. ASSUME NEW k \in Nat, k \in S PROVE k + 1 \in S
  <2>1. PICK f : Unfolded(f, k)
    BY <1>2
  <2> DEFINE g == [n \in 0 .. k + 1 |->
                     IF n = k + 1 THEN OtherAbove(f[k]) ELSE f[n]]
  <2>2. \A n \in 0 .. k + 1 : g[n] =
          IF n = 0 THEN LeafInstruction ELSE OtherAbove(g[n - 1])
    BY <2>1
  <2>3. \E h : Unfolded(h, k + 1)
    <3>1. Unfolded(g, k + 1)
      BY <2>2
    <3> HIDE DEF g, Unfolded
    <3> QED
      BY <3>1
  <2> HIDE DEF g, Unfolded
  <2> QED
    BY <2>3
<1>3. Nat \subseteq S
  <2> HIDE DEF S
  <2> QED
    BY <1>1, <1>2, SetInduction
<1> DEFINE N == MaxNesting + 1
           d == CHOOSE f : Unfolded(f, N)
<1>4. N \in Nat
  BY BoundsAssumption DEF BoundsAssumption
<1>5. Unfolded(d, N)
  BY <1>3, <1>4
<1>6. Instruction = d
  BY DEF Instruction, OtherAbove, OtherFor
<1> HIDE DEF d, N
<1>7. /\ d[0] = LeafInstruction
      /\ \A n \in 1 .. N : d[n] = OtherAbove(d[n - 1])
  BY <1>4, <1>5
<1> QED
  BY <1>6, <1>7 DEF N, OtherAbove

LEMMA RandomUnfolds ==
  /\ RandomInstruction[0] = LeafInstruction
  /\ \A n \in 1 .. MaxNesting :
       RandomInstruction[n] = LeafInstruction \cup RandomFor(RandomInstruction[n - 1])
<1> DEFINE Unfolded(f, k) ==
             f = [n \in 0 .. k |->
                    IF n = 0 THEN LeafInstruction ELSE RandomAbove(f[n - 1])]
           S == {k \in Nat : \E f : Unfolded(f, k)}
<1>1. 0 \in S
  <2>1. Unfolded([n \in 0 .. 0 |-> LeafInstruction], 0)
    OBVIOUS
  <2> QED
    BY <2>1
<1>2. ASSUME NEW k \in Nat, k \in S PROVE k + 1 \in S
  <2>1. PICK f : Unfolded(f, k)
    BY <1>2
  <2> DEFINE g == [n \in 0 .. k + 1 |->
                     IF n = k + 1 THEN RandomAbove(f[k]) ELSE f[n]]
  <2>2. \A n \in 0 .. k + 1 : g[n] =
          IF n = 0 THEN LeafInstruction ELSE RandomAbove(g[n - 1])
    BY <2>1
  <2>3. \E h : Unfolded(h, k + 1)
    <3>1. Unfolded(g, k + 1)
      BY <2>2
    <3> HIDE DEF g, Unfolded
    <3> QED
      BY <3>1
  <2> HIDE DEF g, Unfolded
  <2> QED
    BY <2>3
<1>3. Nat \subseteq S
  <2> HIDE DEF S
  <2> QED
    BY <1>1, <1>2, SetInduction
<1> DEFINE N == MaxNesting
           d == CHOOSE f : Unfolded(f, N)
<1>4. N \in Nat
  BY BoundsAssumption DEF BoundsAssumption
<1>5. Unfolded(d, N)
  BY <1>3, <1>4
<1>6. RandomInstruction = d
  BY DEF RandomInstruction, RandomAbove
<1> HIDE DEF d, N
<1>7. /\ d[0] = LeafInstruction
      /\ \A n \in 1 .. N : d[n] = RandomAbove(d[n - 1])
  BY <1>4, <1>5
<1> QED
  BY <1>6, <1>7 DEF N, RandomAbove

\* No leaf is a FOR, and what the generator makes are instructions.
LEMMA LeafIsNoFor ==
  ASSUME NEW x \in LeafInstruction
  PROVE  ~IsFor(x)
BY LeavesAssumption DEF LeavesAssumption, LeafInstruction, IsFor

LEMMA RandomForType ==
  ASSUME NEW inner, NEW x \in RandomFor(inner)
  PROVE  /\ IsFor(x) /\ x.repeats \in Nat \ {0}
         /\ x.body \in Seq(inner) /\ Len(x.body) \in Nat \ {0}
         /\ DOMAIN x.body = 1 .. Len(x.body)
         /\ x \in OtherFor(inner)
<1>1. x \in [op : {"FOR"}, repeats : 1 .. MaxRepeats,
             body : UNION {[1 .. length -> inner] : length \in 1 .. MaxBody}]
  BY DEF RandomFor
<1>2. PICK length \in 1 .. MaxBody : x.body \in [1 .. length -> inner]
  BY <1>1
<1>3. length \in Nat \ {0}
  BY <1>2
<1>4. x.body \in Seq(inner) /\ Len(x.body) = length /\ DOMAIN x.body = 1 .. length
  <2> DEFINE b == x.body
  <2>1. b \in [1 .. length -> inner]
    BY <1>2
  <2> HIDE DEF b
  <2>2. b \in Seq(inner) /\ Len(b) = length /\ DOMAIN b = 1 .. length
    BY <1>3, <2>1
  <2> QED
    BY <2>2 DEF b
<1>5. IsFor(x) /\ x.repeats \in 1 .. MaxRepeats
  BY <1>1 DEF IsFor
<1>6. x.repeats \in Nat \ {0} /\ x.repeats \in Int
  BY <1>5
<1>7. x = [op |-> "FOR", repeats |-> x.repeats, body |-> x.body]
  BY <1>1
<1>8. x \in OtherFor(inner)
  BY <1>4, <1>6, <1>7 DEF OtherFor
<1> QED
  BY <1>3, <1>4, <1>5, <1>6, <1>8

LEMMA RandomIsInstruction ==
  ASSUME NEW n \in 0 .. MaxNesting
  PROVE  RandomInstruction[n] \subseteq Instruction[n + 1]
<1>1. MaxNesting \in Nat
  BY BoundsAssumption DEF BoundsAssumption
<1> DEFINE S == {k \in Nat : k <= MaxNesting =>
                   RandomInstruction[k] \subseteq Instruction[k + 1]}
<1>2. 0 \in S
  <2>1. 1 \in 1 .. MaxNesting + 1
    BY <1>1
  <2> QED
    BY <2>1, InstructionUnfolds, RandomUnfolds
<1>3. ASSUME NEW k \in Nat, k \in S PROVE k + 1 \in S
  <2> SUFFICES ASSUME k + 1 <= MaxNesting
               PROVE  RandomInstruction[k + 1] \subseteq Instruction[k + 2]
    OBVIOUS
  <2> DEFINE R == RandomInstruction[k]
             I == Instruction[k + 1]
  <2>1. k + 1 \in 1 .. MaxNesting /\ k + 2 \in 1 .. MaxNesting + 1
        /\ (k + 1) - 1 = k /\ (k + 2) - 1 = k + 1 /\ R \subseteq I
    BY <1>1, <1>3
  <2>2. RandomInstruction[k + 1] = LeafInstruction \cup RandomFor(R)
    BY <2>1, RandomUnfolds
  <2>3. Instruction[k + 2] = LeafInstruction \cup OtherFor(I)
    BY <2>1, InstructionUnfolds
  <2> HIDE DEF R, I
  <2>4. OtherFor(R) \subseteq OtherFor(I)
    <3>1. Seq(R) \subseteq Seq(I)
      BY <2>1, SeqMonotonic
    <3> QED
      BY <3>1 DEF OtherFor
  <2>5. RandomFor(R) \subseteq OtherFor(R)
    BY RandomForType
  <2> QED
    BY <2>2, <2>3, <2>4, <2>5
<1>4. Nat \subseteq S
  <2> HIDE DEF S
  <2> QED
    BY <1>2, <1>3, SetInduction
<1> QED
  BY <1>1, <1>4

-----------------------------------------------------------------------------
(***************************************************************************)
(* The estimate and the unrolling, level by level: what each makes of an   *)
(* instruction, given what it makes of those in its body.                  *)
(***************************************************************************)
Sizes(n, below) ==
  [x \in RandomInstruction[n] |->
     IF IsFor(x)
     THEN x.repeats * Sum([j \in DOMAIN x.body |-> below[x.body[j]]])
     ELSE 1]

LEMMA SizesOfLeaves ==
  ASSUME NEW a, NEW b
  PROVE  Sizes(0, a) = Sizes(0, b)
<1>1. \A x \in RandomInstruction[0] : ~IsFor(x)
  BY RandomUnfolds, LeafIsNoFor
<1> QED
  BY <1>1 DEF Sizes

LEMMA EstimateUnfolds ==
  \E f : /\ \A n \in 0 .. MaxNesting : f[n] = Sizes(n, f[n - 1])
         /\ \A i : Estimate(i) = f[MaxNesting][i]
<1> DEFINE Unfolded(f, k) == f = [n \in 0 .. k |-> Sizes(n, f[n - 1])]
           S == {k \in Nat : \E f : Unfolded(f, k)}
<1>1. 0 \in S
  <2> DEFINE g == [n \in 0 .. 0 |-> Sizes(0, 0)]
  <2>1. \A n \in 0 .. 0 : g[n] = Sizes(n, g[n - 1])
    <3>1. g[0] = Sizes(0, 0)
      OBVIOUS
    <3> HIDE DEF g
    <3>2. Sizes(0, 0) = Sizes(0, g[0 - 1])
      BY SizesOfLeaves
    <3> QED
      BY <3>1, <3>2
  <2>2. \E h : Unfolded(h, 0)
    <3>1. Unfolded(g, 0)
      BY <2>1
    <3> HIDE DEF g, Unfolded
    <3> QED
      BY <3>1
  <2> HIDE DEF g, Unfolded
  <2> QED
    BY <2>2
<1>2. ASSUME NEW k \in Nat, k \in S PROVE k + 1 \in S
  <2>1. PICK f : Unfolded(f, k)
    BY <1>2
  <2> DEFINE g == [n \in 0 .. k + 1 |-> IF n = k + 1 THEN Sizes(k + 1, f[k]) ELSE f[n]]
  <2>2. /\ \A n \in 1 .. k + 1 : g[n] = Sizes(n, g[n - 1])
        /\ g[0] = Sizes(0, f[0 - 1])
    BY <2>1
  <2>3. g[0] = Sizes(0, g[0 - 1])
    <3>1. Sizes(0, f[0 - 1]) = Sizes(0, g[0 - 1])
      BY SizesOfLeaves
    <3> HIDE DEF g
    <3> QED
      BY <2>2, <3>1
  <2>4. \A n \in 0 .. k + 1 : g[n] = Sizes(n, g[n - 1])
    <3>1. \A n \in 0 .. k + 1 : n = 0 \/ n \in 1 .. k + 1
      OBVIOUS
    <3> HIDE DEF g
    <3> QED
      BY <2>2, <2>3, <3>1
  <2>5. \E h : Unfolded(h, k + 1)
    <3>1. g = [n \in 0 .. k + 1 |-> g[n]]
      OBVIOUS
    <3>2. Unfolded(g, k + 1)
      <4> HIDE DEF g
      <4> QED
        BY <2>4, <3>1
    <3> HIDE DEF g, Unfolded
    <3> QED
      BY <3>2
  <2> HIDE DEF g, Unfolded
  <2> QED
    BY <2>5
<1>3. Nat \subseteq S
  <2> HIDE DEF S
  <2> QED
    BY <1>1, <1>2, SetInduction
<1> DEFINE N == MaxNesting
           d == CHOOSE f : Unfolded(f, N)
<1>4. N \in Nat
  BY BoundsAssumption DEF BoundsAssumption
<1>5. Unfolded(d, N)
  BY <1>3, <1>4
<1>6. \A i : Estimate(i) = d[N][i]
  BY DEF Estimate, Sizes
<1> HIDE DEF d, N
<1>7. \A n \in 0 .. N : d[n] = Sizes(n, d[n - 1])
  BY <1>4, <1>5
<1> QED
  BY <1>6, <1>7 DEF N

FlatBody(x, below) ==
  Seqs!FlattenSeq([r \in 1 .. x.repeats |->
    Seqs!FlattenSeq([j \in DOMAIN x.body |-> below[x.body[j]]])])

Flats(n, below) ==
  [x \in Instruction[n + 1] |->
     IF ~IsFor(x) THEN <<x>>
     ELSE IF n = 0 \/ x.repeats <= 0 THEN x.body ELSE FlatBody(x, below)]

LEMMA UnrollUnfolds ==
  \E f : /\ \A n \in 0 .. MaxNesting : f[n] = Flats(n, f[n - 1])
         /\ \A i : Unroll(i) = f[MaxNesting][i]
<1> DEFINE Unfolded(f, k) == f = [n \in 0 .. k |-> Flats(n, f[n - 1])]
           S == {k \in Nat : \E f : Unfolded(f, k)}
<1>1. \A a, b : Flats(0, a) = Flats(0, b)
  BY DEF Flats
<1>2. 0 \in S
  <2> DEFINE g == [n \in 0 .. 0 |-> Flats(0, 0)]
  <2>1. \A n \in 0 .. 0 : g[n] = Flats(n, g[n - 1])
    <3>1. g[0] = Flats(0, 0)
      OBVIOUS
    <3> HIDE DEF g
    <3>2. Flats(0, 0) = Flats(0, g[0 - 1])
      BY <1>1
    <3> QED
      BY <3>1, <3>2
  <2>2. \E h : Unfolded(h, 0)
    <3>1. Unfolded(g, 0)
      BY <2>1
    <3> HIDE DEF g, Unfolded
    <3> QED
      BY <3>1
  <2> HIDE DEF g, Unfolded
  <2> QED
    BY <2>2
<1>3. ASSUME NEW k \in Nat, k \in S PROVE k + 1 \in S
  <2>1. PICK f : Unfolded(f, k)
    BY <1>3
  <2> DEFINE g == [n \in 0 .. k + 1 |-> IF n = k + 1 THEN Flats(k + 1, f[k]) ELSE f[n]]
  <2>2. /\ \A n \in 1 .. k + 1 : g[n] = Flats(n, g[n - 1])
        /\ g[0] = Flats(0, f[0 - 1])
    BY <2>1
  <2>3. g[0] = Flats(0, g[0 - 1])
    <3>1. Flats(0, f[0 - 1]) = Flats(0, g[0 - 1])
      BY <1>1
    <3> HIDE DEF g
    <3> QED
      BY <2>2, <3>1
  <2>4. \A n \in 0 .. k + 1 : g[n] = Flats(n, g[n - 1])
    <3>1. \A n \in 0 .. k + 1 : n = 0 \/ n \in 1 .. k + 1
      OBVIOUS
    <3> HIDE DEF g
    <3> QED
      BY <2>2, <2>3, <3>1
  <2>5. \E h : Unfolded(h, k + 1)
    <3>1. g = [n \in 0 .. k + 1 |-> g[n]]
      OBVIOUS
    <3>2. Unfolded(g, k + 1)
      <4> HIDE DEF g
      <4> QED
        BY <2>4, <3>1
    <3> HIDE DEF g, Unfolded
    <3> QED
      BY <3>2
  <2> HIDE DEF g, Unfolded
  <2> QED
    BY <2>5
<1>4. Nat \subseteq S
  <2> HIDE DEF S
  <2> QED
    BY <1>2, <1>3, SetInduction
<1> DEFINE N == MaxNesting
           d == CHOOSE f : Unfolded(f, N)
<1>5. N \in Nat
  BY BoundsAssumption DEF BoundsAssumption
<1>6. Unfolded(d, N)
  BY <1>4, <1>5
<1>7. \A i : Unroll(i) = d[N][i]
  BY DEF Unroll, Flats, FlatBody
<1> HIDE DEF d, N
<1>8. \A n \in 0 .. N : d[n] = Flats(n, d[n - 1])
  BY <1>5, <1>6
<1> QED
  BY <1>7, <1>8 DEF N

-----------------------------------------------------------------------------
(***************************************************************************)
(* The two agree.                                                          *)
(***************************************************************************)
\* Size and unrolling of an instruction.
Agree(size_, flat) ==
  /\ flat \in Seq(LeafInstruction)
  /\ size_ \in Nat
  /\ Len(flat) = size_

\* Those of a body, then those of the FOR around it.
LEMMA BodyAgrees ==
  ASSUME NEW body, Len(body) \in Nat \ {0}, DOMAIN body = 1 .. Len(body),
         NEW sizes, NEW flats,
         \A j \in DOMAIN body : Agree(sizes[body[j]], flats[body[j]])
  PROVE  Agree(Sum([j \in DOMAIN body |-> sizes[body[j]]]),
               Seqs!FlattenSeq([j \in DOMAIN body |-> flats[body[j]]]))
<1> DEFINE seqs == [j \in DOMAIN body |-> flats[body[j]]]
           numbers == [j \in DOMAIN body |-> sizes[body[j]]]
<1>1. Len(seqs) = Len(body) /\ Len(numbers) = Len(body)
  OBVIOUS
<1>2. \A j \in 1 .. Len(body) : /\ seqs[j] \in Seq(LeafInstruction)
                                /\ numbers[j] \in Nat /\ numbers[j] = Len(seqs[j])
  BY DEF Agree
<1> HIDE DEF seqs, numbers
<1>3. Sum(numbers) \in Nat
  BY <1>1, <1>2, SumType
<1>4. /\ Seqs!FlattenSeq(seqs) \in Seq(LeafInstruction)
      /\ Len(Seqs!FlattenSeq(seqs)) = Sum(numbers)
  BY <1>1, <1>2, FlattenLength
<1>5. Agree(Sum(numbers), Seqs!FlattenSeq(seqs))
  BY <1>3, <1>4 DEF Agree
<1> QED
  BY <1>5 DEF seqs, numbers

LEMMA RepeatsAgree ==
  ASSUME NEW size_, NEW flat, Agree(size_, flat), NEW repeats \in Nat \ {0}
  PROVE  Agree(repeats * size_, Seqs!FlattenSeq([r \in 1 .. repeats |-> flat]))
<1> DEFINE seqs == [r \in 1 .. repeats |-> flat]
           numbers == [r \in 1 .. repeats |-> size_]
<1>1. Len(seqs) = repeats /\ Len(numbers) = repeats
  OBVIOUS
<1>2. \A r \in 1 .. repeats : seqs[r] = flat /\ numbers[r] = size_
  OBVIOUS
<1> HIDE DEF seqs, numbers
<1>3. size_ \in Nat /\ flat \in Seq(LeafInstruction) /\ Len(flat) = size_
  BY DEF Agree
<1>4. Sum(numbers) = repeats * size_
  BY <1>1, <1>2, <1>3, SumRepeated
<1>5. /\ Seqs!FlattenSeq(seqs) \in Seq(LeafInstruction)
      /\ Len(Seqs!FlattenSeq(seqs)) = Sum(numbers)
  <2>1. \A r \in 1 .. Len(seqs) : /\ seqs[r] \in Seq(LeafInstruction)
                                  /\ numbers[r] = Len(seqs[r])
    BY <1>1, <1>2, <1>3
  <2> QED
    BY <1>1, <2>1, FlattenLength
<1>6. repeats * size_ \in Nat
  BY <1>3
<1>7. Agree(repeats * size_, Seqs!FlattenSeq(seqs))
  BY <1>4, <1>5, <1>6 DEF Agree
<1> QED
  BY <1>7 DEF seqs

LEMMA LeafAgrees ==
  ASSUME NEW x \in LeafInstruction
  PROVE  Agree(1, <<x>>)
BY DEF Agree

LEMMA RandomAgrees ==
  ASSUME NEW i \in TopLevel
  PROVE  Agree(Estimate(i), Unroll(i))
<1> DEFINE N == MaxNesting
<1>1. N \in Nat
  BY BoundsAssumption DEF BoundsAssumption
<1>2. PICK e : /\ \A n \in 0 .. N : e[n] = Sizes(n, e[n - 1])
               /\ \A x : Estimate(x) = e[N][x]
  BY EstimateUnfolds
<1>3. PICK u : /\ \A n \in 0 .. N : u[n] = Flats(n, u[n - 1])
               /\ \A x : Unroll(x) = u[N][x]
  BY UnrollUnfolds
<1>4. ASSUME NEW n \in 0 .. N, NEW x \in RandomInstruction[n]
      PROVE  /\ e[n][x] = IF IsFor(x)
                          THEN x.repeats * Sum([j \in DOMAIN x.body |-> e[n - 1][x.body[j]]])
                          ELSE 1
             /\ u[n][x] = IF ~IsFor(x) THEN <<x>>
                          ELSE IF n = 0 \/ x.repeats <= 0 THEN x.body
                          ELSE FlatBody(x, u[n - 1])
  <2>1. x \in Instruction[n + 1]
    BY RandomIsInstruction
  <2>2. e[n] = Sizes(n, e[n - 1])
    BY <1>2
  <2>3. u[n] = Flats(n, u[n - 1])
    BY <1>3
  <2> QED
    BY <2>1, <2>2, <2>3 DEF Sizes, Flats
<1>5. ASSUME NEW n \in 0 .. N, NEW x \in RandomInstruction[n], x \in LeafInstruction
      PROVE  Agree(e[n][x], u[n][x])
  <2>1. ~IsFor(x)
    BY <1>5, LeafIsNoFor
  <2>2. e[n][x] = 1 /\ u[n][x] = <<x>>
    BY <1>4, <2>1
  <2> QED
    BY <1>5, <2>2, LeafAgrees
<1> DEFINE Good(n) == \A x \in RandomInstruction[n] : Agree(e[n][x], u[n][x])
           S == {k \in Nat : k <= N => Good(k)}
<1>6. 0 \in S
  <2>1. 0 \in 0 .. N
    BY <1>1
  <2>2. Good(0)
    BY <1>5, <2>1, RandomUnfolds
  <2> HIDE DEF Good
  <2> QED
    BY <2>2
<1>7. ASSUME NEW k \in Nat, k \in S PROVE k + 1 \in S
  <2> SUFFICES ASSUME k + 1 <= N PROVE Good(k + 1)
    OBVIOUS
  <2>1. k + 1 \in 0 .. N /\ k + 1 \in 1 .. N /\ (k + 1) - 1 = k /\ k + 1 # 0 /\ Good(k)
    BY <1>1, <1>7
  <2> SUFFICES ASSUME NEW x \in RandomInstruction[k + 1]
               PROVE  Agree(e[k + 1][x], u[k + 1][x])
    OBVIOUS
  <2>2. x \in LeafInstruction \/ x \in RandomFor(RandomInstruction[k])
    BY <2>1, RandomUnfolds
  <2>3. CASE x \in LeafInstruction
    BY <1>5, <2>1, <2>3
  <2>4. CASE x \in RandomFor(RandomInstruction[k])
    <3>1. /\ IsFor(x) /\ x.repeats \in Nat \ {0}
          /\ x.body \in Seq(RandomInstruction[k]) /\ Len(x.body) \in Nat \ {0}
          /\ DOMAIN x.body = 1 .. Len(x.body)
      BY <2>4, RandomForType
    <3> DEFINE body == x.body
               sizes == e[k]
               flats == u[k]
               inner == Sum([j \in DOMAIN body |-> sizes[body[j]]])
               flat == Seqs!FlattenSeq([j \in DOMAIN body |-> flats[body[j]]])
    <3>2. e[k + 1][x] = x.repeats * inner
      BY <1>4, <2>1, <3>1
    <3>3. u[k + 1][x] = Seqs!FlattenSeq([r \in 1 .. x.repeats |-> flat])
      <4>1. ~(x.repeats <= 0)
        BY <3>1
      <4>2. u[k + 1][x] = FlatBody(x, u[k])
        BY <1>4, <2>1, <3>1, <4>1
      <4> QED
        BY <4>2 DEF FlatBody
    <3>4. \A j \in DOMAIN body : Agree(sizes[body[j]], flats[body[j]])
      <4>1. \A j \in DOMAIN body : body[j] \in RandomInstruction[k]
        BY <3>1
      <4> HIDE DEF body
      <4> QED
        BY <2>1, <4>1
    <3>5. Agree(inner, flat)
      <4>1. Len(body) \in Nat \ {0} /\ DOMAIN body = 1 .. Len(body)
        BY <3>1
      <4> HIDE DEF body, sizes, flats
      <4> QED
        BY <3>4, <4>1, BodyAgrees
    <3> HIDE DEF inner, flat
    <3> QED
      BY <3>1, <3>2, <3>3, <3>5, RepeatsAgree
  <2> QED
    BY <2>2, <2>3, <2>4
<1>8. Good(N)
  <2>1. Nat \subseteq S
    <3> HIDE DEF S
    <3> QED
      BY <1>6, <1>7, SetInduction
  <2> HIDE DEF Good
  <2> QED
    BY <1>1, <2>1
<1> QED
  BY <1>2, <1>3, <1>8 DEF TopLevel

\* A whole program.
LEMMA ConstructAgrees ==
  ASSUME NEW instrs \in Seq(TopLevel)
  PROVE  Agree(Sum([j \in DOMAIN instrs |-> Estimate(instrs[j])]), Construct(instrs))
<1> DEFINE seqs == [j \in DOMAIN instrs |-> Unroll(instrs[j])]
           numbers == [j \in DOMAIN instrs |-> Estimate(instrs[j])]
           N == Len(instrs)
<1>1. /\ N \in Nat /\ Len(seqs) = N /\ Len(numbers) = N
      /\ \A j \in 1 .. N : /\ instrs[j] \in TopLevel
                           /\ seqs[j] = Unroll(instrs[j])
                           /\ numbers[j] = Estimate(instrs[j])
  OBVIOUS
<1>2. seqs \in Seq({Unroll(instrs[j]) : j \in DOMAIN instrs})
  OBVIOUS
<1>3. Construct(instrs) = Seqs!FlattenSeq(seqs)
  BY DEF Construct
<1> HIDE DEF seqs, numbers, N
<1>4. \A j \in 1 .. N : /\ seqs[j] \in Seq(LeafInstruction)
                        /\ numbers[j] \in Nat /\ numbers[j] = Len(seqs[j])
  BY <1>1, RandomAgrees DEF Agree
<1>5. CASE N = 0
  <2>1. seqs = <<>>
    BY <1>1, <1>2, <1>5, EmptySeq
  <2>2. Seqs!FlattenSeq(seqs) = <<>>
    BY <1>1, <1>5, <2>1 DEF Seqs!FlattenSeq
  <2>3. Sum(numbers) = 0
    BY <1>1, <1>5, SumRepeated
  <2>4. Agree(Sum(numbers), Seqs!FlattenSeq(seqs))
    BY <2>2, <2>3 DEF Agree
  <2> QED
    BY <1>3, <2>4 DEF numbers
<1>6. CASE N # 0
  <2>1. Sum(numbers) \in Nat
    BY <1>1, <1>4, SumType
  <2>2. /\ Seqs!FlattenSeq(seqs) \in Seq(LeafInstruction)
        /\ Len(Seqs!FlattenSeq(seqs)) = Sum(numbers)
    BY <1>1, <1>4, <1>6, FlattenLength
  <2>3. Agree(Sum(numbers), Seqs!FlattenSeq(seqs))
    BY <2>1, <2>2 DEF Agree
  <2> QED
    BY <1>3, <2>3 DEF numbers
<1> QED
  BY <1>5, <1>6

-----------------------------------------------------------------------------
(***************************************************************************)
(* The inductive invariant.                                                *)
(***************************************************************************)
Settings == 0 .. Width - 1

\* The configuration's numbers are in range, whichever file they are from.
CfgInv ==
  /\ DOMAIN cfg = DOMAIN Defaults
  /\ \A field \in DOMAIN Key \ {"scheduler"} : cfg[field] \in Settings
  /\ Budget \in Nat

BuildInv ==
  /\ stage \in {"start", "loaded", "pick", "grow", "full", "made", "terminated"}
  /\ maker \in {"loop", "screen"} /\ target \in Settings
  /\ ins \in Seq(TopLevel) /\ Len(ins) <= target

\* The file the configuration is from is remembered until a program is begun.
LoadedInv == stage = "loaded" => file \in Seq(STRING) /\ cfg = LoadConfig(file)

\* No program outlives the configuration it was begun with.
BetweenInv == stage \in {"start", "loaded", "pick", "terminated"} => ins = <<>>

\* The running sum is that of the estimates, and never beyond the budget.
SizeInv == size = Sum([j \in DOMAIN ins |-> Estimate(ins[j])])
BudgetInv == Budget > 0 => size <= Budget

MadeInv == stage = "made" => program = Construct(ins)

GenInv ==
  CfgInv /\ BuildInv /\ LoadedInv /\ BetweenInv /\ SizeInv /\ BudgetInv /\ MadeInv

LEMMA EstimateType ==
  ASSUME NEW i \in TopLevel
  PROVE  Estimate(i) \in Nat
BY RandomAgrees DEF Agree

\* What is asked of the sum of the estimates: nothing, and one more.
LEMMA EmptySize ==
  Sum([j \in DOMAIN <<>> |-> Estimate(<<>>[j])]) = 0
<1> DEFINE numbers == [j \in DOMAIN <<>> |-> Estimate(<<>>[j])]
<1>1. Len(numbers) = 0 /\ \A n \in 1 .. Len(numbers) : numbers[n] = 0
  OBVIOUS
<1> HIDE DEF numbers
<1>2. Sum(numbers) = 0
  BY <1>1, SumRepeated
<1> QED
  BY <1>2 DEF numbers

LEMMA SizeGrows ==
  ASSUME NEW instrs \in Seq(TopLevel), NEW i \in TopLevel
  PROVE  Sum([j \in DOMAIN Append(instrs, i) |-> Estimate(Append(instrs, i)[j])]) =
           Sum([j \in DOMAIN instrs |-> Estimate(instrs[j])]) + Estimate(i)
<1> DEFINE more == Append(instrs, i)
           a == [j \in DOMAIN instrs |-> Estimate(instrs[j])]
           b == [j \in DOMAIN more |-> Estimate(more[j])]
           N == Len(instrs)
<1>1. /\ N \in Nat /\ Len(more) = N + 1 /\ more[N + 1] = i
      /\ DOMAIN instrs = 1 .. N /\ DOMAIN more = 1 .. N + 1
      /\ \A j \in 1 .. N : more[j] = instrs[j]
  BY AppendProperties
<1> HIDE DEF more, N
<1>2. /\ Len(a) = N /\ Len(b) = N + 1 /\ b[N + 1] = Estimate(i)
      /\ \A j \in 1 .. N : a[j] = b[j]
  BY <1>1
<1> HIDE DEF a, b
<1>3. Sum(b) = Sum(a) + b[N + 1]
  BY <1>1, <1>2, SumAppend
<1> QED
  BY <1>2, <1>3 DEF a, b, more

LEMMA SizeType ==
  ASSUME NEW instrs \in Seq(TopLevel)
  PROVE  Sum([j \in DOMAIN instrs |-> Estimate(instrs[j])]) \in Nat
BY ConstructAgrees DEF Agree

LEMMA InitHolds == Init => GenInv
<1> SUFFICES ASSUME Init PROVE GenInv
  OBVIOUS
<1>1. CfgInv
  BY DefaultsAssumption, BudgetAssumption
     DEF Init, CfgInv, DefaultsAssumption, BudgetAssumption, Budget, Settings
<1>2. BuildInv
  BY WidthAssumption DEF Init, BuildInv, Settings, WidthAssumption
<1>3. LoadedInv /\ BetweenInv /\ MadeInv
  BY DEF Init, LoadedInv, BetweenInv, MadeInv
<1>4. size = 0 /\ SizeInv
  BY EmptySize DEF Init, SizeInv
<1>5. BudgetInv
  BY <1>1, <1>4 DEF CfgInv, BudgetInv
<1> QED
  BY <1>1, <1>2, <1>3, <1>4, <1>5 DEF GenInv

-----------------------------------------------------------------------------
(***************************************************************************)
(* The actions.                                                            *)
(***************************************************************************)
LEMMA LoadHolds ==
  ASSUME GenInv, NEW f \in Files, Load(f)
  PROVE  GenInv'
<1>1. f \in Seq(STRING)
  BY FilesAssumption DEF FilesAssumption
<1>2. /\ stage \in {"start", "pick"} /\ ins = <<>>
      /\ UNCHANGED <<maker, target, ins, size, program>>
  BY DEF Load, GenInv, BetweenInv
<1>3. CASE Throws(f)
  <2>1. stage' = "terminated" /\ UNCHANGED cfg
    BY <1>3 DEF Load
  <2>2. UNCHANGED Budget
    BY <2>1 DEF Budget
  <2> QED
    BY <1>2, <2>1, <2>2
       DEF GenInv, CfgInv, BuildInv, LoadedInv, BetweenInv, SizeInv, BudgetInv, MadeInv
<1>4. CASE ~Throws(f)
  <2>1. stage' = "loaded" /\ file' = f /\ cfg' = LoadConfig(f)
    BY <1>4 DEF Load
  <2>2. CfgInv'
    <3>1. (Budget \in Nat)'
      <4>1. "max_unrolled_instructions" \in DOMAIN Defaults \ DOMAIN Key
        BY BudgetAssumption DEF BudgetAssumption, Key
      <4> QED
        BY <1>1, <2>1, <4>1, LoadDecides, BudgetAssumption DEF BudgetAssumption, Budget
    <3> QED
      BY <1>1, <1>4, <2>1, <3>1, LoadDecides, LoadType DEF CfgInv, Settings
  <2>3. size = 0
    BY <1>2, EmptySize DEF GenInv, SizeInv
  <2>4. BudgetInv'
    BY <1>2, <2>2, <2>3 DEF BudgetInv, CfgInv
  <2>5. LoadedInv' /\ BetweenInv' /\ MadeInv'
    BY <1>1, <1>2, <2>1 DEF LoadedInv, BetweenInv, MadeInv
  <2>6. BuildInv' /\ SizeInv'
    BY <1>2, <2>1 DEF GenInv, BuildInv, SizeInv
  <2> QED
    BY <2>2, <2>4, <2>5, <2>6 DEF GenInv
<1> QED
  BY <1>3, <1>4

LEMMA BeginHolds ==
  ASSUME GenInv, NEW who \in {"loop", "screen"}, NEW length \in Settings,
         Begin(who, length)
  PROVE  GenInv'
<1>1. /\ stage' = "grow" /\ maker' = who /\ target' = length
      /\ ins' = <<>> /\ size' = 0 /\ UNCHANGED cfg
  BY DEF Begin
<1>2. CfgInv' /\ UNCHANGED Budget
  BY <1>1 DEF GenInv, CfgInv, Budget
<1>3. BuildInv'
  BY <1>1, WidthAssumption DEF BuildInv, Settings, WidthAssumption
<1>4. SizeInv'
  BY <1>1, EmptySize DEF SizeInv
<1>5. BudgetInv'
  BY <1>1, <1>2 DEF CfgInv, GenInv, BudgetInv
<1>6. LoadedInv' /\ BetweenInv' /\ MadeInv'
  BY <1>1 DEF LoadedInv, BetweenInv, MadeInv
<1> QED
  BY <1>2, <1>3, <1>4, <1>5, <1>6 DEF GenInv

\* The range a length is picked from.
LEMMA RangeType ==
  ASSUME CfgInv
  PROVE  cfg.min_ins \in Settings /\ RandRange(cfg.min_ins, cfg.max_ins) \subseteq Settings
<1>1. cfg.min_ins \in Settings /\ cfg.max_ins \in Settings
  <2>1. "min_ins" \in DOMAIN Key \ {"scheduler"}
        /\ "max_ins" \in DOMAIN Key \ {"scheduler"}
    BY DEF Key
  <2> QED
    BY <2>1 DEF CfgInv
<1> DEFINE a == cfg.min_ins
           b == cfg.max_ins
<1> HIDE DEF a, b
<1>2. a \in Settings /\ b \in Settings => RandRange(a, b) \subseteq Settings
  BY WidthAssumption DEF RandRange, Settings, WidthAssumption
<1> QED
  BY <1>1, <1>2 DEF a, b

LEMMA AddHolds ==
  ASSUME GenInv, NEW i \in TopLevel, AddInstruction(i)
  PROVE  GenInv'
<1> DEFINE e == Estimate(i)
<1>1. /\ stage = "grow" /\ Len(ins) < target
      /\ UNCHANGED <<file, cfg, maker, target, program>>
  BY DEF AddInstruction
<1>2. CfgInv' /\ UNCHANGED Budget
  BY <1>1 DEF GenInv, CfgInv, Budget
<1>3. CASE Exceeds(e)
  <2>1. stage' = "full" /\ UNCHANGED <<ins, size>>
    BY <1>3 DEF AddInstruction
  <2> QED
    BY <1>1, <1>2, <2>1
       DEF GenInv, BuildInv, LoadedInv, BetweenInv, SizeInv, BudgetInv, MadeInv
<1>4. CASE ~Exceeds(e)
  <2>1. ins' = Append(ins, i) /\ size' = size + e /\ UNCHANGED stage
    BY <1>4 DEF AddInstruction
  <2>2. ins \in Seq(TopLevel) /\ target \in Settings
    BY DEF GenInv, BuildInv
  <2>3. BuildInv'
    <3>1. ins' \in Seq(TopLevel) /\ Len(ins') = Len(ins) + 1 /\ Len(ins) \in Nat
      BY <2>1, <2>2
    <3>2. target \in Nat
      BY <2>2, WidthAssumption DEF Settings, WidthAssumption
    <3>3. Len(ins') <= target'
      BY <1>1, <3>1, <3>2
    <3> QED
      BY <1>1, <2>1, <3>1, <3>3 DEF GenInv, BuildInv
  <2>4. SizeInv'
    <3>1. size = Sum([j \in DOMAIN ins |-> Estimate(ins[j])])
      BY DEF GenInv, SizeInv
    <3> HIDE DEF e
    <3>2. Sum([j \in DOMAIN Append(ins, i) |-> Estimate(Append(ins, i)[j])]) =
            Sum([j \in DOMAIN ins |-> Estimate(ins[j])]) + e
      BY <2>2, SizeGrows DEF e
    <3>3. size' = Sum([j \in DOMAIN Append(ins, i) |-> Estimate(Append(ins, i)[j])])
      BY <2>1, <3>1, <3>2
    <3> QED
      BY <2>1, <3>3 DEF SizeInv
  <2>5. BudgetInv'
    <3>1. size \in Nat /\ e \in Nat /\ Budget \in Nat
      BY <2>2, SizeType, EstimateType DEF CfgInv, GenInv, SizeInv
    <3> HIDE DEF e
    <3>2. ~(Budget > 0) \/ ~(size + e > Budget)
      BY <1>4 DEF Exceeds
    <3> QED
      BY <1>2, <2>1, <3>1, <3>2 DEF BudgetInv
  <2>6. LoadedInv' /\ BetweenInv' /\ MadeInv'
    BY <1>1, <2>1 DEF LoadedInv, BetweenInv, MadeInv
  <2> QED
    BY <1>2, <2>3, <2>4, <2>5, <2>6 DEF GenInv
<1> QED
  BY <1>3, <1>4

LEMMA MakeHolds ==
  ASSUME GenInv, MakeProcess
  PROVE  GenInv'
<1>1. /\ stage' = "made" /\ program' = Construct(ins)
      /\ UNCHANGED <<file, cfg, maker, target, ins, size>>
  BY DEF MakeProcess
<1>2. CfgInv' /\ UNCHANGED Budget
  BY <1>1 DEF GenInv, CfgInv, Budget
<1>3. BuildInv' /\ LoadedInv' /\ BetweenInv'
  BY <1>1 DEF GenInv, BuildInv, LoadedInv, BetweenInv
<1>4. SizeInv' /\ BudgetInv'
  BY <1>1, <1>2 DEF GenInv, SizeInv, BudgetInv
<1>5. MadeInv'
  BY <1>1 DEF MadeInv
<1> QED
  BY <1>2, <1>3, <1>4, <1>5 DEF GenInv

LEMMA NextProcessHolds ==
  ASSUME GenInv, NextProcess
  PROVE  GenInv'
<1>1. /\ stage' = "pick" /\ target' = 0 /\ ins' = <<>> /\ size' = 0
      /\ UNCHANGED <<cfg, maker>>
  BY DEF NextProcess
<1>2. CfgInv' /\ UNCHANGED Budget
  BY <1>1 DEF GenInv, CfgInv, Budget
<1>3. BuildInv'
  BY <1>1, WidthAssumption DEF GenInv, BuildInv, Settings, WidthAssumption
<1>4. SizeInv'
  BY <1>1, EmptySize DEF SizeInv
<1>5. BudgetInv'
  BY <1>1, <1>2 DEF CfgInv, GenInv, BudgetInv
<1>6. LoadedInv' /\ BetweenInv' /\ MadeInv'
  BY <1>1 DEF LoadedInv, BetweenInv, MadeInv
<1> QED
  BY <1>2, <1>3, <1>4, <1>5, <1>6 DEF GenInv

LEMMA NextHolds == GenInv /\ [Next]_vars => GenInv'
<1> SUFFICES ASSUME GenInv, [Next]_vars PROVE GenInv'
  OBVIOUS
<1>1. CASE \E f \in Files : Load(f)
  BY <1>1, LoadHolds
<1>2. CASE PickTarget
  <2>1. PICK n \in RandRange(cfg.min_ins, cfg.max_ins) : Begin("loop", n)
    BY <1>2 DEF PickTarget
  <2>2. n \in Settings
    BY RangeType DEF GenInv
  <2> QED
    BY <2>1, <2>2, BeginHolds
<1>3. CASE ScreenTarget
  <2>1. Begin("screen", cfg.min_ins) /\ cfg.min_ins \in Settings
    BY <1>3, RangeType DEF ScreenTarget, GenInv
  <2> QED
    BY <2>1, BeginHolds
<1>4. CASE \E i \in TopLevel : LoopAdds(i)
  BY <1>4, AddHolds DEF LoopAdds
<1>5. CASE \E i \in TopLevel : GenerateInstructionsAdds(i)
  BY <1>5, AddHolds DEF GenerateInstructionsAdds
<1>6. CASE MakeProcess
  BY <1>6, MakeHolds
<1>7. CASE NextProcess
  BY <1>7, NextProcessHolds
<1>8. CASE UNCHANGED vars
  <2>1. CfgInv' /\ UNCHANGED Budget
    BY <1>8 DEF GenInv, CfgInv, Budget, vars
  <2>2. SizeInv' /\ BudgetInv'
    BY <1>8, <2>1 DEF GenInv, SizeInv, BudgetInv, vars
  <2>3. BuildInv' /\ LoadedInv' /\ BetweenInv' /\ MadeInv'
    BY <1>8 DEF GenInv, BuildInv, LoadedInv, BetweenInv, MadeInv, vars
  <2> QED
    BY <2>1, <2>2, <2>3 DEF GenInv
<1> QED
  BY <1>1, <1>2, <1>3, <1>4, <1>5, <1>6, <1>7, <1>8 DEF Next

LEMMA GenInvHolds == Spec => []GenInv
BY InitHolds, NextHolds, PTL DEF Spec

-----------------------------------------------------------------------------
(***************************************************************************)
(* The theorems.                                                           *)
(***************************************************************************)
\* What is being built is a sequence of instructions the generator can make, no
\* longer than the length picked, which fits in a uint32_t whatever the file says.
THEOREM TypeCorrect == Spec => []TypeOK
<1>1. GenInv => TypeOK
  <2> SUFFICES ASSUME GenInv PROVE TypeOK
    OBVIOUS
  <2>1. size \in Nat /\ \A j \in DOMAIN ins : ins[j] \in TopLevel
    BY SizeType DEF GenInv, BuildInv, SizeInv
  <2> QED
    BY <2>1 DEF GenInv, CfgInv, BuildInv, TypeOK, Settings
<1> QED
  BY <1>1, GenInvHolds, PTL

\* Each initialize goes by the file as it then is, whatever the file.
THEOREM LastLineCorrect == Spec => []LastLineDecides
<1>1. GenInv => LastLineDecides
  <2> SUFFICES ASSUME GenInv, stage = "loaded" PROVE LastLine(file, cfg)
    BY DEF LastLineDecides, LastLine
  <2>1. file \in Seq(STRING) /\ cfg = LoadConfig(file)
    BY DEF GenInv, LoadedInv
  <2> QED
    BY <2>1, LoadDecides
<1> QED
  BY <1>1, GenInvHolds, PTL

\* The estimate of the generator and the unrolling of the constructor agree on
\* every program the generator makes, however deep and long its FORs.
THEOREM EstimateCorrect == Spec => []EstimateIsExact
<1>1. GenInv => EstimateIsExact
  BY ConstructAgrees
     DEF GenInv, BuildInv, SizeInv, MadeInv, EstimateIsExact, Agree
<1> QED
  BY <1>1, GenInvHolds, PTL

\* No generated process exceeds the budget after unrolling, whatever it is.
THEOREM BudgetCorrect == Spec => []WithinBudget
<1>1. GenInv => WithinBudget
  <2> SUFFICES ASSUME GenInv, stage = "made", Budget > 0
               PROVE  Len(program) <= Budget
    BY DEF WithinBudget
  <2>1. Len(program) = size
    BY ConstructAgrees DEF GenInv, BuildInv, SizeInv, MadeInv, Agree
  <2> QED
    BY <2>1 DEF GenInv, BudgetInv
<1> QED
  BY <1>1, GenInvHolds, PTL

\* No FOR of a generated program is left for execute_tick, at any depth limit.
THEOREM FlatCorrect == Spec => []GeneratedIsFlat
<1>1. GenInv => GeneratedIsFlat
  <2> SUFFICES ASSUME GenInv, stage = "made", NEW j \in DOMAIN program
               PROVE  ~IsFor(program[j])
    BY DEF GeneratedIsFlat
  <2>1. program \in Seq(LeafInstruction)
    BY ConstructAgrees DEF GenInv, BuildInv, MadeInv, Agree
  <2>2. program[j] \in LeafInstruction
    BY <2>1
  <2> QED
    BY <2>2, LeafIsNoFor
<1> QED
  BY <1>1, GenInvHolds, PTL

-----------------------------------------------------------------------------
(***************************************************************************)
(* How large sizes get.  The code computes them in a uint32_t, the module  *)
(* in the natural numbers.                                                 *)
(***************************************************************************)
\* A FOR with the longest body and the most repeats, at every level.
Widest == MaxRepeats * MaxBody

LargestSize ==
  LET largest[n \in 0 .. MaxNesting] == IF n = 0 THEN 1 ELSE Widest * largest[n - 1]
  IN  largest[MaxNesting]

LEMMA LargestUnfolds ==
  \E f : /\ f[0] = 1
         /\ \A n \in 1 .. MaxNesting : f[n] = Widest * f[n - 1]
         /\ LargestSize = f[MaxNesting]
<1> DEFINE Unfolded(f, k) ==
             f = [n \in 0 .. k |-> IF n = 0 THEN 1 ELSE Widest * f[n - 1]]
           S == {k \in Nat : \E f : Unfolded(f, k)}
<1>1. 0 \in S
  <2>1. Unfolded([n \in 0 .. 0 |-> 1], 0)
    OBVIOUS
  <2> QED
    BY <2>1
<1>2. ASSUME NEW k \in Nat, k \in S PROVE k + 1 \in S
  <2>1. PICK f : Unfolded(f, k)
    BY <1>2
  <2> DEFINE g == [n \in 0 .. k + 1 |-> IF n = k + 1 THEN Widest * f[k] ELSE f[n]]
  <2>2. \A n \in 0 .. k + 1 : g[n] = IF n = 0 THEN 1 ELSE Widest * g[n - 1]
    BY <2>1
  <2>3. \E h : Unfolded(h, k + 1)
    <3>1. Unfolded(g, k + 1)
      BY <2>2
    <3> HIDE DEF g, Unfolded
    <3> QED
      BY <3>1
  <2> HIDE DEF g, Unfolded
  <2> QED
    BY <2>3
<1>3. Nat \subseteq S
  <2> HIDE DEF S
  <2> QED
    BY <1>1, <1>2, SetInduction
<1> DEFINE N == MaxNesting
           d == CHOOSE f : Unfolded(f, N)
<1>4. N \in Nat
  BY BoundsAssumption DEF BoundsAssumption
<1>5. Unfolded(d, N)
  BY <1>3, <1>4
<1>6. LargestSize = d[N]
  BY DEF LargestSize
<1> HIDE DEF d, N
<1>7. d[0] = 1 /\ \A n \in 1 .. N : d[n] = Widest * d[n - 1]
  BY <1>4, <1>5
<1> QED
  BY <1>6, <1>7 DEF N

\* Products of natural numbers grow with their factors.
LEMMA TimesMonotonic ==
  ASSUME NEW a \in Nat, NEW b \in Nat, a <= b, NEW c \in Nat, NEW d \in Nat, c <= d
  PROVE  a * c <= b * d
<1>1. PICK x \in Nat : b = a + x
  <2>1. b - a \in Nat /\ b = a + (b - a)
    OBVIOUS
  <2> QED
    BY <2>1
<1>2. PICK y \in Nat : d = c + y
  <2>1. d - c \in Nat /\ d = c + (d - c)
    OBVIOUS
  <2> QED
    BY <2>1
<1>3. b * d = a * c + a * y + x * d
  BY <1>1, <1>2
<1>4. a * c \in Nat /\ a * y \in Nat /\ x * d \in Nat
  OBVIOUS
<1> QED
  BY <1>3, <1>4

LEMMA SumBounded ==
  ASSUME NEW numbers, Len(numbers) \in Nat, NEW c \in Nat,
         \A n \in 1 .. Len(numbers) : numbers[n] \in Nat /\ numbers[n] <= c
  PROVE  Sum(numbers) <= Len(numbers) * c
<1>1. PICK f : Totals(f, numbers) /\ Sum(numbers) = f[Len(numbers)]
  BY SumUnfolds
<1> DEFINE N == Len(numbers)
           S == {k \in Nat : k <= N => f[k] <= k * c}
<1>2. \A n \in 0 .. N : f[n] \in Nat
  BY <1>1, TotalsType
<1>3. 0 \in S
  <2>1. 0 * c = 0
    OBVIOUS
  <2> QED
    BY <1>1, <2>1 DEF Totals
<1>4. ASSUME NEW k \in Nat, k \in S PROVE k + 1 \in S
  <2> SUFFICES ASSUME k + 1 <= N PROVE f[k + 1] <= (k + 1) * c
    OBVIOUS
  <2>1. k + 1 \in 1 .. N /\ (k + 1) - 1 = k /\ k \in 0 .. N /\ f[k] <= k * c
    BY <1>4
  <2>2. f[k + 1] = f[k] + numbers[k + 1]
    BY <1>1, <2>1 DEF Totals
  <2> DEFINE x == f[k]
             y == numbers[k + 1]
             z == k * c
  <2>3. x \in Nat /\ y \in Nat /\ z \in Nat /\ x <= z /\ y <= c
    BY <1>2, <2>1
  <2>4. (k + 1) * c = z + c
    OBVIOUS
  <2> HIDE DEF x, y, z
  <2>5. x + y <= z + c
    BY <2>3
  <2> QED
    BY <2>2, <2>4, <2>5 DEF x, y
<1>5. Nat \subseteq S
  <2> HIDE DEF S
  <2> QED
    BY <1>3, <1>4, SetInduction
<1> QED
  BY <1>1, <1>5

LEMMA EstimateBounded ==
  ASSUME NEW i \in TopLevel
  PROVE  Estimate(i) <= LargestSize /\ LargestSize \in Nat
<1> DEFINE N == MaxNesting
<1>1. N \in Nat /\ MaxRepeats \in Nat \ {0} /\ MaxBody \in Nat \ {0}
  BY BoundsAssumption DEF BoundsAssumption
<1>2. PICK e : /\ \A n \in 0 .. N : e[n] = Sizes(n, e[n - 1])
               /\ \A x : Estimate(x) = e[N][x]
  BY EstimateUnfolds
<1>3. PICK l : /\ l[0] = 1 /\ \A n \in 1 .. N : l[n] = Widest * l[n - 1]
               /\ LargestSize = l[N]
  BY LargestUnfolds
<1>4. Widest \in Nat \ {0}
  BY <1>1 DEF Widest
<1>5. ASSUME NEW n \in 0 .. N, NEW x \in RandomInstruction[n]
      PROVE  e[n][x] = IF IsFor(x)
                       THEN x.repeats * Sum([j \in DOMAIN x.body |-> e[n - 1][x.body[j]]])
                       ELSE 1
  <2>1. e[n] = Sizes(n, e[n - 1])
    BY <1>2
  <2> QED
    BY <2>1 DEF Sizes
<1> DEFINE Good(n) == /\ l[n] \in Nat \ {0}
                      /\ \A x \in RandomInstruction[n] : e[n][x] \in Nat /\ e[n][x] <= l[n]
           S == {k \in Nat : k <= N => Good(k)}
<1>6. 0 \in S
  <2>1. 0 \in 0 .. N
    BY <1>1
  <2>2. ASSUME NEW x \in RandomInstruction[0] PROVE e[0][x] = 1
    BY <1>5, <2>1, <2>2, RandomUnfolds, LeafIsNoFor
  <2>3. Good(0)
    BY <1>3, <2>2
  <2> HIDE DEF Good
  <2> QED
    BY <2>3
<1>7. ASSUME NEW k \in Nat, k \in S PROVE k + 1 \in S
  <2> SUFFICES ASSUME k + 1 <= N PROVE Good(k + 1)
    OBVIOUS
  <2>1. k + 1 \in 0 .. N /\ k + 1 \in 1 .. N /\ (k + 1) - 1 = k /\ Good(k)
    BY <1>1, <1>7
  <2> DEFINE c == l[k]
             b == l[k + 1]
  <2>2. c \in Nat \ {0} /\ b = Widest * c
    BY <1>3, <2>1
  <2>3. b \in Nat \ {0}
    <3> HIDE DEF b, c
    <3> QED
      BY <1>4, <2>2
  <2>4. ASSUME NEW x \in RandomInstruction[k + 1]
        PROVE  e[k + 1][x] \in Nat /\ e[k + 1][x] <= b
    <3>1. x \in LeafInstruction \/ x \in RandomFor(RandomInstruction[k])
      BY <2>1, RandomUnfolds
    <3>2. CASE x \in LeafInstruction
      <4>1. e[k + 1][x] = 1
        BY <1>5, <2>1, <3>2, LeafIsNoFor
      <4> HIDE DEF b
      <4> QED
        BY <2>3, <4>1
    <3>3. CASE x \in RandomFor(RandomInstruction[k])
      <4>1. /\ IsFor(x) /\ x.body \in Seq(RandomInstruction[k])
            /\ Len(x.body) \in Nat /\ DOMAIN x.body = 1 .. Len(x.body)
        BY <3>3, RandomForType
      <4>2. /\ x.repeats \in 1 .. MaxRepeats /\ Len(x.body) <= MaxBody
        <5>1. x.repeats \in 1 .. MaxRepeats
          BY <3>3 DEF RandomFor
        <5>2. PICK length \in 1 .. MaxBody : x.body \in [1 .. length -> RandomInstruction[k]]
          BY <3>3 DEF RandomFor
        <5>3. Len(x.body) = length
          <6> DEFINE body == x.body
          <6>1. body \in [1 .. length -> RandomInstruction[k]] /\ length \in Nat
            BY <5>2
          <6> HIDE DEF body
          <6>2. Len(body) = length
            BY <6>1
          <6> QED
            BY <6>2 DEF body
        <5> QED
          BY <5>1, <5>3
      <4> DEFINE body == x.body
                 numbers == [j \in DOMAIN body |-> e[k][body[j]]]
                 m == Len(body)
                 s == Sum(numbers)
                 r == x.repeats
      <4>3. e[k + 1][x] = r * s
        BY <1>5, <2>1, <4>1
      <4>4. /\ Len(numbers) = m
            /\ \A n \in 1 .. m : numbers[n] \in Nat /\ numbers[n] <= c
        <5>1. \A j \in 1 .. m : body[j] \in RandomInstruction[k]
          BY <4>1
        <5>2. DOMAIN body = 1 .. m /\ m \in Nat
          BY <4>1
        <5>3. \A y \in RandomInstruction[k] : e[k][y] \in Nat /\ e[k][y] <= c
          BY <2>1
        <5> HIDE DEF body, m, c
        <5> QED
          BY <5>1, <5>2, <5>3
      <4>5. s \in Nat /\ s <= m * c
        <5> HIDE DEF numbers, m, c
        <5>1. m \in Nat
          BY <4>1 DEF m
        <5> QED
          BY <2>2, <4>4, <5>1, SumType, SumBounded
      <4>6. m \in Nat /\ m <= MaxBody /\ r \in Nat /\ r <= MaxRepeats
        BY <1>1, <4>1, <4>2
      <4> HIDE DEF numbers, m, s, r, c, b
      <4>7. m * c <= MaxBody * c
        BY <1>1, <2>2, <4>6, TimesMonotonic
      <4>8. m * c \in Nat /\ MaxBody * c \in Nat
        BY <1>1, <2>2, <4>6
      <4>9. s <= MaxBody * c
        BY <4>5, <4>7, <4>8
      <4>10. r * s <= MaxRepeats * (MaxBody * c)
        BY <1>1, <4>5, <4>6, <4>8, <4>9, TimesMonotonic
      <4>11. MaxRepeats * (MaxBody * c) = b
        BY <1>1, <2>2 DEF Widest
      <4>12. r * s \in Nat
        BY <4>5, <4>6
      <4> QED
        BY <4>3, <4>10, <4>11, <4>12
    <3> QED
      BY <3>1, <3>2, <3>3
  <2> QED
    BY <2>3, <2>4
<1>8. Good(N)
  <2>1. Nat \subseteq S
    <3> HIDE DEF S
    <3> QED
      BY <1>6, <1>7, SetInduction
  <2> HIDE DEF Good
  <2> QED
    BY <1>1, <2>1
<1> QED
  BY <1>2, <1>3, <1>8 DEF TopLevel

\* The bound for the code's own numbers: FORs three deep, repeats and bodies of
\* at most three.
LEMMA LargestOfCode ==
  MaxNesting = 3 /\ MaxRepeats = 3 /\ MaxBody = 3 => LargestSize = 729
<1> SUFFICES ASSUME MaxNesting = 3, MaxRepeats = 3, MaxBody = 3
             PROVE  LargestSize = 729
  OBVIOUS
<1>1. PICK l : /\ l[0] = 1 /\ \A n \in 1 .. 3 : l[n] = Widest * l[n - 1]
               /\ LargestSize = l[3]
  BY LargestUnfolds
<1>2. Widest = 9
  BY DEF Widest
<1>3. l[1] = 9 * l[0] /\ l[2] = 9 * l[1] /\ l[3] = 9 * l[2]
  BY <1>1, <1>2
<1> QED
  BY <1>1, <1>3

\* With a budget, the sum that is compared with it (process_generator.cpp:261 and
\* :392) exceeds it by at most the largest size of one instruction: with the
\* code's numbers it is at most 10729, and no uint32_t wraps round.
THEOREM SizesStaySmall ==
  Spec => [](Budget > 0 => \A i \in TopLevel : size + Estimate(i) <= Budget + LargestSize)
<1>1. GenInv => (Budget > 0 => \A i \in TopLevel : size + Estimate(i) <= Budget + LargestSize)
  <2> SUFFICES ASSUME GenInv, Budget > 0, NEW i \in TopLevel
               PROVE  size + Estimate(i) <= Budget + LargestSize
    OBVIOUS
  <2> DEFINE e == Estimate(i)
  <2>1. e \in Nat /\ e <= LargestSize /\ LargestSize \in Nat
    BY EstimateType, EstimateBounded
  <2>2. size \in Nat /\ Budget \in Nat /\ size <= Budget
    BY SizeType DEF GenInv, BuildInv, CfgInv, SizeInv, BudgetInv
  <2> HIDE DEF e
  <2>3. size + e <= Budget + LargestSize
    BY <2>1, <2>2
  <2> QED
    BY <2>3 DEF e
<1> QED
  BY <1>1, GenInvHolds, PTL

=============================================================================
