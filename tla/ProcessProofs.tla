--------------------------- MODULE ProcessProofs ----------------------------
(***************************************************************************)
(* Proofs about Process: whatever the program, the busy wait and the width *)
(* of SLEEP's operand, a process computes what its program says, takes the *)
(* calls it should and reports what it ran.                                *)
(*                                                                         *)
(* Meaning and Cost are defined by recursion over a program.  Induction is *)
(* therefore stated here over sets of numbers rather than over predicates. *)
(***************************************************************************)
EXTENDS Process, ProcessExecProofs, FiniteSetTheorems, WellFoundedInduction

-----------------------------------------------------------------------------
(***************************************************************************)
(* Induction and recursion over the natural numbers.                       *)
(***************************************************************************)
LEMMA LeastNumber ==
  ASSUME NEW T, T \subseteq Nat, T # {}
  PROVE  \E x \in T : \A y \in T : ~(y < x)
<1>1. IsWellFoundedOn(OpToRel(<, Nat), Nat)
  BY NatLessThanWellFounded
<1>2. \E x \in T : \A y \in T : ~(<<y, x>> \in OpToRel(<, Nat))
  <2> HIDE DEF OpToRel
  <2> QED
    BY <1>1, WFMin
<1>3. \A x, y \in T : y < x => <<y, x>> \in OpToRel(<, Nat)
  BY DEF OpToRel
<1> QED
  BY <1>2, <1>3

LEMMA SetInduction ==
  ASSUME NEW S, 0 \in S, \A n \in Nat : n \in S => n + 1 \in S
  PROVE  Nat \subseteq S
<1> SUFFICES ASSUME Nat \ S # {} PROVE FALSE
  OBVIOUS
<1>1. PICK x \in Nat \ S : \A y \in Nat \ S : ~(y < x)
  BY LeastNumber
<1>2. x # 0 /\ x - 1 \in Nat /\ x - 1 < x
  BY <1>1
<1>3. x - 1 \in S
  BY <1>1, <1>2
<1> QED
  BY <1>1, <1>2, <1>3

\* A step that stays within a set can be taken any number of times.
Follows(f, N, x, s) ==
  f[0] = x /\ \A n \in 1 .. N : f[n] = s[<<n, f[n - 1]>>]

LEMMA Recursion ==
  ASSUME NEW X, NEW x \in X, NEW N \in Nat, NEW s \in [(1 .. N) \X X -> X]
  PROVE  \E f \in [0 .. N -> X] : Follows(f, N, x, s)
<1> DEFINE S == {k \in Nat : k <= N => \E f \in [0 .. k -> X] : Follows(f, k, x, s)}
<1>1. 0 \in S
  <2>1. [n \in 0 .. 0 |-> x] \in [0 .. 0 -> X]
        /\ Follows([n \in 0 .. 0 |-> x], 0, x, s)
    BY DEF Follows
  <2> QED
    BY <2>1
<1>2. ASSUME NEW k \in Nat, k \in S PROVE k + 1 \in S
  <2> SUFFICES ASSUME k + 1 <= N
               PROVE  \E g \in [0 .. k + 1 -> X] : Follows(g, k + 1, x, s)
    OBVIOUS
  <2>1. PICK f \in [0 .. k -> X] : Follows(f, k, x, s)
    BY <1>2
  <2> DEFINE g == [n \in 0 .. k + 1 |-> IF n = k + 1 THEN s[<<k + 1, f[k]>>] ELSE f[n]]
  <2>2. f[k] \in X /\ <<k + 1, f[k]>> \in (1 .. N) \X X
    OBVIOUS
  <2>3. s[<<k + 1, f[k]>>] \in X
    BY <2>2
  <2>4. g \in [0 .. k + 1 -> X]
    BY <2>3
  <2>5. /\ g[0] = f[0] /\ g[k] = f[k] /\ g[k + 1] = s[<<k + 1, f[k]>>]
        /\ \A n \in 1 .. k : g[n] = f[n] /\ g[n - 1] = f[n - 1]
    OBVIOUS
  <2> HIDE DEF g
  <2>6. \A n \in 1 .. k + 1 : n \in 1 .. k \/ (n = k + 1 /\ n - 1 = k)
    OBVIOUS
  <2>7. Follows(g, k + 1, x, s)
    BY <2>1, <2>5, <2>6 DEF Follows
  <2> QED
    BY <2>4, <2>7
<1> HIDE DEF S
<1>3. Nat \subseteq S
  BY <1>1, <1>2, SetInduction
<1> QED
  BY <1>3 DEF S

-----------------------------------------------------------------------------
(***************************************************************************)
(* Instructions.                                                           *)
(***************************************************************************)
\* What a process can have in vars, and in vars and m_logs.
Values == 0 .. MaxValue

Memory == UNION {[D -> Values] : D \in SUBSET Text}

Data == [memory : Memory, logs : Seq(Text)]

Opcodes == {"PRINT", "DECLARE", "ADD", "SUBTRACT", "SLEEP", "FOR"}

LEMMA InstructionType ==
  ASSUME NEW i \in FullInstruction
  PROVE  /\ i.op \in Opcodes
         /\ i.op = "PRINT" => i.text \in Text
         /\ i.op \in {"DECLARE", "ADD", "SUBTRACT"} => i.dst \in Text
         /\ i.op \in {"DECLARE", "ADD", "SUBTRACT", "SLEEP"} => i.a \in Token
         /\ i.op \in {"ADD", "SUBTRACT"} => i.b \in Token
BY DEF FullInstruction, Opcodes

LEMMA TokenType ==
  ASSUME NEW t \in Token
  PROVE  \/ t.kind = "literal" /\ t.n \in Int
         \/ t.kind = "sign"
         \/ t.kind = "variable" /\ t.v \in Text
BY DEF Token

\* Of W numbers in a row one is congruent to n modulo W: the remainder.
LEMMA OneCongruent ==
  ASSUME NEW n \in Int, NEW W \in Nat, W > 0, NEW t \in 0 .. W - 1
  PROVE  (n - t) % W = 0 <=> t = n % W
<1>1. n \div W \in Int /\ n % W \in 0 .. W - 1 /\ n = W * (n \div W) + (n % W)
  OBVIOUS
<1>2. /\ (n - t) \div W \in Int /\ (n - t) % W \in 0 .. W - 1
      /\ n - t = W * ((n - t) \div W) + ((n - t) % W)
  OBVIOUS
<1> QED
  BY <1>1, <1>2

\* What becomes of a SLEEP's operand is what the instruction asks for.
LEMMA SleepsForTicks ==
  ASSUME NEW i \in FullInstruction
  PROVE  /\ SleepsFor(i) \in Nat
         /\ i.op = "SLEEP" => SleepTicks(i.a) = SleepsFor(i)
         /\ i.op # "SLEEP" => SleepsFor(i) = 0
<1>1. CASE i.op = "SLEEP" /\ i.a.kind = "literal" /\ i.a.n <= UlongMax /\ -i.a.n <= UlongMax
  <2>1. /\ i.a.n \in Int /\ UlongMax \in Nat /\ SleepWidth \in Nat /\ SleepWidth > 0
    BY <1>1, InstructionType, TokenType, WidthAssumption
  <2> DEFINE n == i.a.n
  <2>2. SleepTicks(i.a) = n % SleepWidth
    BY <1>1, <2>1 DEF SleepTicks, ReadsUlong
  <2>3. SleepsFor(i) = CHOOSE t \in 0 .. SleepWidth - 1 : (n - t) % SleepWidth = 0
    BY <1>1 DEF SleepsFor
  <2> HIDE DEF n
  <2>4. n \in Int
    BY <2>1 DEF n
  <2>5. n % SleepWidth \in 0 .. SleepWidth - 1
    BY <2>1, <2>4
  <2>6. \A t \in 0 .. SleepWidth - 1 : (n - t) % SleepWidth = 0 <=> t = n % SleepWidth
    BY <2>1, <2>4, OneCongruent
  <2>7. (CHOOSE t \in 0 .. SleepWidth - 1 : (n - t) % SleepWidth = 0) = n % SleepWidth
    BY <2>5, <2>6
  <2>8. SleepTicks(i.a) = SleepsFor(i)
    BY <2>2, <2>3, <2>7
  <2>9. SleepsFor(i) \in Nat
    <3>1. n % SleepWidth \in Nat
      BY <2>1, <2>5
    <3> QED
      BY <2>3, <2>7, <3>1
  <2> QED
    BY <1>1, <2>8, <2>9
<1>2. CASE ~(i.op = "SLEEP" /\ i.a.kind = "literal" /\ i.a.n <= UlongMax
               /\ -i.a.n <= UlongMax)
  <2>1. SleepsFor(i) = 0
    BY <1>2 DEF SleepsFor
  <2>2. i.op = "SLEEP" => ~ReadsUlong(i.a)
    BY <1>2, InstructionType, TokenType, WidthAssumption DEF ReadsUlong
  <2> QED
    BY <2>1, <2>2 DEF SleepTicks
<1> QED
  BY <1>1, <1>2

\* A SLEEP of at least one tick.
TakesTime(i) == SleepsFor(i) > 0

LEMMA ControlType ==
  ASSUME NEW i \in FullInstruction
  PROVE  /\ Control(i) \in Instruction
         /\ Control(i).op = "SLEEP" <=> i.op = "SLEEP"
         /\ Control(i).op = "FOR" <=> i.op = "FOR"
         /\ i.op = "SLEEP" => Control(i).ticks = SleepsFor(i)
BY SleepsForTicks, InstructionType DEF Control, Sleep, For, Work, Instruction, Opcodes

LEMMA ControlProgramType ==
  ASSUME code \in Seq(FullInstruction)
  PROVE  /\ ControlProgram \in Seq(Instruction)
         /\ Len(ControlProgram) = Len(code)
         /\ \A n \in 1 .. Len(code) :
              /\ ControlProgram[n].op = "SLEEP" /\ ControlProgram[n].ticks > 0
                   <=> TakesTime(code[n])
              /\ TakesTime(code[n]) => /\ ControlProgram[n].ticks = SleepsFor(code[n])
                                       /\ code[n].op # "FOR"
              /\ ControlProgram[n].op = "FOR" <=> code[n].op = "FOR"
<1>1. /\ DOMAIN code = 1 .. Len(code) /\ Len(code) \in Nat
      /\ \A n \in 1 .. Len(code) : code[n] \in FullInstruction
  OBVIOUS
<1>2. ControlProgram = [n \in 1 .. Len(code) |-> Control(code[n])]
  BY <1>1 DEF ControlProgram
<1>3. \A n \in 1 .. Len(code) : Control(code[n]) \in Instruction
  BY <1>1, ControlType
<1>4. ControlProgram \in Seq(Instruction) /\ Len(ControlProgram) = Len(code)
  BY <1>1, <1>2, <1>3
<1>5. \A n \in 1 .. Len(code) : ControlProgram[n] = Control(code[n])
  BY <1>2
<1> QED
  BY <1>1, <1>4, <1>5, ControlType, SleepsForTicks DEF TakesTime

LEMMA PriceType ==
  ASSUME NEW i \in FullInstruction, NEW d \in Nat
  PROVE  /\ Price(i, d) \in Nat
         /\ TakesTime(i) => Price(i, d) = 1 + SleepsFor(i)
         /\ ~TakesTime(i) => Price(i, d) = 1 + d
BY SleepsForTicks DEF Price, TakesTime

LEMMA CostUnfolds ==
  ASSUME NEW program \in Seq(FullInstruction), NEW d \in Nat
  PROVE  /\ Cost(program, d) \in [0 .. Len(program) -> Nat]
         /\ Cost(program, d)[0] = 0
         /\ \A n \in 1 .. Len(program) :
              Cost(program, d)[n] = Cost(program, d)[n - 1] + Price(program[n], d)
<1> DEFINE N == Len(program)
           s == [p \in (1 .. N) \X Nat |-> p[2] + Price(program[p[1]], d)]
           Unfolded(c) == c = [n \in 0 .. N |-> IF n = 0 THEN 0
                                 ELSE c[n - 1] + Price(program[n], d)]
<1>1. N \in Nat /\ \A n \in 1 .. N : Price(program[n], d) \in Nat
  <2>1. N \in Nat /\ \A n \in 1 .. N : program[n] \in FullInstruction
    OBVIOUS
  <2> QED
    BY <2>1, PriceType
<1>2. s \in [(1 .. N) \X Nat -> Nat]
  BY <1>1
<1>3. PICK f \in [0 .. N -> Nat] : Follows(f, N, 0, s)
  <2> HIDE DEF s
  <2> QED
    BY <1>1, <1>2, Recursion
<1>4. /\ f[0] = 0
      /\ \A n \in 1 .. N : f[n] = f[n - 1] + Price(program[n], d)
  <2>1. \A n \in 1 .. N : f[n - 1] \in Nat
    <3> HIDE DEF N
    <3>1. \A n \in 1 .. N : n - 1 \in 0 .. N
      BY <1>1
    <3> QED
      BY <3>1
  <2>2. ASSUME NEW n \in 1 .. N
        PROVE  s[<<n, f[n - 1]>>] = f[n - 1] + Price(program[n], d)
    <3> DEFINE q == <<n, f[n - 1]>>
    <3>1. q \in (1 .. N) \X Nat /\ q[1] = n /\ q[2] = f[n - 1]
      BY <2>1
    <3> HIDE DEF q
    <3>2. s[q] = q[2] + Price(program[q[1]], d)
      BY <3>1
    <3> QED
      BY <3>1, <3>2 DEF q
  <2> HIDE DEF s
  <2> QED
    BY <1>3, <2>2 DEF Follows
<1>5. Unfolded(f)
  BY <1>1, <1>4
<1>6. Unfolded(Cost(program, d))
  BY <1>5 DEF Cost
<1> QED
  <2> DEFINE c == Cost(program, d)
  <2>1. Unfolded(c)
    BY <1>6
  <2> HIDE DEF c
  <2>2. /\ DOMAIN c = 0 .. N /\ c[0] = 0
        /\ \A n \in 1 .. N : c[n] = c[n - 1] + Price(program[n], d)
    BY <1>1, <2>1
  <2> DEFINE S == {k \in Nat : k <= N => c[k] \in Nat}
  <2>3. \A k \in Nat : k \in S => k + 1 \in S
    BY <1>1, <2>2
  <2>4. 0 \in S
    BY <2>2
  <2>5. Nat \subseteq S
    <3> HIDE DEF S
    <3> QED
      BY <2>3, <2>4, SetInduction
  <2>6. \A k \in 0 .. N : c[k] \in Nat
    BY <1>1, <2>5
  <2>7. c = [n \in 0 .. N |-> c[n]]
    BY <2>1
  <2>8. c \in [0 .. N -> Nat]
    BY <2>6, <2>7
  <2> QED
    BY <2>2, <2>8 DEF c

-----------------------------------------------------------------------------
(***************************************************************************)
(* Memories.  Agrees relates the memory of a process, where reading leaves *)
(* variables that were never assigned, to that of its program's meaning.   *)
(***************************************************************************)
Agrees(m, e) ==
  /\ \A v \in DOMAIN e : v \in DOMAIN m /\ m[v] = e[v]
  /\ \A v \in DOMAIN m \ DOMAIN e : m[v] = 0

LEMMA MemoryType ==
  ASSUME NEW m
  PROVE  m \in Memory <=> /\ m = [v \in DOMAIN m |-> m[v]]
                          /\ DOMAIN m \subseteq Text
                          /\ \A v \in DOMAIN m : m[v] \in Values
<1>1. ASSUME m \in Memory
      PROVE  /\ m = [v \in DOMAIN m |-> m[v]] /\ DOMAIN m \subseteq Text
             /\ \A v \in DOMAIN m : m[v] \in Values
  <2>1. PICK D \in SUBSET Text : m \in [D -> Values]
    BY <1>1 DEF Memory
  <2> QED
    BY <2>1
<1>2. ASSUME m = [v \in DOMAIN m |-> m[v]], DOMAIN m \subseteq Text,
             \A v \in DOMAIN m : m[v] \in Values
      PROVE  m \in Memory
  <2>1. m \in [DOMAIN m -> Values] /\ DOMAIN m \in SUBSET Text
    BY <1>2
  <2> QED
    BY <2>1 DEF Memory
<1> QED
  BY <1>1, <1>2

LEMMA EmptyMemory ==
  <<>> \in Memory /\ DOMAIN <<>> = {}
<1>1. <<>> = [v \in {} |-> v] /\ DOMAIN <<>> = {}
  OBVIOUS
<1> QED
  BY <1>1 DEF Memory

\* clamp_uint16 yields a value, the integer nearest to its argument.
LEMMA ClampIsNearest ==
  ASSUME NEW n \in Int
  PROVE  Clamp(n) \in Values /\ Clamp(n) = Nearest(n)
<1>1. MaxValue \in Nat
  BY DEF MaxValue
<1> QED
  BY <1>1 DEF Clamp, Nearest, Values

LEMMA StoreType ==
  ASSUME NEW m \in Memory, NEW v \in Text, NEW n \in Values
  PROVE  /\ Store(m, v, n) \in Memory
         /\ DOMAIN Store(m, v, n) = DOMAIN m \cup {v}
         /\ Store(m, v, n)[v] = n
         /\ \A w \in DOMAIN m \ {v} : Store(m, v, n)[w] = m[w]
<1>1. DOMAIN m \subseteq Text /\ \A w \in DOMAIN m : m[w] \in Values
  BY MemoryType
<1>2. Store(m, v, n) \in [DOMAIN m \cup {v} -> Values]
  BY <1>1 DEF Store
<1>3. DOMAIN m \cup {v} \in SUBSET Text
  BY <1>1
<1> QED
  BY <1>2, <1>3 DEF Store, Memory

LEMMA StoreZero ==
  ASSUME NEW m \in Memory, NEW v \in Text
  PROVE  /\ Store(m, v, 0) \in Memory
         /\ DOMAIN Store(m, v, 0) = DOMAIN m \cup {v}
         /\ Store(m, v, 0)[v] = 0
         /\ \A w \in DOMAIN m \ {v} : Store(m, v, 0)[w] = m[w]
<1>1. PICK n \in Values : n = 0
  BY DEF Values, MaxValue
<1> QED
  BY <1>1, StoreType

LEMMA TouchAgrees ==
  ASSUME NEW m \in Memory, NEW e \in Memory, Agrees(m, e), NEW t \in Token
  PROVE  Touch(m, t) \in Memory /\ Agrees(Touch(m, t), e)
<1>1. CASE t.kind = "variable" /\ t.v \notin DOMAIN m
  <2>1. Touch(m, t) = Store(m, t.v, 0)
    BY <1>1 DEF Touch
  <2>2. t.v \in Text /\ 0 \in Values
    BY <1>1, TokenType DEF Values, MaxValue
  <2>3. t.v \notin DOMAIN e
    BY <1>1 DEF Agrees
  <2> DEFINE q == Store(m, t.v, 0)
  <2>4. /\ q \in Memory /\ DOMAIN q = DOMAIN m \cup {t.v} /\ q[t.v] = 0
        /\ \A w \in DOMAIN m \ {t.v} : q[w] = m[w]
    BY <2>2, StoreZero
  <2> HIDE DEF q
  <2>5. Agrees(q, e)
    BY <1>1, <2>3, <2>4 DEF Agrees
  <2> QED
    BY <2>1, <2>4, <2>5 DEF q
<1>2. CASE ~(t.kind = "variable" /\ t.v \notin DOMAIN m)
  BY <1>2 DEF Touch
<1> QED
  BY <1>1, <1>2

LEMMA ReadTokenAgrees ==
  ASSUME NEW m \in Memory, NEW e \in Memory, Agrees(m, e), NEW t \in Token
  PROVE  ReadToken(m, t) \in Values /\ ReadToken(m, t) = Value(e, t)
<1>0. 0 \in Values /\ MaxValue \in Nat /\ LongLongMax \in Nat
  BY WidthAssumption DEF Values, MaxValue
<1>1. CASE t.kind = "literal"
  <2>1. t.n \in Int
    BY <1>1, TokenType
  <2>2. Clamp(t.n) = CHOOSE n \in 0 .. MaxValue :
                       \/ n = t.n
                       \/ n = 0 /\ t.n < 0
                       \/ n = MaxValue /\ t.n > MaxValue
    <3> DEFINE Right(n) == \/ n = t.n
                           \/ n = 0 /\ t.n < 0
                           \/ n = MaxValue /\ t.n > MaxValue
    <3>1. Clamp(t.n) \in 0 .. MaxValue /\ Right(Clamp(t.n))
      BY <1>0, <2>1 DEF Clamp
    <3>2. \A n \in 0 .. MaxValue : Right(n) => n = Clamp(t.n)
      BY <1>0, <2>1 DEF Clamp
    <3> QED
      BY <3>1, <3>2
  <2>3. CASE ReadsLongLong(t)
    <3>1. ~(t.n > LongLongMax \/ t.n + LongLongMax < -1)
      BY <1>0, <2>1, <2>3 DEF ReadsLongLong
    <3>2. ReadToken(m, t) = Clamp(t.n)
      BY <1>1, <2>3 DEF ReadToken
    <3> QED
      BY <1>1, <2>1, <2>2, <3>1, <3>2, ClampIsNearest DEF Value
  <2>4. CASE ~ReadsLongLong(t)
    <3>1. t.n > LongLongMax \/ t.n + LongLongMax < -1
      BY <1>0, <1>1, <2>1, <2>4 DEF ReadsLongLong
    <3> QED
      BY <1>0, <1>1, <2>4, <3>1 DEF ReadToken, Value
  <2> QED
    BY <2>3, <2>4
<1>2. CASE t.kind = "variable"
  <2>1. t.v \in Text /\ 0 \in Values
    BY <1>2, TokenType DEF Values, MaxValue
  <2>2. CASE t.v \in DOMAIN m
    <3>1. ReadToken(m, t) = m[t.v]
      BY <1>2, <2>2 DEF ReadToken, Touch
    <3>2. Value(e, t) = m[t.v]
      BY <1>2, <2>2 DEF Value, Agrees
    <3> QED
      BY <2>2, <3>1, <3>2, MemoryType
  <2>3. CASE t.v \notin DOMAIN m
    <3>1. ReadToken(m, t) = 0
      <4>1. Store(m, t.v, 0)[t.v] = 0
        BY <2>1, StoreZero
      <4> QED
        BY <1>2, <2>3, <4>1 DEF ReadToken, Touch
    <3>2. Value(e, t) = 0
      BY <1>2, <2>3 DEF Value, Agrees
    <3> QED
      BY <2>1, <3>1, <3>2
  <2> QED
    BY <2>2, <2>3
<1>3. CASE t.kind = "sign"
  BY <1>0, <1>3 DEF ReadToken, ReadsLongLong, Value
<1> QED
  BY <1>1, <1>2, <1>3, TokenType

LEMMA StoreAgrees ==
  ASSUME NEW m \in Memory, NEW e \in Memory, Agrees(m, e),
         NEW v \in Text, NEW n \in Values
  PROVE  /\ Store(m, v, n) \in Memory /\ Store(e, v, n) \in Memory
         /\ Agrees(Store(m, v, n), Store(e, v, n))
<1> DEFINE p == Store(m, v, n)
           q == Store(e, v, n)
<1>1. /\ p \in Memory /\ DOMAIN p = DOMAIN m \cup {v} /\ p[v] = n
      /\ \A w \in DOMAIN m \ {v} : p[w] = m[w]
  BY StoreType
<1>2. /\ q \in Memory /\ DOMAIN q = DOMAIN e \cup {v} /\ q[v] = n
      /\ \A w \in DOMAIN e \ {v} : q[w] = e[w]
  BY StoreType
<1> HIDE DEF p, q
<1>3. Agrees(p, q)
  BY <1>1, <1>2 DEF Agrees
<1> QED
  BY <1>1, <1>2, <1>3 DEF p, q

\* What execute_tick does to the data of a process is what the instruction means.
SameData(d, e) == d.logs = e.logs /\ Agrees(d.memory, e.memory)

LEMMA ApplyAgrees ==
  ASSUME NEW d \in Data, NEW e \in Data, SameData(d, e), NEW i \in FullInstruction
  PROVE  /\ Apply(d, i) \in Data /\ Result(e, i) \in Data
         /\ SameData(Apply(d, i), Result(e, i))
<1> DEFINE Goal == /\ Apply(d, i) \in Data /\ Result(e, i) \in Data
                   /\ SameData(Apply(d, i), Result(e, i))
<1>1. /\ d.memory \in Memory /\ e.memory \in Memory /\ Agrees(d.memory, e.memory)
      /\ d.logs \in Seq(Text) /\ e.logs \in Seq(Text) /\ d.logs = e.logs
  BY DEF Data, SameData
<1>2. CASE i.op = "PRINT"
  <2>1. i.text \in Text
    BY <1>2, InstructionType
  <2>2. /\ Apply(d, i) = [d EXCEPT !.logs = Append(d.logs, i.text)]
        /\ Result(e, i) = [e EXCEPT !.logs = Append(e.logs, i.text)]
    BY <1>2 DEF Apply, Result
  <2>3. Append(d.logs, i.text) \in Seq(Text)
    BY <1>1, <2>1
  <2> QED
    BY <1>1, <2>2, <2>3 DEF Data, SameData
<1>3. ASSUME NEW m \in Memory, Agrees(m, e.memory), i.dst \in Text,
             NEW n \in Values, Apply(d, i) = [d EXCEPT !.memory = Store(m, i.dst, n)],
             Result(e, i) = [e EXCEPT !.memory = Store(e.memory, i.dst, n)]
      PROVE  Goal
  <2>1. /\ Store(m, i.dst, n) \in Memory /\ Store(e.memory, i.dst, n) \in Memory
        /\ Agrees(Store(m, i.dst, n), Store(e.memory, i.dst, n))
    BY <1>1, <1>3, StoreAgrees
  <2> QED
    BY <1>1, <1>3, <2>1 DEF Data, SameData
<1>4. CASE i.op = "DECLARE"
  <2> DEFINE n == ReadToken(d.memory, i.a)
  <2>1. i.dst \in Text /\ i.a \in Token
    BY <1>4, InstructionType
  <2>2. n \in Values /\ n = Value(e.memory, i.a)
    BY <1>1, <2>1, ReadTokenAgrees
  <2>3. Touch(d.memory, i.a) \in Memory /\ Agrees(Touch(d.memory, i.a), e.memory)
    BY <1>1, <2>1, TouchAgrees
  <2>4. Apply(d, i) = [d EXCEPT !.memory = Store(Touch(d.memory, i.a), i.dst, n)]
    BY <1>4 DEF Apply
  <2>5. Result(e, i) = [e EXCEPT !.memory = Store(e.memory, i.dst, n)]
    BY <1>4, <2>2 DEF Result, Store
  <2> QED
    BY <1>3, <2>1, <2>2, <2>3, <2>4, <2>5
<1>5. CASE i.op \in {"ADD", "SUBTRACT"}
  <2> DEFINE x == ReadToken(d.memory, i.a)
             y == ReadToken(d.memory, i.b)
             z == IF i.op = "ADD" THEN x + y ELSE x - y
             m == Touch(Touch(d.memory, i.a), i.b)
  <2>1. i.dst \in Text /\ i.a \in Token /\ i.b \in Token
    BY <1>5, InstructionType
  <2>2. /\ x \in Values /\ x = Value(e.memory, i.a)
        /\ y \in Values /\ y = Value(e.memory, i.b)
    BY <1>1, <2>1, ReadTokenAgrees
  <2>3. m \in Memory /\ Agrees(m, e.memory)
    BY <1>1, <2>1, TouchAgrees
  <2>4. z \in Int
    BY <2>2 DEF Values
  <2>5. Clamp(z) \in Values /\ Clamp(z) = Nearest(z)
    BY <2>4, ClampIsNearest
  <2>6. Apply(d, i) = [d EXCEPT !.memory = Store(m, i.dst, Clamp(z))]
    BY <1>5 DEF Apply, Arithmetic
  <2>7. Result(e, i) = [e EXCEPT !.memory = Store(e.memory, i.dst, Nearest(z))]
    BY <1>5, <2>2 DEF Result, Store
  <2> QED
    BY <1>3, <2>1, <2>3, <2>5, <2>6, <2>7
<1>6. CASE i.op \in {"SLEEP", "FOR"}
  <2>1. Apply(d, i) = d /\ Result(e, i) = e
    BY <1>6 DEF Apply, Result
  <2> QED
    BY <2>1
<1> QED
  BY <1>2, <1>4, <1>5, <1>6, InstructionType DEF Opcodes

NoData == [memory |-> <<>>, logs |-> <<>>]

LEMMA NoDataType ==
  NoData \in Data /\ SameData(NoData, NoData)
<1>1. <<>> \in Seq(Text)
  OBVIOUS
<1> QED
  BY <1>1, EmptyMemory DEF NoData, Data, SameData, Agrees

LEMMA ResultType ==
  ASSUME NEW e \in Data, NEW i \in FullInstruction
  PROVE  Result(e, i) \in Data
<1>1. SameData(e, e)
  BY DEF SameData, Agrees
<1> QED
  BY <1>1, ApplyAgrees

LEMMA MeaningUnfolds ==
  ASSUME NEW program \in Seq(FullInstruction)
  PROVE  /\ \A n \in 0 .. Len(program) : Meaning(program)[n] \in Data
         /\ Meaning(program)[0] = NoData
         /\ \A n \in 1 .. Len(program) :
              Meaning(program)[n] = Result(Meaning(program)[n - 1], program[n])
<1> DEFINE N == Len(program)
           s == [p \in (1 .. N) \X Data |-> Result(p[2], program[p[1]])]
           Unfolded(c) == c = [n \in 0 .. N |-> IF n = 0 THEN NoData
                                 ELSE Result(c[n - 1], program[n])]
<1>1. N \in Nat /\ \A n \in 1 .. N : program[n] \in FullInstruction
  OBVIOUS
<1>2. s \in [(1 .. N) \X Data -> Data]
  <2> HIDE DEF N
  <2>1. ASSUME NEW p \in (1 .. N) \X Data PROVE Result(p[2], program[p[1]]) \in Data
    <3>1. p[2] \in Data /\ p[1] \in 1 .. N
      OBVIOUS
    <3>2. program[p[1]] \in FullInstruction
      BY <1>1, <3>1
    <3> QED
      BY <3>1, <3>2, ResultType
  <2> QED
    BY <2>1
<1>3. PICK f \in [0 .. N -> Data] : Follows(f, N, NoData, s)
  <2> HIDE DEF s
  <2> QED
    BY <1>1, <1>2, NoDataType, Recursion
<1>4. /\ f[0] = NoData
      /\ \A n \in 1 .. N : f[n] = Result(f[n - 1], program[n])
  <2>1. \A n \in 1 .. N : f[n - 1] \in Data
    <3> HIDE DEF N
    <3>1. \A n \in 1 .. N : n - 1 \in 0 .. N
      BY <1>1
    <3> QED
      BY <3>1
  <2>2. ASSUME NEW n \in 1 .. N
        PROVE  s[<<n, f[n - 1]>>] = Result(f[n - 1], program[n])
    <3> DEFINE q == <<n, f[n - 1]>>
    <3>1. q \in (1 .. N) \X Data /\ q[1] = n /\ q[2] = f[n - 1]
      BY <2>1
    <3> HIDE DEF q
    <3>2. s[q] = Result(q[2], program[q[1]])
      BY <3>1
    <3> QED
      BY <3>1, <3>2 DEF q
  <2> HIDE DEF s
  <2> QED
    BY <1>3, <2>2 DEF Follows
<1>5. Unfolded(f)
  BY <1>1, <1>4
<1>6. Unfolded(Meaning(program))
  BY <1>5 DEF Meaning, NoData
<1> QED
  <2> DEFINE c == Meaning(program)
             S == {k \in Nat : k <= N => c[k] \in Data}
  <2>1. Unfolded(c)
    BY <1>6
  <2> HIDE DEF c
  <2>2. c[0] = NoData /\ \A n \in 1 .. N : c[n] = Result(c[n - 1], program[n])
    BY <1>1, <2>1
  <2>3. ASSUME NEW k \in Nat, k \in S PROVE k + 1 \in S
    <3> SUFFICES ASSUME k + 1 <= N PROVE c[k + 1] \in Data
      OBVIOUS
    <3>1. c[k] \in Data /\ k + 1 \in 1 .. N /\ (k + 1) - 1 = k
      BY <1>1, <2>3
    <3>2. c[k + 1] = Result(c[k], program[k + 1])
      BY <2>2, <3>1
    <3> QED
      BY <1>1, <3>1, <3>2, ResultType
  <2>4. 0 \in S
    BY <2>2, NoDataType
  <2>5. Nat \subseteq S
    <3> HIDE DEF S
    <3> QED
      BY <2>3, <2>4, SetInduction
  <2>6. \A k \in 0 .. N : c[k] \in Data
    BY <1>1, <2>5
  <2> QED
    BY <2>2, <2>6 DEF c

-----------------------------------------------------------------------------
(***************************************************************************)
(* The inductive invariant.                                                *)
(***************************************************************************)
TypeInv ==
  /\ code \in Seq(FullInstruction) /\ delays \in Nat
  /\ block \in ControlBlock /\ block.pc \in 0 .. Len(code)
  /\ data \in Data /\ calls \in Nat

MeaningInv == SameData(data, Meaning(code)[block.pc])

\* The instructions before pc that were counted.
Counted(program, n) == {k \in 1 .. n : ~SleepsOrSkipped(program[k])}

CountInv == block.executed = Cardinality(Counted(code, block.pc))

\* Only a program that is empty or ends in a SLEEP is found at its end by a call
\* of its own.
EndsAsleep == code = <<>> \/ TakesTime(code[Len(code)])

EndInv ==
  /\ block.state = "FINISHED" => block.pc = Len(code)
  /\ block.state # "FINISHED" /\ block.pc = Len(code) => EndsAsleep

Extra == IF block.state = "FINISHED" /\ EndsAsleep THEN 1 ELSE 0

CallsInv == calls = Cost(code, delays)[block.pc] - block.delay - block.sleep + Extra

ProcessInv == TypeInv /\ MeaningInv /\ CountInv /\ EndInv /\ CallsInv

LEMMA InitProcessInv == Init => ProcessInv
<1> SUFFICES ASSUME Init PROVE ProcessInv
  OBVIOUS
<1>1. /\ code \in Seq(FullInstruction) /\ delays \in Nat /\ data = NoData
      /\ calls = 0
  BY ProgramAssumption DEF Init, NoData
<1>2. /\ block \in ControlBlock /\ block.pc = 0 /\ block.sleep = 0
      /\ block.delay = 0 /\ block.executed = 0 /\ block.state = "RUNNING"
  <2>1. /\ {"NEW", "RUNNING"} \subseteq ProcessState /\ 0 \in Nat
    BY DEF ProcessState
  <2> QED
    BY <2>1 DEF Init, NewBlock, ControlBlock
<1>3. Len(code) \in Nat /\ block.pc \in 0 .. Len(code)
  BY <1>1, <1>2
<1>4. TypeInv
  BY <1>1, <1>2, <1>3, NoDataType DEF TypeInv
<1>5. MeaningInv
  BY <1>1, <1>2, MeaningUnfolds, NoDataType DEF MeaningInv
<1>6. CountInv
  <2>1. Counted(code, block.pc) = {}
    BY <1>2 DEF Counted
  <2> QED
    BY <1>2, <2>1, FS_EmptySet DEF CountInv
<1>7. EndInv
  BY <1>1, <1>2 DEF EndInv, EndsAsleep
<1>8. CallsInv
  <2>1. Extra = 0 /\ Cost(code, delays)[block.pc] = 0
    BY <1>1, <1>2, CostUnfolds DEF Extra
  <2> QED
    BY <1>1, <1>2, <2>1 DEF CallsInv
<1> QED
  BY <1>4, <1>5, <1>6, <1>7, <1>8 DEF ProcessInv

(***************************************************************************)
(* What a call does: it waits, or finds the program at its end, or runs    *)
(* the instruction at pc.                                                  *)
(***************************************************************************)
Waits ==
  /\ block'.pc = block.pc /\ block'.executed = block.executed /\ data' = data
  /\ block'.delay + block'.sleep + 1 = block.delay + block.sleep
  /\ block'.state # "FINISHED"

ReachesEnd ==
  /\ block.pc = Len(code)
  /\ block'.pc = block.pc /\ block'.executed = block.executed /\ data' = data
  /\ block.delay + block.sleep = 0 /\ block'.delay + block'.sleep = 0
  /\ block'.state = "FINISHED"

Runs(i) ==
  /\ block.pc + 1 \in 1 .. Len(code) /\ i = code[block.pc + 1]
  /\ block'.pc = block.pc + 1
  /\ data' = Apply(data, i)
  /\ block.delay + block.sleep = 0
  /\ block'.delay + block'.sleep = Price(i, delays) - 1
  /\ block'.executed = IF SleepsOrSkipped(i) THEN block.executed
                       ELSE block.executed + 1
  /\ block'.state = "FINISHED" <=> block'.pc = Len(code) /\ ~TakesTime(i)

LEMMA CallCases ==
  ASSUME TypeInv, CallExecuteTick
  PROVE  /\ block.state # "FINISHED" /\ block' \in ControlBlock
         /\ calls' = calls + 1 /\ code' = code /\ delays' = delays
         /\ \/ Waits
            \/ ReachesEnd
            \/ \E i \in FullInstruction : Runs(i)
<1> DEFINE r == ExecuteTick(block, ControlProgram, delays)
<1>1. /\ block \in ControlBlock /\ block.pc \in Nat /\ block.sleep \in Nat
      /\ block.delay \in Nat /\ block.executed \in Nat /\ delays \in Nat
      /\ Len(code) \in Nat /\ block.pc \in 0 .. Len(code)
      /\ code \in Seq(FullInstruction)
  BY DEF TypeInv, ControlBlock
<1>2. /\ ControlProgram \in Seq(Instruction)
      /\ Len(ControlProgram) = Len(code)
  BY <1>1, ControlProgramType
<1>3. r.block \in ControlBlock /\ TickCase(block, ControlProgram, delays, r.block)
  BY <1>1, <1>2, TickCases
<1>4. /\ block.state # "FINISHED" /\ block' = r.block
      /\ data' = IF r.block.pc = block.pc THEN data
                 ELSE Apply(data, code[block.pc + 1])
      /\ calls' = calls + 1 /\ code' = code /\ delays' = delays
  BY DEF CallExecuteTick
<1> HIDE DEF r
<1>5. /\ block' \in ControlBlock /\ TickCase(block, ControlProgram, delays, block')
      /\ data' = IF block'.pc = block.pc THEN data
                 ELSE Apply(data, code[block.pc + 1])
  BY <1>3, <1>4
<1>6. CASE ServesDelay(block, block') \/ ServesSleep(block, block')
  <2>1. Waits
    BY <1>1, <1>5, <1>6 DEF ServesDelay, ServesSleep, HasFields, Waits
  <2> QED
    BY <1>4, <1>5, <2>1
<1>7. CASE Ends(block, ControlProgram, block')
  <2>1. ReachesEnd
    BY <1>1, <1>2, <1>5, <1>7 DEF Ends, HasFields, ReachesEnd
  <2> QED
    BY <1>4, <1>5, <2>1
<1>8. CASE Sleeps(block, ControlProgram, block')
           \/ Works(block, ControlProgram, delays, block')
  <2> DEFINE i == code[block.pc + 1]
             j == ControlProgram[block.pc + 1]
  <2>1. block.pc + 1 \in 1 .. Len(code)
    BY <1>1, <1>2, <1>8 DEF Sleeps, Works
  <2>2. i \in FullInstruction
    BY <1>1, <2>1
  <2>3. /\ AtSleep(block, ControlProgram) <=> TakesTime(i)
        /\ j.op = "FOR" <=> i.op = "FOR"
        /\ TakesTime(i) => j.ticks = SleepsFor(i) /\ i.op # "FOR"
    BY <1>1, <2>1, ControlProgramType DEF AtSleep
  <2>4. /\ block'.pc = block.pc + 1 /\ block'.pc # block.pc
    BY <1>1, <1>8 DEF Sleeps, Works, HasFields
  <2>5. data' = Apply(data, i)
    BY <1>5, <2>4
  <2>6. SleepsOrSkipped(i) <=> i.op = "FOR" \/ TakesTime(i)
    BY DEF SleepsOrSkipped, TakesTime
  <2>7. TakesTime(i) => i.op # "FOR"
    BY <2>3
  <2>8. /\ TakesTime(i) => Price(i, delays) = 1 + SleepsFor(i)
                           /\ SleepsFor(i) \in Nat
        /\ ~TakesTime(i) => Price(i, delays) = 1 + delays
    BY <1>1, <2>2, PriceType, SleepsForTicks
  <2> HIDE DEF i, j
  <2>9. CASE Sleeps(block, ControlProgram, block')
    <3>1. /\ TakesTime(i) /\ block'.delay = 0 /\ block'.sleep = SleepsFor(i)
          /\ block'.state = "WAITING" /\ block'.executed = block.executed
          /\ block.delay = 0 /\ block.sleep = 0
      BY <2>3, <2>9 DEF Sleeps, HasFields, j
    <3>2. block'.delay + block'.sleep = Price(i, delays) - 1
      BY <1>1, <2>8, <3>1
    <3>3. Runs(i)
      BY <1>1, <2>1, <2>4, <2>5, <2>6, <3>1, <3>2 DEF Runs, i
    <3> QED
      BY <1>4, <1>5, <2>2, <3>3
  <2>10. CASE Works(block, ControlProgram, delays, block')
    <3>1. /\ ~TakesTime(i) /\ block'.delay = delays /\ block'.sleep = 0
          /\ block'.state = IF block.pc + 1 = Len(code) THEN "FINISHED" ELSE "RUNNING"
          /\ block'.executed = IF i.op = "FOR" THEN block.executed
                               ELSE block.executed + 1
          /\ block.delay = 0 /\ block.sleep = 0
      BY <1>2, <2>3, <2>10 DEF Works, HasFields, j
    <3>2. block'.delay + block'.sleep = Price(i, delays) - 1
      BY <1>1, <2>8, <3>1
    <3>3. Runs(i)
      BY <1>1, <2>1, <2>4, <2>5, <2>6, <3>1, <3>2 DEF Runs, i
    <3> QED
      BY <1>4, <1>5, <2>2, <3>3
  <2> QED
    BY <1>8, <2>9, <2>10
<1>9. ~IsOver(block, block')
  BY <1>4 DEF IsOver
<1> QED
  BY <1>5, <1>6, <1>7, <1>8, <1>9 DEF TickCase

LEMMA CountedGrows ==
  ASSUME NEW program, NEW n \in Nat, NEW i, i = program[n + 1]
  PROVE  /\ IsFiniteSet(Counted(program, n))
         /\ Cardinality(Counted(program, n + 1)) =
              IF SleepsOrSkipped(i) THEN Cardinality(Counted(program, n))
              ELSE Cardinality(Counted(program, n)) + 1
<1>1. IsFiniteSet(1 .. n)
  BY FS_Interval
<1>2. IsFiniteSet(Counted(program, n))
  BY <1>1, FS_Subset DEF Counted
<1>3. n + 1 \notin Counted(program, n)
  BY DEF Counted
<1>4. CASE SleepsOrSkipped(i)
  <2>1. Counted(program, n + 1) = Counted(program, n)
    BY <1>4 DEF Counted
  <2> QED
    BY <1>2, <1>4, <2>1
<1>5. CASE ~SleepsOrSkipped(i)
  <2>1. Counted(program, n + 1) = Counted(program, n) \cup {n + 1}
    BY <1>5 DEF Counted
  <2> QED
    BY <1>2, <1>3, <1>5, <2>1, FS_AddElement
<1> QED
  BY <1>4, <1>5

LEMMA CallProcessInv == ProcessInv /\ CallExecuteTick => ProcessInv'
<1> SUFFICES ASSUME ProcessInv, CallExecuteTick PROVE ProcessInv'
  OBVIOUS
<1>1. TypeInv /\ MeaningInv /\ CountInv /\ EndInv /\ CallsInv
  BY DEF ProcessInv
<1>2. /\ block.state # "FINISHED" /\ block' \in ControlBlock
      /\ calls' = calls + 1 /\ code' = code /\ delays' = delays
  BY <1>1, CallCases
<1>3. /\ block.pc \in Nat /\ block.sleep \in Nat /\ block.delay \in Nat
      /\ block.executed \in Nat /\ delays \in Nat /\ calls \in Nat
      /\ Len(code) \in Nat /\ block.pc \in 0 .. Len(code)
      /\ code \in Seq(FullInstruction) /\ data \in Data
  BY <1>1 DEF TypeInv, ControlBlock
<1>4. /\ block'.pc \in Nat /\ block'.sleep \in Nat /\ block'.delay \in Nat
      /\ block'.executed \in Nat
  BY <1>2 DEF ControlBlock
<1> DEFINE cost == Cost(code, delays)
           meaning == Meaning(code)
<1>5. /\ \A n \in 0 .. Len(code) : cost[n] \in Nat
      /\ \A n \in 1 .. Len(code) : cost[n] = cost[n - 1] + Price(code[n], delays)
  BY <1>3, CostUnfolds
<1>6. calls = cost[block.pc] - block.delay - block.sleep
  BY <1>1, <1>2, <1>3, <1>5 DEF CallsInv, Extra
<1>7. Cost(code', delays') = cost /\ Meaning(code') = meaning
  BY <1>2
<1>8. ASSUME block'.pc \in 0 .. Len(code), data' \in Data,
             SameData(data', meaning[block'.pc]),
             block'.executed = Cardinality(Counted(code, block'.pc)), EndInv',
             calls' = cost[block'.pc] - block'.delay - block'.sleep + Extra'
      PROVE  ProcessInv'
  <2>1. TypeInv'
    <3>1. calls' \in Nat
      BY <1>2, <1>3
    <3> QED
      BY <1>2, <1>3, <1>8, <3>1 DEF TypeInv
  <2>2. MeaningInv'
    BY <1>7, <1>8 DEF MeaningInv
  <2>3. CountInv'
    BY <1>2, <1>8 DEF CountInv
  <2>4. CallsInv'
    BY <1>7, <1>8 DEF CallsInv
  <2> QED
    BY <1>8, <2>1, <2>2, <2>3, <2>4 DEF ProcessInv
<1>9. EndsAsleep' <=> EndsAsleep
  BY <1>2 DEF EndsAsleep, TakesTime, SleepsFor
<1> HIDE DEF cost, meaning
<1>10. SameData(data, meaning[block.pc])
       /\ block.executed = Cardinality(Counted(code, block.pc))
  BY <1>1 DEF MeaningInv, CountInv, meaning
<1>11. ASSUME NEW p \in Nat, cost[block'.pc] = cost[block.pc] + p, Extra' = 0,
              block'.delay + block'.sleep + 1 = block.delay + block.sleep + p
       PROVE  calls' = cost[block'.pc] - block'.delay - block'.sleep + Extra'
  <2> DEFINE c == cost[block.pc]
             d == block.delay
             s == block.sleep
             d1 == block'.delay
             s1 == block'.sleep
  <2>1. /\ calls \in Nat /\ c \in Nat /\ d \in Nat /\ s \in Nat
        /\ d1 \in Nat /\ s1 \in Nat
    BY <1>3, <1>4, <1>5
  <2>2. calls = c - d - s /\ d1 + s1 + 1 = d + s + p
    BY <1>6, <1>11
  <2> HIDE DEF c, d, s, d1, s1
  <2>3. calls + 1 = (c + p) - d1 - s1 + 0
    BY <2>1, <2>2
  <2> QED
    BY <1>2, <1>11, <2>3 DEF c, d, s, d1, s1
<1>12. CASE Waits
  <2>1. EndInv' /\ Extra' = 0
    BY <1>1, <1>2, <1>9, <1>12 DEF EndInv, Extra, Waits
  <2>2. /\ block'.pc = block.pc /\ block'.executed = block.executed /\ data' = data
        /\ block'.delay + block'.sleep + 1 = block.delay + block.sleep
    BY <1>12 DEF Waits
  <2>3. /\ cost[block'.pc] = cost[block.pc] + 0
        /\ block'.delay + block'.sleep + 1 = block.delay + block.sleep + 0
    BY <1>3, <1>4, <1>5, <2>2
  <2>4. calls' = cost[block'.pc] - block'.delay - block'.sleep + Extra'
    BY <1>11, <2>1, <2>3
  <2> QED
    BY <1>3, <1>8, <1>10, <2>1, <2>2, <2>4
<1>13. CASE ReachesEnd
  <2>1. EndsAsleep
    BY <1>1, <1>2, <1>13 DEF EndInv, ReachesEnd
  <2>2. EndInv' /\ Extra' = 1
    BY <1>2, <1>9, <1>13, <2>1 DEF EndInv, Extra, ReachesEnd
  <2>3. calls' = cost[block'.pc] - block'.delay - block'.sleep + Extra'
    BY <1>2, <1>3, <1>4, <1>5, <1>6, <1>13, <2>2 DEF ReachesEnd
  <2> QED
    BY <1>3, <1>8, <1>10, <1>13, <2>2, <2>3 DEF ReachesEnd
<1>14. ASSUME NEW i \in FullInstruction, Runs(i) PROVE ProcessInv'
  <2>1. /\ block'.pc = block.pc + 1 /\ i = code[block'.pc]
        /\ block'.pc \in 1 .. Len(code) /\ block'.pc - 1 = block.pc
        /\ block'.pc \in 0 .. Len(code)
    BY <1>3, <1>14 DEF Runs
  <2>2. meaning[block.pc] \in Data
        /\ meaning[block'.pc] = Result(meaning[block.pc], i)
    <3>1. /\ \A n \in 0 .. Len(code) : meaning[n] \in Data
          /\ \A n \in 1 .. Len(code) : meaning[n] = Result(meaning[n - 1], code[n])
      BY <1>3, MeaningUnfolds DEF meaning
    <3> QED
      BY <1>3, <2>1, <3>1
  <2>3. data' = Apply(data, i)
    BY <1>14 DEF Runs
  <2>4. data' \in Data /\ SameData(data', meaning[block'.pc])
    BY <1>3, <1>10, <2>2, <2>3, ApplyAgrees
  <2>5. block'.executed = Cardinality(Counted(code, block'.pc))
    BY <1>3, <1>10, <1>14, <2>1, CountedGrows DEF Runs
  <2>6. block'.pc = Len(code) => (EndsAsleep' <=> TakesTime(i))
    <3>1. code # <<>>
      BY <1>3, <2>1
    <3> QED
      BY <1>9, <2>1, <3>1 DEF EndsAsleep
  <2>7. block'.state = "FINISHED" <=> block'.pc = Len(code) /\ ~TakesTime(i)
    BY <1>14 DEF Runs
  <2>8. EndInv' /\ Extra' = 0
    BY <1>2, <2>6, <2>7 DEF EndInv, Extra
  <2>9. calls' = cost[block'.pc] - block'.delay - block'.sleep + Extra'
    <3>1. /\ cost[block.pc] \in Nat
          /\ cost[block'.pc] = cost[block.pc] + Price(i, delays)
      BY <1>3, <1>5, <2>1
    <3>2. /\ block.delay + block.sleep = 0
          /\ block'.delay + block'.sleep = Price(i, delays) - 1
      BY <1>14 DEF Runs
    <3>3. Price(i, delays) \in Nat
      BY <1>3, PriceType
    <3>4. block'.delay + block'.sleep + 1 = block.delay + block.sleep + Price(i, delays)
      BY <1>3, <1>4, <3>2, <3>3
    <3> QED
      BY <1>11, <2>8, <3>1, <3>3, <3>4
  <2> QED
    BY <1>8, <2>1, <2>4, <2>5, <2>8, <2>9
<1> QED
  BY <1>1, <1>12, <1>13, <1>14, CallCases

LEMMA NextProcessInv == ProcessInv /\ [Next]_vars => ProcessInv'
<1> SUFFICES ASSUME ProcessInv, [Next]_vars PROVE ProcessInv'
  OBVIOUS
<1>1. CASE CallExecuteTick
  BY <1>1, CallProcessInv
<1>2. CASE UNCHANGED vars
  BY <1>2 DEF vars, ProcessInv, TypeInv, MeaningInv, CountInv, EndInv, CallsInv,
    EndsAsleep, Extra, TakesTime, SleepsFor, Counted, SleepsOrSkipped
<1> QED
  BY <1>1, <1>2 DEF Next, Released

LEMMA ProcessInvariant == Spec => []ProcessInv
BY InitProcessInv, NextProcessInv, PTL DEF Spec

-----------------------------------------------------------------------------
(***************************************************************************)
(* The theorems.                                                           *)
(***************************************************************************)
\* execute_tick and the switch of its case 5 keep the control block and every
\* variable in its range, and pc within the program.
THEOREM TypeCorrect == Spec => []TypeOK
<1>1. ProcessInv => TypeOK
  <2> SUFFICES ASSUME ProcessInv PROVE TypeOK
    OBVIOUS
  <2>1. TypeInv
    BY DEF ProcessInv
  <2>2. data.memory \in Memory
    BY <2>1 DEF TypeInv, Data
  <2>3. \A v \in DOMAIN data.memory : data.memory[v] \in Values
    BY <2>2, MemoryType
  <2> QED
    BY <2>1, <2>3 DEF TypeInv, TypeOK, Values
<1> QED
  BY <1>1, ProcessInvariant, PTL

\* Whatever its busy waits and sleeps, a process has at pc the log and the
\* variables that its first pc instructions give, each executed once.
THEOREM ComputesCorrect == Spec => []ComputesItsProgram
<1>1. ProcessInv => ComputesItsProgram
  BY DEF ProcessInv, MeaningInv, SameData, Agrees, ComputesItsProgram
<1> QED
  BY <1>1, ProcessInvariant, PTL

\* A process is called once for each instruction and each tick it waits, and once
\* more only where nothing but that call can find it at its end.
THEOREM CallsCorrect == Spec => []CallsAreAccountedFor
<1>1. ProcessInv => CallsAreAccountedFor
  BY DEF ProcessInv, CallsInv, Extra, EndsAsleep, TakesTime, CallsAreAccountedFor
<1> QED
  BY <1>1, ProcessInvariant, PTL

\* What get_executed_instructions misses of a finished process's total is its
\* FORs and the SLEEPs that slept.
THEOREM ReportCorrect == Spec => []ReportedAsRun
<1>1. ProcessInv => ReportedAsRun
  <2> SUFFICES ASSUME ProcessInv, block.state = "FINISHED"
               PROVE  Progress.total - Progress.executed =
                        Cardinality({n \in DOMAIN code : SleepsOrSkipped(code[n])})
    BY DEF ReportedAsRun
  <2> DEFINE N == Len(code)
             A == {n \in DOMAIN code : SleepsOrSkipped(code[n])}
             C == Counted(code, N)
  <2>1. /\ N \in Nat /\ DOMAIN code = 1 .. N
        /\ block.executed = Cardinality(C) /\ block.executed \in Nat
    BY DEF ProcessInv, TypeInv, ControlBlock, EndInv, CountInv
  <2>2. IsFiniteSet(1 .. N) /\ Cardinality(1 .. N) = N
    <3> HIDE DEF N
    <3>1. IsFiniteSet(1 .. N) /\ Cardinality(1 .. N) = IF 1 > N THEN 0 ELSE N - 1 + 1
      BY <2>1, FS_Interval
    <3> QED
      BY <2>1, <3>1
  <2>3. C \subseteq 1 .. N /\ A = (1 .. N) \ C
    BY <2>1 DEF Counted
  <2>4. (1 .. N) \cap C = C
    BY <2>3
  <2> HIDE DEF A, C, N
  <2>5. Cardinality(A) = N - Cardinality(C)
    <3> DEFINE I == 1 .. N
    <3>1. IsFiniteSet(I) /\ Cardinality(I) = N /\ A = I \ C /\ I \cap C = C
      BY <2>2, <2>3, <2>4
    <3> HIDE DEF I
    <3> QED
      BY <3>1, FS_Difference
  <2>6. Progress.total = N /\ Progress.executed = block.executed
    BY DEF Progress, N
  <2> QED
    BY <2>1, <2>5, <2>6 DEF A
<1> QED
  BY <1>1, ProcessInvariant, PTL

=============================================================================
