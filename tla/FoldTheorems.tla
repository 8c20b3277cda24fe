----------------------------- MODULE FoldTheorems -----------------------------
(***************************************************************************)
(* What the folds of the community modules compute, for any sequence and   *)
(* any finite set.  Step is the operator that is folded; its first         *)
(* argument is the context it is used in (the ledger a block is settled    *)
(* on, for example), so that an INSTANCE without parameters gives these    *)
(* facts for one operator and every context.                               *)
(*                                                                         *)
(* A function that is defined from its smaller values exists and is what   *)
(* its definition says (Recursion).                                        *)
(*                                                                         *)
(* All of this is by induction.  A principle of induction that quantifies *)
(* over predicates cannot be instantiated by the provers; Induction says   *)
(* the same of a set, the numbers of which a predicate holds.              *)
(***************************************************************************)
EXTENDS Integers, Sequences, SequencesExt, FiniteSetTheorems, TLAPS

CONSTANT Step(_, _, _)

\* The value after every element of a sequence, from left to right.
Folded(env, base, seq) == FoldLeft(LAMBDA value, x : Step(env, value, x), base, seq)

\* The value after every element of a set, in the order CHOOSE has.
Gathered(env, base, set) == FoldSet(LAMBDA x, value : Step(env, value, x), base, set)

-----------------------------------------------------------------------------
\* A set of numbers that has 0 and every successor has every number.
LEMMA Induction ==
  ASSUME NEW S, 0 \in S, \A n \in Nat : n \in S => n + 1 \in S
  PROVE  Nat \subseteq S
<1> DEFINE less == StrictSubsetOrdering(Nat)
           T == {0..n : n \in Nat \ S}
<1>1. SUFFICES ASSUME Nat \ S # {} PROVE FALSE
  OBVIOUS
<1>2. PICK m \in T : \A n \in T : <<n, m>> \notin less
  <2>1. IsWellFoundedOn(less, FiniteSubsetsOf(Nat))
    BY FS_StrictSubsetOrderingWellFounded
  <2>2. T \subseteq FiniteSubsetsOf(Nat)
    <3>1. ASSUME NEW n \in Nat \ S
          PROVE  0..n \in FiniteSubsetsOf(Nat)
      <4>1. IsFiniteSet(0..n)
        BY FS_Interval
      <4> QED
        BY <4>1 DEF FiniteSubsetsOf
    <3> QED
      BY <3>1
  <2>3. T # {}
    BY <1>1
  <2> HIDE DEF less, T
  <2> QED
    BY WFMin, <2>1, <2>2, <2>3
<1>3. PICK k \in Nat \ S : m = 0..k
  BY <1>2
<1>4. k # 0 /\ k - 1 \in Nat \ S
  BY <1>3
<1>5. <<0..(k - 1), m>> \in less
  <2>1. 0..(k - 1) \subseteq 0..k /\ 0..(k - 1) # 0..k /\ 0..k \subseteq Nat
    BY <1>3, <1>4
  <2> QED
    BY <1>3, <2>1 DEF StrictSubsetOrdering
<1> QED
  BY <1>2, <1>4, <1>5

-----------------------------------------------------------------------------
(* Sequences.                                                              *)

\* f is what FoldLeft tabulates over the sets of positions of seq up to n.
IsTable(env, base, seq, n, f) ==
  f = [t \in SUBSET (1..n) |->
         IF t = {} THEN base ELSE Step(env, f[t \ {Max(t)}], seq[Max(t)])]

LEMMA MaxOfSegment ==
  ASSUME NEW n \in Nat, NEW t \in SUBSET (1..(n + 1)), n + 1 \in t
  PROVE  Max(t) = n + 1
<1>1. n + 1 \in t /\ \A y \in t : n + 1 >= y
  OBVIOUS
<1>2. \A x \in t : (\A y \in t : x >= y) => x = n + 1
  BY <1>1
<1> QED
  BY <1>1, <1>2 DEF Max

LEMMA TableExists ==
  ASSUME NEW env, NEW base, NEW seq, NEW m \in Nat
  PROVE  \E f : IsTable(env, base, seq, m, f)
<1> DEFINE S == {n \in Nat : \E f : IsTable(env, base, seq, n, f)}
<1>1. 0 \in S
  <2> DEFINE f == [t \in SUBSET (1..0) |-> base]
  <2>1. IsTable(env, base, seq, 0, f)
    BY DEF IsTable
  <2> QED
    BY <2>1
<1>2. ASSUME NEW n \in Nat, n \in S
      PROVE  n + 1 \in S
  <2>1. PICK f : IsTable(env, base, seq, n, f)
    BY <1>2
  <2> DEFINE g == [t \in SUBSET (1..(n + 1)) |->
                     IF n + 1 \in t THEN Step(env, f[t \ {n + 1}], seq[n + 1]) ELSE f[t]]
  <2>2. ASSUME NEW t \in SUBSET (1..(n + 1))
        PROVE  g[t] = IF t = {} THEN base ELSE Step(env, g[t \ {Max(t)}], seq[Max(t)])
    <3>1. CASE n + 1 \in t
      <4>1. Max(t) = n + 1
        BY <3>1, MaxOfSegment
      <4>2. t \ {n + 1} \in SUBSET (1..(n + 1)) /\ n + 1 \notin t \ {n + 1}
        OBVIOUS
      <4>3. g[t \ {n + 1}] = f[t \ {n + 1}]
        BY <4>2
      <4>4. g[t] = Step(env, f[t \ {n + 1}], seq[n + 1])
        BY <3>1
      <4> HIDE DEF g
      <4> QED
        BY <3>1, <4>1, <4>3, <4>4
    <3>2. CASE n + 1 \notin t
      <4>1. t \in SUBSET (1..n)
        BY <3>2
      <4>2. f[t] = IF t = {} THEN base ELSE Step(env, f[t \ {Max(t)}], seq[Max(t)])
        BY <2>1, <4>1 DEF IsTable
      <4>3. t \ {Max(t)} \in SUBSET (1..(n + 1)) /\ n + 1 \notin t \ {Max(t)}
        BY <3>2
      <4>4. g[t \ {Max(t)}] = f[t \ {Max(t)}]
        BY <4>3
      <4>5. g[t] = f[t]
        BY <3>2
      <4> HIDE DEF g
      <4> QED
        BY <4>2, <4>4, <4>5
    <3> QED
      BY <3>1, <3>2
  <2>3. IsTable(env, base, seq, n + 1, g)
    BY <2>2 DEF IsTable
  <2> HIDE DEF g
  <2> QED
    BY <2>3
<1>3. Nat \subseteq S
  <2> HIDE DEF S
  <2> QED
    BY <1>1, <1>2, Induction
<1> QED
  BY <1>3

\* The value after the first i elements of seq.
Prefix(env, base, seq, i) ==
  (CHOOSE f : IsTable(env, base, seq, Len(seq), f))[1..i]

IsSequence(seq) == Len(seq) \in Nat /\ DOMAIN seq = 1..Len(seq)

\* A fold over a sequence goes through a value for each prefix: the first is
\* base, the last is the result, and each follows from the one before.
LEMMA PrefixBase ==
  ASSUME NEW env, NEW base, NEW seq, IsSequence(seq)
  PROVE  Prefix(env, base, seq, 0) = base
<1> DEFINE table == CHOOSE f : IsTable(env, base, seq, Len(seq), f)
<1>1. IsTable(env, base, seq, Len(seq), table)
  BY TableExists DEF IsSequence
<1>2. Prefix(env, base, seq, 0) = table[1..0]
  BY DEF Prefix
<1> HIDE DEF table
<1> QED
  BY <1>1, <1>2 DEF IsTable

LEMMA PrefixStep ==
  ASSUME NEW env, NEW base, NEW seq, IsSequence(seq), NEW i \in 1..Len(seq)
  PROVE  Prefix(env, base, seq, i) = Step(env, Prefix(env, base, seq, i - 1), seq[i])
<1> DEFINE table == CHOOSE f : IsTable(env, base, seq, Len(seq), f)
<1>1. IsTable(env, base, seq, Len(seq), table)
  BY TableExists DEF IsSequence
<1>2. \A j : Prefix(env, base, seq, j) = table[1..j]
  BY DEF Prefix
<1> HIDE DEF table
<1>3. /\ 1..i \in SUBSET (1..Len(seq)) /\ 1..i # {}
      /\ i - 1 \in Nat /\ (i - 1) + 1 = i /\ (1..i) \ {i} = 1..(i - 1)
  BY DEF IsSequence
<1>4. Max(1..i) = i
  <2> DEFINE k == i - 1
  <2>1. k \in Nat /\ 1..i \in SUBSET (1..(k + 1)) /\ k + 1 \in 1..i /\ k + 1 = i
    BY <1>3
  <2> HIDE DEF k
  <2> QED
    BY <2>1, MaxOfSegment
<1>5. table[1..i] = Step(env, table[(1..i) \ {Max(1..i)}], seq[Max(1..i)])
  BY <1>1, <1>3 DEF IsTable
<1> QED
  BY <1>2, <1>3, <1>4, <1>5

\* The values depend on nothing but the elements passed.
LEMMA PrefixAgrees ==
  ASSUME NEW env, NEW base, NEW seq, IsSequence(seq), NEW other, IsSequence(other),
         NEW m \in Nat, m <= Len(seq), m <= Len(other), \A i \in 1..m : seq[i] = other[i]
  PROVE  Prefix(env, base, seq, m) = Prefix(env, base, other, m)
<1> DEFINE S == {n \in Nat : n <= m => Prefix(env, base, seq, n) = Prefix(env, base, other, n)}
<1>1. 0 \in S
  BY PrefixBase
<1>2. ASSUME NEW n \in Nat, n \in S
      PROVE  n + 1 \in S
  <2> SUFFICES ASSUME n + 1 <= m
               PROVE  Prefix(env, base, seq, n + 1) = Prefix(env, base, other, n + 1)
    OBVIOUS
  <2>1. n + 1 \in 1..Len(seq) /\ n + 1 \in 1..Len(other) /\ n + 1 \in 1..m /\ (n + 1) - 1 = n
    BY DEF IsSequence
  <2>2. Prefix(env, base, seq, n) = Prefix(env, base, other, n)
    BY <1>2, <2>1
  <2>3. /\ Prefix(env, base, seq, n + 1) = Step(env, Prefix(env, base, seq, n), seq[n + 1])
        /\ Prefix(env, base, other, n + 1) = Step(env, Prefix(env, base, other, n), other[n + 1])
    <3> DEFINE k == n + 1
    <3>1. k \in 1..Len(seq) /\ k \in 1..Len(other) /\ k - 1 = n
      BY <2>1
    <3> HIDE DEF k
    <3>2. Prefix(env, base, seq, k) = Step(env, Prefix(env, base, seq, k - 1), seq[k])
      BY <3>1, PrefixStep
    <3>3. Prefix(env, base, other, k) = Step(env, Prefix(env, base, other, k - 1), other[k])
      BY <3>1, PrefixStep
    <3> QED
      BY <3>1, <3>2, <3>3 DEF k
  <2> QED
    BY <2>1, <2>2, <2>3
<1>3. Nat \subseteq S
  <2> HIDE DEF S
  <2> QED
    BY <1>1, <1>2, Induction
<1> QED
  BY <1>3

LEMMA FoldedIsPrefix ==
  ASSUME NEW env, NEW base, NEW seq, IsSequence(seq)
  PROVE  Folded(env, base, seq) = Prefix(env, base, seq, Len(seq))
BY DEF Folded, FoldLeft, MapThenFoldSet, IsTable, IsSequence, Prefix

-----------------------------------------------------------------------------
(* Sets.                                                                   *)

Some(t) == CHOOSE x \in t : TRUE

\* f is what FoldSet tabulates over the subsets of U of at most n elements.
IsTally(env, base, U, n, f) ==
  f = [t \in {t \in SUBSET U : Cardinality(t) <= n} |->
         IF t = {} THEN base ELSE Step(env, f[t \ {Some(t)}], Some(t))]

LEMMA TallyExists ==
  ASSUME NEW env, NEW base, NEW U, IsFiniteSet(U), NEW m \in Nat
  PROVE  \E f : IsTally(env, base, U, m, f)
<1> DEFINE Small(n) == {t \in SUBSET U : Cardinality(t) <= n}
           S == {n \in Nat : \E f : IsTally(env, base, U, n, f)}
<1>1. ASSUME NEW t \in SUBSET U
      PROVE  /\ Cardinality(t) \in Nat
             /\ t = {} <=> Cardinality(t) = 0
             /\ t # {} => /\ t \ {Some(t)} \in SUBSET U
                          /\ Cardinality(t \ {Some(t)}) = Cardinality(t) - 1
  <2>1. IsFiniteSet(t)
    BY FS_Subset
  <2>2. Cardinality(t) \in Nat /\ (t = {} <=> Cardinality(t) = 0)
    BY <2>1, FS_CardinalityType, FS_EmptySet
  <2>3. t # {} => Some(t) \in t
    BY DEF Some
  <2> QED
    BY <2>1, <2>2, <2>3, FS_RemoveElement
<1>2. 0 \in S
  <2> DEFINE f == [t \in Small(0) |-> base]
  <2>1. \A t \in Small(0) : t = {}
    <3>1. ASSUME NEW t \in Small(0)
          PROVE  t = {}
      <4>1. t \in SUBSET U /\ Cardinality(t) <= 0
        OBVIOUS
      <4>2. Cardinality(t) \in Nat /\ (t = {} <=> Cardinality(t) = 0)
        BY <1>1, <4>1
      <4> QED
        BY <4>1, <4>2
    <3> QED
      BY <3>1
  <2>2. IsTally(env, base, U, 0, f)
    BY <2>1 DEF IsTally
  <2> QED
    BY <2>2
<1>3. ASSUME NEW n \in Nat, n \in S
      PROVE  n + 1 \in S
  <2>1. PICK f : IsTally(env, base, U, n, f)
    BY <1>3
  <2> DEFINE g == [t \in Small(n + 1) |->
                     IF t = {} THEN base ELSE Step(env, f[t \ {Some(t)}], Some(t))]
  <2>2. ASSUME NEW t \in Small(n)
        PROVE  t \in Small(n + 1) /\ g[t] = f[t]
    <3>1. t \in Small(n + 1)
      <4>1. t \in SUBSET U /\ Cardinality(t) <= n
        OBVIOUS
      <4>2. Cardinality(t) \in Nat
        BY <1>1, <4>1
      <4> QED
        BY <4>1, <4>2
    <3>2. f[t] = IF t = {} THEN base ELSE Step(env, f[t \ {Some(t)}], Some(t))
      BY <2>1 DEF IsTally
    <3> QED
      BY <3>1, <3>2
  <2>3. ASSUME NEW t \in Small(n + 1), t # {}
        PROVE  g[t \ {Some(t)}] = f[t \ {Some(t)}]
    <3>1. t \ {Some(t)} \in Small(n)
      BY <1>1, <2>3
    <3> QED
      BY <2>2, <3>1
  <2>4. g = [t \in Small(n + 1) |->
               IF t = {} THEN base ELSE Step(env, g[t \ {Some(t)}], Some(t))]
    BY <2>3
  <2>5. IsTally(env, base, U, n + 1, g)
    BY <2>4 DEF IsTally
  <2> HIDE DEF g
  <2> QED
    BY <2>5
<1>4. Nat \subseteq S
  <2> HIDE DEF S
  <2> QED
    BY <1>2, <1>3, Induction
<1> QED
  BY <1>4

\* The value after the elements of the part t of U.
Tabulates(env, base, U, f) ==
  f = [t \in SUBSET U |-> IF t = {} THEN base ELSE Step(env, f[t \ {Some(t)}], Some(t))]

Part(env, base, U, t) == (CHOOSE f : Tabulates(env, base, U, f))[t]

LEMMA Tabulated ==
  ASSUME NEW env, NEW base, NEW U, IsFiniteSet(U)
  PROVE  \E f : Tabulates(env, base, U, f)
<1>1. Cardinality(U) \in Nat
  BY FS_CardinalityType
<1>2. PICK f : IsTally(env, base, U, Cardinality(U), f)
  BY <1>1, TallyExists
<1>3. {t \in SUBSET U : Cardinality(t) <= Cardinality(U)} = SUBSET U
  BY FS_Subset
<1> QED
  BY <1>2, <1>3 DEF IsTally, Tabulates

\* A fold over a finite set goes through a value for each part of it; that of
\* a non-empty one follows from that of the part without one element.
LEMMA PartBase ==
  ASSUME NEW env, NEW base, NEW U, IsFiniteSet(U)
  PROVE  Part(env, base, U, {}) = base
<1> DEFINE table == CHOOSE f : Tabulates(env, base, U, f)
<1>1. Tabulates(env, base, U, table)
  BY Tabulated
<1>2. Part(env, base, U, {}) = table[{}]
  BY DEF Part
<1> HIDE DEF table
<1> QED
  BY <1>1, <1>2 DEF Tabulates

LEMMA PartStep ==
  ASSUME NEW env, NEW base, NEW U, IsFiniteSet(U), NEW t \in SUBSET U, t # {},
         NEW x, x = Some(t)
  PROVE  x \in t /\ Part(env, base, U, t) = Step(env, Part(env, base, U, t \ {x}), x)
<1> DEFINE table == CHOOSE f : Tabulates(env, base, U, f)
<1>1. Tabulates(env, base, U, table)
  BY Tabulated
<1>2. \A s : Part(env, base, U, s) = table[s]
  BY DEF Part
<1> HIDE DEF table
<1>3. x \in t
  BY DEF Some
<1> QED
  BY <1>1, <1>2, <1>3 DEF Tabulates

LEMMA GatheredIsPart ==
  ASSUME NEW env, NEW base, NEW U
  PROVE  Gathered(env, base, U) = Part(env, base, U, U)
BY DEF Gathered, FoldSet, MapThenFoldSet, Some, Tabulates, Part

\* What a fold makes of a set depends on nothing else: neither on the set it is
\* a part of, nor on what the context says of other elements.
LEMMA PartAgrees ==
  ASSUME NEW env, NEW other, NEW base, NEW U, IsFiniteSet(U), NEW V, IsFiniteSet(V),
         NEW W, W \subseteq U, W \subseteq V,
         \A x \in W : \A value : Step(env, value, x) = Step(other, value, x)
  PROVE  Part(env, base, U, W) = Part(other, base, V, W)
<1> DEFINE Same(t) == Part(env, base, U, t) = Part(other, base, V, t)
           S == {n \in Nat : \A t \in SUBSET W : Cardinality(t) = n => Same(t)}
<1>1. ASSUME NEW t \in SUBSET W
      PROVE  IsFiniteSet(t) /\ Cardinality(t) \in Nat
  <2>1. IsFiniteSet(t)
    BY FS_Subset
  <2> QED
    BY <2>1, FS_CardinalityType
<1>2. 0 \in S
  <2>1. \A t \in SUBSET W : Cardinality(t) = 0 => t = {}
    BY <1>1, FS_EmptySet
  <2>2. Same({})
    BY PartBase
  <2> HIDE DEF Same
  <2> QED
    BY <2>1, <2>2
<1>3. ASSUME NEW n \in Nat, n \in S
      PROVE  n + 1 \in S
  <2>1. ASSUME NEW t \in SUBSET W, Cardinality(t) = n + 1
        PROVE  Same(t)
    <3> DEFINE x == Some(t)
    <3>1. t # {}
      BY <2>1, FS_EmptySet
    <3>2. /\ x \in t
          /\ Part(env, base, U, t) = Step(env, Part(env, base, U, t \ {x}), x)
      BY <3>1, PartStep
    <3>3. Part(other, base, V, t) = Step(other, Part(other, base, V, t \ {x}), x)
      BY <3>1, PartStep
    <3> HIDE DEF x
    <3>4. Cardinality(t \ {x}) = n
      BY <1>1, <2>1, <3>2, FS_RemoveElement
    <3>5. Same(t \ {x})
      BY <1>3, <3>4
    <3> QED
      BY <3>2, <3>3, <3>5
  <2> HIDE DEF Same
  <2> QED
    BY <2>1
<1>4. Nat \subseteq S
  <2> HIDE DEF S
  <2> QED
    BY <1>2, <1>3, Induction
<1>5. Cardinality(W) \in S
  <2> HIDE DEF S
  <2> QED
    BY <1>1, <1>4
<1> QED
  BY <1>5

-----------------------------------------------------------------------------
(* Functions that are defined from their smaller values.  Here Step gives  *)
(* the value at its third argument from the function.                      *)

\* Step looks at smaller arguments only.
LooksBack(env) ==
  \A n \in Nat : \A f, g :
    (\A k \in Nat : k < n => f[k] = g[k]) => Step(env, f, n) = Step(env, g, n)

\* f is what is defined, up to n.
Begins(env, n, f) == \A k \in 0..n : f[k] = Step(env, f, k)

LEMMA BeginningsExist ==
  ASSUME NEW env, LooksBack(env), NEW m \in Nat
  PROVE  \E f : Begins(env, m, f)
<1> DEFINE S == {n \in Nat : \E f : Begins(env, n, f)}
<1>1. 0 \in S
  <2> DEFINE f == [k \in {0} |-> Step(env, << >>, 0)]
  <2>1. Step(env, f, 0) = Step(env, << >>, 0)
    BY DEF LooksBack
  <2>2. Begins(env, 0, f)
    BY <2>1 DEF Begins
  <2> HIDE DEF f
  <2> QED
    BY <2>2
<1>2. ASSUME NEW n \in Nat, n \in S
      PROVE  n + 1 \in S
  <2>1. PICK f : Begins(env, n, f)
    BY <1>2
  <2> DEFINE g == [k \in 0..(n + 1) |-> IF k = n + 1 THEN Step(env, f, n + 1) ELSE f[k]]
  <2>2. \A k \in 0..n : g[k] = f[k]
    OBVIOUS
  <2>3. g[n + 1] = Step(env, f, n + 1)
    OBVIOUS
  <2> HIDE DEF g
  <2>4. ASSUME NEW k \in 0..(n + 1)
        PROVE  Step(env, g, k) = Step(env, f, k)
    <3>1. k \in Nat /\ \A j \in Nat : j < k => g[j] = f[j]
      BY <2>2
    <3> QED
      BY <3>1 DEF LooksBack
  <2>5. Begins(env, n + 1, g)
    BY <2>1, <2>2, <2>3, <2>4 DEF Begins
  <2> QED
    BY <2>5
<1>3. Nat \subseteq S
  <2> HIDE DEF S
  <2> QED
    BY <1>1, <1>2, Induction
<1> QED
  BY <1>3

LEMMA BeginningsAgree ==
  ASSUME NEW env, LooksBack(env), NEW m \in Nat, NEW n \in Nat, m <= n,
         NEW f, Begins(env, m, f), NEW g, Begins(env, n, g)
  PROVE  f[m] = g[m]
<1> DEFINE S == {j \in Nat : \A k \in 0..j : k <= m => f[k] = g[k]}
<1>1. ASSUME NEW k \in 0..m, \A j \in Nat : j < k => f[j] = g[j]
      PROVE  f[k] = g[k]
  <2>1. Step(env, f, k) = Step(env, g, k)
    BY <1>1 DEF LooksBack
  <2> QED
    BY <2>1 DEF Begins
<1>2. 0 \in S
  BY <1>1
<1>3. ASSUME NEW j \in Nat, j \in S
      PROVE  j + 1 \in S
  BY <1>1, <1>3
<1>4. Nat \subseteq S
  <2> HIDE DEF S
  <2> QED
    BY <1>2, <1>3, Induction
<1>5. m \in S
  BY <1>4
<1> QED
  BY <1>5

\* So the function exists,
LEMMA Recursion ==
  ASSUME NEW env, LooksBack(env)
  PROVE  \E f : f = [n \in Nat |-> Step(env, f, n)]
<1> DEFINE from(n) == CHOOSE f : Begins(env, n, f)
           f == [n \in Nat |-> from(n)[n]]
<1>1. \A n \in Nat : Begins(env, n, from(n))
  BY BeginningsExist
<1>2. ASSUME NEW n \in Nat
      PROVE  f[n] = Step(env, f, n)
  <2> HIDE DEF from
  <2>1. f[n] = Step(env, from(n), n)
    BY <1>1 DEF Begins
  <2>2. \A k \in Nat : k < n => f[k] = from(n)[k]
    BY <1>1, BeginningsAgree
  <2> HIDE DEF f
  <2> QED
    BY <2>1, <2>2 DEF LooksBack
<1>3. f = [n \in Nat |-> Step(env, f, n)]
  <2> HIDE DEF from
  <2>1. f = [n \in Nat |-> f[n]]
    OBVIOUS
  <2> HIDE DEF f
  <2> QED
    BY <1>2, <2>1
<1> QED
  BY <1>3

\* and its values are in a set that Step does not leave.
LEMMA RecursionStays ==
  ASSUME NEW env, NEW T, NEW f, f = [n \in Nat |-> Step(env, f, n)],
         \A n \in Nat : (\A k \in Nat : k < n => f[k] \in T) => Step(env, f, n) \in T
  PROVE  \A n \in Nat : f[n] \in T
<1> DEFINE S == {n \in Nat : \A k \in 0..n : f[k] \in T}
<1>1. \A n \in Nat : f[n] = Step(env, f, n)
  OBVIOUS
<1>2. \A n \in Nat : (\A k \in Nat : k < n => f[k] \in T) => f[n] \in T
  BY <1>1
<1>3. 0 \in S
  BY <1>2
<1>4. \A n \in Nat : n \in S => n + 1 \in S
  BY <1>2
<1>5. Nat \subseteq S
  <2> HIDE DEF S
  <2> QED
    BY <1>3, <1>4, Induction
<1> QED
  BY <1>5

=============================================================================
