-------------------------------- MODULE Lemmas --------------------------------
(***************************************************************************)
(* What the proofs of several components rest on: numbers, sequences and   *)
(* finite sets and sums.  An induction over numbers is an argument about   *)
(* the least number for which a statement would fail; EveryNumber and      *)
(* EverySubset put it in terms of the set of those for which it holds.     *)
(***************************************************************************)
EXTENDS Integers, Sequences, FiniteSets, SequencesExt, Functions,
        FiniteSetTheorems, SequenceTheorems, WellFoundedInduction, TLAPS

(* A set of numbers that has one has a least one. *)
LEMMA LeastIsThere ==
    ASSUME NEW S \in SUBSET Nat, S # {}
    PROVE  \E n \in S : \A m \in S : n <= m
<1>1. PICK n \in S : \A m \in S : ~(<<m, n>> \in OpToRel(<, Nat))
    BY WFMin, NatLessThanWellFounded
<1>2. \A m \in S : ~(m < n)
    BY <1>1 DEF OpToRel
<1> QED BY <1>2

(* A sequence is one of whatever its elements are in. *)
LEMMA SequenceOf ==
    ASSUME NEW S, NEW T, NEW q \in Seq(S), \A i \in DOMAIN q : q[i] \in T
    PROVE  q \in Seq(T)
<1>1. Len(q) \in Nat /\ DOMAIN q = 1..Len(q) /\ q = [i \in 1..Len(q) |-> q[i]]
    BY SeqDef, LenProperties
<1>2. q \in [1..Len(q) -> T]
    BY <1>1
<1> QED BY <1>1, <1>2, SeqDef

(* The elements of a finite set, one after the other. *)
LEMMA SetToSeqCovers ==
    ASSUME NEW S, IsFiniteSet(S)
    PROVE  SetToSeq(S) \in Seq(S) /\ \A x \in S : \E i \in 1..Len(SetToSeq(S)) : SetToSeq(S)[i] = x
<1> DEFINE n == Cardinality(S)
<1>1. n \in Nat /\ ExistsBijection(1..n, S)
    BY FS_CardinalityType
<1>2. \E f \in [1..n -> S] : IsInjective(f)
    BY <1>1 DEF ExistsBijection, Bijection, Injection
<1>3. SetToSeq(S) \in [1..n -> S] /\ IsInjective(SetToSeq(S))
    BY <1>2 DEF SetToSeq
<1> HIDE DEF n
<1>4. SetToSeq(S) \in Injection(1..n, S)
    BY <1>3 DEF Injection
<1>5. IsFiniteSet(1..n) /\ Cardinality(1..n) = n
    BY <1>1, FS_Interval
<1>6. SetToSeq(S) \in Surjection(1..n, S)
    BY <1>4, <1>5, FS_Injection DEF n
<1>7. SetToSeq(S) \in Seq(S) /\ Len(SetToSeq(S)) = n
    BY <1>1, <1>3, SeqDef, LenProperties
<1> QED BY <1>6, <1>7 DEF Surjection

(* A set of numbers that has one has a greatest one, when something bounds them. *)
LEMMA GreatestIsThere ==
    ASSUME NEW n \in Nat, NEW S \in SUBSET (0..n), S # {}
    PROVE  Max(S) \in S /\ \A k \in S : k <= Max(S)
<1> DEFINE T == {n - m : m \in S}
<1>1. T \in SUBSET Nat /\ T # {}
    <2>1. \A m \in S : n - m \in Nat
        OBVIOUS
    <2> QED BY <2>1
<1>2. PICK x \in T : \A y \in T : x <= y
    <2> HIDE DEF T
    <2> QED BY <1>1, LeastIsThere
<1>3. PICK m \in S : x = n - m
    OBVIOUS
<1>4. \A k \in S : m >= k
    <2> TAKE k \in S
    <2>1. n - m <= n - k
        BY <1>2, <1>3
    <2> QED BY <2>1
<1>5. Max(S) \in S /\ \A k \in S : Max(S) >= k
    BY <1>4 DEF Max
<1> QED BY <1>5

(* What is in all is what is in p and what is in q. *)
Joins(all, p, q) ==
    /\ \A i \in DOMAIN p : \E j \in DOMAIN all : all[j] = p[i]
    /\ \A i \in DOMAIN q : \E j \in DOMAIN all : all[j] = q[i]
    /\ \A j \in DOMAIN all : (\E i \in DOMAIN p : all[j] = p[i]) \/ (\E i \in DOMAIN q : all[j] = q[i])

LEMMA ConcatJoins ==
    ASSUME NEW S, NEW p \in Seq(S), NEW q \in Seq(S)
    PROVE  Joins(p \o q, p, q)
<1> DEFINE all == p \o q
<1>1. /\ Len(p) \in Nat /\ DOMAIN p = 1..Len(p) /\ Len(q) \in Nat /\ DOMAIN q = 1..Len(q)
      /\ all \in Seq(S) /\ Len(all) = Len(p) + Len(q)
      /\ \A i \in 1 .. Len(p) + Len(q) : all[i] = IF i <= Len(p) THEN p[i] ELSE q[i - Len(p)]
    BY LenProperties, ConcatProperties
<1>2. DOMAIN all = 1..(Len(p) + Len(q))
    BY <1>1, LenProperties
<1> HIDE DEF all
<1>3. ASSUME NEW i \in DOMAIN p PROVE i \in DOMAIN all /\ all[i] = p[i]
    BY <1>1, <1>2
<1>4. ASSUME NEW i \in DOMAIN q PROVE \E j \in DOMAIN all : all[j] = q[i]
    <2>1. i + Len(p) \in DOMAIN all /\ ~(i + Len(p) <= Len(p)) /\ i + Len(p) - Len(p) = i
        BY <1>1, <1>2
    <2>2. all[i + Len(p)] = q[i]
        BY <1>1, <1>2, <2>1
    <2> QED BY <2>1, <2>2
<1>5. ASSUME NEW j \in DOMAIN all
      PROVE  (\E i \in DOMAIN p : all[j] = p[i]) \/ (\E i \in DOMAIN q : all[j] = q[i])
    <2>1. CASE j <= Len(p)
        BY <1>1, <1>2, <2>1
    <2>2. CASE ~(j <= Len(p))
        <3>1. j - Len(p) \in DOMAIN q
            BY <1>1, <1>2, <2>2
        <3>2. all[j] = q[j - Len(p)]
            BY <1>1, <1>2, <2>2
        <3> QED BY <3>1, <3>2
    <2> QED BY <2>1, <2>2
<1>6. Joins(all, p, q)
    BY <1>3, <1>4, <1>5 DEF Joins
<1> QED BY <1>6 DEF all

(* A function on the first numbers is a sequence. *)
LEMMA ASequence ==
    ASSUME NEW S, NEW n \in Nat, NEW f \in [1..n -> S]
    PROVE  f \in Seq(S) /\ Len(f) = n /\ DOMAIN f = 1..n
<1>1. f \in Seq(S)
    BY SeqDef
<1>2. DOMAIN f = 1..n /\ DOMAIN f = 1..Len(f) /\ Len(f) \in Nat
    BY <1>1, LenProperties
<1> QED BY <1>1, <1>2
-----------------------------------------------------------------------------
(* Induction over the numbers, for a set of numbers. *)
LEMMA EveryNumber ==
    ASSUME NEW G, 0 \in G, \A n \in Nat : n \in G => n + 1 \in G
    PROVE  Nat \subseteq G
<1> DEFINE Bad == {n \in Nat : n \notin G}
<1>1. SUFFICES Bad = {}
    OBVIOUS
<1>2. SUFFICES ASSUME Bad # {} PROVE FALSE
    OBVIOUS
<1>3. PICK n \in Bad : \A m \in Bad : n <= m
    BY <1>2, LeastIsThere
<1>4. n # 0 /\ n \in Nat
    BY <1>3
<1>5. n - 1 \in Nat /\ n - 1 \in G
    BY <1>3, <1>4
<1>6. n - 1 + 1 \in G
    BY <1>5
<1> QED BY <1>3, <1>4, <1>6

(* Induction over the subsets of a finite set, for a set of them. *)
LEMMA EverySubset ==
    ASSUME NEW S, IsFiniteSet(S), NEW G, {} \in G,
           \A T \in SUBSET S : T # {} /\ (\A x \in T : T \ {x} \in G) => T \in G
    PROVE  \A T \in SUBSET S : T \in G
<1> DEFINE Good == {n \in Nat : \A T \in SUBSET S : Cardinality(T) = n => T \in G}
<1>1. \A T \in SUBSET S : IsFiniteSet(T) /\ Cardinality(T) \in Nat
    BY FS_Subset, FS_CardinalityType
<1>2. 0 \in Good
    BY <1>1, FS_EmptySet
<1>3. ASSUME NEW n \in Nat, n \in Good
      PROVE  n + 1 \in Good
    <2>1. ASSUME NEW T \in SUBSET S, Cardinality(T) = n + 1
          PROVE  T \in G
        <3>1. T # {}
            <4>1. Cardinality(T) # 0
                BY <1>3, <2>1
            <4> QED BY <4>1, FS_EmptySet
        <3>2. ASSUME NEW x \in T
              PROVE  T \ {x} \in G
            <4>1. Cardinality(T \ {x}) = Cardinality(T) - 1
                BY <1>1, <3>2, FS_RemoveElement
            <4>2. Cardinality(T \ {x}) = n
                BY <1>3, <2>1, <4>1
            <4> QED BY <1>3, <4>2
        <3> QED BY <3>1, <3>2
    <2> QED BY <2>1
<1>4. Nat \subseteq Good
    <2> HIDE DEF Good
    <2> QED BY <1>2, <1>3, EveryNumber
<1> QED BY <1>1, <1>4

(* Induction over the sequences, one element more at the end, for a set of them. *)
LEMMA EverySequence ==
    ASSUME NEW S, NEW G, <<>> \in G, \A s \in Seq(S), x \in S : s \in G => Append(s, x) \in G
    PROVE  Seq(S) \subseteq G
<1> DEFINE Good == {n \in Nat : \A s \in Seq(S) : Len(s) = n => s \in G}
<1>1. 0 \in Good
    BY EmptySeq
<1>2. ASSUME NEW n \in Nat, n \in Good
      PROVE  n + 1 \in Good
    <2>1. ASSUME NEW s \in Seq(S), Len(s) = n + 1
          PROVE  s \in G
        <3>1. s # <<>>
            BY <1>2, <2>1, EmptySeq
        <3>2. PICK t \in Seq(S), x \in S : s = Append(t, x)
            BY <3>1, SequenceEmptyOrAppend
        <3>3. Len(t) \in Nat /\ Len(s) = Len(t) + 1
            BY <3>2, AppendProperties, LenProperties
        <3>4. t \in G
            BY <1>2, <2>1, <3>3
        <3> QED BY <3>2, <3>4
    <2> QED BY <2>1
<1>3. Nat \subseteq Good
    <2> HIDE DEF Good
    <2> QED BY <1>1, <1>2, EveryNumber
<1>4. \A s \in Seq(S) : Len(s) \in Nat
    BY LenProperties
<1> QED BY <1>3, <1>4

(* What a function makes of a finite set is finite. *)
LEMMA ImageIsFinite ==
    ASSUME NEW S, IsFiniteSet(S), NEW f
    PROVE  IsFiniteSet({f[x] : x \in S})
<1> DEFINE image(T) == {f[x] : x \in T}
           G == {T \in SUBSET S : IsFiniteSet(image(T))}
<1>1. {} \in G
    <2>1. image({}) = {}
        OBVIOUS
    <2> QED BY <2>1, FS_EmptySet
<1>2. ASSUME NEW T \in SUBSET S, T # {}, \A x \in T : T \ {x} \in G
      PROVE  T \in G
    <2>1. PICK x \in T : TRUE
        BY <1>2
    <2>2. image(T) = image(T \ {x}) \cup {f[x]}
        BY <2>1
    <2>3. IsFiniteSet(image(T \ {x}))
        BY <1>2, <2>1
    <2> DEFINE others == image(T \ {x})
    <2>4. IsFiniteSet(others \cup {f[x]})
        <3> HIDE DEF others
        <3> QED BY <2>3, FS_AddElement DEF others
    <2> QED BY <2>2, <2>4
<1>3. \A T \in SUBSET S : T \in G
    <2> HIDE DEF G
    <2> QED BY <1>1, <1>2, EverySubset
<1> QED BY <1>3
-----------------------------------------------------------------------------
(* The sum over a set as the recursion that MapThenFoldSet unfolds it by. *)
Chosen(s) == CHOOSE x \in s : TRUE
AddUp(f, sum, s) == IF s = {} THEN 0 ELSE f[Chosen(s)] + sum[s \ {Chosen(s)}]
SumsOf(f, S, sum) == sum = [s \in SUBSET S |-> AddUp(f, sum, s)]

LEMMA SumsAreThere ==
    ASSUME NEW f, NEW S, IsFiniteSet(S)
    PROVE  \E sum : SumsOf(f, S, sum)
<1> DEFINE Upto(n) == {s \in SUBSET S : Cardinality(s) <= n}
           Solves(sum, n) == sum = [s \in Upto(n) |-> AddUp(f, sum, s)]
           Good == {n \in Nat : \E sum : Solves(sum, n)}
<1>1. \A T \in SUBSET S : IsFiniteSet(T) /\ Cardinality(T) \in Nat
    BY FS_Subset, FS_CardinalityType
<1>2. 0 \in Good
    <2>1. \A s \in Upto(0) : s = {}
        BY <1>1, FS_EmptySet
    <2> DEFINE none == [s \in Upto(0) |-> 0]
    <2>2. none = [s \in Upto(0) |-> AddUp(f, none, s)]
        <3>1. \A s \in Upto(0) : AddUp(f, none, s) = 0
            BY <2>1 DEF AddUp
        <3> HIDE DEF Upto
        <3> QED BY <3>1
    <2> QED BY <2>2
<1>3. ASSUME NEW n \in Nat, n \in Good
      PROVE  n + 1 \in Good
    <2>1. PICK sum : Solves(sum, n)
        BY <1>3
    <2> DEFINE more == [s \in Upto(n + 1) |-> AddUp(f, sum, s)]
    <2>2. \A s \in Upto(n) : s \in Upto(n + 1) /\ sum[s] = AddUp(f, sum, s)
        <3>1. \A s \in Upto(n) : s \in Upto(n + 1)
            BY <1>1, <1>3
        <3> HIDE DEF Upto
        <3> QED BY <2>1, <3>1
    <2>3. ASSUME NEW s \in Upto(n + 1), s # {}
          PROVE  s \ {Chosen(s)} \in Upto(n)
        <3>1. Chosen(s) \in s
            BY <2>3 DEF Chosen
        <3>2. Cardinality(s \ {Chosen(s)}) = Cardinality(s) - 1
            BY <1>1, <3>1, FS_RemoveElement
        <3> QED BY <1>1, <1>3, <3>2
    <2>4. \A s \in Upto(n + 1) : AddUp(f, more, s) = AddUp(f, sum, s)
        <3> HIDE DEF Upto
        <3> QED BY <2>2, <2>3 DEF AddUp
    <2>5. Solves(more, n + 1)
        <3> HIDE DEF Upto
        <3> QED BY <2>4
    <2>6. n + 1 \in Nat
        BY <1>3
    <2> HIDE DEF Solves
    <2> QED BY <2>5, <2>6
<1>4. Cardinality(S) \in Good
    <2> HIDE DEF Good
    <2>1. Nat \subseteq Good
        BY <1>2, <1>3, EveryNumber
    <2> QED BY <2>1, FS_CardinalityType
<1>5. Upto(Cardinality(S)) = SUBSET S
    BY <1>1, FS_Subset, FS_CardinalityType
<1> HIDE DEF Upto
<1> QED BY <1>4, <1>5 DEF SumsOf

LEMMA SumsAgree ==
    ASSUME NEW f, NEW S, IsFiniteSet(S), NEW T \in SUBSET S,
           NEW sum, NEW other, SumsOf(f, S, sum), SumsOf(f, T, other)
    PROVE  sum[T] = other[T]
<1> DEFINE Same(s) == sum[s] = other[s]
           Upto(n) == {s \in SUBSET T : Cardinality(s) <= n}
           Good == {n \in Nat : \A s \in Upto(n) : Same(s)}
<1>1. \A s \in SUBSET T : IsFiniteSet(s) /\ Cardinality(s) \in Nat
    BY FS_Subset, FS_CardinalityType
<1>2. \A s \in SUBSET T : sum[s] = AddUp(f, sum, s) /\ other[s] = AddUp(f, other, s)
    BY DEF SumsOf
<1>3. 0 \in Good
    <2>1. \A s \in Upto(0) : s = {}
        BY <1>1, FS_EmptySet
    <2> QED BY <1>2, <2>1 DEF AddUp
<1>4. ASSUME NEW n \in Nat, n \in Good
      PROVE  n + 1 \in Good
    <2>1. ASSUME NEW s \in Upto(n + 1), s # {}
          PROVE  s \ {Chosen(s)} \in Upto(n)
        <3>1. Chosen(s) \in s
            BY <2>1 DEF Chosen
        <3>2. Cardinality(s \ {Chosen(s)}) = Cardinality(s) - 1
            BY <1>1, <3>1, FS_RemoveElement
        <3> QED BY <1>1, <1>4, <3>2
    <2>2. \A s \in Upto(n + 1) : s \in SUBSET T
        OBVIOUS
    <2>3. ASSUME NEW s \in Upto(n + 1)
          PROVE  Same(s)
        <3> HIDE DEF Upto
        <3> QED BY <1>2, <1>4, <2>1, <2>2 DEF AddUp
    <2> QED BY <1>4, <2>3
<1>5. Cardinality(T) \in Good
    <2> HIDE DEF Good
    <2>1. Nat \subseteq Good
        BY <1>3, <1>4, EveryNumber
    <2> QED BY <1>1, <2>1
<1>6. T \in Upto(Cardinality(T))
    BY <1>1
<1> QED BY <1>5, <1>6

(* One of a set, and the sum over the others. *)
LEMMA SumUnfolds ==
    ASSUME NEW f, NEW S, IsFiniteSet(S)
    PROVE  SumFunctionOnSet(f, S) =
             IF S = {} THEN 0 ELSE f[Chosen(S)] + SumFunctionOnSet(f, S \ {Chosen(S)})
<1> DEFINE sums(T) == CHOOSE sum : SumsOf(f, T, sum)
<1>1. \A T : SumFunctionOnSet(f, T) = sums(T)[T]
    BY DEF SumFunctionOnSet, FoldFunctionOnSet, MapThenFoldSet, SumsOf, AddUp, Chosen
<1>2. \A T \in SUBSET S : SumsOf(f, T, sums(T))
    <2> TAKE T \in SUBSET S
    <2>1. \E sum : SumsOf(f, T, sum)
        BY SumsAreThere, FS_Subset
    <2> QED BY <2>1
<1>3. sums(S)[S] = AddUp(f, sums(S), S)
    <2> HIDE DEF sums
    <2>1. SumsOf(f, S, sums(S))
        BY <1>2
    <2>2. \A s \in SUBSET S : sums(S)[s] = AddUp(f, sums(S), s)
        BY <2>1 DEF SumsOf
    <2> QED BY <2>2
<1>4. \A T \in SUBSET S : sums(S)[T] = sums(T)[T]
    <2> TAKE T \in SUBSET S
    <2>1. SumsOf(f, S, sums(S)) /\ SumsOf(f, T, sums(T))
        BY <1>2
    <2> HIDE DEF sums
    <2> QED BY <2>1, SumsAgree
<1> HIDE DEF sums
<1> QED BY <1>1, <1>3, <1>4 DEF AddUp

-----------------------------------------------------------------------------
LEMMA SumOfNone ==
    ASSUME NEW f
    PROVE  SumFunctionOnSet(f, {}) = 0
<1>1. IsFiniteSet({})
    BY FS_EmptySet
<1> DEFINE none == {}
<1>2. none = {} /\ IsFiniteSet(none)
    BY <1>1
<1> HIDE DEF none
<1>3. SumFunctionOnSet(f, none) = 0
    BY <1>2, SumUnfolds
<1> QED BY <1>2, <1>3

LEMMA SumIsWhole ==
    ASSUME NEW S, IsFiniteSet(S), NEW f, \A x \in S : f[x] \in Int
    PROVE  SumFunctionOnSet(f, S) \in Int
<1> DEFINE G == {T \in SUBSET S : SumFunctionOnSet(f, T) \in Int}
<1>1. \A T \in SUBSET S : IsFiniteSet(T)
    BY FS_Subset
<1>2. {} \in G
    BY SumOfNone
<1>3. ASSUME NEW T \in SUBSET S, T # {}, \A x \in T : T \ {x} \in G
      PROVE  T \in G
    <2>1. Chosen(T) \in T
        BY <1>3 DEF Chosen
    <2>2. SumFunctionOnSet(f, T) = f[Chosen(T)] + SumFunctionOnSet(f, T \ {Chosen(T)})
        BY <1>1, <1>3, SumUnfolds
    <2>3. SumFunctionOnSet(f, T \ {Chosen(T)}) \in Int /\ f[Chosen(T)] \in Int
        BY <1>3, <2>1
    <2> QED BY <2>2, <2>3
<1> HIDE DEF G
<1>4. S \in G
    <2>1. \A T \in SUBSET S : T \in G
        BY <1>2, <1>3, EverySubset
    <2> QED BY <2>1
<1> QED BY <1>4 DEF G

(* Whatever the order of the sum, one of the set counts beside the others. *)
LEMMA SumTakesOut ==
    ASSUME NEW S, IsFiniteSet(S), NEW f, \A x \in S : f[x] \in Int, NEW x \in S
    PROVE  SumFunctionOnSet(f, S) = f[x] + SumFunctionOnSet(f, S \ {x})
<1> DEFINE Out(T, y) == SumFunctionOnSet(f, T) = f[y] + SumFunctionOnSet(f, T \ {y})
           G == {T \in SUBSET S : \A y \in T : Out(T, y)}
<1>1. \A T \in SUBSET S : IsFiniteSet(T) /\ SumFunctionOnSet(f, T) \in Int
    <2> TAKE T \in SUBSET S
    <2>1. IsFiniteSet(T) /\ \A y \in T : f[y] \in Int
        BY FS_Subset
    <2> QED BY <2>1, SumIsWhole
<1>2. {} \in G
    OBVIOUS
<1>3. ASSUME NEW T \in SUBSET S, T # {}, \A y \in T : T \ {y} \in G
      PROVE  T \in G
    <2> DEFINE c == Chosen(T)
    <2>1. c \in T
        BY <1>3 DEF Chosen
    <2>2. Out(T, c)
        BY <1>1, <1>3, SumUnfolds
    <2> HIDE DEF c
    <2>3. ASSUME NEW y \in T, y # c
          PROVE  Out(T, y)
        <3>1. Out(T \ {c}, y) /\ Out(T \ {y}, c)
            BY <1>3, <2>1, <2>3
        <3>2. (T \ {c}) \ {y} = (T \ {y}) \ {c}
            OBVIOUS
        <3> DEFINE both == SumFunctionOnSet(f, (T \ {y}) \ {c})
                   withY == SumFunctionOnSet(f, T \ {c})
                   withC == SumFunctionOnSet(f, T \ {y})
        <3>3. withY = f[y] + both /\ withC = f[c] + both /\ SumFunctionOnSet(f, T) = f[c] + withY
            BY <2>2, <3>1, <3>2
        <3>4. both \in Int /\ f[c] \in Int /\ f[y] \in Int
            BY <1>1, <2>1
        <3> HIDE DEF both, withY
        <3>5. SumFunctionOnSet(f, T) = f[y] + withC
            BY <3>3, <3>4
        <3> QED BY <3>5
    <2> QED BY <2>2, <2>3
<1>4. S \in G
    <2> HIDE DEF G
    <2>1. \A T \in SUBSET S : T \in G
        BY <1>2, <1>3, EverySubset
    <2> QED BY <2>1
<1> QED BY <1>4

(* A sum depends on the values alone. *)
LEMMA SumOfSame ==
    ASSUME NEW S, IsFiniteSet(S), NEW f, NEW g, \A x \in S : f[x] \in Int /\ f[x] = g[x]
    PROVE  SumFunctionOnSet(f, S) = SumFunctionOnSet(g, S)
<1> DEFINE G == {T \in SUBSET S : SumFunctionOnSet(f, T) = SumFunctionOnSet(g, T)}
<1>1. {} \in G
    BY SumOfNone
<1>2. ASSUME NEW T \in SUBSET S, T # {}, \A x \in T : T \ {x} \in G
      PROVE  T \in G
    <2>1. PICK x \in T : TRUE
        BY <1>2
    <2>2. IsFiniteSet(T)
        BY FS_Subset
    <2>3. SumFunctionOnSet(f, T) = f[x] + SumFunctionOnSet(f, T \ {x})
        BY <2>1, <2>2, SumTakesOut
    <2>4. SumFunctionOnSet(g, T) = g[x] + SumFunctionOnSet(g, T \ {x})
        <3>1. \A y \in T : g[y] \in Int
            OBVIOUS
        <3> QED BY <2>1, <2>2, <3>1, SumTakesOut
    <2> QED BY <1>2, <2>1, <2>3, <2>4
<1> HIDE DEF G
<1>3. S \in G
    <2>1. \A T \in SUBSET S : T \in G
        BY <1>1, <1>2, EverySubset
    <2> QED BY <2>1
<1> QED BY <1>3 DEF G

(* Term by term: h is what f and g add up to. *)
LEMMA SumOfTwo ==
    ASSUME NEW S, IsFiniteSet(S), NEW f, NEW g, NEW h,
           \A x \in S : f[x] \in Int /\ g[x] \in Int /\ h[x] = f[x] + g[x]
    PROVE  SumFunctionOnSet(h, S) = SumFunctionOnSet(f, S) + SumFunctionOnSet(g, S)
<1> DEFINE Adds(T) == SumFunctionOnSet(h, T) = SumFunctionOnSet(f, T) + SumFunctionOnSet(g, T)
           G == {T \in SUBSET S : Adds(T)}
<1>1. {} \in G
    BY SumOfNone
<1>2. ASSUME NEW T \in SUBSET S, T # {}, \A x \in T : T \ {x} \in G
      PROVE  T \in G
    <2>1. PICK x \in T : TRUE
        BY <1>2
    <2>2. IsFiniteSet(T) /\ IsFiniteSet(T \ {x}) /\ \A y \in T : h[y] \in Int
        BY FS_Subset
    <2> DEFINE rest == T \ {x}
               ff == SumFunctionOnSet(f, rest)
               gg == SumFunctionOnSet(g, rest)
    <2>3. SumFunctionOnSet(f, T) = f[x] + ff
        BY <2>1, <2>2, SumTakesOut
    <2>4. SumFunctionOnSet(g, T) = g[x] + gg
        BY <2>1, <2>2, SumTakesOut
    <2>5. SumFunctionOnSet(h, T) = h[x] + SumFunctionOnSet(h, rest)
        BY <2>1, <2>2, SumTakesOut
    <2>6. SumFunctionOnSet(h, rest) = ff + gg
        BY <1>2, <2>1
    <2>7. ff \in Int /\ gg \in Int
        BY <2>2, SumIsWhole
    <2> HIDE DEF ff, gg, rest
    <2>8. Adds(T)
        BY <2>1, <2>3, <2>4, <2>5, <2>6, <2>7
    <2> QED BY <2>8
<1> HIDE DEF G
<1>3. S \in G
    <2>1. \A T \in SUBSET S : T \in G
        BY <1>1, <1>2, EverySubset
    <2> QED BY <2>1
<1> QED BY <1>3 DEF G

LEMMA SumIsMonotone ==
    ASSUME NEW S, IsFiniteSet(S), NEW f, NEW g,
           \A x \in S : f[x] \in Int /\ g[x] \in Int /\ f[x] <= g[x]
    PROVE  SumFunctionOnSet(f, S) <= SumFunctionOnSet(g, S)
<1> DEFINE Below(T) == SumFunctionOnSet(f, T) <= SumFunctionOnSet(g, T)
           G == {T \in SUBSET S : Below(T)}
<1>1. {} \in G
    BY SumOfNone
<1>2. ASSUME NEW T \in SUBSET S, T # {}, \A x \in T : T \ {x} \in G
      PROVE  T \in G
    <2>1. PICK x \in T : TRUE
        BY <1>2
    <2>2. IsFiniteSet(T) /\ IsFiniteSet(T \ {x})
        BY FS_Subset
    <2> DEFINE rest == T \ {x}
               ff == SumFunctionOnSet(f, rest)
               gg == SumFunctionOnSet(g, rest)
    <2>3. SumFunctionOnSet(f, T) = f[x] + ff
        BY <2>1, <2>2, SumTakesOut
    <2>4. SumFunctionOnSet(g, T) = g[x] + gg
        BY <2>1, <2>2, SumTakesOut
    <2>5. ff <= gg
        BY <1>2, <2>1
    <2>6. ff \in Int /\ gg \in Int
        BY <2>2, SumIsWhole
    <2> HIDE DEF ff, gg, rest
    <2>7. Below(T)
        BY <2>1, <2>3, <2>4, <2>5, <2>6
    <2> QED BY <2>7
<1> HIDE DEF G
<1>3. S \in G
    <2>1. \A T \in SUBSET S : T \in G
        BY <1>1, <1>2, EverySubset
    <2> QED BY <2>1
<1> QED BY <1>3 DEF G

LEMMA SumIsNatural ==
    ASSUME NEW S, IsFiniteSet(S), NEW f, \A x \in S : f[x] \in Nat
    PROVE  SumFunctionOnSet(f, S) \in Nat
<1> DEFINE G == {T \in SUBSET S : SumFunctionOnSet(f, T) \in Nat}
<1>1. {} \in G
    BY SumOfNone
<1>2. ASSUME NEW T \in SUBSET S, T # {}, \A x \in T : T \ {x} \in G
      PROVE  T \in G
    <2>1. PICK x \in T : TRUE
        BY <1>2
    <2>2. IsFiniteSet(T) /\ \A y \in T : f[y] \in Int
        BY FS_Subset
    <2>3. SumFunctionOnSet(f, T) = f[x] + SumFunctionOnSet(f, T \ {x})
        BY <2>1, <2>2, SumTakesOut
    <2>4. SumFunctionOnSet(f, T \ {x}) \in Nat /\ f[x] \in Nat
        BY <1>2, <2>1
    <2> QED BY <2>3, <2>4
<1> HIDE DEF G
<1>3. S \in G
    <2>1. \A T \in SUBSET S : T \in G
        BY <1>1, <1>2, EverySubset
    <2> QED BY <2>1
<1> QED BY <1>3 DEF G

(* Two sets that share nothing. *)
LEMMA SumOfParts ==
    ASSUME NEW S, IsFiniteSet(S), NEW f, \A x \in S : f[x] \in Int,
           NEW A \in SUBSET S
    PROVE  SumFunctionOnSet(f, S) = SumFunctionOnSet(f, A) + SumFunctionOnSet(f, S \ A)
<1> DEFINE Parts(T) == SumFunctionOnSet(f, T) = SumFunctionOnSet(f, T \cap A) + SumFunctionOnSet(f, T \ A)
           G == {T \in SUBSET S : Parts(T)}
<1>1. {} \in G
    <2>1. {} \cap A = {} /\ {} \ A = {}
        OBVIOUS
    <2> QED BY <2>1, SumOfNone
<1>2. ASSUME NEW T \in SUBSET S, T # {}, \A x \in T : T \ {x} \in G
      PROVE  T \in G
    <2>1. PICK x \in T : TRUE
        BY <1>2
    <2>2. IsFiniteSet(T) /\ IsFiniteSet(T \cap A) /\ IsFiniteSet(T \ A)
        BY FS_Subset
    <2>3. Parts(T \ {x})
        BY <1>2, <2>1
    <2>4. SumFunctionOnSet(f, T) = f[x] + SumFunctionOnSet(f, T \ {x})
        BY <2>1, <2>2, SumTakesOut
    <2> DEFINE inA == SumFunctionOnSet(f, (T \ {x}) \cap A)
               outA == SumFunctionOnSet(f, (T \ {x}) \ A)
    <2>5. inA \in Int /\ outA \in Int /\ f[x] \in Int
        <3>1. IsFiniteSet((T \ {x}) \cap A) /\ IsFiniteSet((T \ {x}) \ A)
            BY FS_Subset
        <3>2. (\A y \in (T \ {x}) \cap A : f[y] \in Int) /\ (\A y \in (T \ {x}) \ A : f[y] \in Int) /\ f[x] \in Int
            OBVIOUS
        <3> QED BY <3>1, <3>2, SumIsWhole
    <2>6. CASE x \in A
        <3>1. (T \ {x}) \cap A = (T \cap A) \ {x} /\ (T \ {x}) \ A = T \ A /\ x \in T \cap A
            BY <2>1, <2>6
        <3>2. SumFunctionOnSet(f, T \cap A) = f[x] + inA
            BY <2>2, <3>1, SumTakesOut
        <3>3. SumFunctionOnSet(f, T \ A) = outA
            BY <3>1
        <3> HIDE DEF inA, outA
        <3>4. SumFunctionOnSet(f, T \ {x}) = inA + outA
            BY <2>3 DEF inA, outA
        <3>5. Parts(T)
            BY <2>4, <2>5, <3>2, <3>3, <3>4
        <3> QED BY <3>5
    <2>7. CASE x \notin A
        <3>1. (T \ {x}) \cap A = T \cap A /\ (T \ {x}) \ A = (T \ A) \ {x} /\ x \in T \ A
            BY <2>1, <2>7
        <3>2. SumFunctionOnSet(f, T \ A) = f[x] + outA
            BY <2>2, <3>1, SumTakesOut
        <3>3. SumFunctionOnSet(f, T \cap A) = inA
            BY <3>1
        <3> HIDE DEF inA, outA
        <3>4. SumFunctionOnSet(f, T \ {x}) = inA + outA
            BY <2>3 DEF inA, outA
        <3>5. Parts(T)
            BY <2>4, <2>5, <3>2, <3>3, <3>4
        <3> QED BY <3>5
    <2> QED BY <2>6, <2>7
<1>3. S \in G
    <2> HIDE DEF G
    <2>1. \A T \in SUBSET S : T \in G
        BY <1>1, <1>2, EverySubset
    <2> QED BY <2>1
<1>4. S \cap A = A
    OBVIOUS
<1> QED BY <1>3, <1>4
=============================================================================
