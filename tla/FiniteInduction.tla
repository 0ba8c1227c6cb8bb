-------------------------- MODULE FiniteInduction --------------------------
(***************************************************************************)
(* Induction over the subsets of a finite set, and what follows from it    *)
(* about counting, orders and enumerations: the facts about data that the  *)
(* theorems of several components need.  A property is given as the set of *)
(* what has it.                                                            *)
(***************************************************************************)
EXTENDS FiniteSetTheorems, TLAPS

(* What holds of a set whenever it holds of the set less any one element   *)
(* holds of a finite set.  G is the set of the subsets that have the       *)
(* property.                                                               *)
LEMMA FiniteSetInduction ==
  ASSUME NEW S, IsFiniteSet(S), NEW G,
         \A T \in SUBSET S : (\A x \in T : T \ {x} \in G) => T \in G
  PROVE  S \in G
<1> SUFFICES ASSUME S \notin G PROVE FALSE
  OBVIOUS
<1> DEFINE Bad == {T \in FiniteSubsetsOf(S) : T \notin G}
<1>1. IsWellFoundedOn(StrictSubsetOrdering(S), FiniteSubsetsOf(S))
  BY FS_StrictSubsetOrderingWellFounded
<1>2. S \in Bad
  BY DEF FiniteSubsetsOf
<1>3. PICK T \in Bad : \A U \in Bad : <<U, T>> \notin StrictSubsetOrdering(S)
  <2> HIDE DEF Bad
  <2>1. Bad \subseteq FiniteSubsetsOf(S)
    BY DEF Bad
  <2> QED
    BY <1>1, <1>2, <2>1, WFMin
<1>4. PICK x \in T : T \ {x} \notin G
  BY <1>3 DEF FiniteSubsetsOf
<1>5. T \ {x} \in FiniteSubsetsOf(S)
  BY <1>3, FS_RemoveElement DEF FiniteSubsetsOf
<1>6. <<T \ {x}, T>> \in StrictSubsetOrdering(S)
  BY <1>3, <1>4 DEF FiniteSubsetsOf, StrictSubsetOrdering
<1> QED
  BY <1>3, <1>4, <1>5, <1>6

(* The same for the numbers up to a bound. *)
LEMMA CountingInduction ==
  ASSUME NEW n \in Nat, NEW G, 0 \in G, \A i \in 0..(n - 1) : i \in G => i + 1 \in G
  PROVE  n \in G
<1> DEFINE H == {T \in SUBSET (1..n) : Cardinality(T) \in G}
<1>1. IsFiniteSet(1..n) /\ Cardinality(1..n) = n
  BY FS_Interval
<1>2. ASSUME NEW T \in SUBSET (1..n), \A x \in T : T \ {x} \in H
      PROVE  T \in H
  <2>1. IsFiniteSet(T) /\ Cardinality(T) \in Nat /\ Cardinality(T) <= n
    BY <1>1, FS_Subset, FS_CardinalityType
  <2>2. CASE T = {}
    BY <2>2, FS_EmptySet
  <2>3. CASE T # {}
    <3>1. PICK x \in T : TRUE
      BY <2>3
    <3>2. Cardinality(T \ {x}) = Cardinality(T) - 1 /\ Cardinality(T \ {x}) \in Nat
      BY <2>1, <3>1, FS_RemoveElement, FS_CardinalityType
    <3>3. Cardinality(T \ {x}) \in G
      BY <1>2, <3>1
    <3>4. Cardinality(T \ {x}) \in 0..(n - 1)
      BY <2>1, <3>2
    <3> QED
      BY <2>1, <3>2, <3>3, <3>4
  <2> QED
    BY <2>2, <2>3
<1> HIDE DEF H
<1>3. 1..n \in H
  BY <1>1, <1>2, FiniteSetInduction
<1> QED
  BY <1>1, <1>3 DEF H

(* What a function makes of a finite set is finite.                        *)
LEMMA FiniteImage ==
  ASSUME NEW S, IsFiniteSet(S), NEW f
  PROVE  IsFiniteSet({f[x] : x \in S})
<1> DEFINE G == {T \in SUBSET S : IsFiniteSet({f[x] : x \in T})}
<1>1. ASSUME NEW T \in SUBSET S, \A x \in T : T \ {x} \in G
      PROVE  T \in G
  <2>1. CASE T = {}
    <3>1. {f[x] : x \in T} = {}
      BY <2>1
    <3> QED
      BY <3>1, FS_EmptySet
  <2>2. CASE T # {}
    <3>1. PICK y \in T : TRUE
      BY <2>2
    <3>2. IsFiniteSet({f[x] : x \in T \ {y}})
      BY <1>1, <3>1
    <3>3. {f[x] : x \in T} = {f[x] : x \in T \ {y}} \cup {f[y]}
      BY <3>1
    <3>4. IsFiniteSet({f[x] : x \in T})
      <4>1. PICK U : U = {f[x] : x \in T \ {y}}
        OBVIOUS
      <4>2. IsFiniteSet(U \cup {f[y]})
        BY <3>2, <4>1, FS_AddElement
      <4> QED
        BY <3>3, <4>1, <4>2
    <3> QED
      BY <3>4
  <2> QED
    BY <2>1, <2>2
<1> HIDE DEF G
<1>2. S \in G
  BY <1>1, FiniteSetInduction
<1> QED
  BY <1>2 DEF G

-----------------------------------------------------------------------------
(* Orders *)

(* A finite set has an element that comes before no other.                 *)
LEMMA FiniteHasLast ==
  ASSUME NEW S, IsFiniteSet(S), S # {}, NEW Before,
         \A x \in S : <<x, x>> \notin Before,
         \A x, y, z \in S : <<x, y>> \in Before /\ <<y, z>> \in Before => <<x, z>> \in Before
  PROVE  \E x \in S : \A y \in S : <<x, y>> \notin Before
<1> DEFINE Ends(T) == T = {} \/ \E x \in T : \A y \in T : <<x, y>> \notin Before
           G == {T \in SUBSET S : Ends(T)}
<1>1. ASSUME NEW T \in SUBSET S, \A x \in T : T \ {x} \in G
      PROVE  T \in G
  <2>1. CASE T = {}
    BY <2>1
  <2>2. CASE T # {}
    <3>1. PICK x \in T : TRUE
      BY <2>2
    <3>2. CASE T \ {x} = {}
      <4>1. T = {x}
        BY <3>2
      <4> QED
        BY <4>1
    <3>3. CASE T \ {x} # {}
      <4>1. PICK y \in T \ {x} : \A z \in T \ {x} : <<y, z>> \notin Before
        BY <1>1, <3>1, <3>3
      <4>2. CASE <<y, x>> \notin Before
        BY <4>1, <4>2
      <4>3. CASE <<y, x>> \in Before
        <5>1. \A z \in T : <<x, z>> \notin Before
          BY <4>1, <4>3
        <5> QED
          BY <5>1
      <4> QED
        BY <4>2, <4>3
    <3> QED
      BY <3>2, <3>3
  <2> QED
    BY <2>1, <2>2
<1> HIDE DEF G
<1>2. S \in G
  BY <1>1, FiniteSetInduction
<1> QED
  BY <1>2 DEF G

(* A finite set of integers has a largest and a least.                     *)
LEMMA FiniteHasMax ==
  ASSUME NEW S \in SUBSET Int, IsFiniteSet(S), S # {}
  PROVE  \E x \in S : \A y \in S : x >= y
<1> DEFINE Before == {p \in S \X S : p[1] < p[2]}
<1>1. /\ \A x \in S : <<x, x>> \notin Before
      /\ \A x, y, z \in S : <<x, y>> \in Before /\ <<y, z>> \in Before => <<x, z>> \in Before
  OBVIOUS
<1>2. PICK x \in S : \A y \in S : <<x, y>> \notin Before
  <2> HIDE DEF Before
  <2> QED
    BY <1>1, FiniteHasLast
<1>3. \A y \in S : <<x, y>> \in Before <=> x < y
  OBVIOUS
<1> HIDE DEF Before
<1>4. ASSUME NEW y \in S PROVE x >= y
  <2>1. <<x, y>> \notin Before
    BY <1>2
  <2>2. ~(x < y)
    BY <1>3, <2>1
  <2>3. x \in Int /\ y \in Int
    OBVIOUS
  <2> QED
    BY <2>2, <2>3
<1> QED
  BY <1>4

LEMMA FiniteHasMin ==
  ASSUME NEW S \in SUBSET Int, IsFiniteSet(S), S # {}
  PROVE  \E x \in S : \A y \in S : x =< y
<1> DEFINE Before == {p \in S \X S : p[1] > p[2]}
<1>1. /\ \A x \in S : <<x, x>> \notin Before
      /\ \A x, y, z \in S : <<x, y>> \in Before /\ <<y, z>> \in Before => <<x, z>> \in Before
  OBVIOUS
<1>2. PICK x \in S : \A y \in S : <<x, y>> \notin Before
  <2> HIDE DEF Before
  <2> QED
    BY <1>1, FiniteHasLast
<1>3. \A y \in S : <<x, y>> \in Before <=> x > y
  OBVIOUS
<1> HIDE DEF Before
<1>4. ASSUME NEW y \in S PROVE x =< y
  <2>1. <<x, y>> \notin Before
    BY <1>2
  <2>2. ~(x > y)
    BY <1>3, <2>1
  <2>3. x \in Int /\ y \in Int
    OBVIOUS
  <2> QED
    BY <2>2, <2>3
<1> QED
  BY <1>4

(* Of finitely many rows one comes last in the order of a time, then of    *)
(* another number.                                                         *)
LEMMA FiniteHasLatest ==
  ASSUME NEW S, IsFiniteSet(S), S # {}, NEW time, NEW id,
         \A r \in S : time[r] \in Int /\ id[r] \in Int
  PROVE  \E r \in S : \A s \in S :
            time[s] < time[r] \/ (time[s] = time[r] /\ id[s] =< id[r])
<1> DEFINE Before == {p \in S \X S : \/ time[p[1]] < time[p[2]]
                                     \/ time[p[1]] = time[p[2]] /\ id[p[1]] < id[p[2]]}
<1>1. \A x, y \in S : <<x, y>> \in Before <=>
         time[x] < time[y] \/ (time[x] = time[y] /\ id[x] < id[y])
  OBVIOUS
<1> HIDE DEF Before
<1>2. /\ \A x \in S : <<x, x>> \notin Before
      /\ \A x, y, z \in S : <<x, y>> \in Before /\ <<y, z>> \in Before => <<x, z>> \in Before
  BY <1>1
<1>3. PICK r \in S : \A s \in S : <<r, s>> \notin Before
  BY <1>2, FiniteHasLast
<1>4. ASSUME NEW s \in S
      PROVE  time[s] < time[r] \/ (time[s] = time[r] /\ id[s] =< id[r])
  <2>1. <<r, s>> \notin Before
    BY <1>3
  <2>2. ~(time[r] < time[s] \/ (time[r] = time[s] /\ id[r] < id[s]))
    BY <1>1, <2>1
  <2>3. time[r] \in Int /\ id[r] \in Int /\ time[s] \in Int /\ id[s] \in Int
    OBVIOUS
  <2> QED
    BY <2>2, <2>3
<1> QED
  BY <1>4
=============================================================================
