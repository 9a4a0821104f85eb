--------------------------- MODULE CountingLemmas ----------------------------
(***************************************************************************)
(* Facts about counting threads by the label of their program counter,     *)
(* used by the proofs about the semaphore-based components.                *)
(***************************************************************************)
EXTENDS Integers, FiniteSets, TLAPS, FiniteSetTheorems

\* Removing an element takes one off the size of a finite set.
LEMMA Shrink ==
  ASSUME NEW S, IsFiniteSet(S), NEW t \in S
  PROVE  Cardinality(S \ {t}) = Cardinality(S) - 1 /\ Cardinality(S) > 0
<1>1. Cardinality(S) \in Nat
  BY FS_CardinalityType
<1>2. Cardinality(S) # 0
  BY FS_EmptySet
<1> QED
  BY <1>1, <1>2, FS_RemoveElement

\* How the size of a set of threads changes when at most one thread t enters or
\* leaves it: S is the set before a step of t and R the set after it.
LEMMA Move ==
  ASSUME NEW S, IsFiniteSet(S), NEW R, NEW t,
         \A u : u # t => (u \in S <=> u \in R)
  PROVE  /\ IsFiniteSet(R) /\ Cardinality(S) \in Nat /\ Cardinality(R) \in Nat
         /\ (t \in S <=> t \in R) => Cardinality(R) = Cardinality(S)
         /\ t \notin S /\ t \in R => Cardinality(R) = Cardinality(S) + 1
         /\ t \in S /\ t \notin R => Cardinality(R) = Cardinality(S) - 1
<1>1. CASE t \in S <=> t \in R
  <2>1. R = S
    BY <1>1
  <2> QED
    BY <1>1, <2>1, FS_CardinalityType
<1>2. CASE t \notin S /\ t \in R
  <2>1. R = S \cup {t}
    BY <1>2
  <2> QED
    BY <1>2, <2>1, FS_AddElement, FS_CardinalityType
<1>3. CASE t \in S /\ t \notin R
  <2>1. R = S \ {t}
    BY <1>3
  <2> QED
    BY <1>3, <2>1, FS_RemoveElement, FS_CardinalityType
<1> QED
  BY <1>1, <1>2, <1>3

\* A finite set is empty exactly when its size is zero.
LEMMA NonEmpty ==
  ASSUME NEW S, IsFiniteSet(S)
  PROVE  Cardinality(S) \in Nat /\ (Cardinality(S) > 0 <=> S # {})
  BY FS_CardinalityType, FS_EmptySet
==============================================================================
