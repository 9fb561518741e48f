------------------------------ MODULE Induction ------------------------------
(* Induction as statements about sets, which the provers can instantiate: on *)
(* the natural numbers, and on a tree of blocks in which every block lies    *)
(* one above its parent.                                                     *)
EXTENDS Integers, FiniteSets, Functions, FiniteSetTheorems, WellFoundedInduction, TLAPS

(* A set of natural numbers that is not empty has a least element. *)
LEMMA LeastNatural ==
  ASSUME NEW S \in SUBSET Nat, S # {}
  PROVE  \E n \in S : \A m \in S : n <= m
<1> DEFINE R == OpToRel(<, Nat)
<1>1. IsWellFoundedOn(R, Nat)
  BY NatLessThanWellFounded
<1>2. \A m, n \in Nat : m < n => <<m, n>> \in R
  BY DEF OpToRel
<1> HIDE DEF R
<1>3. PICK n \in S : \A m \in S : ~(<<m, n>> \in R)
  BY <1>1, WFMin
<1>4. ASSUME NEW m \in S PROVE n <= m
  <2>1. m \in Nat /\ n \in Nat
    OBVIOUS
  <2>2. ~(m < n)
    BY <1>2, <1>3, <2>1
  <2> QED BY <2>1, <2>2
<1> QED BY <1>4

(* One with an upper bound has a greatest. *)
LEMMA GreatestNatural ==
  ASSUME NEW S \in SUBSET Nat, S # {}, NEW top \in Nat, \A n \in S : n <= top
  PROVE  \E n \in S : \A m \in S : m <= n
<1> DEFINE Below == {top - n : n \in S}
<1>1. Below \in SUBSET Nat /\ Below # {}
  <2>1. \A n \in S : top - n \in Nat
    OBVIOUS
  <2>2. \E n \in S : top - n \in Below
    OBVIOUS
  <2> QED BY <2>1, <2>2
<1> HIDE DEF Below
<1>2. PICK d \in Below : \A e \in Below : d <= e
  BY <1>1, LeastNatural
<1>3. PICK n \in S : d = top - n
  BY <1>2 DEF Below
<1>4. ASSUME NEW m \in S PROVE m <= n
  <2>1. top - m \in Below
    BY DEF Below
  <2>2. top - n <= top - m
    BY <1>2, <1>3, <2>1
  <2>3. m \in Nat /\ n \in Nat
    BY <1>3
  <2> QED BY <2>2, <2>3
<1> QED BY <1>3, <1>4

(* What holds of 0, and of n + 1 if it holds of n, holds of every number. *)
LEMMA NaturalInduction ==
  ASSUME NEW S, 0 \in S, \A n \in Nat : n \in S => n + 1 \in S
  PROVE  Nat \subseteq S
<1> SUFFICES ASSUME Nat \ S # {} PROVE FALSE
  OBVIOUS
<1>1. PICK n \in Nat \ S : \A m \in Nat \ S : n <= m
  BY LeastNatural
<1>2. n # 0
  OBVIOUS
<1>3. n - 1 \in Nat /\ n - 1 \in S
  BY <1>1, <1>2
<1> QED BY <1>3

(* What holds of a number if it holds of all smaller ones holds of every number. *)
LEMMA StrongInduction ==
  ASSUME NEW S, \A n \in Nat : (\A m \in Nat : m < n => m \in S) => n \in S
  PROVE  Nat \subseteq S
<1> SUFFICES ASSUME Nat \ S # {} PROVE FALSE
  OBVIOUS
<1>1. PICK n \in Nat \ S : \A m \in Nat \ S : n <= m
  BY LeastNatural
<1>2. \A m \in Nat : m < n => m \in S
  BY <1>1
<1> QED BY <1>1, <1>2

(* What holds of the empty set, and of X with one more element if it holds of X,
   holds of a finite set. *)
LEMMA FiniteInduction ==
  ASSUME NEW S, IsFiniteSet(S), NEW T, {} \in T,
         \A X \in SUBSET S, x \in S : X \in T /\ x \notin X => X \cup {x} \in T
  PROVE  S \in T
<1> DEFINE N == {n \in Nat : \A X \in SUBSET S : Cardinality(X) = n => X \in T}
<1>1. \A X \in SUBSET S : IsFiniteSet(X) /\ Cardinality(X) \in Nat
  BY FS_Subset, FS_CardinalityType
<1>2. 0 \in N
  BY <1>1, FS_EmptySet
<1>3. ASSUME NEW n \in Nat, n \in N PROVE n + 1 \in N
  <2> SUFFICES ASSUME NEW X \in SUBSET S, Cardinality(X) = n + 1 PROVE X \in T
    OBVIOUS
  <2>1. X # {}
    <3>1. Cardinality({}) = 0
      BY FS_EmptySet
    <3> QED BY <3>1
  <2>2. PICK x \in X : TRUE
    BY <2>1
  <2>3. Cardinality(X \ {x}) = n
    <3>1. IsFiniteSet(X)
      BY <1>1
    <3>2. Cardinality(X \ {x}) = IF x \in X THEN Cardinality(X) - 1 ELSE Cardinality(X)
      BY <3>1, FS_RemoveElement
    <3> QED BY <2>2, <3>2
  <2>4. X \ {x} \in T /\ X = (X \ {x}) \cup {x}
    BY <1>3, <2>2, <2>3
  <2> QED BY <2>2, <2>4
<1>4. Nat \subseteq N
  <2> HIDE DEF N
  <2> QED BY <1>2, <1>3, NaturalInduction
<1> QED BY <1>1, <1>4

(* A finite set of natural numbers has an upper bound. *)
LEMMA FiniteBound ==
  ASSUME NEW S \in SUBSET Nat, IsFiniteSet(S)
  PROVE  \E top \in Nat : \A n \in S : n <= top
<1> DEFINE T == {X \in SUBSET S : \E top \in Nat : \A n \in X : n <= top}
<1>1. {} \in T
  OBVIOUS
<1>2. ASSUME NEW X \in SUBSET S, NEW x \in S, X \in T PROVE X \cup {x} \in T
  <2>1. PICK top \in Nat : \A n \in X : n <= top
    BY <1>2
  <2>2. \A n \in X \cup {x} : n <= IF top < x THEN x ELSE top
    BY <2>1
  <2> QED BY <2>2
<1>3. S \in T
  <2> HIDE DEF T
  <2> QED BY <1>1, <1>2, FiniteInduction
<1> QED BY <1>3

(* In a finite set under a total order, given as the set of those below each member,
   everyone's place is the number of those below; every place is taken, and by one
   only. *)
LEMMA Places ==
  ASSUME NEW S, IsFiniteSet(S), NEW below \in [S -> SUBSET S],
         \A x \in S : x \notin below[x],
         \A x, y, z \in S : x \in below[y] /\ y \in below[z] => x \in below[z],
         \A x, y \in S : x = y \/ x \in below[y] \/ y \in below[x]
  PROVE  /\ \A x \in S : Cardinality(below[x]) \in 0..(Cardinality(S) - 1)
         /\ \A x, y \in S : Cardinality(below[x]) = Cardinality(below[y]) => x = y
         /\ \A n \in 0..(Cardinality(S) - 1) : \E x \in S : Cardinality(below[x]) = n
<1> DEFINE place == [x \in S |-> Cardinality(below[x])]
<1>1. Cardinality(S) \in Nat
  BY FS_CardinalityType
<1>2. \A x \in S : below[x] \in SUBSET S /\ IsFiniteSet(below[x]) /\ Cardinality(below[x]) \in Nat
  BY FS_Subset, FS_CardinalityType
<1>3. ASSUME NEW x \in S, NEW T \in SUBSET S, below[x] \cup {x} \subseteq T
      PROVE  Cardinality(below[x]) < Cardinality(T)
  <2>1. x \notin below[x]
    OBVIOUS
  <2>2. IsFiniteSet(below[x] \cup {x}) /\ Cardinality(below[x] \cup {x}) = Cardinality(below[x]) + 1
    BY <1>2, <2>1, FS_AddElement
  <2>3. IsFiniteSet(T) /\ Cardinality(T) \in Nat
    BY FS_Subset, FS_CardinalityType
  <2>4. Cardinality(below[x] \cup {x}) <= Cardinality(T)
    BY <1>3, <2>3, FS_Subset
  <2> QED BY <1>2, <2>2, <2>3, <2>4
<1>4. \A x \in S : place[x] = Cardinality(below[x])
  OBVIOUS
<1>5. \A x \in S : place[x] \in 0..(Cardinality(S) - 1)
  <2>1. \A x \in S : below[x] \cup {x} \subseteq S
    OBVIOUS
  <2>2. \A x \in S : Cardinality(below[x]) < Cardinality(S)
    BY <1>3, <2>1
  <2> QED BY <1>1, <1>2, <1>4, <2>2
<1>6. ASSUME NEW x \in S, NEW y \in S, x \in below[y] PROVE place[x] < place[y]
  <2>1. below[x] \cup {x} \subseteq below[y] /\ below[y] \in SUBSET S
    BY <1>6
  <2> QED BY <1>3, <1>4, <2>1
<1>7. \A x, y \in S : place[x] = place[y] => x = y
  <2> SUFFICES ASSUME NEW x \in S, NEW y \in S, place[x] = place[y], x # y PROVE FALSE
    OBVIOUS
  <2>1. place[x] \in Int /\ place[y] \in Int
    BY <1>1, <1>5
  <2>2. place[x] < place[y] \/ place[y] < place[x]
    BY <1>6
  <2> QED BY <2>1, <2>2
<1>8. \A n \in 0..(Cardinality(S) - 1) : \E x \in S : place[x] = n
  <2>0. place \in [S -> 0..(Cardinality(S) - 1)]
    BY <1>5
  <2> HIDE DEF place
  <2> DEFINE T == 0..(Cardinality(S) - 1)
  <2>1. IsFiniteSet(T) /\ Cardinality(T) = Cardinality(S)
    BY <1>1, FS_Interval
  <2>2. place \in Injection(S, T)
    BY <2>0, <1>7 DEF Injection, IsInjective
  <2> HIDE DEF T
  <2>3. place \in Surjection(S, T)
    BY <2>1, <2>2, FS_Injection
  <2> QED BY <2>3 DEF Surjection, T
<1> QED BY <1>4, <1>5, <1>7, <1>8

-----------------------------------------------------------------------------
(* A tree: blocks, their numbers, and their parents up to a root. *)
IsTree(B, num, parent, none) ==
  /\ num \in [B -> Nat]
  /\ \A b \in B : parent[b] = none \/ (parent[b] \in B /\ num[b] = num[parent[b]] + 1)
  /\ \A b \in B : parent[b] = none => num[b] = 0
  /\ none \notin B

(* What holds of the root, and of a block if it holds of its parent, holds of
   every block. *)
LEMMA TreeInduction ==
  ASSUME NEW B, NEW num, NEW parent, NEW none, IsTree(B, num, parent, none), NEW S,
         \A b \in B : (parent[b] = none \/ parent[b] \in S) => b \in S
  PROVE  B \subseteq S
<1> USE DEF IsTree
<1> SUFFICES ASSUME B \ S # {} PROVE FALSE
  OBVIOUS
<1> DEFINE N == {num[b] : b \in B \ S}
<1>1. N \in SUBSET Nat /\ N # {}
  OBVIOUS
<1> HIDE DEF N
<1>2. PICK n \in N : \A m \in N : n <= m
  BY <1>1, LeastNatural
<1>3. PICK b \in B \ S : n = num[b]
  BY <1>2 DEF N
<1>4. parent[b] # none /\ parent[b] \in B \ S
  BY <1>3
<1>5. num[parent[b]] \in N
  BY <1>4 DEF N
<1> QED BY <1>2, <1>3, <1>4, <1>5

(* The line of a block: the block and the line of its parent. *)
IsLine(B, parent, none, line) ==
  /\ line \in [B -> SUBSET B]
  /\ \A b \in B : line[b] = {b} \cup IF parent[b] = none THEN {} ELSE line[parent[b]]

(* A line has one block at every height up to its last block, and contains the
   lines of its blocks; of two blocks the lower lies on the line of the higher. *)
LEMMA LineOfTree ==
  ASSUME NEW B, NEW num, NEW parent, NEW none, NEW line,
         IsTree(B, num, parent, none), IsLine(B, parent, none, line)
  PROVE  \A b \in B :
           /\ \A n \in 0..num[b] : \E c \in line[b] : num[c] = n
           /\ \A c \in line[b] : num[c] <= num[b] /\ line[c] \subseteq line[b]
           /\ \A c, d \in line[b] : /\ num[c] = num[d] => c = d
                                    /\ num[c] <= num[d] => c \in line[d]
<1> DEFINE Good(b) ==
      /\ \A n \in 0..num[b] : \E c \in line[b] : num[c] = n
      /\ \A c \in line[b] : num[c] <= num[b] /\ line[c] \subseteq line[b]
      /\ \A c, d \in line[b] : /\ num[c] = num[d] => c = d
                               /\ num[c] <= num[d] => c \in line[d]
<1> DEFINE S == {b \in B : Good(b)}
<1>1. ASSUME NEW b \in B, parent[b] = none PROVE Good(b)
  <2>1. line[b] = {b} /\ num[b] = 0
    BY <1>1 DEF IsLine, IsTree
  <2> QED BY <2>1
<1>2. ASSUME NEW b \in B, parent[b] \in B, Good(parent[b]) PROVE Good(b)
  <2> DEFINE p == parent[b]
  <2>1. /\ line[b] = {b} \cup line[p] /\ num[b] = num[p] + 1 /\ num[p] \in Nat
        /\ line[p] \subseteq B /\ b \in line[b] /\ \A c \in line[p] : num[c] \in Nat
    BY <1>2 DEF IsLine, IsTree
  <2> HIDE DEF p
  <2>2. Good(p)
    BY <1>2 DEF p
  <2>3. ASSUME NEW n \in 0..num[b] PROVE \E c \in line[b] : num[c] = n
    <3>1. CASE n = num[b]
      BY <2>1, <3>1
    <3>2. CASE n \in 0..num[p]
      BY <2>1, <2>2, <3>2
    <3> QED BY <2>1, <3>1, <3>2
  <2>4. \A c \in line[b] : num[c] <= num[b] /\ line[c] \subseteq line[b]
    BY <2>1, <2>2
  <2>5. ASSUME NEW c \in line[b], NEW d \in line[b]
        PROVE  (num[c] = num[d] => c = d) /\ (num[c] <= num[d] => c \in line[d])
    <3>1. CASE c = b
      <4>1. num[d] <= num[c] /\ (d # b => num[d] < num[c])
        BY <2>1, <2>2, <3>1
      <4> QED BY <2>1, <2>2, <3>1, <4>1
    <3>2. CASE d = b
      BY <2>1, <2>2, <3>2
    <3>3. CASE c # b /\ d # b
      BY <2>1, <2>2, <3>3
    <3> QED BY <3>1, <3>2, <3>3
  <2> QED BY <2>3, <2>4, <2>5
<1> HIDE DEF Good
<1>3. ASSUME NEW b \in B, parent[b] = none \/ parent[b] \in S PROVE b \in S
  BY <1>1, <1>2, <1>3
<1> HIDE DEF S
<1>4. B \subseteq S
  BY <1>3, TreeInduction
<1>5. \A b \in B : Good(b)
  BY <1>4 DEF S
<1> QED BY <1>5 DEF Good
-----------------------------------------------------------------------------
(* Sums over finite sets.  SumFunctionOnSet takes the elements in the order of
   CHOOSE; the sum does not depend on it. *)
First(s) == CHOOSE x \in s : TRUE
Summing(f, S) ==
  CHOOSE sum : sum = [s \in SUBSET S |->
    IF s = {} THEN 0
    ELSE f[First(s)] + sum[s \ {First(s)}]]

LEMMA SumIs == ASSUME NEW f, NEW S PROVE SumFunctionOnSet(f, S) = Summing(f, S)[S]
  BY Zenon DEF SumFunctionOnSet, FoldFunctionOnSet, MapThenFoldSet, Summing, First

LEMMA SummingUnfolds ==
  ASSUME NEW f, NEW S, IsFiniteSet(S)
  PROVE  \A s \in SUBSET S :
           Summing(f, S)[s] = IF s = {} THEN 0
                              ELSE f[First(s)] + Summing(f, S)[s \ {First(s)}]
<1> DEFINE step(g, s) == IF s = {} THEN 0 ELSE f[First(s)] + g[s \ {First(s)}]
           Upto(n) == {s \in SUBSET S : Cardinality(s) <= n}
           N == {n \in Nat : \E g : g = [s \in Upto(n) |-> step(g, s)]}
<1>1. \A s \in SUBSET S : /\ IsFiniteSet(s) /\ Cardinality(s) \in Nat
                          /\ Cardinality(s) = 0 <=> s = {}
  BY FS_Subset, FS_CardinalityType, FS_EmptySet
<1>2. \A s \in SUBSET S : s # {} => Cardinality(s \ {First(s)}) = Cardinality(s) - 1
  <2> SUFFICES ASSUME NEW s \in SUBSET S, s # {}
               PROVE  Cardinality(s \ {First(s)}) = Cardinality(s) - 1
    OBVIOUS
  <2>1. First(s) \in s /\ IsFiniteSet(s)
    BY <1>1 DEF First
  <2> QED BY <2>1, FS_RemoveElement
<1>3. 0 \in N
  <2> DEFINE g == [s \in Upto(0) |-> 0]
  <2>1. \A s \in Upto(0) : s = {}
    BY <1>1
  <2>2. g = [s \in Upto(0) |-> step(g, s)]
    <3> HIDE DEF Upto
    <3> QED BY <2>1
  <2> HIDE DEF g
  <2> QED BY <2>2
<1>4. ASSUME NEW n \in Nat, n \in N PROVE n + 1 \in N
  <2>1. PICK g : g = [s \in Upto(n) |-> step(g, s)]
    BY <1>4
  <2> DEFINE h == [s \in Upto(n + 1) |-> step(g, s)]
  <2>2. ASSUME NEW s \in Upto(n + 1) PROVE step(h, s) = step(g, s)
    <3>1. CASE s = {}
      BY <3>1
    <3>2. CASE s # {}
      <4> DEFINE r == s \ {First(s)}
      <4>1. r \in Upto(n) /\ r \in Upto(n + 1)
        BY <1>1, <1>2, <3>2
      <4>2. g[r] = step(g, r) /\ h[r] = step(g, r)
        <5> HIDE DEF r, step, Upto
        <5> QED BY <2>1, <4>1
      <4> QED BY <3>2, <4>2
    <3> QED BY <3>1, <3>2
  <2>3. h = [s \in Upto(n + 1) |-> step(h, s)]
    <3> HIDE DEF step, Upto
    <3> QED BY <2>2
  <2>4. \E k : k = [s \in Upto(n + 1) |-> step(k, s)]
    <3> HIDE DEF h, step, Upto
    <3> QED BY <2>3
  <2> HIDE DEF h, step, Upto
  <2> QED BY <2>4
<1>5. Nat \subseteq N
  <2> HIDE DEF N
  <2> QED BY <1>3, <1>4, NaturalInduction
<1>6. Cardinality(S) \in Nat /\ Upto(Cardinality(S)) = SUBSET S
  <2>1. \A s \in SUBSET S : Cardinality(s) <= Cardinality(S)
    BY FS_Subset
  <2> QED BY <1>1, <2>1
<1>7. PICK g : g = [s \in SUBSET S |-> step(g, s)]
  <2>1. \E g : g = [s \in Upto(Cardinality(S)) |-> step(g, s)]
    BY <1>5, <1>6
  <2> HIDE DEF step, Upto
  <2> QED BY <1>6, <2>1
<1>8. Summing(f, S) = [s \in SUBSET S |-> step(Summing(f, S), s)]
  BY <1>7, Zenon DEF Summing
<1> HIDE DEF step
<1>9. \A s \in SUBSET S : Summing(f, S)[s] = step(Summing(f, S), s)
  BY <1>8
<1> QED BY <1>9 DEF step

(* What remains of a sum over a smaller set is the sum over that set. *)
LEMMA SummingAgrees ==
  ASSUME NEW f, NEW S, IsFiniteSet(S), NEW T \in SUBSET S
  PROVE  \A s \in SUBSET T : Summing(f, T)[s] = Summing(f, S)[s]
<1> DEFINE N == {n \in Nat : \A s \in SUBSET T :
                               Cardinality(s) <= n => Summing(f, T)[s] = Summing(f, S)[s]}
<1>1. \A s \in SUBSET S : /\ IsFiniteSet(s) /\ Cardinality(s) \in Nat
                          /\ Cardinality(s) = 0 <=> s = {}
  BY FS_Subset, FS_CardinalityType, FS_EmptySet
<1>2. IsFiniteSet(T)
  BY <1>1
<1>3. /\ \A s \in SUBSET T : s # {} => Summing(f, T)[s] = f[First(s)] + Summing(f, T)[s \ {First(s)}]
      /\ \A s \in SUBSET T : s # {} => Summing(f, S)[s] = f[First(s)] + Summing(f, S)[s \ {First(s)}]
      /\ Summing(f, T)[{}] = 0 /\ Summing(f, S)[{}] = 0
  <2>1. \A s \in SUBSET T : Summing(f, T)[s] = IF s = {} THEN 0
          ELSE f[First(s)] + Summing(f, T)[s \ {First(s)}]
    BY <1>2, SummingUnfolds
  <2>2. \A s \in SUBSET S : Summing(f, S)[s] = IF s = {} THEN 0
          ELSE f[First(s)] + Summing(f, S)[s \ {First(s)}]
    BY SummingUnfolds
  <2> QED BY <2>1, <2>2
<1>4. 0 \in N
  <2>1. \A s \in SUBSET T : Cardinality(s) <= 0 => s = {}
    BY <1>1
  <2> QED BY <1>3, <2>1
<1>5. ASSUME NEW n \in Nat, n \in N PROVE n + 1 \in N
  <2> SUFFICES ASSUME NEW s \in SUBSET T, Cardinality(s) <= n + 1
               PROVE  Summing(f, T)[s] = Summing(f, S)[s]
    OBVIOUS
  <2>1. CASE s = {}
    BY <1>3, <2>1
  <2>2. CASE s # {}
    <3>1. First(s) \in s /\ IsFiniteSet(s)
      BY <1>1, <2>2 DEF First
    <3> DEFINE r == s \ {First(s)}
    <3>2. Cardinality(r) = Cardinality(s) - 1
      BY <3>1, FS_RemoveElement
    <3>3. Summing(f, T)[r] = Summing(f, S)[r]
      BY <1>1, <1>5, <3>2
    <3> QED BY <1>3, <2>2, <3>3
  <2> QED BY <2>1, <2>2
<1>6. Nat \subseteq N
  <2> HIDE DEF N
  <2> QED BY <1>4, <1>5, NaturalInduction
<1> QED BY <1>1, <1>6

LEMMA SumOfNone == ASSUME NEW f PROVE SumFunctionOnSet(f, {}) = 0
<1>1. Summing(f, {})[{}] = 0
  BY FS_EmptySet, SummingUnfolds
<1> QED BY <1>1, SumIs

LEMMA SumUnfolds ==
  ASSUME NEW f, NEW S, IsFiniteSet(S), S # {}
  PROVE  \E x \in S : SumFunctionOnSet(f, S) = f[x] + SumFunctionOnSet(f, S \ {x})
<1> DEFINE x == First(S)
<1>1. x \in S
  BY DEF First
<1>2. Summing(f, S)[S] = f[x] + Summing(f, S)[S \ {x}]
  BY SummingUnfolds
<1>3. Summing(f, S \ {x})[S \ {x}] = Summing(f, S)[S \ {x}]
  BY SummingAgrees
<1>4. SumFunctionOnSet(f, S) = Summing(f, S)[S]
  BY SumIs
<1>5. SumFunctionOnSet(f, S \ {x}) = Summing(f, S \ {x})[S \ {x}]
  BY SumIs
<1> QED BY <1>1, <1>2, <1>3, <1>4, <1>5

(* A sum of integers is one, of natural numbers a natural number, and does not
   change when an element is taken out and added again. *)
LEMMA SumRemoves ==
  ASSUME NEW f, NEW S, IsFiniteSet(S), \A x \in S : f[x] \in Int
  PROVE  /\ SumFunctionOnSet(f, S) \in Int
         /\ \A x \in S : SumFunctionOnSet(f, S) = f[x] + SumFunctionOnSet(f, S \ {x})
<1> DEFINE sum(s) == SumFunctionOnSet(f, s)
           Right(s) == sum(s) \in Int /\ \A x \in s : sum(s) = f[x] + sum(s \ {x})
           N == {n \in Nat : \A s \in SUBSET S : Cardinality(s) <= n => Right(s)}
<1>1. \A s \in SUBSET S : /\ IsFiniteSet(s) /\ Cardinality(s) \in Nat
                          /\ Cardinality(s) = 0 <=> s = {}
  BY FS_Subset, FS_CardinalityType, FS_EmptySet
<1>2. sum({}) = 0
  BY SumOfNone
<1>3. \A s \in SUBSET S : s # {} => \E x \in s : sum(s) = f[x] + sum(s \ {x})
  BY <1>1, SumUnfolds
<1>4. ASSUME NEW s \in SUBSET S, NEW x \in s PROVE Cardinality(s \ {x}) = Cardinality(s) - 1
  BY <1>1, FS_RemoveElement
<1> HIDE DEF sum
<1>5. 0 \in N
  BY <1>1, <1>2
<1>6. ASSUME NEW n \in Nat, n \in N PROVE n + 1 \in N
  <2> SUFFICES ASSUME NEW s \in SUBSET S, Cardinality(s) <= n + 1 PROVE Right(s)
    OBVIOUS
  <2>1. CASE s = {}
    BY <1>2, <2>1
  <2>2. CASE s # {}
    <3>1. PICK c \in s : sum(s) = f[c] + sum(s \ {c})
      BY <1>3, <2>2
    <3>2. ASSUME NEW x \in s PROVE Right(s \ {x})
      <4>1. Cardinality(s \ {x}) <= n /\ s \ {x} \in SUBSET S
        BY <1>1, <1>4
      <4> QED BY <1>6, <4>1
    <3>3. sum(s) \in Int
      BY <3>1, <3>2
    <3>4. ASSUME NEW x \in s, x # c PROVE sum(s) = f[x] + sum(s \ {x})
      <4>1. sum(s \ {c}) = f[x] + sum((s \ {c}) \ {x})
        BY <3>2, <3>4
      <4>2. sum(s \ {x}) = f[c] + sum((s \ {x}) \ {c})
        BY <3>2, <3>4
      <4>3. (s \ {c}) \ {x} = (s \ {x}) \ {c}
        OBVIOUS
      <4>4. sum((s \ {x}) \ {c}) \in Int
        <5>1. Cardinality((s \ {x}) \ {c}) <= n
          <6>1. Cardinality((s \ {x}) \ {c}) = Cardinality(s \ {x}) - 1
            BY <1>4, <3>4
          <6>2. Cardinality(s \ {x}) = Cardinality(s) - 1
            BY <1>4
          <6> QED BY <1>1, <6>1, <6>2
        <5> QED BY <1>6, <5>1
      <4>5. f[x] \in Int /\ f[c] \in Int
        OBVIOUS
      <4> DEFINE u == (s \ {x}) \ {c}
      <4>6. sum(s \ {c}) = f[x] + sum(u) /\ sum(s \ {x}) = f[c] + sum(u) /\ sum(u) \in Int
        BY <4>1, <4>2, <4>3, <4>4
      <4> HIDE DEF u
      <4> QED BY <3>1, <4>5, <4>6
    <3> QED BY <3>1, <3>3, <3>4
  <2> QED BY <2>1, <2>2
<1>7. Nat \subseteq N
  <2> HIDE DEF N
  <2> QED BY <1>5, <1>6, NaturalInduction
<1>8. Right(S)
  BY <1>1, <1>7
<1> QED BY <1>8 DEF sum

LEMMA SumAdds ==
  ASSUME NEW f, NEW S, IsFiniteSet(S), NEW x, x \notin S, \A y \in S \cup {x} : f[y] \in Int
  PROVE  SumFunctionOnSet(f, S \cup {x}) = f[x] + SumFunctionOnSet(f, S)
<1>1. IsFiniteSet(S \cup {x})
  BY FS_AddElement
<1>2. SumFunctionOnSet(f, S \cup {x}) = f[x] + SumFunctionOnSet(f, (S \cup {x}) \ {x})
  BY <1>1, SumRemoves
<1>3. (S \cup {x}) \ {x} = S
  OBVIOUS
<1> QED BY <1>2, <1>3

LEMMA SumIsNatural ==
  ASSUME NEW f, NEW S, IsFiniteSet(S), \A x \in S : f[x] \in Nat
  PROVE  SumFunctionOnSet(f, S) \in Nat
<1> DEFINE T == {X \in SUBSET S : SumFunctionOnSet(f, X) \in Nat}
<1>1. {} \in T
  BY SumOfNone
<1>2. ASSUME NEW X \in SUBSET S, NEW x \in S, X \in T, x \notin X PROVE X \cup {x} \in T
  <2>1. IsFiniteSet(X)
    BY FS_Subset
  <2>2. SumFunctionOnSet(f, X \cup {x}) = f[x] + SumFunctionOnSet(f, X)
    BY <1>2, <2>1, SumAdds
  <2> QED BY <1>2, <2>2
<1>3. S \in T
  <2> HIDE DEF T
  <2> QED BY <1>1, <1>2, FiniteInduction
<1> QED BY <1>3

(* A sum depends on the values at its elements only. *)
LEMMA SumSame ==
  ASSUME NEW f, NEW g, NEW S, IsFiniteSet(S), \A x \in S : f[x] \in Int /\ f[x] = g[x]
  PROVE  SumFunctionOnSet(f, S) = SumFunctionOnSet(g, S)
<1> DEFINE T == {X \in SUBSET S : SumFunctionOnSet(f, X) = SumFunctionOnSet(g, X)}
<1>1. {} \in T
  BY SumOfNone
<1>2. ASSUME NEW X \in SUBSET S, NEW x \in S, X \in T, x \notin X PROVE X \cup {x} \in T
  <2>1. IsFiniteSet(X)
    BY FS_Subset
  <2>2. SumFunctionOnSet(f, X \cup {x}) = f[x] + SumFunctionOnSet(f, X)
    BY <1>2, <2>1, SumAdds
  <2>3. SumFunctionOnSet(g, X \cup {x}) = g[x] + SumFunctionOnSet(g, X)
    BY <1>2, <2>1, SumAdds
  <2> QED BY <1>2, <2>2, <2>3
<1>3. S \in T
  <2> HIDE DEF T
  <2> QED BY <1>1, <1>2, FiniteInduction
<1> QED BY <1>3
=============================================================================
