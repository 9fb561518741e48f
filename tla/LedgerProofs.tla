----------------------------- MODULE LedgerProofs ----------------------------
(***************************************************************************)
(* Proofs about WalletLedger, for any wallets, tokens, migrations and dust  *)
(* thresholds, and any transactions of any length: what the replay of       *)
(* transfers, bridge activities and trades keeps of quantities, costs and   *)
(* profits, and in which order it relieves lots. First what loops and sums  *)
(* over sequences do, then what each helper does to one position, what each *)
(* change does to the books, and what each item does; at the end the same   *)
(* for the order of lots.                                                   *)
(***************************************************************************)
EXTENDS WalletLedger, SequenceTheorems, Induction, TLAPS

(* ------------------------------ loops ----------------------------------- *)

LEMMA GreatestOf ==
  ASSUME NEW n \in Nat, NEW s \in SUBSET (1..n), s # {}
  PROVE  Max(s) \in s /\ \A m \in s : m <= Max(s)
<1>1. s \in SUBSET Nat /\ \A m \in s : m <= n
  OBVIOUS
<1>2. \E x \in s : \A y \in s : y <= x
  BY <1>1, GreatestNatural
<1>3. \E x \in s : \A y \in s : x >= y
  BY <1>2
<1>4. Max(s) \in s /\ \A m \in s : Max(s) >= m
  BY <1>3, Zenon DEF Max
<1> QED BY <1>1, <1>4

LEMMA GreatestIs ==
  ASSUME NEW n \in Nat, NEW s \in SUBSET (1..n), NEW x \in s, \A y \in s : y <= x
  PROVE  Max(s) = x
<1>1. Max(s) \in s /\ x <= Max(s)
  <2>1. s # {}
    OBVIOUS
  <2> QED BY <2>1, GreatestOf
<1>2. x \in 1..n /\ Max(s) \in 1..n /\ Max(s) <= x
  BY <1>1
<1> QED BY <1>1, <1>2

(* A loop over 1..n whose accumulator stays in S: the function FoldLeft is
   defined by exists, *)
IsFold(g, n, S, base, step) ==
  /\ g \in [SUBSET (1..n) -> S]
  /\ \A s \in SUBSET (1..n) :
       g[s] = IF s = {} THEN base ELSE step[<<g[s \ {Max(s)}], Max(s)>>]

LEMMA LoopExists ==
  ASSUME NEW n \in Nat, NEW S, NEW base \in S, NEW step \in [S \X (1..n) -> S]
  PROVE  \E g : IsFold(g, n, S, base, step)
<1> DEFINE Right(g, k) == \A s \in SUBSET (1..k) :
             g[s] = IF s = {} THEN base ELSE step[<<g[s \ {Max(s)}], Max(s)>>]
           Upto(k) == \E g \in [SUBSET (1..k) -> S] : Right(g, k)
           N == {k \in Nat : k <= n => Upto(k)}
<1> HIDE DEF Right, Upto
<1>1. 0 \in N
  <2> DEFINE g == [s \in SUBSET (1..0) |-> base]
  <2>1. g \in [SUBSET (1..0) -> S] /\ Right(g, 0)
    <3>1. \A s \in SUBSET (1..0) : s = {}
      OBVIOUS
    <3> HIDE DEF g
    <3>2. g \in [SUBSET (1..0) -> S]
      BY DEF g
    <3>3. \A s \in SUBSET (1..0) : g[s] = base
      BY DEF g
    <3> QED BY <3>1, <3>2, <3>3 DEF Right
  <2> HIDE DEF g
  <2> QED BY <2>1 DEF Upto
<1>2. ASSUME NEW k \in Nat, k \in N PROVE k + 1 \in N
  <2> SUFFICES ASSUME k + 1 <= n PROVE Upto(k + 1)
    OBVIOUS
  <2>0. Upto(k)
    BY <1>2
  <2>1. PICK g \in [SUBSET (1..k) -> S] : Right(g, k)
    BY <2>0, Zenon DEF Upto
  <2> DEFINE h == [s \in SUBSET (1..k+1) |->
                     IF s \in SUBSET (1..k) THEN g[s] ELSE step[<<g[s \ {k + 1}], k + 1>>]]
  <2>2. \A s \in SUBSET (1..k+1) : s \ {k + 1} \in SUBSET (1..k) /\ (s \notin SUBSET (1..k) => k + 1 \in s)
    OBVIOUS
  <2>3. h \in [SUBSET (1..k+1) -> S]
    <3>1. ASSUME NEW s \in SUBSET (1..k+1) PROVE h[s] \in S
      <4>1. CASE s \in SUBSET (1..k)
        BY <4>1
      <4>2. CASE s \notin SUBSET (1..k)
        <5>1. g[s \ {k + 1}] \in S /\ k + 1 \in 1..n
          BY <2>2
        <5>2. <<g[s \ {k + 1}], k + 1>> \in S \X (1..n)
          BY <5>1
        <5>3. h[s] = step[<<g[s \ {k + 1}], k + 1>>]
          BY <4>2
        <5> HIDE DEF h
        <5> QED BY <5>2, <5>3
      <4> QED BY <4>1, <4>2
    <3> HIDE DEF h
    <3>2. DOMAIN h = SUBSET (1..k+1) /\ h = [s \in SUBSET (1..k+1) |-> h[s]]
      BY DEF h
    <3> QED BY <3>1, <3>2
  <2>4. ASSUME NEW s \in SUBSET (1..k+1), s # {}
        PROVE  h[s] = step[<<h[s \ {Max(s)}], Max(s)>>]
    <3>1. CASE s \in SUBSET (1..k)
      <4>1. Max(s) \in s
        BY <2>4, <3>1, GreatestOf
      <4>2. s \ {Max(s)} \in SUBSET (1..k) /\ s \ {Max(s)} \in SUBSET (1..k+1)
        BY <3>1
      <4>3. h[s] = g[s] /\ h[s \ {Max(s)}] = g[s \ {Max(s)}]
        BY <3>1, <4>2
      <4> HIDE DEF h
      <4> QED BY <2>1, <2>4, <3>1, <4>3 DEF Right
    <3>2. CASE s \notin SUBSET (1..k)
      <4>1. k + 1 \in s
        BY <2>2, <3>2
      <4>2. Max(s) = k + 1
        <5>1. \A y \in s : y <= k + 1
          OBVIOUS
        <5>2. k + 1 \in Nat
          OBVIOUS
        <5> QED BY <4>1, <5>1, <5>2, GreatestIs
      <4>3. h[s] = step[<<g[s \ {k + 1}], k + 1>>] /\ h[s \ {k + 1}] = g[s \ {k + 1}]
        BY <2>2, <3>2
      <4> HIDE DEF h
      <4> QED BY <4>2, <4>3
    <3> QED BY <3>1, <3>2
  <2>5. h[{}] = base
    <3>1. {} \in SUBSET (1..k) /\ {} \in SUBSET (1..k+1)
      OBVIOUS
    <3>2. h[{}] = g[{}]
      BY <3>1
    <3> HIDE DEF h
    <3> QED BY <2>1, <3>1, <3>2 DEF Right
  <2> HIDE DEF h
  <2>6. Right(h, k + 1)
    BY <2>4, <2>5 DEF Right
  <2> QED BY <2>3, <2>6 DEF Upto
<1>3. n \in N
  <2> HIDE DEF N
  <2> QED BY <1>1, <1>2, NaturalInduction
<1>4. Upto(n)
  BY <1>3
<1> QED BY <1>4, Zenon DEF Right, Upto, IsFold

(* and its values on 1..i are those of the loop after i rounds. *)
IsUntypedFold(g, n, S, base, step) ==
  /\ g[{}] = base
  /\ \A s \in SUBSET (1..n) : s # {} /\ g[s \ {Max(s)}] \in S =>
       g[s] = step[<<g[s \ {Max(s)}], Max(s)>>]
IsRun(f, n, S, base, step, last) ==
  /\ f \in [0..n -> S] /\ f[0] = base /\ f[n] = last
  /\ \A i \in 1..n : f[i] = step[<<f[i - 1], i>>]

LEMMA LoopSteps ==
  ASSUME NEW n \in Nat, NEW S, NEW base \in S, NEW step \in [S \X (1..n) -> S], NEW g,
         IsUntypedFold(g, n, S, base, step)
  PROVE  \E f : IsRun(f, n, S, base, step, g[1..n])
<1> DEFINE f == [i \in 0..n |-> g[1..i]]
           N == {k \in Nat : k <= n => g[1..k] \in S}
<1>1. ASSUME NEW i \in 1..n, g[1..(i - 1)] \in S
      PROVE  g[1..i] = step[<<g[1..(i - 1)], i>>]
  <2>1. 1..i \in SUBSET (1..n) /\ i \in 1..i /\ \A y \in 1..i : y <= i
    OBVIOUS
  <2>2. Max(1..i) = i
    BY <2>1, GreatestIs
  <2>3. (1..i) \ {i} = 1..(i - 1)
    OBVIOUS
  <2>4. 1..i # {}
    BY <2>1
  <2> QED BY <1>1, <2>1, <2>2, <2>3, <2>4 DEF IsUntypedFold
<1>2. 0 \in N
  <2>1. 1..0 = {}
    OBVIOUS
  <2> QED BY <2>1 DEF IsUntypedFold
<1>3. ASSUME NEW k \in Nat, k \in N PROVE k + 1 \in N
  <2> SUFFICES ASSUME k + 1 <= n PROVE g[1..(k + 1)] \in S
    OBVIOUS
  <2>1. g[1..k] \in S /\ k + 1 \in 1..n /\ (k + 1) - 1 = k
    BY <1>3
  <2>2. g[1..(k + 1)] = step[<<g[1..k], k + 1>>]
    BY <1>1, <2>1
  <2>3. <<g[1..k], k + 1>> \in S \X (1..n)
    BY <2>1
  <2> QED BY <2>2, <2>3
<1>4. \A k \in 0..n : g[1..k] \in S
  <2>1. Nat \subseteq N
    <3> HIDE DEF N
    <3> QED BY <1>2, <1>3, NaturalInduction
  <2> QED BY <2>1
<1>5. f \in [0..n -> S] /\ f[n] = g[1..n]
  BY <1>4
<1>6. f[0] = base
  <2>1. 1..0 = {}
    OBVIOUS
  <2> QED BY <2>1 DEF IsUntypedFold
<1>7. \A i \in 1..n : f[i] = step[<<f[i - 1], i>>]
  <2> SUFFICES ASSUME NEW i \in 1..n PROVE f[i] = step[<<f[i - 1], i>>]
    OBVIOUS
  <2>1. i - 1 \in 0..n /\ i \in 0..n
    OBVIOUS
  <2>2. g[1..i] = step[<<g[1..(i - 1)], i>>]
    BY <1>1, <1>4, <2>1
  <2> QED BY <2>1, <2>2
<1> HIDE DEF f
<1> QED BY <1>5, <1>6, <1>7 DEF IsRun

(* -------------------------- sums of sequences --------------------------- *)

Total(s) == SumFunction(s)

LEMMA TotalIs == ASSUME NEW s PROVE Total(s) = SumFunctionOnSet(s, DOMAIN s)
  BY DEF Total, SumFunction

LEMMA TotalOfNone == Total(<<>>) = 0
<1>1. DOMAIN <<>> = {}
  OBVIOUS
<1> QED BY <1>1, TotalIs, SumOfNone

LEMMA TotalIsInt == ASSUME NEW s \in Seq(Int) PROVE Total(s) \in Int
<1>0. 1 \in Int /\ Len(s) \in Int
  OBVIOUS
<1>1. IsFiniteSet(1..Len(s)) /\ \A i \in 1..Len(s) : s[i] \in Int
  BY <1>0, FS_Interval
<1>2. SumFunctionOnSet(s, 1..Len(s)) \in Int
  BY <1>1, SumRemoves
<1>3. DOMAIN s = 1..Len(s)
  OBVIOUS
<1> QED BY <1>2, <1>3, TotalIs

LEMMA TotalIsNatural == ASSUME NEW s \in Seq(Nat) PROVE Total(s) \in Nat
<1>0. 1 \in Int /\ Len(s) \in Int
  OBVIOUS
<1>1. IsFiniteSet(1..Len(s)) /\ \A i \in 1..Len(s) : s[i] \in Nat
  <2>1. IsFiniteSet(1..Len(s))
    BY <1>0, FS_Interval
  <2> QED BY <2>1
<1>2. SumFunctionOnSet(s, 1..Len(s)) \in Nat
  BY <1>1, SumIsNatural
<1>3. DOMAIN s = 1..Len(s)
  OBVIOUS
<1> QED BY <1>2, <1>3, TotalIs

LEMMA TotalAppends ==
  ASSUME NEW s \in Seq(Int), NEW x \in Int
  PROVE  Total(Append(s, x)) = Total(s) + x
<1> DEFINE t == Append(s, x)
           n == Len(s)
<1>1. n \in Nat /\ t \in Seq(Int) /\ DOMAIN t = 1..(n + 1) /\ DOMAIN s = 1..n
      /\ t[n + 1] = x /\ \A i \in 1..n : t[i] = s[i] /\ s[i] \in Int
  OBVIOUS
<1> HIDE DEF t, n
<1>0. 1 \in Int /\ n \in Int
  BY <1>1
<1>2. IsFiniteSet(1..n) /\ 1..(n + 1) = (1..n) \cup {n + 1} /\ n + 1 \notin 1..n
  <2>1. IsFiniteSet(1..n)
    BY <1>0, FS_Interval
  <2>2. 1..(n + 1) = (1..n) \cup {n + 1} /\ n + 1 \notin 1..n
    BY <1>1
  <2> QED BY <2>1, <2>2
<1>3. SumFunctionOnSet(t, 1..(n + 1)) = t[n + 1] + SumFunctionOnSet(t, 1..n)
  BY <1>1, <1>2, SumAdds
<1>4. SumFunctionOnSet(s, 1..n) = SumFunctionOnSet(t, 1..n)
  BY <1>1, <1>2, SumSame
<1>5. Total(t) = SumFunctionOnSet(t, 1..(n + 1)) /\ Total(s) = SumFunctionOnSet(s, 1..n)
  BY <1>1, TotalIs
<1>6. Total(s) \in Int
  BY TotalIsInt
<1> QED BY <1>1, <1>3, <1>4, <1>5, <1>6 DEF t

LEMMA TotalConcatenates ==
  ASSUME NEW s \in Seq(Int), NEW t \in Seq(Int)
  PROVE  Total(s \o t) = Total(s) + Total(t)
<1> DEFINE N == {n \in Nat : \A u \in Seq(Int) : Len(u) = n => Total(s \o u) = Total(s) + Total(u)}
<1>1. 0 \in N
  <2> SUFFICES ASSUME NEW u \in Seq(Int), Len(u) = 0 PROVE Total(s \o u) = Total(s) + Total(u)
    OBVIOUS
  <2>1. u = <<>>
    OBVIOUS
  <2>2. s \o <<>> = s
    BY ConcatEmptySeq
  <2> QED BY <2>1, <2>2, TotalOfNone, TotalIsInt
<1>2. ASSUME NEW n \in Nat, n \in N PROVE n + 1 \in N
  <2> SUFFICES ASSUME NEW u \in Seq(Int), Len(u) = n + 1 PROVE Total(s \o u) = Total(s) + Total(u)
    OBVIOUS
  <2>1. u # <<>>
    OBVIOUS
  <2>2. PICK v \in Seq(Int), x \in Int : u = Append(v, x)
    BY <2>1, SequenceEmptyOrAppend
  <2>3. Len(v) = n
    BY <2>2
  <2>4. s \o u = Append(s \o v, x) /\ s \o v \in Seq(Int)
    BY <2>2
  <2>5. Total(s \o v) = Total(s) + Total(v)
    BY <1>2, <2>3
  <2>6. Total(u) = Total(v) + x
    BY <2>2, TotalAppends
  <2>7. Total(Append(s \o v, x)) = Total(s \o v) + x
    BY <2>4, TotalAppends
  <2>8. Total(s) \in Int /\ Total(v) \in Int
    BY TotalIsInt
  <2> QED BY <2>4, <2>5, <2>6, <2>7, <2>8
<1>3. Nat \subseteq N
  <2> HIDE DEF N
  <2> QED BY <1>1, <1>2, NaturalInduction
<1> QED BY <1>3

(* --------------------------- shares and splits --------------------------- *)

LEMMA Division ==
  ASSUME NEW a \in Nat, NEW b \in Nat \ {0}
  PROVE  a \div b \in Nat /\ b * (a \div b) <= a /\ a < b * (a \div b) + b
OBVIOUS

LEMMA ShareIsInt ==
  ASSUME NEW total \in Int, NEW part \in Nat, NEW whole \in Nat
  PROVE  proportionalShare(total, part, whole) \in Int
<1>1. \A a \in Nat, b \in Nat \ {0} : a \div b \in Int
  BY Division
<1>2. \A a \in Int, b \in Nat \ {0} : Quot(a, b) \in Int
  <2> SUFFICES ASSUME NEW a \in Int, NEW b \in Nat \ {0} PROVE Quot(a, b) \in Int
    OBVIOUS
  <2>1. CASE a < 0
    <3>1. -a \in Nat
      BY <2>1
    <3>2. (-a) \div b \in Int
      BY <1>1, <3>1
    <3> QED BY <2>1, <3>2 DEF Quot
  <2>2. CASE ~(a < 0)
    <3>1. a \in Nat
      BY <2>2
    <3>2. a \div b \in Int
      BY <1>1, <3>1
    <3> QED BY <2>2, <3>2 DEF Quot
  <2> QED BY <2>1, <2>2
<1>3. total * part \in Int
  OBVIOUS
<1> QED BY <1>2, <1>3 DEF proportionalShare

LEMMA ShareBounds ==
  ASSUME NEW total \in Nat, NEW part \in Nat, NEW whole \in Nat, part <= whole
  PROVE  /\ proportionalShare(total, part, whole) \in 0..total
         /\ part = whole /\ whole # 0 => proportionalShare(total, part, whole) = total
<1>1. CASE whole = 0
  BY <1>1 DEF proportionalShare
<1>2. CASE whole # 0
  <2> DEFINE q == (total * part) \div whole
  <2>1. total * part \in Nat /\ total * part <= total * whole /\ total * whole = whole * total
    OBVIOUS
  <2>2. proportionalShare(total, part, whole) = q
    BY <1>2, <2>1 DEF proportionalShare, Quot
  <2>3. q \in Nat /\ whole * q <= total * part /\ total * part < whole * q + whole
    BY <1>2, <2>1, Division
  <2> HIDE DEF q
  <2>4. q <= total
    <3>1. whole * q <= whole * total
      BY <2>1, <2>3
    <3>2. \A x, y \in Nat : whole * x <= whole * y => x <= y
      <4> SUFFICES ASSUME NEW x \in Nat, NEW y \in Nat, whole * x <= whole * y, y < x PROVE FALSE
        OBVIOUS
      <4>1. PICK d \in Nat : x = y + 1 + d
        <5>1. x - y - 1 \in Nat /\ x = y + 1 + (x - y - 1)
          OBVIOUS
        <5> QED BY <5>1
      <4>2. whole * x = whole * y + whole + whole * d
        BY <4>1
      <4>3. whole * d \in Nat /\ whole * y \in Nat
        OBVIOUS
      <4> QED BY <1>2, <4>2, <4>3
    <3> QED BY <2>3, <3>1, <3>2
  <2>5. ASSUME part = whole PROVE q = total
    <3>1. whole * q <= whole * total /\ whole * total < whole * q + whole
      BY <2>1, <2>3, <2>5
    <3>2. CASE q < total
      <4>1. PICK d \in Nat : total = q + 1 + d
        <5>1. total - q - 1 \in Nat /\ total = q + 1 + (total - q - 1)
          BY <2>3, <3>2
        <5> QED BY <5>1
      <4>2. whole * total = whole * q + whole + whole * d
        BY <2>3, <4>1
      <4>3. whole * d \in Nat /\ whole * q \in Nat
        BY <2>3
      <4> QED BY <3>1, <4>2, <4>3
    <3> QED BY <2>3, <2>4, <3>2
  <2> QED BY <2>2, <2>3, <2>4, <2>5
<1> QED BY <1>1, <1>2

LEMMA LoopInduction ==
  ASSUME NEW n \in Nat, NEW S, 0 \in S, \A i \in 1..n : i - 1 \in S => i \in S
  PROVE  0..n \subseteq S
<1> DEFINE N == {i \in Nat : i <= n => i \in S}
<1>1. 0 \in N
  OBVIOUS
<1>2. ASSUME NEW i \in Nat, i \in N PROVE i + 1 \in N
  <2> SUFFICES ASSUME i + 1 <= n PROVE i + 1 \in S
    OBVIOUS
  <2>1. i + 1 \in 1..n /\ (i + 1) - 1 = i /\ i \in S
    BY <1>2
  <2> QED BY <2>1
<1>3. Nat \subseteq N
  <2> HIDE DEF N
  <2> QED BY <1>1, <1>2, NaturalInduction
<1> QED BY <1>3

(* The weight of what is left of a sum is a part of it. *)
LEMMA RestBounds ==
  ASSUME NEW weights \in Seq(Nat), NEW i \in 1..Len(weights)
  PROVE  /\ SumFunctionOnSet(weights, i..Len(weights)) \in Nat
         /\ weights[i] <= SumFunctionOnSet(weights, i..Len(weights))
<1> DEFINE n == Len(weights)
           rest == SumFunctionOnSet(weights, i..n)
<1>1. i \in Int /\ n \in Int /\ i \in i..n /\ \A j \in i..n : weights[j] \in Nat
  OBVIOUS
<1> HIDE DEF n
<1>2. IsFiniteSet(i..n)
  BY <1>1, FS_Interval
<1>3. rest \in Nat
  BY <1>1, <1>2, SumIsNatural
<1>4. rest = weights[i] + SumFunctionOnSet(weights, (i..n) \ {i})
  <2>1. \A j \in i..n : weights[j] \in Int
    BY <1>1
  <2>2. \A x \in i..n : rest = weights[x] + SumFunctionOnSet(weights, (i..n) \ {x})
    BY <1>2, <2>1, SumRemoves, ZenonT(40)
  <2> HIDE DEF rest
  <2> QED BY <1>1, <2>2
<1>5. SumFunctionOnSet(weights, (i..n) \ {i}) \in Nat
  <2>1. IsFiniteSet((i..n) \ {i})
    BY <1>2, FS_RemoveElement
  <2>2. \A j \in (i..n) \ {i} : weights[j] \in Nat
    BY <1>1
  <2> QED BY <2>1, <2>2, SumIsNatural
<1>6. weights[i] \in Nat
  BY <1>1
<1> QED BY <1>3, <1>4, <1>5, <1>6 DEF n

Splitting == [left : Int, shares : Seq(Int)]

LEMMA NextShareIsTyped ==
  ASSUME NEW weights \in Seq(Nat), NEW acc \in Splitting, NEW i \in 1..Len(weights)
  PROVE  \E share \in Int :
           /\ NextShare(weights, acc, i) = [left |-> acc.left - share, shares |-> Append(acc.shares, share)]
           /\ NextShare(weights, acc, i) \in Splitting
           /\ i = Len(weights) => share = acc.left
           /\ acc.left \in Nat => share \in 0..acc.left
<1> DEFINE n == Len(weights)
           rest == SumFunctionOnSet(weights, i..n)
           share == IF i = n THEN acc.left ELSE proportionalShare(acc.left, weights[i], rest)
<1>1. rest \in Nat /\ weights[i] <= rest
  BY RestBounds
<1>2. weights[i] \in Nat /\ acc.left \in Int /\ acc.shares \in Seq(Int)
  BY DEF Splitting
<1>3. share \in Int
  <2>1. proportionalShare(acc.left, weights[i], rest) \in Int
    BY <1>1, <1>2, ShareIsInt
  <2> QED BY <1>2, <2>1
<1>4. acc.left \in Nat => share \in 0..acc.left
  <2> SUFFICES ASSUME acc.left \in Nat PROVE share \in 0..acc.left
    OBVIOUS
  <2>1. proportionalShare(acc.left, weights[i], rest) \in 0..acc.left
    BY <1>1, <1>2, ShareBounds
  <2> QED BY <2>1
<1>5. NextShare(weights, acc, i) = [left |-> acc.left - share, shares |-> Append(acc.shares, share)]
  BY DEF NextShare
<1>6. i = n => share = acc.left
  OBVIOUS
<1> HIDE DEF share
<1>7. NextShare(weights, acc, i) \in Splitting
  BY <1>2, <1>3, <1>5 DEF Splitting
<1> QED BY <1>3, <1>4, <1>5, <1>6, <1>7

LEMMA SplitLoop ==
  ASSUME NEW total \in Int, NEW weights \in Seq(Nat)
  PROVE  \E f \in [0..Len(weights) -> Splitting] :
           /\ f[0] = [left |-> total, shares |-> <<>>]
           /\ f[Len(weights)].shares = Split(total, weights)
           /\ \A i \in 1..Len(weights) : f[i] = NextShare(weights, f[i - 1], i)
<1> DEFINE n == Len(weights)
           base == [left |-> total, shares |-> <<>>]
           step == [a \in Splitting \X (1..n) |-> NextShare(weights, a[1], a[2])]
           it == CHOOSE g : g = [s \in SUBSET DOMAIN [i \in DOMAIN weights |-> i] |->
                   IF s = {} THEN base
                   ELSE NextShare(weights, g[s \ {Max(s)}], [i \in DOMAIN weights |-> i][Max(s)])]
<1>0. n \in Nat /\ DOMAIN weights = 1..n /\ DOMAIN [i \in DOMAIN weights |-> i] = 1..n
  OBVIOUS
<1>1. base \in Splitting
  BY DEF Splitting
<1>2. step \in [Splitting \X (1..n) -> Splitting]
  BY NextShareIsTyped
<1>3. \A acc \in Splitting, i \in 1..n : step[<<acc, i>>] = NextShare(weights, acc, i)
  OBVIOUS
<1>4. Split(total, weights) = it[DOMAIN [i \in DOMAIN weights |-> i]].shares
  BY Zenon DEF Split, FoldLeftDomain, FoldLeft, MapThenFoldSet
<1>5. \A s \in SUBSET (1..n) : s # {} => Max(s) \in 1..n
  BY <1>0, GreatestOf
<1>n. n \in Nat
  OBVIOUS
<1> HIDE DEF n, base, step, it
<1>6. PICK g : IsFold(g, n, Splitting, base, step)
  BY <1>n, <1>1, <1>2, LoopExists
<1>7. g = [s \in SUBSET DOMAIN [i \in DOMAIN weights |-> i] |->
             IF s = {} THEN base
             ELSE NextShare(weights, g[s \ {Max(s)}], [i \in DOMAIN weights |-> i][Max(s)])]
  <2>1. ASSUME NEW s \in SUBSET (1..n), s # {}
        PROVE  g[s] = NextShare(weights, g[s \ {Max(s)}], [i \in DOMAIN weights |-> i][Max(s)])
    <3>1. g[s \ {Max(s)}] \in Splitting
      BY <1>6 DEF IsFold
    <3>2. Max(s) \in 1..n /\ [i \in DOMAIN weights |-> i][Max(s)] = Max(s)
      BY <1>0, <1>5, <2>1
    <3> QED BY <1>3, <1>6, <2>1, <3>1, <3>2 DEF IsFold
  <2>2. g[{}] = base /\ g = [s \in SUBSET (1..n) |-> g[s]]
    BY <1>6 DEF IsFold
  <2>3. \A s \in SUBSET (1..n) :
          g[s] = IF s = {} THEN base
                 ELSE NextShare(weights, g[s \ {Max(s)}], [i \in DOMAIN weights |-> i][Max(s)])
    BY <2>1, <2>2
  <2> QED BY <1>0, <2>2, <2>3
<1>8. it = [s \in SUBSET DOMAIN [i \in DOMAIN weights |-> i] |->
              IF s = {} THEN base
              ELSE NextShare(weights, it[s \ {Max(s)}], [i \in DOMAIN weights |-> i][Max(s)])]
  BY <1>7, Zenon DEF it
<1>9. it[{}] = base
  BY <1>0, <1>8
<1>10. \A s \in SUBSET (1..n) : s # {} /\ it[s \ {Max(s)}] \in Splitting =>
         it[s] = step[<<it[s \ {Max(s)}], Max(s)>>]
  <2> SUFFICES ASSUME NEW s \in SUBSET (1..n), s # {}, it[s \ {Max(s)}] \in Splitting
               PROVE  it[s] = step[<<it[s \ {Max(s)}], Max(s)>>]
    OBVIOUS
  <2>1. Max(s) \in 1..n /\ [i \in DOMAIN weights |-> i][Max(s)] = Max(s)
    BY <1>0, <1>5
  <2>2. it[s] = NextShare(weights, it[s \ {Max(s)}], Max(s))
    <3>1. s \in SUBSET DOMAIN [i \in DOMAIN weights |-> i]
      BY <1>0
    <3>2. it[s] = NextShare(weights, it[s \ {Max(s)}], [i \in DOMAIN weights |-> i][Max(s)])
      BY <1>8, <3>1
    <3> QED BY <2>1, <3>2
  <2>3. step[<<it[s \ {Max(s)}], Max(s)>>] = NextShare(weights, it[s \ {Max(s)}], Max(s))
    BY <1>3, <2>1
  <2> QED BY <2>2, <2>3
<1>11. PICK f : IsRun(f, n, Splitting, base, step, it[1..n])
  <2>1. IsUntypedFold(it, n, Splitting, base, step)
    BY <1>9, <1>10 DEF IsUntypedFold
  <2> QED BY <1>n, <1>1, <1>2, <2>1, LoopSteps
<1>12. \A i \in 1..n : f[i] = NextShare(weights, f[i - 1], i)
  <2> SUFFICES ASSUME NEW i \in 1..n PROVE f[i] = NextShare(weights, f[i - 1], i)
    OBVIOUS
  <2>1. i - 1 \in 0..n
    BY <1>n
  <2> QED BY <1>3, <1>11, <2>1 DEF IsRun
<1> QED BY <1>0, <1>4, <1>11, <1>12 DEF n, base, IsRun

(* The shares are as many as the weights and add up to the whole; of a natural
   number they are natural numbers. *)
LEMMA SplitSums ==
  ASSUME NEW total \in Int, NEW weights \in Seq(Nat)
  PROVE  /\ Split(total, weights) \in Seq(Int)
         /\ Len(Split(total, weights)) = Len(weights)
         /\ weights # <<>> => Total(Split(total, weights)) = total
         /\ total \in Nat => Split(total, weights) \in Seq(Nat)
<1> DEFINE n == Len(weights)
<1>1. n \in Nat /\ (weights # <<>> => n # 0)
  OBVIOUS
<1>2. PICK f \in [0..n -> Splitting] :
        /\ f[0] = [left |-> total, shares |-> <<>>]
        /\ f[n].shares = Split(total, weights)
        /\ \A i \in 1..n : f[i] = NextShare(weights, f[i - 1], i)
  BY SplitLoop
<1> DEFINE Good(i) ==
      /\ f[i].left \in Int /\ f[i].shares \in Seq(Int) /\ Len(f[i].shares) = i
      /\ f[i].left + Total(f[i].shares) = total
      /\ i = n /\ i # 0 => f[i].left = 0
      /\ total \in Nat => f[i].left \in Nat /\ f[i].shares \in Seq(Nat)
<1> DEFINE N == {i \in 0..n : Good(i)}
<1>3. 0 \in N
  <2>1. f[0].left = total /\ f[0].shares = <<>>
    BY <1>2
  <2>2. Total(<<>>) = 0
    BY TotalOfNone
  <2>3. <<>> \in Seq(Int) /\ <<>> \in Seq(Nat) /\ Len(<<>>) = 0
    OBVIOUS
  <2>4. Good(0)
    <3> HIDE DEF n
    <3> QED BY <2>1, <2>2, <2>3
  <2> HIDE DEF Good, n
  <2> QED BY <1>1, <2>4
<1>4. ASSUME NEW i \in 1..n, i - 1 \in N PROVE i \in N
  <2> DEFINE a == f[i - 1]
  <2>1. i - 1 \in 0..n /\ i \in 0..n /\ i \in Nat /\ i # 0
    BY <1>1
  <2>2. Good(i - 1) /\ a \in Splitting
    BY <1>2, <1>4, <2>1
  <2>3. PICK share \in Int :
          /\ NextShare(weights, a, i) = [left |-> a.left - share, shares |-> Append(a.shares, share)]
          /\ NextShare(weights, a, i) \in Splitting
          /\ i = Len(weights) => share = a.left
          /\ a.left \in Nat => share \in 0..a.left
    BY <2>2, NextShareIsTyped
  <2>4. f[i].left = a.left - share /\ f[i].shares = Append(a.shares, share)
    BY <1>2, <2>3, SMTT(30)
  <2>5. Total(f[i].shares) = Total(a.shares) + share /\ Total(a.shares) \in Int
    BY <2>2, <2>4, TotalAppends, TotalIsInt
  <2>6. f[i].shares \in Seq(Int) /\ Len(f[i].shares) = i /\ f[i].left \in Int
    BY <2>1, <2>2, <2>4
  <2>7. i = n => f[i].left = 0
    BY <2>2, <2>3, <2>4
  <2>8. ASSUME total \in Nat PROVE f[i].left \in Nat /\ f[i].shares \in Seq(Nat)
    <3>1. a.left \in Nat /\ a.shares \in Seq(Nat)
      BY <2>2, <2>8
    <3>2. share \in 0..a.left
      BY <2>3, <3>1
    <3> HIDE DEF a
    <3>3. share \in Nat /\ a.left - share \in Nat
      BY <3>1, <3>2
    <3>4. Append(a.shares, share) \in Seq(Nat)
      BY <3>1, <3>3
    <3> QED BY <2>4, <3>3, <3>4
  <2>9. f[i].left + Total(f[i].shares) = total
    <3>1. a.left + Total(a.shares) = total /\ a.left \in Int
      BY <2>2
    <3> HIDE DEF a
    <3> QED BY <2>4, <2>5, <3>1
  <2> HIDE DEF a, n
  <2> QED BY <2>1, <2>6, <2>7, <2>8, <2>9
<1>5. Good(n)
  <2>1. 0..n \subseteq N
    <3> HIDE DEF N
    <3> QED BY <1>1, <1>3, <1>4, LoopInduction
  <2> QED BY <1>1, <2>1
<1>6. Total(f[n].shares) \in Int
  BY <1>5, TotalIsInt
<1> HIDE DEF n
<1> QED BY <1>1, <1>2, <1>5, <1>6 DEF n

(* ------------------------------- lots ----------------------------------- *)

Match == Lot
Lots == Seq(Lot)
Qty(lots) == Total(Quantities(lots))
CostOf(lots) == Total(Costs(lots))

LEMMA LotsAreMeasured ==
  ASSUME NEW lots \in Lots
  PROVE  /\ Quantities(lots) \in Seq(Nat \ {0}) /\ Costs(lots) \in Seq(Nat)
         /\ Len(Quantities(lots)) = Len(lots) /\ Len(Costs(lots)) = Len(lots)
         /\ Qty(lots) \in Nat /\ CostOf(lots) \in Nat
<1>1. \A i \in 1..Len(lots) : lots[i].qty \in Nat \ {0} /\ lots[i].cost \in Nat
  <2> SUFFICES ASSUME NEW i \in 1..Len(lots)
               PROVE  lots[i].qty \in Nat \ {0} /\ lots[i].cost \in Nat
    OBVIOUS
  <2>1. lots[i] \in Lot
    BY ElementOfSeq DEF Lots
  <2> QED BY <2>1 DEF Lot
<1>2. DOMAIN lots = 1..Len(lots) /\ Len(lots) \in Nat
  BY DEF Lots
<1>3. Quantities(lots) \in [1..Len(lots) -> Nat \ {0}] /\ Costs(lots) \in [1..Len(lots) -> Nat]
  BY <1>1, <1>2 DEF Quantities, Costs
<1>4. Quantities(lots) \in Seq(Nat \ {0}) /\ Costs(lots) \in Seq(Nat)
  BY <1>2, <1>3, SeqDef
<1>5. Len(Quantities(lots)) = Len(lots) /\ Len(Costs(lots)) = Len(lots)
  BY <1>2, <1>3, <1>4
<1>6. Quantities(lots) \in Seq(Nat)
  BY <1>4, SeqMonotonic
<1> QED BY <1>4, <1>5, <1>6, TotalIsNatural DEF Qty, CostOf

LEMMA LotsAppend ==
  ASSUME NEW lots \in Lots, NEW lot \in Lot
  PROVE  /\ Append(lots, lot) \in Lots
         /\ Qty(Append(lots, lot)) = Qty(lots) + lot.qty
         /\ CostOf(Append(lots, lot)) = CostOf(lots) + lot.cost
<1>1. Quantities(Append(lots, lot)) = Append(Quantities(lots), lot.qty)
  BY DEF Quantities, Lots
<1>2. Costs(Append(lots, lot)) = Append(Costs(lots), lot.cost)
  BY DEF Costs, Lots
<1>3. Quantities(lots) \in Seq(Int) /\ Costs(lots) \in Seq(Int) /\ lot.qty \in Int /\ lot.cost \in Int
  <2>1. Quantities(lots) \in Seq(Nat \ {0}) /\ Costs(lots) \in Seq(Nat)
    BY LotsAreMeasured
  <2>2. Quantities(lots) \in Seq(Int) /\ Costs(lots) \in Seq(Int)
    BY <2>1
  <2>3. lot.qty \in Int /\ lot.cost \in Int
    BY DEF Lot
  <2> QED BY <2>2, <2>3
<1>4. Qty(Append(lots, lot)) = Qty(lots) + lot.qty
  BY <1>1, <1>3, TotalAppends DEF Qty
<1>5. CostOf(Append(lots, lot)) = CostOf(lots) + lot.cost
  BY <1>2, <1>3, TotalAppends DEF CostOf
<1> QED BY <1>4, <1>5 DEF Lots

LEMMA LotsConcatenate ==
  ASSUME NEW lots \in Lots, NEW more \in Lots
  PROVE  /\ lots \o more \in Lots
         /\ Qty(lots \o more) = Qty(lots) + Qty(more)
         /\ CostOf(lots \o more) = CostOf(lots) + CostOf(more)
<1> DEFINE m == Len(lots)
           n == Len(more)
           all == lots \o more
<1>0. /\ m \in Nat /\ n \in Nat /\ DOMAIN lots = 1..m /\ DOMAIN more = 1..n
      /\ all \in Lots /\ Len(all) = m + n /\ DOMAIN all = 1..(m + n)
      /\ \A i \in 1..(m + n) : all[i] = IF i <= m THEN lots[i] ELSE more[i - m]
  BY DEF Lots
<1>1. Quantities(all) = Quantities(lots) \o Quantities(more)
  <2>1. /\ Len(Quantities(all)) = m + n /\ Quantities(all) \in Seq(Nat \ {0})
        /\ Len(Quantities(lots)) = m /\ Quantities(lots) \in Seq(Nat \ {0})
        /\ Len(Quantities(more)) = n /\ Quantities(more) \in Seq(Nat \ {0})
    BY <1>0, LotsAreMeasured
  <2>2. \A i \in 1..(m + n) : Quantities(all)[i] = (Quantities(lots) \o Quantities(more))[i]
    <3> SUFFICES ASSUME NEW i \in 1..(m + n)
                 PROVE  Quantities(all)[i] = (Quantities(lots) \o Quantities(more))[i]
      OBVIOUS
    <3>1. (Quantities(lots) \o Quantities(more))[i]
            = IF i <= m THEN Quantities(lots)[i] ELSE Quantities(more)[i - m]
      BY <2>1, ConcatProperties, SMTT(30)
    <3>2. Quantities(all)[i] = all[i].qty
      BY <1>0 DEF Quantities
    <3>3. CASE i <= m
      <4>1. Quantities(lots)[i] = lots[i].qty
        BY <1>0, <3>3 DEF Quantities
      <4> QED BY <1>0, <3>1, <3>2, <3>3, <4>1
    <3>4. CASE ~(i <= m)
      <4>1. i - m \in 1..n
        BY <1>0, <3>4
      <4>2. Quantities(more)[i - m] = more[i - m].qty
        BY <1>0, <4>1 DEF Quantities
      <4> QED BY <1>0, <3>1, <3>2, <3>4, <4>2
    <3> QED BY <3>3, <3>4
  <2>3. Quantities(lots) \o Quantities(more) \in Seq(Nat \ {0})
        /\ Len(Quantities(lots) \o Quantities(more)) = m + n
    <3>1. Quantities(lots) \in Seq(Nat \ {0}) /\ Quantities(more) \in Seq(Nat \ {0})
      BY <2>1
    <3>2. Len(Quantities(lots) \o Quantities(more)) = Len(Quantities(lots)) + Len(Quantities(more))
      BY <3>1, ConcatProperties
    <3>3. Quantities(lots) \o Quantities(more) \in Seq(Nat \ {0})
      BY <3>1, ConcatProperties
    <3> QED BY <2>1, <3>2, <3>3
  <2>4. \A i \in 1..Len(Quantities(all)) :
          Quantities(all)[i] = (Quantities(lots) \o Quantities(more))[i]
    BY <2>1, <2>2
  <2>5. Len(Quantities(all)) = Len(Quantities(lots) \o Quantities(more))
    BY <2>1, <2>3
  <2> DEFINE s == Quantities(all)
             t == Quantities(lots) \o Quantities(more)
  <2>6. /\ s \in Seq(Nat \ {0}) /\ t \in Seq(Nat \ {0}) /\ Len(s) = Len(t)
        /\ \A i \in 1..Len(s) : s[i] = t[i]
    <3>1. s \in Seq(Nat \ {0}) /\ t \in Seq(Nat \ {0})
      BY <2>1, <2>3
    <3> QED BY <2>4, <2>5, <3>1, Zenon
  <2> HIDE DEF s, t
  <2>7. s = t
    BY <2>6, SeqEqual
  <2> QED BY <2>7 DEF s, t
<1>2. Costs(all) = Costs(lots) \o Costs(more)
  <2>1. /\ Len(Costs(all)) = m + n /\ Costs(all) \in Seq(Nat)
        /\ Len(Costs(lots)) = m /\ Costs(lots) \in Seq(Nat)
        /\ Len(Costs(more)) = n /\ Costs(more) \in Seq(Nat)
    BY <1>0, LotsAreMeasured
  <2>2. \A i \in 1..(m + n) : Costs(all)[i] = (Costs(lots) \o Costs(more))[i]
    <3> SUFFICES ASSUME NEW i \in 1..(m + n)
                 PROVE  Costs(all)[i] = (Costs(lots) \o Costs(more))[i]
      OBVIOUS
    <3>1. (Costs(lots) \o Costs(more))[i]
            = IF i <= m THEN Costs(lots)[i] ELSE Costs(more)[i - m]
      BY <2>1, ConcatProperties, SMTT(30)
    <3>2. Costs(all)[i] = all[i].cost
      BY <1>0 DEF Costs
    <3>3. CASE i <= m
      <4>1. Costs(lots)[i] = lots[i].cost
        BY <1>0, <3>3 DEF Costs
      <4> QED BY <1>0, <3>1, <3>2, <3>3, <4>1
    <3>4. CASE ~(i <= m)
      <4>1. i - m \in 1..n
        BY <1>0, <3>4
      <4>2. Costs(more)[i - m] = more[i - m].cost
        BY <1>0, <4>1 DEF Costs
      <4> QED BY <1>0, <3>1, <3>2, <3>4, <4>2
    <3> QED BY <3>3, <3>4
  <2>3. Costs(lots) \o Costs(more) \in Seq(Nat)
        /\ Len(Costs(lots) \o Costs(more)) = m + n
    <3>1. Costs(lots) \in Seq(Nat) /\ Costs(more) \in Seq(Nat)
      BY <2>1
    <3>2. Len(Costs(lots) \o Costs(more)) = Len(Costs(lots)) + Len(Costs(more))
      BY <3>1, ConcatProperties
    <3>3. Costs(lots) \o Costs(more) \in Seq(Nat)
      BY <3>1, ConcatProperties
    <3> QED BY <2>1, <3>2, <3>3
  <2>4. \A i \in 1..Len(Costs(all)) :
          Costs(all)[i] = (Costs(lots) \o Costs(more))[i]
    BY <2>1, <2>2
  <2>5. Len(Costs(all)) = Len(Costs(lots) \o Costs(more))
    BY <2>1, <2>3
  <2> DEFINE s == Costs(all)
             t == Costs(lots) \o Costs(more)
  <2>6. /\ s \in Seq(Nat) /\ t \in Seq(Nat) /\ Len(s) = Len(t)
        /\ \A i \in 1..Len(s) : s[i] = t[i]
    <3>1. s \in Seq(Nat) /\ t \in Seq(Nat)
      BY <2>1, <2>3
    <3> QED BY <2>4, <2>5, <3>1, Zenon
  <2> HIDE DEF s, t
  <2>7. s = t
    BY <2>6, SeqEqual
  <2> QED BY <2>7 DEF s, t
<1>3. /\ Quantities(lots) \in Seq(Int) /\ Costs(lots) \in Seq(Int)
      /\ Quantities(more) \in Seq(Int) /\ Costs(more) \in Seq(Int)
  <2>1. Quantities(lots) \in Seq(Nat \ {0}) /\ Costs(lots) \in Seq(Nat)
    BY LotsAreMeasured
  <2>2. Quantities(more) \in Seq(Nat \ {0}) /\ Costs(more) \in Seq(Nat)
    BY LotsAreMeasured
  <2> QED BY <2>1, <2>2
<1>4. Qty(lots \o more) = Qty(lots) + Qty(more)
  BY <1>1, <1>3, TotalConcatenates DEF Qty
<1>5. CostOf(lots \o more) = CostOf(lots) + CostOf(more)
  BY <1>2, <1>3, TotalConcatenates DEF CostOf
<1> QED BY <1>4, <1>5 DEF Lots

LEMMA NoLots == <<>> \in Lots /\ Qty(<<>>) = 0 /\ CostOf(<<>>) = 0
<1>1. Quantities(<<>>) = <<>> /\ Costs(<<>>) = <<>>
  BY DEF Quantities, Costs
<1> QED BY <1>1, TotalOfNone DEF Qty, CostOf, Lots

(* Lots whose descent, their root and id, is in K: no operation on lots changes it. *)
LotOf(K) == {lot \in Lot : <<lot.root, lot.id>> \in K}
LotsOf(K) == Seq(LotOf(K))

LEMMA LotsOfAreLots ==
  ASSUME NEW K, NEW lots \in LotsOf(K)
  PROVE  lots \in Lots
<1>1. LotOf(K) \subseteq Lot
  BY DEF LotOf
<1> QED BY <1>1, SeqMonotonic DEF LotsOf, Lots

LEMMA LotIsMeasured ==
  ASSUME NEW lot \in Lot
  PROVE  /\ lot.qty \in Nat /\ lot.qty > 0 /\ lot.cost \in Nat /\ lot.root \in Nat
         /\ lot.id \in Seq(Nat)
  BY DEF Lot

Taking(K) == [left : Nat, lots : LotsOf(K), matches : LotsOf(K)]

LEMMA TakingALot ==
  ASSUME NEW K, NEW acc \in Taking(K), NEW lot \in LotOf(K)
  PROVE  /\ TakeLot(acc, lot) \in Taking(K)
         /\ TakeLot(acc, lot).left <= acc.left
         /\ TakeLot(acc, lot).left > 0 => TakeLot(acc, lot).lots = acc.lots
         /\ Qty(TakeLot(acc, lot).matches) + TakeLot(acc, lot).left = Qty(acc.matches) + acc.left
         /\ Qty(TakeLot(acc, lot).lots) + Qty(TakeLot(acc, lot).matches)
              = Qty(acc.lots) + Qty(acc.matches) + lot.qty
         /\ CostOf(TakeLot(acc, lot).lots) + CostOf(TakeLot(acc, lot).matches)
              = CostOf(acc.lots) + CostOf(acc.matches) + lot.cost
<1> DEFINE q == Least(acc.left, lot.qty)
           c == proportionalShare(lot.cost, q, lot.qty)
           kept == [lot EXCEPT !.qty = lot.qty - q, !.cost = lot.cost - c]
           taken == [lot EXCEPT !.qty = q, !.cost = c]
           next == TakeLot(acc, lot)
<1>1. acc.left \in Nat /\ acc.lots \in LotsOf(K) /\ acc.matches \in LotsOf(K)
  BY DEF Taking
<1>2. lot \in Lot
  BY DEF LotOf
<1>3. lot.qty \in Nat /\ lot.qty > 0 /\ lot.cost \in Nat
  BY <1>2, LotIsMeasured
<1>4. q \in Nat /\ q <= lot.qty /\ q <= acc.left /\ (q < lot.qty => q = acc.left)
  BY <1>1, <1>3 DEF Least
<1>5. c \in 0..lot.cost /\ (q = lot.qty => c = lot.cost)
  <2>1. lot.qty # 0
    BY <1>3
  <2> HIDE DEF q
  <2> QED BY <1>3, <1>4, <2>1, ShareBounds
<1>6. /\ next.left = acc.left - q
      /\ next.lots = IF q = lot.qty THEN acc.lots ELSE Append(acc.lots, kept)
      /\ next.matches = IF q = 0 THEN acc.matches ELSE Append(acc.matches, taken)
      /\ next = [left |-> next.left, lots |-> next.lots, matches |-> next.matches]
  BY DEF TakeLot
<1> HIDE DEF q, c, next
<1>7. acc.lots \in Lots /\ acc.matches \in Lots
  BY <1>1, LotsOfAreLots
<1>8. /\ Qty(acc.lots) \in Nat /\ Qty(acc.matches) \in Nat
      /\ CostOf(acc.lots) \in Nat /\ CostOf(acc.matches) \in Nat
  BY <1>7, LotsAreMeasured
<1>9. /\ next.lots \in LotsOf(K)
      /\ Qty(next.lots) = Qty(acc.lots) + lot.qty - q
      /\ CostOf(next.lots) = CostOf(acc.lots) + lot.cost - c
  <2>1. CASE q = lot.qty
    BY <1>1, <1>3, <1>5, <1>6, <1>8, <2>1
  <2>2. CASE q # lot.qty
    <3>1. lot.qty - q \in Nat \ {0} /\ lot.cost - c \in Nat
      BY <1>3, <1>4, <1>5, <2>2
    <3> DEFINE x == lot.qty - q
               y == lot.cost - c
    <3>2. kept \in LotOf(K) /\ kept.qty = x /\ kept.cost = y
      <4>1. kept = [lot EXCEPT !.qty = x, !.cost = y]
        OBVIOUS
      <4>2. x \in Nat \ {0} /\ y \in Nat
        BY <3>1
      <4> HIDE DEF kept, x, y
      <4>3. kept \in LotOf(K)
        BY <4>1, <4>2 DEF LotOf, Lot
      <4>4. kept.qty = x /\ kept.cost = y
        BY <4>1, <4>2 DEF LotOf, Lot
      <4> QED BY <4>3, <4>4
    <3> HIDE DEF kept
    <3>3. kept \in Lot
      BY <3>2 DEF LotOf
    <3>4. /\ Qty(Append(acc.lots, kept)) = Qty(acc.lots) + kept.qty
          /\ CostOf(Append(acc.lots, kept)) = CostOf(acc.lots) + kept.cost
      BY <1>7, <3>3, LotsAppend
    <3>5. Append(acc.lots, kept) \in LotsOf(K)
      BY <1>1, <3>2 DEF LotsOf
    <3>6. c \in Nat
      BY <1>5
    <3> QED BY <1>3, <1>4, <1>6, <1>8, <2>2, <3>2, <3>4, <3>5, <3>6
  <2> QED BY <2>1, <2>2
<1>10. /\ next.matches \in LotsOf(K)
       /\ Qty(next.matches) = Qty(acc.matches) + q
       /\ CostOf(next.matches) = CostOf(acc.matches) + c
  <2>1. CASE q = 0
    <3>1. c = 0
      BY <1>3, <2>1 DEF c, proportionalShare, Quot
    <3> QED BY <1>1, <1>6, <1>8, <2>1, <3>1
  <2>2. CASE q # 0
    <3>1. q \in Nat \ {0} /\ c \in Nat
      BY <1>4, <1>5, <2>2
    <3>2. taken \in LotOf(K) /\ taken.qty = q /\ taken.cost = c
      <4>1. taken = [lot EXCEPT !.qty = q, !.cost = c]
        OBVIOUS
      <4> HIDE DEF taken
      <4>3. taken \in LotOf(K)
        BY <3>1, <4>1 DEF LotOf, Lot
      <4>4. taken.qty = q /\ taken.cost = c
        BY <3>1, <4>1 DEF LotOf, Lot
      <4> QED BY <4>3, <4>4
    <3> HIDE DEF taken
    <3>3. taken \in Lot
      BY <3>2 DEF LotOf
    <3>4. /\ Qty(Append(acc.matches, taken)) = Qty(acc.matches) + taken.qty
          /\ CostOf(Append(acc.matches, taken)) = CostOf(acc.matches) + taken.cost
      BY <1>7, <3>3, LotsAppend
    <3>5. Append(acc.matches, taken) \in LotsOf(K)
      BY <1>1, <3>2 DEF LotsOf
    <3> QED BY <1>6, <2>2, <3>2, <3>4, <3>5
  <2> QED BY <2>1, <2>2
<1>11. next.left \in Nat /\ next.left <= acc.left /\ (next.left > 0 => next.lots = acc.lots)
  BY <1>1, <1>3, <1>4, <1>6
<1>12. next \in Taking(K)
  BY <1>6, <1>9, <1>10, <1>11 DEF Taking
<1>13. c \in Nat
  BY <1>5
<1>14. /\ Qty(next.matches) + next.left = Qty(acc.matches) + acc.left
       /\ Qty(next.lots) + Qty(next.matches) = Qty(acc.lots) + Qty(acc.matches) + lot.qty
       /\ CostOf(next.lots) + CostOf(next.matches)
            = CostOf(acc.lots) + CostOf(acc.matches) + lot.cost
  <2> DEFINE a == Qty(acc.lots)
             b == Qty(acc.matches)
             d == CostOf(acc.lots)
             e == CostOf(acc.matches)
  <2>1. a \in Nat /\ b \in Nat /\ d \in Nat /\ e \in Nat
    BY <1>8
  <2>2. /\ Qty(next.lots) = a + lot.qty - q /\ Qty(next.matches) = b + q
        /\ CostOf(next.lots) = d + lot.cost - c /\ CostOf(next.matches) = e + c
    BY <1>9, <1>10
  <2>3. next.left = acc.left - q
    BY <1>6
  <2> HIDE DEF a, b, d, e
  <2>4. Qty(next.matches) + next.left = b + acc.left
    BY <1>1, <1>4, <2>1, <2>2, <2>3
  <2>5. Qty(next.lots) + Qty(next.matches) = a + b + lot.qty
    BY <1>3, <1>4, <2>1, <2>2
  <2>6. CostOf(next.lots) + CostOf(next.matches) = d + e + lot.cost
    BY <1>3, <1>13, <2>1, <2>2
  <2> QED BY <2>4, <2>5, <2>6 DEF a, b, d, e
<1> QED BY <1>11, <1>12, <1>14 DEF next

LEMMA PrefixesGrow ==
  ASSUME NEW K, NEW lots \in LotsOf(K), NEW i \in 1..Len(lots)
  PROVE  /\ SubSeq(lots, 1, i - 1) \in Lots /\ lots[i] \in Lot
         /\ SubSeq(lots, 1, i) = Append(SubSeq(lots, 1, i - 1), lots[i])
<1>1. lots \in Lots
  BY LotsOfAreLots
<1>2. lots[i] \in Lot
  BY <1>1, ElementOfSeq DEF Lots
<1>3. SubSeq(lots, 1, i - 1) \in Lots
  BY <1>1 DEF Lots
<1>4. SubSeq(lots, 1, i) = SubSeq(lots, 1, i - 1) \o <<lots[i]>>
  <2>1. 1 \in 1..Len(lots) /\ i \in 1..Len(lots)
    OBVIOUS
  <2> QED BY <1>1, <2>1, SubSeqRecursiveSecond DEF Lots
<1>5. Append(SubSeq(lots, 1, i - 1), lots[i]) = SubSeq(lots, 1, i - 1) \o <<lots[i]>>
  BY <1>2, <1>3, AppendIsConcat DEF Lots
<1>6. SubSeq(lots, 1, i) = Append(SubSeq(lots, 1, i - 1), lots[i])
  BY <1>4, <1>5, Zenon
<1> QED BY <1>2, <1>3, <1>6

(* consumeTradeLots goes through the lots one by one. *)
LEMMA TakenLoop ==
  ASSUME NEW K, NEW lots \in LotsOf(K), NEW amount \in Nat
  PROVE  \E f \in [0..Len(lots) -> Taking(K)] :
           /\ f[0] = [left |-> amount, lots |-> <<>>, matches |-> <<>>]
           /\ f[Len(lots)] = Taken(lots, amount)
           /\ \A i \in 1..Len(lots) : f[i] = TakeLot(f[i - 1], lots[i])
<1> DEFINE n == Len(lots)
           base == [left |-> amount, lots |-> <<>>, matches |-> <<>>]
           step == [a \in Taking(K) \X (1..n) |-> TakeLot(a[1], lots[a[2]])]
           it == CHOOSE g : g = [s \in SUBSET DOMAIN lots |->
                   IF s = {} THEN base ELSE TakeLot(g[s \ {Max(s)}], lots[Max(s)])]
<1>0. DOMAIN lots = 1..n
  BY DEF LotsOf
<1>1. base \in Taking(K)
  BY DEF Taking, LotsOf
<1>2. step \in [Taking(K) \X (1..n) -> Taking(K)]
  <2>1. \A i \in 1..n : lots[i] \in LotOf(K)
    BY ElementOfSeq DEF LotsOf
  <2>2. \A acc \in Taking(K), i \in 1..n : TakeLot(acc, lots[i]) \in Taking(K)
    BY <2>1, TakingALot
  <2> QED BY <2>2
<1>3. \A acc \in Taking(K), i \in 1..n : step[<<acc, i>>] = TakeLot(acc, lots[i])
  OBVIOUS
<1>4. it[DOMAIN lots] = Taken(lots, amount)
  BY Zenon DEF Taken, FoldLeft, MapThenFoldSet
<1>n. n \in Nat
  BY DEF LotsOf
<1> HIDE DEF n, base, step, it
<1>5. \A s \in SUBSET (1..n) : s # {} => Max(s) \in 1..n
  BY <1>n, GreatestOf
<1>6. PICK g : IsFold(g, n, Taking(K), base, step)
  BY <1>n, <1>1, <1>2, LoopExists
<1>7. g = [s \in SUBSET DOMAIN lots |-> IF s = {} THEN base ELSE TakeLot(g[s \ {Max(s)}], lots[Max(s)])]
  <2>1. ASSUME NEW s \in SUBSET (1..n), s # {}
        PROVE  g[s] = TakeLot(g[s \ {Max(s)}], lots[Max(s)])
    <3>1. g[s \ {Max(s)}] \in Taking(K)
      BY <1>6 DEF IsFold
    <3>2. Max(s) \in 1..n
      BY <1>5, <2>1
    <3>3. g[s] = step[<<g[s \ {Max(s)}], Max(s)>>]
      BY <1>6, <2>1 DEF IsFold
    <3>4. step[<<g[s \ {Max(s)}], Max(s)>>] = TakeLot(g[s \ {Max(s)}], lots[Max(s)])
      BY <1>3, <3>1, <3>2
    <3> QED BY <3>2, <3>3, <3>4
  <2>2. g[{}] = base /\ g = [s \in SUBSET (1..n) |-> g[s]]
    BY <1>6 DEF IsFold
  <2>3. \A s \in SUBSET (1..n) : g[s] = IF s = {} THEN base ELSE TakeLot(g[s \ {Max(s)}], lots[Max(s)])
    BY <2>1, <2>2
  <2> QED BY <1>0, <2>2, <2>3
<1>8. it = [s \in SUBSET DOMAIN lots |-> IF s = {} THEN base ELSE TakeLot(it[s \ {Max(s)}], lots[Max(s)])]
  BY <1>7, Zenon DEF it
<1>9. it[{}] = base
  BY <1>0, <1>8
<1>10. ASSUME NEW s \in SUBSET (1..n), s # {}, it[s \ {Max(s)}] \in Taking(K)
       PROVE  it[s] = step[<<it[s \ {Max(s)}], Max(s)>>]
  <2>1. Max(s) \in 1..n
    BY <1>5, <1>10
  <2>2. it[s] = TakeLot(it[s \ {Max(s)}], lots[Max(s)])
    <3>1. s \in SUBSET DOMAIN lots
      BY <1>0
    <3> QED BY <1>8, <1>10, <3>1
  <2>3. step[<<it[s \ {Max(s)}], Max(s)>>] = TakeLot(it[s \ {Max(s)}], lots[Max(s)])
    BY <1>3, <1>10, <2>1
  <2> QED BY <2>1, <2>2, <2>3
<1>11. PICK f : IsRun(f, n, Taking(K), base, step, it[1..n])
  <2>1. IsUntypedFold(it, n, Taking(K), base, step)
    BY <1>9, <1>10 DEF IsUntypedFold
  <2> QED BY <1>n, <1>1, <1>2, <2>1, LoopSteps
<1>12. \A i \in 1..n : f[i] = TakeLot(f[i - 1], lots[i])
  <2> SUFFICES ASSUME NEW i \in 1..n PROVE f[i] = TakeLot(f[i - 1], lots[i])
    OBVIOUS
  <2>1. i - 1 \in 0..n
    BY <1>n
  <2>2. f[i - 1] \in Taking(K) /\ f[i] = step[<<f[i - 1], i>>]
    BY <1>11, <2>1 DEF IsRun
  <2> QED BY <1>3, <2>2
<1>13. f \in [0..n -> Taking(K)] /\ f[0] = base /\ f[n] = it[DOMAIN lots]
  BY <1>0, <1>11 DEF IsRun
<1> QED BY <1>4, <1>12, <1>13 DEF n, base

(* What is taken and what is kept of some lots are the lots; a rest remains only
   when no lot is kept. *)
LEMMA TakenSplits ==
  ASSUME NEW K, NEW lots \in LotsOf(K), NEW amount \in Nat
  PROVE  /\ Taken(lots, amount) \in Taking(K)
         /\ Taken(lots, amount).left <= amount
         /\ Taken(lots, amount).left > 0 => Taken(lots, amount).lots = <<>>
         /\ Qty(Taken(lots, amount).matches) = amount - Taken(lots, amount).left
         /\ Qty(Taken(lots, amount).lots) + Qty(Taken(lots, amount).matches) = Qty(lots)
         /\ CostOf(Taken(lots, amount).lots) + CostOf(Taken(lots, amount).matches) = CostOf(lots)
<1> DEFINE n == Len(lots)
<1>1. n \in Nat /\ lots \in Lots
  BY LotsOfAreLots DEF LotsOf
<1>2. PICK f \in [0..n -> Taking(K)] :
        /\ f[0] = [left |-> amount, lots |-> <<>>, matches |-> <<>>]
        /\ f[n] = Taken(lots, amount)
        /\ \A i \in 1..n : f[i] = TakeLot(f[i - 1], lots[i])
  BY TakenLoop
<1> DEFINE Good(i) ==
      /\ f[i].left <= amount
      /\ f[i].left > 0 => f[i].lots = <<>>
      /\ Qty(f[i].matches) + f[i].left = amount
      /\ Qty(f[i].lots) + Qty(f[i].matches) = Qty(SubSeq(lots, 1, i))
      /\ CostOf(f[i].lots) + CostOf(f[i].matches) = CostOf(SubSeq(lots, 1, i))
<1> DEFINE N == {i \in 0..n : Good(i)}
<1>3. Good(0)
  <2>1. f[0].left = amount /\ f[0].lots = <<>> /\ f[0].matches = <<>>
    BY <1>2
  <2>2. SubSeq(lots, 1, 0) = <<>>
    BY SubSeqEmpty
  <2> QED BY <2>1, <2>2, NoLots
<1>4. ASSUME NEW i \in 1..n, Good(i - 1) PROVE Good(i)
  <2> DEFINE a == f[i - 1]
             prefix == SubSeq(lots, 1, i - 1)
             lot == lots[i]
  <2>1. i - 1 \in 0..n /\ i \in 0..n
    BY <1>1
  <2>2. a \in Taking(K) /\ f[i] = TakeLot(a, lot) /\ f[i] \in Taking(K)
    BY <1>2, <2>1
  <2>3. lot \in LotOf(K)
    BY ElementOfSeq DEF LotsOf
  <2>4. /\ f[i].left <= a.left
        /\ f[i].left > 0 => f[i].lots = a.lots
        /\ Qty(f[i].matches) + f[i].left = Qty(a.matches) + a.left
        /\ Qty(f[i].lots) + Qty(f[i].matches) = Qty(a.lots) + Qty(a.matches) + lot.qty
        /\ CostOf(f[i].lots) + CostOf(f[i].matches) = CostOf(a.lots) + CostOf(a.matches) + lot.cost
    <3> HIDE DEF a, lot, n
    <3> QED BY <2>2, <2>3, TakingALot
  <2>5. /\ prefix \in Lots /\ lot \in Lot /\ SubSeq(lots, 1, i) = Append(prefix, lot)
    BY PrefixesGrow
  <2>6. /\ Qty(SubSeq(lots, 1, i)) = Qty(prefix) + lot.qty
        /\ CostOf(SubSeq(lots, 1, i)) = CostOf(prefix) + lot.cost
    <3> HIDE DEF prefix, lot
    <3> QED BY <2>5, LotsAppend
  <2>7. /\ a.left <= amount /\ (a.left > 0 => a.lots = <<>>)
        /\ Qty(a.matches) + a.left = amount
        /\ Qty(a.lots) + Qty(a.matches) = Qty(prefix)
        /\ CostOf(a.lots) + CostOf(a.matches) = CostOf(prefix)
    BY <1>4
  <2>8. a.left \in Nat /\ f[i].left \in Nat
    BY <2>2 DEF Taking
  <2> HIDE DEF a, prefix, lot
  <2>9. f[i].left <= amount /\ (f[i].left > 0 => f[i].lots = <<>>)
    BY <2>4, <2>7, <2>8
  <2> QED BY <2>4, <2>6, <2>7, <2>9
<1>5. Good(n)
  <2> HIDE DEF Good
  <2>1. 0 \in N
    BY <1>1, <1>3
  <2>2. \A i \in 1..n : i - 1 \in N => i \in N
    BY <1>1, <1>4
  <2>3. 0..n \subseteq N
    <3> HIDE DEF N
    <3> QED BY <1>1, <2>1, <2>2, LoopInduction
  <2> QED BY <1>1, <2>3
<1>6. SubSeq(lots, 1, n) = lots
  BY <1>1, SubSeqFull DEF Lots
<1>7. f[n] \in Taking(K)
  BY <1>1, <1>2
<1>8. f[n].left \in Nat /\ f[n].matches \in Lots
  BY <1>7, LotsOfAreLots DEF Taking
<1>9. Qty(f[n].matches) \in Nat
  BY <1>8, LotsAreMeasured
<1> HIDE DEF n
<1>10. Qty(f[n].matches) = amount - f[n].left
  BY <1>5, <1>8, <1>9
<1> QED BY <1>2, <1>5, <1>6, <1>7, <1>10

(* A lot put into its place adds its quantity and its cost. *)
LEMMA SortedAdds ==
  ASSUME NEW K, NEW lots \in LotsOf(K), NEW lot \in LotOf(K)
  PROVE  /\ Sorted(lots, lot) \in LotsOf(K)
         /\ Qty(Sorted(lots, lot)) = Qty(lots) + lot.qty
         /\ CostOf(Sorted(lots, lot)) = CostOf(lots) + lot.cost
<1> DEFINE n == Len(lots)
           before == {i \in DOMAIN lots : ~Earlier(lot, lots[i])}
           k == Cardinality(before)
           front == SubSeq(lots, 1, k)
           back == SubSeq(lots, k + 1, n)
<1>1. n \in Nat /\ DOMAIN lots = 1..n /\ lots \in Seq(LotOf(K))
  BY DEF LotsOf
<1>2. k \in 0..n
  <2>1. before \in SUBSET (1..n)
    BY <1>1
  <2>2. 1 \in Int /\ n \in Int
    BY <1>1
  <2> HIDE DEF n, before
  <2>3. IsFiniteSet(1..n) /\ Cardinality(1..n) = IF 1 > n THEN 0 ELSE n - 1 + 1
    BY <2>2, FS_Interval
  <2>4. IsFiniteSet(before) /\ Cardinality(before) <= Cardinality(1..n)
    BY <2>1, <2>3, FS_Subset
  <2>5. Cardinality(before) \in Nat
    BY <2>4, FS_CardinalityType
  <2> QED BY <1>1, <2>3, <2>4, <2>5
<1>3. Sorted(lots, lot) = SubSeq(lots, 1, (1 + k) - 1) \o <<lot>> \o SubSeq(lots, 1 + k, n)
  BY DEF Sorted, InsertAt
<1> HIDE DEF n, before, k
<1>4. (1 + k) - 1 = k /\ 1 + k = k + 1
  BY <1>2
<1>5. Sorted(lots, lot) = front \o <<lot>> \o back
  BY <1>3, <1>4
<1>6. front \o back = lots
  <2>1. 1 \in 1..(Len(lots) + 1) /\ k \in (1 - 1)..Len(lots) /\ Len(lots) \in k..Len(lots)
    BY <1>1, <1>2 DEF n
  <2>2. SubSeq(lots, 1, k) \o SubSeq(lots, k + 1, Len(lots)) = SubSeq(lots, 1, Len(lots))
    BY <1>1, <2>1, ConcatAdjacentSubSeq
  <2>3. SubSeq(lots, 1, Len(lots)) = lots
    BY <1>1, SubSeqFull
  <2> QED BY <2>2, <2>3 DEF n
<1>7. front \in LotsOf(K) /\ back \in LotsOf(K)
  BY <1>1, <1>2 DEF LotsOf, n
<1> HIDE DEF front, back
<1>8. front \in Lots /\ back \in Lots /\ lot \in Lot
  BY <1>7, LotsOfAreLots DEF LotOf
<1>9. front \o <<lot>> = Append(front, lot)
  BY <1>8, AppendIsConcat DEF Lots
<1>10. /\ Append(front, lot) \in Lots /\ Qty(Append(front, lot)) = Qty(front) + lot.qty
       /\ CostOf(Append(front, lot)) = CostOf(front) + lot.cost
  BY <1>8, LotsAppend
<1>11. /\ Qty(Append(front, lot) \o back) = Qty(Append(front, lot)) + Qty(back)
       /\ CostOf(Append(front, lot) \o back) = CostOf(Append(front, lot)) + CostOf(back)
  BY <1>8, <1>10, LotsConcatenate
<1>12. /\ Qty(lots) = Qty(front) + Qty(back)
       /\ CostOf(lots) = CostOf(front) + CostOf(back)
  BY <1>6, <1>8, LotsConcatenate
<1>13. /\ Qty(front) \in Nat /\ Qty(back) \in Nat /\ CostOf(front) \in Nat /\ CostOf(back) \in Nat
       /\ lot.qty \in Nat /\ lot.cost \in Nat
  BY <1>8, LotsAreMeasured, LotIsMeasured
<1>14. Append(front, lot) \o back \in LotsOf(K)
  BY <1>7 DEF LotsOf
<1>15. Sorted(lots, lot) = Append(front, lot) \o back
  BY <1>5, <1>9, Zenon
<1> DEFINE all == Append(front, lot) \o back
<1> HIDE DEF all
<1>16. Qty(all) = Qty(lots) + lot.qty
  <2>1. Qty(all) = (Qty(front) + lot.qty) + Qty(back) /\ Qty(lots) = Qty(front) + Qty(back)
    BY <1>10, <1>11, <1>12 DEF all
  <2> QED BY <1>13, <2>1
<1>17. CostOf(all) = CostOf(lots) + lot.cost
  <2>1. CostOf(all) = (CostOf(front) + lot.cost) + CostOf(back) /\ CostOf(lots) = CostOf(front) + CostOf(back)
    BY <1>10, <1>11, <1>12 DEF all
  <2> QED BY <1>13, <2>1
<1> QED BY <1>14, <1>15, <1>16, <1>17 DEF all

Trimming(K) == [lots : LotsOf(K), qty : Nat, cost : Nat]

LEMMA TrimmingALot ==
  ASSUME NEW K, NEW dust \in Nat, NEW acc \in Trimming(K), NEW lot \in LotOf(K)
  PROVE  /\ TrimLot(dust, acc, lot) \in Trimming(K)
         /\ Qty(TrimLot(dust, acc, lot).lots) + TrimLot(dust, acc, lot).qty
              = Qty(acc.lots) + acc.qty + lot.qty
         /\ CostOf(TrimLot(dust, acc, lot).lots) + TrimLot(dust, acc, lot).cost
              = CostOf(acc.lots) + acc.cost + lot.cost
<1> DEFINE next == TrimLot(dust, acc, lot)
<1>1. acc.lots \in LotsOf(K) /\ acc.qty \in Nat /\ acc.cost \in Nat
  BY DEF Trimming
<1>2. lot \in Lot /\ acc.lots \in Lots
  BY <1>1, LotsOfAreLots DEF LotOf
<1>3. lot.qty \in Nat /\ lot.cost \in Nat /\ Qty(acc.lots) \in Nat /\ CostOf(acc.lots) \in Nat
  BY <1>2, LotIsMeasured, LotsAreMeasured
<1>4. CASE lot.qty <= dust
  <2>1. next = [acc EXCEPT !.qty = acc.qty + lot.qty, !.cost = acc.cost + lot.cost]
    BY <1>4 DEF TrimLot
  <2>2. next.lots = acc.lots /\ next.qty = acc.qty + lot.qty /\ next.cost = acc.cost + lot.cost
        /\ next = [lots |-> acc.lots, qty |-> acc.qty + lot.qty, cost |-> acc.cost + lot.cost]
    BY <2>1 DEF Trimming
  <2> HIDE DEF next
  <2>3. next \in Trimming(K)
    BY <1>1, <1>3, <2>2 DEF Trimming
  <2> QED BY <1>1, <1>3, <2>2, <2>3 DEF next
<1>5. CASE ~(lot.qty <= dust)
  <2>1. next = [acc EXCEPT !.lots = Append(acc.lots, lot)]
    BY <1>5 DEF TrimLot
  <2>2. next.lots = Append(acc.lots, lot) /\ next.qty = acc.qty /\ next.cost = acc.cost
        /\ next = [lots |-> Append(acc.lots, lot), qty |-> acc.qty, cost |-> acc.cost]
    BY <2>1 DEF Trimming
  <2> HIDE DEF next
  <2>3. next \in Trimming(K)
    BY <1>1, <2>2 DEF Trimming, LotsOf
  <2>4. /\ Qty(next.lots) = Qty(acc.lots) + lot.qty
        /\ CostOf(next.lots) = CostOf(acc.lots) + lot.cost
    BY <1>2, <2>2, LotsAppend
  <2>5. Qty(next.lots) + next.qty = Qty(acc.lots) + acc.qty + lot.qty
    BY <1>1, <1>3, <2>2, <2>4
  <2>6. CostOf(next.lots) + next.cost = CostOf(acc.lots) + acc.cost + lot.cost
    BY <1>1, <1>3, <2>2, <2>4
  <2> QED BY <2>3, <2>5, <2>6 DEF next
<1> QED BY <1>4, <1>5

(* trimDustLots goes through the lots one by one. *)
LEMMA TrimmedLoop ==
  ASSUME NEW K, NEW lots \in LotsOf(K), NEW dust \in Nat
  PROVE  \E f \in [0..Len(lots) -> Trimming(K)] :
           /\ f[0] = [lots |-> <<>>, qty |-> 0, cost |-> 0]
           /\ f[Len(lots)] = Trimmed(lots, dust)
           /\ \A i \in 1..Len(lots) : f[i] = TrimLot(dust, f[i - 1], lots[i])
<1> DEFINE n == Len(lots)
           base == [lots |-> <<>>, qty |-> 0, cost |-> 0]
           step == [a \in Trimming(K) \X (1..n) |-> TrimLot(dust, a[1], lots[a[2]])]
           it == CHOOSE g : g = [s \in SUBSET DOMAIN lots |->
                   IF s = {} THEN base ELSE TrimLot(dust, g[s \ {Max(s)}], lots[Max(s)])]
<1>0. DOMAIN lots = 1..n
  BY DEF LotsOf
<1>1. base \in Trimming(K)
  BY DEF Trimming, LotsOf
<1>2. step \in [Trimming(K) \X (1..n) -> Trimming(K)]
  <2>1. \A i \in 1..n : lots[i] \in LotOf(K)
    BY ElementOfSeq DEF LotsOf
  <2>2. \A acc \in Trimming(K), i \in 1..n : TrimLot(dust, acc, lots[i]) \in Trimming(K)
    BY <2>1, TrimmingALot
  <2> QED BY <2>2
<1>3. \A acc \in Trimming(K), i \in 1..n : step[<<acc, i>>] = TrimLot(dust, acc, lots[i])
  OBVIOUS
<1>4. it[DOMAIN lots] = Trimmed(lots, dust)
  BY Zenon DEF Trimmed, FoldLeft, MapThenFoldSet
<1>n. n \in Nat
  BY DEF LotsOf
<1> HIDE DEF n, base, step, it
<1>5. \A s \in SUBSET (1..n) : s # {} => Max(s) \in 1..n
  BY <1>n, GreatestOf
<1>6. PICK g : IsFold(g, n, Trimming(K), base, step)
  BY <1>n, <1>1, <1>2, LoopExists
<1>7. g = [s \in SUBSET DOMAIN lots |-> IF s = {} THEN base ELSE TrimLot(dust, g[s \ {Max(s)}], lots[Max(s)])]
  <2>1. ASSUME NEW s \in SUBSET (1..n), s # {}
        PROVE  g[s] = TrimLot(dust, g[s \ {Max(s)}], lots[Max(s)])
    <3>1. g[s \ {Max(s)}] \in Trimming(K)
      BY <1>6 DEF IsFold
    <3>2. Max(s) \in 1..n
      BY <1>5, <2>1
    <3>3. g[s] = step[<<g[s \ {Max(s)}], Max(s)>>]
      BY <1>6, <2>1 DEF IsFold
    <3>4. step[<<g[s \ {Max(s)}], Max(s)>>] = TrimLot(dust, g[s \ {Max(s)}], lots[Max(s)])
      BY <1>3, <3>1, <3>2
    <3> QED BY <3>2, <3>3, <3>4
  <2>2. g[{}] = base /\ g = [s \in SUBSET (1..n) |-> g[s]]
    BY <1>6 DEF IsFold
  <2>3. \A s \in SUBSET (1..n) : g[s] = IF s = {} THEN base ELSE TrimLot(dust, g[s \ {Max(s)}], lots[Max(s)])
    BY <2>1, <2>2
  <2> QED BY <1>0, <2>2, <2>3
<1>8. it = [s \in SUBSET DOMAIN lots |-> IF s = {} THEN base ELSE TrimLot(dust, it[s \ {Max(s)}], lots[Max(s)])]
  BY <1>7, Zenon DEF it
<1>9. it[{}] = base
  BY <1>0, <1>8
<1>10. ASSUME NEW s \in SUBSET (1..n), s # {}, it[s \ {Max(s)}] \in Trimming(K)
       PROVE  it[s] = step[<<it[s \ {Max(s)}], Max(s)>>]
  <2>1. Max(s) \in 1..n
    BY <1>5, <1>10
  <2>2. it[s] = TrimLot(dust, it[s \ {Max(s)}], lots[Max(s)])
    <3>1. s \in SUBSET DOMAIN lots
      BY <1>0
    <3> QED BY <1>8, <1>10, <3>1
  <2>3. step[<<it[s \ {Max(s)}], Max(s)>>] = TrimLot(dust, it[s \ {Max(s)}], lots[Max(s)])
    BY <1>3, <1>10, <2>1
  <2> QED BY <2>1, <2>2, <2>3
<1>11. PICK f : IsRun(f, n, Trimming(K), base, step, it[1..n])
  <2>1. IsUntypedFold(it, n, Trimming(K), base, step)
    BY <1>9, <1>10 DEF IsUntypedFold
  <2> QED BY <1>n, <1>1, <1>2, <2>1, LoopSteps
<1>12. \A i \in 1..n : f[i] = TrimLot(dust, f[i - 1], lots[i])
  <2> SUFFICES ASSUME NEW i \in 1..n PROVE f[i] = TrimLot(dust, f[i - 1], lots[i])
    OBVIOUS
  <2>1. i - 1 \in 0..n
    BY <1>n
  <2>2. f[i - 1] \in Trimming(K) /\ f[i] = step[<<f[i - 1], i>>]
    BY <1>11, <2>1 DEF IsRun
  <2> QED BY <1>3, <2>2
<1>13. f \in [0..n -> Trimming(K)] /\ f[0] = base /\ f[n] = it[DOMAIN lots]
  BY <1>0, <1>11 DEF IsRun
<1> QED BY <1>4, <1>12, <1>13 DEF n, base

(* What is trimmed and what remains of some lots are the lots. *)
LEMMA TrimmedSplits ==
  ASSUME NEW K, NEW lots \in LotsOf(K), NEW dust \in Nat
  PROVE  /\ Trimmed(lots, dust) \in Trimming(K)
         /\ Qty(Trimmed(lots, dust).lots) + Trimmed(lots, dust).qty = Qty(lots)
         /\ CostOf(Trimmed(lots, dust).lots) + Trimmed(lots, dust).cost = CostOf(lots)
<1> DEFINE n == Len(lots)
<1>1. n \in Nat /\ lots \in Lots
  BY LotsOfAreLots DEF LotsOf
<1>2. PICK f \in [0..n -> Trimming(K)] :
        /\ f[0] = [lots |-> <<>>, qty |-> 0, cost |-> 0]
        /\ f[n] = Trimmed(lots, dust)
        /\ \A i \in 1..n : f[i] = TrimLot(dust, f[i - 1], lots[i])
  BY TrimmedLoop
<1> DEFINE Good(i) ==
      /\ Qty(f[i].lots) + f[i].qty = Qty(SubSeq(lots, 1, i))
      /\ CostOf(f[i].lots) + f[i].cost = CostOf(SubSeq(lots, 1, i))
<1> DEFINE N == {i \in 0..n : Good(i)}
<1>3. Good(0)
  <2>1. f[0].lots = <<>> /\ f[0].qty = 0 /\ f[0].cost = 0
    BY <1>2
  <2>2. SubSeq(lots, 1, 0) = <<>>
    BY SubSeqEmpty
  <2> QED BY <2>1, <2>2, NoLots
<1>4. ASSUME NEW i \in 1..n, Good(i - 1) PROVE Good(i)
  <2> DEFINE a == f[i - 1]
             prefix == SubSeq(lots, 1, i - 1)
             lot == lots[i]
  <2>1. i - 1 \in 0..n /\ i \in 0..n
    BY <1>1
  <2>2. a \in Trimming(K) /\ f[i] = TrimLot(dust, a, lot)
    BY <1>2, <2>1
  <2>3. lot \in LotOf(K)
    BY ElementOfSeq DEF LotsOf
  <2>4. /\ Qty(f[i].lots) + f[i].qty = Qty(a.lots) + a.qty + lot.qty
        /\ CostOf(f[i].lots) + f[i].cost = CostOf(a.lots) + a.cost + lot.cost
    <3> HIDE DEF a, lot, n
    <3> QED BY <2>2, <2>3, TrimmingALot
  <2>5. prefix \in Lots /\ lot \in Lot /\ SubSeq(lots, 1, i) = Append(prefix, lot)
    BY PrefixesGrow
  <2>6. /\ Qty(SubSeq(lots, 1, i)) = Qty(prefix) + lot.qty
        /\ CostOf(SubSeq(lots, 1, i)) = CostOf(prefix) + lot.cost
    <3> HIDE DEF prefix, lot
    <3> QED BY <2>5, LotsAppend
  <2>7. Qty(a.lots) + a.qty = Qty(prefix) /\ CostOf(a.lots) + a.cost = CostOf(prefix)
    BY <1>4
  <2> HIDE DEF a, prefix, lot
  <2> QED BY <2>4, <2>6, <2>7
<1>5. Good(n)
  <2> HIDE DEF Good
  <2>1. 0 \in N
    BY <1>1, <1>3
  <2>2. \A i \in 1..n : i - 1 \in N => i \in N
    BY <1>1, <1>4
  <2>3. 0..n \subseteq N
    <3> HIDE DEF N
    <3> QED BY <1>1, <2>1, <2>2, LoopInduction
  <2> QED BY <1>1, <2>3
<1>6. SubSeq(lots, 1, n) = lots
  BY <1>1, SubSeqFull DEF Lots
<1>7. f[n] \in Trimming(K)
  BY <1>1, <1>2
<1> HIDE DEF n
<1> QED BY <1>2, <1>5, <1>6, <1>7

(* ---------------------------- one position ------------------------------ *)

(* A position whose lots descend from K and whose totals are those of its lots;
   it was first seen up to block n. *)
Holding(K, n) ==
  {p \in [ext : Nat, extCost : Nat, lots : LotsOf(K), qty : Nat, cost : Nat, realized : Int,
          dustCost : Nat, dustQty : Nat, first : {None} \cup 0..n] :
     p.qty = Qty(p.lots) /\ p.cost = CostOf(p.lots)}
Amount(p) == p.ext + p.qty + p.dustQty

LEMMA HoldingFields ==
  ASSUME NEW K, NEW n, NEW p \in Holding(K, n)
  PROVE  /\ p.ext \in Nat /\ p.extCost \in Nat /\ p.lots \in LotsOf(K) /\ p.qty \in Nat
         /\ p.cost \in Nat /\ p.realized \in Int /\ p.dustCost \in Nat /\ p.dustQty \in Nat
         /\ p.first \in {None} \cup 0..n /\ p.qty = Qty(p.lots) /\ p.cost = CostOf(p.lots)
         /\ p \in [ext : Nat, extCost : Nat, lots : LotsOf(K), qty : Nat, cost : Nat,
                   realized : Int, dustCost : Nat, dustQty : Nat, first : {None} \cup 0..n]
  BY DEF Holding

(* Relief takes nothing but lots, and their quantity and cost. *)
With(p, lots) == [p EXCEPT !.lots = lots, !.qty = Qty(lots), !.cost = CostOf(lots)]

LEMMA Relieving ==
  ASSUME NEW K, NEW n, NEW p \in Holding(K, n), NEW lots \in LotsOf(K)
  PROVE  /\ With(p, lots) \in Holding(K, n)
         /\ With(p, lots).qty = Qty(lots) /\ With(p, lots).cost = CostOf(lots)
         /\ With(p, lots).lots = lots
         /\ With(p, lots).ext = p.ext /\ With(p, lots).extCost = p.extCost
         /\ With(p, lots).realized = p.realized /\ With(p, lots).first = p.first
         /\ With(p, lots).dustCost = p.dustCost /\ With(p, lots).dustQty = p.dustQty
<1> DEFINE r == With(p, lots)
           H == [ext : Nat, extCost : Nat, lots : LotsOf(K), qty : Nat, cost : Nat,
                 realized : Int, dustCost : Nat, dustQty : Nat, first : {None} \cup 0..n]
<1>1. p \in H
  BY HoldingFields
<1>2. r.qty = Qty(lots) /\ r.cost = CostOf(lots) /\ r.lots = lots
  BY <1>1 DEF With
<1>3. r.ext = p.ext /\ r.extCost = p.extCost /\ r.realized = p.realized /\ r.first = p.first
  BY <1>1 DEF With
<1>4. r.dustCost = p.dustCost /\ r.dustQty = p.dustQty
  BY <1>1 DEF With
<1>5. r \in H
  <2>1. lots \in Lots
    BY LotsOfAreLots
  <2>2. Qty(lots) \in Nat /\ CostOf(lots) \in Nat
    BY <2>1, LotsAreMeasured
  <2> QED BY <1>1, <2>2 DEF With
<1> HIDE DEF r
<1>6. r \in Holding(K, n)
  BY <1>2, <1>5 DEF Holding
<1> QED BY <1>2, <1>3, <1>4, <1>6 DEF r

LEMMA ShareOfNothing ==
  ASSUME NEW total \in Nat, NEW whole \in Nat
  PROVE  proportionalShare(total, 0, whole) = 0
  BY DEF proportionalShare, Quot

(* Nothing is left to take from the totals when the lots are used up, so what is
   taken from a position is what its matched lots amount to. *)
LEMMA ConsumeLotsMatches ==
  ASSUME NEW K, NEW n, NEW p \in Holding(K, n), NEW amount \in Nat
  PROVE  LET used == ConsumeLots(p, amount)
         IN  /\ used.position \in Holding(K, n) /\ used.matches \in LotsOf(K)
             /\ used.qty \in 0..amount /\ used.cost \in Nat
             /\ used.qty = Qty(used.matches) /\ used.cost = CostOf(used.matches)
             /\ used.position.qty = p.qty - used.qty /\ used.position.cost = p.cost - used.cost
             /\ used.position.ext = p.ext /\ used.position.extCost = p.extCost
             /\ used.position.realized = p.realized /\ used.position.first = p.first
             /\ used.position.dustCost = p.dustCost /\ used.position.dustQty = p.dustQty
<1> DEFINE used == ConsumeLots(p, amount)
           taken == Taken(p.lots, amount)
           q == amount - taken.left
           c == CostOf(taken.matches)
           more == Least(taken.left, p.qty - q)
           cost == Least(c + proportionalShare(p.cost - c, more, p.qty - q), p.cost)
<1>1. used = [position |-> [p EXCEPT !.lots = taken.lots, !.qty = (p.qty - q) - more,
                                     !.cost = p.cost - cost],
              matches |-> taken.matches, qty |-> q + more, cost |-> cost]
  BY DEF ConsumeLots, CostOf, Total
<1>2. p.lots \in LotsOf(K) /\ p.qty \in Nat /\ p.cost \in Nat /\ p.qty = Qty(p.lots)
      /\ p.cost = CostOf(p.lots)
  BY HoldingFields
<1>3. /\ taken.left \in Nat /\ taken.lots \in LotsOf(K) /\ taken.matches \in LotsOf(K)
      /\ taken.left <= amount /\ (taken.left > 0 => taken.lots = <<>>)
      /\ Qty(taken.matches) = amount - taken.left
      /\ Qty(taken.lots) + Qty(taken.matches) = p.qty
      /\ CostOf(taken.lots) + CostOf(taken.matches) = p.cost
  <2>1. /\ taken \in Taking(K)
        /\ taken.left <= amount /\ (taken.left > 0 => taken.lots = <<>>)
        /\ Qty(taken.matches) = amount - taken.left
        /\ Qty(taken.lots) + Qty(taken.matches) = Qty(p.lots)
        /\ CostOf(taken.lots) + CostOf(taken.matches) = CostOf(p.lots)
    BY <1>2, TakenSplits
  <2>2. taken.left \in Nat /\ taken.lots \in LotsOf(K) /\ taken.matches \in LotsOf(K)
    BY <2>1 DEF Taking
  <2> QED BY <1>2, <2>1, <2>2
<1> HIDE DEF taken
<1>4. /\ Qty(taken.lots) \in Nat /\ Qty(taken.matches) \in Nat
      /\ CostOf(taken.lots) \in Nat /\ c \in Nat
  <2>1. taken.lots \in Lots /\ taken.matches \in Lots
    BY <1>3, LotsOfAreLots
  <2> QED BY <2>1, LotsAreMeasured
<1>5. q \in Nat /\ q <= p.qty /\ q = Qty(taken.matches) /\ p.qty - q = Qty(taken.lots)
  BY <1>2, <1>3, <1>4
<1>6. more = 0
  <2>1. CASE taken.left = 0
    <3>1. p.qty - q >= 0 /\ p.qty - q \in Int
      BY <1>2, <1>5
    <3> HIDE DEF q
    <3> QED BY <2>1, <3>1 DEF Least
  <2>2. CASE taken.left > 0
    <3>1. p.qty - q = 0
      BY <1>3, <1>5, <2>2, NoLots
    <3> HIDE DEF q
    <3> QED BY <1>3, <2>2, <3>1 DEF Least
  <2> QED BY <1>3, <2>1, <2>2
<1>7. p.cost - c \in Nat /\ p.qty - q \in Nat /\ c <= p.cost /\ p.cost - c = CostOf(taken.lots)
  <2>1. p.qty - q \in Nat
    BY <1>4, <1>5
  <2>2. CostOf(taken.lots) + c = p.cost
    BY <1>3
  <2> HIDE DEF q, c
  <2> QED BY <1>2, <1>4, <2>1, <2>2
<1> HIDE DEF q, c, more
<1>8. cost = c
  <2>1. proportionalShare(p.cost - c, more, p.qty - q) = 0
    BY <1>6, <1>7, ShareOfNothing
  <2> QED BY <1>2, <1>4, <1>7, <2>1 DEF Least
<1> HIDE DEF cost
<1> DEFINE left == (p.qty - q) - more
           rest == p.cost - cost
           r == With(p, taken.lots)
<1>9. left \in Nat /\ rest \in Nat /\ left = Qty(taken.lots) /\ rest = CostOf(taken.lots)
      /\ left = p.qty - q /\ rest = p.cost - c
  BY <1>2, <1>4, <1>5, <1>6, <1>7, <1>8
<1>a. used.position = [p EXCEPT !.lots = taken.lots, !.qty = left, !.cost = rest]
      /\ used.matches = taken.matches /\ used.qty = q + more /\ used.cost = cost
  <2> HIDE DEF used
  <2> QED BY <1>1
<1> HIDE DEF left, rest, used
<1>10. used.position = r /\ used.matches = taken.matches /\ used.qty = q /\ used.cost = c
  <2>1. q + more = q
    BY <1>5, <1>6
  <2>2. used.position = r
    BY <1>a, <1>9 DEF With
  <2> QED BY <1>a, <1>8, <2>1, <2>2
<1>11. /\ r \in Holding(K, n) /\ r.qty = left /\ r.cost = rest
       /\ r.ext = p.ext /\ r.extCost = p.extCost /\ r.realized = p.realized
       /\ r.dustCost = p.dustCost /\ r.dustQty = p.dustQty /\ r.first = p.first
  <2> DEFINE lots == taken.lots
  <2>1. lots \in LotsOf(K)
    BY <1>3
  <2> HIDE DEF lots
  <2>2. /\ With(p, lots) \in Holding(K, n)
        /\ With(p, lots).qty = Qty(lots) /\ With(p, lots).cost = CostOf(lots)
        /\ With(p, lots).ext = p.ext /\ With(p, lots).extCost = p.extCost
        /\ With(p, lots).realized = p.realized /\ With(p, lots).first = p.first
        /\ With(p, lots).dustCost = p.dustCost /\ With(p, lots).dustQty = p.dustQty
    BY <2>1, Relieving
  <2> QED BY <1>9, <2>2 DEF lots
<1> HIDE DEF r
<1>12. q \in 0..amount /\ q = Qty(taken.matches) /\ c = CostOf(taken.matches)
  BY <1>3, <1>4, <1>5 DEF q, c
<1>13. used.position \in Holding(K, n) /\ used.matches \in LotsOf(K) /\ used.qty \in 0..amount
       /\ used.cost \in Nat /\ used.qty = Qty(used.matches) /\ used.cost = CostOf(used.matches)
  BY <1>3, <1>4, <1>10, <1>11, <1>12
<1>14. used.position.qty = p.qty - used.qty /\ used.position.cost = p.cost - used.cost
  BY <1>9, <1>10, <1>11
<1>15. /\ used.position.ext = p.ext /\ used.position.extCost = p.extCost
       /\ used.position.realized = p.realized /\ used.position.first = p.first
       /\ used.position.dustCost = p.dustCost /\ used.position.dustQty = p.dustQty
  BY <1>10, <1>11
<1> QED BY <1>13, <1>14, <1>15 DEF used

WithExternal(p, e, c) == [p EXCEPT !.ext = e, !.extCost = c]

LEMMA ExternalChanges ==
  ASSUME NEW K, NEW n, NEW p \in Holding(K, n), NEW e \in Nat, NEW c \in Nat
  PROVE  /\ WithExternal(p, e, c) \in Holding(K, n)
         /\ WithExternal(p, e, c).ext = e /\ WithExternal(p, e, c).extCost = c
         /\ WithExternal(p, e, c).lots = p.lots
         /\ WithExternal(p, e, c).qty = p.qty /\ WithExternal(p, e, c).cost = p.cost
         /\ WithExternal(p, e, c).realized = p.realized /\ WithExternal(p, e, c).first = p.first
         /\ WithExternal(p, e, c).dustCost = p.dustCost
         /\ WithExternal(p, e, c).dustQty = p.dustQty
<1> DEFINE r == WithExternal(p, e, c)
           H == [ext : Nat, extCost : Nat, lots : LotsOf(K), qty : Nat, cost : Nat,
                 realized : Int, dustCost : Nat, dustQty : Nat, first : {None} \cup 0..n]
<1>1. p \in H
  BY HoldingFields
<1>2. r.ext = e /\ r.extCost = c
  BY <1>1 DEF WithExternal
<1>3. r.lots = p.lots /\ r.qty = p.qty /\ r.cost = p.cost
  BY <1>1 DEF WithExternal
<1>4. r.realized = p.realized /\ r.first = p.first /\ r.dustCost = p.dustCost /\ r.dustQty = p.dustQty
  BY <1>1 DEF WithExternal
<1>5. r \in H
  BY <1>1 DEF WithExternal
<1> HIDE DEF r
<1>6. r \in Holding(K, n)
  BY <1>3, <1>5, HoldingFields DEF Holding
<1> QED BY <1>2, <1>3, <1>4, <1>6 DEF r

(* External inventory is taken with its share of the cost, never more than there is. *)
LEMMA ConsumeExternalTakes ==
  ASSUME NEW K, NEW n, NEW p \in Holding(K, n), NEW amount \in Nat
  PROVE  LET used == ConsumeExternal(p, amount)
         IN  /\ used.position \in Holding(K, n)
             /\ used.qty \in 0..amount /\ used.cost \in Nat /\ (used.qty = 0 => used.cost = 0)
             /\ used.position.ext = p.ext - used.qty
             /\ used.position.extCost = p.extCost - used.cost
             /\ used.position.lots = p.lots /\ used.position.qty = p.qty
             /\ used.position.cost = p.cost
             /\ used.position.realized = p.realized /\ used.position.first = p.first
             /\ used.position.dustCost = p.dustCost /\ used.position.dustQty = p.dustQty
<1> DEFINE used == ConsumeExternal(p, amount)
           q == Least(amount, p.ext)
           c == proportionalShare(p.extCost, q, p.ext)
           e == p.ext - q
           d == p.extCost - c
<1>1. /\ used.position = [p EXCEPT !.ext = e, !.extCost = d]
      /\ used.qty = q /\ used.cost = c
  BY DEF ConsumeExternal
<1>2. p.ext \in Nat /\ p.extCost \in Nat
  BY HoldingFields
<1>3. q \in Nat /\ q <= amount /\ q <= p.ext
  BY <1>2 DEF Least
<1> HIDE DEF used, q
<1>4. c \in 0..p.extCost
  BY <1>2, <1>3, ShareBounds
<1>5. q = 0 => c = 0
  BY <1>2, ShareOfNothing
<1> HIDE DEF c
<1>6. e \in Nat /\ d \in Nat /\ q \in 0..amount /\ c \in Nat
  BY <1>2, <1>3, <1>4
<1>7. used.position = WithExternal(p, e, d) /\ e = p.ext - q /\ d = p.extCost - c
  BY <1>1 DEF WithExternal
<1> HIDE DEF e, d
<1>8. /\ used.position \in Holding(K, n)
      /\ used.position.ext = e /\ used.position.extCost = d
      /\ used.position.lots = p.lots /\ used.position.qty = p.qty /\ used.position.cost = p.cost
      /\ used.position.realized = p.realized /\ used.position.first = p.first
      /\ used.position.dustCost = p.dustCost /\ used.position.dustQty = p.dustQty
  <2> DEFINE r == WithExternal(p, e, d)
  <2>1. e \in Nat /\ d \in Nat
    BY <1>6
  <2>2. r \in Holding(K, n) /\ r.ext = e /\ r.extCost = d /\ r.lots = p.lots
        /\ r.qty = p.qty /\ r.cost = p.cost /\ r.realized = p.realized /\ r.first = p.first
        /\ r.dustCost = p.dustCost /\ r.dustQty = p.dustQty
    BY <2>1, ExternalChanges
  <2>3. used.position = r
    BY <1>7
  <2> HIDE DEF r
  <2> QED BY <2>2, <2>3
<1> QED BY <1>1, <1>5, <1>6, <1>7, <1>8 DEF used

WithDust(p, lots, q, c) ==
  [p EXCEPT !.lots = lots, !.qty = Qty(lots), !.cost = CostOf(lots), !.dustCost = c, !.dustQty = q]

LEMMA DustChanges ==
  ASSUME NEW K, NEW n, NEW p \in Holding(K, n), NEW lots \in LotsOf(K), NEW q \in Nat, NEW c \in Nat
  PROVE  /\ WithDust(p, lots, q, c) \in Holding(K, n)
         /\ WithDust(p, lots, q, c).ext = p.ext /\ WithDust(p, lots, q, c).extCost = p.extCost
         /\ WithDust(p, lots, q, c).qty = Qty(lots) /\ WithDust(p, lots, q, c).cost = CostOf(lots)
         /\ WithDust(p, lots, q, c).realized = p.realized /\ WithDust(p, lots, q, c).first = p.first
         /\ WithDust(p, lots, q, c).dustCost = c /\ WithDust(p, lots, q, c).dustQty = q
<1> DEFINE r == WithDust(p, lots, q, c)
           H == [ext : Nat, extCost : Nat, lots : LotsOf(K), qty : Nat, cost : Nat,
                 realized : Int, dustCost : Nat, dustQty : Nat, first : {None} \cup 0..n]
<1>1. p \in H
  BY HoldingFields
<1>2. r.ext = p.ext /\ r.extCost = p.extCost /\ r.realized = p.realized /\ r.first = p.first
  BY <1>1 DEF WithDust
<1>3. r.lots = lots /\ r.qty = Qty(lots) /\ r.cost = CostOf(lots)
  BY <1>1 DEF WithDust
<1>4. r.dustCost = c /\ r.dustQty = q
  BY <1>1 DEF WithDust
<1>5. r \in H
  <2>1. lots \in Lots
    BY LotsOfAreLots
  <2>2. Qty(lots) \in Nat /\ CostOf(lots) \in Nat
    BY <2>1, LotsAreMeasured
  <2> QED BY <1>1, <2>2 DEF WithDust
<1> HIDE DEF r
<1>6. r \in Holding(K, n)
  BY <1>3, <1>5 DEF Holding
<1> QED BY <1>2, <1>3, <1>4, <1>6 DEF r

(* What becomes dust leaves the lots, its cost a loss. *)
LEMMA TrimDustMoves ==
  ASSUME NEW K, NEW n, NEW p \in Holding(K, n), NEW t \in Token
  PROVE  /\ trimDustLots(p, t) \in Holding(K, n)
         /\ trimDustLots(p, t).ext = p.ext /\ trimDustLots(p, t).extCost = p.extCost
         /\ trimDustLots(p, t).realized = p.realized /\ trimDustLots(p, t).first = p.first
         /\ trimDustLots(p, t).qty + trimDustLots(p, t).dustQty = p.qty + p.dustQty
         /\ trimDustLots(p, t).cost + trimDustLots(p, t).dustCost = p.cost + p.dustCost
<1> DEFINE dust == Dust[t]
           trimmed == Trimmed(p.lots, dust)
           loss == Least(trimmed.cost, p.cost)
           left == Most(0, p.qty - trimmed.qty)
           q == p.dustQty + trimmed.qty
           c == p.dustCost + loss
<1>1. trimDustLots(p, t) = [p EXCEPT !.lots = trimmed.lots, !.qty = left, !.cost = p.cost - loss,
                                     !.dustCost = c, !.dustQty = q]
  BY DEF trimDustLots
<1>2. p.lots \in LotsOf(K) /\ p.qty \in Nat /\ p.cost \in Nat /\ p.dustQty \in Nat
      /\ p.dustCost \in Nat /\ p.qty = Qty(p.lots) /\ p.cost = CostOf(p.lots)
  BY HoldingFields
<1>3. dust \in Nat
  BY LedgerAssumption DEF LedgerAssumption
<1> HIDE DEF dust
<1>4. /\ trimmed \in Trimming(K)
      /\ Qty(trimmed.lots) + trimmed.qty = p.qty
      /\ CostOf(trimmed.lots) + trimmed.cost = p.cost
  BY <1>2, <1>3, TrimmedSplits
<1>5. trimmed.lots \in LotsOf(K) /\ trimmed.qty \in Nat /\ trimmed.cost \in Nat
  BY <1>4 DEF Trimming
<1> HIDE DEF trimmed
<1>6. Qty(trimmed.lots) \in Nat /\ CostOf(trimmed.lots) \in Nat
  <2>1. trimmed.lots \in Lots
    BY <1>5, LotsOfAreLots
  <2> QED BY <2>1, LotsAreMeasured
<1>7. left = Qty(trimmed.lots)
  BY <1>2, <1>4, <1>5, <1>6 DEF Most
<1>8. loss = trimmed.cost /\ p.cost - loss = CostOf(trimmed.lots)
  BY <1>2, <1>4, <1>5, <1>6 DEF Least
<1>9. q \in Nat /\ c \in Nat
  BY <1>2, <1>5, <1>8
<1> DEFINE lots == trimmed.lots
           r == trimDustLots(p, t)
<1>10. r = WithDust(p, lots, q, c) /\ lots \in LotsOf(K)
  BY <1>1, <1>5, <1>7, <1>8 DEF WithDust
<1>11. q = p.dustQty + trimmed.qty /\ c = p.dustCost + trimmed.cost
       /\ Qty(lots) + trimmed.qty = p.qty /\ CostOf(lots) + trimmed.cost = p.cost
       /\ Qty(lots) \in Nat /\ CostOf(lots) \in Nat
  BY <1>4, <1>6, <1>8
<1> HIDE DEF lots, r, q, c
<1>12. /\ r \in Holding(K, n)
       /\ r.ext = p.ext /\ r.extCost = p.extCost
       /\ r.qty = Qty(lots) /\ r.cost = CostOf(lots)
       /\ r.realized = p.realized /\ r.first = p.first
       /\ r.dustCost = c /\ r.dustQty = q
  BY <1>9, <1>10, DustChanges
<1>13. r.qty + r.dustQty = p.qty + p.dustQty
  BY <1>2, <1>5, <1>11, <1>12
<1>14. r.cost + r.dustCost = p.cost + p.dustCost
  BY <1>2, <1>5, <1>11, <1>12
<1> QED BY <1>12, <1>13, <1>14 DEF r

LEMMA LotsOfMore ==
  ASSUME NEW K, NEW M, K \subseteq M
  PROVE  LotOf(K) \subseteq LotOf(M) /\ LotsOf(K) \subseteq LotsOf(M)
<1>1. LotOf(K) \subseteq LotOf(M)
  BY DEF LotOf
<1>2. Seq(LotOf(K)) \subseteq Seq(LotOf(M))
  BY <1>1, SeqMonotonic
<1> QED BY <1>1, <1>2 DEF LotsOf

(* What is taken out of a position, and what remains of it: nothing is lost. The
   matches a migration carries over have descents in M, those of a sale in K. *)
Consumes(K, M, n, p, amount, used) ==
  /\ used.position \in Holding(K, n)
  /\ used.position.realized = p.realized /\ used.position.first = p.first
  /\ used.cost \in Nat /\ used.gap \in Nat
  /\ Held(used.position) + used.cost = Held(p)
  /\ Amount(used.position) + amount = Amount(p) + used.gap
  /\ used.matches \in LotsOf(M) /\ CostOf(used.matches) = used.cost
  /\ used.lots.matches \in LotsOf(K) /\ used.lots.qty = Qty(used.lots.matches)
  /\ used.lots.cost = CostOf(used.lots.matches)

LEMMA ConsumeBalances ==
  ASSUME NEW K, NEW M, NEW n \in Nat, NEW p \in Holding(K, n), NEW t \in Token, NEW amount \in Nat,
         K \subseteq M, p.first # None, <<p.first, <<0, 0, 0>>>> \in M
  PROVE  Consumes(K, M, n, p, amount, Consume(p, t, amount))
<1> DEFINE ext == ConsumeExternal(p, amount)
           wanted == amount - ext.qty
           lots == ConsumeLots(ext.position, wanted)
           used == Consume(p, t, amount)
           first == [qty |-> ext.qty, cost |-> ext.cost, root |-> p.first, id |-> <<0, 0, 0>>]
<1>1. /\ used.position = trimDustLots(lots.position, t) /\ used.lots = lots
      /\ used.cost = ext.cost + lots.cost /\ used.gap = (amount - ext.qty) - lots.qty
      /\ used.matches = IF ext.qty = 0 THEN lots.matches ELSE Sorted(lots.matches, first)
  BY DEF Consume, LotsNext, Relieved
<1>2. p.ext \in Nat /\ p.extCost \in Nat /\ p.qty \in Nat /\ p.cost \in Nat
      /\ p.dustCost \in Nat /\ p.dustQty \in Nat
  BY HoldingFields
<1>3. /\ ext.position \in Holding(K, n)
      /\ ext.qty \in 0..amount /\ ext.cost \in Nat /\ (ext.qty = 0 => ext.cost = 0)
      /\ ext.position.ext = p.ext - ext.qty
      /\ ext.position.extCost = p.extCost - ext.cost
      /\ ext.position.qty = p.qty /\ ext.position.cost = p.cost
      /\ ext.position.realized = p.realized /\ ext.position.first = p.first
      /\ ext.position.dustCost = p.dustCost /\ ext.position.dustQty = p.dustQty
  BY ConsumeExternalTakes
<1> HIDE DEF used, ext
<1>4. wanted \in Nat
  BY <1>3
<1> HIDE DEF wanted
<1>5. /\ lots.position \in Holding(K, n) /\ lots.matches \in LotsOf(K)
      /\ lots.qty \in 0..wanted /\ lots.cost \in Nat
      /\ lots.qty = Qty(lots.matches) /\ lots.cost = CostOf(lots.matches)
      /\ lots.position.qty = ext.position.qty - lots.qty
      /\ lots.position.cost = ext.position.cost - lots.cost
      /\ lots.position.ext = ext.position.ext /\ lots.position.extCost = ext.position.extCost
      /\ lots.position.realized = ext.position.realized
      /\ lots.position.first = ext.position.first
      /\ lots.position.dustCost = ext.position.dustCost
      /\ lots.position.dustQty = ext.position.dustQty
  BY <1>3, <1>4, ConsumeLotsMatches
<1> HIDE DEF lots
<1> DEFINE r == trimDustLots(lots.position, t)
<1>6. /\ r \in Holding(K, n)
      /\ r.ext = lots.position.ext /\ r.extCost = lots.position.extCost
      /\ r.realized = lots.position.realized /\ r.first = lots.position.first
      /\ r.qty + r.dustQty = lots.position.qty + lots.position.dustQty
      /\ r.cost + r.dustCost = lots.position.cost + lots.position.dustCost
  BY <1>5, TrimDustMoves
<1> HIDE DEF r
<1>7. r.ext \in Nat /\ r.extCost \in Nat /\ r.qty \in Nat /\ r.cost \in Nat
      /\ r.dustCost \in Nat /\ r.dustQty \in Nat
  BY <1>6, HoldingFields
<1>8. Held(r) + (ext.cost + lots.cost) = Held(p)
  <2>1. r.extCost = p.extCost - ext.cost /\ r.cost + r.dustCost = (p.cost - lots.cost) + p.dustCost
    BY <1>3, <1>5, <1>6
  <2> QED BY <1>2, <1>3, <1>5, <1>7, <2>1 DEF Held
<1>9. Amount(r) + amount = Amount(p) + ((amount - ext.qty) - lots.qty)
  <2>1. r.ext = p.ext - ext.qty /\ r.qty + r.dustQty = (p.qty - lots.qty) + p.dustQty
    BY <1>3, <1>5, <1>6
  <2>2. ext.qty \in Nat /\ lots.qty \in Nat
    BY <1>3, <1>5
  <2> QED BY <1>2, <1>7, <2>1, <2>2 DEF Amount
<1>10. (amount - ext.qty) - lots.qty \in Nat /\ ext.cost + lots.cost \in Nat
  BY <1>3, <1>4, <1>5 DEF wanted
<1>11. used.matches \in LotsOf(M) /\ CostOf(used.matches) = used.cost
  <2>1. lots.matches \in LotsOf(M)
    BY <1>5, LotsOfMore
  <2>2. CASE ext.qty = 0
    BY <1>1, <1>3, <1>5, <2>1, <2>2
  <2>3. CASE ext.qty # 0
    <3>1. p.first \in Nat
      BY HoldingFields
    <3>2. first \in LotOf(M) /\ first.cost = ext.cost
      <4>1. ext.qty \in Nat \ {0} /\ <<0, 0, 0>> \in Seq(Nat)
        BY <1>3, <2>3
      <4> QED BY <1>3, <3>1, <4>1 DEF LotOf, Lot
    <3> HIDE DEF first
    <3>3. /\ Sorted(lots.matches, first) \in LotsOf(M)
          /\ CostOf(Sorted(lots.matches, first)) = CostOf(lots.matches) + first.cost
      BY <2>1, <3>2, SortedAdds
    <3> QED BY <1>1, <1>3, <1>5, <2>3, <3>2, <3>3
  <2> QED BY <2>2, <2>3
<1>12. used.position = r /\ r.realized = p.realized /\ r.first = p.first
  BY <1>1, <1>3, <1>5, <1>6 DEF r
<1> HIDE DEF first
<1> QED BY <1>1, <1>5, <1>6, <1>8, <1>9, <1>10, <1>11, <1>12 DEF Consumes, used

(* ------------------------------ lots bought ------------------------------ *)

(* Lots as a trade brings them: a share may be nothing, or below. *)
Share(K) == {lot \in [qty : Int, cost : Nat, root : Nat, id : Seq(Nat)] : <<lot.root, lot.id>> \in K}
SharesOf(K) == Seq(Share(K))

LEMMA SharesAreMeasured ==
  ASSUME NEW K, NEW lots \in SharesOf(K)
  PROVE  Quantities(lots) \in Seq(Int) /\ Costs(lots) \in Seq(Nat)
<1>1. \A i \in 1..Len(lots) : lots[i].qty \in Int /\ lots[i].cost \in Nat
  <2> SUFFICES ASSUME NEW i \in 1..Len(lots) PROVE lots[i].qty \in Int /\ lots[i].cost \in Nat
    OBVIOUS
  <2>1. lots[i] \in Share(K)
    BY ElementOfSeq DEF SharesOf
  <2> QED BY <2>1 DEF Share
<1>2. DOMAIN lots = 1..Len(lots) /\ Len(lots) \in Nat
  BY DEF SharesOf
<1>3. Quantities(lots) \in [1..Len(lots) -> Int] /\ Costs(lots) \in [1..Len(lots) -> Nat]
  BY <1>1, <1>2 DEF Quantities, Costs
<1> QED BY <1>2, <1>3, SeqDef

(* A lot with a quantity adds it, and its cost; another one changes nothing. *)
LEMMA AddingALot ==
  ASSUME NEW K, NEW n, NEW p \in Holding(K, n), NEW lot \in Share(K)
  PROVE  /\ addTradeLot(p, lot) \in Holding(K, n)
         /\ lot.qty > 0 => /\ Amount(addTradeLot(p, lot)) = Amount(p) + lot.qty
                           /\ Held(addTradeLot(p, lot)) = Held(p) + lot.cost
         /\ addTradeLot(p, lot).realized = p.realized /\ addTradeLot(p, lot).first = p.first
<1>0. lot.qty \in Int /\ lot.cost \in Nat
  BY DEF Share
<1>1. CASE lot.qty <= 0
  <2>1. addTradeLot(p, lot) = p
    BY <1>1 DEF addTradeLot
  <2> QED BY <1>0, <1>1, <2>1
<1>2. CASE ~(lot.qty <= 0)
  <2> DEFINE lots == Sorted(p.lots, lot)
             r == addTradeLot(p, lot)
  <2>1. lot \in LotOf(K)
    BY <1>2 DEF Share, LotOf, Lot
  <2>2. p.lots \in LotsOf(K) /\ p.qty = Qty(p.lots) /\ p.cost = CostOf(p.lots)
    BY HoldingFields
  <2>3. /\ lots \in LotsOf(K) /\ Qty(lots) = p.qty + lot.qty /\ CostOf(lots) = p.cost + lot.cost
    BY <2>1, <2>2, SortedAdds
  <2>4. r = [p EXCEPT !.qty = p.qty + lot.qty, !.cost = p.cost + lot.cost, !.lots = lots]
    BY <1>2 DEF addTradeLot
  <2> HIDE DEF lots, r
  <2>5. r = With(p, lots)
    <3>1. r = [p EXCEPT !.qty = Qty(lots), !.cost = CostOf(lots), !.lots = lots]
      BY <2>3, <2>4
    <3>2. p \in [ext : Nat, extCost : Nat, lots : LotsOf(K), qty : Nat, cost : Nat,
                 realized : Int, dustCost : Nat, dustQty : Nat, first : {None} \cup 0..n]
      BY HoldingFields
    <3> QED BY <3>1, <3>2 DEF With
  <2>6. /\ r \in Holding(K, n) /\ r.qty = Qty(lots) /\ r.cost = CostOf(lots)
        /\ r.ext = p.ext /\ r.extCost = p.extCost /\ r.realized = p.realized /\ r.first = p.first
        /\ r.dustCost = p.dustCost /\ r.dustQty = p.dustQty
    BY <2>3, <2>5, Relieving
  <2>7. p.ext \in Nat /\ p.extCost \in Nat /\ p.qty \in Nat /\ p.cost \in Nat
        /\ p.dustCost \in Nat /\ p.dustQty \in Nat
    BY HoldingFields
  <2>8. Amount(r) = Amount(p) + lot.qty
    BY <1>0, <2>3, <2>6, <2>7 DEF Amount
  <2>9. Held(r) = Held(p) + lot.cost
    BY <1>0, <2>3, <2>6, <2>7 DEF Held
  <2> QED BY <2>6, <2>8, <2>9 DEF r
<1> QED BY <1>1, <1>2

LEMMA SequencesGrow ==
  ASSUME NEW S, NEW s \in Seq(S), NEW i \in 1..Len(s)
  PROVE  /\ SubSeq(s, 1, i - 1) \in Seq(S) /\ s[i] \in S
         /\ SubSeq(s, 1, i) = Append(SubSeq(s, 1, i - 1), s[i])
<1>1. s[i] \in S
  BY ElementOfSeq
<1>2. SubSeq(s, 1, i - 1) \in Seq(S)
  OBVIOUS
<1>3. SubSeq(s, 1, i) = SubSeq(s, 1, i - 1) \o <<s[i]>>
  <2>1. 1 \in 1..Len(s) /\ i \in 1..Len(s)
    OBVIOUS
  <2> QED BY <2>1, SubSeqRecursiveSecond
<1>4. Append(SubSeq(s, 1, i - 1), s[i]) = SubSeq(s, 1, i - 1) \o <<s[i]>>
  BY <1>1, <1>2, AppendIsConcat
<1>5. SubSeq(s, 1, i) = Append(SubSeq(s, 1, i - 1), s[i])
  BY <1>3, <1>4, Zenon
<1> QED BY <1>1, <1>2, <1>5

LEMMA SharesAppend ==
  ASSUME NEW K, NEW lots \in SharesOf(K), NEW lot \in Share(K)
  PROVE  /\ Qty(Append(lots, lot)) = Qty(lots) + lot.qty
         /\ CostOf(Append(lots, lot)) = CostOf(lots) + lot.cost
         /\ Qty(lots) \in Int /\ CostOf(lots) \in Nat
<1>1. Quantities(Append(lots, lot)) = Append(Quantities(lots), lot.qty)
  BY DEF Quantities, SharesOf
<1>2. Costs(Append(lots, lot)) = Append(Costs(lots), lot.cost)
  BY DEF Costs, SharesOf
<1>3. Quantities(lots) \in Seq(Int) /\ Costs(lots) \in Seq(Nat)
  BY SharesAreMeasured
<1>4. Costs(lots) \in Seq(Int) /\ lot.qty \in Int /\ lot.cost \in Int
  BY <1>3 DEF Share
<1>5. Qty(Append(lots, lot)) = Qty(lots) + lot.qty
  BY <1>1, <1>3, <1>4, TotalAppends DEF Qty
<1>6. CostOf(Append(lots, lot)) = CostOf(lots) + lot.cost
  BY <1>2, <1>4, TotalAppends DEF CostOf
<1>7. Qty(lots) \in Int /\ CostOf(lots) \in Nat
  BY <1>3, TotalIsInt, TotalIsNatural DEF Qty, CostOf
<1> QED BY <1>5, <1>6, <1>7

(* The lots of a trade are added one by one. *)
AllAdded(p, lots) == FoldLeft(addTradeLot, p, lots)

LEMMA BoughtLoop ==
  ASSUME NEW K, NEW top, NEW p \in Holding(K, top), NEW lots \in SharesOf(K)
  PROVE  \E f \in [0..Len(lots) -> Holding(K, top)] :
           /\ f[0] = p
           /\ f[Len(lots)] = AllAdded(p, lots)
           /\ \A i \in 1..Len(lots) : f[i] = addTradeLot(f[i - 1], lots[i])
<1> DEFINE n == Len(lots)
           base == p
           step == [a \in Holding(K, top) \X (1..n) |-> addTradeLot(a[1], lots[a[2]])]
           it == CHOOSE g : g = [s \in SUBSET DOMAIN lots |->
                   IF s = {} THEN base ELSE addTradeLot(g[s \ {Max(s)}], lots[Max(s)])]
<1>0. DOMAIN lots = 1..n
  BY DEF SharesOf
<1>1. base \in Holding(K, top)
  OBVIOUS
<1>2. step \in [Holding(K, top) \X (1..n) -> Holding(K, top)]
  <2>1. \A i \in 1..n : lots[i] \in Share(K)
    BY ElementOfSeq DEF SharesOf
  <2>2. \A acc \in Holding(K, top), i \in 1..n : addTradeLot(acc, lots[i]) \in Holding(K, top)
    BY <2>1, AddingALot
  <2> QED BY <2>2
<1>3. \A acc \in Holding(K, top), i \in 1..n : step[<<acc, i>>] = addTradeLot(acc, lots[i])
  OBVIOUS
<1>4. it[DOMAIN lots] = AllAdded(p, lots)
  BY Zenon DEF AllAdded, FoldLeft, MapThenFoldSet
<1>n. n \in Nat
  BY DEF SharesOf
<1> HIDE DEF n, base, step, it
<1>5. \A s \in SUBSET (1..n) : s # {} => Max(s) \in 1..n
  BY <1>n, GreatestOf
<1>6. PICK g : IsFold(g, n, Holding(K, top), base, step)
  BY <1>n, <1>1, <1>2, LoopExists
<1>7. g = [s \in SUBSET DOMAIN lots |-> IF s = {} THEN base ELSE addTradeLot(g[s \ {Max(s)}], lots[Max(s)])]
  <2>1. ASSUME NEW s \in SUBSET (1..n), s # {}
        PROVE  g[s] = addTradeLot(g[s \ {Max(s)}], lots[Max(s)])
    <3>1. g[s \ {Max(s)}] \in Holding(K, top)
      BY <1>6 DEF IsFold
    <3>2. Max(s) \in 1..n
      BY <1>5, <2>1
    <3>3. g[s] = step[<<g[s \ {Max(s)}], Max(s)>>]
      BY <1>6, <2>1 DEF IsFold
    <3>4. step[<<g[s \ {Max(s)}], Max(s)>>] = addTradeLot(g[s \ {Max(s)}], lots[Max(s)])
      BY <1>3, <3>1, <3>2
    <3> QED BY <3>2, <3>3, <3>4
  <2>2. g[{}] = base /\ g = [s \in SUBSET (1..n) |-> g[s]]
    BY <1>6 DEF IsFold
  <2>3. \A s \in SUBSET (1..n) : g[s] = IF s = {} THEN base ELSE addTradeLot(g[s \ {Max(s)}], lots[Max(s)])
    BY <2>1, <2>2
  <2> QED BY <1>0, <2>2, <2>3
<1>8. it = [s \in SUBSET DOMAIN lots |-> IF s = {} THEN base ELSE addTradeLot(it[s \ {Max(s)}], lots[Max(s)])]
  BY <1>7, Zenon DEF it
<1>9. it[{}] = base
  BY <1>0, <1>8
<1>10. ASSUME NEW s \in SUBSET (1..n), s # {}, it[s \ {Max(s)}] \in Holding(K, top)
       PROVE  it[s] = step[<<it[s \ {Max(s)}], Max(s)>>]
  <2>1. Max(s) \in 1..n
    BY <1>5, <1>10
  <2>2. it[s] = addTradeLot(it[s \ {Max(s)}], lots[Max(s)])
    <3>1. s \in SUBSET DOMAIN lots
      BY <1>0
    <3> QED BY <1>8, <1>10, <3>1
  <2>3. step[<<it[s \ {Max(s)}], Max(s)>>] = addTradeLot(it[s \ {Max(s)}], lots[Max(s)])
    BY <1>3, <1>10, <2>1
  <2> QED BY <2>1, <2>2, <2>3
<1>11. PICK f : IsRun(f, n, Holding(K, top), base, step, it[1..n])
  <2>1. IsUntypedFold(it, n, Holding(K, top), base, step)
    BY <1>9, <1>10 DEF IsUntypedFold
  <2> QED BY <1>n, <1>1, <1>2, <2>1, LoopSteps
<1>12. \A i \in 1..n : f[i] = addTradeLot(f[i - 1], lots[i])
  <2> SUFFICES ASSUME NEW i \in 1..n PROVE f[i] = addTradeLot(f[i - 1], lots[i])
    OBVIOUS
  <2>1. i - 1 \in 0..n
    BY <1>n
  <2>2. f[i - 1] \in Holding(K, top) /\ f[i] = step[<<f[i - 1], i>>]
    BY <1>11, <2>1 DEF IsRun
  <2> QED BY <1>3, <2>2
<1>13. f \in [0..n -> Holding(K, top)] /\ f[0] = base /\ f[n] = it[DOMAIN lots]
  BY <1>0, <1>11 DEF IsRun
<1> QED BY <1>4, <1>12, <1>13 DEF n, base

(* Lots that all have a quantity add what they are. *)
LEMMA BoughtAdds ==
  ASSUME NEW K, NEW top, NEW p \in Holding(K, top), NEW lots \in SharesOf(K)
  PROVE  LET r == AllAdded(p, lots)
         IN  /\ r \in Holding(K, top) /\ r.realized = p.realized /\ r.first = p.first
             /\ (\A i \in DOMAIN lots : lots[i].qty > 0) =>
                  Amount(r) = Amount(p) + Qty(lots) /\ Held(r) = Held(p) + CostOf(lots)
<1> DEFINE n == Len(lots)
           r == AllAdded(p, lots)
           Full == \A i \in DOMAIN lots : lots[i].qty > 0
<1>1. n \in Nat /\ lots \in Seq(Share(K)) /\ DOMAIN lots = 1..n
  BY DEF SharesOf
<1>2. PICK f \in [0..n -> Holding(K, top)] :
        f[0] = p /\ f[n] = r /\ \A i \in 1..n : f[i] = addTradeLot(f[i - 1], lots[i])
  BY BoughtLoop
<1> HIDE DEF r
<1> DEFINE Good(i) ==
      /\ f[i].realized = p.realized /\ f[i].first = p.first
      /\ Full => /\ Amount(f[i]) = Amount(p) + Qty(SubSeq(lots, 1, i))
                 /\ Held(f[i]) = Held(p) + CostOf(SubSeq(lots, 1, i))
<1> DEFINE N == {i \in 0..n : Good(i)}
<1>3. Amount(p) \in Nat /\ Held(p) \in Nat
  <2>1. p.ext \in Nat /\ p.extCost \in Nat /\ p.qty \in Nat /\ p.cost \in Nat
        /\ p.dustCost \in Nat /\ p.dustQty \in Nat
    BY HoldingFields
  <2>2. \A a, b, c \in Nat : a + b + c \in Nat
    OBVIOUS
  <2>3. p.ext + p.qty + p.dustQty \in Nat
    BY <2>1, <2>2
  <2>4. p.extCost + p.cost + p.dustCost \in Nat
    BY <2>1, <2>2
  <2> QED BY <2>3, <2>4 DEF Amount, Held
<1>4. Good(0)
  <2>1. SubSeq(lots, 1, 0) = <<>>
    BY SubSeqEmpty
  <2>2. Qty(SubSeq(lots, 1, 0)) = 0 /\ CostOf(SubSeq(lots, 1, 0)) = 0
    BY <2>1, NoLots
  <2> HIDE DEF Full
  <2> QED BY <1>2, <1>3, <2>2
<1>5. ASSUME NEW i \in 1..n, Good(i - 1) PROVE Good(i)
  <2> DEFINE a == f[i - 1]
             prefix == SubSeq(lots, 1, i - 1)
             lot == lots[i]
  <2>1. i - 1 \in 0..n /\ i \in 0..n /\ i \in 1..Len(lots)
    BY <1>1
  <2>2. a \in Holding(K, top) /\ f[i] = addTradeLot(a, lot)
    BY <1>2, <2>1
  <2>3. prefix \in SharesOf(K) /\ lot \in Share(K) /\ SubSeq(lots, 1, i) = Append(prefix, lot)
    BY <1>1, <2>1, SequencesGrow DEF SharesOf
  <2>4. /\ lot.qty > 0 => /\ Amount(f[i]) = Amount(a) + lot.qty
                          /\ Held(f[i]) = Held(a) + lot.cost
        /\ f[i].realized = a.realized /\ f[i].first = a.first
    <3> HIDE DEF a, lot, n
    <3> QED BY <2>2, <2>3, AddingALot
  <2>5. /\ Qty(SubSeq(lots, 1, i)) = Qty(prefix) + lot.qty
        /\ CostOf(SubSeq(lots, 1, i)) = CostOf(prefix) + lot.cost
        /\ Qty(prefix) \in Int /\ CostOf(prefix) \in Nat
    <3> HIDE DEF prefix, lot
    <3> QED BY <2>3, SharesAppend
  <2>6. lot.qty \in Int /\ lot.cost \in Nat
    BY <2>3 DEF Share
  <2>7. Full => lot.qty > 0
    BY <1>1, <2>1
  <2>8. /\ a.realized = p.realized /\ a.first = p.first
        /\ Full => Amount(a) = Amount(p) + Qty(prefix) /\ Held(a) = Held(p) + CostOf(prefix)
    BY <1>5
  <2> HIDE DEF a, prefix, lot, Full
  <2>9. ASSUME Full
        PROVE  /\ Amount(f[i]) = Amount(p) + Qty(SubSeq(lots, 1, i))
               /\ Held(f[i]) = Held(p) + CostOf(SubSeq(lots, 1, i))
    <3>1. Amount(f[i]) = (Amount(p) + Qty(prefix)) + lot.qty
      BY <2>4, <2>7, <2>8, <2>9
    <3>2. Held(f[i]) = (Held(p) + CostOf(prefix)) + lot.cost
      BY <2>4, <2>7, <2>8, <2>9
    <3>3. Amount(f[i]) = Amount(p) + Qty(SubSeq(lots, 1, i))
      BY <1>3, <2>5, <2>6, <3>1
    <3>4. Held(f[i]) = Held(p) + CostOf(SubSeq(lots, 1, i))
      BY <1>3, <2>5, <2>6, <3>2
    <3> QED BY <3>3, <3>4
  <2> QED BY <2>4, <2>8, <2>9
<1>6. Good(n)
  <2> HIDE DEF Good
  <2>1. 0 \in N
    BY <1>1, <1>4
  <2>2. \A i \in 1..n : i - 1 \in N => i \in N
    BY <1>1, <1>5
  <2>3. 0..n \subseteq N
    <3> HIDE DEF N
    <3> QED BY <1>1, <2>1, <2>2, LoopInduction
  <2> QED BY <1>1, <2>3
<1>7. SubSeq(lots, 1, n) = lots
  BY <1>1, SubSeqFull
<1>8. f[n] \in Holding(K, top)
  BY <1>1, <1>2
<1> HIDE DEF n, Full
<1>9. r \in Holding(K, top) /\ r.realized = p.realized /\ r.first = p.first
      /\ (Full => Amount(r) = Amount(p) + Qty(lots) /\ Held(r) = Held(p) + CostOf(lots))
  BY <1>2, <1>6, <1>7, <1>8
<1> QED BY <1>9 DEF r, Full

(* ----------------------- rows, shares and the gas ------------------------ *)

LEMMA TotalAdds ==
  ASSUME NEW s \in Seq(Int), NEW t \in Seq(Int), NEW u \in Seq(Int),
         Len(t) = Len(s), Len(u) = Len(s), \A i \in 1..Len(s) : u[i] = s[i] + t[i]
  PROVE  Total(u) = Total(s) + Total(t)
<1> DEFINE n == Len(s)
           S == 1..n
           T == {X \in SUBSET S :
                   SumFunctionOnSet(u, X) = SumFunctionOnSet(s, X) + SumFunctionOnSet(t, X)}
<1>1. n \in Nat /\ \A i \in S : s[i] \in Int /\ t[i] \in Int /\ u[i] \in Int /\ u[i] = s[i] + t[i]
  OBVIOUS
<1>2. DOMAIN s = S /\ DOMAIN t = S /\ DOMAIN u = S
  OBVIOUS
<1>3. IsFiniteSet(S)
  <2>1. 1 \in Int /\ n \in Int
    OBVIOUS
  <2> HIDE DEF n
  <2> QED BY <2>1, FS_Interval
<1> HIDE DEF n, S
<1>4. {} \in T
  <2>1. SumFunctionOnSet(u, {}) = 0 /\ SumFunctionOnSet(s, {}) = 0 /\ SumFunctionOnSet(t, {}) = 0
    BY SumOfNone
  <2> QED BY <2>1
<1>5. ASSUME NEW X \in SUBSET S, NEW x \in S, X \in T, x \notin X PROVE X \cup {x} \in T
  <2>1. IsFiniteSet(X)
    BY <1>3, FS_Subset
  <2>2. /\ \A y \in X \cup {x} : u[y] \in Int
        /\ \A y \in X \cup {x} : s[y] \in Int
        /\ \A y \in X \cup {x} : t[y] \in Int
    BY <1>1
  <2>3. SumFunctionOnSet(u, X \cup {x}) = u[x] + SumFunctionOnSet(u, X)
    BY <1>5, <2>1, <2>2, SumAdds
  <2>4. SumFunctionOnSet(s, X \cup {x}) = s[x] + SumFunctionOnSet(s, X)
    BY <1>5, <2>1, <2>2, SumAdds
  <2>5. SumFunctionOnSet(t, X \cup {x}) = t[x] + SumFunctionOnSet(t, X)
    BY <1>5, <2>1, <2>2, SumAdds
  <2>6. SumFunctionOnSet(s, X) \in Int
    <3>1. \A y \in X : s[y] \in Int
      BY <2>2
    <3> QED BY <2>1, <3>1, SumRemoves
  <2>7. SumFunctionOnSet(t, X) \in Int
    <3>1. \A y \in X : t[y] \in Int
      BY <2>2
    <3> QED BY <2>1, <3>1, SumRemoves
  <2>8. SumFunctionOnSet(u, X) = SumFunctionOnSet(s, X) + SumFunctionOnSet(t, X)
    BY <1>5
  <2>9. u[x] = s[x] + t[x] /\ s[x] \in Int /\ t[x] \in Int
    BY <1>1
  <2> DEFINE a == SumFunctionOnSet(s, X)
             b == SumFunctionOnSet(t, X)
             c == SumFunctionOnSet(u, X)
  <2>10. SumFunctionOnSet(u, X \cup {x}) = (s[x] + t[x]) + (a + b)
    BY <2>3, <2>8, <2>9
  <2>11. SumFunctionOnSet(s, X \cup {x}) = s[x] + a /\ SumFunctionOnSet(t, X \cup {x}) = t[x] + b
    BY <2>4, <2>5
  <2>12. a \in Int /\ b \in Int /\ s[x] \in Int /\ t[x] \in Int
    BY <2>6, <2>7, <2>9
  <2> HIDE DEF a, b, c
  <2>13. (s[x] + t[x]) + (a + b) = (s[x] + a) + (t[x] + b)
    BY <2>12, SMTT(30)
  <2> QED BY <2>10, <2>11, <2>13
<1>6. S \in T
  <2> HIDE DEF T
  <2> QED BY <1>3, <1>4, <1>5, FiniteInduction
<1> QED BY <1>2, <1>6, TotalIs

LEMMA MatchesAreMeasured ==
  ASSUME NEW K, NEW lots \in LotsOf(K)
  PROVE  /\ Quantities(lots) \in Seq(Nat) /\ Costs(lots) \in Seq(Nat)
         /\ Len(Quantities(lots)) = Len(lots) /\ Len(Costs(lots)) = Len(lots)
         /\ DOMAIN lots = 1..Len(lots) /\ Len(lots) \in Nat
         /\ \A i \in 1..Len(lots) : lots[i] \in Lot /\ <<lots[i].root, lots[i].id>> \in K
<1>1. lots \in Lots
  BY LotsOfAreLots
<1>2. Quantities(lots) \in Seq(Nat \ {0}) /\ Costs(lots) \in Seq(Nat)
      /\ Len(Quantities(lots)) = Len(lots) /\ Len(Costs(lots)) = Len(lots)
  BY <1>1, LotsAreMeasured
<1>3. Quantities(lots) \in Seq(Nat)
  BY <1>2, SeqMonotonic
<1>4. \A i \in 1..Len(lots) : lots[i] \in LotOf(K)
  BY ElementOfSeq DEF LotsOf
<1>5. \A i \in 1..Len(lots) : lots[i] \in Lot /\ <<lots[i].root, lots[i].id>> \in K
  BY <1>4 DEF LotOf
<1>6. DOMAIN lots = 1..Len(lots) /\ Len(lots) \in Nat
  BY DEF LotsOf
<1> QED BY <1>2, <1>3, <1>5, <1>6

Profits(rows, key) == [i \in DOMAIN rows |-> Profit(rows[i], key)]

\* A row proves a sale of something bought before.
Proven(row) == row.root <= row.id[1] /\ Precedes(row.id, Append(row.soldAt, 0))

(* The rows of a sale prove its profit, to the last unit. *)
LEMMA RowsProve ==
  ASSUME NEW K, NEW matches \in LotsOf(K), NEW proceeds \in Int, NEW key \in Keys,
         NEW at \in Seq(Nat),
         \A k \in K : k[1] <= k[2][1] /\ Precedes(k[2], Append(at, 0))
  PROVE  LET rows == Rows(matches, proceeds, key, at)
         IN  /\ rows \in Seq(AuditRow) /\ \A i \in DOMAIN rows : Proven(rows[i])
             /\ \A k \in Keys :
                  Total(Profits(rows, k)) = IF k = key /\ Qty(matches) # 0
                                            THEN proceeds - CostOf(matches) ELSE 0
<1> DEFINE n == Len(matches)
           shares == Split(proceeds, Quantities(matches))
           rows == Rows(matches, proceeds, key, at)
<1>1. /\ Quantities(matches) \in Seq(Nat) /\ Costs(matches) \in Seq(Nat)
      /\ Len(Quantities(matches)) = n /\ Len(Costs(matches)) = n
      /\ DOMAIN matches = 1..n /\ n \in Nat
      /\ \A i \in 1..n : matches[i] \in Lot /\ <<matches[i].root, matches[i].id>> \in K
  BY MatchesAreMeasured
<1>2. /\ shares \in Seq(Int) /\ Len(shares) = n
      /\ Quantities(matches) # <<>> => Total(shares) = proceeds
  BY <1>1, SplitSums
<1>3. rows = [i \in 1..n |-> Row(matches[i], shares[i], key, at)]
  BY <1>1 DEF Rows
<1> HIDE DEF shares, rows, n
<1>4. \A i \in 1..n : rows[i] \in AuditRow /\ Proven(rows[i]) /\ rows[i].key = key
                      /\ rows[i].proceeds - rows[i].cost = shares[i] - matches[i].cost
  <2> SUFFICES ASSUME NEW i \in 1..n
               PROVE  /\ rows[i] \in AuditRow /\ Proven(rows[i]) /\ rows[i].key = key
                      /\ rows[i].proceeds - rows[i].cost = shares[i] - matches[i].cost
    OBVIOUS
  <2>1. rows[i] = [root |-> matches[i].root, id |-> matches[i].id, cost |-> matches[i].cost,
                   proceeds |-> shares[i], key |-> key, soldAt |-> at]
    BY <1>3 DEF Row
  <2>2. matches[i].root \in Nat /\ matches[i].id \in Seq(Nat) /\ matches[i].cost \in Nat
    BY <1>1 DEF Lot
  <2>3. shares[i] \in Int
    BY <1>2, ElementOfSeq
  <2>4. rows[i] \in AuditRow
    BY <2>1, <2>2, <2>3 DEF AuditRow
  <2>5. <<matches[i].root, matches[i].id>> \in K
    BY <1>1
  <2>6. matches[i].root <= matches[i].id[1] /\ Precedes(matches[i].id, Append(at, 0))
    <3> DEFINE k == <<matches[i].root, matches[i].id>>
    <3>1. k[1] = matches[i].root /\ k[2] = matches[i].id
      OBVIOUS
    <3>2. k \in K
      BY <2>5
    <3> HIDE DEF k
    <3>3. k[1] <= k[2][1] /\ Precedes(k[2], Append(at, 0))
      BY <3>2
    <3> QED BY <3>1, <3>3
  <2>7. rows[i].root = matches[i].root /\ rows[i].id = matches[i].id /\ rows[i].soldAt = at
        /\ rows[i].key = key /\ rows[i].proceeds = shares[i] /\ rows[i].cost = matches[i].cost
    BY <2>1
  <2> QED BY <2>4, <2>6, <2>7 DEF Proven
<1>5. rows \in Seq(AuditRow) /\ DOMAIN rows = 1..n
  <2>1. rows \in [1..n -> AuditRow]
    BY <1>3, <1>4
  <2> QED BY <1>1, <2>1, SeqDef
<1>6. ASSUME NEW k \in Keys
      PROVE  Total(Profits(rows, k)) = IF k = key /\ Qty(matches) # 0
                                       THEN proceeds - CostOf(matches) ELSE 0
  <2> DEFINE profits == Profits(rows, k)
  <2>1. profits = [i \in 1..n |-> IF key = k THEN shares[i] - matches[i].cost ELSE 0]
    BY <1>4, <1>5 DEF Profits, Profit
  <2>2. \A i \in 1..n : shares[i] \in Int /\ matches[i].cost \in Nat /\ Costs(matches)[i] = matches[i].cost
    BY <1>1, <1>2, ElementOfSeq DEF Costs, Lot
  <2> HIDE DEF profits
  <2>3. profits \in Seq(Int) /\ Len(profits) = n /\ DOMAIN profits = 1..n
    <3>1. profits \in [1..n -> Int]
      BY <2>1, <2>2
    <3>2. profits \in Seq(Int)
      <4>1. n \in Nat
        BY <1>1
      <4> QED BY <3>1, <4>1, SeqDef
    <3> QED BY <1>1, <3>1, <3>2
  <2>4. Quantities(matches) = <<>> <=> Qty(matches) = 0
    <3>1. matches \in Lots
      BY LotsOfAreLots
    <3>2. Quantities(matches) = <<>> => Qty(matches) = 0
      BY TotalOfNone DEF Qty
    <3>3. ASSUME Quantities(matches) # <<>> PROVE Qty(matches) # 0
      <4>1. n \in 1..n
        BY <1>1, <3>3
      <4>2. 1 \in 1..n
        BY <4>1
      <4>3. Quantities(matches)[1] \in Nat /\ Quantities(matches)[1] # 0
        BY <1>1, <4>2 DEF Quantities, Lot
      <4>4. Quantities(matches)[1] <= SumFunctionOnSet(Quantities(matches), 1..n)
            /\ SumFunctionOnSet(Quantities(matches), 1..n) \in Nat
        BY <1>1, <4>2, RestBounds
      <4>5. DOMAIN Quantities(matches) = 1..n
        BY <1>1
      <4>6. Qty(matches) = SumFunctionOnSet(Quantities(matches), 1..n)
        BY <4>5, TotalIs DEF Qty
      <4> QED BY <4>3, <4>4, <4>6
    <3> QED BY <3>2, <3>3
  <2>5. CASE k # key
    <3>1. \A i \in 1..n : profits[i] = 0
      BY <2>1, <2>5
    <3>2. Total(profits) = 0
      <4>1. \A i \in 1..Len(profits) : profits[i] = profits[i] + profits[i]
        BY <2>3, <3>1
      <4>2. Total(profits) = Total(profits) + Total(profits)
        BY <2>3, <4>1, TotalAdds
      <4>3. Total(profits) \in Int
        BY <2>3, TotalIsInt
      <4> QED BY <4>2, <4>3
    <3> QED BY <2>5, <3>2 DEF profits
  <2>6. CASE k = key /\ Qty(matches) = 0
    <3>1. n = 0
      BY <1>1, <2>4, <2>6
    <3>2. profits = <<>>
      BY <2>3, <3>1
    <3> QED BY <2>6, <3>2, TotalOfNone DEF profits
  <2>7. CASE k = key /\ Qty(matches) # 0
    <3>1. Total(shares) = proceeds
      BY <1>2, <2>4, <2>7
    <3>2. Costs(matches) \in Seq(Int)
      BY <1>1
    <3>3. \A i \in 1..Len(profits) : shares[i] = profits[i] + Costs(matches)[i]
      <4> SUFFICES ASSUME NEW i \in 1..n PROVE shares[i] = profits[i] + Costs(matches)[i]
        BY <2>3
      <4>1. profits[i] = shares[i] - matches[i].cost
        BY <2>1, <2>7
      <4>2. shares[i] \in Int /\ matches[i].cost \in Nat /\ Costs(matches)[i] = matches[i].cost
        BY <2>2
      <4> QED BY <4>1, <4>2
    <3>4. Total(shares) = Total(profits) + CostOf(matches)
      <4> DEFINE costs == Costs(matches)
      <4>1. costs \in Seq(Int) /\ profits \in Seq(Int) /\ shares \in Seq(Int)
            /\ Len(costs) = Len(profits) /\ Len(shares) = Len(profits)
        BY <1>1, <1>2, <2>3, <3>2
      <4>2. \A i \in 1..Len(profits) : shares[i] = profits[i] + costs[i]
        BY <3>3
      <4> HIDE DEF costs
      <4>3. Total(shares) = Total(profits) + Total(costs)
        BY <4>1, <4>2, TotalAdds
      <4> QED BY <4>3 DEF costs, CostOf
    <3>5. Total(profits) \in Int /\ CostOf(matches) \in Int
      BY <2>3, <3>2, TotalIsInt DEF CostOf
    <3> QED BY <2>7, <3>1, <3>4, <3>5 DEF profits
  <2> QED BY <2>5, <2>6, <2>7
<1> QED BY <1>4, <1>5, <1>6 DEF rows

(* The quantity a migration brings is what its lots share out. *)
LEMMA OutSharesSum ==
  ASSUME NEW amountOut \in Int, NEW weights \in Seq(Nat), weights # <<>>
  PROVE  /\ OutShares(amountOut, weights) \in Seq(Int)
         /\ Len(OutShares(amountOut, weights)) = Len(weights)
         /\ Total(OutShares(amountOut, weights)) = amountOut
<1> DEFINE n == Len(weights)
           share(i) == proportionalShare(amountOut, weights[i], SumFunctionOnSet(weights, i..n))
           front == [j \in 1..(n - 1) |-> share(j)]
           out == OutShares(amountOut, weights)
<1>1. n \in Nat /\ n # 0 /\ n \in 1..n /\ n - 1 \in Nat
  OBVIOUS
<1>2. out = [i \in 1..n |-> IF i < n THEN share(i) ELSE amountOut - SumFunction(front)]
  BY DEF OutShares
<1>3. \A i \in 1..n : share(i) \in Int
  <2> SUFFICES ASSUME NEW i \in 1..n PROVE share(i) \in Int
    OBVIOUS
  <2>1. SumFunctionOnSet(weights, i..n) \in Nat /\ weights[i] \in Nat
    BY RestBounds
  <2> QED BY <2>1, ShareIsInt
<1> HIDE DEF share, out
<1>4. DOMAIN front = 1..(n - 1) /\ \A j \in 1..(n - 1) : front[j] \in Int /\ j \in 1..n /\ j < n
  BY <1>1, <1>3
<1>5. IsFiniteSet(1..(n - 1)) /\ n \notin 1..(n - 1) /\ 1..n = 1..(n - 1) \cup {n}
  <2>1. 1 \in Int /\ n - 1 \in Int
    BY <1>1
  <2> DEFINE m == n - 1
  <2>2. IsFiniteSet(1..m)
    <3>1. m \in Int /\ 1 \in Int
      BY <2>1
    <3> HIDE DEF m
    <3> QED BY <3>1, FS_Interval
  <2>3. n \notin 1..(n - 1) /\ 1..n = 1..(n - 1) \cup {n}
    BY <1>1
  <2> QED BY <2>2, <2>3
<1> DEFINE total == SumFunctionOnSet(front, 1..(n - 1))
<1>6. total \in Int /\ SumFunction(front) = total
  <2>1. SumFunctionOnSet(front, 1..(n - 1)) \in Int
    BY <1>4, <1>5, SumRemoves
  <2> QED BY <1>4, <2>1 DEF SumFunction
<1>a. \A j \in 1..(n - 1) : front[j] = share(j)
  OBVIOUS
<1> HIDE DEF n, front, total
<1>7. out \in [1..n -> Int] /\ out[n] = amountOut - total
      /\ \A j \in 1..(n - 1) : out[j] = front[j] /\ out[j] \in Int
  <2>1. \A i \in 1..n : out[i] = IF i < n THEN share(i) ELSE amountOut - total
    BY <1>2, <1>6
  <2>2. out = [i \in 1..n |-> out[i]]
    BY <1>2
  <2>3. \A i \in 1..n : out[i] \in Int
    BY <1>3, <1>6, <2>1
  <2>4. out \in [1..n -> Int]
    BY <2>2, <2>3
  <2>5. out[n] = amountOut - total
    BY <1>1, <2>1
  <2>6. \A j \in 1..(n - 1) : out[j] = front[j] /\ out[j] \in Int
    BY <1>4, <1>a, <2>1
  <2> QED BY <2>4, <2>5, <2>6
<1>8. out \in Seq(Int) /\ Len(out) = n /\ DOMAIN out = 1..n
  <2>1. out \in Seq(Int)
    BY <1>1, <1>7, SeqDef
  <2> QED BY <1>1, <1>7, <2>1
<1>9. SumFunctionOnSet(out, 1..n) = out[n] + SumFunctionOnSet(out, 1..(n - 1))
  <2>1. \A y \in 1..(n - 1) \cup {n} : out[y] \in Int
    BY <1>1, <1>7
  <2>2. SumFunctionOnSet(out, 1..(n - 1) \cup {n}) = out[n] + SumFunctionOnSet(out, 1..(n - 1))
    BY <1>5, <2>1, SumAdds
  <2> QED BY <1>5, <2>2
<1>10. SumFunctionOnSet(out, 1..(n - 1)) = total
  <2> DEFINE S == 1..(n - 1)
  <2>1. IsFiniteSet(S) /\ \A j \in S : out[j] \in Int /\ out[j] = front[j]
    BY <1>5, <1>7
  <2> HIDE DEF S
  <2>2. SumFunctionOnSet(out, S) = SumFunctionOnSet(front, S)
    BY <2>1, SumSame
  <2> QED BY <2>2 DEF S, total
<1>11. Total(out) = amountOut
  <2>1. Total(out) = SumFunctionOnSet(out, 1..n)
    BY <1>8, TotalIs
  <2> QED BY <1>6, <1>7, <1>9, <1>10, <2>1
<1> QED BY <1>8, <1>11 DEF n, out

(* A new lot of a matched one's root, at item at, descends from K. *)
Descends(M, at, K) == \A m \in M : \A i \in Nat : <<m[1], Append(at, i)>> \in K

(* The lots a migration carries over: their descent remains, all of their cost and
   of the gas, and the new quantity. *)
LEMMA CarriedLotsAre ==
  ASSUME NEW M, NEW matches \in LotsOf(M), matches # <<>>, NEW amountOut \in Nat, NEW gas \in Nat,
         NEW at \in Seq(Nat), NEW K, Descends(M, at, K)
  PROVE  /\ CarriedLots(matches, amountOut, gas, at) \in SharesOf(K)
         /\ Qty(CarriedLots(matches, amountOut, gas, at)) = amountOut
         /\ CostOf(CarriedLots(matches, amountOut, gas, at)) = CostOf(matches) + gas
<1> USE DEF Descends
<1> DEFINE n == Len(matches)
           weights == Quantities(matches)
           q == OutShares(amountOut, weights)
           g == Split(gas, weights)
           lots == CarriedLots(matches, amountOut, gas, at)
<1>1. /\ weights \in Seq(Nat) /\ Costs(matches) \in Seq(Nat)
      /\ Len(weights) = n /\ Len(Costs(matches)) = n
      /\ DOMAIN matches = 1..n /\ n \in Nat
      /\ \A i \in 1..n : matches[i] \in Lot /\ <<matches[i].root, matches[i].id>> \in M
  BY MatchesAreMeasured
<1>2. weights # <<>>
  <2>1. n # 0
    BY EmptySeq DEF LotsOf
  <2> HIDE DEF weights
  <2> QED BY <1>1, <2>1
<1>3. lots = [i \in 1..n |-> [qty |-> q[i], cost |-> matches[i].cost + g[i],
                              root |-> matches[i].root, id |-> Append(at, i)]]
  BY <1>1 DEF CarriedLots
<1> HIDE DEF n, weights, q, g, lots
<1>4. q \in Seq(Int) /\ Len(q) = n /\ Total(q) = amountOut
  BY <1>1, <1>2, OutSharesSum DEF q
<1>5. g \in Seq(Nat) /\ Len(g) = n /\ Total(g) = gas
  BY <1>1, <1>2, SplitSums DEF g
<1>6. \A i \in 1..n : /\ matches[i].cost \in Nat /\ matches[i].root \in Nat
                      /\ g[i] \in Nat /\ q[i] \in Int /\ Costs(matches)[i] = matches[i].cost
  <2> SUFFICES ASSUME NEW i \in 1..n
               PROVE  /\ matches[i].cost \in Nat /\ matches[i].root \in Nat
                      /\ g[i] \in Nat /\ q[i] \in Int /\ Costs(matches)[i] = matches[i].cost
    OBVIOUS
  <2>1. matches[i].cost \in Nat /\ matches[i].root \in Nat
    BY <1>1 DEF Lot
  <2>2. g[i] \in Nat
    BY <1>5, ElementOfSeq
  <2>3. q[i] \in Int
    BY <1>4, ElementOfSeq
  <2>4. Costs(matches)[i] = matches[i].cost
    BY <1>1 DEF Costs
  <2> QED BY <2>1, <2>2, <2>3, <2>4
<1>7. \A i \in 1..n : lots[i] \in Share(K) /\ lots[i].qty = q[i] /\ lots[i].cost = matches[i].cost + g[i]
  <2> SUFFICES ASSUME NEW i \in 1..n
               PROVE  lots[i] \in Share(K) /\ lots[i].qty = q[i] /\ lots[i].cost = matches[i].cost + g[i]
    OBVIOUS
  <2> DEFINE cost == matches[i].cost + g[i]
             root == matches[i].root
             id == Append(at, i)
  <2>1. lots[i] = [qty |-> q[i], cost |-> cost, root |-> root, id |-> id]
    BY <1>3
  <2>2. cost \in Nat /\ root \in Nat /\ id \in Seq(Nat) /\ q[i] \in Int
    BY <1>6
  <2>3. <<root, id>> \in K
    <3> DEFINE m == <<matches[i].root, matches[i].id>>
    <3>1. m \in M /\ m[1] = root /\ i \in Nat
      BY <1>1
    <3> HIDE DEF m, root
    <3>2. <<m[1], Append(at, i)>> \in K
      BY <3>1
    <3> QED BY <3>1, <3>2
  <2> HIDE DEF cost, root, id
  <2> DEFINE qty == q[i]
             lot == lots[i]
  <2>4. lot = [qty |-> qty, cost |-> cost, root |-> root, id |-> id] /\ qty \in Int
    BY <2>1, <2>2
  <2> HIDE DEF qty, lot
  <2>5. lot.qty = qty /\ lot.cost = cost /\ lot.root = root /\ lot.id = id
    BY <2>4
  <2>6. lot \in [qty : Int, cost : Nat, root : Nat, id : Seq(Nat)]
    BY <2>2, <2>4
  <2>7. lot \in Share(K)
    BY <2>3, <2>5, <2>6 DEF Share
  <2> QED BY <2>5, <2>7 DEF cost, qty, lot
<1>8. lots \in SharesOf(K) /\ DOMAIN lots = 1..n
  <2>1. lots \in [1..n -> Share(K)]
    BY <1>3, <1>7
  <2>2. n \in Nat
    BY <1>1
  <2>3. lots \in Seq(Share(K))
    BY <2>1, <2>2, SeqDef
  <2> QED BY <1>3, <2>3 DEF SharesOf
<1>9. Quantities(lots) = q
  <2>1. Quantities(lots) = [i \in 1..n |-> q[i]]
    BY <1>7, <1>8 DEF Quantities
  <2>2. q = [i \in 1..n |-> q[i]]
    BY <1>4
  <2> QED BY <2>1, <2>2
<1>10. Total(Costs(lots)) = Total(Costs(matches)) + Total(g)
  <2> DEFINE s == Costs(matches)
             u == Costs(lots)
  <2>1. u = [i \in 1..n |-> lots[i].cost]
    BY <1>8 DEF Costs
  <2>2. \A i \in 1..n : u[i] = s[i] + g[i]
    BY <1>6, <1>7, <2>1
  <2>3. s \in Seq(Int) /\ g \in Seq(Int) /\ Len(g) = Len(s) /\ Len(s) = n
    BY <1>1, <1>5
  <2>4. u \in Seq(Nat)
    BY <1>8, SharesAreMeasured
  <2>5. u \in Seq(Int) /\ DOMAIN u = 1..n
    BY <2>1, <2>4
  <2> HIDE DEF s, u
  <2>6. Len(u) = n
    BY <1>1, <2>5
  <2>7. Len(g) = Len(s) /\ Len(u) = Len(s) /\ \A i \in 1..Len(s) : u[i] = s[i] + g[i]
    BY <2>2, <2>3, <2>6
  <2>8. s \in Seq(Int) /\ g \in Seq(Int) /\ u \in Seq(Int)
    BY <2>3, <2>5
  <2>9. Total(u) = Total(s) + Total(g)
    BY <2>7, <2>8, TotalAdds
  <2> QED BY <2>9 DEF s, u
<1> QED BY <1>4, <1>5, <1>8, <1>9, <1>10 DEF Qty, CostOf, lots

LEMMA GasIsNatural ==
  ASSUME NEW fee \in Nat, NEW S, NEW items \in Seq(S)
  PROVE  GasShares(fee, items) \in Seq(Nat) /\ Len(GasShares(fee, items)) = Len(items)
<1> DEFINE weights == [i \in DOMAIN items |-> IF IsTrade(items[i]) THEN 1 ELSE 0]
<1>1. weights \in [1..Len(items) -> Nat] /\ Len(items) \in Nat
  OBVIOUS
<1>2. weights \in Seq(Nat)
  <2> HIDE DEF weights
  <2> QED BY <1>1, SeqDef
<1>3. Len(weights) = Len(items)
  <2> HIDE DEF weights
  <2> QED BY <1>1, <1>2
<1>4. GasShares(fee, items) = Split(fee, weights)
  BY DEF GasShares
<1> HIDE DEF weights
<1> QED BY <1>2, <1>3, <1>4, SplitSums

(* ------------------------------- the books ------------------------------- *)

Flow == [in : Nat, out : Nat, gap : Nat]
Net(flow) == flow.in - flow.out + flow.gap
SumOfHeld(p) == SumFunction([key \in Keys |-> Held(p[key])])
BookOf(K, n) ==
  [positions : [Keys -> Holding(K, n)], trail : Seq(AuditRow), flows : [Keys -> Flow],
   paid : Nat, relieved : Nat, dropped : BOOLEAN]

(* The books between two steps of an item, when a cost is carried from one position
   to another. *)
Balanced(K, n, carried, b) ==
  /\ b \in BookOf(K, n)
  /\ \A i \in DOMAIN b.trail : Proven(b.trail[i])
  /\ \A key \in Keys : b.positions[key].realized = Total(Profits(b.trail, key))
  /\ ~b.dropped =>
       /\ \A key \in Keys : Amount(b.positions[key]) = Net(b.flows[key])
       /\ b.paid - b.relieved = SumOfHeld(b.positions) + carried

LEMMA SumChanges ==
  ASSUME NEW S, IsFiniteSet(S), NEW f, NEW g, NEW x \in S,
         \A y \in S : f[y] \in Int /\ g[y] \in Int /\ (y # x => g[y] = f[y])
  PROVE  /\ SumFunctionOnSet(f, S) \in Int /\ SumFunctionOnSet(g, S) \in Int
         /\ SumFunctionOnSet(g, S) = SumFunctionOnSet(f, S) - f[x] + g[x]
<1> DEFINE R == S \ {x}
<1>1. /\ SumFunctionOnSet(f, S) \in Int /\ SumFunctionOnSet(g, S) \in Int
      /\ SumFunctionOnSet(f, S) = f[x] + SumFunctionOnSet(f, R)
      /\ SumFunctionOnSet(g, S) = g[x] + SumFunctionOnSet(g, R)
  <2>1. /\ \A y \in S : f[y] \in Int
        /\ \A y \in S : g[y] \in Int
    OBVIOUS
  <2>2. /\ SumFunctionOnSet(f, S) \in Int
        /\ \A y \in S : SumFunctionOnSet(f, S) = f[y] + SumFunctionOnSet(f, S \ {y})
    BY <2>1, SumRemoves
  <2>3. /\ SumFunctionOnSet(g, S) \in Int
        /\ \A y \in S : SumFunctionOnSet(g, S) = g[y] + SumFunctionOnSet(g, S \ {y})
    BY <2>1, SumRemoves
  <2> QED BY <2>2, <2>3
<1>2. IsFiniteSet(R) /\ \A y \in R : f[y] \in Int /\ g[y] \in Int /\ g[y] = f[y]
  <2>1. IsFiniteSet(R)
    BY FS_RemoveElement
  <2> QED BY <2>1
<1> HIDE DEF R
<1>3. SumFunctionOnSet(f, R) = SumFunctionOnSet(g, R)
  BY <1>2, SumSame
<1>4. SumFunctionOnSet(f, R) \in Int
  BY <1>2, SumRemoves
<1> QED BY <1>1, <1>3, <1>4

LEMMA KeysFinite == IsFiniteSet(Keys)
  BY LedgerAssumption, FS_Product DEF LedgerAssumption, Keys

LEMMA AmountsOf ==
  ASSUME NEW K, NEW n, NEW p \in Holding(K, n)
  PROVE  Amount(p) \in Nat /\ Held(p) \in Nat
<1>1. p.ext \in Nat /\ p.extCost \in Nat /\ p.qty \in Nat /\ p.cost \in Nat
      /\ p.dustCost \in Nat /\ p.dustQty \in Nat
  BY HoldingFields
<1>2. \A a, b, c \in Nat : a + b + c \in Nat
  OBVIOUS
<1>3. p.ext + p.qty + p.dustQty \in Nat
  BY <1>1, <1>2
<1>4. p.extCost + p.cost + p.dustCost \in Nat
  BY <1>1, <1>2
<1> QED BY <1>3, <1>4 DEF Amount, Held

(* The sum over all positions changes by what one of them does. *)
LEMMA HeldChanges ==
  ASSUME NEW K, NEW n, NEW p \in [Keys -> Holding(K, n)], NEW r \in [Keys -> Holding(K, n)],
         NEW key \in Keys, \A k \in Keys : k # key => r[k] = p[k]
  PROVE  /\ SumOfHeld(p) \in Int
         /\ SumOfHeld(r) = SumOfHeld(p) - Held(p[key]) + Held(r[key])
<1> DEFINE f == [k \in Keys |-> Held(p[k])]
           g == [k \in Keys |-> Held(r[k])]
<1>1. \A k \in Keys : (k # key => r[k] = p[k]) /\ r[k] \in Holding(K, n) /\ p[k] \in Holding(K, n)
  OBVIOUS
<1>2. \A k \in Keys : f[k] = Held(p[k]) /\ g[k] = Held(r[k])
  OBVIOUS
<1>3. SumOfHeld(p) = SumFunctionOnSet(f, Keys) /\ SumOfHeld(r) = SumFunctionOnSet(g, Keys)
  <2>1. DOMAIN f = Keys /\ DOMAIN g = Keys
    OBVIOUS
  <2>2. SumOfHeld(p) = SumFunction(f) /\ SumOfHeld(r) = SumFunction(g)
    BY DEF SumOfHeld
  <2> HIDE DEF f, g
  <2> QED BY <2>1, <2>2 DEF SumFunction
<1> HIDE DEF f, g
<1>4. \A k \in Keys : f[k] \in Int /\ g[k] \in Int /\ (k # key => g[k] = f[k])
  <2>1. \A k \in Keys : Held(p[k]) \in Nat /\ Held(r[k]) \in Nat
    BY <1>1, AmountsOf
  <2> QED BY <1>1, <1>2, <2>1
<1>5. /\ SumFunctionOnSet(f, Keys) \in Int
      /\ SumFunctionOnSet(g, Keys) = SumFunctionOnSet(f, Keys) - f[key] + g[key]
  BY <1>4, KeysFinite, SumChanges
<1> QED BY <1>2, <1>3, <1>5

LEMMA BookFields ==
  ASSUME NEW K, NEW n, NEW c, NEW b, Balanced(K, n, c, b)
  PROVE  /\ b.positions \in [Keys -> Holding(K, n)] /\ b.trail \in Seq(AuditRow)
         /\ b.flows \in [Keys -> Flow] /\ b.paid \in Nat /\ b.relieved \in Nat
         /\ b.dropped \in BOOLEAN /\ b \in BookOf(K, n)
  BY DEF Balanced, BookOf

LEMMA NetIsInt == ASSUME NEW flow \in Flow PROVE Net(flow) \in Int
<1>1. flow.in \in Nat /\ flow.out \in Nat /\ flow.gap \in Nat
  BY DEF Flow
<1> QED BY <1>1 DEF Net

(* A step at one position. *)
Posted(K, n, b, key, p, flow, D, r) ==
  /\ r \in BookOf(K, n)
  /\ r.positions = [b.positions EXCEPT ![key] = p]
  /\ r.flows = [b.flows EXCEPT ![key] = flow]
  /\ r.trail = b.trail /\ r.paid = b.paid /\ r.relieved = b.relieved
  /\ r.dropped = D

Written(b, P, F, D) == [b EXCEPT !.positions = P, !.flows = F, !.dropped = D]

LEMMA PostedIs ==
  ASSUME NEW K, NEW n, NEW b \in BookOf(K, n), NEW key \in Keys, NEW p \in Holding(K, n),
         NEW flow \in Flow, NEW D, D \in BOOLEAN, NEW P, NEW F,
         P = [b.positions EXCEPT ![key] = p], F = [b.flows EXCEPT ![key] = flow]
  PROVE  Posted(K, n, b, key, p, flow, D, Written(b, P, F, D))
<1> DEFINE r == Written(b, P, F, D)
<1>1. /\ b.positions \in [Keys -> Holding(K, n)] /\ b.flows \in [Keys -> Flow]
      /\ b.dropped \in BOOLEAN
  BY DEF BookOf
<1>2. P \in [Keys -> Holding(K, n)] /\ F \in [Keys -> Flow] /\ D \in BOOLEAN
  BY <1>1
<1>3. /\ r.positions = P /\ r.flows = F /\ r.dropped = D
      /\ r.trail = b.trail /\ r.paid = b.paid /\ r.relieved = b.relieved
  BY DEF BookOf, Written
<1>4. r \in BookOf(K, n)
  BY <1>2 DEF BookOf, Written
<1> HIDE DEF r
<1>5. Posted(K, n, b, key, p, flow, D, r)
  BY <1>3, <1>4 DEF Posted
<1> QED BY <1>5 DEF r

(* Its flow explains its amount, and what it holds less is carried. *)
LEMMA Posting ==
  ASSUME NEW K, NEW n, NEW c \in Int, NEW b, Balanced(K, n, c, b), NEW key \in Keys,
         NEW p \in Holding(K, n), NEW flow \in Flow, NEW D \in BOOLEAN, NEW d \in Int, NEW r,
         Posted(K, n, b, key, p, flow, D, r),
         p.realized = b.positions[key].realized,
         ~D => /\ ~b.dropped
               /\ Amount(p) - Net(flow) = Amount(b.positions[key]) - Net(b.flows[key])
               /\ d = c + Held(b.positions[key]) - Held(p)
  PROVE  Balanced(K, n, d, r)
<1> DEFINE old == b.positions[key]
<1>1. /\ b.positions \in [Keys -> Holding(K, n)] /\ b.trail \in Seq(AuditRow)
      /\ b.flows \in [Keys -> Flow] /\ b.paid \in Nat /\ b.relieved \in Nat
      /\ b.dropped \in BOOLEAN /\ b \in BookOf(K, n)
  BY BookFields
<1>2. /\ r.positions = [b.positions EXCEPT ![key] = p]
      /\ r.flows = [b.flows EXCEPT ![key] = flow]
      /\ r.trail = b.trail /\ r.paid = b.paid /\ r.relieved = b.relieved
      /\ r.dropped = D
  BY DEF Posted
<1>3. r \in BookOf(K, n)
  BY DEF Posted
<1>4. \A k \in Keys : /\ r.positions[k] = IF k = key THEN p ELSE b.positions[k]
                      /\ r.flows[k] = IF k = key THEN flow ELSE b.flows[k]
  BY <1>1, <1>2
<1>5. \A k \in Keys : r.positions[k].realized = Total(Profits(r.trail, k))
  <2>1. \A k \in Keys : b.positions[k].realized = Total(Profits(b.trail, k))
    BY DEF Balanced
  <2> QED BY <1>2, <1>4, <2>1
<1>6. ASSUME ~r.dropped
      PROVE  /\ \A k \in Keys : Amount(r.positions[k]) = Net(r.flows[k])
             /\ r.paid - r.relieved = SumOfHeld(r.positions) + d
  <2>1. ~b.dropped /\ ~D
    BY <1>1, <1>2, <1>6
  <2>2. /\ Amount(p) - Net(flow) = Amount(old) - Net(b.flows[key])
        /\ d = c + Held(old) - Held(p)
    BY <2>1
  <2>3. /\ \A k \in Keys : Amount(b.positions[k]) = Net(b.flows[k])
        /\ b.paid - b.relieved = SumOfHeld(b.positions) + c
    BY <2>1 DEF Balanced
  <2>4. old \in Holding(K, n) /\ b.flows[key] \in Flow
    BY <1>1
  <2>5. Amount(p) \in Nat /\ Amount(old) \in Nat /\ Held(p) \in Nat /\ Held(old) \in Nat
    BY <2>4, AmountsOf
  <2>6. Net(flow) \in Int /\ Net(b.flows[key]) \in Int
    BY <2>4, NetIsInt
  <2>7. Amount(p) = Net(flow)
    <3>1. Amount(old) = Net(b.flows[key])
      BY <2>3
    <3> HIDE DEF old
    <3> QED BY <2>2, <2>5, <2>6, <3>1
  <2>8. \A k \in Keys : Amount(r.positions[k]) = Net(r.flows[k])
    BY <1>4, <2>3, <2>7
  <2>9. /\ SumOfHeld(b.positions) \in Int
        /\ SumOfHeld(r.positions) = SumOfHeld(b.positions) - Held(old) + Held(p)
    <3> DEFINE before == b.positions
               after == r.positions
    <3>1. /\ before \in [Keys -> Holding(K, n)] /\ after \in [Keys -> Holding(K, n)]
          /\ after[key] = p /\ \A k \in Keys : k # key => after[k] = before[k]
      BY <1>1, <1>2
    <3> HIDE DEF before, after
    <3>2. /\ SumOfHeld(before) \in Int
          /\ SumOfHeld(after) = SumOfHeld(before) - Held(before[key]) + Held(after[key])
      BY <3>1, HeldChanges
    <3> QED BY <3>1, <3>2 DEF before, after
  <2>10. SumOfHeld(r.positions) = SumOfHeld(b.positions) - Held(old) + Held(p)
    BY <2>9
  <2>11. r.paid - r.relieved = SumOfHeld(b.positions) + c
    BY <1>2, <2>3
  <2> HIDE DEF old
  <2>12. SumOfHeld(b.positions) + c = (SumOfHeld(b.positions) - Held(old) + Held(p)) + (c + Held(old) - Held(p))
    BY <2>5, <2>9
  <2> QED BY <2>2, <2>8, <2>10, <2>11, <2>12
<1>7. \A i \in DOMAIN r.trail : Proven(r.trail[i])
  BY <1>2 DEF Balanced
<1> QED BY <1>3, <1>5, <1>6, <1>7 DEF Balanced

(* A transaction's operations on the books. *)
LEMMA SeenKeeps ==
  ASSUME NEW K, NEW n \in Nat, NEW p \in Holding(K, n), NEW number \in 0..n
  PROVE  /\ Seen(p, number) \in Holding(K, n) /\ Seen(p, number).first \in 0..n
         /\ Seen(p, number).realized = p.realized
         /\ Amount(Seen(p, number)) = Amount(p) /\ Held(Seen(p, number)) = Held(p)
<1> DEFINE m == IF p.first = None THEN number ELSE p.first
           q == [p EXCEPT !.first = m]
<1>1. /\ p.ext \in Nat /\ p.extCost \in Nat /\ p.lots \in LotsOf(K) /\ p.qty \in Nat
      /\ p.cost \in Nat /\ p.realized \in Int /\ p.dustCost \in Nat /\ p.dustQty \in Nat
      /\ p.first \in {None} \cup 0..n /\ p.qty = Qty(p.lots) /\ p.cost = CostOf(p.lots)
      /\ p \in [ext : Nat, extCost : Nat, lots : LotsOf(K), qty : Nat, cost : Nat,
                realized : Int, dustCost : Nat, dustQty : Nat, first : {None} \cup 0..n]
  BY HoldingFields
<1>2. m \in 0..n
  BY <1>1
<1>3. Seen(p, number) = q
  BY DEF Seen
<1> HIDE DEF m
<1>4. /\ q.ext = p.ext /\ q.extCost = p.extCost /\ q.lots = p.lots /\ q.qty = p.qty
      /\ q.cost = p.cost /\ q.realized = p.realized /\ q.dustCost = p.dustCost
      /\ q.dustQty = p.dustQty /\ q.first = m
      /\ q \in [ext : Nat, extCost : Nat, lots : LotsOf(K), qty : Nat, cost : Nat,
                realized : Int, dustCost : Nat, dustQty : Nat, first : {None} \cup 0..n]
  BY <1>1, <1>2
<1> HIDE DEF q
<1>5. q \in Holding(K, n)
  BY <1>1, <1>4 DEF Holding
<1>6. Amount(q) = Amount(p) /\ Held(q) = Held(p)
  BY <1>4 DEF Amount, Held
<1> QED BY <1>2, <1>3, <1>4, <1>5, <1>6

LEMMA Touches ==
  ASSUME NEW K, NEW n \in Nat, NEW c \in Int, NEW b, Balanced(K, n, c, b), NEW key \in Keys,
         NEW at, at[1] \in 0..n
  PROVE  /\ Balanced(K, n, c, Touched(b, key, at))
         /\ Touched(b, key, at).positions[key].first \in 0..n
         /\ \A k \in Keys : b.positions[k].first \in 0..n
                              => Touched(b, key, at).positions[k].first \in 0..n
<1> DEFINE old == b.positions[key]
           number == at[1]
           p == Seen(old, number)
           flow == b.flows[key]
           r == Touched(b, key, at)
<1>1. /\ b.positions \in [Keys -> Holding(K, n)] /\ b.trail \in Seq(AuditRow)
      /\ b.flows \in [Keys -> Flow] /\ b.paid \in Nat /\ b.relieved \in Nat
      /\ b.dropped \in BOOLEAN /\ b \in BookOf(K, n)
  BY BookFields
<1>2. number \in 0..n /\ old \in Holding(K, n) /\ flow \in Flow
  BY <1>1
<1>3. r = [b EXCEPT !.positions = [b.positions EXCEPT ![key] = p]]
  BY <1>1 DEF Touched, BookOf
<1> HIDE DEF old, number, r, flow
<1>4. /\ p \in Holding(K, n) /\ p.first \in 0..n /\ p.realized = old.realized
      /\ Amount(p) = Amount(old) /\ Held(p) = Held(old)
  BY <1>2, SeenKeeps
<1> HIDE DEF p
<1>5. Posted(K, n, b, key, p, flow, b.dropped, r)
  <2> DEFINE P == [b.positions EXCEPT ![key] = p]
             F == b.flows
             D == b.dropped
  <2>1. F = [b.flows EXCEPT ![key] = flow] /\ D \in BOOLEAN
    BY <1>1 DEF flow
  <2>2. P = [b.positions EXCEPT ![key] = p]
    OBVIOUS
  <2>3. r = Written(b, P, F, D)
    BY <1>1, <1>3 DEF BookOf, Written
  <2> HIDE DEF P, F, D
  <2>4. Posted(K, n, b, key, p, flow, D, Written(b, P, F, D))
    BY <1>1, <1>2, <1>4, <2>1, <2>2, PostedIs
  <2> QED BY <2>3, <2>4 DEF D
<1>7. Balanced(K, n, c, r)
  <2>2. p.realized = b.positions[key].realized
    BY <1>4 DEF old
  <2>3. Amount(p) - Net(flow) = Amount(b.positions[key]) - Net(b.flows[key])
    BY <1>4 DEF old, flow
  <2>4. c = c + Held(b.positions[key]) - Held(p)
    <3>1. Held(p) = Held(b.positions[key]) /\ Held(p) \in Nat
      BY <1>4, AmountsOf DEF old
    <3> QED BY <3>1
  <2> QED BY <1>1, <1>2, <1>4, <1>5, <2>2, <2>3, <2>4, Posting
<1>8. r.positions[key] = p /\ \A k \in Keys : k # key => r.positions[k] = b.positions[k]
  BY <1>1, <1>5 DEF Posted
<1>9. \A k \in Keys : b.positions[k].first \in 0..n => r.positions[k].first \in 0..n
  BY <1>4, <1>8
<1> QED BY <1>4, <1>7, <1>8, <1>9 DEF r

LEMMA FlowsAdd ==
  ASSUME NEW flow \in Flow, NEW amount \in Nat, NEW gap \in Nat
  PROVE  /\ WentOut(flow, amount, gap) \in Flow
         /\ Net(WentOut(flow, amount, gap)) = Net(flow) - amount + gap
         /\ CameIn(flow, amount) \in Flow
         /\ Net(CameIn(flow, amount)) = Net(flow) + amount
<1>1. flow.in \in Nat /\ flow.out \in Nat /\ flow.gap \in Nat
  BY DEF Flow
<1> DEFINE r == WentOut(flow, amount, gap)
           s == CameIn(flow, amount)
<1>2. /\ r \in Flow /\ r.in = flow.in /\ r.out = flow.out + amount
      /\ r.gap = flow.gap + gap
  <2> DEFINE o == flow.out + amount
             g == flow.gap + gap
             f == [flow EXCEPT !.out = o]
  <2>1. r = [f EXCEPT !.gap = g]
    BY DEF WentOut
  <2>2. o \in Nat /\ g \in Nat
    BY <1>1
  <2> HIDE DEF o, g, r
  <2>3. f \in Flow /\ f.in = flow.in /\ f.out = o
    BY <2>2 DEF Flow
  <2> HIDE DEF f
  <2>4. r \in Flow /\ r.in = f.in /\ r.out = f.out /\ r.gap = g
    BY <2>1, <2>2, <2>3 DEF Flow
  <2> QED BY <2>3, <2>4 DEF o, g
<1>3. /\ s \in Flow /\ s.in = flow.in + amount /\ s.out = flow.out
      /\ s.gap = flow.gap
  BY <1>1 DEF Flow, CameIn
<1> HIDE DEF r, s
<1>4. Net(r) = Net(flow) - amount + gap
  BY <1>1, <1>2 DEF Net
<1>5. Net(s) = Net(flow) + amount
  BY <1>1, <1>3 DEF Net
<1> QED BY <1>2, <1>3, <1>4, <1>5 DEF r, s

LEMMA Receives ==
  ASSUME NEW K, NEW n, NEW p \in Holding(K, n), NEW amount \in Nat, NEW cost \in Nat
  PROVE  /\ Received(p, amount, cost) \in Holding(K, n)
         /\ Received(p, amount, cost).realized = p.realized
         /\ Received(p, amount, cost).first = p.first
         /\ Amount(Received(p, amount, cost)) = Amount(p) + amount
         /\ Held(Received(p, amount, cost)) = Held(p) + cost
<1> DEFINE e == p.ext + amount
           x == p.extCost + cost
           q == WithExternal(p, e, x)
<1>1. p.ext \in Nat /\ p.extCost \in Nat /\ e \in Nat /\ x \in Nat
  BY DEF Holding
<1>2. p.qty \in Nat /\ p.cost \in Nat /\ p.dustQty \in Nat /\ p.dustCost \in Nat
  BY DEF Holding
<1>3. e = p.ext + amount /\ x = p.extCost + cost
  OBVIOUS
<1>4. q = Received(p, amount, cost)
  BY DEF Received, WithExternal
<1> HIDE DEF e, x
<1>0. e \in Nat /\ x \in Nat
  BY <1>1
<1>5. /\ q \in Holding(K, n) /\ q.realized = p.realized /\ q.ext = e /\ q.extCost = x
      /\ q.qty = p.qty /\ q.cost = p.cost /\ q.dustQty = p.dustQty
      /\ q.dustCost = p.dustCost /\ q.first = p.first
  BY <1>0, ExternalChanges
<1> HIDE DEF q
<1>6. Amount(q) = Amount(p) + amount
  BY <1>1, <1>2, <1>3, <1>5 DEF Amount
<1>7. Held(q) = Held(p) + cost
  BY <1>1, <1>2, <1>3, <1>5 DEF Held
<1> QED BY <1>4, <1>5, <1>6, <1>7

LEMMA Withdraws ==
  ASSUME NEW K, NEW M, NEW n \in Nat, NEW c \in Int, NEW b, Balanced(K, n, c, b), NEW key \in Keys,
         NEW amount \in Nat, NEW used, Consumes(K, M, n, b.positions[key], amount, used)
  PROVE  /\ Balanced(K, n, c + used.cost, Withdrawn(b, key, used, amount))
         /\ \A k \in Keys : Withdrawn(b, key, used, amount).positions[k].first = b.positions[k].first
<1> DEFINE old == b.positions[key]
           was == b.flows[key]
           p == used.position
           gap == used.gap
           flow == WentOut(was, amount, gap)
           r == Withdrawn(b, key, used, amount)
<1>1. /\ b.positions \in [Keys -> Holding(K, n)] /\ b.trail \in Seq(AuditRow)
      /\ b.flows \in [Keys -> Flow] /\ b.paid \in Nat /\ b.relieved \in Nat
      /\ b.dropped \in BOOLEAN /\ b \in BookOf(K, n)
  BY BookFields
<1>2. old \in Holding(K, n) /\ was \in Flow
  BY <1>1
<1>3. r = [b EXCEPT !.positions = [b.positions EXCEPT ![key] = p],
                    !.flows = [b.flows EXCEPT ![key] = flow]]
  <2>1. r = [b EXCEPT !.positions[key] = p, !.flows[key] = flow]
    BY <1>1 DEF Withdrawn, BookOf
  <2> HIDE DEF p, flow, r
  <2> QED BY <1>1, <2>1 DEF BookOf
<1>4. /\ p \in Holding(K, n) /\ p.realized = old.realized /\ p.first = old.first
      /\ used.cost \in Nat /\ gap \in Nat /\ Held(p) + used.cost = Held(old)
      /\ Amount(p) + amount = Amount(old) + gap
  BY DEF Consumes
<1>5. flow \in Flow /\ Net(flow) = Net(was) - amount + gap
  <2> HIDE DEF was, gap
  <2> QED BY <1>2, <1>4, FlowsAdd
<1> HIDE DEF flow, r, gap
<1>6. Posted(K, n, b, key, p, flow, b.dropped, r)
  <2> DEFINE P == [b.positions EXCEPT ![key] = p]
             F == [b.flows EXCEPT ![key] = flow]
             D == b.dropped
  <2>1. D \in BOOLEAN
    BY <1>1 
  <2>2. P = [b.positions EXCEPT ![key] = p] /\ F = [b.flows EXCEPT ![key] = flow]
    OBVIOUS
  <2>3. r = Written(b, P, F, D)
    BY <1>1, <1>3 DEF BookOf, Written
  <2> HIDE DEF P, F, D
  <2>4. Posted(K, n, b, key, p, flow, D, Written(b, P, F, D))
    BY <1>1, <1>4, <1>5, <2>1, <2>2, PostedIs
  <2> QED BY <2>3, <2>4 DEF D
<1>7. Balanced(K, n, c + used.cost, r)
  <2>1. Amount(p) \in Nat /\ Amount(old) \in Nat /\ Held(p) \in Nat /\ Held(old) \in Nat
    BY <1>2, <1>4, AmountsOf
  <2>2. Net(was) \in Int
    BY <1>2, NetIsInt
  <2> HIDE DEF old, was, p
  <2>3. Amount(p) - Net(flow) = Amount(old) - Net(was)
    BY <1>4, <1>5, <2>1, <2>2
  <2>4. c + used.cost \in Int /\ c + used.cost = c + Held(old) - Held(p)
    BY <1>4, <2>1
  <2>5. /\ p.realized = b.positions[key].realized
        /\ Amount(p) - Net(flow) = Amount(b.positions[key]) - Net(b.flows[key])
        /\ c + used.cost = c + Held(b.positions[key]) - Held(p)
    BY <1>4, <2>3, <2>4 DEF old, was
  <2> QED BY <1>1, <1>4, <1>5, <1>6, <2>4, <2>5, Posting
<1>8. \A k \in Keys : r.positions[k].first = b.positions[k].first
  <2>1. r.positions = [b.positions EXCEPT ![key] = p]
    BY <1>6 DEF Posted
  <2> QED BY <1>1, <1>4, <2>1
<1> QED BY <1>7, <1>8 DEF r

LEMMA Deposits ==
  ASSUME NEW K, NEW n \in Nat, NEW c \in Int, NEW b, Balanced(K, n, c, b), NEW key \in Keys,
         NEW amount \in Nat, NEW cost \in Nat
  PROVE  Balanced(K, n, c - cost, Deposited(b, key, amount, cost))
<1> DEFINE old == b.positions[key]
           was == b.flows[key]
           p == Received(old, amount, cost)
           flow == CameIn(was, amount)
           r == Deposited(b, key, amount, cost)
<1>1. /\ b.positions \in [Keys -> Holding(K, n)] /\ b.trail \in Seq(AuditRow)
      /\ b.flows \in [Keys -> Flow] /\ b.paid \in Nat /\ b.relieved \in Nat
      /\ b.dropped \in BOOLEAN /\ b \in BookOf(K, n)
  BY BookFields
<1>2. old \in Holding(K, n) /\ was \in Flow
  BY <1>1
<1>3. r = [b EXCEPT !.positions = [b.positions EXCEPT ![key] = p],
                    !.flows = [b.flows EXCEPT ![key] = flow]]
  <2>1. r = [b EXCEPT !.positions[key] = p, !.flows[key] = flow]
    BY <1>1 DEF Deposited, BookOf
  <2> HIDE DEF p, flow, r
  <2> QED BY <1>1, <2>1 DEF BookOf
<1>4. /\ p \in Holding(K, n) /\ p.realized = old.realized
      /\ Amount(p) = Amount(old) + amount /\ Held(p) = Held(old) + cost
  <2> HIDE DEF old
  <2> QED BY <1>2, Receives
<1>5. flow \in Flow /\ Net(flow) = Net(was) + amount
  <2> HIDE DEF was
  <2> QED BY <1>2, FlowsAdd
<1> HIDE DEF flow, r, p
<1>6. Posted(K, n, b, key, p, flow, b.dropped, r)
  <2> DEFINE P == [b.positions EXCEPT ![key] = p]
             F == [b.flows EXCEPT ![key] = flow]
             D == b.dropped
  <2>1. D \in BOOLEAN
    BY <1>1 
  <2>2. P = [b.positions EXCEPT ![key] = p] /\ F = [b.flows EXCEPT ![key] = flow]
    OBVIOUS
  <2>3. r = Written(b, P, F, D)
    BY <1>1, <1>3 DEF BookOf, Written
  <2> HIDE DEF P, F, D
  <2>4. Posted(K, n, b, key, p, flow, D, Written(b, P, F, D))
    BY <1>1, <1>4, <1>5, <2>1, <2>2, PostedIs
  <2> QED BY <2>3, <2>4 DEF D
<1>7. Balanced(K, n, c - cost, r)
  <2>1. Amount(p) \in Nat /\ Amount(old) \in Nat /\ Held(p) \in Nat /\ Held(old) \in Nat
    BY <1>2, <1>4, AmountsOf
  <2>2. Net(was) \in Int
    BY <1>2, NetIsInt
  <2> HIDE DEF old, was
  <2>3. Amount(p) - Net(flow) = Amount(old) - Net(was)
    BY <1>4, <1>5, <2>1, <2>2
  <2>4. c - cost \in Int /\ c - cost = c + Held(old) - Held(p)
    BY <1>4, <2>1
  <2>5. /\ p.realized = b.positions[key].realized
        /\ Amount(p) - Net(flow) = Amount(b.positions[key]) - Net(b.flows[key])
        /\ c - cost = c + Held(b.positions[key]) - Held(p)
    BY <1>4, <2>3, <2>4 DEF old, was
  <2> QED BY <1>1, <1>4, <1>5, <1>6, <2>4, <2>5, Posting
<1> QED BY <1>7 DEF r

LEMMA Buys ==
  ASSUME NEW K, NEW n \in Nat, NEW c \in Int, NEW b, Balanced(K, n, c, b), NEW key \in Keys,
         NEW lots \in SharesOf(K), NEW amount \in Nat, Qty(lots) = amount, CostOf(lots) \in Nat
  PROVE  Balanced(K, n, c - CostOf(lots), Bought(b, key, amount, lots))
<1> DEFINE old == b.positions[key]
           was == b.flows[key]
           p == AllAdded(old, lots)
           flow == CameIn(was, amount)
           none == \E i \in DOMAIN lots : lots[i].qty <= 0
           cost == CostOf(lots)
           r == Bought(b, key, amount, lots)
<1>1. /\ b.positions \in [Keys -> Holding(K, n)] /\ b.trail \in Seq(AuditRow)
      /\ b.flows \in [Keys -> Flow] /\ b.paid \in Nat /\ b.relieved \in Nat
      /\ b.dropped \in BOOLEAN /\ b \in BookOf(K, n)
  BY BookFields
<1>2. old \in Holding(K, n) /\ was \in Flow
  BY <1>1
<1>0. PICK drop \in BOOLEAN : drop = none
  OBVIOUS
<1>3. r = [b EXCEPT !.positions = [b.positions EXCEPT ![key] = p],
                    !.flows = [b.flows EXCEPT ![key] = flow], !.dropped = b.dropped \/ drop]
  <2>1. r = [b EXCEPT !.positions[key] = p, !.flows[key] = flow, !.dropped = @ \/ drop]
    BY <1>0, <1>1 DEF Bought, BookOf, AllAdded
  <2> HIDE DEF p, flow, r, none
  <2> QED BY <1>1, <2>1 DEF BookOf
<1>4. /\ p \in Holding(K, n) /\ p.realized = old.realized
      /\ drop \in BOOLEAN
      /\ ~drop => Amount(p) = Amount(old) + amount /\ Held(p) = Held(old) + cost
  <2> HIDE DEF old
  <2>1. /\ p \in Holding(K, n) /\ p.realized = old.realized
        /\ (\A i \in DOMAIN lots : lots[i].qty > 0) =>
             Amount(p) = Amount(old) + Qty(lots) /\ Held(p) = Held(old) + CostOf(lots)
    BY <1>2, BoughtAdds
  <2> HIDE DEF p
  <2>2. ASSUME ~drop PROVE \A i \in DOMAIN lots : lots[i].qty > 0
    <3> SUFFICES ASSUME NEW i \in DOMAIN lots PROVE lots[i].qty > 0
      OBVIOUS
    <3>1. lots[i] \in Share(K)
      BY DEF SharesOf
    <3>2. lots[i].qty \in Int
      BY <3>1 DEF Share
    <3> QED BY <1>0, <2>2, <3>2
  <2> HIDE DEF none
  <2> QED BY <2>1, <2>2
<1>5. flow \in Flow /\ Net(flow) = Net(was) + amount
  <2> HIDE DEF was
  <2> QED BY <1>2, FlowsAdd
<1> HIDE DEF flow, r, p, none
<1>6. Posted(K, n, b, key, p, flow, (b.dropped \/ drop), r)
  <2> DEFINE P == [b.positions EXCEPT ![key] = p]
             F == [b.flows EXCEPT ![key] = flow]
             D == (b.dropped \/ drop)
  <2>1. D \in BOOLEAN
    BY <1>1 
  <2>2. P = [b.positions EXCEPT ![key] = p] /\ F = [b.flows EXCEPT ![key] = flow]
    OBVIOUS
  <2>3. r = Written(b, P, F, D)
    BY <1>1, <1>3 DEF BookOf, Written
  <2> HIDE DEF P, F, D
  <2>4. Posted(K, n, b, key, p, flow, D, Written(b, P, F, D))
    BY <1>1, <1>4, <1>5, <2>1, <2>2, PostedIs
  <2> QED BY <2>3, <2>4 DEF D
<1>7. Balanced(K, n, c - cost, r)
  <2>1. Amount(p) \in Nat /\ Amount(old) \in Nat /\ Held(p) \in Nat /\ Held(old) \in Nat
    BY <1>2, <1>4, AmountsOf
  <2>2. Net(was) \in Int
    BY <1>2, NetIsInt
  <2> HIDE DEF old, was, cost
  <2>3. ~drop => Amount(p) - Net(flow) = Amount(old) - Net(was)
    BY <1>4, <1>5, <2>1, <2>2
  <2>4. cost \in Nat
    BY DEF cost
  <2>5. c - cost \in Int /\ (~drop => c - cost = c + Held(old) - Held(p))
    BY <1>4, <2>1, <2>4
  <2>6. /\ p.realized = b.positions[key].realized
        /\ ~(b.dropped \/ drop) =>
             /\ ~b.dropped
             /\ Amount(p) - Net(flow) = Amount(b.positions[key]) - Net(b.flows[key])
             /\ c - cost = c + Held(b.positions[key]) - Held(p)
    BY <1>4, <2>3, <2>5 DEF old, was
  <2> DEFINE D == (b.dropped \/ drop)
  <2>7. D \in BOOLEAN /\ Posted(K, n, b, key, p, flow, D, r)
    BY <1>1, <1>6
  <2>8. ~D => /\ ~b.dropped
              /\ Amount(p) - Net(flow) = Amount(b.positions[key]) - Net(b.flows[key])
              /\ c - cost = c + Held(b.positions[key]) - Held(p)
    BY <2>6
  <2> HIDE DEF D
  <2> QED BY <1>4, <1>5, <2>5, <2>6, <2>7, <2>8, Posting
<1> QED BY <1>7 DEF r

LEMMA HoldingMore ==
  ASSUME NEW K, NEW M, K \subseteq M, NEW n \in Nat, NEW m \in Nat, n <= m
  PROVE  Holding(K, n) \subseteq Holding(M, m)
<1> SUFFICES ASSUME NEW p \in Holding(K, n) PROVE p \in Holding(M, m)
  OBVIOUS
<1>1. LotsOf(K) \subseteq LotsOf(M)
  BY LotsOfMore
<1>2. {None} \cup 0..n \subseteq {None} \cup 0..m
  OBVIOUS
<1> DEFINE F == {None} \cup 0..n
           G == {None} \cup 0..m
<1>3. F \subseteq G
  BY <1>2
<1>4. /\ p \in [ext : Nat, extCost : Nat, lots : LotsOf(K), qty : Nat, cost : Nat, realized : Int,
                dustCost : Nat, dustQty : Nat, first : F]
      /\ p.qty = Qty(p.lots) /\ p.cost = CostOf(p.lots)
  BY DEF Holding
<1> HIDE DEF F, G
<1>5. p \in [ext : Nat, extCost : Nat, lots : LotsOf(M), qty : Nat, cost : Nat, realized : Int,
             dustCost : Nat, dustQty : Nat, first : G]
  BY <1>1, <1>3, <1>4
<1> QED BY <1>4, <1>5 DEF Holding, G

(* Books stay balanced when more descents and later blocks are allowed. *)
LEMMA BalancedMore ==
  ASSUME NEW K, NEW M, K \subseteq M, NEW n \in Nat, NEW m \in Nat, n <= m, NEW c, NEW b,
         Balanced(K, n, c, b)
  PROVE  Balanced(M, m, c, b)
<1>1. Holding(K, n) \subseteq Holding(M, m)
  BY HoldingMore
<1>2. b \in BookOf(K, n)
  BY DEF Balanced
<1> DEFINE H == Holding(K, n)
           G == Holding(M, m)
<1>3. H \subseteq G
  BY <1>1
<1>4. b \in [positions : [Keys -> H], trail : Seq(AuditRow), flows : [Keys -> Flow],
             paid : Nat, relieved : Nat, dropped : BOOLEAN]
  BY <1>2 DEF BookOf
<1> HIDE DEF H, G
<1>5. [Keys -> H] \subseteq [Keys -> G]
  BY <1>3
<1>6. b \in [positions : [Keys -> G], trail : Seq(AuditRow), flows : [Keys -> Flow],
             paid : Nat, relieved : Nat, dropped : BOOLEAN]
  BY <1>4, <1>5
<1>7. b \in BookOf(M, m)
  BY <1>6 DEF BookOf, G
<1> QED BY <1>7 DEF Balanced

Paying(b, x) == [b EXCEPT !.paid = @ + x]
Giving(b, x) == [b EXCEPT !.relieved = @ + x]

LEMMA Pays ==
  ASSUME NEW K, NEW n, NEW c \in Int, NEW b, Balanced(K, n, c, b), NEW x \in Nat
  PROVE  /\ Balanced(K, n, c + x, Paying(b, x)) /\ Paying(b, x).positions = b.positions
         /\ Balanced(K, n, c - x, Giving(b, x)) /\ Giving(b, x).positions = b.positions
<1> DEFINE r == Paying(b, x)
           s == Giving(b, x)
<1>1. /\ b.positions \in [Keys -> Holding(K, n)] /\ b.trail \in Seq(AuditRow)
      /\ b.flows \in [Keys -> Flow] /\ b.paid \in Nat /\ b.relieved \in Nat
      /\ b.dropped \in BOOLEAN /\ b \in BookOf(K, n)
  BY BookFields
<1>2. b.paid + x \in Nat /\ b.relieved + x \in Nat
  BY <1>1
<1>3. /\ r \in BookOf(K, n) /\ r.positions = b.positions /\ r.trail = b.trail
      /\ r.flows = b.flows /\ r.dropped = b.dropped /\ r.relieved = b.relieved
      /\ r.paid = b.paid + x
  BY <1>1, <1>2 DEF BookOf, Paying
<1>4. /\ s \in BookOf(K, n) /\ s.positions = b.positions /\ s.trail = b.trail
      /\ s.flows = b.flows /\ s.dropped = b.dropped /\ s.paid = b.paid
      /\ s.relieved = b.relieved + x
  BY <1>1, <1>2 DEF BookOf, Giving
<1> HIDE DEF r, s
<1> DEFINE all == b.positions
<1>5. SumOfHeld(all) \in Int
  <2>1. all \in [Keys -> Holding(K, n)]
    BY <1>1
  <2> HIDE DEF all
  <2>2. CASE Keys = {}
    <3>1. SumOfHeld(all) = 0
      BY <2>2, SumOfNone DEF SumOfHeld, SumFunction
    <3> QED BY <3>1
  <2>3. CASE Keys # {}
    <3>1. PICK key \in Keys : TRUE
      BY <2>3
    <3>2. \A k \in Keys : k # key => all[k] = all[k]
      OBVIOUS
    <3> QED BY <2>1, <3>2, HeldChanges
  <2> QED BY <2>2, <2>3
<1>6. ~b.dropped => /\ \A key \in Keys : Amount(b.positions[key]) = Net(b.flows[key])
                    /\ b.paid - b.relieved = SumOfHeld(b.positions) + c
  BY DEF Balanced
<1>7. Balanced(K, n, c + x, r)
  <2>1. ~r.dropped => r.paid - r.relieved = SumOfHeld(r.positions) + (c + x)
    BY <1>1, <1>3, <1>5, <1>6, SMTT(30)
  <2> QED BY <1>3, <1>6, <2>1 DEF Balanced
<1>8. Balanced(K, n, c - x, s)
  <2> DEFINE spent == b.paid
             gone == b.relieved
             sum == SumOfHeld(b.positions)
  <2>0. spent \in Nat /\ gone \in Nat /\ sum \in Int
    BY <1>1, <1>5
  <2>1. ~b.dropped => spent - gone = sum + c
    BY <1>6
  <2> HIDE DEF spent, gone, sum
  <2>2. ~b.dropped => spent - (gone + x) = sum + (c - x)
    <3>1. \A i, j, k, l, m \in Int : i - j = k + l => i - (j + m) = k + (l - m)
      OBVIOUS
    <3>2. spent \in Int /\ gone \in Int /\ sum \in Int /\ c \in Int /\ x \in Int
      BY <2>0
    <3>3. spent - gone = sum + c => spent - (gone + x) = sum + (c - x)
      BY <3>1, <3>2
    <3> QED BY <2>1, <3>3
  <2>3. s.paid = spent /\ s.relieved = gone + x /\ SumOfHeld(s.positions) = sum
    BY <1>4 DEF spent, gone, sum
  <2>4. ~s.dropped => s.paid - s.relieved = SumOfHeld(s.positions) + (c - x)
    BY <1>4, <2>2, <2>3
  <2> QED BY <1>4, <1>6, <2>4 DEF Balanced
<1> QED BY <1>3, <1>4, <1>7, <1>8 DEF r, s

Realizing(p, profit) == [p EXCEPT !.realized = @ + profit]

LEMMA Realizes ==
  ASSUME NEW K, NEW n, NEW p \in Holding(K, n), NEW profit \in Int
  PROVE  /\ Realizing(p, profit) \in Holding(K, n)
         /\ Realizing(p, profit).realized = p.realized + profit
         /\ Amount(Realizing(p, profit)) = Amount(p) /\ Held(Realizing(p, profit)) = Held(p)
<1> DEFINE q == Realizing(p, profit)
           x == p.realized + profit
<1>1. /\ p.ext \in Nat /\ p.extCost \in Nat /\ p.lots \in LotsOf(K) /\ p.qty \in Nat
      /\ p.cost \in Nat /\ p.realized \in Int /\ p.dustCost \in Nat /\ p.dustQty \in Nat
      /\ p.first \in {None} \cup 0..n /\ p.qty = Qty(p.lots) /\ p.cost = CostOf(p.lots)
      /\ p \in [ext : Nat, extCost : Nat, lots : LotsOf(K), qty : Nat, cost : Nat,
                realized : Int, dustCost : Nat, dustQty : Nat, first : {None} \cup 0..n]
  BY HoldingFields
<1>2. x \in Int /\ q = [p EXCEPT !.realized = x]
  BY <1>1 DEF Realizing
<1>3. x = p.realized + profit
  OBVIOUS
<1> HIDE DEF x, q
<1>4. /\ q.ext = p.ext /\ q.extCost = p.extCost /\ q.lots = p.lots /\ q.qty = p.qty
      /\ q.cost = p.cost /\ q.realized = x /\ q.dustCost = p.dustCost
      /\ q.dustQty = p.dustQty /\ q.first = p.first
      /\ q \in [ext : Nat, extCost : Nat, lots : LotsOf(K), qty : Nat, cost : Nat,
                realized : Int, dustCost : Nat, dustQty : Nat, first : {None} \cup 0..n]
  BY <1>1, <1>2
<1>5. q \in Holding(K, n)
  BY <1>1, <1>4 DEF Holding
<1>6. Amount(q) = Amount(p) /\ Held(q) = Held(p)
  BY <1>4 DEF Amount, Held
<1> QED BY <1>3, <1>4, <1>5, <1>6 DEF q

LEMMA ProfitsConcatenate ==
  ASSUME NEW s \in Seq(AuditRow), NEW t \in Seq(AuditRow), NEW key
  PROVE  Total(Profits(s \o t, key)) = Total(Profits(s, key)) + Total(Profits(t, key))
<1>1. \A row \in AuditRow : Profit(row, key) \in Int
  <2> SUFFICES ASSUME NEW row \in AuditRow PROVE Profit(row, key) \in Int
    OBVIOUS
  <2>1. row.proceeds \in Int /\ row.cost \in Nat
    BY DEF AuditRow
  <2> QED BY <2>1 DEF Profit
<1> DEFINE a == Profits(s, key)
           b == Profits(t, key)
           ab == Profits(s \o t, key)
<1>2. a \in Seq(Int) /\ b \in Seq(Int) /\ ab \in Seq(Int)
  <2>1. \A u \in Seq(AuditRow) : Profits(u, key) \in Seq(Int)
    <3> SUFFICES ASSUME NEW u \in Seq(AuditRow) PROVE Profits(u, key) \in Seq(Int)
      OBVIOUS
    <3>1. DOMAIN u = 1..Len(u) /\ Len(u) \in Nat /\ \A i \in 1..Len(u) : u[i] \in AuditRow
      OBVIOUS
    <3> DEFINE m == Len(u)
    <3>2. m \in Nat /\ \A i \in 1..m : Profit(u[i], key) \in Int
      BY <1>1, <3>1
    <3>3. Profits(u, key) = [i \in 1..m |-> Profit(u[i], key)]
      BY <3>1 DEF Profits
    <3> HIDE DEF m
    <3> QED BY <3>2, <3>3, SeqDef
  <2>2. s \o t \in Seq(AuditRow)
    OBVIOUS
  <2> QED BY <2>1, <2>2
<1>3. ab = a \o b
  <2>1. Len(s) \in Nat /\ Len(t) \in Nat /\ Len(s \o t) = Len(s) + Len(t)
        /\ DOMAIN s = 1..Len(s) /\ DOMAIN t = 1..Len(t) /\ DOMAIN (s \o t) = 1..Len(s) + Len(t)
    OBVIOUS
  <2>2. DOMAIN a = 1..Len(s) /\ DOMAIN b = 1..Len(t) /\ DOMAIN ab = 1..Len(s) + Len(t)
    BY <2>1 DEF Profits
  <2>3. Len(a) = Len(s) /\ Len(b) = Len(t) /\ Len(ab) = Len(s) + Len(t)
    BY <1>2, <2>1, <2>2
  <2>4. \A i \in 1..Len(s) + Len(t) :
          (s \o t)[i] = IF i <= Len(s) THEN s[i] ELSE t[i - Len(s)]
    OBVIOUS
  <2>5. \A i \in 1..Len(s) + Len(t) : ab[i] = Profit((s \o t)[i], key)
    BY <2>1 DEF Profits
  <2>6. \A i \in 1..Len(s) : a[i] = Profit(s[i], key)
    BY <2>1 DEF Profits
  <2>7. \A i \in 1..Len(t) : b[i] = Profit(t[i], key)
    BY <2>1 DEF Profits
  <2> HIDE DEF a, b, ab
  <2>8. \A i \in 1..Len(s) + Len(t) : ab[i] = IF i <= Len(s) THEN a[i] ELSE b[i - Len(s)]
    BY <2>1, <2>4, <2>5, <2>6, <2>7
  <2> DEFINE j == a \o b
  <2>0. /\ j \in Seq(Int) /\ Len(j) = Len(a) + Len(b)
        /\ \A i \in 1..Len(a) + Len(b) : j[i] = IF i <= Len(a) THEN a[i] ELSE b[i - Len(a)]
    BY <1>2
  <2> HIDE DEF j
  <2>9. \A i \in 1..Len(ab) : ab[i] = j[i]
    BY <2>0, <2>3, <2>8
  <2>10. j \in Seq(Int) /\ Len(j) = Len(ab)
    BY <2>0, <2>3
  <2>11. ab = j
    BY <1>2, <2>9, <2>10, SeqEqual
  <2> QED BY <2>11 DEF j
<1> HIDE DEF a, b, ab
<1>4. Total(ab) = Total(a) + Total(b)
  BY <1>2, <1>3, TotalConcatenates
<1> QED BY <1>4 DEF a, b, ab

(* A sale proves its profit. *)
Sold(b, key, profit, rows, x) ==
  [b EXCEPT !.positions[key].realized = @ + profit, !.trail = @ \o rows, !.relieved = @ + x]
Proves(rows, key, profit) ==
  /\ rows \in Seq(AuditRow) /\ \A i \in DOMAIN rows : Proven(rows[i])
  /\ \A k \in Keys : Total(Profits(rows, k)) = IF k = key THEN profit ELSE 0

LEMMA Sells ==
  ASSUME NEW K, NEW n, NEW c \in Int, NEW b, Balanced(K, n, c, b), NEW key \in Keys,
         NEW profit \in Int, NEW rows, Proves(rows, key, profit), NEW x \in Nat
  PROVE  Balanced(K, n, c - x, Sold(b, key, profit, rows, x))
<1> DEFINE old == b.positions[key]
           p == Realizing(old, profit)
           P == [b.positions EXCEPT ![key] = p]
           T == b.trail \o rows
           X == b.relieved + x
           r == Sold(b, key, profit, rows, x)
<1>1. /\ b.positions \in [Keys -> Holding(K, n)] /\ b.trail \in Seq(AuditRow)
      /\ b.flows \in [Keys -> Flow] /\ b.paid \in Nat /\ b.relieved \in Nat
      /\ b.dropped \in BOOLEAN /\ b \in BookOf(K, n)
  BY BookFields
<1>2. old \in Holding(K, n)
  BY <1>1
<1>3. /\ p \in Holding(K, n) /\ p.realized = old.realized + profit
      /\ Amount(p) = Amount(old) /\ Held(p) = Held(old)
  <2> HIDE DEF old
  <2> QED BY <1>2, Realizes
<1>4. r = [b EXCEPT !.positions = P, !.trail = T, !.relieved = X]
  BY <1>1 DEF Sold, Realizing, BookOf
<1> HIDE DEF r, p
<1>5. P \in [Keys -> Holding(K, n)] /\ \A k \in Keys : P[k] = IF k = key THEN p ELSE b.positions[k]
  BY <1>1, <1>3
<1>6. T \in Seq(AuditRow) /\ X \in Nat /\ X = b.relieved + x
  BY <1>1 DEF Proves
<1>7. \A i \in DOMAIN T : Proven(T[i])
  <2>1. \A i \in DOMAIN b.trail : Proven(b.trail[i])
    BY DEF Balanced
  <2>2. rows \in Seq(AuditRow) /\ \A i \in DOMAIN rows : Proven(rows[i])
    BY DEF Proves
  <2> DEFINE s == b.trail
  <2>3. s \in Seq(AuditRow)
    BY <1>1
  <2>4. \A i \in 1..Len(s) : Proven(s[i])
    BY <2>1, <2>3
  <2>5. \A i \in 1..Len(rows) : Proven(rows[i])
    BY <2>2
  <2>6. T = s \o rows
    OBVIOUS
  <2> HIDE DEF s, T
  <2>7. \A i \in DOMAIN T : \/ i \in 1..Len(s) /\ T[i] = s[i]
                            \/ i - Len(s) \in 1..Len(rows) /\ T[i] = rows[i - Len(s)]
    BY <2>2, <2>3, <2>6
  <2> QED BY <2>4, <2>5, <2>7
<1>8. \A k \in Keys : Total(Profits(T, k)) = Total(Profits(b.trail, k)) + (IF k = key THEN profit ELSE 0)
  <2> SUFFICES ASSUME NEW k \in Keys
               PROVE  Total(Profits(T, k)) = Total(Profits(b.trail, k)) + (IF k = key THEN profit ELSE 0)
    OBVIOUS
  <2> DEFINE s == b.trail
  <2>1. s \in Seq(AuditRow) /\ rows \in Seq(AuditRow)
    BY <1>1 DEF Proves
  <2>2. Total(Profits(rows, k)) = IF k = key THEN profit ELSE 0
    BY DEF Proves
  <2>3. T = s \o rows
    OBVIOUS
  <2> HIDE DEF s, T
  <2>4. Total(Profits(s \o rows, k)) = Total(Profits(s, k)) + Total(Profits(rows, k))
    BY <2>1, ProfitsConcatenate
  <2> QED BY <2>2, <2>3, <2>4 DEF s
<1> HIDE DEF P, T, X
<1>9. /\ r \in BookOf(K, n) /\ r.positions = P /\ r.trail = T /\ r.relieved = X
      /\ r.flows = b.flows /\ r.paid = b.paid /\ r.dropped = b.dropped
  BY <1>1, <1>4, <1>5, <1>6 DEF BookOf
<1>10. \A k \in Keys : r.positions[k].realized = Total(Profits(r.trail, k))
  <2> SUFFICES ASSUME NEW k \in Keys PROVE r.positions[k].realized = Total(Profits(r.trail, k))
    OBVIOUS
  <2>1. b.positions[k].realized = Total(Profits(b.trail, k)) /\ b.positions[k] \in Holding(K, n)
    BY <1>1 DEF Balanced
  <2>2. b.positions[k].realized \in Int
    BY <2>1 DEF Holding
  <2>3. CASE k = key
    BY <1>3, <1>5, <1>8, <1>9, <2>1, <2>3
  <2>4. CASE k # key
    BY <1>5, <1>8, <1>9, <2>1, <2>2, <2>4
  <2> QED BY <2>3, <2>4
<1>11. SumOfHeld(P) = SumOfHeld(b.positions) /\ SumOfHeld(b.positions) \in Int
  <2> DEFINE all == b.positions
  <2>1. all \in [Keys -> Holding(K, n)] /\ \A k \in Keys : k # key => P[k] = all[k]
    BY <1>1, <1>5
  <2>2. Held(P[key]) = Held(all[key]) /\ Held(P[key]) \in Nat
    BY <1>2, <1>3, <1>5, AmountsOf
  <2> HIDE DEF all
  <2>3. /\ SumOfHeld(all) \in Int
        /\ SumOfHeld(P) = SumOfHeld(all) - Held(all[key]) + Held(P[key])
    BY <1>5, <2>1, HeldChanges
  <2>4. SumOfHeld(P) = SumOfHeld(all)
    BY <2>2, <2>3
  <2> QED BY <2>3, <2>4 DEF all
<1>12. ASSUME ~r.dropped
       PROVE  /\ \A k \in Keys : Amount(r.positions[k]) = Net(r.flows[k])
              /\ r.paid - r.relieved = SumOfHeld(r.positions) + (c - x)
  <2>1. /\ \A k \in Keys : Amount(b.positions[k]) = Net(b.flows[k])
        /\ b.paid - b.relieved = SumOfHeld(b.positions) + c
    BY <1>9, <1>12 DEF Balanced
  <2>2. \A k \in Keys : Amount(r.positions[k]) = Net(r.flows[k])
    BY <1>3, <1>5, <1>9, <2>1
  <2>3. r.paid - r.relieved = SumOfHeld(r.positions) + (c - x)
    BY <1>1, <1>6, <1>9, <1>11, <2>1, SMTT(30)
  <2> QED BY <2>2, <2>3
<1>13. Balanced(K, n, c - x, r)
  BY <1>7, <1>9, <1>10, <1>12 DEF Balanced
<1> QED BY <1>13 DEF r

(* ------------------------------- an item --------------------------------- *)

(* What lots can descend from at item i of block m: a lot's root is not younger
   than the lot, and the lot was bought by an earlier item. *)
Descent(m, i) ==
  {k \in Nat \X Seq(Nat) : /\ Len(k[2]) = 3 /\ k[1] <= k[2][1]
                           /\ k[2][1] < m \/ (k[2][1] = m /\ k[2][2] < i)}
Roots(m) == (0..m) \X Seq(Nat)

LEMMA DescentMore ==
  ASSUME NEW m \in Nat, NEW i \in Nat, NEW j \in Nat
  PROVE  /\ i <= j => Descent(m, i) \subseteq Descent(m, j)
         /\ Descent(m, i) \subseteq Descent(m + 1, j)
         /\ Descent(m, i) \subseteq Roots(m)
<1> SUFFICES ASSUME NEW k \in Descent(m, i)
             PROVE  (i <= j => k \in Descent(m, j)) /\ k \in Descent(m + 1, j) /\ k \in Roots(m)
  OBVIOUS
<1>1. /\ k \in Nat \X Seq(Nat) /\ Len(k[2]) = 3 /\ k[1] <= k[2][1]
      /\ k[2][1] < m \/ (k[2][1] = m /\ k[2][2] < i)
  BY DEF Descent
<1>2. k[1] \in Nat /\ k[2] \in Seq(Nat) /\ k[2][1] \in Nat /\ k[2][2] \in Nat /\ k = <<k[1], k[2]>>
  BY <1>1
<1>3. i <= j => k \in Descent(m, j)
  BY <1>1, <1>2 DEF Descent
<1>4. k \in Descent(m + 1, j)
  BY <1>1, <1>2 DEF Descent
<1>5. k[1] \in 0..m
  BY <1>1, <1>2
<1>6. k \in Roots(m)
  BY <1>2, <1>5 DEF Roots
<1> QED BY <1>3, <1>4, <1>6

LEMMA ThreePlaces ==
  ASSUME NEW m \in Nat, NEW i \in Nat, NEW j \in Nat
  PROVE  /\ Append(<<m, i>>, j) \in Seq(Nat) /\ Len(Append(<<m, i>>, j)) = 3
         /\ Append(<<m, i>>, j)[1] = m /\ Append(<<m, i>>, j)[2] = i
<1> DEFINE s == <<m, i>>
<1>1. s \in Seq(Nat) /\ Len(s) = 2 /\ s[1] = m /\ s[2] = i
  OBVIOUS
<1> HIDE DEF s
<1>2. /\ Append(s, j) \in Seq(Nat) /\ Len(Append(s, j)) = 3
      /\ Append(s, j)[1] = m /\ Append(s, j)[2] = i
  <2>1. /\ Append(s, j) \in Seq(Nat) /\ Len(Append(s, j)) = Len(s) + 1
        /\ \A k \in 1..Len(s) : Append(s, j)[k] = s[k]
    <3>1. s \in Seq(Nat)
      BY <1>1
    <3> QED BY <3>1, AppendProperties
  <2>2. 1 \in 1..Len(s) /\ 2 \in 1..Len(s)
    BY <1>1
  <2>3. Append(s, j)[1] = s[1] /\ Append(s, j)[2] = s[2]
    BY <2>1, <2>2
  <2>4. Len(Append(s, j)) = 3
    BY <1>1, <2>1
  <2> QED BY <1>1, <2>1, <2>3, <2>4
<1> QED BY <1>2 DEF s

LEMMA DescentProven ==
  ASSUME NEW m \in Nat, NEW i \in Nat, NEW k \in Descent(m, i)
  PROVE  k[1] <= k[2][1] /\ Precedes(k[2], Append(<<m, i>>, 0))
<1>1. /\ k \in Nat \X Seq(Nat) /\ Len(k[2]) = 3 /\ k[1] <= k[2][1]
      /\ k[2][1] < m \/ (k[2][1] = m /\ k[2][2] < i)
  BY DEF Descent
<1> DEFINE s == k[2]
           t == Append(<<m, i>>, 0)
<1>3. s \in Seq(Nat) /\ Len(s) = 3
  BY <1>1
<1>4. DOMAIN s = 1..3 /\ s[1] \in Nat /\ s[2] \in Nat
  BY <1>3
<1>5. t[1] = m /\ t[2] = i
  BY ThreePlaces
<1>6. s[1] < m \/ (s[1] = m /\ s[2] < i)
  BY <1>1
<1> HIDE DEF s, t
<1>7. CASE s[1] < m
  <2>1. 1 \in DOMAIN s /\ s[1] < t[1] /\ \A j \in 1..1 - 1 : s[j] = t[j]
    BY <1>4, <1>5, <1>7
  <2>2. Precedes(s, t)
    BY <2>1 DEF Precedes
  <2> QED BY <1>1, <2>2 DEF s, t
<1>8. CASE s[1] = m /\ s[2] < i
  <2>1. 2 \in DOMAIN s /\ s[2] < t[2] /\ \A j \in 1..2 - 1 : s[j] = t[j]
    BY <1>4, <1>5, <1>8
  <2>2. Precedes(s, t)
    BY <2>1 DEF Precedes
  <2> QED BY <1>1, <2>2 DEF s, t
<1> QED BY <1>6, <1>7, <1>8

LEMMA DescentNew ==
  ASSUME NEW m \in Nat, NEW i \in Nat, NEW r \in 0..m, NEW j \in Nat
  PROVE  <<r, Append(<<m, i>>, j)>> \in Descent(m, i + 1)
<1> DEFINE s == Append(<<m, i>>, j)
<1>1. s \in Seq(Nat) /\ Len(s) = 3 /\ s[1] = m /\ s[2] = i
  BY ThreePlaces
<1> HIDE DEF s
<1>2. <<r, s>> \in Descent(m, i + 1)
  BY <1>1 DEF Descent
<1> QED BY <1>2 DEF s

(* Consuming at a position that was seen. *)
LEMMA Consuming ==
  ASSUME NEW m \in Nat, NEW i \in Nat, NEW c, NEW b, Balanced(Descent(m, i), m, c, b),
         NEW w \in Wallet, NEW t \in Token, NEW amount \in Nat,
         b.positions[<<w, t>>].first \in 0..m
  PROVE  Consumes(Descent(m, i), Roots(m), m, b.positions[<<w, t>>], amount,
                  Consume(b.positions[<<w, t>>], t, amount))
<1> DEFINE K == Descent(m, i)
           M == Roots(m)
           p == b.positions[<<w, t>>]
<1>1. K \subseteq M
  BY DescentMore
<1>2. p \in Holding(K, m)
  <2>1. <<w, t>> \in Keys
    BY DEF Keys
  <2> QED BY <2>1, BookFields
<1>3. p.first # None /\ <<p.first, <<0, 0, 0>>>> \in M
  <2>1. p.first \in 0..m
    OBVIOUS
  <2> HIDE DEF p, M
  <2>2. p.first # None
    BY <2>1, LedgerAssumption DEF LedgerAssumption
  <2>3. <<0, 0, 0>> \in Seq(Nat)
    OBVIOUS
  <2> QED BY <2>1, <2>2, <2>3 DEF M, Roots
<1> HIDE DEF K, M, p
<1>4. Consumes(K, M, m, p, amount, Consume(p, t, amount))
  BY <1>1, <1>2, <1>3, ConsumeBalances
<1> QED BY <1>4 DEF K, M, p

LEMMA UsdIsNatural == ASSUME NEW item, item.usd \in Price PROVE Usd(item) \in Nat
  BY LedgerAssumption DEF LedgerAssumption, Usd, Price

LEMMA BridgeBalances ==
  ASSUME NEW m \in Nat, NEW i \in Nat, NEW b, Balanced(Descent(m, i), m, 0, b),
         NEW item \in BridgeItem, NEW at, at[1] = m
  PROVE  Balanced(Descent(m, i), m, 0, processBridgeActivity(b, item, at))
<1>1. /\ item.wallet \in Wallet /\ item.token \in Token /\ item.amount \in Nat /\ item.usd \in Price
      /\ item.in \in BOOLEAN
  BY DEF BridgeItem
<1> DEFINE K == Descent(m, i)
           w == item.wallet
           t == item.token
           key == <<w, t>>
           amount == item.amount
           usd == Usd(item)
           seen == Touched(b, key, at)
           p == seen.positions[key]
           used == Consume(p, t, amount)
           came == Deposited(seen, key, amount, usd)
           went == Withdrawn(seen, key, used, amount)
<1>2. processBridgeActivity(b, item, at) = IF item.in THEN Paying(came, usd) ELSE Giving(went, used.cost)
  BY DEF processBridgeActivity, Paying, Giving
<1>3. w \in Wallet /\ t \in Token /\ key \in Keys /\ amount \in Nat /\ usd \in Nat
  BY <1>1, UsdIsNatural DEF Keys
<1>4. 0 \in Int /\ at[1] \in 0..m
  OBVIOUS
<1> HIDE DEF usd, amount
<1>5. Balanced(K, m, 0, seen) /\ p.first \in 0..m
  <2> HIDE DEF K, key
  <2> QED BY <1>3, <1>4, Touches DEF K
<1> HIDE DEF seen, w, t
<1>6. Consumes(K, Roots(m), m, p, amount, used)
  BY <1>3, <1>5, Consuming
<1> HIDE DEF K, key
<1>7. Balanced(K, m, 0, Paying(came, usd))
  <2>1. Balanced(K, m, 0 - usd, came)
    BY <1>3, <1>4, <1>5, Deposits
  <2>2. 0 - usd \in Int /\ (0 - usd) + usd = 0
    BY <1>3
  <2> DEFINE c == 0 - usd
  <2> HIDE DEF came, c
  <2>3. Balanced(K, m, c, came) /\ c \in Int
    BY <2>1, <2>2 DEF c
  <2>4. Balanced(K, m, c + usd, Paying(came, usd))
    BY <1>3, <2>3, Pays
  <2> QED BY <2>2, <2>4 DEF c
<1>8. Balanced(K, m, 0, Giving(went, used.cost))
  <2> DEFINE x == used.cost
             c == 0 + x
  <2>1. x \in Nat /\ c \in Int /\ c - x = 0
    BY <1>6 DEF Consumes
  <2>2. Balanced(K, m, 0 + used.cost, went)
    <3> HIDE DEF used, p
    <3>1. Consumes(K, Roots(m), m, seen.positions[key], amount, used)
      BY <1>6 DEF p
    <3>2. 0 \in Int /\ Balanced(K, m, 0, seen)
      BY <1>5
    <3>3. Balanced(K, m, 0 + used.cost, Withdrawn(seen, key, used, amount))
      <4> HIDE DEF went, came
      <4> QED BY <1>3, <3>1, <3>2, Withdraws, ZenonT(40)
    <3> QED BY <3>3
  <2>3. Balanced(K, m, c, went)
    BY <2>2
  <2> HIDE DEF went, c, x
  <2>4. Balanced(K, m, c - x, Giving(went, x))
    BY <2>1, <2>3, Pays
  <2> QED BY <2>1, <2>4 DEF x
<1> QED BY <1>2, <1>7, <1>8 DEF K

(* What a transfer carries is the sender's cost, or the value of what comes from
   no wallet. *)
LEMMA SendingBalances ==
  ASSUME NEW m \in Nat, NEW i \in Nat, NEW b, Balanced(Descent(m, i), m, 0, b),
         NEW item \in TransferItem, NEW at, at[1] = m
  PROVE  /\ Sent(b, item, at).cost \in Nat
         /\ Balanced(Descent(m, i), m, Sent(b, item, at).cost, Sent(b, item, at).books)
<1>1. /\ item.from \in Party /\ item.token \in Token /\ item.amount \in Nat /\ item.usd \in Price
  BY DEF TransferItem
<1> DEFINE K == Descent(m, i)
           w == item.from
           t == item.token
           key == <<w, t>>
           amount == item.amount
           usd == Usd(item)
           seen == Touched(b, key, at)
           p == seen.positions[key]
           used == Consume(p, t, amount)
           went == Withdrawn(seen, key, used, amount)
           sent == Sent(b, item, at)
<1>2. sent = IF w = None THEN [books |-> Paying(b, usd), cost |-> usd]
             ELSE [books |-> went, cost |-> used.cost]
  BY DEF Sent, Paying
<1>3. t \in Token /\ amount \in Nat /\ usd \in Nat
  BY <1>1, UsdIsNatural
<1>4. 0 \in Int /\ at[1] \in 0..m
  OBVIOUS
<1> HIDE DEF usd, amount, sent
<1>5. CASE w = None
  <2>1. sent.books = Paying(b, usd) /\ sent.cost = usd
    BY <1>2, <1>5
  <2> HIDE DEF K
  <2>2. Balanced(K, m, 0 + usd, Paying(b, usd))
    BY <1>3, <1>4, Pays DEF K
  <2>3. 0 + usd = usd
    BY <1>3
  <2> QED BY <1>3, <2>1, <2>2, <2>3 DEF K, sent
<1>6. CASE w # None
  <2>1. w \in Wallet /\ key \in Keys
    BY <1>1, <1>6 DEF Party, Keys
  <2>2. Balanced(K, m, 0, seen) /\ p.first \in 0..m
    <3> HIDE DEF K, key
    <3> QED BY <1>4, <2>1, Touches DEF K
  <2>3. sent.books = went /\ sent.cost = used.cost
    BY <1>2, <1>6
  <2> HIDE DEF seen, w, t
  <2>4. Consumes(K, Roots(m), m, p, amount, used)
    BY <1>3, <2>1, <2>2, Consuming
  <2> HIDE DEF K, key
  <2>5. used.cost \in Nat
    BY <2>4 DEF Consumes
  <2>6. Balanced(K, m, 0 + used.cost, went)
    <3> HIDE DEF used, p
    <3>1. Consumes(K, Roots(m), m, seen.positions[key], amount, used)
      BY <2>4 DEF p
    <3> QED BY <1>3, <1>4, <2>1, <2>2, <3>1, Withdraws, ZenonT(40)
  <2>7. 0 + used.cost = used.cost
    BY <2>5
  <2> HIDE DEF used, went
  <2> QED BY <2>3, <2>5, <2>6, <2>7 DEF K, sent
<1> QED BY <1>5, <1>6

LEMMA TransferBalances ==
  ASSUME NEW m \in Nat, NEW i \in Nat, NEW b, Balanced(Descent(m, i), m, 0, b),
         NEW item \in TransferItem, NEW at, at[1] = m
  PROVE  Balanced(Descent(m, i), m, 0, processTransferActivity(b, item, at))
<1>1. /\ item.to \in Party /\ item.token \in Token /\ item.amount \in Nat
  BY DEF TransferItem
<1> DEFINE K == Descent(m, i)
           key == <<item.to, item.token>>
           amount == item.amount
           sent == Sent(b, item, at)
           books == sent.books
           cost == sent.cost
           seen == Touched(books, key, at)
<1>2. processTransferActivity(b, item, at) = IF item.to = None THEN Giving(books, cost)
                                             ELSE Deposited(seen, key, amount, cost)
  BY DEF processTransferActivity, Giving
<1>3. Balanced(K, m, cost, books) /\ cost \in Nat
  <2> HIDE DEF K
  <2> QED BY SendingBalances DEF K
<1>4. at[1] \in 0..m /\ amount \in Nat
  BY <1>1
<1> HIDE DEF books, cost, K, amount
<1>5. cost \in Int /\ cost - cost = 0
  BY <1>3
<1>6. Balanced(K, m, cost - cost, Giving(books, cost))
  BY <1>3, <1>5, Pays
<1>7. ASSUME item.to # None PROVE Balanced(K, m, cost - cost, Deposited(seen, key, amount, cost))
  <2>1. key \in Keys
    BY <1>1, <1>7 DEF Party, Keys
  <2> HIDE DEF key
  <2>2. Balanced(K, m, cost, seen)
    BY <1>3, <1>4, <1>5, <2>1, Touches
  <2> HIDE DEF seen
  <2> QED BY <1>3, <1>4, <1>5, <2>1, <2>2, Deposits
<1> QED BY <1>2, <1>5, <1>6, <1>7 DEF K

(* A lot a trade buys at item i of block m. *)
NewLot(qty, cost, root, id) == [qty |-> qty, cost |-> cost, root |-> root, id |-> id]

LEMMA OneLot ==
  ASSUME NEW m \in Nat, NEW i \in Nat, NEW qty \in Nat, NEW cost \in Nat
  PROVE  LET lots == <<NewLot(qty, cost, m, Append(<<m, i>>, 1))>>
         IN  /\ lots \in SharesOf(Descent(m, i + 1)) /\ Qty(lots) = qty /\ CostOf(lots) = cost
<1> DEFINE K == Descent(m, i + 1)
           id == Append(<<m, i>>, 1)
           lot == NewLot(qty, cost, m, id)
           lots == <<lot>>
<1>1. <<m, id>> \in K
  BY DescentNew
<1>2. id \in Seq(Nat)
  BY ThreePlaces
<1> HIDE DEF K, id
<1>3. lot \in Share(K) /\ lot.qty = qty /\ lot.cost = cost
  BY <1>1, <1>2, SMTT(30) DEF Share, NewLot
<1> HIDE DEF lot
<1>4. <<>> \in SharesOf(K) /\ lots \in SharesOf(K) /\ lots = Append(<<>>, lot)
  BY <1>3 DEF SharesOf
<1>5. Qty(lots) = Qty(<<>>) + lot.qty /\ CostOf(lots) = CostOf(<<>>) + lot.cost
  BY <1>3, <1>4, SharesAppend
<1>6. Qty(lots) = qty /\ CostOf(lots) = cost
  BY <1>3, <1>5, NoLots
<1> QED BY <1>4, <1>6 DEF K, lot, id

(* What a migration takes out, and the lots it brings in for it. *)
Brought(matches, out, gas, at) ==
  IF matches = <<>> THEN <<NewLot(out, gas, at[1], Append(at, 1))>>
  ELSE CarriedLots(matches, out, gas, at)
MigrationOut(b, item) ==
  Consume(b.positions[<<item.wallet, item.token>>], item.token, item.amount)
MigrationLots(b, item, gas, at) == Brought(MigrationOut(b, item).matches, item.out, gas, at)
MigrationLeft(b, item) ==
  Withdrawn(b, <<item.wallet, item.token>>, MigrationOut(b, item), item.amount)

LEMMA MigrationParts ==
  ASSUME NEW m \in Nat, NEW i \in Nat, NEW b, Balanced(Descent(m, i), m, 0, b),
         NEW item \in TradeItem, NEW gas \in Nat,
         b.positions[<<item.wallet, item.token>>].first \in 0..m
  PROVE  /\ MigrationOut(b, item).cost \in Nat
         /\ MigrationOut(b, item).matches \in LotsOf(Roots(m))
         /\ MigrationOut(b, item).position \in Holding(Descent(m, i), m)
         /\ Balanced(Descent(m, i), m, MigrationOut(b, item).cost, MigrationLeft(b, item))
         /\ MigrationLots(b, item, gas, <<m, i>>) \in SharesOf(Descent(m, i + 1))
         /\ Qty(MigrationLots(b, item, gas, <<m, i>>)) = item.out
         /\ CostOf(MigrationLots(b, item, gas, <<m, i>>)) = MigrationOut(b, item).cost + gas
<1>1. /\ item.wallet \in Wallet /\ item.token \in Token /\ item.amount \in Nat
      /\ item.bought \in Token /\ item.out \in Nat
  BY DEF TradeItem
<1> DEFINE K == Descent(m, i)
           N == Descent(m, i + 1)
           at == <<m, i>>
           w == item.wallet
           t == item.token
           key == <<w, t>>
           amount == item.amount
           out == item.out
           p == b.positions[key]
           used == Consume(p, t, amount)
           one == <<NewLot(out, gas, m, Append(at, 1))>>
           carried == CarriedLots(used.matches, out, gas, at)
           lots == IF used.matches = <<>> THEN one ELSE carried
           went == Withdrawn(b, key, used, amount)
<1>2. /\ MigrationOut(b, item) = used /\ MigrationLeft(b, item) = went
      /\ MigrationLots(b, item, gas, at) = lots
  <2>1. at[1] = m
    OBVIOUS
  <2> QED BY <2>1 DEF MigrationOut, MigrationLeft, MigrationLots, Brought
<1>3. w \in Wallet /\ t \in Token /\ key \in Keys /\ amount \in Nat /\ out \in Nat
  BY <1>1 DEF Keys
<1>4. 0 \in Int /\ i + 1 \in Nat /\ at \in Seq(Nat)
  OBVIOUS
<1>6. Consumes(K, Roots(m), m, p, amount, used)
  <2>1. b.positions[<<w, t>>].first \in 0..m
    OBVIOUS
  <2> HIDE DEF amount, w, t
  <2> QED BY <1>3, <2>1, Consuming
<1> DEFINE x == used.cost
<1>7. /\ x \in Nat /\ used.matches \in LotsOf(Roots(m)) /\ CostOf(used.matches) = x
      /\ used.position \in Holding(K, m)
  BY <1>6 DEF Consumes
<1>8. Balanced(K, m, 0 + used.cost, went)
  <2> HIDE DEF used, p, key, K, amount
  <2>1. Consumes(K, Roots(m), m, b.positions[key], amount, used)
    BY <1>6 DEF p
  <2> QED BY <1>3, <1>4, <2>1, Withdraws DEF K
<1>9. 0 + used.cost = x
  BY <1>7
<1>10. Balanced(K, m, x, went)
  BY <1>8, <1>9
<1> HIDE DEF out
<1>11. lots \in SharesOf(N) /\ Qty(lots) = out /\ CostOf(lots) = x + gas
  <2>1. CASE used.matches = <<>>
    <3>1. one \in SharesOf(N) /\ Qty(one) = out /\ CostOf(one) = gas
      <4> HIDE DEF N
      <4> QED BY <1>3, OneLot DEF N
    <3>2. x = 0
      BY <1>7, <2>1, NoLots
    <3>3. lots = one /\ x + gas = gas
      BY <2>1, <3>2
    <3> HIDE DEF x
    <3> QED BY <3>1, <3>3
  <2>2. CASE used.matches # <<>>
    <3> DEFINE matches == used.matches
               R == Roots(m)
    <3>1. Descends(R, at, N)
      <4> SUFFICES ASSUME NEW r \in R, NEW j \in Nat PROVE <<r[1], Append(at, j)>> \in N
        BY DEF Descends
      <4>1. r[1] \in 0..m
        BY DEF Roots
      <4> QED BY <4>1, DescentNew
    <3>2. matches \in LotsOf(R) /\ matches # <<>> /\ CostOf(matches) = x
      BY <1>7, <2>2
    <3>3. lots = CarriedLots(matches, out, gas, at)
      BY <2>2
    <3> HIDE DEF matches, R, at, N, x, used, lots
    <3>4. /\ CarriedLots(matches, out, gas, at) \in SharesOf(N)
          /\ Qty(CarriedLots(matches, out, gas, at)) = out
          /\ CostOf(CarriedLots(matches, out, gas, at)) = CostOf(matches) + gas
      <4>1. out \in Nat /\ gas \in Nat /\ at \in Seq(Nat)
        BY <1>3, <1>4
      <4>2. matches \in LotsOf(R) /\ matches # <<>>
        BY <3>2
      <4> QED BY <3>1, <4>1, <4>2, CarriedLotsAre
    <3> QED BY <3>2, <3>3, <3>4
  <2> QED BY <2>1, <2>2
<1> HIDE DEF lots, N, went, used
<1>12. /\ used.cost \in Nat /\ used.matches \in LotsOf(Roots(m)) /\ used.position \in Holding(K, m)
       /\ Balanced(K, m, used.cost, went) /\ lots \in SharesOf(N) /\ Qty(lots) = item.out
       /\ CostOf(lots) = used.cost + gas
  BY <1>7, <1>10, <1>11 DEF out
<1> QED BY <1>2, <1>12 DEF N

LEMMA MigrationIs ==
  ASSUME NEW b, NEW item, NEW gas, NEW m, NEW i
  PROVE  Migrate(b, item, gas, <<m, i>>) =
           Paying(Bought(MigrationLeft(b, item), <<item.wallet, item.bought>>, item.out,
                         MigrationLots(b, item, gas, <<m, i>>)), gas)
  BY DEF Migrate, Paying, NewLot, MigrationLeft, MigrationOut, MigrationLots, Brought

(* A migration carries the cost it takes out over, and adds the gas. *)
LEMMA MigrationBalances ==
  ASSUME NEW m \in Nat, NEW i \in Nat, NEW b, Balanced(Descent(m, i), m, 0, b),
         NEW item \in TradeItem, NEW gas \in Nat,
         b.positions[<<item.wallet, item.token>>].first \in 0..m
  PROVE  Balanced(Descent(m, i + 1), m, 0, Migrate(b, item, gas, <<m, i>>))
<1>1. item.wallet \in Wallet /\ item.bought \in Token /\ item.out \in Nat
  BY DEF TradeItem
<1> DEFINE K == Descent(m, i)
           N == Descent(m, i + 1)
           at == <<m, i>>
           new == <<item.wallet, item.bought>>
           out == item.out
           x == MigrationOut(b, item).cost
           lots == MigrationLots(b, item, gas, at)
           went == MigrationLeft(b, item)
           came == Bought(went, new, out, lots)
<1>2. Migrate(b, item, gas, at) = Paying(came, gas)
  BY MigrationIs
<1>3. /\ x \in Nat /\ Balanced(K, m, x, went) /\ lots \in SharesOf(N) /\ Qty(lots) = out
      /\ CostOf(lots) = x + gas
  BY MigrationParts
<1>4. new \in Keys /\ out \in Nat /\ i + 1 \in Nat /\ i <= i + 1 /\ m <= m
  BY <1>1 DEF Keys
<1>5. K \subseteq N
  BY <1>4, DescentMore
<1> HIDE DEF lots, N, K, went, x, new, out
<1>6. Balanced(N, m, x, went)
  BY <1>3, <1>4, <1>5, BalancedMore
<1>7. x \in Int /\ CostOf(lots) \in Nat /\ m \in Nat
  BY <1>3
<1>8. Balanced(N, m, x - CostOf(lots), came)
  BY <1>3, <1>4, <1>6, <1>7, Buys
<1> DEFINE c == x - CostOf(lots)
<1>9. c \in Int /\ c + gas = 0 /\ Balanced(N, m, c, came)
  BY <1>3, <1>8
<1> HIDE DEF c, came
<1>10. Balanced(N, m, c + gas, Paying(came, gas))
  BY <1>9, Pays
<1> QED BY <1>2, <1>9, <1>10 DEF N

(* A sale relieves the cost it takes out, and its rows prove the profit. *)
LEMMA SaleBalances ==
  ASSUME NEW m \in Nat, NEW i \in Nat, NEW b, Balanced(Descent(m, i), m, 0, b),
         NEW item \in TradeItem, item.usd # None, NEW gas \in Nat,
         b.positions[<<item.wallet, item.token>>].first \in 0..m
  PROVE  Balanced(Descent(m, i), m, 0, Sell(b, item, gas, <<m, i>>))
<1>1. /\ item.wallet \in Wallet /\ item.token \in Token /\ item.amount \in Nat /\ item.usd \in Nat
  BY DEF TradeItem, Price
<1> DEFINE K == Descent(m, i)
           at == <<m, i>>
           w == item.wallet
           t == item.token
           key == <<w, t>>
           amount == item.amount
           p == b.positions[key]
           used == Consume(p, t, amount)
           left == item.usd - gas
           proceeds == proportionalShare(left, used.lots.qty, amount)
           profit == IF used.lots.qty = 0 THEN 0 ELSE proceeds - used.lots.cost
           rows == Rows(used.lots.matches, proceeds, key, at)
           went == Withdrawn(b, key, used, amount)
           x == used.cost
<1>2. Sell(b, item, gas, at) = Sold(went, key, profit, rows, x)
  BY DEF Sell, Sold
<1>3. /\ w \in Wallet /\ t \in Token /\ key \in Keys /\ amount \in Nat /\ 0 \in Int
      /\ at \in Seq(Nat) /\ left \in Int
  BY <1>1 DEF Keys
<1>4. Consumes(K, Roots(m), m, p, amount, used)
  <2>1. b.positions[<<w, t>>].first \in 0..m
    OBVIOUS
  <2> HIDE DEF amount, w, t
  <2> QED BY <1>3, <2>1, Consuming
<1> DEFINE matches == used.lots.matches
           q == used.lots.qty
<1>5. /\ x \in Nat /\ matches \in LotsOf(K) /\ q = Qty(matches) /\ used.lots.cost = CostOf(matches)
  BY <1>4 DEF Consumes
<1>6. Balanced(K, m, 0 + used.cost, went)
  <2> HIDE DEF used, p, key, K, amount
  <2>1. Consumes(K, Roots(m), m, b.positions[key], amount, used)
    BY <1>4 DEF p
  <2> QED BY <1>3, <2>1, Withdraws DEF K
<1>7. q \in Nat /\ CostOf(matches) \in Nat
  <2>1. matches \in Lots
    BY <1>5, LotsOfAreLots
  <2> HIDE DEF matches, q
  <2> QED BY <1>5, <2>1, LotsAreMeasured
<1>8. proceeds \in Int /\ profit \in Int
  <2>1. proceeds \in Int
    <3> HIDE DEF left, q, amount
    <3> QED BY <1>3, <1>7, ShareIsInt DEF q
  <2> HIDE DEF proceeds, used
  <2> QED BY <1>5, <1>7, <2>1
<1>9. Proves(rows, key, profit)
  <2>1. \A k \in K : k[1] <= k[2][1] /\ Precedes(k[2], Append(at, 0))
    BY DescentProven
  <2>2. rows = Rows(matches, proceeds, key, at)
    OBVIOUS
  <2>3. profit = IF Qty(matches) # 0 THEN proceeds - CostOf(matches) ELSE 0
    BY <1>5
  <2> HIDE DEF K, at, proceeds, matches, rows, profit, key
  <2>4. /\ rows \in Seq(AuditRow) /\ \A j \in DOMAIN rows : Proven(rows[j])
        /\ \A k \in Keys : Total(Profits(rows, k)) = IF k = key /\ Qty(matches) # 0
                                                     THEN proceeds - CostOf(matches) ELSE 0
    BY <1>3, <1>5, <1>8, <2>1, <2>2, RowsProve
  <2> QED BY <2>3, <2>4 DEF Proves
<1> DEFINE c == 0 + x
<1>10. c \in Int /\ c - x = 0 /\ Balanced(K, m, c, went)
  BY <1>5, <1>6
<1> HIDE DEF c, x, went, rows, profit, key, K
<1>11. Balanced(K, m, c - x, Sold(went, key, profit, rows, x))
  BY <1>3, <1>5, <1>8, <1>9, <1>10, Sells
<1> QED BY <1>2, <1>10, <1>11 DEF K

LEMMA TradeBalances ==
  ASSUME NEW m \in Nat, NEW i \in Nat, NEW b, Balanced(Descent(m, i), m, 0, b),
         NEW item \in TradeItem, NEW gas \in Nat
  PROVE  Balanced(Descent(m, i + 1), m, 0, Trade(b, item, gas, <<m, i>>))
<1>1. /\ item.wallet \in Wallet /\ item.token \in Token /\ item.amount \in Nat
      /\ item.bought \in Token /\ item.out \in Nat /\ item.usd \in Price
  BY DEF TradeItem
<1> DEFINE K == Descent(m, i)
           N == Descent(m, i + 1)
           at == <<m, i>>
           key == <<item.wallet, item.token>>
           new == <<item.wallet, item.bought>>
           out == item.out
           first == Touched(b, key, at)
           seen == Touched(first, new, at)
           cost == item.usd + gas
           sold == Sell(seen, item, gas, at)
           lots == <<NewLot(out, cost, m, Append(at, 1))>>
           came == Bought(sold, new, out, lots)
<1>2. Trade(b, item, gas, at) =
        IF item.usd = None \/ item.token = item.bought THEN b
        ELSE IF Migrates(item) THEN Migrate(seen, item, gas, at) ELSE Paying(came, cost)
  BY DEF Trade, Paying, NewLot
<1>3. key \in Keys /\ new \in Keys /\ at[1] \in 0..m /\ 0 \in Int /\ i + 1 \in Nat /\ i <= i + 1
  BY <1>1 DEF Keys
<1>4. K \subseteq N
  BY <1>3, DescentMore
<1>5. Balanced(K, m, 0, seen) /\ seen.positions[key].first \in 0..m
  <2> HIDE DEF K, key, new, at
  <2>1. Balanced(K, m, 0, first) /\ first.positions[key].first \in 0..m
    BY <1>3, Touches DEF K
  <2> HIDE DEF first
  <2> QED BY <1>3, <2>1, Touches
<1> HIDE DEF seen
<1>6. ASSUME item.usd = None \/ item.token = item.bought
      PROVE  Balanced(N, m, 0, b)
  <2>1. m <= m /\ Balanced(K, m, 0, b)
    OBVIOUS
  <2> HIDE DEF K, N
  <2> QED BY <1>4, <2>1, BalancedMore
<1>7. Balanced(N, m, 0, Migrate(seen, item, gas, at))
  BY <1>5, MigrationBalances
<1>8. ASSUME item.usd # None PROVE Balanced(N, m, 0, Paying(came, cost))
  <2>1. item.usd \in Nat /\ cost \in Nat
    BY <1>1, <1>8 DEF Price
  <2>2. Balanced(K, m, 0, sold)
    BY <1>5, <1>8, SaleBalances
  <2>3. Balanced(N, m, 0, sold)
    <3>1. m <= m
      OBVIOUS
    <3> HIDE DEF K, N, sold
    <3> QED BY <1>4, <2>2, <3>1, BalancedMore
  <2> HIDE DEF cost, sold, out, new
  <2>4. lots \in SharesOf(N) /\ Qty(lots) = out /\ CostOf(lots) = cost /\ out \in Nat
    <3>1. out \in Nat
      BY <1>1 DEF out
    <3> QED BY <2>1, <3>1, OneLot
  <2> HIDE DEF lots, N
  <2>5. CostOf(lots) \in Nat
    BY <2>1, <2>4
  <2>6. Balanced(N, m, 0 - CostOf(lots), came)
    BY <1>3, <2>3, <2>4, <2>5, Buys
  <2> DEFINE c == 0 - CostOf(lots)
  <2>7. c \in Int /\ c + cost = 0 /\ Balanced(N, m, c, came)
    BY <2>1, <2>4, <2>6
  <2> HIDE DEF c, came
  <2>8. Balanced(N, m, c + cost, Paying(came, cost))
    BY <2>1, <2>7, Pays
  <2> QED BY <2>7, <2>8
<1> HIDE DEF came, cost
<1> QED BY <1>2, <1>6, <1>7, <1>8 DEF N

(* Every item of a transaction leaves the books balanced. *)
Items == BridgeItem \cup TransferItem \cup TradeItem

LEMMA ItemBalances ==
  ASSUME NEW m \in Nat, NEW i \in Nat, NEW b, Balanced(Descent(m, i), m, 0, b),
         NEW item \in Items, NEW gas \in Nat
  PROVE  Balanced(Descent(m, i + 1), m, 0, ReplayItem(b, item, gas, <<m, i>>))
<1> DEFINE K == Descent(m, i)
           N == Descent(m, i + 1)
           at == <<m, i>>
<1>1. at[1] = m /\ i + 1 \in Nat /\ i <= i + 1 /\ m <= m
  OBVIOUS
<1>2. K \subseteq N
  BY <1>1, DescentMore
<1>3. CASE item \in BridgeItem
  <2>1. item.kind = "bridge"
    BY <1>3 DEF BridgeItem
  <2> DEFINE r == processBridgeActivity(b, item, at)
  <2>2. ReplayItem(b, item, gas, at) = r
    BY <2>1 DEF ReplayItem
  <2>3. Balanced(K, m, 0, r)
    <3> HIDE DEF at
    <3> QED BY <1>1, <1>3, BridgeBalances
  <2> HIDE DEF K, N, r
  <2>4. Balanced(N, m, 0, r)
    BY <1>1, <1>2, <2>3, BalancedMore
  <2> QED BY <2>2, <2>4 DEF N
<1>4. CASE item \in TransferItem
  <2>1. item.kind = "transfer"
    BY <1>4 DEF TransferItem
  <2> DEFINE r == processTransferActivity(b, item, at)
  <2>2. ReplayItem(b, item, gas, at) = r
    BY <2>1 DEF ReplayItem
  <2>3. Balanced(K, m, 0, r)
    <3> HIDE DEF at
    <3> QED BY <1>1, <1>4, TransferBalances
  <2> HIDE DEF K, N, r
  <2>4. Balanced(N, m, 0, r)
    BY <1>1, <1>2, <2>3, BalancedMore
  <2> QED BY <2>2, <2>4 DEF N
<1>5. CASE item \in TradeItem
  <2>1. item.kind = "trade"
    BY <1>5 DEF TradeItem
  <2>2. ReplayItem(b, item, gas, at) = Trade(b, item, gas, at)
    BY <2>1 DEF ReplayItem
  <2>3. Balanced(N, m, 0, Trade(b, item, gas, at))
    BY <1>5, TradeBalances
  <2> QED BY <2>2, <2>3
<1> QED BY <1>3, <1>4, <1>5 DEF Items

(* ----------------------------- a transaction ----------------------------- *)

(* The items of a transaction, one after the other: every one finds balanced books,
   and so the last one leaves them. *)
Replays(m, items, gas, b, f) ==
  /\ f[0] = b /\ f[Len(items)] = Replayed(b, m, items, gas)
  /\ \A i \in 0..Len(items) : Balanced(Descent(m, i + 1), m, 0, f[i])
  /\ \A i \in 1..Len(items) : f[i] = ReplayItem(f[i - 1], items[i], gas[i], <<m, i>>)

LEMMA ReplayRuns ==
  ASSUME NEW m \in Nat, NEW b, Balanced(Descent(m, 1), m, 0, b),
         NEW items \in Seq(Items), NEW gas \in Seq(Nat), Len(gas) = Len(items)
  PROVE  \E f : Replays(m, items, gas, b, f)
<1> DEFINE n == Len(items)
           Ok(i, acc) == Balanced(Descent(m, i + 1), m, 0, acc)
           S == {acc \in BookOf(Descent(m, n + 1), m) : Ok(n, acc)}
           Op(acc, i) == ReplayItem(acc, items[i], gas[i], <<m, i>>)
           step == [a \in S \X (1..n) |-> IF Ok(a[2] - 1, a[1]) THEN Op(a[1], a[2]) ELSE a[1]]
           it == CHOOSE g : g = [s \in SUBSET DOMAIN [i \in DOMAIN items |-> i] |->
                   IF s = {} THEN b
                   ELSE ReplayItem(g[s \ {Max(s)}], items[[i \in DOMAIN items |-> i][Max(s)]], gas[[i \in DOMAIN items |-> i][Max(s)]], <<m, [i \in DOMAIN items |-> i][Max(s)]>>)]
           IsReplay(h) == /\ h[{}] = b
                          /\ \A s \in SUBSET (1..n) : s # {} /\ Ok(Max(s) - 1, h[s \ {Max(s)}])
                               => h[s] = Op(h[s \ {Max(s)}], Max(s))
<1>0. n \in Nat /\ DOMAIN items = 1..n /\ DOMAIN [i \in DOMAIN items |-> i] = 1..n
  OBVIOUS
<1>1. Replayed(b, m, items, gas) = it[DOMAIN [i \in DOMAIN items |-> i]]
  BY Zenon DEF Replayed, FoldLeftDomain, FoldLeft, MapThenFoldSet
<1>2. ASSUME NEW i \in 1..n, NEW acc, Ok(i - 1, acc) PROVE Ok(i, Op(acc, i))
  <2>1. (i - 1) + 1 = i /\ i \in Nat
    OBVIOUS
  <2>2. items[i] \in Items /\ gas[i] \in Nat
    OBVIOUS
  <2>3. Balanced(Descent(m, i), m, 0, acc)
    BY <1>2, <2>1
  <2> DEFINE item == items[i]
             fee == gas[i]
  <2> HIDE DEF item, fee
  <2>4. Balanced(Descent(m, i + 1), m, 0, ReplayItem(acc, item, fee, <<m, i>>))
    BY <2>1, <2>2, <2>3, ItemBalances DEF item, fee
  <2> QED BY <2>4 DEF item, fee
<1>3. ASSUME NEW i \in 0..n, NEW j \in 0..n, i <= j, NEW acc, Ok(i, acc) PROVE Ok(j, acc)
  <2>1. i + 1 \in Nat /\ j + 1 \in Nat /\ i + 1 <= j + 1 /\ m <= m
    BY <1>3
  <2> DEFINE K == Descent(m, i + 1)
             N == Descent(m, j + 1)
  <2>2. K \subseteq N
    <3> DEFINE x == i + 1
               y == j + 1
    <3>1. x \in Nat /\ y \in Nat /\ x <= y
      BY <2>1
    <3> HIDE DEF x, y
    <3>2. Descent(m, x) \subseteq Descent(m, y)
      BY <3>1, DescentMore
    <3> QED BY <3>2 DEF x, y
  <2>3. Balanced(K, m, 0, acc)
    BY <1>3
  <2> HIDE DEF K, N
  <2>4. Balanced(N, m, 0, acc)
    BY <2>1, <2>2, <2>3, BalancedMore
  <2> QED BY <2>4 DEF N
<1>4. ASSUME NEW i \in 0..n, NEW acc, Ok(i, acc) PROVE acc \in S
  <2>1. n \in 0..n /\ i <= n
    BY <1>0
  <2>2. Ok(n, acc)
    BY <1>3, <1>4, <2>1
  <2>3. acc \in BookOf(Descent(m, n + 1), m)
    BY <2>2, BookFields
  <2> QED BY <2>2, <2>3
<1>5. Ok(0, b)
  OBVIOUS
<1>6. \A s \in SUBSET (1..n) : s # {} => Max(s) \in s /\ \A y \in s : y <= Max(s)
  BY <1>0, GreatestOf
<1>7. step \in [S \X (1..n) -> S]
  <2> SUFFICES ASSUME NEW acc \in S, NEW i \in 1..n, Ok(i - 1, acc) PROVE Op(acc, i) \in S
    <3> HIDE DEF Ok, Op, S
    <3> QED BY DEF step
  <2>1. Ok(i, Op(acc, i)) /\ i \in 0..n
    BY <1>2
  <2> HIDE DEF Ok, Op, S
  <2> QED BY <1>4, <2>1
<1>8. \A acc \in S, i \in 1..n : Ok(i - 1, acc) => step[<<acc, i>>] = Op(acc, i)
  <2> HIDE DEF Ok, Op, S
  <2> QED BY DEF step
<1> HIDE DEF n, Ok, S, Op, step, it
<1>9. b \in S
  <2>1. 0 \in 0..n
    BY <1>0
  <2> QED BY <1>4, <1>5, <2>1
<1>10. ASSUME NEW h, IsReplay(h)
       PROVE  \A k \in 0..n : \A s \in SUBSET (1..k) : Ok(k, h[s])
  <2> DEFINE T == {k \in 0..n : \A s \in SUBSET (1..k) : Ok(k, h[s])}
  <2>1. 0 \in T
    <3>1. \A s \in SUBSET (1..0) : s = {}
      OBVIOUS
    <3>2. ASSUME NEW s \in SUBSET (1..0) PROVE Ok(0, h[s])
      <4>1. s = {}
        BY <3>1
      <4>2. h[s] = b
        BY <1>10, <4>1
      <4> QED BY <1>5, <4>2
    <3>3. 0 \in 0..n
      BY <1>0
    <3> QED BY <3>2, <3>3
  <2>2. ASSUME NEW k \in 1..n, k - 1 \in T PROVE k \in T
    <3> SUFFICES ASSUME NEW s \in SUBSET (1..k) PROVE Ok(k, h[s])
      BY <1>0
    <3>0. k \in 0..n /\ k - 1 \in 0..n /\ k - 1 <= k /\ \A u \in SUBSET (1..k - 1) : Ok(k - 1, h[u])
      BY <1>0, <2>2
    <3>1. CASE k \notin s
      <4>1. s \in SUBSET (1..k - 1)
        BY <3>1
      <4> QED BY <1>3, <3>0, <4>1
    <3>2. CASE k \in s
      <4>1. s \in SUBSET (1..n) /\ s # {} /\ \A y \in s : y <= k
        BY <1>0, <3>2
      <4>2. Max(s) = k
        BY <1>0, <3>2, <4>1, GreatestIs
      <4>3. s \ {k} \in SUBSET (1..k - 1)
        OBVIOUS
      <4>4. Ok(k - 1, h[s \ {k}])
        BY <3>0, <4>3
      <4>5. h[s] = Op(h[s \ {k}], k)
        BY <1>10, <4>1, <4>2, <4>4
      <4> QED BY <1>2, <4>4, <4>5
    <3> QED BY <3>1, <3>2
  <2> HIDE DEF T
  <2>3. 0..n \subseteq T
    BY <1>0, <2>1, <2>2, LoopInduction
  <2> QED BY <2>3 DEF T
<1>11. PICK g : IsFold(g, n, S, b, step)
  <2>1. n \in Nat
    BY <1>0
  <2> QED BY <1>7, <1>9, <2>1, LoopExists
<1>12. IsReplay(g)
  <2>1. g[{}] = b
    BY <1>11 DEF IsFold
  <2>2. ASSUME NEW s \in SUBSET (1..n), s # {}, Ok(Max(s) - 1, g[s \ {Max(s)}])
        PROVE  g[s] = Op(g[s \ {Max(s)}], Max(s))
    <3>1. Max(s) \in 1..n
      BY <1>6, <2>2
    <3>2. g[s] = step[<<g[s \ {Max(s)}], Max(s)>>]
      BY <1>11, <2>2 DEF IsFold
    <3>3. g[s \ {Max(s)}] \in S
      BY <1>11 DEF IsFold
    <3> QED BY <1>8, <2>2, <3>1, <3>2, <3>3
  <2> QED BY <2>1, <2>2
<1>13. \A s \in SUBSET (1..n) : s # {} => Ok(Max(s) - 1, g[s \ {Max(s)}])
  <2> SUFFICES ASSUME NEW s \in SUBSET (1..n), s # {} PROVE Ok(Max(s) - 1, g[s \ {Max(s)}])
    OBVIOUS
  <2> DEFINE k == Max(s)
  <2>1. k \in s /\ \A y \in s : y <= k
    BY <1>6
  <2> HIDE DEF k
  <2>2. k \in 1..n /\ k - 1 \in 0..n /\ s \ {k} \in SUBSET (1..k - 1)
    BY <1>0, <2>1
  <2>3. Ok(k - 1, g[s \ {k}])
    BY <1>10, <1>12, <2>2
  <2> QED BY <2>3 DEF k
<1>14. g = [s \in SUBSET DOMAIN [i \in DOMAIN items |-> i] |->
              IF s = {} THEN b
              ELSE ReplayItem(g[s \ {Max(s)}], items[[i \in DOMAIN items |-> i][Max(s)]], gas[[i \in DOMAIN items |-> i][Max(s)]], <<m, [i \in DOMAIN items |-> i][Max(s)]>>)]
  <2>1. ASSUME NEW s \in SUBSET (1..n), s # {}
        PROVE  g[s] = ReplayItem(g[s \ {Max(s)}], items[[i \in DOMAIN items |-> i][Max(s)]], gas[[i \in DOMAIN items |-> i][Max(s)]], <<m, [i \in DOMAIN items |-> i][Max(s)]>>)
    <3>1. Max(s) \in 1..n
      BY <1>6, <2>1
    <3>2. [i \in DOMAIN items |-> i][Max(s)] = Max(s)
      BY <1>0, <3>1
    <3>3. g[s] = Op(g[s \ {Max(s)}], Max(s))
      BY <1>12, <1>13, <2>1
    <3> QED BY <3>2, <3>3 DEF Op
  <2>2. g[{}] = b /\ g = [s \in SUBSET (1..n) |-> g[s]]
    BY <1>11 DEF IsFold
  <2>3. \A s \in SUBSET (1..n) :
          g[s] = IF s = {} THEN b
                 ELSE ReplayItem(g[s \ {Max(s)}], items[[i \in DOMAIN items |-> i][Max(s)]], gas[[i \in DOMAIN items |-> i][Max(s)]], <<m, [i \in DOMAIN items |-> i][Max(s)]>>)
    BY <2>1, <2>2
  <2> QED BY <1>0, <2>2, <2>3
<1>15. it = [s \in SUBSET DOMAIN [i \in DOMAIN items |-> i] |->
               IF s = {} THEN b
               ELSE ReplayItem(it[s \ {Max(s)}], items[[i \in DOMAIN items |-> i][Max(s)]], gas[[i \in DOMAIN items |-> i][Max(s)]], <<m, [i \in DOMAIN items |-> i][Max(s)]>>)]
  BY <1>14, Zenon DEF it
<1>16. IsReplay(it)
  <2>1. it[{}] = b
    BY <1>0, <1>15
  <2>2. ASSUME NEW s \in SUBSET (1..n), s # {} PROVE it[s] = Op(it[s \ {Max(s)}], Max(s))
    <3>1. Max(s) \in 1..n
      BY <1>6, <2>2
    <3>2. [i \in DOMAIN items |-> i][Max(s)] = Max(s)
      BY <1>0, <3>1
    <3>3. s \in SUBSET DOMAIN [i \in DOMAIN items |-> i]
      BY <1>0
    <3>4. it[s] = ReplayItem(it[s \ {Max(s)}], items[[i \in DOMAIN items |-> i][Max(s)]], gas[[i \in DOMAIN items |-> i][Max(s)]], <<m, [i \in DOMAIN items |-> i][Max(s)]>>)
      BY <1>15, <2>2, <3>3
    <3> QED BY <3>2, <3>4 DEF Op
  <2> QED BY <2>1, <2>2
<1> DEFINE f == [i \in 0..n |-> it[1..i]]
<1>17. \A i \in 0..n : Ok(i, f[i])
  <2> SUFFICES ASSUME NEW i \in 0..n PROVE Ok(i, f[i])
    OBVIOUS
  <2>1. 1..i \in SUBSET (1..i) /\ f[i] = it[1..i]
    OBVIOUS
  <2> QED BY <1>10, <1>16, <2>1
<1>18. ASSUME NEW i \in 1..n PROVE f[i] = Op(f[i - 1], i)
  <2> DEFINE s == 1..i
  <2>0. i \in s /\ \A y \in s : y <= i /\ y \in 1..n
    BY <1>0
  <2>1. s \in SUBSET (1..n) /\ s # {}
    <3> HIDE DEF s
    <3> QED BY <2>0
  <2>2. Max(s) = i
    <3> HIDE DEF s
    <3> QED BY <1>0, <2>0, <2>1, GreatestIs
  <2>3. s \ {i} = 1..i - 1 /\ i - 1 \in 0..n /\ i \in 0..n
    BY <1>0
  <2>4. f[i] = it[s] /\ f[i - 1] = it[s \ {i}]
    BY <2>3
  <2>5. Ok(i - 1, it[s \ {i}])
    BY <1>17, <2>3, <2>4
  <2> HIDE DEF f, s
  <2> QED BY <1>16, <2>1, <2>2, <2>4, <2>5
<1>19. f[0] = b /\ f[n] = it[1..n]
  <2>1. 0 \in 0..n /\ n \in 0..n /\ 1..0 = {}
    BY <1>0
  <2> HIDE DEF IsReplay
  <2>2. it[{}] = b
    BY <1>16 DEF IsReplay
  <2> QED BY <2>1, <2>2
<1> HIDE DEF f
<1>20. Replays(m, items, gas, b, f)
  BY <1>0, <1>1, <1>17, <1>18, <1>19 DEF Ok, Op, n, Replays
<1> QED BY <1>20

LEMMA ReplayBalances ==
  ASSUME NEW m \in Nat, NEW b, Balanced(Descent(m, 1), m, 0, b),
         NEW items \in Seq(Items), NEW gas \in Seq(Nat), Len(gas) = Len(items)
  PROVE  Balanced(Descent(m, Len(items) + 1), m, 0, Replayed(b, m, items, gas))
<1>1. PICK f : Replays(m, items, gas, b, f)
  BY ReplayRuns
<1>2. Len(items) \in 0..Len(items)
  OBVIOUS
<1> QED BY <1>1, <1>2 DEF Replays

LEMMA HeldIsInt ==
  ASSUME NEW K, NEW n, NEW all \in [Keys -> Holding(K, n)]
  PROVE  SumOfHeld(all) \in Int
<1>1. CASE Keys = {}
  <2>1. SumOfHeld(all) = 0
    BY <1>1, SumOfNone DEF SumOfHeld, SumFunction
  <2> QED BY <2>1
<1>2. CASE Keys # {}
  <2>1. PICK key \in Keys : TRUE
    BY <1>2
  <2>2. \A k \in Keys : k # key => all[k] = all[k]
    OBVIOUS
  <2> QED BY <2>2, HeldChanges
<1> QED BY <1>1, <1>2

(* ------------------------------- theorems -------------------------------- *)

(* The invariant: the books are balanced, and every lot descends from a block that
   was replayed. *)
LedgerBalanced ==
  block \in 0..MaxBlocks /\ Balanced(Descent(block + 1, 1), block, 0, Books)

LEMMA SumOfZeros ==
  ASSUME NEW f, NEW S, IsFiniteSet(S), \A x \in S : f[x] = 0
  PROVE  SumFunctionOnSet(f, S) = 0
<1> DEFINE T == {X \in SUBSET S : SumFunctionOnSet(f, X) = 0}
<1>1. {} \in T
  BY SumOfNone
<1>2. ASSUME NEW X \in SUBSET S, NEW x \in S, X \in T, x \notin X PROVE X \cup {x} \in T
  <2>1. IsFiniteSet(X)
    BY FS_Subset
  <2>2. \A y \in X \cup {x} : f[y] \in Int
    OBVIOUS
  <2>3. SumFunctionOnSet(f, X \cup {x}) = f[x] + SumFunctionOnSet(f, X)
    BY <1>2, <2>1, <2>2, SumAdds
  <2> QED BY <1>2, <2>3
<1>3. S \in T
  <2> HIDE DEF T
  <2> QED BY <1>1, <1>2, FiniteInduction
<1> QED BY <1>3

LEMMA LedgerStarts == Init => LedgerBalanced
<1> SUFFICES ASSUME Init PROVE LedgerBalanced
  OBVIOUS
<1> USE DEF Init
<1> DEFINE K == Descent(block + 1, 1)
<1>1. block \in 0..MaxBlocks /\ block = 0
  BY LedgerAssumption DEF LedgerAssumption
<1>2. NoPosition \in Holding(K, block)
  <2>1. <<>> \in LotsOf(K) /\ Qty(<<>>) = 0 /\ CostOf(<<>>) = 0
    BY NoLots DEF LotsOf
  <2> HIDE DEF K
  <2> QED BY <2>1 DEF NoPosition, Holding
<1>3. /\ Books.positions = [key \in Keys |-> NoPosition] /\ Books.trail = <<>>
      /\ Books.flows = [key \in Keys |-> [in |-> 0, out |-> 0, gap |-> 0]]
      /\ Books.paid = 0 /\ Books.relieved = 0 /\ Books.dropped = FALSE
  BY DEF Books
<1>4. [in |-> 0, out |-> 0, gap |-> 0] \in Flow /\ Net([in |-> 0, out |-> 0, gap |-> 0]) = 0
  BY DEF Flow, Net
<1>5. Books \in BookOf(K, block)
  <2> HIDE DEF K
  <2>1. positions \in [Keys -> Holding(K, block)] /\ flows \in [Keys -> Flow]
    BY <1>2, <1>4
  <2>2. trail \in Seq(AuditRow) /\ paid \in Nat /\ relieved \in Nat /\ dropped \in BOOLEAN
    <3>1. trail = <<>> /\ paid = 0 /\ relieved = 0 /\ dropped = FALSE
      OBVIOUS
    <3> HIDE DEF Init
    <3>2. <<>> \in Seq(AuditRow)
      OBVIOUS
    <3> QED BY <3>1, <3>2
  <2> HIDE DEF Init
  <2> QED BY <2>1, <2>2 DEF Books, BookOf
<1>6. \A key \in Keys : Total(Profits(<<>>, key)) = 0
  <2>1. \A key \in Keys : Profits(<<>>, key) = <<>>
    BY DEF Profits
  <2> QED BY <2>1, TotalOfNone
<1>7. Amount(NoPosition) = 0 /\ Held(NoPosition) = 0 /\ NoPosition.realized = 0
  BY DEF Amount, Held, NoPosition
<1>8. SumOfHeld(Books.positions) = 0
  <2> DEFINE all == Books.positions
             f == [key \in Keys |-> Held(all[key])]
  <2>1. \A key \in Keys : f[key] = 0
    BY <1>3, <1>7
  <2>2. DOMAIN f = Keys /\ SumOfHeld(all) = SumFunction(f)
    BY DEF SumOfHeld
  <2> HIDE DEF f
  <2>3. SumFunctionOnSet(f, Keys) = 0
    BY <2>1, KeysFinite, SumOfZeros
  <2> QED BY <2>2, <2>3 DEF SumFunction
<1>9. \A i \in DOMAIN Books.trail : Proven(Books.trail[i])
  BY <1>3
<1>10. \A key \in Keys : Books.positions[key] = NoPosition /\ Net(Books.flows[key]) = 0
  BY <1>3, <1>4
<1> HIDE DEF K, Init
<1>11. \A key \in Keys : Books.positions[key].realized = Total(Profits(Books.trail, key))
  BY <1>3, <1>6, <1>7, <1>10
<1>12. Balanced(K, block, 0, Books)
  BY <1>3, <1>5, <1>7, <1>8, <1>9, <1>10, <1>11 DEF Balanced
<1> QED BY <1>1, <1>12 DEF LedgerBalanced, K

LEMMA LedgerGoesOn == LedgerBalanced /\ [Next]_vars => LedgerBalanced'
<1> SUFFICES ASSUME LedgerBalanced, [Next]_vars PROVE LedgerBalanced'
  OBVIOUS
<1>1. block \in 0..MaxBlocks /\ Balanced(Descent(block + 1, 1), block, 0, Books) /\ MaxBlocks \in Nat
  BY LedgerAssumption DEF LedgerBalanced, LedgerAssumption
<1>2. CASE UNCHANGED vars
  <2>1. Books' = Books /\ block' = block
    BY <1>2 DEF vars, Books
  <2> QED BY <1>1, <2>1 DEF LedgerBalanced
<1>3. CASE Next
  <2>1. PICK transaction \in Transactions : ReplayTransaction(transaction)
    BY <1>3 DEF Next
  <2> DEFINE items == transaction.items
             gas == GasShares(transaction.fee, items)
             m == block + 1
             b == Replayed(Books, m, items, gas)
             K == Descent(m, 1)
             N == Descent(m, Len(items) + 1)
             M == Descent(m + 1, 1)
  <2>2. /\ block < MaxBlocks /\ block' = block + 1
        /\ positions' = b.positions /\ trail' = b.trail /\ flows' = b.flows
        /\ paid' = b.paid /\ relieved' = b.relieved /\ dropped' = b.dropped
    BY <2>1 DEF ReplayTransaction
  <2>3. items \in Seq(Items) /\ transaction.fee \in Nat
    BY LedgerAssumption DEF LedgerAssumption, Items
  <2>4. gas \in Seq(Nat) /\ Len(gas) = Len(items)
    <3> HIDE DEF items
    <3> QED BY <2>3, GasIsNatural
  <2>5. m \in Nat /\ block \in Nat /\ block <= m /\ m <= m /\ Len(items) + 1 \in Nat /\ 1 \in Nat
    BY <1>1, <2>3
  <2> HIDE DEF items, gas
  <2>6. Balanced(K, m, 0, Books)
    <3>1. K \subseteq K
      OBVIOUS
    <3>2. Balanced(K, block, 0, Books)
      BY <1>1
    <3> HIDE DEF K, m
    <3> QED BY <2>5, <3>1, <3>2, BalancedMore
  <2> HIDE DEF m
  <2>7. Balanced(N, m, 0, b)
    BY <2>3, <2>4, <2>5, <2>6, ReplayBalances
  <2>8. N \subseteq M
    BY <2>5, DescentMore
  <2>9. Balanced(M, m, 0, b)
    <3> HIDE DEF M, N, b
    <3> QED BY <2>5, <2>7, <2>8, BalancedMore
  <2>10. Books' = b
    <3>1. b \in BookOf(M, m)
      BY <2>9 DEF Balanced
    <3> HIDE DEF b
    <3>2. b = [positions |-> b.positions, trail |-> b.trail, flows |-> b.flows, paid |-> b.paid,
               relieved |-> b.relieved, dropped |-> b.dropped]
      BY <3>1 DEF BookOf
    <3>3. Books' = [positions |-> positions', trail |-> trail', flows |-> flows', paid |-> paid',
                    relieved |-> relieved', dropped |-> dropped']
      BY DEF Books
    <3> QED BY <2>2, <3>2, <3>3
  <2>11. block' = m /\ block' \in 0..MaxBlocks
    BY <1>1, <2>2 DEF m
  <2> HIDE DEF b
  <2>12. Balanced(Descent(block' + 1, 1), block', 0, Books')
    BY <2>9, <2>10, <2>11
  <2> QED BY <2>11, <2>12 DEF LedgerBalanced
<1> QED BY <1>2, <1>3 DEF vars

(* The books are balanced after every transaction: positions, proof rows and flows
   agree, and every lot was bought in a block that was replayed. *)
THEOREM LedgerStaysBalanced == Spec => []LedgerBalanced
<1> QED BY LedgerStarts, LedgerGoesOn, PTL DEF Spec

LEMMA BalancedIsTyped == LedgerBalanced => LedgerTypeOK
<1> SUFFICES ASSUME LedgerBalanced PROVE LedgerTypeOK
  OBVIOUS
<1> DEFINE K == Descent(block + 1, 1)
<1>1. block \in 0..MaxBlocks /\ Balanced(K, block, 0, Books)
  BY DEF LedgerBalanced
<1> HIDE DEF K
<1>2. Books \in BookOf(K, block)
  BY <1>1 DEF Balanced
<1>3. /\ positions \in [Keys -> Holding(K, block)] /\ trail \in Seq(AuditRow)
      /\ flows \in [Keys -> Flow] /\ paid \in Nat /\ relieved \in Nat /\ dropped \in BOOLEAN
  BY <1>2 DEF BookOf, Books
<1>4. Holding(K, block) \subseteq Position
  <2> SUFFICES ASSUME NEW p \in Holding(K, block) PROVE p \in Position
    OBVIOUS
  <2> DEFINE F == {None} \cup 0..block
  <2>1. F \subseteq Price
    BY <1>1 DEF Price
  <2>2. LotsOf(K) \subseteq Seq(Lot)
    BY LotsOfAreLots DEF Lots
  <2>3. p \in [ext : Nat, extCost : Nat, lots : LotsOf(K), qty : Nat, cost : Nat, realized : Int,
               dustCost : Nat, dustQty : Nat, first : F]
    BY HoldingFields
  <2> HIDE DEF F
  <2> QED BY <2>1, <2>2, <2>3 DEF Position
<1>5. positions \in [Keys -> Position]
  BY <1>3, <1>4
<1> QED BY <1>1, <1>3, <1>5 DEF LedgerTypeOK, Flow

LEMMA BalancedHoldings == LedgerBalanced => HoldingsAreFlows
<1> SUFFICES ASSUME LedgerBalanced PROVE HoldingsAreFlows
  OBVIOUS
<1> DEFINE K == Descent(block + 1, 1)
<1>1. Balanced(K, block, 0, Books)
  BY DEF LedgerBalanced
<1> HIDE DEF K
<1>2. /\ Books.positions = positions /\ Books.flows = flows /\ Books.paid = paid
      /\ Books.relieved = relieved /\ Books.dropped = dropped
  BY DEF Books
<1>3. positions \in [Keys -> Holding(K, block)] /\ paid \in Nat /\ relieved \in Nat
  BY <1>1, <1>2, BookFields
<1>4. ~dropped => /\ \A key \in Keys : Amount(positions[key]) = Net(flows[key])
                  /\ paid - relieved = SumOfHeld(positions) + 0
  BY <1>1, <1>2 DEF Balanced
<1>5. \A key \in Keys : /\ positions[key].qty = SumFunction(Quantities(positions[key].lots))
                        /\ positions[key].cost = SumFunction(Costs(positions[key].lots))
  <2> SUFFICES ASSUME NEW key \in Keys
               PROVE  /\ positions[key].qty = SumFunction(Quantities(positions[key].lots))
                      /\ positions[key].cost = SumFunction(Costs(positions[key].lots))
    OBVIOUS
  <2>1. positions[key] \in Holding(K, block)
    BY <1>3
  <2>2. positions[key].qty = Qty(positions[key].lots) /\ positions[key].cost = CostOf(positions[key].lots)
    BY <2>1 DEF Holding
  <2> QED BY <2>2 DEF Qty, CostOf, Total
<1>6. ASSUME ~dropped
      PROVE  /\ \A key \in Keys :
                  positions[key].ext + positions[key].qty + positions[key].dustQty
                    = flows[key].in - flows[key].out + flows[key].gap
             /\ paid - relieved = SumFunction([key \in Keys |-> Held(positions[key])])
  <2>1. \A key \in Keys : Amount(positions[key]) = Net(flows[key])
    BY <1>4, <1>6
  <2>2. paid - relieved = SumOfHeld(positions) + 0
    BY <1>4, <1>6
  <2>3. SumOfHeld(positions) \in Int
    BY <1>3, HeldIsInt
  <2>4. paid - relieved = SumOfHeld(positions)
    BY <2>2, <2>3
  <2> QED BY <2>1, <2>4 DEF Amount, Net, SumOfHeld
<1> QED BY <1>5, <1>6 DEF HoldingsAreFlows

LEMMA BalancedProfits == LedgerBalanced => PnlIsProven
<1> SUFFICES ASSUME LedgerBalanced PROVE PnlIsProven
  OBVIOUS
<1>1. Balanced(Descent(block + 1, 1), block, 0, Books)
  BY DEF LedgerBalanced
<1>2. Books.positions = positions /\ Books.trail = trail
  BY DEF Books
<1>3. /\ \A i \in DOMAIN trail : Proven(trail[i])
      /\ \A key \in Keys : positions[key].realized = Total(Profits(trail, key))
  BY <1>1, <1>2 DEF Balanced
<1> QED BY <1>3 DEF PnlIsProven, Proven, Total, Profits

(* No quantity and no cost of a position or a lot falls below zero. *)
THEOREM LedgerIsTyped == Spec => []LedgerTypeOK
<1> QED BY LedgerStaysBalanced, BalancedIsTyped, PTL

(* What a wallet holds is what came in less what went out, and no cost is lost or
   counted twice, through transfers, sales, migrations and dust. *)
THEOREM HoldingsStayFlows == Spec => []HoldingsAreFlows
<1> QED BY LedgerStaysBalanced, BalancedHoldings, PTL

(* Realized profit is that of its proof rows, and no lot is sold before it is bought. *)
THEOREM PnlStaysProven == Spec => []PnlIsProven
<1> QED BY LedgerStaysBalanced, BalancedProfits, PTL

(* ---------------------------- lots in order ------------------------------ *)

(* A lot's root and its id of three places, the order of lots, and what it is on
   these four numbers. *)
Placed(K) == \A k \in K : k[1] \in Nat /\ k[2] \in Seq(Nat) /\ Len(k[2]) = 3

IdsDiffer(l, m) == l.id[1] # m.id[1] \/ l.id[2] # m.id[2] \/ l.id[3] # m.id[3]
OlderId(l, m) ==
  \/ l.id[1] < m.id[1]
  \/ l.id[1] = m.id[1] /\ l.id[2] < m.id[2]
  \/ l.id[1] = m.id[1] /\ l.id[2] = m.id[2] /\ l.id[3] < m.id[3]
Older(l, m) == l.root < m.root \/ (l.root = m.root /\ OlderId(l, m))

LEMMA PlacesOf ==
  ASSUME NEW K, Placed(K), NEW l \in LotOf(K)
  PROVE  /\ l.root \in Nat /\ l.qty \in Nat /\ l.qty > 0
         /\ l.id \in Seq(Nat) /\ Len(l.id) = 3
         /\ l.id[1] \in Nat /\ l.id[2] \in Nat /\ l.id[3] \in Nat
<1>1. l \in Lot /\ <<l.root, l.id>> \in K
  BY DEF LotOf
<1>2. l.root \in Nat /\ l.qty \in Nat /\ l.qty > 0 /\ l.id \in Seq(Nat)
  BY <1>1, LotIsMeasured
<1>3. Len(l.id) = 3
  <2> DEFINE k == <<l.root, l.id>>
  <2>1. k \in K /\ k[2] = l.id
    BY <1>1
  <2> HIDE DEF k
  <2>2. Len(k[2]) = 3
    BY <2>1 DEF Placed
  <2> QED BY <2>1, <2>2
<1>4. 1 \in 1..Len(l.id) /\ 2 \in 1..Len(l.id) /\ 3 \in 1..Len(l.id)
  BY <1>3
<1>5. l.id[1] \in Nat /\ l.id[2] \in Nat /\ l.id[3] \in Nat
  BY <1>2, <1>4, ElementOfSeq
<1> QED BY <1>2, <1>3, <1>5

LEMMA SameIds ==
  ASSUME NEW K, Placed(K), NEW l \in LotOf(K), NEW m \in LotOf(K)
  PROVE  l.id # m.id <=> IdsDiffer(l, m)
<1> DEFINE s == l.id
           t == m.id
<1>1. s \in Seq(Nat) /\ t \in Seq(Nat) /\ Len(s) = 3 /\ Len(t) = 3
  BY PlacesOf
<1> HIDE DEF s, t
<1>2. s[1] = t[1] /\ s[2] = t[2] /\ s[3] = t[3] => s = t
  <2> SUFFICES ASSUME s[1] = t[1], s[2] = t[2], s[3] = t[3] PROVE s = t
    OBVIOUS
  <2>1. \A i \in 1..3 : s[i] = t[i]
    <3>1. \A i \in 1..3 : i = 1 \/ i = 2 \/ i = 3
      OBVIOUS
    <3> QED BY <3>1
  <2> QED BY <1>1, <2>1, SeqEqual
<1>3. s # t <=> (s[1] # t[1] \/ s[2] # t[2] \/ s[3] # t[3])
  BY <1>2
<1> QED BY <1>3 DEF s, t, IdsDiffer

LEMMA FourPlaces ==
  ASSUME NEW r \in Nat, NEW s \in Seq(Nat), Len(s) = 3
  PROVE  LET q == <<r>> \o s
         IN  DOMAIN q = 1..4 /\ q[1] = r /\ q[2] = s[1] /\ q[3] = s[2] /\ q[4] = s[3]
<1> DEFINE u == <<r>>
           q == u \o s
<1>1. u \in Seq(Nat) /\ Len(u) = 1 /\ u[1] = r
  OBVIOUS
<1> HIDE DEF u
<1>2. /\ q \in Seq(Nat) /\ Len(q) = Len(u) + Len(s)
      /\ \A i \in 1..Len(u) : q[i] = u[i] /\ \A j \in 1..Len(s) : q[Len(u) + j] = s[j]
  <2>1. /\ q \in Seq(Nat) /\ Len(q) = Len(u) + Len(s)
        /\ \A i \in 1..Len(u) + Len(s) : q[i] = IF i <= Len(u) THEN u[i] ELSE s[i - Len(u)]
    BY <1>1, ConcatProperties
  <2> HIDE DEF q
  <2>2. \A i \in 1..1 : q[i] = u[i]
    BY <1>1, <2>1
  <2>3. \A j \in 1..3 : q[1 + j] = s[j]
    <3> SUFFICES ASSUME NEW j \in 1..3 PROVE q[1 + j] = s[j]
      OBVIOUS
    <3>1. 1 + j \in 1..Len(u) + Len(s) /\ ~(1 + j <= Len(u)) /\ (1 + j) - Len(u) = j
      BY <1>1
    <3> QED BY <2>1, <3>1
  <2> QED BY <1>1, <2>1, <2>2, <2>3
<1> HIDE DEF q
<1>3. Len(q) = 4 /\ q[1] = u[1] /\ \A j \in 1..3 : q[1 + j] = s[j]
  BY <1>1, <1>2
<1>4. q[1 + 1] = s[1] /\ q[1 + 2] = s[2] /\ q[1 + 3] = s[3]
  BY <1>3
<1>5. q[2] = s[1] /\ q[3] = s[2] /\ q[4] = s[3]
  BY <1>4
<1>6. DOMAIN q = 1..4
  BY <1>2, <1>3, LenProperties
<1> QED BY <1>1, <1>3, <1>5, <1>6 DEF q, u

LEMMA EarlierIs ==
  ASSUME NEW K, Placed(K), NEW l \in LotOf(K), NEW m \in LotOf(K)
  PROVE  Earlier(l, m) <=> Older(l, m)
<1> DEFINE s == <<l.root>> \o l.id
           t == <<m.root>> \o m.id
<1>1. /\ DOMAIN s = 1..4 /\ s[1] = l.root /\ s[2] = l.id[1] /\ s[3] = l.id[2] /\ s[4] = l.id[3]
      /\ DOMAIN t = 1..4 /\ t[1] = m.root /\ t[2] = m.id[1] /\ t[3] = m.id[2] /\ t[4] = m.id[3]
  <2>1. l.root \in Nat /\ l.id \in Seq(Nat) /\ Len(l.id) = 3
    BY PlacesOf
  <2>2. m.root \in Nat /\ m.id \in Seq(Nat) /\ Len(m.id) = 3
    BY PlacesOf
  <2> DEFINE i == l.id
             j == m.id
             a == l.root
             b == m.root
  <2> HIDE DEF i, j, a, b
  <2>3. \A r \in Nat, v \in Seq(Nat) : Len(v) = 3 =>
          /\ DOMAIN (<<r>> \o v) = 1..4 /\ (<<r>> \o v)[1] = r /\ (<<r>> \o v)[2] = v[1]
          /\ (<<r>> \o v)[3] = v[2] /\ (<<r>> \o v)[4] = v[3]
    BY FourPlaces
  <2>4. s = <<a>> \o i /\ t = <<b>> \o j
    BY DEF s, t, a, b, i, j
  <2>5. /\ a \in Nat /\ i \in Seq(Nat) /\ Len(i) = 3 /\ b \in Nat /\ j \in Seq(Nat) /\ Len(j) = 3
    BY <2>1, <2>2 DEF a, b, i, j
  <2>6. /\ DOMAIN s = 1..4 /\ s[1] = a /\ s[2] = i[1] /\ s[3] = i[2] /\ s[4] = i[3]
    <3> HIDE DEF s, t
    <3> QED BY <2>3, <2>4, <2>5, Zenon
  <2>7. /\ DOMAIN t = 1..4 /\ t[1] = b /\ t[2] = j[1] /\ t[3] = j[2] /\ t[4] = j[3]
    <3> HIDE DEF s, t
    <3> QED BY <2>3, <2>4, <2>5, Zenon
  <2> QED BY <2>6, <2>7 DEF a, b, i, j
<1> HIDE DEF s, t
<1>2. Precedes(s, t) <=>
        \/ s[1] < t[1]
        \/ s[1] = t[1] /\ s[2] < t[2]
        \/ s[1] = t[1] /\ s[2] = t[2] /\ s[3] < t[3]
        \/ s[1] = t[1] /\ s[2] = t[2] /\ s[3] = t[3] /\ s[4] < t[4]
  <2> DEFINE At(i) == s[i] < t[i] /\ \A j \in 1..i - 1 : s[j] = t[j]
  <2>1. Precedes(s, t) <=> \E i \in 1..4 : At(i)
    BY <1>1 DEF Precedes
  <2>2. /\ At(1) <=> s[1] < t[1]
        /\ At(2) <=> s[2] < t[2] /\ s[1] = t[1]
    <3>1. 1..1 - 1 = {} /\ 1..2 - 1 = {1}
      OBVIOUS
    <3> QED BY <3>1
  <2>3. At(3) <=> s[3] < t[3] /\ s[1] = t[1] /\ s[2] = t[2]
    <3>1. 1..3 - 1 = {1, 2}
      OBVIOUS
    <3> QED BY <3>1
  <2>4. At(4) <=> s[4] < t[4] /\ s[1] = t[1] /\ s[2] = t[2] /\ s[3] = t[3]
    <3>1. 1..4 - 1 = {1, 2, 3}
      OBVIOUS
    <3> QED BY <3>1
  <2> HIDE DEF At
  <2>5. (\E i \in 1..4 : At(i)) <=> At(1) \/ At(2) \/ At(3) \/ At(4)
    <3>1. 1..4 = {1, 2, 3, 4}
      OBVIOUS
    <3> QED BY <3>1
  <2> QED BY <2>1, <2>2, <2>3, <2>4, <2>5
<1> QED BY <1>1, <1>2 DEF Earlier, Older, OlderId, s, t

(* Earlier is a strict order, total on lots of different ids. *)
LEMMA EarlierOrders ==
  ASSUME NEW K, Placed(K), NEW l \in LotOf(K), NEW m \in LotOf(K)
  PROVE  /\ Earlier(l, m) => ~Earlier(m, l) /\ l.root <= m.root
         /\ l.id # m.id => Earlier(l, m) \/ Earlier(m, l)
         /\ \A h \in LotOf(K) : Earlier(l, m) /\ Earlier(m, h) => Earlier(l, h)
<1>1. \A h \in LotOf(K) : /\ h.root \in Nat /\ h.id[1] \in Nat /\ h.id[2] \in Nat /\ h.id[3] \in Nat
  BY PlacesOf
<1>2. \A g, h \in LotOf(K) : Earlier(g, h) <=> Older(g, h)
  BY EarlierIs
<1>3. l.id # m.id <=> IdsDiffer(l, m)
  BY SameIds
<1>4. Older(l, m) => ~Older(m, l) /\ l.root <= m.root
  BY <1>1 DEF Older, OlderId
<1>5. IdsDiffer(l, m) => Older(l, m) \/ Older(m, l)
  BY <1>1 DEF Older, OlderId, IdsDiffer
<1>6. ASSUME NEW h \in LotOf(K), Older(l, m), Older(m, h) PROVE Older(l, h)
  BY <1>1, <1>6 DEF Older, OlderId
<1> QED BY <1>2, <1>3, <1>4, <1>5, <1>6

(* Lots as consumeTradeLots finds them: the oldest first, each once. *)
InOrder(lots) ==
  \A i, j \in DOMAIN lots : i < j => Earlier(lots[i], lots[j]) /\ lots[i].id # lots[j].id

(* What is left of a lot, whether one is left, and whether one was relieved: it has
   become less, or it is gone and was not dust. *)
OfLot(rest, lot) == rest.id = lot.id /\ rest.root = lot.root /\ rest.qty <= lot.qty
Gone(lot, lots) == \A k \in DOMAIN lots : lots[k].id # lot.id
Less(dust, lot, lots) ==
  \/ Gone(lot, lots) /\ lot.qty > dust
  \/ \E k \in DOMAIN lots : lots[k].id = lot.id /\ lots[k].qty < lot.qty

(* How the lots of a position follow earlier ones: each is new, with an id in N, or
   what is left of one; and none is relieved while an older one is left. *)
Follows(N, dust, before, after) ==
  /\ \A k \in DOMAIN after :
       after[k].id \in N \/ \E i \in DOMAIN before : after[k].id = before[i].id
  /\ \A k \in DOMAIN after, i \in DOMAIN before :
       after[k].id = before[i].id => OfLot(after[k], before[i])
  /\ \A i, j \in DOMAIN before :
       before[j].root < before[i].root /\ Less(dust, before[i], after) => Gone(before[j], after)

(* What remains of the first n lots: the first ones are gone, and of one a part. *)
Rest(lots, n, rest) ==
  \E p \in 0..n :
    /\ Len(rest) = n - p
    /\ \A k \in 1..n - p : /\ OfLot(rest[k], lots[p + k])
                           /\ k > 1 => rest[k].qty = lots[p + k].qty

LEMMA TakingInOrder ==
  ASSUME NEW K, NEW acc \in Taking(K), NEW lots \in LotsOf(K), NEW i \in 1..Len(lots),
         Rest(lots, i - 1, acc.lots), acc.left > 0 => acc.lots = <<>>
  PROVE  Rest(lots, i, TakeLot(acc, lots[i]).lots)
<1> DEFINE lot == lots[i]
           q == Least(acc.left, lot.qty)
           c == proportionalShare(lot.cost, q, lot.qty)
           kept == [lot EXCEPT !.qty = lot.qty - q, !.cost = lot.cost - c]
           s == acc.lots
           next == TakeLot(acc, lot).lots
<1>1. acc.left \in Nat /\ s \in LotsOf(K) /\ lot \in LotOf(K) /\ i \in Nat /\ i >= 1
  BY ElementOfSeq DEF Taking, LotsOf
<1>2. lot.qty \in Nat /\ lot.qty > 0 /\ q \in Nat /\ q <= lot.qty /\ (q < lot.qty => q = acc.left)
  <2>1. lot.qty \in Nat /\ lot.qty > 0
    BY <1>1, LotIsMeasured DEF LotOf
  <2> HIDE DEF lot
  <2> QED BY <1>1, <2>1 DEF Least
<1>3. next = IF q = lot.qty THEN s ELSE Append(s, kept)
  BY DEF TakeLot
<1>4. PICK p \in 0..i - 1 :
        /\ Len(s) = (i - 1) - p
        /\ \A k \in 1..(i - 1) - p : /\ OfLot(s[k], lots[p + k])
                                     /\ k > 1 => s[k].qty = lots[p + k].qty
  BY DEF Rest
<1>5. kept.id = lot.id /\ kept.root = lot.root /\ kept.qty = lot.qty - q
  <2>1. lot \in [qty : Nat \ {0}, cost : Nat, root : Nat, id : Seq(Nat)]
    BY <1>1 DEF LotOf, Lot
  <2> HIDE DEF lot, q, c
  <2> QED BY <2>1
<1>6. CASE q = lot.qty
  <2>1. acc.left > 0
    BY <1>1, <1>2, <1>6 DEF Least
  <2>2. next = <<>> /\ Len(next) = 0
    BY <1>3, <1>6, <2>1
  <2> HIDE DEF next
  <2>3. i \in 0..i /\ Len(next) = i - i /\ 1..i - i = {}
    BY <1>1, <2>2
  <2>4. Rest(lots, i, next)
    BY <2>3 DEF Rest
  <2> QED BY <2>4 DEF next
<1>7. CASE q # lot.qty
  <2>1. next = Append(s, kept) /\ s \in Seq(LotOf(K))
    BY <1>1, <1>3, <1>7 DEF LotsOf
  <2>2. Len(next) = i - p /\ next[i - p] = kept /\ \A k \in 1..(i - 1) - p : next[k] = s[k]
    <3> HIDE DEF kept, s, next
    <3>1. Len(s) = (i - 1) - p /\ Len(s) \in Nat
      BY <1>4, <2>1
    <3>2. Len(s) + 1 = i - p
      BY <1>1, <1>4
    <3>3. Len(Append(s, kept)) = Len(s) + 1 /\ Append(s, kept)[Len(s) + 1] = kept
          /\ \A k \in 1..Len(s) : Append(s, kept)[k] = s[k]
      BY <2>1
    <3> QED BY <2>1, <3>1, <3>2, <3>3
  <2>3. OfLot(kept, lot)
    BY <1>2, <1>5 DEF OfLot
  <2>4. (i - p) > 1 => kept.qty = lot.qty
    <3> SUFFICES ASSUME (i - p) > 1 PROVE q = 0
      BY <1>2, <1>5
    <3>1. s # <<>>
      BY <1>1, <1>4
    <3>2. ~(acc.left > 0)
      BY <3>1
    <3> QED BY <1>1, <1>2, <1>7, <3>2
  <2> HIDE DEF next, kept, s
  <2>5. ASSUME NEW k \in 1..i - p
        PROVE  OfLot(next[k], lots[p + k]) /\ (k > 1 => next[k].qty = lots[p + k].qty)
    <3>1. CASE k = i - p
      <4>1. p + k = i
        BY <1>1, <3>1
      <4> QED BY <2>2, <2>3, <2>4, <3>1, <4>1
    <3>2. CASE k # i - p
      <4>1. k \in 1..(i - 1) - p
        BY <1>1, <3>2
      <4> QED BY <1>4, <2>2, <4>1
    <3> QED BY <3>1, <3>2
  <2>6. p \in 0..i
    BY <1>1
  <2>7. Rest(lots, i, next)
    BY <2>2, <2>5, <2>6 DEF Rest
  <2> QED BY <2>7 DEF next
<1> QED BY <1>6, <1>7

LEMMA TakenInOrder ==
  ASSUME NEW K, NEW lots \in LotsOf(K), NEW amount \in Nat
  PROVE  Rest(lots, Len(lots), Taken(lots, amount).lots)
<1> DEFINE n == Len(lots)
<1>1. n \in Nat
  BY DEF LotsOf
<1>2. PICK f \in [0..n -> Taking(K)] :
        /\ f[0] = [left |-> amount, lots |-> <<>>, matches |-> <<>>]
        /\ f[n] = Taken(lots, amount)
        /\ \A i \in 1..n : f[i] = TakeLot(f[i - 1], lots[i])
  BY TakenLoop
<1> DEFINE Good(i) == Rest(lots, i, f[i].lots) /\ (f[i].left > 0 => f[i].lots = <<>>)
           G == {i \in 0..n : Good(i)}
<1>3. Good(0)
  <2>1. f[0].lots = <<>> /\ Len(<<>>) = 0 - 0 /\ 0 \in 0..0 /\ 1..0 - 0 = {}
    BY <1>2
  <2> QED BY <2>1 DEF Rest
<1>4. ASSUME NEW i \in 1..n, Good(i - 1) PROVE Good(i)
  <2> DEFINE a == f[i - 1]
             r == f[i]
  <2>1. a \in Taking(K) /\ r = TakeLot(a, lots[i]) /\ lots[i] \in LotOf(K) /\ r \in Taking(K)
    <3>1. i - 1 \in 0..n /\ i \in 0..n
      BY <1>1
    <3>2. lots[i] \in LotOf(K)
      BY ElementOfSeq DEF LotsOf
    <3> QED BY <1>2, <3>1, <3>2
  <2>2. Rest(lots, i - 1, a.lots) /\ (a.left > 0 => a.lots = <<>>)
    BY <1>4
  <2> HIDE DEF a, r
  <2>3. Rest(lots, i, r.lots)
    BY <2>1, <2>2, TakingInOrder
  <2>4. r.left <= a.left /\ (r.left > 0 => r.lots = a.lots)
    BY <2>1, TakingALot
  <2>5. a.left \in Nat /\ r.left \in Nat
    BY <2>1 DEF Taking
  <2>6. r.left > 0 => r.lots = <<>>
    BY <2>2, <2>4, <2>5
  <2> QED BY <2>3, <2>6 DEF r
<1>5. Good(n)
  <2> HIDE DEF Good
  <2>1. 0 \in G
    BY <1>1, <1>3
  <2>2. \A i \in 1..n : i - 1 \in G => i \in G
    BY <1>1, <1>4
  <2>3. 0..n \subseteq G
    <3> HIDE DEF G
    <3> QED BY <1>1, <2>1, <2>2, LoopInduction
  <2> QED BY <1>1, <2>3
<1> QED BY <1>2, <1>5

(* What trimming keeps of the first n lots: all but dust, in their order. *)
Kept(lots, n, dust, kept) ==
  /\ \A k \in DOMAIN kept : \E l \in 1..n : kept[k] = lots[l]
  /\ \A l \in 1..n : lots[l].qty > dust => \E k \in DOMAIN kept : kept[k] = lots[l]
  /\ InOrder(kept)

LEMMA AppendIndexes ==
  ASSUME NEW S, NEW s \in Seq(S), NEW x
  PROVE  /\ DOMAIN Append(s, x) = DOMAIN s \cup {Len(s) + 1} /\ DOMAIN s = 1..Len(s)
         /\ Len(s) \in Nat /\ Append(s, x)[Len(s) + 1] = x
         /\ \A k \in DOMAIN s : Append(s, x)[k] = s[k]
  OBVIOUS

LEMMA TrimmingInOrder ==
  ASSUME NEW K, NEW dust \in Nat, NEW acc \in Trimming(K), NEW lots \in LotsOf(K),
         NEW i \in 1..Len(lots), InOrder(lots), Kept(lots, i - 1, dust, acc.lots)
  PROVE  Kept(lots, i, dust, TrimLot(dust, acc, lots[i]).lots)
<1> DEFINE lot == lots[i]
           s == acc.lots
           next == TrimLot(dust, acc, lot).lots
<1>1. s \in LotsOf(K) /\ lot \in LotOf(K) /\ i \in Nat /\ i >= 1 /\ i \in DOMAIN lots
  BY ElementOfSeq DEF Trimming, LotsOf
<1>2. lot.qty \in Nat
  BY <1>1, LotIsMeasured DEF LotOf
<1>3. next = IF lot.qty <= dust THEN s ELSE Append(s, lot)
  <2> HIDE DEF lot
  <2>1. acc \in [lots : LotsOf(K), qty : Nat, cost : Nat]
    BY DEF Trimming
  <2> QED BY <2>1 DEF TrimLot
<1>4. /\ \A k \in DOMAIN s : \E l \in 1..i - 1 : s[k] = lots[l]
      /\ \A l \in 1..i - 1 : lots[l].qty > dust => \E k \in DOMAIN s : s[k] = lots[l]
      /\ InOrder(s)
  BY DEF Kept
<1> HIDE DEF s, next
<1>5. CASE lot.qty <= dust
  <2>1. next = s
    BY <1>3, <1>5
  <2>2. \A l \in 1..i : lots[l].qty > dust => l \in 1..i - 1
    <3> SUFFICES ASSUME NEW l \in 1..i, lots[l].qty > dust PROVE l # i
      BY <1>1
    <3> QED BY <1>2, <1>5
  <2>3. Kept(lots, i, dust, next)
    BY <1>1, <1>4, <2>1, <2>2 DEF Kept
  <2> QED BY <2>3 DEF next
<1>6. CASE ~(lot.qty <= dust)
  <2> DEFINE n == Len(s)
  <2>1. next = Append(s, lot)
    BY <1>3, <1>6
  <2>2. /\ DOMAIN next = DOMAIN s \cup {n + 1} /\ DOMAIN s = 1..n /\ n \in Nat
        /\ next[n + 1] = lot /\ \A k \in DOMAIN s : next[k] = s[k]
    <3>1. s \in Seq(LotOf(K))
      BY <1>1 DEF LotsOf
    <3> QED BY <2>1, <3>1, AppendIndexes
  <2> HIDE DEF n
  <2>3. \A k \in DOMAIN next : \E l \in 1..i : next[k] = lots[l]
    <3> SUFFICES ASSUME NEW k \in DOMAIN next PROVE \E l \in 1..i : next[k] = lots[l]
      OBVIOUS
    <3>1. CASE k = n + 1
      BY <1>1, <2>2, <3>1
    <3>2. CASE k \in DOMAIN s
      <4>1. PICK l \in 1..i - 1 : s[k] = lots[l]
        BY <1>4, <3>2
      <4> QED BY <1>1, <2>2, <3>2, <4>1
    <3> QED BY <2>2, <3>1, <3>2
  <2>4. \A l \in 1..i : lots[l].qty > dust => \E k \in DOMAIN next : next[k] = lots[l]
    <3> SUFFICES ASSUME NEW l \in 1..i, lots[l].qty > dust
                 PROVE  \E k \in DOMAIN next : next[k] = lots[l]
      OBVIOUS
    <3>1. CASE l = i
      BY <2>2, <3>1
    <3>2. CASE l # i
      <4>1. l \in 1..i - 1
        BY <1>1, <3>2
      <4>2. PICK k \in DOMAIN s : s[k] = lots[l]
        BY <1>4, <4>1
      <4> QED BY <2>2, <4>2
    <3> QED BY <3>1, <3>2
  <2>5. InOrder(next)
    <3> SUFFICES ASSUME NEW a \in DOMAIN next, NEW b \in DOMAIN next, a < b
                 PROVE  Earlier(next[a], next[b]) /\ next[a].id # next[b].id
      BY DEF InOrder
    <3>1. a \in DOMAIN s
      BY <2>2
    <3>2. CASE b \in DOMAIN s
      BY <1>4, <2>2, <3>1, <3>2 DEF InOrder
    <3>3. CASE b = n + 1
      <4>1. PICK l \in 1..i - 1 : s[a] = lots[l]
        BY <1>4, <3>1
      <4>2. l \in DOMAIN lots /\ l < i
        BY <1>1, LenProperties DEF LotsOf
      <4>3. Earlier(lots[l], lot) /\ lots[l].id # lot.id
        BY <1>1, <4>2 DEF InOrder
      <4> QED BY <2>2, <3>1, <3>3, <4>1, <4>3
    <3> QED BY <2>2, <3>2, <3>3
  <2>6. Kept(lots, i, dust, next)
    BY <2>3, <2>4, <2>5 DEF Kept
  <2> QED BY <2>6 DEF next
<1> QED BY <1>5, <1>6

LEMMA TrimmedInOrder ==
  ASSUME NEW K, NEW lots \in LotsOf(K), NEW dust \in Nat, InOrder(lots)
  PROVE  Kept(lots, Len(lots), dust, Trimmed(lots, dust).lots)
<1> DEFINE n == Len(lots)
<1>1. n \in Nat
  BY DEF LotsOf
<1>2. PICK f \in [0..n -> Trimming(K)] :
        /\ f[0] = [lots |-> <<>>, qty |-> 0, cost |-> 0]
        /\ f[n] = Trimmed(lots, dust)
        /\ \A i \in 1..n : f[i] = TrimLot(dust, f[i - 1], lots[i])
  BY TrimmedLoop
<1> DEFINE Good(i) == Kept(lots, i, dust, f[i].lots)
           G == {i \in 0..n : Good(i)}
<1>3. Good(0)
  <2>1. f[0].lots = <<>> /\ DOMAIN <<>> = {} /\ 1..0 = {}
    BY <1>2
  <2>2. Kept(lots, 0, dust, <<>>)
    BY <2>1 DEF Kept, InOrder
  <2> QED BY <2>1, <2>2
<1>4. ASSUME NEW i \in 1..n, Good(i - 1) PROVE Good(i)
  <2> DEFINE a == f[i - 1]
             r == f[i]
  <2>1. a \in Trimming(K) /\ r = TrimLot(dust, a, lots[i])
    <3>1. i - 1 \in 0..n
      BY <1>1
    <3> QED BY <1>2, <3>1
  <2>2. Kept(lots, i - 1, dust, a.lots)
    BY <1>4
  <2> HIDE DEF a, r
  <2>3. Kept(lots, i, dust, r.lots)
    BY <2>1, <2>2, TrimmingInOrder
  <2> QED BY <2>3 DEF r
<1>5. Good(n)
  <2> HIDE DEF Good
  <2>1. 0 \in G
    BY <1>1, <1>3
  <2>2. \A i \in 1..n : i - 1 \in G => i \in G
    BY <1>1, <1>4
  <2>3. 0..n \subseteq G
    <3> HIDE DEF G
    <3> QED BY <1>1, <2>1, <2>2, LoopInduction
  <2> QED BY <1>1, <2>3
<1> QED BY <1>2, <1>5

(* What relief leaves of lots in order is in order, and no lot is relieved while an
   older one is left. *)
LEMMA RestInOrder ==
  ASSUME NEW K, NEW lots \in LotsOf(K), NEW rest \in LotsOf(K), InOrder(lots),
         Rest(lots, Len(lots), rest)
  PROVE  InOrder(rest)
<1> DEFINE n == Len(lots)
<1>1. n \in Nat /\ DOMAIN lots = 1..n /\ DOMAIN rest = 1..Len(rest)
  BY DEF LotsOf
<1>2. PICK p \in 0..n :
        /\ Len(rest) = n - p
        /\ \A k \in 1..n - p : /\ OfLot(rest[k], lots[p + k])
                               /\ k > 1 => rest[k].qty = lots[p + k].qty
  BY DEF Rest
<1> SUFFICES ASSUME NEW a \in DOMAIN rest, NEW b \in DOMAIN rest, a < b
             PROVE  Earlier(rest[a], rest[b]) /\ rest[a].id # rest[b].id
  BY DEF InOrder
<1>3. a \in 1..n - p /\ b \in 1..n - p /\ p + a \in DOMAIN lots /\ p + b \in DOMAIN lots /\ p + a < p + b
  BY <1>1, <1>2
<1>4. Earlier(lots[p + a], lots[p + b]) /\ lots[p + a].id # lots[p + b].id
  BY <1>3 DEF InOrder
<1>5. /\ rest[a].id = lots[p + a].id /\ rest[a].root = lots[p + a].root
      /\ rest[b].id = lots[p + b].id /\ rest[b].root = lots[p + b].root
  BY <1>2, <1>3 DEF OfLot
<1> QED BY <1>4, <1>5 DEF Earlier

LEMMA RelievedInOrder ==
  ASSUME NEW K, Placed(K), NEW N, NEW dust \in Nat, NEW lots \in LotsOf(K), InOrder(lots),
         NEW rest \in LotsOf(K), Rest(lots, Len(lots), rest),
         NEW kept \in LotsOf(K), Kept(rest, Len(rest), dust, kept)
  PROVE  Follows(N, dust, lots, kept) /\ InOrder(kept)
<1> DEFINE n == Len(lots)
<1>1. n \in Nat /\ DOMAIN lots = 1..n
  BY DEF LotsOf
<1>2. PICK p \in 0..n :
        /\ Len(rest) = n - p
        /\ \A k \in 1..n - p : /\ OfLot(rest[k], lots[p + k])
                               /\ k > 1 => rest[k].qty = lots[p + k].qty
  BY DEF Rest
<1>3. \A k \in DOMAIN kept : \E l \in 1..n - p :
         /\ p + l \in DOMAIN lots /\ OfLot(kept[k], lots[p + l])
         /\ l > 1 => kept[k].qty = lots[p + l].qty
  <2> SUFFICES ASSUME NEW k \in DOMAIN kept
               PROVE  \E l \in 1..n - p : /\ p + l \in DOMAIN lots /\ OfLot(kept[k], lots[p + l])
                                          /\ l > 1 => kept[k].qty = lots[p + l].qty
    OBVIOUS
  <2>1. PICK l \in 1..n - p : kept[k] = rest[l]
    BY <1>2 DEF Kept
  <2>2. p + l \in DOMAIN lots
    BY <1>1
  <2> QED BY <1>2, <2>1, <2>2
<1>4. \A l \in 1..n - p : l > 1 /\ lots[p + l].qty > dust =>
        \E k \in DOMAIN kept : kept[k].id = lots[p + l].id
  <2> SUFFICES ASSUME NEW l \in 1..n - p, l > 1, lots[p + l].qty > dust
               PROVE  \E k \in DOMAIN kept : kept[k].id = lots[p + l].id
    OBVIOUS
  <2>1. rest[l].id = lots[p + l].id /\ rest[l].qty > dust
    BY <1>2 DEF OfLot
  <2>2. PICK k \in DOMAIN kept : kept[k] = rest[l]
    BY <1>2, <2>1 DEF Kept
  <2> QED BY <2>1, <2>2
<1>5. \A i, j \in DOMAIN lots : lots[i].id = lots[j].id => i = j
  BY <1>1 DEF InOrder
<1>6. \A i, j \in DOMAIN lots : lots[j].root < lots[i].root => j < i
  <2> SUFFICES ASSUME NEW i \in DOMAIN lots, NEW j \in DOMAIN lots, lots[j].root < lots[i].root, ~(j < i)
               PROVE  FALSE
    OBVIOUS
  <2>1. lots[i] \in LotOf(K) /\ lots[j] \in LotOf(K)
    BY <1>1, ElementOfSeq DEF LotsOf
  <2>2. lots[i].root \in Nat /\ lots[j].root \in Nat
    BY <2>1, PlacesOf
  <2>3. i < j
    BY <1>1, <2>2
  <2>4. Earlier(lots[i], lots[j])
    BY <2>3 DEF InOrder
  <2>5. lots[i].root <= lots[j].root
    BY <2>1, <2>4, EarlierOrders
  <2> QED BY <2>2, <2>5
<1>7. \A k \in DOMAIN kept : \E i \in DOMAIN lots : kept[k].id = lots[i].id
  BY <1>3 DEF OfLot
<1>8. \A k \in DOMAIN kept, i \in DOMAIN lots : kept[k].id = lots[i].id => OfLot(kept[k], lots[i])
  <2> SUFFICES ASSUME NEW k \in DOMAIN kept, NEW i \in DOMAIN lots, kept[k].id = lots[i].id
               PROVE  OfLot(kept[k], lots[i])
    OBVIOUS
  <2>1. PICK l \in 1..n - p : p + l \in DOMAIN lots /\ OfLot(kept[k], lots[p + l])
    BY <1>3
  <2>2. p + l = i
    BY <1>5, <2>1 DEF OfLot
  <2> QED BY <2>1, <2>2
<1>9. ASSUME NEW i \in DOMAIN lots, NEW j \in DOMAIN lots, lots[j].root < lots[i].root,
             Less(dust, lots[i], kept)
      PROVE  Gone(lots[j], kept)
  <2> SUFFICES ASSUME NEW k \in DOMAIN kept, kept[k].id = lots[j].id PROVE FALSE
    BY DEF Gone
  <2>1. PICK l \in 1..n - p : p + l \in DOMAIN lots /\ OfLot(kept[k], lots[p + l])
    BY <1>3
  <2>2. p + l = j
    BY <1>5, <2>1 DEF OfLot
  <2>3. j < i
    BY <1>6, <1>9
  <2> DEFINE u == i - p
  <2>4. u \in 1..n - p /\ u > 1 /\ p + u = i
    BY <1>1, <2>2, <2>3
  <2> HIDE DEF u
  <2>5. lots[i].qty > dust => ~Gone(lots[i], kept)
    BY <1>4, <2>4 DEF Gone
  <2>6. PICK h \in DOMAIN kept : kept[h].id = lots[i].id /\ kept[h].qty < lots[i].qty
    BY <1>9, <2>5 DEF Less
  <2>7. PICK v \in 1..n - p : /\ p + v \in DOMAIN lots /\ OfLot(kept[h], lots[p + v])
                              /\ v > 1 => kept[h].qty = lots[p + v].qty
    BY <1>3
  <2>8. p + v = i
    BY <1>5, <2>6, <2>7 DEF OfLot
  <2>9. v > 1
    BY <2>4, <2>8
  <2>10. kept[h].qty = lots[i].qty
    BY <2>7, <2>8, <2>9
  <2>11. lots[i].qty \in Nat
    <3>1. lots[i] \in LotOf(K)
      BY <1>1, ElementOfSeq DEF LotsOf
    <3> QED BY <3>1, PlacesOf
  <2> QED BY <2>6, <2>10, <2>11
<1>10. Follows(N, dust, lots, kept)
  BY <1>7, <1>8, <1>9 DEF Follows
<1> QED BY <1>10 DEF Kept

(* Relief out of one position. *)
LEMMA ConsumesInOrder ==
  ASSUME NEW K, Placed(K), NEW N, NEW n, NEW p \in Holding(K, n), InOrder(p.lots), NEW t \in Token,
         NEW amount \in Nat
  PROVE  /\ Follows(N, Dust[t], p.lots, Consume(p, t, amount).position.lots)
         /\ InOrder(Consume(p, t, amount).position.lots)
<1> DEFINE ext == ConsumeExternal(p, amount)
           e == ext.position
           wanted == amount - ext.qty
           used == ConsumeLots(e, wanted)
           u == used.position
           after == Consume(p, t, amount).position.lots
           rest == Taken(p.lots, wanted).lots
           kept == Trimmed(rest, Dust[t]).lots
<1>1. e \in Holding(K, n) /\ e.lots = p.lots /\ wanted \in Nat
  <2>1. e \in Holding(K, n) /\ ext.qty \in 0..amount /\ e.lots = p.lots
    BY ConsumeExternalTakes
  <2> HIDE DEF ext
  <2> QED BY <2>1
<1>2. Consume(p, t, amount).position = trimDustLots(u, t)
  BY DEF Consume, LotsNext, Relieved
<1> HIDE DEF ext, e, wanted
<1>3. u \in Holding(K, n)
  BY <1>1, ConsumeLotsMatches
<1>4. u.lots = rest
  <2> DEFINE taken == Taken(e.lots, wanted)
             q == wanted - taken.left
             c == SumFunction(Costs(taken.matches))
             more == Least(taken.left, e.qty - q)
             cost == Least(c + proportionalShare(e.cost - c, more, e.qty - q), e.cost)
             x == e.qty - q - more
             y == e.cost - cost
  <2>1. u = [e EXCEPT !.lots = taken.lots, !.qty = x, !.cost = y]
    BY DEF ConsumeLots
  <2> HIDE DEF taken, x, y, u
  <2>2. e \in [ext : Nat, extCost : Nat, lots : LotsOf(K), qty : Nat, cost : Nat, realized : Int,
               dustCost : Nat, dustQty : Nat, first : {None} \cup 0..n]
    BY <1>1, HoldingFields
  <2>3. u.lots = taken.lots
    BY <2>1, <2>2
  <2> QED BY <1>1, <2>3 DEF taken
<1> HIDE DEF u
<1>5. trimDustLots(u, t).lots = Trimmed(u.lots, Dust[t]).lots
  <2> DEFINE trimmed == Trimmed(u.lots, Dust[t])
             loss == Least(trimmed.cost, u.cost)
             x == Most(0, u.qty - trimmed.qty)
             y == u.cost - loss
             z == u.dustCost + loss
             v == u.dustQty + trimmed.qty
  <2>1. trimDustLots(u, t) = [u EXCEPT !.lots = trimmed.lots, !.qty = x, !.cost = y,
                                        !.dustCost = z, !.dustQty = v]
    BY DEF trimDustLots
  <2> HIDE DEF trimmed, x, y, z, v
  <2>2. u \in [ext : Nat, extCost : Nat, lots : LotsOf(K), qty : Nat, cost : Nat, realized : Int,
               dustCost : Nat, dustQty : Nat, first : {None} \cup 0..n]
    BY <1>3, HoldingFields
  <2>3. trimDustLots(u, t).lots = trimmed.lots
    BY <2>1, <2>2
  <2> QED BY <2>3 DEF trimmed
<1>6. after = kept
  BY <1>2, <1>4, <1>5
<1>7. p.lots \in LotsOf(K) /\ Dust[t] \in Nat
  BY HoldingFields, LedgerAssumption DEF LedgerAssumption
<1>8. Taken(p.lots, wanted) \in Taking(K)
  BY <1>1, <1>7, TakenSplits
<1>9. rest \in LotsOf(K) /\ Rest(p.lots, Len(p.lots), rest)
  BY <1>1, <1>7, <1>8, TakenInOrder DEF Taking
<1> HIDE DEF rest
<1>10. InOrder(rest)
  BY <1>7, <1>9, RestInOrder
<1>11. Trimmed(rest, Dust[t]) \in Trimming(K)
  BY <1>7, <1>9, TrimmedSplits
<1>12. kept \in LotsOf(K) /\ Kept(rest, Len(rest), Dust[t], kept)
  BY <1>7, <1>9, <1>10, <1>11, TrimmedInOrder DEF Trimming
<1> HIDE DEF kept, after
<1>13. Follows(N, Dust[t], p.lots, kept) /\ InOrder(kept)
  BY <1>7, <1>9, <1>12, RelievedInOrder
<1> QED BY <1>6, <1>13 DEF after

(* A set of the first numbers has as many as it reaches to. *)
LEMMA FirstNumbers ==
  ASSUME NEW n \in Nat, NEW s \in SUBSET (1..n), \A i \in s : \A j \in 1..i : j \in s
  PROVE  Cardinality(s) \in 0..n /\ s = 1..Cardinality(s)
<1>1. \E c \in 0..n : s = 1..c
  <2>1. CASE s = {}
    <3>1. s = 1..0 /\ 0 \in 0..n
      BY <2>1
    <3> QED BY <3>1
  <2>2. CASE s # {}
    <3>1. Max(s) \in s /\ \A m \in s : m <= Max(s)
      BY <2>2, GreatestOf
    <3> DEFINE c == Max(s)
    <3> HIDE DEF c
    <3>2. c \in s /\ \A m \in s : m <= c
      BY <3>1 DEF c
    <3>3. \A m \in s : m \in 1..n
      OBVIOUS
    <3>4. c \in 1..n /\ c \in 0..n
      BY <3>2, <3>3
    <3>5. \A m \in s : m \in 1..c
      BY <3>2, <3>3, <3>4
    <3>6. \A m \in 1..c : m \in s
      BY <3>2
    <3>7. s = 1..c
      BY <3>5, <3>6
    <3> QED BY <3>4, <3>7
  <2> QED BY <2>1, <2>2
<1>2. PICK c \in 0..n : s = 1..c
  BY <1>1
<1>3. Cardinality(1..c) = c
  <2>1. 1 \in Int /\ c \in Int
    OBVIOUS
  <2>2. Cardinality(1..c) = IF 1 > c THEN 0 ELSE c - 1 + 1
    BY <2>1, FS_Interval
  <2> QED BY <2>2
<1> QED BY <1>2, <1>3

(* A part of a sequence. *)
LEMMA PartOfSeq ==
  ASSUME NEW S, NEW s \in Seq(S), NEW c \in 0..Len(s)
  PROVE  /\ SubSeq(s, 1, c) \in Seq(S) /\ Len(SubSeq(s, 1, c)) = c
         /\ \A i \in 1..c : SubSeq(s, 1, c)[i] = s[i]
         /\ SubSeq(s, c + 1, Len(s)) \in Seq(S) /\ Len(SubSeq(s, c + 1, Len(s))) = Len(s) - c
         /\ \A i \in 1..Len(s) - c : SubSeq(s, c + 1, Len(s))[i] = s[c + i]
<1>1. SubSeq(s, 1, c) \in Seq(S) /\ SubSeq(s, c + 1, Len(s)) \in Seq(S)
  OBVIOUS
<1>2. Len(SubSeq(s, 1, c)) = c
  OBVIOUS
<1>3. \A i \in 1..c : SubSeq(s, 1, c)[i] = s[i]
  OBVIOUS
<1>4. Len(SubSeq(s, c + 1, Len(s))) = Len(s) - c
  OBVIOUS
<1>5. \A i \in 1..Len(s) - c : SubSeq(s, c + 1, Len(s))[i] = s[c + i]
  OBVIOUS
<1> QED BY <1>1, <1>2, <1>3, <1>4, <1>5

(* A lot goes in front of the later ones, and lots in order stay so. *)
LEMMA SortedInOrder ==
  ASSUME NEW K, Placed(K), NEW lots \in LotsOf(K), InOrder(lots), NEW lot \in LotOf(K),
         \A i \in DOMAIN lots : lots[i].id # lot.id
  PROVE  /\ InOrder(Sorted(lots, lot))
         /\ \A k \in DOMAIN Sorted(lots, lot) :
              Sorted(lots, lot)[k] = lot \/ \E i \in DOMAIN lots : Sorted(lots, lot)[k] = lots[i]
         /\ \A i \in DOMAIN lots : \E k \in DOMAIN Sorted(lots, lot) : Sorted(lots, lot)[k] = lots[i]
<1> DEFINE n == Len(lots)
           before == {i \in DOMAIN lots : ~Earlier(lot, lots[i])}
           c == Cardinality(before)
           front == SubSeq(lots, 1, c)
           back == SubSeq(lots, c + 1, n)
           r == Sorted(lots, lot)
<1>1. n \in Nat /\ DOMAIN lots = 1..n /\ lots \in Seq(LotOf(K)) /\ \A i \in 1..n : lots[i] \in LotOf(K)
  <2>1. n \in Nat /\ DOMAIN lots = 1..n /\ lots \in Seq(LotOf(K))
    BY DEF LotsOf
  <2> QED BY <2>1, ElementOfSeq
<1>2. c \in 0..n /\ before = 1..c
  <2>1. before \in SUBSET (1..n)
    BY <1>1
  <2>2. ASSUME NEW i \in before, NEW j \in 1..i PROVE j \in before
    <3>1. i \in 1..n /\ j \in 1..n /\ ~Earlier(lot, lots[i])
      BY <1>1, <2>1
    <3>2. CASE j = i
      BY <3>2
    <3>3. CASE j # i
      <4>1. Earlier(lots[j], lots[i])
        BY <1>1, <3>1, <3>3 DEF InOrder
      <4>2. lots[j] \in LotOf(K) /\ lots[i] \in LotOf(K)
        BY <1>1, <3>1
      <4>3. Earlier(lot, lots[j]) => Earlier(lot, lots[i])
        BY <4>1, <4>2, EarlierOrders
      <4> QED BY <1>1, <3>1, <4>3
    <3> QED BY <3>2, <3>3
  <2> HIDE DEF before, n
  <2> QED BY <1>1, <2>1, <2>2, FirstNumbers
<1>3. /\ \A i \in 1..c : Earlier(lots[i], lot)
      /\ \A i \in c + 1..n : Earlier(lot, lots[i])
  <2>1. ASSUME NEW i \in 1..c PROVE Earlier(lots[i], lot)
    <3>1. i \in 1..n /\ ~Earlier(lot, lots[i]) /\ lots[i].id # lot.id
      BY <1>1, <1>2
    <3>2. lots[i] \in LotOf(K)
      BY <1>1, <3>1
    <3> QED BY <3>1, <3>2, EarlierOrders
  <2>2. ASSUME NEW i \in c + 1..n PROVE Earlier(lot, lots[i])
    <3>1. i \in DOMAIN lots /\ i \notin 1..c
      BY <1>1, <1>2
    <3> QED BY <1>2, <3>1
  <2> QED BY <2>1, <2>2
<1>4. r = SubSeq(lots, 1, (1 + c) - 1) \o <<lot>> \o SubSeq(lots, 1 + c, n)
  BY DEF Sorted, InsertAt
<1> HIDE DEF n, before, c, r
<1>5. (1 + c) - 1 = c /\ 1 + c = c + 1
  BY <1>2
<1>6. r = (front \o <<lot>>) \o back
  BY <1>4, <1>5
<1>7. /\ front \in Seq(LotOf(K)) /\ Len(front) = c /\ \A i \in 1..c : front[i] = lots[i]
      /\ back \in Seq(LotOf(K)) /\ Len(back) = n - c /\ \A i \in 1..n - c : back[i] = lots[c + i]
  <2>1. /\ front \in Seq(LotOf(K)) /\ Len(front) = c
        /\ \A i \in 1..c : front[i] = lots[i]
    BY <1>1, <1>2, PartOfSeq DEF n
  <2>2. /\ back \in Seq(LotOf(K)) /\ Len(back) = n - c
        /\ \A i \in 1..n - c : back[i] = lots[c + i]
    BY <1>1, <1>2, PartOfSeq DEF n
  <2> QED BY <2>1, <2>2
<1> DEFINE head == front \o <<lot>>
<1> HIDE DEF front, back
<1>8. /\ head \in Seq(LotOf(K)) /\ Len(head) = c + 1 /\ head[c + 1] = lot
      /\ \A i \in 1..c : head[i] = lots[i]
  <2>1. head = Append(front, lot)
    BY <1>7, AppendIsConcat
  <2> HIDE DEF head
  <2>2. /\ Append(front, lot) \in Seq(LotOf(K)) /\ Len(Append(front, lot)) = Len(front) + 1
        /\ Append(front, lot)[Len(front) + 1] = lot
        /\ \A i \in 1..Len(front) : Append(front, lot)[i] = front[i]
    BY <1>7, AppendProperties
  <2> QED BY <1>7, <2>1, <2>2
<1> HIDE DEF head
<1>9. /\ r \in Seq(LotOf(K)) /\ Len(r) = n + 1
      /\ \A i \in 1..n + 1 : r[i] = IF i <= c THEN lots[i] ELSE IF i = c + 1 THEN lot ELSE lots[i - 1]
  <2>1. r = head \o back
    BY <1>6 DEF head
  <2>5. head \in Seq(LotOf(K)) /\ back \in Seq(LotOf(K))
    BY <1>7, <1>8
  <2>2. /\ head \o back \in Seq(LotOf(K)) /\ Len(head \o back) = Len(head) + Len(back)
        /\ \A i \in 1..Len(head) + Len(back) : (head \o back)[i] =
              IF i <= Len(head) THEN head[i] ELSE back[i - Len(head)]
    BY <2>5, ConcatProperties
  <2>3. Len(head) + Len(back) = n + 1
    BY <1>1, <1>2, <1>7, <1>8
  <2>4. ASSUME NEW i \in 1..n + 1
        PROVE  r[i] = IF i <= c THEN lots[i] ELSE IF i = c + 1 THEN lot ELSE lots[i - 1]
    <3>1. r[i] = IF i <= c + 1 THEN head[i] ELSE back[i - (c + 1)]
      BY <1>8, <2>1, <2>2, <2>3
    <3>2. CASE i <= c + 1
      BY <1>2, <1>8, <3>1, <3>2
    <3>3. CASE ~(i <= c + 1)
      <4> DEFINE j == i - (c + 1)
      <4>1. j \in 1..n - c /\ c + j = i - 1
        BY <1>1, <1>2, <3>3
      <4> HIDE DEF j
      <4>2. back[j] = lots[c + j]
        BY <1>7, <4>1
      <4>3. r[i] = lots[i - 1]
        BY <3>1, <3>3, <4>1, <4>2 DEF j
      <4> QED BY <1>2, <3>3, <4>3
    <3> QED BY <3>2, <3>3
  <2> QED BY <2>1, <2>2, <2>3, <2>4
<1>10. DOMAIN r = 1..n + 1
  BY <1>9
<1>11. InOrder(r)
  <2> SUFFICES ASSUME NEW i \in 1..n + 1, NEW j \in 1..n + 1, i < j
               PROVE  Earlier(r[i], r[j]) /\ r[i].id # r[j].id
    BY <1>10 DEF InOrder
  <2>1. CASE j <= c
    <3>1. i \in DOMAIN lots /\ j \in DOMAIN lots /\ r[i] = lots[i] /\ r[j] = lots[j]
      BY <1>1, <1>2, <1>9, <2>1
    <3> QED BY <3>1 DEF InOrder
  <2>2. CASE j = c + 1
    <3>1. i \in 1..c /\ i \in DOMAIN lots /\ r[i] = lots[i] /\ r[j] = lot
      BY <1>1, <1>2, <1>9, <2>2
    <3> QED BY <1>3, <3>1
  <2>3. CASE j > c + 1
    <3> DEFINE h == j - 1
    <3>1. h \in c + 1..n /\ h \in DOMAIN lots /\ r[j] = lots[h]
      BY <1>1, <1>2, <1>9, <2>3
    <3>2. CASE i <= c
      <4>1. i \in DOMAIN lots /\ r[i] = lots[i] /\ i < h
        BY <1>1, <1>2, <1>9, <2>3, <3>2
      <4> QED BY <3>1, <4>1 DEF InOrder
    <3>3. CASE i = c + 1
      <4>1. r[i] = lot
        BY <1>2, <1>9, <3>3
      <4> HIDE DEF h
      <4> QED BY <1>3, <3>1, <4>1
    <3>4. CASE i > c + 1
      <4> DEFINE g == i - 1
      <4>1. g \in DOMAIN lots /\ r[i] = lots[g] /\ g < h
        BY <1>1, <1>2, <1>9, <3>4
      <4> HIDE DEF g, h
      <4> QED BY <3>1, <4>1 DEF InOrder
    <3> QED BY <1>2, <3>2, <3>3, <3>4
  <2> QED BY <1>2, <2>1, <2>2, <2>3
<1>12. \A k \in 1..n + 1 : r[k] = lot \/ \E i \in DOMAIN lots : r[k] = lots[i]
  <2> SUFFICES ASSUME NEW k \in 1..n + 1, r[k] # lot PROVE \E i \in DOMAIN lots : r[k] = lots[i]
    OBVIOUS
  <2>1. CASE k <= c
    <3>1. k \in DOMAIN lots /\ r[k] = lots[k]
      BY <1>1, <1>2, <1>9, <2>1
    <3> QED BY <3>1
  <2>2. CASE ~(k <= c)
    <3>1. k - 1 \in DOMAIN lots /\ r[k] = lots[k - 1]
      BY <1>1, <1>2, <1>9, <2>2
    <3> QED BY <3>1
  <2> QED BY <2>1, <2>2
<1>13. \A i \in DOMAIN lots : \E k \in 1..n + 1 : r[k] = lots[i]
  <2> SUFFICES ASSUME NEW i \in DOMAIN lots PROVE \E k \in 1..n + 1 : r[k] = lots[i]
    OBVIOUS
  <2>1. CASE i <= c
    <3>1. i \in 1..n + 1 /\ r[i] = lots[i]
      BY <1>1, <1>2, <1>9, <2>1
    <3> QED BY <3>1
  <2>2. CASE ~(i <= c)
    <3>1. i + 1 \in 1..n + 1 /\ (i + 1) - 1 = i /\ ~(i + 1 <= c) /\ i + 1 # c + 1
      BY <1>1, <1>2, <2>2
    <3>2. r[i + 1] = lots[i]
      BY <1>9, <3>1
    <3> QED BY <3>1, <3>2
  <2> QED BY <2>1, <2>2
<1> QED BY <1>10, <1>11, <1>12, <1>13 DEF r

(* A line of lots goes on: what follows them is in order. *)
Lines(N, dust, before, after) == Follows(N, dust, before, after) /\ InOrder(after)
Old(N, lots) == \A i \in DOMAIN lots : lots[i].id \notin N

LEMMA SameLines ==
  ASSUME NEW K, Placed(K), NEW N, NEW dust, NEW lots \in LotsOf(K), InOrder(lots)
  PROVE  Lines(N, dust, lots, lots)
<1>1. \A i \in DOMAIN lots : lots[i].qty \in Nat
  <2>1. \A i \in DOMAIN lots : lots[i] \in LotOf(K)
    BY ElementOfSeq DEF LotsOf
  <2> QED BY <2>1, PlacesOf
<1>2. DOMAIN lots = 1..Len(lots) /\ Len(lots) \in Nat
  BY DEF LotsOf
<1>3. \A i, j \in DOMAIN lots : lots[i].id = lots[j].id => i = j
  BY <1>2 DEF InOrder
<1>4. \A i \in DOMAIN lots : ~Less(dust, lots[i], lots)
  BY <1>1, <1>3 DEF Less, Gone
<1>5. \A i, k \in DOMAIN lots : lots[k].id = lots[i].id => OfLot(lots[k], lots[i])
  BY <1>1, <1>3 DEF OfLot
<1>6. Follows(N, dust, lots, lots)
  BY <1>4, <1>5 DEF Follows
<1> QED BY <1>6 DEF Lines

LEMMA FollowsOn ==
  ASSUME NEW K, Placed(K), NEW N, NEW dust \in Nat, NEW a \in LotsOf(K), NEW b \in LotsOf(K),
         NEW c \in LotsOf(K), Old(N, a), Lines(N, dust, a, b), Lines(N, dust, b, c)
  PROVE  Lines(N, dust, a, c)
<1>1. /\ \A i \in DOMAIN a : a[i].qty \in Nat /\ a[i].root \in Nat
      /\ \A i \in DOMAIN b : b[i].qty \in Nat /\ b[i].root \in Nat
      /\ \A i \in DOMAIN c : c[i].qty \in Nat /\ c[i].root \in Nat
  <2>1. /\ \A i \in DOMAIN a : a[i] \in LotOf(K)
        /\ \A i \in DOMAIN b : b[i] \in LotOf(K)
        /\ \A i \in DOMAIN c : c[i] \in LotOf(K)
    BY ElementOfSeq DEF LotsOf
  <2> QED BY <2>1, PlacesOf
<1>2. /\ \A k \in DOMAIN b : b[k].id \in N \/ \E i \in DOMAIN a : b[k].id = a[i].id
      /\ \A k \in DOMAIN b, i \in DOMAIN a : b[k].id = a[i].id => OfLot(b[k], a[i])
      /\ \A i, j \in DOMAIN a : a[j].root < a[i].root /\ Less(dust, a[i], b) => Gone(a[j], b)
  BY DEF Lines, Follows
<1>3. /\ \A k \in DOMAIN c : c[k].id \in N \/ \E i \in DOMAIN b : c[k].id = b[i].id
      /\ \A k \in DOMAIN c, i \in DOMAIN b : c[k].id = b[i].id => OfLot(c[k], b[i])
      /\ \A i, j \in DOMAIN b : b[j].root < b[i].root /\ Less(dust, b[i], c) => Gone(b[j], c)
  BY DEF Lines, Follows
<1>4. \A k \in DOMAIN c, i \in DOMAIN a : c[k].id = a[i].id =>
        \E j \in DOMAIN b : c[k].id = b[j].id
  BY <1>3 DEF Old
<1>5. \A k \in DOMAIN c : c[k].id \in N \/ \E i \in DOMAIN a : c[k].id = a[i].id
  BY <1>2, <1>3
<1>6. ASSUME NEW k \in DOMAIN c, NEW i \in DOMAIN a, c[k].id = a[i].id
      PROVE  OfLot(c[k], a[i])
  <2>1. PICK j \in DOMAIN b : c[k].id = b[j].id
    BY <1>4, <1>6
  <2>2. OfLot(c[k], b[j]) /\ OfLot(b[j], a[i])
    BY <1>2, <1>3, <1>6, <2>1
  <2> QED BY <1>1, <2>2 DEF OfLot
<1>7. ASSUME NEW i \in DOMAIN a, NEW j \in DOMAIN a, a[j].root < a[i].root, Less(dust, a[i], c)
      PROVE  Gone(a[j], c)
  <2>1. CASE Gone(a[j], b)
    BY <1>4, <2>1 DEF Gone
  <2>2. CASE ~Gone(a[j], b)
    <3>1. PICK g \in DOMAIN b : b[g].id = a[j].id
      BY <2>2 DEF Gone
    <3>2. ~Less(dust, a[i], b)
      BY <1>2, <1>7, <2>2
    <3>3. PICK h \in DOMAIN b : b[h].id = a[i].id
      <4>1. CASE Gone(a[i], b)
        <5>1. ~(a[i].qty > dust)
          BY <3>2, <4>1 DEF Less
        <5>2. PICK k \in DOMAIN c : c[k].id = a[i].id
          BY <1>7, <5>1 DEF Less
        <5> QED BY <1>4, <5>2
      <4>2. CASE ~Gone(a[i], b)
        BY <4>2 DEF Gone
      <4> QED BY <4>1, <4>2
    <3>4. OfLot(b[g], a[j]) /\ OfLot(b[h], a[i])
      BY <1>2, <3>1, <3>3
    <3>5. b[h].qty = a[i].qty
      <4>1. ~(b[h].qty < a[i].qty)
        BY <3>2, <3>3 DEF Less
      <4> QED BY <1>1, <3>4, <4>1 DEF OfLot
    <3>6. b[g].root < b[h].root
      BY <1>7, <3>4 DEF OfLot
    <3>7. Less(dust, b[h], c)
      BY <1>7, <3>3, <3>5 DEF Less, Gone
    <3>8. Gone(b[g], c)
      BY <1>3, <3>6, <3>7
    <3> QED BY <3>1, <3>8 DEF Gone
  <2> QED BY <2>1, <2>2
<1>8. Follows(N, dust, a, c)
  BY <1>5, <1>6, <1>7 DEF Follows
<1> QED BY <1>8 DEF Lines

(* A new lot in its place. *)
LEMMA AddedLotLines ==
  ASSUME NEW K, Placed(K), NEW N, NEW dust \in Nat, NEW lots \in LotsOf(K), InOrder(lots),
         NEW lot \in LotOf(K), lot.id \in N, \A i \in DOMAIN lots : lots[i].id # lot.id
  PROVE  Lines(N, dust, lots, Sorted(lots, lot))
<1> DEFINE r == Sorted(lots, lot)
<1>1. /\ InOrder(r)
      /\ \A k \in DOMAIN r : r[k] = lot \/ \E i \in DOMAIN lots : r[k] = lots[i]
      /\ \A i \in DOMAIN lots : \E k \in DOMAIN r : r[k] = lots[i]
  BY SortedInOrder
<1> HIDE DEF r
<1>2. \A i \in DOMAIN lots : lots[i].qty \in Nat
  <2>1. \A i \in DOMAIN lots : lots[i] \in LotOf(K)
    BY ElementOfSeq DEF LotsOf
  <2> QED BY <2>1, PlacesOf
<1>3. DOMAIN lots = 1..Len(lots) /\ Len(lots) \in Nat
  BY DEF LotsOf
<1>4. \A i, j \in DOMAIN lots : lots[i].id = lots[j].id => i = j
  BY <1>3 DEF InOrder
<1>5. \A k \in DOMAIN r, i \in DOMAIN lots : r[k].id = lots[i].id => r[k] = lots[i]
  BY <1>1, <1>4
<1>6. \A k \in DOMAIN r : r[k].id \in N \/ \E i \in DOMAIN lots : r[k].id = lots[i].id
  BY <1>1
<1>7. \A k \in DOMAIN r, i \in DOMAIN lots : r[k].id = lots[i].id => OfLot(r[k], lots[i])
  BY <1>2, <1>5 DEF OfLot
<1>8. \A i \in DOMAIN lots : ~Less(dust, lots[i], r)
  BY <1>1, <1>2, <1>5 DEF Less, Gone
<1>9. Follows(N, dust, lots, r)
  BY <1>6, <1>7, <1>8 DEF Follows
<1> QED BY <1>1, <1>9 DEF Lines, r

LEMMA AddingLines ==
  ASSUME NEW K, NEW n, NEW p \in Holding(K, n), NEW lot \in Share(K)
  PROVE  addTradeLot(p, lot).lots = IF lot.qty <= 0 THEN p.lots ELSE Sorted(p.lots, lot)
<1> DEFINE q == p.qty + lot.qty
           c == p.cost + lot.cost
           s == Sorted(p.lots, lot)
<1>1. p \in [ext : Nat, extCost : Nat, lots : LotsOf(K), qty : Nat, cost : Nat, realized : Int,
             dustCost : Nat, dustQty : Nat, first : {None} \cup 0..n]
  BY HoldingFields
<1>2. addTradeLot(p, lot) = IF lot.qty <= 0 THEN p ELSE [p EXCEPT !.qty = q, !.cost = c, !.lots = s]
  BY <1>1 DEF addTradeLot
<1> HIDE DEF q, c, s
<1>3. [p EXCEPT !.qty = q, !.cost = c, !.lots = s].lots = s
  BY <1>1
<1> QED BY <1>2, <1>3 DEF s

(* Lots to add are new ones, each its own. *)
Fresh(N, more, lots) ==
  /\ \A j \in DOMAIN more : more[j].id \in N
  /\ \A j \in DOMAIN more, i \in DOMAIN lots : lots[i].id # more[j].id
  /\ \A i, j \in DOMAIN more : i # j => more[i].id # more[j].id

(* After i lots are added. *)
Grown(N, dust, base, lots, more, i, next) ==
  /\ Lines(N, dust, base, next)
  /\ \A k \in DOMAIN next : \/ \E l \in DOMAIN lots : next[k].id = lots[l].id
                            \/ \E j \in 1..i : next[k].id = more[j].id

LEMMA AddingInOrder ==
  ASSUME NEW K, Placed(K), NEW N, NEW dust \in Nat, NEW base \in LotsOf(K), Old(N, base),
         NEW n, NEW a \in Holding(K, n), NEW lots, NEW more \in SharesOf(K), Fresh(N, more, lots),
         NEW i \in 1..Len(more), Grown(N, dust, base, lots, more, i - 1, a.lots)
  PROVE  Grown(N, dust, base, lots, more, i, addTradeLot(a, more[i]).lots)
<1> DEFINE lot == more[i]
           old == a.lots
           next == addTradeLot(a, lot).lots
<1>1. Len(more) \in Nat /\ DOMAIN more = 1..Len(more) /\ lot \in Share(K)
  BY ElementOfSeq DEF SharesOf
<1>2. next = IF lot.qty <= 0 THEN old ELSE Sorted(old, lot)
  <2> HIDE DEF lot
  <2> QED BY <1>1, AddingLines
<1>3. old \in LotsOf(K)
  BY HoldingFields
<1>4. /\ Lines(N, dust, base, old)
      /\ \A k \in DOMAIN old : \/ \E l \in DOMAIN lots : old[k].id = lots[l].id
                               \/ \E j \in 1..i - 1 : old[k].id = more[j].id
  BY DEF Grown
<1>5. \A k \in DOMAIN old : old[k].id # lot.id
  <2> SUFFICES ASSUME NEW k \in DOMAIN old PROVE old[k].id # lot.id
    OBVIOUS
  <2>1. i \in DOMAIN more /\ \A j \in 1..i - 1 : j \in DOMAIN more /\ j # i
    BY <1>1
  <2>2. CASE \E l \in DOMAIN lots : old[k].id = lots[l].id
    BY <2>1, <2>2 DEF Fresh
  <2>3. CASE \E j \in 1..i - 1 : old[k].id = more[j].id
    BY <2>1, <2>3 DEF Fresh
  <2> QED BY <1>4, <2>2, <2>3
<1>6. lot.id \in N
  BY <1>1 DEF Fresh
<1> HIDE DEF next, old
<1>7. CASE lot.qty <= 0
  <2>1. next = old
    BY <1>2, <1>7
  <2>2. \A j \in 1..i - 1 : j \in 1..i
    BY <1>1
  <2>3. Grown(N, dust, base, lots, more, i, next)
    BY <1>4, <2>1, <2>2 DEF Grown
  <2> QED BY <2>3 DEF next
<1>8. CASE ~(lot.qty <= 0)
  <2>1. next = Sorted(old, lot)
    BY <1>2, <1>8
  <2>2. lot \in LotOf(K)
    <3> HIDE DEF lot
    <3>1. /\ lot \in [qty : Int, cost : Nat, root : Nat, id : Seq(Nat)]
          /\ <<lot.root, lot.id>> \in K
      BY <1>1 DEF Share
    <3>2. lot.qty \in Nat \ {0}
      BY <1>8, <3>1
    <3>3. lot \in Lot
      BY <3>1, <3>2 DEF Lot
    <3> QED BY <3>1, <3>3 DEF LotOf
  <2> HIDE DEF lot
  <2>3. InOrder(old)
    BY <1>4 DEF Lines
  <2>4. Lines(N, dust, old, Sorted(old, lot))
    BY <1>3, <1>5, <1>6, <2>2, <2>3, AddedLotLines
  <2>5. /\ next \in LotsOf(K)
        /\ \A k \in DOMAIN next : next[k] = lot \/ \E l \in DOMAIN old : next[k] = old[l]
    <3>1. Sorted(old, lot) \in LotsOf(K)
      BY <1>3, <2>2, SortedAdds
    <3>2. \A k \in DOMAIN Sorted(old, lot) :
            Sorted(old, lot)[k] = lot \/ \E l \in DOMAIN old : Sorted(old, lot)[k] = old[l]
      BY <1>3, <1>5, <2>2, <2>3, SortedInOrder
    <3> QED BY <2>1, <3>1, <3>2
  <2>6. Lines(N, dust, base, next)
    <3>1. Lines(N, dust, old, next)
      BY <2>1, <2>4
    <3> QED BY <1>3, <1>4, <2>5, <3>1, FollowsOn
  <2>7. ASSUME NEW k \in DOMAIN next
        PROVE  \/ \E l \in DOMAIN lots : next[k].id = lots[l].id
               \/ \E j \in 1..i : next[k].id = more[j].id
    <3>1. CASE next[k] = lot
      <4>1. i \in 1..i
        BY <1>1
      <4> QED BY <3>1, <4>1 DEF lot
    <3>2. CASE \E l \in DOMAIN old : next[k] = old[l]
      <4>1. \A j \in 1..i - 1 : j \in 1..i
        BY <1>1
      <4> QED BY <1>4, <3>2, <4>1
    <3> QED BY <2>5, <3>1, <3>2
  <2>8. Grown(N, dust, base, lots, more, i, next)
    BY <2>6, <2>7 DEF Grown
  <2> QED BY <2>8 DEF next, lot
<1> QED BY <1>7, <1>8

LEMMA AddedInOrder ==
  ASSUME NEW K, Placed(K), NEW N, NEW dust \in Nat, NEW base \in LotsOf(K), Old(N, base),
         NEW top, NEW p \in Holding(K, top), NEW more \in SharesOf(K), Fresh(N, more, p.lots),
         Lines(N, dust, base, p.lots)
  PROVE  Lines(N, dust, base, AllAdded(p, more).lots)
<1> DEFINE n == Len(more)
           lots == p.lots
<1>1. n \in Nat
  BY DEF SharesOf
<1>2. PICK f \in [0..n -> Holding(K, top)] :
        /\ f[0] = p
        /\ f[n] = AllAdded(p, more)
        /\ \A i \in 1..n : f[i] = addTradeLot(f[i - 1], more[i])
  BY BoughtLoop
<1> DEFINE Good(i) == Grown(N, dust, base, lots, more, i, f[i].lots)
           G == {i \in 0..n : Good(i)}
<1>3. Good(0)
  <2>1. f[0].lots = lots
    BY <1>2
  <2>2. Grown(N, dust, base, lots, more, 0, lots)
    BY DEF Grown
  <2> QED BY <2>1, <2>2
<1>4. ASSUME NEW i \in 1..n, Good(i - 1) PROVE Good(i)
  <2> DEFINE a == f[i - 1]
             r == f[i]
  <2>1. a \in Holding(K, top) /\ r = addTradeLot(a, more[i])
    <3>1. i - 1 \in 0..n
      BY <1>1
    <3> QED BY <1>2, <3>1
  <2>2. Grown(N, dust, base, lots, more, i - 1, a.lots)
    BY <1>4
  <2> HIDE DEF a, r
  <2>3. Fresh(N, more, lots)
    OBVIOUS
  <2> HIDE DEF lots
  <2>4. Grown(N, dust, base, lots, more, i, r.lots)
    BY <2>1, <2>2, <2>3, AddingInOrder
  <2> QED BY <2>4 DEF r
<1>5. Good(n)
  <2> HIDE DEF Good
  <2>1. 0 \in G
    BY <1>1, <1>3
  <2>2. \A i \in 1..n : i - 1 \in G => i \in G
    BY <1>1, <1>4
  <2>3. 0..n \subseteq G
    <3> HIDE DEF G
    <3> QED BY <1>1, <2>1, <2>2, LoopInduction
  <2> QED BY <1>1, <2>3
<1>6. Grown(N, dust, base, lots, more, n, AllAdded(p, more).lots)
  BY <1>2, <1>5
<1> QED BY <1>6 DEF Grown

(* ------------------------- books with lots in order ---------------------- *)

(* Ids of lots that a block makes, and positions that follow those at its start. *)
NewIds(m) == {Append(<<m, i>>, j) : i \in Nat \ {0}, j \in Nat}
Started(m, base) ==
  /\ base \in [Keys -> Holding(Descent(m, 1), m)]
  /\ \A key \in Keys : InOrder(base[key].lots)
Lined(m, base, P) ==
  \A key \in Keys : Lines(NewIds(m), Dust[key[2]], base[key].lots, P[key].lots)
SameLots(P, Q) == \A key \in Keys : Q[key].lots = P[key].lots

LEMMA DescentIsPlaced ==
  ASSUME NEW m \in Nat, NEW i \in Nat
  PROVE  Placed(Descent(m, i))
  BY DEF Placed, Descent

LEMMA StartIsOld ==
  ASSUME NEW m \in Nat, NEW lots \in LotsOf(Descent(m, 1))
  PROVE  Old(NewIds(m), lots)
<1> SUFFICES ASSUME NEW k \in DOMAIN lots, lots[k].id \in NewIds(m) PROVE FALSE
  BY DEF Old
<1>0. PICK i \in Nat \ {0}, j \in Nat : lots[k].id = Append(<<m, i>>, j)
  BY DEF NewIds
<1>1. lots[k] \in LotOf(Descent(m, 1))
  BY ElementOfSeq DEF LotsOf
<1> DEFINE id == lots[k].id
<1>2. id[1] < m \/ (id[1] = m /\ id[2] < 1)
  <2> DEFINE d == <<lots[k].root, id>>
  <2>1. d \in Descent(m, 1) /\ d[2] = id
    BY <1>1 DEF LotOf
  <2> HIDE DEF d, id
  <2> QED BY <2>1 DEF Descent
<1>3. id[1] = m /\ id[2] = i
  BY <1>0, ThreePlaces
<1> HIDE DEF id
<1> QED BY <1>2, <1>3

LEMMA LinesStay ==
  ASSUME NEW m, NEW base, NEW P, NEW Q, Lined(m, base, P), SameLots(P, Q)
  PROVE  Lined(m, base, Q)
BY DEF Lined, SameLots

LEMMA LinesChange ==
  ASSUME NEW m, NEW base, NEW S, NEW P \in [Keys -> S], NEW w \in Wallet, NEW t \in Token, NEW p,
         Lined(m, base, P),
         Lines(NewIds(m), Dust[t], base[<<w, t>>].lots, p.lots)
  PROVE  Lined(m, base, [P EXCEPT ![<<w, t>>] = p])
<1> DEFINE here == <<w, t>>
<1>1. here \in Keys /\ here[2] = t
  BY DEF Keys
<1> SUFFICES ASSUME NEW key \in Keys
             PROVE  Lines(NewIds(m), Dust[key[2]], base[key].lots, [P EXCEPT ![here] = p][key].lots)
  BY DEF Lined
<1>2. CASE key = here
  <2>1. [P EXCEPT ![here] = p][key] = p
    BY <1>1, <1>2
  <2> QED BY <1>1, <1>2, <2>1
<1>3. CASE key # here
  <2>1. [P EXCEPT ![here] = p][key] = P[key]
    BY <1>3
  <2> QED BY <2>1 DEF Lined
<1> QED BY <1>2, <1>3

(* Steps of an item that leave the lots alone. *)
LEMMA SeenLots ==
  ASSUME NEW K, NEW n, NEW p \in Holding(K, n), NEW number, NEW amount, NEW cost, NEW profit
  PROVE  /\ Seen(p, number).lots = p.lots
         /\ Received(p, amount, cost).lots = p.lots
         /\ Realizing(p, profit).lots = p.lots
<1>1. p \in [ext : Nat, extCost : Nat, lots : LotsOf(K), qty : Nat, cost : Nat, realized : Int,
             dustCost : Nat, dustQty : Nat, first : {None} \cup 0..n]
  BY HoldingFields
<1> QED BY <1>1 DEF Seen, Received, Realizing

LEMMA TouchedPositions ==
  ASSUME NEW K, NEW n, NEW b \in BookOf(K, n), NEW key \in Keys, NEW at
  PROVE  Touched(b, key, at).positions = [b.positions EXCEPT ![key] = Seen(b.positions[key], at[1])]
BY DEF Touched, BookOf

LEMMA DepositedPositions ==
  ASSUME NEW K, NEW n, NEW b \in BookOf(K, n), NEW key \in Keys, NEW amount, NEW cost
  PROVE  Deposited(b, key, amount, cost).positions
           = [b.positions EXCEPT ![key] = Received(b.positions[key], amount, cost)]
BY DEF Deposited, BookOf

LEMMA SoldPositions ==
  ASSUME NEW K, NEW n, NEW b \in BookOf(K, n), NEW key \in Keys, NEW profit, NEW rows, NEW cost
  PROVE  Sold(b, key, profit, rows, cost).positions
           = [b.positions EXCEPT ![key] = Realizing(b.positions[key], profit)]
BY DEF Sold, BookOf, Realizing

LEMMA WithdrawnPositions ==
  ASSUME NEW K, NEW n, NEW b \in BookOf(K, n), NEW key \in Keys, NEW used, NEW amount
  PROVE  Withdrawn(b, key, used, amount).positions = [b.positions EXCEPT ![key] = used.position]
BY DEF Withdrawn, BookOf

LEMMA BoughtPositions ==
  ASSUME NEW K, NEW n, NEW b \in BookOf(K, n), NEW key \in Keys, NEW amount, NEW lots
  PROVE  Bought(b, key, amount, lots).positions
           = [b.positions EXCEPT ![key] = AllAdded(b.positions[key], lots)]
BY DEF Bought, BookOf, AllAdded

LEMMA LotsStay ==
  ASSUME NEW K, NEW n, NEW b \in BookOf(K, n), NEW key \in Keys, NEW at, NEW amount, NEW cost,
         NEW profit, NEW rows
  PROVE  /\ SameLots(b.positions, Touched(b, key, at).positions)
         /\ SameLots(b.positions, Deposited(b, key, amount, cost).positions)
         /\ SameLots(b.positions, Sold(b, key, profit, rows, cost).positions)
         /\ Paying(b, cost).positions = b.positions /\ Giving(b, cost).positions = b.positions
<1> DEFINE P == b.positions
           p == P[key]
<1>1. P \in [Keys -> Holding(K, n)]
  BY DEF BookOf
<1>2. p \in Holding(K, n)
  BY <1>1
<1>3. \A q : q.lots = p.lots => SameLots(P, [P EXCEPT ![key] = q])
  BY <1>1 DEF SameLots
<1>4. /\ Touched(b, key, at).positions = [P EXCEPT ![key] = Seen(p, at[1])]
      /\ Deposited(b, key, amount, cost).positions = [P EXCEPT ![key] = Received(p, amount, cost)]
      /\ Sold(b, key, profit, rows, cost).positions = [P EXCEPT ![key] = Realizing(p, profit)]
  BY TouchedPositions, DepositedPositions, SoldPositions
<1> HIDE DEF p, P
<1>5. /\ Seen(p, at[1]).lots = p.lots /\ Received(p, amount, cost).lots = p.lots
      /\ Realizing(p, profit).lots = p.lots
  BY <1>2, SeenLots
<1>6. Paying(b, cost).positions = b.positions /\ Giving(b, cost).positions = b.positions
  BY DEF Paying, Giving, BookOf
<1> QED BY <1>3, <1>4, <1>5, <1>6 DEF P

(* What the lines of a position are about. *)
LEMMA LinedPosition ==
  ASSUME NEW m \in Nat, NEW i \in Nat \ {0}, NEW base, Started(m, base),
         NEW b \in BookOf(Descent(m, i), m), Lined(m, base, b.positions),
         NEW w \in Wallet, NEW t \in Token
  PROVE  /\ b.positions \in [Keys -> Holding(Descent(m, i), m)] /\ <<w, t>> \in Keys
         /\ b.positions[<<w, t>>] \in Holding(Descent(m, i), m)
         /\ base[<<w, t>>].lots \in LotsOf(Descent(m, i)) /\ Old(NewIds(m), base[<<w, t>>].lots)
         /\ Lines(NewIds(m), Dust[t], base[<<w, t>>].lots, b.positions[<<w, t>>].lots)
         /\ Dust[t] \in Nat
<1> DEFINE key == <<w, t>>
           lots == base[key].lots
<1>1. key \in Keys /\ key[2] = t
  BY DEF Keys
<1>2. b.positions \in [Keys -> Holding(Descent(m, i), m)]
  BY DEF BookOf
<1>3. base[key] \in Holding(Descent(m, 1), m)
  BY <1>1 DEF Started
<1>4. lots \in LotsOf(Descent(m, 1))
  <2> DEFINE p == base[key]
  <2>1. p \in Holding(Descent(m, 1), m)
    BY <1>3
  <2> HIDE DEF p
  <2>2. p.lots \in LotsOf(Descent(m, 1))
    BY <2>1, HoldingFields
  <2> QED BY <2>2 DEF p
<1>5. Old(NewIds(m), lots)
  <2> HIDE DEF lots
  <2> QED BY <1>4, StartIsOld
<1>6. lots \in LotsOf(Descent(m, i))
  <2>1. 1 \in Nat /\ i \in Nat /\ 1 <= i
    OBVIOUS
  <2>2. Descent(m, 1) \subseteq Descent(m, i)
    BY <2>1, DescentMore
  <2> HIDE DEF lots
  <2> QED BY <1>4, <2>2, LotsOfMore
<1>7. Lines(NewIds(m), Dust[key[2]], base[key].lots, b.positions[key].lots)
  BY <1>1 DEF Lined
<1>8. Dust[t] \in Nat
  BY LedgerAssumption DEF LedgerAssumption
<1> QED BY <1>1, <1>2, <1>5, <1>6, <1>7, <1>8

LEMMA WithdrawsInLine ==
  ASSUME NEW m \in Nat, NEW i \in Nat \ {0}, NEW base, Started(m, base),
         NEW b \in BookOf(Descent(m, i), m), Lined(m, base, b.positions),
         NEW w \in Wallet, NEW t \in Token, NEW amount \in Nat,
         Consume(b.positions[<<w, t>>], t, amount).position \in Holding(Descent(m, i), m)
  PROVE  Lined(m, base, Withdrawn(b, <<w, t>>, Consume(b.positions[<<w, t>>], t, amount), amount).positions)
<1> DEFINE K == Descent(m, i)
           N == NewIds(m)
           key == <<w, t>>
           P == b.positions
           p == P[key]
           used == Consume(p, t, amount)
           q == used.position
           lots == base[key].lots
           dust == Dust[t]
<1>1. /\ P \in [Keys -> Holding(K, m)] /\ key \in Keys /\ p \in Holding(K, m)
      /\ lots \in LotsOf(K) /\ Old(N, lots) /\ Lines(N, dust, lots, p.lots) /\ dust \in Nat
  BY LinedPosition
<1>2. Placed(K) /\ q \in Holding(K, m)
  BY DescentIsPlaced
<1>3. Withdrawn(b, key, used, amount).positions = [P EXCEPT ![key] = q]
  <2> HIDE DEF key, used
  <2> QED BY <1>1, WithdrawnPositions
<1>4. InOrder(p.lots)
  BY <1>1 DEF Lines
<1>5. Lines(N, dust, p.lots, q.lots)
  <2> HIDE DEF K, N, key, P, p
  <2>1. Follows(N, Dust[t], p.lots, used.position.lots) /\ InOrder(used.position.lots)
    BY <1>1, <1>2, <1>4, ConsumesInOrder
  <2> QED BY <2>1 DEF Lines
<1>6. p.lots \in LotsOf(K) /\ q.lots \in LotsOf(K)
  <2> HIDE DEF K, N, key, P, p, q
  <2> QED BY <1>1, <1>2, HoldingFields
<1>7. Lines(N, dust, lots, q.lots)
  <2> DEFINE u == p.lots
             v == q.lots
  <2>1. /\ u \in LotsOf(K) /\ v \in LotsOf(K) /\ Lines(N, dust, lots, u) /\ Lines(N, dust, u, v)
    BY <1>1, <1>5, <1>6
  <2> HIDE DEF K, N, dust, u, v, lots
  <2>2. Lines(N, dust, lots, v)
    BY <1>1, <1>2, <2>1, FollowsOn
  <2> QED BY <2>2 DEF v
<1>8. Lined(m, base, [P EXCEPT ![<<w, t>>] = q])
  <2>1. Lined(m, base, P) /\ Lines(NewIds(m), Dust[t], base[<<w, t>>].lots, q.lots)
    BY <1>7
  <2> HIDE DEF P, q
  <2> QED BY <1>1, <2>1, LinesChange
<1> QED BY <1>3, <1>8

LEMMA BuysInLine ==
  ASSUME NEW m \in Nat, NEW i \in Nat \ {0}, NEW base, Started(m, base),
         NEW b \in BookOf(Descent(m, i), m), Lined(m, base, b.positions),
         NEW w \in Wallet, NEW t \in Token, NEW amount, NEW more \in SharesOf(Descent(m, i)),
         Fresh(NewIds(m), more, b.positions[<<w, t>>].lots)
  PROVE  Lined(m, base, Bought(b, <<w, t>>, amount, more).positions)
<1> DEFINE K == Descent(m, i)
           N == NewIds(m)
           key == <<w, t>>
           P == b.positions
           p == P[key]
           q == AllAdded(p, more)
           lots == base[key].lots
           dust == Dust[t]
<1>1. /\ P \in [Keys -> Holding(K, m)] /\ key \in Keys /\ p \in Holding(K, m)
      /\ lots \in LotsOf(K) /\ Old(N, lots) /\ Lines(N, dust, lots, p.lots) /\ dust \in Nat
  BY LinedPosition
<1>2. Placed(K)
  BY DescentIsPlaced
<1>3. Bought(b, key, amount, more).positions = [P EXCEPT ![key] = q]
  <2> HIDE DEF key
  <2> QED BY <1>1, BoughtPositions
<1>4. Lines(N, dust, lots, q.lots)
  <2>1. Fresh(N, more, p.lots) /\ more \in SharesOf(K)
    OBVIOUS
  <2> HIDE DEF K, N, key, P, p, lots, dust
  <2> QED BY <1>1, <1>2, <2>1, AddedInOrder
<1>5. Lined(m, base, [P EXCEPT ![<<w, t>>] = q])
  <2>1. Lined(m, base, P) /\ Lines(NewIds(m), Dust[t], base[<<w, t>>].lots, q.lots)
    BY <1>4
  <2> HIDE DEF P, q
  <2> QED BY <1>1, <2>1, LinesChange
<1> QED BY <1>3, <1>5

(* Lots an item makes are new ones. *)
LEMMA FreshLots ==
  ASSUME NEW m \in Nat, NEW i \in Nat \ {0}, NEW lots \in LotsOf(Descent(m, i)),
         NEW more, \A j \in DOMAIN more : j \in Nat /\ more[j].id = Append(<<m, i>>, j)
  PROVE  Fresh(NewIds(m), more, lots)
<1>1. ASSUME NEW j \in DOMAIN more PROVE more[j].id \in NewIds(m)
  <2>1. j \in Nat /\ more[j].id = Append(<<m, i>>, j)
    OBVIOUS
  <2>2. \E h \in Nat \ {0}, l \in Nat : Append(<<m, i>>, j) = Append(<<m, h>>, l)
    BY <2>1, Zenon
  <2> QED BY <2>1, <2>2 DEF NewIds
<1>2. ASSUME NEW j \in DOMAIN more, NEW k \in DOMAIN lots PROVE lots[k].id # more[j].id
  <2> DEFINE id == lots[k].id
             d == <<lots[k].root, id>>
  <2>1. lots[k] \in LotOf(Descent(m, i))
    BY ElementOfSeq DEF LotsOf
  <2>2. d \in Descent(m, i) /\ d[2] = id
    BY <2>1 DEF LotOf
  <2> HIDE DEF d, id
  <2>3. id[1] < m \/ (id[1] = m /\ id[2] < i)
    BY <2>2 DEF Descent
  <2>4. Append(<<m, i>>, j)[1] = m /\ Append(<<m, i>>, j)[2] = i
    BY ThreePlaces
  <2>5. id # Append(<<m, i>>, j)
    BY <2>3, <2>4
  <2> QED BY <2>5 DEF id
<1>3. ASSUME NEW j \in DOMAIN more, NEW k \in DOMAIN more, j # k PROVE more[j].id # more[k].id
  <2>1. j \in Nat /\ k \in Nat /\ more[j].id = Append(<<m, i>>, j) /\ more[k].id = Append(<<m, i>>, k)
    OBVIOUS
  <2>2. Append(<<m, i>>, j)[3] = j /\ Append(<<m, i>>, k)[3] = k
    BY <2>1
  <2> QED BY <1>3, <2>1, <2>2
<1> QED BY <1>1, <1>2, <1>3 DEF Fresh

LEMMA TouchesInLine ==
  ASSUME NEW K, NEW n, NEW m, NEW base, NEW b \in BookOf(K, n), Lined(m, base, b.positions),
         NEW key \in Keys, NEW at
  PROVE  Lined(m, base, Touched(b, key, at).positions)
<1> DEFINE P == b.positions
           Q == Touched(b, key, at).positions
<1>1. SameLots(P, Q)
  BY LotsStay
<1>2. Lined(m, base, P)
  OBVIOUS
<1> HIDE DEF P, Q
<1>3. Lined(m, base, Q)
  BY <1>1, <1>2, LinesStay
<1> QED BY <1>3 DEF Q

LEMMA DepositsInLine ==
  ASSUME NEW K, NEW n, NEW m, NEW base, NEW b \in BookOf(K, n), Lined(m, base, b.positions),
         NEW key \in Keys, NEW amount, NEW cost
  PROVE  Lined(m, base, Deposited(b, key, amount, cost).positions)
<1> DEFINE P == b.positions
           Q == Deposited(b, key, amount, cost).positions
<1>1. SameLots(P, Q)
  BY LotsStay
<1>2. Lined(m, base, P)
  OBVIOUS
<1> HIDE DEF P, Q
<1>3. Lined(m, base, Q)
  BY <1>1, <1>2, LinesStay
<1> QED BY <1>3 DEF Q

LEMMA SalesInLine ==
  ASSUME NEW K, NEW n, NEW m, NEW base, NEW b \in BookOf(K, n), Lined(m, base, b.positions),
         NEW key \in Keys, NEW profit, NEW rows, NEW cost
  PROVE  Lined(m, base, Sold(b, key, profit, rows, cost).positions)
<1> DEFINE P == b.positions
           Q == Sold(b, key, profit, rows, cost).positions
<1>1. SameLots(P, Q)
  BY LotsStay
<1>2. Lined(m, base, P)
  OBVIOUS
<1> HIDE DEF P, Q
<1>3. Lined(m, base, Q)
  BY <1>1, <1>2, LinesStay
<1> QED BY <1>3 DEF Q

LEMMA PaysInLine ==
  ASSUME NEW K, NEW n, NEW m, NEW base, NEW b \in BookOf(K, n), Lined(m, base, b.positions), NEW x
  PROVE  Lined(m, base, Paying(b, x).positions) /\ Lined(m, base, Giving(b, x).positions)
<1>1. Paying(b, x).positions = b.positions /\ Giving(b, x).positions = b.positions
  BY DEF Paying, Giving, BookOf
<1> QED BY <1>1

(* The items of a transaction. *)
LEMMA BridgeInLine ==
  ASSUME NEW m \in Nat, NEW i \in Nat \ {0}, NEW base, Started(m, base), NEW b,
         Balanced(Descent(m, i), m, 0, b), Lined(m, base, b.positions),
         NEW item \in BridgeItem, NEW at, at[1] = m
  PROVE  Lined(m, base, processBridgeActivity(b, item, at).positions)
<1>1. item.wallet \in Wallet /\ item.token \in Token /\ item.amount \in Nat
  BY DEF BridgeItem
<1> DEFINE K == Descent(m, i)
           w == item.wallet
           t == item.token
           key == <<w, t>>
           amount == item.amount
           usd == Usd(item)
           seen == Touched(b, key, at)
           used == Consume(seen.positions[key], t, amount)
           came == Deposited(seen, key, amount, usd)
           went == Withdrawn(seen, key, used, amount)
<1>2. processBridgeActivity(b, item, at) = IF item.in THEN Paying(came, usd) ELSE Giving(went, used.cost)
  BY DEF processBridgeActivity, Paying, Giving
<1>3. w \in Wallet /\ t \in Token /\ key \in Keys /\ amount \in Nat /\ 0 \in Int /\ at[1] \in 0..m
      /\ i \in Nat
  BY <1>1 DEF Keys
<1> HIDE DEF usd, amount
<1>4. b \in BookOf(K, m)
  BY BookFields
<1>5. Balanced(K, m, 0, seen) /\ seen.positions[key].first \in 0..m
  <2> HIDE DEF K, key
  <2> QED BY <1>3, Touches DEF K
<1>6. Lined(m, base, seen.positions)
  <2> HIDE DEF K, key
  <2> QED BY <1>3, <1>4, TouchesInLine
<1> HIDE DEF seen, w, t
<1>7. seen \in BookOf(K, m)
  BY <1>5, BookFields
<1>8. Consumes(K, Roots(m), m, seen.positions[key], amount, used)
  BY <1>3, <1>5, Consuming
<1>9. used.position \in Holding(K, m)
  BY <1>8 DEF Consumes
<1>10. Lined(m, base, went.positions)
  BY <1>3, <1>6, <1>7, <1>9, WithdrawsInLine
<1>11. went \in BookOf(K, m)
  <2> DEFINE c == 0 + used.cost
  <2>1. Balanced(K, m, 0 + used.cost, went)
    <3> HIDE DEF K, key, used
    <3> QED BY <1>3, <1>5, <1>8, Withdraws, ZenonT(40)
  <2>2. Balanced(K, m, c, went)
    BY <2>1
  <2> HIDE DEF went, c, K
  <2> QED BY <2>2, BookFields
<1>12. Lined(m, base, came.positions)
  <2> HIDE DEF K, key
  <2> QED BY <1>3, <1>6, <1>7, DepositsInLine
<1>13. came \in BookOf(K, m)
  <2>1. usd \in Nat
    <3>1. item.usd \in Price
      BY DEF BridgeItem
    <3> QED BY <3>1, UsdIsNatural DEF usd
  <2> DEFINE c == 0 - usd
  <2>2. Balanced(K, m, 0 - usd, came)
    <3> HIDE DEF K, key
    <3> QED BY <1>3, <1>5, <2>1, Deposits
  <2>3. Balanced(K, m, c, came)
    BY <2>2
  <2> HIDE DEF came, c, K
  <2> QED BY <2>3, BookFields
<1>14. Lined(m, base, Paying(came, usd).positions)
  <2> HIDE DEF came, K
  <2> QED BY <1>12, <1>13, PaysInLine
<1>15. Lined(m, base, Giving(went, used.cost).positions)
  <2> DEFINE x == used.cost
  <2>1. Lined(m, base, Giving(went, x).positions)
    <3> HIDE DEF went, K, x
    <3> QED BY <1>10, <1>11, PaysInLine
  <2> QED BY <2>1
<1> QED BY <1>2, <1>14, <1>15

LEMMA SendingInLine ==
  ASSUME NEW m \in Nat, NEW i \in Nat \ {0}, NEW base, Started(m, base), NEW b,
         Balanced(Descent(m, i), m, 0, b), Lined(m, base, b.positions),
         NEW item \in TransferItem, NEW at, at[1] = m
  PROVE  Lined(m, base, Sent(b, item, at).books.positions)
<1>1. item.from \in Party /\ item.token \in Token /\ item.amount \in Nat
  BY DEF TransferItem
<1> DEFINE K == Descent(m, i)
           w == item.from
           t == item.token
           key == <<w, t>>
           amount == item.amount
           usd == Usd(item)
           seen == Touched(b, key, at)
           used == Consume(seen.positions[key], t, amount)
           went == Withdrawn(seen, key, used, amount)
           sent == Sent(b, item, at)
<1>2. sent = IF w = None THEN [books |-> Paying(b, usd), cost |-> usd]
             ELSE [books |-> went, cost |-> used.cost]
  BY DEF Sent, Paying
<1>3. t \in Token /\ amount \in Nat /\ 0 \in Int /\ at[1] \in 0..m /\ i \in Nat
  BY <1>1
<1>4. b \in BookOf(K, m)
  BY BookFields
<1> HIDE DEF usd, amount, sent
<1>5. CASE w = None
  <2>1. sent.books = Paying(b, usd)
    BY <1>2, <1>5
  <2>2. Lined(m, base, Paying(b, usd).positions)
    <3> HIDE DEF K
    <3> QED BY <1>4, PaysInLine
  <2> QED BY <2>1, <2>2 DEF sent
<1>6. CASE w # None
  <2>1. w \in Wallet /\ key \in Keys
    BY <1>1, <1>6 DEF Party, Keys
  <2>2. Balanced(K, m, 0, seen) /\ seen.positions[key].first \in 0..m
    <3> HIDE DEF K, key
    <3> QED BY <1>3, <2>1, Touches DEF K
  <2>3. Lined(m, base, seen.positions)
    <3> HIDE DEF K, key
    <3> QED BY <1>4, <2>1, TouchesInLine
  <2>4. sent.books = went
    BY <1>2, <1>6
  <2> HIDE DEF seen, w, t
  <2>5. seen \in BookOf(K, m)
    BY <2>2, BookFields
  <2>6. Consumes(K, Roots(m), m, seen.positions[key], amount, used)
    BY <1>3, <2>1, <2>2, Consuming
  <2>7. used.position \in Holding(K, m)
    BY <2>6 DEF Consumes
  <2>8. Lined(m, base, went.positions)
    BY <1>3, <2>1, <2>3, <2>5, <2>7, WithdrawsInLine
  <2> QED BY <2>4, <2>8 DEF sent
<1> QED BY <1>5, <1>6

LEMMA TransferInLine ==
  ASSUME NEW m \in Nat, NEW i \in Nat \ {0}, NEW base, Started(m, base), NEW b,
         Balanced(Descent(m, i), m, 0, b), Lined(m, base, b.positions),
         NEW item \in TransferItem, NEW at, at[1] = m
  PROVE  Lined(m, base, processTransferActivity(b, item, at).positions)
<1>1. /\ item.to \in Party /\ item.token \in Token /\ item.amount \in Nat
  BY DEF TransferItem
<1> DEFINE K == Descent(m, i)
           key == <<item.to, item.token>>
           amount == item.amount
           sent == Sent(b, item, at)
           books == sent.books
           cost == sent.cost
           seen == Touched(books, key, at)
<1>2. processTransferActivity(b, item, at) = IF item.to = None THEN Giving(books, cost)
                                             ELSE Deposited(seen, key, amount, cost)
  BY DEF processTransferActivity, Giving
<1>3. Balanced(K, m, cost, books) /\ cost \in Nat
  <2>1. i \in Nat
    OBVIOUS
  <2> HIDE DEF K
  <2> QED BY <2>1, SendingBalances DEF K
<1>4. at[1] \in 0..m /\ amount \in Nat
  BY <1>1
<1>5. Lined(m, base, books.positions)
  BY SendingInLine
<1> HIDE DEF books, cost, K, amount
<1>6. books \in BookOf(K, m) /\ cost \in Int
  BY <1>3, BookFields
<1>7. Lined(m, base, Giving(books, cost).positions)
  BY <1>5, <1>6, PaysInLine
<1>8. ASSUME item.to # None PROVE Lined(m, base, Deposited(seen, key, amount, cost).positions)
  <2>1. key \in Keys
    BY <1>1, <1>8 DEF Party, Keys
  <2> HIDE DEF key
  <2>2. Balanced(K, m, cost, seen)
    BY <1>3, <1>4, <1>6, <2>1, Touches
  <2>3. Lined(m, base, seen.positions)
    BY <1>5, <1>6, <2>1, TouchesInLine
  <2> HIDE DEF seen
  <2>4. seen \in BookOf(K, m)
    BY <2>2, BookFields
  <2> QED BY <2>1, <2>3, <2>4, DepositsInLine
<1> QED BY <1>2, <1>7, <1>8

LEMMA MigrationIds ==
  ASSUME NEW m \in Nat, NEW i \in Nat, NEW M, NEW matches \in LotsOf(M), NEW out, NEW gas
  PROVE  LET more == Brought(matches, out, gas, <<m, i>>)
         IN  \A j \in DOMAIN more : j \in Nat /\ more[j].id = Append(<<m, i>>, j)
<1> DEFINE at == <<m, i>>
           more == Brought(matches, out, gas, at)
<1>1. CASE matches = <<>>
  <2> DEFINE id == Append(at, 1)
             lot == NewLot(out, gas, at[1], id)
  <2>1. more = <<lot>> /\ lot.id = id
    BY <1>1 DEF Brought, NewLot
  <2> HIDE DEF lot, id, more
  <2>2. DOMAIN more = {1} /\ more[1] = lot
    BY <2>1
  <2>3. \A j \in DOMAIN more : j = 1
    BY <2>2
  <2>4. \A j \in DOMAIN more : j \in Nat /\ more[j].id = Append(at, j)
    BY <2>1, <2>2, <2>3 DEF id
  <2> QED BY <2>4 DEF more
<1>2. CASE matches # <<>>
  <2> DEFINE q == OutShares(out, Quantities(matches))
             g == Split(gas, Quantities(matches))
  <2>1. more = [j \in DOMAIN matches |-> [qty |-> q[j], cost |-> matches[j].cost + g[j],
                                          root |-> matches[j].root, id |-> Append(at, j)]]
    BY <1>2 DEF Brought, CarriedLots
  <2>2. DOMAIN matches \subseteq Nat
    BY DEF LotsOf
  <2> HIDE DEF q, g, more
  <2>3. \A j \in DOMAIN more : j \in Nat /\ more[j].id = Append(at, j)
    BY <2>1, <2>2
  <2> QED BY <2>3 DEF more
<1> QED BY <1>1, <1>2

LEMMA MigrationInLine ==
  ASSUME NEW m \in Nat, NEW i \in Nat \ {0}, NEW base, Started(m, base), NEW b,
         Balanced(Descent(m, i), m, 0, b), Lined(m, base, b.positions),
         NEW item \in TradeItem, NEW gas \in Nat,
         b.positions[<<item.wallet, item.token>>].first \in 0..m
  PROVE  Lined(m, base, Migrate(b, item, gas, <<m, i>>).positions)
<1>1. /\ item.wallet \in Wallet /\ item.token \in Token /\ item.amount \in Nat
      /\ item.bought \in Token /\ i \in Nat
  BY DEF TradeItem
<1> DEFINE K == Descent(m, i)
           N == Descent(m, i + 1)
           w == item.wallet
           t == item.token
           u == item.bought
           at == <<m, i>>
           new == <<w, u>>
           out == item.out
           x == MigrationOut(b, item).cost
           lots == MigrationLots(b, item, gas, at)
           went == MigrationLeft(b, item)
           came == Bought(went, new, out, lots)
<1>2. Migrate(b, item, gas, at) = Paying(came, gas)
  BY MigrationIs
<1>3. /\ x \in Nat /\ Balanced(K, m, x, went) /\ lots \in SharesOf(N)
      /\ MigrationOut(b, item).matches \in LotsOf(Roots(m))
      /\ MigrationOut(b, item).position \in Holding(K, m)
  BY <1>1, MigrationParts
<1>4. i + 1 \in Nat \ {0} /\ i + 1 \in Nat /\ i <= i + 1 /\ m <= m /\ new \in Keys
  BY <1>1 DEF Keys
<1>5. K \subseteq N
  BY <1>1, <1>4, DescentMore
<1>6. Lined(m, base, went.positions)
  <2> DEFINE amount == item.amount
             used == Consume(b.positions[<<w, t>>], t, amount)
  <2>1. went = Withdrawn(b, <<w, t>>, used, amount) /\ MigrationOut(b, item) = used
    BY DEF MigrationLeft, MigrationOut
  <2>2. used.position \in Holding(K, m) /\ b \in BookOf(K, m) /\ amount \in Nat
    BY <1>1, <1>3, <2>1, BookFields
  <2> HIDE DEF went, amount, w, t
  <2>3. Lined(m, base, Withdrawn(b, <<w, t>>, used, amount).positions)
    BY <1>1, <2>2, WithdrawsInLine DEF w, t
  <2> QED BY <2>1, <2>3
<1>7. /\ \A j \in DOMAIN lots : j \in Nat /\ lots[j].id = Append(<<m, i>>, j)
  <2> DEFINE matches == MigrationOut(b, item).matches
             R == Roots(m)
  <2>1. lots = Brought(matches, out, gas, at) /\ matches \in LotsOf(R)
    BY <1>3 DEF MigrationLots
  <2> HIDE DEF matches, R, out, lots
  <2> QED BY <1>1, <2>1, MigrationIds
<1> HIDE DEF K, N, x, went, lots, out
<1>8. Balanced(N, m, x, went)
  BY <1>3, <1>4, <1>5, BalancedMore
<1>9. went \in BookOf(N, m) /\ went.positions \in [Keys -> Holding(K, m)]
  BY <1>3, <1>8, BookFields
<1> DEFINE old == went.positions[new]
<1>10. old.lots \in LotsOf(K)
  <2>1. old \in Holding(K, m)
    BY <1>4, <1>9
  <2> HIDE DEF old
  <2> QED BY <2>1, HoldingFields
<1>11. Fresh(NewIds(m), lots, old.lots)
  <2> DEFINE s == old.lots
  <2>1. s \in LotsOf(K)
    BY <1>10
  <2> HIDE DEF s
  <2>2. Fresh(NewIds(m), lots, s)
    BY <1>7, <2>1, FreshLots DEF K
  <2> QED BY <2>2 DEF s
<1>12. Lined(m, base, came.positions)
  <2> DEFINE h == i + 1
  <2>1. /\ h \in Nat \ {0} /\ lots \in SharesOf(Descent(m, h)) /\ went \in BookOf(Descent(m, h), m)
        /\ w \in Wallet /\ u \in Token /\ Fresh(NewIds(m), lots, went.positions[<<w, u>>].lots)
    BY <1>1, <1>3, <1>4, <1>9, <1>11 DEF N
  <2> HIDE DEF h, w, u
  <2> QED BY <1>6, <2>1, BuysInLine
<1>13. came \in BookOf(N, m)
  <2>1. Lined(m, base, came.positions)
    BY <1>12
  <2>2. /\ x \in Int /\ CostOf(lots) \in Nat /\ Qty(lots) = out /\ out \in Nat
    <3>1. CostOf(lots) = x + gas /\ Qty(lots) = item.out /\ item.out \in Nat
      BY <1>1, MigrationParts DEF x, lots, TradeItem
    <3> QED BY <1>3, <3>1 DEF out
  <2> DEFINE c == x - CostOf(lots)
  <2>3. Balanced(N, m, x - CostOf(lots), came)
    <3> HIDE DEF new
    <3> QED BY <1>3, <1>4, <1>8, <2>2, Buys
  <2>4. Balanced(N, m, c, came)
    BY <2>3
  <2> HIDE DEF c, came
  <2> QED BY <2>4, BookFields
<1> HIDE DEF came
<1>14. Lined(m, base, Paying(came, gas).positions)
  BY <1>12, <1>13, PaysInLine
<1> QED BY <1>2, <1>14

LEMMA SaleInLine ==
  ASSUME NEW m \in Nat, NEW i \in Nat \ {0}, NEW base, Started(m, base), NEW b,
         Balanced(Descent(m, i), m, 0, b), Lined(m, base, b.positions),
         NEW item \in TradeItem, NEW gas \in Nat,
         b.positions[<<item.wallet, item.token>>].first \in 0..m
  PROVE  Lined(m, base, Sell(b, item, gas, <<m, i>>).positions)
<1>1. /\ item.wallet \in Wallet /\ item.token \in Token /\ item.amount \in Nat /\ i \in Nat
  BY DEF TradeItem
<1> DEFINE K == Descent(m, i)
           at == <<m, i>>
           w == item.wallet
           t == item.token
           key == <<w, t>>
           amount == item.amount
           used == Consume(b.positions[key], t, amount)
           left == item.usd - gas
           proceeds == proportionalShare(left, used.lots.qty, amount)
           profit == IF used.lots.qty = 0 THEN 0 ELSE proceeds - used.lots.cost
           rows == Rows(used.lots.matches, proceeds, key, at)
           went == Withdrawn(b, key, used, amount)
           x == used.cost
<1>2. Sell(b, item, gas, at) = Sold(went, key, profit, rows, x)
  BY DEF Sell, Sold
<1>3. w \in Wallet /\ t \in Token /\ key \in Keys /\ amount \in Nat /\ 0 \in Int
  BY <1>1 DEF Keys
<1>4. Consumes(K, Roots(m), m, b.positions[key], amount, used)
  <2>1. b.positions[<<w, t>>].first \in 0..m
    OBVIOUS
  <2> HIDE DEF amount, w, t
  <2> QED BY <1>1, <1>3, <2>1, Consuming
<1>5. used.position \in Holding(K, m) /\ b \in BookOf(K, m)
  BY <1>4, BookFields DEF Consumes
<1>6. Lined(m, base, went.positions)
  <2> HIDE DEF amount, w, t
  <2> QED BY <1>3, <1>5, WithdrawsInLine
<1>7. went \in BookOf(K, m)
  <2> DEFINE c == 0 + used.cost
  <2>1. Balanced(K, m, 0 + used.cost, went)
    <3> HIDE DEF K, key, used, amount
    <3> QED BY <1>3, <1>4, Withdraws DEF K
  <2>2. Balanced(K, m, c, went)
    BY <2>1
  <2> HIDE DEF went, c, K
  <2> QED BY <2>2, BookFields
<1> HIDE DEF went, K, key, profit, rows, x
<1>8. Lined(m, base, Sold(went, key, profit, rows, x).positions)
  BY <1>3, <1>6, <1>7, SalesInLine
<1> QED BY <1>2, <1>8

LEMMA TradeInLine ==
  ASSUME NEW m \in Nat, NEW i \in Nat \ {0}, NEW base, Started(m, base), NEW b,
         Balanced(Descent(m, i), m, 0, b), Lined(m, base, b.positions),
         NEW item \in TradeItem, NEW gas \in Nat
  PROVE  Lined(m, base, Trade(b, item, gas, <<m, i>>).positions)
<1>1. /\ item.wallet \in Wallet /\ item.token \in Token /\ item.bought \in Token /\ item.out \in Nat
      /\ item.usd \in Price /\ i \in Nat
  BY DEF TradeItem
<1> DEFINE K == Descent(m, i)
           N == Descent(m, i + 1)
           at == <<m, i>>
           w == item.wallet
           u == item.bought
           key == <<w, item.token>>
           new == <<w, u>>
           out == item.out
           touched == Touched(b, key, at)
           seen == Touched(touched, new, at)
           cost == item.usd + gas
           sold == Sell(seen, item, gas, at)
           id == Append(at, 1)
           lot == NewLot(out, cost, m, id)
           lots == <<lot>>
           came == Bought(sold, new, out, lots)
<1>2. Trade(b, item, gas, at) =
        IF item.usd = None \/ item.token = item.bought THEN b
        ELSE IF Migrates(item) THEN Migrate(seen, item, gas, at) ELSE Paying(came, cost)
  BY DEF Trade, Paying, NewLot
<1>3. /\ key \in Keys /\ new \in Keys /\ at[1] \in 0..m /\ 0 \in Int /\ i + 1 \in Nat \ {0}
      /\ i + 1 \in Nat /\ i <= i + 1 /\ m <= m
  BY <1>1 DEF Keys
<1>4. K \subseteq N
  BY <1>1, <1>3, DescentMore
<1>5. Balanced(K, m, 0, touched) /\ touched.positions[key].first \in 0..m
  <2> HIDE DEF K, key, at
  <2> QED BY <1>1, <1>3, Touches DEF K
<1>6. Lined(m, base, touched.positions)
  <2>1. b \in BookOf(K, m)
    BY BookFields
  <2> HIDE DEF K, key, at
  <2> QED BY <1>3, <2>1, TouchesInLine
<1> HIDE DEF touched
<1>7. Balanced(K, m, 0, seen) /\ seen.positions[key].first \in 0..m
  <2> HIDE DEF K, key, new, at
  <2> QED BY <1>3, <1>5, Touches
<1>8. Lined(m, base, seen.positions)
  <2>1. touched \in BookOf(K, m)
    BY <1>5, BookFields
  <2> HIDE DEF K, key, new, at
  <2> QED BY <1>3, <1>6, <2>1, TouchesInLine
<1> HIDE DEF seen
<1>9. Lined(m, base, Migrate(seen, item, gas, at).positions)
  BY <1>7, <1>8, MigrationInLine
<1>10. ASSUME item.usd # None PROVE Lined(m, base, Paying(came, cost).positions)
  <2>1. item.usd \in Nat /\ cost \in Nat
    BY <1>1, <1>10 DEF Price
  <2>2. Balanced(K, m, 0, sold)
    BY <1>1, <1>7, <1>10, SaleBalances
  <2>3. Lined(m, base, sold.positions)
    BY <1>7, <1>8, SaleInLine
  <2> HIDE DEF sold, cost
  <2>4. sold.positions \in [Keys -> Holding(K, m)]
    BY <2>2, BookFields
  <2>5. lots \in SharesOf(N) /\ Qty(lots) = out /\ CostOf(lots) = cost
    <3> HIDE DEF out
    <3>1. out \in Nat
      BY <1>1 DEF out
    <3> QED BY <1>1, <2>1, <3>1, OneLot
  <2>6. \A j \in DOMAIN lots : j \in Nat /\ lots[j].id = Append(<<m, i>>, j)
    <3>1. lot.id = id
      BY DEF NewLot
    <3> HIDE DEF lot, id
    <3>2. DOMAIN lots = {1} /\ lots[1] = lot
      OBVIOUS
    <3> HIDE DEF lots
    <3>3. \A j \in DOMAIN lots : j = 1
      BY <3>2
    <3> QED BY <3>1, <3>2, <3>3 DEF id
  <2> HIDE DEF lots, lot, N, out
  <2>7. Balanced(N, m, 0, sold)
    <3> HIDE DEF K
    <3> QED BY <1>1, <1>3, <1>4, <2>2, BalancedMore
  <2>8. sold \in BookOf(N, m)
    BY <2>7, BookFields
  <2> DEFINE s == sold.positions[new].lots
  <2>9. s \in LotsOf(K)
    <3> DEFINE p == sold.positions[new]
    <3>1. p \in Holding(K, m)
      BY <1>3, <2>4
    <3> HIDE DEF p
    <3>2. p.lots \in LotsOf(K)
      BY <3>1, HoldingFields
    <3> QED BY <3>2 DEF p
  <2>10. Fresh(NewIds(m), lots, s)
    <3> HIDE DEF s
    <3> QED BY <2>6, <2>9, FreshLots
  <2>11. Lined(m, base, came.positions)
    <3> DEFINE h == i + 1
    <3>1. /\ h \in Nat \ {0} /\ lots \in SharesOf(Descent(m, h)) /\ sold \in BookOf(Descent(m, h), m)
          /\ w \in Wallet /\ u \in Token /\ Fresh(NewIds(m), lots, sold.positions[<<w, u>>].lots)
      BY <1>1, <1>3, <2>5, <2>8, <2>10 DEF N
    <3> HIDE DEF h, w, u
    <3> QED BY <2>3, <3>1, BuysInLine
  <2>12. came \in BookOf(N, m)
    <3> DEFINE c == 0 - CostOf(lots)
    <3>1. CostOf(lots) \in Nat /\ out \in Nat
      BY <1>1, <2>1, <2>5 DEF out
    <3>2. Balanced(N, m, 0 - CostOf(lots), came)
      <4> HIDE DEF new
      <4> QED BY <1>3, <2>5, <2>7, <3>1, Buys
    <3>3. Balanced(N, m, c, came)
      BY <3>2
    <3> HIDE DEF c, came
    <3> QED BY <3>3, BookFields
  <2> HIDE DEF came
  <2> QED BY <2>11, <2>12, PaysInLine
<1> QED BY <1>2, <1>9, <1>10

LEMMA ItemInLine ==
  ASSUME NEW m \in Nat, NEW i \in Nat \ {0}, NEW base, Started(m, base), NEW b,
         Balanced(Descent(m, i), m, 0, b), Lined(m, base, b.positions),
         NEW item \in Items, NEW gas \in Nat
  PROVE  Lined(m, base, ReplayItem(b, item, gas, <<m, i>>).positions)
<1> DEFINE at == <<m, i>>
<1>1. at[1] = m
  OBVIOUS
<1>2. CASE item \in BridgeItem
  <2>1. ReplayItem(b, item, gas, at) = processBridgeActivity(b, item, at)
    BY <1>2 DEF ReplayItem, BridgeItem
  <2> HIDE DEF at
  <2>2. Lined(m, base, processBridgeActivity(b, item, at).positions)
    BY <1>1, <1>2, BridgeInLine
  <2> QED BY <2>1, <2>2 DEF at
<1>3. CASE item \in TransferItem
  <2>1. ReplayItem(b, item, gas, at) = processTransferActivity(b, item, at)
    BY <1>3 DEF ReplayItem, TransferItem
  <2> HIDE DEF at
  <2>2. Lined(m, base, processTransferActivity(b, item, at).positions)
    BY <1>1, <1>3, TransferInLine
  <2> QED BY <2>1, <2>2 DEF at
<1>4. CASE item \in TradeItem
  <2>1. ReplayItem(b, item, gas, at) = Trade(b, item, gas, at)
    BY <1>4 DEF ReplayItem, TradeItem
  <2>2. Lined(m, base, Trade(b, item, gas, at).positions)
    BY <1>4, TradeInLine
  <2> QED BY <2>1, <2>2
<1> QED BY <1>2, <1>3, <1>4 DEF Items

(* The whole of a block. *)
LEMMA ReplayInLine ==
  ASSUME NEW m \in Nat, NEW b, Balanced(Descent(m, 1), m, 0, b),
         \A key \in Keys : InOrder(b.positions[key].lots),
         NEW items \in Seq(Items), NEW gas \in Seq(Nat), Len(gas) = Len(items)
  PROVE  Lined(m, b.positions, Replayed(b, m, items, gas).positions)
<1> DEFINE n == Len(items)
           base == b.positions
<1>1. n \in Nat
  OBVIOUS
<1>2. base \in [Keys -> Holding(Descent(m, 1), m)]
  <2> DEFINE K == Descent(m, 1)
  <2>1. Balanced(K, m, 0, b)
    OBVIOUS
  <2> HIDE DEF K
  <2>2. b.positions \in [Keys -> Holding(K, m)]
    BY <2>1, BookFields
  <2> QED BY <2>2 DEF K
<1>3. Started(m, base)
  BY <1>2 DEF Started
<1>4. Lined(m, base, base)
  <2> SUFFICES ASSUME NEW key \in Keys
               PROVE  Lines(NewIds(m), Dust[key[2]], base[key].lots, base[key].lots)
    BY DEF Lined
  <2> DEFINE p == base[key]
             K == Descent(m, 1)
             N == NewIds(m)
             dust == Dust[key[2]]
  <2>1. p \in Holding(K, m) /\ InOrder(p.lots)
    BY <1>2
  <2>2. Placed(K)
    BY DescentIsPlaced
  <2> HIDE DEF p, K, N, dust
  <2>3. p.lots \in LotsOf(K)
    BY <2>1, HoldingFields
  <2>4. Lines(N, dust, p.lots, p.lots)
    <3> DEFINE s == p.lots
    <3>1. s \in LotsOf(K) /\ InOrder(s)
      BY <2>1, <2>3
    <3> HIDE DEF s
    <3>2. Lines(N, dust, s, s)
      BY <2>2, <3>1, SameLines
    <3> QED BY <3>2 DEF s
  <2> QED BY <2>4 DEF p, N, dust
<1>5. PICK f : Replays(m, items, gas, b, f)
  BY ReplayRuns
<1>6. /\ f[0] = b /\ f[n] = Replayed(b, m, items, gas)
      /\ \A i \in 0..n : Balanced(Descent(m, i + 1), m, 0, f[i])
      /\ \A i \in 1..n : f[i] = ReplayItem(f[i - 1], items[i], gas[i], <<m, i>>)
  BY <1>5 DEF Replays
<1> DEFINE G == {i \in 0..n : Lined(m, base, f[i].positions)}
<1>7. 0 \in G
  BY <1>1, <1>4, <1>6
<1>8. ASSUME NEW i \in 1..n, i - 1 \in G PROVE i \in G
  <2> DEFINE acc == f[i - 1]
             item == items[i]
             fee == gas[i]
             next == f[i]
  <2>1. i \in Nat \ {0} /\ i - 1 \in 0..n /\ i \in 0..n /\ (i - 1) + 1 = i
    BY <1>1
  <2>2. item \in Items /\ fee \in Nat
    OBVIOUS
  <2>3. Balanced(Descent(m, i), m, 0, acc)
    <3>1. Balanced(Descent(m, (i - 1) + 1), m, 0, f[i - 1])
      BY <1>6, <2>1
    <3> QED BY <2>1, <3>1
  <2>4. Lined(m, base, acc.positions) /\ next = ReplayItem(acc, item, fee, <<m, i>>)
    BY <1>6, <1>8
  <2> HIDE DEF acc, item, fee, next, base
  <2>5. Lined(m, base, next.positions)
    BY <1>3, <2>1, <2>2, <2>3, <2>4, ItemInLine
  <2> QED BY <2>1, <2>5 DEF next
<1>9. 0..n \subseteq G
  <2> HIDE DEF G, n
  <2> QED BY <1>1, <1>7, <1>8, LoopInduction
<1>10. n \in 0..n
  BY <1>1
<1> QED BY <1>6, <1>9, <1>10

(* The invariant: the lots of every position are in the order they are relieved in. *)
LedgerQueued == LedgerBalanced /\ \A key \in Keys : InOrder(positions[key].lots)

LEMMA QueuesStart == Init => LedgerQueued
<1> SUFFICES ASSUME Init PROVE LedgerQueued
  OBVIOUS
<1>1. LedgerBalanced
  BY LedgerStarts
<1>2. ASSUME NEW key \in Keys PROVE InOrder(positions[key].lots)
  <2>1. positions[key].lots = <<>>
    BY DEF Init, NoPosition
  <2>2. DOMAIN <<>> = {}
    OBVIOUS
  <2> QED BY <2>1, <2>2 DEF InOrder
<1> QED BY <1>1, <1>2 DEF LedgerQueued

(* A block's lots follow those before it. *)
LEMMA BlockFollows ==
  ASSUME LedgerQueued, Next
  PROVE  Lined(block + 1, positions, positions')
<1>1. PICK transaction \in Transactions : ReplayTransaction(transaction)
  BY DEF Next
<1> DEFINE items == transaction.items
           gas == GasShares(transaction.fee, items)
           m == block + 1
           b == Replayed(Books, m, items, gas)
           K == Descent(m, 1)
<1>2. positions' = b.positions
  BY <1>1 DEF ReplayTransaction
<1>3. items \in Seq(Items) /\ transaction.fee \in Nat
  BY LedgerAssumption DEF LedgerAssumption, Items
<1>4. gas \in Seq(Nat) /\ Len(gas) = Len(items)
  <2> HIDE DEF items
  <2> QED BY <1>3, GasIsNatural
<1>5. block \in 0..MaxBlocks /\ Balanced(Descent(block + 1, 1), block, 0, Books) /\ MaxBlocks \in Nat
  BY LedgerAssumption DEF LedgerBalanced, LedgerAssumption, LedgerQueued
<1>6. m \in Nat /\ block \in Nat /\ block <= m
  BY <1>5
<1> HIDE DEF items, gas
<1>7. Balanced(K, m, 0, Books)
  <2>1. K \subseteq K /\ Balanced(K, block, 0, Books)
    BY <1>5
  <2> HIDE DEF K, m
  <2> QED BY <1>6, <2>1, BalancedMore
<1>8. Books.positions = positions
  BY DEF Books
<1>9. \A key \in Keys : InOrder(Books.positions[key].lots)
  BY <1>8 DEF LedgerQueued
<1> DEFINE books == Books
<1>10. /\ Balanced(K, m, 0, books) /\ \A key \in Keys : InOrder(books.positions[key].lots)
  BY <1>7, <1>9
<1> HIDE DEF m, books
<1>11. Lined(m, books.positions, Replayed(books, m, items, gas).positions)
  BY <1>3, <1>4, <1>6, <1>10, ReplayInLine
<1> QED BY <1>2, <1>8, <1>11 DEF m, books

LEMMA QueuesGoOn == LedgerQueued /\ [Next]_vars => LedgerQueued'
<1> SUFFICES ASSUME LedgerQueued, [Next]_vars PROVE LedgerQueued'
  OBVIOUS
<1>1. LedgerBalanced'
  BY LedgerGoesOn DEF LedgerQueued
<1>2. CASE UNCHANGED vars
  <2>1. positions' = positions
    BY <1>2 DEF vars
  <2> QED BY <1>1, <2>1 DEF LedgerQueued
<1>3. CASE Next
  <2>1. Lined(block + 1, positions, positions')
    BY <1>3, BlockFollows
  <2>2. \A key \in Keys : InOrder(positions'[key].lots)
    BY <2>1 DEF Lined, Lines
  <2> QED BY <1>1, <2>2 DEF LedgerQueued
<1> QED BY <1>2, <1>3

THEOREM LedgerStaysQueued == Spec => []LedgerQueued
<1> QED BY QueuesStart, QueuesGoOn, PTL DEF Spec

(* Relief is first in, first out, across migrations too: no lot becomes less, or goes,
   while one of an older token is left. *)
THEOREM ReliefStaysFifo == Spec => ReliefIsFifo
<1> DEFINE Fifo ==
      \A key \in Keys :
        LET before == positions[key].lots
            after == positions'[key].lots
            left(id) == {i \in DOMAIN after : after[i].id = id}
        IN  \A i, j \in DOMAIN before :
               /\ before[j].root < before[i].root
               /\ IF left(before[i].id) = {} THEN before[i].qty > Dust[key[2]]
                  ELSE \E k \in left(before[i].id) : after[k].qty < before[i].qty
               => left(before[j].id) = {}
<1>1. LedgerQueued /\ [Next]_vars => [Fifo]_vars
  <2> SUFFICES ASSUME LedgerQueued, Next, NEW key \in Keys
               PROVE  LET before == positions[key].lots
                          after == positions'[key].lots
                          left(id) == {i \in DOMAIN after : after[i].id = id}
                      IN  \A i, j \in DOMAIN before :
                             /\ before[j].root < before[i].root
                             /\ IF left(before[i].id) = {} THEN before[i].qty > Dust[key[2]]
                                ELSE \E k \in left(before[i].id) : after[k].qty < before[i].qty
                             => left(before[j].id) = {}
    OBVIOUS
  <2> DEFINE before == positions[key].lots
             after == positions'[key].lots
             left(id) == {i \in DOMAIN after : after[i].id = id}
             dust == Dust[key[2]]
  <2>1. Lined(block + 1, positions, positions')
    BY BlockFollows
  <2>2. \A i, j \in DOMAIN before :
          before[j].root < before[i].root /\ Less(dust, before[i], after) => Gone(before[j], after)
    BY <2>1 DEF Lined, Lines, Follows
  <2>3. \A id : left(id) = {} <=> \A k \in DOMAIN after : after[k].id # id
    OBVIOUS
  <2>4. \A id : \A k \in left(id) : k \in DOMAIN after /\ after[k].id = id
    OBVIOUS
  <2> HIDE DEF before, after, dust, left
  <2>5. SUFFICES ASSUME NEW i \in DOMAIN before, NEW j \in DOMAIN before,
                        before[j].root < before[i].root,
                        IF left(before[i].id) = {} THEN before[i].qty > dust
                        ELSE \E k \in left(before[i].id) : after[k].qty < before[i].qty
                 PROVE  left(before[j].id) = {}
    BY DEF before, after, dust, left
  <2>6. Less(dust, before[i], after)
    <3>1. CASE left(before[i].id) = {}
      BY <2>3, <2>5, <3>1 DEF Less, Gone
    <3>2. CASE left(before[i].id) # {}
      BY <2>4, <2>5, <3>2 DEF Less
    <3> QED BY <3>1, <3>2
  <2>7. Gone(before[j], after)
    BY <2>2, <2>5, <2>6
  <2> QED BY <2>3, <2>7 DEF Gone
<1> QED BY <1>1, LedgerStaysQueued, PTL DEF Spec, ReliefIsFifo
=============================================================================
