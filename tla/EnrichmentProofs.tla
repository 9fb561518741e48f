--------------------------- MODULE EnrichmentProofs --------------------------
(***************************************************************************)
(* What the enrichment jobs keep of the tables they share with the block   *)
(* commit, for any transactions, tokens, workers and limits.               *)
(***************************************************************************)
EXTENDS Enrichment, Induction, FiniteSetTheorems

(***************************************************************************)
(* Routes                                                                  *)
(***************************************************************************)

(* Event indexes of one transaction. *)
FiniteEvents(f) == IsFiniteSet(DOMAIN f) /\ DOMAIN f \subseteq Nat \ {0}

LEMMA MaxIsGreatest ==
  ASSUME NEW S \in SUBSET Nat, S # {}, IsFiniteSet(S)
  PROVE  Max(S) \in S /\ \A n \in S : n <= Max(S)
<1>1. PICK top \in Nat : \A n \in S : n <= top
  BY FiniteBound
<1>2. \E n \in S : \A m \in S : m <= n
  BY <1>1, GreatestNatural
<1>3. \E n \in S : \A m \in S : n >= m
  BY <1>2
<1> QED BY <1>3 DEF Max

LEMMA MinIsLeast ==
  ASSUME NEW S \in SUBSET Nat, S # {}
  PROVE  Min(S) \in S /\ \A n \in S : Min(S) <= n
<1>1. \E n \in S : \A m \in S : n <= m
  BY LeastNatural
<1> QED BY <1>1 DEF Min

(* A trade that is not the next hop of the one before it. *)
IsStart(s, j) == j = Min(DOMAIN s) \/ ~CanChain(s[Before(s, j)], s[j])

LEMMA ChainStarts ==
  ASSUME NEW s, FiniteEvents(s), NEW i \in DOMAIN s
  PROVE  /\ ChainStart(s, i) \in DOMAIN s /\ ChainStart(s, i) <= i
         /\ IsStart(s, ChainStart(s, i))
         /\ \A j \in DOMAIN s : j <= i /\ IsStart(s, j) => j <= ChainStart(s, i)
<1> DEFINE S == {j \in DOMAIN s : j <= i /\ IsStart(s, j)}
<1>1. ChainStart(s, i) = Max(S)
  BY DEF ChainStart, IsStart
<1>2. Min(DOMAIN s) \in S
  <2>1. DOMAIN s \in SUBSET Nat /\ DOMAIN s # {}
    BY DEF FiniteEvents
  <2>2. Min(DOMAIN s) \in DOMAIN s /\ \A n \in DOMAIN s : Min(DOMAIN s) <= n
    BY <2>1, MinIsLeast
  <2> QED BY <2>2 DEF IsStart
<1>3. S \in SUBSET Nat /\ S # {} /\ IsFiniteSet(S)
  <2>1. S \in SUBSET DOMAIN s
    OBVIOUS
  <2>2. IsFiniteSet(S)
    BY <2>1, FS_Subset DEF FiniteEvents
  <2> QED BY <1>2, <2>1, <2>2 DEF FiniteEvents
<1>4. Max(S) \in S /\ \A n \in S : n <= Max(S)
  <2> HIDE DEF S
  <2> QED BY <1>3, MaxIsGreatest
<1> QED BY <1>1, <1>4

LEMMA BeforeIsNext ==
  ASSUME NEW s, FiniteEvents(s), NEW i \in DOMAIN s, i # Min(DOMAIN s)
  PROVE  /\ Before(s, i) \in DOMAIN s /\ Before(s, i) < i
         /\ \A j \in DOMAIN s : j < i => j <= Before(s, i)
<1> DEFINE S == {j \in DOMAIN s : j < i}
<1>1. DOMAIN s \in SUBSET Nat /\ DOMAIN s # {}
  BY DEF FiniteEvents
<1>2. Min(DOMAIN s) \in DOMAIN s /\ \A n \in DOMAIN s : Min(DOMAIN s) <= n
  BY <1>1, MinIsLeast
<1>3. Min(DOMAIN s) \in S
  BY <1>1, <1>2
<1>4. S \in SUBSET DOMAIN s
  OBVIOUS
<1>5. IsFiniteSet(S)
  BY <1>4, FS_Subset DEF FiniteEvents
<1>6. S \in SUBSET Nat /\ S # {}
  BY <1>1, <1>3
<1>7. Max(S) \in S /\ \A n \in S : n <= Max(S)
  <2> HIDE DEF S
  <2> QED BY <1>5, <1>6, MaxIsGreatest
<1>8. Before(s, i) = Max(S)
  BY DEF Before
<1> QED BY <1>7, <1>8

(* A chain is finite, holds the trade it is the chain of, and starts at one of its
   events. *)
LEMMA Chains ==
  ASSUME NEW s, FiniteEvents(s), NEW i \in DOMAIN s
  PROVE  /\ i \in Chain(s, i) /\ Chain(s, i) \subseteq DOMAIN s
         /\ \A S \in SUBSET Chain(s, i) : IsFiniteSet(S) /\ Cardinality(S) \in Nat
         /\ \A j \in Chain(s, i) : ChainStart(s, j) = ChainStart(s, i)
         /\ \A j \in DOMAIN s : ChainStart(s, j) = ChainStart(s, i) => j \in Chain(s, i)
<1>1. Chain(s, i) \in SUBSET DOMAIN s
  BY DEF Chain
<1>2. ASSUME NEW S \in SUBSET Chain(s, i) PROVE IsFiniteSet(S) /\ Cardinality(S) \in Nat
  <2>1. S \in SUBSET DOMAIN s
    BY <1>1
  <2>2. IsFiniteSet(S)
    BY <2>1, FS_Subset DEF FiniteEvents
  <2> QED BY <2>2, FS_CardinalityType
<1> QED BY <1>1, <1>2 DEF Chain

Hops(s, i) == Cardinality(Chain(s, i))
HopsBefore(s, i) == Cardinality({j \in Chain(s, i) : j < i})

LEMMA RouteOf ==
  ASSUME NEW s, FiniteEvents(s), NEW i \in DOMAIN s
  PROVE  /\ Routes(s)[i].group = IF Hops(s, i) > 1 THEN ChainStart(s, i) ELSE 0
         /\ Routes(s)[i].hop = HopsBefore(s, i) /\ Routes(s)[i].hops = Hops(s, i)
         /\ Hops(s, i) \in Nat /\ HopsBefore(s, i) \in Nat /\ ChainStart(s, i) \in Nat \ {0}
         /\ Routes(s)[i] \in [group : Nat, hop : Nat, hops : Nat]
<1>1. ChainStart(s, i) \in Nat \ {0}
  BY ChainStarts DEF FiniteEvents
<1>2. {j \in Chain(s, i) : j < i} \in SUBSET Chain(s, i) /\ Chain(s, i) \in SUBSET Chain(s, i)
  OBVIOUS
<1>3. Hops(s, i) \in Nat /\ HopsBefore(s, i) \in Nat
  BY <1>2, Chains DEF Hops, HopsBefore
<1>4. Routes(s)[i] = [group |-> IF Hops(s, i) > 1 THEN ChainStart(s, i) ELSE 0,
                      hop |-> HopsBefore(s, i), hops |-> Hops(s, i)]
  BY DEF Routes, Hops, HopsBefore
<1> QED BY <1>1, <1>3, <1>4

(* The trades of a chain up to one of them are those before it and itself. *)
LEMMA OneMoreHop ==
  ASSUME NEW s, FiniteEvents(s), NEW b \in DOMAIN s, NEW S,
         S = {j \in Chain(s, b) : j <= b}
  PROVE  Cardinality(S) = HopsBefore(s, b) + 1
<1> DEFINE B == {j \in Chain(s, b) : j < b}
<1>1. IsFiniteSet(B) /\ Cardinality(B) \in Nat
  <2>1. B \in SUBSET Chain(s, b)
    OBVIOUS
  <2> QED BY <2>1, Chains
<1>2. b \in Chain(s, b) /\ Chain(s, b) \subseteq Nat
  BY Chains DEF FiniteEvents
<1>3. S = B \cup {b}
  BY <1>2
<1>4. b \notin B
  BY <1>2
<1>5. Cardinality(B \cup {b}) = Cardinality(B) + 1
  <2> HIDE DEF B
  <2> QED BY <1>1, <1>4, FS_AddElement
<1> QED BY <1>3, <1>5 DEF HopsBefore

LEMMA LinkedTrade ==
  ASSUME NEW s, FiniteEvents(s), NEW i \in DOMAIN s, ~IsStart(s, i)
  PROVE  LET b == Before(s, i) IN
         /\ ChainStart(s, i) = ChainStart(s, b) /\ Chain(s, i) = Chain(s, b)
         /\ HopsBefore(s, i) = HopsBefore(s, b) + 1 /\ Hops(s, i) > 1
<1> DEFINE b == Before(s, i)
<1>1. /\ b \in DOMAIN s /\ b < i /\ i \in Nat /\ b \in Nat
      /\ \A j \in DOMAIN s : j < i => j <= b
  BY BeforeIsNext DEF IsStart, FiniteEvents
<1> HIDE DEF b
<1>2. /\ ChainStart(s, i) \in DOMAIN s /\ ChainStart(s, i) <= i
      /\ IsStart(s, ChainStart(s, i))
      /\ \A j \in DOMAIN s : j <= i /\ IsStart(s, j) => j <= ChainStart(s, i)
  BY ChainStarts
<1>3. /\ ChainStart(s, b) \in DOMAIN s /\ ChainStart(s, b) <= b
      /\ IsStart(s, ChainStart(s, b))
      /\ \A j \in DOMAIN s : j <= b /\ IsStart(s, j) => j <= ChainStart(s, b)
  BY <1>1, ChainStarts
<1>4. ChainStart(s, i) = ChainStart(s, b)
  <2>1. ChainStart(s, i) \in Nat /\ ChainStart(s, b) \in Nat
    BY <1>2, <1>3 DEF FiniteEvents
  <2>2. ChainStart(s, i) # i
    BY <1>2
  <2>3. ChainStart(s, i) <= b
    BY <1>1, <1>2, <2>1, <2>2
  <2>4. ChainStart(s, i) <= ChainStart(s, b)
    BY <1>2, <1>3, <2>3
  <2>5. ChainStart(s, b) <= ChainStart(s, i)
    BY <1>1, <1>2, <1>3, <2>1
  <2> QED BY <2>1, <2>4, <2>5
<1>5. Chain(s, i) = Chain(s, b)
  BY <1>4 DEF Chain
<1>6. {j \in Chain(s, i) : j < i} = {j \in Chain(s, b) : j <= b}
  <2>1. Chain(s, b) \subseteq DOMAIN s /\ DOMAIN s \subseteq Nat
    BY <1>1, Chains DEF FiniteEvents
  <2>2. \A j \in Chain(s, b) : j < i <=> j <= b
    BY <1>1, <2>1
  <2> QED BY <1>5, <2>2
<1>7. HopsBefore(s, i) = HopsBefore(s, b) + 1
  BY <1>1, <1>6, OneMoreHop DEF HopsBefore
<1>8. Hops(s, i) > 1
  <2>1. {b, i} \in SUBSET Chain(s, i) /\ b # i /\ Chain(s, i) \in SUBSET Chain(s, i)
    BY <1>1, <1>5, Chains
  <2>2. IsFiniteSet(Chain(s, i)) /\ Cardinality(Chain(s, i)) \in Nat
    BY <2>1, Chains
  <2>3. IsFiniteSet({b}) /\ Cardinality({b}) = 1
    BY FS_Singleton
  <2>4. Cardinality({b} \cup {i}) = 2
    BY <2>1, <2>3, FS_AddElement
  <2>5. {b, i} = {b} \cup {i}
    OBVIOUS
  <2>6. Cardinality({b, i}) <= Cardinality(Chain(s, i))
    BY <2>1, <2>2, FS_Subset
  <2> QED BY <2>2, <2>4, <2>5, <2>6 DEF Hops
<1> QED BY <1>4, <1>5, <1>7, <1>8 DEF b

LEMMA StartingTrade ==
  ASSUME NEW s, FiniteEvents(s), NEW i \in DOMAIN s, IsStart(s, i)
  PROVE  /\ HopsBefore(s, i) = 0
         /\ i # Min(DOMAIN s) => HopsBefore(s, Before(s, i)) + 1 = Hops(s, Before(s, i))
<1> DEFINE b == Before(s, i)
<1>1. DOMAIN s \subseteq Nat
  BY DEF FiniteEvents
<1>2. ASSUME NEW j \in DOMAIN s
      PROVE  /\ ChainStart(s, j) \in Nat /\ ChainStart(s, j) <= j
             /\ i <= j => i <= ChainStart(s, j)
  BY <1>1, ChainStarts
<1>3. HopsBefore(s, i) = 0
  <2>1. \A j \in Chain(s, i) : j \in DOMAIN s /\ ChainStart(s, j) = ChainStart(s, i)
    BY Chains
  <2>2. i <= ChainStart(s, i)
    BY <1>1, <1>2
  <2>3. {j \in Chain(s, i) : j < i} = {}
    <3> SUFFICES ASSUME NEW j \in Chain(s, i), j < i PROVE FALSE
      OBVIOUS
    <3>1. j \in Nat /\ i \in Nat
      BY <1>1, <2>1
    <3>2. ChainStart(s, j) <= j /\ ChainStart(s, j) \in Nat
      BY <1>2, <2>1
    <3> QED BY <2>1, <2>2, <3>1, <3>2
  <2> QED BY <2>3, FS_EmptySet DEF HopsBefore
<1>4. ASSUME i # Min(DOMAIN s) PROVE HopsBefore(s, b) + 1 = Hops(s, b)
  <2>1. /\ b \in DOMAIN s /\ b < i /\ i \in Nat /\ b \in Nat
        /\ \A j \in DOMAIN s : j < i => j <= b
    BY <1>1, <1>4, BeforeIsNext
  <2> HIDE DEF b
  <2>2. \A j \in Chain(s, b) : j \in DOMAIN s /\ ChainStart(s, j) = ChainStart(s, b)
    BY <2>1, Chains
  <2>3. ASSUME NEW j \in Chain(s, b) PROVE j <= b
    <3>1. j \in Nat /\ j \in DOMAIN s
      BY <1>1, <2>2
    <3>2. ChainStart(s, b) < i
      BY <1>2, <2>1
    <3>3. ~(i <= j)
      BY <1>2, <2>1, <2>2, <3>1, <3>2
    <3> QED BY <2>1, <3>1, <3>3
  <2>4. Chain(s, b) = {j \in Chain(s, b) : j <= b}
    BY <2>3
  <2> QED BY <2>1, <2>4, OneMoreHop DEF Hops
<1> QED BY <1>3, <1>4 DEF b

(* Rows that carry the routes of their swaps are well-formed chains. *)
LEMMA RoutesAreWellRouted ==
  ASSUME NEW s, FiniteEvents(s), NEW rows, DOMAIN rows = DOMAIN s,
         \A i \in DOMAIN s : rows[i].swap = s[i] /\ rows[i].route = Routes(s)[i]
  PROVE  WellRouted(rows)
<1> DEFINE Linked(i) == /\ i # Min(DOMAIN rows)
                        /\ CanChain(rows[Before(rows, i)].swap, rows[i].swap)
<1> SUFFICES ASSUME NEW i \in DOMAIN rows
             PROVE  LET here == rows[i].route
                        before == rows[Before(rows, i)].route
                    IN  /\ ~Linked(i) =>
                              /\ here.hop = 0
                              /\ i # Min(DOMAIN rows) => before.hop + 1 = before.hops
                        /\ Linked(i) =>
                              /\ MultiHop(here) /\ here.group = before.group
                              /\ here.hop = before.hop + 1 /\ here.hops = before.hops
                        /\ MultiHop(here) <=> here.hops > 1
  BY DEF WellRouted
<1> DEFINE b == Before(s, i)
<1>1. Before(rows, i) = b /\ i \in DOMAIN s
  BY DEF Before
<1>2. i # Min(DOMAIN s) => b \in DOMAIN s
  BY <1>1, BeforeIsNext
<1>3. Linked(i) <=> ~IsStart(s, i)
  BY <1>1, <1>2 DEF IsStart
<1>4. ASSUME NEW j \in DOMAIN s
      PROVE  /\ rows[j].route.group = IF Hops(s, j) > 1 THEN ChainStart(s, j) ELSE 0
             /\ rows[j].route.hop = HopsBefore(s, j) /\ rows[j].route.hops = Hops(s, j)
             /\ Hops(s, j) \in Nat /\ HopsBefore(s, j) \in Nat /\ ChainStart(s, j) \in Nat \ {0}
  <2>1. rows[j].route = Routes(s)[j]
    OBVIOUS
  <2> QED BY <2>1, RouteOf
<1>5. MultiHop(rows[i].route) <=> rows[i].route.hops > 1
  BY <1>1, <1>4 DEF MultiHop
<1> HIDE DEF Linked, b
<1>6. CASE Linked(i)
  <2>1. i # Min(DOMAIN s) /\ ~IsStart(s, i)
    BY <1>3, <1>6 DEF Linked
  <2>2. /\ ChainStart(s, i) = ChainStart(s, b) /\ Hops(s, i) = Hops(s, b)
        /\ HopsBefore(s, i) = HopsBefore(s, b) + 1 /\ Hops(s, i) > 1
    BY <1>1, <2>1, LinkedTrade DEF b, Hops
  <2> QED BY <1>1, <1>2, <1>4, <1>5, <1>6, <2>1, <2>2
<1>7. CASE ~Linked(i)
  <2>1. /\ HopsBefore(s, i) = 0
        /\ i # Min(DOMAIN s) => HopsBefore(s, b) + 1 = Hops(s, b)
    BY <1>1, <1>3, <1>7, StartingTrade DEF b
  <2> QED BY <1>1, <1>2, <1>4, <1>5, <1>7, <2>1
<1> QED BY <1>6, <1>7
(***************************************************************************)
(* Types                                                                   *)
(***************************************************************************)

Transfer == [routing : BOOLEAN, contract : BOOLEAN, resolved : BOOLEAN]

(* Rows of trades by event index, as every writer of them leaves them. *)
IsTrades(rows) == FiniteEvents(rows) /\ \A i \in DOMAIN rows : rows[i] \in Row
AreTrades(rows) == DOMAIN rows = Height /\ \A h \in Height : IsTrades(rows[h])

(* The tables hold rows of what Contents allows, and transfers only of swaps
   of the block. *)
TablesTyped ==
    /\ DOMAIN block = Height
    /\ \A h \in Height : block[h] = NoRows \/ block[h] \in Contents[h]
    /\ AreTrades(trades)
    /\ DOMAIN transfers = Height
    /\ \A h \in Height : /\ DOMAIN transfers[h] \subseteq DOMAIN block[h]
                         /\ \A i \in DOMAIN transfers[h] : transfers[h][i] \in Transfer
    /\ chainQueue \in [Height -> Status]
    /\ tokenQueue \in [Token -> [status : Status, seen : {0} \cup Height]]
    /\ metadata \in [Token -> Level] /\ registry \in [Token -> Level]
    /\ open = NoOpen \/ (open.height \in Height /\ open.swaps \in Contents[open.height])

(* What the jobs hold between two steps. *)
JobsTyped ==
    /\ disturbed \subseteq Height /\ claimed \subseteq Token /\ unsorted \subseteq Height
    /\ phase \in {"claim", "items", "transfers"}
    /\ batch \in [Chainer -> SUBSET Height]
    /\ DOMAIN reading = Chainer
    /\ \A w \in Chainer :
         \/ reading[w] = NoReading
         \/ reading[w].height \in Height /\ FiniteEvents(reading[w].swaps)
    /\ \/ view = NoView
       \/ /\ view.height \in Height
          /\ \A i \in DOMAIN view.transfers : view.transfers[i] \in Transfer
    /\ \/ job = NoJob
       \/ /\ job = [token |-> job.token, level |-> job.level, waiting |-> job.waiting,
                    rows |-> job.rows]
          /\ job.token \in Token /\ job.level \in Level /\ AreTrades(job.rows)
    /\ refresh = [step |-> refresh.step, todo |-> refresh.todo, token |-> refresh.token,
                  level |-> refresh.level, resolved |-> refresh.resolved,
                  rows |-> refresh.rows]
    /\ refresh.todo \subseteq Token /\ refresh.level \in Level /\ AreTrades(refresh.rows)

TypesInv == TablesTyped /\ JobsTyped

LEMMA Heights == Height \subseteq Nat \ {0} /\ IsFiniteSet(Height) /\ 0 \notin Height
<1>1. Cardinality(Height) \in Nat
  BY EnrichmentAssumption, FS_CardinalityType
<1> QED BY <1>1, EnrichmentAssumption

LEMMA NoSwaps ==
  /\ DOMAIN NoRows = {} /\ FiniteEvents(NoRows) /\ IsTrades(NoRows)
  /\ \A f : (\A x \in DOMAIN f : FALSE) /\ f = [x \in DOMAIN f |-> f[x]] => f = NoRows
<1>1. DOMAIN NoRows = {}
  BY DEF NoRows
<1>2. FiniteEvents(NoRows)
  BY <1>1, FS_EmptySet DEF FiniteEvents
<1>3. ASSUME NEW f, \A x \in DOMAIN f : FALSE, f = [x \in DOMAIN f |-> f[x]] PROVE f = NoRows
  <2>1. DOMAIN f = {}
    BY <1>3
  <2> QED BY <1>3, <2>1 DEF NoRows
<1> QED BY <1>1, <1>2, <1>3 DEF IsTrades

(* The swaps of a stored block. *)
LEMMA Blocks ==
  ASSUME NEW h \in Height, NEW s, s = NoRows \/ s \in Contents[h]
  PROVE  /\ FiniteEvents(s) /\ s = [i \in DOMAIN s |-> s[i]]
         /\ \A i \in DOMAIN s : s[i] \in UNION {{x[j] : j \in DOMAIN x} : x \in UNION {Contents[g] : g \in Height}}
<1>1. CASE s = NoRows
  <2>1. DOMAIN s = {} /\ s = [i \in DOMAIN s |-> s[i]]
    BY <1>1 DEF NoRows
  <2> QED BY <1>1, <2>1, NoSwaps
<1>2. CASE s \in Contents[h]
  <2>1. s \in UNION {Contents[g] : g \in Height}
    BY <1>2
  <2>2. FiniteEvents(s) /\ s = [i \in DOMAIN s |-> s[i]]
    BY <1>2, ContentsAssumption DEF FiniteEvents
  <2> QED BY <2>1, <2>2
<1> QED BY <1>1, <1>2

LEMMA NewTradesTyped ==
  ASSUME NEW h \in Height, NEW s, s = NoRows \/ s \in Contents[h], NEW known
  PROVE  IsTrades(NewTrades(s, known))
<1>1. DOMAIN NewTrades(s, known) = DOMAIN s
  BY DEF NewTrades
<1>2. ASSUME NEW i \in DOMAIN s PROVE NewTrades(s, known)[i] \in Row
  <2>1. NoRoute \in [group : Nat, hop : Nat, hops : Nat]
    BY DEF NoRoute
  <2>2. (~(TokensOfSwap(s[i]) \subseteq known)) \in BOOLEAN
    OBVIOUS
  <2>3. NewTrades(s, known)[i] =
          [swap |-> s[i], route |-> NoRoute, pending |-> ~(TokensOfSwap(s[i]) \subseteq known)]
    BY DEF NewTrades
  <2> QED BY <2>1, <2>2, <2>3, Blocks DEF Row
<1>3. FiniteEvents(NewTrades(s, known))
  BY <1>1, Blocks DEF FiniteEvents
<1> QED BY <1>1, <1>2, <1>3 DEF IsTrades

LEMMA NewTransfersTyped ==
  ASSUME NEW s, NEW known
  PROVE  LET new == NewTransfers(s, known) IN
         /\ DOMAIN new \subseteq DOMAIN s
         /\ \A i \in DOMAIN new : new[i] \in Transfer /\ new[i].resolved /\ ~new[i].routing
BY DEF NewTransfers, Transfer

LEMMA AnnotatedTyped ==
  ASSUME NEW rows, IsTrades(rows), NEW s, FiniteEvents(s)
  PROVE  IsTrades(Annotated(rows, Routes(s)))
<1>1. DOMAIN Annotated(rows, Routes(s)) = DOMAIN rows /\ DOMAIN Routes(s) = DOMAIN s
  BY DEF Annotated, Routes
<1>2. ASSUME NEW i \in DOMAIN rows PROVE Annotated(rows, Routes(s))[i] \in Row
  <2>1. rows[i] \in Row
    BY DEF IsTrades
  <2>2. CASE i \in DOMAIN s
    <3>1. Routes(s)[i] \in [group : Nat, hop : Nat, hops : Nat]
      BY <2>2, RouteOf
    <3>2. Annotated(rows, Routes(s))[i] = [rows[i] EXCEPT !.route = Routes(s)[i]]
      BY <1>1, <2>2 DEF Annotated
    <3> QED BY <2>1, <3>1, <3>2 DEF Row
  <2>3. CASE i \notin DOMAIN s
    BY <1>1, <2>1, <2>3 DEF Annotated
  <2> QED BY <2>2, <2>3
<1> QED BY <1>1, <1>2 DEF IsTrades, FiniteEvents

LEMMA OverwrittenTyped ==
  ASSUME NEW rows, AreTrades(rows), AreTrades(trades)
  PROVE  AreTrades(Overwritten(rows))
<1>1. DOMAIN Overwritten(rows) = Height
  BY DEF Overwritten
<1>2. ASSUME NEW h \in Height PROVE IsTrades(Overwritten(rows)[h])
  <2>1. IsTrades(rows[h]) /\ IsTrades(trades[h])
    BY DEF AreTrades
  <2>2. Overwritten(rows)[h] = [i \in DOMAIN rows[h] \cup DOMAIN trades[h] |->
            IF i \in DOMAIN rows[h] THEN rows[h][i] ELSE trades[h][i]]
    BY DEF Overwritten
  <2>3. FiniteEvents(Overwritten(rows)[h])
    <3>1. IsFiniteSet(DOMAIN rows[h] \cup DOMAIN trades[h])
      BY <2>1, FS_Union DEF IsTrades, FiniteEvents
    <3> QED BY <2>1, <2>2, <3>1 DEF IsTrades, FiniteEvents
  <2> QED BY <2>1, <2>2, <2>3 DEF IsTrades
<1> QED BY <1>1, <1>2 DEF AreTrades

LEMMA RepricedTyped ==
  ASSUME TablesTyped, NEW tokens, NEW known
  PROVE  AreTrades(Repriced(tokens, known))
<1>1. DOMAIN Repriced(tokens, known) = Height
  BY DEF Repriced
<1>2. ASSUME NEW h \in Height PROVE IsTrades(Repriced(tokens, known)[h])
  <2> DEFINE D == {j \in DOMAIN trades[h] : /\ trades[h][j].pending
                                            /\ j \in DOMAIN block[h]
                                            /\ TokensOfSwap(trades[h][j].swap) \cap tokens # {}}
  <2>1. Repriced(tokens, known)[h] =
          [i \in D |-> [swap |-> block[h][i], route |-> trades[h][i].route,
                        pending |-> ~(TokensOfSwap(block[h][i]) \subseteq known)]]
    BY DEF Repriced
  <2>2. D \in SUBSET DOMAIN trades[h] /\ D \subseteq DOMAIN block[h]
    OBVIOUS
  <2> HIDE DEF D
  <2>3. IsTrades(trades[h]) /\ (block[h] = NoRows \/ block[h] \in Contents[h])
    BY DEF TablesTyped, AreTrades
  <2>4. IsFiniteSet(D) /\ D \subseteq Nat \ {0}
    BY <2>2, <2>3, FS_Subset DEF IsTrades, FiniteEvents
  <2>5. ASSUME NEW i \in D PROVE Repriced(tokens, known)[h][i] \in Row
    <3>1. trades[h][i] \in Row
      BY <2>2, <2>3 DEF IsTrades
    <3>2. (~(TokensOfSwap(block[h][i]) \subseteq known)) \in BOOLEAN
      OBVIOUS
    <3>3. block[h][i] \in UNION {{x[j] : j \in DOMAIN x} : x \in UNION {Contents[g] : g \in Height}}
      BY <2>2, <2>3, Blocks
    <3>4. trades[h][i].route \in [group : Nat, hop : Nat, hops : Nat]
      BY <3>1 DEF Row
    <3> QED BY <2>1, <3>2, <3>3, <3>4 DEF Row
  <2>6. DOMAIN Repriced(tokens, known)[h] = D
    BY <2>1
  <2> QED BY <2>4, <2>5, <2>6 DEF IsTrades, FiniteEvents
<1> QED BY <1>1, <1>2 DEF AreTrades

LEMMA NothingTyped == AreTrades([h \in Height |-> NoRows]) /\ AreTrades(Resting.rows)
BY NoSwaps DEF AreTrades, Resting

LEMMA LevelsTyped ==
  ASSUME NEW table \in [Token -> Level], NEW t, NEW level \in Level
  PROVE  Upserted(table, t, level) \in [Token -> Level]
BY DEF Upserted

LEMMA RecalculatedTyped ==
  ASSUME TablesTyped, NEW t, NEW level
  PROVE  LET new == Recalculated(t, level) IN
         /\ DOMAIN new = Height
         /\ \A h \in Height : /\ DOMAIN new[h] = DOMAIN transfers[h]
                              /\ \A i \in DOMAIN transfers[h] :
                                   /\ new[h][i] \in Transfer
                                   /\ new[h][i].routing = transfers[h][i].routing
<1> DEFINE new == Recalculated(t, level)
<1>1. DOMAIN new = Height /\ \A h \in Height : DOMAIN new[h] = DOMAIN transfers[h]
  BY DEF Recalculated
<1>2. ASSUME NEW h \in Height, NEW i \in DOMAIN transfers[h]
      PROVE  new[h][i] \in Transfer /\ new[h][i].routing = transfers[h][i].routing
  <2>1. transfers[h][i] \in Transfer
    BY DEF TablesTyped
  <2>2. (level = "full") \in BOOLEAN
    OBVIOUS
  <2>3. \/ new[h][i] = transfers[h][i]
        \/ new[h][i] = [transfers[h][i] EXCEPT !.resolved = (level = "full")]
    BY DEF Recalculated
  <2> QED BY <2>1, <2>2, <2>3 DEF Transfer
<1> QED BY <1>1, <1>2

LEMMA SortedTyped ==
  ASSUME NEW t \in Transfer, NEW read \in Transfer, NEW routed \in BOOLEAN, NEW role \in BOOLEAN
  PROVE  /\ Sorted(t, read, routed, role) \in Transfer
         /\ Sorted(t, read, routed, role).resolved = t.resolved
         /\ Sorted(t, read, routed, role).routing => t.routing \/ read.routing \/ routed
<1> DEFINE nowRouting == read.routing \/ routed
           nowContract == read.contract \/ role
<1>1. nowRouting \in BOOLEAN /\ nowContract \in BOOLEAN
  OBVIOUS
<1>2. \/ Sorted(t, read, routed, role) = t
      \/ Sorted(t, read, routed, role) = [t EXCEPT !.routing = nowRouting, !.contract = nowContract]
  BY DEF Sorted
<1>3. nowRouting => read.routing \/ routed
  OBVIOUS
<1> HIDE DEF nowRouting, nowContract
<1> QED BY <1>1, <1>2, <1>3 DEF Transfer

(* What the transfer enrichment writes: a row becomes a routing transfer only
   when it was read as one or moves a hop that was read. *)
LEMMA SortingWrites ==
  ASSUME TablesTyped, JobsTyped, SortTransfers
  PROVE  /\ view.height \in Height /\ DOMAIN transfers' = Height
         /\ \A g \in Height : g # view.height => transfers'[g] = transfers[g]
         /\ DOMAIN transfers'[view.height] = DOMAIN transfers[view.height]
         /\ \A i \in DOMAIN transfers[view.height] :
              LET new == transfers'[view.height][i] IN
              /\ new \in Transfer /\ new.resolved = transfers[view.height][i].resolved
              /\ new.routing => \/ transfers[view.height][i].routing
                                \/ /\ i \in DOMAIN view.transfers
                                   /\ \/ view.transfers[i].routing
                                      \/ MovesHop(view.moved[i], view.rows)
<1> DEFINE h == view.height
<1>1. h \in Height /\ \A i \in DOMAIN view.transfers : view.transfers[i] \in Transfer
  BY DEF SortTransfers, JobsTyped
<1>2. PICK roles \in SUBSET PassingOn(view.moved) :
        transfers' = [transfers EXCEPT ![h] =
           [i \in DOMAIN transfers[h] |->
              IF i \in DOMAIN view.transfers /\ view.rows # NoRows
              THEN Sorted(transfers[h][i], view.transfers[i],
                          RoutedBy(view.moved[i], view.rows, roles),
                          Ends(view.moved[i]) \cap roles # {})
              ELSE transfers[h][i]]]
  BY DEF SortTransfers
<1> DEFINE Routed(i) == RoutedBy(view.moved[i], view.rows, roles)
           Role(i) == Ends(view.moved[i]) \cap roles # {}
           new == [i \in DOMAIN transfers[h] |->
              IF i \in DOMAIN view.transfers /\ view.rows # NoRows
              THEN Sorted(transfers[h][i], view.transfers[i], Routed(i), Role(i))
              ELSE transfers[h][i]]
<1>3. ASSUME NEW i \in DOMAIN transfers[h]
      PROVE  /\ new[i] \in Transfer /\ new[i].resolved = transfers[h][i].resolved
             /\ new[i].routing => \/ transfers[h][i].routing
                                  \/ /\ i \in DOMAIN view.transfers
                                     /\ \/ view.transfers[i].routing
                                        \/ MovesHop(view.moved[i], view.rows)
  <2>1. transfers[h][i] \in Transfer
    BY <1>1 DEF TablesTyped
  <2>2. Routed(i) \in BOOLEAN /\ Role(i) \in BOOLEAN
    BY DEF RoutedBy
  <2>3. Routed(i) => MovesHop(view.moved[i], view.rows)
    BY DEF RoutedBy, MovesHop
  <2>4. CASE new[i] = transfers[h][i]
    BY <2>1, <2>4
  <2>5. CASE /\ i \in DOMAIN view.transfers
             /\ new[i] = Sorted(transfers[h][i], view.transfers[i], Routed(i), Role(i))
    <3>1. view.transfers[i] \in Transfer
      BY <1>1, <2>5
    <3> DEFINE old == transfers[h][i]
               read == view.transfers[i]
               routed == Routed(i)
               role == Role(i)
               row == new[i]
    <3>2. old \in Transfer /\ read \in Transfer /\ routed \in BOOLEAN /\ role \in BOOLEAN
      BY <2>1, <2>2, <3>1
    <3>3. row = Sorted(old, read, routed, role)
      BY <2>5
    <3>4. routed => MovesHop(view.moved[i], view.rows)
      BY <2>3
    <3> HIDE DEF Routed, Role, new, old, read, routed, role, row
    <3>5. /\ row \in Transfer /\ row.resolved = old.resolved
          /\ row.routing => old.routing \/ read.routing \/ routed
      <4>1. /\ Sorted(old, read, routed, role) \in Transfer
            /\ Sorted(old, read, routed, role).resolved = old.resolved
            /\ Sorted(old, read, routed, role).routing =>
                 old.routing \/ read.routing \/ routed
        BY <3>2, SortedTyped
      <4> QED BY <3>3, <4>1
    <3>6. /\ row \in Transfer /\ row.resolved = old.resolved
          /\ row.routing => \/ old.routing
                            \/ /\ i \in DOMAIN view.transfers
                               /\ \/ read.routing
                                  \/ MovesHop(view.moved[i], view.rows)
      BY <2>5, <3>4, <3>5
    <3> QED BY <3>6 DEF row, old, read
  <2> QED BY <2>4, <2>5
<1>4. transfers' = [transfers EXCEPT ![h] = new] /\ DOMAIN new = DOMAIN transfers[h]
  BY <1>2
<1> HIDE DEF new
<1>5. /\ DOMAIN transfers' = Height /\ transfers'[h] = new
      /\ \A g \in Height : g # h => transfers'[g] = transfers[g]
  BY <1>1, <1>4 DEF TablesTyped
<1> QED BY <1>1, <1>3, <1>4, <1>5

LEMMA TablesFrame ==
  ASSUME TablesTyped, UNCHANGED <<tables, open>>
  PROVE  TablesTyped'
BY DEF TablesTyped, AreTrades, IsTrades, FiniteEvents, tables

LEMMA JobsFrame ==
  ASSUME JobsTyped, disturbed' \subseteq Height, UNCHANGED <<chainVars, metadataVars>>
  PROVE  JobsTyped'
BY DEF JobsTyped, AreTrades, IsTrades, FiniteEvents, chainVars, metadataVars, syncVars

LEMMA LaterOf ==
  ASSUME NEW a \in {0} \cup Height, NEW b \in {0} \cup Height
  PROVE  Max({a, b}) \in {0} \cup Height
<1>1. {a, b} \in SUBSET Nat /\ {a, b} # {}
  BY Heights
<1>2. IsFiniteSet({a} \cup {b})
  BY FS_Singleton, FS_AddElement
<1>3. {a, b} = {a} \cup {b}
  OBVIOUS
<1>4. Max({a, b}) \in {a, b}
  BY <1>1, <1>2, <1>3, MaxIsGreatest
<1> QED BY <1>4

LEMMA EnqueuedTyped ==
  ASSUME TablesTyped, NEW tokens, NEW h \in Height
  PROVE  /\ Enqueued(tokenQueue, tokens, h) \in [Token -> [status : Status, seen : {0} \cup Height]]
         /\ \A t \in Token : t \in tokens => Enqueued(tokenQueue, tokens, h)[t].status = "pending"
         /\ \A t \in Token : t \notin tokens => Enqueued(tokenQueue, tokens, h)[t] = tokenQueue[t]
<1> DEFINE new == Enqueued(tokenQueue, tokens, h)
<1>1. \A t \in Token : tokenQueue[t] \in [status : Status, seen : {0} \cup Height]
  BY DEF TablesTyped
<1>2. \A t \in Token : Max({tokenQueue[t].seen, h}) \in {0} \cup Height
  <2> TAKE t \in Token
  <2>1. tokenQueue[t].seen \in {0} \cup Height
    BY <1>1
  <2> QED BY <2>1, LaterOf
<1>3. "pending" \in Status
  BY DEF Status
<1>4. \A t \in Token :
        /\ t \in tokens =>
             new[t] = [status |-> "pending", seen |-> Max({tokenQueue[t].seen, h})]
        /\ t \notin tokens => new[t] = tokenQueue[t]
  BY DEF Enqueued
<1>5. new = [t \in Token |-> new[t]]
  BY DEF Enqueued
<1> HIDE DEF new
<1>6. ASSUME NEW t \in Token
      PROVE  /\ new[t] \in [status : Status, seen : {0} \cup Height]
             /\ t \in tokens => new[t].status = "pending"
  <2> DEFINE later == Max({tokenQueue[t].seen, h})
  <2>1. later \in {0} \cup Height
    BY <1>2
  <2>2. t \in tokens => new[t] = [status |-> "pending", seen |-> later]
    BY <1>4
  <2> HIDE DEF later
  <2>3. t \notin tokens => new[t] \in [status : Status, seen : {0} \cup Height]
    BY <1>1, <1>4
  <2> QED BY <1>3, <2>1, <2>2, <2>3
<1>7. new \in [Token -> [status : Status, seen : {0} \cup Height]]
  BY <1>5, <1>6
<1>8. \A t \in Token : t \in tokens => new[t].status = "pending"
  BY <1>6
<1>9. \A t \in Token : t \notin tokens => new[t] = tokenQueue[t]
  BY <1>4
<1> QED BY <1>7, <1>8, <1>9 DEF new

LEMMA InitTyped == Init => TypesInv
<1> SUFFICES ASSUME Init PROVE TypesInv
  OBVIOUS
<1> USE DEF Init, TablesInit, ChainingInit, MetadataInit
<1>1. TablesTyped
  <2>1. AreTrades(trades) /\ \A h \in Height : DOMAIN transfers[h] = {}
    BY NothingTyped, NoSwaps
  <2>2. chainQueue \in [Height -> Status]
    BY DEF Status
  <2>3. metadata \in [Token -> Level] /\ registry \in [Token -> Level]
    BY DEF Level
  <2>4. tokenQueue \in [Token -> [status : Status, seen : {0} \cup Height]]
    BY DEF Status
  <2> QED BY <2>1, <2>2, <2>3, <2>4 DEF TablesTyped
<1>2. JobsTyped
  <2>1. AreTrades(refresh.rows)
    BY NothingTyped
  <2>2. /\ refresh = [step |-> refresh.step, todo |-> refresh.todo, token |-> refresh.token,
                      level |-> refresh.level, resolved |-> refresh.resolved,
                      rows |-> refresh.rows]
        /\ refresh.todo \subseteq Token /\ refresh.level \in Level
    BY DEF Resting, Level
  <2> QED BY <2>1, <2>2 DEF JobsTyped
<1> QED BY <1>1, <1>2 DEF TypesInv

LEMMA StoreTyped ==
  ASSUME TypesInv, StoreNext \/ RewindNext
  PROVE  TypesInv'
<1> USE DEF TypesInv
<1>1. ASSUME NEW h \in Height, BeginStore(h), UNCHANGED <<chainVars, metadataVars>>
      PROVE  TypesInv'
  <2>1. JobsTyped'
    BY <1>1, JobsFrame DEF BeginStore, JobsTyped
  <2>2. open'.height \in Height /\ open'.swaps \in Contents[open'.height]
    BY <1>1 DEF BeginStore
  <2> QED BY <1>1, <2>1, <2>2 DEF BeginStore, TablesTyped, AreTrades, IsTrades, FiniteEvents, tables
<1>2. ASSUME FinishStore(Readers), UNCHANGED <<chainVars, metadataVars>>
      PROVE  TypesInv'
  <2> DEFINE h == open.height
             rows == NewTrades(open.swaps, open.known)
             moves == NewTransfers(open.swaps, open.known)
  <2>1. h \in Height /\ open.swaps \in Contents[h]
    BY <1>2 DEF FinishStore, TablesTyped
  <2>2. JobsTyped'
    <3>1. disturbed' \subseteq Height
      BY <1>2, <2>1 DEF FinishStore, JobsTyped
    <3> QED BY <1>2, <3>1, JobsFrame
  <2>3. /\ block' = [block EXCEPT ![h] = open.swaps]
        /\ trades' = [trades EXCEPT ![h] = rows]
        /\ transfers' = [transfers EXCEPT ![h] = moves]
        /\ chainQueue' = [chainQueue EXCEPT ![h] = "pending"]
        /\ metadata' = metadata /\ registry' = registry /\ open' = NoOpen
    BY <1>2 DEF FinishStore, Requeued
  <2>4. IsTrades(rows)
    BY <2>1, NewTradesTyped
  <2>5. DOMAIN moves \subseteq DOMAIN open.swaps /\ \A i \in DOMAIN moves : moves[i] \in Transfer
    BY NewTransfersTyped
  <2>6. tokenQueue' \in [Token -> [status : Status, seen : {0} \cup Height]]
    BY <1>2, <2>1, EnqueuedTyped DEF FinishStore
  <2> HIDE DEF h, rows, moves
  <2>7. AreTrades(trades')
    BY <2>1, <2>3, <2>4 DEF AreTrades, TablesTyped
  <2>8. chainQueue' \in [Height -> Status]
    BY <2>1, <2>3 DEF TablesTyped, Status
  <2>9. \A g \in Height : /\ block'[g] = IF g = h THEN open.swaps ELSE block[g]
                          /\ transfers'[g] = IF g = h THEN moves ELSE transfers[g]
    BY <2>1, <2>3 DEF TablesTyped
  <2>10. \A g \in Height : /\ block'[g] = NoRows \/ block'[g] \in Contents[g]
                           /\ DOMAIN transfers'[g] \subseteq DOMAIN block'[g]
                           /\ \A i \in DOMAIN transfers'[g] : transfers'[g][i] \in Transfer
    BY <2>1, <2>5, <2>9 DEF TablesTyped
  <2> QED BY <2>2, <2>3, <2>6, <2>7, <2>8, <2>10 DEF TablesTyped
<1>3. ASSUME Rewind(Readers), UNCHANGED <<chainVars, metadataVars>>
      PROVE  TypesInv'
  <2>1. PICK from \in Height \cup {Cardinality(Height) + 1}, unverified \in SUBSET Token, stale \in SUBSET Token :
         LET cut == {h \in Height : h >= from} IN
         /\ block' = [h \in Height |-> IF h \in cut THEN NoRows ELSE block[h]]
         /\ trades' = [h \in Height |-> IF h \in cut THEN NoRows ELSE trades[h]]
         /\ transfers' = [h \in Height |-> IF h \in cut THEN NoRows ELSE transfers[h]]
         /\ registry' = [t \in Token |-> IF t \in unverified THEN "none" ELSE registry[t]]
         /\ metadata' = [t \in Token |-> IF t \in stale THEN "none" ELSE metadata[t]]
         /\ disturbed' = disturbed \cup (cut \cap Readers)
    BY <1>3 DEF Rewind
  <2> DEFINE cut == {h \in Height : h >= from}
  <2>2. JobsTyped'
    <3>1. disturbed' \subseteq Height
      BY <2>1 DEF JobsTyped
    <3> QED BY <1>3, <3>1, JobsFrame
  <2>3. registry' \in [Token -> Level] /\ metadata' \in [Token -> Level]
    BY <2>1 DEF TablesTyped, Level
  <2>4. chainQueue' = chainQueue /\ tokenQueue' = tokenQueue /\ open' = open
    BY <1>3 DEF Rewind
  <2>5. \A g \in Height : /\ block'[g] = IF g \in cut THEN NoRows ELSE block[g]
                          /\ trades'[g] = IF g \in cut THEN NoRows ELSE trades[g]
                          /\ transfers'[g] = IF g \in cut THEN NoRows ELSE transfers[g]
    BY <2>1
  <2>6. DOMAIN block' = Height /\ DOMAIN trades' = Height /\ DOMAIN transfers' = Height
    BY <2>1
  <2> HIDE DEF cut
  <2>7. AreTrades(trades')
    BY <2>5, <2>6, NoSwaps DEF AreTrades, TablesTyped
  <2>8. \A g \in Height : /\ block'[g] = NoRows \/ block'[g] \in Contents[g]
                          /\ DOMAIN transfers'[g] \subseteq DOMAIN block'[g]
                          /\ \A i \in DOMAIN transfers'[g] : transfers'[g][i] \in Transfer
    BY <2>5, NoSwaps DEF TablesTyped
  <2> QED BY <2>2, <2>3, <2>4, <2>6, <2>7, <2>8 DEF TablesTyped
<1> QED BY <1>1, <1>2, <1>3 DEF StoreNext, RewindNext

LEMMA ChainTyped ==
  ASSUME TypesInv, NEW w \in Chainer, ChainNext(w)
  PROVE  TypesInv'
<1> USE DEF TypesInv
<1> DEFINE ReadersTyped ==
             /\ batch' \in [Chainer -> SUBSET Height] /\ DOMAIN reading' = Chainer
             /\ \A v \in Chainer :
                  \/ reading'[v] = NoReading
                  \/ reading'[v].height \in Height /\ FiniteEvents(reading'[v].swaps)
<1>1. ASSUME ReadersTyped, disturbed' \subseteq Height
      PROVE  JobsTyped'
  <2>1. UNCHANGED metadataVars
    BY DEF ChainNext
  <2> QED BY <1>1, <2>1 DEF JobsTyped, AreTrades, IsTrades, FiniteEvents, metadataVars, syncVars
<1>2. CASE ClaimTransactions(w)
  <2>1. PICK items \in SUBSET Height :
          /\ batch' = [batch EXCEPT ![w] = items]
          /\ chainQueue' = [h \in Height |-> IF h \in items THEN "processing" ELSE chainQueue[h]]
    BY <1>2 DEF ClaimTransactions, Oldest
  <2>2. UNCHANGED <<block, trades, transfers, tokenQueue, metadata, registry, open, disturbed, reading>>
    BY <1>2 DEF ClaimTransactions
  <2>3. chainQueue' \in [Height -> Status]
    BY <2>1 DEF TablesTyped, Status
  <2>4. TablesTyped'
    BY <2>2, <2>3 DEF TablesTyped, AreTrades, IsTrades, FiniteEvents
  <2>5. ReadersTyped /\ disturbed' \subseteq Height
    BY <2>1, <2>2 DEF JobsTyped
  <2> QED BY <1>1, <2>4, <2>5
<1>3. CASE LoadTrades(w)
  <2>1. PICK h \in batch[w] :
          /\ reading' = [reading EXCEPT ![w] = [height |-> h, swaps |-> Swaps(trades[h])]]
          /\ batch' = [batch EXCEPT ![w] = @ \ {h}]
    BY <1>3 DEF LoadTrades
  <2>2. TablesTyped' /\ disturbed' \subseteq Height
    BY <1>3, TablesFrame DEF LoadTrades, tableVars, JobsTyped
  <2>3. h \in Height
    BY <2>1 DEF JobsTyped
  <2>4. FiniteEvents(Swaps(trades[h]))
    <3>1. DOMAIN Swaps(trades[h]) = DOMAIN trades[h]
      BY DEF Swaps
    <3> QED BY <2>3, <3>1 DEF TablesTyped, AreTrades, IsTrades, FiniteEvents
  <2>5. ReadersTyped
    BY <2>1, <2>3, <2>4 DEF JobsTyped
  <2> QED BY <1>1, <2>2, <2>5
<1>4. CASE ApplyRoutes(w, Repricers)
  <2> DEFINE h == reading[w].height
  <2>1. h \in Height /\ FiniteEvents(reading[w].swaps)
    BY <1>4 DEF ApplyRoutes, JobsTyped
  <2>2. /\ trades' = [trades EXCEPT ![h] = Annotated(trades[h], Routes(reading[w].swaps))]
        /\ chainQueue' = [chainQueue EXCEPT ![h] = "processed"]
        /\ reading' = [reading EXCEPT ![w] = NoReading]
        /\ disturbed' = disturbed \cup ({h} \cap Repricers)
        /\ UNCHANGED <<block, transfers, tokenQueue, metadata, registry, open, batch>>
    BY <1>4 DEF ApplyRoutes
  <2> HIDE DEF h
  <2>3. IsTrades(Annotated(trades[h], Routes(reading[w].swaps)))
    BY <2>1, AnnotatedTyped DEF TablesTyped, AreTrades
  <2>4. AreTrades(trades')
    BY <2>1, <2>2, <2>3 DEF TablesTyped, AreTrades
  <2>5. chainQueue' \in [Height -> Status]
    BY <2>1, <2>2 DEF TablesTyped, Status
  <2>6. TablesTyped'
    BY <2>2, <2>4, <2>5 DEF TablesTyped
  <2>7. ReadersTyped /\ disturbed' \subseteq Height
    BY <2>1, <2>2 DEF JobsTyped
  <2> QED BY <1>1, <2>6, <2>7
<1>5. CASE ChainingFails(w)
  <2>1. /\ chainQueue' = [chainQueue EXCEPT ![reading[w].height] = "failed"]
        /\ reading' = [reading EXCEPT ![w] = NoReading]
        /\ UNCHANGED <<block, trades, transfers, tokenQueue, metadata, registry, open,
                       disturbed, batch>>
    BY <1>5 DEF ChainingFails
  <2>2. chainQueue' \in [Height -> Status]
    BY <2>1 DEF TablesTyped, Status
  <2>3. TablesTyped'
    BY <2>1, <2>2 DEF TablesTyped, AreTrades, IsTrades, FiniteEvents
  <2>4. ReadersTyped /\ disturbed' \subseteq Height
    BY <2>1 DEF JobsTyped
  <2> QED BY <1>1, <2>3, <2>4
<1>6. CASE ChainerCrashes(w)
  <2>1. TablesTyped'
    BY <1>6, TablesFrame DEF ChainerCrashes
  <2>2. ReadersTyped /\ disturbed' \subseteq Height
    BY <1>6 DEF ChainerCrashes, JobsTyped
  <2> QED BY <1>1, <2>1, <2>2
<1> QED BY <1>2, <1>3, <1>4, <1>5, <1>6 DEF ChainNext

LEMMA LastWaitingTyped ==
  ASSUME NEW t, \E h \in Height : t \in Waiting(h)
  PROVE  LastWaiting(t) \in Height
<1> DEFINE S == {h \in Height : t \in Waiting(h)}
<1>1. S \in SUBSET Height /\ S # {}
  OBVIOUS
<1> HIDE DEF S
<1>2. S \in SUBSET Nat /\ IsFiniteSet(S)
  BY <1>1, Heights, FS_Subset
<1>3. Max(S) \in S
  BY <1>1, <1>2, MaxIsGreatest
<1> QED BY <1>1, <1>3 DEF LastWaiting, S

LEMMA SyncTyped ==
  ASSUME TypesInv, SyncNext
  PROVE  TypesInv'
<1> USE DEF TypesInv
<1>0. UNCHANGED <<batch, reading>>
  BY DEF SyncNext, chainVars
<1>1. CASE SeedQueue
  <2>1. PICK seeds \in SUBSET UNION {Waiting(h) : h \in Height} :
          tokenQueue' = [t \in Token |-> IF t \in seeds
                           THEN Enqueued(tokenQueue, {t}, LastWaiting(t))[t] ELSE tokenQueue[t]]
    BY <1>1 DEF SeedQueue, Oldest
  <2>2. ASSUME NEW t \in Token
        PROVE  tokenQueue'[t] \in [status : Status, seen : {0} \cup Height]
    <3>1. tokenQueue[t] \in [status : Status, seen : {0} \cup Height]
      BY DEF TablesTyped
    <3>2. CASE t \in seeds
      <4>1. LastWaiting(t) \in Height
        BY <2>1, <3>2, LastWaitingTyped
      <4>2. Enqueued(tokenQueue, {t}, LastWaiting(t))[t] \in [status : Status, seen : {0} \cup Height]
        BY <4>1, EnqueuedTyped
      <4> QED BY <2>1, <3>2, <4>2
    <3>3. CASE t \notin seeds
      BY <2>1, <3>1, <3>3
    <3> QED BY <3>2, <3>3
  <2>3. tokenQueue' \in [Token -> [status : Status, seen : {0} \cup Height]]
    <3>1. tokenQueue' = [t \in Token |-> tokenQueue'[t]]
      BY <2>1
    <3> QED BY <2>2, <3>1
  <2>4. TablesTyped'
    BY <1>1, <2>3 DEF SeedQueue, TablesTyped, AreTrades, IsTrades, FiniteEvents
  <2>5. JobsTyped'
    BY <1>0, <1>1 DEF SeedQueue, JobsTyped, AreTrades, IsTrades, FiniteEvents
  <2> QED BY <2>4, <2>5
<1>2. CASE ClaimTokens
  <2>1. PICK items \in SUBSET Token :
          /\ claimed' = items
          /\ tokenQueue' = [t \in Token |-> IF t \in items
                              THEN [tokenQueue[t] EXCEPT !.status = "processing"]
                              ELSE tokenQueue[t]]
    BY <1>2 DEF ClaimTokens, Oldest
  <2>2. tokenQueue' \in [Token -> [status : Status, seen : {0} \cup Height]]
    <3>1. \A t \in Token : tokenQueue[t] \in [status : Status, seen : {0} \cup Height]
      BY DEF TablesTyped
    <3>2. "processing" \in Status
      BY DEF Status
    <3> QED BY <2>1, <3>1, <3>2
  <2>3. TablesTyped'
    BY <1>2, <2>2 DEF ClaimTokens, TablesTyped, AreTrades, IsTrades, FiniteEvents
  <2>4. JobsTyped'
    BY <1>0, <1>2, <2>1 DEF ClaimTokens, JobsTyped, AreTrades, IsTrades, FiniteEvents
  <2> QED BY <2>3, <2>4
<1>3. ASSUME NEW t \in Token, ResolveToken(t)
      PROVE  TypesInv'
  <2>1. TablesTyped'
    BY <1>3, TablesFrame DEF ResolveToken
  <2>2. /\ job'.token \in Token /\ job'.level \in Level /\ AreTrades(job'.rows)
        /\ job' = [token |-> job'.token, level |-> job'.level, waiting |-> job'.waiting,
                   rows |-> job'.rows]
    BY <1>3, NothingTyped DEF ResolveToken
  <2>3. UNCHANGED <<disturbed, phase, unsorted, view, refresh>> /\ claimed' \subseteq Token
    BY <1>3 DEF ResolveToken, JobsTyped
  <2>4. JobsTyped'
    BY <1>0, <2>2, <2>3 DEF JobsTyped, AreTrades, IsTrades, FiniteEvents
  <2> QED BY <2>1, <2>4
<1>9. CASE ReadWaiting
  <2> DEFINE rows == Repriced({job.token}, {job.token} \cup KnownIn(registry, metadata))
  <2>1. TablesTyped'
    BY <1>9, TablesFrame DEF ReadWaiting, tableVars
  <2>2. AreTrades(rows)
    BY RepricedTyped
  <2>3. job' = [job EXCEPT !.waiting = FALSE, !.rows = rows]
    BY <1>9 DEF ReadWaiting
  <2>4. /\ job = [token |-> job.token, level |-> job.level, waiting |-> job.waiting,
                  rows |-> job.rows]
        /\ job.token \in Token /\ job.level \in Level
    BY <1>9 DEF ReadWaiting, JobsTyped
  <2> HIDE DEF rows
  <2>5. /\ job'.token \in Token /\ job'.level \in Level /\ AreTrades(job'.rows)
        /\ job' = [token |-> job'.token, level |-> job'.level, waiting |-> job'.waiting,
                   rows |-> job'.rows]
    BY <2>2, <2>3, <2>4
  <2>6. UNCHANGED <<disturbed, phase, claimed, unsorted, view, refresh>>
    BY <1>9 DEF ReadWaiting, tableVars
  <2>7. JobsTyped'
    BY <1>0, <2>5, <2>6 DEF JobsTyped, AreTrades, IsTrades, FiniteEvents
  <2> QED BY <2>1, <2>7
<1>10. CASE TokenFails
  <2>1. job.token \in Token /\ tokenQueue' = [tokenQueue EXCEPT ![job.token].status = "failed"]
    BY <1>10 DEF TokenFails, JobsTyped
  <2>2. tokenQueue' \in [Token -> [status : Status, seen : {0} \cup Height]]
    BY <2>1 DEF TablesTyped, Status
  <2>3. TablesTyped'
    BY <1>10, <2>2 DEF TokenFails, TablesTyped, AreTrades, IsTrades, FiniteEvents
  <2>4. JobsTyped'
    BY <1>0, <1>10 DEF TokenFails, JobsTyped, AreTrades, IsTrades, FiniteEvents
  <2> QED BY <2>3, <2>4
<1>4. CASE FinishToken
  <2>1. job.token \in Token /\ job.level \in Level /\ AreTrades(job.rows)
    BY <1>4 DEF FinishToken, JobsTyped
  <2>2. metadata' \in [Token -> Level] /\ registry' \in [Token -> Level]
    BY <1>4, <2>1, LevelsTyped DEF FinishToken, MetadataAfter, RegistryAfter, TablesTyped
  <2>3. AreTrades(trades')
    BY <1>4, <2>1, OverwrittenTyped DEF FinishToken, TablesTyped
  <2>4. tokenQueue' \in [Token -> [status : Status, seen : {0} \cup Height]]
    <3> DEFINE mark == IF job.level = "full" THEN "processed" ELSE "failed"
    <3>1. tokenQueue' = [tokenQueue EXCEPT ![job.token].status = mark]
      BY <1>4 DEF FinishToken, Marked
    <3>2. mark \in Status
      BY DEF Status
    <3> HIDE DEF mark
    <3> QED BY <2>1, <3>1, <3>2 DEF TablesTyped
  <2>5. /\ DOMAIN transfers' = Height
        /\ \A h \in Height : /\ DOMAIN transfers'[h] \subseteq DOMAIN block[h]
                             /\ \A i \in DOMAIN transfers'[h] : transfers'[h][i] \in Transfer
    <3> DEFINE new == Recalculated(job.token, registry'[job.token])
    <3>1. transfers' = transfers \/ transfers' = new
      BY <1>4 DEF FinishToken
    <3>2. /\ DOMAIN new = Height
          /\ \A h \in Height : /\ DOMAIN new[h] = DOMAIN transfers[h]
                               /\ \A i \in DOMAIN transfers[h] : new[h][i] \in Transfer
      BY RecalculatedTyped
    <3> HIDE DEF new
    <3> QED BY <3>1, <3>2 DEF TablesTyped
  <2>6. UNCHANGED <<block, chainQueue, open, disturbed, phase, claimed, unsorted, view, refresh>>
        /\ job' = NoJob
    BY <1>4 DEF FinishToken
  <2>7. TablesTyped'
    BY <2>2, <2>3, <2>4, <2>5, <2>6 DEF TablesTyped
  <2>8. JobsTyped'
    BY <1>0, <2>6 DEF JobsTyped, AreTrades, IsTrades, FiniteEvents
  <2> QED BY <2>7, <2>8
<1>5. CASE ListTransfers
  <2>1. TablesTyped' /\ unsorted' \subseteq Height
    BY <1>5, TablesFrame DEF ListTransfers, tableVars, Oldest
  <2>2. JobsTyped'
    BY <1>0, <1>5, <2>1 DEF ListTransfers, tableVars, JobsTyped, AreTrades, IsTrades, FiniteEvents
  <2> QED BY <2>1, <2>2
<1>6. ASSUME NEW h \in Height, ReadTransfers(h)
      PROVE  TypesInv'
  <2>1. TablesTyped' /\ unsorted' \subseteq Height
    BY <1>6, TablesFrame DEF ReadTransfers, tableVars, JobsTyped
  <2>2. view'.height \in Height /\ view'.transfers = transfers[h]
    BY <1>6 DEF ReadTransfers
  <2>3. \A i \in DOMAIN view'.transfers : view'.transfers[i] \in Transfer
    BY <2>2 DEF TablesTyped
  <2>4. JobsTyped'
    BY <1>0, <1>6, <2>1, <2>2, <2>3
       DEF ReadTransfers, tableVars, JobsTyped, AreTrades, IsTrades, FiniteEvents
  <2> QED BY <2>1, <2>4
<1>7. CASE SortTransfers
  <2> DEFINE h == view.height
  <2>1. h \in Height /\ DOMAIN transfers' = Height
    BY <1>7, SortingWrites
  <2>2. \A g \in Height : /\ DOMAIN transfers'[g] = DOMAIN transfers[g]
                          /\ \A i \in DOMAIN transfers[g] : transfers'[g][i] \in Transfer
    BY <1>7, SortingWrites DEF TablesTyped
  <2>3. UNCHANGED <<block, trades, chainQueue, tokenQueue, metadata, registry, open, disturbed,
                    phase, claimed, job, unsorted, refresh>> /\ view' = NoView
    BY <1>7 DEF SortTransfers
  <2>4. TablesTyped'
    BY <2>1, <2>2, <2>3 DEF TablesTyped, AreTrades, IsTrades, FiniteEvents
  <2>5. JobsTyped'
    BY <1>0, <2>3 DEF JobsTyped, AreTrades, IsTrades, FiniteEvents
  <2> QED BY <2>4, <2>5
<1>8. CASE SyncerCrashes
  <2>1. TablesTyped'
    BY <1>8, TablesFrame DEF SyncerCrashes
  <2>2. JobsTyped'
    BY <1>0, <1>8 DEF SyncerCrashes, JobsTyped, AreTrades, IsTrades, FiniteEvents
  <2> QED BY <2>1, <2>2
<1> QED BY <1>1, <1>2, <1>3, <1>4, <1>5, <1>6, <1>7, <1>8, <1>9, <1>10 DEF SyncNext, Syncing

LEMMA RefreshTyped ==
  ASSUME TypesInv, RefreshNext
  PROVE  TypesInv'
<1> USE DEF TypesInv
<1>0. UNCHANGED <<batch, reading>>
  BY DEF RefreshNext, chainVars
<1> DEFINE RefreshIsTyped ==
             /\ refresh' = [step |-> refresh'.step, todo |-> refresh'.todo,
                            token |-> refresh'.token, level |-> refresh'.level,
                            resolved |-> refresh'.resolved, rows |-> refresh'.rows]
             /\ refresh'.todo \subseteq Token /\ refresh'.level \in Level
             /\ AreTrades(refresh'.rows)
<1>1. ASSUME RefreshIsTyped, UNCHANGED <<syncVars, disturbed>>
      PROVE  JobsTyped'
  BY <1>0, <1>1 DEF JobsTyped, syncVars, AreTrades, IsTrades, FiniteEvents
<1>2. AreTrades(refresh.rows) /\ refresh.todo \subseteq Token /\ refresh.level \in Level
  BY DEF JobsTyped
<1>3. refresh = [step |-> refresh.step, todo |-> refresh.todo, token |-> refresh.token,
                 level |-> refresh.level, resolved |-> refresh.resolved,
                 rows |-> refresh.rows]
  BY DEF JobsTyped
<1>4. ASSUME refresh' = Resting PROVE RefreshIsTyped
  BY <1>4, NothingTyped DEF Resting, Level
<1>5. CASE RefreshScan
  <2>1. TablesTyped' /\ UNCHANGED <<syncVars, disturbed>>
    BY <1>5, TablesFrame DEF RefreshScan, tableVars
  <2>2. PICK todo \in SUBSET Token : refresh' = [refresh EXCEPT !.step = "tokens", !.todo = todo]
    BY <1>5 DEF RefreshScan
  <2>3. RefreshIsTyped
    BY <1>2, <1>3, <2>2
  <2> QED BY <1>1, <2>1, <2>3
<1>6. ASSUME NEW t \in Token, RefreshMetadata(t)
      PROVE  TypesInv'
  <2>1. PICK level \in Level :
          /\ metadata' = MetadataAfter(t, level)
          /\ refresh' = [refresh EXCEPT
               !.step = IF level = "none" THEN "tokens" ELSE "registry",
               !.todo = @ \ {t}, !.token = t, !.level = level,
               !.resolved = @ \cup (IF Gained(t, level) THEN {t} ELSE {})]
    BY <1>6 DEF RefreshMetadata, Answers
  <2>2. metadata' \in [Token -> Level]
    BY <2>1, LevelsTyped DEF MetadataAfter, TablesTyped
  <2>3. TablesTyped' /\ UNCHANGED <<syncVars, disturbed>>
    BY <1>6, <2>2 DEF RefreshMetadata, TablesTyped, AreTrades, IsTrades, FiniteEvents
  <2>4. RefreshIsTyped
    <3> DEFINE step == IF level = "none" THEN "tokens" ELSE "registry"
               found == refresh.resolved \cup (IF Gained(t, level) THEN {t} ELSE {})
    <3>1. refresh' = [refresh EXCEPT !.step = step, !.todo = @ \ {t}, !.token = t,
                                     !.level = level, !.resolved = found]
      BY <2>1
    <3> HIDE DEF step, found
    <3> QED BY <1>2, <1>3, <3>1
  <2> QED BY <1>1, <2>3, <2>4
<1>7. CASE RefreshRegistry
  <2>1. registry' \in [Token -> Level]
    BY <1>2, <1>7, LevelsTyped DEF RefreshRegistry, RegistryAfter, TablesTyped
  <2>2. TablesTyped' /\ UNCHANGED <<syncVars, disturbed>>
    BY <1>7, <2>1 DEF RefreshRegistry, TablesTyped, AreTrades, IsTrades, FiniteEvents
  <2>3. RefreshIsTyped
    BY <1>2, <1>3, <1>7 DEF RefreshRegistry
  <2> QED BY <1>1, <2>2, <2>3
<1>8. CASE RefreshReadTrades
  <2>1. TablesTyped' /\ UNCHANGED <<syncVars, disturbed>>
    BY <1>8, TablesFrame DEF RefreshReadTrades, tableVars
  <2> DEFINE rows == Repriced(refresh.resolved, KnownIn(registry, metadata))
  <2>2. AreTrades(rows)
    BY RepricedTyped
  <2>3. refresh' = [refresh EXCEPT !.step = "reprice", !.rows = rows]
    BY <1>8 DEF RefreshReadTrades
  <2> HIDE DEF rows
  <2>4. RefreshIsTyped
    BY <1>2, <1>3, <2>2, <2>3
  <2> QED BY <1>1, <2>1, <2>4
<1>9. CASE RefreshReprice
  <2>1. AreTrades(trades')
    BY <1>2, <1>9, OverwrittenTyped DEF RefreshReprice, TablesTyped
  <2>2. TablesTyped' /\ UNCHANGED <<syncVars, disturbed>>
    BY <1>9, <2>1 DEF RefreshReprice, TablesTyped
  <2> QED BY <1>1, <1>4, <1>9, <2>2 DEF RefreshReprice
<1>10. CASE RefresherCrashes
  <2>1. TablesTyped' /\ UNCHANGED <<syncVars, disturbed>>
    BY <1>10, TablesFrame DEF RefresherCrashes
  <2> QED BY <1>1, <1>4, <1>10, <2>1 DEF RefresherCrashes
<1> QED BY <1>5, <1>6, <1>7, <1>8, <1>9, <1>10 DEF RefreshNext, Refreshing

LEMMA TypesKept == TypesInv /\ [Next]_vars => TypesInv'
<1> SUFFICES ASSUME TypesInv, [Next]_vars PROVE TypesInv'
  OBVIOUS
<1>1. CASE UNCHANGED vars
  <2>1. TablesTyped'
    BY <1>1, TablesFrame DEF TypesInv, vars, tableVars
  <2>2. JobsTyped'
    BY <1>1, JobsFrame DEF TypesInv, vars, tableVars, JobsTyped
  <2> QED BY <2>1, <2>2 DEF TypesInv
<1> QED BY <1>1, StoreTyped, ChainTyped, SyncTyped, RefreshTyped DEF Next

LEMMA TypesHold == Spec => []TypesInv
BY InitTyped, TypesKept, PTL DEF Spec

(* Every table and every job holds what its columns and variables are for,
   also after faults, rewinds and crashes (jobs/trade-chaining.js,
   jobs/metadata-syncer.js, jobs/meta-refresher.js). *)
THEOREM EnrichmentIsTyped == Spec => []EnrichTypeOK
<1>1. TypesInv => EnrichTypeOK
  BY DEF TypesInv, TablesTyped, JobsTyped, EnrichTypeOK, AreTrades, IsTrades, Transfer
<1> QED BY <1>1, TypesHold, PTL

(***************************************************************************)
(* Complete transfers                                                      *)
(***************************************************************************)

(* A step that processes no token, and leaves the decimals of every transfer. *)
LEMMA CompleteFrame ==
  ASSUME ProcessedTokensAreComplete, TablesTyped, block' = block,
         \A t \in Token : tokenQueue'[t].status = "processed" =>
                          tokenQueue[t].status = "processed",
         \A h \in Height : /\ DOMAIN transfers'[h] = DOMAIN transfers[h]
                           /\ \A i \in DOMAIN transfers[h] :
                                transfers'[h][i].resolved = transfers[h][i].resolved
  PROVE  ProcessedTokensAreComplete'
BY DEF ProcessedTokensAreComplete

LEMMA StoreCompletes ==
  ASSUME TypesInv, ProcessedTokensAreComplete, StoreNext \/ RewindNext
  PROVE  ProcessedTokensAreComplete'
<1> USE DEF TypesInv
<1>1. ASSUME NEW h \in Height, BeginStore(h)
      PROVE  ProcessedTokensAreComplete'
  BY <1>1 DEF BeginStore, tables, ProcessedTokensAreComplete
<1>2. ASSUME FinishStore(Readers)
      PROVE  ProcessedTokensAreComplete'
  <2> DEFINE h == open.height
             moves == NewTransfers(open.swaps, open.known)
  <2>1. h \in Height
    BY <1>2 DEF FinishStore, TablesTyped
  <2>2. \A i \in DOMAIN moves : moves[i].resolved
    BY NewTransfersTyped
  <2>3. \A t \in Token : tokenQueue'[t].status = "processed" => tokenQueue[t].status = "processed"
    <3> TAKE t \in Token
    <3> DEFINE missing == UNION {TokensOfSwap(open.swaps[i]) :
                 i \in DOMAIN NewTrades(open.swaps, open.known)} \ open.known
    <3>1. tokenQueue' = Enqueued(tokenQueue, missing, h)
      BY <1>2 DEF FinishStore
    <3> HIDE DEF missing, h
    <3>2. /\ t \in missing => tokenQueue'[t].status = "pending"
          /\ t \notin missing => tokenQueue'[t] = tokenQueue[t]
      BY <2>1, <3>1, EnqueuedTyped
    <3> QED BY <3>2
  <2>4. transfers' = [transfers EXCEPT ![h] = moves] /\ block' = [block EXCEPT ![h] = open.swaps]
    BY <1>2 DEF FinishStore
  <2> HIDE DEF h, moves
  <2>5. \A g \in Height : /\ transfers'[g] = IF g = h THEN moves ELSE transfers[g]
                          /\ g # h => block'[g] = block[g]
    BY <2>4 DEF TablesTyped
  <2> QED BY <2>2, <2>3, <2>5 DEF ProcessedTokensAreComplete
<1>3. ASSUME Rewind(Readers)
      PROVE  ProcessedTokensAreComplete'
  <2>1. tokenQueue' = tokenQueue
    BY <1>3 DEF Rewind
  <2>2. \A g \in Height : \/ transfers'[g] = transfers[g] /\ block'[g] = block[g]
                          \/ transfers'[g] = NoRows
    BY <1>3 DEF Rewind
  <2> QED BY <2>1, <2>2, NoSwaps DEF ProcessedTokensAreComplete
<1> QED BY <1>1, <1>2, <1>3 DEF StoreNext, RewindNext

LEMMA ChainCompletes ==
  ASSUME TypesInv, ProcessedTokensAreComplete, NEW w \in Chainer, ChainNext(w)
  PROVE  ProcessedTokensAreComplete'
<1>1. UNCHANGED <<block, transfers, tokenQueue>>
  BY DEF ChainNext, ClaimTransactions, LoadTrades, ApplyRoutes, ChainingFails,
         ChainerCrashes, tableVars, tables
<1> QED BY <1>1, CompleteFrame DEF TypesInv

LEMMA RefreshCompletes ==
  ASSUME TypesInv, ProcessedTokensAreComplete, RefreshNext
  PROVE  ProcessedTokensAreComplete'
<1>1. UNCHANGED <<block, transfers, tokenQueue>>
  BY DEF RefreshNext, Refreshing, RefreshScan, RefreshMetadata, RefreshRegistry,
         RefreshReadTrades, RefreshReprice, RefresherCrashes, tableVars, tables
<1> QED BY <1>1, CompleteFrame DEF TypesInv

LEMMA SyncCompletes ==
  ASSUME TypesInv, ProcessedTokensAreComplete, SyncNext
  PROVE  ProcessedTokensAreComplete'
<1> USE DEF TypesInv
<1>1. CASE SeedQueue
  <2>1. PICK seeds \in SUBSET UNION {Waiting(h) : h \in Height} :
          tokenQueue' = [t \in Token |-> IF t \in seeds
                           THEN Enqueued(tokenQueue, {t}, LastWaiting(t))[t] ELSE tokenQueue[t]]
    BY <1>1 DEF SeedQueue, Oldest
  <2>2. ASSUME NEW t \in Token
        PROVE  tokenQueue'[t].status = "processed" => tokenQueue[t].status = "processed"
    <3>1. CASE t \in seeds
      <4>1. LastWaiting(t) \in Height
        BY <2>1, <3>1, LastWaitingTyped
      <4>2. Enqueued(tokenQueue, {t}, LastWaiting(t))[t].status = "pending"
        BY <4>1, EnqueuedTyped
      <4>3. tokenQueue'[t] = Enqueued(tokenQueue, {t}, LastWaiting(t))[t]
        BY <2>1, <3>1
      <4> QED BY <4>2, <4>3
    <3>2. CASE t \notin seeds
      BY <2>1, <3>2
    <3> QED BY <3>1, <3>2
  <2>3. block' = block /\ transfers' = transfers
    BY <1>1 DEF SeedQueue
  <2> QED BY <2>2, <2>3, CompleteFrame
<1>2. CASE ClaimTokens
  <2>1. PICK items \in SUBSET Token :
          tokenQueue' = [t \in Token |-> IF t \in items
                              THEN [tokenQueue[t] EXCEPT !.status = "processing"]
                              ELSE tokenQueue[t]]
    BY <1>2 DEF ClaimTokens, Oldest
  <2>2. ASSUME NEW t \in Token
        PROVE  tokenQueue'[t].status = "processed" => tokenQueue[t].status = "processed"
    <3>1. tokenQueue[t] \in [status : Status, seen : {0} \cup Height]
      BY DEF TablesTyped
    <3> QED BY <2>1, <3>1
  <2>3. block' = block /\ transfers' = transfers
    BY <1>2 DEF ClaimTokens
  <2> QED BY <2>2, <2>3, CompleteFrame
<1>3. CASE FinishToken
  <2> DEFINE t == job.token
             mark == IF job.level = "full" THEN "processed" ELSE "failed"
             new == Recalculated(t, registry'[t])
  <2>1. t \in Token /\ job.level \in Level
    BY <1>3 DEF FinishToken, JobsTyped
  <2>2. /\ tokenQueue' = [tokenQueue EXCEPT ![t].status = mark]
        /\ transfers' = IF job.level = "none" THEN transfers ELSE new
        /\ registry' = Upserted(registry, t, job.level) /\ block' = block
    BY <1>3 DEF FinishToken, Marked, RegistryAfter
  <2>3. \A u \in Token : u # t => tokenQueue'[u] = tokenQueue[u]
    BY <2>1, <2>2 DEF TablesTyped
  <2>4. tokenQueue'[t].status = mark
    BY <2>1, <2>2 DEF TablesTyped
  <2>5. job.level = "full" => registry'[t] = "full" /\ transfers' = new
    BY <2>1, <2>2 DEF Upserted, TablesTyped
  <2>6. /\ \A h \in Height : DOMAIN new[h] = DOMAIN transfers[h]
        /\ \A h \in Height : \A i \in DOMAIN transfers[h] :
             /\ block[h][i].in # t => new[h][i] = transfers[h][i]
             /\ block[h] # NoRows /\ block[h][i].in = t /\ registry'[t] = "full" =>
                  new[h][i].resolved
    <3>1. \A h \in Height : DOMAIN new[h] = DOMAIN transfers[h]
      BY DEF Recalculated
    <3>2. ASSUME NEW h \in Height, NEW i \in DOMAIN transfers[h]
          PROVE  /\ block[h][i].in # t => new[h][i] = transfers[h][i]
                 /\ block[h] # NoRows /\ block[h][i].in = t =>
                      new[h][i] = [transfers[h][i] EXCEPT !.resolved = (registry'[t] = "full")]
      BY DEF Recalculated
    <3>3. \A h \in Height : \A i \in DOMAIN transfers[h] : transfers[h][i] \in Transfer
      BY DEF TablesTyped
    <3> HIDE DEF new, t
    <3>4. ASSUME NEW h \in Height, NEW i \in DOMAIN transfers[h],
                 block[h] # NoRows, block[h][i].in = t, registry'[t] = "full"
          PROVE  new[h][i].resolved
      <4>1. (registry'[t] = "full") = TRUE
        BY <3>4
      <4>2. new[h][i] = [transfers[h][i] EXCEPT !.resolved = TRUE]
        BY <3>2, <3>4, <4>1
      <4> QED BY <3>3, <4>2 DEF Transfer
    <3> QED BY <3>1, <3>2, <3>4
  <2>7. \A h \in Height : \A i \in DOMAIN transfers[h] : block[h] # NoRows
    BY NoSwaps DEF TablesTyped
  <2> HIDE DEF t, new
  <2> SUFFICES ASSUME NEW u \in Token, tokenQueue'[u].status = "processed",
                      NEW h \in Height, NEW i \in DOMAIN transfers'[h], block[h][i].in = u
               PROVE  transfers'[h][i].resolved
    BY <2>2 DEF ProcessedTokensAreComplete
  <2>8. i \in DOMAIN transfers[h]
    BY <2>2, <2>6
  <2>9. CASE u = t
    <3>1. job.level = "full"
      BY <2>4, <2>9
    <3> QED BY <2>5, <2>6, <2>7, <2>8, <2>9, <3>1
  <2>10. CASE u # t
    <3>1. transfers[h][i].resolved
      BY <2>3, <2>8, <2>10 DEF ProcessedTokensAreComplete
    <3>2. transfers'[h][i] = transfers[h][i]
      BY <2>2, <2>6, <2>8, <2>10
    <3> QED BY <3>1, <3>2
  <2> QED BY <2>9, <2>10
<1>4. CASE SortTransfers
  <2>1. \A g \in Height : /\ DOMAIN transfers'[g] = DOMAIN transfers[g]
                          /\ \A i \in DOMAIN transfers[g] :
                                transfers'[g][i].resolved = transfers[g][i].resolved
    BY <1>4, SortingWrites
  <2>2. block' = block /\ tokenQueue' = tokenQueue
    BY <1>4 DEF SortTransfers
  <2> QED BY <2>1, <2>2, CompleteFrame
<1>5. ASSUME \/ \E t \in Token : ResolveToken(t)
             \/ \E h \in Height : ReadTransfers(h)
             \/ ReadWaiting \/ ListTransfers \/ SyncerCrashes
      PROVE  ProcessedTokensAreComplete'
  <2>1. UNCHANGED <<block, transfers, tokenQueue>>
    BY <1>5 DEF ResolveToken, ReadWaiting, ReadTransfers, ListTransfers, SyncerCrashes,
                tableVars, tables
  <2> QED BY <2>1, CompleteFrame
<1>6. CASE TokenFails
  <2>1. /\ tokenQueue' = [tokenQueue EXCEPT ![job.token].status = "failed"]
        /\ block' = block /\ transfers' = transfers
    BY <1>6 DEF TokenFails
  <2>2. ASSUME NEW t \in Token
        PROVE  tokenQueue'[t].status = "processed" => tokenQueue[t].status = "processed"
    BY <2>1 DEF TablesTyped
  <2> QED BY <2>1, <2>2, CompleteFrame
<1> QED BY <1>1, <1>2, <1>3, <1>4, <1>5, <1>6 DEF SyncNext, Syncing

(* A token the queue is done with has its decimals on all of its transfers
   (recalculateTransfersForTokens). *)
THEOREM TokensStayComplete == Spec => []ProcessedTokensAreComplete
<1>1. Init => ProcessedTokensAreComplete
  BY NoSwaps DEF Init, TablesInit, ProcessedTokensAreComplete
<1>2. TypesInv /\ ProcessedTokensAreComplete /\ [Next]_vars => ProcessedTokensAreComplete'
  <2> SUFFICES ASSUME TypesInv, ProcessedTokensAreComplete, [Next]_vars
               PROVE  ProcessedTokensAreComplete'
    OBVIOUS
  <2>1. CASE UNCHANGED vars
    BY <2>1 DEF vars, tableVars, tables, ProcessedTokensAreComplete
  <2> QED BY <2>1, StoreCompletes, ChainCompletes, SyncCompletes, RefreshCompletes DEF Next
<1> QED BY <1>1, <1>2, TypesHold, PTL DEF Spec

(***************************************************************************)
(* Chains                                                                  *)
(***************************************************************************)

(* Rows that are to be written back are those of the stored block, with the
   route each has now. *)
AsStored(rows, h) ==
    \A i \in DOMAIN rows[h] : /\ i \in DOMAIN trades[h]
                              /\ rows[h][i].swap = block[h][i]
                              /\ rows[h][i].route = trades[h][i].route

(* Of a transaction whose rows no job has missed a change of: its trades are
   the block's, each without a route or with the one the block gives it, ... *)
TradesFollowBlock(h) ==
    /\ DOMAIN trades[h] = DOMAIN block[h]
    /\ \A i \in DOMAIN trades[h] : /\ trades[h][i].swap = block[h][i]
                                   /\ trades[h][i].route \in {NoRoute, Routes(block[h])[i]}
    /\ chainQueue[h] = "processed" =>
         \A i \in DOMAIN trades[h] : trades[h][i].route = Routes(block[h])[i]

(* ... what the jobs have read of it is still so, ... *)
ReadingsFollowBlock(h) ==
    /\ \A w \in Chainer : reading[w].height = h => reading[w].swaps = block[h]
    /\ job # NoJob => AsStored(job.rows, h)
    /\ AsStored(refresh.rows, h)

(* Every hop of a route of some rows is that hop in newer ones. *)
KeepsHops(rows, newer) ==
    \A j \in DOMAIN rows : MultiHop(rows[j].route) =>
        /\ j \in DOMAIN newer /\ MultiHop(newer[j].route)
        /\ newer[j].swap = rows[j].swap

(* ... and a transfer is called a routing transfer, or about to be, for a hop. *)
RoutingsFollowTrades(h) ==
    /\ view.height = h =>
         /\ KeepsHops(view.rows, trades[h])
         /\ \A i \in DOMAIN view.transfers :
              /\ view.moved[i] = block[h][i]
              /\ view.transfers[i].routing => MovesHop(block[h][i], trades[h])
    /\ \A i \in DOMAIN transfers[h] :
         transfers[h][i].routing => MovesHop(block[h][i], trades[h])

Follows(h) == TradesFollowBlock(h) /\ ReadingsFollowBlock(h) /\ RoutingsFollowTrades(h)

ChainingInv == \A h \in Height \ disturbed : Follows(h)

(* A step that leaves the swaps and routes of a transaction as they are. *)
SameChain(h) ==
    /\ DOMAIN trades'[h] = DOMAIN trades[h]
    /\ \A i \in DOMAIN trades[h] : /\ trades'[h][i].swap = trades[h][i].swap
                                   /\ trades'[h][i].route = trades[h][i].route

LEMMA TradesFrame ==
  ASSUME NEW h \in Height, TradesFollowBlock(h), SameChain(h), block'[h] = block[h],
         chainQueue'[h] = "processed" => chainQueue[h] = "processed"
  PROVE  TradesFollowBlock(h)'
BY DEF TradesFollowBlock, SameChain

LEMMA ReadingsFrame ==
  ASSUME NEW h \in Height, ReadingsFollowBlock(h), SameChain(h), block'[h] = block[h],
         \A w \in Chainer : reading'[w] = reading[w] \/ reading'[w] = NoReading,
         job' = job \/ job' = NoJob,
         refresh'.rows[h] = refresh.rows[h] \/ refresh'.rows[h] = NoRows
  PROVE  ReadingsFollowBlock(h)'
<1>1. ASSUME NEW w \in Chainer, reading'[w].height = h PROVE reading'[w].swaps = block'[h]
  BY <1>1, Heights DEF ReadingsFollowBlock, NoReading
<1>2. AsStored(refresh.rows, h)'
  BY NoSwaps DEF ReadingsFollowBlock, AsStored, SameChain
<1>3. job' # NoJob => AsStored(job.rows, h)'
  BY DEF ReadingsFollowBlock, AsStored, SameChain
<1> QED BY <1>1, <1>2, <1>3 DEF ReadingsFollowBlock

LEMMA HopsKept ==
  ASSUME NEW rows, NEW newer, KeepsHops(rows, newer)
  PROVE  /\ \A sold : MovesHop(sold, rows) => MovesHop(sold, newer)
         /\ \A older : KeepsHops(older, rows) => KeepsHops(older, newer)
<1>1. ASSUME NEW sold, MovesHop(sold, rows) PROVE MovesHop(sold, newer)
  <2>1. PICK j \in DOMAIN rows : MultiHop(rows[j].route) /\ Moves(sold, rows[j].swap)
    BY <1>1 DEF MovesHop
  <2>2. j \in DOMAIN newer /\ MultiHop(newer[j].route) /\ newer[j].swap = rows[j].swap
    BY <2>1 DEF KeepsHops
  <2> QED BY <2>1, <2>2 DEF MovesHop
<1>2. ASSUME NEW older, KeepsHops(older, rows) PROVE KeepsHops(older, newer)
  BY <1>2 DEF KeepsHops
<1> QED BY <1>1, <1>2

LEMMA RoutingsKept ==
  ASSUME NEW h \in Height, RoutingsFollowTrades(h), KeepsHops(trades[h], trades'[h]),
         block'[h] = block[h], view' = view \/ view' = NoView,
         DOMAIN transfers'[h] = DOMAIN transfers[h],
         \A i \in DOMAIN transfers[h] : transfers'[h][i].routing = transfers[h][i].routing
  PROVE  RoutingsFollowTrades(h)'
<1>1. /\ \A sold : MovesHop(sold, trades[h]) => MovesHop(sold, trades'[h])
      /\ \A older : KeepsHops(older, trades[h]) => KeepsHops(older, trades'[h])
  BY HopsKept
<1>2. ASSUME NEW i \in DOMAIN transfers'[h], transfers'[h][i].routing
      PROVE  MovesHop(block'[h][i], trades'[h])
  BY <1>1, <1>2 DEF RoutingsFollowTrades
<1>3. ASSUME view'.height = h
      PROVE  /\ KeepsHops(view'.rows, trades'[h])
             /\ \A i \in DOMAIN view'.transfers :
                  /\ view'.moved[i] = block'[h][i]
                  /\ view'.transfers[i].routing => MovesHop(block'[h][i], trades'[h])
  <2>1. view' = view
    BY <1>3, Heights DEF NoView
  <2> QED BY <1>1, <1>3, <2>1 DEF RoutingsFollowTrades
<1> QED BY <1>2, <1>3 DEF RoutingsFollowTrades

LEMMA RoutingsFrame ==
  ASSUME NEW h \in Height, RoutingsFollowTrades(h), SameChain(h), block'[h] = block[h],
         transfers'[h] = transfers[h], view' = view \/ view' = NoView
  PROVE  RoutingsFollowTrades(h)'
<1>1. KeepsHops(trades[h], trades'[h])
  BY DEF SameChain, KeepsHops
<1> QED BY <1>1, RoutingsKept

(* Trades are made, read and chained as the block's swaps. *)
LEMMA SwapsOfTrades ==
  ASSUME TypesInv, NEW h \in Height, TradesFollowBlock(h)
  PROVE  Swaps(trades[h]) = block[h]
<1>1. block[h] = [i \in DOMAIN block[h] |-> block[h][i]]
  BY Blocks DEF TypesInv, TablesTyped
<1>2. DOMAIN Swaps(trades[h]) = DOMAIN block[h]
      /\ \A i \in DOMAIN block[h] : Swaps(trades[h])[i] = block[h][i]
  BY DEF TradesFollowBlock, Swaps
<1>3. Swaps(trades[h]) = [i \in DOMAIN block[h] |-> block[h][i]]
  BY <1>2 DEF Swaps
<1> QED BY <1>1, <1>3

(* Writing back rows that are as stored changes no route. *)
LEMMA OverwritingKeepsChains ==
  ASSUME NEW h \in Height, TradesFollowBlock(h), NEW rows, AsStored(rows, h),
         trades' = Overwritten(rows)
  PROVE  SameChain(h)
<1>1. trades'[h] = [i \in DOMAIN rows[h] \cup DOMAIN trades[h] |->
                      IF i \in DOMAIN rows[h] THEN rows[h][i] ELSE trades[h][i]]
  BY DEF Overwritten
<1>2. DOMAIN rows[h] \cup DOMAIN trades[h] = DOMAIN trades[h]
  BY DEF AsStored
<1>3. \A i \in DOMAIN trades[h] :
        trades'[h][i] = IF i \in DOMAIN rows[h] THEN rows[h][i] ELSE trades[h][i]
  BY <1>1
<1>4. DOMAIN trades'[h] = DOMAIN trades[h]
  BY <1>1, <1>2
<1> QED BY <1>3, <1>4 DEF AsStored, TradesFollowBlock, SameChain

LEMMA RepricedAsStored ==
  ASSUME NEW h \in Height, TradesFollowBlock(h), NEW tokens, NEW known
  PROVE  AsStored(Repriced(tokens, known), h)
<1> DEFINE rows == Repriced(tokens, known)
<1>1. \A i \in DOMAIN rows[h] :
        /\ i \in DOMAIN trades[h]
        /\ rows[h][i] = [swap |-> block[h][i], route |-> trades[h][i].route,
                         pending |-> ~(TokensOfSwap(block[h][i]) \subseteq known)]
  BY DEF Repriced
<1> HIDE DEF rows
<1>2. ASSUME NEW i \in DOMAIN rows[h]
      PROVE  /\ i \in DOMAIN trades[h]
             /\ rows[h][i].swap = block[h][i] /\ rows[h][i].route = trades[h][i].route
  <2> DEFINE waits == ~(TokensOfSwap(block[h][i]) \subseteq known)
  <2>1. rows[h][i] = [swap |-> block[h][i], route |-> trades[h][i].route, pending |-> waits]
    BY <1>1
  <2>2. i \in DOMAIN trades[h]
    BY <1>1
  <2> HIDE DEF waits
  <2> QED BY <2>1, <2>2
<1>3. AsStored(rows, h)
  BY <1>2 DEF AsStored
<1> QED BY <1>3 DEF rows

(* A transaction whose new rows no job holds old ones of. *)
LEMMA NobodyReads ==
  ASSUME JobsTyped, NEW h \in Height, h \notin Readers
  PROVE  /\ \A w \in Chainer : reading[w].height # h
         /\ view.height # h
         /\ job # NoJob => DOMAIN job.rows[h] = {}
         /\ DOMAIN refresh.rows[h] = {}
<1>1. \A w \in Chainer : reading[w].height # h
  BY Heights DEF Readers, ChainReaders
<1>2. view.height # h
  BY Heights DEF Readers, MetadataReaders
<1>3. h \notin Repricers
  BY DEF Readers, MetadataReaders
<1>4. job # NoJob => job.rows[h] = NoRows
  BY <1>3 DEF Repricers, Pricing
<1>5. refresh.rows[h] = NoRows
  BY <1>3 DEF Repricers, Pricing
<1> QED BY <1>1, <1>2, <1>4, <1>5, NoSwaps

LEMMA StoreFollows ==
  ASSUME TypesInv, ChainingInv, StoreNext \/ RewindNext
  PROVE  ChainingInv'
<1> USE DEF TypesInv
<1>0. UNCHANGED <<reading, job, refresh, view>>
  BY DEF StoreNext, RewindNext, chainVars, metadataVars, syncVars
<1>1. ASSUME NEW g \in Height, BeginStore(g), NEW h \in Height \ disturbed'
      PROVE  Follows(h)'
  <2>1. UNCHANGED <<block, trades, transfers, chainQueue, disturbed>>
    BY <1>1 DEF BeginStore, tables
  <2>2. Follows(h)
    BY <1>1, <2>1 DEF ChainingInv
  <2> QED BY <1>0, <2>1, <2>2 DEF Follows, TradesFollowBlock, ReadingsFollowBlock,
            RoutingsFollowTrades, AsStored
<1>2. ASSUME FinishStore(Readers), NEW h \in Height \ disturbed'
      PROVE  Follows(h)'
  <2> DEFINE rows == NewTrades(open.swaps, open.known)
             moves == NewTransfers(open.swaps, open.known)
             new == open.height
  <2>1. new \in Height /\ open.swaps \in Contents[new]
    BY <1>2 DEF FinishStore, TablesTyped
  <2>2. /\ block' = [block EXCEPT ![new] = open.swaps]
        /\ trades' = [trades EXCEPT ![new] = rows]
        /\ transfers' = [transfers EXCEPT ![new] = moves]
        /\ chainQueue' = [chainQueue EXCEPT ![new] = "pending"]
        /\ disturbed' = (disturbed \ {new}) \cup ({new} \cap Readers)
    BY <1>2 DEF FinishStore, Requeued
  <2>3. CASE h = new
    <3>1. h \notin Readers
      BY <1>2, <2>2, <2>3
    <3>2. block'[h] = open.swaps /\ trades'[h] = rows /\ transfers'[h] = moves
          /\ chainQueue'[h] = "pending"
      BY <2>1, <2>2, <2>3 DEF TablesTyped, AreTrades
    <3>3. DOMAIN rows = DOMAIN open.swaps
          /\ \A i \in DOMAIN rows : rows[i].swap = open.swaps[i] /\ rows[i].route = NoRoute
      BY DEF NewTrades
    <3>4. \A i \in DOMAIN moves : ~moves[i].routing
      BY NewTransfersTyped
    <3> HIDE DEF rows, moves, new
    <3>5. TradesFollowBlock(h)'
      BY <3>2, <3>3 DEF TradesFollowBlock
    <3>6. ReadingsFollowBlock(h)'
      BY <1>0, <3>1, NobodyReads DEF ReadingsFollowBlock, AsStored
    <3>7. RoutingsFollowTrades(h)'
      BY <1>0, <3>1, <3>2, <3>4, NobodyReads DEF RoutingsFollowTrades
    <3> QED BY <3>5, <3>6, <3>7 DEF Follows
  <2>4. CASE h # new
    <3> HIDE DEF rows, moves, new
    <3>1. Follows(h)
      BY <1>2, <2>2, <2>4 DEF ChainingInv
    <3>2. block'[h] = block[h] /\ trades'[h] = trades[h] /\ transfers'[h] = transfers[h]
          /\ chainQueue'[h] = chainQueue[h]
      BY <2>1, <2>2, <2>4 DEF TablesTyped, AreTrades
    <3>3. SameChain(h)
      BY <3>2 DEF SameChain
    <3> QED BY <1>0, <3>1, <3>2, <3>3, TradesFrame, ReadingsFrame, RoutingsFrame DEF Follows
  <2> QED BY <2>3, <2>4
<1>3. ASSUME Rewind(Readers), NEW h \in Height \ disturbed'
      PROVE  Follows(h)'
  <2>1. PICK from \in Height \cup {Cardinality(Height) + 1} :
         LET cut == {g \in Height : g >= from} IN
         /\ block' = [g \in Height |-> IF g \in cut THEN NoRows ELSE block[g]]
         /\ trades' = [g \in Height |-> IF g \in cut THEN NoRows ELSE trades[g]]
         /\ transfers' = [g \in Height |-> IF g \in cut THEN NoRows ELSE transfers[g]]
         /\ disturbed' = disturbed \cup (cut \cap Readers)
    BY <1>3 DEF Rewind
  <2> DEFINE cut == {g \in Height : g >= from}
  <2>2. Follows(h)
    BY <1>3, <2>1 DEF ChainingInv
  <2>3. chainQueue' = chainQueue
    BY <1>3 DEF Rewind
  <2>4. CASE h \in cut
    <3>1. block'[h] = NoRows /\ trades'[h] = NoRows /\ transfers'[h] = NoRows
      BY <2>1, <2>4
    <3>2. h \notin Readers
      BY <1>3, <2>1, <2>4
    <3> HIDE DEF cut
    <3>3. TradesFollowBlock(h)' /\ RoutingsFollowTrades(h)'
      BY <1>0, <3>1, <3>2, NobodyReads, NoSwaps DEF TradesFollowBlock, RoutingsFollowTrades
    <3>4. ReadingsFollowBlock(h)'
      BY <1>0, <3>2, NobodyReads DEF ReadingsFollowBlock, AsStored
    <3> QED BY <3>3, <3>4 DEF Follows
  <2>5. CASE h \notin cut
    <3>1. block'[h] = block[h] /\ trades'[h] = trades[h] /\ transfers'[h] = transfers[h]
      BY <2>1, <2>5
    <3>2. SameChain(h)
      BY <3>1 DEF SameChain
    <3> QED BY <1>0, <2>2, <2>3, <3>1, <3>2, TradesFrame, ReadingsFrame, RoutingsFrame DEF Follows
  <2> QED BY <2>4, <2>5
<1> QED BY <1>1, <1>2, <1>3 DEF StoreNext, RewindNext, ChainingInv

LEMMA ChainFollows ==
  ASSUME TypesInv, ChainingInv, NEW w \in Chainer, ChainNext(w)
  PROVE  ChainingInv'
<1> USE DEF TypesInv
<1>0. UNCHANGED <<job, refresh, view>>
  BY DEF ChainNext, metadataVars, syncVars
<1>1. ASSUME NEW h \in Height, Follows(h), UNCHANGED <<block, trades, transfers>>,
             chainQueue'[h] = "processed" => chainQueue[h] = "processed",
             \A v \in Chainer : reading'[v] = reading[v] \/ reading'[v] = NoReading
      PROVE  Follows(h)'
  <2>1. SameChain(h)
    BY <1>1 DEF SameChain
  <2> QED BY <1>0, <1>1, <2>1, TradesFrame, ReadingsFrame, RoutingsFrame DEF Follows
<1>2. ASSUME ClaimTransactions(w), NEW h \in Height \ disturbed'
      PROVE  Follows(h)'
  <2>1. UNCHANGED <<block, trades, transfers, disturbed, reading>>
    BY <1>2 DEF ClaimTransactions
  <2>2. chainQueue'[h] = "processed" => chainQueue[h] = "processed"
    BY <1>2 DEF ClaimTransactions
  <2> QED BY <1>1, <1>2, <2>1, <2>2 DEF ChainingInv
<1>3. ASSUME LoadTrades(w), NEW h \in Height \ disturbed'
      PROVE  Follows(h)'
  <2>1. UNCHANGED <<block, trades, transfers, chainQueue, disturbed>>
    BY <1>3 DEF LoadTrades, tableVars, tables
  <2>2. Follows(h)
    BY <1>3, <2>1 DEF ChainingInv
  <2>3. PICK g \in batch[w] :
          reading' = [reading EXCEPT ![w] = [height |-> g, swaps |-> Swaps(trades[g])]]
    BY <1>3 DEF LoadTrades
  <2>4. Swaps(trades[h]) = block[h]
    BY <2>2, SwapsOfTrades DEF Follows
  <2>5. ASSUME NEW v \in Chainer, reading'[v].height = h PROVE reading'[v].swaps = block[h]
    <3>1. CASE v = w
      <4>1. reading'[v] = [height |-> g, swaps |-> Swaps(trades[g])]
        BY <2>3, <3>1 DEF JobsTyped
      <4> QED BY <2>4, <2>5, <4>1
    <3>2. CASE v # w
      <4>1. reading'[v] = reading[v]
        BY <2>3, <3>2 DEF JobsTyped
      <4> QED BY <2>2, <2>5, <4>1 DEF Follows, ReadingsFollowBlock
    <3> QED BY <3>1, <3>2
  <2>6. ReadingsFollowBlock(h)'
    BY <1>0, <2>1, <2>2, <2>5 DEF Follows, ReadingsFollowBlock, AsStored
  <2>7. SameChain(h)
    BY <2>1 DEF SameChain
  <2> QED BY <1>0, <2>1, <2>2, <2>6, <2>7, TradesFrame, RoutingsFrame DEF Follows
<1>4. ASSUME ApplyRoutes(w, Repricers), NEW h \in Height \ disturbed'
      PROVE  Follows(h)'
  <2> DEFINE g == reading[w].height
             rows == Annotated(trades[g], Routes(reading[w].swaps))
  <2>1. g \in Height
    BY <1>4 DEF ApplyRoutes, JobsTyped
  <2>2. /\ trades' = [trades EXCEPT ![g] = rows]
        /\ chainQueue' = [chainQueue EXCEPT ![g] = "processed"]
        /\ reading' = [reading EXCEPT ![w] = NoReading]
        /\ disturbed' = disturbed \cup ({g} \cap Repricers)
        /\ block' = block /\ transfers' = transfers
    BY <1>4 DEF ApplyRoutes
  <2>3. Follows(h)
    BY <1>4, <2>2 DEF ChainingInv
  <2>4. \A v \in Chainer : reading'[v] = reading[v] \/ reading'[v] = NoReading
    BY <2>2 DEF JobsTyped
  <2>5. CASE h # g
    <3> HIDE DEF rows, g
    <3>1. trades'[h] = trades[h] /\ chainQueue'[h] = chainQueue[h]
      BY <2>1, <2>2, <2>5 DEF TablesTyped, AreTrades
    <3>2. SameChain(h)
      BY <3>1 DEF SameChain
    <3> QED BY <1>0, <2>2, <2>3, <2>4, <3>1, <3>2, TradesFrame, ReadingsFrame, RoutingsFrame
            DEF Follows
  <2>6. CASE h = g
    <3>1. reading[w].swaps = block[h]
      BY <2>3, <2>6 DEF Follows, ReadingsFollowBlock
    <3>2. trades'[h] = Annotated(trades[h], Routes(block[h]))
      BY <2>1, <2>2, <2>6, <3>1 DEF TablesTyped, AreTrades
    <3>3. DOMAIN trades[h] = DOMAIN block[h] /\ DOMAIN Routes(block[h]) = DOMAIN block[h]
      BY <2>3 DEF Follows, TradesFollowBlock, Routes
    <3>4. DOMAIN trades'[h] = DOMAIN trades[h]
      BY <3>2 DEF Annotated
    <3>5. ASSUME NEW i \in DOMAIN trades[h]
          PROVE  trades'[h][i].swap = block[h][i] /\ trades'[h][i].route = Routes(block[h])[i]
      <4>1. trades[h][i] \in Row
        BY DEF TablesTyped, AreTrades, IsTrades
      <4>2. trades'[h][i] = [trades[h][i] EXCEPT !.route = Routes(block[h])[i]]
        BY <3>2, <3>3 DEF Annotated
      <4>3. trades[h][i].swap = block[h][i]
        BY <2>3 DEF Follows, TradesFollowBlock
      <4> QED BY <4>1, <4>2, <4>3 DEF Row
    <3>6. ASSUME NEW i \in DOMAIN trades[h], MultiHop(trades[h][i].route)
          PROVE  MultiHop(trades'[h][i].route)
      <4>1. trades[h][i].route # NoRoute
        BY <3>6 DEF MultiHop, NoRoute
      <4>2. trades[h][i].route = Routes(block[h])[i]
        BY <2>3, <4>1 DEF Follows, TradesFollowBlock
      <4> QED BY <3>5, <3>6, <4>2
    <3> HIDE DEF g, rows
    <3>7. TradesFollowBlock(h)'
      BY <2>2, <2>3, <3>3, <3>4, <3>5 DEF Follows, TradesFollowBlock
    <3>8. RoutingsFollowTrades(h)'
      <4>1. KeepsHops(trades[h], trades'[h])
        BY <2>3, <3>4, <3>5, <3>6 DEF Follows, TradesFollowBlock, KeepsHops
      <4> QED BY <1>0, <2>2, <2>3, <4>1, RoutingsKept DEF Follows
    <3>9. h \notin Repricers
      BY <1>4, <2>2, <2>6
    <3>10. (job # NoJob => DOMAIN job.rows[h] = {}) /\ DOMAIN refresh.rows[h] = {}
      BY <3>9, NoSwaps DEF Repricers, Pricing
    <3>11. \A v \in Chainer : reading'[v].height = h => reading'[v].swaps = block[h]
      BY <2>3, <2>4, Heights DEF Follows, ReadingsFollowBlock, NoReading
    <3>12. ReadingsFollowBlock(h)'
      BY <1>0, <2>2, <3>10, <3>11 DEF ReadingsFollowBlock, AsStored
    <3> QED BY <3>7, <3>8, <3>12 DEF Follows
  <2> QED BY <2>5, <2>6
<1>5. ASSUME ChainingFails(w), NEW h \in Height \ disturbed'
      PROVE  Follows(h)'
  <2>1. UNCHANGED <<block, trades, transfers, disturbed>>
        /\ chainQueue' = [chainQueue EXCEPT ![reading[w].height] = "failed"]
        /\ reading' = [reading EXCEPT ![w] = NoReading]
    BY <1>5 DEF ChainingFails
  <2>2. chainQueue'[h] = "processed" => chainQueue[h] = "processed"
    BY <2>1 DEF TablesTyped
  <2>3. \A v \in Chainer : reading'[v] = reading[v] \/ reading'[v] = NoReading
    BY <2>1 DEF JobsTyped
  <2> QED BY <1>1, <1>5, <2>1, <2>2, <2>3 DEF ChainingInv
<1>6. ASSUME ChainerCrashes(w), NEW h \in Height \ disturbed'
      PROVE  Follows(h)'
  <2>1. UNCHANGED <<block, trades, transfers, chainQueue, disturbed>>
        /\ reading' = [reading EXCEPT ![w] = NoReading]
    BY <1>6 DEF ChainerCrashes, tables
  <2>2. \A v \in Chainer : reading'[v] = reading[v] \/ reading'[v] = NoReading
    BY <2>1 DEF JobsTyped
  <2> QED BY <1>1, <1>6, <2>1, <2>2 DEF ChainingInv
<1> QED BY <1>2, <1>3, <1>4, <1>5, <1>6 DEF ChainNext, ChainingInv

LEMMA SyncFollows ==
  ASSUME TypesInv, ChainingInv, SyncNext
  PROVE  ChainingInv'
<1> USE DEF TypesInv
<1>0. reading' = reading
  BY DEF SyncNext, chainVars
<1>1. ASSUME NEW h \in Height, Follows(h),
             UNCHANGED <<block, trades, transfers, chainQueue, refresh>>,
             job' = job \/ job' = NoJob, view' = view \/ view' = NoView
      PROVE  Follows(h)'
  <2>1. SameChain(h)
    BY <1>1 DEF SameChain
  <2> QED BY <1>0, <1>1, <2>1, TradesFrame, ReadingsFrame, RoutingsFrame DEF Follows
<1>2. ASSUME \/ SeedQueue \/ ClaimTokens \/ TokenFails \/ ListTransfers \/ SyncerCrashes,
             NEW h \in Height \ disturbed'
      PROVE  Follows(h)'
  <2>1. /\ UNCHANGED <<block, trades, transfers, chainQueue, refresh, disturbed>>
        /\ job' = job \/ job' = NoJob
        /\ view' = view \/ view' = NoView
    BY <1>2 DEF SeedQueue, ClaimTokens, TokenFails, ListTransfers, SyncerCrashes,
                tableVars, tables
  <2> QED BY <1>1, <1>2, <2>1 DEF ChainingInv
<1>3. ASSUME NEW t \in Token, ResolveToken(t), NEW h \in Height \ disturbed'
      PROVE  Follows(h)'
  <2>1. UNCHANGED <<block, trades, transfers, chainQueue, refresh, view, disturbed>>
    BY <1>3 DEF ResolveToken, tables
  <2>2. Follows(h)
    BY <1>3, <2>1 DEF ChainingInv
  <2>3. SameChain(h)
    BY <2>1 DEF SameChain
  <2>4. job'.rows[h] = NoRows
    BY <1>3 DEF ResolveToken
  <2>5. AsStored(job'.rows, h)
    BY <2>4, NoSwaps DEF AsStored
  <2>6. ReadingsFollowBlock(h)'
    BY <1>0, <2>1, <2>2, <2>5 DEF Follows, ReadingsFollowBlock, AsStored
  <2> QED BY <1>0, <2>1, <2>2, <2>3, <2>6, TradesFrame, RoutingsFrame DEF Follows
<1>7. ASSUME ReadWaiting, NEW h \in Height \ disturbed'
      PROVE  Follows(h)'
  <2> DEFINE rows == Repriced({job.token}, {job.token} \cup KnownIn(registry, metadata))
  <2>1. /\ UNCHANGED <<block, trades, transfers, chainQueue, refresh, view, disturbed>>
        /\ job' = [job EXCEPT !.waiting = FALSE, !.rows = rows]
    BY <1>7 DEF ReadWaiting, tableVars, tables
  <2>2. Follows(h)
    BY <1>7, <2>1 DEF ChainingInv
  <2>3. SameChain(h)
    BY <2>1 DEF SameChain
  <2>4. AsStored(rows, h)
    BY <2>2, RepricedAsStored DEF Follows
  <2>5. job = [token |-> job.token, level |-> job.level, waiting |-> job.waiting,
               rows |-> job.rows]
    BY <1>7 DEF ReadWaiting, JobsTyped
  <2> HIDE DEF rows
  <2>6. job'.rows = rows
    BY <2>1, <2>5
  <2>7. ReadingsFollowBlock(h)'
    BY <1>0, <2>1, <2>2, <2>4, <2>6 DEF Follows, ReadingsFollowBlock, AsStored
  <2> QED BY <1>0, <2>1, <2>2, <2>3, <2>7, TradesFrame, RoutingsFrame DEF Follows
<1>4. ASSUME FinishToken, NEW h \in Height \ disturbed'
      PROVE  Follows(h)'
  <2>1. /\ UNCHANGED <<block, chainQueue, refresh, view, disturbed>>
        /\ trades' = Overwritten(job.rows) /\ job # NoJob /\ job' = NoJob
    BY <1>4 DEF FinishToken
  <2>2. Follows(h)
    BY <1>4, <2>1 DEF ChainingInv
  <2>3. SameChain(h)
    BY <2>1, <2>2, OverwritingKeepsChains DEF Follows, ReadingsFollowBlock
  <2>4. /\ DOMAIN transfers'[h] = DOMAIN transfers[h]
        /\ \A i \in DOMAIN transfers[h] : transfers'[h][i].routing = transfers[h][i].routing
    <3> DEFINE new == Recalculated(job.token, registry'[job.token])
    <3>1. transfers' = transfers \/ transfers' = new
      BY <1>4 DEF FinishToken
    <3>2. /\ DOMAIN new[h] = DOMAIN transfers[h]
          /\ \A i \in DOMAIN transfers[h] : new[h][i].routing = transfers[h][i].routing
      BY RecalculatedTyped
    <3> HIDE DEF new
    <3> QED BY <3>1, <3>2
  <2>5. RoutingsFollowTrades(h)'
    <3>1. KeepsHops(trades[h], trades'[h])
      BY <2>3 DEF SameChain, KeepsHops
    <3> QED BY <2>1, <2>2, <2>4, <3>1, RoutingsKept DEF Follows
  <2> QED BY <1>0, <2>1, <2>2, <2>3, <2>5, TradesFrame, ReadingsFrame DEF Follows
<1>5. ASSUME NEW g \in Height, ReadTransfers(g), NEW h \in Height \ disturbed'
      PROVE  Follows(h)'
  <2>1. /\ UNCHANGED <<block, trades, transfers, chainQueue, refresh, job, disturbed>>
        /\ view' = [height |-> g, rows |-> trades[g], transfers |-> transfers[g],
                    moved |-> [i \in DOMAIN transfers[g] |-> block[g][i]]]
    BY <1>5 DEF ReadTransfers, tableVars, tables
  <2>2. Follows(h)
    BY <1>5, <2>1 DEF ChainingInv
  <2>3. SameChain(h)
    BY <2>1 DEF SameChain
  <2>4. ASSUME view'.height = h
        PROVE  /\ KeepsHops(view'.rows, trades'[h])
               /\ \A i \in DOMAIN view'.transfers :
                    /\ view'.moved[i] = block'[h][i]
                    /\ view'.transfers[i].routing => MovesHop(block'[h][i], trades'[h])
    <3>1. /\ view'.rows = trades[h] /\ view'.transfers = transfers[h]
          /\ view'.moved = [i \in DOMAIN transfers[h] |-> block[h][i]]
      BY <2>1, <2>4
    <3>2. KeepsHops(trades[h], trades[h])
      BY DEF KeepsHops
    <3> QED BY <2>1, <2>2, <3>1, <3>2 DEF Follows, RoutingsFollowTrades
  <2>5. RoutingsFollowTrades(h)'
    BY <2>1, <2>2, <2>4 DEF Follows, RoutingsFollowTrades
  <2> QED BY <1>0, <2>1, <2>2, <2>3, <2>5, TradesFrame, ReadingsFrame DEF Follows
<1>6. ASSUME SortTransfers, NEW h \in Height \ disturbed'
      PROVE  Follows(h)'
  <2>1. UNCHANGED <<block, trades, chainQueue, refresh, job, disturbed>> /\ view' = NoView
    BY <1>6 DEF SortTransfers
  <2>2. Follows(h)
    BY <1>6, <2>1 DEF ChainingInv
  <2>3. SameChain(h)
    BY <2>1 DEF SameChain
  <2>4. ASSUME NEW i \in DOMAIN transfers'[h], transfers'[h][i].routing
        PROVE  MovesHop(block[h][i], trades[h])
    <3>1. CASE h = view.height
      <4>1. i \in DOMAIN transfers[h]
        BY <1>6, <3>1, SortingWrites
      <4>2. \/ transfers[h][i].routing
            \/ /\ i \in DOMAIN view.transfers
               /\ \/ view.transfers[i].routing
                  \/ MovesHop(view.moved[i], view.rows)
        BY <1>6, <2>4, <3>1, <4>1, SortingWrites
      <4>3. /\ KeepsHops(view.rows, trades[h])
            /\ \A k \in DOMAIN view.transfers :
                 /\ view.moved[k] = block[h][k]
                 /\ view.transfers[k].routing => MovesHop(block[h][k], trades[h])
            /\ transfers[h][i].routing => MovesHop(block[h][i], trades[h])
        BY <2>2, <3>1, <4>1 DEF Follows, RoutingsFollowTrades
      <4>4. \A sold : MovesHop(sold, view.rows) => MovesHop(sold, trades[h])
        BY <4>3, HopsKept
      <4> QED BY <4>2, <4>3, <4>4
    <3>2. CASE h # view.height
      <4>1. transfers'[h] = transfers[h]
        BY <1>6, <3>2, SortingWrites
      <4> QED BY <2>2, <2>4, <4>1 DEF Follows, RoutingsFollowTrades
    <3> QED BY <3>1, <3>2
  <2>5. RoutingsFollowTrades(h)'
    BY <2>1, <2>4, Heights DEF RoutingsFollowTrades, NoView
  <2> QED BY <1>0, <2>1, <2>2, <2>3, <2>5, TradesFrame, ReadingsFrame DEF Follows
<1> QED BY <1>2, <1>3, <1>4, <1>5, <1>6, <1>7 DEF SyncNext, Syncing, ChainingInv

LEMMA RefreshFollows ==
  ASSUME TypesInv, ChainingInv, RefreshNext
  PROVE  ChainingInv'
<1> USE DEF TypesInv
<1>0. reading' = reading
  BY DEF RefreshNext, chainVars
<1>1. refresh = [step |-> refresh.step, todo |-> refresh.todo, token |-> refresh.token,
                 level |-> refresh.level, resolved |-> refresh.resolved,
                 rows |-> refresh.rows]
  BY DEF JobsTyped
<1>2. ASSUME NEW h \in Height, Follows(h), UNCHANGED <<block, trades, transfers, chainQueue>>,
             refresh'.rows[h] = refresh.rows[h] \/ refresh'.rows[h] = NoRows,
             UNCHANGED syncVars
      PROVE  Follows(h)'
  <2>1. SameChain(h)
    BY <1>2 DEF SameChain
  <2> QED BY <1>0, <1>2, <2>1, TradesFrame, ReadingsFrame, RoutingsFrame DEF Follows, syncVars
<1>3. \A h \in Height : Resting.rows[h] = NoRows
  BY DEF Resting
<1>4. ASSUME NEW h \in Height \ disturbed',
             RefreshScan \/ RefreshRegistry \/ RefresherCrashes \/ \E t \in Token : RefreshMetadata(t)
      PROVE  Follows(h)'
  <2>1. UNCHANGED <<block, trades, transfers, chainQueue, syncVars, disturbed>>
    BY <1>4 DEF RefreshScan, RefreshRegistry, RefresherCrashes, RefreshMetadata, tableVars, tables
  <2>2. refresh'.rows = refresh.rows \/ refresh' = Resting
    <3>1. CASE RefreshScan
      BY <1>1, <3>1 DEF RefreshScan
    <3>2. CASE RefreshRegistry
      BY <1>1, <3>2 DEF RefreshRegistry
    <3>3. CASE RefresherCrashes
      BY <3>3 DEF RefresherCrashes
    <3>4. CASE \E t \in Token : RefreshMetadata(t)
      <4>1. PICK t \in Token, level \in Level : refresh' = [refresh EXCEPT
               !.step = IF level = "none" THEN "tokens" ELSE "registry",
               !.todo = @ \ {t}, !.token = t, !.level = level,
               !.resolved = @ \cup (IF Gained(t, level) THEN {t} ELSE {})]
        BY <3>4 DEF RefreshMetadata, Answers
      <4> DEFINE step == IF level = "none" THEN "tokens" ELSE "registry"
                 found == refresh.resolved \cup (IF Gained(t, level) THEN {t} ELSE {})
      <4>2. refresh' = [refresh EXCEPT !.step = step, !.todo = @ \ {t}, !.token = t,
                                       !.level = level, !.resolved = found]
        BY <4>1
      <4> HIDE DEF step, found
      <4> QED BY <1>1, <4>2
    <3> QED BY <1>4, <3>1, <3>2, <3>3, <3>4
  <2>3. refresh'.rows[h] = refresh.rows[h] \/ refresh'.rows[h] = NoRows
    BY <1>3, <2>2
  <2> QED BY <1>2, <1>4, <2>1, <2>3 DEF ChainingInv
<1>5. ASSUME NEW h \in Height \ disturbed', RefreshReadTrades
      PROVE  Follows(h)'
  <2> DEFINE rows == Repriced(refresh.resolved, KnownIn(registry, metadata))
  <2>1. /\ UNCHANGED <<block, trades, transfers, chainQueue, job, view, disturbed>>
        /\ refresh' = [refresh EXCEPT !.step = "reprice", !.rows = rows]
    BY <1>5 DEF RefreshReadTrades, tableVars, tables, syncVars
  <2>2. Follows(h)
    BY <1>5, <2>1 DEF ChainingInv
  <2>3. AsStored(rows, h)
    BY <2>2, RepricedAsStored DEF Follows
  <2>4. SameChain(h)
    BY <2>1 DEF SameChain
  <2> HIDE DEF rows
  <2>5. refresh'.rows = rows
    BY <1>1, <2>1
  <2>6. ReadingsFollowBlock(h)'
    BY <1>0, <2>1, <2>2, <2>3, <2>5 DEF Follows, ReadingsFollowBlock, AsStored
  <2> QED BY <1>0, <2>1, <2>2, <2>4, <2>6, TradesFrame, RoutingsFrame DEF Follows
<1>6. ASSUME NEW h \in Height \ disturbed', RefreshReprice
      PROVE  Follows(h)'
  <2>1. /\ UNCHANGED <<block, transfers, chainQueue, job, view, disturbed>>
        /\ trades' = Overwritten(refresh.rows) /\ refresh' = Resting
    BY <1>6 DEF RefreshReprice, syncVars
  <2>2. Follows(h)
    BY <1>6, <2>1 DEF ChainingInv
  <2>3. SameChain(h)
    BY <2>1, <2>2, OverwritingKeepsChains DEF Follows, ReadingsFollowBlock
  <2>4. refresh'.rows[h] = NoRows
    BY <1>3, <2>1
  <2> QED BY <1>0, <2>1, <2>2, <2>3, <2>4, TradesFrame, ReadingsFrame, RoutingsFrame DEF Follows
<1> QED BY <1>4, <1>5, <1>6 DEF RefreshNext, Refreshing, ChainingInv

LEMMA ChainingHolds == Spec => []ChainingInv
<1>1. Init => ChainingInv
  <2> SUFFICES ASSUME Init, NEW h \in Height PROVE Follows(h)
    BY DEF ChainingInv
  <2> USE DEF Init, TablesInit, ChainingInit, MetadataInit
  <2>1. TradesFollowBlock(h)
    BY NoSwaps DEF TradesFollowBlock
  <2>2. ReadingsFollowBlock(h)
    BY NoSwaps, Heights DEF ReadingsFollowBlock, AsStored, Resting, NoReading
  <2>3. RoutingsFollowTrades(h)
    BY NoSwaps, Heights DEF RoutingsFollowTrades, NoView
  <2> QED BY <2>1, <2>2, <2>3 DEF Follows
<1>2. TypesInv /\ ChainingInv /\ [Next]_vars => ChainingInv'
  <2> SUFFICES ASSUME TypesInv, ChainingInv, [Next]_vars PROVE ChainingInv'
    OBVIOUS
  <2>1. CASE UNCHANGED vars
    BY <2>1 DEF vars, tableVars, tables, chainVars, metadataVars, syncVars, ChainingInv, Follows,
       TradesFollowBlock, ReadingsFollowBlock, RoutingsFollowTrades, AsStored
  <2> QED BY <2>1, StoreFollows, ChainFollows, SyncFollows, RefreshFollows DEF Next
<1> QED BY <1>1, <1>2, TypesHold, PTL DEF Spec

(* A transaction whose row is processed carries well-formed routes over the
   trades stored now (jobs/trade-chaining.js, core/post-processor.js). *)
THEOREM ProcessedStayChained == Spec => []ProcessedIsChained
<1>1. TypesInv /\ ChainingInv => ProcessedIsChained
  <2> SUFFICES ASSUME TypesInv, ChainingInv, NEW h \in Height \ disturbed,
                      chainQueue[h] = "processed"
               PROVE  WellRouted(trades[h])
    BY DEF ProcessedIsChained
  <2>1. TradesFollowBlock(h)
    BY DEF ChainingInv, Follows
  <2>2. FiniteEvents(block[h])
    BY Blocks DEF TypesInv, TablesTyped
  <2>3. /\ DOMAIN trades[h] = DOMAIN block[h]
        /\ \A i \in DOMAIN block[h] : /\ trades[h][i].swap = block[h][i]
                                      /\ trades[h][i].route = Routes(block[h])[i]
    BY <2>1 DEF TradesFollowBlock
  <2> QED BY <2>2, <2>3, RoutesAreWellRouted
<1> QED BY <1>1, TypesHold, ChainingHolds, PTL

(* A transfer called a routing transfer moves one side of a hop of a stored
   route (matchTransferRouteGroups in jobs/metadata-syncer.js). *)
THEOREM RoutingsFollow == Spec => []RoutingFollowsRoutes
<1>1. ChainingInv => RoutingFollowsRoutes
  BY DEF ChainingInv, Follows, RoutingsFollowTrades, RoutingFollowsRoutes
<1> QED BY <1>1, ChainingHolds, PTL
=============================================================================
