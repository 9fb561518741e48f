---------------------------- MODULE HolderProofs -----------------------------
(* The audit rows of the holder replay, for any transfers, limits, rewinds   *)
(* and faults: the strikes of a discrepancy add up to a manual review, and   *)
(* that is never taken back, although passes start over, fail and roll back. *)
EXTENDS HolderReplay, SequenceTheorems, Induction, TLAPS

Fatal == "FATAL_MANUAL_REVIEW"

(* Audit rows that tell what they should. Only a discrepancy of an upgraded
   token is struck, so that one which is repaired has no strikes. *)
Row(k, row) ==
  /\ row \in [retries : 0 .. StrikeLimit + 1, status : Status]
  /\ row.status # "PENDING_REDECODE"
  /\ row.retries > StrikeLimit <=> row.status = Fatal
  /\ row.retries > 0 => k[1] >= UpgradedFrom
Sound(rows) == \A k \in DOMAIN rows : Row(k, rows[k])

(* No fatal row of the one is missing in the other. *)
Keeps(old, new) == \A k \in DOMAIN old :
  old[k].status = Fatal => k \in DOMAIN new /\ new[k].status = Fatal

(* What a pass consists of. *)
Fields == {"attempt", "window", "asOf", "rows", "redecoded", "audits", "next",
           "balances", "deltas", "changes"}
IsPass(p) == p = [f \in Fields |-> p[f]]

(* The inductive invariant: the committed rows and those of the pass are sound,
   and the pass has not lost a fatal row. *)
AuditInv ==
  /\ Sound(audits)
  /\ pass # NoPass => IsPass(pass) /\ Sound(pass.audits) /\ Keeps(audits, pass.audits)

-----------------------------------------------------------------------------
(* An audit row is written, and the pass keeps its other rows and its form. *)
LEMMA AuditedRows ==
  ASSUME NEW p, IsPass(p), NEW n, NEW s
  PROVE  /\ IsPass(Audited(p, n, s))
         /\ DOMAIN Audited(p, n, s).audits = DOMAIN p.audits \cup {AuditKey}
         /\ \A k \in DOMAIN p.audits \cup {AuditKey} :
              Audited(p, n, s).audits[k] =
                IF k = AuditKey THEN [retries |-> n, status |-> s] ELSE p.audits[k]
  BY DEF IsPass, Fields, Audited

(* Applying a change and starting over leave the audit rows alone. *)
LEMMA AppliedRows ==
  ASSUME NEW p, IsPass(p), NEW n
  PROVE  IsPass(Applied(p, n)) /\ Applied(p, n).audits = p.audits
  BY DEF IsPass, Fields, Applied

LEMMA StartedRows ==
  ASSUME NEW p, IsPass(p)
  PROVE  IsPass(Started(p)) /\ Started(p).audits = p.audits
  BY DEF IsPass, Fields, Started

LEMMA RestartedRows ==
  ASSUME NEW p, IsPass(p)
  PROVE  IsPass(Restarted(p)) /\ Restarted(p).audits = p.audits
<1> DEFINE q == Started([p EXCEPT !.rows = Stored(p)])
<1>1. IsPass([p EXCEPT !.rows = Stored(p)]) /\ [p EXCEPT !.rows = Stored(p)].audits = p.audits
  BY DEF IsPass, Fields
<1>2. IsPass(q) /\ q.audits = p.audits
  BY <1>1, StartedRows
<1>3. Restarted(p) = [q EXCEPT !.attempt = @ + 1]
  BY DEF Restarted
<1> HIDE DEF q
<1> QED BY <1>2, <1>3 DEF IsPass, Fields

(* One row that tells what it should keeps the rows sound and the fatal ones
   fatal. *)
LEMMA AuditedIsSound ==
  ASSUME NEW p, IsPass(p), Sound(p.audits), Keeps(audits, p.audits), NEW n, NEW s,
         Row(AuditKey, [retries |-> n, status |-> s]),
         AuditKey \in DOMAIN p.audits /\ p.audits[AuditKey].status = Fatal => s = Fatal
  PROVE  /\ Sound(Audited(p, n, s).audits)
         /\ Keeps(audits, Audited(p, n, s).audits)
  BY AuditedRows DEF Sound, Keeps

(* One lemma per action that writes an audit row. Below the first upgrade a row
   has no strikes, so a repair does not touch a fatal one. *)
LEMMA RepairKeepsAudits ==
  ASSUME AuditInv, Repair PROVE AuditInv'
<1> DEFINE p == Audited(pass, Retries(pass), "settled")
<1>1. IsPass(pass) /\ Sound(pass.audits) /\ Keeps(audits, pass.audits)
  BY DEF AuditInv, Repair, Gap, Running
<1>2. PICK balance \in RpcAnswers \cup {0} : pass' = Applied(p, balance)
  BY DEF Repair
<1>3. Retries(pass) = 0
  <2>1. CASE AuditKey \in DOMAIN pass.audits
    <3>1. Row(AuditKey, pass.audits[AuditKey])
      BY <1>1, <2>1 DEF Sound
    <3>2. AuditKey[1] = Change.block
      BY DEF AuditKey
    <3> QED BY <2>1, <3>1, <3>2, ReplayAssumption DEF Row, Retries, Repair, Upgraded
  <2>2. CASE AuditKey \notin DOMAIN pass.audits
    BY <2>2 DEF Retries
  <2> QED BY <2>1, <2>2
<1>4. Row(AuditKey, [retries |-> Retries(pass), status |-> "settled"])
  BY <1>3, ReplayAssumption DEF Row, Fatal, Status
<1>5. ~(AuditKey \in DOMAIN pass.audits /\ pass.audits[AuditKey].status = Fatal)
  <2> SUFFICES ASSUME AuditKey \in DOMAIN pass.audits PROVE pass.audits[AuditKey].status # Fatal
    OBVIOUS
  <2>1. Row(AuditKey, pass.audits[AuditKey]) /\ pass.audits[AuditKey].retries = 0
    BY <1>1, <1>3 DEF Sound, Retries
  <2> QED BY <2>1, ReplayAssumption DEF Row
<1>6. IsPass(p) /\ Sound(p.audits) /\ Keeps(audits, p.audits)
  BY <1>1, <1>4, <1>5, AuditedRows, AuditedIsSound
<1>7. IsPass(Applied(p, balance)) /\ Applied(p, balance).audits = p.audits
  BY <1>6, AppliedRows
<1>8. audits' = audits /\ Sound(audits)
  BY DEF Repair, AuditInv
<1> QED BY <1>2, <1>6, <1>7, <1>8 DEF AuditInv

(* What a strike writes: the count goes up by one, up to one above the limit, and
   the row is fatal exactly from there on. *)
LEMMA StrikeIsSound ==
  ASSUME AuditInv, Gap, Upgraded, NEW s,
         s = Fatal <=> Struck, s \in Status \ {"PENDING_REDECODE"}
  PROVE  /\ IsPass(Audited(pass, Increased, s))
         /\ Sound(Audited(pass, Increased, s).audits)
         /\ Keeps(audits, Audited(pass, Increased, s).audits)
<1>1. IsPass(pass) /\ Sound(pass.audits) /\ Keeps(audits, pass.audits)
  BY DEF AuditInv, Gap, Running
<1>2. Retries(pass) \in 0 .. StrikeLimit + 1
  BY <1>1, ReplayAssumption DEF Retries, Sound, Row
<1>3. Increased \in 1 .. StrikeLimit + 1 /\ (Increased > StrikeLimit <=> Struck)
  BY <1>2, ReplayAssumption DEF Increased, Struck
<1>4. Row(AuditKey, [retries |-> Increased, status |-> s])
  <2>1. AuditKey[1] >= UpgradedFrom
    BY DEF AuditKey, Upgraded
  <2> QED BY <1>3, <2>1, ReplayAssumption DEF Row
<1>5. AuditKey \in DOMAIN pass.audits /\ pass.audits[AuditKey].status = Fatal => s = Fatal
  <2> SUFFICES ASSUME AuditKey \in DOMAIN pass.audits, pass.audits[AuditKey].status = Fatal
               PROVE  Struck
    OBVIOUS
  <2>1. Row(AuditKey, pass.audits[AuditKey]) /\ Retries(pass) = pass.audits[AuditKey].retries
    BY <1>1 DEF Sound, Retries
  <2> QED BY <1>2, <2>1, ReplayAssumption DEF Row, Struck
<1> QED BY <1>1, <1>4, <1>5, AuditedRows, AuditedIsSound

LEMMA GiveUpKeepsAudits ==
  ASSUME AuditInv, GiveUp PROVE AuditInv'
<1> DEFINE p == Audited(pass, Increased, Fatal)
<1>1. Gap /\ Upgraded /\ Struck /\ pass' = Applied(p, 0) /\ audits' = audits
  BY DEF GiveUp, Fatal
<1>2. IsPass(p) /\ Sound(p.audits) /\ Keeps(audits, p.audits)
  BY <1>1, StrikeIsSound DEF Fatal, Status
<1>3. IsPass(Applied(p, 0)) /\ Applied(p, 0).audits = p.audits
  BY <1>2, AppliedRows
<1> QED BY <1>1, <1>2, <1>3 DEF AuditInv

LEMMA RedecodeFailsKeepsAudits ==
  ASSUME AuditInv, RedecodeFails PROVE AuditInv'
<1> DEFINE p == Audited(pass, Increased, "settled")
<1>1. Gap /\ Upgraded /\ ~Struck /\ pass' = Applied(p, 0) /\ audits' = audits
  BY DEF RedecodeFails
<1>2. IsPass(p) /\ Sound(p.audits) /\ Keeps(audits, p.audits)
  BY <1>1, StrikeIsSound DEF Fatal, Status
<1>3. IsPass(Applied(p, 0)) /\ Applied(p, 0).audits = p.audits
  BY <1>2, AppliedRows
<1> QED BY <1>1, <1>2, <1>3 DEF AuditInv

(* A re-decoded block restarts the pass with its strikes, or ends it with none
   of them. *)
LEMMA RedecodeKeepsAudits ==
  ASSUME AuditInv, Redecode PROVE AuditInv'
<1> DEFINE a == Audited(pass, Increased, "logged")
           p(rows) == [a EXCEPT !.rows[Change.block] = rows,
                                !.redecoded = @ \cup {Change.block}]
<1>1. Gap /\ Upgraded /\ ~Struck /\ audits' = audits
  BY DEF Redecode
<1>2. PICK rows \in Decodings(Change.block) :
        pass' = IF pass.attempt + 1 < MaxRestarts THEN Restarted(p(rows)) ELSE NoPass
  BY DEF Redecode
<1>3. IsPass(a) /\ Sound(a.audits) /\ Keeps(audits, a.audits)
  BY <1>1, StrikeIsSound DEF Fatal, Status
<1> HIDE DEF a
<1>4. IsPass(p(rows)) /\ p(rows).audits = a.audits
  BY <1>3 DEF IsPass, Fields
<1> HIDE DEF p
<1>5. IsPass(Restarted(p(rows))) /\ Restarted(p(rows)).audits = a.audits
  BY <1>4, RestartedRows
<1> QED BY <1>1, <1>2, <1>3, <1>5 DEF AuditInv

LEMMA BeginKeepsAudits ==
  ASSUME AuditInv, BeginPass PROVE AuditInv'
<1> DEFINE p == [attempt |-> 0, window |-> tip, asOf |-> rewinds, rows |-> transfers,
                 redecoded |-> {}, audits |-> audits, next |-> 1,
                 balances |-> NoBalances, deltas |-> <<>>, changes |-> <<>>]
<1>1. pass' = Started(p) /\ audits' = audits
  BY DEF BeginPass
<1>2. IsPass(p) /\ p.audits = audits
  BY DEF IsPass, Fields
<1> HIDE DEF p
<1>3. IsPass(Started(p)) /\ Started(p).audits = audits
  BY <1>2, StartedRows
<1> QED BY <1>1, <1>3 DEF AuditInv, Keeps

(* The invariant is inductive. *)
LEMMA StepKeepsAudits == AuditInv /\ [Next]_vars => AuditInv'
<1> SUFFICES ASSUME AuditInv, [Next]_vars PROVE AuditInv'
  OBVIOUS
<1>1. CASE UNCHANGED <<audits, pass>>
  BY <1>1 DEF AuditInv
<1>2. CASE StoreBlock \/ Rewind \/ UNCHANGED vars
  BY <1>1, <1>2 DEF StoreBlock, Rewind, vars
<1>3. CASE BeginPass
  BY <1>3, BeginKeepsAudits
<1>4. CASE ApplyChange
  <2>1. pass # NoPass /\ pass' = Applied(pass, Attempted) /\ audits' = audits
    BY <1>4 DEF ApplyChange, Running
  <2> QED BY <2>1, AppliedRows DEF AuditInv
<1>5. CASE Repair
  BY <1>5, RepairKeepsAudits
<1>6. CASE GiveUp
  BY <1>6, GiveUpKeepsAudits
<1>7. CASE RedecodeFails
  BY <1>7, RedecodeFailsKeepsAudits
<1>8. CASE Redecode
  BY <1>8, RedecodeKeepsAudits
<1>9. CASE CommitPass
  BY <1>9 DEF CommitPass, AuditInv
<1>10. CASE PassFails
  BY <1>10 DEF PassFails, AuditInv
<1> QED BY <1>2, <1>3, <1>4, <1>5, <1>6, <1>7, <1>8, <1>9, <1>10 DEF Next, Replaying

LEMMA AuditInvariance == Spec => []AuditInv
<1>1. Init => AuditInv
  BY DEF Init, AuditInv, Sound
<1> QED BY <1>1, StepKeepsAudits, PTL DEF Spec

(* No discrepancy is decoded again after it was given up and none is left waiting
   for a decoding, for any limits and any number of passes that fail, restart or
   are overtaken by a rewind. *)
THEOREM StrikesAlwaysAddUp == Spec => []StrikesAddUp
<1>1. AuditInv => StrikesAddUp
  BY DEF AuditInv, Sound, Row, Fatal, StrikesAddUp
<1> QED BY <1>1, AuditInvariance, PTL

(* No later pass, however it ends, takes a discrepancy back from its manual
   review: the rows a pass works on never lack a committed fatal one. *)
THEOREM FatalStaysFinal == Spec => FatalIsFinal
<1> DEFINE Stays == \A k \in DOMAIN audits : audits[k].status = "FATAL_MANUAL_REVIEW" =>
                     k \in DOMAIN audits' /\ audits'[k].status = "FATAL_MANUAL_REVIEW"
<1>1. AuditInv /\ [Next]_vars => [Stays]_vars
  <2> SUFFICES ASSUME AuditInv, Next PROVE Stays
    OBVIOUS
  <2>1. CASE CommitPass
    BY <2>1 DEF CommitPass, AuditInv, Keeps, Fatal
  <2>2. CASE ~CommitPass
    <3>1. audits' = audits
      BY <2>2 DEF Next, Replaying, StoreBlock, Rewind, BeginPass, ApplyChange, Repair,
         GiveUp, RedecodeFails, Redecode, PassFails
    <3> QED BY <3>1
  <2> QED BY <2>1, <2>2
<1> QED BY <1>1, AuditInvariance, PTL DEF Spec, FatalIsFinal

-----------------------------------------------------------------------------
(* Sequences put together are a sequence of their elements. *)
LEMMA FlattenIsSeq ==
  ASSUME NEW S, NEW seqs \in Seq(Seq(S))
  PROVE  FlattenSeq(seqs) \in Seq(S)
<1> DEFINE step(g, i) == IF i = 1 THEN seqs[i] ELSE g[i - 1] \o seqs[i]
           N == {n \in Nat : \E g : g = [i \in 1..n |-> step(g, i)]}
           whole == CHOOSE g : g = [i \in 1..Len(seqs) |-> step(g, i)]
           M == {n \in Nat : n \in 1..Len(seqs) => whole[n] \in Seq(S)}
<1>1. 0 \in N
  <2>1. [i \in 1..0 |-> seqs] = [i \in 1..0 |-> step([j \in 1..0 |-> seqs], i)]
    OBVIOUS
  <2> DEFINE g == [i \in 1..0 |-> seqs]
  <2> HIDE DEF step, g
  <2>2. g = [i \in 1..0 |-> step(g, i)]
    BY DEF g
  <2> QED BY <2>2
<1>2. ASSUME NEW n \in Nat, n \in N PROVE n + 1 \in N
  <2>1. PICK g : g = [i \in 1..n |-> step(g, i)]
    BY <1>2
  <2> DEFINE h == [i \in 1..(n + 1) |-> step(g, i)]
  <2>2. ASSUME NEW i \in 1..(n + 1) PROVE step(h, i) = step(g, i)
    <3>1. CASE i = 1
      BY <3>1
    <3>2. CASE i # 1
      <4>1. i - 1 \in 1..n /\ i - 1 \in 1..(n + 1)
        BY <3>2
      <4>2. g[i - 1] = step(g, i - 1) /\ h[i - 1] = step(g, i - 1)
        <5> HIDE DEF step
        <5> QED BY <2>1, <4>1
      <4>3. g[i - 1] = h[i - 1]
        <5> HIDE DEF step, h
        <5> QED BY <4>2
      <4> HIDE DEF h
      <4> QED BY <3>2, <4>3
    <3> QED BY <3>1, <3>2
  <2>3. h = [i \in 1..(n + 1) |-> step(h, i)]
    <3> HIDE DEF step
    <3> QED BY <2>2
  <2> HIDE DEF h, step
  <2> QED BY <2>3
<1>3. Nat \subseteq N
  <2> HIDE DEF N
  <2> QED BY <1>1, <1>2, NaturalInduction
<1>4. Len(seqs) \in Nat /\ DOMAIN seqs = 1..Len(seqs) /\ \A i \in 1..Len(seqs) : seqs[i] \in Seq(S)
  OBVIOUS
<1>5. \A i \in 1..Len(seqs) : whole[i] = step(whole, i)
  <2>1. \E g : g = [i \in 1..Len(seqs) |-> step(g, i)]
    BY <1>3, <1>4
  <2> HIDE DEF step
  <2>2. whole = [i \in 1..Len(seqs) |-> step(whole, i)]
    BY <2>1, Zenon
  <2> HIDE DEF whole
  <2> QED BY <2>2
<1>6. FlattenSeq(seqs) = IF Len(seqs) = 0 THEN seqs ELSE whole[Len(seqs)]
  BY Zenon DEF FlattenSeq
<1> HIDE DEF whole
<1>7. 0 \in M
  OBVIOUS
<1>8. ASSUME NEW n \in Nat, n \in M PROVE n + 1 \in M
  <2> SUFFICES ASSUME n + 1 \in 1..Len(seqs) PROVE whole[n + 1] \in Seq(S)
    OBVIOUS
  <2>1. whole[n + 1] = step(whole, n + 1) /\ seqs[n + 1] \in Seq(S)
    BY <1>4, <1>5
  <2>2. CASE n = 0
    BY <2>1, <2>2
  <2>3. CASE n # 0
    <3>1. whole[n] \in Seq(S)
      BY <1>4, <1>8, <2>3
    <3>2. whole[n + 1] = whole[n] \o seqs[n + 1]
      <4>1. (n + 1) - 1 = n /\ n + 1 # 1
        BY <2>3
      <4> QED BY <2>1, <4>1
    <3> QED BY <2>1, <3>1, <3>2
  <2> QED BY <2>2, <2>3
<1>9. Nat \subseteq M
  <2> HIDE DEF M
  <2> QED BY <1>7, <1>8, NaturalInduction
<1>10. CASE Len(seqs) = 0
  <2>1. seqs = <<>>
    BY <1>10
  <2> QED BY <1>6, <1>10, <2>1
<1>11. CASE Len(seqs) # 0
  BY <1>4, <1>6, <1>9, <1>11
<1> QED BY <1>10, <1>11

(* The rows of the replay. *)
Transfer == [from : Holder \cup {Zero}, to : Holder \cup {Zero}, amount : Nat]
ChangeRow == [block : Block, event : Nat, holder : Holder, delta : Int]
DeltaRow == [block : Block, event : Nat, holder : Holder, delta : Int, adjusted : Int]

(* The delta rows of a number of changes say how the balances came about, and the
   audit rows why they differ from what the transfers alone would give. *)
Explains(ds, changes, bs, rows) ==
  /\ PlainOf(ds) = changes
  /\ \A h \in Holder : bs[h] = SumOf(h, ds)
  /\ \A i \in DOMAIN ds : ds[i].adjusted # 0 => KeyOf(ds[i]) \in DOMAIN rows

(* The tables: what the last pass wrote is explained until the next rewind. *)
TablesInv ==
  /\ tip \in 0 .. Len(Variants) /\ rewinds \in Nat
  /\ transfers \in [Block -> Seq(Transfer)]
  /\ \A b \in Block : IF b > tip THEN transfers[b] = <<>> ELSE transfers[b] \in Decodings(b)
  /\ balances \in [Holder -> Nat]
  /\ replayed.asOf \in 0 .. rewinds
  /\ replayed.asOf = rewinds =>
       /\ replayed.window \in 0 .. tip
       /\ Explains(deltas, AllChanges(transfers, replayed.window), balances, audits)

(* How a pass stands to the tables: it holds the rows of the blocks it decoded
   again, which no rewind can take, and, until there is a rewind, those stored. *)
Standing(p) ==
  /\ p.attempt \in 0 .. MaxRestarts - 1
  /\ p.window \in 0 .. Len(Variants)
  /\ p.asOf \in 0 .. rewinds
  /\ p.rows \in [Block -> Seq(Transfer)]
  /\ p.redecoded \subseteq 1 .. tip
  /\ \A b \in p.redecoded : p.rows[b] \in Decodings(b)
  /\ p.asOf = rewinds => /\ p.window <= tip
                         /\ \A b \in 1 .. p.window \ p.redecoded : p.rows[b] = transfers[b]

(* How far it has come: the changes before the next one are explained. *)
Progress(p) ==
  /\ p.changes = AllChanges(p.rows, p.window)
  /\ p.next \in 1 .. Len(p.changes) + 1
  /\ p.deltas \in Seq(DeltaRow) /\ Len(p.deltas) = p.next - 1
  /\ p.balances \in [Holder -> Nat]
  /\ Explains(p.deltas, [i \in 1 .. p.next - 1 |-> p.changes[i]], p.balances, p.audits)

ReplayInv == TablesInv /\ (pass # NoPass => Standing(pass) /\ Progress(pass))

LEMMA ChangesAreRows ==
  ASSUME NEW b \in Block, NEW rows \in Seq(Transfer)
  PROVE  Changes(b, rows) \in Seq(ChangeRow)
<1> DEFINE Move(i, holder, delta) ==
             IF holder = Zero THEN <<>>
             ELSE <<[block |-> b, event |-> i, holder |-> holder, delta |-> delta]>>
           moves == [i \in DOMAIN rows |-> Move(i, rows[i].from, -rows[i].amount)
                                           \o Move(i, rows[i].to, rows[i].amount)]
<1>1. DOMAIN rows = 1 .. Len(rows) /\ Len(rows) \in Nat /\ \A i \in DOMAIN rows : rows[i] \in Transfer
  OBVIOUS
<1>2. ASSUME NEW i \in Nat, NEW holder \in Holder \cup {Zero}, NEW delta \in Int
      PROVE  Move(i, holder, delta) \in Seq(ChangeRow)
  <2>1. CASE holder = Zero
    BY <2>1
  <2>2. CASE holder # Zero
    <3>1. [block |-> b, event |-> i, holder |-> holder, delta |-> delta] \in ChangeRow
      BY <2>2 DEF ChangeRow
    <3> QED BY <2>2, <3>1
  <2> QED BY <2>1, <2>2
<1>3. ASSUME NEW i \in DOMAIN rows PROVE moves[i] \in Seq(ChangeRow)
  <2>1. i \in Nat /\ rows[i] \in Transfer
    BY <1>1
  <2>2. /\ rows[i].from \in Holder \cup {Zero} /\ rows[i].to \in Holder \cup {Zero}
        /\ rows[i].amount \in Int /\ -rows[i].amount \in Int
    BY <2>1 DEF Transfer
  <2>3. /\ Move(i, rows[i].from, -rows[i].amount) \in Seq(ChangeRow)
        /\ Move(i, rows[i].to, rows[i].amount) \in Seq(ChangeRow)
    BY <1>2, <2>1, <2>2
  <2> HIDE DEF Move
  <2> QED BY <2>3
<1>4. moves \in Seq(Seq(ChangeRow))
  <2>1. moves \in [1 .. Len(rows) -> Seq(ChangeRow)]
    <3> HIDE DEF Move
    <3> QED BY <1>1, <1>3
  <2> HIDE DEF moves
  <2> QED BY <1>1, <2>1, SeqDef
<1>5. Changes(b, rows) = FlattenSeq(moves)
  BY Zenon DEF Changes
<1> QED BY <1>4, <1>5, FlattenIsSeq

LEMMA AllChangesAreRows ==
  ASSUME NEW rows \in [Block -> Seq(Transfer)], NEW window \in 0 .. Len(Variants)
  PROVE  AllChanges(rows, window) \in Seq(ChangeRow)
<1> DEFINE parts == [b \in 1 .. window |-> Changes(b, rows[b])]
<1>1. Block = 1 .. Len(Variants) /\ Len(Variants) \in Nat
  BY ReplayAssumption DEF Block
<1>2. \A b \in 1 .. window : b \in Block /\ rows[b] \in Seq(Transfer)
  BY <1>1
<1>3. parts \in [1 .. window -> Seq(ChangeRow)]
  BY <1>2, ChangesAreRows
<1> HIDE DEF parts
<1>4. parts \in Seq(Seq(ChangeRow))
  BY <1>1, <1>3, SeqDef
<1> QED BY <1>4, FlattenIsSeq DEF AllChanges, parts

(* Of the stored transfers only those up to the window count. *)
LEMMA AllChangesSame ==
  ASSUME NEW r, NEW s, NEW window, \A b \in 1 .. window : r[b] = s[b]
  PROVE  AllChanges(r, window) = AllChanges(s, window)
<1>1. [b \in 1 .. window |-> Changes(b, r[b])] = [b \in 1 .. window |-> Changes(b, s[b])]
  OBVIOUS
<1> QED BY <1>1, Zenon DEF AllChanges

LEMMA SumOfAppended ==
  ASSUME NEW ds \in Seq(DeltaRow), NEW d \in DeltaRow, NEW h
  PROVE  /\ d.holder = h => SumOf(h, Append(ds, d)) = d.delta + d.adjusted + SumOf(h, ds)
         /\ d.holder # h => SumOf(h, Append(ds, d)) = SumOf(h, ds)
<1> DEFINE es == Append(ds, d)
           f == [i \in DOMAIN ds |-> ds[i].delta + ds[i].adjusted]
           g == [i \in DOMAIN es |-> es[i].delta + es[i].adjusted]
           S == {i \in DOMAIN ds : ds[i].holder = h}
           T == {i \in DOMAIN es : es[i].holder = h}
           n == Len(ds) + 1
<1>1. /\ DOMAIN ds = 1 .. Len(ds) /\ Len(ds) \in Nat /\ DOMAIN es = 1 .. n
      /\ \A i \in 1 .. Len(ds) : es[i] = ds[i] /\ ds[i] \in DeltaRow
      /\ es[n] = d /\ es \in Seq(DeltaRow)
  OBVIOUS
<1> HIDE DEF es
<1>2. ASSUME NEW i \in DOMAIN ds PROVE f[i] \in Int /\ f[i] = g[i]
  <2>1. ds[i].delta \in Int /\ ds[i].adjusted \in Int
    BY <1>1 DEF DeltaRow
  <2>2. i \in DOMAIN es /\ es[i] = ds[i]
    BY <1>1
  <2>3. f[i] = ds[i].delta + ds[i].adjusted /\ g[i] = es[i].delta + es[i].adjusted
    BY <2>2
  <2> QED BY <2>1, <2>2, <2>3
<1>3. /\ g[n] = d.delta + d.adjusted /\ g[n] \in Int
  BY <1>1 DEF DeltaRow
<1>4. IsFiniteSet(S) /\ S \subseteq DOMAIN ds /\ n \notin S
  <2>1. IsFiniteSet(1 .. Len(ds))
    <3>1. 1 \in Int /\ Len(ds) \in Int
      BY <1>1
    <3> QED BY <3>1, FS_Interval
  <2>2. S \subseteq 1 .. Len(ds)
    <3>1. S \subseteq DOMAIN ds
      OBVIOUS
    <3> HIDE DEF S
    <3> QED BY <1>1, <3>1
  <2>3. n \notin 1 .. Len(ds)
    BY <1>1
  <2> HIDE DEF S, n
  <2> QED BY <1>1, <2>1, <2>2, <2>3, FS_Subset
<1>5. T = IF d.holder = h THEN S \cup {n} ELSE S
  BY <1>1
<1>6. SumOf(h, ds) = SumFunctionOnSet(f, S) /\ SumOf(h, es) = SumFunctionOnSet(g, T)
  BY Zenon DEF SumOf
<1> HIDE DEF f, g, S, T
<1>7. SumFunctionOnSet(f, S) = SumFunctionOnSet(g, S)
  BY <1>2, <1>4, SumSame
<1>8. CASE d.holder = h
  <2>1. \A i \in S \cup {n} : g[i] \in Int
    BY <1>2, <1>3, <1>4
  <2>2. SumFunctionOnSet(g, S \cup {n}) = g[n] + SumFunctionOnSet(g, S)
    BY <1>4, <2>1, SumAdds
  <2> QED BY <1>3, <1>5, <1>6, <1>7, <1>8, <2>2 DEF es
<1>9. CASE d.holder # h
  BY <1>5, <1>6, <1>7, <1>9 DEF es
<1> QED BY <1>8, <1>9

LEMMA SumOfNoRows == ASSUME NEW h PROVE SumOf(h, <<>>) = 0
<1>1. {i \in DOMAIN <<>> : <<>>[i].holder = h} = {}
  OBVIOUS
<1> QED BY <1>1, SumOfNone DEF SumOf

(* What the handlers of a pass leave alone. *)
SamePlan(p, q) ==
  /\ q.attempt = p.attempt /\ q.window = p.window /\ q.asOf = p.asOf
  /\ q.rows = p.rows /\ q.redecoded = p.redecoded

LEMMA StandingSame ==
  ASSUME NEW p, NEW q, Standing(p), SamePlan(p, q) PROVE Standing(q)
  BY DEF Standing, SamePlan

(* A pass that starts has explained the changes before the first. *)
LEMMA StartedProgress ==
  ASSUME NEW p, IsPass(p), p.rows \in [Block -> Seq(Transfer)], p.window \in 0 .. Len(Variants)
  PROVE  Progress(Started(p)) /\ SamePlan(p, Started(p))
<1> DEFINE q == Started(p)
<1>1. /\ q.next = 1 /\ q.balances = NoBalances /\ q.deltas = <<>>
      /\ q.changes = AllChanges(p.rows, p.window) /\ q.audits = p.audits /\ SamePlan(p, q)
  BY DEF Started, IsPass, Fields, SamePlan
<1> HIDE DEF q
<1>2. Len(q.changes) \in Nat
  BY <1>1, AllChangesAreRows, LenProperties
<1>3. Explains(<<>>, [i \in 1 .. 0 |-> q.changes[i]], NoBalances, q.audits)
  <2>1. DOMAIN <<>> = 1 .. 0 /\ \A i \in 1 .. 0 : FALSE
    OBVIOUS
  <2>2. PlainOf(<<>>) = [i \in 1 .. 0 |-> q.changes[i]]
    BY <2>1 DEF PlainOf
  <2>3. \A h \in Holder : NoBalances[h] = SumOf(h, <<>>)
    BY SumOfNoRows DEF NoBalances
  <2> QED BY <2>1, <2>2, <2>3 DEF Explains
<1>4. NoBalances \in [Holder -> Nat] /\ <<>> \in Seq(DeltaRow) /\ Len(<<>>) = 0
  BY DEF NoBalances
<1>5. Progress(q)
  BY <1>1, <1>2, <1>3, <1>4 DEF Progress, SamePlan
<1> QED BY <1>1, <1>5 DEF q

(* An audit row explains no less. *)
LEMMA AuditedProgress ==
  ASSUME NEW p, IsPass(p), Progress(p), NEW n, NEW s
  PROVE  /\ Progress(Audited(p, n, s)) /\ SamePlan(p, Audited(p, n, s))
         /\ Audited(p, n, s).next = p.next /\ Audited(p, n, s).changes = p.changes
         /\ Audited(p, n, s).balances = p.balances
<1> DEFINE q == Audited(p, n, s)
<1>1. /\ q.next = p.next /\ q.changes = p.changes /\ q.balances = p.balances
      /\ q.deltas = p.deltas /\ SamePlan(p, q)
  BY DEF Audited, IsPass, Fields, SamePlan
<1>2. DOMAIN p.audits \subseteq DOMAIN q.audits
  <2>1. DOMAIN Audited(p, n, s).audits = DOMAIN p.audits \cup {AuditKey}
    BY AuditedRows
  <2> QED BY <2>1
<1> HIDE DEF q
<1>3. Progress(q)
  BY <1>1, <1>2 DEF Progress, Explains, SamePlan
<1> QED BY <1>1, <1>3 DEF q

(* The change at hand, and what it would leave. *)
LEMMA ChangeIsRow ==
  ASSUME Running, Standing(pass), Progress(pass)
  PROVE  /\ pass.changes \in Seq(ChangeRow) /\ pass.next \in 1 .. Len(pass.changes)
         /\ Change \in ChangeRow /\ Attempted \in Int
<1>1. pass.changes \in Seq(ChangeRow)
  BY AllChangesAreRows DEF Standing, Progress
<1>2. pass.next \in 1 .. Len(pass.changes)
  BY <1>1, LenProperties DEF Running, Progress
<1>3. Change \in ChangeRow
  BY <1>1, <1>2 DEF Change
<1>4. pass.balances[Change.holder] \in Int /\ Change.delta \in Int
  BY <1>3 DEF ChangeRow, Progress
<1> QED BY <1>1, <1>2, <1>3, <1>4 DEF Attempted

(* The change is applied, with an adjustment only when it is audited. *)
LEMMA AppliedProgress ==
  ASSUME Running, Standing(pass), Progress(pass),
         NEW p, IsPass(p), Progress(p), SamePlan(pass, p),
         p.next = pass.next, p.balances = pass.balances,
         NEW balance \in Nat, balance # Attempted => AuditKey \in DOMAIN p.audits
  PROVE  Progress(Applied(p, balance)) /\ SamePlan(pass, Applied(p, balance))
<1> DEFINE q == Applied(p, balance)
           d == [block |-> Change.block, event |-> Change.event, holder |-> Change.holder,
                 delta |-> Change.delta, adjusted |-> balance - Attempted]
           n == p.next
<1>1. /\ pass.changes \in Seq(ChangeRow) /\ n \in 1 .. Len(pass.changes)
      /\ Change \in ChangeRow /\ Attempted \in Int /\ p.changes = pass.changes
  BY ChangeIsRow DEF Progress, SamePlan
<1>2. d \in DeltaRow /\ d.holder \in Holder /\ d.delta + d.adjusted = balance - p.balances[d.holder]
  <2>1. /\ Change.block \in Block /\ Change.event \in Nat /\ Change.holder \in Holder
        /\ Change.delta \in Int /\ balance - Attempted \in Int
    BY <1>1 DEF ChangeRow
  <2>2. p.balances[Change.holder] \in Int
    BY <2>1 DEF Progress
  <2>3. Change.delta + (balance - Attempted) = balance - p.balances[Change.holder]
    BY <1>1, <2>1, <2>2, SMTT(30) DEF Attempted
  <2> QED BY <2>1, <2>3 DEF DeltaRow
<1>3. KeyOf(d) = AuditKey /\ (d.adjusted # 0 => AuditKey \in DOMAIN p.audits)
  BY <1>1 DEF KeyOf, AuditKey
<1>4. [block |-> d.block, event |-> d.event, holder |-> d.holder, delta |-> d.delta] = p.changes[n]
  <2>1. Change = p.changes[n]
    BY <1>1 DEF Change
  <2> QED BY <1>1, <2>1 DEF ChangeRow
<1>5. /\ q.next = n + 1 /\ q.deltas = Append(p.deltas, d) /\ q.audits = p.audits
      /\ q.balances = [p.balances EXCEPT ![d.holder] = balance]
      /\ q.changes = p.changes /\ SamePlan(p, q)
  BY DEF Applied, IsPass, Fields, SamePlan
<1> HIDE DEF q, d
<1>6. /\ p.deltas \in Seq(DeltaRow) /\ Len(p.deltas) = n - 1 /\ DOMAIN p.deltas = 1 .. n - 1
      /\ p.balances \in [Holder -> Nat] /\ n \in Nat
      /\ Explains(p.deltas, [i \in 1 .. n - 1 |-> p.changes[i]], p.balances, p.audits)
  BY <1>1 DEF Progress
<1>7. /\ q.deltas \in Seq(DeltaRow) /\ Len(q.deltas) = n /\ DOMAIN q.deltas = 1 .. n
      /\ \A i \in 1 .. n - 1 : q.deltas[i] = p.deltas[i]
      /\ q.deltas[n] = d
  BY <1>2, <1>5, <1>6
<1>8. PlainOf(q.deltas) = [i \in 1 .. n |-> p.changes[i]]
  <2> DEFINE plain(r) == [block |-> r.block, event |-> r.event, holder |-> r.holder, delta |-> r.delta]
  <2>1. \A i \in 1 .. n - 1 : plain(p.deltas[i]) = p.changes[i]
    <3>1. PlainOf(p.deltas) = [i \in 1 .. n - 1 |-> p.changes[i]]
      BY <1>6 DEF Explains
    <3>2. PlainOf(p.deltas) = [i \in 1 .. n - 1 |-> plain(p.deltas[i])]
      BY <1>6 DEF PlainOf
    <3> HIDE DEF plain
    <3>3. ASSUME NEW i \in 1 .. n - 1 PROVE plain(p.deltas[i]) = p.changes[i]
      <4>1. PlainOf(p.deltas)[i] = p.changes[i]
        BY <3>1
      <4>2. PlainOf(p.deltas)[i] = plain(p.deltas[i])
        BY <3>2
      <4> QED BY <4>1, <4>2
    <3> QED BY <3>3
  <2>2. PlainOf(q.deltas) = [i \in 1 .. n |-> plain(q.deltas[i])]
    BY <1>7 DEF PlainOf
  <2>3. plain(q.deltas[n]) = p.changes[n]
    BY <1>4, <1>7
  <2> HIDE DEF plain
  <2>4. \A i \in 1 .. n : plain(q.deltas[i]) = p.changes[i]
    BY <1>6, <1>7, <2>1, <2>3, SMTT(30)
  <2> QED BY <2>2, <2>4
<1>9. ASSUME NEW h \in Holder PROVE q.balances[h] = SumOf(h, q.deltas)
  <2>1. p.balances[h] = SumOf(h, p.deltas) /\ p.balances[h] \in Int
    BY <1>6 DEF Explains
  <2>2. CASE h = d.holder
    <3>1. q.balances[h] = balance
      BY <1>5, <1>6, <2>2
    <3>2. SumOf(h, q.deltas) = d.delta + d.adjusted + SumOf(h, p.deltas)
      BY <1>2, <1>5, <1>6, <2>2, SumOfAppended
    <3> QED BY <1>2, <2>1, <2>2, <3>1, <3>2
  <2>3. CASE h # d.holder
    <3>1. q.balances[h] = p.balances[h]
      BY <1>5, <1>6, <2>3
    <3>2. SumOf(h, q.deltas) = SumOf(h, p.deltas)
      BY <1>2, <1>5, <1>6, <2>3, SumOfAppended
    <3> QED BY <2>1, <3>1, <3>2
  <2> QED BY <2>2, <2>3
<1>10. \A i \in 1 .. n : q.deltas[i].adjusted # 0 => KeyOf(q.deltas[i]) \in DOMAIN q.audits
  <2>1. \A i \in 1 .. n - 1 : p.deltas[i].adjusted # 0 => KeyOf(p.deltas[i]) \in DOMAIN p.audits
    BY <1>6 DEF Explains
  <2> QED BY <1>3, <1>5, <1>6, <1>7, <2>1
<1>11. Explains(q.deltas, [i \in 1 .. n |-> q.changes[i]], q.balances, q.audits)
  BY <1>5, <1>7, <1>8, <1>9, <1>10 DEF Explains
<1>12. q.balances \in [Holder -> Nat]
  BY <1>5, <1>6
<1>13. q.changes = AllChanges(q.rows, q.window) /\ q.next \in 1 .. Len(q.changes) + 1
  <2>1. Len(p.changes) \in Nat
    BY <1>1, LenProperties
  <2> QED BY <1>1, <1>5, <2>1 DEF Progress, SamePlan
<1>14. Progress(q)
  <2>1. q.next - 1 = n
    BY <1>5, <1>6
  <2> QED BY <1>7, <1>11, <1>12, <1>13, <2>1 DEF Progress
<1> QED BY <1>5, <1>14 DEF q, SamePlan

-----------------------------------------------------------------------------
(* A change of the pass is applied with a balance, after an audit row or, when
   the balance is the one attempted, without. *)
LEMMA AppliesKeepReplay ==
  ASSUME AuditInv, ReplayInv, Running, UNCHANGED <<tip, transfers, audits, balances, deltas, replayed, rewinds>>,
         NEW p, p = pass \/ \E n, s : p = Audited(pass, n, s),
         NEW balance \in Nat, balance # Attempted => AuditKey \in DOMAIN p.audits,
         pass' = Applied(p, balance)
  PROVE  ReplayInv'
<1>1. IsPass(pass) /\ Standing(pass) /\ Progress(pass) /\ pass # NoPass
  BY DEF AuditInv, ReplayInv, Running
<1>2. /\ IsPass(p) /\ Progress(p) /\ SamePlan(pass, p)
      /\ p.next = pass.next /\ p.balances = pass.balances
  <2>1. CASE p = pass
    BY <1>1, <2>1 DEF SamePlan
  <2>2. CASE p # pass
    <3>1. PICK n, s : p = Audited(pass, n, s)
      BY <2>2
    <3>2. IsPass(Audited(pass, n, s))
      BY <1>1, AuditedRows
    <3>3. /\ Progress(Audited(pass, n, s)) /\ SamePlan(pass, Audited(pass, n, s))
          /\ Audited(pass, n, s).next = pass.next
          /\ Audited(pass, n, s).balances = pass.balances
      BY <1>1, AuditedProgress
    <3> QED BY <3>1, <3>2, <3>3
  <2> QED BY <2>1, <2>2
<1>3. Progress(pass') /\ SamePlan(pass, pass')
  BY <1>1, <1>2, AppliedProgress
<1>4. Standing(pass')
  BY <1>1, <1>3, StandingSame
<1>5. Standing(pass)' /\ Progress(pass)'
  BY <1>3, <1>4 DEF Standing, Progress, Explains
<1>6. TablesInv'
  BY DEF ReplayInv, TablesInv
<1> QED BY <1>5, <1>6 DEF ReplayInv

LEMMA AuditedReplay ==
  ASSUME AuditInv, ReplayInv, Running, UNCHANGED <<tip, transfers, audits, balances, deltas, replayed, rewinds>>,
         NEW n, NEW s, NEW balance \in Nat, pass' = Applied(Audited(pass, n, s), balance)
  PROVE  ReplayInv'
<1>1. AuditKey \in DOMAIN Audited(pass, n, s).audits
  <2>1. IsPass(pass)
    BY DEF AuditInv, Running
  <2>2. DOMAIN Audited(pass, n, s).audits = DOMAIN pass.audits \cup {AuditKey}
    BY <2>1, AuditedRows
  <2> QED BY <2>2
<1> QED BY <1>1, AppliesKeepReplay

(* A pass begins with the stored transfers. *)
LEMMA BeginKeepsReplay ==
  ASSUME ReplayInv, BeginPass PROVE ReplayInv'
<1> DEFINE p == [attempt |-> 0, window |-> tip, asOf |-> rewinds, rows |-> transfers,
                 redecoded |-> {}, audits |-> audits, next |-> 1,
                 balances |-> NoBalances, deltas |-> <<>>, changes |-> <<>>]
<1>1. /\ pass' = Started(p)
      /\ UNCHANGED <<tip, transfers, audits, balances, deltas, replayed, rewinds>>
  BY DEF BeginPass
<1>2. /\ IsPass(p) /\ p.rows = transfers /\ p.window = tip /\ p.attempt = 0
      /\ p.asOf = rewinds /\ p.redecoded = {}
  BY DEF IsPass, Fields
<1> HIDE DEF p
<1>3. TablesInv /\ TablesInv'
  BY <1>1 DEF ReplayInv, TablesInv
<1>4. Standing(p)
  BY <1>2, <1>3, ReplayAssumption DEF Standing, TablesInv
<1>5. Progress(Started(p)) /\ SamePlan(p, Started(p))
  BY <1>2, <1>4, StartedProgress DEF Standing
<1>6. Standing(Started(p))
  BY <1>4, <1>5, StandingSame
<1>7. Standing(pass)' /\ Progress(pass)'
  BY <1>1, <1>5, <1>6 DEF Standing, Progress, Explains
<1> QED BY <1>3, <1>7 DEF ReplayInv

LEMMA DecodingsAreRows == \A b \in Block : Decodings(b) \subseteq Seq(Transfer)
<1> SUFFICES ASSUME NEW b \in Block PROVE Decodings(b) \subseteq Seq(Transfer)
  OBVIOUS
<1>1. Variants \in Seq(SUBSET Seq(Transfer)) /\ b \in DOMAIN Variants
  BY ReplayAssumption DEF Transfer, Block
<1>2. Variants[b] \in SUBSET Seq(Transfer)
  BY <1>1
<1> QED BY <1>2 DEF Decodings

(* A stored block is above the window of a pass that no rewind has overtaken. *)
LEMMA StoreKeepsReplay ==
  ASSUME ReplayInv, StoreBlock PROVE ReplayInv'
<1>1. /\ tip + 1 \in Block /\ tip' = tip + 1
      /\ UNCHANGED <<audits, balances, deltas, replayed, pass, rewinds>>
  BY DEF StoreBlock
<1>2. PICK rows \in Decodings(tip + 1) : transfers' = [transfers EXCEPT ![tip + 1] = rows]
  BY DEF StoreBlock
<1>3. TablesInv
  BY DEF ReplayInv
<1>4. Block = 1 .. Len(Variants) /\ Len(Variants) \in Nat /\ tip \in 0 .. Len(Variants)
  BY <1>3, ReplayAssumption DEF Block, TablesInv
<1>5. rows \in Seq(Transfer)
  BY <1>1, <1>2, DecodingsAreRows
<1>6. /\ transfers' \in [Block -> Seq(Transfer)] /\ transfers'[tip + 1] = rows
      /\ \A b \in Block : b # tip + 1 => transfers'[b] = transfers[b]
  BY <1>1, <1>2, <1>3, <1>5 DEF TablesInv
<1>7. TablesInv'
  <2>1. (tip \in 0 .. Len(Variants))' /\ (rewinds \in Nat)' /\ (balances \in [Holder -> Nat])'
    BY <1>1, <1>3, <1>4 DEF TablesInv
  <2>2. (replayed.asOf \in 0 .. rewinds)'
    BY <1>1, <1>3 DEF TablesInv
  <2>3. \A b \in Block : IF b > tip' THEN transfers'[b] = <<>> ELSE transfers'[b] \in Decodings(b)
    BY <1>1, <1>2, <1>3, <1>4, <1>6 DEF TablesInv
  <2>4. ASSUME replayed.asOf = rewinds
        PROVE  /\ replayed.window \in 0 .. tip'
               /\ Explains(deltas, AllChanges(transfers', replayed.window), balances, audits)
    <3>1. /\ replayed.window \in 0 .. tip
          /\ Explains(deltas, AllChanges(transfers, replayed.window), balances, audits)
      BY <1>3, <2>4 DEF TablesInv
    <3>2. \A b \in 1 .. replayed.window : transfers[b] = transfers'[b]
      BY <1>4, <1>6, <3>1
    <3>3. AllChanges(transfers, replayed.window) = AllChanges(transfers', replayed.window)
      BY <3>2, AllChangesSame
    <3> QED BY <1>1, <1>4, <3>1, <3>3
  <2> QED BY <1>1, <1>6, <2>1, <2>2, <2>3, <2>4 DEF TablesInv, Explains
<1>8. ASSUME pass # NoPass PROVE Standing(pass)' /\ Progress(pass)'
  <2>1. Standing(pass) /\ Progress(pass)
    BY <1>8 DEF ReplayInv
  <2>2. Progress(pass)'
    BY <1>1, <2>1 DEF Progress, Explains
  <2>3. pass.redecoded \subseteq 1 .. tip'
    BY <1>1, <1>4, <2>1 DEF Standing
  <2>4. pass.asOf = rewinds => /\ pass.window <= tip'
                               /\ \A b \in 1 .. pass.window \ pass.redecoded :
                                    pass.rows[b] = transfers'[b]
    BY <1>1, <1>4, <1>6, <2>1 DEF Standing
  <2> QED BY <1>1, <2>1, <2>2, <2>3, <2>4 DEF Standing
<1> QED BY <1>1, <1>7, <1>8 DEF ReplayInv

(* A rewind leaves no pass and no balances that claim to be explained. *)
LEMMA RewindKeepsReplay ==
  ASSUME ReplayInv, Rewind PROVE ReplayInv'
<1>1. PICK from \in 1 .. tip :
        /\ ~Locked(from) /\ tip' = from - 1
        /\ transfers' = [b \in Block |-> IF b >= from THEN <<>> ELSE transfers[b]]
  BY DEF Rewind
<1>2. /\ balances' = NoBalances /\ rewinds' = rewinds + 1
      /\ UNCHANGED <<audits, replayed, pass>>
  BY DEF Rewind
<1>3. TablesInv
  BY DEF ReplayInv
<1>4. Block = 1 .. Len(Variants) /\ Len(Variants) \in Nat /\ tip \in 0 .. Len(Variants)
  BY <1>3, ReplayAssumption DEF Block, TablesInv
<1>5. TablesInv'
  <2>1. (tip \in 0 .. Len(Variants))' /\ (rewinds \in Nat)'
    BY <1>1, <1>2, <1>3, <1>4 DEF TablesInv
  <2>2. transfers' \in [Block -> Seq(Transfer)]
    BY <1>1, <1>3 DEF TablesInv
  <2>3. \A b \in Block : IF b > tip' THEN transfers'[b] = <<>> ELSE transfers'[b] \in Decodings(b)
    BY <1>1, <1>3, <1>4 DEF TablesInv
  <2>4. balances' \in [Holder -> Nat]
    BY <1>2 DEF NoBalances
  <2>5. (replayed.asOf \in 0 .. rewinds)' /\ replayed'.asOf # rewinds'
    BY <1>2, <1>3 DEF TablesInv
  <2> QED BY <2>1, <2>2, <2>3, <2>4, <2>5 DEF TablesInv
<1>6. ASSUME pass # NoPass PROVE Standing(pass)' /\ Progress(pass)'
  <2>1. Standing(pass) /\ Progress(pass)
    BY <1>6 DEF ReplayInv
  <2>2. Progress(pass)'
    BY <1>2, <2>1 DEF Progress, Explains
  <2>3. pass.redecoded \subseteq 1 .. tip'
    BY <1>1, <1>4, <1>6, <2>1 DEF Standing, Locked
  <2>4. pass.asOf \in 0 .. rewinds' /\ pass.asOf # rewinds'
    BY <1>2, <1>3, <2>1 DEF Standing, TablesInv
  <2> QED BY <1>2, <2>1, <2>2, <2>3, <2>4 DEF Standing
<1> QED BY <1>2, <1>5, <1>6 DEF ReplayInv

(* The rows that a pass which starts over reads: those it decoded again, and of the
   other blocks those stored. *)
LEMMA StoredRows ==
  ASSUME TablesInv, NEW p, Standing(p)
  PROVE  /\ Stored(p) \in [Block -> Seq(Transfer)]
         /\ \A b \in p.redecoded : Stored(p)[b] = p.rows[b]
         /\ \A b \in Block \ p.redecoded : Stored(p)[b] = transfers[b]
<1>1. Block = 1 .. Len(Variants) /\ Len(Variants) \in Nat /\ tip \in 0 .. Len(Variants)
  BY ReplayAssumption DEF Block, TablesInv
<1>2. p.redecoded \subseteq Block
  BY <1>1 DEF Standing
<1> QED BY <1>2 DEF Stored, Standing, TablesInv

LEMMA RedecodeKeepsReplay ==
  ASSUME AuditInv, ReplayInv, Redecode PROVE ReplayInv'
<1> DEFINE a == Audited(pass, Increased, "logged")
           block == Change.block
           p(r) == [a EXCEPT !.rows[block] = r, !.redecoded = @ \cup {block}]
<1>1. /\ Running /\ block <= tip
      /\ UNCHANGED <<tip, transfers, audits, balances, deltas, replayed, rewinds>>
  BY DEF Redecode, Gap
<1>2. PICK r \in Decodings(block) :
        pass' = IF pass.attempt + 1 < MaxRestarts THEN Restarted(p(r)) ELSE NoPass
  BY DEF Redecode
<1>3. TablesInv /\ TablesInv'
  BY <1>1 DEF ReplayInv, TablesInv
<1>4. CASE ~(pass.attempt + 1 < MaxRestarts)
  BY <1>2, <1>3, <1>4 DEF ReplayInv
<1>5. CASE pass.attempt + 1 < MaxRestarts
  <2>1. IsPass(pass) /\ Standing(pass) /\ Progress(pass)
    BY <1>1 DEF AuditInv, ReplayInv, Running
  <2>2. Block = 1 .. Len(Variants) /\ Len(Variants) \in Nat /\ tip \in 0 .. Len(Variants)
    BY <1>3, ReplayAssumption DEF Block, TablesInv
  <2>3. block \in Block /\ block \in 1 .. tip
    <3>1. Change \in ChangeRow
      BY <1>1, <2>1, ChangeIsRow
    <3> QED BY <1>1, <2>2, <3>1 DEF ChangeRow
  <2>4. r \in Seq(Transfer)
    BY <1>2, <2>3, DecodingsAreRows
  <2>5. IsPass(a) /\ SamePlan(pass, a)
    BY <2>1, AuditedRows, AuditedProgress
  <2> HIDE DEF a, block
  <2>6. /\ IsPass(p(r)) /\ p(r).rows = [a.rows EXCEPT ![block] = r]
        /\ p(r).redecoded = a.redecoded \cup {block}
        /\ p(r).attempt = a.attempt /\ p(r).window = a.window /\ p(r).asOf = a.asOf
    BY <2>5 DEF IsPass, Fields
  <2> HIDE DEF p
  <2>7. Standing(p(r))
    <3>1. Standing(a)
      BY <2>1, <2>5, StandingSame
    <3>2. p(r).rows \in [Block -> Seq(Transfer)]
      BY <2>4, <2>6, <3>1 DEF Standing
    <3>3. p(r).redecoded \subseteq 1 .. tip
      BY <2>3, <2>6, <3>1 DEF Standing
    <3>4. \A b \in p(r).redecoded : p(r).rows[b] \in Decodings(b)
      BY <1>2, <2>3, <2>6, <3>1 DEF Standing, block
    <3>5. \A b \in 1 .. p(r).window \ p(r).redecoded : p(r).rows[b] = a.rows[b]
      BY <2>6, <3>1 DEF Standing
    <3>6. /\ p(r).attempt \in 0 .. MaxRestarts - 1 /\ p(r).window \in 0 .. Len(Variants)
          /\ p(r).asOf \in 0 .. rewinds
      BY <2>6, <3>1 DEF Standing
    <3>7. p(r).asOf = rewinds => /\ p(r).window <= tip
                                 /\ \A b \in 1 .. p(r).window \ p(r).redecoded :
                                      p(r).rows[b] = transfers[b]
      BY <2>6, <3>1, <3>5 DEF Standing
    <3> QED BY <3>2, <3>3, <3>4, <3>6, <3>7 DEF Standing
  <2> DEFINE s == [p(r) EXCEPT !.rows = Stored(p(r))]
             q == Started(s)
  <2>8. /\ IsPass(s) /\ s.rows = Stored(p(r)) /\ s.redecoded = p(r).redecoded
        /\ s.attempt = p(r).attempt /\ s.window = p(r).window /\ s.asOf = p(r).asOf
    BY <2>6 DEF IsPass, Fields
  <2> HIDE DEF s
  <2>9. Standing(s)
    <3>1. /\ s.rows \in [Block -> Seq(Transfer)]
          /\ \A b \in s.redecoded : s.rows[b] = p(r).rows[b]
          /\ \A b \in Block \ s.redecoded : s.rows[b] = transfers[b]
      BY <1>3, <2>7, <2>8, StoredRows
    <3>2. \A b \in 1 .. s.window \ s.redecoded : s.rows[b] = transfers[b]
      <4>1. 1 .. s.window \subseteq Block
        BY <2>2, <2>7, <2>8 DEF Standing
      <4> QED BY <3>1, <4>1
    <3> QED BY <2>7, <2>8, <3>1, <3>2 DEF Standing
  <2>10. Progress(q) /\ SamePlan(s, q) /\ IsPass(q)
    BY <2>8, <2>9, StartedProgress, StartedRows DEF Standing
  <2>11. Restarted(p(r)) = [q EXCEPT !.attempt = @ + 1]
    BY DEF Restarted, s, q
  <2> HIDE DEF q
  <2> DEFINE z == Restarted(p(r))
  <2>12. /\ z.attempt = q.attempt + 1 /\ z.window = q.window /\ z.asOf = q.asOf
         /\ z.rows = q.rows /\ z.redecoded = q.redecoded /\ z.audits = q.audits
         /\ z.next = q.next /\ z.balances = q.balances /\ z.deltas = q.deltas
         /\ z.changes = q.changes
    BY <2>10, <2>11 DEF IsPass, Fields
  <2>13. pass' = z
    BY <1>2, <1>5
  <2> HIDE DEF z
  <2>14. z.attempt = pass.attempt + 1
    BY <2>5, <2>6, <2>8, <2>10, <2>12 DEF SamePlan
  <2>15. Progress(z)
    BY <2>10, <2>12 DEF Progress, Explains
  <2>16. Standing(z)
    <3>1. Standing(q)
      BY <2>9, <2>10, StandingSame
    <3>2. z.attempt \in 0 .. MaxRestarts - 1
      BY <1>5, <2>1, <2>14, ReplayAssumption DEF Standing
    <3> QED BY <2>12, <3>1, <3>2 DEF Standing
  <2>17. Standing(pass)' /\ Progress(pass)'
    BY <1>1, <2>13, <2>15, <2>16 DEF Standing, Progress, Explains
  <2> QED BY <1>3, <2>17 DEF ReplayInv
<1> QED BY <1>4, <1>5

(* All changes are explained when the pass commits, and those are the changes of
   the rows that are stored then. *)
LEMMA CommitKeepsReplay ==
  ASSUME ReplayInv, CommitPass PROVE ReplayInv'
<1>1. /\ pass # NoPass /\ ~Running /\ pass' = NoPass
      /\ transfers' = Stored(pass) /\ audits' = pass.audits
      /\ balances' = pass.balances /\ deltas' = pass.deltas
      /\ replayed' = [window |-> pass.window, asOf |-> pass.asOf]
      /\ UNCHANGED <<tip, rewinds>>
  BY DEF CommitPass
<1>2. TablesInv /\ Standing(pass) /\ Progress(pass)
  BY <1>1 DEF ReplayInv
<1>3. Block = 1 .. Len(Variants) /\ Len(Variants) \in Nat /\ tip \in 0 .. Len(Variants)
  BY <1>2, ReplayAssumption DEF Block, TablesInv
<1>4. /\ transfers' \in [Block -> Seq(Transfer)]
      /\ \A b \in pass.redecoded : transfers'[b] = pass.rows[b]
      /\ \A b \in Block \ pass.redecoded : transfers'[b] = transfers[b]
  BY <1>1, <1>2, StoredRows
<1>5. \A b \in Block : IF b > tip THEN transfers'[b] = <<>> ELSE transfers'[b] \in Decodings(b)
  <2> SUFFICES ASSUME NEW b \in Block
               PROVE  IF b > tip THEN transfers'[b] = <<>> ELSE transfers'[b] \in Decodings(b)
    OBVIOUS
  <2>1. CASE b \in pass.redecoded
    <3>1. pass.rows[b] \in Decodings(b) /\ ~(b > tip)
      BY <1>2, <1>3, <2>1 DEF Standing
    <3> QED BY <1>4, <2>1, <3>1
  <2>2. CASE b \notin pass.redecoded
    BY <1>2, <1>4, <2>2 DEF TablesInv
  <2> QED BY <2>1, <2>2
<1>6. ASSUME pass.asOf = rewinds
      PROVE  /\ pass.window \in 0 .. tip
             /\ Explains(pass.deltas, AllChanges(transfers', pass.window), pass.balances, pass.audits)
  <2>1. pass.window \in 0 .. tip /\ 1 .. pass.window \subseteq Block
    BY <1>2, <1>3, <1>6 DEF Standing
  <2>2. \A b \in 1 .. pass.window : pass.rows[b] = transfers'[b]
    BY <1>2, <1>4, <1>6, <2>1 DEF Standing
  <2>3. pass.changes = AllChanges(transfers', pass.window)
    BY <1>2, <2>2, AllChangesSame DEF Progress
  <2>4. pass.changes \in Seq(ChangeRow)
    BY <1>2, AllChangesAreRows DEF Standing, Progress
  <2>5. pass.next - 1 = Len(pass.changes) /\ Len(pass.changes) \in Nat
    BY <1>1, <1>2, <2>4, LenProperties DEF Progress, Running
  <2>6. [i \in 1 .. pass.next - 1 |-> pass.changes[i]] = pass.changes
    BY <2>4, <2>5
  <2> QED BY <1>2, <2>1, <2>3, <2>6 DEF Progress
<1>7. pass.balances \in [Holder -> Nat] /\ pass.asOf \in 0 .. rewinds
  BY <1>2 DEF Progress, Standing
<1>8. (tip \in 0 .. Len(Variants) /\ rewinds \in Nat)'
  BY <1>1, <1>2 DEF TablesInv
<1>9. TablesInv'
  BY <1>1, <1>4, <1>5, <1>6, <1>7, <1>8 DEF TablesInv, Explains
<1> QED BY <1>1, <1>9 DEF ReplayInv

(* The invariant is inductive. *)
LEMMA StepKeepsReplay == AuditInv /\ ReplayInv /\ [Next]_vars => ReplayInv'
<1> SUFFICES ASSUME AuditInv, ReplayInv, [Next]_vars PROVE ReplayInv'
  OBVIOUS
<1> DEFINE Tables == <<tip, transfers, audits, balances, deltas, replayed, rewinds>>
<1>1. CASE StoreBlock
  BY <1>1, StoreKeepsReplay
<1>2. CASE Rewind
  BY <1>2, RewindKeepsReplay
<1>3. CASE BeginPass
  BY <1>3, BeginKeepsReplay
<1>4. CASE ApplyChange
  <2>1. Running /\ UNCHANGED Tables /\ pass' = Applied(pass, Attempted) /\ ~(Attempted < 0)
    BY <1>4 DEF ApplyChange, Gap
  <2>2. Attempted \in Nat
    BY <2>1, ChangeIsRow DEF ReplayInv, Running
  <2> QED BY <2>1, <2>2, AppliesKeepReplay
<1>5. CASE Repair
  <2>1. PICK balance \in RpcAnswers \cup {0} :
          pass' = Applied(Audited(pass, Retries(pass), "settled"), balance)
    BY <1>5 DEF Repair
  <2>2. Running /\ UNCHANGED Tables /\ balance \in Nat
    BY <1>5, ReplayAssumption DEF Repair, Gap
  <2> QED BY <2>1, <2>2, AuditedReplay
<1>6. CASE GiveUp
  <2>1. Running /\ UNCHANGED Tables
        /\ pass' = Applied(Audited(pass, Increased, "FATAL_MANUAL_REVIEW"), 0)
    BY <1>6 DEF GiveUp, Gap
  <2> QED BY <2>1, AuditedReplay
<1>7. CASE RedecodeFails
  <2>1. Running /\ UNCHANGED Tables /\ pass' = Applied(Audited(pass, Increased, "settled"), 0)
    BY <1>7 DEF RedecodeFails, Gap
  <2> QED BY <2>1, AuditedReplay
<1>8. CASE Redecode
  BY <1>8, RedecodeKeepsReplay
<1>9. CASE CommitPass
  BY <1>9, CommitKeepsReplay
<1>10. CASE PassFails
  BY <1>10 DEF PassFails, ReplayInv, TablesInv
<1>11. CASE UNCHANGED vars
  BY <1>11 DEF vars, ReplayInv, TablesInv, Standing, Progress, Explains
<1> QED BY <1>1, <1>2, <1>3, <1>4, <1>5, <1>6, <1>7, <1>8, <1>9, <1>10, <1>11 DEF Next, Replaying

LEMMA ReplayInvariance == Spec => [](AuditInv /\ ReplayInv)
<1>1. Init => AuditInv /\ ReplayInv
  <2> SUFFICES ASSUME Init PROVE AuditInv /\ ReplayInv
    OBVIOUS
  <2>1. AuditInv /\ pass = NoPass
    BY DEF Init, AuditInv, Sound
  <2>2. Block = 1 .. Len(Variants) /\ Len(Variants) \in Nat
    BY ReplayAssumption DEF Block
  <2>3. /\ tip = 0 /\ rewinds = 0 /\ transfers = [b \in Block |-> <<>>]
        /\ balances = NoBalances /\ deltas = <<>>
        /\ replayed.window = 0 /\ replayed.asOf = 0
    BY DEF Init
  <2>4. AllChanges(transfers, 0) = <<>>
    <3>1. [b \in 1 .. 0 |-> Changes(b, transfers[b])] = <<>>
      OBVIOUS
    <3>2. FlattenSeq(<<>>) = <<>>
      BY Zenon, EmptySeq DEF FlattenSeq
    <3> QED BY <3>1, <3>2 DEF AllChanges
  <2>5. Explains(deltas, <<>>, balances, audits)
    <3>1. PlainOf(<<>>) = <<>> /\ \A i \in DOMAIN <<>> : FALSE
      BY DEF PlainOf
    <3>2. \A h \in Holder : NoBalances[h] = SumOf(h, <<>>)
      BY SumOfNoRows DEF NoBalances
    <3> QED BY <2>3, <3>1, <3>2 DEF Explains
  <2>6. TablesInv
    BY <2>2, <2>3, <2>4, <2>5 DEF TablesInv, NoBalances
  <2> QED BY <2>1, <2>6 DEF ReplayInv
<1>2. AuditInv /\ ReplayInv /\ [Next]_vars => (AuditInv /\ ReplayInv)'
  BY StepKeepsAudits, StepKeepsReplay
<1> QED BY <1>1, <1>2, PTL DEF Spec

(* The tables and the pass keep their types, so that a balance is never negative,
   whatever the transfers, the answers of the contracts and the rewinds. *)
THEOREM HoldersAreTyped == Spec => []HoldersTypeOK
<1>1. AuditInv /\ ReplayInv => HoldersTypeOK
  <2> SUFFICES ASSUME AuditInv, ReplayInv PROVE HoldersTypeOK
    OBVIOUS
  <2>1. tip \in {0} \cup Block
    BY ReplayAssumption DEF ReplayInv, TablesInv, Block
  <2>2. \A k \in DOMAIN audits : audits[k] \in [retries : Nat, status : Status]
    <3>1. 0 .. StrikeLimit + 1 \subseteq Nat
      BY ReplayAssumption
    <3>2. \A k \in DOMAIN audits : audits[k] \in [retries : 0 .. StrikeLimit + 1, status : Status]
      BY DEF AuditInv, Sound, Row
    <3> QED BY <3>1, <3>2
  <2> QED BY <2>1, <2>2 DEF ReplayInv, TablesInv, Standing, Progress, HoldersTypeOK
<1> QED BY <1>1, ReplayInvariance, PTL

(* Between the commit of a pass and the next rewind the delta rows are the changes
   of the stored transfers, and every balance is the sum of its rows; for any
   transfers, any number of restarts and any interleaving with commits and
   rewinds. *)
THEOREM BalancesStayReplayed == Spec => []BalancesAreReplayed
<1>1. ReplayInv => BalancesAreReplayed
  BY DEF ReplayInv, TablesInv, Explains, BalancesAreReplayed
<1> QED BY <1>1, ReplayInvariance, PTL
=============================================================================
