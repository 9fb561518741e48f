----------------------------- MODULE HolderReplay ----------------------------
(* jobs/concentration-rollups.js: a pass replays every stored transfer of a  *)
(* token and writes the holders' balances, in one database transaction. A    *)
(* balance that would become negative is audited; when the token's class was *)
(* replaced, the block is decoded again and the replay starts over, up to a  *)
(* number of strikes per discrepancy and of restarts per pass.               *)
EXTENDS Integers, Sequences, FiniteSets, SequencesExt, FiniteSetsExt, Functions

CONSTANTS
    Holder,         \* addresses other than Zero
    Zero,           \* ZERO_ADDRESS: mints come from it, burns go to it
    Variants,       \* Variants[b]: what decoding block b may give, sequences of
                    \* transfers [from, to, amount]
    UpgradedFrom,   \* the first block at which replaced_classes names the token
    RpcAnswers,     \* what balanceOf may answer
    StrikeLimit,    \* PHASE6_REDECODE_STRIKE_LIMIT
    MaxRestarts,    \* PHASE6_REDECODE_MAX_REPLAY_RESTARTS
    MaxRewinds,     \* bound: rewinds
    MaxFaults       \* bound: passes that fail for other reasons

ASSUME ReplayAssumption ==
    /\ Zero \notin Holder
    /\ Variants \in Seq(SUBSET Seq([from : Holder \cup {Zero}, to : Holder \cup {Zero}, amount : Nat]))
    /\ StrikeLimit \in Nat \ {0} /\ MaxRestarts \in Nat \ {0}
    /\ RpcAnswers \subseteq Nat

VARIABLES
    tip,            \* the last stored block
    transfers,      \* transfers[b]: the stored transfers of block b
    audits,         \* stark_audit_discrepancies: a function from <<b, i, holder>>
                    \* to [retries, status], of the rows there are
    balances,       \* stark_holder_balances: the positive ones
    deltas,         \* stark_holder_balance_deltas, in the order they are written
    replayed,       \* history: the window of the last pass, and the rewinds there
                    \* had been when it began
    pass,           \* the transaction under way, with its own view of the rows
    rewinds, faults

vars == <<tip, transfers, audits, balances, deltas, replayed, pass, rewinds, faults>>

Block == DOMAIN Variants
Status == {"logged", "settled", "PENDING_REDECODE", "FATAL_MANUAL_REVIEW"}
NoPass == [attempt |-> -1]
NoBalances == [h \in Holder |-> 0]

\* decodeBlockFromRaw: the raw events and messages of a block in their order,
\* decoded with the classes known by then.
Decodings(b) == Variants[b]

\* The changes of a block in replay order: a transfer debits its sender and
\* then credits its recipient.
Changes(b, rows) ==
    LET Move(i, holder, delta) ==
            IF holder = Zero THEN <<>>
            ELSE <<[block |-> b, event |-> i, holder |-> holder, delta |-> delta]>>
    IN  FlattenSeq([i \in DOMAIN rows |-> Move(i, rows[i].from, -rows[i].amount)
                                          \o Move(i, rows[i].to, rows[i].amount)])

\* loadTransfers, up to the window of the pass.
AllChanges(rows, window) == FlattenSeq([b \in 1 .. window |-> Changes(b, rows[b])])

Init ==
    /\ tip = 0
    /\ transfers = [b \in Block |-> <<>>]
    /\ audits = [k \in {} |-> k]
    /\ balances = NoBalances /\ deltas = <<>>
    /\ replayed = [window |-> 0, asOf |-> 0]
    /\ pass = NoPass /\ rewinds = 0 /\ faults = 0

-----------------------------------------------------------------------------
\* The block commit and the rewind.

StoreBlock ==
    /\ tip + 1 \in Block
    /\ tip' = tip + 1
    /\ \E rows \in Decodings(tip + 1) : transfers' = [transfers EXCEPT ![tip + 1] = rows]
    /\ UNCHANGED <<audits, balances, deltas, replayed, pass, rewinds, faults>>

\* The rows of the tables that a pass has deleted or decoded again are locked
\* until it ends.
Locked(from) ==
    /\ pass # NoPass
    /\ deltas # <<>> \/ \E b \in pass.redecoded : b >= from

\* The audit rows stay.
Rewind ==
    /\ rewinds < MaxRewinds
    /\ \E from \in 1 .. tip :
         /\ ~Locked(from)
         /\ tip' = from - 1
         /\ transfers' = [b \in Block |-> IF b >= from THEN <<>> ELSE transfers[b]]
         /\ deltas' = SelectSeq(deltas, LAMBDA d : d.block < from)
    /\ balances' = NoBalances
    /\ rewinds' = rewinds + 1
    /\ UNCHANGED <<audits, replayed, pass, faults>>

-----------------------------------------------------------------------------
\* A pass.

Started(p) == [p EXCEPT !.next = 1, !.balances = NoBalances, !.deltas = <<>>,
                        !.changes = AllChanges(p.rows, p.window)]

BeginPass ==
    /\ pass = NoPass
    /\ pass' = Started([attempt |-> 0, window |-> tip, asOf |-> rewinds, rows |-> transfers,
                        redecoded |-> {}, audits |-> audits, next |-> 1,
                        balances |-> NoBalances, deltas |-> <<>>, changes |-> <<>>])
    /\ UNCHANGED <<tip, transfers, audits, balances, deltas, replayed, rewinds, faults>>

Running == pass # NoPass /\ pass.next <= Len(pass.changes)
Change == pass.changes[pass.next]
Attempted == pass.balances[Change.holder] + Change.delta
GapOfCredits == Running /\ Change.delta > 0 /\ Attempted < 0
Gap == Running /\ Attempted < 0

\* The pass after this change has left its holder with the balance: the delta
\* row says by how much the two differ.
Applied(p, balance) ==
    [p EXCEPT !.next = @ + 1, !.balances[Change.holder] = balance,
              !.deltas = Append(@, [block |-> Change.block, event |-> Change.event,
                                    holder |-> Change.holder, delta |-> Change.delta,
                                    adjusted |-> balance - Attempted])]

ApplyChange ==
    /\ Running /\ ~Gap
    /\ pass' = Applied(pass, Attempted)
    /\ UNCHANGED <<tip, transfers, audits, balances, deltas, replayed, rewinds, faults>>

\* insertAuditDiscrepancy: the row of the same event and holder is used again.
AuditKey == <<Change.block, Change.event, Change.holder>>
RetriesAnew(p) == 0
Retries(p) == IF AuditKey \in DOMAIN p.audits THEN p.audits[AuditKey].retries ELSE 0
Audited(p, retries, status) ==
    [p EXCEPT !.audits = [k \in DOMAIN p.audits \cup {AuditKey} |->
        IF k = AuditKey THEN [retries |-> retries, status |-> status] ELSE p.audits[k]]]

Upgraded == Change.block >= UpgradedFrom
StruckLate == Retries(pass) > StrikeLimit
StruckOnce == Retries(pass) + 1 = StrikeLimit + 1
Struck == Retries(pass) + 1 > StrikeLimit
\* Counts beyond the limit are not told apart.
Increased == IF Struck THEN StrikeLimit + 1 ELSE Retries(pass) + 1

\* No class was replaced: the contract is asked, or the balance becomes zero.
Repair ==
    /\ Gap /\ ~Upgraded
    /\ \E balance \in RpcAnswers \cup {0} :
         pass' = Applied(Audited(pass, Retries(pass), "settled"), balance)
    /\ UNCHANGED <<tip, transfers, audits, balances, deltas, replayed, rewinds, faults>>

GiveUp ==
    /\ Gap /\ Upgraded /\ Struck
    /\ pass' = Applied(Audited(pass, Increased, "FATAL_MANUAL_REVIEW"), 0)
    /\ UNCHANGED <<tip, transfers, audits, balances, deltas, replayed, rewinds, faults>>

\* The block fails to decode, and its rows stay; the balance becomes zero.
RedecodeFails ==
    /\ Gap /\ Upgraded /\ ~Struck
    /\ pass' = Applied(Audited(pass, Increased, "settled"), 0)
    /\ UNCHANGED <<tip, transfers, audits, balances, deltas, replayed, rewinds, faults>>

\* ReplayRebuildRequired: begin again with the rows that are stored now, those of
\* the pass before those of others, or, when there were too many restarts, roll
\* back the pass with its audit rows.
Stored(p) == [b \in Block |-> IF b \in p.redecoded THEN p.rows[b] ELSE transfers[b]]
RestartedPartly(p) ==
    [Started([p EXCEPT !.rows = Stored(p)]) EXCEPT !.attempt = @ + 1, !.deltas = p.deltas]
Restarted(p) == [Started([p EXCEPT !.rows = Stored(p)]) EXCEPT !.attempt = @ + 1]

\* Of a block that was rewound meanwhile there is no journal row, and the trades'
\* refresh fails.
Redecode ==
    /\ Gap /\ Upgraded /\ ~Struck /\ Change.block <= tip
    /\ \E rows \in Decodings(Change.block) :
         LET p == [Audited(pass, Increased, "logged") EXCEPT
                      !.rows[Change.block] = rows, !.redecoded = @ \cup {Change.block}]
         IN  pass' = IF pass.attempt + 1 < MaxRestarts THEN Restarted(p) ELSE NoPass
    /\ UNCHANGED <<tip, transfers, audits, balances, deltas, replayed, rewinds, faults>>

CommitPass ==
    /\ pass # NoPass /\ ~Running
    /\ transfers' = Stored(pass)
    /\ audits' = pass.audits
    /\ balances' = pass.balances /\ deltas' = pass.deltas
    /\ replayed' = [window |-> pass.window, asOf |-> pass.asOf]
    /\ pass' = NoPass
    /\ UNCHANGED <<tip, rewinds, faults>>

PassFails ==
    /\ pass # NoPass /\ faults < MaxFaults
    /\ pass' = NoPass
    /\ faults' = faults + 1
    /\ UNCHANGED <<tip, transfers, audits, balances, deltas, replayed, rewinds>>

Replaying == \/ BeginPass \/ ApplyChange \/ Repair \/ GiveUp \/ RedecodeFails
             \/ Redecode \/ CommitPass

Next == StoreBlock \/ Rewind \/ Replaying \/ PassFails

\* The job is a loop that survives its errors.
Spec == Init /\ [][Next]_vars /\ WF_vars(Replaying)

-----------------------------------------------------------------------------
\* Types of the tables and of the pass.
HoldersTypeOK ==
    /\ tip \in {0} \cup Block
    /\ \A b \in Block : IF b > tip THEN transfers[b] = <<>> ELSE transfers[b] \in Decodings(b)
    /\ \A k \in DOMAIN audits : audits[k] \in [retries : Nat, status : Status]
    /\ balances \in [Holder -> Nat]
    /\ pass # NoPass => /\ pass.attempt \in 0 .. MaxRestarts - 1
                        /\ pass.balances \in [Holder -> Nat]

\* After a pass the delta rows are the changes of the stored transfers, each
\* once and in order, although the pass may have started over several times;
\* a balance is the sum of its deltas and of the adjustments they carry, and
\* only an audited change carries one (refreshConcentrationRollups).
PlainOf(ds) == [i \in DOMAIN ds |-> [block |-> ds[i].block, event |-> ds[i].event,
                                     holder |-> ds[i].holder, delta |-> ds[i].delta]]
SumOf(h, ds) == SumFunctionOnSet([i \in DOMAIN ds |-> ds[i].delta + ds[i].adjusted],
                                 {i \in DOMAIN ds : ds[i].holder = h})
KeyOf(d) == <<d.block, d.event, d.holder>>
BalancesAreReplayed ==
    replayed.asOf = rewinds =>
        /\ PlainOf(deltas) = AllChanges(transfers, replayed.window)
        /\ \A h \in Holder : balances[h] = SumOf(h, deltas)
        /\ \A i \in DOMAIN deltas : deltas[i].adjusted # 0 => KeyOf(deltas[i]) \in DOMAIN audits

\* The strikes of a discrepancy add up over passes that fail, restart or find it
\* again after a rewind: none is decoded again after it was given up, and no
\* audit row is left waiting for a decoding (attemptUpgradeAwareRedecode). The
\* fence of the wallet rollups, which reads PENDING_REDECODE, is so never set.
StrikesAddUp ==
    /\ \A k \in DOMAIN audits :
         /\ audits[k].status # "PENDING_REDECODE"
         /\ audits[k].retries > StrikeLimit <=> audits[k].status = "FATAL_MANUAL_REVIEW"
FatalIsFinal ==
    [][\A k \in DOMAIN audits : audits[k].status = "FATAL_MANUAL_REVIEW" =>
         k \in DOMAIN audits' /\ audits'[k].status = "FATAL_MANUAL_REVIEW"]_vars

\* "replay moves on instead of stalling forever": a stored block is replayed, or
\* rewound, in the end.
HoldersCatchUp ==
    \A b \in Block : tip >= b ~> (replayed.window >= b \/ tip < b)
=============================================================================
