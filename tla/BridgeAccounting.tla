--------------------------- MODULE BridgeAccounting --------------------------
(* jobs/bridge-accounting.js: one transaction that reads up to which block   *)
(* the analytics go, deletes the totals of all wallets, reads the activities *)
(* up to that block, and inserts new totals. What it deleted stays locked    *)
(* until it ends; a row the matcher inserted in between makes its plain      *)
(* INSERT fail, and with it the whole pass.                                  *)
EXTENDS CrossChainMatcher

CONSTANT RequireL1  \* PHASE6_REQUIRE_L1

VARIABLES rebuild   \* the transaction: step, last block of the window (0: none),
                    \* wallets it deleted, rows it inserts, and the rewinds there
                    \* had been when it deleted

NoRebuild == [step |-> "none", window |-> 0, held |-> {},
              rows |-> [w \in Wallet |-> NoFlow], asOf |-> 0]
AccountingInit == rebuild = NoRebuild

HasFlow(w) == flows[w] # NoFlow

\* resolveAnalyticsWindow: the checkpoint of the stored blocks, or that of
\* ACCEPTED_ON_L1, which can be any of them or none.
BeginRebuild ==
    /\ rebuild = NoRebuild
    /\ \E window \in IF RequireL1 THEN 0 .. tip ELSE {tip} :
         rebuild' = [NoRebuild EXCEPT !.step = "delete", !.window = window]
    /\ UNCHANGED <<ethVars, starkVars, upsets, pass>>

\* Without a block to read up to, the transaction commits the deletion alone.
DeleteFlows ==
    /\ rebuild.step = "delete"
    /\ rebuild' = [rebuild EXCEPT !.step = IF rebuild.window = 0 THEN "insert" ELSE "read",
                                  !.held = {w \in Wallet : HasFlow(w)}, !.asOf = rewinds]
    /\ UNCHANGED <<ethVars, starkVars, upsets, pass>>

\* The totals of the activities stored up to block last.
Totals(last) ==
    [w \in Wallet |->
        LET stored == {b \in Stored(w) : b <= last}
        IN  IF stored = {} THEN NoFlow
            ELSE [ins |-> Cardinality(stored),
                  pending |-> Cardinality({b \in stored : activity[b].status = "PENDING"}),
                  verified |-> Amounts({b \in stored : activity[b].status = "MATCHED"})]]

ReadActivities ==
    /\ rebuild.step = "read"
    /\ rebuild' = [rebuild EXCEPT !.step = "insert", !.rows = Totals(rebuild.window)]
    /\ UNCHANGED <<ethVars, starkVars, upsets, pass>>

ClashingNever(w) == FALSE
Clashing(w) == rebuild.rows[w] # NoFlow /\ HasFlow(w) /\ w \notin rebuild.held

InsertFlows ==
    /\ rebuild.step = "insert"
    /\ ~\E w \in Wallet : Clashing(w)
    /\ flows' = [w \in Wallet |->
         IF rebuild.rows[w] # NoFlow \/ w \in rebuild.held THEN rebuild.rows[w] ELSE flows[w]]
    /\ flowsAsOf' = rebuild.asOf /\ flowsUpTo' = rebuild.window
    /\ rebuild' = NoRebuild
    /\ UNCHANGED <<ethVars, tip, activity, link, rewinds, upsets, pass>>

\* Rolled back: what was deleted is there again.
InsertClashes ==
    /\ rebuild.step = "insert" /\ \E w \in Wallet : Clashing(w)
    /\ rebuild' = NoRebuild
    /\ UNCHANGED <<ethVars, starkVars, upsets, pass>>

RebuildFails ==
    /\ rebuild # NoRebuild /\ Upset
    /\ rebuild' = NoRebuild
    /\ UNCHANGED <<ethVars, starkVars, pass>>
=============================================================================
