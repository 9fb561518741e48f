------------------------------ MODULE WorkQueue ------------------------------
(* The queue pattern of stark_trade_enrichment_queue and                     *)
(* stark_token_metadata_refresh_queue: a row per key, claimed by an UPDATE   *)
(* of the oldest claimable rows FOR UPDATE SKIP LOCKED, and marked by an     *)
(* UPDATE that only names the key.                                           *)
EXTENDS Naturals, FiniteSets

Status == {"none", "pending", "processing", "processed", "failed"}

\* A row another process claimed may be claimed again once its
\* processing_started_at is older than stuckAfterMs; stuck says whether it is.
Claimable(status, stuck) ==
    \/ status \in {"pending", "failed"}
    \/ status = "processing" /\ stuck

\* The sets an ORDER BY age ASC LIMIT n may return of the keys S.
Oldest(S, n, age) ==
    {T \in SUBSET S :
        /\ Cardinality(T) = IF Cardinality(S) < n THEN Cardinality(S) ELSE n
        /\ \A k \in T, o \in S \ T : age[k] <= age[o]}
=============================================================================
