---------------------------- MODULE MCEnrichment -----------------------------
EXTENDS Enrichment

CONSTANTS eth, usdc, meme, w1, user, core, pool, other

Swap(in, paid, out, got, from, to) ==
    [in |-> in, out |-> out, paid |-> paid, got |-> got, from |-> from, to |-> to,
     trader |-> user, locker |-> core]

\* A chain of two that keeps a unit of dust on the way, with a third swap that
\* loses too much to be its next hop, and the second of them alone. What the
\* second sells goes from contract to contract.
Second  == Swap(eth, 10000, usdc, 20000, pool, other)
Chained == <<Swap(meme, 7, eth, 10001, user, pool), Second,
             Swap(usdc, 19996, eth, 9, core, user)>>
Single  == <<Second>>

Reexecuted == <<{Chained, Single}>>
OneHeight == {1}
=============================================================================
