--------------------------- MODULE MCWalletLedger ---------------------------
EXTENDS WalletLedger, TLC

CONSTANTS alice, bob, dai0, dai, eth

Migrated == dai0 :> dai
DustOf == (dai0 :> 0) @@ (dai :> 0) @@ (eth :> 1)

Bridge(in, w, t, amount, usd) ==
    [kind |-> "bridge", in |-> in, wallet |-> w, token |-> t, amount |-> amount, usd |-> usd]
Move(from, to, t, amount, usd) ==
    [kind |-> "transfer", from |-> from, to |-> to, token |-> t, amount |-> amount, usd |-> usd]
Swap(w, t, amount, bought, out, usd) ==
    [kind |-> "trade", wallet |-> w, token |-> t, amount |-> amount, bought |-> bought,
     out |-> out, usd |-> usd]
Tx(items, fee) == [items |-> items, fee |-> fee]

SmallTransactions == {
    Tx(<<Bridge(TRUE, alice, dai0, 2, 3)>>, 0),
    Tx(<<Bridge(FALSE, bob, dai, 2, 2)>>, 0),
    Tx(<<Swap(alice, eth, 3, dai0, 5, 7)>>, 1),
    Tx(<<Swap(alice, dai0, 4, dai, 4, 4)>>, 1),
    Tx(<<Swap(alice, eth, 1, dai, 3, 5), Swap(alice, dai, 1, eth, 2, None)>>, 3),
    Tx(<<Swap(alice, dai, 2, eth, 3, 4), Swap(alice, dai, 3, eth, 2, 7)>>, 5),
    Tx(<<Move(alice, bob, dai, 3, 3)>>, 0),
    Tx(<<Move(None, bob, dai, 2, None), Swap(bob, dai, 4, eth, 3, 5)>>, 2),
    Tx(<<Move(bob, alice, eth, 2, None), Move(alice, None, dai, 1, None)>>, 0) }
=============================================================================
