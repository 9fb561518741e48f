------------------------------ MODULE MCHolders ------------------------------
EXTENDS HolderReplay

CONSTANTS alice, bob, zero

T(from, to, amount) == [from |-> from, to |-> to, amount |-> amount]

\* A mint and a burn of what was not minted; transfers one of which is of more
\* than it can cover, unless the new class decodes it as less; a transfer back.
MintMoveBack == <<
    {<<T(zero, alice, 5), T(bob, zero, 1)>>},
    {<<T(alice, bob, 9)>>, <<T(alice, bob, 4)>>},
    {<<T(bob, alice, 6)>>, <<>>} >>

\* Four transfers of what nobody was seen to receive.
FourGaps == <<
    {<<T(alice, bob, 1)>>}, {<<T(alice, bob, 2)>>},
    {<<T(alice, bob, 3)>>}, {<<T(alice, bob, 4)>>} >>
=============================================================================
