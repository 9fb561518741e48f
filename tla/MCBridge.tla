------------------------------ MODULE MCBridge -------------------------------
EXTENDS Bridge

CONSTANTS alice, trade

\* Two deposits of one amount to one wallet, which only the nonce could tell
\* apart, and a trade in block 1.
TwoDeposits == 1 .. 2
Alice == [d \in Deposit |-> alice]
Equal == [d \in Deposit |-> 5]
ArriveLate == [b \in Deposit |-> 9 + 16 * b]
EthMinutes == [h \in Height |-> 10 * h]
TradeOfAlice == [t \in Trade |-> alice]
InFirstBlock == [t \in Trade |-> 1]
AfterArrival == [t \in Trade |-> 25]
=============================================================================
