---------------------------- MODULE MCTradesFeed ----------------------------
EXTENDS TradesFeed, TLC

\* Each node with batches of its own, and trades 4 and 5 in a batch of theirs
\* on all three.
OwnCuts == (0 :> {1, 3, 5, 6}) @@ (1 :> {2, 3, 5, 6}) @@ (2 :> {3, 5})
=============================================================================
