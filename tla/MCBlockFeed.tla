---------------------------- MODULE MCBlockFeed -----------------------------
EXTENDS BlockFeed

\* A block of two messages, a torn one of two, and one of one.
Blocks == <<2, 2, 1>>
=============================================================================
