----------------------------- MODULE MCRebuild ------------------------------
EXTENDS Rebuild

\* Two blocks of a single message.
Two == <<1, 2>>

\* A last block of two messages: a snapshot can be taken, and a source be
\* lost, between them.
TwoPerBlock == <<1, 2, 2>>
=============================================================================
