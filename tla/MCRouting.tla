----------------------------- MODULE MCRouting -----------------------------
(***************************************************************************)
(* Routing with one user whose address is typed in two ways.               *)
(***************************************************************************)
EXTENDS Routing

CONSTANTS typed, lowered

MCUser == {typed, lowered}
MCLower == [u \in MCUser |-> lowered]
=============================================================================
