-------------------------------- MODULE Gate --------------------------------
(***************************************************************************)
(* The absolute freshness check `handle_text` makes on a routed frame      *)
(* before arbitration: a block time too far ahead of the clock, or further *)
(* behind it than --max-age, is refused.  Times are in abstract units.     *)
(***************************************************************************)
EXTENDS Naturals

CONSTANTS
    FutureLimit,  \* FUTURE_LIMIT
    MaxAge        \* --max-age; 0 turns the age check off

ASSUME GateAssumption == FutureLimit \in Nat /\ MaxAge \in Nat

VARIABLE now  \* the proxy's wall clock

FromFuture_Off(t) == FALSE
FromFuture(t) == t > now + FutureLimit

TooOld_Off(t) == FALSE
TooOld(t) == MaxAge > 0 /\ now > t + MaxAge

Admitted(t) == ~ FromFuture(t) /\ ~ TooOld(t)

Tick == now' = now + 1
=============================================================================
