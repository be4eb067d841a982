---------------------------- MODULE OrderedFeed -----------------------------
(***************************************************************************)
(* What the proxy promises a client of a raced channel, with no sources    *)
(* and no arbitration in it.  The proxy commits itself to the messages of  *)
(* the chain one at a time and in chain order, passing over none that was  *)
(* not lost before the proxy could have it, and gives each message it      *)
(* committed itself to once.  Messages that are due together may be given  *)
(* in any order.                                                           *)
(***************************************************************************)
EXTENDS Naturals

CONSTANTS
    Message,       \* the messages of the channel
    Before(_, _)   \* their order on the chain

VARIABLES
    given, \* how many times the client was given a message
    due,   \* the messages committed to and not yet given
    lost   \* the messages some source failed to bring

Init ==
    /\ given = [m \in Message |-> 0]
    /\ due = {}
    /\ lost = {}

Decided(m) == given[m] > 0 \/ m \in due

Commit(m) ==
    /\ ~ Decided(m)
    /\ \A n \in Message : Before(m, n) => ~ Decided(n)
    /\ \A n \in Message : Before(n, m) => Decided(n) \/ n \in lost
    /\ due' = due \cup {m}
    /\ UNCHANGED <<given, lost>>

Give(m) ==
    /\ m \in due
    /\ due' = due \ {m}
    /\ given' = [given EXCEPT ![m] = @ + 1]
    /\ UNCHANGED lost

Lose ==
    /\ lost' \in SUBSET Message
    /\ lost \subseteq lost'
    /\ UNCHANGED <<given, due>>

Next == Lose \/ \E m \in Message : Commit(m) \/ Give(m)

Spec == Init /\ [][Next]_<<given, due, lost>>
=============================================================================
