------------------------------ MODULE LeadFeed ------------------------------
(***************************************************************************)
(* The `bbo` channel: every frame is a whole top of book stamped with its  *)
(* block's time, how many frames a stamp has differs from node to node,    *)
(* and the frames are arbitrated by `Seq::Lead`.                           *)
(*                                                                         *)
(* on_update decides on a frame under the entry's lock and sends it after  *)
(* the unlock, so a frame that won stays in its task's hands for a while,  *)
(* and those of other tasks may overtake it.  What is said of sending is   *)
(* said of any one client that is on the list all the time.                *)
(*                                                                         *)
(* Nothing is assumed about the nodes: a source may send any stamp at any  *)
(* time, ahead of the clock or behind it, repeated or going back.          *)
(***************************************************************************)
EXTENDS Arbiter, Gate

CONSTANTS
    MaxStamp,  \* bound: stamps run from 1 to MaxStamp
    MaxFrames, \* bound: frames one source has admitted under one stamp
    MaxTime    \* bound: where the clock stops

ASSUME LeadFeedAssumption ==
    MaxStamp \in Nat /\ MaxFrames \in Nat /\ MaxTime \in Nat

Stamp == 1 .. MaxStamp

VARIABLES
    hand,      \* the stamp of the frame each source's task has yet to send; 0: none
    admitted,  \* history: frames of each source under each stamp past the gate
    carried,   \* history: the sources whose frames of a stamp were sent
    out,       \* history: how many frames of a stamp were sent
    behind     \* history: frames of each source sent behind a newer stamp

sendings == <<carried, out, behind>>
vars == <<entry, now, hand, admitted, sendings>>

TypeOK ==
    /\ EntryTypeOK
    /\ now \in Nat
    /\ hand \in [Source -> {0} \cup Stamp]
    /\ admitted \in [Source -> [Stamp -> Nat]]
    /\ carried \in [Stamp -> SUBSET Source]
    /\ out \in [Stamp -> Nat]
    /\ behind \in [Source -> [Stamp -> Nat]]

Init ==
    /\ EntryInit
    /\ now = 1
    /\ hand = [s \in Source |-> 0]
    /\ admitted = [s \in Source |-> [v \in Stamp |-> 0]]
    /\ carried = [v \in Stamp |-> {}]
    /\ out = [v \in Stamp |-> 0]
    /\ behind = [s \in Source |-> [v \in Stamp |-> 0]]

\* handle_text, and on_update up to the unlock: a frame stamped v arrives
\* from s.  One the gate refuses changes nothing but a counter of the
\* statistics page.
Frame(s, v) ==
    /\ hand[s] = 0
    /\ admitted[s][v] < MaxFrames
    /\ Admitted(v)
    /\ admitted' = [admitted EXCEPT ![s][v] = @ + 1]
    /\ \E o \in Outcome :
          /\ LeadFrame(s, v, o)
          /\ hand' = IF o \in Forwarded THEN [hand EXCEPT ![s] = v] ELSE hand
    /\ UNCHANGED <<now, sendings>>

\* on_update after the unlock: the task of s sends what it has in hand, and
\* only then reads its next frame.
Send(s) ==
    /\ hand[s] # 0
    /\ hand' = [hand EXCEPT ![s] = 0]
    /\ carried' = [carried EXCEPT ![hand[s]] = @ \cup {s}]
    /\ out' = [out EXCEPT ![hand[s]] = @ + 1]
    /\ behind' = [behind EXCEPT ![s] = [w \in Stamp |->
                     IF w > hand[s] /\ out[w] > 0 THEN @[w] + 1 ELSE @[w]]]
    /\ UNCHANGED <<entry, now, admitted>>

ClockTick == now < MaxTime /\ Tick /\ UNCHANGED <<entry, hand, admitted, sendings>>

Next == ClockTick \/ \E s \in Source : Send(s) \/ \E v \in Stamp : Frame(s, v)

Spec == Init /\ [][Next]_vars

----------------------------------------------------------------------------
(* A client follows one source through a stamp: the number of frames a     *)
(* stamp has is not the same on two nodes, so a second source's frame of   *)
(* it may be an older state (route_raw on Bbo, README "Lead").             *)
OneSourcePerStamp == \A v \in Stamp : \A s, t \in carried[v] : s = t

\* The frame of stamp v that s has yet to send.
InHand(s, v) == IF hand[s] = v THEN 1 ELSE 0

(* While a source leads a stamp, every frame it sent under it is sent on,  *)
(* or is in the hands of its task: a later frame of the stamp is the       *)
(* fresher one, and dropping it for its equal stamp leaves the client on   *)
(* the older state.                                                        *)
LeaderComplete ==
    \A s \in Source, v \in Stamp :
        leader = s /\ last = v => out[v] + InHand(s, v) = admitted[s][v]

(* A client may be taken back to an older state, since two winners may     *)
(* send in the other order; but by each source once at most: after a       *)
(* client was sent a frame of stamp w, a source sends it one frame of an   *)
(* older stamp, the one it had in hand, and the source that brought w      *)
(* sends none, whatever they replay.                                       *)
OvertakenOnce ==
    \A s \in Source, w \in Stamp :
        behind[s][w] <= IF s \in carried[w] THEN 0 ELSE 1

(* One frame with a broken clock cannot silence the key for longer than    *)
(* the limit: the high-water mark stays within reach of the wall clock.    *)
MarkWithinReach == last <= now + FutureLimit
=============================================================================
