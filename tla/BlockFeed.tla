----------------------------- MODULE BlockFeed ------------------------------
(***************************************************************************)
(* The `orderUpdates` channel: a block is many messages under one height,  *)
(* every node cuts it into the same messages, and `Seq::Block` races their *)
(* positions one by one.                                                   *)
(*                                                                         *)
(* A source sends the messages in chain order.  While its socket is down,  *)
(* or its frames are refused as too old, it jumps ahead, to the start of a *)
(* block or into the middle of one: then its next message is taken for an  *)
(* earlier position than it is.  Torn names the blocks some source comes   *)
(* back in the middle of; every way the sources can miss messages is a way *)
(* with some set of torn blocks, and what is promised is promised of the   *)
(* others, whatever happens in the torn ones between them.                 *)
(*                                                                         *)
(* A message that won is in its task's hands from on_update's unlock until *)
(* it is sent, and other tasks may send theirs meanwhile.                  *)
(***************************************************************************)
EXTENDS Arbiter, FiniteSets

CONSTANTS
    MaxHeight,   \* bound: blocks are numbered from 1 to MaxHeight
    Size,        \* how many messages each block has
    Torn         \* the blocks a source may come back in the middle of

Height == 1 .. MaxHeight

ASSUME BlockFeedAssumption ==
    /\ MaxHeight \in Nat \ {0}
    /\ Size \in [Height -> Nat \ {0}]
    /\ Torn \subseteq Height

\* Message k of block h, and the order of the messages on the chain.
Message == UNION {{h} \X (1 .. Size[h]) : h \in Height}
Before(m, n) == m[1] < n[1] \/ (m[1] = n[1] /\ m[2] < n[2])

\* The messages of the blocks every source has from their start, if at all.
WholeMessage == {m \in Message : m[1] \notin Torn}

VARIABLES
    height, index, \* the last message each source has sent, or missed
    hand,          \* the message each task has won and not yet sent, if any
    missed,        \* history: messages each source never got through
    shown          \* history: how many times a message was sent to clients

vars == <<entry, height, index, hand, missed, shown>>

TypeOK ==
    /\ EntryTypeOK
    /\ height \in [Source -> Height]
    /\ index \in [Source -> Nat]
    /\ \A s \in Source : index[s] <= Size[height[s]]
    /\ hand \in [Source -> SUBSET Message]
    /\ missed \in [Source -> SUBSET Message]
    /\ shown \in [Message -> Nat]

Init ==
    /\ EntryInit
    /\ height = [s \in Source |-> 1]
    /\ index = [s \in Source |-> 0]
    /\ hand = [s \in Source |-> {}]
    /\ missed = [s \in Source |-> {}]
    /\ shown = [m \in Message |-> 0]

\* Message k of block h arrives from s: on_update up to the unlock.
Arrive(s, h, k) ==
    /\ hand[s] = {}
    /\ height' = [height EXCEPT ![s] = h]
    /\ index' = [index EXCEPT ![s] = k]
    /\ \E o \in Outcome :
          /\ BlockFrame(s, h, o)
          /\ hand' = IF o \in Forwarded
                     THEN [hand EXCEPT ![s] = {<<h, k>>}] ELSE hand
    /\ UNCHANGED <<missed, shown>>

\* The next message of the block s is in, or the first of the next block.
ArriveWithin(s) ==
    index[s] < Size[height[s]] /\ Arrive(s, height[s], index[s] + 1)

ArriveNextBlock(s) ==
    /\ index[s] = Size[height[s]]
    /\ height[s] < MaxHeight
    /\ Arrive(s, height[s] + 1, 1)

\* on_update after the unlock: the task of s sends what it has in hand, and
\* only then reads its next message.
Send(s) ==
    \E m \in hand[s] :
        /\ hand' = [hand EXCEPT ![s] = @ \ {m}]
        /\ shown' = [shown EXCEPT ![m] = @ + 1]
        /\ UNCHANGED <<entry, height, index, missed>>

\* Source s misses everything up to message k of block h, and goes on with
\* the message after it.  The entry hears nothing of it.
Miss(s) ==
    \E h \in Height : \E k \in 0 .. Size[h] :
        /\ hand[s] = {}
        /\ k = 0 \/ h \in Torn
        /\ Before(<<height[s], index[s]>>, <<h, k>>)
        /\ height' = [height EXCEPT ![s] = h]
        /\ index' = [index EXCEPT ![s] = k]
        /\ missed' = [missed EXCEPT ![s] = @ \cup
                {m \in Message : /\ Before(<<height[s], index[s]>>, m)
                                 /\ ~ Before(<<h, k>>, m)}]
        /\ UNCHANGED <<entry, hand, shown>>

Next == \E s \in Source :
            ArriveWithin(s) \/ ArriveNextBlock(s) \/ Send(s) \/ Miss(s)

Spec == Init /\ [][Next]_vars

----------------------------------------------------------------------------
Lost == UNION {missed[s] : s \in Source}
Due == UNION {hand[s] : s \in Source}

(* "Every position goes out exactly once" (state.rs:1199): never a second  *)
(* time, ...                                                               *)
ShownOnce == \A m \in WholeMessage : shown[m] <= 1

(* ... and never left out, as long as every source that is up got it       *)
(* through: whatever comes before a message a client was sent was sent as  *)
(* well, or is in a task's hands, or a source missed it.  A source that    *)
(* dies partway through a block costs nothing, because the others carry on *)
(* from the next position.                                                 *)
NoHole ==
    \A m \in WholeMessage, n \in Message :
        Before(m, n) /\ shown[n] > 0 => shown[m] > 0 \/ m \in Due \cup Lost

(* Both at once, and the order: the messages are committed to in the order *)
(* of the chain, and only those committed to and not yet sent can change   *)
(* places.  A client is given what `OrderedFeed` promises.                 *)
Reader == INSTANCE OrderedFeed WITH
    Message <- WholeMessage,
    given <- [m \in WholeMessage |-> shown[m]],
    due <- Due \cap WholeMessage,
    lost <- Lost \cap WholeMessage

KeepsPromise == Reader!Spec

(* A source in the open block is credited with the messages of it that it  *)
(* sent, all of them and nothing else: its count falls short of its place  *)
(* in the block by what it missed of that block.  So where nothing was     *)
(* missed position #k is the same message from every source, the ground    *)
(* the whole mode stands on (state.rs:312-316); and a source that comes    *)
(* back in the middle of a block is behind for the rest of it.             *)
CountsAreTrue ==
    \A s \in Source : height[s] = last =>
        seen[s] + Cardinality({m \in missed[s] : m[1] = last}) = index[s]
=============================================================================
