------------------------------ MODULE Silence ------------------------------
(***************************************************************************)
(* The monitor that lets go of a source whose node has stopped speaking on *)
(* a healthy socket, beside the connection task of each source and the one *)
(* key of the `l2Book` channel they carry: a whole book per frame, one     *)
(* source at a time (`Seq::Sticky`), no rebuild when it changes hands.     *)
(*                                                                         *)
(* The monitor's tick takes several steps, as the tasks of the sources run *)
(* beside it: it rolls the counters of the sources one after the other,    *)
(* judges them all, and then for each source found silent frees what it    *)
(* was leading and, when a retry is due, leaves a permit for its task.     *)
(*                                                                         *)
(* A task decides on a book under the entry's lock and sends it after the  *)
(* unlock, so the monitor may free the key, and another source take it,    *)
(* while the book is still in the task's hands.                            *)
(***************************************************************************)
EXTENDS Arbiter

CONSTANTS
    MaxStamp,  \* bound: stamps run from 1 to MaxStamp
    Limit,     \* SILENCE_LIMIT, in windows
    First,     \* SILENT_RECONNECT_FIRST: windows of silence before a bounce
    Every      \* SILENT_RECONNECT_EVERY: windows between the bounces after it

ASSUME SilenceAssumption ==
    /\ MaxStamp \in Nat
    /\ Limit \in Nat /\ First \in Nat /\ Every \in Nat
    /\ Limit < First /\ First <= Every

Stamp == 1 .. MaxStamp

VARIABLES
    fresh,    \* it has sent a packet since its counters were last rolled
    ever,     \* it has sent a packet at all
    silent,   \* silent_windows
    hand,     \* the stamp of the book its task has won and not sent; 0: none
    conn,     \* "up", "lost" (out of the read loop) or "down" (backing off)
    permit,   \* the permit of its Notify
    pc,       \* where the monitor is in its tick
    at,       \* the source it rolls next
    found,    \* the sources it judged silent and has not dealt with yet
    calm,     \* history: judgements since the latest packet of any source
    shown,    \* history: source and stamp of the book the clients were last
              \* sent; of none once the key was let go of since it was won
    stale,    \* history: the key was let go of since the book in hand was won
    since     \* history: windows since it was last told to reconnect

NoBook == [src |-> NoSource, stamp |-> 0]

stats == <<fresh, ever, silent>>
link == <<hand, conn, permit>>
monitor == <<pc, at, found>>
history == <<calm, shown, stale, since>>
vars == <<entry, stats, link, monitor, history>>

TypeOK ==
    /\ EntryTypeOK
    /\ fresh \in [Source -> BOOLEAN]
    /\ ever \in [Source -> BOOLEAN]
    /\ silent \in [Source -> 0 .. First + Every]
    /\ hand \in [Source -> {0} \cup Stamp]
    /\ conn \in [Source -> {"up", "lost", "down"}]
    /\ permit \in [Source -> BOOLEAN]
    /\ pc \in {"roll", "judge", "resync", "notify"}
    /\ at \in Source
    /\ found \subseteq Source
    /\ calm \in 0 .. Limit + 2
    /\ shown \in [src : Source \cup {NoSource}, stamp : Nat]
    /\ stale \in [Source -> BOOLEAN]
    /\ since \in [Source -> 0 .. Every]

Init ==
    /\ EntryInit
    /\ fresh = [s \in Source |-> FALSE]
    /\ ever = [s \in Source |-> FALSE]
    /\ silent = [s \in Source |-> 0]
    /\ hand = [s \in Source |-> 0]
    /\ conn = [s \in Source |-> "down"]
    /\ permit = [s \in Source |-> FALSE]
    /\ pc = "roll" /\ at = 0 /\ found = {}
    /\ calm = Limit + 2
    /\ shown = NoBook
    /\ stale = [s \in Source |-> FALSE]
    /\ since = [s \in Source |-> Every]

----------------------------------------------------------------------------
(* The task of a source (upstream.rs, run).                                *)

\* Whatever the message is, it counts as a packet.
Counted(s) ==
    /\ fresh' = [fresh EXCEPT ![s] = TRUE]
    /\ ever' = [ever EXCEPT ![s] = TRUE]
    /\ calm' = 0
    /\ UNCHANGED silent

\* The task reads on when it has dealt with the frame before.
Packet(s) == conn[s] = "up" /\ hand[s] = 0 /\ Counted(s)

\* A whole book of the key arrives, with any stamp: on_update up to the
\* unlock.
Book(s, v) ==
    /\ Packet(s)
    /\ \E o \in Outcome :
          /\ StickyFrame(s, v, o)
          /\ hand' = IF o \in Forwarded THEN [hand EXCEPT ![s] = v] ELSE hand
    /\ UNCHANGED <<conn, permit, monitor, shown, stale, since>>

\* on_update after the unlock: the book goes to the clients.
Show(s) ==
    /\ hand[s] # 0
    /\ hand' = [hand EXCEPT ![s] = 0]
    /\ shown' = IF stale[s] THEN NoBook ELSE [src |-> s, stamp |-> hand[s]]
    /\ stale' = [stale EXCEPT ![s] = FALSE]
    /\ UNCHANGED <<entry, stats, conn, permit, monitor, calm, since>>

\* An acknowledgement comes in; the server of a dead node sends it too.
Ack(s) ==
    /\ Packet(s)
    /\ UNCHANGED <<entry, link, monitor, shown, stale, since>>

\* Out of the read loop: `connected` goes false, the socket is dropped.
Leave(s) ==
    /\ conn[s] = "up" /\ hand[s] = 0
    /\ conn' = [conn EXCEPT ![s] = "lost"]
    /\ UNCHANGED <<entry, stats, hand, monitor, history>>

Drop(s) == Leave(s) /\ UNCHANGED permit

\* reconnect.notified(): the permit is consumed, whenever it was left.
Bounce(s) ==
    /\ permit[s]
    /\ permit' = [permit EXCEPT ![s] = FALSE]
    /\ Leave(s)

\* resync_after_source_loss, on a key without increments.
Resync(s) ==
    IF leader = s
    THEN /\ Release(s, FALSE)
         /\ shown' = NoBook
         /\ stale' = [t \in Source |-> hand[t] # 0]
    ELSE UNCHANGED <<entry, shown, stale>>

AfterLoss(s) ==
    /\ conn[s] = "lost"
    /\ Resync(s)
    /\ conn' = [conn EXCEPT ![s] = "down"]
    /\ UNCHANGED <<stats, hand, permit, monitor, calm, since>>

\* Connected, and subscribed anew to everything, the probe at least: unless
\* the socket fails first, the upstream acknowledges it.
Connect(s) ==
    /\ conn[s] = "down"
    /\ conn' = [conn EXCEPT ![s] = "up"]
    /\ Counted(s) \/ UNCHANGED <<stats, calm>>
    /\ UNCHANGED <<entry, hand, permit, monitor, shown, stale, since>>

----------------------------------------------------------------------------
(* The monitor (main.rs), one tick per window.                             *)

\* The counter grows without end; due() sees it modulo Every past First.
OneMore(w) == IF w = First + Every THEN First + 1 ELSE w + 1

\* roll_window.
Roll ==
    /\ pc = "roll"
    /\ silent' = [silent EXCEPT ![at] = IF fresh[at] THEN 0 ELSE OneMore(@)]
    /\ fresh' = [fresh EXCEPT ![at] = FALSE]
    /\ since' = [since EXCEPT ![at] = IF @ < Every THEN @ + 1 ELSE @]
    /\ IF at + 1 \in Source THEN at' = at + 1 /\ UNCHANGED pc
                            ELSE at' = 0 /\ pc' = "judge"
    /\ UNCHANGED <<entry, ever, link, found, calm, shown, stale>>

\* silent_sources: disconnected sources count among the freshest too.
SomebodyDelivers == \E s \in Source : ever[s] /\ silent[s] <= Limit

SilentSources_Absolute ==
    {s \in Source : conn[s] = "up" /\ ever[s] /\ silent[s] > Limit}

SilentSources ==
    IF SomebodyDelivers
    THEN {s \in Source : conn[s] = "up" /\ ever[s] /\ silent[s] > Limit}
    ELSE {}

Judge ==
    /\ pc = "judge"
    /\ found' = SilentSources
    /\ pc' = IF found' = {} THEN "roll" ELSE "resync"
    /\ calm' = IF calm < Limit + 2 THEN calm + 1 ELSE calm
    /\ UNCHANGED <<entry, stats, link, at, shown, stale, since>>

\* Deal with the sources found in the order of their ids.
Foremost(s) == s \in found /\ \A t \in found : s <= t

LetGo(s) ==
    /\ pc = "resync" /\ Foremost(s)
    /\ Resync(s)
    /\ pc' = "notify"
    /\ UNCHANGED <<stats, link, at, found, calm, since>>

Due_Past(w) == w >= First
Due_Once(w) == w = First
Due(w) == w = First \/ (w > First /\ (w - First) % Every = 0)

\* notify_one: a permit already there is not doubled.
Notify(s) ==
    /\ pc = "notify" /\ Foremost(s)
    /\ IF Due(silent[s])
       THEN /\ permit' = [permit EXCEPT ![s] = TRUE]
            /\ since' = [since EXCEPT ![s] = 0]
       ELSE UNCHANGED <<permit, since>>
    /\ found' = found \ {s}
    /\ pc' = IF found' = {} THEN "roll" ELSE "resync"
    /\ UNCHANGED <<entry, stats, hand, conn, at, calm, shown, stale>>

----------------------------------------------------------------------------
Monitor == Roll \/ Judge \/ \E s \in Source : LetGo(s) \/ Notify(s)

Task(s) ==
    \/ \E v \in Stamp : Book(s, v)
    \/ Show(s) \/ Ack(s) \/ Drop(s) \/ Bounce(s)
    \/ AfterLoss(s) \/ Connect(s)

Next == Monitor \/ \E s \in Source : Task(s)

\* What a task does without anything coming in from its node.  It never has
\* a choice between two of these.
Onward(s) == Show(s) \/ Bounce(s) \/ AfterLoss(s) \/ Connect(s)

(* The ticker never stops; a task sends what it has in hand without        *)
(* waiting for anybody, goes on to the resync when it has left its loop    *)
(* and, with a capped backoff, tries to connect until it succeeds, and     *)
(* select! polls the permit beside the socket.                             *)
Spec ==
    /\ Init /\ [][Next]_vars
    /\ WF_vars(Monitor)
    /\ \A s \in Source : WF_vars(Onward(s))

----------------------------------------------------------------------------
(* A quiet market lets nobody go: a source is judged silent only when some *)
(* source was heard since one of the last Limit + 1 judgements.  Silence   *)
(* of all is not a fault (silent_sources, idle_for and roll_window).       *)
QuietMarketLetsNobodyGo ==
    [][~ found' \subseteq found => calm <= Limit + 1]_vars

(* The books of two sources are not mixed: as long as the source the       *)
(* clients' book came from keeps the key, they are sent no book of another *)
(* and none that goes back in time, but for one that was in its task's     *)
(* hands when the key was let go of before (on_update, Seq::Sticky;        *)
(* resync_after_source_loss).                                              *)
OneBook ==
    [][\/ shown' = shown
       \/ shown.src = NoSource \/ shown'.src = NoSource
       \/ shown'.src = shown.src /\ shown'.stamp >= shown.stamp]_vars

(* A source is told to reconnect at most once in First windows, whatever   *)
(* becomes of its connection meanwhile (main.rs, SILENT_RECONNECT_FIRST).  *)
BouncesSpaced ==
    [][\A s \in Source : since'[s] < since[s] => since[s] >= First]_vars

\* s never delivers a book again, and nobody subscribes to anything new.  It
\* still acknowledges what the proxy asks for whenever it reconnects.
FallsSilent(s) == <>[][~ (Ack(s) \/ \E v \in Stamp : Book(s, v))]_vars

\* Somebody goes on delivering.
OthersSpeak(s) ==
    []<><<\E t \in Source \ {s}, v \in Stamp : Book(t, v)>>_vars

(* A leader that is dead on a healthy socket does not hold its clients     *)
(* for ever: as long as another source delivers now and then, the key ends *)
(* up free of it (main.rs: "would strand its clients").                    *)
DeadLeaderLetGo ==
    \A s \in Source :
        FallsSilent(s) /\ OthersSpeak(s) => <>[](leader # s)

\* s has spoken before, and another source is not silent.
OthersHeard(s) ==
    ever[s] /\ \E t \in Source \ {s} : ever[t] /\ silent[t] <= Limit

(* A source that has gone silent is made to reconnect, again and again,    *)
(* whatever silenced it, as long as another is heard in every window: a    *)
(* subscription the upstream lost is asked for anew (main.rs, "bounce the  *)
(* connection").                                                           *)
SilentIsReconnected ==
    \A s \in Source :
        FallsSilent(s) => []<>(conn[s] # "up" \/ ~ OthersHeard(s))
=============================================================================
