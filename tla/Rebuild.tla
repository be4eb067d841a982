------------------------------ MODULE Rebuild -------------------------------
(***************************************************************************)
(* One incremental key (`l4Book` or `l2Diff`): the arbitration of its      *)
(* frames together with the clients parked until they have a snapshot of   *)
(* their own, the snapshot fetches started for them, and the loss and      *)
(* return of sources.                                                      *)
(*                                                                         *)
(* The messages of the channel are numbered along the chain, and HeightOf  *)
(* gives the block of each; a node snapshots at the end of a block, which  *)
(* is what deliver_snapshot takes a snapshot's height to mean.             *)
(*                                                                         *)
(* A step is what a handler does while it holds the entry's lock: there it *)
(* is decided which frames and snapshots a client is to be sent, and for a *)
(* client these decisions come one after the other.  The sends themselves  *)
(* follow the unlock, may overtake each other, and are Fanout's subject.   *)
(***************************************************************************)
EXTENDS Arbiter, FiniteSets, SequencesExt

CONSTANTS
    Client,
    First,      \* the clients on the key from the start
    Single,     \* key.single_sourced(): TRUE for l2Diff, FALSE for l4Book
    HeightOf,   \* the block of each message
    MaxHeld,    \* PENDING_MAX_BYTES, counted in frames
    MaxFetch,   \* bound: fetches in flight when a client joins
    MaxLosses   \* bound: sources lost, or found silent, altogether

ASSUME RebuildAssumption ==
    /\ IsFiniteSet(Client) /\ First \subseteq Client
    /\ Single \in BOOLEAN
    /\ HeightOf \in Seq(Nat \ {0}) /\ HeightOf # <<>>
    \* The nodes have finished a block before the first client comes.
    /\ Len(HeightOf) > 1 => HeightOf[2] > HeightOf[1]
    /\ MaxHeld \in Nat \ {0} /\ MaxFetch \in Nat \ {0}
    /\ MaxLosses \in Nat

Pos == 1 .. Len(HeightOf)

\* The last position at or before n that ends a block; 0 if there is none.
BlockEnd(n) ==
    Max({0} \cup {i \in 1 .. n : i + 1 \notin Pos \/ HeightOf[i + 1] > HeightOf[i]})

Height(i) == IF i = 0 THEN 0 ELSE HeightOf[i]

VARIABLES
    node,        \* how far the node behind each source has got
    cursor,      \* the last message of each source the proxy has read
    conn,        \* the connection task: "up", "lost" (resync pending), "down"
    greet,       \* the connection's opening snapshot has not been read yet
    subscribers, \* clients attached to the live stream
    pending,     \* clients parked until their snapshot lands
    held,        \* the frames piled up behind each parked client
    fetch,       \* the fetch_snapshot tasks started for each client
    killed,      \* clients told to hang up
    book,        \* history: the source of the snapshot last meant for each
                 \* client, and what was wrong with the increments meant for
                 \* it since by the latest step
    owes,        \* history: sources written off that have not snapshotted
    losses       \* how many losses there have been, for the bound

vars == <<entry, node, cursor, conn, greet, subscribers, pending, held, fetch,
          killed, book, owes, losses>>
feedVars == <<node, cursor, conn, greet>>
clientVars == <<subscribers, pending, held, killed, book>>

Frame == [src : Source, pos : Pos, snap : BOOLEAN]
Task == [who : SUBSET Source, src : Source \cup {NoSource}, pos : {0} \cup Pos]
Fault == {"unfounded", "spliced"}
Book == [src : Source \cup {NoSource}, faults : SUBSET Fault]

InFlight == Cardinality(UNION {{c} \X DOMAIN fetch[c] : c \in Client})

FeedTypeOK ==
    /\ node \in [Source -> Pos] /\ cursor \in [Source -> {0} \cup Pos]
    /\ \A s \in Source : cursor[s] <= node[s]
    /\ conn \in [Source -> {"up", "lost", "down"}]
    /\ greet \in [Source -> BOOLEAN]
    /\ owes \subseteq Source
    /\ losses \in 0 .. MaxLosses

ClientTypeOK ==
    /\ subscribers \subseteq Client /\ pending \subseteq Client
    /\ subscribers \cap pending = {}
    /\ \A c \in Client : Len(held[c]) <= MaxHeld
    /\ held \in [Client -> Seq(Frame)]
    /\ fetch \in [Client -> Seq(Task)]
    /\ killed \subseteq Client
    /\ book \in [Client -> Book]

TypeOK == EntryTypeOK /\ FeedTypeOK /\ ClientTypeOK

NoBook == [src |-> NoSource, faults |-> {}]

\* The first subscriber has just caused every source to be subscribed, so
\* each opens with a snapshot of the last block its node has finished.
Init ==
    /\ EntryInit
    /\ node = [s \in Source |-> 1]
    /\ cursor = [s \in Source |-> BlockEnd(1)]
    /\ conn = [s \in Source |-> "up"]
    /\ greet = [s \in Source |-> BlockEnd(1) > 0]
    /\ subscribers = First
    /\ pending = {}
    /\ held = [c \in Client |-> <<>>]
    /\ fetch = [c \in Client |-> <<>>]
    /\ killed = {}
    /\ book = [c \in Client |-> NoBook]
    /\ owes = {}
    /\ losses = 0

----------------------------------------------------------------------------
\* A client's book once frame f is meant for it, and what is wrong with that.
Apply(b, f) ==
    IF f.snap
    THEN [b EXCEPT !.src = f.src]
    ELSE [b EXCEPT
            !.faults = @ \cup {x \in Fault :
                \/ x = "unfounded" /\ b.src = NoSource
                \/ x = "spliced" /\ Single /\ b.src \notin {f.src, NoSource}}]

\* Only the faults of the latest step are remembered.
Judged(b) == [b EXCEPT !.faults = {}]

\* What on_update does with a frame once it is arbitrated: it is held for the
\* parked clients, evicting those whose backlog outgrew the cap, and the list
\* of the attached ones, for whom it is meant, is cloned.
ShareOut(f, o) ==
    IF o \in Forwarded
    THEN LET over == {c \in pending : Len(held[c]) = MaxHeld}
         IN  /\ pending' = pending \ over
             /\ killed' = killed \cup over
             /\ held' = [c \in Client |->
                           IF c \in over THEN <<>>
                           ELSE IF c \in pending THEN Append(held[c], f) ELSE held[c]]
             /\ book' = [c \in Client |->
                           IF c \in subscribers THEN Apply(Judged(book[c]), f)
                           ELSE book[c]]
             /\ UNCHANGED subscribers
    ELSE UNCHANGED clientVars

\* A source's node moves on, whether or not anyone is connected to it.
Produce(s) ==
    /\ node[s] + 1 \in Pos
    /\ node' = [node EXCEPT ![s] = @ + 1]
    /\ UNCHANGED <<entry, cursor, conn, greet, clientVars, fetch, owes, losses>>

\* The next increment of source s is read off its socket.
Increment(s) ==
    /\ conn[s] = "up" /\ ~ greet[s] /\ cursor[s] < node[s]
    /\ cursor' = [cursor EXCEPT ![s] = @ + 1]
    /\ \E o \in Outcome :
          /\ IF Single THEN StickyFrame(s, Height(cursor[s] + 1), o)
                       ELSE BlockFrame(s, Height(cursor[s] + 1), o)
          /\ ShareOut([src |-> s, pos |-> cursor[s] + 1, snap |-> FALSE], o)
    /\ UNCHANGED <<node, conn, greet, fetch, owes, losses>>

\* The snapshot a source opens its subscription with is read.
Greeting(s) ==
    /\ conn[s] = "up" /\ greet[s]
    /\ greet' = [greet EXCEPT ![s] = FALSE]
    /\ \E o \in Outcome :
          /\ SnapshotFrame(Single, s, Height(cursor[s]), o)
          /\ ShareOut([src |-> s, pos |-> cursor[s], snap |-> TRUE], o)
    /\ owes' = owes \ {s}
    /\ UNCHANGED <<node, cursor, conn, fetch, losses>>

----------------------------------------------------------------------------
\* fetch_snapshot as it starts, with the sources it will ask one by one.
Asking(who) == [who |-> who, src |-> NoSource, pos |-> 0]
Up == {s \in Source : conn[s] = "up"}

\* resync_after_source_loss(s) on this key, and the fetches its caller spawns
\* for the clients that were attached.
Orphans_None == {}
Orphans == subscribers

Resync(s, who) ==
    IF leader = s
    THEN /\ Release(s, TRUE)
         /\ owes' = owes \cup {s}
         /\ subscribers' = {}
         /\ pending' = pending \cup subscribers
         /\ fetch' = [c \in Client |-> IF c \in Orphans
                                       THEN Append(fetch[c], Asking(who))
                                       ELSE fetch[c]]
         /\ UNCHANGED <<held, killed, book>>
    ELSE UNCHANGED <<entry, owes, clientVars, fetch>>

Lose == losses < MaxLosses /\ losses' = losses + 1

\* The socket of s drops, or the monitor bounces it: `connected` is cleared
\* first, and the task then resyncs what s was leading.
Drop(s) ==
    /\ conn[s] = "up"
    /\ conn' = [conn EXCEPT ![s] = "lost"]
    /\ Lose
    /\ UNCHANGED <<entry, node, cursor, greet, clientVars, fetch, owes>>

AfterDrop(s) ==
    /\ conn[s] = "lost"
    /\ conn' = [conn EXCEPT ![s] = "down"]
    /\ Resync(s, Up)
    /\ UNCHANGED <<node, cursor, greet, losses>>

\* The monitor finds s silent while another source delivered of late, one
\* that is connected or one that no longer is; only in the second case is s
\* itself asked for a snapshot.  What s had still on its socket may yet be
\* read afterwards.
Silent(s) ==
    /\ conn[s] = "up" /\ leader = s /\ Source # {s}
    /\ Lose
    /\ \E who \in {Up, Up \ {s}} : who # {} /\ Resync(s, who)
    /\ UNCHANGED feedVars

\* Connected again and everything resubscribed: the stream starts over with
\* a snapshot of the last block the node has finished.
Connect(s) ==
    /\ conn[s] = "down"
    /\ conn' = [conn EXCEPT ![s] = "up"]
    /\ cursor' = [cursor EXCEPT ![s] = BlockEnd(node[s])]
    /\ greet' = [greet EXCEPT ![s] = BlockEnd(node[s]) > 0]
    /\ UNCHANGED <<entry, node, clientVars, fetch, owes, losses>>

----------------------------------------------------------------------------
\* AppState::subscribe on a running incremental stream: wait for a snapshot.
Park_AtOnce(c) == subscribers' = subscribers \cup {c} /\ UNCHANGED pending
Park(c) == pending' = pending \cup {c} /\ UNCHANGED subscribers

\* handle_request: a client joins the running stream and a fetch is spawned.
Join(c) ==
    /\ c \notin subscribers \cup pending \cup killed
    /\ InFlight < MaxFetch
    /\ Park(c)
    /\ fetch' = [fetch EXCEPT ![c] = Append(@, Asking(Up))]
    /\ book' = [book EXCEPT ![c] = NoBook]
    /\ UNCHANGED <<entry, feedVars, held, killed, owes, losses>>

\* It unsubscribes; or it has hung up, or been told to, and is cleaned up.
\* A fetch started for it is not recalled.  The last client to leave would
\* take the key with it: that is Registry's subject.
Leave(c) ==
    /\ c \in subscribers \cup pending \cup killed
    /\ (subscribers \cup pending) \ {c} # {}
    /\ subscribers' = subscribers \ {c}
    /\ pending' = pending \ {c}
    /\ held' = [held EXCEPT ![c] = <<>>]
    /\ killed' = killed \ {c}
    /\ book' = [book EXCEPT ![c] = NoBook]
    /\ UNCHANGED <<entry, feedVars, fetch, owes, losses>>

\* One of the sources answers, with the last block its node has finished;
\* those asked before it could not be reached or let SNAPSHOT_TIMEOUT pass.
Answer(c, j) ==
    /\ fetch[c][j].src = NoSource
    /\ \E s \in fetch[c][j].who :
          /\ BlockEnd(node[s]) > 0
          /\ fetch' = [fetch EXCEPT ![c][j] =
                          [who |-> {}, src |-> s, pos |-> BlockEnd(node[s])]]
    /\ UNCHANGED <<entry, feedVars, clientVars, owes, losses>>

\* deliver_snapshot: the frames of the backlog that follow the snapshot.
Follows_AnySource(f, s, i) == Height(f.pos) > Height(i)
Follows_Baked(f, s, i) == Single => f.src = s
Follows(f, s, i) == Height(f.pos) > Height(i) /\ (Single => f.src = s)

\* A client's book once it is to be sent a snapshot of s at i and, of the
\* frames fs that were held for it meanwhile, those that follow.
Rebuilt(s, i, fs) ==
    FoldLeft(LAMBDA b, f : IF Follows(f, s, i) THEN Apply(b, f) ELSE b,
             [src |-> s, faults |-> {}], fs)

Attach_Twice(c) == subscribers' = subscribers \cup {c} /\ UNCHANGED pending
Attach(c) ==
    /\ pending' = pending \ {c}
    /\ subscribers' = subscribers \cup {c}

\* On a single-sourced key the source of the snapshot is to lead.
Pin_Never(s) == leader
Pin(s) == IF Single THEN s ELSE leader

Deliver(c, j) ==
    LET s == fetch[c][j].src
        i == fetch[c][j].pos
    IN  /\ s # NoSource
        /\ fetch' = [fetch EXCEPT ![c] = RemoveAt(@, j)]
        /\ IF c \in pending
           THEN /\ Attach(c)
                /\ held' = [held EXCEPT ![c] = <<>>]
                /\ book' = [book EXCEPT ![c] = Rebuilt(s, i, held[c])]
                /\ leader' = Pin(s)
                /\ UNCHANGED killed
           ELSE UNCHANGED <<leader, clientVars>>
        /\ UNCHANGED <<last, sampled, sent, seen, needsSnapshot, feedVars, owes, losses>>

FailPending_Quietly(c) == UNCHANGED <<pending, held, killed>>
FailPending(c) ==
    IF c \in pending
    THEN /\ pending' = pending \ {c}
         /\ held' = [held EXCEPT ![c] = <<>>]
         /\ killed' = killed \cup {c}
    ELSE UNCHANGED <<pending, held, killed>>

\* None of them has answered: fail_pending.
GiveUp(c, j) ==
    /\ fetch[c][j].src = NoSource
    /\ fetch' = [fetch EXCEPT ![c] = RemoveAt(@, j)]
    /\ FailPending(c)
    /\ UNCHANGED <<entry, feedVars, subscribers, book, owes, losses>>

FetchStep(c, j) == Answer(c, j) \/ Deliver(c, j) \/ GiveUp(c, j)

Next ==
    \/ \E s \in Source : \/ Produce(s) \/ Increment(s) \/ Greeting(s)
                         \/ Drop(s) \/ AfterDrop(s) \/ Silent(s) \/ Connect(s)
    \/ \E c \in Client : \/ Join(c) \/ Leave(c)
                         \/ \E j \in DOMAIN fetch[c] : FetchStep(c, j)

Spec == Init /\ [][Next]_vars

\* Every fetch goes on: an answer is waited for SNAPSHOT_TIMEOUT at most.
Fairness == \A c \in Client : WF_vars(fetch[c] # <<>> /\ FetchStep(c, 1))

FairSpec == Spec /\ Fairness

----------------------------------------------------------------------------
(* "The leader changes only when it dies, and the client is moved to its   *)
(* replacement by a fresh snapshot rather than by splicing"                *)
(* (state.rs:208-210): no increment of one node's book is meant for a      *)
(* client after the snapshot of another's.                                 *)
NeverSpliced == \A c \in Client : "spliced" \notin book[c].faults

(* Whatever a client is to be sent, a snapshot was decided on first: it is *)
(* held back for it while it has none (subscribe, deliver_snapshot).  The  *)
(* two may still pass each other after the unlock, which Fanout has.       *)
NeverUnfounded == \A c \in Client : "unfounded" \notin book[c].faults

(* A parked client has a fetch of its own under way: nobody is left parked *)
(* with no task that will attach it or hang it up.                         *)
ParkedIsFetched == \A c \in pending : fetch[c] # <<>>

(* "A dead source never blocks the service" (README.md:21-22): once the    *)
(* task of a lost source has let go of what it led, the key is not led by  *)
(* it again before it is back.                                             *)
DeadDoesNotLead == \A s \in Source : conn[s] = "down" => leader # s

(* "Their increments are ignored until they send a snapshot again"         *)
(* (state.rs:320-321): a frame of a source written off, other than a       *)
(* snapshot, goes to nobody and moves nothing, whatever the others send.   *)
WrittenOffIsMuted ==
    [][\A s \in owes : cursor'[s] # cursor[s] /\ conn'[s] = conn[s] =>
          UNCHANGED <<last, leader, held, book>>]_vars

(* A parked client is attached or hung up in the end.                      *)
ParkingEnds == \A c \in Client : c \in pending ~> c \notin pending
=============================================================================
