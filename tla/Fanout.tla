------------------------------- MODULE Fanout -------------------------------
(***************************************************************************)
(* What happens on one incremental key between the entry's lock and the    *)
(* sockets of its clients, with whatever else their queues have to carry.  *)
(* on_update clones the list of subscribers and deliver_snapshot takes a   *)
(* client's backlog under the lock; both send after they have let go of    *)
(* it, one client or one frame at a time, so the sends of several source   *)
(* tasks and fetches interleave, and a client may have been parked again   *)
(* before they are done.                                                   *)
(*                                                                         *)
(* Arbitration is left out: frame n is the nth that is forwarded, whichever *)
(* task it came in on.  A snapshot stands for the frames up to some height, *)
(* which may be far behind the stream or ahead of it, and comes from any   *)
(* source.  In a queue, 0 is whatever is not a frame of the stream.        *)
(***************************************************************************)
EXTENDS Naturals, Sequences, FiniteSets

CONSTANTS
    Task,      \* the source tasks, each on a thread of its own
    Client,
    First,     \* the clients attached from the start
    Nobody,    \* whom an idle fetch has frames for
    Single,    \* single_sourced(): the key follows one source at a time
    Depth,     \* CLIENT_QUEUE
    MaxHeld,   \* PENDING_MAX_BYTES, counted in frames
    Fetch,     \* bound: the fetches that can be handing a backlog over
    MaxFrame   \* bound: frames forwarded altogether

ASSUME FanoutAssumption ==
    /\ IsFiniteSet(Task) /\ IsFiniteSet(Fetch)
    /\ First \subseteq Client /\ Nobody \notin Client
    /\ Single \in BOOLEAN
    /\ Depth \in Nat \ {0} /\ MaxHeld \in Nat \ {0} /\ MaxFrame \in Nat

VARIABLES
    count,     \* how many frames have been forwarded
    attached,  \* SubEntry::subscribers; the order of the list is left open
    parked,    \* SubEntry::pending
    held,      \* the backlog of each parked client; in the order of positions
    sending,   \* each source task: its frame, and the clients left to send it to
    handing,   \* each fetch: its client, and what is left to send it
    queue,     \* Client::tx
    wire,      \* how often each frame was written to each client's socket
    kill,      \* Client::kill holds a permit
    life,      \* "open", "closing" or "closed"
    late,      \* the clients whose reader is not through with what it has read,
               \* though it was aborted
    since,     \* history: the frames forwarded when each client was last parked
    joined,    \* history: and when it was last attached
    owed       \* history: what its snapshot left it to be sent of its backlog

vars == <<count, attached, parked, held, sending, handing, queue, wire, kill,
          life, late, since, joined, owed>>
lists == <<attached, parked, held>>
history == <<since, joined, owed>>
entryVars == <<count, lists, history>>
sendVars == <<sending, handing>>
socket == <<life, late>>

Position == 1 .. MaxFrame
Frame == [pos : Position, by : Task]
Resting == [pos |-> 0, left |-> {}]
Idle == [to |-> Nobody, left |-> {}]

TypeOK ==
    /\ count \in 0 .. MaxFrame
    /\ attached \subseteq Client /\ parked \subseteq Client
    /\ attached \cap parked = {}
    /\ held \in [Client -> SUBSET Frame]
    /\ queue \in [Client -> Seq(0 .. MaxFrame)]
    /\ \A c \in Client : Cardinality(held[c]) <= MaxHeld /\ Len(queue[c]) <= Depth
    /\ sending \in [Task -> [pos : 0 .. MaxFrame, left : SUBSET Client]]
    /\ handing \in [Fetch -> {Idle} \cup [to : Client, left : SUBSET (0 .. MaxFrame)]]
    /\ wire \in [Client -> [Position -> Nat]]
    /\ kill \subseteq Client /\ late \subseteq Client
    /\ life \in [Client -> {"open", "closing", "closed"}]
    /\ since \in [Client -> 0 .. MaxFrame] /\ joined \in [Client -> 0 .. MaxFrame]
    /\ owed \in [Client -> SUBSET Position]

Init ==
    /\ count = 0
    /\ attached = First
    /\ parked = {}
    /\ held = [c \in Client |-> {}]
    /\ sending = [t \in Task |-> Resting]
    /\ handing = [k \in Fetch |-> Idle]
    /\ queue = [c \in Client |-> <<>>]
    /\ wire = [c \in Client |-> [n \in Position |-> 0]]
    /\ kill = {}
    /\ life = [c \in Client |-> "open"]
    /\ late = {}
    /\ since = [c \in Client |-> 0] /\ joined = [c \in Client |-> 0]
    /\ owed = [c \in Client |-> {}]

----------------------------------------------------------------------------
\* on_update under the lock: a frame wins.  It is held for the parked
\* clients, those over the cap are evicted, and the list is cloned.
Win(t) ==
    LET f == [pos |-> count + 1, by |-> t]
        over == {c \in parked : Cardinality(held[c]) = MaxHeld}
    IN  /\ sending[t] = Resting /\ count < MaxFrame
        /\ count' = count + 1
        /\ parked' = parked \ over
        /\ kill' = kill \cup over
        /\ held' = [c \in Client |-> IF c \in parked \ over THEN held[c] \cup {f}
                                                            ELSE {}]
        /\ sending' = [sending EXCEPT ![t] =
                         IF attached = {} THEN Resting
                         ELSE [pos |-> count + 1, left |-> attached]]
        /\ UNCHANGED <<attached, handing, queue, wire, socket, history>>

\* Client::send_or_hang_up.  The queue is gone once its client is closed.
Room_Always(c) == life[c] # "closed"
Room(c) == life[c] # "closed" /\ Len(queue[c]) < Depth

Refuse_Quietly(c) == UNCHANGED kill
Refuse(c) == kill' = kill \cup {c}

SendOrHangUp(c, n) ==
    \/ /\ Room(c)
       /\ queue' = [queue EXCEPT ![c] = Append(@, n)]
       /\ UNCHANGED kill
    \/ /\ ~ Room(c)
       /\ Refuse(c)
       /\ UNCHANGED queue

\* on_update after the unlock: one client of the cloned list after another.
Send(t) ==
    \E c \in sending[t].left :
        /\ SendOrHangUp(c, sending[t].pos)
        /\ sending' = [sending EXCEPT ![t] =
                          IF @.left = {c} THEN Resting
                          ELSE [pos |-> @.pos, left |-> @.left \ {c}]]
        /\ UNCHANGED <<entryVars, handing, wire, socket>>

----------------------------------------------------------------------------
\* The clients cs are parked, with no backlog yet.
Park(cs) ==
    /\ parked' = parked \cup cs
    /\ since' = [c \in Client |-> IF c \in cs THEN count ELSE since[c]]
    /\ joined' = [c \in Client |-> IF c \in cs THEN 0 ELSE joined[c]]
    /\ owed' = [c \in Client |-> IF c \in cs THEN {} ELSE owed[c]]

\* Its reader takes a request up: while the client is there, or, in the poll
\* it was in when it was aborted, even after everything was cleaned up.
Reads(c) == life[c] = "open" \/ c \in late

\* A subscribe request joins the running stream, and the client is parked.
Join(c) ==
    /\ Reads(c) /\ c \notin attached \cup parked
    /\ Park({c})
    /\ UNCHANGED <<count, attached, held, sendVars, queue, wire, kill, socket>>

\* resync_after_source_loss: all that were attached are parked.  Whoever was
\* parked already keeps its backlog.
Resync ==
    /\ attached # {}
    /\ Park(attached)
    /\ attached' = {}
    /\ UNCHANGED <<count, held, sendVars, queue, wire, kill, socket>>

\* deliver_snapshot under the lock: what of the backlog follows a snapshot of
\* source s up to b.  A single-sourced key lets only its own source follow.
Follows_Baked(f, b, s) == Single => f.by = s
Follows_AnySource(f, b, s) == f.pos > b
Follows(f, b, s) == f.pos > b /\ (Single => f.by = s)

Attach(k, c, b, s) ==
    /\ handing[k] = Idle /\ c \in parked
    /\ parked' = parked \ {c}
    /\ attached' = attached \cup {c}
    /\ held' = [held EXCEPT ![c] = {}]
    /\ handing' = [handing EXCEPT ![k] =
                      [to |-> c,
                       left |-> {0} \cup {f.pos : f \in {g \in held[c] : Follows(g, b, s)}}]]
    /\ joined' = [joined EXCEPT ![c] = count]
    /\ owed' = [owed EXCEPT ![c] =
                   {n \in since[c] + 1 .. count :
                       n > b /\ (Single => [pos |-> n, by |-> s] \in held[c])}]
    /\ UNCHANGED <<count, since, sending, queue, wire, kill, socket>>

Deliver(k) == \E c \in Client, b \in 0 .. MaxFrame, s \in Task : Attach(k, c, b, s)

\* And after the unlock, one frame after another until one is refused.
Hand(k) ==
    LET c == handing[k].to IN
    \E n \in handing[k].left :
        /\ \A m \in handing[k].left : n <= m
        /\ SendOrHangUp(c, n)
        /\ handing' = [handing EXCEPT ![k] =
                          IF Room(c) /\ @.left # {n}
                          THEN [to |-> c, left |-> @.left \ {n}] ELSE Idle]
        /\ UNCHANGED <<entryVars, sending, wire, socket>>

----------------------------------------------------------------------------
\* A reply to c, or a frame of another key it holds, a self-contained one:
\* try_send, which on a full queue drops the frame and nothing else.
SendAside(c) ==
    /\ Room(c)
    /\ queue' = [queue EXCEPT ![c] = Append(@, 0)]
    /\ UNCHANGED <<entryVars, sendVars, wire, kill, socket>>

\* The writer task.  An abort stops it at its next await, so it may write on
\* for a little after the client was hung up.
Write(c) ==
    /\ life[c] \in {"open", "closing"} /\ queue[c] # <<>>
    /\ LET n == Head(queue[c]) IN
       wire' = IF n = 0 THEN wire ELSE [wire EXCEPT ![c][n] = @ + 1]
    /\ queue' = [queue EXCEPT ![c] = Tail(@)]
    /\ UNCHANGED <<entryVars, sendVars, kill, socket>>

\* The socket task wakes, and aborts the reader, which may be in a poll.
Close(c) ==
    /\ life[c] = "open"
    /\ life' = [life EXCEPT ![c] = "closing"]
    /\ late' = late \/ late' = late \cup {c}
    /\ UNCHANGED <<entryVars, sendVars, queue, wire>>

\* It was told to hang up, or the client went away.
HangUp(c) == c \in kill /\ Close(c) /\ kill' = kill \ {c}
GoAway(c) == Close(c) /\ UNCHANGED kill

\* detach takes the client off both lists.
Detach_Attached(c) ==
    /\ attached' = attached \ {c}
    /\ UNCHANGED <<parked, held>>

Detach(c) ==
    /\ attached' = attached \ {c}
    /\ parked' = parked \ {c}
    /\ held' = [held EXCEPT ![c] = {}]

\* What the key remembers of a client that is on neither list.
Forget(c) ==
    /\ since' = [since EXCEPT ![c] = 0]
    /\ joined' = [joined EXCEPT ![c] = 0]
    /\ owed' = [owed EXCEPT ![c] = {}]

\* An unsubscribe request.
Leave(c) ==
    /\ Reads(c) /\ c \in attached \cup parked
    /\ Detach(c) /\ Forget(c)
    /\ UNCHANGED <<count, sendVars, queue, wire, kill, socket>>

\* cleanup_client, and the queue's receiver is dropped with the writer.
CleanUp(c) ==
    /\ life[c] = "closing"
    /\ life' = [life EXCEPT ![c] = "closed"]
    /\ Detach(c) /\ Forget(c)
    /\ queue' = [queue EXCEPT ![c] = <<>>]
    /\ wire' = [wire EXCEPT ![c] = [n \in Position |-> 0]]
    /\ UNCHANGED <<count, sendVars, kill, late>>

Next ==
    \/ \E t \in Task : Win(t) \/ Send(t)
    \/ \E k \in Fetch : Deliver(k) \/ Hand(k)
    \/ Resync
    \/ \E c \in Client : \/ Join(c) \/ Leave(c) \/ SendAside(c) \/ Write(c)
                         \/ HangUp(c) \/ GoAway(c) \/ CleanUp(c)

Spec == Init /\ [][Next]_vars

\* The socket task wakes on its permit and cleans up; neither waits for
\* anybody.
Fairness == \A c \in Client : WF_vars(HangUp(c)) /\ WF_vars(CleanUp(c))

FairSpec == Spec /\ Fairness

----------------------------------------------------------------------------
\* How often frame n is on its way to client c, or has got there: on the
\* wire, in the queue, or in the hands of a task that will send it.
Among(s, n) == Cardinality({i \in DOMAIN s : s[i] = n})

Copies(c, n) ==
    wire[c][n] + Among(queue[c], n)
      + Cardinality({k \in Fetch : handing[k].to = c /\ n \in handing[k].left})
      + Cardinality({t \in Task : sending[t].pos = n /\ c \in sending[t].left})

\* What an attached client is to be sent: all that was forwarded since it was
\* attached, and of what was forwarded while it was parked what its snapshot
\* had not baked in.
Due(c) == owed[c] \cup {n \in 1 .. count : n > joined[c]}

(* A client that is attached and not to be hung up gets every frame that   *)
(* follows its snapshot once, none of those baked into it or of another    *)
(* source, and no frame of the time before twice, whatever was arbitrated, *)
(* sent, handed over, resynced or resubscribed meanwhile: the change from  *)
(* parked to attached is made in one locked step, so each frame is either  *)
(* in the backlog or meant for the cloned list (deliver_snapshot).         *)
EachFrameOnce ==
    \A c \in attached : life[c] = "open" /\ c \notin kill =>
        \A n \in 1 .. count :
            /\ Copies(c, n) <= 1
            /\ n > since[c] => (Copies(c, n) = 1 <=> n \in Due(c))

(* A client that is gone is on neither list, so no fetch that is late      *)
(* attaches it again (detach clears both), unless its own reader, aborted  *)
(* in the middle of a poll, has subscribed it after the cleanup.           *)
GoneIsGone ==
    \A c \in Client : life[c] = "closed" /\ c \notin late => c \notin parked \cup attached

(* "A dropped frame corrupts the client's book for good: reconnecting is   *)
(* the lesser evil" (state.rs:255-256): a client with a hole in what it    *)
(* was due is hung up in the end, even if its queue has room again, it     *)
(* has left the key or it has been parked again.                           *)
Holed(c) ==
    /\ c \in attached /\ life[c] = "open"
    /\ \E n \in Due(c) : Copies(c, n) = 0

HolesAreClosed == \A c \in Client : Holed(c) ~> life[c] = "closed"
=============================================================================
