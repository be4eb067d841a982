------------------------------ MODULE Registry ------------------------------
(***************************************************************************)
(* Who is subscribed to what: the client's own set of subscriptions, the   *)
(* map of entries, and the subscriptions held upstream, kept in step by    *)
(* messages queued for the source tasks.                                   *)
(*                                                                         *)
(* A handler (subscribe, unsubscribe, cleanup_client) does not run under   *)
(* one lock: it takes the client's set, then the entry, then queues its    *)
(* message for one source after another, and a last unsubscribe ends by    *)
(* removing the entry.  Each of these is a step, and up to Workers         *)
(* handlers are between their first and last step at once: the worker      *)
(* threads of the runtime, as no handler awaits anything.                  *)
(*                                                                         *)
(* Two handlers can get into each other's way in two places.  The variable *)
(* raced remembers the keys on which they have; no step depends on it.     *)
(***************************************************************************)
EXTENDS Naturals, Sequences, FiniteSets, SequencesExt

CONSTANTS
    Source,
    Client,
    Key,
    Pinned,    \* the keys held open by AppState::pin
    Workers,   \* threads that run handlers
    MaxQueue   \* bound: messages queued for a source when a handler starts

ASSUME RegistryAssumption ==
    /\ IsFiniteSet(Key) /\ Pinned \subseteq Key
    /\ Workers \in Nat \ {0} /\ MaxQueue \in Nat

\* A client's requests are handled by its reader task, one at a time; the
\* task that owns its socket cleans up after it, once.
Actor == Client \X {"reader", "socket"}
Reader(c) == <<c, "reader">>
Socket(c) == <<c, "socket">>
Verb == {"subscribe", "unsubscribe"}
Message == Verb \X Key

VARIABLES
    holds,    \* Client::subscriptions
    closing,  \* clients whose reader has been told to stop
    members,  \* the clients of an entry, attached or parked
    flagged,  \* the entries with upstream_subscribed
    task,     \* the step each handler is at, and the keys it has to do
    ctrl,     \* messages queued for each source task
    conn,     \* the source task: "down", "drained" or "up"
    upstream, \* the keys each upstream server is streaming to us
    raced     \* history: the keys on which handlers have run into each other

vars == <<holds, closing, members, flagged, task, ctrl, conn, upstream, raced>>
clientVars == <<holds, closing>>
entryVars == <<members, flagged>>
sourceVars == <<ctrl, conn, upstream>>

\* A handler at a step, the keys it is about (the first is the one it is on),
\* and the sources it has still to tell.
At(step, keys) == [at |-> step, keys |-> keys, left |-> {}]
Idle == At("idle", <<>>)
Telling(verb, keys) == [at |-> verb, keys |-> keys, left |-> Source]

Step == {"idle", "enter", "leave"} \cup Verb

TypeOK ==
    /\ holds \in [Client -> SUBSET Key] /\ closing \subseteq Client
    /\ members \in [Key -> SUBSET Client]
    /\ flagged \subseteq Key
    /\ task \in [Actor -> [at : Step, keys : Seq(Key), left : SUBSET Source]]
    /\ \A a \in Actor : /\ task[a].at = "idle" <=> task[a].keys = <<>>
                        /\ task[a].left # {} => task[a].at \in Verb
    /\ ctrl \in [Source -> Seq(Message)]
    /\ conn \in [Source -> {"down", "drained", "up"}]
    /\ upstream \in [Source -> SUBSET Key]
    /\ raced \subseteq Key

\* The probe is pinned before the first connection is made.
Init ==
    /\ holds = [c \in Client |-> {}]
    /\ closing = {}
    /\ members = [k \in Key |-> {}]
    /\ flagged = Pinned
    /\ task = [a \in Actor |-> Idle]
    /\ \E q \in SetToSeqs({"subscribe"} \X Pinned) : ctrl = [s \in Source |-> q]
    /\ conn = [s \in Source |-> "down"]
    /\ upstream = [s \in Source |-> {}]
    /\ raced = {}

\* The handlers between two of their steps, and the source tasks between
\* draining their queue and resubscribing.
Running == {a \in Actor : task[a].at # "idle"}
Resuming == {s \in Source : conn[s] = "drained"}
FreeWorker == Cardinality(Running) + Cardinality(Resuming) < Workers

\* A worker starts a request or a cleanup.
Starts == FreeWorker /\ \A s \in Source : Len(ctrl[s]) <= MaxQueue

\* The two places: a handler gives up a key for good that a client comes to
\* meanwhile, and a client is cleaned up after while its reader subscribes.
Removing(k) == \E a \in Actor : task[a].at = "unsubscribe" /\ Head(task[a].keys) = k
Subscribing(c) ==
    IF task[Reader(c)].at \in {"enter", "subscribe"} THEN {Head(task[Reader(c)].keys)} ELSE {}

----------------------------------------------------------------------------
\* AppState::subscribe: the client's own set first.
Subscribe(c, k) ==
    /\ Starts /\ c \notin closing /\ task[Reader(c)] = Idle
    /\ k \notin holds[c]
    /\ holds' = [holds EXCEPT ![c] = @ \cup {k}]
    /\ task' = [task EXCEPT ![Reader(c)] = At("enter", <<k>>)]
    /\ UNCHANGED <<closing, entryVars, sourceVars, raced>>

\* Then the entry: the first subscriber sets the flag and tells the sources.
Enter(c) ==
    LET k == Head(task[Reader(c)].keys)
    IN  /\ task[Reader(c)].at = "enter"
        /\ members' = [members EXCEPT ![k] = @ \cup {c}]
        /\ flagged' = flagged \cup {k}
        /\ task' = [task EXCEPT ![Reader(c)] =
                       IF k \in flagged THEN Idle ELSE Telling("subscribe", <<k>>)]
        /\ raced' = IF Removing(k) THEN raced \cup {k} ELSE raced
        /\ UNCHANGED <<clientVars, sourceVars>>

\* AppState::unsubscribe.
Unsubscribe(c, k) ==
    /\ Starts /\ c \notin closing /\ task[Reader(c)] = Idle
    /\ k \in holds[c]
    /\ holds' = [holds EXCEPT ![c] = @ \ {k}]
    /\ task' = [task EXCEPT ![Reader(c)] = At("leave", <<k>>)]
    /\ UNCHANGED <<closing, entryVars, sourceVars, raced>>

\* The socket closes.  The reader is aborted, which stops it between two
\* requests and not in the middle of one, and cleanup_client drains the
\* client's set to detach it from each of its keys in turn.
Close(c) ==
    /\ Starts /\ c \notin closing
    /\ closing' = closing \cup {c}
    /\ holds' = [holds EXCEPT ![c] = {}]
    /\ \E keys \in SetToSeqs(holds[c]) :
          task' = [task EXCEPT ![Socket(c)] =
                      IF keys = <<>> THEN Idle ELSE At("leave", keys)]
    /\ raced' = raced \cup Subscribing(c)
    /\ UNCHANGED <<entryVars, sourceVars>>

----------------------------------------------------------------------------
\* The key is done with; a cleanup goes on to the next.
Rest_FirstOnly(t) == Idle
Rest_NoEnd(t) == At("leave", Tail(t.keys))
Rest(t) == IF Len(t.keys) = 1 THEN Idle ELSE At("leave", Tail(t.keys))

\* detach, the entry under its lock: does the key go with this client?
LastOne_EvenPinned(k, c) == members[k] \ {c} = {} /\ k \in flagged
LastOne_Never(k, c) == FALSE
LastOne_EvenShared(k, c) == k \in flagged /\ k \notin Pinned
LastOne(k, c) == members[k] \ {c} = {} /\ k \in flagged /\ k \notin Pinned

Leave(a) ==
    LET k == Head(task[a].keys)
    IN  /\ task[a].at = "leave"
        /\ members' = [members EXCEPT ![k] = @ \ {a[1]}]
        /\ IF LastOne(k, a[1])
           THEN /\ flagged' = flagged \ {k}
                /\ task' = [task EXCEPT ![a] = Telling("unsubscribe", @.keys)]
           ELSE /\ task' = [task EXCEPT ![a] = Rest(@)]
                /\ UNCHANGED flagged
        /\ UNCHANGED <<clientVars, sourceVars, raced>>

\* broadcast_ctrl queues the message for one source after another.
Tell(a) ==
    \E s \in task[a].left :
        /\ \A t \in task[a].left : s <= t
        /\ ctrl' = [ctrl EXCEPT ![s] = Append(@, <<task[a].at, Head(task[a].keys)>>)]
        /\ task' = [task EXCEPT ![a].left = @ \ {s}]
        /\ UNCHANGED <<clientVars, entryVars, conn, upstream, raced>>

\* All are told.  After an unsubscribe the entry is removed, whoever is on
\* it by now.
Told(a) ==
    LET k == Head(task[a].keys)
    IN  /\ task[a].at \in Verb /\ task[a].left = {}
        /\ task' = [task EXCEPT ![a] = Rest(@)]
        /\ IF task[a].at = "unsubscribe"
           THEN /\ members' = [members EXCEPT ![k] = {}]
                /\ flagged' = flagged \ {k}
           ELSE UNCHANGED entryVars
        /\ UNCHANGED <<clientVars, sourceVars, raced>>

----------------------------------------------------------------------------
\* A source task connects, and drops what was queued while it was down.
Connect(s) ==
    /\ FreeWorker /\ conn[s] = "down"
    /\ conn' = [conn EXCEPT ![s] = "drained"]
    /\ ctrl' = [ctrl EXCEPT ![s] = <<>>]
    /\ UNCHANGED <<clientVars, entryVars, task, upstream, raced>>

\* It then subscribes to every entry that has the flag.  Two keys share no
\* state here, so reading the map in one step loses no behaviour of a key.
SubscribedRequests_None == {}
SubscribedRequests == flagged

Resubscribe(s) ==
    /\ conn[s] = "drained"
    /\ conn' = [conn EXCEPT ![s] = "up"]
    /\ upstream' = [upstream EXCEPT ![s] = SubscribedRequests]
    /\ UNCHANGED <<clientVars, entryVars, task, ctrl, raced>>

\* What the upstream server makes of a message; a repeat changes nothing.
Heed(keys, m) == IF m[1] = "subscribe" THEN keys \cup {m[2]} ELSE keys \ {m[2]}

Forward(s) ==
    /\ FreeWorker /\ conn[s] = "up" /\ ctrl[s] # <<>>
    /\ upstream' = [upstream EXCEPT ![s] = Heed(@, Head(ctrl[s]))]
    /\ ctrl' = [ctrl EXCEPT ![s] = Tail(@)]
    /\ UNCHANGED <<clientVars, entryVars, task, conn, raced>>

Drop(s) ==
    /\ conn[s] = "up"
    /\ conn' = [conn EXCEPT ![s] = "down"]
    /\ upstream' = [upstream EXCEPT ![s] = {}]
    /\ UNCHANGED <<clientVars, entryVars, task, ctrl, raced>>

Next ==
    \/ \E c \in Client :
          Enter(c) \/ Close(c) \/ \E k \in Key : Subscribe(c, k) \/ Unsubscribe(c, k)
    \/ \E a \in Actor : Leave(a) \/ Tell(a) \/ Told(a)
    \/ \E s \in Source : Connect(s) \/ Resubscribe(s) \/ Forward(s) \/ Drop(s)

Spec == Init /\ [][Next]_vars

\* A handler goes on with what it has started.  A source task gets its turn
\* again and again, so it connects in the end and works its queue off.
Steps(a) == Leave(a) \/ Tell(a) \/ Told(a)
Turn(s) == Connect(s) \/ Resubscribe(s) \/ Forward(s)

Fairness ==
    /\ \A c \in Client : WF_vars(Enter(c) \/ Steps(Reader(c))) /\ WF_vars(Steps(Socket(c)))
    /\ \A s \in Source : SF_vars(Turn(s))

FairSpec == Spec /\ Fairness

----------------------------------------------------------------------------
Quiet == Running = {} /\ Resuming = {}

(* "Unsubscribe a client from `key` at its own request" (state.rs:510), and *)
(* at nobody else's: with no handler under way a client is on the entry of *)
(* every key it holds.                                                     *)
NobodyForgotten == Quiet => \A c \in Client : \A k \in holds[c] : c \in members[k]

(* There is one way to be forgotten, to subscribe to a key that somebody   *)
(* else's last unsubscribe is still giving up: on every other key a client *)
(* is on the entry of what it holds as soon as its own subscribe has put   *)
(* it there, whatever other handlers do at the same time.                  *)
OnlyRacesForget ==
    \A c \in Client : task[Reader(c)].at # "enter" =>
        \A k \in holds[c] \ raced : c \in members[k]

(* A connected client whose last request has been dealt with is on no      *)
(* entry but of what it holds, and one that is gone is on none, once it is *)
(* cleaned up after, unless its reader was subscribing to that key when    *)
(* the socket closed.                                                      *)
NobodyLingers ==
    \A c \in Client : task[Reader(c)] = Idle =>
        /\ c \notin closing => \A k \in Key : c \in members[k] => k \in holds[c]
        /\ c \in closing /\ task[Socket(c)] = Idle =>
              \A k \in Key \ raced : c \notin members[k]

(* "The first subscription to a key triggers a subscribe on all sources;   *)
(* the last client to leave it unsubscribes them again" (README.md:17-18): *)
(* with what is queued for it, a connected source streams a key if         *)
(* somebody holds it or it is pinned, and not otherwise.  And on any key,  *)
(* raced or not, no entry that has clients is left that nothing feeds.     *)
Wanted == Pinned \cup UNION {holds[c] : c \in Client}
Settled(s) == FoldLeft(Heed, upstream[s], ctrl[s])
Untouched(k) == \A a \in Actor : k \notin Range(task[a].keys)

UpstreamAgrees ==
    \A s \in Source, k \in Key : conn[s] = "up" /\ Untouched(k) =>
        /\ k \notin raced => (k \in Settled(s) <=> k \in Wanted)
        /\ members[k] # {} => k \in Settled(s)

(* The probe is never given up, even half way through a handler            *)
(* (AppState::pin).                                                        *)
PinnedStays == Pinned \subseteq flagged

(* "on reconnect it re-subscribes to everything live" (README.md:22), and  *)
(* to what is asked for meanwhile: every source comes to stream a key that *)
(* a client goes on holding.                                               *)
EverySourceStreams ==
    \A c \in Client, k \in Key, s \in Source :
        []<>(k \in holds[c] => k \in upstream[s] \/ k \in raced)
=============================================================================
