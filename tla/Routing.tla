------------------------------ MODULE Routing ------------------------------
(***************************************************************************)
(* How a subscription is spelled, on its way from a client to an upstream  *)
(* and on the way of the frames back.  A client types a request in any of  *)
(* several spellings; the proxy folds them into one key, keeps its entry   *)
(* and asks the upstream under it; the upstream describes the stream in    *)
(* every frame in its own words; and the proxy derives the key of a frame  *)
(* from that description alone.  If the two disagree the client is         *)
(* acknowledged and hears nothing.                                         *)
(*                                                                         *)
(* The registry's own interleavings are the Registry module's, what        *)
(* becomes of a frame of a key the feeds': here a step is a whole request, *)
(* or a frame read to its key and rule.                                    *)
(***************************************************************************)
EXTENDS Naturals, Sequences, FiniteSets

CONSTANTS
    Client,
    Coin, User,  \* coins, and user addresses as they may be typed
    Lower,       \* to_ascii_lowercase, on User
    Agg,         \* nSigFigs and mantissa, which are never rewritten
    Levels,      \* the values of nLevels
    Default,     \* DEFAULT_L2_LEVELS
    None,
    MaxKeys      \* bound: subscriptions of one client

ASSUME RoutingAssumption ==
    /\ Lower \in [User -> User]
    /\ \A u \in User : Lower[Lower[u]] = Lower[u]
    /\ Default \in Levels /\ None \notin Levels
    /\ MaxKeys \in Nat

Plain == {"trades", "l4Book", "bbo", "bookDiffs"}
Levelled == {"l2Book", "l2Diff"}

\* SubKey, in any spelling.
SubKey ==
    [ch : Plain, name : Coin, agg : {None}, levels : {None}]
      \cup [ch : Levelled, name : Coin, agg : Agg \cup {None}, levels : Levels \cup {None}]
      \cup [ch : {"orderUpdates"}, name : User, agg : {None}, levels : {None}]

normalized_LevelsKept(k) ==
    IF k.ch = "orderUpdates" THEN [k EXCEPT !.name = Lower[@]] ELSE k

\* SubKey::normalized: the one spelling.
normalized(k) ==
    CASE k.ch = "orderUpdates" -> [k EXCEPT !.name = Lower[@]]
      [] k.ch \in Levelled /\ k.levels = Default -> [k EXCEPT !.levels = None]
      [] OTHER -> k

unsupported(k) == k.ch = "bookDiffs"
is_incremental(k) == k.ch \in {"l4Book", "l2Diff"}
single_sourced(k) == k.ch \in Levelled

----------------------------------------------------------------------------
(* The upstream.                                                           *)

\* What a request means to it, whatever its spelling.
Meaning(k) ==
    CASE k.ch = "orderUpdates" -> [k EXCEPT !.name = Lower[@]]
      [] k.ch \in Levelled /\ k.levels = None -> [k EXCEPT !.levels = Default]
      [] OTHER -> k

\* It refuses its default said aloud.
Accepts(k) == k.levels # Default

\* How it describes the stream of a subscription in a frame's head.
Described(k) == [coin |-> k.name, agg |-> k.agg, levels |-> Meaning(k).levels]

\* The frames it sends on a subscription.  A batch may be empty, and an l4Book
\* update names its coin in one of two arrays or, if both are empty, nowhere.
Frames(k) ==
    CASE k.ch = "bbo" -> {[type |-> "Bbo", coin |-> k.name]}
      [] k.ch = "l2Book" -> {[type |-> "L2Book", head |-> Described(k)]}
      [] k.ch = "trades" ->
            {[type |-> "Trades", items |-> v] : v \in {<<>>, <<k.name>>}}
      [] k.ch = "orderUpdates" ->
            {[type |-> "OrderUpdates", items |-> v] : v \in {<<>>, <<Lower[k.name]>>}}
      [] k.ch = "l4Book" ->
            {[type |-> "L4Snapshot", coin |-> k.name]}
              \cup {[type |-> "L4Updates", statuses |-> a, diffs |-> b] :
                       a \in {<<>>, <<k.name>>}, b \in {<<>>, <<k.name>>}}
      [] k.ch = "l2Diff" ->
            {[type |-> t, head |-> Described(k)] : t \in {"L2DiffSnapshot", "L2DiffUpdates"}}
      [] OTHER -> {}

----------------------------------------------------------------------------
(* The way back: the key and the rule a frame is read to (route).          *)

plain(ch, n) == [ch |-> ch, name |-> n, agg |-> None, levels |-> None]
levelled_AggLost(ch, h) == [ch |-> ch, name |-> h.coin, levels |-> h.levels]
levelled(ch, h) == [ch |-> ch, name |-> h.coin, agg |-> h.agg, levels |-> h.levels]

\* The frames that are read to nothing.
Nameless(f) ==
    \/ f.type \in {"Trades", "OrderUpdates"} /\ f.items = <<>>
    \/ f.type = "L4Updates" /\ f.statuses = <<>> /\ f.diffs = <<>>

RawKey(f) ==
    CASE f.type = "Bbo" -> plain("bbo", f.coin)
      [] f.type = "L2Book" -> levelled("l2Book", f.head)
      [] f.type = "Trades" -> plain("trades", Head(f.items))
      [] f.type = "OrderUpdates" -> plain("orderUpdates", Lower[Head(f.items)])
      [] f.type = "L4Snapshot" -> plain("l4Book", f.coin)
      [] f.type = "L4Updates" ->
            plain("l4Book", IF f.statuses # <<>> THEN Head(f.statuses) ELSE Head(f.diffs))
      [] f.type \in {"L2DiffSnapshot", "L2DiffUpdates"} -> levelled("l2Diff", f.head)

Rule_L2BookLed(f) ==
    CASE f.type \in {"Bbo", "L2Book"} -> "Lead"
      [] f.type = "L2DiffUpdates" -> "Sticky"
      [] f.type = "Trades" -> "Point"
      [] f.type \in {"OrderUpdates", "L4Updates"} -> "Block"
      [] f.type \in {"L4Snapshot", "L2DiffSnapshot"} -> "Snapshot"

Rule(f) ==
    CASE f.type = "Bbo" -> "Lead"
      [] f.type \in {"L2Book", "L2DiffUpdates"} -> "Sticky"
      [] f.type = "Trades" -> "Point"
      [] f.type \in {"OrderUpdates", "L4Updates"} -> "Block"
      [] f.type \in {"L4Snapshot", "L2DiffSnapshot"} -> "Snapshot"

Rules == {"Point", "Block", "Lead", "Sticky", "Snapshot"}

route_Raw(f) == [key |-> RawKey(f), rule |-> Rule(f)]
route(f) == [key |-> normalized(RawKey(f)), rule |-> Rule(f)]

----------------------------------------------------------------------------
VARIABLES
    subs,      \* the keys each client is subscribed to
    carried,   \* the subscriptions the upstream has accepted
    wanted,    \* history: what each client's requests amount to
    routed     \* the latest frame: its stream, its key and rule, its clients

vars == <<subs, carried, wanted, routed>>

Nothing == [stream |-> None, key |-> None, rule |-> None, to |-> {}]

TypeOK ==
    /\ subs \in [Client -> SUBSET SubKey]
    /\ carried \subseteq SubKey
    /\ wanted \in [Client -> SUBSET SubKey]
    /\ routed \in {Nothing} \cup [stream : SubKey, key : SubKey, rule : Rules,
                                  to : SUBSET Client]

Init ==
    /\ subs = [c \in Client |-> {}]
    /\ carried = {}
    /\ wanted = [c \in Client |-> {}]
    /\ routed = Nothing

Held(k) == \E c \in Client : k \in subs[c]

\* handle_request: a subscription, typed as r.
Subscribe(c, r) ==
    LET k == normalized(r) IN
    /\ ~ unsupported(k)
    /\ Cardinality(subs[c]) < MaxKeys
    /\ subs' = [subs EXCEPT ![c] = @ \cup {k}]
    /\ carried' = IF ~ Held(k) /\ Accepts(k) THEN carried \cup {k} ELSE carried
    /\ wanted' = [wanted EXCEPT ![c] = @ \cup {Meaning(r)}]
    /\ UNCHANGED routed

\* It is given up under another spelling, perhaps.
Unsubscribe(c, r) ==
    LET k == normalized(r) IN
    /\ k \in subs[c]
    /\ subs' = [subs EXCEPT ![c] = @ \ {k}]
    /\ carried' = IF \E d \in Client \ {c} : k \in subs[d] THEN carried ELSE carried \ {k}
    /\ wanted' = [wanted EXCEPT ![c] = @ \ {Meaning(r)}]
    /\ UNCHANGED routed

\* handle_text: a frame comes in and goes out to the clients of its key.
Frame(k, f) ==
    /\ k \in carried /\ f \in Frames(k)
    /\ ~ Nameless(f)
    /\ routed' = [stream |-> Meaning(k), key |-> route(f).key, rule |-> route(f).rule,
                  to |-> {c \in Client : route(f).key \in subs[c]}]
    /\ UNCHANGED <<subs, carried, wanted>>

Next ==
    \/ \E c \in Client, r \in SubKey : Subscribe(c, r) \/ Unsubscribe(c, r)
    \/ \E k \in carried : \E f \in Frames(k) : Frame(k, f)

Spec == Init /\ [][Next]_vars

----------------------------------------------------------------------------
(* A frame goes to the clients that asked for its stream, in whichever     *)
(* spelling, and to nobody else ("Both ends must spell the key the same    *)
(* way, or the frame ... vanishes without a trace", upstream.rs:433-435).  *)
RoutedHome ==
    [][routed' # routed =>
         routed'.to = {c \in Client : routed'.stream \in wanted[c]}]_vars

(* What a client asked for, the upstream carries, and under one            *)
(* subscription however many spellings were used ("it also rejects an      *)
(* explicit 20", state.rs:71-74).                                          *)
CarriedOnce ==
    \A m \in UNION {wanted[c] : c \in Client} :
        Cardinality({k \in carried : Meaning(k) = m}) = 1

(* The rule a frame is arbitrated by fits what the rest of the proxy takes *)
(* its channel for: the frames of an incremental key carry the height the  *)
(* backlog of a parked client is cut by (state.rs:705), only such a key is *)
(* ever reset, and a stream carried by one source is one whose leadership  *)
(* is freed when that source is lost (state.rs:842).                       *)
RuleFitsChannel ==
    routed # Nothing =>
        LET k == routed.key IN
        /\ is_incremental(k) => routed.rule \in {"Block", "Snapshot", "Sticky"}
        /\ routed.rule = "Snapshot" => is_incremental(k)
        /\ routed.rule = "Sticky" => single_sourced(k)
        /\ single_sourced(k) => routed.rule \in {"Sticky", "Snapshot"}
=============================================================================
