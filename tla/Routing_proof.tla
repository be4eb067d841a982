--------------------------- MODULE Routing_proof ---------------------------
(***************************************************************************)
(* Requests and frames are folded to the same key, for any coins, users,   *)
(* depths and aggregations, and any number of clients.                     *)
(***************************************************************************)
EXTENDS Routing, FiniteSetTheorems, TLAPS

(* The three shapes of a key. *)
LEMMA Shapes ==
    ASSUME NEW k \in SubKey
    PROVE  \/ /\ k.ch \in Plain /\ k.name \in Coin /\ k.agg = None /\ k.levels = None
              /\ k = [ch |-> k.ch, name |-> k.name, agg |-> None, levels |-> None]
           \/ /\ k.ch \in Levelled /\ k.name \in Coin /\ k.agg \in Agg \cup {None}
              /\ k.levels \in Levels \cup {None}
              /\ k = [ch |-> k.ch, name |-> k.name, agg |-> k.agg, levels |-> k.levels]
           \/ /\ k.ch = "orderUpdates" /\ k.name \in User /\ k.agg = None /\ k.levels = None
              /\ k = [ch |-> k.ch, name |-> k.name, agg |-> None, levels |-> None]
  BY DEF SubKey

(* The fold is a key again, folding it once more changes nothing, and it   *)
(* means to the upstream what the request meant.                           *)
LEMMA Folding ==
    ASSUME NEW k \in SubKey
    PROVE  /\ normalized(k) \in SubKey
           /\ normalized(normalized(k)) = normalized(k)
           /\ Accepts(normalized(k))
           /\ Meaning(k) \in SubKey
           /\ Meaning(normalized(k)) = Meaning(k)
<1> USE RoutingAssumption
<1>1. CASE k.ch \in Plain
  <2>1. k = [ch |-> k.ch, name |-> k.name, agg |-> None, levels |-> None] /\ k.levels = None
    BY <1>1, Shapes DEF Plain, Levelled
  <2>2. normalized(k) = k /\ Meaning(k) = k
    BY <1>1 DEF normalized, Meaning, Plain, Levelled
  <2> QED
    BY <2>1, <2>2 DEF Accepts
<1>2. CASE k.ch = "orderUpdates"
  <2>1. /\ k = [ch |-> "orderUpdates", name |-> k.name, agg |-> None, levels |-> None]
        /\ k.name \in User
    BY <1>2, Shapes DEF Plain, Levelled
  <2>2. /\ normalized(k) = [ch |-> "orderUpdates", name |-> Lower[k.name], agg |-> None,
                            levels |-> None]
        /\ Meaning(k) = normalized(k)
    BY <1>2, <2>1 DEF normalized, Meaning
  <2>3. normalized(k) \in SubKey
    BY <2>1, <2>2 DEF SubKey
  <2>4. normalized(normalized(k)) = normalized(k)
    BY <2>1, <2>2 DEF normalized
  <2>5. Meaning(normalized(k)) = normalized(k)
    BY <2>1, <2>2 DEF Meaning
  <2> QED
    BY <2>2, <2>3, <2>4, <2>5 DEF Accepts
<1>3. CASE k.ch \in Levelled
  <2>1. /\ k = [ch |-> k.ch, name |-> k.name, agg |-> k.agg, levels |-> k.levels]
        /\ k.name \in Coin /\ k.agg \in Agg \cup {None} /\ k.levels \in Levels \cup {None}
        /\ k.ch # "orderUpdates"
    BY <1>3, Shapes DEF Plain, Levelled
  <2>2. CASE k.levels \in {Default, None}
    <3>1. /\ normalized(k) = [ch |-> k.ch, name |-> k.name, agg |-> k.agg, levels |-> None]
          /\ Meaning(k) = [ch |-> k.ch, name |-> k.name, agg |-> k.agg, levels |-> Default]
      BY <1>3, <2>1, <2>2 DEF normalized, Meaning
    <3>2. normalized(k) \in SubKey /\ Meaning(k) \in SubKey
      BY <1>3, <2>1, <3>1 DEF SubKey
    <3>3. normalized(normalized(k)) = normalized(k)
      BY <1>3, <2>1, <3>1 DEF normalized
    <3>4. Meaning(normalized(k)) = Meaning(k)
      BY <1>3, <2>1, <3>1 DEF Meaning
    <3> QED
      BY <3>1, <3>2, <3>3, <3>4 DEF Accepts
  <2>3. CASE k.levels \notin {Default, None}
    <3>1. normalized(k) = k /\ Meaning(k) = k
      BY <1>3, <2>1, <2>3 DEF normalized, Meaning
    <3> QED
      BY <2>3, <3>1 DEF Accepts
  <2> QED
    BY <2>2, <2>3
<1> QED
  BY <1>1, <1>2, <1>3, Shapes

(* Two requests for one stream are one key: what a folded key means says   *)
(* which key it is.                                                        *)
LEMMA OneKeyPerStream ==
    ASSUME NEW j \in SubKey, NEW k \in SubKey,
           normalized(j) = j, normalized(k) = k, Meaning(j) = Meaning(k)
    PROVE  j = k
<1> USE RoutingAssumption
<1>1. j.ch = k.ch /\ j.agg = k.agg
  BY DEF Meaning, SubKey
<1>2. CASE k.ch \in Levelled
  <2>1. j.levels # Default /\ k.levels # Default
    BY <1>1, <1>2, Folding DEF Accepts
  <2>2. j.name = k.name /\ j.levels = k.levels
    BY <1>1, <1>2, <2>1, Shapes DEF Meaning, Plain, Levelled
  <2> QED
    BY <1>1, <1>2, <2>2, Shapes DEF Plain, Levelled
<1>3. CASE k.ch \notin Levelled
  <2>1. Meaning(j) = normalized(j) /\ Meaning(k) = normalized(k)
    BY <1>1, <1>3 DEF Meaning, normalized
  <2> QED
    BY <2>1
<1> QED
  BY <1>2, <1>3

(* A frame of a folded subscription is read back to that very key.         *)
LEMMA ReadBack ==
    ASSUME NEW k \in SubKey, normalized(k) = k, NEW f \in Frames(k), ~ Nameless(f)
    PROVE  route(f).key = k /\ route(f).rule \in Rules
<1> USE RoutingAssumption
<1>1. CASE k.ch \in Levelled
  <2>1. /\ k = [ch |-> k.ch, name |-> k.name, agg |-> k.agg, levels |-> k.levels]
        /\ k.levels # Default
    BY <1>1, Shapes, Folding DEF Accepts, Plain, Levelled
  <2>2. Meaning(k).levels = IF k.levels = None THEN Default ELSE k.levels
    BY <1>1, <2>1 DEF Meaning, Levelled
  <2>3. /\ f.type \in {"L2Book", "L2DiffSnapshot", "L2DiffUpdates"}
        /\ f.head = Described(k)
        /\ f.type = "L2Book" <=> k.ch = "l2Book"
    BY <1>1 DEF Frames, Levelled
  <2>4. RawKey(f) = [ch |-> k.ch, name |-> k.name, agg |-> k.agg,
                     levels |-> Meaning(k).levels]
    BY <1>1, <2>3 DEF RawKey, levelled, Described, Levelled
  <2>5. normalized(RawKey(f)) = k
    BY <1>1, <2>1, <2>2, <2>4 DEF normalized, Levelled
  <2>6. Rule(f) \in Rules
    BY <2>3 DEF Rule, Rules
  <2> QED
    BY <2>5, <2>6 DEF route
<1>2. CASE k.ch = "orderUpdates"
  <2>1. k = [ch |-> "orderUpdates", name |-> k.name, agg |-> None, levels |-> None]
    BY <1>2, Shapes DEF Plain, Levelled
  <2>2. Lower[k.name] = k.name
    BY <1>2, <2>1 DEF normalized
  <2>3. f.type = "OrderUpdates" /\ f.items = <<k.name>>
    BY <1>2, <2>2 DEF Frames, Nameless
  <2>4. RawKey(f) = k
    BY <2>1, <2>2, <2>3 DEF RawKey, plain
  <2> QED
    BY <2>3, <2>4 DEF route, Rule, Rules
<1>3. CASE k.ch \in Plain
  <2>1. k = [ch |-> k.ch, name |-> k.name, agg |-> None, levels |-> None]
    BY <1>3, Shapes DEF Plain, Levelled
  <2>2. RawKey(f) = k
    BY <1>3, <2>1 DEF Frames, Nameless, RawKey, plain, Plain
  <2>3. Rule(f) \in Rules
    BY <1>3 DEF Frames, Rule, Rules, Plain
  <2> QED
    BY <2>2, <2>3 DEF route
<1> QED
  BY <1>1, <1>2, <1>3, Shapes

(***************************************************************************)
(* The inductive invariant: the keys are folded ones, the upstream carries *)
(* exactly those somebody is subscribed to, and they mean what was asked.  *)
(***************************************************************************)
Agreement ==
    /\ \A c \in Client : \A k \in subs[c] : normalized(k) = k
    /\ carried = {k \in SubKey : Held(k)}
    /\ \A c \in Client : wanted[c] = {Meaning(k) : k \in subs[c]}

(* Every variable keeps its type. *)
THEOREM Typing == Spec => [](TypeOK /\ Agreement)
<1>1. Init => TypeOK /\ Agreement
  BY DEF Init, TypeOK, Agreement, Held
<1>2. TypeOK /\ Agreement /\ [Next]_vars => (TypeOK /\ Agreement)'
  <2> SUFFICES ASSUME TypeOK, Agreement, [Next]_vars PROVE (TypeOK /\ Agreement)'
    OBVIOUS
  <2> USE DEF TypeOK, Agreement, Held
  <2>1. ASSUME NEW c \in Client, NEW r \in SubKey, Subscribe(c, r)
        PROVE  (TypeOK /\ Agreement)'
    <3> DEFINE k == normalized(r)
    <3>1. /\ k \in SubKey /\ normalized(k) = k /\ Accepts(k)
          /\ Meaning(r) \in SubKey /\ Meaning(k) = Meaning(r)
      BY Folding
    <3>2. /\ subs' = [subs EXCEPT ![c] = @ \cup {k}]
          /\ carried' = IF ~ Held(k) /\ Accepts(k) THEN carried \cup {k} ELSE carried
          /\ wanted' = [wanted EXCEPT ![c] = @ \cup {Meaning(r)}]
          /\ routed' = routed
      BY <2>1 DEF Subscribe
    <3> HIDE DEF k
    <3>3. TypeOK'
      BY <3>1, <3>2
    <3>4. carried' = carried \cup {k}
      BY <3>1, <3>2
    <3>5. \A j \in SubKey : Held(j)' <=> Held(j) \/ j = k
      BY <3>1, <3>2
    <3>6. carried' = {j \in SubKey : Held(j)'}
      BY <3>1, <3>4, <3>5
    <3>7. \A d \in Client : \A j \in subs'[d] : normalized(j) = j
      BY <3>1, <3>2
    <3>8. \A d \in Client : wanted'[d] = {Meaning(j) : j \in subs'[d]}
      <4> TAKE d \in Client
      <4>1. CASE d = c
        BY <3>1, <3>2, <4>1
      <4>2. CASE d # c
        BY <3>2, <4>2
      <4> QED
        BY <4>1, <4>2
    <3> QED
      BY <3>3, <3>6, <3>7, <3>8
  <2>2. ASSUME NEW c \in Client, NEW r \in SubKey, Unsubscribe(c, r)
        PROVE  (TypeOK /\ Agreement)'
    <3> DEFINE k == normalized(r)
    <3>1. k \in SubKey /\ normalized(k) = k /\ Meaning(k) = Meaning(r)
      BY Folding
    <3>2. /\ subs' = [subs EXCEPT ![c] = @ \ {k}] /\ k \in subs[c]
          /\ carried' = IF \E d \in Client \ {c} : k \in subs[d] THEN carried
                                                             ELSE carried \ {k}
          /\ wanted' = [wanted EXCEPT ![c] = @ \ {Meaning(r)}]
          /\ routed' = routed
      BY <2>2 DEF Unsubscribe
    <3> HIDE DEF k
    <3>3. TypeOK'
      BY <3>1, <3>2
    <3>4. \A j \in SubKey : Held(j)' <=>
             /\ Held(j)
             /\ j = k => \E d \in Client \ {c} : k \in subs[d]
      BY <3>1, <3>2
    <3>5. carried' = {j \in SubKey : Held(j)'}
      BY <3>1, <3>2, <3>4
    <3>6. \A d \in Client : \A j \in subs'[d] : normalized(j) = j
      BY <3>1, <3>2
    <3>7. \A j \in subs[c] : Meaning(j) = Meaning(k) => j = k
      BY <3>1, OneKeyPerStream
    <3>8. \A d \in Client : wanted'[d] = {Meaning(j) : j \in subs'[d]}
      <4> TAKE d \in Client
      <4>1. CASE d = c
        BY <3>1, <3>2, <3>7, <4>1
      <4>2. CASE d # c
        BY <3>2, <4>2
      <4> QED
        BY <4>1, <4>2
    <3> QED
      BY <3>3, <3>5, <3>6, <3>8
  <2>3. ASSUME NEW k \in carried, NEW f \in Frames(k), Frame(k, f)
        PROVE  (TypeOK /\ Agreement)'
    <3>1. k \in SubKey /\ normalized(k) = k
      OBVIOUS
    <3>2. route(f).key = k /\ route(f).rule \in Rules
      BY <2>3, <3>1, ReadBack DEF Frame
    <3>3. Meaning(k) \in SubKey
      BY <3>1, Folding
    <3>4. routed' = [stream |-> Meaning(k), key |-> route(f).key, rule |-> route(f).rule,
                     to |-> {c \in Client : route(f).key \in subs[c]}]
      BY <2>3 DEF Frame
    <3>5. UNCHANGED <<subs, carried, wanted>>
      BY <2>3 DEF Frame
    <3> QED
      BY <3>1, <3>2, <3>3, <3>4, <3>5
  <2>4. CASE UNCHANGED vars
    BY <2>4 DEF vars
  <2> QED
    BY <2>1, <2>2, <2>3, <2>4 DEF Next
<1> QED
  BY <1>1, <1>2, PTL DEF Spec

(* Every frame goes to the clients that asked for its stream, in whatever  *)
(* spelling, and to nobody else.                                           *)
THEOREM Home == Spec => RoutedHome
<1>1. TypeOK /\ Agreement /\ [Next]_vars =>
        [routed' # routed =>
           routed'.to = {c \in Client : routed'.stream \in wanted[c]}]_vars
  <2> SUFFICES ASSUME TypeOK, Agreement, Next, routed' # routed
               PROVE  routed'.to = {c \in Client : routed'.stream \in wanted[c]}
    BY DEF vars
  <2>1. PICK k \in carried : \E f \in Frames(k) : Frame(k, f)
    BY DEF Next, Subscribe, Unsubscribe
  <2>2. PICK f \in Frames(k) : Frame(k, f)
    BY <2>1
  <2>3. k \in SubKey /\ normalized(k) = k
    BY DEF Agreement, Held
  <2>4. routed'.stream = Meaning(k) /\ routed'.to = {c \in Client : k \in subs[c]}
    BY <2>2, <2>3, ReadBack DEF Frame
  <2>5. \A c \in Client : \A j \in subs[c] : Meaning(j) = Meaning(k) => j = k
    BY <2>3, OneKeyPerStream DEF TypeOK, Agreement
  <2>6. \A c \in Client : k \in subs[c] <=> Meaning(k) \in wanted[c]
    BY <2>5 DEF Agreement
  <2> QED
    BY <2>4, <2>6
<1> QED
  BY <1>1, Typing, PTL DEF Spec, RoutedHome

(* Whatever the spellings used, the upstream carries each wanted stream    *)
(* under exactly one subscription.                                         *)
THEOREM Once == Spec => []CarriedOnce
<1>1. TypeOK /\ Agreement => CarriedOnce
  <2> SUFFICES ASSUME TypeOK, Agreement, NEW c \in Client, NEW m \in wanted[c]
               PROVE  Cardinality({k \in carried : Meaning(k) = m}) = 1
    BY DEF CarriedOnce
  <2>1. PICK k \in subs[c] : Meaning(k) = m
    BY DEF Agreement
  <2>2. k \in carried
    BY DEF TypeOK, Agreement, Held
  <2>3. \A j \in carried : Meaning(j) = m => j = k
    BY <2>1, <2>2, OneKeyPerStream DEF Agreement, Held
  <2>4. {j \in carried : Meaning(j) = m} = {k}
    BY <2>1, <2>2, <2>3
  <2> QED
    BY <2>4, FS_Singleton
<1> QED
  BY <1>1, Typing, PTL

(* The rule of every frame fits its channel.                               *)
THEOREM RuleFits == Spec => []RuleFitsChannel
<1>1. Init => RuleFitsChannel
  BY DEF Init, RuleFitsChannel
<1>2. TypeOK /\ Agreement /\ RuleFitsChannel /\ [Next]_vars => RuleFitsChannel'
  <2> SUFFICES ASSUME TypeOK, Agreement, RuleFitsChannel, [Next]_vars
               PROVE  RuleFitsChannel'
    OBVIOUS
  <2>1. CASE UNCHANGED routed
    BY <2>1 DEF RuleFitsChannel
  <2>2. ASSUME NEW k \in carried, NEW f \in Frames(k), Frame(k, f)
        PROVE  RuleFitsChannel'
    <3>1. k \in SubKey /\ normalized(k) = k
      BY DEF Agreement, Held
    <3>2. routed'.key = k /\ routed'.rule = Rule(f) /\ f \in Frames(k)
      BY <2>2, <3>1, ReadBack DEF Frame, route
    <3>3. /\ is_incremental(k) => Rule(f) \in {"Block", "Snapshot", "Sticky"}
          /\ Rule(f) = "Snapshot" => is_incremental(k)
          /\ Rule(f) = "Sticky" => single_sourced(k)
          /\ single_sourced(k) => Rule(f) \in {"Sticky", "Snapshot"}
      BY <3>1, Shapes
         DEF Frames, Rule, is_incremental, single_sourced, Plain, Levelled
    <3> QED
      BY <3>2, <3>3 DEF RuleFitsChannel
  <2> QED
    BY <2>1, <2>2 DEF Next, Subscribe, Unsubscribe, vars
<1> QED
  BY <1>1, <1>2, Typing, PTL DEF Spec
=============================================================================
