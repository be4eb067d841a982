--------------------------- MODULE Registry_proof ---------------------------
(***************************************************************************)
(* What the registry guarantees for any number of clients, keys, sources   *)
(* and worker threads.  The client's set, the entries and the upstream     *)
(* subscriptions agree on every key on which no two handlers have run into *)
(* each other; on the others nobody is on an entry it did not ask for, and *)
(* no entry with a client on it goes unfed.  With one worker no key is     *)
(* ever raced.                                                             *)
(***************************************************************************)
EXTENDS Registry, FiniteSetTheorems, SequenceTheorems, WellFoundedInduction, TLAPS

(* A handler's keys are a sequence of them, in whatever order they came out. *)
LEMMA Orders ==
    ASSUME NEW S, IsFiniteSet(S), NEW q \in SetToSeqs(S)
    PROVE  q \in Seq(S)
<1>1. Cardinality(S) \in Nat
  BY FS_CardinalityType
<1>2. q \in [1 .. Cardinality(S) -> S]
  BY DEF SetToSeqs
<1> QED
  BY <1>1, <1>2

TaskType == [at : Step, keys : Seq(Key), left : SUBSET Source]
Sound(t) ==
    /\ t \in TaskType
    /\ t.at = "idle" <=> t.keys = <<>>
    /\ t.left # {} => t.at \in Verb

LEMMA Sounds ==
    /\ Sound(Idle)
    /\ \A k \in Key : Sound(At("enter", <<k>>)) /\ Sound(At("leave", <<k>>))
                      /\ Sound(Telling("subscribe", <<k>>))
    /\ \A t : Sound(t) /\ t.at # "idle" =>
          Sound(Rest(t)) /\ Sound(Telling("unsubscribe", t.keys))
<1>1. Sound(Idle)
  BY DEF Sound, TaskType, Idle, At, Step, Verb
<1>2. \A k \in Key : Sound(At("enter", <<k>>)) /\ Sound(At("leave", <<k>>))
                      /\ Sound(Telling("subscribe", <<k>>))
  BY DEF Sound, TaskType, At, Telling, Step, Verb
<1>3. ASSUME NEW t, Sound(t), t.at # "idle"
      PROVE  Sound(Rest(t)) /\ Sound(Telling("unsubscribe", t.keys))
  <2>1. t.keys \in Seq(Key) /\ t.keys # <<>>
    BY <1>3 DEF Sound, TaskType
  <2>2. Sound(Telling("unsubscribe", t.keys))
    BY <2>1 DEF Sound, TaskType, Telling, Step, Verb
  <2>3. CASE Len(t.keys) = 1
    BY <1>1, <2>2, <2>3 DEF Rest
  <2>4. CASE Len(t.keys) # 1
    <3>1. Tail(t.keys) \in Seq(Key) /\ Len(Tail(t.keys)) = Len(t.keys) - 1
          /\ Len(t.keys) \in Nat /\ Len(t.keys) # 0
      BY <2>1
    <3>2. Sound(At("leave", Tail(t.keys)))
      <4>1. Tail(t.keys) # <<>>
        <5> SUFFICES ASSUME Tail(t.keys) = <<>> PROVE FALSE
          OBVIOUS
        <5>1. \A q : q = <<>> => Len(q) = 0
          OBVIOUS
        <5>2. Len(Tail(t.keys)) = 0
          BY <5>1, Zenon
        <5> QED
          BY <3>1, <2>4, <5>2
      <4> QED
        BY <3>1, <4>1 DEF Sound, TaskType, At, Step, Verb
    <3> QED
      BY <3>2, <2>2, <2>4 DEF Rest
  <2> QED
    BY <2>2, <2>3, <2>4
<1> QED
  BY <1>1, <1>2, <1>3

(* A handler is always at one of its steps, with keys left to do. *)
THEOREM Typing == Spec => []TypeOK
<1>1. Init => TypeOK
  <2> SUFFICES ASSUME Init PROVE TypeOK
    OBVIOUS
  <2>1. IsFiniteSet({"subscribe"} \X Pinned)
    <3>1. IsFiniteSet(Pinned)
      BY RegistryAssumption, FS_Subset
    <3> QED
      BY <3>1, FS_Singleton, FS_Product
  <2>2. PICK q \in SetToSeqs({"subscribe"} \X Pinned) : ctrl = [s \in Source |-> q]
    BY DEF Init
  <2>3. q \in Seq({"subscribe"} \X Pinned)
    BY <2>1, Orders
  <2>4. q \in Seq(Message)
    BY <2>3, RegistryAssumption DEF Message, Verb
  <2>5. \A a \in Actor : task[a] = Idle
    BY DEF Init
  <2> QED
    BY <2>2, <2>4, <2>5, Sounds, RegistryAssumption
       DEF Init, TypeOK, Sound, TaskType
<1>2. TypeOK /\ [Next]_vars => TypeOK'
  <2> SUFFICES ASSUME TypeOK, [Next]_vars PROVE TypeOK'
    OBVIOUS
  <2>0. /\ \A a \in Actor : Sound(task[a])
        /\ task \in [Actor -> TaskType]
        /\ \A c \in Client : Reader(c) \in Actor /\ Socket(c) \in Actor
    BY DEF TypeOK, Sound, TaskType, Actor, Reader, Socket
  <2> DEFINE Moves(a, t) == task' = [task EXCEPT ![a] = t]
  <2>t. ASSUME NEW a \in Actor, NEW t, Sound(t), Moves(a, t)
        PROVE  /\ task' \in [Actor -> TaskType]
               /\ \A b \in Actor : Sound(task'[b])
    BY <2>0, <2>t DEF Sound
  <2>1. ASSUME NEW c \in Client, NEW k \in Key, Subscribe(c, k) PROVE TypeOK'
    BY <2>0, <2>1, <2>t, Sounds
       DEF Subscribe, TypeOK, Sound, TaskType, entryVars, sourceVars
  <2>2. ASSUME NEW c \in Client, NEW k \in Key, Unsubscribe(c, k) PROVE TypeOK'
    BY <2>0, <2>2, <2>t, Sounds
       DEF Unsubscribe, TypeOK, Sound, TaskType, entryVars, sourceVars
  <2>3. ASSUME NEW c \in Client, Enter(c) PROVE TypeOK'
    <3> DEFINE k == Head(task[Reader(c)].keys)
    <3>1. k \in Key
      BY <2>0, <2>3 DEF Enter, Sound, TaskType
    <3>2. Sound(IF k \in flagged THEN Idle ELSE Telling("subscribe", <<k>>))
      BY <3>1, Sounds
    <3> QED
      BY <2>0, <2>3, <2>t, <3>1, <3>2
         DEF Enter, TypeOK, Sound, TaskType, clientVars, sourceVars
  <2>4. ASSUME NEW c \in Client, Close(c) PROVE TypeOK'
    <3>1. PICK keys \in SetToSeqs(holds[c]) :
             task' = [task EXCEPT ![Socket(c)] =
                         IF keys = <<>> THEN Idle ELSE At("leave", keys)]
      BY <2>4 DEF Close
    <3>2. holds[c] \subseteq Key /\ IsFiniteSet(holds[c])
      BY RegistryAssumption, FS_Subset DEF TypeOK
    <3>3. keys \in Seq(Key)
      BY <3>2, Orders
    <3>4. Sound(IF keys = <<>> THEN Idle ELSE At("leave", keys))
      BY <3>3, Sounds DEF Sound, TaskType, At, Step, Verb
    <3>5. Subscribing(c) \subseteq Key
      BY <2>0 DEF Subscribing, Sound, TaskType
    <3> QED
      BY <2>0, <2>4, <2>t, <3>1, <3>4, <3>5
         DEF Close, TypeOK, Sound, TaskType, entryVars, sourceVars
  <2>5. ASSUME NEW a \in Actor, Leave(a) PROVE TypeOK'
    <3>1. Sound(Rest(task[a])) /\ Sound(Telling("unsubscribe", task[a].keys))
      BY <2>0, <2>5, Sounds DEF Leave
    <3> QED
      BY <2>0, <2>5, <2>t, <3>1
         DEF Leave, TypeOK, Sound, TaskType, clientVars, sourceVars
  <2>6. ASSUME NEW a \in Actor, Tell(a) PROVE TypeOK'
    <3>1. PICK s \in task[a].left :
             /\ ctrl' = [ctrl EXCEPT ![s] = Append(@, <<task[a].at, Head(task[a].keys)>>)]
             /\ task' = [task EXCEPT ![a].left = @ \ {s}]
             /\ UNCHANGED <<clientVars, entryVars, conn, upstream, raced>>
      BY <2>6 DEF Tell
    <3>2. /\ task[a].at \in Verb /\ task[a].keys \in Seq(Key)
          /\ task[a].keys # <<>> /\ task[a].left \subseteq Source
      BY <2>0 DEF Sound, TaskType, Verb
    <3>3. <<task[a].at, Head(task[a].keys)>> \in Message
      BY <3>2 DEF Message
    <3>4. ctrl' \in [Source -> Seq(Message)]
      BY <3>1, <3>3 DEF TypeOK
    <3>5. task' \in [Actor -> TaskType] /\ \A b \in Actor : Sound(task'[b])
      BY <2>0, <3>1, <3>2 DEF Sound, TaskType
    <3> QED
      BY <3>1, <3>4, <3>5 DEF TypeOK, Sound, TaskType, clientVars, entryVars
  <2>7. ASSUME NEW a \in Actor, Told(a) PROVE TypeOK'
    <3>1. Sound(Rest(task[a]))
      BY <2>0, <2>7, Sounds DEF Told, Verb
    <3> QED
      BY <2>0, <2>7, <2>t, <3>1
         DEF Told, TypeOK, Sound, TaskType, clientVars, entryVars, sourceVars
  <2>8. ASSUME NEW s \in Source, Connect(s) \/ Resubscribe(s) \/ Forward(s) \/ Drop(s)
        PROVE  TypeOK'
    <3>1. CASE Connect(s)
      BY <3>1 DEF Connect, TypeOK, clientVars, entryVars
    <3>2. CASE Resubscribe(s)
      BY <3>2 DEF Resubscribe, SubscribedRequests, TypeOK, clientVars, entryVars
    <3>3. CASE Forward(s)
      <4>1. Head(ctrl[s]) \in Message /\ Tail(ctrl[s]) \in Seq(Message)
        BY <3>3 DEF Forward, TypeOK
      <4>2. Heed(upstream[s], Head(ctrl[s])) \subseteq Key
        BY <4>1 DEF Heed, Message, TypeOK
      <4> QED
        BY <3>3, <4>1, <4>2 DEF Forward, TypeOK, clientVars, entryVars
    <3>4. CASE Drop(s)
      BY <3>4 DEF Drop, TypeOK, clientVars, entryVars
    <3> QED
      BY <2>8, <3>1, <3>2, <3>3, <3>4
  <2>9. CASE UNCHANGED vars
    BY <2>9 DEF vars, TypeOK
  <2> QED
    BY <2>1, <2>2, <2>3, <2>4, <2>5, <2>6, <2>7, <2>8, <2>9 DEF Next
<1> QED
  BY <1>1, <1>2, PTL DEF Spec

----------------------------------------------------------------------------
(***************************************************************************)
(* A handler that gives a key up decided to while it held the entry, and   *)
(* an entry that is pinned is pinned for good.                             *)
(***************************************************************************)
HeldInv ==
    /\ PinnedStays
    /\ \A a \in Actor :
          task[a].at = "unsubscribe" => Head(task[a].keys) \notin Pinned

(* The probe is never given up, whatever clients and workers do at once. *)
THEOREM ProbeHeld == Spec => []PinnedStays
<1>1. Init => HeldInv
  BY DEF Init, HeldInv, PinnedStays, Idle, At
<1>2. TypeOK /\ HeldInv /\ [Next]_vars => HeldInv'
  <2> SUFFICES ASSUME TypeOK, HeldInv, [Next]_vars PROVE HeldInv'
    OBVIOUS
  <2>0. /\ task \in [Actor -> TaskType]
        /\ \A c \in Client : Reader(c) \in Actor /\ Socket(c) \in Actor
    BY DEF TypeOK, TaskType, Actor, Reader, Socket
  <2>t. ASSUME NEW a \in Actor, NEW t, task' = [task EXCEPT ![a] = t],
               t.at = "unsubscribe" => Head(t.keys) \notin Pinned
        PROVE  \A b \in Actor :
                  task'[b].at = "unsubscribe" => Head(task'[b].keys) \notin Pinned
    BY <2>0, <2>t DEF HeldInv
  <2>r. \A t : Rest(t).at # "unsubscribe"
    BY DEF Rest, Idle, At
  <2>1. ASSUME NEW c \in Client, NEW k \in Key, Subscribe(c, k) \/ Unsubscribe(c, k)
        PROVE  HeldInv'
    <3>1. /\ At("enter", <<k>>).at # "unsubscribe"
          /\ At("leave", <<k>>).at # "unsubscribe"
      BY DEF At
    <3> QED
      BY <2>0, <2>1, <2>t, <3>1
         DEF Subscribe, Unsubscribe, HeldInv, PinnedStays, entryVars
  <2>2. ASSUME NEW c \in Client, Enter(c) PROVE HeldInv'
    <3> DEFINE k == Head(task[Reader(c)].keys)
               t == IF k \in flagged THEN Idle ELSE Telling("subscribe", <<k>>)
    <3>1. t.at # "unsubscribe"
      BY DEF Idle, At, Telling
    <3> QED
      BY <2>0, <2>2, <2>t, <3>1 DEF Enter, HeldInv, PinnedStays
  <2>3. ASSUME NEW c \in Client, Close(c) PROVE HeldInv'
    <3>1. PICK keys \in SetToSeqs(holds[c]) :
             task' = [task EXCEPT ![Socket(c)] =
                         IF keys = <<>> THEN Idle ELSE At("leave", keys)]
      BY <2>3 DEF Close
    <3>2. (IF keys = <<>> THEN Idle ELSE At("leave", keys)).at # "unsubscribe"
      BY DEF Idle, At
    <3> QED
      BY <2>0, <2>3, <2>t, <3>1, <3>2 DEF Close, HeldInv, PinnedStays, entryVars
  <2>4. ASSUME NEW a \in Actor, Leave(a) PROVE HeldInv'
    <3> DEFINE k == Head(task[a].keys)
    <3>1. CASE LastOne(k, a[1])
      <4>1. k \notin Pinned /\ flagged' = flagged \ {k}
            /\ task' = [task EXCEPT ![a] = Telling("unsubscribe", task[a].keys)]
        BY <2>0, <2>4, <3>1 DEF Leave, LastOne
      <4>2. Telling("unsubscribe", task[a].keys).keys = task[a].keys
        BY DEF Telling
      <4> QED
        BY <2>t, <4>1, <4>2 DEF HeldInv, PinnedStays
    <3>2. CASE ~ LastOne(k, a[1])
      <4>1. task' = [task EXCEPT ![a] = Rest(task[a])] /\ flagged' = flagged
        BY <2>0, <2>4, <3>2 DEF Leave
      <4> QED
        BY <2>t, <2>r, <4>1 DEF HeldInv, PinnedStays
    <3> QED
      BY <3>1, <3>2
  <2>5. ASSUME NEW a \in Actor, Tell(a) PROVE HeldInv'
    <3>1. PICK s \in task[a].left :
             /\ task' = [task EXCEPT ![a].left = @ \ {s}]
             /\ UNCHANGED <<clientVars, entryVars, conn, upstream>>
      BY <2>5 DEF Tell
    <3>2. \A b \in Actor : task'[b].at = task[b].at /\ task'[b].keys = task[b].keys
      BY <2>0, <3>1 DEF TaskType
    <3> QED
      BY <3>1, <3>2 DEF HeldInv, PinnedStays, entryVars
  <2>6. ASSUME NEW a \in Actor, Told(a) PROVE HeldInv'
    <3>1. task' = [task EXCEPT ![a] = Rest(task[a])]
      BY <2>0, <2>6 DEF Told
    <3>2. Pinned \subseteq flagged'
      BY <2>6 DEF Told, Verb, HeldInv, PinnedStays, entryVars
    <3> QED
      BY <2>t, <2>r, <3>1, <3>2 DEF HeldInv, PinnedStays
  <2>7. ASSUME NEW s \in Source, Connect(s) \/ Resubscribe(s) \/ Forward(s) \/ Drop(s)
        PROVE  HeldInv'
    BY <2>7 DEF Connect, Resubscribe, Forward, Drop, HeldInv, PinnedStays, entryVars
  <2>8. CASE UNCHANGED vars
    BY <2>8 DEF vars, HeldInv, PinnedStays
  <2> QED
    BY <2>1, <2>2, <2>3, <2>4, <2>5, <2>6, <2>7, <2>8 DEF Next
<1>3. HeldInv => PinnedStays
  BY DEF HeldInv
<1> QED
  BY <1>1, <1>2, <1>3, Typing, PTL DEF Spec

----------------------------------------------------------------------------
(* Induction over the naturals, on a set rather than on a predicate: the    *)
(* library's theorem takes an operator, which cannot be instantiated here.  *)
LEMMA Induction ==
    ASSUME NEW S, 0 \in S, \A n \in Nat : n \in S => n + 1 \in S
    PROVE  Nat \subseteq S
<1> SUFFICES ASSUME Nat \ S # {} PROVE FALSE
  OBVIOUS
<1>1. PICK m \in Nat \ S : \A k \in Nat \ S : ~ (<<k, m>> \in OpToRel(<, Nat))
  BY WFMin, NatLessThanWellFounded
<1>2. \A k \in Nat \ S : ~ (k < m)
  BY <1>1 DEF OpToRel
<1>3. m - 1 \in Nat \ S /\ m - 1 < m
  BY <1>2
<1> QED
  BY <1>2, <1>3

\* The largest of a set, and of one that has the top of its range.
LEMMA MaxProperties ==
    ASSUME NEW T, NEW m \in T, T \subseteq Int, \A x \in T : m >= x
    PROVE  Max(T) = m
<1>1. \A y \in T : m >= y
  OBVIOUS
<1>2. Max(T) \in T /\ \A y \in T : Max(T) >= y
  <2>1. \E x \in T : \A y \in T : x >= y
    BY <1>1
  <2> QED
    BY <2>1, Zenon DEF Max
<1>3. Max(T) >= m /\ m >= Max(T) /\ Max(T) \in Int /\ m \in Int
  BY <1>1, <1>2
<1> QED
  BY <1>3

LEMMA MaxTop ==
    ASSUME NEW n \in Nat, NEW t \in SUBSET (1 .. n + 1), n + 1 \in t
    PROVE  Max(t) = n + 1
<1>1. t \subseteq Int /\ \A x \in t : n + 1 >= x
  OBVIOUS
<1> QED
  BY <1>1, MaxProperties

----------------------------------------------------------------------------
(* What a source streams once it has worked its queue off.  FoldLeft is a   *)
(* recursive function on the sets of indices that remain: Folds says so of  *)
(* g, Fold that there is one.                                               *)
Folds(g, u, q, n) ==
    g = [t \in SUBSET (1 .. n) |->
           IF t = {} THEN u ELSE Heed(g[t \ {Max(t)}], q[Max(t)])]

LEMMA Fold ==
    ASSUME NEW u, NEW q, NEW n \in Nat
    PROVE  \E g : Folds(g, u, q, n)
<1> DEFINE S == {m \in Nat : \E g : Folds(g, u, q, m)}
<1>1. 0 \in S
  <2> DEFINE g == [t \in SUBSET (1 .. 0) |-> u]
  <2>1. Folds(g, u, q, 0)
    BY DEF Folds
  <2> QED
    BY <2>1
<1>2. ASSUME NEW m \in Nat, NEW g, Folds(g, u, q, m)
      PROVE  \E h : Folds(h, u, q, m + 1)
  <2> DEFINE h == [t \in SUBSET (1 .. m + 1) |->
                     IF m + 1 \in t THEN Heed(g[t \ {m + 1}], q[m + 1]) ELSE g[t]]
  <2>1. \A t \in SUBSET (1 .. m + 1) : m + 1 \notin t => t \in SUBSET (1 .. m)
    OBVIOUS
  <2>2. \A t \in SUBSET (1 .. m + 1) : t \ {m + 1} \in SUBSET (1 .. m)
    OBVIOUS
  <2>3. \A t \in SUBSET (1 .. m) : t \in SUBSET (1 .. m + 1) /\ m + 1 \notin t /\ h[t] = g[t]
    OBVIOUS
  <2>4. ASSUME NEW t \in SUBSET (1 .. m + 1)
        PROVE  h[t] = IF t = {} THEN u ELSE Heed(h[t \ {Max(t)}], q[Max(t)])
    <3>1. CASE m + 1 \in t
      <4>1. Max(t) = m + 1
        BY <3>1, MaxTop
      <4>2. h[t \ {m + 1}] = g[t \ {m + 1}]
        BY <2>2, <2>3
      <4> QED
        BY <3>1, <4>1, <4>2
    <3>2. CASE m + 1 \notin t
      <4>1. t \in SUBSET (1 .. m) /\ h[t] = g[t]
        BY <2>1, <3>2
      <4>2. g[t] = IF t = {} THEN u ELSE Heed(g[t \ {Max(t)}], q[Max(t)])
        BY <1>2, <4>1 DEF Folds
      <4>3. g[t \ {Max(t)}] = h[t \ {Max(t)}]
        BY <2>3, <4>1
      <4> HIDE DEF h
      <4> QED
        BY <4>1, <4>2, <4>3
    <3> QED
      BY <3>1, <3>2
  <2>5. Folds(h, u, q, m + 1)
    <3>1. h = [t \in SUBSET (1 .. m + 1) |-> h[t]]
      OBVIOUS
    <3> HIDE DEF h
    <3> QED
      BY <2>4, <3>1 DEF Folds
  <2> QED
    BY <2>5
<1>3. Nat \subseteq S
  <2>1. \A m \in Nat : m \in S => m + 1 \in S
    BY <1>2
  <2> HIDE DEF S
  <2> QED
    BY <1>1, <2>1, Induction
<1> QED
  BY <1>3

\* What is streamed after each message of the queue.
Course(w, u, q) ==
    w[0] = u /\ \A n \in 0 .. Len(q) - 1 : w[n + 1] = Heed(w[n], q[n + 1])

LEMMA HasCourse ==
    ASSUME NEW u, NEW q \in Seq(Message)
    PROVE  \E w : Course(w, u, q) /\ FoldLeft(Heed, u, q) = w[Len(q)]
<1>1. Len(q) \in Nat /\ DOMAIN q = 1 .. Len(q)
  BY LenProperties
<1>2. PICK g : Folds(g, u, q, Len(q)) /\ FoldLeft(Heed, u, q) = g[1 .. Len(q)]
  <2> DEFINE g == CHOOSE g : Folds(g, u, q, Len(q))
  <2>1. Folds(g, u, q, Len(q))
    BY <1>1, Fold
  <2>2. FoldLeft(Heed, u, q) = g[1 .. Len(q)]
    BY <1>1 DEF Folds, FoldLeft, MapThenFoldSet
  <2> QED
    BY <2>1, <2>2
<1> DEFINE w == [n \in 0 .. Len(q) |-> g[1 .. n]]
<1>3. w[0] = u
  <2>1. 1 .. 0 = {} /\ {} \in SUBSET (1 .. Len(q)) /\ 0 \in 0 .. Len(q)
    BY <1>1
  <2>2. g[{}] = u
    BY <1>2, <2>1 DEF Folds
  <2>3. w[0] = g[1 .. 0]
    BY <2>1
  <2> QED
    BY <2>1, <2>2, <2>3
<1>4. ASSUME NEW n \in 0 .. Len(q) - 1 PROVE w[n + 1] = Heed(w[n], q[n + 1])
  <2> DEFINE t == 1 .. n + 1
  <2>1. n \in Nat /\ n + 1 <= Len(q)
    BY <1>1
  <2>2. t \in SUBSET (1 .. Len(q)) /\ n + 1 \in t
    BY <1>1, <2>1
  <2>3. t \ {n + 1} = 1 .. n
    BY <2>1
  <2>4. Max(t) = n + 1
    BY <2>1, <2>2, MaxTop
  <2>5. w[n + 1] = g[t] /\ w[n] = g[1 .. n]
    BY <1>1, <2>1
  <2>6. g[t] = Heed(g[t \ {Max(t)}], q[Max(t)])
    <3>1. t # {}
      BY <2>2
    <3> HIDE DEF t, w
    <3> QED
      BY <1>2, <2>2, <3>1 DEF Folds
  <2> HIDE DEF t, w
  <2> QED
    BY <2>3, <2>4, <2>5, <2>6
<1>5. FoldLeft(Heed, u, q) = w[Len(q)]
  BY <1>1, <1>2
<1> HIDE DEF w
<1> QED
  BY <1>3, <1>4, <1>5 DEF Course

\* And there is only one.
LEMMA Worked ==
    ASSUME NEW u, NEW q \in Seq(Message), NEW w, Course(w, u, q)
    PROVE  FoldLeft(Heed, u, q) = w[Len(q)]
<1>1. PICK v : Course(v, u, q) /\ FoldLeft(Heed, u, q) = v[Len(q)]
  BY HasCourse
<1>2. Len(q) \in Nat
  BY LenProperties
<1> DEFINE S == {n \in Nat : n <= Len(q) => v[n] = w[n]}
<1>3. 0 \in S
  BY <1>1 DEF Course
<1>4. ASSUME NEW n \in Nat, n \in S PROVE n + 1 \in S
  <2> SUFFICES ASSUME n + 1 <= Len(q) PROVE v[n + 1] = w[n + 1]
    OBVIOUS
  <2>1. n \in 0 .. Len(q) - 1 /\ n <= Len(q)
    BY <1>2
  <2> QED
    BY <1>1, <1>4, <2>1 DEF Course
<1>5. Nat \subseteq S
  <2> HIDE DEF S
  <2> QED
    BY <1>3, <1>4, Induction
<1> QED
  BY <1>1, <1>2, <1>5

\* Nothing is queued.
LEMMA WorkedNothing ==
    ASSUME NEW u
    PROVE  FoldLeft(Heed, u, <<>>) = u
<1>1. <<>> \in Seq(Message) /\ Len(<<>>) = 0
  BY EmptySeq
<1> DEFINE w == [n \in {0} |-> u]
<1>2. Course(w, u, <<>>)
  BY <1>1 DEF Course
<1>3. w[0] = u
  OBVIOUS
<1> HIDE DEF w
<1> QED
  BY <1>1, <1>2, <1>3, Worked

\* One more message is queued.
LEMMA WorkedLast ==
    ASSUME NEW u, NEW q \in Seq(Message), NEW m \in Message
    PROVE  FoldLeft(Heed, u, Append(q, m)) = Heed(FoldLeft(Heed, u, q), m)
<1>1. /\ Len(q) \in Nat /\ Append(q, m) \in Seq(Message) /\ Len(Append(q, m)) = Len(q) + 1
      /\ \A n \in 1 .. Len(q) : Append(q, m)[n] = q[n]
      /\ Append(q, m)[Len(q) + 1] = m
  BY LenProperties, AppendProperties
<1>2. PICK w : Course(w, u, q) /\ FoldLeft(Heed, u, q) = w[Len(q)]
  BY HasCourse
<1> DEFINE v == [n \in 0 .. Len(q) + 1 |-> IF n <= Len(q) THEN w[n] ELSE Heed(w[Len(q)], m)]
<1>3. v[0] = u
  BY <1>1, <1>2 DEF Course
<1>4. ASSUME NEW n \in 0 .. Len(q) PROVE v[n + 1] = Heed(v[n], Append(q, m)[n + 1])
  <2>1. v[n] = w[n]
    BY <1>1
  <2>2. CASE n = Len(q)
    BY <1>1, <2>1, <2>2
  <2>3. CASE n # Len(q)
    <3>1. n \in 0 .. Len(q) - 1 /\ n + 1 \in 1 .. Len(q)
      BY <1>1, <2>3
    <3>2. v[n + 1] = w[n + 1]
      BY <1>1, <3>1
    <3>3. w[n + 1] = Heed(w[n], q[n + 1])
      BY <1>2, <3>1 DEF Course
    <3> HIDE DEF v
    <3> QED
      BY <1>1, <2>1, <3>1, <3>2, <3>3
  <2> QED
    BY <2>2, <2>3
<1>5. Course(v, u, Append(q, m))
  <2>1. 0 .. Len(Append(q, m)) - 1 = 0 .. Len(q)
    BY <1>1
  <2> HIDE DEF v
  <2> QED
    BY <1>3, <1>4, <2>1 DEF Course
<1>6. v[Len(q) + 1] = Heed(w[Len(q)], m)
  BY <1>1
<1> HIDE DEF v
<1>7. FoldLeft(Heed, u, Append(q, m)) = v[Len(q) + 1]
  BY <1>1, <1>5, Worked
<1> QED
  BY <1>2, <1>6, <1>7

\* The first one is passed on.
LEMMA WorkedFirst ==
    ASSUME NEW u, NEW q \in Seq(Message), q # <<>>
    PROVE  FoldLeft(Heed, Heed(u, Head(q)), Tail(q)) = FoldLeft(Heed, u, q)
<1>1. /\ Len(q) \in Nat \ {0} /\ Tail(q) \in Seq(Message) /\ Len(Tail(q)) = Len(q) - 1
      /\ \A n \in 1 .. Len(Tail(q)) : Tail(q)[n] = q[n + 1]
      /\ Head(q) = q[1]
  BY EmptySeq, HeadTailProperties
<1>2. PICK w : Course(w, u, q) /\ FoldLeft(Heed, u, q) = w[Len(q)]
  BY HasCourse
<1> DEFINE v == [n \in 0 .. Len(q) - 1 |-> w[n + 1]]
<1>3. v[0] = Heed(u, Head(q))
  <2>1. 0 \in 0 .. Len(q) - 1
    BY <1>1
  <2>2. w[0 + 1] = Heed(w[0], q[0 + 1]) /\ w[0] = u
    BY <1>2, <2>1 DEF Course
  <2> QED
    BY <1>1, <2>1, <2>2
<1>4. ASSUME NEW n \in 0 .. Len(Tail(q)) - 1 PROVE v[n + 1] = Heed(v[n], Tail(q)[n + 1])
  <2>1. /\ n \in 0 .. Len(q) - 1 /\ n + 1 \in 0 .. Len(q) - 1 /\ n + 1 \in 1 .. Len(Tail(q))
    BY <1>1
  <2>2. v[n] = w[n + 1] /\ v[n + 1] = w[(n + 1) + 1] /\ Tail(q)[n + 1] = q[(n + 1) + 1]
    BY <1>1, <2>1
  <2>3. w[(n + 1) + 1] = Heed(w[n + 1], q[(n + 1) + 1])
    BY <1>2, <2>1 DEF Course
  <2> HIDE DEF v
  <2> QED
    BY <2>2, <2>3
<1>5. v[Len(Tail(q))] = w[Len(q)]
  BY <1>1
<1> HIDE DEF v
<1>6. Course(v, Heed(u, Head(q)), Tail(q))
  BY <1>3, <1>4 DEF Course
<1> QED
  BY <1>1, <1>2, <1>5, <1>6, Worked

----------------------------------------------------------------------------
(* The keys of a handler at work: no key comes up twice, and the first is  *)
(* the one it is on.                                                       *)
Distinct(q) == \A i, j \in DOMAIN q : i # j => q[i] # q[j]

\* The entries a handler has still to take its client off.
Todo(t) ==
    IF t.at = "leave" THEN Range(t.keys)
    ELSE IF t.at = "unsubscribe" THEN Range(Tail(t.keys)) ELSE {}

\* The first of a handler's keys, and those after it.
LEMMA Peel ==
    ASSUME NEW q \in Seq(Key), q # <<>>, Distinct(q)
    PROVE  /\ Range(q) = {Head(q)} \cup Range(Tail(q))
           /\ Head(q) \in Key /\ Head(q) \notin Range(Tail(q))
           /\ Range(Tail(q)) \subseteq Key
           /\ Tail(q) \in Seq(Key) /\ Distinct(Tail(q))
           /\ Len(q) = 1 => Range(Tail(q)) = {}
<1>1. /\ Len(q) \in Nat \ {0} /\ Tail(q) \in Seq(Key) /\ Len(Tail(q)) = Len(q) - 1
      /\ \A n \in 1 .. Len(Tail(q)) : Tail(q)[n] = q[n + 1]
      /\ Head(q) = q[1] /\ Head(q) \in Key
  BY EmptySeq, HeadTailProperties
<1>2. DOMAIN q = 1 .. Len(q) /\ DOMAIN Tail(q) = 1 .. Len(q) - 1
  BY <1>1, LenProperties
<1>3. Range(q) = {q[n] : n \in 1 .. Len(q)}
  BY <1>2 DEF Range
<1>4. Range(Tail(q)) = {q[n + 1] : n \in 1 .. Len(q) - 1}
  <2>1. \A n \in 1 .. Len(q) - 1 : Tail(q)[n] = q[n + 1]
    BY <1>1
  <2> QED
    BY <1>2, <2>1 DEF Range
<1>5. Range(q) = {Head(q)} \cup Range(Tail(q))
  <2>1. ASSUME NEW n \in 1 .. Len(q) PROVE q[n] = q[1] \/ q[n] \in Range(Tail(q))
    <3>1. CASE n = 1
      BY <3>1
    <3>2. CASE n # 1
      <4>1. n - 1 \in 1 .. Len(q) - 1 /\ (n - 1) + 1 = n
        BY <1>1, <3>2
      <4> QED
        BY <1>4, <4>1
    <3> QED
      BY <3>1, <3>2
  <2>2. ASSUME NEW n \in 1 .. Len(q) - 1 PROVE n + 1 \in 1 .. Len(q)
    BY <1>1
  <2>3. 1 \in 1 .. Len(q)
    BY <1>1
  <2>4. \A x : x \in Range(q) => x \in {Head(q)} \cup Range(Tail(q))
    BY <1>1, <1>3, <2>1
  <2>5. \A x : x \in {Head(q)} \cup Range(Tail(q)) => x \in Range(q)
    BY <1>1, <1>3, <1>4, <2>2, <2>3
  <2> QED
    BY <2>4, <2>5
<1>6. Head(q) \notin Range(Tail(q))
  <2> SUFFICES ASSUME NEW n \in 1 .. Len(q) - 1, q[1] = q[n + 1] PROVE FALSE
    BY <1>1, <1>4
  <2>1. n + 1 \in DOMAIN q /\ 1 \in DOMAIN q /\ n + 1 # 1
    BY <1>1, <1>2
  <2> QED
    BY <2>1 DEF Distinct
<1>7. Distinct(Tail(q))
  <2> SUFFICES ASSUME NEW i \in 1 .. Len(q) - 1, NEW j \in 1 .. Len(q) - 1, i # j
               PROVE  Tail(q)[i] # Tail(q)[j]
    BY <1>2 DEF Distinct
  <2>1. i + 1 \in DOMAIN q /\ j + 1 \in DOMAIN q /\ i + 1 # j + 1
    BY <1>1, <1>2
  <2>2. Tail(q)[i] = q[i + 1] /\ Tail(q)[j] = q[j + 1]
    BY <1>1
  <2> QED
    BY <2>1, <2>2 DEF Distinct
<1>8. Len(q) = 1 => Range(Tail(q)) = {}
  BY <1>4
<1>9. Range(Tail(q)) \subseteq Key
  BY <1>1, RangeOfSeq
<1> QED
  BY <1>1, <1>5, <1>6, <1>7, <1>8, <1>9

\* What is left to do after each step.
LEMMA Todos ==
    /\ Todo(Idle) = {} /\ Distinct(Idle.keys) /\ Idle.at = "idle" /\ Idle.left = {}
    /\ \A k : /\ Todo(At("enter", <<k>>)) = {} /\ Todo(Telling("subscribe", <<k>>)) = {}
              /\ Todo(At("leave", <<k>>)) = {k}
              /\ Distinct(<<k>>) /\ Len(<<k>>) = 1 /\ Head(<<k>>) = k
    /\ \A q : /\ Todo(At("leave", q)) = Range(q)
              /\ Todo(Telling("unsubscribe", q)) = Range(Tail(q))
<1>1. ASSUME NEW k PROVE Range(<<k>>) = {k} /\ Distinct(<<k>>)
  BY DEF Range, Distinct
<1>2. Distinct(<<>>)
  BY DEF Distinct
<1> QED
  BY <1>1, <1>2 DEF Todo, Idle, At, Telling

\* And what the next key of a cleanup leaves.
LEMMA Rested ==
    ASSUME NEW t, t.keys \in Seq(Key), t.keys # <<>>, Distinct(t.keys)
    PROVE  /\ Todo(Rest(t)) = Range(Tail(t.keys)) /\ Distinct(Rest(t).keys)
           /\ Rest(t).at \in {"idle", "leave"} /\ Rest(t).left = {}
           /\ Len(t.keys) = 1 => Rest(t) = Idle
<1>1. CASE Len(t.keys) = 1
  BY <1>1, Peel, Todos DEF Rest
<1>2. CASE Len(t.keys) # 1
  <2>1. Rest(t) = At("leave", Tail(t.keys))
    BY <1>2 DEF Rest
  <2>2. Todo(Rest(t)) = Range(Tail(t.keys))
    BY <2>1, Todos
  <2>3. Distinct(Tail(t.keys))
    BY Peel
  <2> QED
    BY <1>2, <2>1, <2>2, <2>3 DEF At
<1> QED
  BY <1>1, <1>2

\* A client's set is drained in some order, each of its keys once.
LEMMA Drained ==
    ASSUME NEW S \in SUBSET Key, NEW q \in SetToSeqs(S)
    PROVE  Distinct(q) /\ Range(q) = S
<1> DEFINE n == Cardinality(S)
<1>1. IsFiniteSet(S) /\ n \in Nat
  BY RegistryAssumption, FS_Subset, FS_CardinalityType
<1> HIDE DEF n
<1>2. q \in [1 .. n -> S] /\ \A i, j \in 1 .. n : i # j => q[i] # q[j]
  BY DEF SetToSeqs, n
<1>3. q \in Injection(1 .. n, S)
  BY <1>2 DEF Injection, IsInjective
<1>4. Cardinality(1 .. n) = n
  BY <1>1, FS_Interval
<1>5. q \in Surjection(1 .. n, S)
  BY <1>1, <1>3, <1>4, FS_Injection DEF n
<1>6. DOMAIN q = 1 .. n /\ \A y \in S : \E x \in 1 .. n : q[x] = y
  BY <1>2, <1>5 DEF Surjection
<1>7. Range(q) = S
  BY <1>2, <1>6 DEF Range
<1> QED
  BY <1>2, <1>6, <1>7 DEF Distinct


----------------------------------------------------------------------------
(***************************************************************************)
(* A reader has one request at a time, on one key.  Until its client       *)
(* closes, the client is put on an entry only while it holds the key, and  *)
(* kept there only while it does or its reader is about to take it off.    *)
(***************************************************************************)
Asked(c) ==
    /\ task[Reader(c)].at \in {"enter", "subscribe"} => Head(task[Reader(c)].keys) \in holds[c]
    /\ \A k \in Key :
          c \in members[k] =>
             \/ k \in holds[c]
             \/ task[Reader(c)].at = "leave" /\ Head(task[Reader(c)].keys) = k

AskedInv ==
    \A c \in Client :
        /\ task[Reader(c)].at # "idle" => Len(task[Reader(c)].keys) = 1
        /\ c \notin closing => Asked(c)

\* A step that leaves what a client's invariant reads as it is, or takes the
\* client off entries.
LEMMA AskedFrame ==
    ASSUME AskedInv, NEW c \in Client,
           task'[Reader(c)].at = task[Reader(c)].at,
           task'[Reader(c)].keys = task[Reader(c)].keys,
           holds'[c] = holds[c], closing \subseteq closing',
           \A k \in Key : c \in members'[k] => c \in members[k]
    PROVE  /\ task'[Reader(c)].at # "idle" => Len(task'[Reader(c)].keys) = 1
           /\ c \notin closing' => Asked(c)'
BY DEF AskedInv, Asked

LEMMA AskedKept ==
    ASSUME TypeOK, TypeOK', AskedInv, [Next]_vars
    PROVE  AskedInv'
<1>0. /\ \A c, d \in Client : /\ Reader(c) \in Actor /\ Socket(c) \in Actor
                              /\ Reader(c) # Socket(d) /\ Reader(c)[1] = c /\ Socket(c)[1] = c
                              /\ c # d => Reader(c) # Reader(d)
      /\ \A a \in Actor : a = Reader(a[1]) \/ a = Socket(a[1])
      /\ \A a \in Actor : a[1] \in Client
      /\ holds \in [Client -> SUBSET Key] /\ members \in [Key -> SUBSET Client]
      /\ task \in [Actor -> TaskType] /\ DOMAIN task = Actor
  BY DEF Actor, Reader, Socket, TypeOK, TaskType
<1> DEFINE Mine(c) == /\ task[Reader(c)].at # "idle" => Len(task[Reader(c)].keys) = 1
                      /\ c \notin closing => Asked(c)
           Mine1(c) == /\ task'[Reader(c)].at # "idle" => Len(task'[Reader(c)].keys) = 1
                       /\ c \notin closing' => Asked(c)'
<1> SUFFICES ASSUME NEW c \in Client PROVE Mine1(c)
  BY DEF AskedInv
<1>r. Reader(c) \in Actor
  BY <1>0
<1>m. Mine(c)
  BY DEF AskedInv
<1>1. ASSUME NEW d \in Client, NEW k \in Key, Subscribe(d, k) PROVE Mine1(c)
  <2>1. CASE d # c
    BY <1>0, <1>1, <2>1, AskedFrame DEF Subscribe, entryVars
  <2>2. CASE d = c
    <3>1. /\ task[Reader(c)] = Idle /\ holds'[c] = holds[c] \cup {k}
          /\ task'[Reader(c)] = At("enter", <<k>>)
          /\ members' = members /\ closing' = closing
      BY <1>0, <1>1, <2>2 DEF Subscribe, entryVars
    <3>2. \A l \in Key : c \in members[l] /\ c \notin closing => l \in holds[c]
      BY <1>m, <3>1 DEF Asked, Idle, At
    <3>3. /\ task'[Reader(c)].at = "enter" /\ Head(task'[Reader(c)].keys) = k
          /\ Len(task'[Reader(c)].keys) = 1
      BY <3>1, Todos DEF At
    <3> QED
      BY <3>1, <3>2, <3>3 DEF Asked
  <2> QED
    BY <2>1, <2>2
<1>2. ASSUME NEW d \in Client, NEW k \in Key, Unsubscribe(d, k) PROVE Mine1(c)
  <2>1. CASE d # c
    BY <1>0, <1>2, <2>1, AskedFrame DEF Unsubscribe, entryVars
  <2>2. CASE d = c
    <3>1. /\ task[Reader(c)] = Idle /\ holds'[c] = holds[c] \ {k}
          /\ task'[Reader(c)] = At("leave", <<k>>)
          /\ members' = members /\ closing' = closing
      BY <1>0, <1>2, <2>2 DEF Unsubscribe, entryVars
    <3>2. \A l \in Key : c \in members[l] /\ c \notin closing => l \in holds[c]
      BY <1>m, <3>1 DEF Asked, Idle, At
    <3>3. /\ task'[Reader(c)].at = "leave" /\ Head(task'[Reader(c)].keys) = k
          /\ Len(task'[Reader(c)].keys) = 1
      BY <3>1, Todos DEF At
    <3> QED
      BY <3>1, <3>2, <3>3 DEF Asked
  <2> QED
    BY <2>1, <2>2
<1>3. ASSUME NEW d \in Client, Close(d) PROVE Mine1(c)
  <2>1. PICK q : task' = [task EXCEPT ![Socket(d)] = q]
    BY <1>3 DEF Close
  <2>2. task'[Reader(c)] = task[Reader(c)]
    BY <1>0, <2>1
  <2>3. CASE d # c
    BY <1>0, <1>3, <2>2, <2>3, AskedFrame DEF Close, entryVars
  <2>4. CASE d = c
    BY <1>m, <1>3, <2>2, <2>4 DEF Close
  <2> QED
    BY <2>3, <2>4
<1>4. ASSUME NEW d \in Client, Enter(d) PROVE Mine1(c)
  <2> DEFINE k == Head(task[Reader(d)].keys)
  <2>1. /\ task[Reader(d)].at = "enter"
        /\ members' = [members EXCEPT ![k] = members[k] \cup {d}]
        /\ holds' = holds /\ closing' = closing
        /\ task' = [task EXCEPT ![Reader(d)] =
                       IF k \in flagged THEN Idle ELSE Telling("subscribe", <<k>>)]
    BY <1>4 DEF Enter, clientVars
  <2>2. CASE d # c
    <3>1. \A l \in Key : c \in members'[l] => c \in members[l]
      BY <1>0, <2>1, <2>2
    <3>2. task'[Reader(c)] = task[Reader(c)]
      BY <1>0, <2>1, <2>2
    <3> QED
      BY <2>1, <3>1, <3>2, AskedFrame
  <2>3. CASE d = c
    <3>1. /\ task'[Reader(c)].at # "enter"
          /\ task'[Reader(c)].at = "subscribe" => Head(task'[Reader(c)].keys) = k
          /\ task'[Reader(c)].at # "idle" => Len(task'[Reader(c)].keys) = 1
      <4>1. task'[Reader(c)] = IF k \in flagged THEN Idle ELSE Telling("subscribe", <<k>>)
        BY <1>0, <2>1, <2>3
      <4> HIDE DEF k
      <4> QED
        BY <4>1, Todos DEF Idle, At, Telling
    <3>2. \A l \in Key : c \in members'[l] => l = k \/ c \in members[l]
      BY <1>0, <2>1
    <3>3. c \notin closing => /\ k \in holds[c]
                              /\ \A l \in Key : c \in members[l] => l \in holds[c]
      BY <1>m, <2>1, <2>3 DEF Asked
    <3> HIDE DEF k
    <3> QED
      BY <2>1, <3>1, <3>2, <3>3 DEF Asked
  <2> QED
    BY <2>2, <2>3
<1>5. ASSUME NEW a \in Actor, Leave(a) PROVE Mine1(c)
  <2> DEFINE k == Head(task[a].keys)
  <2>1. /\ task[a].at = "leave"
        /\ members' = [members EXCEPT ![k] = members[k] \ {a[1]}]
        /\ holds' = holds /\ closing' = closing
        /\ \/ task' = [task EXCEPT ![a] = Telling("unsubscribe", task[a].keys)]
           \/ task' = [task EXCEPT ![a] = Rest(task[a])]
    BY <1>0, <1>5 DEF Leave, clientVars
  <2>2. \A l \in Key : c \in members'[l] => c \in members[l]
    BY <1>0, <2>1
  <2>3. CASE a # Reader(c)
    <3>1. task'[Reader(c)] = task[Reader(c)]
      BY <1>0, <2>1, <2>3
    <3> QED
      BY <2>1, <2>2, <3>1, AskedFrame
  <2>4. CASE a = Reader(c)
    <3>1. Len(task[a].keys) = 1 /\ a[1] = c
      BY <1>0, <1>m, <2>1, <2>4
    <3>2. /\ task'[Reader(c)].at \notin {"enter", "subscribe", "leave"}
          /\ task'[Reader(c)].at # "idle" => Len(task'[Reader(c)].keys) = 1
      BY <1>0, <2>1, <2>4, <3>1 DEF Rest, Idle, At, Telling
    <3>3. k \in Key
      BY <1>0, <3>1 DEF TaskType
    <3>4. \A l \in Key : c \in members'[l] => l # k /\ c \in members[l]
      BY <1>0, <2>1, <3>1, <3>3
    <3>5. c \notin closing => \A l \in Key : c \in members'[l] => l \in holds[c]
      BY <1>m, <2>1, <2>4, <3>4 DEF Asked
    <3> QED
      BY <2>1, <3>2, <3>5 DEF Asked
  <2> QED
    BY <2>3, <2>4
<1>6. ASSUME NEW a \in Actor, Tell(a) PROVE Mine1(c)
  <2>1. PICK s \in task[a].left :
           /\ task' = [task EXCEPT ![a].left = task[a].left \ {s}]
           /\ UNCHANGED <<holds, closing, members>>
    BY <1>6 DEF Tell, clientVars, entryVars
  <2>2. \A b \in Actor : task'[b].at = task[b].at /\ task'[b].keys = task[b].keys
    BY <1>0, <2>1 DEF TaskType
  <2> QED
    BY <1>0, <2>1, <2>2, AskedFrame
<1>7. ASSUME NEW a \in Actor, Told(a) PROVE Mine1(c)
  <2>1. /\ task[a].at \in Verb /\ task' = [task EXCEPT ![a] = Rest(task[a])]
        /\ UNCHANGED <<holds, closing>>
    BY <1>0, <1>7 DEF Told, clientVars
  <2>2. \A l \in Key : c \in members'[l] => c \in members[l]
    BY <1>0, <1>7 DEF Told, entryVars
  <2>3. CASE a # Reader(c)
    <3>1. task'[Reader(c)] = task[Reader(c)]
      BY <1>0, <2>1, <2>3
    <3> QED
      BY <2>1, <2>2, <3>1, AskedFrame
  <2>4. CASE a = Reader(c)
    <3>1. task'[Reader(c)].at = "idle"
      BY <1>0, <1>m, <2>1, <2>4 DEF Rest, Idle, At, Verb
    <3>2. c \notin closing => \A l \in Key : c \in members[l] => l \in holds[c]
      BY <1>m, <2>1, <2>4 DEF Asked, Verb
    <3> QED
      BY <2>1, <2>2, <3>1, <3>2 DEF Asked
  <2> QED
    BY <2>3, <2>4
<1>8. ASSUME NEW s \in Source, Connect(s) \/ Resubscribe(s) \/ Forward(s) \/ Drop(s)
      PROVE  Mine1(c)
  <2>1. UNCHANGED <<holds, closing, members, task>>
    BY <1>8 DEF Connect, Resubscribe, Forward, Drop, clientVars, entryVars
  <2> QED
    BY <1>0, <2>1, AskedFrame
<1>9. CASE UNCHANGED vars
  BY <1>0, <1>9, AskedFrame DEF vars
<1> QED
  BY <1>1, <1>2, <1>3, <1>4, <1>5, <1>6, <1>7, <1>8, <1>9 DEF Next

LEMMA AskedAlways == Spec => []AskedInv
<1>1. Init => AskedInv
  <2> SUFFICES ASSUME Init PROVE AskedInv
    OBVIOUS
  <2>1. \A c \in Client : task[Reader(c)] = Idle
    BY DEF Init, Actor, Reader
  <2>2. \A k \in Key : members[k] = {}
    BY DEF Init
  <2> QED
    BY <2>1, <2>2 DEF AskedInv, Asked, Idle, At
<1>2. TypeOK /\ TypeOK' /\ AskedInv /\ [Next]_vars => AskedInv'
  BY AskedKept
<1> QED
  BY <1>1, <1>2, Typing, PTL DEF Spec

----------------------------------------------------------------------------
(***************************************************************************)
(* An entry with clients has the flag, and what has the flag is streamed   *)
(* by a connected source once its queue is worked off, unless a handler    *)
(* has still to tell that source of it or is about to remove the entry.  A *)
(* source that has just connected will start from the flags and not from   *)
(* what it streamed before.                                                *)
(***************************************************************************)

\* What a queue makes of a key depends on no other key.
LEMMA KeyByKey ==
    ASSUME NEW u, NEW v, NEW q \in Seq(Message), NEW k, k \in u => k \in v
    PROVE  k \in FoldLeft(Heed, u, q) => k \in FoldLeft(Heed, v, q)
<1>1. PICK w : Course(w, u, q) /\ FoldLeft(Heed, u, q) = w[Len(q)]
  BY HasCourse
<1>2. PICK x : Course(x, v, q) /\ FoldLeft(Heed, v, q) = x[Len(q)]
  BY HasCourse
<1>3. Len(q) \in Nat
  BY LenProperties
<1> DEFINE S == {n \in Nat : n <= Len(q) => (k \in w[n] => k \in x[n])}
<1>4. 0 \in S
  BY <1>1, <1>2 DEF Course
<1>5. ASSUME NEW n \in Nat, n \in S PROVE n + 1 \in S
  <2> SUFFICES ASSUME n + 1 <= Len(q) PROVE k \in w[n + 1] => k \in x[n + 1]
    OBVIOUS
  <2>1. n \in 0 .. Len(q) - 1 /\ n <= Len(q)
    BY <1>3
  <2>2. w[n + 1] = Heed(w[n], q[n + 1]) /\ x[n + 1] = Heed(x[n], q[n + 1])
    BY <1>1, <1>2, <2>1 DEF Course
  <2>3. k \in w[n] => k \in x[n]
    BY <1>5, <2>1
  <2> QED
    BY <2>2, <2>3 DEF Heed
<1>6. Nat \subseteq S
  <2> HIDE DEF S
  <2> QED
    BY <1>4, <1>5, Induction
<1> QED
  BY <1>1, <1>2, <1>3, <1>6

Base(s) == IF conn[s] = "up" THEN upstream[s] ELSE flagged

\* Somebody has yet to tell the source of the key.
ToSubscribe(s, k) ==
    \E a \in Actor : /\ task[a].at = "subscribe" /\ s \in task[a].left
                     /\ Head(task[a].keys) = k
Fed(s, k) ==
    conn[s] # "down" =>
        k \in FoldLeft(Heed, Base(s), ctrl[s]) \/ ToSubscribe(s, k) \/ Removing(k)

Flagged == \A k \in Key : members[k] # {} => k \in flagged
Open ==
    \A c \in Client : /\ c \notin closing => task[Socket(c)].at = "idle"
                      /\ task[Socket(c)].at \notin {"enter", "subscribe"}
FedInv == Open /\ Flagged /\ \A s \in Source, k \in flagged : Fed(s, k)

\* A handler goes on that told nobody anything: who has yet to tell has still.
LEMMA StillTelling ==
    ASSUME task \in [Actor -> TaskType], NEW a \in Actor, NEW t,
           task' = [task EXCEPT ![a] = t],
           NEW s \in Source, NEW k,
           \/ task[a].at \notin Verb
           \/ task[a].at = "unsubscribe" /\ Head(task[a].keys) # k
           \/ task[a].at = "subscribe" /\ task[a].left = {}
    PROVE  /\ ToSubscribe(s, k) => ToSubscribe(s, k)'
           /\ Removing(k) => Removing(k)'
<1>1. \A b \in Actor : b # a => task'[b] = task[b]
  OBVIOUS
<1>2. ASSUME ToSubscribe(s, k) PROVE ToSubscribe(s, k)'
  <2>1. PICK b \in Actor : /\ task[b].at = "subscribe" /\ s \in task[b].left
                           /\ Head(task[b].keys) = k
    BY <1>2 DEF ToSubscribe
  <2>2. b # a
    BY <2>1 DEF Verb
  <2> QED
    BY <1>1, <2>1, <2>2 DEF ToSubscribe
<1>3. ASSUME Removing(k) PROVE Removing(k)'
  <2>1. PICK b \in Actor : task[b].at = "unsubscribe" /\ Head(task[b].keys) = k
    BY <1>3 DEF Removing
  <2>2. b # a
    BY <2>1 DEF Verb
  <2> QED
    BY <1>1, <2>1, <2>2 DEF Removing
<1> QED
  BY <1>2, <1>3

\* And the sources do nothing: what was fed is fed, if the flags of others
\* are what has changed.
LEMMA StillFed ==
    ASSUME TypeOK, TypeOK', UNCHANGED <<conn, upstream, ctrl>>,
           NEW s \in Source, NEW k \in Key, Fed(s, k),
           k \in flagged => k \in flagged',
           ToSubscribe(s, k) => ToSubscribe(s, k)',
           Removing(k) => Removing(k)'
    PROVE  Fed(s, k)'
<1> DEFINE u == Base(s)
           v == Base(s)'
<1>1. k \in u => k \in v
  BY DEF Base
<1>2. ctrl[s] \in Seq(Message) /\ ctrl'[s] = ctrl[s]
  BY DEF TypeOK
<1> HIDE DEF u, v
<1>3. k \in FoldLeft(Heed, u, ctrl[s]) => k \in FoldLeft(Heed, v, ctrl'[s])
  BY <1>1, <1>2, KeyByKey
<1> QED
  BY <1>3 DEF Fed, u, v

\* The task that owns a socket has nothing to do before it closes.
LEMMA OpenKept ==
    ASSUME TypeOK, Open, [Next]_vars
    PROVE  Open'
<1>0. /\ task \in [Actor -> TaskType]
      /\ \A c, d \in Client : /\ Reader(c) \in Actor /\ Socket(c) \in Actor
                              /\ Reader(c) # Socket(d)
                              /\ c # d => Socket(c) # Socket(d)
  BY DEF TypeOK, TaskType, Actor, Reader, Socket
<1>1. ASSUME NEW a \in Actor, NEW t, task' = [task EXCEPT ![a] = t],
             task[a].at # "idle" \/ \E c \in Client : a = Reader(c),
             closing' = closing,
             (\E c \in Client : a = Reader(c)) \/ t.at \notin {"enter", "subscribe"}
      PROVE  Open'
  <2> SUFFICES ASSUME NEW c \in Client
               PROVE  /\ c \notin closing => task'[Socket(c)].at = "idle"
                      /\ task'[Socket(c)].at \notin {"enter", "subscribe"}
    BY <1>1 DEF Open
  <2>1. CASE a # Socket(c)
    BY <1>0, <1>1, <2>1 DEF Open
  <2>2. CASE a = Socket(c)
    BY <1>0, <1>1, <2>2 DEF Open
  <2> QED
    BY <2>1, <2>2
<1>r. \A t : Rest(t).at \notin {"enter", "subscribe"}
  BY DEF Rest, Idle, At
<1>2. ASSUME NEW c \in Client, NEW k \in Key, Subscribe(c, k) \/ Unsubscribe(c, k) PROVE Open'
  <2>1. PICK t : task' = [task EXCEPT ![Reader(c)] = t]
    BY <1>2 DEF Subscribe, Unsubscribe
  <2> QED
    BY <1>0, <1>1, <1>2, <2>1 DEF Subscribe, Unsubscribe
<1>3. ASSUME NEW c \in Client, Enter(c) PROVE Open'
  <2>1. PICK t : task' = [task EXCEPT ![Reader(c)] = t]
    BY <1>3 DEF Enter
  <2> QED
    BY <1>0, <1>1, <1>3, <2>1 DEF Enter, clientVars
<1>4. ASSUME NEW c \in Client, Close(c) PROVE Open'
  <2>1. PICK q : task' = [task EXCEPT ![Socket(c)] = IF q = <<>> THEN Idle ELSE At("leave", q)]
    BY <1>4 DEF Close
  <2>2. (IF q = <<>> THEN Idle ELSE At("leave", q)).at \notin {"enter", "subscribe"}
    BY DEF Idle, At
  <2> QED
    BY <1>0, <1>4, <2>1, <2>2 DEF Close, Open
<1>5. ASSUME NEW a \in Actor, Leave(a) PROVE Open'
  <2>1. /\ \/ task' = [task EXCEPT ![a] = Telling("unsubscribe", task[a].keys)]
           \/ task' = [task EXCEPT ![a] = Rest(task[a])]
        /\ task[a].at # "idle" /\ closing' = closing
    BY <1>0, <1>5 DEF Leave, clientVars
  <2>2. Telling("unsubscribe", task[a].keys).at \notin {"enter", "subscribe"}
    BY DEF Telling
  <2> QED
    BY <1>1, <1>r, <2>1, <2>2
<1>6. ASSUME NEW a \in Actor, Tell(a) PROVE Open'
  <2>1. PICK s \in task[a].left : task' = [task EXCEPT ![a].left = task[a].left \ {s}]
    BY <1>6 DEF Tell
  <2>2. \A b \in Actor : task'[b].at = task[b].at
    BY <1>0, <2>1 DEF TaskType
  <2> QED
    BY <1>0, <1>6, <2>2 DEF Tell, Open, clientVars
<1>7. ASSUME UNCHANGED <<task, closing>> PROVE Open'
  BY <1>7 DEF Open
<1>8. ASSUME NEW a \in Actor, Told(a) PROVE Open'
  <2>1. /\ task' = [task EXCEPT ![a] = Rest(task[a])]
        /\ task[a].at # "idle" /\ closing' = closing
    BY <1>0, <1>8 DEF Told, Verb, clientVars
  <2> QED
    BY <1>1, <1>r, <2>1
<1> QED
  BY <1>2, <1>3, <1>4, <1>5, <1>6, <1>7, <1>8
     DEF Next, vars, clientVars, Connect, Resubscribe, Forward, Drop

\* An entry with clients has the flag.
LEMMA FlaggedKept ==
    ASSUME TypeOK, Flagged, [Next]_vars
    PROVE  Flagged'
<1>0. /\ members \in [Key -> SUBSET Client] /\ flagged \subseteq Key
      /\ task \in [Actor -> TaskType]
      /\ \A a \in Actor : task[a].at # "idle" => task[a].keys # <<>>
      /\ \A c \in Client : Reader(c) \in Actor
  BY DEF TypeOK, TaskType, Actor, Reader
<1>1. ASSUME NEW c \in Client, Enter(c) PROVE Flagged'
  BY <1>0, <1>1 DEF Enter, Flagged
<1>2. ASSUME NEW a \in Actor, Leave(a) PROVE Flagged'
  <2> DEFINE k == Head(task[a].keys)
  <2>1. members' = [members EXCEPT ![k] = members[k] \ {a[1]}]
        /\ flagged' = (IF LastOne(k, a[1]) THEN flagged \ {k} ELSE flagged)
    BY <1>2 DEF Leave
  <2>2. k \in Key
    BY <1>0, <1>2 DEF Leave, TaskType
  <2> HIDE DEF k
  <2>3. /\ members'[k] \subseteq members[k]
        /\ \A l \in Key : l # k => members'[l] = members[l]
        /\ LastOne(k, a[1]) => members'[k] = {}
    BY <1>0, <2>1, <2>2 DEF LastOne
  <2> QED
    BY <2>1, <2>2, <2>3 DEF Flagged
<1>3. ASSUME NEW a \in Actor, Told(a) PROVE Flagged'
  <2>1. CASE task[a].at = "unsubscribe"
    BY <1>0, <1>3, <2>1 DEF Told, Flagged
  <2>2. CASE task[a].at # "unsubscribe"
    BY <1>3, <2>2 DEF Told, Flagged, entryVars
  <2> QED
    BY <2>1, <2>2
<1>4. ASSUME UNCHANGED <<members, flagged>> PROVE Flagged'
  BY <1>4 DEF Flagged
<1> QED
  BY <1>1, <1>2, <1>3, <1>4
     DEF Next, vars, entryVars, Subscribe, Unsubscribe, Close, Tell, Connect, Resubscribe,
         Forward, Drop

\* What a handler's step changes for a key and a source.
LEMMA FedByHandlers ==
    ASSUME TypeOK, TypeOK', FedInv, NEW s \in Source, NEW k \in flagged',
           \/ \E c \in Client : Enter(c) \/ Close(c) \/ \E l \in Key : Subscribe(c, l) \/ Unsubscribe(c, l)
           \/ \E a \in Actor : Leave(a) \/ Tell(a) \/ Told(a)
    PROVE  Fed(s, k)'
<1>0. /\ task \in [Actor -> TaskType] /\ ctrl \in [Source -> Seq(Message)]
      /\ \A c \in Client : Reader(c) \in Actor /\ Socket(c) \in Actor
      /\ k \in Key
      /\ k \in flagged => Fed(s, k)
      /\ ctrl[s] \in Seq(Message) /\ ctrl'[s] \in Seq(Message)
  BY DEF TypeOK, TaskType, Actor, Reader, Socket, FedInv
<1>s. ASSUME NEW a \in Actor, NEW t, task' = [task EXCEPT ![a] = t],
             UNCHANGED <<conn, upstream, ctrl>>, k \in flagged,
             \/ task[a].at \notin Verb
             \/ task[a].at = "unsubscribe" /\ Head(task[a].keys) # k
             \/ task[a].at = "subscribe" /\ task[a].left = {}
      PROVE  Fed(s, k)'
  <2>1. /\ ToSubscribe(s, k) => ToSubscribe(s, k)'
        /\ Removing(k) => Removing(k)'
    BY <1>0, <1>s, StillTelling
  <2>2. Fed(s, k) /\ k \in flagged'
    BY <1>0, <1>s
  <2> QED
    BY <1>0, <1>s, <2>1, <2>2, StillFed
<1>1. ASSUME NEW c \in Client, NEW l \in Key, Subscribe(c, l) PROVE Fed(s, k)'
  <2>1. /\ task' = [task EXCEPT ![Reader(c)] = At("enter", <<l>>)]
        /\ UNCHANGED <<conn, upstream, ctrl, flagged>> /\ task[Reader(c)].at \notin Verb
    BY <1>1 DEF Subscribe, entryVars, sourceVars, Idle, At, Verb
  <2> QED
    BY <1>0, <1>s, <2>1
<1>2. ASSUME NEW c \in Client, NEW l \in Key, Unsubscribe(c, l) PROVE Fed(s, k)'
  <2>1. /\ task' = [task EXCEPT ![Reader(c)] = At("leave", <<l>>)]
        /\ UNCHANGED <<conn, upstream, ctrl, flagged>> /\ task[Reader(c)].at \notin Verb
    BY <1>2 DEF Unsubscribe, entryVars, sourceVars, Idle, At, Verb
  <2> QED
    BY <1>0, <1>s, <2>1
<1>4. ASSUME NEW c \in Client, Enter(c) PROVE Fed(s, k)'
  <2> DEFINE a == Reader(c)
             l == Head(task[a].keys)
             t == IF l \in flagged THEN Idle ELSE Telling("subscribe", <<l>>)
  <2>1. /\ task[a].at \notin Verb /\ task' = [task EXCEPT ![a] = t]
        /\ UNCHANGED <<conn, upstream, ctrl>> /\ flagged' = flagged \cup {l}
    BY <1>4 DEF Enter, sourceVars, Verb
  <2>2. CASE k \in flagged
    BY <1>0, <1>s, <2>1, <2>2
  <2>3. CASE k \notin flagged
    <3>1. k = l /\ task'[a] = Telling("subscribe", <<k>>)
      BY <1>0, <2>1, <2>3
    <3>2. /\ task'[a].at = "subscribe" /\ s \in task'[a].left
          /\ Head(task'[a].keys) = k
      BY <3>1 DEF Telling
    <3> HIDE DEF a
    <3>3. a \in Actor
      BY <1>0 DEF a
    <3>4. ToSubscribe(s, k)'
      BY <3>2, <3>3 DEF ToSubscribe
    <3> QED
      BY <3>4 DEF Fed
  <2> QED
    BY <2>2, <2>3
<1>5. ASSUME NEW a \in Actor, Leave(a) PROVE Fed(s, k)'
  <2>1. PICK t : task' = [task EXCEPT ![a] = t]
    BY <1>5 DEF Leave
  <2>2. /\ task[a].at \notin Verb /\ flagged' \subseteq flagged
        /\ UNCHANGED <<conn, upstream, ctrl>>
    BY <1>5 DEF Leave, sourceVars, Verb
  <2> QED
    BY <1>s, <2>1, <2>2
<1>6. ASSUME NEW a \in Actor, Tell(a) PROVE Fed(s, k)'
  <2> DEFINE m == <<task[a].at, Head(task[a].keys)>>
  <2>1. PICK r \in task[a].left :
           /\ ctrl' = [ctrl EXCEPT ![r] = Append(ctrl[r], m)]
           /\ task' = [task EXCEPT ![a].left = task[a].left \ {r}]
           /\ UNCHANGED <<flagged, conn, upstream>>
    BY <1>6 DEF Tell, entryVars
  <2>2. /\ task[a].at \in Verb /\ task[a].left \subseteq Source
        /\ task[a].keys \in Seq(Key) /\ task[a].keys # <<>>
    BY DEF TypeOK, Verb
  <2>3. m \in Message
    BY <2>2, HeadTailProperties DEF Message
  <2>4. /\ \A b \in Actor : task'[b].at = task[b].at /\ task'[b].keys = task[b].keys
        /\ task'[a].left = task[a].left \ {r}
        /\ \A b \in Actor : b # a => task'[b].left = task[b].left
    BY <1>0, <2>1 DEF TaskType
  <2>5. Removing(k) => Removing(k)'
    BY <2>4 DEF Removing
  <2>6. Base(s)' = Base(s) /\ conn' = conn /\ k \in flagged
    BY <2>1 DEF Base
  <2>7. CASE s # r
    <3>1. ToSubscribe(s, k) => ToSubscribe(s, k)'
      BY <2>4, <2>7 DEF ToSubscribe
    <3>2. ctrl'[s] = ctrl[s]
      BY <1>0, <2>1, <2>7
    <3> QED
      BY <1>0, <2>5, <2>6, <3>1, <3>2 DEF Fed
  <2>8. CASE s = r
    <3>1. FoldLeft(Heed, Base(s), ctrl'[s]) = Heed(FoldLeft(Heed, Base(s), ctrl[s]), m)
      <4>1. ctrl'[s] = Append(ctrl[s], m)
        BY <1>0, <2>1, <2>8
      <4> HIDE DEF m
      <4>2. FoldLeft(Heed, Base(s), Append(ctrl[s], m)) = Heed(FoldLeft(Heed, Base(s), ctrl[s]), m)
        BY <1>0, <2>3, WorkedLast
      <4> QED
        BY <4>1, <4>2
    <3>2. CASE Head(task[a].keys) # k
      <4>1. k \in FoldLeft(Heed, Base(s), ctrl'[s]) <=> k \in FoldLeft(Heed, Base(s), ctrl[s])
        BY <3>1, <3>2 DEF Heed
      <4>2. ASSUME ToSubscribe(s, k) PROVE ToSubscribe(s, k)'
        <5>1. PICK b \in Actor : /\ task[b].at = "subscribe" /\ s \in task[b].left
                                 /\ Head(task[b].keys) = k
          BY <4>2 DEF ToSubscribe
        <5>2. b # a
          BY <3>2, <5>1
        <5> QED
          BY <2>4, <5>1, <5>2 DEF ToSubscribe
      <4> QED
        BY <1>0, <2>5, <2>6, <4>1, <4>2 DEF Fed
    <3>3. CASE Head(task[a].keys) = k /\ task[a].at = "subscribe"
      <4>1. k \in FoldLeft(Heed, Base(s), ctrl'[s])
        BY <3>1, <3>3 DEF Heed
      <4> QED
        BY <2>6, <4>1 DEF Fed
    <3>4. CASE Head(task[a].keys) = k /\ task[a].at = "unsubscribe"
      <4>1. Removing(k)'
        BY <2>4, <3>4 DEF Removing
      <4> QED
        BY <4>1 DEF Fed
    <3> QED
      BY <2>2, <3>2, <3>3, <3>4 DEF Verb
  <2> QED
    BY <2>7, <2>8
<1>7. ASSUME NEW a \in Actor, Told(a) PROVE Fed(s, k)'
  <2> DEFINE t == Rest(task[a])
  <2>1. /\ task[a].at \in Verb /\ task[a].left = {}
        /\ task' = [task EXCEPT ![a] = t]
        /\ UNCHANGED <<conn, upstream, ctrl>>
    BY <1>0, <1>7 DEF Told, sourceVars
  <2> HIDE DEF t
  <2>2. k \in flagged /\ (task[a].at = "unsubscribe" => Head(task[a].keys) # k)
    BY <1>7 DEF Told, entryVars
  <2> QED
    BY <1>s, <2>1, <2>2 DEF Verb
<1>8. ASSUME NEW c \in Client, Close(c) PROVE Fed(s, k)'
  <2>1. PICK q : task' = [task EXCEPT ![Socket(c)] = IF q = <<>> THEN Idle ELSE At("leave", q)]
    BY <1>8 DEF Close
  <2>2. UNCHANGED <<conn, upstream, ctrl, flagged>>
    BY <1>8 DEF Close, entryVars, sourceVars
  <2>3. task[Socket(c)].at \notin Verb
    BY <1>8 DEF Close, FedInv, Open, Verb
  <2> QED
    BY <1>0, <1>s, <2>1, <2>2, <2>3
<1> QED
  BY <1>1, <1>2, <1>4, <1>5, <1>6, <1>7, <1>8

\* And what the source tasks do.
LEMMA FedBySources ==
    ASSUME TypeOK, FedInv, NEW s \in Source, NEW k \in flagged', NEW r \in Source,
           Connect(r) \/ Resubscribe(r) \/ Forward(r) \/ Drop(r)
    PROVE  Fed(s, k)'
<1>0. /\ conn \in [Source -> {"down", "drained", "up"}] /\ upstream \in [Source -> SUBSET Key]
      /\ ctrl \in [Source -> Seq(Message)]
      /\ UNCHANGED <<task, flagged>>
      /\ Fed(s, k) /\ k \in flagged
  BY DEF Connect, Resubscribe, Forward, Drop, entryVars, TypeOK, FedInv
<1>1. ToSubscribe(s, k)' = ToSubscribe(s, k) /\ Removing(k)' = Removing(k)
  BY <1>0 DEF ToSubscribe, Removing
<1>2. CASE s # r
  <2>1. conn'[s] = conn[s] /\ upstream'[s] = upstream[s] /\ ctrl'[s] = ctrl[s]
    BY <1>0, <1>2 DEF Connect, Resubscribe, Forward, Drop
  <2>2. Base(s)' = Base(s)
    BY <1>0, <2>1 DEF Base
  <2> QED
    BY <1>0, <1>1, <2>1, <2>2 DEF Fed
<1>3. CASE s = r
  <2>1. CASE Connect(s)
    <3>1. conn'[s] = "drained" /\ ctrl'[s] = <<>>
      BY <1>0, <2>1 DEF Connect
    <3>2. Base(s)' = flagged
      BY <1>0, <3>1 DEF Base
    <3>3. FoldLeft(Heed, Base(s)', ctrl'[s]) = flagged
      BY <3>1, <3>2, WorkedNothing
    <3> QED
      BY <1>0, <3>3 DEF Fed
  <2>2. CASE Resubscribe(s)
    <3>1. conn[s] = "drained" /\ conn'[s] = "up" /\ upstream'[s] = flagged /\ ctrl'[s] = ctrl[s]
      BY <1>0, <2>2 DEF Resubscribe, SubscribedRequests
    <3>2. Base(s)' = Base(s)
      BY <3>1 DEF Base
    <3> QED
      BY <1>0, <1>1, <3>1, <3>2 DEF Fed
  <2>3. CASE Forward(s)
    <3>1. /\ conn[s] = "up" /\ conn' = conn /\ ctrl[s] # <<>>
          /\ upstream'[s] = Heed(upstream[s], Head(ctrl[s]))
          /\ ctrl'[s] = Tail(ctrl[s])
      BY <1>0, <2>3 DEF Forward
    <3>2. Base(s) = upstream[s] /\ Base(s)' = Heed(upstream[s], Head(ctrl[s]))
      BY <3>1 DEF Base
    <3>3. FoldLeft(Heed, Heed(upstream[s], Head(ctrl[s])), Tail(ctrl[s]))
             = FoldLeft(Heed, upstream[s], ctrl[s])
      BY <1>0, <3>1, WorkedFirst
    <3>4. FoldLeft(Heed, Base(s)', ctrl'[s]) = FoldLeft(Heed, Base(s), ctrl[s])
      BY <3>1, <3>2, <3>3
    <3> QED
      BY <1>0, <1>1, <3>1, <3>4 DEF Fed
  <2>4. CASE Drop(s)
    BY <1>0, <2>4 DEF Drop, Fed
  <2> QED
    BY <1>3, <2>1, <2>2, <2>3, <2>4
<1> QED
  BY <1>2, <1>3

LEMMA FedAlways == Spec => []FedInv
<1>1. Init => FedInv
  <2> SUFFICES ASSUME Init PROVE FedInv
    OBVIOUS
  <2>1. \A c \in Client : task[Socket(c)].at = "idle"
    BY DEF Init, Actor, Socket, Idle, At
  <2>2. Flagged
    BY DEF Init, Flagged
  <2>3. \A s \in Source : conn[s] = "down"
    BY DEF Init
  <2> QED
    BY <2>1, <2>2, <2>3 DEF FedInv, Open, Fed
<1>2. TypeOK /\ TypeOK' /\ FedInv /\ [Next]_vars => FedInv'
  <2> SUFFICES ASSUME TypeOK, TypeOK', FedInv, [Next]_vars PROVE FedInv'
    OBVIOUS
  <2>1. Open' /\ Flagged'
    BY OpenKept, FlaggedKept DEF FedInv
  <2>2. ASSUME NEW s \in Source, NEW k \in flagged' PROVE Fed(s, k)'
    <3>1. CASE UNCHANGED vars
      BY <2>2, <3>1 DEF vars, FedInv, Fed, Base, ToSubscribe, Removing
    <3>2. CASE Next
      BY <3>2, FedByHandlers, FedBySources DEF Next
    <3> QED
      BY <3>1, <3>2
  <2> QED
    BY <2>1, <2>2 DEF FedInv
<1> QED
  BY <1>1, <1>2, Typing, PTL DEF Spec

----------------------------------------------------------------------------
(***************************************************************************)
(* The entries and the clients' sets.  Between the two stand the handlers: *)
(* what differs is on its way, into the entry while the reader is at       *)
(* "enter", out of it while a handler has the key to do.  On a raced key   *)
(* that need not be so.                                                    *)
(***************************************************************************)

\* A flag is there for a client, or for good.
Needed == \A k \in flagged : k \in Pinned \/ members[k] # {}

\* What the handlers have run into each other with is in raced.
Noticed ==
    \A k \in Key \ raced :
        /\ Removing(k) => members[k] = {}
        /\ \A c \in closing : k \notin Subscribing(c)

\* No key is to be done twice, or is still held.
Tidy ==
    /\ \A a \in Actor : Distinct(task[a].keys)
    /\ \A c \in Client :
          /\ \A k \in Todo(task[Reader(c)]) : k \notin holds[c] /\ k \notin Todo(task[Socket(c)])
          /\ \A k \in Todo(task[Socket(c)]) : k \notin holds[c]
          /\ c \in closing => holds[c] = {}

Listed(c, k) ==
    k \in holds[c] => \/ c \in members[k]
                      \/ task[Reader(c)].at = "enter" /\ Head(task[Reader(c)].keys) = k

Leaving(c, k) == k \in Todo(task[Reader(c)]) \/ k \in Todo(task[Socket(c)])
Left(c, k) == c \in members[k] => k \in holds[c] \/ Leaving(c, k)

LedgerInv ==
    /\ Needed /\ Noticed /\ Tidy
    /\ \A c \in Client, k \in Key \ raced : Listed(c, k) /\ Left(c, k)

LEMMA NeededKept ==
    ASSUME TypeOK, Needed, [Next]_vars
    PROVE  Needed'
<1>0. /\ members \in [Key -> SUBSET Client] /\ flagged \subseteq Key
      /\ task \in [Actor -> TaskType]
      /\ \A a \in Actor : task[a].at # "idle" => task[a].keys # <<>> /\ Head(task[a].keys) \in Key
      /\ \A c \in Client : Reader(c) \in Actor
  BY DEF TypeOK, TaskType, Actor, Reader
<1>1. ASSUME NEW c \in Client, Enter(c) PROVE Needed'
  <2> DEFINE k == Head(task[Reader(c)].keys)
  <2>1. members' = [members EXCEPT ![k] = members[k] \cup {c}] /\ flagged' = flagged \cup {k}
    BY <1>1 DEF Enter
  <2>2. k \in Key
    BY <1>0, <1>1 DEF Enter
  <2> HIDE DEF k
  <2> QED
    BY <1>0, <2>1, <2>2 DEF Needed
<1>2. ASSUME NEW a \in Actor, Leave(a) PROVE Needed'
  <2> DEFINE k == Head(task[a].keys)
  <2>1. members' = [members EXCEPT ![k] = members[k] \ {a[1]}]
        /\ flagged' = (IF LastOne(k, a[1]) THEN flagged \ {k} ELSE flagged)
    BY <1>2 DEF Leave
  <2>2. k \in Key
    BY <1>0, <1>2 DEF Leave
  <2> HIDE DEF k
  <2>3. /\ members'[k] = members[k] \ {a[1]}
        /\ \A l \in Key : l # k => members'[l] = members[l]
    BY <1>0, <2>1, <2>2
  <2>4. k \in flagged' => k \in Pinned \/ members'[k] # {}
    BY <2>1, <2>3 DEF LastOne
  <2> QED
    BY <1>0, <2>1, <2>3, <2>4 DEF Needed
<1>3. ASSUME NEW a \in Actor, Told(a) PROVE Needed'
  <2>1. CASE task[a].at = "unsubscribe"
    BY <1>0, <1>3, <2>1 DEF Told, Needed
  <2>2. CASE task[a].at # "unsubscribe"
    BY <1>3, <2>2 DEF Told, Needed, entryVars
  <2> QED
    BY <2>1, <2>2
<1>4. ASSUME UNCHANGED <<members, flagged>> PROVE Needed'
  BY <1>4 DEF Needed
<1> QED
  BY <1>1, <1>2, <1>3, <1>4
     DEF Next, vars, entryVars, Subscribe, Unsubscribe, Close, Tell, Connect, Resubscribe,
         Forward, Drop

\* A handler's step that tells nobody to unsubscribe, and puts nobody on an
\* entry that is being removed, nor starts a subscribe of a client that closes.
LEMMA NoticedFrame ==
    ASSUME Noticed, task \in [Actor -> TaskType], NEW a \in Actor, NEW t,
           task' = [task EXCEPT ![a] = t],
           t.at = "unsubscribe" => /\ task[a].at = "unsubscribe" \/ members'[Head(t.keys)] = {}
                                   /\ task[a].at = "unsubscribe" => Head(t.keys) = Head(task[a].keys),
           t.at \in {"enter", "subscribe"} =>
               \/ a[1] \notin closing'
               \/ /\ task[a].at \in {"enter", "subscribe"}
                  /\ Head(t.keys) = Head(task[a].keys),
           \A k \in Key \ raced' : Removing(k) /\ members[k] = {} => members'[k] = {},
           raced \subseteq raced',
           \A c \in closing' \ closing : Subscribing(c) \subseteq raced',
           closing' \subseteq Client
    PROVE  Noticed'
<1>0. /\ task'[a] = t /\ \A b \in Actor : b # a => task'[b] = task[b]
      /\ \A c \in Client : Reader(c) \in Actor /\ Reader(c)[1] = c
  BY DEF Actor, Reader
<1> SUFFICES ASSUME NEW k \in Key \ raced'
             PROVE  /\ Removing(k)' => members'[k] = {}
                    /\ \A c \in closing' : k \notin Subscribing(c)'
  BY DEF Noticed
<1>1. ASSUME Removing(k)' PROVE members'[k] = {}
  <2>1. PICK b \in Actor : task'[b].at = "unsubscribe" /\ Head(task'[b].keys) = k
    BY <1>1 DEF Removing
  <2>2. CASE task[b].at = "unsubscribe" /\ Head(task[b].keys) = k
    <3>1. Removing(k)
      BY <2>2 DEF Removing
    <3> QED
      BY <3>1 DEF Noticed
  <2>3. CASE ~ (task[b].at = "unsubscribe" /\ Head(task[b].keys) = k)
    BY <1>0, <2>1, <2>3
  <2> QED
    BY <2>2, <2>3
<1>2. ASSUME NEW c \in closing', k \in Subscribing(c)' PROVE FALSE
  <2>1. /\ task'[Reader(c)].at \in {"enter", "subscribe"} /\ Head(task'[Reader(c)].keys) = k
        /\ c \in Client /\ Reader(c) \in Actor /\ Reader(c)[1] = c
    BY <1>0, <1>2 DEF Subscribing
  <2>2. task[Reader(c)].at \in {"enter", "subscribe"} /\ Head(task[Reader(c)].keys) = k
    BY <1>0, <2>1
  <2>3. k \in Subscribing(c)
    BY <2>2 DEF Subscribing
  <2> QED
    BY <2>3 DEF Noticed
<1> QED
  BY <1>1, <1>2

LEMMA NoticedKept ==
    ASSUME TypeOK, TypeOK', Noticed, [Next]_vars
    PROVE  Noticed'
<1>0. /\ members \in [Key -> SUBSET Client] /\ task \in [Actor -> TaskType]
      /\ closing' \subseteq Client
      /\ \A c \in Client : Reader(c) \in Actor /\ Socket(c) \in Actor /\ Reader(c)[1] = c
      /\ \A a \in Actor : task[a].at # "idle" => Head(task[a].keys) \in Key
  BY DEF TypeOK, TaskType, Actor, Reader, Socket
<1>r. \A t : Rest(t).at \notin {"enter", "subscribe", "unsubscribe"}
  BY DEF Rest, Idle, At
<1>1. ASSUME NEW c \in Client, NEW k \in Key, Subscribe(c, k) \/ Unsubscribe(c, k) PROVE Noticed'
  <2>1. \/ task' = [task EXCEPT ![Reader(c)] = At("enter", <<k>>)]
        \/ task' = [task EXCEPT ![Reader(c)] = At("leave", <<k>>)]
    BY <1>1 DEF Subscribe, Unsubscribe
  <2>2. UNCHANGED <<closing, members, raced>> /\ c \notin closing
    BY <1>1 DEF Subscribe, Unsubscribe, entryVars
  <2>3. At("enter", <<k>>).at = "enter" /\ At("leave", <<k>>).at = "leave"
    BY DEF At
  <2>4. CASE task' = [task EXCEPT ![Reader(c)] = At("enter", <<k>>)]
    BY <1>0, <2>2, <2>3, <2>4, NoticedFrame
  <2>5. CASE task' = [task EXCEPT ![Reader(c)] = At("leave", <<k>>)]
    BY <1>0, <2>2, <2>3, <2>5, NoticedFrame
  <2> QED
    BY <2>1, <2>4, <2>5
<1>2. ASSUME NEW c \in Client, Enter(c) PROVE Noticed'
  <2> DEFINE l == Head(task[Reader(c)].keys)
             t == IF l \in flagged THEN Idle ELSE Telling("subscribe", <<l>>)
  <2>1. /\ task[Reader(c)].at = "enter" /\ task' = [task EXCEPT ![Reader(c)] = t]
        /\ members' = [members EXCEPT ![l] = members[l] \cup {c}]
        /\ raced' = (IF Removing(l) THEN raced \cup {l} ELSE raced)
        /\ closing' = closing
    BY <1>2 DEF Enter, clientVars
  <2>2. l \in Key
    BY <1>0, <2>1
  <2>3. t.at # "unsubscribe" /\ (t.at \in {"enter", "subscribe"} => Head(t.keys) = l)
    BY Todos DEF Idle, At, Telling
  <2>4. \A k \in Key \ raced' : Removing(k) /\ members[k] = {} => members'[k] = {}
    <3> SUFFICES ASSUME NEW k \in Key \ raced', Removing(k), members[k] = {}
                 PROVE  members'[k] = {}
      OBVIOUS
    <3>1. k # l
      BY <2>1
    <3> QED
      BY <1>0, <2>1, <2>2, <3>1
  <2> HIDE DEF t
  <2>5. raced \subseteq raced'
    BY <2>1
  <2>6. /\ Reader(c) \in Actor
        /\ t.at \in {"enter", "subscribe"} =>
              /\ task[Reader(c)].at \in {"enter", "subscribe"}
              /\ Head(t.keys) = Head(task[Reader(c)].keys)
    BY <1>0, <2>1, <2>3
  <2>7. \A d \in closing' \ closing : Subscribing(d) \subseteq raced'
    BY <2>1
  <2> QED
    BY <1>0, <2>1, <2>3, <2>4, <2>5, <2>6, <2>7, NoticedFrame
<1>3. ASSUME NEW c \in Client, Close(c) PROVE Noticed'
  <2>1. PICK q : task' = [task EXCEPT ![Socket(c)] = IF q = <<>> THEN Idle ELSE At("leave", q)]
    BY <1>3 DEF Close
  <2>2. (IF q = <<>> THEN Idle ELSE At("leave", q)).at \in {"idle", "leave"}
    BY DEF Idle, At
  <2>3. /\ closing' = closing \cup {c} /\ raced' = raced \cup Subscribing(c)
        /\ members' = members
    BY <1>3 DEF Close, entryVars
  <2> QED
    BY <1>0, <2>1, <2>2, <2>3, NoticedFrame
<1>4. ASSUME NEW a \in Actor, Leave(a) PROVE Noticed'
  <2> DEFINE l == Head(task[a].keys)
  <2>1. /\ task[a].at = "leave"
        /\ members' = [members EXCEPT ![l] = members[l] \ {a[1]}]
        /\ \/ LastOne(l, a[1]) /\ task' = [task EXCEPT ![a] = Telling("unsubscribe", task[a].keys)]
           \/ task' = [task EXCEPT ![a] = Rest(task[a])]
        /\ UNCHANGED <<closing, raced>>
    BY <1>0, <1>4 DEF Leave, clientVars
  <2>2. l \in Key
    BY <1>0, <2>1
  <2>3. /\ LastOne(l, a[1]) => members'[l] = {}
        /\ \A k \in Key \ raced' : Removing(k) /\ members[k] = {} => members'[k] = {}
    BY <1>0, <2>1, <2>2 DEF LastOne
  <2>4. /\ Telling("unsubscribe", task[a].keys).at = "unsubscribe"
        /\ Head(Telling("unsubscribe", task[a].keys).keys) = l
    BY DEF Telling
  <2>5. CASE task' = [task EXCEPT ![a] = Rest(task[a])]
    BY <1>0, <1>r, <2>1, <2>3, <2>5, NoticedFrame
  <2>6. CASE LastOne(l, a[1]) /\ task' = [task EXCEPT ![a] = Telling("unsubscribe", task[a].keys)]
    BY <1>0, <2>1, <2>3, <2>4, <2>6, NoticedFrame
  <2> QED
    BY <2>1, <2>5, <2>6
<1>5. ASSUME NEW a \in Actor, Told(a) PROVE Noticed'
  <2>1. task' = [task EXCEPT ![a] = Rest(task[a])] /\ UNCHANGED <<closing, raced>>
    BY <1>0, <1>5 DEF Told, clientVars
  <2>2. \A k \in Key : members[k] = {} => members'[k] = {}
    BY <1>0, <1>5 DEF Told, entryVars
  <2> QED
    BY <1>0, <1>r, <2>1, <2>2, NoticedFrame
<1>6. ASSUME UNCHANGED <<members, closing, raced>>,
             \A b \in Actor : task'[b].at = task[b].at /\ task'[b].keys = task[b].keys
      PROVE  Noticed'
  <2>1. \A k \in Key : Removing(k)' <=> Removing(k)
    BY <1>6 DEF Removing
  <2>2. \A c \in Client : Subscribing(c)' = Subscribing(c)
    BY <1>0, <1>6 DEF Subscribing
  <2> QED
    BY <1>0, <1>6, <2>1, <2>2 DEF Noticed
<1>7. ASSUME NEW a \in Actor, Tell(a) PROVE Noticed'
  <2>1. PICK s \in task[a].left : task' = [task EXCEPT ![a].left = task[a].left \ {s}]
    BY <1>7 DEF Tell
  <2>2. \A b \in Actor : task'[b].at = task[b].at /\ task'[b].keys = task[b].keys
    BY <1>0, <2>1 DEF TaskType
  <2> QED
    BY <1>6, <1>7, <2>2 DEF Tell, clientVars, entryVars
<1>8. ASSUME NEW s \in Source, Connect(s) \/ Resubscribe(s) \/ Forward(s) \/ Drop(s)
      PROVE  Noticed'
  BY <1>6, <1>8 DEF Connect, Resubscribe, Forward, Drop, clientVars, entryVars
<1>9. CASE UNCHANGED vars
  BY <1>6, <1>9 DEF vars
<1> QED
  BY <1>1, <1>2, <1>3, <1>4, <1>5, <1>7, <1>8, <1>9 DEF Next

\* A handler that takes nothing new on leaves the handlers tidy.
LEMMA TidyFrame ==
    ASSUME Tidy, task \in [Actor -> TaskType], NEW a \in Actor, NEW t,
           task' = [task EXCEPT ![a] = t], UNCHANGED <<holds, closing>>,
           Distinct(t.keys), Todo(t) \subseteq Todo(task[a])
    PROVE  Tidy'
<1>1. task'[a] = t /\ \A b \in Actor : b # a => task'[b] = task[b]
  OBVIOUS
<1>2. \A b \in Actor : Distinct(task'[b].keys) /\ Todo(task'[b]) \subseteq Todo(task[b])
  BY <1>1 DEF Tidy
<1>3. \A c \in Client : Reader(c) \in Actor /\ Socket(c) \in Actor
  BY DEF Actor, Reader, Socket
<1> QED
  BY <1>2, <1>3 DEF Tidy

\* What a handler at work has to do, and what the end of a key leaves of it.
LEMMA Works ==
    ASSUME TypeOK, Tidy, NEW a \in Actor, task[a].at # "idle"
    PROVE  /\ task[a].keys \in Seq(Key) /\ task[a].keys # <<>> /\ Distinct(task[a].keys)
           /\ Head(task[a].keys) \in Key
           /\ Range(task[a].keys) = {Head(task[a].keys)} \cup Range(Tail(task[a].keys))
           /\ Head(task[a].keys) \notin Range(Tail(task[a].keys))
           /\ Todo(Rest(task[a])) = Range(Tail(task[a].keys)) /\ Distinct(Rest(task[a]).keys)
           /\ Len(task[a].keys) = 1 => Range(Tail(task[a].keys)) = {}
<1>1. task[a].keys \in Seq(Key) /\ task[a].keys # <<>> /\ Distinct(task[a].keys)
  BY DEF TypeOK, Tidy
<1> QED
  BY <1>1, Peel, Rested

LEMMA TidyKept ==
    ASSUME TypeOK, Tidy, Open, AskedInv, [Next]_vars
    PROVE  Tidy'
<1>0. /\ holds \in [Client -> SUBSET Key] /\ task \in [Actor -> TaskType]
      /\ \A c, d \in Client : /\ Reader(c) \in Actor /\ Socket(c) \in Actor
                              /\ Reader(c) # Socket(d)
                              /\ c # d => Reader(c) # Reader(d) /\ Socket(c) # Socket(d)
      /\ \A a \in Actor : \E c \in Client : a = Reader(c) \/ a = Socket(c)
  BY DEF TypeOK, TaskType, Actor, Reader, Socket
<1>o. \A c \in Client \ closing : Todo(task[Socket(c)]) = {}
  BY DEF Open, Todo
<1>1. ASSUME NEW c \in Client, NEW k \in Key, Subscribe(c, k) PROVE Tidy'
  <2>1. /\ task' = [task EXCEPT ![Reader(c)] = At("enter", <<k>>)] /\ c \notin closing
        /\ holds' = [holds EXCEPT ![c] = holds[c] \cup {k}] /\ closing' = closing
    BY <1>1 DEF Subscribe
  <2>2. /\ Todo(At("enter", <<k>>)) = {} /\ Distinct(At("enter", <<k>>).keys)
    BY Todos DEF At
  <2>3. /\ \A a \in Actor : Distinct(task'[a].keys)
        /\ \A d \in Client : /\ Todo(task'[Socket(d)]) = Todo(task[Socket(d)])
                             /\ d # c => Todo(task'[Reader(d)]) = Todo(task[Reader(d)])
                             /\ d # c => holds'[d] = holds[d]
        /\ Todo(task'[Reader(c)]) = {}
    BY <1>0, <2>1, <2>2 DEF Tidy
  <2> QED
    BY <1>o, <2>1, <2>3 DEF Tidy
<1>2. ASSUME NEW c \in Client, NEW k \in Key, Unsubscribe(c, k) PROVE Tidy'
  <2>1. /\ task' = [task EXCEPT ![Reader(c)] = At("leave", <<k>>)] /\ c \notin closing
        /\ holds' = [holds EXCEPT ![c] = holds[c] \ {k}] /\ closing' = closing
    BY <1>2 DEF Unsubscribe
  <2>2. /\ Todo(At("leave", <<k>>)) = {k} /\ Distinct(At("leave", <<k>>).keys)
    BY Todos DEF At
  <2>3. /\ \A a \in Actor : Distinct(task'[a].keys)
        /\ \A d \in Client : /\ Todo(task'[Socket(d)]) = Todo(task[Socket(d)])
                             /\ d # c => Todo(task'[Reader(d)]) = Todo(task[Reader(d)])
                             /\ d # c => holds'[d] = holds[d]
        /\ Todo(task'[Reader(c)]) = {k} /\ holds'[c] = holds[c] \ {k}
    BY <1>0, <2>1, <2>2 DEF Tidy
  <2> QED
    BY <1>o, <2>1, <2>3 DEF Tidy
<1>3. ASSUME NEW c \in Client, Close(c) PROVE Tidy'
  <2>1. PICK q \in SetToSeqs(holds[c]) :
           task' = [task EXCEPT ![Socket(c)] = IF q = <<>> THEN Idle ELSE At("leave", q)]
    BY <1>3 DEF Close
  <2>2. c \notin closing /\ closing' = closing \cup {c} /\ holds' = [holds EXCEPT ![c] = {}]
    BY <1>3 DEF Close
  <2> DEFINE t == IF q = <<>> THEN Idle ELSE At("leave", q)
  <2>3. Distinct(q) /\ Range(q) = holds[c]
    BY <1>0, <2>1, Drained
  <2>4. Distinct(t.keys) /\ Todo(t) \subseteq holds[c]
    <3>1. CASE q = <<>>
      BY <3>1, Todos
    <3>2. CASE q # <<>>
      BY <2>3, <3>2, Todos DEF At
    <3> QED
      BY <3>1, <3>2
  <2> HIDE DEF t
  <2>5. task'[Socket(c)] = t /\ \A b \in Actor : b # Socket(c) => task'[b] = task[b]
    BY <1>0, <2>1 DEF t
  <2>6. /\ \A a \in Actor : Distinct(task'[a].keys)
        /\ \A d \in Client : /\ task'[Reader(d)] = task[Reader(d)]
                             /\ d # c => task'[Socket(d)] = task[Socket(d)]
                             /\ d # c => holds'[d] = holds[d]
        /\ holds'[c] = {}
    BY <1>0, <2>2, <2>4, <2>5 DEF Tidy
  <2> QED
    BY <2>2, <2>4, <2>5, <2>6 DEF Tidy
<1>4. ASSUME NEW c \in Client, Enter(c) PROVE Tidy'
  <2> DEFINE l == Head(task[Reader(c)].keys)
             t == IF l \in flagged THEN Idle ELSE Telling("subscribe", <<l>>)
  <2>1. task' = [task EXCEPT ![Reader(c)] = t] /\ UNCHANGED <<holds, closing>>
    BY <1>4 DEF Enter, clientVars
  <2>2. Todo(t) = {} /\ Distinct(t.keys)
    BY Todos DEF Telling
  <2> HIDE DEF t
  <2> QED
    BY <1>0, <2>1, <2>2, TidyFrame
<1>5. ASSUME NEW a \in Actor, Leave(a) PROVE Tidy'
  <2>1. /\ task[a].at = "leave"
        /\ \/ task' = [task EXCEPT ![a] = Telling("unsubscribe", task[a].keys)]
           \/ task' = [task EXCEPT ![a] = Rest(task[a])]
        /\ UNCHANGED <<holds, closing>>
    BY <1>0, <1>5 DEF Leave, clientVars
  <2>2. Todo(task[a]) = Range(task[a].keys)
    BY <2>1 DEF Todo
  <2>3. /\ Todo(Telling("unsubscribe", task[a].keys)) = Range(Tail(task[a].keys))
        /\ Telling("unsubscribe", task[a].keys).keys = task[a].keys
    BY Todos DEF Telling
  <2>4. /\ Distinct(task[a].keys) /\ Distinct(Rest(task[a]).keys)
        /\ Todo(Rest(task[a])) \subseteq Todo(task[a])
        /\ Range(Tail(task[a].keys)) \subseteq Todo(task[a])
    <3>1. task[a].at # "idle"
      BY <2>1
    <3>2. /\ Distinct(task[a].keys) /\ Distinct(Rest(task[a]).keys)
          /\ Todo(Rest(task[a])) = Range(Tail(task[a].keys))
          /\ Range(task[a].keys) = {Head(task[a].keys)} \cup Range(Tail(task[a].keys))
      BY <3>1, Works
    <3> QED
      BY <2>2, <3>2
  <2>5. CASE task' = [task EXCEPT ![a] = Telling("unsubscribe", task[a].keys)]
    BY <1>0, <2>1, <2>3, <2>4, <2>5, TidyFrame
  <2>6. CASE task' = [task EXCEPT ![a] = Rest(task[a])]
    BY <1>0, <2>1, <2>4, <2>6, TidyFrame
  <2> QED
    BY <2>1, <2>5, <2>6
<1>6. ASSUME NEW a \in Actor, Told(a) PROVE Tidy'
  <2>1. /\ task[a].at \in Verb /\ task' = [task EXCEPT ![a] = Rest(task[a])]
        /\ UNCHANGED <<holds, closing>>
    BY <1>0, <1>6 DEF Told, clientVars
  <2>2. CASE task[a].at = "unsubscribe"
    <3>1. Todo(task[a]) = Range(Tail(task[a].keys))
      BY <2>2 DEF Todo
    <3> QED
      BY <1>0, <2>1, <2>2, <3>1, Works, TidyFrame
  <2>3. CASE task[a].at = "subscribe"
    <3>1. PICK c \in Client : a = Reader(c)
      BY <1>0, <2>3 DEF Open
    <3>2. Len(task[a].keys) = 1
      BY <2>3, <3>1 DEF AskedInv
    <3>3. Distinct(Rest(task[a]).keys) /\ Todo(Rest(task[a])) \subseteq Todo(task[a])
      BY <2>3, <3>2, Works
    <3> QED
      BY <1>0, <2>1, <3>3, TidyFrame
  <2> QED
    BY <2>1, <2>2, <2>3 DEF Verb
<1>7. ASSUME UNCHANGED <<holds, closing>>,
             \A b \in Actor : task'[b].at = task[b].at /\ task'[b].keys = task[b].keys
      PROVE  Tidy'
  <2>1. \A b \in Actor : Todo(task'[b]) = Todo(task[b])
    BY <1>7 DEF Todo
  <2> QED
    BY <1>0, <1>7, <2>1 DEF Tidy
<1>8. ASSUME NEW a \in Actor, Tell(a) PROVE Tidy'
  <2>1. PICK s \in task[a].left : task' = [task EXCEPT ![a].left = task[a].left \ {s}]
    BY <1>8 DEF Tell
  <2>2. \A b \in Actor : task'[b].at = task[b].at /\ task'[b].keys = task[b].keys
    BY <1>0, <2>1 DEF TaskType
  <2> QED
    BY <1>7, <1>8, <2>2 DEF Tell, clientVars
<1>9. ASSUME NEW s \in Source, Connect(s) \/ Resubscribe(s) \/ Forward(s) \/ Drop(s)
      PROVE  Tidy'
  BY <1>7, <1>9 DEF Connect, Resubscribe, Forward, Drop, clientVars
<1>10. CASE UNCHANGED vars
  BY <1>7, <1>10 DEF vars
<1> QED
  BY <1>1, <1>2, <1>3, <1>4, <1>5, <1>6, <1>8, <1>9, <1>10 DEF Next

\* A step that leaves alone what the client's list and the entry's say of
\* the key, and finishes nothing that is on its way.
LEMMA ListedFrame ==
    ASSUME NEW c \in Client, NEW k \in Key, Listed(c, k), Left(c, k),
           k \in holds'[c] <=> k \in holds[c],
           c \in members'[k] <=> c \in members[k],
           task[Reader(c)].at = "enter" /\ Head(task[Reader(c)].keys) = k =>
              task'[Reader(c)].at = "enter" /\ Head(task'[Reader(c)].keys) = k,
           Leaving(c, k) => Leaving(c, k)'
    PROVE  Listed(c, k)' /\ Left(c, k)'
BY DEF Listed, Left

LEMMA ListedKept ==
    ASSUME TypeOK, TypeOK', AskedInv, Open, LedgerInv, [Next]_vars,
           NEW c \in Client, NEW k \in Key \ raced'
    PROVE  Listed(c, k)' /\ Left(c, k)'
<1>0. /\ \A d \in Client : /\ Reader(d) \in Actor /\ Socket(d) \in Actor
                           /\ Reader(d)[1] = d /\ Socket(d)[1] = d
                           /\ Reader(d) # Socket(d)
      /\ \A a \in Actor : a = Reader(a[1]) \/ a = Socket(a[1])
      /\ \A a \in Actor : a[1] \in Client
      /\ holds \in [Client -> SUBSET Key] /\ members \in [Key -> SUBSET Client]
      /\ task \in [Actor -> TaskType]
      /\ \A a \in Actor : task[a].at # "idle" => Head(task[a].keys) \in Key
  BY DEF TypeOK, TaskType, Actor, Reader, Socket
<1>k. k \in Key /\ k \notin raced /\ Listed(c, k) /\ Left(c, k)
  <2>1. raced \subseteq raced'
    BY DEF Next, vars, Subscribe, Enter, Unsubscribe, Close, Leave, Tell, Told, Connect,
           Resubscribe, Forward, Drop
  <2> QED
    BY <2>1 DEF LedgerInv
<1>s. Todo(Idle) = {} /\ Idle.at = "idle"
  BY Todos
<1> DEFINE Same == /\ task'[Reader(c)] = task[Reader(c)]
                   /\ task'[Socket(c)] = task[Socket(c)]
<1>f. ASSUME Same, k \in holds'[c] <=> k \in holds[c], c \in members'[k] <=> c \in members[k]
      PROVE  Listed(c, k)' /\ Left(c, k)'
  BY <1>f, <1>k, ListedFrame DEF Leaving
<1>a. ASSUME NEW a \in Actor, NEW t, task' = [task EXCEPT ![a] = t], a[1] # c
      PROVE  Same
  BY <1>0, <1>a
<1> HIDE DEF Same
<1>1. ASSUME NEW d \in Client, NEW l \in Key, Subscribe(d, l) PROVE Listed(c, k)' /\ Left(c, k)'
  <2>1. /\ task' = [task EXCEPT ![Reader(d)] = At("enter", <<l>>)] /\ task[Reader(d)] = Idle
        /\ holds' = [holds EXCEPT ![d] = holds[d] \cup {l}] /\ members' = members
    BY <1>1 DEF Subscribe, entryVars
  <2>2. CASE d # c
    BY <1>0, <1>a, <1>f, <2>1, <2>2
  <2>3. CASE d = c
    <3>1. /\ task'[Reader(c)] = At("enter", <<l>>) /\ task'[Socket(c)] = task[Socket(c)]
          /\ task[Reader(c)] = Idle /\ holds'[c] = holds[c] \cup {l}
      BY <1>0, <2>1, <2>3
    <3>2. At("enter", <<l>>).at = "enter" /\ Head(At("enter", <<l>>).keys) = l
      BY DEF At
    <3>3. CASE l = k
      BY <3>1, <3>2, <3>3 DEF Listed, Left
    <3>4. CASE l # k
      BY <1>k, <1>s, <2>1, <3>1, <3>4, ListedFrame DEF Leaving
    <3> QED
      BY <3>3, <3>4
  <2> QED
    BY <2>2, <2>3
<1>2. ASSUME NEW d \in Client, NEW l \in Key, Unsubscribe(d, l) PROVE Listed(c, k)' /\ Left(c, k)'
  <2>1. /\ task' = [task EXCEPT ![Reader(d)] = At("leave", <<l>>)] /\ task[Reader(d)] = Idle
        /\ holds' = [holds EXCEPT ![d] = holds[d] \ {l}] /\ members' = members
    BY <1>2 DEF Unsubscribe, entryVars
  <2>2. CASE d # c
    BY <1>0, <1>a, <1>f, <2>1, <2>2
  <2>3. CASE d = c
    <3>1. /\ task'[Reader(c)] = At("leave", <<l>>) /\ task'[Socket(c)] = task[Socket(c)]
          /\ task[Reader(c)] = Idle /\ holds'[c] = holds[c] \ {l}
      BY <1>0, <2>1, <2>3
    <3>2. Todo(At("leave", <<l>>)) = {l}
      BY Todos
    <3>3. CASE l = k
      BY <3>1, <3>2, <3>3 DEF Listed, Left, Leaving
    <3>4. CASE l # k
      BY <1>k, <1>s, <2>1, <3>1, <3>4, ListedFrame DEF Leaving
    <3> QED
      BY <3>3, <3>4
  <2> QED
    BY <2>2, <2>3
<1>3. ASSUME NEW d \in Client, Close(d) PROVE Listed(c, k)' /\ Left(c, k)'
  <2>1. PICK q \in SetToSeqs(holds[d]) :
           task' = [task EXCEPT ![Socket(d)] = IF q = <<>> THEN Idle ELSE At("leave", q)]
    BY <1>3 DEF Close
  <2>2. holds' = [holds EXCEPT ![d] = {}] /\ members' = members /\ d \notin closing
    BY <1>3 DEF Close, entryVars
  <2>3. CASE d # c
    BY <1>0, <1>a, <1>f, <2>1, <2>2, <2>3
  <2>4. CASE d = c
    <3>1. /\ task'[Socket(c)] = (IF q = <<>> THEN Idle ELSE At("leave", q))
          /\ task'[Reader(c)] = task[Reader(c)] /\ holds'[c] = {}
      BY <1>0, <2>1, <2>2, <2>4
    <3>2. Todo(task[Socket(c)]) = {}
      BY <2>2, <2>4 DEF Open, Todo
    <3>3. k \in holds[c] => k \in Todo(task'[Socket(c)])
      <4> SUFFICES ASSUME k \in holds[c] PROVE k \in Todo(task'[Socket(c)])
        OBVIOUS
      <4>1. Range(q) = holds[c]
        BY <1>0, <2>1, <2>4, Drained
      <4>2. q # <<>>
        BY <4>1 DEF Range
      <4>3. Todo(At("leave", q)) = Range(q)
        BY Todos
      <4> QED
        BY <3>1, <4>1, <4>2, <4>3
    <3> QED
      BY <1>k, <2>2, <3>1, <3>2, <3>3 DEF Listed, Left, Leaving
  <2> QED
    BY <2>3, <2>4
<1>4. ASSUME NEW d \in Client, Enter(d) PROVE Listed(c, k)' /\ Left(c, k)'
  <2> DEFINE l == Head(task[Reader(d)].keys)
             t == IF l \in flagged THEN Idle ELSE Telling("subscribe", <<l>>)
  <2>1. /\ task[Reader(d)].at = "enter" /\ task' = [task EXCEPT ![Reader(d)] = t]
        /\ members' = [members EXCEPT ![l] = members[l] \cup {d}] /\ holds' = holds
    BY <1>4 DEF Enter, clientVars
  <2> HIDE DEF t
  <2>2. CASE d # c
    <3>1. c \in members'[k] <=> c \in members[k]
      BY <1>0, <1>k, <2>1, <2>2
    <3> QED
      BY <1>0, <1>a, <1>f, <2>1, <2>2, <3>1
  <2>3. CASE d = c /\ l # k
    <3>1. task'[Socket(c)] = task[Socket(c)] /\ Todo(task[Reader(c)]) = {}
      BY <1>0, <2>1, <2>3 DEF Todo
    <3>2. c \in members'[k] <=> c \in members[k]
      BY <1>0, <1>k, <2>1, <2>3
    <3> QED
      BY <1>k, <2>1, <2>3, <3>1, <3>2, ListedFrame DEF Leaving
  <2>4. CASE d = c /\ l = k
    <3>1. c \in members'[k]
      BY <1>0, <1>k, <2>1, <2>4
    <3>2. k \in Subscribing(c)
      BY <2>1, <2>4 DEF Subscribing
    <3>3. c \notin closing
      BY <1>k, <3>2 DEF LedgerInv, Noticed
    <3>4. k \in holds[c]
      BY <2>1, <2>4, <3>3 DEF AskedInv, Asked
    <3> QED
      BY <2>1, <3>1, <3>4 DEF Listed, Left
  <2> QED
    BY <2>2, <2>3, <2>4
<1>5. ASSUME NEW a \in Actor, Leave(a) PROVE Listed(c, k)' /\ Left(c, k)'
  <2> DEFINE l == Head(task[a].keys)
  <2>1. /\ task[a].at = "leave" /\ holds' = holds
        /\ members' = [members EXCEPT ![l] = members[l] \ {a[1]}]
        /\ \/ task' = [task EXCEPT ![a] = Telling("unsubscribe", task[a].keys)]
           \/ task' = [task EXCEPT ![a] = Rest(task[a])]
    BY <1>0, <1>5 DEF Leave, clientVars
  <2>2. /\ Todo(task[a]) = {l} \cup Range(Tail(task[a].keys))
        /\ Todo(Rest(task[a])) = Range(Tail(task[a].keys))
        /\ Todo(Telling("unsubscribe", task[a].keys)) = Range(Tail(task[a].keys))
    <3>1. Todo(task[a]) = Range(task[a].keys)
      BY <2>1 DEF Todo
    <3> QED
      BY <2>1, <3>1, Works, Todos DEF LedgerInv
  <2>3. /\ Todo(task'[a]) = Range(Tail(task[a].keys))
        /\ \A b \in Actor : b # a => task'[b] = task[b]
    BY <1>0, <2>1, <2>2
  <2>4. CASE a[1] # c
    <3>1. c \in members'[k] <=> c \in members[k]
      BY <1>0, <1>k, <2>1, <2>4
    <3>2. Same
      BY <1>0, <2>3, <2>4 DEF Same
    <3> QED
      BY <1>f, <2>1, <3>1, <3>2
  <2>5. CASE a[1] = c /\ l # k
    <3>1. c \in members'[k] <=> c \in members[k]
      BY <1>0, <1>k, <2>1, <2>5
    <3>2. \A b \in Actor : k \in Todo(task[b]) => k \in Todo(task'[b])
      BY <2>2, <2>3, <2>5
    <3>3. Leaving(c, k) => Leaving(c, k)'
      BY <1>0, <3>2 DEF Leaving
    <3>4. task[Reader(c)].at = "enter" => task'[Reader(c)] = task[Reader(c)]
      BY <1>0, <2>1, <2>3
    <3> QED
      BY <1>k, <2>1, <3>1, <3>3, <3>4, ListedFrame
  <2>6. CASE a[1] = c /\ l = k
    <3>1. c \notin members'[k]
      BY <1>0, <1>k, <2>1, <2>6
    <3>2. k \notin holds[c]
      <4>1. k \in Todo(task[a]) /\ (a = Reader(c) \/ a = Socket(c))
        BY <1>0, <2>2, <2>6
      <4> QED
        BY <4>1 DEF LedgerInv, Tidy
    <3> QED
      BY <2>1, <3>1, <3>2 DEF Listed, Left
  <2> QED
    BY <2>4, <2>5, <2>6
<1>6. ASSUME NEW a \in Actor, Tell(a) PROVE Listed(c, k)' /\ Left(c, k)'
  <2>1. PICK s \in task[a].left : task' = [task EXCEPT ![a].left = task[a].left \ {s}]
    BY <1>6 DEF Tell
  <2>2. \A b \in Actor : task'[b].at = task[b].at /\ task'[b].keys = task[b].keys
    BY <1>0, <2>1 DEF TaskType
  <2>3. \A b \in Actor : Todo(task'[b]) = Todo(task[b])
    BY <2>2 DEF Todo
  <2>4. holds' = holds /\ members' = members
    BY <1>6 DEF Tell, clientVars, entryVars
  <2>5. Leaving(c, k) => Leaving(c, k)'
    BY <1>0, <2>3 DEF Leaving
  <2> QED
    BY <1>0, <1>k, <2>2, <2>4, <2>5, ListedFrame
<1>7. ASSUME NEW a \in Actor, Told(a) PROVE Listed(c, k)' /\ Left(c, k)'
  <2>1. task[a].at \in Verb /\ task' = [task EXCEPT ![a] = Rest(task[a])] /\ holds' = holds
    BY <1>0, <1>7 DEF Told, clientVars
  <2>2. members'[k] = members[k]
    <3>1. CASE task[a].at = "unsubscribe"
      <4>1. members' = [members EXCEPT ![Head(task[a].keys)] = {}]
        BY <1>7, <3>1 DEF Told
      <4>2. Head(task[a].keys) = k => members[k] = {}
        <5>1. Head(task[a].keys) = k => Removing(k)
          BY <3>1 DEF Removing
        <5> QED
          BY <1>k, <5>1 DEF LedgerInv, Noticed
      <4> QED
        BY <1>0, <1>k, <4>1, <4>2
    <3>2. CASE task[a].at # "unsubscribe"
      BY <1>7, <3>2 DEF Told, entryVars
    <3> QED
      BY <3>1, <3>2
  <2>3. Todo(task[a]) \subseteq Todo(Rest(task[a]))
    <3>1. Todo(task[a]) \subseteq Range(Tail(task[a].keys))
      BY <2>1 DEF Todo, Verb
    <3> QED
      BY <2>1, <3>1, Works DEF LedgerInv, Verb
  <2>4. \A b \in Actor : Todo(task[b]) \subseteq Todo(task'[b])
    BY <1>0, <2>1, <2>3
  <2>5. Leaving(c, k) => Leaving(c, k)'
    BY <1>0, <2>4 DEF Leaving
  <2>6. task[Reader(c)].at = "enter" => task'[Reader(c)] = task[Reader(c)]
    BY <1>0, <2>1 DEF Verb
  <2> QED
    BY <1>k, <2>1, <2>2, <2>5, <2>6, ListedFrame
<1>8. ASSUME NEW s \in Source, Connect(s) \/ Resubscribe(s) \/ Forward(s) \/ Drop(s)
      PROVE  Listed(c, k)' /\ Left(c, k)'
  BY <1>f, <1>8 DEF Connect, Resubscribe, Forward, Drop, clientVars, entryVars, Same
<1>9. CASE UNCHANGED vars
  BY <1>f, <1>9 DEF vars, Same
<1> QED
  BY <1>1, <1>2, <1>3, <1>4, <1>5, <1>6, <1>7, <1>8, <1>9 DEF Next

LEMMA LedgerAlways == Spec => []LedgerInv
<1>1. Init => LedgerInv
  <2> SUFFICES ASSUME Init PROVE LedgerInv
    OBVIOUS
  <2>1. \A a \in Actor : task[a] = Idle
    BY DEF Init
  <2>2. \A c \in Client : Reader(c) \in Actor /\ Socket(c) \in Actor
    BY DEF Actor, Reader, Socket
  <2>3. /\ \A k \in Key : members[k] = {} /\ \A c \in Client : holds[c] = {}
        /\ closing = {} /\ flagged = Pinned
    BY DEF Init
  <2>4. /\ Todo(Idle) = {} /\ Distinct(Idle.keys) /\ Idle.at = "idle"
    BY Todos
  <2>5. Needed /\ Noticed
    BY <2>1, <2>3, <2>4 DEF Needed, Noticed, Removing
  <2>6. Tidy
    BY <2>1, <2>2, <2>3, <2>4 DEF Tidy
  <2> QED
    BY <2>3, <2>5, <2>6 DEF LedgerInv, Listed, Left
<1>2. /\ TypeOK /\ TypeOK' /\ AskedInv /\ FedInv /\ LedgerInv /\ [Next]_vars => LedgerInv'
  <2> SUFFICES ASSUME TypeOK, TypeOK', AskedInv, FedInv, LedgerInv, [Next]_vars
               PROVE  LedgerInv'
    OBVIOUS
  <2>1. Needed /\ Noticed /\ Tidy /\ Open
    BY DEF LedgerInv, FedInv
  <2>2. Needed' /\ Noticed' /\ Tidy'
    BY <2>1, NeededKept, NoticedKept, TidyKept
  <2>3. \A c \in Client, k \in Key \ raced' : Listed(c, k)' /\ Left(c, k)'
    BY <2>1, ListedKept
  <2> QED
    BY <2>2, <2>3 DEF LedgerInv
<1> QED
  BY <1>1, <1>2, Typing, AskedAlways, FedAlways, PTL DEF Spec

----------------------------------------------------------------------------
(***************************************************************************)
(* The other way round, on a key that is not raced: what has lost its flag *)
(* is streamed no longer, once the queue is worked off, unless the handler *)
(* that gives it up has still to tell the source.                          *)
(***************************************************************************)
ToUnsubscribe(s, k) ==
    \E a \in Actor : /\ task[a].at = "unsubscribe" /\ s \in task[a].left
                     /\ Head(task[a].keys) = k
Unfed(s, k) ==
    conn[s] # "down" /\ k \in FoldLeft(Heed, Base(s), ctrl[s]) => ToUnsubscribe(s, k)
UnfedInv == \A s \in Source, k \in Key \ raced : k \notin flagged => Unfed(s, k)

\* Who tells the sources of an unraced key to subscribe holds it, so it has
\* the flag.
LEMMA SubscribedHasFlag ==
    ASSUME TypeOK, AskedInv, FedInv, LedgerInv, NEW k \in Key \ raced, NEW a \in Actor,
           task[a].at = "subscribe", Head(task[a].keys) = k
    PROVE  k \in flagged
<1>1. PICK c \in Client : a = Reader(c)
  BY DEF FedInv, Open, Actor, Reader, Socket
<1>2. k \in Subscribing(c)
  BY <1>1 DEF Subscribing
<1>3. c \notin closing
  BY <1>2 DEF LedgerInv, Noticed
<1>4. k \in holds[c]
  BY <1>1, <1>3 DEF AskedInv, Asked
<1>5. c \in members[k]
  BY <1>1, <1>4 DEF LedgerInv, Listed
<1> QED
  BY <1>5 DEF FedInv, Flagged

\* A handler goes on that had no source left to tell, or was about another key.
LEMMA StillUntelling ==
    ASSUME task \in [Actor -> TaskType], NEW a \in Actor, NEW t,
           task' = [task EXCEPT ![a] = t], NEW s \in Source, NEW k,
           task[a].at = "unsubscribe" => task[a].left = {}
    PROVE  ToUnsubscribe(s, k) => ToUnsubscribe(s, k)'
<1> SUFFICES ASSUME ToUnsubscribe(s, k) PROVE ToUnsubscribe(s, k)'
  OBVIOUS
<1>1. PICK b \in Actor : /\ task[b].at = "unsubscribe" /\ s \in task[b].left
                         /\ Head(task[b].keys) = k
  BY DEF ToUnsubscribe
<1>2. b # a
  BY <1>1
<1> QED
  BY <1>1, <1>2 DEF ToUnsubscribe

\* The sources do nothing, and the key had lost its flag before.
LEMMA StillUnfed ==
    ASSUME TypeOK, UNCHANGED <<conn, upstream, ctrl>>, NEW s \in Source, NEW k \in Key,
           Unfed(s, k), k \notin flagged', ToUnsubscribe(s, k) => ToUnsubscribe(s, k)'
    PROVE  Unfed(s, k)'
<1> DEFINE u == Base(s)
           v == Base(s)'
<1>1. k \in v => k \in u
  BY DEF Base
<1>2. ctrl[s] \in Seq(Message) /\ ctrl'[s] = ctrl[s]
  BY DEF TypeOK
<1> HIDE DEF u, v
<1>3. k \in FoldLeft(Heed, v, ctrl'[s]) => k \in FoldLeft(Heed, u, ctrl[s])
  BY <1>1, <1>2, KeyByKey
<1> QED
  BY <1>3 DEF Unfed, u, v

LEMMA UnfedByHandlers ==
    ASSUME TypeOK, AskedInv, FedInv, LedgerInv, PinnedStays', UnfedInv,
           NEW s \in Source, NEW k \in Key \ raced', k \notin flagged',
           \/ \E c \in Client : Enter(c) \/ Close(c) \/ \E l \in Key : Subscribe(c, l) \/ Unsubscribe(c, l)
           \/ \E a \in Actor : Leave(a) \/ Tell(a) \/ Told(a)
    PROVE  Unfed(s, k)'
<1>0. /\ task \in [Actor -> TaskType] /\ ctrl \in [Source -> Seq(Message)]
      /\ \A c \in Client : Reader(c) \in Actor /\ Socket(c) \in Actor
      /\ k \in Key /\ ctrl[s] \in Seq(Message)
  BY DEF TypeOK, TaskType, Actor, Reader, Socket
<1>k. k \notin raced
  BY DEF Subscribe, Enter, Unsubscribe, Close, Leave, Tell, Told
<1>u. k \notin flagged => Unfed(s, k)
  BY <1>k DEF UnfedInv
<1>s. ASSUME NEW a \in Actor, NEW t, task' = [task EXCEPT ![a] = t],
             UNCHANGED <<conn, upstream, ctrl>>, k \notin flagged,
             task[a].at = "unsubscribe" => task[a].left = {}
      PROVE  Unfed(s, k)'
  <2>1. ToUnsubscribe(s, k) => ToUnsubscribe(s, k)'
    BY <1>0, <1>s, StillUntelling
  <2> QED
    BY <1>0, <1>s, <1>u, <2>1, StillUnfed
<1>1. ASSUME NEW c \in Client, NEW l \in Key, Subscribe(c, l) \/ Unsubscribe(c, l)
      PROVE  Unfed(s, k)'
  <2>1. PICK t : task' = [task EXCEPT ![Reader(c)] = t]
    BY <1>1 DEF Subscribe, Unsubscribe
  <2>2. UNCHANGED <<conn, upstream, ctrl, flagged>> /\ task[Reader(c)].at # "unsubscribe"
    BY <1>1 DEF Subscribe, Unsubscribe, entryVars, sourceVars, Idle, At
  <2> QED
    BY <1>0, <1>s, <2>1, <2>2
<1>2. ASSUME NEW c \in Client, Enter(c) PROVE Unfed(s, k)'
  <2>1. PICK t : task' = [task EXCEPT ![Reader(c)] = t]
    BY <1>2 DEF Enter
  <2>2. /\ UNCHANGED <<conn, upstream, ctrl>> /\ k \notin flagged
        /\ task[Reader(c)].at # "unsubscribe"
    BY <1>2 DEF Enter, sourceVars
  <2> QED
    BY <1>0, <1>s, <2>1, <2>2
<1>3. ASSUME NEW c \in Client, Close(c) PROVE Unfed(s, k)'
  <2>1. PICK t : task' = [task EXCEPT ![Socket(c)] = t]
    BY <1>3 DEF Close
  <2>2. /\ UNCHANGED <<conn, upstream, ctrl, flagged>>
        /\ task[Socket(c)].at # "unsubscribe"
    BY <1>3 DEF Close, entryVars, sourceVars, FedInv, Open
  <2> QED
    BY <1>0, <1>s, <2>1, <2>2
<1>4. ASSUME NEW a \in Actor, Leave(a) PROVE Unfed(s, k)'
  <2> DEFINE l == Head(task[a].keys)
  <2>1. /\ task[a].at = "leave" /\ UNCHANGED <<conn, upstream, ctrl>>
        /\ \/ /\ flagged' = flagged \ {l}
              /\ task' = [task EXCEPT ![a] = Telling("unsubscribe", task[a].keys)]
           \/ /\ flagged' = flagged
              /\ task' = [task EXCEPT ![a] = Rest(task[a])]
    BY <1>0, <1>4 DEF Leave, sourceVars
  <2>2. CASE k \notin flagged
    <3>1. PICK t : task' = [task EXCEPT ![a] = t]
      BY <2>1
    <3> QED
      BY <1>s, <2>1, <2>2, <3>1
  <2>3. CASE k \in flagged
    <3>1. k = l /\ task'[a] = Telling("unsubscribe", task[a].keys)
      BY <1>0, <2>1, <2>3
    <3>2. /\ task'[a].at = "unsubscribe" /\ s \in task'[a].left
          /\ Head(task'[a].keys) = k
      BY <3>1 DEF Telling
    <3>3. ToUnsubscribe(s, k)'
      BY <3>2 DEF ToUnsubscribe
    <3> QED
      BY <3>3 DEF Unfed
  <2> QED
    BY <2>2, <2>3
<1>5. ASSUME NEW a \in Actor, Tell(a) PROVE Unfed(s, k)'
  <2> DEFINE m == <<task[a].at, Head(task[a].keys)>>
  <2>1. PICK r \in task[a].left :
           /\ ctrl' = [ctrl EXCEPT ![r] = Append(ctrl[r], m)]
           /\ task' = [task EXCEPT ![a].left = task[a].left \ {r}]
           /\ UNCHANGED <<flagged, conn, upstream, raced>>
    BY <1>5 DEF Tell, entryVars
  <2>2. /\ task[a].at \in Verb /\ task[a].left \subseteq Source
        /\ task[a].keys \in Seq(Key) /\ task[a].keys # <<>>
    BY DEF TypeOK, Verb
  <2>3. m \in Message
    BY <2>2, HeadTailProperties DEF Message
  <2>4. /\ \A b \in Actor : task'[b].at = task[b].at /\ task'[b].keys = task[b].keys
        /\ task'[a].left = task[a].left \ {r}
        /\ \A b \in Actor : b # a => task'[b].left = task[b].left
    BY <1>0, <2>1 DEF TaskType
  <2>5. Base(s)' = Base(s) /\ conn' = conn /\ k \notin flagged
    BY <2>1 DEF Base
  <2>6. CASE s # r
    <3>1. ToUnsubscribe(s, k) => ToUnsubscribe(s, k)'
      BY <2>4, <2>6 DEF ToUnsubscribe
    <3>2. ctrl'[s] = ctrl[s]
      BY <1>0, <2>1, <2>6
    <3> QED
      BY <1>u, <2>5, <3>1, <3>2 DEF Unfed
  <2>7. CASE s = r
    <3>1. FoldLeft(Heed, Base(s), ctrl'[s]) = Heed(FoldLeft(Heed, Base(s), ctrl[s]), m)
      <4>1. ctrl'[s] = Append(ctrl[s], m)
        BY <1>0, <2>1, <2>7
      <4> HIDE DEF m
      <4>2. FoldLeft(Heed, Base(s), Append(ctrl[s], m)) = Heed(FoldLeft(Heed, Base(s), ctrl[s]), m)
        BY <1>0, <2>3, WorkedLast
      <4> QED
        BY <4>1, <4>2
    <3>2. CASE Head(task[a].keys) # k
      <4>1. k \in FoldLeft(Heed, Base(s), ctrl'[s]) <=> k \in FoldLeft(Heed, Base(s), ctrl[s])
        BY <3>1, <3>2 DEF Heed
      <4>2. ASSUME ToUnsubscribe(s, k) PROVE ToUnsubscribe(s, k)'
        <5>1. PICK b \in Actor : /\ task[b].at = "unsubscribe" /\ s \in task[b].left
                                 /\ Head(task[b].keys) = k
          BY <4>2 DEF ToUnsubscribe
        <5>2. b # a
          BY <3>2, <5>1
        <5> QED
          BY <2>4, <5>1, <5>2 DEF ToUnsubscribe
      <4> QED
        BY <1>u, <2>5, <4>1, <4>2 DEF Unfed
    <3>3. CASE Head(task[a].keys) = k /\ task[a].at = "subscribe"
      BY <1>k, <2>5, <3>3, SubscribedHasFlag
    <3>4. CASE Head(task[a].keys) = k /\ task[a].at = "unsubscribe"
      <4>1. k \notin FoldLeft(Heed, Base(s), ctrl'[s])
        BY <3>1, <3>4 DEF Heed
      <4> QED
        BY <2>5, <4>1 DEF Unfed
    <3> QED
      BY <2>2, <3>2, <3>3, <3>4 DEF Verb
  <2> QED
    BY <2>6, <2>7
<1>6. ASSUME NEW a \in Actor, Told(a) PROVE Unfed(s, k)'
  <2>1. /\ task[a].at \in Verb /\ task[a].left = {}
        /\ task' = [task EXCEPT ![a] = Rest(task[a])]
        /\ UNCHANGED <<conn, upstream, ctrl>>
    BY <1>0, <1>6 DEF Told, sourceVars
  <2>2. k \notin flagged
    <3> SUFFICES ASSUME k \in flagged PROVE FALSE
      OBVIOUS
    <3>1. task[a].at = "unsubscribe" /\ Head(task[a].keys) = k
      BY <1>6 DEF Told, entryVars
    <3>2. Removing(k)
      BY <3>1 DEF Removing
    <3>3. k \in Pinned
      BY <1>k, <3>2 DEF LedgerInv, Noticed, Needed
    <3> QED
      BY <3>3 DEF PinnedStays
  <2>3. PICK t : task' = [task EXCEPT ![a] = t]
    BY <2>1
  <2> QED
    BY <1>s, <2>1, <2>2, <2>3
<1> QED
  BY <1>1, <1>2, <1>3, <1>4, <1>5, <1>6

LEMMA UnfedBySources ==
    ASSUME TypeOK, UnfedInv, NEW s \in Source, NEW k \in Key \ raced', k \notin flagged',
           NEW r \in Source, Connect(r) \/ Resubscribe(r) \/ Forward(r) \/ Drop(r)
    PROVE  Unfed(s, k)'
<1>0. /\ conn \in [Source -> {"down", "drained", "up"}] /\ upstream \in [Source -> SUBSET Key]
      /\ ctrl \in [Source -> Seq(Message)]
      /\ UNCHANGED <<task, flagged>>
      /\ Unfed(s, k) /\ k \notin flagged
  BY DEF Connect, Resubscribe, Forward, Drop, entryVars, TypeOK, UnfedInv
<1>1. ToUnsubscribe(s, k)' = ToUnsubscribe(s, k)
  BY <1>0 DEF ToUnsubscribe
<1>2. CASE s # r
  <2>1. conn'[s] = conn[s] /\ upstream'[s] = upstream[s] /\ ctrl'[s] = ctrl[s]
    BY <1>0, <1>2 DEF Connect, Resubscribe, Forward, Drop
  <2>2. Base(s)' = Base(s)
    BY <1>0, <2>1 DEF Base
  <2> QED
    BY <1>0, <1>1, <2>1, <2>2 DEF Unfed
<1>3. CASE s = r
  <2>1. CASE Connect(s)
    <3>1. conn'[s] = "drained" /\ ctrl'[s] = <<>>
      BY <1>0, <2>1 DEF Connect
    <3>2. Base(s)' = flagged
      BY <1>0, <3>1 DEF Base
    <3>3. FoldLeft(Heed, Base(s)', ctrl'[s]) = flagged
      BY <3>1, <3>2, WorkedNothing
    <3> QED
      BY <1>0, <3>3 DEF Unfed
  <2>2. CASE Resubscribe(s)
    <3>1. conn[s] = "drained" /\ conn'[s] = "up" /\ upstream'[s] = flagged /\ ctrl'[s] = ctrl[s]
      BY <1>0, <2>2 DEF Resubscribe, SubscribedRequests
    <3>2. Base(s)' = Base(s)
      BY <3>1 DEF Base
    <3> QED
      BY <1>0, <1>1, <3>1, <3>2 DEF Unfed
  <2>3. CASE Forward(s)
    <3>1. /\ conn[s] = "up" /\ conn' = conn /\ ctrl[s] # <<>>
          /\ upstream'[s] = Heed(upstream[s], Head(ctrl[s]))
          /\ ctrl'[s] = Tail(ctrl[s])
      BY <1>0, <2>3 DEF Forward
    <3>2. Base(s) = upstream[s] /\ Base(s)' = Heed(upstream[s], Head(ctrl[s]))
      BY <3>1 DEF Base
    <3>3. FoldLeft(Heed, Heed(upstream[s], Head(ctrl[s])), Tail(ctrl[s]))
             = FoldLeft(Heed, upstream[s], ctrl[s])
      BY <1>0, <3>1, WorkedFirst
    <3>4. FoldLeft(Heed, Base(s)', ctrl'[s]) = FoldLeft(Heed, Base(s), ctrl[s])
      BY <3>1, <3>2, <3>3
    <3> QED
      BY <1>0, <1>1, <3>1, <3>4 DEF Unfed
  <2>4. CASE Drop(s)
    BY <1>0, <2>4 DEF Drop, Unfed
  <2> QED
    BY <1>3, <2>1, <2>2, <2>3, <2>4
<1> QED
  BY <1>2, <1>3

LEMMA UnfedAlways == Spec => []UnfedInv
<1>1. Init => UnfedInv
  BY DEF Init, UnfedInv, Unfed
<1>2. TypeOK /\ AskedInv /\ FedInv /\ LedgerInv /\ PinnedStays' /\ UnfedInv /\ [Next]_vars
         => UnfedInv'
  <2> SUFFICES ASSUME TypeOK, AskedInv, FedInv, LedgerInv, PinnedStays', UnfedInv, [Next]_vars,
                      NEW s \in Source, NEW k \in Key \ raced', k \notin flagged'
               PROVE  Unfed(s, k)'
    BY DEF UnfedInv
  <2>1. CASE UNCHANGED vars
    BY <2>1 DEF vars, UnfedInv, Unfed, Base, ToUnsubscribe
  <2>2. CASE Next
    BY <2>2, UnfedByHandlers, UnfedBySources DEF Next
  <2> QED
    BY <2>1, <2>2
<1> QED
  BY <1>1, <1>2, Typing, AskedAlways, FedAlways, LedgerAlways, ProbeHeld, PTL DEF Spec

----------------------------------------------------------------------------
(* Nobody is forgotten on a key that no handlers have run into each other   *)
(* on: a client is on the entry of what it holds as soon as its subscribe   *)
(* has put it there.                                                        *)
THEOREM Remembered == Spec => []OnlyRacesForget
<1>1. TypeOK /\ LedgerInv => OnlyRacesForget
  <2> SUFFICES ASSUME TypeOK, LedgerInv, NEW c \in Client, task[Reader(c)].at # "enter",
                      NEW k \in holds[c] \ raced
               PROVE  c \in members[k]
    BY DEF OnlyRacesForget
  <2>1. k \in Key \ raced
    BY DEF TypeOK
  <2> QED
    BY <2>1 DEF LedgerInv, Listed
<1> QED
  BY <1>1, Typing, LedgerAlways, PTL

(* A client that has had its request dealt with is on nothing it does not   *)
(* hold, raced or not; one that is gone is on nothing at all that is not    *)
(* raced.                                                                   *)
THEOREM LetGo == Spec => []NobodyLingers
<1>1. AskedInv /\ LedgerInv => NobodyLingers
  <2> SUFFICES ASSUME AskedInv, LedgerInv, NEW c \in Client, task[Reader(c)] = Idle
               PROVE  /\ c \notin closing => \A k \in Key : c \in members[k] => k \in holds[c]
                      /\ c \in closing /\ task[Socket(c)] = Idle =>
                            \A k \in Key \ raced : c \notin members[k]
    BY DEF NobodyLingers
  <2>1. c \notin closing => \A k \in Key : c \in members[k] => k \in holds[c]
    BY DEF AskedInv, Asked, Idle, At
  <2>2. ASSUME c \in closing, task[Socket(c)] = Idle, NEW k \in Key \ raced
        PROVE  c \notin members[k]
    <3>1. holds[c] = {} /\ Left(c, k)
      BY <2>2 DEF LedgerInv, Tidy
    <3>2. ~ Leaving(c, k)
      BY <2>2, Todos DEF Leaving
    <3> QED
      BY <3>1, <3>2 DEF Left
  <2> QED
    BY <2>1, <2>2
<1> QED
  BY <1>1, AskedAlways, LedgerAlways, PTL

(* A connected source comes to stream what somebody holds, and nothing      *)
(* else; and no entry with clients on it, raced or not, goes unfed.         *)
THEOREM Agreed == Spec => []UpstreamAgrees
<1>1. TypeOK /\ PinnedStays /\ FedInv /\ LedgerInv /\ UnfedInv => UpstreamAgrees
  <2> SUFFICES ASSUME TypeOK, PinnedStays, FedInv, LedgerInv, UnfedInv,
                      NEW s \in Source, NEW k \in Key, conn[s] = "up", Untouched(k)
               PROVE  /\ k \notin raced => (k \in Settled(s) <=> k \in Wanted)
                      /\ members[k] # {} => k \in Settled(s)
    BY DEF UpstreamAgrees
  <2>1. \A a \in Actor : task[a].at # "idle" => Head(task[a].keys) # k
    <3> SUFFICES ASSUME NEW a \in Actor, task[a].at # "idle" PROVE Head(task[a].keys) # k
      OBVIOUS
    <3>1. task[a].keys \in Seq(Key) /\ task[a].keys # <<>>
      BY DEF TypeOK
    <3>2. Head(task[a].keys) \in Range(task[a].keys)
      <4>1. Len(task[a].keys) \in Nat \ {0} /\ DOMAIN task[a].keys = 1 .. Len(task[a].keys)
        BY <3>1, EmptySeq, LenProperties
      <4>2. 1 \in DOMAIN task[a].keys /\ Head(task[a].keys) = task[a].keys[1]
        BY <3>1, <4>1, HeadTailProperties
      <4> QED
        BY <4>2 DEF Range
    <3> QED
      BY <3>2 DEF Untouched
  <2>2. ~ ToSubscribe(s, k) /\ ~ ToUnsubscribe(s, k) /\ ~ Removing(k)
    BY <2>1 DEF ToSubscribe, ToUnsubscribe, Removing
  <2>3. Settled(s) = FoldLeft(Heed, Base(s), ctrl[s])
    BY DEF Settled, Base
  <2>4. k \in flagged => k \in Settled(s)
    BY <2>2, <2>3 DEF FedInv, Fed
  <2>5. ASSUME k \notin raced PROVE k \in Settled(s) <=> k \in Wanted
    <3>1. k \in Settled(s) <=> k \in flagged
      BY <2>2, <2>3, <2>4, <2>5 DEF UnfedInv, Unfed
    <3>2. k \in flagged <=> k \in Pinned \/ members[k] # {}
      BY DEF PinnedStays, LedgerInv, Needed, FedInv, Flagged
    <3>3. \A c \in Client : c \in members[k] <=> k \in holds[c]
      <4> SUFFICES ASSUME NEW c \in Client PROVE c \in members[k] <=> k \in holds[c]
        OBVIOUS
      <4>1. Listed(c, k) /\ Left(c, k)
        BY <2>5 DEF LedgerInv
      <4>2. Reader(c) \in Actor /\ Socket(c) \in Actor
        BY DEF Actor, Reader, Socket
      <4>3. ~ Leaving(c, k)
        <5>1. \A a \in Actor : Todo(task[a]) \subseteq Range(task[a].keys)
          <6> SUFFICES ASSUME NEW a \in Actor, task[a].at # "idle"
                       PROVE  Todo(task[a]) \subseteq Range(task[a].keys)
            BY DEF Todo
          <6> QED
            BY Works DEF LedgerInv, Todo
        <5> QED
          BY <4>2, <5>1 DEF Leaving, Untouched
      <4> QED
        BY <2>1, <4>1, <4>2, <4>3 DEF Listed, Left
    <3>4. members[k] # {} <=> \E c \in Client : k \in holds[c]
      BY <3>3 DEF TypeOK
    <3> QED
      BY <3>1, <3>2, <3>4 DEF Wanted
  <2>6. members[k] # {} => k \in Settled(s)
    BY <2>4 DEF FedInv, Flagged
  <2> QED
    BY <2>5, <2>6
<1> QED
  BY <1>1, Typing, ProbeHeld, FedAlways, LedgerAlways, UnfedAlways, PTL

----------------------------------------------------------------------------
(***************************************************************************)
(* With one worker thread a handler runs from its first step to its last   *)
(* before anything else starts, and nothing is ever raced.                 *)
(***************************************************************************)
OneAtATime ==
    /\ \A a, b \in Running : a = b
    /\ \A s, t \in Resuming : s = t
    /\ Running # {} => Resuming = {}
OneHandler == OneAtATime /\ raced = {}

\* A worker is free: nobody is at work.
LEMMA Free ==
    ASSUME Workers = 1, OneAtATime, FreeWorker
    PROVE  Running = {} /\ Resuming = {}
<1>1. ASSUME NEW S, \A x, y \in S : x = y
      PROVE  Cardinality(S) \in {0, 1} /\ (Cardinality(S) = 0 => S = {})
  <2>1. CASE S = {}
    BY <2>1, FS_EmptySet
  <2>2. CASE S # {}
    <3>1. PICK x : x \in S
      BY <2>2
    <3>2. S = {x}
      BY <1>1, <3>1
    <3>3. Cardinality({x}) = 1
      BY FS_Singleton
    <3> QED
      BY <2>2, <3>2, <3>3
  <2> QED
    BY <2>1, <2>2
<1>2. /\ Cardinality(Running) \in {0, 1} /\ (Cardinality(Running) = 0 => Running = {})
      /\ Cardinality(Resuming) \in {0, 1} /\ (Cardinality(Resuming) = 0 => Resuming = {})
  BY <1>1 DEF OneAtATime
<1>3. Cardinality(Running) + Cardinality(Resuming) < 1
  BY DEF FreeWorker
<1> QED
  BY <1>2, <1>3

LEMMA OneHandlerKept ==
    ASSUME Workers = 1, TypeOK, OneHandler, [Next]_vars
    PROVE  OneHandler'
<1>0. /\ task \in [Actor -> TaskType] /\ conn \in [Source -> {"down", "drained", "up"}]
      /\ \A c \in Client : Reader(c) \in Actor /\ Socket(c) \in Actor
      /\ OneAtATime /\ raced = {}
  BY DEF TypeOK, TaskType, Actor, Reader, Socket, OneHandler
<1>1. ASSUME FreeWorker, NEW a \in Actor, NEW t, task' = [task EXCEPT ![a] = t],
             conn' = conn
      PROVE  OneAtATime'
  <2>1. Running = {} /\ Resuming = {}
    BY <1>0, <1>1, Free
  <2>2. Running' \subseteq {a}
    BY <1>0, <1>1, <2>1 DEF Running
  <2>3. Resuming' = {}
    BY <1>1, <2>1 DEF Resuming
  <2> QED
    BY <2>2, <2>3 DEF OneAtATime
<1>2. ASSUME Running' \subseteq Running, Resuming' \subseteq Resuming
      PROVE  OneAtATime'
  BY <1>0, <1>2 DEF OneAtATime
<1>3. ASSUME NEW a \in Actor, NEW t, task' = [task EXCEPT ![a] = t], task[a].at # "idle",
             conn' = conn
      PROVE  OneAtATime'
  <2>1. Running' \subseteq Running /\ Resuming' \subseteq Resuming
    BY <1>0, <1>3 DEF Running, Resuming
  <2> QED
    BY <1>2, <2>1
<1>4. ASSUME NEW c \in Client, NEW k \in Key, Subscribe(c, k) \/ Unsubscribe(c, k)
      PROVE  OneHandler'
  <2>1. PICK t : task' = [task EXCEPT ![Reader(c)] = t]
    BY <1>4 DEF Subscribe, Unsubscribe
  <2>2. FreeWorker /\ UNCHANGED <<conn, raced>>
    BY <1>4 DEF Subscribe, Unsubscribe, Starts, sourceVars
  <2> QED
    BY <1>0, <1>1, <2>1, <2>2 DEF OneHandler
<1>5. ASSUME NEW c \in Client, Enter(c) PROVE OneHandler'
  <2> DEFINE k == Head(task[Reader(c)].keys)
  <2>1. PICK t : task' = [task EXCEPT ![Reader(c)] = t]
    BY <1>5 DEF Enter
  <2>2. /\ task[Reader(c)].at = "enter" /\ conn' = conn
        /\ raced' = IF Removing(k) THEN raced \cup {k} ELSE raced
    BY <1>5 DEF Enter, sourceVars
  <2>3. ~ Removing(k)
    <3> SUFFICES ASSUME NEW a \in Actor, task[a].at = "unsubscribe" PROVE FALSE
      BY DEF Removing
    <3>1. a \in Running /\ Reader(c) \in Running
      BY <1>0, <2>2 DEF Running
    <3>2. a = Reader(c)
      BY <1>0, <3>1 DEF OneAtATime
    <3> QED
      BY <2>2, <3>2
  <2> HIDE DEF k
  <2>4. OneAtATime'
    BY <1>0, <1>3, <2>1, <2>2
  <2> QED
    BY <1>0, <2>2, <2>3, <2>4 DEF OneHandler
<1>6. ASSUME NEW c \in Client, Close(c) PROVE OneHandler'
  <2>1. PICK t : task' = [task EXCEPT ![Socket(c)] = t]
    BY <1>6 DEF Close
  <2>2. FreeWorker /\ conn' = conn /\ raced' = raced \cup Subscribing(c)
    BY <1>6 DEF Close, Starts, sourceVars
  <2>3. Subscribing(c) = {}
    <3>1. Running = {}
      BY <1>0, <2>2, Free
    <3>2. task[Reader(c)].at = "idle"
      BY <1>0, <3>1 DEF Running
    <3> QED
      BY <3>2 DEF Subscribing
  <2> QED
    BY <1>0, <1>1, <2>1, <2>2, <2>3 DEF OneHandler
<1>7. ASSUME NEW a \in Actor, Leave(a) \/ Tell(a) \/ Told(a) PROVE OneHandler'
  <2>1. task[a].at # "idle" /\ UNCHANGED <<conn, raced>>
    BY <1>0, <1>7 DEF Leave, Tell, Told, Verb, sourceVars, TypeOK
  <2>2. CASE Tell(a)
    <3>1. PICK s \in task[a].left : task' = [task EXCEPT ![a].left = task[a].left \ {s}]
      BY <2>2 DEF Tell
    <3>2. \A b \in Actor : task'[b].at = task[b].at
      BY <1>0, <3>1 DEF TaskType
    <3>3. Running' \subseteq Running /\ Resuming' \subseteq Resuming
      BY <2>1, <3>2 DEF Running, Resuming
    <3> QED
      BY <1>0, <1>2, <2>1, <3>3 DEF OneHandler
  <2>3. CASE Leave(a) \/ Told(a)
    <3>1. PICK t : task' = [task EXCEPT ![a] = t]
      BY <2>3 DEF Leave, Told
    <3> QED
      BY <1>0, <1>3, <2>1, <3>1 DEF OneHandler
  <2> QED
    BY <1>7, <2>2, <2>3
<1>8. ASSUME NEW s \in Source, Connect(s) PROVE OneHandler'
  <2>1. /\ FreeWorker /\ UNCHANGED <<task, raced>>
        /\ conn' = [conn EXCEPT ![s] = "drained"]
    BY <1>8 DEF Connect
  <2>2. Running = {} /\ Resuming = {}
    BY <1>0, <2>1, Free
  <2>3. Running' = {} /\ Resuming' \subseteq {s}
    BY <1>0, <2>1, <2>2 DEF Running, Resuming
  <2> QED
    BY <1>0, <2>1, <2>3 DEF OneHandler, OneAtATime
<1>9. ASSUME NEW s \in Source, Resubscribe(s) \/ Forward(s) \/ Drop(s) PROVE OneHandler'
  <2>1. /\ UNCHANGED <<task, raced>>
        /\ conn' = conn \/ conn' = [conn EXCEPT ![s] = "up"] \/ conn' = [conn EXCEPT ![s] = "down"]
    BY <1>9 DEF Resubscribe, Forward, Drop
  <2>2. Running' \subseteq Running /\ Resuming' \subseteq Resuming
    BY <1>0, <2>1 DEF Running, Resuming
  <2> QED
    BY <1>0, <1>2, <2>1, <2>2 DEF OneHandler
<1>10. CASE UNCHANGED vars
  BY <1>10 DEF vars, OneHandler, OneAtATime, Running, Resuming
<1> QED
  BY <1>4, <1>5, <1>6, <1>7, <1>8, <1>9, <1>10 DEF Next

(* A relay with one worker thread races on no key, so whatever OnlyRacesForget, *)
(* NobodyLingers and UpstreamAgrees say holds there of every key; and with no   *)
(* handler under way nobody is forgotten at all.                                *)
THEOREM OneWorker ==
    ASSUME Workers = 1
    PROVE  Spec => [](raced = {} /\ NobodyForgotten)
<1>1. Init => OneHandler
  <2> SUFFICES ASSUME Init PROVE OneHandler
    OBVIOUS
  <2>1. Running = {} /\ Resuming = {} /\ raced = {}
    BY DEF Init, Running, Resuming, Idle, At
  <2> QED
    BY <2>1 DEF OneHandler, OneAtATime
<1>2. TypeOK /\ OneHandler /\ [Next]_vars => OneHandler'
  BY OneHandlerKept
<1>3. OneHandler /\ OnlyRacesForget => raced = {} /\ NobodyForgotten
  <2> SUFFICES ASSUME raced = {}, OnlyRacesForget, Quiet, NEW c \in Client, NEW k \in holds[c]
               PROVE  c \in members[k]
    BY DEF OneHandler, NobodyForgotten
  <2>1. Reader(c) \in Actor /\ Running = {}
    BY DEF Actor, Reader, Quiet
  <2>2. task[Reader(c)].at # "enter"
    BY <2>1 DEF Running
  <2> QED
    BY <2>2 DEF OnlyRacesForget
<1> QED
  BY <1>1, <1>2, <1>3, Typing, Remembered, PTL DEF Spec
=============================================================================
