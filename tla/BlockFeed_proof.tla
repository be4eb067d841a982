-------------------------- MODULE BlockFeed_proof ---------------------------
(***************************************************************************)
(* Racing the positions of a block is sound for any number of sources and  *)
(* blocks of any size: for every block no source came back in the middle   *)
(* of, whatever the sources did in the others.                             *)
(***************************************************************************)
EXTENDS BlockFeed, FiniteSetTheorems, TLAPS

(* The messages, as pairs. *)
LEMMA MessagePairs ==
    /\ \A m \in Message : /\ m = <<m[1], m[2]>>
                          /\ m[1] \in Height /\ m[1] \in Nat /\ m[1] >= 1
                          /\ m[2] \in Nat /\ m[2] >= 1 /\ m[2] <= Size[m[1]]
    /\ \A h \in Height, k \in Nat : k >= 1 /\ k <= Size[h] => <<h, k>> \in Message
<1>1. ASSUME NEW m \in Message
      PROVE  /\ m = <<m[1], m[2]>>
             /\ m[1] \in Height /\ m[1] \in Nat /\ m[1] >= 1
             /\ m[2] \in Nat /\ m[2] >= 1 /\ m[2] <= Size[m[1]]
  <2>1. PICK h \in Height : m \in {h} \X (1 .. Size[h])
    BY DEF Message
  <2>2. h \in Nat /\ h >= 1 /\ Size[h] \in Nat
    BY BlockFeedAssumption DEF Height
  <2> QED
    BY <2>1, <2>2
<1>2. ASSUME NEW h \in Height, NEW k \in Nat, k >= 1, k <= Size[h]
      PROVE  <<h, k>> \in Message
  <2>1. Size[h] \in Nat
    BY BlockFeedAssumption
  <2>2. <<h, k>> \in {h} \X (1 .. Size[h])
    BY <1>2, <2>1
  <2> QED
    BY <2>2 DEF Message
<1> QED
  BY <1>1, <1>2

(* How many messages a run of positions of one block has. *)
LEMMA RunLength ==
    ASSUME NEW h, NEW a \in Nat, NEW b \in Nat, a <= b
    PROVE  /\ IsFiniteSet({h} \X (a + 1 .. b))
           /\ Cardinality({h} \X (a + 1 .. b)) = b - a
<1>1. IsFiniteSet(a + 1 .. b) /\ Cardinality(a + 1 .. b) = b - a
  <2>1. a + 1 \in Int /\ b \in Int
    OBVIOUS
  <2>2. /\ IsFiniteSet(a + 1 .. b)
        /\ Cardinality(a + 1 .. b) = IF a + 1 > b THEN 0 ELSE b - (a + 1) + 1
    BY <2>1, FS_Interval
  <2> QED
    BY <2>2
<1>2. IsFiniteSet({h}) /\ Cardinality({h}) = 1
  BY FS_Singleton
<1>3. /\ IsFiniteSet({h} \X (a + 1 .. b))
      /\ Cardinality({h} \X (a + 1 .. b)) = Cardinality({h}) * Cardinality(a + 1 .. b)
  BY <1>1, <1>2, FS_Product
<1> QED
  BY <1>1, <1>2, <1>3

(* What a message does, with the handler's branches folded into three: it  *)
(* opens a block, it is a position nobody reached yet, or nothing goes out *)
(* because the position or the whole block is behind.                      *)
Opens(s, h, k) ==
    /\ h > last /\ last' = h /\ sent' = 1
    /\ seen' = [t \in Source |-> IF t = s THEN 1 ELSE 0]
    /\ hand' = [hand EXCEPT ![s] = {<<h, k>>}]

Advances(s, h, k) ==
    /\ h = last /\ last' = last
    /\ seen' = [seen EXCEPT ![s] = @ + 1]
    /\ seen[s] + 1 > sent /\ sent' = seen[s] + 1
    /\ hand' = [hand EXCEPT ![s] = {<<h, k>>}]

Trails(s, h) ==
    /\ last' = last /\ sent' = sent /\ hand' = hand
    /\ \/ /\ h = last /\ seen[s] + 1 <= sent
          /\ seen' = [seen EXCEPT ![s] = @ + 1]
       \/ h < last /\ seen' = seen

Effect(s, h, k) ==
    /\ needsSnapshot' = {} /\ missed' = missed /\ shown' = shown /\ hand[s] = {}
    /\ height' = [height EXCEPT ![s] = h]
    /\ index' = [index EXCEPT ![s] = k]
    /\ Opens(s, h, k) \/ Advances(s, h, k) \/ Trails(s, h)

LEMMA ArriveEffect ==
    ASSUME TypeOK, needsSnapshot = {},
           NEW s \in Source, NEW h \in Height, NEW k \in Nat, Arrive(s, h, k)
    PROVE  Effect(s, h, k)
<1>1. PICK o \in Outcome :
         /\ BlockFrame(s, h, o)
         /\ hand' = IF o \in Forwarded
                    THEN [hand EXCEPT ![s] = {<<h, k>>}] ELSE hand
  BY DEF Arrive
<1>2. ~ WrittenOff(s)
  BY DEF WrittenOff
<1>3. \/ /\ h > last /\ o = "win" /\ last' = h /\ sent' = 1
         /\ seen' = [t \in Source |-> IF t = s THEN 1 ELSE 0]
      \/ /\ h = last /\ o = "deliver" /\ last' = last
         /\ seen' = [seen EXCEPT ![s] = @ + 1]
         /\ seen[s] + 1 > sent /\ sent' = seen[s] + 1
      \/ /\ h = last /\ o \in {"copy", "late"} /\ last' = last
         /\ seen' = [seen EXCEPT ![s] = @ + 1]
         /\ seen[s] + 1 <= sent /\ sent' = sent
      \/ /\ h < last /\ o = "stale" /\ last' = last /\ sent' = sent
         /\ seen' = seen
  BY <1>1, <1>2 DEF BlockFrame, Newer, Take, Keep, OpenBlock, Bump, TypeOK, EntryTypeOK
<1>4. /\ needsSnapshot' = {} /\ hand[s] = {}
      /\ missed' = missed /\ shown' = shown
      /\ height' = [height EXCEPT ![s] = h]
      /\ index' = [index EXCEPT ![s] = k]
  BY <1>1 DEF Arrive, BlockFrame
<1> QED
  BY <1>1, <1>3, <1>4 DEF Forwarded, Effect, Opens, Advances, Trails

----------------------------------------------------------------------------
(* The entry, the cursors, the hands and the history variables keep their  *)
(* types, and no source is ever written off: the channel has no snapshots. *)
TypeInv == TypeOK /\ needsSnapshot = {}

LEMMA ArriveTyping ==
    ASSUME TypeInv, NEW s \in Source, NEW h \in Height, NEW k \in Nat,
           k >= 1, k <= Size[h], Arrive(s, h, k)
    PROVE  TypeInv'
<1>1. PICK o \in Outcome : BlockFrame(s, h, o)
  BY DEF Arrive
<1>2. h \in Nat /\ Bit(s) \in 0 .. MaskBits - 1
  BY ArbiterAssumption, BlockFeedAssumption DEF Height, Bit, Source
<1>3. Effect(s, h, k)
  BY ArriveEffect DEF TypeInv
<1>4. EntryTypeOK'
  <2>1. seen' \in [Source -> Nat] /\ sent' \in Nat /\ last' \in Nat
    BY <1>2, <1>3 DEF TypeInv, TypeOK, EntryTypeOK, Effect, Opens, Advances, Trails
  <2>2. leader' \in Source \cup {NoSource} /\ sampled' \subseteq 0 .. MaskBits - 1
    BY <1>1, <1>2 DEF BlockFrame, Take, Keep, OpenBlock, TypeInv, TypeOK, EntryTypeOK
  <2> QED
    BY <2>1, <2>2, <1>3 DEF EntryTypeOK, Effect
<1>5. hand' \in [Source -> SUBSET Message]
  <2>1. {<<h, k>>} \in SUBSET Message
    BY MessagePairs
  <2> QED
    BY <1>3, <2>1 DEF TypeInv, TypeOK, Effect, Opens, Advances, Trails
<1>6. \A t \in Source : index'[t] <= Size[height'[t]]
  BY <1>3 DEF TypeInv, TypeOK, Effect
<1> QED
  BY <1>3, <1>4, <1>5, <1>6 DEF TypeInv, TypeOK, Effect

\* Where a source that misses something goes on.
MissTo(s, h, k) ==
    /\ h \in Height /\ k \in Nat /\ k <= Size[h] /\ (k = 0 \/ h \in Torn)
    /\ Before(<<height[s], index[s]>>, <<h, k>>)
    /\ height' = [height EXCEPT ![s] = h]
    /\ index' = [index EXCEPT ![s] = k]
    /\ missed' = [missed EXCEPT ![s] = @ \cup
            {m \in Message : /\ Before(<<height[s], index[s]>>, m)
                             /\ ~ Before(<<h, k>>, m)}]
    /\ UNCHANGED <<entry, hand, shown>>

LEMMA MissEffect ==
    ASSUME NEW s \in Source, Miss(s)
    PROVE  \E h, k : MissTo(s, h, k)
<1>1. \A h \in Height : Size[h] \in Nat
  BY BlockFeedAssumption
<1>2. PICK h \in Height : \E k \in 0 .. Size[h] :
         /\ k = 0 \/ h \in Torn
         /\ Before(<<height[s], index[s]>>, <<h, k>>)
         /\ height' = [height EXCEPT ![s] = h]
         /\ index' = [index EXCEPT ![s] = k]
         /\ missed' = [missed EXCEPT ![s] = @ \cup
                 {m \in Message : /\ Before(<<height[s], index[s]>>, m)
                                  /\ ~ Before(<<h, k>>, m)}]
         /\ UNCHANGED <<entry, hand, shown>>
  BY DEF Miss
<1>3. PICK k \in 0 .. Size[h] : MissTo(s, h, k)
  <2>1. \A k \in 0 .. Size[h] : k \in Nat /\ k <= Size[h]
    BY <1>1
  <2> QED
    BY <1>2, <2>1 DEF MissTo
<1> QED
  BY <1>3

LEMMA TypeInvariance == Spec => []TypeInv
<1>1. Init => TypeInv
  BY ArbiterAssumption, BlockFeedAssumption
     DEF Init, EntryInit, TypeInv, TypeOK, EntryTypeOK, Height
<1>2. TypeInv /\ [Next]_vars => TypeInv'
  <2> SUFFICES ASSUME TypeInv, [Next]_vars PROVE TypeInv'
    OBVIOUS
  <2>0. \A h \in Height : h \in Nat /\ Size[h] \in Nat /\ Size[h] >= 1
    BY BlockFeedAssumption DEF Height
  <2>1. ASSUME NEW s \in Source, ArriveWithin(s) PROVE TypeInv'
    <3>1. height[s] \in Height /\ index[s] + 1 \in Nat /\ index[s] + 1 <= Size[height[s]]
      BY <2>0, <2>1 DEF ArriveWithin, TypeInv, TypeOK
    <3>2. index[s] + 1 >= 1
      BY DEF TypeInv, TypeOK
    <3> QED
      BY <2>1, <3>1, <3>2, ArriveTyping DEF ArriveWithin
  <2>2. ASSUME NEW s \in Source, ArriveNextBlock(s) PROVE TypeInv'
    <3>1. height[s] + 1 \in Height /\ 1 <= Size[height[s] + 1]
      BY <2>0, <2>2, BlockFeedAssumption DEF ArriveNextBlock, TypeInv, TypeOK, Height
    <3> QED
      BY <2>2, <3>1, ArriveTyping DEF ArriveNextBlock
  <2>3. ASSUME NEW s \in Source, Send(s) PROVE TypeInv'
    BY <2>3 DEF Send, TypeInv, TypeOK, EntryTypeOK, entry
  <2>4. ASSUME NEW s \in Source, Miss(s) PROVE TypeInv'
    <3>1. PICK h, k : MissTo(s, h, k)
      BY <2>4, MissEffect
    <3>2. missed' \in [Source -> SUBSET Message]
      BY <3>1 DEF MissTo, TypeInv, TypeOK
    <3>3. /\ height' \in [Source -> Height] /\ index' \in [Source -> Nat]
          /\ \A t \in Source : index'[t] <= Size[height'[t]]
      BY <3>1 DEF MissTo, TypeInv, TypeOK
    <3> QED
      BY <3>1, <3>2, <3>3 DEF MissTo, TypeInv, TypeOK, EntryTypeOK, entry
  <2>5. CASE UNCHANGED vars
    BY <2>5 DEF vars, entry, TypeInv, TypeOK, EntryTypeOK
  <2> QED
    BY <2>1, <2>2, <2>3, <2>4, <2>5 DEF Next
<1> QED
  BY <1>1, <1>2, PTL DEF Spec

(* Every value of the raced feed stays within its type, however the sources  *)
(* interleave and come back (on_update, Seq::Block).                         *)
THEOREM Typing == Spec => []TypeOK
<1>1. TypeInv => TypeOK
  BY DEF TypeInv
<1> QED
  BY <1>1, TypeInvariance, PTL

----------------------------------------------------------------------------
(***************************************************************************)
(* A source's place in a block is what it sent of the block and what it    *)
(* missed of it.  This holds of torn blocks as well.                       *)
(***************************************************************************)
MissedOf(s, h) == {m \in missed[s] : m[1] = h}

Credit == \A s \in Source :
    /\ IsFiniteSet(MissedOf(s, height[s]))
    /\ height[s] > last => Cardinality(MissedOf(s, height[s])) = index[s]
    /\ height[s] = last => seen[s] + Cardinality(MissedOf(s, height[s])) = index[s]
    /\ height[s] < last => seen[s] = 0
    /\ height[s] \notin Torn => MissedOf(s, height[s]) = {}
    /\ \A m \in missed[s] : ~ Before(<<height[s], index[s]>>, m)
    /\ seen[s] <= sent

\* Message k of block h is the next one source s has to send.
NextOf(s, h, k) ==
    /\ h \in Height /\ k \in Nat /\ k >= 1 /\ k <= Size[h]
    /\ IsFiniteSet(MissedOf(s, h))
    /\ h > last => Cardinality(MissedOf(s, h)) = k - 1
    /\ h = last => seen[s] + Cardinality(MissedOf(s, h)) = k - 1
    /\ h < last => seen[s] = 0
    /\ h \notin Torn => MissedOf(s, h) = {}
    /\ \A m \in Message : \/ Before(<<h, k>>, m)
                          \/ m = <<h, k>>
                          \/ ~ Before(<<height[s], index[s]>>, m)
    /\ \A m \in Message : m[1] < h => ~ Before(<<height[s], index[s]>>, m)
    /\ Before(<<height[s], index[s]>>, <<h, k>>)

(* A source sends its messages one after the other. *)
LEMMA WithinNext ==
    ASSUME TypeInv, Credit, NEW s \in Source, ArriveWithin(s)
    PROVE  NextOf(s, height[s], index[s] + 1)
<1>1. /\ height[s] \in Height /\ height[s] \in Nat /\ index[s] \in Nat
      /\ last \in Nat /\ Size[height[s]] \in Nat
  BY BlockFeedAssumption DEF TypeInv, TypeOK, EntryTypeOK, Height
<1>2. \A m \in Message : \/ Before(<<height[s], index[s] + 1>>, m)
                         \/ m = <<height[s], index[s] + 1>>
                         \/ ~ Before(<<height[s], index[s]>>, m)
  BY <1>1, MessagePairs DEF Before
<1>3. \A m \in Message : m[1] < height[s] => ~ Before(<<height[s], index[s]>>, m)
  BY <1>1, MessagePairs DEF Before
<1>4. Before(<<height[s], index[s]>>, <<height[s], index[s] + 1>>)
  BY <1>1 DEF Before
<1>5. /\ index[s] + 1 \in Nat /\ index[s] + 1 >= 1
      /\ index[s] + 1 <= Size[height[s]] /\ index[s] = (index[s] + 1) - 1
  BY <1>1 DEF ArriveWithin
<1>6. /\ IsFiniteSet(MissedOf(s, height[s]))
      /\ height[s] > last => Cardinality(MissedOf(s, height[s])) = index[s]
      /\ height[s] = last => seen[s] + Cardinality(MissedOf(s, height[s])) = index[s]
      /\ height[s] < last => seen[s] = 0
      /\ height[s] \notin Torn => MissedOf(s, height[s]) = {}
  BY DEF Credit
<1> QED
  BY <1>1, <1>2, <1>3, <1>4, <1>5, <1>6 DEF NextOf

LEMMA AcrossNext ==
    ASSUME TypeInv, Credit, NEW s \in Source, ArriveNextBlock(s)
    PROVE  NextOf(s, height[s] + 1, 1)
<1>1. /\ height[s] \in Height /\ height[s] \in Nat /\ index[s] \in Nat
      /\ last \in Nat /\ index[s] = Size[height[s]]
  BY BlockFeedAssumption DEF TypeInv, TypeOK, EntryTypeOK, Height, ArriveNextBlock
<1>2. height[s] + 1 \in Height /\ Size[height[s] + 1] \in Nat /\ Size[height[s] + 1] >= 1
  BY <1>1, BlockFeedAssumption DEF ArriveNextBlock, Height
<1>3. \A m \in Message : \/ Before(<<height[s] + 1, 1>>, m)
                         \/ m = <<height[s] + 1, 1>>
                         \/ ~ Before(<<height[s], index[s]>>, m)
  BY <1>1, MessagePairs DEF Before
<1>4. \A m \in Message : m[1] < height[s] + 1 => ~ Before(<<height[s], index[s]>>, m)
  BY <1>1, MessagePairs DEF Before
<1>5. Before(<<height[s], index[s]>>, <<height[s] + 1, 1>>)
  BY <1>1 DEF Before
<1>6. MissedOf(s, height[s] + 1) = {}
  <2>1. \A m \in missed[s] : m \in Message /\ ~ Before(<<height[s], index[s]>>, m)
    BY DEF Credit, TypeInv, TypeOK
  <2>2. \A m \in missed[s] : m[1] # height[s] + 1
    BY <1>1, <2>1, MessagePairs DEF Before
  <2> QED
    BY <2>2 DEF MissedOf
<1>7. /\ IsFiniteSet(MissedOf(s, height[s] + 1))
      /\ Cardinality(MissedOf(s, height[s] + 1)) = 0
  BY <1>6, FS_EmptySet
<1>8. /\ height[s] + 1 = last => 0 = seen[s]
      /\ height[s] + 1 < last => seen[s] = 0
  <2>1. height[s] < last => seen[s] = 0
    BY DEF Credit
  <2> QED
    BY <1>1, <2>1
<1> QED
  BY <1>1, <1>2, <1>3, <1>4, <1>5, <1>6, <1>7, <1>8 DEF NextOf

(* Sending the next message keeps the credits true, forwarded or not. *)
LEMMA ArriveCredits ==
    ASSUME TypeInv, Credit, NEW s \in Source, NEW h, NEW k,
           NextOf(s, h, k), Effect(s, h, k)
    PROVE  Credit'
<1>0. /\ h \in Height /\ h \in Nat /\ k \in Nat /\ k >= 1
      /\ last \in Nat /\ sent \in Nat /\ seen \in [Source -> Nat]
      /\ \A t \in Source : height[t] \in Nat /\ index[t] \in Nat
  <2>1. h \in Height /\ k \in Nat /\ k >= 1
    BY DEF NextOf
  <2> QED
    BY <2>1, BlockFeedAssumption DEF TypeInv, TypeOK, EntryTypeOK, Height
<1>1. \A t \in Source : \A g : MissedOf(t, g)' = MissedOf(t, g)
  BY DEF Effect, MissedOf
<1> SUFFICES ASSUME NEW t \in Source
             PROVE
      /\ IsFiniteSet(MissedOf(t, height'[t]))
      /\ height'[t] > last' => Cardinality(MissedOf(t, height'[t])) = index'[t]
      /\ height'[t] = last' =>
            seen'[t] + Cardinality(MissedOf(t, height'[t])) = index'[t]
      /\ height'[t] < last' => seen'[t] = 0
      /\ height'[t] \notin Torn => MissedOf(t, height'[t]) = {}
      /\ \A m \in missed[t] : ~ Before(<<height'[t], index'[t]>>, m)
      /\ seen'[t] <= sent'
  BY <1>1 DEF Credit, Effect
<1>2. CASE t = s
  <2>1. height'[t] = h /\ index'[t] = k
    BY <1>2 DEF Effect, TypeInv, TypeOK
  <2>2. Cardinality(MissedOf(s, h)) \in Nat
    BY FS_CardinalityType DEF NextOf
  <2>3. \A m \in missed[s] : ~ Before(<<h, k>>, m)
    <3>1. \A m \in missed[s] : m \in Message /\ ~ Before(<<height[s], index[s]>>, m)
      BY DEF Credit, TypeInv, TypeOK
    <3> QED
      BY <3>1, <1>0, MessagePairs DEF NextOf, Before
  <2>4. CASE Opens(s, h, k)
    BY <2>1, <2>2, <2>3, <2>4, <1>0, <1>2 DEF Opens, NextOf
  <2>5. CASE Advances(s, h, k)
    BY <2>1, <2>2, <2>3, <2>5, <1>0, <1>2 DEF Advances, NextOf
  <2>6. CASE Trails(s, h)
    BY <2>1, <2>2, <2>3, <2>6, <1>0, <1>2 DEF Trails, NextOf, Credit
  <2> QED
    BY <2>4, <2>5, <2>6 DEF Effect
<1>3. CASE t # s
  <2>1. height'[t] = height[t] /\ index'[t] = index[t]
    BY <1>3 DEF Effect, TypeInv, TypeOK
  <2>2. Cardinality(MissedOf(t, height[t])) \in Nat
    BY FS_CardinalityType DEF Credit
  <2>3. CASE Opens(s, h, k)
    BY <2>1, <2>2, <2>3, <1>0, <1>3 DEF Opens, Credit
  <2>4. CASE Advances(s, h, k)
    BY <2>1, <2>2, <2>4, <1>0, <1>3 DEF Advances, Credit
  <2>5. CASE Trails(s, h)
    BY <2>1, <2>2, <2>5, <1>0, <1>3 DEF Trails, Credit
  <2> QED
    BY <2>3, <2>4, <2>5 DEF Effect
<1> QED
  BY <1>2, <1>3

(* So does missing messages, in the middle of a block too. *)
LEMMA MissCredits ==
    ASSUME TypeInv, Credit, NEW s \in Source, NEW h, NEW k, MissTo(s, h, k)
    PROVE  Credit'
<1>0. /\ h \in Height /\ h \in Nat /\ k \in Nat /\ k <= Size[h] /\ Size[h] \in Nat
      /\ last \in Nat /\ sent \in Nat /\ seen \in [Source -> Nat]
      /\ height[s] \in Nat /\ index[s] \in Nat
  BY BlockFeedAssumption DEF MissTo, TypeInv, TypeOK, EntryTypeOK, Height
<1>1. /\ last' = last /\ sent' = sent /\ seen' = seen
      /\ height'[s] = h /\ index'[s] = k
      /\ missed'[s] = missed[s] \cup {m \in Message :
                                        /\ Before(<<height[s], index[s]>>, m)
                                        /\ ~ Before(<<h, k>>, m)}
      /\ \A t \in Source : t # s => /\ height'[t] = height[t] /\ index'[t] = index[t]
                                    /\ missed'[t] = missed[t]
  BY DEF MissTo, entry, TypeInv, TypeOK
<1>2. missed[s] \subseteq Message
  BY DEF TypeInv, TypeOK
<1> SUFFICES ASSUME NEW t \in Source
             PROVE
      /\ IsFiniteSet(MissedOf(t, height[t])')
      /\ height'[t] > last => Cardinality(MissedOf(t, height[t])') = index'[t]
      /\ height'[t] = last =>
            seen[t] + Cardinality(MissedOf(t, height[t])') = index'[t]
      /\ height'[t] < last => seen[t] = 0
      /\ height'[t] \notin Torn => MissedOf(t, height[t])' = {}
      /\ \A m \in missed'[t] : ~ Before(<<height'[t], index'[t]>>, m)
      /\ seen[t] <= sent
  BY <1>1 DEF Credit
<1>3. CASE t # s
  <2>1. MissedOf(t, height[t])' = MissedOf(t, height[t])
    BY <1>1, <1>3 DEF MissedOf
  <2>2. height'[t] = height[t] /\ index'[t] = index[t] /\ missed'[t] = missed[t]
    BY <1>1, <1>3
  <2>3. /\ IsFiniteSet(MissedOf(t, height[t]))
        /\ height[t] > last => Cardinality(MissedOf(t, height[t])) = index[t]
        /\ height[t] = last => seen[t] + Cardinality(MissedOf(t, height[t])) = index[t]
        /\ height[t] < last => seen[t] = 0
        /\ height[t] \notin Torn => MissedOf(t, height[t]) = {}
        /\ \A m \in missed[t] : ~ Before(<<height[t], index[t]>>, m)
        /\ seen[t] <= sent
    BY DEF Credit
  <2> QED
    BY <2>1, <2>2, <2>3
<1>4. CASE t = s
  <2>1. \A m \in missed'[s] : ~ Before(<<h, k>>, m)
    <3>1. \A m \in missed[s] : ~ Before(<<height[s], index[s]>>, m)
      BY DEF Credit
    <3> QED
      BY <3>1, <1>0, <1>1, <1>2, MessagePairs DEF MissTo, Before
  <2>2. CASE h = height[s]
    <3> DEFINE gap == {h} \X (index[s] + 1 .. k)
               old == MissedOf(s, h)
    <3>1. index[s] < k /\ h \in Torn
      BY <2>2, <1>0 DEF MissTo, Before
    <3>2. \A m \in gap : m \in Message /\ m[1] = h
                         /\ Before(<<height[s], index[s]>>, m) /\ ~ Before(<<h, k>>, m)
      <4> SUFFICES ASSUME NEW i \in index[s] + 1 .. k
                   PROVE  /\ <<h, i>> \in Message
                          /\ Before(<<height[s], index[s]>>, <<h, i>>)
                          /\ ~ Before(<<h, k>>, <<h, i>>)
        OBVIOUS
      <4>1. i \in Nat /\ i >= 1 /\ i <= Size[h] /\ i > index[s] /\ i <= k
        BY <1>0
      <4> QED
        BY <4>1, <1>0, <2>2, MessagePairs DEF Before
    <3>3. \A m \in Message : m[1] = h /\ Before(<<height[s], index[s]>>, m)
                             /\ ~ Before(<<h, k>>, m) => m \in gap
      BY <1>0, <2>2, MessagePairs DEF Before
    <3>4. MissedOf(s, height[s])' = old \cup gap
      BY <1>0, <1>1, <1>2, <3>2, <3>3, <2>2 DEF MissedOf
    <3>5. old \cap gap = {}
      BY <3>2 DEF Credit, MissedOf
    <3>6. /\ IsFiniteSet(old) /\ IsFiniteSet(gap)
          /\ Cardinality(old) \in Nat /\ Cardinality(gap) = k - index[s]
      <4>1. IsFiniteSet(old)
        BY <2>2 DEF Credit
      <4>2. IsFiniteSet(gap) /\ Cardinality(gap) = k - index[s]
        <5>1. index[s] \in Nat /\ k \in Nat /\ index[s] <= k
          BY <1>0, <3>1
        <5> QED
          BY <5>1, RunLength
      <4> HIDE DEF gap, old
      <4> QED
        BY <4>1, <4>2, FS_CardinalityType
    <3>7. /\ IsFiniteSet(old \cup gap)
          /\ Cardinality(old \cup gap) = Cardinality(old) + (k - index[s])
      <4>1. Cardinality(old \cap gap) = 0
        BY <3>5, FS_EmptySet
      <4> HIDE DEF gap, old
      <4>2. /\ IsFiniteSet(old \cup gap)
            /\ Cardinality(old \cup gap)
                 = Cardinality(old) + Cardinality(gap) - Cardinality(old \cap gap)
        BY <3>6, FS_Union
      <4> QED
        BY <4>1, <4>2, <3>6, <1>0
    <3>8. /\ height[s] > last => Cardinality(old) = index[s]
          /\ height[s] = last => seen[s] + Cardinality(old) = index[s]
          /\ height[s] < last => seen[s] = 0
          /\ seen[s] <= sent
      BY <2>2 DEF Credit
    <3> HIDE DEF gap, old
    <3>9. /\ h > last => Cardinality(old \cup gap) = k
          /\ h = last => seen[s] + Cardinality(old \cup gap) = k
      BY <1>0, <2>2, <3>6, <3>7, <3>8
    <3> QED
      BY <1>1, <1>4, <2>1, <2>2, <3>1, <3>4, <3>7, <3>8, <3>9
  <2>3. CASE h # height[s]
    <3> DEFINE gap == {h} \X (0 + 1 .. k)
    <3>1. height[s] < h
      BY <2>3, <1>0 DEF MissTo, Before
    <3>2. \A m \in gap : m \in Message /\ m[1] = h
                         /\ Before(<<height[s], index[s]>>, m) /\ ~ Before(<<h, k>>, m)
      <4> SUFFICES ASSUME NEW i \in 0 + 1 .. k
                   PROVE  /\ <<h, i>> \in Message
                          /\ Before(<<height[s], index[s]>>, <<h, i>>)
                          /\ ~ Before(<<h, k>>, <<h, i>>)
        OBVIOUS
      <4>1. i \in Nat /\ i >= 1 /\ i <= Size[h] /\ i <= k
        BY <1>0
      <4> QED
        BY <4>1, <1>0, <3>1, MessagePairs DEF Before
    <3>3. \A m \in Message : m[1] = h /\ ~ Before(<<h, k>>, m) => m \in gap
      BY <1>0, MessagePairs DEF Before
    <3>4. \A m \in missed[s] : m[1] # h
      BY <1>0, <1>2, <3>1, MessagePairs DEF Credit, Before
    <3>5. MissedOf(s, height[s])' = gap
      BY <1>0, <1>1, <1>2, <3>2, <3>3, <3>4 DEF MissedOf
    <3>6. IsFiniteSet(gap) /\ Cardinality(gap) = k
      <4>1. 0 \in Nat /\ 0 <= k /\ k - 0 = k
        BY <1>0
      <4>2. IsFiniteSet(gap) /\ Cardinality(gap) = k - 0
        BY <1>0, <4>1, RunLength
      <4> QED
        BY <4>1, <4>2
    <3>7. k = 0 => gap = {}
      OBVIOUS
    <3>8. (h <= last => seen[s] = 0) /\ seen[s] <= sent
      <4>1. (height[s] < last => seen[s] = 0) /\ seen[s] <= sent
        BY DEF Credit
      <4> QED
        BY <4>1, <3>1, <1>0
    <3>9. h < last \/ h = last \/ h > last
      BY <1>0
    <3>10. k = 0 \/ h \in Torn
      BY DEF MissTo
    <3> HIDE DEF gap
    <3> QED
      BY <1>0, <1>1, <1>4, <2>1, <3>5, <3>6, <3>7, <3>8, <3>9, <3>10
  <2> QED
    BY <2>2, <2>3
<1> QED
  BY <1>3, <1>4

(* The credits are right in every state of the specification. *)
LEMMA CreditInvariance == Spec => []Credit
<1>1. Init => Credit
  BY FS_EmptySet DEF Init, EntryInit, Credit, MissedOf, Height
<1>2. TypeInv /\ Credit /\ [Next]_vars => Credit'
  <2> SUFFICES ASSUME TypeInv, Credit, [Next]_vars PROVE Credit'
    OBVIOUS
  <2>1. ASSUME NEW s \in Source, ArriveWithin(s) PROVE Credit'
    <3>1. NextOf(s, height[s], index[s] + 1)
      BY <2>1, WithinNext
    <3>2. Effect(s, height[s], index[s] + 1)
      BY <2>1, <3>1, ArriveEffect DEF ArriveWithin, NextOf, TypeInv
    <3> QED
      BY <3>1, <3>2, ArriveCredits
  <2>2. ASSUME NEW s \in Source, ArriveNextBlock(s) PROVE Credit'
    <3>1. NextOf(s, height[s] + 1, 1)
      BY <2>2, AcrossNext
    <3>2. Effect(s, height[s] + 1, 1)
      BY <2>2, <3>1, ArriveEffect DEF ArriveNextBlock, NextOf, TypeInv
    <3> QED
      BY <3>1, <3>2, ArriveCredits
  <2>3. ASSUME NEW s \in Source, Send(s) PROVE Credit'
    BY <2>3 DEF Send, entry, Credit, MissedOf
  <2>4. ASSUME NEW s \in Source, Miss(s) PROVE Credit'
    <3>1. PICK h, k : MissTo(s, h, k)
      BY <2>4, MissEffect
    <3> QED
      BY <3>1, MissCredits
  <2>5. CASE UNCHANGED vars
    BY <2>5 DEF vars, entry, Credit, MissedOf
  <2> QED
    BY <2>1, <2>2, <2>3, <2>4, <2>5 DEF Next
<1> QED
  BY <1>1, <1>2, TypeInvariance, PTL DEF Spec

(* A source in the open block is credited with what it sent of it, in torn *)
(* blocks and whole ones alike.                                            *)
THEOREM TrueCounts == Spec => []CountsAreTrue
<1>1. Credit => CountsAreTrue
  BY DEF Credit, MissedOf, CountsAreTrue
<1> QED
  BY <1>1, CreditInvariance, PTL

----------------------------------------------------------------------------
(***************************************************************************)
(* The inductive invariant about whole blocks.  What is decided of the     *)
(* open block, sent or in hand, is exactly its first `sent` messages, a    *)
(* message is in one hand at most and in none once it was sent, and every  *)
(* source vouches for all that is behind its cursor.                       *)
(***************************************************************************)
Decided(m) == shown[m] > 0 \/ m \in Due
Covered(m) == Decided(m) \/ m \in Lost

Prefix == \A m \in Message :
    /\ Decided(m) => m[1] <= last
    /\ m[1] \notin Torn /\ m[1] = last => (Decided(m) <=> m[2] <= sent)

OneHand == \A m \in WholeMessage :
    /\ shown[m] <= 1
    /\ \A s \in Source : m \in hand[s] =>
          shown[m] = 0 /\ \A t \in Source : m \in hand[t] => t = s

Vouched == \A s \in Source, m \in WholeMessage :
    Before(<<height[s], index[s]>>, m) \/ Covered(m)

PastCovered == \A m \in WholeMessage : m[1] < last => Covered(m)

BlockInv == Prefix /\ OneHand /\ Vouched /\ PastCovered

Numbers ==
    /\ last \in Nat /\ sent \in Nat /\ seen \in [Source -> Nat]
    /\ \A m \in Message : shown[m] \in Nat
    /\ \A s \in Source : height[s] \in Nat /\ index[s] \in Nat

LEMMA TypedNumbers == TypeInv => Numbers
  BY BlockFeedAssumption DEF TypeInv, TypeOK, EntryTypeOK, Height, Numbers

(* The next message of a whole block is the source's next position in it. *)
LEMMA WholePlace ==
    ASSUME TypeInv, NEW s \in Source, NEW h, NEW k, NextOf(s, h, k), h \notin Torn
    PROVE  (h > last => k = 1) /\ (h = last => k = seen[s] + 1)
<1>1. Cardinality(MissedOf(s, h)) = 0
  BY FS_EmptySet DEF NextOf
<1>2. last \in Nat /\ h \in Nat /\ k \in Nat /\ seen[s] \in Nat
  BY BlockFeedAssumption DEF NextOf, Height, TypeInv, TypeOK, EntryTypeOK
<1>3. /\ h > last => Cardinality(MissedOf(s, h)) = k - 1
      /\ h = last => seen[s] + Cardinality(MissedOf(s, h)) = k - 1
  BY DEF NextOf
<1> QED
  BY <1>1, <1>2, <1>3

(* A message that wins is the next to be decided, and what comes before it *)
(* is decided, or was missed.                                              *)
LEMMA WinnerIsNext ==
    ASSUME TypeInv, Credit, BlockInv, NEW s \in Source, NEW h, NEW k,
           NextOf(s, h, k), Opens(s, h, k) \/ Advances(s, h, k)
    PROVE  /\ <<h, k>> \in Message /\ h >= last
           /\ h \notin Torn => ~ Decided(<<h, k>>)
           /\ h \notin Torn => \A n \in Message : Before(<<h, k>>, n) => ~ Decided(n)
           /\ \A n \in WholeMessage : Before(n, <<h, k>>) => Covered(n)
<1>0. /\ h \in Height /\ h \in Nat /\ k \in Nat /\ k >= 1 /\ k <= Size[h]
  BY BlockFeedAssumption DEF NextOf, Height
<1>1. Numbers
  BY TypedNumbers
<1>2. <<h, k>> \in Message
  BY <1>0, MessagePairs
<1>3. h > last \/ (h = last /\ seen[s] + 1 > sent)
  BY DEF Opens, Advances
<1>4. seen[s] <= sent
  BY DEF Credit
<1>5. h \notin Torn => h > last \/ (h = last /\ k = sent + 1)
  BY <1>1, <1>3, <1>4, WholePlace DEF Numbers
<1>6. h \notin Torn => ~ Decided(<<h, k>>)
  BY <1>0, <1>1, <1>2, <1>5 DEF BlockInv, Prefix, Numbers
<1>7. ASSUME h \notin Torn, NEW n \in Message, Before(<<h, k>>, n) PROVE ~ Decided(n)
  <2>1. n[1] > h \/ (n[1] = h /\ n[2] > k)
    BY <1>7 DEF Before
  <2> QED
    BY <1>0, <1>1, <1>5, <1>7, <2>1, MessagePairs DEF BlockInv, Prefix, Numbers
<1>8. ASSUME NEW n \in WholeMessage, Before(n, <<h, k>>) PROVE Covered(n)
  <2>1. n \in Message /\ n[1] \notin Torn
    BY DEF WholeMessage
  <2>2. CASE n[1] < h
    <3>1. ~ Before(<<height[s], index[s]>>, n)
      BY <2>1, <2>2 DEF NextOf
    <3> QED
      BY <3>1 DEF BlockInv, Vouched
  <2>3. CASE n[1] = h /\ n[2] < k
    <3>1. h = last /\ k = sent + 1
      <4>1. k # 1
        BY <2>1, <2>3, <1>0, MessagePairs
      <4> QED
        BY <4>1, <1>0, <1>5, <2>1, <2>3, WholePlace
    <3>2. n[2] <= sent
      BY <2>1, <2>3, <3>1, <1>1, MessagePairs DEF Numbers
    <3> QED
      BY <2>1, <2>3, <3>1, <3>2 DEF BlockInv, Prefix, Covered
  <2> QED
    BY <1>8, <2>2, <2>3 DEF Before
<1> QED
  BY <1>0, <1>1, <1>2, <1>3, <1>6, <1>7, <1>8 DEF Numbers

(* What a message that arrives changes of the hands. *)
LEMMA ArriveHands ==
    ASSUME TypeInv, NEW s \in Source, NEW h, NEW k, Effect(s, h, k)
    PROVE  /\ Opens(s, h, k) \/ Advances(s, h, k) =>
                \A m : m \in Due' <=> m \in Due \/ m = <<h, k>>
           /\ Trails(s, h) => Due' = Due
<1>1. ASSUME Opens(s, h, k) \/ Advances(s, h, k), NEW m
      PROVE  m \in Due' <=> m \in Due \/ m = <<h, k>>
  <2>1. hand[s] = {} /\ hand' = [hand EXCEPT ![s] = {<<h, k>>}]
    BY <1>1 DEF Effect, Opens, Advances
  <2>2. hand'[s] = {<<h, k>>} /\ \A t \in Source : t # s => hand'[t] = hand[t]
    BY <2>1 DEF TypeInv, TypeOK
  <2> QED
    BY <2>1, <2>2 DEF Due
<1>2. ASSUME Trails(s, h) PROVE Due' = Due
  BY <1>2 DEF Trails, Due
<1> QED
  BY <1>1, <1>2

(* Sending the next message keeps the invariant, forwarded or not. *)
LEMMA ArriveKeeps ==
    ASSUME TypeInv, Credit, BlockInv, NEW s \in Source, NEW h, NEW k,
           NextOf(s, h, k), Effect(s, h, k)
    PROVE  BlockInv'
<1>0. /\ h \in Height /\ h \in Nat /\ k \in Nat /\ k >= 1 /\ k <= Size[h]
  BY BlockFeedAssumption DEF NextOf, Height
<1>1. Numbers
  BY TypedNumbers
<1>2. <<h, k>> \in Message
  BY <1>0, MessagePairs
<1>3. shown' = shown /\ Lost' = Lost
  BY DEF Effect, Lost
<1>4. CASE Opens(s, h, k) \/ Advances(s, h, k)
  <2>1. \A m : m \in Due' <=> m \in Due \/ m = <<h, k>>
    BY <1>4, ArriveHands
  <2>2. \A m : Decided(m)' <=> Decided(m) \/ m = <<h, k>>
    BY <2>1, <1>3 DEF Decided
  <2>3. /\ h >= last
        /\ h \notin Torn => ~ Decided(<<h, k>>)
        /\ h \notin Torn => \A n \in Message : Before(<<h, k>>, n) => ~ Decided(n)
        /\ \A n \in WholeMessage : Before(n, <<h, k>>) => Covered(n)
    BY <1>4, WinnerIsNext
  <2>4. last' = h
    BY <1>4 DEF Opens, Advances
  <2>5. h \notin Torn => k = sent'
    <3>1. CASE Opens(s, h, k)
      BY <3>1, WholePlace DEF Opens
    <3>2. CASE Advances(s, h, k)
      BY <3>2, WholePlace DEF Advances
    <3> QED
      BY <1>4, <3>1, <3>2
  <2>6. \A m : Covered(m) => Covered(m)'
    BY <2>2, <1>3 DEF Covered
  <2>7. Prefix'
    <3> SUFFICES ASSUME NEW m \in Message
                 PROVE  /\ Decided(m)' => m[1] <= h
                        /\ m[1] \notin Torn /\ m[1] = h =>
                              (Decided(m)' <=> m[2] <= sent')
      BY <2>4 DEF Prefix
    <3>1. m[1] \in Nat /\ m[2] \in Nat /\ m = <<m[1], m[2]>> /\ m[2] >= 1
      BY MessagePairs
    <3>2. Decided(m) => m[1] <= last
      BY DEF BlockInv, Prefix
    <3>3. Decided(m)' => m[1] <= h
      BY <2>2, <2>3, <3>1, <3>2, <1>0, <1>1 DEF Numbers
    <3>4. ASSUME m[1] \notin Torn, m[1] = h
          PROVE  Decided(m)' <=> m[2] <= sent'
      <4>1. k = sent'
        BY <2>5, <3>4
      <4>2. CASE m[2] = k
        BY <2>2, <3>1, <3>4, <4>1, <4>2, <1>0
      <4>3. CASE m[2] > k
        <5>1. ~ Decided(m) /\ m # <<h, k>>
          BY <2>3, <3>1, <3>4, <4>3, <1>0 DEF Before
        <5> QED
          BY <2>2, <5>1, <4>1, <4>3, <3>1, <1>0
      <4>4. CASE m[2] < k
        <5>1. CASE Opens(s, h, k)
          <6>1. k = 1
            BY <5>1, <3>4, WholePlace DEF Opens
          <6> QED
            BY <6>1, <3>1, <4>4
        <5>2. CASE Advances(s, h, k)
          <6>1. k = seen[s] + 1 /\ h = last /\ sent' = seen[s] + 1 /\ seen[s] + 1 > sent
            BY <5>2, <3>4, WholePlace DEF Advances
          <6>2. seen[s] <= sent
            BY DEF Credit
          <6>3. m[2] <= sent
            BY <6>1, <6>2, <4>4, <3>1, <1>1 DEF Numbers
          <6>4. Decided(m)
            BY <6>1, <6>3, <3>4 DEF BlockInv, Prefix
          <6> QED
            BY <2>2, <6>4, <4>1, <4>4, <3>1, <1>0
        <5> QED
          BY <1>4, <5>1, <5>2
      <4> QED
        BY <4>2, <4>3, <4>4, <3>1, <1>0
    <3> QED
      BY <3>3, <3>4
  <2>8. OneHand'
    <3>1. \A t \in Source : t # s => hand'[t] = hand[t]
      BY <1>4 DEF Opens, Advances, TypeInv, TypeOK
    <3>2. hand'[s] = {<<h, k>>}
      BY <1>4 DEF Opens, Advances, TypeInv, TypeOK
    <3>3. <<h, k>> \in WholeMessage =>
             shown[<<h, k>>] = 0 /\ \A t \in Source : <<h, k>> \notin hand[t]
      <4> SUFFICES ASSUME <<h, k>> \in WholeMessage
                   PROVE  shown[<<h, k>>] = 0 /\ <<h, k>> \notin Due
        BY DEF Due
      <4>1. ~ Decided(<<h, k>>)
        BY <2>3 DEF WholeMessage
      <4> QED
        BY <4>1, <1>1, <1>2 DEF Decided, Numbers
    <3> QED
      BY <3>1, <3>2, <3>3, <1>3 DEF BlockInv, OneHand
  <2>9. Vouched'
    <3> SUFFICES ASSUME NEW t \in Source, NEW m \in WholeMessage
                 PROVE  Before(<<height'[t], index'[t]>>, m) \/ Covered(m)'
      BY DEF Vouched, Before
    <3>1. CASE t = s
      <4>1. height'[t] = h /\ index'[t] = k
        BY <3>1 DEF Effect, TypeInv, TypeOK
      <4>2. \/ Before(<<h, k>>, m) \/ m = <<h, k>> \/ Covered(m)
        BY DEF NextOf, BlockInv, Vouched, WholeMessage
      <4>3. m = <<h, k>> => Covered(m)'
        BY <2>2 DEF Covered
      <4> QED
        BY <4>1, <4>2, <4>3, <2>6
    <3>2. CASE t # s
      <4>1. height'[t] = height[t] /\ index'[t] = index[t]
        BY <3>2 DEF Effect, TypeInv, TypeOK
      <4> QED
        BY <4>1, <2>6 DEF BlockInv, Vouched
    <3> QED
      BY <3>1, <3>2
  <2>10. PastCovered'
    <3>1. \A m \in WholeMessage : m[1] < h => Before(m, <<h, k>>)
      BY DEF Before
    <3> QED
      BY <3>1, <2>3, <2>4, <2>6 DEF PastCovered
  <2> QED
    BY <2>7, <2>8, <2>9, <2>10 DEF BlockInv
<1>5. CASE Trails(s, h)
  <2>1. Due' = Due /\ last' = last /\ sent' = sent /\ hand' = hand
    BY <1>5, ArriveHands DEF Trails
  <2>2. \A m : (Decided(m)' <=> Decided(m)) /\ (Covered(m)' <=> Covered(m))
    BY <2>1, <1>3 DEF Decided, Covered
  <2>3. Prefix' /\ OneHand' /\ PastCovered'
    BY <2>1, <2>2, <1>3 DEF BlockInv, Prefix, OneHand, PastCovered
  <2>4. h \notin Torn => Covered(<<h, k>>)
    <3> SUFFICES ASSUME h \notin Torn PROVE Covered(<<h, k>>)
      OBVIOUS
    <3>1. CASE h = last /\ seen[s] + 1 <= sent
      <4>1. k <= sent
        BY <3>1, WholePlace
      <4> QED
        BY <3>1, <4>1, <1>2 DEF BlockInv, Prefix, Covered
    <3>2. CASE h < last
      <4>1. <<h, k>> \in WholeMessage
        BY <1>2 DEF WholeMessage
      <4> QED
        BY <3>2, <4>1 DEF BlockInv, PastCovered
    <3> QED
      BY <1>5, <3>1, <3>2 DEF Trails
  <2>5. Vouched'
    <3> SUFFICES ASSUME NEW t \in Source, NEW m \in WholeMessage
                 PROVE  Before(<<height'[t], index'[t]>>, m) \/ Covered(m)
      BY <2>2 DEF Vouched, Before
    <3>1. CASE t = s
      <4>1. height'[t] = h /\ index'[t] = k
        BY <3>1 DEF Effect, TypeInv, TypeOK
      <4>2. \/ Before(<<h, k>>, m) \/ m = <<h, k>> \/ Covered(m)
        BY DEF NextOf, BlockInv, Vouched, WholeMessage
      <4>3. m = <<h, k>> => Covered(m)
        BY <2>4 DEF WholeMessage
      <4> QED
        BY <4>1, <4>2, <4>3
    <3>2. CASE t # s
      <4>1. height'[t] = height[t] /\ index'[t] = index[t]
        BY <3>2 DEF Effect, TypeInv, TypeOK
      <4> QED
        BY <4>1 DEF BlockInv, Vouched
    <3> QED
      BY <3>1, <3>2
  <2> QED
    BY <2>3, <2>5 DEF BlockInv
<1> QED
  BY <1>4, <1>5 DEF Effect

(* A message sent was decided before, and is sent for the first time. *)
LEMMA SendEffect ==
    ASSUME TypeInv, BlockInv, NEW s \in Source, NEW m \in hand[s],
           hand' = [hand EXCEPT ![s] = @ \ {m}],
           shown' = [shown EXCEPT ![m] = @ + 1]
    PROVE  /\ m \in Message /\ m \in Due
           /\ \A n : n \in Due' => n \in Due
           /\ \A n : n \in Due => n \in Due' \/ n = m
           /\ m \in WholeMessage => shown[m] = 0 /\ m \notin Due'
           /\ \A n \in Message : Decided(n)' <=> Decided(n)
           /\ OneHand'
<1>1. /\ m \in Message /\ hand'[s] = hand[s] \ {m}
      /\ \A t \in Source : t # s => hand'[t] = hand[t]
      /\ shown'[m] = shown[m] + 1
      /\ \A n \in Message : n # m => shown'[n] = shown[n]
      /\ \A n \in Message : shown[n] \in Nat
  BY DEF TypeInv, TypeOK
<1>2. m \in Due /\ (\A n : n \in Due' => n \in Due)
  BY <1>1 DEF Due
<1>3. \A n : n \in Due => n \in Due' \/ n = m
  <2> SUFFICES ASSUME NEW n \in Due, n # m PROVE n \in Due'
    OBVIOUS
  <2>1. PICK t \in Source : n \in hand[t]
    BY DEF Due
  <2>2. n \in hand'[t]
    BY <1>1, <2>1
  <2> QED
    BY <2>2 DEF Due
<1>4. m \in WholeMessage => shown[m] = 0 /\ m \notin Due'
  <2> SUFFICES ASSUME m \in WholeMessage
               PROVE  shown[m] = 0 /\ \A t \in Source : m \notin hand'[t]
    BY DEF Due
  <2> QED
    BY <1>1 DEF BlockInv, OneHand
<1>5. \A n \in Message : Decided(n)' <=> Decided(n)
  BY <1>1, <1>2, <1>3 DEF Decided
<1>6. OneHand'
  <2> SUFFICES ASSUME NEW n \in WholeMessage
               PROVE  /\ shown'[n] <= 1
                      /\ \A t \in Source : n \in hand'[t] =>
                            shown'[n] = 0 /\ \A u \in Source : n \in hand'[u] => u = t
    BY DEF OneHand
  <2>1. n \in Message
    BY DEF WholeMessage
  <2>2. \A t \in Source : n \in hand'[t] => n \in hand[t]
    BY <1>1
  <2>3. CASE n = m
    <3>1. \A t \in Source : n \notin hand'[t]
      BY <2>3, <1>4 DEF Due
    <3> QED
      BY <2>3, <3>1, <1>1, <1>4
  <2>4. CASE n # m
    BY <2>1, <2>2, <2>4, <1>1 DEF BlockInv, OneHand
  <2> QED
    BY <2>3, <2>4
<1> QED
  BY <1>1, <1>2, <1>3, <1>4, <1>5, <1>6

LEMMA SendKeeps ==
    ASSUME TypeInv, BlockInv, NEW s \in Source, Send(s)
    PROVE  BlockInv'
<1>1. PICK m \in hand[s] :
         /\ hand' = [hand EXCEPT ![s] = @ \ {m}]
         /\ shown' = [shown EXCEPT ![m] = @ + 1]
         /\ UNCHANGED <<entry, height, index, missed>>
  BY DEF Send
<1>2. OneHand' /\ \A n \in Message : Decided(n)' <=> Decided(n)
  BY <1>1, SendEffect
<1>3. \A n \in Message : Covered(n)' <=> Covered(n)
  BY <1>1, <1>2 DEF Covered, Lost
<1> QED
  BY <1>1, <1>2, <1>3
     DEF BlockInv, Prefix, Vouched, PastCovered, WholeMessage, entry, Before

(* Missing the rest of a block, and maybe more blocks, keeps it as well.   *)
LEMMA MissKeeps ==
    ASSUME TypeInv, BlockInv, NEW s \in Source, Miss(s)
    PROVE  BlockInv'
<1>1. PICK h, k : MissTo(s, h, k)
  BY MissEffect
<1>2. /\ hand' = hand /\ shown' = shown /\ last' = last /\ sent' = sent
      /\ height'[s] = h /\ index'[s] = k
      /\ missed'[s] = missed[s] \cup {m \in Message :
                                        /\ Before(<<height[s], index[s]>>, m)
                                        /\ ~ Before(<<h, k>>, m)}
      /\ \A t \in Source : t # s => /\ height'[t] = height[t] /\ index'[t] = index[t]
                                    /\ missed'[t] = missed[t]
  BY <1>1 DEF MissTo, entry, TypeInv, TypeOK
<1>3. \A m : m \in Lost => m \in Lost'
  BY <1>2 DEF Lost
<1>4. \A m : (Decided(m)' <=> Decided(m)) /\ (Covered(m) => Covered(m)')
  BY <1>2, <1>3 DEF Decided, Covered, Due
<1>5. Prefix' /\ OneHand' /\ PastCovered'
  BY <1>2, <1>4 DEF BlockInv, Prefix, OneHand, PastCovered
<1>6. Vouched'
  <2> SUFFICES ASSUME NEW t \in Source, NEW m \in WholeMessage
               PROVE  Before(<<height'[t], index'[t]>>, m) \/ Covered(m)'
    BY DEF Vouched, Before
  <2>1. CASE t = s
    <3>1. height'[t] = h /\ index'[t] = k
      BY <2>1, <1>2
    <3>2. CASE Before(<<height[s], index[s]>>, m) /\ ~ Before(<<h, k>>, m)
      <4>1. m \in missed'[s]
        BY <3>2, <1>2 DEF WholeMessage
      <4> QED
        BY <4>1 DEF Covered, Lost
    <3>3. CASE ~ Before(<<height[s], index[s]>>, m)
      BY <3>3, <1>4 DEF BlockInv, Vouched
    <3> QED
      BY <3>1, <3>2, <3>3
  <2>2. CASE t # s
    <3>1. height'[t] = height[t] /\ index'[t] = index[t]
      BY <2>2, <1>2
    <3> QED
      BY <3>1, <1>4 DEF BlockInv, Vouched
  <2> QED
    BY <2>1, <2>2
<1> QED
  BY <1>5, <1>6 DEF BlockInv

(* A message that arrives is its source's next one, in the block it is in  *)
(* or the one after.                                                       *)
LEMMA ArrivesNext ==
    ASSUME TypeInv, Credit, NEW s \in Source, ArriveWithin(s) \/ ArriveNextBlock(s)
    PROVE  \E h, k : NextOf(s, h, k) /\ Effect(s, h, k)
<1>1. CASE ArriveWithin(s)
  <2>1. NextOf(s, height[s], index[s] + 1)
    BY <1>1, WithinNext
  <2>2. Effect(s, height[s], index[s] + 1)
    BY <1>1, <2>1, ArriveEffect DEF ArriveWithin, NextOf, TypeInv
  <2> QED
    BY <2>1, <2>2
<1>2. CASE ArriveNextBlock(s)
  <2>1. NextOf(s, height[s] + 1, 1)
    BY <1>2, AcrossNext
  <2>2. Effect(s, height[s] + 1, 1)
    BY <1>2, <2>1, ArriveEffect DEF ArriveNextBlock, NextOf, TypeInv
  <2> QED
    BY <2>1, <2>2
<1> QED
  BY <1>1, <1>2

(* The invariant is one of the specification. *)
THEOREM Invariance == Spec => []BlockInv
<1>1. Init => BlockInv
  <2> SUFFICES ASSUME Init PROVE BlockInv
    OBVIOUS
  <2>1. \A m \in Message : ~ Decided(m)
    BY DEF Init, Decided, Due
  <2>2. Prefix /\ PastCovered
    BY <2>1, MessagePairs DEF Init, EntryInit, Prefix, PastCovered, WholeMessage
  <2>3. OneHand
    BY DEF Init, OneHand, WholeMessage
  <2>4. Vouched
    BY MessagePairs DEF Init, Vouched, Before, WholeMessage
  <2> QED
    BY <2>2, <2>3, <2>4 DEF BlockInv
<1>2. TypeInv /\ Credit /\ BlockInv /\ [Next]_vars => BlockInv'
  <2> SUFFICES ASSUME TypeInv, Credit, BlockInv, [Next]_vars PROVE BlockInv'
    OBVIOUS
  <2>1. ASSUME NEW s \in Source, ArriveWithin(s) \/ ArriveNextBlock(s)
        PROVE  BlockInv'
    BY <2>1, ArrivesNext, ArriveKeeps
  <2>2. ASSUME NEW s \in Source, Send(s) PROVE BlockInv'
    BY <2>2, SendKeeps
  <2>3. ASSUME NEW s \in Source, Miss(s) PROVE BlockInv'
    BY <2>3, MissKeeps
  <2>4. CASE UNCHANGED vars
    BY <2>4 DEF vars, entry, BlockInv, Prefix, OneHand, Vouched, PastCovered,
                Covered, Decided, Due, Lost, Before
  <2> QED
    BY <2>1, <2>2, <2>3, <2>4 DEF Next
<1> QED
  BY <1>1, <1>2, TypeInvariance, CreditInvariance, PTL DEF Spec

----------------------------------------------------------------------------
(* A step of the feed commits it to one message, gives one, loses some, or *)
(* does nothing the client could see.                                      *)
given == [m \in WholeMessage |-> shown[m]]
due == Due \cap WholeMessage
lost == Lost \cap WholeMessage

LEMMA StepIsPromised ==
    ASSUME TypeInv, Credit, BlockInv, [Next]_vars
    PROVE  \/ \E m \in WholeMessage : Reader!Commit(m) \/ Reader!Give(m)
           \/ Reader!Lose
           \/ UNCHANGED <<given, due, lost>>
<1>1. ASSUME NEW s \in Source, ArriveWithin(s) \/ ArriveNextBlock(s)
      PROVE  \/ \E m \in WholeMessage : Reader!Commit(m)
             \/ UNCHANGED <<given, due, lost>>
  <2>1. PICK h, k : NextOf(s, h, k) /\ Effect(s, h, k)
    BY <1>1, ArrivesNext
  <2>2. given' = given /\ lost' = lost
    BY <2>1 DEF Effect, given, lost, Lost
  <2>3. CASE Trails(s, h)
    BY <2>1, <2>2, <2>3, ArriveHands DEF due
  <2>4. CASE Opens(s, h, k) \/ Advances(s, h, k)
    <3>1. \A m : m \in Due' <=> m \in Due \/ m = <<h, k>>
      BY <2>1, <2>4, ArriveHands
    <3>2. /\ <<h, k>> \in Message
          /\ h \notin Torn => ~ Decided(<<h, k>>)
          /\ h \notin Torn => \A n \in Message : Before(<<h, k>>, n) => ~ Decided(n)
          /\ \A n \in WholeMessage : Before(n, <<h, k>>) => Covered(n)
      BY <2>1, <2>4, WinnerIsNext
    <3>3. CASE h \in Torn
      <4>1. <<h, k>> \notin WholeMessage
        BY <3>3 DEF WholeMessage
      <4>2. due' = due
        BY <3>1, <4>1 DEF due
      <4> QED
        BY <2>2, <4>2
    <3>4. CASE h \notin Torn
      <4>1. <<h, k>> \in WholeMessage
        BY <3>2, <3>4 DEF WholeMessage
      <4>2. due' = due \cup {<<h, k>>}
        BY <3>1, <4>1 DEF due
      <4>3. \A n \in WholeMessage : Decided(n) <=> given[n] > 0 \/ n \in due
        BY DEF Decided, given, due
      <4>4. \A n \in WholeMessage : Covered(n) => Decided(n) \/ n \in lost
        BY DEF Covered, lost
      <4>5. \A n \in WholeMessage : n \in Message
        BY DEF WholeMessage
      <4>6. Reader!Commit(<<h, k>>)
        BY <2>2, <3>2, <3>4, <4>1, <4>2, <4>3, <4>4, <4>5
           DEF Reader!Commit, Reader!Decided, given, due, lost
      <4> QED
        BY <4>1, <4>6
    <3> QED
      BY <3>3, <3>4
  <2> QED
    BY <2>1, <2>3, <2>4 DEF Effect
<1>2. ASSUME NEW s \in Source, Send(s)
      PROVE  \/ \E m \in WholeMessage : Reader!Give(m)
             \/ UNCHANGED <<given, due, lost>>
  <2>1. PICK m \in hand[s] :
           /\ hand' = [hand EXCEPT ![s] = @ \ {m}]
           /\ shown' = [shown EXCEPT ![m] = @ + 1]
           /\ UNCHANGED <<entry, height, index, missed>>
    BY <1>2 DEF Send
  <2>2. /\ m \in Message /\ m \in Due
        /\ \A n : n \in Due' => n \in Due
        /\ \A n : n \in Due => n \in Due' \/ n = m
        /\ m \in WholeMessage => shown[m] = 0 /\ m \notin Due'
    BY <2>1, SendEffect
  <2>3. lost' = lost
    BY <2>1 DEF lost, Lost
  <2>4. CASE m \in WholeMessage
    <3>1. m \in due /\ due' = due \ {m}
      BY <2>2, <2>4 DEF due
    <3>2. given' = [given EXCEPT ![m] = @ + 1]
      BY <2>1, <2>4 DEF given, TypeInv, TypeOK, WholeMessage
    <3>3. Reader!Give(m)
      BY <2>3, <3>1, <3>2 DEF Reader!Give, given, due, lost
    <3> QED
      BY <2>4, <3>3
  <2>5. CASE m \notin WholeMessage
    <3>1. due' = due
      BY <2>2, <2>5 DEF due
    <3>2. given' = given
      BY <2>1, <2>5 DEF given, TypeInv, TypeOK, WholeMessage
    <3> QED
      BY <2>3, <3>1, <3>2
  <2> QED
    BY <2>4, <2>5
<1>3. ASSUME NEW s \in Source, Miss(s) PROVE Reader!Lose
  <2>1. given' = given /\ due' = due
    BY <1>3 DEF Miss, given, due, Due
  <2>2. \A t \in Source : missed[t] \subseteq missed'[t]
    BY <1>3 DEF Miss, TypeInv, TypeOK
  <2>3. lost \subseteq lost' /\ lost' \in SUBSET WholeMessage
    BY <2>2 DEF lost, Lost
  <2> QED
    BY <2>1, <2>3 DEF Reader!Lose, given, due, lost
<1>4. CASE UNCHANGED vars
  BY <1>4 DEF vars, given, due, lost, Due, Lost
<1> QED
  BY <1>1, <1>2, <1>3, <1>4 DEF Next

(* The feed implements the promise made to a client of a raced channel:    *)
(* the messages of whole blocks are decided on in chain order, none that   *)
(* every source brought is passed over, and each is sent once.             *)
THEOREM Refinement == Spec => KeepsPromise
<1>1. Init => Reader!Init
  BY DEF Init, Reader!Init, WholeMessage, Due, Lost
<1>2. TypeInv /\ Credit /\ BlockInv /\ [Next]_vars
        => [Reader!Next]_<<[m \in WholeMessage |-> shown[m]],
                           Due \cap WholeMessage, Lost \cap WholeMessage>>
  BY StepIsPromised DEF Reader!Next, given, due, lost
<1> QED
  BY <1>1, <1>2, Invariance, CreditInvariance, TypeInvariance, PTL
     DEF Spec, KeepsPromise, Reader!Spec

(* No message of a whole block goes out twice. *)
THEOREM Once == Spec => []ShownOnce
<1>1. BlockInv => ShownOnce
  BY DEF BlockInv, OneHand, ShownOnce
<1> QED
  BY <1>1, Invariance, PTL

(* No message of a whole block is passed over that every source got        *)
(* through, not even by the messages of a torn block after it.             *)
THEOREM Gapless == Spec => []NoHole
<1>1. TypeInv /\ BlockInv => NoHole
  <2> SUFFICES ASSUME TypeInv, BlockInv, NEW m \in WholeMessage, NEW n \in Message,
                      Before(m, n), shown[n] > 0
               PROVE  Covered(m)
    BY DEF NoHole, Covered, Decided
  <2>0. Numbers
    BY TypedNumbers
  <2>1. m \in Message /\ m[1] \notin Torn
    BY DEF WholeMessage
  <2>2. n[1] <= last
    BY DEF BlockInv, Prefix, Decided
  <2>3. CASE m[1] < last
    BY <2>3 DEF BlockInv, PastCovered
  <2>4. CASE m[1] = last
    <3>1. n[1] = last /\ m[2] < n[2]
      BY <2>0, <2>1, <2>2, <2>4, MessagePairs DEF Before, Numbers
    <3>2. n[2] <= sent
      BY <2>1, <2>4, <3>1 DEF BlockInv, Prefix, Decided
    <3>3. m[2] <= sent
      BY <2>0, <2>1, <3>1, <3>2, MessagePairs DEF Numbers
    <3> QED
      BY <2>1, <2>4, <3>3 DEF BlockInv, Prefix, Covered
  <2> QED
    BY <2>0, <2>1, <2>2, <2>3, <2>4, MessagePairs DEF Before, Numbers
<1> QED
  BY <1>1, Invariance, TypeInvariance, PTL
=============================================================================
