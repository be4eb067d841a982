----------------------------- MODULE Feeds_proof -----------------------------
(***************************************************************************)
(* What the two feeds whose frames are raced whole guarantee, for any      *)
(* number of sources: the `bbo` feed whatever stamps its sources send and  *)
(* whatever the limits, and the `trades` feed however its sources cut the  *)
(* trades into batches.  The feeds share the entry and nothing else.       *)
(***************************************************************************)
EXTENDS LeadFeed, TradesFeed, TLAPS

----------------------------------------------------------------------------
(***************************************************************************)
(* The `bbo` feed.                                                         *)
(***************************************************************************)
(* The entry, the hands and the history variables keep their types. *)
THEOREM Typing == Spec => []TypeOK
<1>1. Init => TypeOK
  BY ArbiterAssumption DEF Init, EntryInit, TypeOK, EntryTypeOK
<1>2. TypeOK /\ [Next]_vars => TypeOK'
  <2> SUFFICES ASSUME TypeOK, [Next]_vars PROVE TypeOK'
    OBVIOUS
  <2>1. CASE ClockTick
    BY <2>1 DEF ClockTick, Tick, entry, sendings, TypeOK, EntryTypeOK
  <2>2. ASSUME NEW s \in Source, NEW v \in Stamp, Frame(s, v)
        PROVE  TypeOK'
    <3>1. PICK o \in Outcome :
             /\ LeadFrame(s, v, o)
             /\ hand' = IF o \in Forwarded THEN [hand EXCEPT ![s] = v] ELSE hand
      BY <2>2 DEF Frame
    <3>2. v \in Nat
      BY LeadFeedAssumption DEF Stamp
    <3>3. EntryTypeOK'
      BY <3>1, <3>2 DEF LeadFrame, Take, Keep, TypeOK, EntryTypeOK
    <3>4. admitted' \in [Source -> [Stamp -> Nat]]
      BY <2>2 DEF Frame, TypeOK
    <3>5. hand' \in [Source -> {0} \cup Stamp]
      BY <3>1 DEF TypeOK
    <3> QED
      BY <2>2, <3>3, <3>4, <3>5 DEF Frame, sendings, TypeOK
  <2>3. ASSUME NEW s \in Source, Send(s)
        PROVE  TypeOK'
    <3>1. hand[s] \in Stamp /\ hand' \in [Source -> {0} \cup Stamp]
      BY <2>3 DEF Send, TypeOK
    <3>2. carried' \in [Stamp -> SUBSET Source] /\ out' \in [Stamp -> Nat]
      BY <2>3, <3>1 DEF Send, TypeOK
    <3>3. behind' \in [Source -> [Stamp -> Nat]]
      BY <2>3 DEF Send, TypeOK
    <3> QED
      BY <2>3, <3>1, <3>2, <3>3 DEF Send, entry, TypeOK, EntryTypeOK
  <2>4. CASE UNCHANGED vars
    BY <2>4 DEF vars, entry, sendings, TypeOK, EntryTypeOK
  <2> QED
    BY <2>1, <2>2, <2>3, <2>4 DEF Next
<1> QED
  BY <1>1, <1>2, PTL DEF Spec

(***************************************************************************)
(* The inductive invariant.  Everything the feed promises hangs on what is *)
(* true of the stamps around the mark: above it no source has spoken, at   *)
(* it only the leader has won a frame; and on the frames in hand counting  *)
(* as their source's from the moment they win.                             *)
(***************************************************************************)
AboveUntouched ==
    \A v \in Stamp : v > last => /\ carried[v] = {}
                                 /\ out[v] = 0
                                 /\ \A s \in Source : /\ admitted[s][v] = 0
                                                      /\ hand[s] # v

\* s has won a frame of stamp v, sent or in hand.
Won(s, v) == s \in carried[v] \/ hand[s] = v

AtMarkOnlyLeader ==
    \A v \in Stamp : v = last => /\ leader \in Source
                                 /\ \A s \in Source : Won(s, v) => s = leader

OneWinnerPerStamp ==
    \A v \in Stamp : \A s, t \in Source : Won(s, v) /\ Won(t, v) => s = t

\* What is owed for a stamp that went out: a frame in hand is behind it once
\* it is sent, and the source that brought the stamp has none older in hand.
Overtaking ==
    \A s \in Source, w \in Stamp :
        /\ out[w] > 0 <=> carried[w] # {}
        /\ out[w] = 0 => behind[s][w] = 0
        /\ behind[s][w] <= 1
        /\ hand[s] # 0 /\ hand[s] < w /\ out[w] > 0 => behind[s][w] = 0
        /\ s \in carried[w] => behind[s][w] = 0 /\ (hand[s] = 0 \/ hand[s] >= w)

IInv == /\ LeaderComplete
        /\ MarkWithinReach
        /\ AboveUntouched
        /\ AtMarkOnlyLeader
        /\ OneWinnerPerStamp
        /\ Overtaking

(* What a frame past the gate does: it goes in its task's hands and is at  *)
(* the mark from then on, or only its admission is noted.                  *)
LEMMA FrameEffect ==
    ASSUME TypeOK, NEW s \in Source, NEW v \in Stamp, Frame(s, v)
    PROVE  /\ hand[s] = 0
           /\ admitted' = [admitted EXCEPT ![s][v] = @ + 1]
           /\ now' = now /\ v <= now + FutureLimit
           /\ carried' = carried /\ out' = out /\ behind' = behind
           /\ \/ /\ v > last \/ (v = last /\ leader = s)
                 /\ last' = v /\ leader' = s
                 /\ hand' = [hand EXCEPT ![s] = v]
              \/ /\ v < last \/ (v = last /\ leader # s)
                 /\ last' = last /\ leader' = leader /\ hand' = hand
<1> v \in Nat /\ last \in Nat /\ now \in Nat /\ FutureLimit \in Nat
  BY LeadFeedAssumption, GateAssumption DEF Stamp, TypeOK, EntryTypeOK
<1>1. PICK o \in Outcome :
         /\ LeadFrame(s, v, o)
         /\ hand' = IF o \in Forwarded THEN [hand EXCEPT ![s] = v] ELSE hand
  BY DEF Frame
<1>2. \/ v > last /\ o = "win" /\ last' = v /\ leader' = s
      \/ v = last /\ leader = s /\ o = "deliver" /\ last' = last /\ leader' = leader
      \/ v = last /\ leader # s /\ o = "late" /\ last' = last /\ leader' = leader
      \/ v < last /\ o = "stale" /\ last' = last /\ leader' = leader
  BY <1>1 DEF LeadFrame, Newer, Leads, Take, Keep
<1>3. /\ hand[s] = 0
      /\ admitted' = [admitted EXCEPT ![s][v] = @ + 1]
      /\ now' = now /\ v <= now + FutureLimit
      /\ carried' = carried /\ out' = out /\ behind' = behind
  BY DEF Frame, Admitted, FromFuture, sendings
<1> QED
  BY <1>1, <1>2, <1>3 DEF Forwarded

(* The invariant holds initially and every step of the feed keeps it. *)
THEOREM Invariance == Spec => []IInv
<1>1. Init => IInv
  BY LeadFeedAssumption, GateAssumption, ArbiterAssumption
     DEF Init, EntryInit, IInv, OneWinnerPerStamp, LeaderComplete, InHand, Won,
         MarkWithinReach, AboveUntouched, AtMarkOnlyLeader, Overtaking, Stamp
<1>2. TypeOK /\ IInv /\ [Next]_vars => IInv'
  <2> SUFFICES ASSUME TypeOK, IInv, [Next]_vars PROVE IInv'
    OBVIOUS
  <2>0. /\ last \in Nat /\ now \in Nat /\ FutureLimit \in Nat
        /\ \A v \in Stamp : v \in Nat /\ v # 0 /\ out[v] \in Nat
        /\ \A s \in Source, v \in Stamp : admitted[s][v] \in Nat /\ behind[s][v] \in Nat
        /\ \A s \in Source : hand[s] \in Nat /\ (hand[s] # 0 => hand[s] \in Stamp)
    BY LeadFeedAssumption, GateAssumption DEF Stamp, TypeOK, EntryTypeOK
  <2>1. CASE ClockTick
    BY <2>1, <2>0
       DEF ClockTick, Tick, entry, sendings, IInv, OneWinnerPerStamp, Won,
           LeaderComplete, InHand, MarkWithinReach, AboveUntouched,
           AtMarkOnlyLeader, Overtaking
  <2>2. ASSUME NEW s \in Source, NEW v \in Stamp, Frame(s, v)
        PROVE  IInv'
    <3>0. /\ hand[s] = 0
          /\ admitted' = [admitted EXCEPT ![s][v] = @ + 1]
          /\ now' = now /\ v <= now + FutureLimit
          /\ carried' = carried /\ out' = out /\ behind' = behind
      BY <2>2, FrameEffect
    <3>1. CASE /\ v > last \/ (v = last /\ leader = s)
               /\ last' = v /\ leader' = s
               /\ hand' = [hand EXCEPT ![s] = v]
      <4>1. hand'[s] = v /\ \A t \in Source : t # s => hand'[t] = hand[t]
        BY <3>1 DEF TypeOK
      <4>2. \A t \in Source, w \in Stamp : Won(t, w)' <=> Won(t, w) \/ (t = s /\ w = v)
        BY <4>1, <3>0, <2>0 DEF Won
      <4>3. \A t \in Source : Won(t, v) => t = s
        BY <3>1 DEF IInv, AboveUntouched, AtMarkOnlyLeader, Won
      <4>4. LeaderComplete'
        <5> SUFFICES out[v] + 1 = admitted[s][v] + 1
          BY <3>0, <3>1, <4>1 DEF LeaderComplete, InHand, TypeOK
        <5>1. CASE v > last
          BY <5>1 DEF IInv, AboveUntouched
        <5>2. CASE v = last /\ leader = s
          BY <5>2, <3>0, <2>0 DEF IInv, LeaderComplete, InHand
        <5> QED
          BY <5>1, <5>2, <3>1
      <4>5. MarkWithinReach'
        BY <3>0, <3>1 DEF MarkWithinReach
      <4>6. AboveUntouched'
        BY <3>0, <3>1, <4>1, <2>0 DEF IInv, AboveUntouched, TypeOK
      <4>7. AtMarkOnlyLeader'
        BY <3>1, <4>2, <4>3 DEF AtMarkOnlyLeader
      <4>8. OneWinnerPerStamp'
        BY <4>2, <4>3 DEF IInv, OneWinnerPerStamp
      <4>9. Overtaking'
        <5>1. \A w \in Stamp : out[w] > 0 \/ carried[w] # {} => w <= v
          BY <3>1, <2>0 DEF IInv, AboveUntouched
        <5> QED
          BY <5>1, <3>0, <4>1, <2>0 DEF IInv, Overtaking
      <4> QED
        BY <4>4, <4>5, <4>6, <4>7, <4>8, <4>9 DEF IInv
    <3>2. CASE /\ v < last \/ (v = last /\ leader # s)
               /\ last' = last /\ leader' = leader /\ hand' = hand
      <4>1. LeaderComplete'
        BY <3>0, <3>2, <2>0 DEF IInv, LeaderComplete, InHand, TypeOK
      <4>2. AboveUntouched'
        BY <3>0, <3>2, <2>0 DEF IInv, AboveUntouched, TypeOK
      <4>3. MarkWithinReach' /\ AtMarkOnlyLeader' /\ OneWinnerPerStamp' /\ Overtaking'
        BY <3>0, <3>2 DEF IInv, MarkWithinReach, AtMarkOnlyLeader,
                          OneWinnerPerStamp, Won, Overtaking
      <4> QED
        BY <4>1, <4>2, <4>3 DEF IInv
    <3> QED
      BY <2>2, <3>1, <3>2, FrameEffect
  <2>3. ASSUME NEW s \in Source, Send(s)
        PROVE  IInv'
    <3> DEFINE h == hand[s]
    <3>1. /\ h \in Stamp /\ h \in Nat /\ h # 0
          /\ hand'[s] = 0 /\ \A t \in Source : t # s => hand'[t] = hand[t]
          /\ carried'[h] = carried[h] \cup {s}
          /\ \A w \in Stamp : w # h => carried'[w] = carried[w]
          /\ out'[h] = out[h] + 1
          /\ \A w \in Stamp : w # h => out'[w] = out[w]
          /\ \A t \in Source, w \in Stamp :
                behind'[t][w] = IF t = s /\ w > h /\ out[w] > 0
                                THEN behind[t][w] + 1 ELSE behind[t][w]
          /\ admitted' = admitted /\ last' = last /\ leader' = leader /\ now' = now
      BY <2>3, <2>0 DEF Send, TypeOK, entry
    <3> HIDE DEF h
    <3>2. h = hand[s]
      BY DEF h
    <3>3. \A t \in Source, w \in Stamp : Won(t, w)' => Won(t, w)
      BY <3>1, <3>2, <2>0 DEF Won
    <3>4. \A t \in Source : Won(t, h) => t = s
      BY <3>1, <3>2 DEF IInv, OneWinnerPerStamp, Won
    <3>5. LeaderComplete'
      <4> SUFFICES ASSUME NEW t \in Source, NEW v \in Stamp, leader = t, last = v
                   PROVE  out'[v] + InHand(t, v)' = admitted[t][v]
        BY <3>1 DEF LeaderComplete
      <4>1. out[v] + InHand(t, v) = admitted[t][v]
        BY DEF IInv, LeaderComplete
      <4>2. CASE v = h
        <5>1. t = s
          BY <4>2, <3>1, <3>2 DEF IInv, AtMarkOnlyLeader, Won
        <5> QED
          BY <5>1, <4>1, <4>2, <3>1, <3>2, <2>0 DEF InHand
      <4>3. CASE v # h
        BY <4>1, <4>3, <3>1, <3>2, <2>0 DEF InHand
      <4> QED
        BY <4>2, <4>3
    <3>6. MarkWithinReach'
      BY <3>1 DEF IInv, MarkWithinReach
    <3>7. AboveUntouched'
      <4>1. h <= last
        BY <3>1, <3>2, <2>0 DEF IInv, AboveUntouched
      <4> QED
        BY <4>1, <3>1, <2>0 DEF IInv, AboveUntouched
    <3>8. AtMarkOnlyLeader'
      BY <3>1, <3>3 DEF IInv, AtMarkOnlyLeader
    <3>9. OneWinnerPerStamp'
      BY <3>3 DEF IInv, OneWinnerPerStamp
    <3>10. Overtaking'
      <4> SUFFICES ASSUME NEW t \in Source, NEW w \in Stamp
                   PROVE
             /\ out'[w] > 0 <=> carried'[w] # {}
             /\ out'[w] = 0 => behind'[t][w] = 0
             /\ behind'[t][w] <= 1
             /\ hand'[t] # 0 /\ hand'[t] < w /\ out'[w] > 0 => behind'[t][w] = 0
             /\ t \in carried'[w] =>
                   behind'[t][w] = 0 /\ (hand'[t] = 0 \/ hand'[t] >= w)
        BY DEF Overtaking
      <4>1. /\ out[w] > 0 <=> carried[w] # {}
            /\ out[w] = 0 => behind[t][w] = 0
            /\ behind[t][w] <= 1
            /\ hand[t] # 0 /\ hand[t] < w /\ out[w] > 0 => behind[t][w] = 0
            /\ t \in carried[w] => behind[t][w] = 0 /\ (hand[t] = 0 \/ hand[t] >= w)
        BY DEF IInv, Overtaking
      <4>2. CASE w = h /\ t = s
        <5>1. behind[t][w] = 0
          <6>1. CASE out[w] = 0
            BY <6>1, <4>1
          <6>2. CASE out[w] > 0
            <7>1. PICK u \in Source : u \in carried[w]
              BY <6>2, <4>1 DEF TypeOK
            <7>2. u = s
              BY <7>1, <4>2, <3>4 DEF Won
            <7> QED
              BY <7>1, <7>2, <4>1, <4>2
          <6> QED
            BY <6>1, <6>2, <2>0
        <5> QED
          BY <5>1, <4>2, <3>1, <2>0
      <4>3. CASE w = h /\ t # s
        <5>1. t \notin carried[w]
          BY <4>3, <3>4 DEF Won
        <5>2. hand[t] # 0 /\ hand[t] < w => behind[t][w] = 0
          BY <4>1, <2>0
        <5> QED
          BY <5>1, <5>2, <4>1, <4>3, <3>1, <2>0
      <4>4. CASE w # h
        BY <4>1, <4>4, <3>1, <3>2, <2>0
      <4> QED
        BY <4>2, <4>3, <4>4
    <3> QED
      BY <3>5, <3>6, <3>7, <3>8, <3>9, <3>10 DEF IInv
  <2>4. CASE UNCHANGED vars
    BY <2>4 DEF vars, entry, sendings, IInv, OneWinnerPerStamp, Won, LeaderComplete,
                InHand, MarkWithinReach, AboveUntouched, AtMarkOnlyLeader, Overtaking
  <2> QED
    BY <2>1, <2>2, <2>3, <2>4 DEF Next
<1> QED
  BY <1>1, <1>2, Typing, PTL DEF Spec

(* A client follows one source through a stamp. *)
THEOREM FollowsOneSource == Spec => []OneSourcePerStamp
<1>1. TypeOK /\ IInv => OneSourcePerStamp
  BY DEF TypeOK, IInv, OneWinnerPerStamp, Won, OneSourcePerStamp
<1> QED
  BY <1>1, Typing, Invariance, PTL

(* The source a client follows loses none of its frames of the stamp. *)
THEOREM LeaderLosesNothing == Spec => []LeaderComplete
  BY Invariance, PTL DEF IInv

(* A clock running ahead costs the key FutureLimit of silence at most. *)
THEOREM Bounded == Spec => []MarkWithinReach
  BY Invariance, PTL DEF IInv

(* A client is taken back by a frame that was in hand, and by one of each  *)
(* source at most.                                                         *)
THEOREM TakenBackOnce == Spec => []OvertakenOnce
<1>1. IInv => OvertakenOnce
  BY DEF IInv, Overtaking, OvertakenOnce
<1> QED
  BY <1>1, Invariance, PTL

----------------------------------------------------------------------------
(***************************************************************************)
(* The `trades` feed.                                                      *)
(***************************************************************************)
(* What one batch does, with the handler's branches folded into two: it is *)
(* forwarded and moves the mark to its newest id, or it is at or below the *)
(* mark and nothing of it goes out.                                        *)
LEMMA BatchEffect ==
    ASSUME TradesTypeOK, NEW s \in Source, Batch(s)
    PROVE  \E c \in Tid :
              /\ NextCut(s, pos[s], c)
              /\ pos' = [pos EXCEPT ![s] = c]
              /\ missed' = missed
              /\ \/ /\ c > last /\ last' = c
                    /\ shown' = [t \in Tid |-> IF t > pos[s] /\ t <= c
                                               THEN shown[t] + 1 ELSE shown[t]]
                 \/ /\ c <= last /\ last' = last
                    /\ shown' = shown
<1>1. PICK c \in Tid, o \in Outcome :
         /\ NextCut(s, pos[s], c)
         /\ PointFrame(BatchId(pos[s] + 1, c), o)
         /\ pos' = [pos EXCEPT ![s] = c]
         /\ shown' = [t \in Tid |-> IF o \in Forwarded /\ t > pos[s] /\ t <= c
                                    THEN shown[t] + 1 ELSE shown[t]]
         /\ missed' = missed
  BY DEF Batch
<1>2. c \in Nat /\ last \in Nat
  BY TradesFeedAssumption DEF Tid, TradesTypeOK, EntryTypeOK
<1>3. CASE c > last
  <2>1. o = "win" /\ last' = c
    BY <1>1, <1>2, <1>3 DEF PointFrame, BatchId, Newer
  <2> QED
    BY <1>1, <1>3, <2>1 DEF Forwarded
<1>4. CASE c <= last
  <2>1. o \notin Forwarded /\ last' = last
    BY <1>1, <1>2, <1>4 DEF PointFrame, BatchId, Newer, Forwarded
  <2>2. shown' = shown
    BY <1>1, <2>1 DEF TradesTypeOK
  <2> QED
    BY <1>1, <1>4, <2>1, <2>2
<1> QED
  BY <1>2, <1>3, <1>4

(* The entry, the cursors and the history variables keep their types. *)
THEOREM TradesTyping == TradesSpec => []TradesTypeOK
<1>1. TradesInit => TradesTypeOK
  BY ArbiterAssumption, TradesFeedAssumption
     DEF TradesInit, EntryInit, TradesTypeOK, EntryTypeOK
<1>2. TradesTypeOK /\ [TradesNext]_tradesVars => TradesTypeOK'
  <2> SUFFICES ASSUME TradesTypeOK, [TradesNext]_tradesVars PROVE TradesTypeOK'
    OBVIOUS
  <2>1. ASSUME NEW s \in Source, Batch(s) PROVE TradesTypeOK'
    <3>1. PICK c \in Tid :
             /\ pos' = [pos EXCEPT ![s] = c]
             /\ missed' = missed
             /\ last' \in {c, last}
             /\ \/ shown' = shown
                \/ shown' = [t \in Tid |-> IF t > pos[s] /\ t <= c
                                           THEN shown[t] + 1 ELSE shown[t]]
      BY <2>1, BatchEffect
    <3>2. c \in 0 .. MaxTid /\ c \in Nat
      BY TradesFeedAssumption DEF Tid
    <3>3. EntryTypeOK'
      BY <2>1, <3>1, <3>2 DEF Batch, PointFrame, TradesTypeOK, EntryTypeOK
    <3>4. shown' \in [Tid -> Nat]
      BY <3>1 DEF TradesTypeOK
    <3> QED
      BY <3>1, <3>2, <3>3, <3>4 DEF TradesTypeOK
  <2>2. ASSUME NEW s \in Source, Miss(s) PROVE TradesTypeOK'
    <3>1. PICK c \in Cuts[s] :
             /\ pos' = [pos EXCEPT ![s] = c]
             /\ missed' = [missed EXCEPT ![s] =
                             @ \cup {t \in Tid : t > pos[s] /\ t <= c}]
             /\ UNCHANGED <<entry, shown>>
      BY <2>2 DEF Miss
    <3>2. c \in 0 .. MaxTid
      BY TradesFeedAssumption
    <3> QED
      BY <3>1, <3>2 DEF TradesTypeOK, EntryTypeOK, entry
  <2>3. CASE UNCHANGED tradesVars
    BY <2>3 DEF tradesVars, entry, TradesTypeOK, EntryTypeOK
  <2> QED
    BY <2>1, <2>2, <2>3 DEF TradesNext
<1> QED
  BY <1>1, <1>2, PTL DEF TradesSpec

----------------------------------------------------------------------------
(***************************************************************************)
(* NothingLost is kept because a source vouches for everything behind its  *)
(* own cursor: what it sent was forwarded then or had been already, and    *)
(* what it did not send it missed.  A batch that moves the mark joins on   *)
(* to its own source's cursor, so it leaves no hole below the mark.        *)
(***************************************************************************)
Covered(t) == shown[t] > 0 \/ \E s \in Source : t \in missed[s]

CursorCovered == \A s \in Source, t \in Tid : t <= pos[s] => Covered(t)

LossInv == NothingLost /\ CursorCovered

(* No trade is lost that every source got through. *)
THEOREM NoTradeLost == TradesSpec => []NothingLost
<1>1. TradesInit => LossInv
  BY TradesFeedAssumption
     DEF TradesInit, EntryInit, LossInv, NothingLost, CursorCovered, Covered, Tid
<1>2. TradesTypeOK /\ LossInv /\ [TradesNext]_tradesVars => LossInv'
  <2> SUFFICES ASSUME TradesTypeOK, LossInv, [TradesNext]_tradesVars PROVE LossInv'
    OBVIOUS
  <2>0. \A t \in Tid : t \in Nat /\ shown[t] \in Nat
    BY TradesFeedAssumption DEF TradesTypeOK, Tid
  <2>1. ASSUME NEW s \in Source, Batch(s) PROVE LossInv'
    <3>1. PICK c \in Tid :
              /\ NextCut(s, pos[s], c)
              /\ pos' = [pos EXCEPT ![s] = c]
              /\ missed' = missed
              /\ \/ /\ c > last /\ last' = c
                    /\ shown' = [t \in Tid |-> IF t > pos[s] /\ t <= c
                                               THEN shown[t] + 1 ELSE shown[t]]
                 \/ /\ c <= last /\ last' = last
                    /\ shown' = shown
      BY <2>1, BatchEffect
    <3>2. c \in Nat /\ last \in Nat /\ pos[s] \in Nat
      BY <2>0 DEF TradesTypeOK, EntryTypeOK
    <3>3. \A t \in Tid : Covered(t) => Covered(t)'
      BY <2>0, <3>1 DEF Covered
    <3>4. \A t \in Tid : t <= c => Covered(t)'
      <4> SUFFICES ASSUME NEW t \in Tid, t <= c PROVE Covered(t)'
        OBVIOUS
      <4>1. CASE t <= pos[s]
        BY <4>1, <3>3 DEF LossInv, CursorCovered
      <4>2. CASE t > pos[s] /\ c > last
        <5>1. shown'[t] = shown[t] + 1
          BY <4>2, <3>1, <3>2
        <5> QED
          BY <5>1, <2>0 DEF Covered
      <4>3. CASE t > pos[s] /\ c <= last
        <5>1. Covered(t)
          BY <4>3, <2>0, <3>2 DEF LossInv, NothingLost, Covered
        <5> QED
          BY <5>1, <3>3
      <4> QED
        BY <4>1, <4>2, <4>3, <2>0, <3>2
    <3>5. NothingLost'
      <4>1. \A t \in Tid : t <= last' => Covered(t)'
        BY <2>0, <3>1, <3>3, <3>4 DEF LossInv, NothingLost, Covered
      <4> QED
        BY <4>1 DEF NothingLost, Covered
    <3>6. CursorCovered'
      BY <3>1, <3>3, <3>4 DEF LossInv, CursorCovered, TradesTypeOK
    <3> QED
      BY <3>5, <3>6 DEF LossInv
  <2>2. ASSUME NEW s \in Source, Miss(s) PROVE LossInv'
    <3>1. PICK c \in Cuts[s] :
             /\ pos' = [pos EXCEPT ![s] = c]
             /\ missed' = [missed EXCEPT ![s] =
                             @ \cup {t \in Tid : t > pos[s] /\ t <= c}]
             /\ last' = last /\ shown' = shown
      BY <2>2 DEF Miss, entry
    <3>2. \A t \in Tid : Covered(t) => Covered(t)'
      BY <3>1 DEF Covered, TradesTypeOK
    <3>3. \A t \in Tid : t > pos[s] /\ t <= c => Covered(t)'
      BY <3>1 DEF Covered, TradesTypeOK
    <3>4. NothingLost'
      <4>1. \A t \in Tid : t <= last' => Covered(t)'
        BY <3>1, <3>2 DEF LossInv, NothingLost, Covered
      <4> QED
        BY <4>1 DEF NothingLost, Covered
    <3>5. CursorCovered'
      <4> SUFFICES ASSUME NEW u \in Source, NEW t \in Tid, t <= pos'[u]
                   PROVE  Covered(t)'
        BY DEF CursorCovered
      <4>1. CASE t <= pos[u]
        BY <4>1, <3>2 DEF LossInv, CursorCovered
      <4>2. CASE u = s /\ t > pos[s]
        BY <4>2, <3>1, <3>3 DEF TradesTypeOK
      <4> QED
        BY <4>1, <4>2, <2>0, <3>1 DEF TradesTypeOK
    <3> QED
      BY <3>4, <3>5 DEF LossInv
  <2>3. CASE UNCHANGED tradesVars
    BY <2>3 DEF tradesVars, entry, LossInv, NothingLost, CursorCovered, Covered
  <2> QED
    BY <2>1, <2>2, <2>3 DEF TradesNext
<1>3. LossInv => NothingLost
  BY DEF LossInv
<1> QED
  BY <1>1, <1>2, <1>3, TradesTyping, PTL DEF TradesSpec

----------------------------------------------------------------------------
(***************************************************************************)
(* Where every source has the batch (a, c], the mark never stands inside   *)
(* it, so the batch goes out whole or not at all; and a source's cursor    *)
(* never does, so it sends the batch and nothing else with it.             *)
(***************************************************************************)
Clean(a, c) ==
    /\ last <= a \/ last >= c
    /\ \A t \in Tid : a < t /\ t <= c =>
          shown[t] <= 1 /\ (t > last => shown[t] = 0)

AlikeInv ==
    /\ \A s \in Source : pos[s] \in Cuts[s] \cup {0}
    /\ \A a \in {0} \cup Tid, c \in Tid : AllCut(a, c) => Clean(a, c)

(* A trade is forwarded twice only where the sources batch it differently. *)
THEOREM AlikeOnce == TradesSpec => []OnceWhereAlike
<1>1. TradesInit => AlikeInv
  BY TradesFeedAssumption DEF TradesInit, EntryInit, AlikeInv, Clean, Tid
<1>2. TradesTypeOK /\ AlikeInv /\ [TradesNext]_tradesVars => AlikeInv'
  <2> SUFFICES ASSUME TradesTypeOK, AlikeInv, [TradesNext]_tradesVars PROVE AlikeInv'
    OBVIOUS
  <2>0. last \in Nat /\ \A t \in Tid : t \in Nat /\ shown[t] \in Nat
    BY TradesFeedAssumption DEF TradesTypeOK, EntryTypeOK, Tid
  <2>1. ASSUME NEW s \in Source, Batch(s) PROVE AlikeInv'
    <3>1. PICK c \in Tid :
              /\ NextCut(s, pos[s], c)
              /\ pos' = [pos EXCEPT ![s] = c]
              /\ \/ /\ c > last /\ last' = c
                    /\ shown' = [t \in Tid |-> IF t > pos[s] /\ t <= c
                                               THEN shown[t] + 1 ELSE shown[t]]
                 \/ /\ c <= last /\ last' = last
                    /\ shown' = shown
      BY <2>1, BatchEffect
    <3>2. \A u \in Source : pos'[u] \in Cuts[u] \cup {0}
      BY <3>1 DEF AlikeInv, NextCut, TradesTypeOK
    <3>3. ASSUME NEW a \in {0} \cup Tid, NEW d \in Tid, AllCut(a, d)
          PROVE  Clean(a, d)'
      <4>0. /\ a \in Nat /\ d \in Nat /\ c \in Nat /\ pos[s] \in Nat
            /\ Clean(a, d)
        BY <3>3, <2>0 DEF AlikeInv, TradesTypeOK
      <4>1. CASE c <= last
        BY <3>1, <4>0, <4>1, <2>0 DEF Clean
      <4>2. CASE c > last
        <5>1. /\ last' = c
              /\ shown' = [t \in Tid |-> IF t > pos[s] /\ t <= c
                                         THEN shown[t] + 1 ELSE shown[t]]
          BY <3>1, <4>2, <4>0, <2>0
        <5>2. c <= a \/ c >= d
          BY <3>1, <3>3, <4>0 DEF AllCut, NextCut
        <5>3. CASE c <= a
          BY <5>1, <5>3, <4>0, <4>2, <2>0 DEF Clean
        <5>4. CASE c >= d /\ d <= pos[s]
          BY <5>1, <5>4, <4>0, <4>2, <2>0 DEF Clean
        <5>5. CASE c >= d /\ d > pos[s] /\ d > a
          <6>1. c = d
            BY <3>1, <3>3, <5>5, <4>0 DEF AllCut, NextCut
          <6>2. last <= a
            BY <4>0, <4>2, <6>1, <2>0 DEF Clean
          <6>3. \A t \in Tid : a < t /\ t <= d => shown[t] = 0
            BY <6>2, <4>0, <2>0 DEF Clean
          <6>4. \A t \in Tid : a < t /\ t <= d => shown'[t] <= 1 /\ ~ (t > last')
            BY <6>1, <6>3, <5>1, <4>0, <2>0
          <6> QED
            BY <6>1, <6>4, <5>1, <4>0 DEF Clean
        <5>6. CASE c >= d /\ d <= a
          BY <5>1, <5>6, <4>0, <2>0 DEF Clean
        <5> QED
          BY <5>2, <5>3, <5>4, <5>5, <5>6, <4>0
      <4> QED
        BY <4>1, <4>2, <4>0, <2>0
    <3> QED
      BY <3>2, <3>3 DEF AlikeInv, AllCut
  <2>2. ASSUME NEW s \in Source, Miss(s) PROVE AlikeInv'
    <3>1. \A u \in Source : pos'[u] \in Cuts[u] \cup {0}
      BY <2>2 DEF Miss, AlikeInv, TradesTypeOK
    <3> QED
      BY <2>2, <3>1 DEF Miss, entry, AlikeInv, Clean, AllCut
  <2>3. CASE UNCHANGED tradesVars
    BY <2>3 DEF tradesVars, entry, AlikeInv, Clean, AllCut
  <2> QED
    BY <2>1, <2>2, <2>3 DEF TradesNext
<1>3. AlikeInv => OnceWhereAlike
  BY DEF AlikeInv, Clean, OnceWhereAlike
<1> QED
  BY <1>1, <1>2, <1>3, TradesTyping, PTL DEF TradesSpec
=============================================================================
