--------------------------- MODULE LoadTest_proof ---------------------------
(***************************************************************************)
(* What the load tester's verdict is worth, for any number of nodes, any   *)
(* frames, any window and a run of any length.                             *)
(***************************************************************************)
EXTENDS LoadTest, SequenceTheorems, TLAPS

----------------------------------------------------------------------------
(***************************************************************************)
(* The inductive invariant.                                                *)
(***************************************************************************)
Within(f, q) == \E i \in DOMAIN q : q[i] = f

\* The entry's mark is what was sent, swallowed or put in a task's hands last.
\* The tester has read the proxy's stream as far as wsarbMax, the rest of it is
\* on the wire; and it goes up as long as no winner has overtaken another.
Rising ==
    LET q == wire[Wsarb]
    IN  /\ violated => overtook
        /\ lastSeq <= topSent /\ wsarbMax <= topSent /\ topSent <= last
        /\ \A i \in DOMAIN q : q[i].stamp <= topSent
        /\ \A h \in hand : h.frame.stamp <= last
        /\ topSent = wsarbMax \/ \E i \in DOMAIN q : q[i].stamp = topSent
        /\ last = topSent \/ last \in swallowed \/ \E h \in hand : h.frame.stamp = last
        /\ ~ overtook =>
              /\ \A h \in hand : topSent <= h.frame.stamp
              /\ \A i \in DOMAIN q : lastSeq <= q[i].stamp
              /\ \A i, j \in DOMAIN q : i <= j => q[i].stamp <= q[j].stamp

\* What the maps say of slot 0, its stream has come to.
Noted ==
    /\ \A f \in DOMAIN sighted :
          /\ sighted[f].bornMax <= wsarbMax
          /\ Wsarb \in sighted[f].at => f.stamp <= wsarbMax
    /\ \A v \in DOMAIN blocks : blocks[v].carried => v <= wsarbMax
    /\ \A m \in midway : m.on = Wsarb => m.frame.stamp <= wsarbMax

\* A frame a node sent has been arbitrated or refused, or waits for it.
Offered ==
    \A f \in Frame :
        \/ f \in DOMAIN sighted
        \/ \E m \in midway : m.frame = f
        \/ \E s \in Source : Within(f, wire[s])
        => \/ f.stamp <= last \/ f.stamp \in refused
           \/ \E s \in Source : Within(f, inbound[s])

\* Of a frame that came by the proxy, a node's copy was read or will be.
Traced ==
    \A f \in Frame :
        /\ f.stamp \notin disturbed
        /\ \/ \E s \in Source : Within(f, inbound[s])
           \/ \E h \in hand : h.frame = f
           \/ Within(f, wire[Wsarb])
           \/ \E m \in midway : m.frame = f
           \/ f \in DOMAIN sighted
        => \E s \in Source : \/ Within(f, wire[s])
                             \/ \E m \in midway : m.on = s /\ m.frame = f /\ ~ m.seen
                             \/ f \in DOMAIN sighted /\ s \in sighted[f].at

\* A reading thread has a frame of stamp v to enter yet.
Entering(v) == \E m \in midway : m.frame.stamp = v

\* The frames of a stamp that were read at one time are judged at one time, and
\* until then the stamp tells whether slot 0 had it.
AtOnce ==
    \A v \in Stamp \ disturbed :
        /\ opened[v] <= time
        /\ \A m \in midway : m.frame.stamp = v =>
              m.at = opened[v] /\ (m.seen => m.frame \in DOMAIN sighted)
        /\ v \in DOMAIN blocks =>
              blocks[v].born = opened[v] /\ \E f \in DOMAIN sighted : f.stamp = v
        /\ \A f \in DOMAIN sighted : f.stamp = v =>
              sighted[f].born = opened[v] /\ (v \in DOMAIN blocks \/ Entering(v))
        /\ wsarbMax = v =>
              /\ opened[v] # 0
              /\ \/ \E m \in midway : m.on = Wsarb /\ m.frame.stamp = v
                 \/ v \in DOMAIN blocks /\ blocks[v].carried
                 \/ v \notin DOMAIN blocks /\ ~ Entering(v) /\ opened[v] < time

Account == Rising /\ Noted /\ Offered /\ Traced /\ AtOnce

IInv == VerdictIsTrue /\ (running => Account)

----------------------------------------------------------------------------
(* Queues and maps.                                                         *)

\* The first of a queue, and the rest.
LEMMA Fronts ==
    ASSUME NEW T, NEW q \in Seq(T), q # <<>>
    PROVE  /\ Head(q) = q[1] /\ Head(q) \in T /\ 1 \in DOMAIN q
           /\ Tail(q) \in Seq(T)
           /\ \A i \in DOMAIN Tail(q) : i + 1 \in DOMAIN q /\ Tail(q)[i] = q[i + 1]
           /\ \A i \in DOMAIN q : i = 1 \/ (i - 1 \in DOMAIN Tail(q) /\ q[i] = Tail(q)[i - 1])
           /\ \A f : Within(f, q) <=> f = Head(q) \/ Within(f, Tail(q))
<1>1. /\ Len(q) \in Nat \ {0} /\ Tail(q) \in Seq(T) /\ Len(Tail(q)) = Len(q) - 1
      /\ \A n \in 1 .. Len(Tail(q)) : Tail(q)[n] = q[n + 1]
      /\ Head(q) = q[1] /\ Head(q) \in T
  BY EmptySeq, HeadTailProperties
<1>2. DOMAIN q = 1 .. Len(q) /\ DOMAIN Tail(q) = 1 .. Len(q) - 1
  BY <1>1
<1>3. \A i \in DOMAIN q : i = 1 \/ (i - 1 \in DOMAIN Tail(q) /\ q[i] = Tail(q)[i - 1])
  <2> SUFFICES ASSUME NEW i \in DOMAIN q, i # 1
               PROVE  i - 1 \in DOMAIN Tail(q) /\ q[i] = Tail(q)[i - 1]
    OBVIOUS
  <2>1. i - 1 \in 1 .. Len(Tail(q)) /\ (i - 1) + 1 = i
    BY <1>1, <1>2
  <2> QED
    BY <1>1, <1>2, <2>1
<1>4. \A i \in DOMAIN Tail(q) : i + 1 \in DOMAIN q /\ Tail(q)[i] = q[i + 1]
  BY <1>1, <1>2
<1>5. 1 \in DOMAIN q
  BY <1>1, <1>2
<1>6. \A f : Within(f, q) <=> f = Head(q) \/ Within(f, Tail(q))
  BY <1>1, <1>3, <1>4, <1>5 DEF Within
<1> QED
  BY <1>1, <1>3, <1>4, <1>5, <1>6

\* One more at the end.
LEMMA Ends ==
    ASSUME NEW T, NEW q \in Seq(T), NEW g \in T
    PROVE  /\ Append(q, g) \in Seq(T)
           /\ \A i \in DOMAIN q : i \in DOMAIN Append(q, g) /\ Append(q, g)[i] = q[i]
           /\ \A i \in DOMAIN Append(q, g) :
                 \/ i \in DOMAIN q /\ Append(q, g)[i] = q[i]
                 \/ i = Len(q) + 1 /\ Append(q, g)[i] = g
           /\ Len(q) + 1 \in DOMAIN Append(q, g) /\ Append(q, g)[Len(q) + 1] = g
           /\ \A i \in DOMAIN q : i <= Len(q)
           /\ \A f : Within(f, Append(q, g)) <=> Within(f, q) \/ f = g
<1>1. /\ Append(q, g) \in Seq(T) /\ Len(Append(q, g)) = Len(q) + 1 /\ Len(q) \in Nat
      /\ \A i \in 1 .. Len(q) : Append(q, g)[i] = q[i]
      /\ Append(q, g)[Len(q) + 1] = g
  BY AppendProperties, LenProperties
<1>2. DOMAIN q = 1 .. Len(q) /\ DOMAIN Append(q, g) = 1 .. Len(q) + 1
  BY <1>1
<1>3. /\ \A i \in DOMAIN q : i \in DOMAIN Append(q, g) /\ Append(q, g)[i] = q[i] /\ i <= Len(q)
      /\ \A i \in DOMAIN Append(q, g) :
            \/ i \in DOMAIN q /\ Append(q, g)[i] = q[i]
            \/ i = Len(q) + 1 /\ Append(q, g)[i] = g
      /\ Len(q) + 1 \in DOMAIN Append(q, g)
  BY <1>1, <1>2
<1>4. \A f : Within(f, Append(q, g)) <=> Within(f, q) \/ f = g
  BY <1>1, <1>3 DEF Within
<1> QED
  BY <1>1, <1>3, <1>4

\* What a frame's sighting leaves in the two maps.
LEMMA Sighting ==
    ASSUME NEW m, See(m)
    PROVE  /\ DOMAIN sighted' = DOMAIN sighted \cup {m.frame}
           /\ \A g \in DOMAIN sighted : g # m.frame => sighted'[g] = sighted[g]
           /\ m.frame \in DOMAIN sighted =>
                 sighted'[m.frame] = [sighted[m.frame] EXCEPT !.at = @ \cup {m.on}]
           /\ m.frame \notin DOMAIN sighted =>
                 sighted'[m.frame] = [at |-> {m.on}, born |-> m.at, bornMax |-> wsarbMax]
  BY DEF See

LEMMA Counting ==
    ASSUME NEW m, Count(m)
    PROVE  /\ DOMAIN blocks' = DOMAIN blocks \cup {m.frame.stamp}
           /\ \A w \in DOMAIN blocks : w # m.frame.stamp => blocks'[w] = blocks[w]
           /\ m.frame.stamp \in DOMAIN blocks =>
                 blocks'[m.frame.stamp] =
                     [blocks[m.frame.stamp] EXCEPT !.carried = @ \/ m.on = Wsarb]
           /\ m.frame.stamp \notin DOMAIN blocks =>
                 blocks'[m.frame.stamp] = [born |-> m.at, carried |-> m.on = Wsarb]
  BY DEF Count

----------------------------------------------------------------------------
(* Types.                                                                   *)

LEMMA StampRange ==
    /\ \A v \in Stamp : v \in Nat \ {0}
    /\ \A t \in Time : t \in Nat \ {0}
    /\ \A f \in Frame : f.stamp \in Stamp
    /\ Source \subseteq Slot /\ Wsarb \in Slot
  BY LoadTestAssumption DEF Stamp, Time, Frame, Slot

\* What a frame does to the entry.
LEMMA LeadEffect ==
    ASSUME EntryTypeOK, NEW s \in Source, NEW v \in Nat, NEW o \in Outcome, LeadFrame(s, v, o)
    PROVE  /\ EntryTypeOK'
           /\ o \in Forwarded => v >= last /\ last' = v
           /\ o \notin Forwarded => v <= last /\ last' = last
<1>1. last \in Nat
  BY DEF EntryTypeOK
<1>2. \/ v > last /\ o = "win" /\ last' = v /\ leader' = s
      \/ v = last /\ o = "deliver" /\ last' = last /\ leader' = leader
      \/ v = last /\ o = "late" /\ last' = last /\ leader' = leader
      \/ v < last /\ o = "stale" /\ last' = last /\ leader' = leader
  BY DEF LeadFrame, Newer, Leads, Take, Keep
<1>3. UNCHANGED <<sampled, sent, seen, needsSnapshot>>
  BY DEF LeadFrame
<1>4. EntryTypeOK'
  BY <1>2, <1>3 DEF EntryTypeOK
<1>5. o \in Forwarded <=> o = "win" \/ o = "deliver"
  BY DEF Forwarded
<1>6. /\ o \in Forwarded => v >= last /\ last' = v
      /\ o \notin Forwarded => v <= last /\ last' = last
  BY <1>1, <1>2, <1>5
<1> QED
  BY <1>4, <1>6

\* The variables keep their types.
THEOREM Typing == Spec => []TypeOK
<1>1. ASSUME Init PROVE TypeOK
  <2>1. EntryTypeOK
    BY <1>1, ArbiterAssumption DEF Init, EntryInit, EntryTypeOK
  <2>2. sighted = <<>> /\ blocks = <<>> /\ DOMAIN <<>> = {}
    BY <1>1 DEF Init
  <2>3. /\ inbound \in [Source -> Seq(Frame)] /\ wire \in [Slot -> Seq(Frame)]
        /\ opened \in [Stamp -> Time \cup {0}]
    BY <1>1 DEF Init
  <2>4. time \in Time /\ left \in 0 .. MaxFrames /\ hand = {} /\ midway = {}
    BY <1>1, LoadTestAssumption DEF Init, Time
  <2> QED
    BY <1>1, <2>1, <2>2, <2>3, <2>4 DEF Init, TypeOK
<1>2. TypeOK /\ [Next]_vars => TypeOK'
  <2> SUFFICES ASSUME TypeOK, [Next]_vars PROVE TypeOK'
    OBVIOUS
  <2>1. ASSUME NEW s \in Source, NEW f \in Frame, Emit(s, f) PROVE TypeOK'
    <3>1. Append(inbound[s], f) \in Seq(Frame) /\ Append(wire[s], f) \in Seq(Frame)
      BY Ends, StampRange DEF TypeOK
    <3>2. inbound' \in [Source -> Seq(Frame)] /\ wire' \in [Slot -> Seq(Frame)]
      BY <2>1, <3>1, StampRange DEF Emit, TypeOK
    <3>3. left' \in 0 .. MaxFrames
      BY <2>1, LoadTestAssumption DEF Emit, TypeOK
    <3> QED
      BY <2>1, <3>2, <3>3
         DEF Emit, TypeOK, EntryTypeOK, entry, maps, order, judging, sendings
  <2>2. ASSUME NEW s \in Source, Arbitrate(s) PROVE TypeOK'
    <3> DEFINE f == Head(inbound[s])
    <3>1. f \in Frame /\ Tail(inbound[s]) \in Seq(Frame)
      BY <2>2, Fronts DEF Arbitrate, TypeOK
    <3>2. f.stamp \in Stamp /\ f.stamp \in Nat
      BY <3>1, StampRange
    <3> HIDE DEF f
    <3>3. /\ EntryTypeOK'
          /\ hand' \in {hand, hand \cup {[by |-> s, frame |-> f]}}
          /\ swallowed' \in {swallowed, swallowed \cup {f.stamp}}
          /\ refused' \in {refused, refused \cup {f.stamp}}
      <4>1. CASE UNCHANGED <<entry, hand, swallowed>> /\ refused' = refused \cup {f.stamp}
        BY <4>1 DEF entry, TypeOK, EntryTypeOK
      <4>2. ASSUME NEW o \in Outcome, LeadFrame(s, f.stamp, o) PROVE EntryTypeOK'
        BY <3>2, <4>2, LeadEffect DEF TypeOK
      <4> QED
        BY <2>2, <4>1, <4>2 DEF Arbitrate, f
    <3>4. swallowed' \subseteq Stamp /\ refused' \subseteq Stamp
      BY <3>2, <3>3 DEF TypeOK
    <3>5. hand' \subseteq [by : Source, frame : Frame]
      BY <3>1, <3>3 DEF TypeOK
    <3>6. \A g, h \in hand' : g.by = h.by => g = h
      <4>1. \A h \in hand : h.by # s
        BY <2>2 DEF Arbitrate
      <4> QED
        BY <3>3, <4>1 DEF TypeOK
    <3>7. inbound' \in [Source -> Seq(Frame)]
      BY <2>2, <3>1 DEF Arbitrate, TypeOK
    <3> QED
      BY <2>2, <3>3, <3>4, <3>5, <3>6, <3>7 DEF Arbitrate, TypeOK, maps, order, judging
  <2>3. ASSUME NEW h \in hand, Forward(h) PROVE TypeOK'
    <3>1. h.frame \in Frame /\ h.frame.stamp \in Nat /\ wire[Wsarb] \in Seq(Frame)
      BY StampRange DEF TypeOK
    <3>2. Append(wire[Wsarb], h.frame) \in Seq(Frame)
      BY <3>1, Ends
    <3>3. wire' \in [Slot -> Seq(Frame)] /\ topSent' \in Nat /\ overtook' \in BOOLEAN
      BY <2>3, <3>1, <3>2 DEF Forward, TypeOK
    <3>4. hand' \subseteq hand
      BY <2>3 DEF Forward
    <3> QED
      BY <2>3, <3>3, <3>4 DEF Forward, TypeOK, EntryTypeOK, entry, maps, order, judging
  <2>7. ASSUME NEW k \in Slot, Read(k) PROVE TypeOK'
    <3> DEFINE f == Head(wire[k])
               n == [on |-> k, frame |-> f, at |-> time, seen |-> FALSE]
    <3>1. f \in Frame /\ Tail(wire[k]) \in Seq(Frame)
      BY <2>7, Fronts DEF Read, TypeOK
    <3>2. f.stamp \in Stamp /\ f.stamp \in Nat
      BY <3>1, StampRange
    <3> HIDE DEF f
    <3>3. /\ wire' = [wire EXCEPT ![k] = Tail(@)]
          /\ IF k = Wsarb THEN Ordered(f.stamp) ELSE UNCHANGED order
          /\ midway' = midway \cup {n} /\ \A m \in midway : m.on # k
          /\ opened' = IF opened[f.stamp] = 0 THEN [opened EXCEPT ![f.stamp] = time] ELSE opened
          /\ disturbed' \in {disturbed, disturbed \cup {f.stamp}}
          /\ UNCHANGED <<entry, inbound, hand, left, time, running, maps, judging, sendings>>
      BY <2>7 DEF Read, f
    <3>4. wsarbMax' \in Nat /\ lastSeq' \in Nat /\ violated' \in BOOLEAN
      BY <3>2, <3>3 DEF TypeOK, Ordered, order
    <3>5. /\ midway' \subseteq [on : Slot, frame : Frame, at : Time, seen : BOOLEAN]
          /\ \A l, m \in midway' : l.on = m.on => l = m
      <4>1. n \in [on : Slot, frame : Frame, at : Time, seen : BOOLEAN] /\ n.on = k
        BY <3>1 DEF TypeOK
      <4> HIDE DEF n
      <4>2. \A m \in midway' : m \in midway \/ m = n
        BY <3>3
      <4> QED
        BY <3>3, <4>1, <4>2 DEF TypeOK
    <3>7. opened' \in [Stamp -> Time \cup {0}] /\ disturbed' \subseteq Stamp
      BY <3>2, <3>3 DEF TypeOK
    <3>8. wire' \in [Slot -> Seq(Frame)]
      BY <3>1, <3>3 DEF TypeOK
    <3> QED
      BY <3>3, <3>4, <3>5, <3>7, <3>8
         DEF TypeOK, EntryTypeOK, entry, maps, judging, sendings
  <2>8. ASSUME NEW m \in midway, See(m) PROVE TypeOK'
    <3>1. m.on \in Slot /\ m.frame \in Frame /\ m.at \in Time
      BY DEF TypeOK
    <3>2. /\ DOMAIN sighted' = DOMAIN sighted \cup {m.frame}
          /\ \A g \in DOMAIN sighted : g # m.frame => sighted'[g] = sighted[g]
          /\ m.frame \in DOMAIN sighted =>
                sighted'[m.frame] = [sighted[m.frame] EXCEPT !.at = @ \cup {m.on}]
          /\ m.frame \notin DOMAIN sighted =>
                sighted'[m.frame] = [at |-> {m.on}, born |-> m.at, bornMax |-> wsarbMax]
      BY <2>8, Sighting
    <3>3. DOMAIN sighted' \subseteq Frame
      BY <3>1, <3>2 DEF TypeOK
    <3>4. ASSUME NEW g \in DOMAIN sighted'
          PROVE  sighted'[g] \in [at : (SUBSET Slot) \ {{}}, born : Time, bornMax : Nat]
      <4>1. CASE g \in DOMAIN sighted
        <5>1. sighted[g] \in [at : (SUBSET Slot) \ {{}}, born : Time, bornMax : Nat]
          BY <4>1 DEF TypeOK
        <5>2. CASE g = m.frame
          <6>1. sighted'[g] = [sighted[g] EXCEPT !.at = @ \cup {m.on}]
            BY <3>2, <4>1, <5>2
          <6>2. sighted[g].at \cup {m.on} \in (SUBSET Slot) \ {{}}
            BY <3>1, <5>1
          <6> QED
            BY <5>1, <6>1, <6>2
        <5>3. CASE g # m.frame
          BY <3>2, <4>1, <5>1, <5>3
        <5> QED
          BY <5>2, <5>3
      <4>2. CASE g \notin DOMAIN sighted
        <5>1. sighted'[g] = [at |-> {m.on}, born |-> m.at, bornMax |-> wsarbMax]
          BY <3>2, <4>2
        <5>2. {m.on} \in (SUBSET Slot) \ {{}}
          <6>1. m.on \in {m.on}
            OBVIOUS
          <6> QED
            BY <3>1, <6>1
        <5>3. wsarbMax \in Nat
          BY DEF TypeOK
        <5> QED
          BY <3>1, <5>1, <5>2, <5>3
      <4> QED
        BY <4>1, <4>2
    <3>5. /\ midway' \subseteq [on : Slot, frame : Frame, at : Time, seen : BOOLEAN]
          /\ \A l, n \in midway' : l.on = n.on => l = n
      <4> DEFINE e == [m EXCEPT !.seen = TRUE]
      <4>1. e \in [on : Slot, frame : Frame, at : Time, seen : BOOLEAN] /\ e.on = m.on
        <5>1. m \in [on : Slot, frame : Frame, at : Time, seen : BOOLEAN]
          BY DEF TypeOK
        <5> QED
          BY <5>1
      <4>2. midway' = (midway \ {m}) \cup {e}
        BY <2>8 DEF See
      <4> HIDE DEF e
      <4> QED
        BY <4>1, <4>2 DEF TypeOK
    <3> QED
      BY <2>8, <3>3, <3>4, <3>5 DEF See, TypeOK, EntryTypeOK, entry, order, judging, sendings
  <2>9. ASSUME NEW m \in midway, Count(m) PROVE TypeOK'
    <3>1. m.on \in Slot /\ m.frame.stamp \in Stamp /\ m.at \in Time
      BY StampRange DEF TypeOK
    <3>2. /\ DOMAIN blocks' = DOMAIN blocks \cup {m.frame.stamp}
          /\ \A w \in DOMAIN blocks : w # m.frame.stamp => blocks'[w] = blocks[w]
          /\ m.frame.stamp \in DOMAIN blocks =>
                blocks'[m.frame.stamp] =
                    [blocks[m.frame.stamp] EXCEPT !.carried = @ \/ m.on = Wsarb]
          /\ m.frame.stamp \notin DOMAIN blocks =>
                blocks'[m.frame.stamp] = [born |-> m.at, carried |-> m.on = Wsarb]
      BY <2>9, Counting
    <3>3. ASSUME NEW v \in DOMAIN blocks'
          PROVE  v \in Stamp /\ blocks'[v] \in [born : Time, carried : BOOLEAN]
      <4>1. CASE v = m.frame.stamp /\ v \in DOMAIN blocks
        <5>1. blocks[v] \in [born : Time, carried : BOOLEAN]
          BY <4>1 DEF TypeOK
        <5> QED
          BY <3>1, <3>2, <4>1, <5>1
      <4>2. CASE v = m.frame.stamp /\ v \notin DOMAIN blocks
        <5>1. blocks'[v] = [born |-> m.at, carried |-> m.on = Wsarb]
          BY <3>2, <4>2
        <5>2. (m.on = Wsarb) \in BOOLEAN
          OBVIOUS
        <5> QED
          BY <3>1, <4>2, <5>1, <5>2
      <4>3. CASE v # m.frame.stamp
        BY <3>2, <4>3 DEF TypeOK
      <4> QED
        BY <4>1, <4>2, <4>3
    <3>4. midway' \subseteq midway
      BY <2>9 DEF Count
    <3> QED
      BY <2>9, <3>3, <3>4 DEF Count, TypeOK, EntryTypeOK, entry, order, judging, sendings
  <2>4. ASSUME NEW finishing \in BOOLEAN, Sweep(finishing) PROVE TypeOK'
    <3>1. Judged \subseteq Frame
      BY DEF Judged, TypeOK
    <3>2. \A f \in Judged : Fate(f) \in Fates
      <4> SUFFICES ASSUME NEW f \in Judged PROVE Fate(f) \in Fates
        OBVIOUS
      <4>1. sighted[f].bornMax \in Nat /\ f.stamp \in Nat
        BY <3>1, StampRange DEF Judged, TypeOK
      <4>2. (sighted[f].bornMax > f.stamp) <=> ~ (sighted[f].bornMax <= f.stamp)
        BY <4>1
      <4> QED
        BY <4>2, Zenon DEF Fate, Fates
    <3>3. verdict' \subseteq Frame \X Fates /\ unmet' \subseteq Frame
      BY <2>4, <3>1, <3>2 DEF Sweep, TypeOK
    <3>4. disturbed' \subseteq Stamp
      BY <2>4, <3>1, StampRange DEF Sweep, TypeOK
    <3>5. ASSUME NEW g \in DOMAIN sighted'
          PROVE  g \in DOMAIN sighted /\ sighted'[g] = sighted[g]
      BY <2>4, <3>5 DEF Sweep
    <3>6. ASSUME NEW v \in DOMAIN blocks'
          PROVE  v \in DOMAIN blocks /\ blocks'[v] = blocks[v]
      BY <2>4, <3>6 DEF Sweep
    <3>7. running' \in BOOLEAN
      BY <2>4 DEF Sweep
    <3> QED
      BY <2>4, <3>3, <3>4, <3>5, <3>6, <3>7
         DEF Sweep, TypeOK, EntryTypeOK, entry, path, order, sendings
  <2>5. CASE ClockTick
    <3>1. time' \in Time
      BY <2>5, LoadTestAssumption DEF ClockTick, TypeOK, Time
    <3> QED
      BY <2>5, <3>1
         DEF ClockTick, TypeOK, EntryTypeOK, entry, path, maps, order, judging, sendings
  <2>6. CASE UNCHANGED vars
    BY <2>6 DEF vars, TypeOK, EntryTypeOK, entry, path, maps, order, judging, sendings
  <2> QED
    BY <2>1, <2>2, <2>3, <2>4, <2>5, <2>6, <2>7, <2>8, <2>9 DEF Next
<1> QED
  BY <1>1, <1>2, PTL DEF Spec

----------------------------------------------------------------------------
(* The invariant, action by action.                                         *)

LEMMA Founded ==
    /\ TypeOK => /\ \A s \in Source : inbound[s] \in Seq(Frame) /\ wire[s] \in Seq(Frame)
                 /\ wire[Wsarb] \in Seq(Frame) /\ wire \in [Slot -> Seq(Frame)]
                 /\ last \in Nat /\ topSent \in Nat /\ wsarbMax \in Nat /\ lastSeq \in Nat
                 /\ time \in Nat \ {0} /\ DOMAIN sighted \subseteq Frame
                 /\ \A f \in DOMAIN sighted :
                       sighted[f].born \in Nat \ {0} /\ sighted[f].bornMax \in Nat
                 /\ \A v \in DOMAIN blocks :
                       /\ v \in Stamp
                       /\ blocks[v].born \in Nat \ {0} /\ blocks[v].carried \in BOOLEAN
                 /\ \A v \in Stamp : opened[v] \in Nat
                 /\ \A h \in hand : h.frame \in Frame /\ h.frame.stamp \in Nat
                 /\ \A m \in midway :
                       /\ m.on \in Slot /\ m.frame \in Frame /\ m.frame.stamp \in Stamp
                       /\ m.at \in Nat \ {0} /\ m.seen \in BOOLEAN
    /\ Window \in Nat \ {0}
<1>1. TypeOK => /\ \A s \in Source : inbound[s] \in Seq(Frame) /\ wire[s] \in Seq(Frame)
                /\ wire[Wsarb] \in Seq(Frame) /\ wire \in [Slot -> Seq(Frame)]
  BY StampRange DEF TypeOK
<1>2. TypeOK => \A f \in DOMAIN sighted :
                   sighted[f].born \in Nat \ {0} /\ sighted[f].bornMax \in Nat
  BY StampRange DEF TypeOK
<1>3. TypeOK => \A v \in DOMAIN blocks :
                   /\ v \in Stamp
                   /\ blocks[v].born \in Nat \ {0} /\ blocks[v].carried \in BOOLEAN
  BY StampRange DEF TypeOK
<1>4. TypeOK => \A v \in Stamp : opened[v] \in Nat
  BY StampRange DEF TypeOK
<1>5. TypeOK => /\ last \in Nat /\ topSent \in Nat /\ wsarbMax \in Nat /\ lastSeq \in Nat
                /\ time \in Nat \ {0} /\ DOMAIN sighted \subseteq Frame
  BY StampRange DEF TypeOK, EntryTypeOK
<1>6. TypeOK => \A h \in hand : h.frame \in Frame /\ h.frame.stamp \in Nat
  BY StampRange DEF TypeOK
<1>7. TypeOK => \A m \in midway :
                   /\ m.on \in Slot /\ m.frame \in Frame /\ m.frame.stamp \in Stamp
                   /\ m.at \in Nat \ {0} /\ m.seen \in BOOLEAN
  BY StampRange DEF TypeOK
<1> QED
  BY <1>1, <1>2, <1>3, <1>4, <1>5, <1>6, <1>7, LoadTestAssumption

\* What waits on the way to the tester, or in a task's hands.
LEMMA Stamped ==
    ASSUME TypeOK
    PROVE  /\ \A i \in DOMAIN wire[Wsarb] :
                 wire[Wsarb][i] \in Frame /\ wire[Wsarb][i].stamp \in Nat /\ i \in Nat
           /\ Len(wire[Wsarb]) \in Nat
<1>1. wire[Wsarb] \in Seq(Frame)
  BY Founded
<1>2. DOMAIN wire[Wsarb] = 1 .. Len(wire[Wsarb]) /\ Len(wire[Wsarb]) \in Nat
  BY <1>1, LenProperties
<1>3. \A i \in DOMAIN wire[Wsarb] : wire[Wsarb][i] \in Frame
  BY <1>1, <1>2, ElementOfSeq
<1> QED
  BY <1>2, <1>3, StampRange

\* A verdict passed stays true.
LEMMA VerdictStays ==
    ASSUME VerdictIsTrue, violated' => overtook', verdict' = verdict, unmet' = unmet,
           disturbed \subseteq disturbed', swallowed \subseteq swallowed', refused \subseteq refused'
    PROVE  VerdictIsTrue'
  BY DEF VerdictIsTrue, Is

LEMMA EmitKeeps ==
    ASSUME TypeOK, VerdictIsTrue, Account, NEW s \in Source, NEW f \in Frame, Emit(s, f)
    PROVE  VerdictIsTrue' /\ Account'
<1>1. /\ \A t \in Source : \A g : /\ Within(g, wire'[t]) <=> Within(g, wire[t]) \/ (t = s /\ g = f)
                                  /\ Within(g, inbound'[t]) <=> Within(g, inbound[t]) \/ (t = s /\ g = f)
      /\ wire'[Wsarb] = wire[Wsarb]
  <2>1. /\ wire' = [wire EXCEPT ![s] = Append(@, f)]
        /\ inbound' = [inbound EXCEPT ![s] = Append(@, f)]
        /\ s # Wsarb
    BY LoadTestAssumption DEF Emit
  <2>2. \A g : /\ Within(g, Append(wire[s], f)) <=> Within(g, wire[s]) \/ g = f
               /\ Within(g, Append(inbound[s], f)) <=> Within(g, inbound[s]) \/ g = f
    BY Founded, Ends
  <2> QED
    BY <2>1, <2>2, StampRange DEF TypeOK
<1>2. UNCHANGED <<last, hand, midway, time, running, sighted, blocks, wsarbMax, lastSeq, violated,
                  verdict, unmet, topSent, swallowed, refused, overtook, opened, disturbed>>
  BY DEF Emit, entry, maps, order, judging, sendings
<1>3. VerdictIsTrue'
  BY <1>2, VerdictStays DEF VerdictIsTrue
<1>4. Rising'
  BY <1>1, <1>2 DEF Account, Rising
<1>5. Noted'
  BY <1>2 DEF Account, Noted
<1>6. Offered'
  <2> SUFFICES ASSUME NEW g \in Frame,
                      \/ g \in DOMAIN sighted
                      \/ \E m \in midway : m.frame = g
                      \/ \E t \in Source : Within(g, wire'[t]),
                      ~ (g.stamp <= last), g.stamp \notin refused
               PROVE  \E t \in Source : Within(g, inbound'[t])
    BY <1>2 DEF Offered
  <2>1. CASE g = f
    BY <1>1, <2>1
  <2>2. CASE g # f
    <3>1. \E t \in Source : Within(g, inbound[t])
      BY <1>1, <2>2 DEF Account, Offered
    <3> QED
      BY <1>1, <3>1
  <2> QED
    BY <2>1, <2>2
<1>7. Traced'
  <2> SUFFICES ASSUME NEW g \in Frame, g.stamp \notin disturbed,
                      \/ \E t \in Source : Within(g, inbound'[t])
                      \/ \E h \in hand : h.frame = g
                      \/ Within(g, wire[Wsarb])
                      \/ \E m \in midway : m.frame = g
                      \/ g \in DOMAIN sighted
               PROVE  \E t \in Source : \/ Within(g, wire'[t])
                                        \/ \E m \in midway : m.on = t /\ m.frame = g /\ ~ m.seen
                                        \/ g \in DOMAIN sighted /\ t \in sighted[g].at
    BY <1>1, <1>2 DEF Traced
  <2>1. CASE g = f
    BY <1>1, <2>1
  <2>2. CASE g # f
    <3>1. \E t \in Source : \/ Within(g, wire[t])
                            \/ \E m \in midway : m.on = t /\ m.frame = g /\ ~ m.seen
                            \/ g \in DOMAIN sighted /\ t \in sighted[g].at
      BY <1>1, <2>2 DEF Account, Traced
    <3> QED
      BY <1>1, <3>1
  <2> QED
    BY <2>1, <2>2
<1>8. AtOnce'
  BY <1>2 DEF Account, AtOnce, Entering
<1> QED
  BY <1>3, <1>4, <1>5, <1>6, <1>7, <1>8 DEF Account

\* What the proxy does with the next frame f of s.
LEMMA ArbitrateEffect ==
    ASSUME TypeOK, NEW s \in Source, Arbitrate(s)
    PROVE  \E f \in Frame :
              /\ \A t \in Source : \A g :
                    Within(g, inbound[t]) <=> Within(g, inbound'[t]) \/ (t = s /\ g = f)
              /\ f.stamp <= last' \/ f.stamp \in refused'
              /\ last' \in Nat /\ last <= last'
              /\ refused \subseteq refused'
              /\ \/ /\ hand' = hand \cup {[by |-> s, frame |-> f]}
                    /\ last' = f.stamp /\ swallowed' = swallowed
                 \/ /\ swallowed' = swallowed \cup {f.stamp}
                    /\ last' = f.stamp /\ hand' = hand
                 \/ UNCHANGED <<last, hand, swallowed>>
<1> DEFINE f == Head(inbound[s])
<1>1. /\ f \in Frame /\ f.stamp \in Nat
      /\ \A g : Within(g, inbound[s]) <=> g = f \/ Within(g, Tail(inbound[s]))
  <2>1. inbound[s] \in Seq(Frame) /\ inbound[s] # <<>>
    BY Founded DEF Arbitrate
  <2>2. f \in Frame /\ \A g : Within(g, inbound[s]) <=> g = f \/ Within(g, Tail(inbound[s]))
    BY <2>1, Fronts
  <2> QED
    BY <2>2, StampRange
<1>2. \A t \in Source : \A g :
         Within(g, inbound[t]) <=> Within(g, inbound'[t]) \/ (t = s /\ g = f)
  BY <1>1 DEF Arbitrate, TypeOK
<1>3. last \in Nat
  BY Founded
<1> HIDE DEF f
<1>4. CASE UNCHANGED <<entry, hand, swallowed>> /\ refused' = refused \cup {f.stamp}
  BY <1>1, <1>2, <1>3, <1>4 DEF entry
<1>5. ASSUME NEW o \in Outcome, LeadFrame(s, f.stamp, o), UNCHANGED refused,
             \/ /\ o \in Forwarded
                /\ hand' = hand \cup {[by |-> s, frame |-> f]}
                /\ UNCHANGED swallowed
             \/ /\ o \in Forwarded
                /\ swallowed' = swallowed \cup {f.stamp}
                /\ UNCHANGED hand
             \/ /\ o \notin Forwarded
                /\ UNCHANGED <<hand, swallowed>>
      PROVE  /\ f.stamp <= last' /\ last' \in Nat /\ last <= last'
             /\ \/ /\ hand' = hand \cup {[by |-> s, frame |-> f]}
                   /\ last' = f.stamp /\ swallowed' = swallowed
                \/ /\ swallowed' = swallowed \cup {f.stamp}
                   /\ last' = f.stamp /\ hand' = hand
                \/ UNCHANGED <<last, hand, swallowed>>
  <2>1. /\ o \in Forwarded => f.stamp >= last /\ last' = f.stamp
        /\ o \notin Forwarded => f.stamp <= last /\ last' = last
    BY <1>1, <1>5, LeadEffect DEF TypeOK
  <2> QED
    BY <1>1, <1>3, <1>5, <2>1
<1>6. CASE ~ (UNCHANGED <<entry, hand, swallowed>> /\ refused' = refused \cup {f.stamp})
  <2>1. PICK o \in Outcome :
           /\ LeadFrame(s, f.stamp, o) /\ UNCHANGED refused
           /\ \/ /\ o \in Forwarded
                 /\ hand' = hand \cup {[by |-> s, frame |-> f]}
                 /\ UNCHANGED swallowed
              \/ /\ o \in Forwarded
                 /\ swallowed' = swallowed \cup {f.stamp}
                 /\ UNCHANGED hand
              \/ /\ o \notin Forwarded
                 /\ UNCHANGED <<hand, swallowed>>
    BY <1>6 DEF Arbitrate, f
  <2> QED
    BY <1>1, <1>2, <1>5, <2>1
<1> QED
  BY <1>4, <1>6

LEMMA ArbitrateKeeps ==
    ASSUME TypeOK, VerdictIsTrue, Account, NEW s \in Source, Arbitrate(s)
    PROVE  VerdictIsTrue' /\ Account'
<1> DEFINE q == wire[Wsarb]
<1>1. PICK f \in Frame :
         /\ \A t \in Source : \A g :
               Within(g, inbound[t]) <=> Within(g, inbound'[t]) \/ (t = s /\ g = f)
         /\ f.stamp <= last' \/ f.stamp \in refused'
         /\ last' \in Nat /\ last <= last'
         /\ refused \subseteq refused'
         /\ \/ /\ hand' = hand \cup {[by |-> s, frame |-> f]}
               /\ last' = f.stamp /\ swallowed' = swallowed
            \/ /\ swallowed' = swallowed \cup {f.stamp}
               /\ last' = f.stamp /\ hand' = hand
            \/ UNCHANGED <<last, hand, swallowed>>
  BY ArbitrateEffect
<1>2. UNCHANGED <<wire, midway, left, time, running, sighted, blocks, wsarbMax, lastSeq, violated,
                  verdict, unmet, topSent, overtook, opened, disturbed>>
  BY DEF Arbitrate, maps, order, judging
<1>3. /\ last \in Nat /\ topSent \in Nat /\ f.stamp \in Nat
      /\ \A h \in hand : h.frame.stamp \in Nat
  BY Founded, StampRange
<1>4. \A h \in hand' : h \in hand \/ (h.frame = f /\ last' = f.stamp)
  BY <1>1
<1>5. VerdictIsTrue'
  BY <1>1, <1>2, VerdictStays DEF VerdictIsTrue
<1>6. Rising'
  <2>1. /\ violated => overtook
        /\ lastSeq <= topSent /\ wsarbMax <= topSent /\ topSent <= last
        /\ \A i \in DOMAIN q : q[i].stamp <= topSent
        /\ \A h \in hand : h.frame.stamp <= last
        /\ topSent = wsarbMax \/ \E i \in DOMAIN q : q[i].stamp = topSent
        /\ last = topSent \/ last \in swallowed \/ \E h \in hand : h.frame.stamp = last
        /\ ~ overtook =>
              /\ \A h \in hand : topSent <= h.frame.stamp
              /\ \A i \in DOMAIN q : lastSeq <= q[i].stamp
              /\ \A i, j \in DOMAIN q : i <= j => q[i].stamp <= q[j].stamp
    BY DEF Account, Rising
  <2>2. topSent <= last'
    BY <1>1, <1>3, <2>1
  <2>3. ASSUME NEW h \in hand'
        PROVE  h.frame.stamp <= last' /\ (~ overtook => topSent <= h.frame.stamp)
    BY <1>1, <1>3, <1>4, <2>1, <2>2
  <2>4. last' = topSent \/ last' \in swallowed' \/ \E h \in hand' : h.frame.stamp = last'
    <3>1. CASE hand' = hand \cup {[by |-> s, frame |-> f]} /\ last' = f.stamp
      <4>1. [by |-> s, frame |-> f] \in hand' /\ [by |-> s, frame |-> f].frame = f
        BY <3>1
      <4> QED
        BY <3>1, <4>1
    <3>2. CASE swallowed' = swallowed \cup {f.stamp} /\ last' = f.stamp
      BY <3>2
    <3>3. CASE UNCHANGED <<last, hand, swallowed>>
      BY <2>1, <3>3
    <3> QED
      BY <1>1, <3>1, <3>2, <3>3
  <2> HIDE DEF q
  <2>5. q = wire[Wsarb] /\ wire' = wire
    BY <1>2 DEF q
  <2> QED
    BY <1>2, <2>1, <2>2, <2>3, <2>4, <2>5 DEF Rising
<1>7. Noted'
  BY <1>2 DEF Account, Noted
<1>8. Offered'
  <2> SUFFICES ASSUME NEW g \in Frame,
                      \/ g \in DOMAIN sighted
                      \/ \E m \in midway : m.frame = g
                      \/ \E t \in Source : Within(g, wire[t]),
                      ~ (g.stamp <= last'), g.stamp \notin refused'
               PROVE  \E t \in Source : Within(g, inbound'[t])
    BY <1>2 DEF Offered
  <2>1. g.stamp \in Nat /\ ~ (g.stamp <= last) /\ g.stamp \notin refused /\ g # f
    BY <1>1, <1>3, StampRange
  <2> QED
    BY <1>1, <2>1 DEF Account, Offered
<1>9. Traced'
  <2>1. Within(f, inbound[s])
    BY <1>1
  <2> SUFFICES ASSUME NEW g \in Frame, g.stamp \notin disturbed,
                      \/ \E t \in Source : Within(g, inbound'[t])
                      \/ \E h \in hand' : h.frame = g
                      \/ Within(g, wire[Wsarb])
                      \/ \E m \in midway : m.frame = g
                      \/ g \in DOMAIN sighted
               PROVE  \E t \in Source : \/ Within(g, wire[t])
                                        \/ \E m \in midway : m.on = t /\ m.frame = g /\ ~ m.seen
                                        \/ g \in DOMAIN sighted /\ t \in sighted[g].at
    BY <1>2 DEF Traced
  <2>2. \/ \E t \in Source : Within(g, inbound[t])
        \/ \E h \in hand : h.frame = g
        \/ Within(g, wire[Wsarb])
        \/ \E m \in midway : m.frame = g
        \/ g \in DOMAIN sighted
    BY <1>1, <1>4, <2>1
  <2> QED
    BY <2>2 DEF Account, Traced
<1>10. AtOnce'
  BY <1>2 DEF Account, AtOnce, Entering
<1> QED
  BY <1>5, <1>6, <1>7, <1>8, <1>9, <1>10 DEF Account

LEMMA ForwardKeeps ==
    ASSUME TypeOK, VerdictIsTrue, Account, NEW h \in hand, Forward(h)
    PROVE  VerdictIsTrue' /\ Account'
<1> DEFINE q == wire[Wsarb]
           r == Append(q, h.frame)
           v == h.frame.stamp
<1>1. /\ hand' = hand \ {h} /\ wire' = [wire EXCEPT ![Wsarb] = r]
      /\ topSent' = IF v > topSent THEN v ELSE topSent
      /\ overtook' = (overtook \/ \E g \in hand : g.frame.stamp < v)
      /\ UNCHANGED <<last, inbound, midway, left, time, running, sighted, blocks, wsarbMax, lastSeq,
                     violated, verdict, unmet, swallowed, refused, opened, disturbed>>
  BY DEF Forward, entry, maps, order, judging
<1>2. wire'[Wsarb] = r /\ \A t \in Source : wire'[t] = wire[t]
  BY <1>1, Founded, StampRange, LoadTestAssumption
<1>3. /\ h.frame \in Frame /\ v \in Nat /\ topSent \in Nat /\ last \in Nat /\ lastSeq \in Nat
      /\ wsarbMax \in Nat /\ \A g \in hand : g.frame.stamp \in Nat
      /\ q \in Seq(Frame)
      /\ \A i \in DOMAIN q : q[i].stamp \in Nat /\ i \in Nat
      /\ Len(q) \in Nat
  BY Founded, Stamped
<1>4. /\ \A i \in DOMAIN q : i \in DOMAIN r /\ r[i] = q[i]
      /\ \A i \in DOMAIN r : \/ i \in DOMAIN q /\ r[i] = q[i]
                             \/ i = Len(q) + 1 /\ r[i] = h.frame
      /\ Len(q) + 1 \in DOMAIN r /\ r[Len(q) + 1] = h.frame
      /\ \A i \in DOMAIN q : i <= Len(q)
      /\ \A f : Within(f, r) <=> Within(f, q) \/ f = h.frame
  <2> HIDE DEF q
  <2> QED
    BY <1>3, Ends
<1>5. VerdictIsTrue'
  <2>1. violated' => overtook'
    BY <1>1 DEF VerdictIsTrue
  <2> QED
    BY <1>1, <2>1, VerdictStays
<1>6. Rising'
  <2>1. /\ violated => overtook
        /\ lastSeq <= topSent /\ wsarbMax <= topSent /\ topSent <= last
        /\ \A i \in DOMAIN q : q[i].stamp <= topSent
        /\ \A g \in hand : g.frame.stamp <= last
        /\ topSent = wsarbMax \/ \E i \in DOMAIN q : q[i].stamp = topSent
        /\ last = topSent \/ last \in swallowed \/ \E g \in hand : g.frame.stamp = last
        /\ ~ overtook =>
              /\ \A g \in hand : topSent <= g.frame.stamp
              /\ \A i \in DOMAIN q : lastSeq <= q[i].stamp
              /\ \A i, j \in DOMAIN q : i <= j => q[i].stamp <= q[j].stamp
    BY DEF Account, Rising
  <2> HIDE DEF q, r, v
  <2>2. /\ topSent' \in Nat /\ topSent <= topSent' /\ v <= topSent' /\ topSent' <= last
        /\ topSent' = topSent \/ topSent' = v
    BY <1>1, <1>3, <2>1 DEF v
  <2>3. lastSeq <= topSent' /\ wsarbMax <= topSent'
    BY <1>3, <2>1, <2>2
  <2>4. \A i \in DOMAIN r : r[i].stamp <= topSent' /\ r[i].stamp \in Nat
    BY <1>3, <1>4, <2>1, <2>2 DEF v
  <2>5. topSent' = wsarbMax \/ \E i \in DOMAIN r : r[i].stamp = topSent'
    <3>1. CASE topSent' = v
      BY <1>4, <3>1 DEF v
    <3>2. CASE topSent' = topSent
      BY <1>4, <2>1, <3>2
    <3> QED
      BY <2>2, <3>1, <3>2
  <2>6. last = topSent' \/ last \in swallowed \/ \E g \in hand' : g.frame.stamp = last
    <3>1. CASE last = topSent
      BY <1>3, <2>2, <3>1
    <3>2. ASSUME NEW g \in hand, g.frame.stamp = last
          PROVE  last = topSent' \/ \E k \in hand' : k.frame.stamp = last
      <4>1. CASE g = h
        BY <1>3, <2>2, <3>2, <4>1 DEF v
      <4>2. CASE g # h
        BY <1>1, <3>2, <4>2
      <4> QED
        BY <4>1, <4>2
    <3> QED
      BY <2>1, <3>1, <3>2
  <2>7. ASSUME ~ overtook'
        PROVE  /\ \A g \in hand' : topSent' <= g.frame.stamp
               /\ \A i \in DOMAIN r : lastSeq <= r[i].stamp
               /\ \A i, j \in DOMAIN r : i <= j => r[i].stamp <= r[j].stamp
    <3>1. ~ overtook /\ \A g \in hand : ~ (g.frame.stamp < v)
      BY <1>1, <2>7
    <3>2. topSent <= v /\ topSent' = v
      BY <1>1, <1>3, <2>1, <3>1 DEF v
    <3>3. \A g \in hand' : topSent' <= g.frame.stamp
      BY <1>1, <1>3, <3>1, <3>2
    <3>4. \A i \in DOMAIN r : lastSeq <= r[i].stamp
      BY <1>3, <1>4, <2>1, <3>1, <3>2 DEF v
    <3>5. ASSUME NEW i \in DOMAIN r, NEW j \in DOMAIN r, i <= j
          PROVE  r[i].stamp <= r[j].stamp
      <4>1. CASE r[j] = h.frame
        BY <2>4, <3>2, <4>1 DEF v
      <4>2. CASE j \in DOMAIN q /\ r[j] = q[j]
        <5>1. i # Len(q) + 1
          BY <1>3, <1>4, <3>5, <4>2
        <5> QED
          BY <1>4, <2>1, <3>1, <3>5, <4>2, <5>1
      <4> QED
        BY <1>4, <4>1, <4>2
    <3> QED
      BY <3>3, <3>4, <3>5
  <2>8. violated' => overtook'
    BY <1>1, <2>1
  <2>9. \A g \in hand' : g.frame.stamp <= last
    BY <1>1, <2>1
  <2> QED
    BY <1>1, <1>2, <2>2, <2>3, <2>4, <2>5, <2>6, <2>7, <2>8, <2>9 DEF Rising
<1>7. Noted'
  BY <1>1 DEF Account, Noted
<1>8. Offered'
  BY <1>1, <1>2 DEF Account, Offered
<1>9. Traced'
  <2> SUFFICES ASSUME NEW g \in Frame, g.stamp \notin disturbed,
                      \/ \E t \in Source : Within(g, inbound[t])
                      \/ \E k \in hand' : k.frame = g
                      \/ Within(g, wire'[Wsarb])
                      \/ \E m \in midway : m.frame = g
                      \/ g \in DOMAIN sighted
               PROVE  \E t \in Source : \/ Within(g, wire[t])
                                        \/ \E m \in midway : m.on = t /\ m.frame = g /\ ~ m.seen
                                        \/ g \in DOMAIN sighted /\ t \in sighted[g].at
    BY <1>1, <1>2 DEF Traced
  <2>1. \/ \E t \in Source : Within(g, inbound[t])
        \/ \E k \in hand : k.frame = g
        \/ Within(g, wire[Wsarb])
        \/ \E m \in midway : m.frame = g
        \/ g \in DOMAIN sighted
    BY <1>1, <1>2, <1>4
  <2> QED
    BY <2>1 DEF Account, Traced
<1>10. AtOnce'
  BY <1>1 DEF Account, AtOnce, Entering
<1> QED
  BY <1>5, <1>6, <1>7, <1>8, <1>9, <1>10 DEF Account

\* What reading a frame f does: a thread has it as n.
LEMMA ReadEffect ==
    ASSUME TypeOK, NEW k \in Slot, Read(k)
    PROVE  \E f \in Frame, n \in midway' :
              /\ n.on = k /\ n.frame = f /\ n.at = time /\ n.seen = FALSE
              /\ midway' = midway \cup {n}
              /\ Within(f, wire[k])
              /\ \A t \in Slot : \A g : Within(g, wire'[t]) => Within(g, wire[t])
              /\ \A t \in Slot : \A g :
                    Within(g, wire[t]) => Within(g, wire'[t]) \/ (t = k /\ g = f)
              /\ k # Wsarb => wire'[Wsarb] = wire[Wsarb] /\ UNCHANGED order
              /\ k = Wsarb =>
                    /\ wire[Wsarb] # <<>> /\ f = Head(wire[Wsarb])
                    /\ wire'[Wsarb] = Tail(wire[Wsarb]) /\ Ordered(f.stamp)
              /\ opened' = IF opened[f.stamp] = 0 THEN [opened EXCEPT ![f.stamp] = time]
                                                  ELSE opened
              /\ disturbed' = IF opened[f.stamp] \in {0, time} THEN disturbed
                                                               ELSE disturbed \cup {f.stamp}
<1> DEFINE f == Head(wire[k])
           n == [on |-> k, frame |-> f, at |-> time, seen |-> FALSE]
<1>1. wire[k] \in Seq(Frame) /\ wire[k] # <<>> /\ wire \in [Slot -> Seq(Frame)]
  BY DEF TypeOK, Read
<1>2. f \in Frame /\ \A g : Within(g, wire[k]) <=> g = f \/ Within(g, Tail(wire[k]))
  BY <1>1, Fronts
<1>3. \A t \in Slot : wire'[t] = IF t = k THEN Tail(wire[k]) ELSE wire[t]
  BY <1>1 DEF Read
<1>4. midway' = midway \cup {n}
  BY DEF Read
<1>5. /\ IF k = Wsarb THEN Ordered(f.stamp) ELSE UNCHANGED order
      /\ opened' = IF opened[f.stamp] = 0 THEN [opened EXCEPT ![f.stamp] = time] ELSE opened
      /\ disturbed' = IF opened[f.stamp] \in {0, time} THEN disturbed
                                                      ELSE disturbed \cup {f.stamp}
  BY DEF Read
<1>6. k = Wsarb => f = Head(wire[Wsarb])
  OBVIOUS
<1> HIDE DEF f
<1>7. n.on = k /\ n.frame = f /\ n.at = time /\ n.seen = FALSE
  OBVIOUS
<1> HIDE DEF n
<1>8. /\ Within(f, wire[k])
      /\ \A t \in Slot : \A g : Within(g, wire'[t]) => Within(g, wire[t])
      /\ \A t \in Slot : \A g : Within(g, wire[t]) => Within(g, wire'[t]) \/ (t = k /\ g = f)
  BY <1>2, <1>3
<1>9. /\ k # Wsarb => wire'[Wsarb] = wire[Wsarb] /\ UNCHANGED order
      /\ k = Wsarb => wire'[Wsarb] = Tail(wire[Wsarb]) /\ Ordered(f.stamp)
  BY <1>3, <1>5, StampRange
<1>10. n \in midway'
  BY <1>4
<1> QED
  BY <1>1, <1>2, <1>4, <1>5, <1>6, <1>7, <1>8, <1>9, <1>10

LEMMA ReadKeeps ==
    ASSUME TypeOK, VerdictIsTrue, Account, NEW k \in Slot, Read(k)
    PROVE  VerdictIsTrue' /\ Account'
<1> DEFINE q == wire[Wsarb]
<1>1. PICK f \in Frame, n \in midway' :
         /\ n.on = k /\ n.frame = f /\ n.at = time /\ n.seen = FALSE
         /\ midway' = midway \cup {n}
         /\ Within(f, wire[k])
         /\ \A t \in Slot : \A g : Within(g, wire'[t]) => Within(g, wire[t])
         /\ \A t \in Slot : \A g :
               Within(g, wire[t]) => Within(g, wire'[t]) \/ (t = k /\ g = f)
         /\ k # Wsarb => wire'[Wsarb] = wire[Wsarb] /\ UNCHANGED order
         /\ k = Wsarb =>
               /\ wire[Wsarb] # <<>> /\ f = Head(wire[Wsarb])
               /\ wire'[Wsarb] = Tail(wire[Wsarb]) /\ Ordered(f.stamp)
         /\ opened' = IF opened[f.stamp] = 0 THEN [opened EXCEPT ![f.stamp] = time]
                                             ELSE opened
         /\ disturbed' = IF opened[f.stamp] \in {0, time} THEN disturbed
                                                          ELSE disturbed \cup {f.stamp}
  BY ReadEffect
<1>2. UNCHANGED <<last, inbound, hand, time, running, sighted, blocks, verdict, unmet,
                  topSent, swallowed, refused, overtook>>
  BY DEF Read, entry, maps, judging, sendings
<1>3. /\ f.stamp \in Nat /\ f.stamp \in Stamp /\ time \in Nat \ {0}
      /\ last \in Nat /\ topSent \in Nat /\ wsarbMax \in Nat /\ lastSeq \in Nat
      /\ \A i \in DOMAIN q : q[i].stamp \in Nat
      /\ k # Wsarb => k \in Source
  BY Founded, Stamped, StampRange DEF Slot
<1>4. /\ violated => overtook
      /\ lastSeq <= topSent /\ wsarbMax <= topSent /\ topSent <= last
      /\ \A i \in DOMAIN q : q[i].stamp <= topSent
      /\ topSent = wsarbMax \/ \E i \in DOMAIN q : q[i].stamp = topSent
      /\ ~ overtook => /\ \A i \in DOMAIN q : lastSeq <= q[i].stamp
                       /\ \A i, j \in DOMAIN q : i <= j => q[i].stamp <= q[j].stamp
  BY DEF Account, Rising
<1>5. /\ k = Wsarb => /\ f.stamp <= topSent /\ f.stamp <= wsarbMax'
                      /\ wsarbMax' \in {wsarbMax, f.stamp}
      /\ k # Wsarb => wsarbMax' = wsarbMax
      /\ wsarbMax <= wsarbMax'
  <2>1. ASSUME k = Wsarb PROVE f.stamp <= topSent
    <3>1. \E i \in DOMAIN q : q[i] = f
      BY <1>1, <2>1 DEF Within
    <3> QED
      BY <1>4, <3>1
  <2>2. k = Wsarb => wsarbMax' = IF f.stamp > wsarbMax THEN f.stamp ELSE wsarbMax
    BY <1>1 DEF Ordered
  <2>3. k # Wsarb => wsarbMax' = wsarbMax
    BY <1>1 DEF order
  <2> QED
    BY <1>3, <2>1, <2>2, <2>3
<1>6. Rising'
  <2>1. CASE k # Wsarb
    BY <1>1, <1>2, <2>1 DEF Account, Rising, order
  <2>2. CASE k = Wsarb
    <3> DEFINE r == Tail(q)
    <3>1. q \in Seq(Frame) /\ q # <<>> /\ wire'[Wsarb] = r /\ f = Head(q)
      BY <1>1, <2>2, Founded
    <3> HIDE DEF q
    <3>2. /\ 1 \in DOMAIN q /\ f = q[1]
          /\ \A i \in DOMAIN r : i + 1 \in DOMAIN q /\ r[i] = q[i + 1]
          /\ \A i \in DOMAIN q : i = 1 \/ (i - 1 \in DOMAIN r /\ q[i] = r[i - 1])
          /\ \A i \in DOMAIN r : i \in Nat \ {0}
      <4>1. r \in Seq(Frame)
        BY <3>1, Fronts
      <4>2. \A i \in DOMAIN r : i \in Nat \ {0}
        <5> HIDE DEF r
        <5>1. DOMAIN r = 1 .. Len(r) /\ Len(r) \in Nat
          BY <4>1, LenProperties
        <5> QED
          BY <5>1
      <4> QED
        BY <3>1, <4>2, Fronts
    <3> HIDE DEF r
    <3>3. violated' = (violated \/ f.stamp < lastSeq) /\ lastSeq' = f.stamp
      BY <1>1, <2>2 DEF Ordered
    <3>4. violated' => overtook
      <4>1. ~ overtook => ~ (f.stamp < lastSeq)
        BY <1>3, <1>4, <3>2
      <4> QED
        BY <1>4, <3>3, <4>1
    <3>5. \A i \in DOMAIN r : r[i].stamp <= topSent
      BY <1>4, <3>2
    <3>6. topSent = wsarbMax' \/ \E i \in DOMAIN r : r[i].stamp = topSent
      <4>1. CASE topSent = wsarbMax
        BY <1>3, <1>5, <2>2, <4>1
      <4>2. ASSUME NEW i \in DOMAIN q, q[i].stamp = topSent
            PROVE  topSent = wsarbMax' \/ \E j \in DOMAIN r : r[j].stamp = topSent
        <5>1. CASE i = 1
          BY <1>3, <1>4, <1>5, <2>2, <3>2, <4>2, <5>1
        <5>2. CASE i # 1
          BY <3>2, <4>2, <5>2
        <5> QED
          BY <5>1, <5>2
      <4> QED
        BY <1>4, <4>1, <4>2
    <3>7. ~ overtook => /\ \A i \in DOMAIN r : f.stamp <= r[i].stamp
                        /\ \A i, j \in DOMAIN r : i <= j => r[i].stamp <= r[j].stamp
      <4> SUFFICES ASSUME ~ overtook
                   PROVE  /\ \A i \in DOMAIN r : f.stamp <= r[i].stamp
                          /\ \A i, j \in DOMAIN r : i <= j => r[i].stamp <= r[j].stamp
        OBVIOUS
      <4>1. \A i, j \in DOMAIN q : i <= j => q[i].stamp <= q[j].stamp
        BY <1>4
      <4>2. \A i \in DOMAIN r : f.stamp <= r[i].stamp
        BY <3>2, <4>1
      <4>3. \A i, j \in DOMAIN r : i <= j => r[i].stamp <= r[j].stamp
        BY <3>2, <4>1
      <4> QED
        BY <4>2, <4>3
    <3>8. wsarbMax' <= topSent /\ lastSeq' <= topSent
      BY <1>3, <1>4, <1>5, <2>2, <3>3
    <3>9. /\ \A h \in hand : h.frame.stamp <= last
          /\ last = topSent \/ last \in swallowed \/ \E h \in hand : h.frame.stamp = last
          /\ ~ overtook => \A h \in hand : topSent <= h.frame.stamp
      BY DEF Account, Rising
    <3> QED
      BY <1>2, <1>4, <3>1, <3>3, <3>4, <3>5, <3>6, <3>7, <3>8, <3>9 DEF Rising
  <2> QED
    BY <2>1, <2>2
<1>7. VerdictIsTrue'
  <2>1. violated' => overtook' /\ disturbed \subseteq disturbed'
    BY <1>1, <1>6 DEF Rising
  <2> QED
    BY <1>1, <1>2, <1>6, <2>1, VerdictStays DEF Rising
<1>8. Noted'
  <2>1. ASSUME NEW g \in DOMAIN sighted
        PROVE  /\ sighted[g].bornMax <= wsarbMax'
               /\ Wsarb \in sighted[g].at => g.stamp <= wsarbMax'
    <3>1. /\ sighted[g].bornMax <= wsarbMax
          /\ Wsarb \in sighted[g].at => g.stamp <= wsarbMax
      BY DEF Account, Noted
    <3>2. sighted[g].bornMax \in Nat /\ g.stamp \in Nat /\ wsarbMax' \in Nat
      BY <1>3, <1>5, Founded, StampRange
    <3> QED
      BY <1>3, <1>5, <3>1, <3>2
  <2>2. ASSUME NEW v \in DOMAIN blocks, blocks[v].carried PROVE v <= wsarbMax'
    <3>1. v <= wsarbMax
      BY <2>2 DEF Account, Noted
    <3>2. v \in Nat /\ wsarbMax' \in Nat
      BY <1>3, <1>5, Founded, StampRange
    <3> QED
      BY <1>3, <1>5, <3>1, <3>2
  <2>3. ASSUME NEW m \in midway', m.on = Wsarb PROVE m.frame.stamp <= wsarbMax'
    <3>1. CASE m = n
      BY <1>1, <1>5, <2>3, <3>1
    <3>2. CASE m \in midway
      <4>1. m.frame.stamp <= wsarbMax
        BY <2>3, <3>2 DEF Account, Noted
      <4>2. m.frame.stamp \in Nat /\ wsarbMax' \in Nat
        BY <1>3, <1>5, <3>2, Founded, StampRange
      <4> QED
        BY <1>3, <1>5, <4>1, <4>2
    <3> QED
      BY <1>1, <3>1, <3>2
  <2> QED
    BY <1>2, <2>1, <2>2, <2>3 DEF Noted
<1>9. Offered'
  <2> SUFFICES ASSUME NEW g \in Frame,
                      \/ g \in DOMAIN sighted
                      \/ \E m \in midway' : m.frame = g
                      \/ \E t \in Source : Within(g, wire'[t]),
                      ~ (g.stamp <= last), g.stamp \notin refused
               PROVE  \E t \in Source : Within(g, inbound[t])
    BY <1>2 DEF Offered
  <2>1. ~ (g = f /\ k = Wsarb)
    BY <1>3, <1>4, <1>5
  <2>2. \/ g \in DOMAIN sighted
        \/ \E m \in midway : m.frame = g
        \/ \E t \in Source : Within(g, wire[t])
    BY <1>1, <1>3, <2>1, StampRange
  <2> QED
    BY <2>2 DEF Account, Offered
<1>10. Traced'
  <2> SUFFICES ASSUME NEW g \in Frame, g.stamp \notin disturbed',
                      \/ \E t \in Source : Within(g, inbound[t])
                      \/ \E h \in hand : h.frame = g
                      \/ Within(g, wire'[Wsarb])
                      \/ \E m \in midway' : m.frame = g
                      \/ g \in DOMAIN sighted
               PROVE  \E t \in Source :
                         \/ Within(g, wire'[t])
                         \/ \E m \in midway' : m.on = t /\ m.frame = g /\ ~ m.seen
                         \/ g \in DOMAIN sighted /\ t \in sighted[g].at
    BY <1>2 DEF Traced
  <2>1. g.stamp \notin disturbed
    BY <1>1
  <2>2. CASE g = f /\ k # Wsarb
    BY <1>1, <1>3, <2>2
  <2>3. CASE ~ (g = f /\ k # Wsarb)
    <3>1. \/ \E t \in Source : Within(g, inbound[t])
          \/ \E h \in hand : h.frame = g
          \/ Within(g, wire[Wsarb])
          \/ \E m \in midway : m.frame = g
          \/ g \in DOMAIN sighted
      BY <1>1, <2>3, StampRange
    <3>2. PICK t \in Source : \/ Within(g, wire[t])
                              \/ \E m \in midway : m.on = t /\ m.frame = g /\ ~ m.seen
                              \/ g \in DOMAIN sighted /\ t \in sighted[g].at
      BY <2>1, <3>1 DEF Account, Traced
    <3>3. CASE Within(g, wire[t])
      <4>1. ~ (t = k /\ g = f)
        BY <2>3, LoadTestAssumption
      <4> QED
        BY <1>1, <3>3, <4>1, StampRange
    <3>4. CASE ~ Within(g, wire[t])
      BY <1>1, <3>2, <3>4
    <3> QED
      BY <3>3, <3>4
  <2> QED
    BY <2>2, <2>3
<1>11. AtOnce'
  <2> SUFFICES ASSUME NEW v \in Stamp, v \notin disturbed'
               PROVE  /\ opened'[v] <= time
                      /\ \A m \in midway' : m.frame.stamp = v =>
                            m.at = opened'[v] /\ (m.seen => m.frame \in DOMAIN sighted)
                      /\ v \in DOMAIN blocks =>
                            /\ blocks[v].born = opened'[v]
                            /\ \E g \in DOMAIN sighted : g.stamp = v
                      /\ \A g \in DOMAIN sighted : g.stamp = v =>
                            sighted[g].born = opened'[v] /\ (v \in DOMAIN blocks \/ Entering(v)')
                      /\ wsarbMax' = v =>
                            /\ opened'[v] # 0
                            /\ \/ \E m \in midway' : m.on = Wsarb /\ m.frame.stamp = v
                               \/ v \in DOMAIN blocks /\ blocks[v].carried
                               \/ v \notin DOMAIN blocks /\ ~ Entering(v)' /\ opened'[v] < time
    BY <1>2 DEF AtOnce
  <2>1. v \notin disturbed
    BY <1>1
  <2>2. /\ opened[v] <= time
        /\ \A m \in midway : m.frame.stamp = v =>
              m.at = opened[v] /\ (m.seen => m.frame \in DOMAIN sighted)
        /\ v \in DOMAIN blocks =>
              blocks[v].born = opened[v] /\ \E g \in DOMAIN sighted : g.stamp = v
        /\ \A g \in DOMAIN sighted : g.stamp = v =>
              sighted[g].born = opened[v] /\ (v \in DOMAIN blocks \/ Entering(v))
        /\ wsarbMax = v =>
              /\ opened[v] # 0
              /\ \/ \E m \in midway : m.on = Wsarb /\ m.frame.stamp = v
                 \/ v \in DOMAIN blocks /\ blocks[v].carried
                 \/ v \notin DOMAIN blocks /\ ~ Entering(v) /\ opened[v] < time
    BY <2>1 DEF Account, AtOnce
  <2>3. opened \in [Stamp -> Time \cup {0}]
    BY DEF TypeOK
  <2>4. Entering(v)' <=> Entering(v) \/ v = f.stamp
    BY <1>1 DEF Entering
  <2>5. CASE v # f.stamp
    <3>1. opened'[v] = opened[v]
      BY <1>1, <2>3, <2>5
    <3>2. wsarbMax' = v => wsarbMax = v
      BY <1>5, <2>5
    <3>3. \A m \in midway' : m.frame.stamp = v => m \in midway
      BY <1>1, <2>5
    <3>4. Entering(v)' <=> Entering(v)
      BY <2>4, <2>5
    <3>5. midway \subseteq midway'
      BY <1>1
    <3> QED
      BY <2>2, <3>1, <3>2, <3>3, <3>4, <3>5
  <2>6. CASE v = f.stamp
    <3>1. opened[v] \in {0, time} /\ opened'[v] = time
      BY <1>1, <2>3, <2>6
    <3>2. \A m \in midway : m.frame.stamp = v => m.at = time
      <4> SUFFICES ASSUME NEW m \in midway, m.frame.stamp = v PROVE m.at = time
        OBVIOUS
      <4>1. m.at = opened[v] /\ m.at # 0
        BY <2>2, Founded
      <4> QED
        BY <3>1, <4>1
    <3>3. v \in DOMAIN blocks => blocks[v].born = time
      <4>1. v \in DOMAIN blocks => blocks[v].born # 0
        BY Founded
      <4> QED
        BY <2>2, <3>1, <4>1
    <3>4. \A g \in DOMAIN sighted : g.stamp = v => sighted[g].born = time
      <4> SUFFICES ASSUME NEW g \in DOMAIN sighted, g.stamp = v PROVE sighted[g].born = time
        OBVIOUS
      <4>1. sighted[g].born = opened[v] /\ sighted[g].born # 0
        BY <2>2, Founded
      <4> QED
        BY <3>1, <4>1
    <3>5. \A m \in midway' : m.frame.stamp = v =>
             m.at = time /\ (m.seen => m.frame \in DOMAIN sighted)
      BY <1>1, <2>2, <3>2
    <3>6. ASSUME wsarbMax' = v
          PROVE  \/ \E m \in midway' : m.on = Wsarb /\ m.frame.stamp = v
                 \/ v \in DOMAIN blocks /\ blocks[v].carried
      <4>1. CASE k = Wsarb
        BY <1>1, <2>6, <4>1
      <4>2. CASE k # Wsarb
        <5>1. wsarbMax = v /\ opened[v] = time /\ ~ (opened[v] < time)
          BY <1>3, <1>5, <2>2, <3>1, <3>6, <4>2
        <5> QED
          BY <1>1, <2>2, <5>1
      <4> QED
        BY <4>1, <4>2
    <3>7. opened'[v] <= time /\ opened'[v] # 0 /\ Entering(v)'
      BY <1>3, <2>4, <2>6, <3>1
    <3> QED
      BY <2>2, <3>1, <3>3, <3>4, <3>5, <3>6, <3>7
  <2> QED
    BY <2>5, <2>6
<1> QED
  BY <1>6, <1>7, <1>8, <1>9, <1>10, <1>11 DEF Account

LEMMA SeeKeeps ==
    ASSUME TypeOK, VerdictIsTrue, Account, NEW m \in midway, See(m)
    PROVE  VerdictIsTrue' /\ Account'
<1>1. PICK e \in midway' :
         /\ e.on = m.on /\ e.frame = m.frame /\ e.at = m.at /\ e.seen = TRUE
         /\ midway' = (midway \ {m}) \cup {e}
  <2> DEFINE e == [m EXCEPT !.seen = TRUE]
  <2>1. m \in [on : Slot, frame : Frame, at : Time, seen : BOOLEAN]
    BY DEF TypeOK
  <2>2. e.on = m.on /\ e.frame = m.frame /\ e.at = m.at /\ e.seen = TRUE
    BY <2>1
  <2>3. midway' = (midway \ {m}) \cup {e}
    BY DEF See
  <2> HIDE DEF e
  <2> QED
    BY <2>2, <2>3
<1>2. /\ ~ m.seen
      /\ UNCHANGED <<last, inbound, hand, wire, time, running, blocks, wsarbMax, lastSeq, violated,
                     verdict, unmet, topSent, swallowed, refused, overtook, opened, disturbed>>
  BY DEF See, entry, order, judging, sendings
<1>3. /\ DOMAIN sighted' = DOMAIN sighted \cup {m.frame}
      /\ \A g \in DOMAIN sighted : g # m.frame => sighted'[g] = sighted[g]
      /\ m.frame \in DOMAIN sighted =>
            /\ sighted'[m.frame].at = sighted[m.frame].at \cup {m.on}
            /\ sighted'[m.frame].born = sighted[m.frame].born
            /\ sighted'[m.frame].bornMax = sighted[m.frame].bornMax
      /\ m.frame \notin DOMAIN sighted =>
            /\ sighted'[m.frame].at = {m.on}
            /\ sighted'[m.frame].born = m.at /\ sighted'[m.frame].bornMax = wsarbMax
  <2>1. m.frame \in DOMAIN sighted =>
           sighted[m.frame] \in [at : (SUBSET Slot) \ {{}}, born : Time, bornMax : Nat]
    BY DEF TypeOK
  <2>2. /\ DOMAIN sighted' = DOMAIN sighted \cup {m.frame}
        /\ \A g \in DOMAIN sighted : g # m.frame => sighted'[g] = sighted[g]
        /\ m.frame \in DOMAIN sighted =>
              sighted'[m.frame] = [sighted[m.frame] EXCEPT !.at = @ \cup {m.on}]
        /\ m.frame \notin DOMAIN sighted =>
              sighted'[m.frame] = [at |-> {m.on}, born |-> m.at, bornMax |-> wsarbMax]
    BY Sighting
  <2>3. m.frame \in DOMAIN sighted =>
           /\ sighted'[m.frame].at = sighted[m.frame].at \cup {m.on}
           /\ sighted'[m.frame].born = sighted[m.frame].born
           /\ sighted'[m.frame].bornMax = sighted[m.frame].bornMax
    BY <2>1, <2>2
  <2>4. m.frame \notin DOMAIN sighted =>
           /\ sighted'[m.frame].at = {m.on}
           /\ sighted'[m.frame].born = m.at /\ sighted'[m.frame].bornMax = wsarbMax
    BY <2>2
  <2> QED
    BY <2>2, <2>3, <2>4
<1>4. \A g : (\E l \in midway' : l.frame = g) <=> (\E l \in midway : l.frame = g)
  BY <1>1
<1>5. wsarbMax \in Nat /\ m.frame \in Frame /\ m.frame.stamp \in Stamp
  BY Founded
<1>6. VerdictIsTrue'
  BY <1>2, VerdictStays DEF VerdictIsTrue
<1>7. Rising'
  BY <1>2 DEF Account, Rising
<1>8. Noted'
  <2>1. m.on = Wsarb => m.frame.stamp <= wsarbMax
    BY DEF Account, Noted
  <2>2. ASSUME NEW g \in DOMAIN sighted'
        PROVE  /\ sighted'[g].bornMax <= wsarbMax
               /\ Wsarb \in sighted'[g].at => g.stamp <= wsarbMax
    <3>1. CASE g = m.frame /\ m.frame \in DOMAIN sighted
      BY <1>3, <2>1, <3>1 DEF Account, Noted
    <3>2. CASE g = m.frame /\ m.frame \notin DOMAIN sighted
      BY <1>3, <1>5, <2>1, <3>2
    <3>3. CASE g # m.frame
      BY <1>3, <2>2, <3>3 DEF Account, Noted
    <3> QED
      BY <3>1, <3>2, <3>3
  <2>3. \A l \in midway' : l.on = Wsarb => l.frame.stamp <= wsarbMax
    BY <1>1, <2>1 DEF Account, Noted
  <2>4. \A v \in DOMAIN blocks : blocks[v].carried => v <= wsarbMax
    BY DEF Account, Noted
  <2> QED
    BY <1>2, <2>2, <2>3, <2>4 DEF Noted
<1>9. Offered'
  <2> SUFFICES ASSUME NEW g \in Frame,
                      \/ g \in DOMAIN sighted'
                      \/ \E l \in midway' : l.frame = g
                      \/ \E t \in Source : Within(g, wire[t])
               PROVE  \/ g.stamp <= last \/ g.stamp \in refused
                      \/ \E t \in Source : Within(g, inbound[t])
    BY <1>2 DEF Offered
  <2>1. \/ g \in DOMAIN sighted
        \/ \E l \in midway : l.frame = g
        \/ \E t \in Source : Within(g, wire[t])
    BY <1>3, <1>4
  <2> QED
    BY <2>1 DEF Account, Offered
<1>10. Traced'
  <2> SUFFICES ASSUME NEW g \in Frame, g.stamp \notin disturbed,
                      \/ \E t \in Source : Within(g, inbound[t])
                      \/ \E h \in hand : h.frame = g
                      \/ Within(g, wire[Wsarb])
                      \/ \E l \in midway' : l.frame = g
                      \/ g \in DOMAIN sighted'
               PROVE  \E t \in Source :
                         \/ Within(g, wire[t])
                         \/ \E l \in midway' : l.on = t /\ l.frame = g /\ ~ l.seen
                         \/ g \in DOMAIN sighted' /\ t \in sighted'[g].at
    BY <1>2 DEF Traced
  <2>1. \/ \E t \in Source : Within(g, inbound[t])
        \/ \E h \in hand : h.frame = g
        \/ Within(g, wire[Wsarb])
        \/ \E l \in midway : l.frame = g
        \/ g \in DOMAIN sighted
    BY <1>3, <1>4
  <2>2. PICK t \in Source : \/ Within(g, wire[t])
                            \/ \E l \in midway : l.on = t /\ l.frame = g /\ ~ l.seen
                            \/ g \in DOMAIN sighted /\ t \in sighted[g].at
    BY <2>1 DEF Account, Traced
  <2>3. ASSUME NEW l \in midway, l.on = t, l.frame = g, ~ l.seen
        PROVE  \/ \E j \in midway' : j.on = t /\ j.frame = g /\ ~ j.seen
               \/ g \in DOMAIN sighted' /\ t \in sighted'[g].at
    <3>1. CASE l = m
      BY <1>3, <2>3, <3>1
    <3>2. CASE l # m
      BY <1>1, <2>3, <3>2
    <3> QED
      BY <3>1, <3>2
  <2>4. g \in DOMAIN sighted /\ t \in sighted[g].at => g \in DOMAIN sighted' /\ t \in sighted'[g].at
    BY <1>3
  <2> QED
    BY <2>2, <2>3, <2>4
<1>11. AtOnce'
  <2> SUFFICES ASSUME NEW v \in Stamp, v \notin disturbed
               PROVE  /\ opened[v] <= time
                      /\ \A l \in midway' : l.frame.stamp = v =>
                            l.at = opened[v] /\ (l.seen => l.frame \in DOMAIN sighted')
                      /\ v \in DOMAIN blocks =>
                            /\ blocks[v].born = opened[v]
                            /\ \E g \in DOMAIN sighted' : g.stamp = v
                      /\ \A g \in DOMAIN sighted' : g.stamp = v =>
                            sighted'[g].born = opened[v] /\ (v \in DOMAIN blocks \/ Entering(v)')
                      /\ wsarbMax = v =>
                            /\ opened[v] # 0
                            /\ \/ \E l \in midway' : l.on = Wsarb /\ l.frame.stamp = v
                               \/ v \in DOMAIN blocks /\ blocks[v].carried
                               \/ v \notin DOMAIN blocks /\ ~ Entering(v)' /\ opened[v] < time
    BY <1>2 DEF AtOnce
  <2>1. /\ opened[v] <= time
        /\ \A l \in midway : l.frame.stamp = v =>
              l.at = opened[v] /\ (l.seen => l.frame \in DOMAIN sighted)
        /\ v \in DOMAIN blocks =>
              blocks[v].born = opened[v] /\ \E g \in DOMAIN sighted : g.stamp = v
        /\ \A g \in DOMAIN sighted : g.stamp = v =>
              sighted[g].born = opened[v] /\ (v \in DOMAIN blocks \/ Entering(v))
        /\ wsarbMax = v =>
              /\ opened[v] # 0
              /\ \/ \E l \in midway : l.on = Wsarb /\ l.frame.stamp = v
                 \/ v \in DOMAIN blocks /\ blocks[v].carried
                 \/ v \notin DOMAIN blocks /\ ~ Entering(v) /\ opened[v] < time
    BY DEF Account, AtOnce
  <2>2. Entering(v)' <=> Entering(v)
    BY <1>1 DEF Entering
  <2>3. \A l \in midway' : l.frame.stamp = v =>
           l.at = opened[v] /\ (l.seen => l.frame \in DOMAIN sighted')
    BY <1>1, <1>3, <2>1
  <2>4. ASSUME NEW g \in DOMAIN sighted', g.stamp = v
        PROVE  sighted'[g].born = opened[v] /\ (v \in DOMAIN blocks \/ Entering(v)')
    <3>1. CASE g \in DOMAIN sighted
      BY <1>3, <2>1, <2>2, <2>4, <3>1
    <3>2. CASE g \notin DOMAIN sighted
      <4>1. g = m.frame /\ sighted'[g].born = m.at
        BY <1>3, <2>4, <3>2
      <4>2. Entering(v)
        BY <2>4, <4>1 DEF Entering
      <4> QED
        BY <2>1, <2>2, <2>4, <4>1, <4>2
    <3> QED
      BY <3>1, <3>2
  <2>5. (\E l \in midway : l.on = Wsarb /\ l.frame.stamp = v)
           => \E l \in midway' : l.on = Wsarb /\ l.frame.stamp = v
    BY <1>1
  <2> QED
    BY <1>3, <2>1, <2>2, <2>3, <2>4, <2>5
<1> QED
  BY <1>6, <1>7, <1>8, <1>9, <1>10, <1>11 DEF Account

LEMMA CountKeeps ==
    ASSUME TypeOK, VerdictIsTrue, Account, NEW m \in midway, Count(m)
    PROVE  VerdictIsTrue' /\ Account'
<1> DEFINE u == m.frame.stamp
<1>1. /\ m.seen /\ midway' = midway \ {m}
      /\ UNCHANGED <<last, inbound, hand, wire, time, running, sighted, wsarbMax, lastSeq, violated,
                     verdict, unmet, topSent, swallowed, refused, overtook, opened, disturbed>>
  BY DEF Count, entry, order, judging, sendings
<1>2. /\ DOMAIN blocks' = DOMAIN blocks \cup {u}
      /\ \A w \in DOMAIN blocks : w # u => blocks'[w] = blocks[w]
      /\ u \in DOMAIN blocks =>
            /\ blocks'[u].born = blocks[u].born
            /\ blocks'[u].carried <=> blocks[u].carried \/ m.on = Wsarb
      /\ u \notin DOMAIN blocks =>
            /\ blocks'[u].born = m.at
            /\ blocks'[u].carried <=> m.on = Wsarb
  <2>1. ASSUME u \in DOMAIN blocks
        PROVE  /\ blocks'[u].born = blocks[u].born
               /\ blocks'[u].carried <=> blocks[u].carried \/ m.on = Wsarb
    <3>1. blocks[u] \in [born : Time, carried : BOOLEAN]
      BY <2>1 DEF TypeOK
    <3>2. blocks'[u] = [blocks[u] EXCEPT !.carried = @ \/ m.on = Wsarb]
      BY <2>1, Counting
    <3>3. blocks'[u].born = blocks[u].born
      BY <3>1, <3>2
    <3>4. blocks'[u].carried = (blocks[u].carried \/ m.on = Wsarb)
      BY <3>1, <3>2
    <3> QED
      BY <3>3, <3>4
  <2>2. ASSUME u \notin DOMAIN blocks
        PROVE  blocks'[u].born = m.at /\ (blocks'[u].carried <=> m.on = Wsarb)
    <3>1. blocks'[u] = [born |-> m.at, carried |-> m.on = Wsarb]
      BY <2>2, Counting
    <3>2. blocks'[u].born = m.at
      BY <3>1
    <3>3. blocks'[u].carried = (m.on = Wsarb)
      BY <3>1
    <3> QED
      BY <3>2, <3>3
  <2>3. DOMAIN blocks' = DOMAIN blocks \cup {u}
    BY Counting
  <2>4. \A w \in DOMAIN blocks : w # u => blocks'[w] = blocks[w]
    BY Counting
  <2> QED
    BY <2>1, <2>2, <2>3, <2>4
<1>3. VerdictIsTrue'
  BY <1>1, VerdictStays DEF VerdictIsTrue
<1>4. Rising'
  BY <1>1 DEF Account, Rising
<1>5. Noted'
  <2>1. m.on = Wsarb => u <= wsarbMax
    BY DEF Account, Noted
  <2>2. ASSUME NEW v \in DOMAIN blocks', blocks'[v].carried PROVE v <= wsarbMax
    <3>1. CASE v = u
      BY <1>2, <2>1, <2>2, <3>1 DEF Account, Noted
    <3>2. CASE v # u
      BY <1>2, <2>2, <3>2 DEF Account, Noted
    <3> QED
      BY <3>1, <3>2
  <2>3. /\ \A f \in DOMAIN sighted :
              /\ sighted[f].bornMax <= wsarbMax
              /\ Wsarb \in sighted[f].at => f.stamp <= wsarbMax
        /\ \A l \in midway' : l.on = Wsarb => l.frame.stamp <= wsarbMax
    BY <1>1 DEF Account, Noted
  <2> QED
    BY <1>1, <2>2, <2>3 DEF Noted
<1>6. Offered'
  BY <1>1 DEF Account, Offered
<1>7. Traced'
  <2> SUFFICES ASSUME NEW g \in Frame, g.stamp \notin disturbed,
                      \/ \E t \in Source : Within(g, inbound[t])
                      \/ \E h \in hand : h.frame = g
                      \/ Within(g, wire[Wsarb])
                      \/ \E l \in midway' : l.frame = g
                      \/ g \in DOMAIN sighted
               PROVE  \E t \in Source :
                         \/ Within(g, wire[t])
                         \/ \E l \in midway' : l.on = t /\ l.frame = g /\ ~ l.seen
                         \/ g \in DOMAIN sighted /\ t \in sighted[g].at
    BY <1>1 DEF Traced
  <2>1. \/ \E t \in Source : Within(g, inbound[t])
        \/ \E h \in hand : h.frame = g
        \/ Within(g, wire[Wsarb])
        \/ \E l \in midway : l.frame = g
        \/ g \in DOMAIN sighted
    BY <1>1
  <2>2. PICK t \in Source : \/ Within(g, wire[t])
                            \/ \E l \in midway : l.on = t /\ l.frame = g /\ ~ l.seen
                            \/ g \in DOMAIN sighted /\ t \in sighted[g].at
    BY <2>1 DEF Account, Traced
  <2>3. \A l \in midway : ~ l.seen => l \in midway'
    BY <1>1
  <2> QED
    BY <2>2, <2>3
<1>8. AtOnce'
  <2> SUFFICES ASSUME NEW v \in Stamp, v \notin disturbed
               PROVE  /\ opened[v] <= time
                      /\ \A l \in midway' : l.frame.stamp = v =>
                            l.at = opened[v] /\ (l.seen => l.frame \in DOMAIN sighted)
                      /\ v \in DOMAIN blocks' =>
                            /\ blocks'[v].born = opened[v]
                            /\ \E g \in DOMAIN sighted : g.stamp = v
                      /\ \A g \in DOMAIN sighted : g.stamp = v =>
                            sighted[g].born = opened[v] /\ (v \in DOMAIN blocks' \/ Entering(v)')
                      /\ wsarbMax = v =>
                            /\ opened[v] # 0
                            /\ \/ \E l \in midway' : l.on = Wsarb /\ l.frame.stamp = v
                               \/ v \in DOMAIN blocks' /\ blocks'[v].carried
                               \/ v \notin DOMAIN blocks' /\ ~ Entering(v)' /\ opened[v] < time
    BY <1>1 DEF AtOnce
  <2>1. /\ opened[v] <= time
        /\ \A l \in midway : l.frame.stamp = v =>
              l.at = opened[v] /\ (l.seen => l.frame \in DOMAIN sighted)
        /\ v \in DOMAIN blocks =>
              blocks[v].born = opened[v] /\ \E g \in DOMAIN sighted : g.stamp = v
        /\ \A g \in DOMAIN sighted : g.stamp = v =>
              sighted[g].born = opened[v] /\ (v \in DOMAIN blocks \/ Entering(v))
        /\ wsarbMax = v =>
              /\ opened[v] # 0
              /\ \/ \E l \in midway : l.on = Wsarb /\ l.frame.stamp = v
                 \/ v \in DOMAIN blocks /\ blocks[v].carried
                 \/ v \notin DOMAIN blocks /\ ~ Entering(v) /\ opened[v] < time
    BY DEF Account, AtOnce
  <2>2. CASE v # u
    <3>1. Entering(v)' <=> Entering(v)
      BY <1>1, <2>2 DEF Entering
    <3>2. v \in DOMAIN blocks' <=> v \in DOMAIN blocks
      BY <1>2, <2>2
    <3>3. v \in DOMAIN blocks => blocks'[v] = blocks[v]
      BY <1>2, <2>2
    <3>4. \A l \in midway : l.frame.stamp = v => l \in midway'
      BY <1>1, <2>2
    <3>5. midway' \subseteq midway
      BY <1>1
    <3> QED
      BY <2>1, <3>1, <3>2, <3>3, <3>4, <3>5
  <2>3. CASE v = u
    <3>1. m.at = opened[v] /\ m.frame \in DOMAIN sighted /\ Entering(v)
      BY <1>1, <2>1, <2>3 DEF Entering
    <3>2. v \in DOMAIN blocks' /\ blocks'[v].born = opened[v]
      BY <1>2, <2>1, <2>3, <3>1
    <3>3. ASSUME wsarbMax = v
          PROVE  \/ \E l \in midway' : l.on = Wsarb /\ l.frame.stamp = v
                 \/ blocks'[v].carried
      <4>1. ASSUME NEW l \in midway, l.on = Wsarb, l.frame.stamp = v
            PROVE  \/ \E j \in midway' : j.on = Wsarb /\ j.frame.stamp = v
                   \/ blocks'[v].carried
        <5>1. CASE l = m
          BY <1>2, <2>3, <4>1, <5>1
        <5>2. CASE l # m
          BY <1>1, <4>1, <5>2
        <5> QED
          BY <5>1, <5>2
      <4>2. v \in DOMAIN blocks /\ blocks[v].carried => blocks'[v].carried
        BY <1>2, <2>3
      <4> QED
        BY <2>1, <3>1, <3>3, <4>1, <4>2
    <3>4. midway' \subseteq midway
      BY <1>1
    <3> QED
      BY <2>1, <2>3, <3>1, <3>2, <3>3, <3>4
  <2> QED
    BY <2>2, <2>3
<1> QED
  BY <1>3, <1>4, <1>5, <1>6, <1>7, <1>8 DEF Account

\* A sweep that is not the last one drops what it judged, and the stamps as old.
LEMMA Leaving ==
    ASSUME NEW finishing \in BOOLEAN, Sweep(finishing), running'
    PROVE  /\ DOMAIN sighted' = DOMAIN sighted \ Judged
           /\ \A f \in DOMAIN sighted' : sighted'[f] = sighted[f]
           /\ DOMAIN blocks' = {w \in DOMAIN blocks : ~ Ripe(blocks[w].born)}
           /\ \A v \in DOMAIN blocks' : blocks'[v] = blocks[v]
<1>1. ~ finishing
  BY DEF Sweep
<1>2. /\ sighted' = [f \in DOMAIN sighted \ Judged |-> sighted[f]]
      /\ blocks' = [v \in {w \in DOMAIN blocks : ~ Ripe(blocks[w].born)} |-> blocks[v]]
  BY <1>1 DEF Sweep
<1> QED
  BY <1>2

LEMMA SweepKeeps ==
    ASSUME TypeOK, VerdictIsTrue, Account, NEW finishing \in BOOLEAN, Sweep(finishing)
    PROVE  VerdictIsTrue' /\ (running' => Account')
<1>1. /\ UNCHANGED <<last, inbound, hand, wire, midway, left, time, wsarbMax, lastSeq, violated,
                     topSent, swallowed, refused, overtook, opened>>
      /\ verdict' = verdict \cup {<<f, Fate(f)>> : f \in Judged}
      /\ disturbed' = disturbed \cup {v \in {f.stamp : f \in Judged} : Underway(v)}
      /\ unmet' = unmet \cup {f \in Judged : f.stamp > topSent}
  BY DEF Sweep, entry, path, order, sendings
<1>2. /\ wsarbMax \in Nat /\ topSent \in Nat /\ last \in Nat /\ time \in Nat
      /\ \A f \in DOMAIN sighted : f \in Frame /\ f.stamp \in Nat /\ f.stamp \in Stamp
                                   /\ sighted[f].bornMax \in Nat /\ sighted[f].born \in Nat
      /\ \A h \in hand : h.frame.stamp \in Nat
      /\ Window \in Nat \ {0}
  BY Founded, StampRange
<1>3. ASSUME NEW f \in Judged
      PROVE  f \in DOMAIN sighted /\ Ripe(sighted[f].born)
  BY <1>3 DEF Judged
\* What is judged undisturbed is on its way no more.
<1>4. ASSUME NEW f \in Judged, f.stamp \notin disturbed'
      PROVE  /\ f.stamp \notin disturbed
             /\ \A s \in Source : ~ Within(f, inbound[s]) /\ ~ Within(f, wire[s])
             /\ ~ Entering(f.stamp)
             /\ \A h \in hand : h.frame.stamp < f.stamp
             /\ \A i \in DOMAIN wire[Wsarb] : wire[Wsarb][i].stamp < f.stamp
  <2>1. ~ Underway(f.stamp) /\ f.stamp \notin disturbed
    BY <1>1, <1>4
  <2>2. f.stamp \in Nat
    BY <1>2, <1>3
  <2>3. \A i \in DOMAIN wire[Wsarb] : wire[Wsarb][i].stamp < f.stamp
    BY <2>1, <2>2, Stamped DEF Underway
  <2>4. \A h \in hand : h.frame.stamp < f.stamp
    BY <1>2, <2>1, <2>2 DEF Underway
  <2>5. ~ Entering(f.stamp)
    BY <2>1 DEF Underway, Entering
  <2> QED
    BY <2>1, <2>3, <2>4, <2>5 DEF Underway, Within
\* And its verdict is the true one.
<1>5. ASSUME NEW f \in Judged, f.stamp \notin disturbed'
      PROVE  /\ Fate(f) = "lost" <=> f.stamp > topSent
             /\ Fate(f) = "lost" => f.stamp \in refused \/ \E w \in swallowed : w >= f.stamp
             /\ Fate(f) # "invented"
  <2> DEFINE r == sighted[f]
             v == f.stamp
  <2>1. /\ f \in DOMAIN sighted /\ f \in Frame /\ v \in Nat /\ v \in Stamp /\ r.bornMax \in Nat
        /\ r.bornMax <= wsarbMax /\ (Wsarb \in r.at => v <= wsarbMax)
    BY <1>2, <1>3 DEF Account, Noted
  <2>2. v \in DOMAIN blocks /\ (wsarbMax = v => blocks[v].carried)
        /\ (blocks[v].carried => v <= wsarbMax)
    <3>1. v \in DOMAIN blocks
      BY <1>4, <1>5, <2>1 DEF Account, AtOnce
    <3>2. wsarbMax = v => blocks[v].carried
      BY <1>4, <1>5, <2>1, <3>1 DEF Account, AtOnce, Entering
    <3> QED
      BY <3>1, <3>2 DEF Account, Noted
  <2>3. \E s \in Source : s \in r.at
    BY <1>4, <1>5, <2>1 DEF Account, Traced, Entering
  <2>4. wsarbMax <= topSent /\ (topSent = wsarbMax \/ topSent < v)
    BY <1>4, <1>5 DEF Account, Rising
  <2>5. v <= last \/ v \in refused
    BY <1>4, <1>5, <2>1 DEF Account, Offered
  <2>6. r.at \ {Wsarb} # {}
    BY <2>3, LoadTestAssumption
  <2>7. Carried(v) <=> blocks[v].carried
    BY <2>2 DEF Carried
  <2>8. Fate(f) = IF Wsarb \in r.at THEN "matched"
                  ELSE IF r.bornMax > v THEN "stale_dropped"
                  ELSE IF Carried(v) THEN "superseded"
                  ELSE IF wsarbMax > v THEN "skipped" ELSE "lost"
    <3>1. (r.bornMax <= v) <=> ~ (r.bornMax > v)
      BY <2>1
    <3> QED
      BY <2>6, <3>1, Zenon DEF Fate
  <2>9. \A h \in hand : h.frame.stamp < v
    BY <1>4, <1>5
  <2> HIDE DEF r, v
  <2>10. Fate(f) = "lost" <=> v > topSent
    BY <1>2, <2>1, <2>2, <2>4, <2>7, <2>8
  <2>11. Fate(f) # "invented"
    BY <2>8
  <2>12. ASSUME v > topSent, v \notin refused PROVE \E w \in swallowed : w >= v
    <3>1. v <= last /\ last # topSent
      BY <1>2, <2>1, <2>5, <2>12
    <3>2. ~ \E h \in hand : h.frame.stamp = last
      BY <1>2, <2>1, <2>9, <3>1
    <3>3. last \in swallowed
      BY <3>1, <3>2 DEF Account, Rising
    <3> QED
      BY <1>2, <2>1, <3>1, <3>3
  <2> QED
    BY <2>10, <2>11, <2>12 DEF v
<1>6. VerdictIsTrue'
  <2>1. violated' => overtook'
    BY <1>1 DEF Account, Rising
  <2>2. ASSUME NEW f \in Frame, f.stamp \notin disturbed'
        PROVE  /\ <<f, "lost">> \in verdict' <=> f \in unmet'
               /\ <<f, "lost">> \in verdict' =>
                     f.stamp \in refused \/ \E w \in swallowed : w >= f.stamp
               /\ <<f, "invented">> \notin verdict'
    <3>1. /\ <<f, "lost">> \in verdict <=> f \in unmet
          /\ <<f, "lost">> \in verdict =>
                f.stamp \in refused \/ \E w \in swallowed : w >= f.stamp
          /\ <<f, "invented">> \notin verdict
      BY <1>1, <2>2 DEF VerdictIsTrue, Is
    <3>2. \A x : <<f, x>> \in verdict' <=> <<f, x>> \in verdict \/ (f \in Judged /\ x = Fate(f))
      BY <1>1
    <3>3. f \in unmet' <=> f \in unmet \/ (f \in Judged /\ f.stamp > topSent)
      BY <1>1
    <3>4. CASE f \in Judged
      BY <1>5, <2>2, <3>1, <3>2, <3>3, <3>4
    <3>5. CASE f \notin Judged
      BY <3>1, <3>2, <3>3, <3>5
    <3> QED
      BY <3>4, <3>5
  <2> QED
    BY <1>1, <2>1, <2>2 DEF VerdictIsTrue, Is
<1>7. ASSUME running' PROVE Account'
  <2>1. /\ DOMAIN sighted' = DOMAIN sighted \ Judged
        /\ \A f \in DOMAIN sighted' : sighted'[f] = sighted[f]
        /\ DOMAIN blocks' = {w \in DOMAIN blocks : ~ Ripe(blocks[w].born)}
        /\ \A v \in DOMAIN blocks' : blocks'[v] = blocks[v]
    BY <1>7, Leaving
  <2>2. Rising'
    BY <1>1 DEF Account, Rising
  <2>3. Noted'
    BY <1>1, <2>1 DEF Account, Noted
  <2>4. Offered'
    BY <1>1, <2>1 DEF Account, Offered
  <2>5. Traced'
    <3> SUFFICES ASSUME NEW g \in Frame, g.stamp \notin disturbed',
                        \/ \E t \in Source : Within(g, inbound[t])
                        \/ \E h \in hand : h.frame = g
                        \/ Within(g, wire[Wsarb])
                        \/ \E m \in midway : m.frame = g
                        \/ g \in DOMAIN sighted'
                 PROVE  \E t \in Source :
                           \/ Within(g, wire[t])
                           \/ \E m \in midway : m.on = t /\ m.frame = g /\ ~ m.seen
                           \/ g \in DOMAIN sighted' /\ t \in sighted'[g].at
      BY <1>1 DEF Traced
    <3>1. g \notin Judged
      <4> SUFFICES ASSUME g \in Judged PROVE FALSE
        OBVIOUS
      <4>1. /\ \A s \in Source : ~ Within(g, inbound[s])
            /\ ~ Entering(g.stamp) /\ g \notin DOMAIN sighted'
        BY <1>4, <2>1
      <4>2. ~ \E h \in hand : h.frame = g
        BY <1>2, <1>4
      <4>3. ~ Within(g, wire[Wsarb])
        <5>1. \A i \in DOMAIN wire[Wsarb] : wire[Wsarb][i].stamp < g.stamp
          BY <1>4
        <5>2. g.stamp \in Nat
          BY StampRange
        <5> QED
          BY <5>1, <5>2 DEF Within
      <4> QED
        BY <4>1, <4>2, <4>3 DEF Entering
    <3>2. g.stamp \notin disturbed
      BY <1>1
    <3>3. \E t \in Source : \/ Within(g, wire[t])
                            \/ \E m \in midway : m.on = t /\ m.frame = g /\ ~ m.seen
                            \/ g \in DOMAIN sighted /\ t \in sighted[g].at
      BY <2>1, <3>2 DEF Account, Traced
    <3> QED
      BY <2>1, <3>1, <3>3
  <2>6. AtOnce'
    <3> SUFFICES ASSUME NEW v \in Stamp, v \notin disturbed'
                 PROVE  /\ opened[v] <= time
                        /\ \A m \in midway : m.frame.stamp = v =>
                              m.at = opened[v] /\ (m.seen => m.frame \in DOMAIN sighted')
                        /\ v \in DOMAIN blocks' =>
                              /\ blocks'[v].born = opened[v]
                              /\ \E f \in DOMAIN sighted' : f.stamp = v
                        /\ \A f \in DOMAIN sighted' : f.stamp = v =>
                              sighted'[f].born = opened[v] /\ (v \in DOMAIN blocks' \/ Entering(v))
                        /\ wsarbMax = v =>
                              /\ opened[v] # 0
                              /\ \/ \E m \in midway : m.on = Wsarb /\ m.frame.stamp = v
                                 \/ v \in DOMAIN blocks' /\ blocks'[v].carried
                                 \/ v \notin DOMAIN blocks' /\ ~ Entering(v) /\ opened[v] < time
      BY <1>1 DEF AtOnce, Entering
    <3>1. /\ opened[v] <= time
          /\ \A m \in midway : m.frame.stamp = v =>
                m.at = opened[v] /\ (m.seen => m.frame \in DOMAIN sighted)
          /\ v \in DOMAIN blocks =>
                blocks[v].born = opened[v] /\ \E f \in DOMAIN sighted : f.stamp = v
          /\ \A f \in DOMAIN sighted : f.stamp = v =>
                sighted[f].born = opened[v] /\ (v \in DOMAIN blocks \/ Entering(v))
          /\ wsarbMax = v =>
                /\ opened[v] # 0
                /\ \/ \E m \in midway : m.on = Wsarb /\ m.frame.stamp = v
                   \/ v \in DOMAIN blocks /\ blocks[v].carried
                   \/ v \notin DOMAIN blocks /\ ~ Entering(v) /\ opened[v] < time
      BY <1>1 DEF Account, AtOnce
    \* While a frame of the stamp is being entered, none of it is judged.
    <3>2. Entering(v) => \A f \in Judged : f.stamp # v
      BY <1>4
    <3>3. \A m \in midway : m.frame.stamp = v /\ m.seen => m.frame \in DOMAIN sighted'
      BY <2>1, <3>1, <3>2 DEF Entering
    <3>4. ASSUME v \in DOMAIN blocks'
          PROVE  blocks'[v].born = opened[v] /\ \E f \in DOMAIN sighted' : f.stamp = v
      <4>1. v \in DOMAIN blocks /\ blocks'[v] = blocks[v] /\ ~ Ripe(opened[v])
        BY <2>1, <3>1, <3>4
      <4>2. PICK f \in DOMAIN sighted : f.stamp = v
        BY <3>1, <4>1
      <4>3. f \notin Judged
        BY <3>1, <4>1, <4>2 DEF Judged
      <4> QED
        BY <2>1, <3>1, <4>1, <4>2, <4>3
    <3>5. ASSUME NEW f \in DOMAIN sighted', f.stamp = v
          PROVE  sighted'[f].born = opened[v] /\ (v \in DOMAIN blocks' \/ Entering(v))
      <4>1. /\ f \in DOMAIN sighted /\ f \notin Judged /\ sighted'[f] = sighted[f]
            /\ sighted[f].born = opened[v] /\ (v \in DOMAIN blocks \/ Entering(v))
        BY <2>1, <3>1, <3>5
      <4>2. ~ Ripe(opened[v])
        BY <4>1 DEF Judged
      <4>3. v \in DOMAIN blocks => v \in DOMAIN blocks'
        BY <2>1, <3>1, <4>2
      <4> QED
        BY <4>1, <4>3
    <3>6. ASSUME wsarbMax = v, v \in DOMAIN blocks, blocks[v].carried
          PROVE  \/ v \in DOMAIN blocks' /\ blocks'[v].carried
                 \/ v \notin DOMAIN blocks' /\ ~ Entering(v) /\ opened[v] < time
      <4>1. CASE Ripe(opened[v])
        <5>1. PICK f \in DOMAIN sighted : f.stamp = v
          BY <3>1, <3>6
        <5>2. f \in Judged
          BY <3>1, <4>1, <5>1 DEF Judged
        <5>3. ~ Entering(v)
          BY <3>2, <5>1, <5>2
        <5>4. opened[v] < time
          <6>1. opened[v] \in Nat
            BY Founded
          <6> QED
            BY <1>2, <4>1, <6>1 DEF Ripe
        <5>5. v \notin DOMAIN blocks'
          BY <2>1, <3>1, <3>6, <4>1
        <5> QED
          BY <5>3, <5>4, <5>5
      <4>2. CASE ~ Ripe(opened[v])
        BY <2>1, <3>1, <3>6, <4>2
      <4> QED
        BY <4>1, <4>2
    <3>7. v \notin DOMAIN blocks => v \notin DOMAIN blocks'
      BY <2>1
    <3> QED
      BY <3>1, <3>3, <3>4, <3>5, <3>6, <3>7
  <2> QED
    BY <2>2, <2>3, <2>4, <2>5, <2>6 DEF Account
<1> QED
  BY <1>6, <1>7

LEMMA ClockKeeps ==
    ASSUME TypeOK, VerdictIsTrue, Account, ClockTick
    PROVE  VerdictIsTrue' /\ Account'
<1>1. /\ time' = time + 1 /\ time \in Nat
      /\ UNCHANGED <<last, inbound, hand, wire, midway, left, sighted, blocks, wsarbMax, lastSeq,
                     violated, verdict, unmet, topSent, swallowed, refused, overtook, opened,
                     disturbed>>
  BY Founded DEF ClockTick, entry, path, maps, order, judging, sendings
<1>2. VerdictIsTrue'
  BY <1>1, VerdictStays DEF VerdictIsTrue
<1>3. AtOnce'
  <2>1. \A v \in Stamp : opened[v] \in Nat
    BY Founded
  <2>2. \A v \in Stamp : /\ opened[v] <= time => opened[v] <= time + 1
                         /\ opened[v] < time => opened[v] < time + 1
    BY <1>1, <2>1
  <2> QED
    BY <1>1, <2>2 DEF Account, AtOnce, Entering
<1>4. Rising' /\ Noted'
  BY <1>1 DEF Account, Rising, Noted
<1>5. Offered' /\ Traced'
  BY <1>1 DEF Account, Offered, Traced
<1> QED
  BY <1>2, <1>3, <1>4, <1>5 DEF Account

\* The invariant holds initially and every step keeps it.
LEMMA Invariance == Spec => []IInv
<1>1. ASSUME Init PROVE IInv
  <2>1. DOMAIN <<>> = {} /\ sighted = <<>> /\ blocks = <<>> /\ hand = {} /\ midway = {}
    BY <1>1 DEF Init
  <2>2. /\ \A k \in Slot : wire[k] = <<>>
        /\ \A s \in Source : inbound[s] = <<>>
        /\ \A v \in Stamp : opened[v] = 0
    BY <1>1 DEF Init
  <2>3. /\ last = 0 /\ topSent = 0 /\ wsarbMax = 0 /\ lastSeq = 0 /\ violated = FALSE
        /\ verdict = {} /\ unmet = {} /\ time = 1
    BY <1>1 DEF Init, EntryInit
  <2>4. \A f, s : ~ Within(f, <<>>)
    BY <2>1 DEF Within
  <2>5. Rising
    BY <2>1, <2>2, <2>3, StampRange DEF Rising
  <2>6. Noted
    BY <2>1 DEF Noted
  <2>7. Offered /\ Traced
    BY <2>1, <2>2, <2>4, StampRange DEF Offered, Traced
  <2>8. AtOnce
    BY <2>1, <2>2, <2>3, StampRange DEF AtOnce
  <2>9. VerdictIsTrue
    BY <2>3 DEF VerdictIsTrue, Is
  <2> QED
    BY <2>5, <2>6, <2>7, <2>8, <2>9 DEF IInv, Account
<1>2. TypeOK /\ IInv /\ [Next]_vars => IInv'
  <2> SUFFICES ASSUME TypeOK, IInv, [Next]_vars PROVE IInv'
    OBVIOUS
  <2>1. CASE Next
    <3>1. running /\ VerdictIsTrue /\ Account
      BY <2>1 DEF Next, IInv
    <3>2. CASE \E s \in Source : Arbitrate(s) \/ \E f \in Frame : Emit(s, f)
      BY <3>1, <3>2, ArbitrateKeeps, EmitKeeps DEF IInv
    <3>3. CASE \E h \in hand : Forward(h)
      BY <3>1, <3>3, ForwardKeeps DEF IInv
    <3>4. CASE \E k \in Slot : Read(k)
      BY <3>1, <3>4, ReadKeeps DEF IInv
    <3>5. CASE \E m \in midway : See(m) \/ Count(m)
      BY <3>1, <3>5, SeeKeeps, CountKeeps DEF IInv
    <3>6. CASE \E finishing \in BOOLEAN : Sweep(finishing)
      BY <3>1, <3>6, SweepKeeps DEF IInv
    <3>7. CASE ClockTick
      BY <3>1, <3>7, ClockKeeps DEF IInv
    <3> QED
      BY <2>1, <3>2, <3>3, <3>4, <3>5, <3>6, <3>7 DEF Next
  <2>2. CASE UNCHANGED vars
    <3>1. UNCHANGED <<last, inbound, hand, wire, midway, left, time, running, sighted, blocks,
                      wsarbMax, lastSeq, violated, verdict, unmet, topSent, swallowed, refused,
                      overtook, opened, disturbed>>
      BY <2>2 DEF vars, entry, path, maps, order, judging, sendings
    <3>2. VerdictIsTrue => VerdictIsTrue'
      BY <3>1 DEF VerdictIsTrue, Is
    <3>3. Account => Account'
      BY <3>1 DEF Account, Rising, Noted, Offered, Traced, AtOnce, Entering
    <3> QED
      BY <3>1, <3>2, <3>3 DEF IInv
  <2> QED
    BY <2>1, <2>2
<1> QED
  BY <1>1, <1>2, Typing, PTL DEF Spec

\* The verdict is true: of a stamp read at one time and judged with nothing on
\* its way, "lost" is said of what the proxy sent nothing as new of, which only
\* a frame it refused for its age or swallowed leads to, and nothing is called
\* invented; and its order is faulted only if one winner overtook another
\* between the unlock and the send.
THEOREM TrueVerdict == Spec => []VerdictIsTrue
  BY Invariance, PTL DEF IInv
=============================================================================
