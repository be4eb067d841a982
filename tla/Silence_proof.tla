--------------------------- MODULE Silence_proof ---------------------------
(***************************************************************************)
(* What the silence monitor and the l2Book feed guarantee for any number   *)
(* of sources, whatever the limits, and wherever in a tick they speak,     *)
(* fall silent, lose their connection or come back.                        *)
(***************************************************************************)
EXTENDS Silence, TLAPS

(* A count is a multiple of Every, past zero, no sooner than at Every. *)
LEMMA NoSoonerThanEvery ==
    ASSUME NEW n \in Nat, NEW k \in Nat, 0 < k, k < n
    PROVE  k % n # 0
  OBVIOUS

(* So a bounce is due at First and at First + Every, and nowhere between. *)
LEMMA DueTwice ==
    ASSUME NEW w \in 0 .. First + Every, Due(w)
    PROVE  w \in {First, First + Every}
<1> First \in Nat /\ Every \in Nat
  BY SilenceAssumption
<1> SUFFICES ASSUME w > First, w < First + Every, (w - First) % Every = 0
             PROVE  FALSE
  BY DEF Due
<1> QED
  BY NoSoonerThanEvery

(* Every variable keeps its type. *)
THEOREM Typing == Spec => []TypeOK
<1>1. Init => TypeOK
  <2> SUFFICES ASSUME Init PROVE TypeOK
    OBVIOUS
  <2>1. EntryTypeOK
    BY ArbiterAssumption DEF Init, EntryInit, EntryTypeOK, Source
  <2>2. 0 \in Source /\ 0 \in 0 .. First + Every /\ Every \in 0 .. Every
        /\ Limit + 2 \in 0 .. Limit + 2
    BY ArbiterAssumption, SilenceAssumption DEF Source
  <2> QED
    BY <2>1, <2>2 DEF Init, TypeOK, NoBook
<1>2. TypeOK /\ [Next]_vars => TypeOK'
  <2> SUFFICES ASSUME TypeOK, [Next]_vars PROVE TypeOK'
    OBVIOUS
  <2>0. /\ EntryTypeOK
        /\ permit \in [Source -> BOOLEAN] /\ stale \in [Source -> BOOLEAN]
        /\ hand \in [Source -> {0} \cup Stamp]
        /\ shown \in [src : Source \cup {NoSource}, stamp : Nat]
        /\ silent \in [Source -> 0 .. First + Every]
        /\ since \in [Source -> 0 .. Every] /\ at \in Source
        /\ First \in Nat \ {0} /\ Every \in Nat /\ First <= Every
        /\ NumSources \in Nat \ {0}
    BY ArbiterAssumption, SilenceAssumption DEF TypeOK
  <2>00. ASSUME NEW s \in Source, Resync(s)
         PROVE  /\ EntryTypeOK' /\ stale' \in [Source -> BOOLEAN]
                /\ shown' \in [src : Source \cup {NoSource}, stamp : Nat]
    <3>1. CASE leader = s
      <4>1. last' = 0 /\ leader' = NoSource /\ sampled' = {}
        BY <2>00, <3>1 DEF Resync, Release
      <4>2. UNCHANGED <<needsSnapshot, sent, seen>>
        BY <2>00, <3>1 DEF Resync, Release
      <4>3. shown' = NoBook /\ stale' \in [Source -> BOOLEAN]
        BY <2>00, <3>1 DEF Resync
      <4> QED
        BY <2>0, <4>1, <4>2, <4>3 DEF EntryTypeOK, NoBook
    <3>2. CASE leader # s
      BY <2>0, <2>00, <3>2 DEF Resync, entry, EntryTypeOK
    <3> QED
      BY <3>1, <3>2
  <2>1. CASE Roll
    <3>1. EntryTypeOK'
      BY <2>0, <2>1 DEF Roll, entry, EntryTypeOK
    <3>2. silent' \in [Source -> 0 .. First + Every]
      <4>1. OneMore(silent[at]) \in 0 .. First + Every
        BY <2>0 DEF OneMore
      <4>2. CASE silent' = [silent EXCEPT ![at] = 0]
        BY <2>0, <4>2
      <4>3. CASE silent' = [silent EXCEPT ![at] = OneMore(silent[at])]
        BY <2>0, <4>1, <4>3
      <4> QED
        BY <2>1, <4>2, <4>3 DEF Roll
    <3>3. at' \in Source
      BY <2>0, <2>1 DEF Roll, Source
    <3>4. since' \in [Source -> 0 .. Every]
      BY <2>0, <2>1 DEF Roll
    <3>5. fresh' \in [Source -> BOOLEAN]
      BY <2>1 DEF Roll, TypeOK
    <3>6. pc' \in {"roll", "judge"}
      BY <2>1 DEF Roll, TypeOK
    <3>7. UNCHANGED <<ever, hand, conn, permit, found, calm, shown, stale>>
      BY <2>1 DEF Roll, link
    <3> QED
      BY <3>1, <3>2, <3>3, <3>4, <3>5, <3>6, <3>7 DEF TypeOK
  <2>2. CASE Judge
    <3>1. found' \subseteq Source
      BY <2>2 DEF Judge, SilentSources
    <3>2. pc' \in {"roll", "resync"} /\ calm' \in 0 .. Limit + 2
      BY <2>2, SilenceAssumption DEF Judge, TypeOK
    <3> QED
      BY <2>0, <2>2, <3>1, <3>2 DEF Judge, entry, stats, link, TypeOK, EntryTypeOK
  <2>3. ASSUME NEW s \in Source, LetGo(s) PROVE TypeOK'
    <3>1. /\ EntryTypeOK' /\ stale' \in [Source -> BOOLEAN]
          /\ shown' \in [src : Source \cup {NoSource}, stamp : Nat]
      BY <2>00, <2>3 DEF LetGo
    <3> QED
      BY <2>3, <3>1 DEF LetGo, stats, link, TypeOK
  <2>4. ASSUME NEW s \in Source, Notify(s) PROVE TypeOK'
    <3>1. permit' \in [Source -> BOOLEAN]
      BY <2>0, <2>4 DEF Notify
    <3>2. since' \in [Source -> 0 .. Every]
      BY <2>0, <2>4 DEF Notify
    <3>3. found' \subseteq Source /\ pc' \in {"roll", "resync"}
      BY <2>4 DEF Notify, TypeOK
    <3> QED
      BY <2>0, <2>4, <3>1, <3>2, <3>3 DEF Notify, entry, stats, TypeOK, EntryTypeOK
  <2>5. ASSUME NEW s \in Source, Counted(s)
        PROVE  /\ fresh' \in [Source -> BOOLEAN] /\ ever' \in [Source -> BOOLEAN]
               /\ silent' = silent /\ calm' \in 0 .. Limit + 2
    <3>1. fresh' \in [Source -> BOOLEAN] /\ ever' \in [Source -> BOOLEAN]
      BY <2>5 DEF Counted, TypeOK
    <3>2. silent' = silent /\ calm' \in 0 .. Limit + 2
      BY <2>5, SilenceAssumption DEF Counted
    <3> QED
      BY <3>1, <3>2
  <2>6. ASSUME NEW s \in Source, NEW v \in Stamp, Book(s, v) PROVE TypeOK'
    <3>1. PICK o \in Outcome : StickyFrame(s, v, o)
      BY <2>6 DEF Book
    <3>2. v \in Nat
      BY DEF Stamp
    <3>3. EntryTypeOK'
      BY <2>0, <3>1, <3>2 DEF StickyFrame, Take, Keep, EntryTypeOK
    <3>4. hand' \in [Source -> {0} \cup Stamp]
      BY <2>0, <2>6 DEF Book
    <3> QED
      BY <2>5, <2>6, <3>3, <3>4 DEF Book, Packet, monitor, TypeOK
  <2>12. ASSUME NEW s \in Source, Show(s) PROVE TypeOK'
    <3>1. hand' \in [Source -> {0} \cup Stamp] /\ stale' \in [Source -> BOOLEAN]
      BY <2>0, <2>12 DEF Show
    <3>2. shown' \in [src : Source \cup {NoSource}, stamp : Nat]
      <4>1. hand[s] \in Nat
        BY <2>0 DEF Stamp
      <4> QED
        BY <2>12, <4>1 DEF Show, NoBook
    <3> QED
      BY <2>0, <2>12, <3>1, <3>2
         DEF Show, entry, stats, monitor, TypeOK, EntryTypeOK
  <2>7. ASSUME NEW s \in Source, Ack(s) PROVE TypeOK'
    BY <2>0, <2>5, <2>7
       DEF Ack, Packet, entry, link, monitor, TypeOK, EntryTypeOK
  <2>8. ASSUME NEW s \in Source, Drop(s) \/ Bounce(s) PROVE TypeOK'
    <3>1. permit' \in [Source -> BOOLEAN]
      BY <2>0, <2>8 DEF Drop, Bounce
    <3>2. conn' \in [Source -> {"up", "lost", "down"}]
      BY <2>8 DEF Drop, Bounce, Leave, TypeOK
    <3> QED
      BY <2>0, <2>8, <3>1, <3>2
         DEF Drop, Bounce, Leave, entry, stats, monitor, history, TypeOK, EntryTypeOK
  <2>9. ASSUME NEW s \in Source, AfterLoss(s) PROVE TypeOK'
    <3>1. /\ EntryTypeOK' /\ stale' \in [Source -> BOOLEAN]
          /\ shown' \in [src : Source \cup {NoSource}, stamp : Nat]
      BY <2>00, <2>9 DEF AfterLoss
    <3> QED
      BY <2>9, <3>1 DEF AfterLoss, stats, monitor, TypeOK
  <2>10. ASSUME NEW s \in Source, Connect(s) PROVE TypeOK'
    <3>1. conn' \in [Source -> {"up", "lost", "down"}]
      BY <2>10 DEF Connect, TypeOK
    <3>2. /\ fresh' \in [Source -> BOOLEAN] /\ ever' \in [Source -> BOOLEAN]
          /\ silent' = silent /\ calm' \in 0 .. Limit + 2
      BY <2>5, <2>10 DEF Connect, stats, TypeOK
    <3> QED
      BY <2>0, <2>10, <3>1, <3>2 DEF Connect, entry, monitor, TypeOK, EntryTypeOK
  <2>11. CASE UNCHANGED vars
    BY <2>0, <2>11
       DEF vars, entry, stats, link, monitor, history, TypeOK, EntryTypeOK
  <2> QED
    BY <2>1, <2>2, <2>3, <2>4, <2>6, <2>7, <2>8, <2>9, <2>10, <2>11, <2>12
       DEF Next, Monitor, Task
<1> QED
  BY <1>1, <1>2, PTL DEF Spec

(***************************************************************************)
(* The key of the l2Book channel: a book in hand is the leader's, at the   *)
(* height of the entry, unless the key was let go of since it was won; and *)
(* so is the book the clients were last sent, or an older one.             *)
(***************************************************************************)
HandIsTheLeaders ==
    \A s \in Source :
        /\ hand[s] = 0 => ~ stale[s]
        /\ hand[s] # 0 /\ ~ stale[s] => leader = s /\ last = hand[s]

BookIsTheLeaders ==
    shown.src # NoSource => leader = shown.src /\ shown.stamp <= last

BookInv == HandIsTheLeaders /\ BookIsTheLeaders

\* What OneBook says of a step.
Followed ==
    \/ shown' = shown
    \/ shown.src = NoSource \/ shown'.src = NoSource
    \/ shown'.src = shown.src /\ shown'.stamp >= shown.stamp

(* The l2Book feed: no book of another source, and none of an older stamp  *)
(* of the same one, is sent while the source of the clients' book keeps    *)
(* the key, but for one in hand from before it was last let go of.         *)
THEOREM OneBookHolds == Spec => OneBook
<1>1. Init => BookInv
  BY DEF Init, EntryInit, NoBook, BookInv, HandIsTheLeaders, BookIsTheLeaders
<1>2. ASSUME TypeOK, BookInv, NEW s \in Source, NEW v \in Stamp, Book(s, v)
      PROVE  BookInv' /\ Followed
  <2>1. PICK o \in Outcome :
          /\ StickyFrame(s, v, o)
          /\ hand' = IF o \in Forwarded THEN [hand EXCEPT ![s] = v] ELSE hand
    BY <1>2 DEF Book
  <2>2. /\ s # NoSource /\ v \in Nat /\ last \in Nat /\ hand[s] = 0
        /\ shown' = shown /\ stale' = stale
        /\ shown.stamp \in Nat
    BY <1>2, ArbiterAssumption DEF Book, Packet, Stamp, TypeOK, EntryTypeOK
  <2>3. CASE o \in Forwarded
    <3>1. leader' = s /\ last' = v
      BY <2>1, <2>2, <2>3 DEF StickyFrame, Take, Keep, Leads, Forwarded
    <3>2. leader = NoSource \/ (leader = s /\ v >= last)
      BY <2>1, <2>2, <2>3 DEF StickyFrame, Leads, Newer, Forwarded
    <3>3. hand'[s] = v /\ \A t \in Source : t # s => hand'[t] = hand[t]
      BY <1>2, <2>1, <2>3 DEF TypeOK
    <3>4. HandIsTheLeaders'
      <4>1. ASSUME NEW t \in Source, t # s, hand[t] # 0, ~ stale[t] PROVE FALSE
        <5>1. leader = t
          BY <1>2, <4>1 DEF BookInv, HandIsTheLeaders
        <5> QED
          BY <3>2, <4>1, <5>1, ArbiterAssumption
      <4>2. v # 0
        BY DEF Stamp
      <4> QED
        BY <1>2, <2>2, <3>1, <3>3, <4>1, <4>2 DEF BookInv, HandIsTheLeaders
    <3>5. BookIsTheLeaders'
      BY <1>2, <2>2, <3>1, <3>2 DEF BookInv, BookIsTheLeaders
    <3> QED
      BY <2>2, <3>4, <3>5 DEF BookInv, Followed
  <2>4. CASE o \notin Forwarded
    <3>1. UNCHANGED <<last, leader, hand>>
      BY <2>1, <2>4 DEF StickyFrame, Keep, Forwarded
    <3> QED
      BY <1>2, <2>2, <3>1
         DEF BookInv, HandIsTheLeaders, BookIsTheLeaders, Followed
  <2> QED
    BY <2>3, <2>4
<1>3. ASSUME TypeOK, BookInv, NEW s \in Source, Show(s)
      PROVE  BookInv' /\ Followed
  <2>1. /\ hand[s] # 0 /\ hand'[s] = 0 /\ stale'[s] = FALSE
        /\ \A t \in Source : t # s => hand'[t] = hand[t] /\ stale'[t] = stale[t]
        /\ last' = last /\ leader' = leader
    BY <1>3 DEF Show, entry, TypeOK
  <2>2. HandIsTheLeaders'
    BY <1>3, <2>1 DEF BookInv, HandIsTheLeaders
  <2>3. CASE stale[s]
    <3>1. shown' = NoBook
      BY <1>3, <2>3 DEF Show
    <3> QED
      BY <2>2, <3>1 DEF BookInv, BookIsTheLeaders, Followed, NoBook
  <2>4. CASE ~ stale[s]
    <3>1. shown'.src = s /\ shown'.stamp = hand[s]
      BY <1>3, <2>4 DEF Show
    <3>2. leader = s /\ last = hand[s] /\ last \in Nat
      BY <1>3, <2>1, <2>4 DEF BookInv, HandIsTheLeaders, TypeOK, EntryTypeOK
    <3>3. shown.src # NoSource => shown.src = s /\ shown.stamp <= last
      BY <1>3, <3>2 DEF BookInv, BookIsTheLeaders
    <3>4. shown.stamp \in Nat
      BY <1>3 DEF TypeOK
    <3> QED
      BY <2>1, <2>2, <3>1, <3>2, <3>3, <3>4 DEF BookInv, BookIsTheLeaders, Followed
  <2> QED
    BY <2>3, <2>4
<1>4. ASSUME BookInv, NEW s \in Source, Resync(s), hand' = hand
      PROVE  BookInv' /\ Followed
  <2>1. CASE leader = s
    <3>1. shown' = NoBook /\ \A t \in Source : stale'[t] = (hand[t] # 0)
      BY <1>4, <2>1 DEF Resync
    <3> QED
      BY <1>4, <3>1
         DEF BookInv, HandIsTheLeaders, BookIsTheLeaders, Followed, NoBook
  <2>2. CASE leader # s
    <3>1. UNCHANGED <<last, leader, shown, stale>>
      BY <1>4, <2>2 DEF Resync, entry
    <3> QED
      BY <1>4, <3>1 DEF BookInv, HandIsTheLeaders, BookIsTheLeaders, Followed
  <2> QED
    BY <2>1, <2>2
<1>5. TypeOK /\ BookInv /\ [Next]_vars => BookInv' /\ Followed
  <2> SUFFICES ASSUME TypeOK, BookInv, [Next]_vars PROVE BookInv' /\ Followed
    OBVIOUS
  <2>1. CASE \/ Roll \/ Judge
             \/ \E s \in Source : Notify(s) \/ Ack(s) \/ Drop(s) \/ Bounce(s) \/ Connect(s)
             \/ UNCHANGED vars
    <3>1. UNCHANGED <<last, leader, hand, shown, stale>>
      BY <2>1 DEF Roll, Judge, Notify, Ack, Drop, Bounce, Leave, Connect,
                  vars, entry, link, history
    <3> QED
      BY <3>1 DEF BookInv, HandIsTheLeaders, BookIsTheLeaders, Followed
  <2>2. ASSUME NEW s \in Source, LetGo(s) \/ AfterLoss(s)
        PROVE  BookInv' /\ Followed
    <3>1. Resync(s) /\ hand' = hand
      BY <2>2 DEF LetGo, AfterLoss, link
    <3> QED
      BY <1>4, <3>1
  <2> QED
    BY <1>2, <1>3, <2>1, <2>2 DEF Next, Monitor, Task
<1>6. TypeOK /\ BookInv /\ [Next]_vars =>
        [\/ shown' = shown
         \/ shown.src = NoSource \/ shown'.src = NoSource
         \/ shown'.src = shown.src /\ shown'.stamp >= shown.stamp]_vars
  BY <1>5 DEF Followed
<1> QED
  BY <1>1, <1>5, <1>6, Typing, PTL DEF Spec, OneBook

(***************************************************************************)
(* The window counter of a source against the windows since it was last    *)
(* told to reconnect.  A source the monitor still has to deal with, in     *)
(* this tick, was not told so within the last First windows if its counter *)
(* stands where a bounce is due.                                           *)
(***************************************************************************)
DueIn(w) == w \in {First, First + Every}

Aged(s) == DueIn(silent[s]) => since[s] >= First

Rolled(s) ==
    \/ pc = "judge"
    \/ pc = "roll" /\ s < at
    \/ s \in found

Spacing ==
    /\ pc \in {"roll", "judge"} => found = {}
    /\ pc # "roll" => at = 0
    /\ \A s \in Source :
          /\ silent[s] < First => silent[s] <= since[s]
          /\ silent[s] \in First .. First + Every - 1
                => silent[s] - First <= since[s]
          /\ Rolled(s) => Aged(s)

(* A bounce is asked for at most once in First windows, although the       *)
(* acknowledgements of the reconnection start the count anew.              *)
THEOREM Spaced == Spec => BouncesSpaced
<1> USE SilenceAssumption, ArbiterAssumption
<1>1. Init => Spacing
  BY DEF Init, Spacing, Rolled, Aged, DueIn, Source
<1>2. TypeOK /\ Spacing /\ [Next]_vars =>
        Spacing' /\ \A s \in Source : since'[s] < since[s] => since[s] >= First
  <2> SUFFICES ASSUME TypeOK, Spacing, [Next]_vars
               PROVE  /\ Spacing'
                      /\ \A s \in Source : since'[s] < since[s] => since[s] >= First
    OBVIOUS
  <2>0. /\ silent \in [Source -> 0 .. First + Every]
        /\ since \in [Source -> 0 .. Every] /\ at \in Source
        /\ First \in Nat \ {0} /\ Every \in Nat /\ First <= Every
    BY DEF TypeOK
  <2>00. \A s \in Source : Rolled(s) => Aged(s)
    BY DEF Spacing
  <2>1. CASE Roll
    <3>1. since' = [since EXCEPT ![at] = IF since[at] < Every THEN since[at] + 1
                                                              ELSE since[at]]
      BY <2>1 DEF Roll
    <3>2. \/ silent' = [silent EXCEPT ![at] = 0]
          \/ silent' = [silent EXCEPT ![at] = OneMore(silent[at])]
      BY <2>1 DEF Roll
    <3>3. found = {} /\ found' = {} /\ pc = "roll" /\ (pc' # "roll" => at' = 0)
      BY <2>1 DEF Roll, Spacing
    <3>4. \A s \in Source : Rolled(s)' => s = at \/ Rolled(s)
      BY <2>0, <2>1, <3>3 DEF Roll, Rolled, Source
    <3>5. ASSUME NEW s \in Source, s # at
          PROVE  silent'[s] = silent[s] /\ since'[s] = since[s]
      BY <2>0, <3>1, <3>2, <3>5
    <3>6. /\ silent'[at] < First => silent'[at] <= since'[at]
          /\ silent'[at] \in First .. First + Every - 1
                => silent'[at] - First <= since'[at]
          /\ DueIn(silent'[at]) => since'[at] >= First
          /\ ~ since'[at] < since[at]
      <4> DEFINE w == silent[at]
                 n == since[at]
      <4>1. /\ w \in 0 .. First + Every /\ n \in 0 .. Every
            /\ w < First => w <= n
            /\ w \in First .. First + Every - 1 => w - First <= n
        BY <2>0 DEF Spacing
      <4>2. since'[at] = IF n < Every THEN n + 1 ELSE n
        BY <2>0, <3>1
      <4>3. silent'[at] = 0 \/ silent'[at] = OneMore(w)
        BY <2>0, <3>2
      <4> HIDE DEF w, n
      <4> QED
        BY <2>0, <4>1, <4>2, <4>3 DEF OneMore, DueIn, w, n
    <3>7. \A s \in Source :
            /\ silent'[s] < First => silent'[s] <= since'[s]
            /\ silent'[s] \in First .. First + Every - 1
                  => silent'[s] - First <= since'[s]
            /\ Rolled(s)' => Aged(s)'
            /\ ~ since'[s] < since[s]
      <4> TAKE s \in Source
      <4>1. CASE s = at
        BY <2>0, <3>6, <4>1 DEF Aged, DueIn
      <4>2. CASE s # at
        <5>1. Rolled(s)' => Aged(s)'
          BY <2>00, <3>4, <3>5, <4>2 DEF Aged, DueIn
        <5> QED
          BY <2>0, <3>5, <4>2, <5>1 DEF Spacing
      <4> QED
        BY <4>1, <4>2
    <3> QED
      BY <3>3, <3>7 DEF Spacing
  <2>2. CASE Judge
    <3>1. UNCHANGED <<silent, since>> /\ pc = "judge"
      BY <2>2 DEF Judge, stats
    <3>2. (pc' \in {"roll", "judge"} => found' = {}) /\ at' = 0
      BY <2>2, <3>1 DEF Judge, Spacing
    <3>3. \A s \in Source : Aged(s)'
      BY <2>00, <3>1 DEF Rolled, Aged, DueIn
    <3> QED
      BY <2>0, <3>1, <3>2, <3>3 DEF Spacing
  <2>3. ASSUME NEW s \in Source, Notify(s)
        PROVE  Spacing' /\ \A t \in Source : since'[t] < since[t] => since[t] >= First
    <3>1. UNCHANGED silent /\ found' = found \ {s} /\ s \in found
      BY <2>3 DEF Notify, stats, Foremost
    <3>2. \/ DueIn(silent[s]) /\ since' = [since EXCEPT ![s] = 0]
          \/ since' = since
      BY <2>0, <2>3, DueTwice DEF Notify, DueIn
    <3>3. (pc' \in {"roll", "judge"} => found' = {}) /\ at' = 0
      BY <2>3 DEF Notify, Spacing
    <3>4. since[s] >= First \/ ~ DueIn(silent[s])
      BY <2>00, <3>1 DEF Rolled, Aged
    <3>5. ASSUME NEW t \in Source, Rolled(t)' PROVE t # s /\ Rolled(t)
      <4>1. at' = at /\ pc = "notify" /\ pc' \in {"roll", "resync"}
        BY <2>3 DEF Notify
      <4>2. at = 0
        BY <4>1 DEF Spacing
      <4> QED
        BY <2>0, <3>1, <3>5, <4>1, <4>2 DEF Rolled, Source
    <3> QED
      BY <2>0, <2>00, <3>1, <3>2, <3>3, <3>4, <3>5 DEF Spacing, Aged, DueIn
  <2>4. ASSUME NEW s \in Source, LetGo(s) PROVE Spacing' /\ since' = since
    BY <2>4 DEF LetGo, Foremost, stats, Spacing, Rolled, Aged
  <2>5. CASE UNCHANGED <<silent, since, pc, at, found>>
    BY <2>0, <2>5 DEF Spacing, Rolled, Aged
  <2>6. ASSUME NEW s \in Source, Task(s) PROVE UNCHANGED <<silent, since, pc, at, found>>
    BY <2>6 DEF Task, Book, Show, Ack, Packet, Counted, Drop, Bounce, Leave, AfterLoss,
                Connect, stats, monitor, history
  <2>7. CASE UNCHANGED vars
    BY <2>5, <2>7 DEF vars, stats, monitor, history
  <2> QED
    BY <2>0, <2>1, <2>2, <2>3, <2>4, <2>5, <2>6, <2>7 DEF Next, Monitor
<1>3. TypeOK /\ Spacing /\ [Next]_vars =>
        [\A s \in Source : since'[s] < since[s] => since[s] >= First]_vars
  BY <1>2
<1> QED
  BY <1>1, <1>2, <1>3, Typing, PTL DEF Spec, BouncesSpaced

(***************************************************************************)
(* The counters of a source against the judgements since anybody's latest  *)
(* packet: Slack(s) is 0 from the moment s is rolled to the judgement of   *)
(* the tick, and 1 for the rest of the window.                             *)
(***************************************************************************)
Slack(s) == IF pc = "judge" \/ (pc = "roll" /\ s < at) THEN 0 ELSE 1

Heard ==
    /\ pc # "roll" => at = 0
    /\ \A s \in Source :
          /\ fresh[s] => ever[s] /\ calm <= Slack(s)
          /\ ever[s] => calm <= silent[s] + 1 + Slack(s)

(* Nobody is let go of in a quiet market. *)
THEOREM QuietMarket == Spec => QuietMarketLetsNobodyGo
<1> USE SilenceAssumption, ArbiterAssumption
<1>1. Init => Heard
  BY DEF Init, Heard
<1>2. TypeOK /\ Heard /\ [Next]_vars =>
        Heard' /\ (~ found' \subseteq found => calm <= Limit + 1)
  <2> SUFFICES ASSUME TypeOK, Heard, [Next]_vars
               PROVE  Heard' /\ (~ found' \subseteq found => calm <= Limit + 1)
    OBVIOUS
  <2>0. /\ silent \in [Source -> 0 .. First + Every] /\ calm \in 0 .. Limit + 2
        /\ First \in Nat \ {0} /\ Every \in Nat /\ Limit \in Nat /\ Limit < First
        /\ at \in Source
        /\ fresh \in [Source -> BOOLEAN] /\ ever \in [Source -> BOOLEAN]
    BY DEF TypeOK
  <2>1. CASE Roll
    <3>1. /\ pc = "roll" /\ UNCHANGED <<ever, calm, found>>
          /\ pc' # "roll" => at' = 0
      BY <2>1 DEF Roll, Heard
    <3>2. ASSUME NEW s \in Source, s # at
          PROVE  /\ fresh'[s] = fresh[s] /\ silent'[s] = silent[s]
                 /\ Slack(s)' = Slack(s)
      <4>1. fresh'[s] = fresh[s] /\ silent'[s] = silent[s]
        BY <2>0, <2>1, <3>2 DEF Roll
      <4>2. Slack(s)' = Slack(s)
        BY <2>0, <2>1, <3>2 DEF Roll, Slack, Source
      <4> QED
        BY <4>1, <4>2
    <3>3. PICK a \in Source : a = at
      BY <2>0
    <3>4. fresh'[a] = FALSE /\ Slack(a) = 1 /\ Slack(a)' = 0
      <4>1. fresh'[a] = FALSE
        BY <2>0, <2>1, <3>3 DEF Roll
      <4>2. Slack(a) = 1
        BY <2>0, <3>1, <3>3 DEF Slack, Source
      <4>3. Slack(a)' = 0
        BY <2>0, <2>1, <3>3 DEF Roll, Slack, Source
      <4> QED
        BY <4>1, <4>2, <4>3
    <3>5. ever[a] => calm <= silent'[a] + 1
      <4>1. CASE fresh[a]
        <5>1. silent'[a] = 0
          BY <2>0, <2>1, <3>3, <4>1 DEF Roll
        <5>2. calm <= Slack(a)
          BY <4>1 DEF Heard
        <5> QED
          BY <2>0, <3>4, <5>1, <5>2
      <4>2. CASE ~ fresh[a]
        <5>1. silent'[a] = OneMore(silent[a])
          BY <2>0, <2>1, <3>3, <4>2 DEF Roll
        <5>2. ever[a] => calm <= silent[a] + 2
          BY <2>0, <3>4 DEF Heard
        <5>3. calm <= silent[a] + 2 => calm <= OneMore(silent[a]) + 1
          BY <2>0 DEF OneMore
        <5> QED
          BY <5>1, <5>2, <5>3
      <4> QED
        BY <4>1, <4>2
    <3>6. silent'[a] \in Nat
      <4>1. \/ silent' = [silent EXCEPT ![at] = 0]
            \/ silent' = [silent EXCEPT ![at] = OneMore(silent[at])]
        BY <2>1 DEF Roll
      <4> QED
        BY <2>0, <3>3, <4>1 DEF OneMore
    <3>7. ASSUME NEW s \in Source
          PROVE  /\ fresh'[s] => ever'[s] /\ calm' <= Slack(s)'
                 /\ ever'[s] => calm' <= silent'[s] + 1 + Slack(s)'
      <4>1. CASE s = a
        <5>1. calm <= silent'[a] + 1 => calm <= silent'[a] + 1 + 0
          BY <3>6
        <5> QED
          BY <3>1, <3>4, <3>5, <4>1, <5>1
      <4>2. CASE s # a
        BY <3>1, <3>2, <3>3, <4>2 DEF Heard
      <4> QED
        BY <4>1, <4>2
    <3> QED
      BY <3>1, <3>7 DEF Heard
  <2>2. CASE Judge
    <3>1. /\ pc = "judge" /\ UNCHANGED <<silent, fresh, ever, at>> /\ at = 0
          /\ pc' # "judge" /\ calm' <= calm + 1
      BY <2>0, <2>2 DEF Judge, stats, Heard
    <3>2. ASSUME NEW s \in Source PROVE Slack(s) = 0 /\ Slack(s)' = 1
      BY <3>1 DEF Slack, Source
    <3>3. calm' \in Nat
      BY <2>0, <2>2 DEF Judge
    <3>4. ASSUME NEW s \in Source
          PROVE  /\ fresh'[s] => ever'[s] /\ calm' <= Slack(s)'
                 /\ ever'[s] => calm' <= silent'[s] + 1 + Slack(s)'
      <4>1. fresh[s] => ever[s] /\ calm <= 0
        BY <3>2 DEF Heard
      <4>2. ever[s] => calm <= silent[s] + 1
        BY <2>0, <3>2 DEF Heard
      <4>3. calm <= 0 => calm' <= 1
        BY <2>0, <3>1, <3>3
      <4>4. calm <= silent[s] + 1 => calm' <= silent[s] + 1 + 1
        BY <2>0, <3>1, <3>3
      <4> QED
        BY <3>1, <3>2, <4>1, <4>2, <4>3, <4>4
    <3>5. ASSUME ~ found' \subseteq found PROVE calm <= Limit + 1
      <4>1. SomebodyDelivers
        BY <2>2, <3>5 DEF Judge, SilentSources
      <4>2. PICK s \in Source : ever[s] /\ silent[s] <= Limit
        BY <4>1 DEF SomebodyDelivers
      <4>3. calm <= silent[s] + 1
        BY <2>0, <3>2, <4>2 DEF Heard
      <4> QED
        BY <2>0, <4>2, <4>3
    <3> QED
      BY <3>1, <3>4, <3>5 DEF Heard
  <2>3. ASSUME NEW s \in Source, LetGo(s) \/ Notify(s)
        PROVE  Heard' /\ found' \subseteq found
    <3>1. /\ UNCHANGED <<silent, fresh, ever, at, calm>> /\ at = 0
          /\ pc \in {"resync", "notify"} /\ pc' # "judge"
          /\ found' \subseteq found
      BY <2>3 DEF LetGo, Notify, stats, Heard
    <3>2. ASSUME NEW t \in Source PROVE Slack(t)' = Slack(t)
      BY <3>1 DEF Slack, Source
    <3> QED
      BY <3>1, <3>2 DEF Heard
  <2>4. ASSUME NEW s \in Source, Counted(s), UNCHANGED monitor PROVE Heard'
    <3>1. calm' = 0 /\ UNCHANGED <<silent, pc, at>>
      BY <2>4 DEF Counted, monitor
    <3>2. \A t \in Source : fresh'[t] => ever'[t]
      BY <2>0, <2>4 DEF Counted, Heard
    <3>3. \A t \in Source : calm' <= Slack(t)' /\ calm' <= silent'[t] + 1 + Slack(t)'
      BY <2>0, <3>1 DEF Slack
    <3> QED
      BY <3>1, <3>2, <3>3 DEF Heard
  <2>5. ASSUME UNCHANGED <<stats, calm, monitor>> PROVE Heard'
    <3>1. /\ silent' = silent /\ fresh' = fresh /\ ever' = ever
          /\ calm' = calm /\ pc' = pc /\ at' = at
      BY <2>5 DEF stats, monitor
    <3>2. ASSUME NEW s \in Source PROVE Slack(s)' = Slack(s)
      BY <3>1 DEF Slack
    <3>3. ASSUME NEW s \in Source
          PROVE  /\ fresh'[s] => ever'[s] /\ calm' <= Slack(s)'
                 /\ ever'[s] => calm' <= silent'[s] + 1 + Slack(s)'
      BY <3>1, <3>2 DEF Heard
    <3> QED
      BY <3>1, <3>3 DEF Heard
  <2>6. ASSUME NEW s \in Source, Task(s)
        PROVE  UNCHANGED monitor /\ (Counted(s) \/ UNCHANGED <<stats, calm>>)
    BY <2>6 DEF Task, Book, Show, Ack, Packet, Drop, Bounce, Leave, AfterLoss, Connect, history
  <2>7. UNCHANGED monitor => found' = found
    BY DEF monitor
  <2>8. CASE UNCHANGED vars
    BY <2>5, <2>7, <2>8 DEF vars, history
  <2> QED
    BY <2>1, <2>2, <2>3, <2>4, <2>5, <2>6, <2>7, <2>8 DEF Next, Monitor, Roll
<1>3. TypeOK /\ Heard /\ [Next]_vars =>
        [~ found' \subseteq found => calm <= Limit + 1]_vars
  BY <1>2
<1> QED
  BY <1>1, <1>2, <1>3, Typing, PTL DEF Spec, QuietMarketLetsNobodyGo
=============================================================================
