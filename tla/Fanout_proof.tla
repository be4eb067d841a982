---------------------------- MODULE Fanout_proof ----------------------------
(***************************************************************************)
(* What the fan-out guarantees for any number of clients, source tasks,    *)
(* fetches and frames, and queues of any depth.                            *)
(***************************************************************************)
EXTENDS Fanout, SequenceTheorems, FiniteSetTheorems, TLAPS

(* Whoever is on a list is there, or its reader is not through.            *)
Present(c) == life[c] \in {"open", "closing"} \/ c \in late

ListInv ==
    /\ life \in [Client -> {"open", "closing", "closed"}]
    /\ parked \subseteq Client /\ attached \subseteq Client
    /\ \A c \in parked \cup attached : Present(c)

\* Clients come on a list when they read, and off it when they go.
LEMMA Lists == Spec => []ListInv
<1>1. Init => ListInv
  BY FanoutAssumption DEF Init, ListInv, Present
<1>2. ListInv /\ [Next]_vars => ListInv'
  <2> SUFFICES ASSUME ListInv, [Next]_vars PROVE ListInv'
    OBVIOUS
  <2>1. ASSUME NEW t \in Task, Win(t) PROVE ListInv'
    BY <2>1 DEF Win, socket, ListInv, Present
  <2>2. ASSUME NEW t \in Task, Send(t) PROVE ListInv'
    BY <2>2 DEF Send, entryVars, lists, socket, ListInv, Present
  <2>3. ASSUME NEW c \in Client, Join(c) PROVE ListInv'
    BY <2>3 DEF Join, Park, Reads, socket, ListInv, Present
  <2>4. ASSUME NEW k \in Fetch, Deliver(k) PROVE ListInv'
    BY <2>4 DEF Deliver, Attach, socket, ListInv, Present
  <2>5. ASSUME NEW k \in Fetch, Hand(k) PROVE ListInv'
    BY <2>5 DEF Hand, entryVars, lists, socket, ListInv, Present
  <2>6. ASSUME NEW c \in Client, Write(c) PROVE ListInv'
    BY <2>6 DEF Write, entryVars, lists, socket, ListInv, Present
  <2>7. ASSUME NEW c \in Client, HangUp(c) \/ GoAway(c) PROVE ListInv'
    BY <2>7 DEF HangUp, GoAway, Close, entryVars, lists, ListInv, Present
  <2>8. ASSUME NEW c \in Client, CleanUp(c) PROVE ListInv'
    BY <2>8 DEF CleanUp, Detach, ListInv, Present
  <2>9. ASSUME NEW c \in Client, SendAside(c) PROVE ListInv'
    BY <2>9 DEF SendAside, entryVars, lists, socket, ListInv, Present
  <2>10. ASSUME NEW c \in Client, Leave(c) PROVE ListInv'
    BY <2>10 DEF Leave, Detach, socket, ListInv, Present
  <2>11. CASE Resync
    BY <2>11 DEF Resync, Park, socket, ListInv, Present
  <2>12. CASE UNCHANGED vars
    BY <2>12 DEF vars, ListInv, Present
  <2> QED
    BY <2>1, <2>2, <2>3, <2>4, <2>5, <2>6, <2>7, <2>8, <2>9, <2>10, <2>11, <2>12
       DEF Next
<1> QED
  BY <1>1, <1>2, PTL DEF Spec

(* A client that is gone, with its reader, is on neither list, however     *)
(* late the fetch that was started for it is answered (deliver_snapshot    *)
(* looks it up among the parked, and detach has taken it off there too).   *)
THEOREM NobodyComesBack == Spec => []GoneIsGone
<1>1. ListInv => GoneIsGone
  BY DEF ListInv, Present, GoneIsGone
<1> QED
  BY <1>1, Lists, PTL

----------------------------------------------------------------------------
(* What is in a queue, and how often n is among a list of such.            *)
Number == 0 .. MaxFrame
One(m, n) == IF m = n THEN 1 ELSE 0

\* There are finitely many, and none in an empty list.
LEMMA AmongNat ==
    ASSUME NEW s \in Seq(Number), NEW n
    PROVE  /\ IsFiniteSet({i \in DOMAIN s : s[i] = n})
           /\ Among(s, n) \in Nat
<1>1. DOMAIN s = 1 .. Len(s) /\ Len(s) \in Nat
  BY LenProperties
<1>2. IsFiniteSet(DOMAIN s)
  BY <1>1, FS_Interval
<1>3. IsFiniteSet({i \in DOMAIN s : s[i] = n})
  BY <1>2, FS_Subset
<1> QED
  BY <1>3, FS_CardinalityType DEF Among

LEMMA AmongNothing == ASSUME NEW n PROVE Among(<<>>, n) = 0
<1>1. {i \in DOMAIN <<>> : <<>>[i] = n} = {}
  OBVIOUS
<1> QED
  BY <1>1, FS_EmptySet DEF Among

\* One more at the end of it.
LEMMA AmongLast ==
    ASSUME NEW s \in Seq(Number), NEW f \in Number, NEW n
    PROVE  Among(Append(s, f), n) = Among(s, n) + One(f, n)
<1> DEFINE q == Append(s, f)
           A == {i \in DOMAIN s : s[i] = n}
           B == {i \in DOMAIN q : q[i] = n}
<1>1. /\ Len(s) \in Nat /\ DOMAIN s = 1 .. Len(s) /\ DOMAIN q = 1 .. Len(s) + 1
      /\ \A i \in 1 .. Len(s) : q[i] = s[i]
      /\ q[Len(s) + 1] = f
  BY LenProperties, AppendProperties
<1>2. IsFiniteSet(A) /\ Cardinality(A) \in Nat
  BY AmongNat, FS_CardinalityType
<1>3. Len(s) + 1 \notin A
  BY <1>1
<1> HIDE DEF q
<1>4. CASE f = n
  <2>1. B = A \cup {Len(s) + 1}
    BY <1>1, <1>4
  <2> HIDE DEF A, B
  <2>2. Cardinality(B) = Cardinality(A) + 1
    BY <1>2, <1>3, <2>1, FS_AddElement
  <2> QED
    BY <1>4, <2>2 DEF Among, One, A, B, q
<1>5. CASE ~ (f = n)
  <2>1. B = A
    BY <1>1, <1>5
  <2>2. One(f, n) = 0
    BY <1>5 DEF One
  <2> HIDE DEF A, B
  <2>3. Cardinality(B) = Cardinality(A) + 0
    BY <1>2, <2>1
  <2> QED
    BY <2>2, <2>3 DEF Among, A, B, q
<1> QED
  BY <1>4, <1>5

\* One less at the front.
LEMMA AmongFirst ==
    ASSUME NEW s \in Seq(Number), s # <<>>, NEW n
    PROVE  Among(s, n) = One(Head(s), n) + Among(Tail(s), n)
<1> DEFINE q == Tail(s)
           A == {i \in DOMAIN q : q[i] = n}
           B == {i \in DOMAIN s : s[i] = n}
           C == {i + 1 : i \in A}
<1>1. /\ Len(s) \in Nat \ {0} /\ Tail(s) \in Seq(Number) /\ Len(Tail(s)) = Len(s) - 1
      /\ \A i \in 1 .. Len(Tail(s)) : Tail(s)[i] = s[i + 1]
      /\ Head(s) = s[1]
  BY EmptySeq, HeadTailProperties
<1>2. DOMAIN s = 1 .. Len(s) /\ DOMAIN q = 1 .. Len(s) - 1
  BY <1>1, LenProperties
<1>3. IsFiniteSet(A) /\ Cardinality(A) \in Nat
  BY <1>1, AmongNat, FS_CardinalityType
<1>4. \A i \in 1 .. Len(s) - 1 : q[i] = s[i + 1]
  BY <1>1
<1> HIDE DEF q
<1>5. A \subseteq 1 .. Len(s) - 1
  BY <1>2
<1>6. IsFiniteSet(C) /\ Cardinality(C) = Cardinality(A)
  <2> DEFINE g == [i \in A |-> i + 1]
  <2>1. g \in [A -> C] /\ \A i, j \in A : g[i] = g[j] => i = j
    BY <1>1, <1>5
  <2>2. \A x \in C : \E i \in A : g[i] = x
    OBVIOUS
  <2>3. g \in Bijection(A, C)
    <3> HIDE DEF g, A, C
    <3> QED
      BY <2>1, <2>2 DEF Bijection, Injection, Surjection, IsInjective
  <2>4. ExistsBijection(A, C)
    BY <2>3 DEF ExistsBijection
  <2> HIDE DEF A, C
  <2> QED
    BY <1>3, <2>4, FS_Bijection
<1>7. 1 \notin C
  <2>1. \A i \in 1 .. Len(s) - 1 : i + 1 # 1
    BY <1>1
  <2> QED
    BY <1>5, <2>1, Zenon
<1>8. \A i \in DOMAIN s :
         i # 1 => i - 1 \in DOMAIN q /\ s[i] = q[i - 1] /\ (i - 1) + 1 = i
  BY <1>1, <1>2, <1>4
<1>9. \A i \in DOMAIN q : i + 1 \in DOMAIN s /\ s[i + 1] = q[i]
  BY <1>1, <1>2, <1>4
<1>10. 1 \in DOMAIN s
  BY <1>1, <1>2
<1>11. CASE s[1] = n
  <2>1. B = C \cup {1}
    <3>1. \A i \in B : i \in C \cup {1}
      BY <1>8
    <3>2. \A i \in C \cup {1} : i \in B
      BY <1>9, <1>10, <1>11
    <3> QED
      BY <3>1, <3>2
  <2> HIDE DEF A, B, C
  <2>2. Cardinality(B) = Cardinality(A) + 1
    BY <1>6, <1>7, <2>1, FS_AddElement
  <2>3. One(Head(s), n) = 1
    BY <1>1, <1>11 DEF One
  <2>4. Among(s, n) = Cardinality(B) /\ Among(Tail(s), n) = Cardinality(A)
    BY DEF Among, A, B, q
  <2> QED
    BY <1>3, <2>2, <2>3, <2>4
<1>12. CASE ~ (s[1] = n)
  <2>1. B = C
    <3>1. \A i \in B : i \in C
      BY <1>8, <1>12
    <3>2. \A i \in C : i \in B
      BY <1>9
    <3> QED
      BY <3>1, <3>2
  <2> HIDE DEF A, B, C
  <2>2. Cardinality(B) = Cardinality(A)
    BY <1>6, <2>1
  <2>3. One(Head(s), n) = 0
    BY <1>1, <1>12 DEF One
  <2>4. Among(s, n) = Cardinality(B) /\ Among(Tail(s), n) = Cardinality(A)
    BY DEF Among, A, B, q
  <2> QED
    BY <1>3, <2>2, <2>3, <2>4
<1> QED
  BY <1>11, <1>12

----------------------------------------------------------------------------
(***************************************************************************)
(* Each frame that is due reaches a client once.  A parked client's        *)
(* backlog is what was forwarded since it was parked, and none of that is  *)
(* on its way to it yet.  Once it is attached a frame only changes places, *)
(* and what it was sent before stays counted, so nothing comes twice.      *)
(***************************************************************************)
\* Not to be hung up, and not gone.
Kept(c) == life[c] = "open" /\ c \notin kill

Backlog(c) ==
    /\ IsFiniteSet(held[c])
    /\ c \notin parked => held[c] = {}
    /\ c \in parked => \A n \in Nat :
          n > since[c] /\ n <= count <=> \E f \in held[c] : f.pos = n
    /\ since[c] <= count /\ joined[c] <= count

Counted(c, n) ==
    /\ Copies(c, n) <= 1
    /\ n > count => Copies(c, n) = 0
    /\ c \in parked /\ n > since[c] => Copies(c, n) = 0
    /\ c \in attached /\ n > since[c] /\ n <= count =>
          (Copies(c, n) = 1 <=> n \in Due(c))

Tally ==
    /\ \A c \in Client : Backlog(c)
    /\ \A c \in Client : Kept(c) => \A n \in Position : Counted(c, n)

\* The tasks that have frame n in hand for c.
Sends(c, n) == {t \in Task : sending[t].pos = n /\ c \in sending[t].left}
Hands(c, n) == {k \in Fetch : handing[k].to = c /\ n \in handing[k].left}

\* Everywhere a frame can be.
LEMMA AllCopies ==
    ASSUME TypeOK, NEW c \in Client, NEW n \in Position
    PROVE  /\ Copies(c, n) = wire[c][n] + Among(queue[c], n)
                               + Cardinality(Hands(c, n)) + Cardinality(Sends(c, n))
           /\ wire[c][n] \in Nat /\ Among(queue[c], n) \in Nat
           /\ Cardinality(Hands(c, n)) \in Nat /\ Cardinality(Sends(c, n)) \in Nat
           /\ IsFiniteSet(Hands(c, n)) /\ IsFiniteSet(Sends(c, n))
           /\ Copies(c, n) \in Nat
<1>1. queue[c] \in Seq(Number) /\ wire[c][n] \in Nat
  <2>1. wire \in [Client -> [Position -> Nat]]
    BY DEF TypeOK
  <2>2. wire[c][n] \in Nat
    BY <2>1
  <2> QED
    BY <2>2 DEF TypeOK, Number
<1>2. IsFiniteSet(Hands(c, n)) /\ IsFiniteSet(Sends(c, n))
  BY FanoutAssumption, FS_Subset DEF Hands, Sends
<1>3. Among(queue[c], n) \in Nat
  BY <1>1, AmongNat
<1>4. Cardinality(Hands(c, n)) \in Nat /\ Cardinality(Sends(c, n)) \in Nat
  BY <1>2, FS_CardinalityType
<1>5. Copies(c, n) = wire[c][n] + Among(queue[c], n)
                       + Cardinality(Hands(c, n)) + Cardinality(Sends(c, n))
  BY DEF Copies, Hands, Sends
<1> QED
  BY <1>1, <1>2, <1>3, <1>4, <1>5

\* A frame that changes places is neither lost nor doubled.
LEMMA Moves ==
    ASSUME Tally, UNCHANGED entryVars,
           \A c \in Client : Kept(c)' =>
               Kept(c) /\ \A n \in Position : Copies(c, n)' = Copies(c, n)
    PROVE  Tally'
<1>1. \A c \in Client : Backlog(c)'
  BY DEF Tally, Backlog, entryVars, lists, history
<1>2. \A c \in Client : Due(c)' = Due(c)
  BY DEF Due, entryVars, history
<1>3. \A c \in Client : Kept(c)' => \A n \in Position : Counted(c, n)'
  BY <1>2 DEF Tally, Counted, entryVars, lists, history
<1> QED
  BY <1>1, <1>3 DEF Tally

\* What a step at the sockets has to leave alone, and what it does not touch.
LEMMA SameCopies ==
    ASSUME NEW c, NEW n, UNCHANGED sendVars, wire'[c] = wire[c], queue'[c] = queue[c]
    PROVE  Copies(c, n)' = Copies(c, n)
BY DEF Copies, sendVars

\* At the start nothing is on its way.
LEMMA TallyInit == Init => TypeOK /\ Tally
<1> SUFFICES ASSUME Init PROVE TypeOK /\ Tally
  OBVIOUS
<1>0. MaxFrame \in Nat /\ MaxHeld \in Nat /\ Depth \in Nat
  BY FanoutAssumption
<1>1. <<>> \in Seq(0 .. MaxFrame) /\ Len(<<>>) = 0
  OBVIOUS
<1>2. IsFiniteSet({}) /\ Cardinality({}) = 0
  BY FS_EmptySet
<1>3. TypeOK
  <2>1. /\ held \in [Client -> SUBSET Frame] /\ queue \in [Client -> Seq(0 .. MaxFrame)]
        /\ \A c \in Client : held[c] = {} /\ queue[c] = <<>>
    BY <1>1 DEF Init
  <2>2. ASSUME NEW c \in Client
        PROVE  Cardinality(held[c]) <= MaxHeld /\ Len(queue[c]) <= Depth
    <3>1. Cardinality(held[c]) = 0 /\ Len(queue[c]) = 0
      BY <1>1, <1>2, <2>1, Zenon
    <3> QED
      BY <1>0, <3>1
  <2>3. /\ count \in 0 .. MaxFrame
        /\ since \in [Client -> 0 .. MaxFrame] /\ joined \in [Client -> 0 .. MaxFrame]
        /\ owed \in [Client -> SUBSET Position]
        /\ wire \in [Client -> [Position -> Nat]]
        /\ sending \in [Task -> [pos : 0 .. MaxFrame, left : SUBSET Client]]
        /\ handing \in [Fetch -> {Idle} \cup [to : Client, left : SUBSET (0 .. MaxFrame)]]
    BY <1>0 DEF Init, Resting, Idle
  <2>4. /\ attached \subseteq Client /\ parked \subseteq Client /\ kill \subseteq Client
        /\ attached \cap parked = {} /\ late \subseteq Client
        /\ life \in [Client -> {"open", "closing", "closed"}]
    BY FanoutAssumption DEF Init
  <2> QED
    BY <2>1, <2>2, <2>3, <2>4 DEF TypeOK
<1>4. ASSUME NEW c \in Client PROVE Backlog(c)
  BY <1>2 DEF Init, Backlog
<1>5. ASSUME NEW c \in Client, NEW n \in Position PROVE Counted(c, n)
  <2>1. queue[c] = <<>> /\ wire[c][n] = 0 /\ count = 0 /\ parked = {}
        /\ n \in Nat /\ n > 0
    BY <1>0 DEF Init, Position
  <2>2. Sends(c, n) = {} /\ Hands(c, n) = {}
    BY DEF Init, Sends, Hands, Resting, Idle
  <2>3. Among(queue[c], n) = 0
    BY <2>1, AmongNothing
  <2>4. Cardinality(Sends(c, n)) = 0 /\ Cardinality(Hands(c, n)) = 0
    BY <1>2, <2>2, Zenon
  <2>5. Copies(c, n) = 0
    BY <1>3, <2>1, <2>3, <2>4, AllCopies
  <2> QED
    BY <2>1, <2>5 DEF Counted
<1> QED
  BY <1>3, <1>4, <1>5 DEF Tally

\* A frame wins.
LEMMA WinTallies ==
    ASSUME TypeOK, Tally, NEW t \in Task, Win(t)
    PROVE  TypeOK' /\ Tally'
<1> DEFINE f == [pos |-> count + 1, by |-> t]
           over == {c \in parked : Cardinality(held[c]) = MaxHeld}
<1>1. /\ sending[t] = Resting /\ count < MaxFrame /\ count' = count + 1
      /\ parked' = parked \ over /\ kill' = kill \cup over
      /\ held' = [c \in Client |-> IF c \in parked \ over THEN held[c] \cup {f} ELSE {}]
      /\ sending' = [sending EXCEPT ![t] =
                        IF attached = {} THEN Resting
                        ELSE [pos |-> count + 1, left |-> attached]]
      /\ UNCHANGED <<attached, handing, queue, wire, socket, history>>
  BY DEF Win
<1>2. /\ count \in Nat /\ MaxFrame \in Nat /\ count + 1 \in Position
      /\ MaxHeld \in Nat \ {0}
  BY <1>1, FanoutAssumption DEF TypeOK, Position
<1>3. f \in Frame /\ f.pos = count + 1 /\ f.by = t
  BY <1>2 DEF Frame
<1>4. \A c \in Client :
         /\ held[c] \in SUBSET Frame /\ Cardinality(held[c]) <= MaxHeld
         /\ IsFiniteSet(held[c]) /\ Cardinality(held[c]) \in Nat
         /\ since[c] \in Nat /\ joined[c] \in Nat
         /\ since[c] <= count /\ joined[c] <= count
  BY FS_CardinalityType DEF TypeOK, Tally, Backlog
<1> HIDE DEF f
<1>5. ASSUME NEW c \in Client
      PROVE  /\ held'[c] \in SUBSET Frame /\ Cardinality(held'[c]) <= MaxHeld
             /\ Backlog(c)'
  <2>1. CASE c \in parked \ over
    <3>1. held'[c] = held[c] \cup {f} /\ c \in parked' /\ c \in parked
      BY <1>1, <2>1
    <3>2. IsFiniteSet(held'[c])
      BY <1>4, <3>1, FS_AddElement
    <3>3. \/ Cardinality(held'[c]) = Cardinality(held[c])
          \/ Cardinality(held'[c]) = Cardinality(held[c]) + 1
      BY <1>4, <3>1, FS_AddElement
    <3>4. Cardinality(held'[c]) <= MaxHeld
      <4>1. Cardinality(held[c]) # MaxHeld
        BY <2>1
      <4> QED
        BY <1>2, <1>4, <3>3, <4>1
    <3>5. \A n \in Nat : n > since[c] /\ n <= count <=> \E g \in held[c] : g.pos = n
      BY <3>1 DEF Tally, Backlog
    <3>6. ASSUME NEW n \in Nat
          PROVE  n > since[c] /\ n <= count + 1 <=> \E g \in held'[c] : g.pos = n
      <4>1. CASE n = count + 1
        BY <1>2, <1>3, <1>4, <3>1, <4>1
      <4>2. CASE n # count + 1
        <5>1. (\E g \in held'[c] : g.pos = n) <=> \E g \in held[c] : g.pos = n
          BY <1>3, <3>1, <4>2
        <5>2. n <= count + 1 <=> n <= count
          BY <1>2, <4>2
        <5> QED
          BY <3>5, <5>1, <5>2
      <4> QED
        BY <4>1, <4>2
    <3>7. since' = since /\ joined' = joined /\ since[c] <= count + 1 /\ joined[c] <= count + 1
      BY <1>1, <1>2, <1>4 DEF history
    <3>8. held'[c] \in SUBSET Frame
      BY <1>3, <1>4, <3>1
    <3>9. Backlog(c)'
      BY <1>1, <3>1, <3>2, <3>6, <3>7 DEF Backlog
    <3> QED
      BY <3>4, <3>8, <3>9
  <2>2. CASE c \notin parked \ over
    <3>1. held'[c] = {} /\ c \notin parked'
      BY <1>1, <2>2
    <3>2. IsFiniteSet({}) /\ Cardinality({}) = 0
      BY FS_EmptySet
    <3>3. Cardinality(held'[c]) <= MaxHeld /\ IsFiniteSet(held'[c])
      <4>1. Cardinality(held'[c]) = 0
        BY <3>1, <3>2, Zenon
      <4> QED
        BY <1>2, <3>1, <3>2, <4>1
    <3>4. since' = since /\ joined' = joined /\ since[c] <= count + 1 /\ joined[c] <= count + 1
      BY <1>1, <1>2, <1>4 DEF history
    <3> QED
      BY <1>1, <3>1, <3>3, <3>4 DEF Backlog
  <2> QED
    BY <2>1, <2>2
<1>6. sending' \in [Task -> [pos : 0 .. MaxFrame, left : SUBSET Client]]
  <2>1. Resting \in [pos : 0 .. MaxFrame, left : SUBSET Client]
    BY <1>2 DEF Resting
  <2>2. [pos |-> count + 1, left |-> attached] \in [pos : 0 .. MaxFrame, left : SUBSET Client]
    BY <1>2 DEF TypeOK, Position
  <2> QED
    BY <1>1, <2>1, <2>2 DEF TypeOK
<1>7. TypeOK'
  <2>1. held' \in [Client -> SUBSET Frame]
    BY <1>1, <1>5
  <2>2. count' \in 0 .. MaxFrame
    BY <1>1, <1>2 DEF Position
  <2>3. /\ attached' \subseteq Client /\ parked' \subseteq Client /\ kill' \subseteq Client
        /\ attached' \cap parked' = {}
    BY <1>1 DEF TypeOK
  <2> HIDE DEF over
  <2> QED
    BY <1>1, <1>5, <1>6, <2>1, <2>2, <2>3 DEF TypeOK, socket, history
<1>8. ASSUME NEW c \in Client, Kept(c)', NEW n \in Position
      PROVE  Counted(c, n)'
  <2>1. Kept(c) /\ n \in Nat
    BY <1>1, <1>8 DEF Kept, socket, Position
  <2>2. Counted(c, n)
    BY <2>1 DEF Tally
  <2>3. t \notin Sends(c, n)
    BY <1>1 DEF Sends, Resting
  <2>4. \A u \in Task \ {t} : sending'[u] = sending[u]
    BY <1>1 DEF TypeOK
  <2>5. sending'[t] = IF attached = {} THEN Resting
                      ELSE [pos |-> count + 1, left |-> attached]
    BY <1>1 DEF TypeOK
  <2>6. /\ Copies(c, n)' = wire[c][n] + Among(queue[c], n)
                             + Cardinality(Hands(c, n)) + Cardinality(Sends(c, n)')
        /\ Copies(c, n) = wire[c][n] + Among(queue[c], n)
                             + Cardinality(Hands(c, n)) + Cardinality(Sends(c, n))
        /\ wire[c][n] \in Nat /\ Among(queue[c], n) \in Nat
        /\ Cardinality(Hands(c, n)) \in Nat /\ Cardinality(Sends(c, n)) \in Nat
        /\ IsFiniteSet(Sends(c, n)) /\ Copies(c, n) \in Nat
    BY <1>1, AllCopies DEF Copies, Sends, Hands
  <2>7. /\ c \in parked' => c \in parked
        /\ since'[c] = since[c] /\ attached' = attached /\ count' = count + 1
        /\ joined[c] \in Nat /\ joined[c] <= count
    BY <1>1, <1>4 DEF history
  <2>8. CASE n = count + 1 /\ c \in attached
    <3>1. Sends(c, n)' = Sends(c, n) \cup {t}
      BY <2>4, <2>5, <2>8 DEF Sends
    <3>2. Cardinality(Sends(c, n)') = Cardinality(Sends(c, n)) + 1
      BY <2>3, <2>6, <3>1, FS_AddElement
    <3>3. Copies(c, n) = 0
      BY <1>2, <2>2, <2>8 DEF Counted
    <3>4. Copies(c, n)' = 1
      BY <2>6, <3>2, <3>3
    <3>5. c \notin parked' /\ n <= count'
      BY <1>2, <2>7, <2>8 DEF TypeOK
    <3>6. n \in 1 .. count' /\ n > joined'[c]
      BY <1>1, <1>2, <1>4, <2>7, <2>8 DEF history
    <3>7. n \in Due(c)'
      BY <3>6 DEF Due
    <3>8. ~ (n > count')
      BY <1>2, <2>7, <2>8
    <3> QED
      BY <3>4, <3>5, <3>7, <3>8 DEF Counted
  <2>9. CASE ~ (n = count + 1 /\ c \in attached)
    <3>1. Sends(c, n)' = Sends(c, n)
      <4>1. ~ (sending'[t].pos = n /\ c \in sending'[t].left)
        BY <2>5, <2>9 DEF Resting
      <4> QED
        BY <2>3, <2>4, <4>1 DEF Sends
    <3>2. Copies(c, n)' = Copies(c, n)
      BY <2>6, <3>1
    <3>3. n > count' => n > count
      BY <1>2, <2>1, <2>7
    <3>4. c \in attached /\ n <= count' => n <= count
      BY <1>2, <2>1, <2>7, <2>9
    <3>5. n <= count => (n \in Due(c)' <=> n \in Due(c))
      <4>1. n <= count => (n \in 1 .. count' <=> n \in 1 .. count)
        BY <1>2, <2>1, <2>7
      <4> QED
        BY <1>1, <4>1 DEF Due, history
    <3> QED
      BY <2>2, <2>7, <3>2, <3>3, <3>4, <3>5 DEF Counted
  <2> QED
    BY <2>8, <2>9
<1> QED
  BY <1>5, <1>7, <1>8 DEF Tally

\* A frame is queued for a client, or the client is told to hang up.
LEMMA Queued ==
    ASSUME TypeOK, NEW c \in Client, NEW m \in Number, SendOrHangUp(c, m)
    PROVE  /\ queue' \in [Client -> Seq(0 .. MaxFrame)] /\ kill' \subseteq Client
           /\ kill \subseteq kill'
           /\ \A d \in Client : Len(queue'[d]) <= Depth
           /\ \A d \in Client \ {c} : queue'[d] = queue[d]
           /\ \/ Room(c) /\ \A n : Among(queue'[c], n) = Among(queue[c], n) + One(m, n)
              \/ ~ Room(c) /\ c \in kill'
<1>1. \/ Room(c) /\ queue' = [queue EXCEPT ![c] = Append(queue[c], m)] /\ kill' = kill
      \/ ~ Room(c) /\ kill' = kill \cup {c} /\ queue' = queue
  BY DEF SendOrHangUp, Refuse
<1>2. queue[c] \in Seq(Number) /\ Len(queue[c]) \in Nat
  BY LenProperties DEF TypeOK, Number
<1>3. /\ Append(queue[c], m) \in Seq(Number) /\ Len(Append(queue[c], m)) = Len(queue[c]) + 1
      /\ Room(c) => Len(queue[c]) + 1 <= Depth
  BY <1>2, AppendProperties, FanoutAssumption DEF Room
<1>4. queue' \in [Client -> Seq(0 .. MaxFrame)] /\ kill' \subseteq Client
  <2>1. queue \in [Client -> Seq(Number)] /\ kill \subseteq Client
    BY DEF TypeOK, Number
  <2>2. queue' \in [Client -> Seq(Number)] /\ kill' \subseteq Client
    BY <1>1, <1>3, <2>1
  <2> QED
    BY <2>2 DEF Number
<1>5. \A d \in Client : Len(queue'[d]) <= Depth
  BY <1>1, <1>3 DEF TypeOK
<1>6. Room(c) => \A n : Among(queue'[c], n) = Among(queue[c], n) + One(m, n)
  <2> SUFFICES ASSUME Room(c), NEW n
               PROVE  Among(queue'[c], n) = Among(queue[c], n) + One(m, n)
    OBVIOUS
  <2>1. queue'[c] = Append(queue[c], m)
    BY <1>1 DEF TypeOK
  <2> QED
    BY <1>2, <2>1, AmongLast
<1>7. \A d \in Client \ {c} : queue'[d] = queue[d]
  BY <1>1 DEF TypeOK
<1> QED
  BY <1>1, <1>4, <1>5, <1>6, <1>7

\* It is sent to one client of the cloned list.
LEMMA SendTallies ==
    ASSUME TypeOK, Tally, NEW t \in Task, Send(t)
    PROVE  TypeOK' /\ Tally'
<1>1. PICK c \in sending[t].left :
         /\ SendOrHangUp(c, sending[t].pos)
         /\ sending' = [sending EXCEPT ![t] =
                           IF sending[t].left = {c} THEN Resting
                           ELSE [pos |-> sending[t].pos, left |-> sending[t].left \ {c}]]
         /\ UNCHANGED <<entryVars, handing, wire, socket>>
  BY DEF Send
<1> DEFINE p == sending[t].pos
<1>2. /\ sending[t] \in [pos : 0 .. MaxFrame, left : SUBSET Client]
      /\ c \in Client /\ p \in Number
  BY <1>1 DEF TypeOK, Number
<1>3. /\ \A d \in Client : d \in sending'[t].left <=> d \in sending[t].left /\ d # c
      /\ sending'[t].left # {} => sending'[t].pos = p
      /\ \A u \in Task \ {t} : sending'[u] = sending[u]
      /\ sending' \in [Task -> [pos : 0 .. MaxFrame, left : SUBSET Client]]
  <2> DEFINE r == IF sending[t].left = {c} THEN Resting
                  ELSE [pos |-> sending[t].pos, left |-> sending[t].left \ {c}]
  <2>1. /\ r \in [pos : 0 .. MaxFrame, left : SUBSET Client]
        /\ \A d \in Client : d \in r.left <=> d \in sending[t].left /\ d # c
        /\ r.left # {} => r.pos = p
    <3>1. CASE sending[t].left = {c}
      BY <1>2, <3>1, FanoutAssumption DEF Resting
    <3>2. CASE sending[t].left # {c}
      BY <1>2, <3>2
    <3> QED
      BY <3>1, <3>2
  <2>2. sending' = [sending EXCEPT ![t] = r]
    BY <1>1
  <2> HIDE DEF r
  <2>3. sending \in [Task -> [pos : 0 .. MaxFrame, left : SUBSET Client]]
    BY DEF TypeOK
  <2>4. sending'[t] = r /\ \A u \in Task \ {t} : sending'[u] = sending[u]
    BY <2>2, <2>3
  <2>5. sending' \in [Task -> [pos : 0 .. MaxFrame, left : SUBSET Client]]
    BY <2>1, <2>2, <2>3
  <2> QED
    BY <2>1, <2>4, <2>5
<1>4. /\ queue' \in [Client -> Seq(0 .. MaxFrame)] /\ kill' \subseteq Client
      /\ kill \subseteq kill'
      /\ \A d \in Client : Len(queue'[d]) <= Depth
      /\ \A d \in Client \ {c} : queue'[d] = queue[d]
      /\ \/ Room(c) /\ \A n : Among(queue'[c], n) = Among(queue[c], n) + One(p, n)
         \/ ~ Room(c) /\ c \in kill'
  BY <1>1, <1>2, Queued
<1>5. TypeOK'
  BY <1>1, <1>3, <1>4 DEF TypeOK, entryVars, lists, history, socket
<1>6. ASSUME NEW d \in Client, Kept(d)'
      PROVE  Kept(d) /\ \A n \in Position : Copies(d, n)' = Copies(d, n)
  <2>1. Kept(d)
    BY <1>1, <1>4, <1>6 DEF Kept, socket
  <2>2. CASE d # c
    <3>1. queue'[d] = queue[d] /\ handing' = handing /\ wire'[d] = wire[d]
      BY <1>1, <1>4, <2>2
    <3>2. \A n \in Position : Sends(d, n)' = Sends(d, n)
      BY <1>3, <2>2 DEF Sends
    <3> QED
      BY <2>1, <3>1, <3>2 DEF Copies, Sends
  <2>3. CASE d = c
    <3>1. \A n : Among(queue'[c], n) = Among(queue[c], n) + One(p, n)
      BY <1>4, <1>6, <2>3 DEF Kept
    <3>2. ASSUME NEW n \in Position PROVE Copies(c, n)' = Copies(c, n)
      <4>1. /\ Copies(c, n)' = wire[c][n] + Among(queue'[c], n)
                                 + Cardinality(Hands(c, n)) + Cardinality(Sends(c, n)')
            /\ Copies(c, n) = wire[c][n] + Among(queue[c], n)
                                 + Cardinality(Hands(c, n)) + Cardinality(Sends(c, n))
            /\ wire[c][n] \in Nat /\ Among(queue[c], n) \in Nat
            /\ Cardinality(Hands(c, n)) \in Nat /\ Cardinality(Sends(c, n)) \in Nat
            /\ IsFiniteSet(Sends(c, n))
        BY <1>1, <1>2, AllCopies DEF Copies, Sends, Hands
      <4>2. Among(queue'[c], n) = Among(queue[c], n) + One(p, n)
        BY <3>1
      <4>3. Sends(c, n)' = Sends(c, n) \ {t}
        BY <1>2, <1>3 DEF Sends
      <4>4. CASE p = n
        <5>1. t \in Sends(c, n) /\ One(p, n) = 1
          BY <1>1, <4>4 DEF Sends, One
        <5>2. Cardinality(Sends(c, n)') = Cardinality(Sends(c, n)) - 1
          BY <4>1, <4>3, <5>1, FS_RemoveElement
        <5> QED
          BY <4>1, <4>2, <5>1, <5>2
      <4>5. CASE p # n
        <5>1. Sends(c, n)' = Sends(c, n) /\ One(p, n) = 0
          BY <4>3, <4>5 DEF Sends, One
        <5> QED
          BY <4>1, <4>2, <5>1
      <4> QED
        BY <4>4, <4>5
    <3> QED
      BY <2>1, <2>3, <3>2
  <2> QED
    BY <2>2, <2>3
<1>7. Tally'
  BY <1>1, <1>6, Moves
<1> QED
  BY <1>5, <1>7

\* A fetch goes on with what it has to hand over.
LEMMA HandTallies ==
    ASSUME TypeOK, Tally, NEW k \in Fetch, Hand(k)
    PROVE  TypeOK' /\ Tally'
<1>0. PICK c \in Client : handing[k].to = c
  <2>1. handing[k].left # {}
    BY DEF Hand
  <2>2. handing[k] \in {Idle} \cup [to : Client, left : SUBSET (0 .. MaxFrame)]
    BY DEF TypeOK
  <2> QED
    BY <2>1, <2>2 DEF Idle
<1>1. PICK m \in handing[k].left :
         /\ SendOrHangUp(c, m)
         /\ handing' = [handing EXCEPT ![k] =
                           IF Room(c) /\ handing[k].left # {m}
                           THEN [to |-> c, left |-> handing[k].left \ {m}] ELSE Idle]
         /\ UNCHANGED <<entryVars, sending, wire, socket>>
  BY <1>0 DEF Hand
<1>2. /\ handing[k] \in [to : Client, left : SUBSET (0 .. MaxFrame)]
      /\ m \in Number
  BY <1>0, <1>1 DEF TypeOK, Number, Idle
<1>3. /\ handing' \in [Fetch -> {Idle} \cup [to : Client, left : SUBSET (0 .. MaxFrame)]]
      /\ \A j \in Fetch \ {k} : handing'[j] = handing[j]
      /\ handing'[k] = IF Room(c) /\ handing[k].left # {m}
                       THEN [to |-> c, left |-> handing[k].left \ {m}] ELSE Idle
  <2>1. [to |-> c, left |-> handing[k].left \ {m}]
           \in [to : Client, left : SUBSET (0 .. MaxFrame)]
    BY <1>2
  <2> QED
    BY <1>1, <2>1 DEF TypeOK
<1>4. TypeOK' /\ Tally'
  <2>1. /\ queue' \in [Client -> Seq(0 .. MaxFrame)] /\ kill' \subseteq Client
        /\ kill \subseteq kill'
        /\ \A d \in Client : Len(queue'[d]) <= Depth
        /\ \A d \in Client \ {c} : queue'[d] = queue[d]
        /\ \/ Room(c) /\ \A n : Among(queue'[c], n) = Among(queue[c], n) + One(m, n)
           \/ ~ Room(c) /\ c \in kill'
    BY <1>1, <1>2, Queued
  <2>2. TypeOK'
    BY <1>1, <1>3, <2>1 DEF TypeOK, entryVars, lists, history, socket
  <2>3. ASSUME NEW d \in Client, Kept(d)'
        PROVE  Kept(d) /\ \A n \in Position : Copies(d, n)' = Copies(d, n)
    <3>1. Kept(d)
      BY <1>1, <2>1, <2>3 DEF Kept, socket
    <3>2. CASE d # c
      <4>1. queue'[d] = queue[d] /\ sending' = sending /\ wire'[d] = wire[d]
        BY <1>1, <2>1, <3>2
      <4>2. handing[k].to # d /\ handing'[k].to # d
        BY <1>3, <3>2, <1>0, FanoutAssumption DEF Idle
      <4>3. \A n \in Position : Hands(d, n)' = Hands(d, n)
        BY <1>3, <4>2 DEF Hands
      <4> QED
        BY <3>1, <4>1, <4>3 DEF Copies, Hands
    <3>3. CASE d = c
      <4>1. Room(c) /\ \A n : Among(queue'[c], n) = Among(queue[c], n) + One(m, n)
        BY <2>1, <2>3, <3>3 DEF Kept
      <4>2. ASSUME NEW n \in Position PROVE Copies(c, n)' = Copies(c, n)
        <5>1. /\ Copies(c, n)' = wire[c][n] + Among(queue'[c], n)
                                   + Cardinality(Hands(c, n)') + Cardinality(Sends(c, n))
              /\ Copies(c, n) = wire[c][n] + Among(queue[c], n)
                                   + Cardinality(Hands(c, n)) + Cardinality(Sends(c, n))
              /\ wire[c][n] \in Nat /\ Among(queue[c], n) \in Nat
              /\ Cardinality(Hands(c, n)) \in Nat /\ Cardinality(Sends(c, n)) \in Nat
              /\ IsFiniteSet(Hands(c, n))
          BY <1>1, AllCopies DEF Copies, Sends, Hands
        <5>2. Among(queue'[c], n) = Among(queue[c], n) + One(m, n)
          BY <4>1
        <5>3. k \in Hands(c, n)' <=> n \in handing[k].left /\ n # m
          <6>1. CASE handing[k].left = {m}
            <7>1. handing'[k].left = {}
              BY <1>3, <6>1 DEF Idle
            <7> QED
              BY <6>1, <7>1 DEF Hands
          <6>2. CASE handing[k].left # {m}
            <7>1. handing'[k] = [to |-> c, left |-> handing[k].left \ {m}]
              BY <1>3, <4>1, <6>2
            <7> QED
              BY <7>1 DEF Hands
          <6> QED
            BY <6>1, <6>2
        <5>4. k \in Hands(c, n) <=> n \in handing[k].left
          BY <1>0 DEF Hands
        <5>5. \A j \in Fetch \ {k} : j \in Hands(c, n)' <=> j \in Hands(c, n)
          BY <1>3 DEF Hands
        <5>6. CASE m = n
          <6>1. k \in Hands(c, n) /\ One(m, n) = 1
            BY <1>1, <5>4, <5>6 DEF One
          <6>2. Hands(c, n)' = Hands(c, n) \ {k}
            BY <5>3, <5>5, <5>6 DEF Hands
          <6>3. Cardinality(Hands(c, n)') = Cardinality(Hands(c, n)) - 1
            BY <5>1, <6>1, <6>2, FS_RemoveElement
          <6> QED
            BY <5>1, <5>2, <6>1, <6>3
        <5>7. CASE m # n
          <6>1. Hands(c, n)' = Hands(c, n) /\ One(m, n) = 0
            BY <5>3, <5>4, <5>5, <5>7 DEF Hands, One
          <6> QED
            BY <5>1, <5>2, <6>1
        <5> QED
          BY <5>6, <5>7
      <4> QED
        BY <3>1, <3>3, <4>2
    <3> QED
      BY <3>2, <3>3
  <2>4. Tally'
    BY <1>1, <2>3, Moves
  <2> QED
    BY <2>2, <2>4
<1> QED
  BY <1>4

\* A reply, or a frame of another key, is queued for a client.
LEMMA AsideTallies ==
    ASSUME TypeOK, Tally, NEW c \in Client, SendAside(c)
    PROVE  TypeOK' /\ Tally'
<1>1. /\ Room(c) /\ SendOrHangUp(c, 0) /\ 0 \in Number
      /\ UNCHANGED <<entryVars, sendVars, wire, kill, socket>>
  BY FanoutAssumption DEF SendAside, SendOrHangUp, Number
<1>2. /\ queue' \in [Client -> Seq(0 .. MaxFrame)]
      /\ \A d \in Client : Len(queue'[d]) <= Depth
      /\ \A d \in Client \ {c} : queue'[d] = queue[d]
      /\ \A n : Among(queue'[c], n) = Among(queue[c], n) + One(0, n)
  BY <1>1, Queued
<1>3. TypeOK'
  BY <1>1, <1>2 DEF TypeOK, entryVars, lists, history, sendVars, socket
<1>4. ASSUME NEW d \in Client, NEW n \in Position
      PROVE  Copies(d, n)' = Copies(d, n)
  <2>1. CASE d = c
    <3>1. One(0, n) = 0 /\ Among(queue[c], n) \in Nat
      BY AllCopies, FanoutAssumption DEF One, Position
    <3>2. Among(queue'[c], n) = Among(queue[c], n)
      BY <1>2, <3>1
    <3> QED
      BY <1>1, <2>1, <3>2 DEF Copies, sendVars
  <2>2. CASE d # c
    BY <1>1, <1>2, <2>2, SameCopies
  <2> QED
    BY <2>1, <2>2
<1>5. \A d \in Client : Kept(d)' => Kept(d)
  BY <1>1 DEF Kept, socket
<1>6. Tally'
  BY <1>1, <1>4, <1>5, Moves
<1> QED
  BY <1>3, <1>6

\* A frame reaches the socket.
LEMMA WriteTallies ==
    ASSUME TypeOK, Tally, NEW c \in Client, Write(c)
    PROVE  TypeOK' /\ Tally'
<1> DEFINE m == Head(queue[c])
<1>1. /\ queue[c] # <<>>
      /\ wire' = (IF m = 0 THEN wire ELSE [wire EXCEPT ![c][m] = @ + 1])
      /\ queue' = [queue EXCEPT ![c] = Tail(queue[c])]
      /\ UNCHANGED <<entryVars, sendVars, kill, socket>>
  BY DEF Write
<1>2. /\ queue[c] \in Seq(Number) /\ Len(queue[c]) \in Nat /\ m \in Number
      /\ Tail(queue[c]) \in Seq(Number) /\ Len(Tail(queue[c])) = Len(queue[c]) - 1
      /\ Len(queue[c]) <= Depth
  <2>1. queue[c] \in Seq(Number) /\ Len(queue[c]) <= Depth
    BY DEF TypeOK, Number
  <2> QED
    BY <1>1, <2>1, HeadTailProperties, LenProperties
<1>3. m \in 0 .. MaxFrame /\ MaxFrame \in Nat /\ Depth \in Nat
  BY <1>2, FanoutAssumption DEF Number
<1> HIDE DEF m
<1>4. wire \in [Client -> [Position -> Nat]]
  BY DEF TypeOK
<1>5. /\ wire' \in [Client -> [Position -> Nat]]
      /\ \A d \in Client \ {c} : wire'[d] = wire[d]
      /\ \A n \in Position : wire'[c][n] = wire[c][n] + One(m, n)
  <2>1. CASE m # 0
    <3> DEFINE w == wire[c]
               row == [w EXCEPT ![m] = w[m] + 1]
    <3>1. wire' = [wire EXCEPT ![c] = row]
      BY <1>1, <1>4, <2>1
    <3>2. w \in [Position -> Nat] /\ m \in Position
      BY <1>3, <1>4, <2>1 DEF Position
    <3> HIDE DEF w
    <3>3. \A n \in Position : row[n] = IF n = m THEN w[n] + 1 ELSE w[n]
      BY <3>2
    <3>4. row \in [Position -> Nat]
      <4>1. \A n \in Position : row[n] \in Nat
        BY <3>2, <3>3
      <4>2. row = [n \in Position |-> row[n]]
        BY <3>2
      <4> HIDE DEF row
      <4> QED
        BY <4>1, <4>2
    <3> HIDE DEF row
    <3>5. ASSUME NEW n \in Position PROVE row[n] = wire[c][n] + One(m, n)
      <4>1. One(m, n) = (IF n = m THEN 1 ELSE 0) /\ w[n] \in Nat
        BY <3>2 DEF One
      <4>2. row[n] = w[n] + One(m, n)
        BY <3>3, <4>1
      <4> QED
        BY <4>2 DEF w
    <3> QED
      BY <1>4, <3>1, <3>4, <3>5
  <2>2. CASE m = 0
    <3>1. wire' = wire /\ \A n \in Position : One(m, n) = 0 /\ wire[c][n] \in Nat
      BY <1>1, <1>3, <1>4, <2>2 DEF One, Position
    <3> QED
      BY <1>4, <3>1
  <2> QED
    BY <2>1, <2>2
<1>6. TypeOK'
  <2>1. queue \in [Client -> Seq(Number)] /\ \A d \in Client : Len(queue[d]) <= Depth
    BY DEF TypeOK, Number
  <2>2. queue' \in [Client -> Seq(Number)]
    BY <1>1, <1>2, <2>1
  <2>3. \A d \in Client : Len(queue'[d]) <= Depth
    BY <1>1, <1>2, <1>3, <2>1
  <2>4. queue' \in [Client -> Seq(0 .. MaxFrame)]
    BY <2>2 DEF Number
  <2> QED
    BY <1>1, <1>5, <2>3, <2>4 DEF TypeOK, entryVars, lists, history, sendVars, socket
<1>7. ASSUME NEW d \in Client, NEW n \in Position
      PROVE  Copies(d, n)' = Copies(d, n)
  <2>1. CASE d # c
    <3>1. queue'[d] = queue[d] /\ wire'[d] = wire[d]
      BY <1>1, <1>5, <2>1 DEF TypeOK
    <3> QED
      BY <1>1, <3>1, SameCopies
  <2>2. CASE d = c
    <3>1. queue'[c] = Tail(queue[c])
      BY <1>1 DEF TypeOK
    <3>2. Among(queue[c], n) = One(m, n) + Among(queue'[c], n)
      BY <1>1, <1>2, <3>1, AmongFirst DEF m
    <3>3. wire'[c][n] = wire[c][n] + One(m, n)
      BY <1>5
    <3>4. /\ One(m, n) \in Nat /\ Among(queue'[c], n) \in Nat /\ wire[c][n] \in Nat
          /\ Cardinality(Hands(c, n)) \in Nat /\ Cardinality(Sends(c, n)) \in Nat
      BY <1>2, <3>1, AmongNat, AllCopies DEF One
    <3>5. /\ Copies(c, n)' = wire'[c][n] + Among(queue'[c], n)
                               + Cardinality(Hands(c, n)) + Cardinality(Sends(c, n))
          /\ Copies(c, n) = wire[c][n] + Among(queue[c], n)
                               + Cardinality(Hands(c, n)) + Cardinality(Sends(c, n))
      BY <1>1 DEF Copies, Sends, Hands, sendVars
    <3> QED
      BY <2>2, <3>2, <3>3, <3>4, <3>5
  <2> QED
    BY <2>1, <2>2
<1>8. \A d \in Client : Kept(d)' => Kept(d)
  BY <1>1 DEF Kept, socket
<1>9. Tally'
  BY <1>1, <1>7, <1>8, Moves
<1> QED
  BY <1>6, <1>9

\* A client is told to hang up, or goes.
LEMMA ClosingTallies ==
    ASSUME TypeOK, Tally, NEW c \in Client, HangUp(c) \/ GoAway(c)
    PROVE  TypeOK' /\ Tally'
<1>1. /\ life' = [life EXCEPT ![c] = "closing"] /\ kill' \subseteq kill
      /\ kill \ {c} \subseteq kill' /\ late' \subseteq late \cup {c}
      /\ UNCHANGED <<entryVars, sendVars, queue, wire>>
  BY DEF HangUp, GoAway, Close
<1>2. TypeOK'
  BY <1>1 DEF TypeOK, entryVars, lists, history, sendVars
<1>3. \A d \in Client : Kept(d)' => Kept(d)
  BY <1>1 DEF Kept, TypeOK
<1>4. \A d \in Client, n \in Position : Copies(d, n)' = Copies(d, n)
  BY <1>1 DEF Copies, sendVars
<1>5. Tally'
  BY <1>1, <1>3, <1>4, Moves
<1> QED
  BY <1>2, <1>5

\* Clients are parked: nothing of what is to come is on its way to them.
LEMMA ParkTallies ==
    ASSUME TypeOK, Tally, Resync \/ \E c \in Client : Join(c)
    PROVE  TypeOK' /\ Tally'
<1>1. PICK cs \in SUBSET Client :
         /\ Park(cs) /\ cs \cap parked = {} /\ attached' = attached \ cs
         /\ UNCHANGED <<count, held, sendVars, queue, wire, kill, socket>>
  <2>1. CASE Resync
    <3>1. /\ Park(attached) /\ attached \cap parked = {} /\ attached' = attached \ attached
          /\ UNCHANGED <<count, held, sendVars, queue, wire, kill, socket>>
          /\ attached \in SUBSET Client
      BY <2>1 DEF Resync, TypeOK
    <3> QED
      BY <3>1
  <2>2. ASSUME NEW c \in Client, Join(c)
        PROVE  /\ Park({c}) /\ {c} \cap parked = {} /\ attached' = attached \ {c}
               /\ UNCHANGED <<count, held, sendVars, queue, wire, kill, socket>>
               /\ {c} \in SUBSET Client
    BY <2>2 DEF Join
  <2> QED
    BY <2>1, <2>2
<1>2. count \in 0 .. MaxFrame /\ 0 \in 0 .. MaxFrame /\ count \in Nat
  BY FanoutAssumption DEF TypeOK
<1>3. TypeOK'
  <2>1. /\ parked' = parked \cup cs
        /\ since' \in [Client -> 0 .. MaxFrame] /\ joined' \in [Client -> 0 .. MaxFrame]
        /\ owed' \in [Client -> SUBSET Position]
    BY <1>1, <1>2 DEF Park, TypeOK
  <2>2. parked' \subseteq Client /\ attached' \subseteq Client /\ attached' \cap parked' = {}
    BY <1>1, <2>1 DEF TypeOK
  <2> QED
    BY <1>1, <2>1, <2>2 DEF TypeOK, sendVars, socket
<1>4. ASSUME NEW c \in Client PROVE Backlog(c)'
  <2>1. Backlog(c) /\ joined[c] \in Nat
    BY DEF Tally, TypeOK
  <2>2. CASE c \in cs
    <3>1. /\ held'[c] = {} /\ since'[c] = count /\ joined'[c] = 0 /\ count' = count
          /\ IsFiniteSet(held'[c])
      BY <1>1, <2>1, <2>2 DEF Backlog, Park
    <3> QED
      BY <1>2, <3>1 DEF Backlog
  <2>3. CASE c \notin cs
    BY <1>1, <2>1, <2>3 DEF Backlog, Park
  <2> QED
    BY <2>2, <2>3
<1>5. ASSUME NEW c \in Client, Kept(c)', NEW n \in Position PROVE Counted(c, n)'
  <2>1. Counted(c, n) /\ n \in Nat
    BY <1>1, <1>5 DEF Kept, Tally, socket, Position
  <2>2. Copies(c, n)' = Copies(c, n) /\ count' = count
    BY <1>1, SameCopies
  <2>3. CASE c \in cs
    <3>1. since'[c] = count /\ c \notin attached'
      BY <1>1, <2>3 DEF Park
    <3> QED
      BY <2>1, <2>2, <3>1 DEF Counted
  <2>4. CASE c \notin cs
    <3>1. /\ since'[c] = since[c]
          /\ c \in attached' <=> c \in attached
          /\ c \in parked' <=> c \in parked
          /\ Due(c)' = Due(c)
      BY <1>1, <2>4 DEF Park, Due
    <3> QED
      BY <2>1, <2>2, <3>1 DEF Counted
  <2> QED
    BY <2>3, <2>4
<1> QED
  BY <1>3, <1>4, <1>5 DEF Tally

\* A snapshot is delivered: its client is attached, with what follows.
LEMMA DeliverTallies ==
    ASSUME TypeOK, Tally, NEW k \in Fetch, Deliver(k)
    PROVE  TypeOK' /\ Tally'
<1>0. PICK c \in Client, b \in 0 .. MaxFrame, s \in Task : Attach(k, c, b, s)
  BY DEF Deliver
<1>1. /\ handing[k] = Idle /\ c \in parked
      /\ parked' = parked \ {c} /\ attached' = attached \cup {c}
      /\ held' = [held EXCEPT ![c] = {}]
      /\ handing' = [handing EXCEPT ![k] =
            [to |-> c,
             left |-> {0} \cup {f.pos : f \in {g \in held[c] : Follows(g, b, s)}}]]
      /\ joined' = [joined EXCEPT ![c] = count]
      /\ owed' = [owed EXCEPT ![c] =
            {n \in since[c] + 1 .. count :
                n > b /\ (Single => [pos |-> n, by |-> s] \in held[c])}]
      /\ UNCHANGED <<count, since, sending, queue, wire, kill, socket>>
  BY <1>0 DEF Attach
<1> DEFINE left == {0} \cup {f.pos : f \in {g \in held[c] : Follows(g, b, s)}}
           due == {n \in since[c] + 1 .. count :
                      n > b /\ (Single => [pos |-> n, by |-> s] \in held[c])}
<1>2. /\ c \in Client /\ c \notin attached /\ held[c] \in SUBSET Frame
      /\ count \in 0 .. MaxFrame /\ count \in Nat /\ MaxFrame \in Nat
      /\ since[c] \in 0 .. MaxFrame /\ since[c] \in Nat /\ b \in Nat
  BY <1>1, FanoutAssumption DEF TypeOK
<1>3. left \in SUBSET (0 .. MaxFrame) /\ due \in SUBSET Position
  <2>1. left \in SUBSET (0 .. MaxFrame)
    BY <1>2 DEF Frame, Position
  <2>2. \A n \in since[c] + 1 .. count : n \in Position
    BY <1>2 DEF Position
  <2> QED
    BY <2>1, <2>2
\* What is left of the backlog is what the client is owed.
<1>4. ASSUME NEW n \in Position PROVE n \in left <=> n \in due
  <2>1. n \in Nat /\ n # 0 /\ n >= 1
    BY <1>2 DEF Position
  <2>2. n > since[c] /\ n <= count <=> \E f \in held[c] : f.pos = n
    BY <1>1, <1>2, <2>1 DEF Tally, Backlog
  <2>3. n \in left <=> \E f \in held[c] : f.pos = n /\ f.pos > b /\ (Single => f.by = s)
    BY <2>1 DEF Follows
  <2>4. n \in due <=> /\ n > since[c] /\ n <= count /\ n > b
                      /\ Single => [pos |-> n, by |-> s] \in held[c]
    BY <1>2, <2>1
  <2>5. (\E f \in held[c] : f.pos = n /\ f.by = s) <=> [pos |-> n, by |-> s] \in held[c]
    <3>1. \A f \in held[c] : f.pos = n /\ f.by = s => f = [pos |-> n, by |-> s]
      BY <1>2 DEF Frame
    <3> QED
      BY <3>1
  <2>6. CASE Single
    <3>1. n \in left <=> n > b /\ \E f \in held[c] : f.pos = n /\ f.by = s
      BY <2>3, <2>6
    <3>2. [pos |-> n, by |-> s] \in held[c] => n > since[c] /\ n <= count
      BY <2>2
    <3> QED
      BY <2>4, <2>5, <2>6, <3>1, <3>2
  <2>7. CASE ~ Single
    <3>1. n \in left <=> n > b /\ \E f \in held[c] : f.pos = n
      BY <2>3, <2>7
    <3> QED
      BY <2>2, <2>4, <2>7, <3>1
  <2> QED
    BY <2>6, <2>7
<1>5. /\ handing' = [handing EXCEPT ![k] = [to |-> c, left |-> left]]
      /\ owed' = [owed EXCEPT ![c] = due]
  BY <1>1
<1> HIDE DEF left, due
<1>6. TypeOK'
  <2>1. /\ handing' \in [Fetch -> {Idle} \cup [to : Client, left : SUBSET (0 .. MaxFrame)]]
        /\ owed' \in [Client -> SUBSET Position]
    <3>1. /\ handing \in [Fetch -> {Idle} \cup [to : Client, left : SUBSET (0 .. MaxFrame)]]
          /\ owed \in [Client -> SUBSET Position]
      BY DEF TypeOK
    <3> QED
      BY <1>2, <1>3, <1>5, <3>1
  <2>2. joined' \in [Client -> 0 .. MaxFrame] /\ held' \in [Client -> SUBSET Frame]
    BY <1>1, <1>2 DEF TypeOK
  <2>3. ASSUME NEW d \in Client PROVE Cardinality(held'[d]) <= MaxHeld
    <3>1. Cardinality({}) = 0 /\ MaxHeld \in Nat
      BY FS_EmptySet, FanoutAssumption
    <3>2. held \in [Client -> SUBSET Frame] /\ Cardinality(held[d]) <= MaxHeld
      BY DEF TypeOK
    <3>3. CASE d = c
      <4>1. held'[d] = {}
        BY <1>1, <3>2, <3>3
      <4>2. Cardinality(held'[d]) = 0
        BY <3>1, <4>1, Zenon
      <4> QED
        BY <3>1, <4>2
    <3>4. CASE d # c
      BY <1>1, <3>2, <3>4
    <3> QED
      BY <3>3, <3>4
  <2>4. attached' \subseteq Client /\ parked' \subseteq Client /\ attached' \cap parked' = {}
    BY <1>1, <1>2 DEF TypeOK
  <2> QED
    BY <1>1, <2>1, <2>2, <2>3, <2>4 DEF TypeOK, socket
<1>7. ASSUME NEW d \in Client PROVE Backlog(d)'
  <2>1. Backlog(d) /\ joined \in [Client -> 0 .. MaxFrame] /\ held \in [Client -> SUBSET Frame]
    BY DEF Tally, TypeOK
  <2>2. CASE d = c
    <3>1. held'[d] = {} /\ joined'[d] = count /\ d \notin parked'
      BY <1>1, <1>2, <2>1, <2>2
    <3>2. IsFiniteSet({})
      BY FS_EmptySet
    <3> QED
      BY <1>1, <1>2, <2>1, <3>1, <3>2 DEF Backlog
  <2>3. CASE d # c
    BY <1>1, <2>1, <2>3 DEF Backlog
  <2> QED
    BY <2>2, <2>3
<1>8. ASSUME NEW d \in Client, Kept(d)', NEW n \in Position PROVE Counted(d, n)'
  <2>1. Kept(d) /\ Counted(d, n) /\ n \in Nat
    BY <1>1, <1>8 DEF Kept, Tally, socket, Position
  <2>2. /\ handing \in [Fetch -> {Idle} \cup [to : Client, left : SUBSET (0 .. MaxFrame)]]
        /\ owed \in [Client -> SUBSET Position] /\ joined \in [Client -> 0 .. MaxFrame]
    BY DEF TypeOK
  <2>3. /\ handing'[k].to = c /\ handing'[k].left = left
        /\ \A j \in Fetch \ {k} : handing'[j] = handing[j]
        /\ handing[k].left = {}
    BY <1>1, <1>5, <2>2 DEF Idle
  <2>4. CASE d # c
    <3>1. Hands(d, n)' = Hands(d, n)
      BY <2>3, <2>4 DEF Hands
    <3>2. Copies(d, n)' = Copies(d, n)
      BY <1>1, <3>1 DEF Copies, Hands
    <3>3. /\ d \in parked' <=> d \in parked
          /\ d \in attached' <=> d \in attached
          /\ since'[d] = since[d] /\ count' = count /\ owed'[d] = owed[d]
          /\ joined'[d] = joined[d]
      BY <1>1, <1>5, <2>2, <2>4
    <3>4. Due(d)' = Due(d)
      BY <3>3 DEF Due
    <3> QED
      BY <2>1, <3>2, <3>3, <3>4 DEF Counted
  <2>5. CASE d = c
    <3>1. /\ Copies(c, n)' = wire[c][n] + Among(queue[c], n)
                               + Cardinality(Hands(c, n)') + Cardinality(Sends(c, n))
          /\ Copies(c, n) = wire[c][n] + Among(queue[c], n)
                               + Cardinality(Hands(c, n)) + Cardinality(Sends(c, n))
          /\ wire[c][n] \in Nat /\ Among(queue[c], n) \in Nat
          /\ Cardinality(Hands(c, n)) \in Nat /\ Cardinality(Sends(c, n)) \in Nat
          /\ IsFiniteSet(Hands(c, n)) /\ Copies(c, n) \in Nat
      BY <1>1, <1>2, AllCopies DEF Copies, Sends, Hands
    <3>2. /\ c \notin parked' /\ since'[c] = since[c] /\ count' = count
          /\ owed'[c] = due /\ joined'[c] = count
      BY <1>1, <1>2, <1>5, <2>2
    <3>3. n <= count => (n \in Due(c)' <=> n \in due)
      <4>1. Due(c)' = due \cup {x \in 1 .. count : x > count}
        BY <3>2 DEF Due
      <4>2. {x \in 1 .. count : x > count} = {}
        BY <1>2
      <4> QED
        BY <4>1, <4>2
    <3>4. due \subseteq since[c] + 1 .. count
      BY DEF due
    <3>5. CASE n \in due
      <4>1. n > since[c] /\ n <= count
        BY <1>2, <2>1, <3>4, <3>5
      <4>2. Copies(c, n) = 0
        BY <1>1, <2>1, <2>5, <4>1 DEF Counted
      <4>3. Hands(c, n)' = Hands(c, n) \cup {k} /\ k \notin Hands(c, n)
        BY <1>4, <2>3, <3>5 DEF Hands
      <4>4. Cardinality(Hands(c, n)') = Cardinality(Hands(c, n)) + 1
        BY <3>1, <4>3, FS_AddElement
      <4>5. Copies(c, n)' = 1
        BY <3>1, <4>2, <4>4
      <4>6. ~ (n > count)
        BY <1>2, <2>1, <4>1
      <4> QED
        BY <2>5, <3>2, <3>3, <3>5, <4>1, <4>5, <4>6 DEF Counted
    <3>6. CASE n \notin due
      <4>1. Hands(c, n)' = Hands(c, n)
        BY <1>4, <2>3, <3>6 DEF Hands
      <4>2. Copies(c, n)' = Copies(c, n)
        BY <3>1, <4>1
      <4>3. n > since[c] => Copies(c, n) = 0
        BY <1>1, <2>1, <2>5 DEF Counted
      <4>4. n > since[c] /\ n <= count => Copies(c, n)' # 1 /\ n \notin Due(c)'
        BY <3>3, <3>6, <4>2, <4>3
      <4> QED
        BY <2>1, <2>5, <3>2, <4>2, <4>4 DEF Counted
    <3> QED
      BY <3>5, <3>6
  <2> QED
    BY <2>4, <2>5
<1> QED
  BY <1>6, <1>7, <1>8 DEF Tally

\* A client leaves the key, or is cleaned up after: nothing of the stream
\* moves, and nothing is promised to it any more.
LEMMA LeaveTallies ==
    ASSUME TypeOK, Tally, NEW c \in Client, Leave(c) \/ CleanUp(c)
    PROVE  TypeOK' /\ Tally'
<1>1. /\ Detach(c) /\ Forget(c) /\ UNCHANGED <<count, sendVars, kill, late>>
      /\ \/ UNCHANGED <<queue, wire, life>>
         \/ /\ life' = [life EXCEPT ![c] = "closed"]
            /\ queue' = [queue EXCEPT ![c] = <<>>]
            /\ wire' = [wire EXCEPT ![c] = [n \in Position |-> 0]]
  BY DEF Leave, CleanUp, socket
<1>2. /\ count \in Nat /\ MaxHeld \in Nat /\ Depth \in Nat /\ 0 \in 0 .. MaxFrame
      /\ IsFiniteSet({}) /\ Cardinality({}) = 0
      /\ <<>> \in Seq(0 .. MaxFrame) /\ Len(<<>>) = 0
  BY FS_EmptySet, EmptySeq, FanoutAssumption DEF TypeOK
<1>3. /\ attached' = attached \ {c} /\ parked' = parked \ {c}
      /\ held' \in [Client -> SUBSET Frame] /\ held'[c] = {}
      /\ \A d \in Client \ {c} : held'[d] = held[d]
      /\ since' \in [Client -> 0 .. MaxFrame] /\ joined' \in [Client -> 0 .. MaxFrame]
      /\ owed' \in [Client -> SUBSET Position]
      /\ since'[c] = 0 /\ joined'[c] = 0
      /\ \A d \in Client \ {c} : /\ since'[d] = since[d] /\ joined'[d] = joined[d]
                                 /\ owed'[d] = owed[d]
  <2>1. /\ held \in [Client -> SUBSET Frame] /\ owed \in [Client -> SUBSET Position]
        /\ since \in [Client -> 0 .. MaxFrame] /\ joined \in [Client -> 0 .. MaxFrame]
    BY DEF TypeOK
  <2> QED
    BY <1>1, <1>2, <2>1 DEF Detach, Forget
<1>4. TypeOK'
  <2>1. \A d \in Client : Cardinality(held'[d]) <= MaxHeld
    <3>1. Cardinality(held'[c]) = 0
      BY <1>2, <1>3, Zenon
    <3>2. \A d \in Client : Cardinality(held[d]) <= MaxHeld
      BY DEF TypeOK
    <3> QED
      BY <1>2, <1>3, <3>1, <3>2
  <2>2. /\ queue' \in [Client -> Seq(0 .. MaxFrame)]
        /\ \A d \in Client : Len(queue'[d]) <= Depth
        /\ wire' \in [Client -> [Position -> Nat]]
        /\ life' \in [Client -> {"open", "closing", "closed"}]
    <3>1. /\ queue \in [Client -> Seq(0 .. MaxFrame)]
          /\ \A d \in Client : Len(queue[d]) <= Depth
          /\ wire \in [Client -> [Position -> Nat]]
          /\ life \in [Client -> {"open", "closing", "closed"}]
      BY DEF TypeOK
    <3>2. [n \in Position |-> 0] \in [Position -> Nat]
      OBVIOUS
    <3>3. CASE UNCHANGED <<queue, wire, life>>
      BY <3>1, <3>3
    <3>4. CASE /\ life' = [life EXCEPT ![c] = "closed"]
               /\ queue' = [queue EXCEPT ![c] = <<>>]
               /\ wire' = [wire EXCEPT ![c] = [n \in Position |-> 0]]
      <4>1. /\ queue' \in [Client -> Seq(0 .. MaxFrame)]
            /\ \A d \in Client : Len(queue'[d]) <= Depth
        BY <1>2, <3>1, <3>4
      <4>2. wire' \in [Client -> [Position -> Nat]]
        BY <3>1, <3>2, <3>4
      <4> QED
        BY <3>1, <3>4, <4>1, <4>2
    <3> QED
      BY <1>1, <3>3, <3>4
  <2>3. attached' \subseteq Client /\ parked' \subseteq Client /\ attached' \cap parked' = {}
    BY <1>3 DEF TypeOK
  <2> QED
    BY <1>1, <1>3, <2>1, <2>2, <2>3 DEF TypeOK, sendVars
<1>5. ASSUME NEW d \in Client PROVE Backlog(d)'
  <2>1. Backlog(d)
    BY DEF Tally
  <2>2. CASE d = c
    <3>1. since'[d] <= count' /\ joined'[d] <= count'
      BY <1>1, <1>2, <1>3, <2>2
    <3> QED
      BY <1>2, <1>3, <2>2, <3>1 DEF Backlog
  <2>3. CASE d # c
    BY <1>1, <1>3, <2>1, <2>3 DEF Backlog
  <2> QED
    BY <2>2, <2>3
<1>6. ASSUME NEW d \in Client, Kept(d)', NEW n \in Position PROVE Counted(d, n)'
  <2>1. Kept(d) /\ queue'[d] = queue[d] /\ wire'[d] = wire[d]
    BY <1>1, <1>6 DEF Kept, TypeOK
  <2>2. Counted(d, n) /\ Copies(d, n)' = Copies(d, n) /\ count' = count
    BY <1>1, <2>1, SameCopies DEF Tally
  <2>3. CASE d = c
    BY <1>3, <2>2, <2>3 DEF Counted
  <2>4. CASE d # c
    <3>1. /\ d \in attached' <=> d \in attached
          /\ d \in parked' <=> d \in parked
          /\ since'[d] = since[d] /\ Due(d)' = Due(d)
      BY <1>3, <2>2, <2>4 DEF Due
    <3> QED
      BY <2>2, <3>1 DEF Counted
  <2> QED
    BY <2>3, <2>4
<1> QED
  BY <1>4, <1>5, <1>6 DEF Tally

\* So it stays.
LEMMA TallyKept ==
    ASSUME TypeOK, Tally, [Next]_vars
    PROVE  TypeOK' /\ Tally'
<1>1. CASE UNCHANGED vars
  <2>1. TypeOK'
    BY <1>1 DEF vars, TypeOK
  <2>2. /\ UNCHANGED entryVars
        /\ \A d \in Client : Kept(d)' => Kept(d)
        /\ \A d \in Client, n \in Position : Copies(d, n)' = Copies(d, n)
    BY <1>1 DEF vars, entryVars, lists, history, Kept, Copies
  <2> QED
    BY <2>1, <2>2, Moves
<1> QED
  BY <1>1, WinTallies, SendTallies, HandTallies, AsideTallies, WriteTallies,
     DeliverTallies, ClosingTallies, ParkTallies, LeaveTallies DEF Next

LEMMA TallyInv == Spec => [](TypeOK /\ Tally)
<1>1. TypeOK /\ Tally /\ [Next]_vars => TypeOK' /\ Tally'
  BY TallyKept
<1> QED
  BY <1>1, TallyInit, PTL DEF Spec

----------------------------------------------------------------------------
(* Queues and backlogs stay within their bounds, nobody is attached and     *)
(* parked at once, and nothing is sent but frames that were forwarded.      *)
THEOREM Typing == Spec => []TypeOK
BY TallyInv, PTL

(* A client gets every frame that follows its snapshot once, none that is   *)
(* baked into it, and nothing twice, however the sends of the source tasks  *)
(* and the fetches interleave, however far the snapshot is behind or ahead, *)
(* with queues and caps of any size, over any number of resyncs and         *)
(* subscriptions.                                                           *)
THEOREM SentOnce == Spec => []EachFrameOnce
<1>1. TypeOK /\ Tally => EachFrameOnce
  <2> SUFFICES ASSUME TypeOK, Tally, NEW c \in attached, life[c] = "open", c \notin kill,
                      NEW n \in 1 .. count
               PROVE  /\ Copies(c, n) <= 1
                      /\ n > since[c] => (Copies(c, n) = 1 <=> n \in Due(c))
    BY DEF EachFrameOnce
  <2>1. c \in Client /\ Kept(c)
    BY DEF Kept, TypeOK
  <2>2. n \in Position /\ n <= count
    BY FanoutAssumption DEF TypeOK, Position
  <2> QED
    BY <2>1, <2>2 DEF Tally, Counted
<1> QED
  BY <1>1, TallyInv, PTL
=============================================================================
