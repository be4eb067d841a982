---------------------------- MODULE Rebuild_proof ----------------------------
(***************************************************************************)
(* What is true of a rebuild for any number of clients and sources, any    *)
(* chain and any bounds.                                                   *)
(***************************************************************************)
EXTENDS Rebuild, SequenceTheorems, FiniteSetTheorems, WellFoundedInduction, TLAPS

----------------------------------------------------------------------------
(* Induction over the naturals, on a set rather than on a predicate: the    *)
(* library's theorem takes an operator, which cannot be instantiated here.  *)
LEMMA Induction ==
    ASSUME NEW S, 0 \in S, \A n \in Nat : n \in S => n + 1 \in S
    PROVE  Nat \subseteq S
<1> SUFFICES ASSUME Nat \ S # {} PROVE FALSE
  OBVIOUS
<1>1. PICK m \in Nat \ S : \A k \in Nat \ S : ~ (<<k, m>> \in OpToRel(<, Nat))
  BY WFMin, NatLessThanWellFounded
<1>2. \A k \in Nat \ S : ~ (k < m)
  BY <1>1 DEF OpToRel
<1>3. m - 1 \in Nat \ S /\ m - 1 < m
  BY <1>2
<1> QED
  BY <1>2, <1>3

----------------------------------------------------------------------------
(* The chain.                                                               *)

LEMMA MaxProperties ==
    ASSUME NEW T, NEW m \in T, T \subseteq Int, \A x \in T : m >= x
    PROVE  Max(T) = m
<1>1. \A y \in T : m >= y
  OBVIOUS
<1>2. Max(T) \in T /\ \A y \in T : Max(T) >= y
  <2>1. \E x \in T : \A y \in T : x >= y
    BY <1>1
  <2> QED
    BY <2>1, Zenon DEF Max
<1>3. Max(T) >= m /\ m >= Max(T) /\ Max(T) \in Int /\ m \in Int
  BY <1>1, <1>2
<1> QED
  BY <1>3

LEMMA MaxTop ==
    ASSUME NEW n \in Nat, NEW t \in SUBSET (1 .. n + 1), n + 1 \in t
    PROVE  Max(t) = n + 1
<1>1. t \subseteq Int /\ \A x \in t : n + 1 >= x
  OBVIOUS
<1> QED
  BY <1>1, MaxProperties

LEMMA MaxExists ==
    ASSUME NEW n \in Nat, NEW T \in SUBSET (0 .. n), T # {}
    PROVE  Max(T) \in T /\ \A x \in T : Max(T) >= x
<1> DEFINE S == {k \in Nat : \A U \in SUBSET (0 .. k) :
                     U # {} => \E x \in U : \A y \in U : x >= y}
<1>1. 0 \in S
  <2> SUFFICES ASSUME NEW U \in SUBSET (0 .. 0), U # {}
               PROVE  \E x \in U : \A y \in U : x >= y
    OBVIOUS
  <2>1. PICK x : x \in U
    OBVIOUS
  <2>2. \A y \in 0 .. 0 : y = 0
    OBVIOUS
  <2> QED
    BY <2>1, <2>2
<1>2. ASSUME NEW k \in Nat, k \in S PROVE k + 1 \in S
  <2> SUFFICES ASSUME NEW U \in SUBSET (0 .. k + 1), U # {}
               PROVE  \E x \in U : \A y \in U : x >= y
    OBVIOUS
  <2>1. CASE k + 1 \in U
    <3>1. \A y \in U : k + 1 >= y
      OBVIOUS
    <3> QED
      BY <2>1, <3>1
  <2>2. CASE k + 1 \notin U
    <3>1. U \in SUBSET (0 .. k)
      BY <2>2
    <3> QED
      BY <1>2, <3>1
  <2> QED
    BY <2>1, <2>2
<1>3. Nat \subseteq S
  <2> HIDE DEF S
  <2> QED
    BY <1>1, <1>2, Induction
<1>4. \E x \in T : \A y \in T : x >= y
  BY <1>3
<1> QED
  BY <1>4, Zenon DEF Max

\* The chain has a first message, and every message has a block.
LEMMA PosFacts ==
  /\ Len(HeightOf) \in Nat /\ Len(HeightOf) >= 1 /\ 1 \in Pos /\ Pos \subseteq Nat
  /\ \A n \in Pos : n \in Nat
  /\ \A n \in Pos : HeightOf[n] \in Nat /\ HeightOf[n] > 0
<1>1. HeightOf \in Seq(Nat \ {0}) /\ HeightOf # <<>>
  BY RebuildAssumption
<1>2. Len(HeightOf) \in Nat /\ Len(HeightOf) # 0
  BY <1>1, LenProperties, EmptySeq
<1>3. \A n \in 1 .. Len(HeightOf) : HeightOf[n] \in Nat \ {0}
  BY <1>1, ElementOfSeq
<1> QED
  BY <1>2, <1>3 DEF Pos

\* There is always a finished block to take a snapshot of.
LEMMA BlockEndProperties ==
    ASSUME NEW n \in Pos
    PROVE  /\ BlockEnd(n) \in Pos /\ BlockEnd(n) <= n
<1> DEFINE T == {0} \cup {i \in 1 .. n : i + 1 \notin Pos \/ HeightOf[i + 1] > HeightOf[i]}
<1>1. n \in Nat /\ T \in SUBSET (0 .. n) /\ T # {}
  BY PosFacts DEF Pos
<1>2. BlockEnd(n) \in T /\ \A x \in T : BlockEnd(n) >= x
  <2>1. BlockEnd(n) = Max(T)
    BY DEF BlockEnd
  <2> HIDE DEF T
  <2> QED
    BY <1>1, <2>1, MaxExists
<1>3. 1 \in T
  <2>1. CASE 2 \in Pos
    <3>1. HeightOf[1 + 1] > HeightOf[1]
      BY <2>1, RebuildAssumption, PosFacts DEF Pos
    <3> QED
      BY <3>1, PosFacts DEF Pos
  <2>2. CASE 2 \notin Pos
    BY <2>2, PosFacts DEF Pos
  <2> QED
    BY <2>1, <2>2
<1>4. BlockEnd(n) \in 0 .. n /\ BlockEnd(n) >= 1
  BY <1>1, <1>2, <1>3
<1> QED
  BY <1>4, PosFacts DEF Pos

----------------------------------------------------------------------------
(* The frames held behind a client are applied one by one to the book its   *)
(* snapshot founds.  FoldLeft is a recursive function on the sets of        *)
(* indices that remain: Folds says so of g, Fold that there is one.         *)
Lay(s, i, b, f) == IF Follows(f, s, i) THEN Apply(b, f) ELSE b

Folds(g, s, i, fs, n) ==
  g = [t \in SUBSET (1 .. n) |->
         IF t = {} THEN [src |-> s, faults |-> {}]
         ELSE Lay(s, i, g[t \ {Max(t)}], fs[Max(t)])]

LEMMA Fold ==
    ASSUME NEW s, NEW i, NEW fs, NEW n \in Nat
    PROVE  \E g : Folds(g, s, i, fs, n)
<1> DEFINE S == {m \in Nat : \E g : Folds(g, s, i, fs, m)}
<1>1. 0 \in S
  <2> DEFINE g == [t \in SUBSET (1 .. 0) |-> [src |-> s, faults |-> {}]]
  <2>1. Folds(g, s, i, fs, 0)
    BY DEF Folds
  <2> QED
    BY <2>1
<1>2. ASSUME NEW m \in Nat, NEW g, Folds(g, s, i, fs, m)
      PROVE  \E h : Folds(h, s, i, fs, m + 1)
  <2> DEFINE h == [t \in SUBSET (1 .. m + 1) |->
                     IF m + 1 \in t THEN Lay(s, i, g[t \ {m + 1}], fs[m + 1]) ELSE g[t]]
  <2>1. \A t \in SUBSET (1 .. m + 1) : m + 1 \notin t => t \in SUBSET (1 .. m)
    OBVIOUS
  <2>2. \A t \in SUBSET (1 .. m + 1) : t \ {m + 1} \in SUBSET (1 .. m)
    OBVIOUS
  <2>3. \A t \in SUBSET (1 .. m) : t \in SUBSET (1 .. m + 1) /\ m + 1 \notin t /\ h[t] = g[t]
    OBVIOUS
  <2>4. ASSUME NEW t \in SUBSET (1 .. m + 1)
        PROVE  h[t] = IF t = {} THEN [src |-> s, faults |-> {}]
                      ELSE Lay(s, i, h[t \ {Max(t)}], fs[Max(t)])
    <3>1. CASE m + 1 \in t
      <4>1. Max(t) = m + 1
        BY <3>1, MaxTop
      <4>2. h[t \ {m + 1}] = g[t \ {m + 1}]
        BY <2>2, <2>3
      <4> QED
        BY <3>1, <4>1, <4>2
    <3>2. CASE m + 1 \notin t
      <4>1. t \in SUBSET (1 .. m) /\ h[t] = g[t]
        BY <2>1, <3>2
      <4>2. g[t] = IF t = {} THEN [src |-> s, faults |-> {}]
                   ELSE Lay(s, i, g[t \ {Max(t)}], fs[Max(t)])
        BY <1>2, <4>1 DEF Folds
      <4>3. g[t \ {Max(t)}] = h[t \ {Max(t)}]
        BY <2>3, <4>1
      <4> HIDE DEF h
      <4> QED
        BY <4>1, <4>2, <4>3
    <3> QED
      BY <3>1, <3>2
  <2>5. Folds(h, s, i, fs, m + 1)
    <3>1. h = [t \in SUBSET (1 .. m + 1) |-> h[t]]
      OBVIOUS
    <3> HIDE DEF h
    <3> QED
      BY <2>4, <3>1 DEF Folds
  <2> QED
    BY <2>5
<1>3. Nat \subseteq S
  <2>1. \A m \in Nat : m \in S => m + 1 \in S
    BY <1>2
  <2> HIDE DEF S
  <2> QED
    BY <1>1, <2>1, Induction
<1> QED
  BY <1>3

LEMMA IsFold ==
    ASSUME NEW s, NEW i, NEW fs \in Seq(Frame)
    PROVE  \E g : Folds(g, s, i, fs, Len(fs)) /\ Rebuilt(s, i, fs) = g[1 .. Len(fs)]
<1> DEFINE g == CHOOSE g : Folds(g, s, i, fs, Len(fs))
<1>1. Folds(g, s, i, fs, Len(fs))
  BY Fold
<1>2. Rebuilt(s, i, fs) = g[1 .. Len(fs)]
  <2>1. DOMAIN fs = 1 .. Len(fs)
    OBVIOUS
  <2> QED
  BY <2>1 DEF Folds, Rebuilt, FoldLeft, MapThenFoldSet, Lay
<1> QED
  BY <1>1, <1>2

\* The books on the way, from the snapshot alone to the last frame.
LEMMA Layers ==
    ASSUME NEW s, NEW i, NEW fs \in Seq(Frame)
    PROVE  \E w : /\ w[0] = [src |-> s, faults |-> {}]
                  /\ \A n \in 0 .. Len(fs) - 1 : w[n + 1] = Lay(s, i, w[n], fs[n + 1])
                  /\ Rebuilt(s, i, fs) = w[Len(fs)]
<1>1. Len(fs) \in Nat
  BY LenProperties
<1>2. PICK g : Folds(g, s, i, fs, Len(fs)) /\ Rebuilt(s, i, fs) = g[1 .. Len(fs)]
  BY IsFold
<1> DEFINE w == [n \in 0 .. Len(fs) |-> g[1 .. n]]
<1>3. w[0] = [src |-> s, faults |-> {}]
  <2>1. 1 .. 0 = {} /\ {} \in SUBSET (1 .. Len(fs)) /\ 0 \in 0 .. Len(fs)
    BY <1>1
  <2>2. g[{}] = [src |-> s, faults |-> {}]
    BY <1>2, <2>1 DEF Folds
  <2>3. w[0] = g[1 .. 0]
    BY <2>1
  <2> QED
    BY <2>1, <2>2, <2>3
<1>4. ASSUME NEW n \in 0 .. Len(fs) - 1
      PROVE  w[n + 1] = Lay(s, i, w[n], fs[n + 1])
  <2> DEFINE t == 1 .. n + 1
  <2>1. n \in Nat /\ n + 1 <= Len(fs)
    BY <1>1
  <2>2. t \in SUBSET (1 .. Len(fs)) /\ n + 1 \in t
    BY <1>1, <2>1
  <2>3. t \ {n + 1} = 1 .. n
    BY <2>1
  <2>4. Max(t) = n + 1
    BY <2>1, <2>2, MaxTop
  <2>5. w[n + 1] = g[t] /\ w[n] = g[1 .. n]
    BY <1>1, <2>1
  <2>6. g[t] = Lay(s, i, g[t \ {Max(t)}], fs[Max(t)])
    <3>1. t # {}
      BY <2>2
    <3> HIDE DEF t, w
    <3> QED
      BY <1>2, <2>2, <3>1 DEF Folds
  <2> HIDE DEF t, w
  <2> QED
    BY <2>3, <2>4, <2>5, <2>6
<1>5. Rebuilt(s, i, fs) = w[Len(fs)]
  BY <1>1, <1>2
<1> HIDE DEF w
<1> QED
  BY <1>3, <1>4, <1>5

LEMMA ApplyTyped ==
    ASSUME NEW b \in Book, NEW f \in Frame
    PROVE  Apply(b, f) \in Book
<1>1. CASE f.snap
  BY <1>1 DEF Apply, Book, Frame
<1>2. CASE ~ f.snap
  BY <1>2 DEF Apply, Book, Frame
<1> QED
  BY <1>1, <1>2

\* A book founded on a snapshot, and never built from two nodes' increments.
Sound(b, s) ==
    /\ b \in Book
    /\ b.src # NoSource
    /\ "unfounded" \notin b.faults
    /\ Single => b.src = s
    /\ "spliced" \notin b.faults

\* A rebuilt book is founded on its snapshot; where one source is followed, no
\* frame of another gets into it.
LEMMA RebuiltIsSound ==
    ASSUME NEW s \in Source, NEW i \in {0} \cup Pos, NEW fs \in Seq(Frame)
    PROVE  Sound(Rebuilt(s, i, fs), s)
<1>1. PICK w : /\ w[0] = [src |-> s, faults |-> {}]
               /\ \A n \in 0 .. Len(fs) - 1 : w[n + 1] = Lay(s, i, w[n], fs[n + 1])
               /\ Rebuilt(s, i, fs) = w[Len(fs)]
  BY Layers
<1>2. Len(fs) \in Nat /\ \A n \in 1 .. Len(fs) : fs[n] \in Frame
  BY ElementOfSeq, LenProperties
<1> DEFINE S == {n \in Nat : n <= Len(fs) => Sound(w[n], s)}
<1>3. 0 \in S
  BY <1>1, ArbiterAssumption DEF Sound, Book
<1>4. ASSUME NEW n \in Nat, n \in S PROVE n + 1 \in S
  <2> SUFFICES ASSUME n + 1 <= Len(fs) PROVE Sound(w[n + 1], s)
    OBVIOUS
  <2>1. n <= Len(fs) /\ n \in 0 .. Len(fs) - 1 /\ n + 1 \in 1 .. Len(fs)
    BY <1>2
  <2>2. Sound(w[n], s) /\ w[n + 1] = Lay(s, i, w[n], fs[n + 1]) /\ fs[n + 1] \in Frame
    BY <1>1, <1>2, <1>4, <2>1
  <2>3. CASE Follows(fs[n + 1], s, i)
    <3> DEFINE b == w[n]
               f == fs[n + 1]
    <3>1. w[n + 1] = Apply(b, f) /\ Sound(b, s) /\ f \in Frame
      BY <2>2, <2>3 DEF Lay
    <3>2. Single => f.src = s
      BY <2>3 DEF Follows
    <3>3. Apply(b, f) \in Book
      BY <3>1, ApplyTyped DEF Sound
    <3> HIDE DEF b, f
    <3>4. CASE f.snap
      BY <3>1, <3>2, <3>3, <3>4, ArbiterAssumption DEF Apply, Sound, Frame, Book
    <3>5. CASE ~ f.snap
      <4>1. Apply(b, f).src = b.src
        BY <3>1, <3>5 DEF Apply, Sound, Book
      <4>2. \A x \in Apply(b, f).faults : x \in b.faults
        BY <3>1, <3>2, <3>5, ArbiterAssumption DEF Apply, Sound, Frame, Book
      <4> QED
        BY <3>1, <3>3, <4>1, <4>2 DEF Sound
    <3> QED
      BY <3>4, <3>5
  <2>4. CASE ~ Follows(fs[n + 1], s, i)
    BY <2>2, <2>4 DEF Lay
  <2> QED
    BY <2>3, <2>4
<1>5. Nat \subseteq S
  <2> HIDE DEF S
  <2> QED
    BY <1>3, <1>4, Induction
<1> QED
  BY <1>1, <1>2, <1>5

----------------------------------------------------------------------------
(* The lists of fetches.                                                    *)

\* A task is taken off a client's list of fetches.
LEMMA Removed ==
    ASSUME NEW s \in Seq(Task), NEW j \in DOMAIN s
    PROVE  /\ RemoveAt(s, j) \in Seq(Task)
           /\ DOMAIN RemoveAt(s, j) \subseteq DOMAIN s
<1>1. DOMAIN s = 1 .. Len(s) /\ Len(s) \in Nat /\ j \in 1 .. Len(s)
  BY LenProperties
<1>2. /\ SubSeq(s, 1, j - 1) \in Seq(Task) /\ SubSeq(s, j + 1, Len(s)) \in Seq(Task)
      /\ Len(SubSeq(s, 1, j - 1)) = j - 1
      /\ Len(SubSeq(s, j + 1, Len(s))) = Len(s) - j
  BY <1>1, SubSeqProperties
<1>3. RemoveAt(s, j) \in Seq(Task) /\ Len(RemoveAt(s, j)) = Len(s) - 1
  <2> DEFINE a == SubSeq(s, 1, j - 1)
             b == SubSeq(s, j + 1, Len(s))
  <2>1. RemoveAt(s, j) = a \o b
    BY DEF RemoveAt
  <2>2. a \in Seq(Task) /\ b \in Seq(Task) /\ Len(a) + Len(b) = Len(s) - 1
    BY <1>1, <1>2
  <2> HIDE DEF a, b
  <2> QED
    BY <2>1, <2>2, ConcatProperties
<1>4. DOMAIN RemoveAt(s, j) = 1 .. Len(s) - 1
  BY <1>3, LenProperties
<1> QED
  BY <1>1, <1>3, <1>4

\* Another is put on it.
LEMMA Added ==
    ASSUME NEW s \in Seq(Task), NEW who \in SUBSET Source
    PROVE  /\ Append(s, Asking(who)) \in Seq(Task)
           /\ Append(s, Asking(who)) # <<>>
           /\ DOMAIN Append(s, Asking(who)) = DOMAIN s \cup {Len(s) + 1}
           /\ Len(s) + 1 \notin DOMAIN s
<1>1. Asking(who) \in Task
  BY DEF Asking, Task
<1>2. /\ Append(s, Asking(who)) \in Seq(Task)
      /\ Append(s, Asking(who)) # <<>>
      /\ Len(Append(s, Asking(who))) = Len(s) + 1
  BY <1>1, AppendProperties
<1>3. /\ DOMAIN s = 1 .. Len(s) /\ Len(s) \in Nat
      /\ DOMAIN Append(s, Asking(who)) = 1 .. Len(s) + 1
  BY <1>2, LenProperties
<1> QED
  BY <1>2, <1>3

\* Its fetch is answered.
LEMMA Answered ==
    ASSUME NEW s \in Seq(Task), NEW j \in DOMAIN s, NEW t \in Task
    PROVE  /\ [s EXCEPT ![j] = t] \in Seq(Task)
           /\ [s EXCEPT ![j] = t] # <<>>
           /\ DOMAIN [s EXCEPT ![j] = t] = DOMAIN s
<1>1. DOMAIN s = 1 .. Len(s) /\ Len(s) \in Nat
  BY LenProperties
<1>2. [s EXCEPT ![j] = t] \in Seq(Task)
  BY <1>1, ExceptSeq
<1>3. j \in DOMAIN [s EXCEPT ![j] = t]
  OBVIOUS
<1> QED
  BY <1>2, <1>3

----------------------------------------------------------------------------
(* Types.                                                                   *)

LEMMA BitRange == ASSUME NEW s \in Source PROVE Bit(s) \in 0 .. MaskBits - 1
BY ArbiterAssumption DEF Source, Bit

\* Every rule leaves an entry an entry.
LEMMA EntryKept ==
    ASSUME EntryTypeOK, NEW s \in Source, NEW v \in Nat, NEW o, NEW single, NEW incremental,
           \/ BlockFrame(s, v, o)
           \/ StickyFrame(s, v, o)
           \/ SnapshotFrame(single, s, v, o)
           \/ Release(s, incremental)
    PROVE  EntryTypeOK'
<1>1. CASE BlockFrame(s, v, o)
  <2>1. /\ last' \in Nat /\ leader' \in Source \cup {NoSource}
        /\ needsSnapshot' \subseteq 0 .. MaskBits - 1
    BY <1>1 DEF BlockFrame, Take, Keep, EntryTypeOK
  <2>2. sampled' \subseteq 0 .. MaskBits - 1
    <3>1. sampled' \subseteq sampled \cup {Bit(s)}
      BY <1>1 DEF BlockFrame, OpenBlock
    <3> QED
      BY <3>1, BitRange DEF EntryTypeOK
  <2>3. seen' \in [Source -> Nat]
    BY <1>1 DEF BlockFrame, OpenBlock, Bump, EntryTypeOK
  <2>4. sent' \in Nat
    BY <1>1, <2>3 DEF BlockFrame, OpenBlock, EntryTypeOK
  <2> QED
    BY <2>1, <2>2, <2>3, <2>4 DEF EntryTypeOK
<1>2. CASE StickyFrame(s, v, o)
  BY <1>2 DEF StickyFrame, Take, Keep, EntryTypeOK
<1>3. CASE SnapshotFrame(single, s, v, o)
  <2>1. /\ sampled' \subseteq sampled \cup {Bit(s)}
        /\ needsSnapshot' \subseteq needsSnapshot
    BY <1>3 DEF SnapshotFrame, OpenBlock
  <2>2. /\ last' \in Nat /\ leader' \in Source \cup {NoSource}
        /\ sent' \in Nat /\ seen' \in [Source -> Nat]
    BY <1>3 DEF SnapshotFrame, Take, Keep, OpenBlock, EntryTypeOK
  <2> QED
    BY <2>1, <2>2, BitRange DEF EntryTypeOK
<1>4. CASE Release(s, incremental)
  BY <1>4, BitRange DEF Release, EntryTypeOK
<1> QED
  BY <1>1, <1>2, <1>3, <1>4

\* What a forwarded frame does to the clients.
LEMMA ShareOutTyped ==
    ASSUME ClientTypeOK, NEW f \in Frame, NEW o, ShareOut(f, o), UNCHANGED fetch
    PROVE  ClientTypeOK'
<1>1. CASE o \notin Forwarded
  BY <1>1 DEF ShareOut, clientVars, ClientTypeOK
<1>2. CASE o \in Forwarded
  <2> DEFINE over == {c \in pending : Len(held[c]) = MaxHeld}
  <2>1. /\ pending' = pending \ over /\ killed' = killed \cup over
        /\ held' = [c \in Client |-> IF c \in over THEN <<>>
                                     ELSE IF c \in pending THEN Append(held[c], f)
                                                           ELSE held[c]]
        /\ book' = [c \in Client |-> IF c \in subscribers THEN Apply(Judged(book[c]), f)
                                                          ELSE book[c]]
        /\ UNCHANGED subscribers
    BY <1>2 DEF ShareOut
  <2>2. ASSUME NEW c \in Client PROVE held'[c] \in Seq(Frame) /\ Len(held'[c]) <= MaxHeld
    <3>1. /\ held[c] \in Seq(Frame) /\ Len(held[c]) <= MaxHeld
          /\ Len(held[c]) \in Nat /\ MaxHeld \in Nat
      BY LenProperties, RebuildAssumption DEF ClientTypeOK
    <3>2. CASE c \in over
      <4>1. held'[c] = <<>>
        BY <2>1, <3>2
      <4> QED
        BY <3>1, <4>1, EmptySeq
    <3>3. CASE c \in pending \ over
      <4>1. held'[c] = Append(held[c], f) /\ Len(held[c]) # MaxHeld
        BY <2>1, <3>3
      <4>2. Append(held[c], f) \in Seq(Frame) /\ Len(Append(held[c], f)) = Len(held[c]) + 1
        BY <3>1, AppendProperties
      <4> QED
        BY <3>1, <4>1, <4>2
    <3>4. CASE c \notin pending
      BY <2>1, <3>1, <3>4
    <3> QED
      BY <3>2, <3>3, <3>4
  <2>3. ASSUME NEW c \in Client PROVE book'[c] \in Book
    <3>1. book[c] \in Book /\ Judged(book[c]) \in Book
      BY DEF ClientTypeOK, Judged, Book
    <3> QED
      BY <2>1, <3>1, ApplyTyped
  <2> QED
    BY <2>1, <2>2, <2>3 DEF ClientTypeOK
<1> QED
  BY <1>1, <1>2

\* What the loss of a leader does to them, and to the fetches.
LEMMA ResyncTyped ==
    ASSUME TypeOK, NEW s \in Source, NEW who \in SUBSET Source, Resync(s, who)
    PROVE  EntryTypeOK' /\ ClientTypeOK' /\ owes' \subseteq Source
<1>1. CASE leader # s
  <2>1. UNCHANGED <<entry, owes, clientVars, fetch>>
    BY <1>1 DEF Resync
  <2> QED
    BY <2>1 DEF entry, clientVars, TypeOK, EntryTypeOK, FeedTypeOK, ClientTypeOK
<1>2. CASE leader = s
  <2>1. /\ Release(s, TRUE) /\ owes' = owes \cup {s}
        /\ subscribers' = {} /\ pending' = pending \cup subscribers
        /\ fetch' = [c \in Client |-> IF c \in subscribers
                                      THEN Append(fetch[c], Asking(who)) ELSE fetch[c]]
        /\ UNCHANGED <<held, killed, book>>
    BY <1>2 DEF Resync, Orphans
  <2>2. EntryTypeOK'
    BY <2>1, EntryKept DEF TypeOK
  <2>3. fetch' \in [Client -> Seq(Task)]
    BY <2>1, Added DEF TypeOK, ClientTypeOK
  <2>4. ClientTypeOK'
    BY <2>1, <2>3 DEF TypeOK, ClientTypeOK
  <2> QED
    BY <2>1, <2>2, <2>4 DEF TypeOK, FeedTypeOK
<1> QED
  BY <1>1, <1>2

\* A client's fetches change.
LEMMA FetchesKept ==
    ASSUME TypeOK, NEW c \in Client, NEW q \in Seq(Task), fetch' = [fetch EXCEPT ![c] = q]
    PROVE  fetch' \in [Client -> Seq(Task)]
BY DEF TypeOK, ClientTypeOK

\* A source that still owes its opening snapshot has one to send.
Greeted == \A s \in Source : greet[s] => cursor[s] # 0

LEMMA GreetedKept ==
    ASSUME TypeOK, Greeted, [Next]_vars
    PROVE  Greeted'
<1>1. ASSUME UNCHANGED feedVars PROVE Greeted'
  BY <1>1 DEF feedVars, Greeted
<1>2. ASSUME NEW s \in Source, Produce(s) \/ Drop(s) \/ AfterDrop(s) PROVE Greeted'
  BY <1>2 DEF Produce, Drop, AfterDrop, Greeted
<1>3. ASSUME NEW s \in Source, Increment(s) PROVE Greeted'
  BY <1>3 DEF Increment, Greeted, TypeOK, FeedTypeOK
<1>4. ASSUME NEW s \in Source, Greeting(s) PROVE Greeted'
  BY <1>4 DEF Greeting, Greeted, TypeOK, FeedTypeOK
<1>5. ASSUME NEW s \in Source, Connect(s) PROVE Greeted'
  <2>1. BlockEnd(node[s]) # 0
    BY BlockEndProperties, PosFacts DEF TypeOK, FeedTypeOK, Pos
  <2> QED
    BY <1>5, <2>1 DEF Connect, Greeted, TypeOK, FeedTypeOK
<1> QED
  BY <1>1, <1>2, <1>3, <1>4, <1>5
  DEF Next, FetchStep, Silent, Join, Leave, Answer, Deliver, GiveUp, vars, feedVars

\* A connection has read no more than its node has produced.
LEMMA MarkBound ==
    ASSUME FeedTypeOK, NEW t \in Source
    PROVE  cursor[t] <= node[t] /\ cursor[t] \in Nat /\ node[t] \in Nat
<1>1. cursor[t] \in {0} \cup Pos /\ node[t] \in Pos
  BY DEF FeedTypeOK
<1>2. cursor[t] <= node[t]
  BY DEF FeedTypeOK
<1>3. \A n \in Pos : n \in Nat
  BY PosFacts
<1>4. cursor[t] \in Nat /\ node[t] \in Nat
  BY <1>1, <1>3
<1> QED
  BY <1>2, <1>4

LEMMA TypeInv == Spec => [](TypeOK /\ Greeted)
<1>1. Init => TypeOK /\ Greeted
  <2> SUFFICES ASSUME Init PROVE TypeOK /\ Greeted
    OBVIOUS
  <2>1. EntryTypeOK
    BY ArbiterAssumption DEF Init, EntryInit, EntryTypeOK
  <2>2. FeedTypeOK
    <3>1. 1 \in Pos /\ BlockEnd(1) \in Pos /\ BlockEnd(1) <= 1
      BY PosFacts, BlockEndProperties
    <3> QED
      BY <3>1, RebuildAssumption DEF Init, FeedTypeOK
  <2>3. ClientTypeOK
    BY RebuildAssumption, ArbiterAssumption, EmptySeq DEF Init, ClientTypeOK, NoBook, Book
  <2>4. Greeted
    BY BlockEndProperties, PosFacts DEF Init, Greeted, Pos
  <2> QED
    BY <2>1, <2>2, <2>3, <2>4 DEF TypeOK
<1>2. TypeOK /\ Greeted /\ [Next]_vars => TypeOK'
  <2> SUFFICES ASSUME TypeOK, Greeted, [Next]_vars PROVE TypeOK'
    OBVIOUS
  <2> USE DEF TypeOK
  <2>1. ASSUME UNCHANGED entry PROVE EntryTypeOK'
    BY <2>1 DEF entry, EntryTypeOK
  <2>3. ASSUME UNCHANGED <<clientVars, fetch>> PROVE ClientTypeOK'
    BY <2>3 DEF clientVars, ClientTypeOK
  <2>4. ASSUME UNCHANGED <<feedVars, owes, losses>> PROVE FeedTypeOK'
    BY <2>4 DEF feedVars, FeedTypeOK
  <2>5. ASSUME NEW s \in Source, Produce(s) PROVE TypeOK'
    <3>1. node' = [node EXCEPT ![s] = node[s] + 1] /\ node[s] + 1 \in Pos
      BY <2>5 DEF Produce
    <3>2. ASSUME NEW t \in Source PROVE cursor[t] <= node'[t]
      <4>1. node'[t] = IF t = s THEN node[t] + 1 ELSE node[t]
        <5>1. node \in [Source -> Pos]
          BY DEF FeedTypeOK
        <5> QED
          BY <3>1, <5>1, Zenon
      <4>2. cursor[t] <= node[t] /\ cursor[t] \in Nat /\ node[t] \in Nat
        BY MarkBound
      <4> QED
        BY <4>1, <4>2
    <3>3. FeedTypeOK'
      BY <2>5, <3>1, <3>2 DEF Produce, FeedTypeOK
    <3> QED
      BY <2>1, <2>3, <2>5, <3>3 DEF Produce
  <2>6. ASSUME NEW s \in Source, Increment(s) PROVE TypeOK'
    <3>1. cursor[s] + 1 \in Pos /\ cursor[s] + 1 <= node[s]
      <4>1. cursor[s] \in {0} \cup Pos /\ node[s] \in Pos /\ cursor[s] < node[s]
        BY <2>6 DEF Increment, FeedTypeOK
      <4>2. cursor[s] \in Nat /\ node[s] \in 1 .. Len(HeightOf)
        BY <4>1, PosFacts DEF Pos
      <4> QED
        BY <4>1, <4>2, PosFacts DEF Pos
    <3>2. Height(cursor[s] + 1) \in Nat
      BY <3>1, PosFacts DEF Height
    <3>3. PICK o \in Outcome :
             /\ IF Single THEN StickyFrame(s, Height(cursor[s] + 1), o)
                          ELSE BlockFrame(s, Height(cursor[s] + 1), o)
             /\ ShareOut([src |-> s, pos |-> cursor[s] + 1, snap |-> FALSE], o)
      BY <2>6 DEF Increment
    <3>4. EntryTypeOK'
      BY <3>2, <3>3, EntryKept
    <3>5. [src |-> s, pos |-> cursor[s] + 1, snap |-> FALSE] \in Frame
      BY <3>1 DEF Frame
    <3>6. ClientTypeOK'
      BY <2>6, <3>3, <3>5, ShareOutTyped DEF Increment
    <3>7. FeedTypeOK'
      BY <2>6, <3>1 DEF Increment, FeedTypeOK
    <3> QED
      BY <2>6, <3>4, <3>6, <3>7 DEF Increment
  <2>7. ASSUME NEW s \in Source, Greeting(s) PROVE TypeOK'
    <3>1. cursor[s] \in {0} \cup Pos /\ Height(cursor[s]) \in Nat
      BY PosFacts DEF FeedTypeOK, Height
    <3>2. PICK o \in Outcome :
             /\ SnapshotFrame(Single, s, Height(cursor[s]), o)
             /\ ShareOut([src |-> s, pos |-> cursor[s], snap |-> TRUE], o)
      BY <2>7 DEF Greeting
    <3>3. EntryTypeOK'
      BY <3>1, <3>2, EntryKept
    <3>4. [src |-> s, pos |-> cursor[s], snap |-> TRUE] \in Frame
      BY <2>7, <3>1 DEF Greeting, Greeted, Frame
    <3>5. ClientTypeOK'
      BY <2>7, <3>2, <3>4, ShareOutTyped DEF Greeting
    <3>6. FeedTypeOK'
      BY <2>7 DEF Greeting, FeedTypeOK
    <3> QED
      BY <2>7, <3>3, <3>5, <3>6 DEF Greeting
  <2>8. ASSUME Lose PROVE losses' \in 0 .. MaxLosses
    BY <2>8, RebuildAssumption DEF Lose, FeedTypeOK
  <2>9. ASSUME NEW s \in Source, Drop(s) PROVE TypeOK'
    <3>1. FeedTypeOK'
      BY <2>8, <2>9 DEF Drop, FeedTypeOK
    <3> QED
      BY <2>1, <2>3, <2>9, <3>1 DEF Drop
  <2>10. ASSUME NEW s \in Source, AfterDrop(s) PROVE TypeOK'
    <3>1. Up \in SUBSET Source
      BY DEF Up
    <3>2. EntryTypeOK' /\ ClientTypeOK' /\ owes' \subseteq Source
      BY <2>10, <3>1, ResyncTyped DEF AfterDrop
    <3>3. FeedTypeOK'
      BY <2>10, <3>2 DEF AfterDrop, FeedTypeOK
    <3> QED
      BY <3>2, <3>3
  <2>11. ASSUME NEW s \in Source, Silent(s) PROVE TypeOK'
    <3>1. Up \in SUBSET Source /\ Up \ {s} \in SUBSET Source
      BY DEF Up
    <3>2. EntryTypeOK' /\ ClientTypeOK' /\ owes' \subseteq Source
      BY <2>11, <3>1, ResyncTyped DEF Silent
    <3>3. FeedTypeOK'
      BY <2>8, <2>11, <3>2 DEF Silent, feedVars, FeedTypeOK
    <3> QED
      BY <3>2, <3>3
  <2>12. ASSUME NEW s \in Source, Connect(s) PROVE TypeOK'
    <3>1. BlockEnd(node[s]) \in Pos /\ BlockEnd(node[s]) <= node[s]
      BY BlockEndProperties DEF FeedTypeOK
    <3>2. FeedTypeOK'
      BY <2>12, <3>1 DEF Connect, FeedTypeOK
    <3> QED
      BY <2>1, <2>3, <2>12, <3>2 DEF Connect
  <2>13. ASSUME NEW c \in Client, Join(c) PROVE TypeOK'
    <3>1. Up \in SUBSET Source /\ {c} \in SUBSET Client
      BY DEF Up
    <3>2. fetch' = [fetch EXCEPT ![c] = Append(fetch[c], Asking(Up))]
      BY <2>13 DEF Join
    <3>3. fetch' \in [Client -> Seq(Task)]
      BY <3>1, <3>2, Added DEF ClientTypeOK
    <3>4. ClientTypeOK'
      BY <2>13, <3>3, ArbiterAssumption DEF Join, Park, ClientTypeOK, NoBook, Book
    <3> QED
      BY <2>1, <2>4, <2>13, <3>4 DEF Join
  <2>14. ASSUME NEW c \in Client, Leave(c) PROVE TypeOK'
    <3>1. ClientTypeOK'
      BY <2>14, ArbiterAssumption, RebuildAssumption, EmptySeq
      DEF Leave, ClientTypeOK, NoBook, Book
    <3> QED
      BY <2>1, <2>4, <2>14, <3>1 DEF Leave
  <2>15. ASSUME NEW c \in Client, NEW j \in DOMAIN fetch[c], Answer(c, j) PROVE TypeOK'
    <3>1. PICK s \in fetch[c][j].who :
             fetch' = [fetch EXCEPT ![c][j] =
                          [who |-> {}, src |-> s, pos |-> BlockEnd(node[s])]]
      BY <2>15 DEF Answer
    <3>2. fetch[c] \in Seq(Task) /\ fetch[c][j] \in Task
      BY ElementOfSeq, LenProperties DEF ClientTypeOK
    <3>3. s \in Source /\ BlockEnd(node[s]) \in Pos
      BY <3>2, BlockEndProperties DEF Task, FeedTypeOK
    <3> DEFINE t == [who |-> {}, src |-> s, pos |-> BlockEnd(node[s])]
               q == [fetch[c] EXCEPT ![j] = t]
    <3>4. t \in Task
      BY <3>3 DEF Task
    <3>5. q \in Seq(Task) /\ DOMAIN q = DOMAIN fetch[c]
      <4> HIDE DEF t
      <4> QED
        BY <3>2, <3>4, Answered
    <3>6. fetch' = [fetch EXCEPT ![c] = q]
      BY <3>1
    <3>7. fetch' \in [Client -> Seq(Task)]
      <4> HIDE DEF q
      <4> QED
        BY <3>5, <3>6, FetchesKept
    <3>8. ClientTypeOK'
      BY <2>15, <3>7 DEF Answer, clientVars, ClientTypeOK
    <3> QED
      BY <2>1, <2>4, <2>15, <3>7, <3>8 DEF Answer
  <2>16. ASSUME NEW c \in Client, NEW j \in DOMAIN fetch[c], Deliver(c, j) PROVE TypeOK'
    <3> DEFINE s == fetch[c][j].src
               i == fetch[c][j].pos
    <3>1. fetch[c] \in Seq(Task) /\ fetch[c][j] \in Task
      BY ElementOfSeq, LenProperties DEF ClientTypeOK
    <3>2. s \in Source /\ i \in {0} \cup Pos
      BY <2>16, <3>1 DEF Deliver, Task
    <3>3. fetch' = [fetch EXCEPT ![c] = RemoveAt(fetch[c], j)]
      BY <2>16 DEF Deliver
    <3>4. fetch' \in [Client -> Seq(Task)]
      BY <3>1, <3>3, Removed, FetchesKept
    <3>5. EntryTypeOK'
      BY <2>16, <3>2 DEF Deliver, Pin, EntryTypeOK
    <3>6. ClientTypeOK'
      <4>1. CASE c \in pending
        <5>1. Rebuilt(s, i, held[c]) \in Book
          BY <3>2, RebuiltIsSound DEF ClientTypeOK, Sound
        <5>2. /\ pending' = pending \ {c} /\ subscribers' = subscribers \cup {c}
              /\ held' = [held EXCEPT ![c] = <<>>]
              /\ book' = [book EXCEPT ![c] = Rebuilt(s, i, held[c])]
              /\ killed' = killed
          BY <2>16, <4>1 DEF Deliver, Attach
        <5> HIDE DEF s, i
        <5> QED
          BY <3>4, <5>1, <5>2, RebuildAssumption, EmptySeq DEF ClientTypeOK
      <4>2. CASE c \notin pending
        BY <2>16, <3>4, <4>2 DEF Deliver, clientVars, ClientTypeOK
      <4> QED
        BY <4>1, <4>2
    <3> QED
      BY <2>4, <2>16, <3>4, <3>5, <3>6 DEF Deliver
  <2>17. ASSUME NEW c \in Client, NEW j \in DOMAIN fetch[c], GiveUp(c, j) PROVE TypeOK'
    <3>1. fetch' = [fetch EXCEPT ![c] = RemoveAt(fetch[c], j)] /\ fetch[c] \in Seq(Task)
      BY <2>17 DEF GiveUp, ClientTypeOK
    <3>2. fetch' \in [Client -> Seq(Task)]
      BY <3>1, Removed, FetchesKept
    <3>3. ClientTypeOK'
      <4>1. CASE c \in pending
        <5>1. /\ pending' = pending \ {c} /\ held' = [held EXCEPT ![c] = <<>>]
              /\ killed' = killed \cup {c} /\ UNCHANGED <<subscribers, book>>
          BY <2>17, <4>1 DEF GiveUp, FailPending
        <5> QED
          BY <3>2, <5>1, RebuildAssumption, EmptySeq DEF ClientTypeOK
      <4>2. CASE c \notin pending
        BY <2>17, <3>2, <4>2 DEF GiveUp, FailPending, ClientTypeOK
      <4> QED
        BY <4>1, <4>2
    <3> QED
      BY <2>1, <2>4, <2>17, <3>2, <3>3 DEF GiveUp
  <2>18. CASE UNCHANGED vars
    BY <2>1, <2>3, <2>4, <2>18 DEF vars, entry, clientVars, feedVars
  <2> QED
    BY <2>5, <2>6, <2>7, <2>9, <2>10, <2>11, <2>12, <2>13, <2>14, <2>15, <2>16, <2>17, <2>18
    DEF Next, FetchStep
<1> QED
  BY <1>1, <1>2, GreetedKept, PTL DEF Spec

(* Every value stays within its type, every backlog within its cap and the *)
(* mark of a connection within what its node has produced.                  *)
THEOREM Typing == Spec => []TypeOK
BY TypeInv, PTL

----------------------------------------------------------------------------
(* Parking.                                                                 *)

\* What a forwarded frame does to the sets of clients.
LEMMA ShareOutEffect ==
    ASSUME NEW f, NEW o, ShareOut(f, o)
    PROVE  subscribers' = subscribers /\ pending' \subseteq pending
BY DEF ShareOut, clientVars

(* Nobody is left parked without a fetch of its own under way, whatever    *)
(* becomes of the sources meanwhile (subscribe, resync_after_source_loss,  *)
(* deliver_snapshot, fail_pending).                                        *)
THEOREM Fetched == Spec => []ParkedIsFetched
<1>1. Init => ParkedIsFetched
  BY DEF Init, ParkedIsFetched
<1>2. ASSUME TypeOK, ParkedIsFetched, [Next]_vars PROVE ParkedIsFetched'
  <2> USE <1>2
  <2>1. /\ pending \subseteq Client /\ subscribers \subseteq Client
        /\ \A c \in Client : fetch[c] \in Seq(Task)
        /\ DOMAIN fetch = Client
    BY DEF TypeOK, ClientTypeOK
  <2>2. ASSUME pending' \subseteq pending, UNCHANGED fetch PROVE ParkedIsFetched'
    BY <2>2 DEF ParkedIsFetched
  <2>3. ASSUME NEW s \in Source, NEW who \in SUBSET Source, Resync(s, who)
        PROVE  ParkedIsFetched'
    <3>1. CASE leader # s
      BY <3>1, <2>2, <2>3 DEF Resync, clientVars
    <3>2. CASE leader = s
      <4>1. /\ pending' = pending \cup subscribers
            /\ fetch' = [c \in Client |-> IF c \in subscribers
                                          THEN Append(fetch[c], Asking(who)) ELSE fetch[c]]
        BY <2>3, <3>2 DEF Resync, Orphans
      <4>2. ASSUME NEW c \in pending' PROVE fetch'[c] # <<>>
        <5>1. CASE c \in subscribers
          BY <2>1, <4>1, <5>1, Added
        <5>2. CASE c \notin subscribers
          BY <2>1, <4>1, <5>2 DEF ParkedIsFetched
        <5> QED
          BY <5>1, <5>2
      <4> QED
        BY <4>2 DEF ParkedIsFetched
    <3> QED
      BY <3>1, <3>2
  <2>4. ASSUME NEW s \in Source, Produce(s) \/ Drop(s) \/ Connect(s) PROVE ParkedIsFetched'
    BY <2>2, <2>4 DEF Produce, Drop, Connect, clientVars
  <2>5. ASSUME NEW s \in Source, Increment(s) PROVE ParkedIsFetched'
    BY <2>2, <2>5, ShareOutEffect DEF Increment
  <2>6. ASSUME NEW s \in Source, Greeting(s) PROVE ParkedIsFetched'
    BY <2>2, <2>6, ShareOutEffect DEF Greeting
  <2>7. ASSUME NEW s \in Source, AfterDrop(s) \/ Silent(s) PROVE ParkedIsFetched'
    <3>1. Up \in SUBSET Source /\ Up \ {s} \in SUBSET Source
      BY DEF Up
    <3> QED
      BY <2>3, <2>7, <3>1 DEF AfterDrop, Silent
  <2>8. ASSUME NEW c \in Client, Join(c) PROVE ParkedIsFetched'
    <3>1. Up \in SUBSET Source
      BY DEF Up
    <3>2. /\ pending' = pending \cup {c}
          /\ fetch' = [fetch EXCEPT ![c] = Append(fetch[c], Asking(Up))]
      BY <2>8 DEF Join, Park
    <3>3. Append(fetch[c], Asking(Up)) # <<>>
      BY <2>1, <3>1, Added
    <3> QED
      BY <2>1, <3>2, <3>3 DEF ParkedIsFetched
  <2>9. ASSUME NEW c \in Client, Leave(c) PROVE ParkedIsFetched'
    BY <2>2, <2>9 DEF Leave
  <2>10. ASSUME NEW c \in Client, NEW j \in DOMAIN fetch[c], Answer(c, j)
         PROVE  ParkedIsFetched'
    <3>1. PICK t : fetch' = [fetch EXCEPT ![c][j] = t]
      BY <2>10 DEF Answer
    <3>2. j \in DOMAIN fetch'[c] /\ \A d \in Client \ {c} : fetch'[d] = fetch[d]
      BY <2>1, <3>1
    <3>3. fetch'[c] # <<>>
      BY <3>2
    <3> QED
      BY <2>1, <2>10, <3>2, <3>3 DEF Answer, clientVars, ParkedIsFetched
  <2>11. ASSUME NEW c \in Client, NEW j \in DOMAIN fetch[c], NEW q,
                fetch' = [fetch EXCEPT ![c] = q], pending' = pending \ {c}
         PROVE  ParkedIsFetched'
    BY <2>1, <2>11 DEF ParkedIsFetched
  <2>12. ASSUME NEW c \in Client, NEW j \in DOMAIN fetch[c], Deliver(c, j)
         PROVE  ParkedIsFetched'
    <3>1. pending' = pending \ {c}
      BY <2>12 DEF Deliver, Attach, clientVars
    <3> QED
      BY <2>11, <2>12, <3>1 DEF Deliver
  <2>13. ASSUME NEW c \in Client, NEW j \in DOMAIN fetch[c], GiveUp(c, j)
         PROVE  ParkedIsFetched'
    <3>1. pending' = pending \ {c}
      BY <2>13 DEF GiveUp, FailPending
    <3> QED
      BY <2>11, <2>13, <3>1 DEF GiveUp
  <2>14. CASE UNCHANGED vars
    BY <2>2, <2>14 DEF vars
  <2> QED
    BY <2>4, <2>5, <2>6, <2>7, <2>8, <2>9, <2>10, <2>12, <2>13, <2>14 DEF Next, FetchStep
<1> QED
  BY <1>1, <1>2, Typing, PTL DEF Spec

----------------------------------------------------------------------------
(* Books.                                                                   *)

\* Somebody attached has no book yet only before anything has been read; and
\* where one source is followed, it is the one the books come from.
Books ==
    /\ \A c \in Client : book[c].faults \cap {"unfounded", "spliced"} = {}
    /\ \A c \in subscribers : book[c].src = NoSource =>
          /\ leader = NoSource /\ last = 0
          /\ \A s \in Source : conn[s] = "up" => greet[s]
    /\ Single => \A c \in subscribers : book[c].src = leader

\* At most one client where one source is followed: a second one's delivery
\* moves the stream under the first (the run l2splice).
Alone == Single => \A c, d \in Client : c = d

LEMMA BooksKept ==
    ASSUME Alone, TypeOK, Greeted, Books, [Next]_vars
    PROVE  Books'
<1>1. /\ subscribers \subseteq Client /\ pending \subseteq Client
      /\ subscribers \cap pending = {}
      /\ book \in [Client -> Book] /\ DOMAIN greet = Source /\ DOMAIN conn = Source
  BY DEF TypeOK, FeedTypeOK, ClientTypeOK
<1>2. ASSUME UNCHANGED <<leader, last, book>>, subscribers' \subseteq subscribers,
             \A s \in Source : conn'[s] = "up" /\ conn[s] = "up" => greet'[s] = greet[s],
             \A s \in Source : conn'[s] = "up" /\ conn[s] # "up" => greet'[s]
      PROVE  Books'
  BY <1>2 DEF Books
<1>3. ASSUME NEW s \in Source, Produce(s) \/ Drop(s) PROVE Books'
  BY <1>1, <1>2, <1>3 DEF Produce, Drop, entry, clientVars
<1>4. ASSUME NEW s \in Source, Connect(s) PROVE Books'
  <2>1. BlockEnd(node[s]) > 0
    <3>1. node[s] \in Pos
      BY DEF TypeOK, FeedTypeOK
    <3>2. BlockEnd(node[s]) \in Pos
      BY <3>1, BlockEndProperties
    <3> QED
      BY <3>2 DEF Pos
  <2> QED
    BY <1>1, <1>2, <1>4, <2>1 DEF Connect, entry, clientVars
<1>5. ASSUME NEW s \in Source, NEW who, Resync(s, who), UNCHANGED greet,
             \A t \in Source : conn'[t] = "up" => conn[t] = "up"
      PROVE  Books'
  <2>1. CASE leader = s
    BY <1>5, <2>1 DEF Resync, Books
  <2>2. CASE leader # s
    BY <1>2, <1>5, <2>2 DEF Resync, entry, clientVars
  <2> QED
    BY <2>1, <2>2
<1>6. ASSUME NEW s \in Source, AfterDrop(s) PROVE Books'
  BY <1>1, <1>5, <1>6 DEF AfterDrop
<1>7. ASSUME NEW s \in Source, Silent(s) PROVE Books'
  BY <1>5, <1>7 DEF Silent, feedVars
<1>8. ASSUME NEW s \in Source, Increment(s) PROVE Books'
  <2> DEFINE f == [src |-> s, pos |-> cursor[s] + 1, snap |-> FALSE]
  <2>1. PICK o \in Outcome :
           /\ IF Single THEN StickyFrame(s, Height(cursor[s] + 1), o)
                        ELSE BlockFrame(s, Height(cursor[s] + 1), o)
           /\ ShareOut(f, o)
    BY <1>8 DEF Increment
  <2>2. conn[s] = "up" /\ ~ greet[s] /\ UNCHANGED <<conn, greet>>
    BY <1>8 DEF Increment
  <2>3. \A c \in subscribers : book[c].src # NoSource
    BY <2>2 DEF Books
  <2>4. CASE o \notin Forwarded
    <3>1. UNCHANGED <<leader, last>>
      BY <2>1, <2>4 DEF StickyFrame, BlockFrame, Keep, Forwarded
    <3>2. UNCHANGED clientVars
      BY <2>1, <2>4 DEF ShareOut
    <3> QED
      BY <1>2, <2>2, <3>1, <3>2 DEF clientVars
  <2>5. CASE o \in Forwarded
    <3>1. /\ subscribers' = subscribers
          /\ \A c \in Client : book'[c] = IF c \in subscribers THEN Apply(Judged(book[c]), f)
                                                               ELSE book[c]
      BY <2>1, <2>5 DEF ShareOut
    <3>2. ASSUME Single, NEW c \in subscribers PROVE book[c].src = s /\ leader' = s
      <4>1. leader # NoSource /\ book[c].src = leader
        BY <2>3, <3>2 DEF Books
      <4>2. StickyFrame(s, Height(cursor[s] + 1), o)
        BY <2>1, <3>2
      <4> QED
        BY <2>5, <4>1, <4>2 DEF StickyFrame, Leads, Take, Keep, Forwarded
    <3>3. ASSUME NEW c \in subscribers
          PROVE  /\ book'[c].src = book[c].src
                 /\ book'[c].faults \cap {"unfounded", "spliced"} = {}
      <4> DEFINE b == Judged(book[c])
      <4>1. b \in Book /\ b.src = book[c].src /\ b.faults = {}
        BY <1>1 DEF Judged, Book
      <4>2. book'[c] = Apply(b, f) /\ ~ f.snap /\ f.src = s
        BY <1>1, <3>1
      <4>3. b.src # NoSource /\ (Single => b.src = s)
        BY <2>3, <3>2, <4>1
      <4> HIDE DEF b, f
      <4>4. Apply(b, f).src = b.src
        BY <4>1, <4>2 DEF Apply, Book
      <4>5. Apply(b, f).faults = {}
        BY <4>1, <4>2, <4>3 DEF Apply, Book
      <4> QED
        BY <4>1, <4>2, <4>4, <4>5
    <3>4. \A c \in Client : book'[c].faults \cap {"unfounded", "spliced"} = {}
      BY <3>1, <3>3 DEF Books
    <3> QED
      BY <2>3, <3>1, <3>2, <3>3, <3>4 DEF Books
  <2> QED
    BY <2>4, <2>5
<1>9. ASSUME NEW s \in Source, Greeting(s) PROVE Books'
  <2> DEFINE f == [src |-> s, pos |-> cursor[s], snap |-> TRUE]
  <2>1. PICK o \in Outcome : SnapshotFrame(Single, s, Height(cursor[s]), o) /\ ShareOut(f, o)
    BY <1>9 DEF Greeting
  <2>2. conn[s] = "up" /\ greet[s] /\ UNCHANGED conn /\ greet' = [greet EXCEPT ![s] = FALSE]
    BY <1>9 DEF Greeting
  <2>3. CASE o \notin Forwarded
    <3>1. UNCHANGED <<leader, last>> /\ ~ (Ours(Single, s) /\ Newer(Height(cursor[s])))
      BY <2>1, <2>3 DEF SnapshotFrame, Keep, Forwarded
    <3>2. UNCHANGED clientVars
      BY <2>1, <2>3 DEF ShareOut
    <3>3. Height(cursor[s]) > 0
      <4>1. cursor[s] \in Pos /\ cursor[s] # 0
        BY <2>2 DEF Greeted, TypeOK, FeedTypeOK
      <4> QED
        BY <4>1, PosFacts DEF Height
    <3>4. \A c \in subscribers : book[c].src # NoSource
      BY <3>1, <3>3 DEF Books, Ours, Newer
    <3> QED
      BY <3>1, <3>2, <3>4 DEF clientVars, Books
  <2>4. CASE o \in Forwarded
    <3>1. /\ subscribers' = subscribers
          /\ \A c \in Client : book'[c] = IF c \in subscribers THEN Apply(Judged(book[c]), f)
                                                               ELSE book[c]
      BY <2>1, <2>4 DEF ShareOut
    <3>2. leader' = s
      BY <2>1, <2>4 DEF SnapshotFrame, Take, Forwarded
    <3>3. ASSUME NEW c \in subscribers PROVE book'[c].src = s /\ book'[c].faults = {}
      <4>1. book[c] \in Book /\ book'[c] = Apply(Judged(book[c]), f)
        BY <1>1, <3>1
      <4> QED
        BY <4>1 DEF Apply, Judged, Book
    <3> QED
      BY <3>1, <3>2, <3>3, ArbiterAssumption DEF Books
  <2> QED
    BY <2>3, <2>4
<1>10. ASSUME NEW c \in Client, NEW b, b = NoBook,
              UNCHANGED <<leader, last, conn, greet>>, subscribers' \subseteq subscribers,
              c \notin subscribers', book' = [book EXCEPT ![c] = b]
       PROVE  Books'
  <2>1. /\ \A d \in subscribers' : book'[d] = book[d]
        /\ \A d \in Client : book'[d].faults \in {book[d].faults, {}}
    BY <1>1, <1>10 DEF NoBook
  <2> QED
    BY <1>10, <2>1 DEF Books
<1>11. ASSUME NEW c \in Client, Join(c) PROVE Books'
  BY <1>10, <1>11 DEF Join, Park, entry, feedVars
<1>12. ASSUME NEW c \in Client, Leave(c) PROVE Books'
  BY <1>10, <1>12 DEF Leave, entry, feedVars
<1>13. ASSUME NEW c \in Client, NEW j \in DOMAIN fetch[c], Answer(c, j) \/ GiveUp(c, j)
       PROVE  Books'
  BY <1>2, <1>13 DEF Answer, GiveUp, entry, feedVars, clientVars
<1>14. ASSUME NEW c \in Client, NEW j \in DOMAIN fetch[c], Deliver(c, j) PROVE Books'
  <2> DEFINE s == fetch[c][j].src
             i == fetch[c][j].pos
  <2>1. UNCHANGED <<last, conn, greet>>
    BY <1>14 DEF Deliver, feedVars
  <2>2. CASE c \notin pending
    BY <1>2, <1>14, <2>1, <2>2 DEF Deliver, clientVars
  <2>3. CASE c \in pending
    <3>1. fetch[c][j] \in Task /\ held[c] \in Seq(Frame)
      BY ElementOfSeq, LenProperties DEF TypeOK, ClientTypeOK
    <3>2. s \in Source /\ i \in {0} \cup Pos
      BY <1>14, <3>1 DEF Deliver, Task
    <3>3. Sound(Rebuilt(s, i, held[c]), s)
      <4> HIDE DEF s, i
      <4> QED
        BY <3>1, <3>2, RebuiltIsSound
    <3>4. /\ subscribers' = subscribers \cup {c}
          /\ book' = [book EXCEPT ![c] = Rebuilt(s, i, held[c])]
          /\ leader' = IF Single THEN s ELSE leader
      BY <1>14, <2>3 DEF Deliver, Attach, Pin
    <3> DEFINE r == Rebuilt(s, i, held[c])
    <3>5. book'[c] = r /\ \A d \in Client \ {c} : book'[d] = book[d]
      BY <1>1, <3>4
    <3>6. r.src # NoSource /\ (Single => r.src = s) /\ r.faults \cap {"unfounded", "spliced"} = {}
      BY <3>3, RebuildAssumption DEF Sound
    <3>7. Single => subscribers' = {c}
      BY <1>1, <2>3, <3>4 DEF Alone
    <3> HIDE DEF r, s
    <3>8. \A d \in Client : book'[d].faults \cap {"unfounded", "spliced"} = {}
      BY <3>5, <3>6 DEF Books
    <3>9. CASE Single
      BY <2>1, <3>4, <3>5, <3>6, <3>7, <3>8, <3>9 DEF Books
    <3>10. CASE ~ Single
      BY <1>1, <2>1, <3>4, <3>5, <3>6, <3>8, <3>10 DEF Books
    <3> QED
      BY <3>9, <3>10
  <2> QED
    BY <2>2, <2>3
<1>15. CASE UNCHANGED vars
  BY <1>2, <1>15 DEF vars, entry
<1> QED
  BY <1>3, <1>4, <1>6, <1>7, <1>8, <1>9, <1>11, <1>12, <1>13, <1>14, <1>15
  DEF Next, FetchStep

LEMMA BooksInv == ASSUME Alone PROVE Spec => []Books
<1>1. Init => Books
  <2>1. BlockEnd(1) > 0
    <3>1. BlockEnd(1) \in Pos
      BY BlockEndProperties, PosFacts
    <3> QED
      BY <3>1 DEF Pos
  <2> SUFFICES ASSUME Init PROVE Books
    OBVIOUS
  <2>2. \A c \in Client : book[c].src = NoSource /\ book[c].faults = {}
    BY DEF Init, NoBook
  <2>3. leader = NoSource /\ last = 0 /\ \A s \in Source : greet[s]
    BY <2>1 DEF Init, EntryInit
  <2>4. subscribers \subseteq Client
    BY RebuildAssumption DEF Init
  <2> QED
    BY <2>2, <2>3, <2>4 DEF Books
<1> QED
  BY <1>1, BooksKept, TypeInv, PTL DEF Spec

(* Nothing is meant for a client before a snapshot is: the opening one for *)
(* those who were there first, a delivery for everybody else (on_update,   *)
(* deliver_snapshot).  It is said of what is decided under the entry's     *)
(* lock; the sends that follow are Fanout's.                               *)
THEOREM Founded == ASSUME Alone PROVE Spec => []NeverUnfounded
<1>1. Books => NeverUnfounded
  BY DEF Books, NeverUnfounded
<1> QED
  BY <1>1, BooksInv, PTL

(* And no increment of another node than its snapshot: on the channel that *)
(* follows one source, with a single client on the key, every delivery     *)
(* hands the lead to the source of the snapshot (deliver_snapshot).  On    *)
(* the one raced position by position a book is the same whoever it came   *)
(* from.                                                                   *)
THEOREM Unspliced == ASSUME Alone PROVE Spec => []NeverSpliced
<1>1. Books => NeverSpliced
  BY DEF Books, NeverSpliced
<1> QED
  BY <1>1, BooksInv, PTL

----------------------------------------------------------------------------
(* The two facts about `l4Book`; on `l2Diff` a delivery may hand the stream *)
(* to any source, and neither holds.                                        *)
Lost == conn \in [Source -> {"up", "lost", "down"}] /\ DeadDoesNotLead

(* On a channel raced position by position, a source whose task has dealt   *)
(* with its loss does not lead the key before it is back                    *)
(* (resync_after_source_loss, on_update).                                   *)
THEOREM DeadIsLetGo == ASSUME ~ Single PROVE Spec => []DeadDoesNotLead
<1>1. Init => Lost
  BY ArbiterAssumption DEF Init, EntryInit, Lost, DeadDoesNotLead
<1>2. Lost /\ [Next]_vars => Lost'
  <2> SUFFICES ASSUME Lost, [Next]_vars PROVE Lost'
    OBVIOUS
  <2>1. ASSUME UNCHANGED <<conn, leader>> PROVE Lost'
    BY <2>1 DEF Lost, DeadDoesNotLead
  <2>2. ASSUME NEW s \in Source, UNCHANGED conn, conn[s] = "up", leader' \in {s, leader}
        PROVE  Lost'
    BY <2>2 DEF Lost, DeadDoesNotLead
  <2>3. ASSUME NEW s \in Source, NEW who, Resync(s, who)
        PROVE  leader' # s /\ leader' \in {leader, NoSource}
    BY <2>3, ArbiterAssumption DEF Resync, Release, entry
  <2>4. ASSUME NEW s \in Source, Produce(s) PROVE Lost'
    BY <2>1, <2>4 DEF Produce, entry
  <2>5. ASSUME NEW s \in Source, Increment(s) PROVE Lost'
    <3>1. PICK o : BlockFrame(s, Height(cursor[s] + 1), o)
      BY <2>5 DEF Increment
    <3>2. leader' \in {s, leader}
      BY <3>1 DEF BlockFrame, Take, Keep
    <3> QED
      BY <2>2, <2>5, <3>2 DEF Increment
  <2>6. ASSUME NEW s \in Source, Greeting(s) PROVE Lost'
    <3>1. PICK o : SnapshotFrame(Single, s, Height(cursor[s]), o)
      BY <2>6 DEF Greeting
    <3>2. leader' \in {s, leader}
      BY <3>1 DEF SnapshotFrame, Take, Keep
    <3> QED
      BY <2>2, <2>6, <3>2 DEF Greeting
  <2>7. ASSUME NEW s \in Source, Drop(s) PROVE Lost'
    BY <2>7 DEF Drop, entry, Lost, DeadDoesNotLead
  <2>8. ASSUME NEW s \in Source, AfterDrop(s) PROVE Lost'
    <3>1. leader' # s /\ leader' \in {leader, NoSource}
      BY <2>3, <2>8 DEF AfterDrop
    <3> QED
      BY <2>8, <3>1, ArbiterAssumption DEF AfterDrop, Lost, DeadDoesNotLead
  <2>9. ASSUME NEW s \in Source, Silent(s) PROVE Lost'
    <3>1. leader' # s /\ leader' \in {leader, NoSource} /\ UNCHANGED conn
      BY <2>3, <2>9 DEF Silent, feedVars
    <3> QED
      BY <3>1, ArbiterAssumption DEF Lost, DeadDoesNotLead
  <2>10. ASSUME NEW s \in Source, Connect(s) PROVE Lost'
    BY <2>10 DEF Connect, entry, Lost, DeadDoesNotLead
  <2>11. ASSUME NEW c \in Client, Join(c) \/ Leave(c) PROVE Lost'
    BY <2>1, <2>11 DEF Join, Leave, entry, feedVars
  <2>12. ASSUME NEW c \in Client, NEW j \in DOMAIN fetch[c], FetchStep(c, j) PROVE Lost'
    BY <2>1, <2>12 DEF FetchStep, Answer, Deliver, Pin, GiveUp, entry, feedVars
  <2>13. CASE UNCHANGED vars
    BY <2>1, <2>13 DEF vars, entry
  <2> QED
    BY <2>4, <2>5, <2>6, <2>7, <2>8, <2>9, <2>10, <2>11, <2>12, <2>13 DEF Next
<1>3. Lost => DeadDoesNotLead
  BY DEF Lost
<1> QED
  BY <1>1, <1>2, <1>3, PTL DEF Spec

\* While no two sources share a bit, who owes a snapshot is written off.
Muted ==
    /\ DOMAIN cursor = Source /\ DOMAIN conn = Source
    /\ owes \subseteq Source
    /\ \A s \in owes : WrittenOff(s)

LEMMA OwnBit ==
    ASSUME NumSources <= MaskBits
    PROVE  \A s \in Source : Bit(s) = s
BY ArbiterAssumption DEF Source, Bit

LEMMA MutedInv ==
    ASSUME ~ Single, NumSources <= MaskBits
    PROVE  Spec => []Muted
<1>1. Init => Muted
  BY DEF Init, Muted
<1>2. Muted /\ [Next]_vars => Muted'
  <2> SUFFICES ASSUME Muted, [Next]_vars PROVE Muted'
    OBVIOUS
  <2>1. ASSUME NEW s \in Source, Increment(s) PROVE Muted'
    <3>1. PICK o : BlockFrame(s, Height(cursor[s] + 1), o)
      BY <2>1 DEF Increment
    <3> QED
      BY <2>1, <3>1 DEF Increment, BlockFrame, Muted, WrittenOff
  <2>2. ASSUME NEW s \in Source, Greeting(s) PROVE Muted'
    <3>1. PICK o : SnapshotFrame(Single, s, Height(cursor[s]), o)
      BY <2>2 DEF Greeting
    <3> QED
      BY <2>2, <3>1, OwnBit DEF Greeting, SnapshotFrame, Muted, WrittenOff
  <2>3. ASSUME NEW s \in Source, NEW who, Resync(s, who),
               UNCHANGED cursor, DOMAIN conn' = Source
        PROVE  Muted'
    BY <2>3 DEF Resync, Release, entry, Muted, WrittenOff
  <2>4. ASSUME NEW s \in Source, AfterDrop(s) \/ Silent(s) PROVE Muted'
    BY <2>3, <2>4 DEF AfterDrop, Silent, feedVars, Muted
  <2>5. ASSUME NEW s \in Source, Produce(s) \/ Drop(s) \/ Connect(s) PROVE Muted'
    BY <2>5 DEF Produce, Drop, Connect, entry, Muted, WrittenOff
  <2>6. ASSUME NEW c \in Client, Join(c) \/ Leave(c) PROVE Muted'
    BY <2>6 DEF Join, Leave, entry, feedVars, Muted, WrittenOff
  <2>7. ASSUME NEW c \in Client, NEW j \in DOMAIN fetch[c], FetchStep(c, j) PROVE Muted'
    BY <2>7 DEF FetchStep, Answer, Deliver, GiveUp, entry, feedVars, Muted, WrittenOff
  <2>8. CASE UNCHANGED vars
    BY <2>8 DEF vars, entry, Muted, WrittenOff
  <2> QED
    BY <2>1, <2>2, <2>4, <2>5, <2>6, <2>7, <2>8 DEF Next
<1> QED
  BY <1>1, <1>2, PTL DEF Spec

(* Up to 64 sources, a source written off moves nothing with what was still *)
(* on its socket: its increments reach no client, no backlog and no mark    *)
(* before it has sent a snapshot (on_update, Seq::Block).                   *)
THEOREM OwingIsMuted ==
    ASSUME ~ Single, NumSources <= MaskBits
    PROVE  Spec => WrittenOffIsMuted
<1>1. ASSUME Muted, [Next]_vars, NEW s \in owes, cursor'[s] # cursor[s], conn'[s] = conn[s]
      PROVE  UNCHANGED <<last, leader, held, book>>
  <2>1. PICK t \in Source : Increment(t) \/ Connect(t)
    BY <1>1 DEF Next, vars, Produce, Greeting, Drop, AfterDrop, Silent, Join, Leave,
               FetchStep, Answer, Deliver, GiveUp, feedVars
  <2>2. t = s
    BY <1>1, <2>1 DEF Increment, Connect, Muted
  <2>3. Increment(s)
    BY <1>1, <2>1, <2>2 DEF Connect, Muted
  <2>4. PICK o : /\ BlockFrame(s, Height(cursor[s] + 1), o)
                 /\ ShareOut([src |-> s, pos |-> cursor[s] + 1, snap |-> FALSE], o)
    BY <2>3 DEF Increment
  <2>5. o = "stale" /\ Keep
    BY <1>1, <2>4 DEF BlockFrame, Muted
  <2> QED
    BY <2>4, <2>5 DEF ShareOut, Forwarded, clientVars, Keep
<1>2. Muted /\ [Next]_vars =>
        [\A s \in owes : cursor'[s] # cursor[s] /\ conn'[s] = conn[s] =>
             UNCHANGED <<last, leader, held, book>>]_vars
  BY <1>1
<1> QED
  BY <1>2, MutedInv, PTL DEF Spec, WrittenOffIsMuted
=============================================================================
