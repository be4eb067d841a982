------------------------------ MODULE LoadTest ------------------------------
(***************************************************************************)
(* The load tester beside the proxy it judges.  It subscribes to one `bbo` *)
(* market through the proxy and from every node directly, remembers where  *)
(* each frame was seen, and a window later decides what its absence from   *)
(* the proxy's stream means.  Only a frame found "lost", or one out of     *)
(* order, fails the proxy.                                                 *)
(*                                                                         *)
(* The proxy is the real one, the gate and `Seq::Lead` on the entry, with  *)
(* each winner sent after the unlock, except that it may swallow a frame   *)
(* it should have sent: then the verdict has something to find.  A frame   *)
(* is a stamp and a body; the tester knows it by its hash.  A node may     *)
(* send any stamp, replays among them, and nodes may send the same frame   *)
(* or each its own.                                                        *)
(***************************************************************************)
EXTENDS Arbiter, Sequences

CONSTANTS
    MaxStamp,  \* bound: stamps run from 1 to MaxStamp
    MaxFrames, \* bound: frames the nodes send in all
    MaxTime,   \* bound: where the clock stops
    FutureLimit, \* FUTURE_LIMIT
    MaxAge,    \* --max-age of the proxy; 0 turns the check off
    Window,    \* --window: how long a frame may take to show up everywhere
    Wsarb,     \* slot 0, the stream through the proxy
    Common     \* the body of a frame that is the same from every node

ASSUME LoadTestAssumption ==
    /\ MaxStamp \in Nat /\ MaxFrames \in Nat
    /\ FutureLimit \in Nat /\ MaxAge \in Nat
    /\ MaxTime \in Nat \ {0} /\ Window \in Nat \ {0}
    /\ Wsarb \notin Source /\ Common \notin Source

Stamp == 1 .. MaxStamp
Time == 1 .. MaxTime
Slot == Source \cup {Wsarb}
Frame == [stamp : Stamp, body : Source \cup {Common}]

VARIABLES
    inbound,    \* what each node has sent to the proxy and it has not read
    hand,       \* frames that won, which the tasks of their sources have yet to send
    wire,       \* what is on its way to the tester, for each slot
    midway,     \* the frame each reading thread is entering, when it read it, and
                \* whether it is in `seen` already
    time,       \* the clock of the tester and of the proxy
    running,    \* the run is not over
    sighted,    \* `seen`: for each frame: the slots it was seen on, when first, and
                \* how far the proxy's stream was then
    blocks,     \* for each stamp: when first seen, and whether on slot 0
    wsarbMax,   \* highest stamp seen on slot 0
    lastSeq,    \* the last stamp seen on slot 0
    violated,   \* a frame of slot 0 went back
    verdict,    \* what was concluded of which frame
    left,       \* frames the nodes may still send
    topSent,    \* history: newest stamp the proxy sent to its client
    swallowed,  \* history: stamps of frames the proxy swallowed
    refused,    \* history: stamps of frames it refused as too old or too new
    overtook,   \* history: a winner was sent before an older one still in hand
    opened,     \* history: when a frame of a stamp was first read, or 0
    disturbed,  \* history: stamps whose frames were not read all at one time,
                \* or were judged while some were still on their way
    unmet       \* history: frames judged when the proxy had sent nothing as new

path == <<inbound, hand, wire, midway, left>>
maps == <<sighted, blocks>>
order == <<wsarbMax, lastSeq, violated>>
sendings == <<topSent, swallowed, refused, overtook>>
judging == <<verdict, unmet>>
vars == <<entry, path, time, running, maps, order, judging, sendings, opened, disturbed>>

\* The proxy's gate, which compares the stamps with its clock.
Gated == INSTANCE Gate WITH now <- time

Fates == {"matched", "lost", "stale_dropped", "superseded", "skipped", "invented"}

TypeOK ==
    /\ EntryTypeOK
    /\ inbound \in [Source -> Seq(Frame)]
    /\ hand \subseteq [by : Source, frame : Frame]
    /\ \A g, h \in hand : g.by = h.by => g = h
    /\ wire \in [Slot -> Seq(Frame)]
    /\ midway \subseteq [on : Slot, frame : Frame, at : Time, seen : BOOLEAN]
    /\ \A m, n \in midway : m.on = n.on => m = n
    /\ time \in Time /\ running \in BOOLEAN
    /\ DOMAIN sighted \subseteq Frame
    /\ \A f \in DOMAIN sighted :
          sighted[f] \in [at : (SUBSET Slot) \ {{}}, born : Time, bornMax : Nat]
    /\ DOMAIN blocks \subseteq Stamp
    /\ \A v \in DOMAIN blocks : blocks[v] \in [born : Time, carried : BOOLEAN]
    /\ wsarbMax \in Nat /\ lastSeq \in Nat /\ violated \in BOOLEAN
    /\ verdict \subseteq Frame \X Fates
    /\ left \in 0 .. MaxFrames
    /\ topSent \in Nat /\ swallowed \subseteq Stamp /\ refused \subseteq Stamp
    /\ overtook \in BOOLEAN
    /\ opened \in [Stamp -> Time \cup {0}] /\ disturbed \subseteq Stamp
    /\ unmet \subseteq Frame

Init ==
    /\ EntryInit
    /\ inbound = [s \in Source |-> <<>>]
    /\ hand = {}
    /\ wire = [k \in Slot |-> <<>>]
    /\ midway = {}
    /\ left = MaxFrames
    /\ time = 1 /\ running = TRUE
    /\ sighted = <<>> /\ blocks = <<>>
    /\ wsarbMax = 0 /\ lastSeq = 0 /\ violated = FALSE
    /\ verdict = {} /\ unmet = {}
    /\ topSent = 0 /\ swallowed = {} /\ refused = {} /\ overtook = FALSE
    /\ opened = [v \in Stamp |-> 0] /\ disturbed = {}

----------------------------------------------------------------------------
(* The nodes and the proxy.                                                *)

Emit(s, f) ==
    /\ left > 0 /\ f.body \in {s, Common}
    /\ left' = left - 1
    /\ inbound' = [inbound EXCEPT ![s] = Append(@, f)]
    /\ wire' = [wire EXCEPT ![s] = Append(@, f)]
    /\ UNCHANGED <<entry, hand, midway, time, running, maps, order, judging, sendings,
                   opened, disturbed>>

\* handle_text, and on_update up to the unlock, for the next frame of s: the
\* gate may refuse it, and what is forwarded is about to be sent, or swallowed.
Arbitrate(s) ==
    /\ inbound[s] # <<>>
    /\ \A h \in hand : h.by # s
    /\ inbound' = [inbound EXCEPT ![s] = Tail(@)]
    /\ LET f == Head(inbound[s]) IN
       \/ /\ ~ Gated!Admitted(f.stamp)
          /\ refused' = refused \cup {f.stamp}
          /\ UNCHANGED <<entry, hand, swallowed>>
       \/ /\ Gated!Admitted(f.stamp)
          /\ \E o \in Outcome :
                /\ LeadFrame(s, f.stamp, o)
                /\ \/ /\ o \in Forwarded
                      /\ hand' = hand \cup {[by |-> s, frame |-> f]}
                      /\ UNCHANGED swallowed
                   \/ /\ o \in Forwarded
                      /\ swallowed' = swallowed \cup {f.stamp}
                      /\ UNCHANGED hand
                   \/ /\ o \notin Forwarded
                      /\ UNCHANGED <<hand, swallowed>>
          /\ UNCHANGED refused
    /\ UNCHANGED <<wire, midway, left, time, running, maps, order, judging,
                   topSent, overtook, opened, disturbed>>

\* on_update after the unlock: a task sends the frame it won with.
Forward(h) ==
    /\ hand' = hand \ {h}
    /\ wire' = [wire EXCEPT ![Wsarb] = Append(@, h.frame)]
    /\ topSent' = IF h.frame.stamp > topSent THEN h.frame.stamp ELSE topSent
    /\ overtook' = (overtook \/ \E g \in hand : g.frame.stamp < h.frame.stamp)
    /\ UNCHANGED <<entry, inbound, midway, left, time, running, maps, order, judging,
                   swallowed, refused, opened, disturbed>>

----------------------------------------------------------------------------
(* The tester's reading threads (run_stream), one for each slot.  A frame  *)
(* is entered in one map after the other, the other threads and the        *)
(* sweeper running beside it.  That slot 0 notes the stamp a moment before *)
(* the frame makes no difference: who sees it in between finds the stream  *)
(* no further than the frame itself.                                       *)

\* KeyStats::order, on slot 0.
Ordered(v) ==
    /\ violated' = (violated \/ v < lastSeq)
    /\ lastSeq' = v
    /\ wsarbMax' = IF v > wsarbMax THEN v ELSE wsarbMax

\* The next frame of slot k is read.
Read(k) ==
    /\ wire[k] # <<>>
    /\ \A m \in midway : m.on # k
    /\ wire' = [wire EXCEPT ![k] = Tail(@)]
    /\ LET f == Head(wire[k]) v == f.stamp IN
       /\ IF k = Wsarb THEN Ordered(v) ELSE UNCHANGED order
       /\ midway' = midway \cup {[on |-> k, frame |-> f, at |-> time, seen |-> FALSE]}
       /\ opened' = IF opened[v] = 0 THEN [opened EXCEPT ![v] = time] ELSE opened
       /\ disturbed' = IF opened[v] \in {0, time} THEN disturbed ELSE disturbed \cup {v}
    /\ UNCHANGED <<entry, inbound, hand, left, time, running, maps, judging, sendings>>

\* The frame is noted; when it is new, with how far the proxy's stream is by now.
See(m) ==
    /\ ~ m.seen
    /\ midway' = (midway \ {m}) \cup {[m EXCEPT !.seen = TRUE]}
    /\ sighted' = [g \in DOMAIN sighted \cup {m.frame} |->
        IF g # m.frame THEN sighted[g]
        ELSE IF g \in DOMAIN sighted THEN [sighted[g] EXCEPT !.at = @ \cup {m.on}]
        ELSE [at |-> {m.on}, born |-> m.at, bornMax |-> wsarbMax]]
    /\ UNCHANGED <<entry, inbound, hand, wire, left, time, running, blocks, order,
                   judging, sendings, opened, disturbed>>

\* And its stamp counted.
Count(m) ==
    /\ m.seen
    /\ midway' = midway \ {m}
    /\ LET v == m.frame.stamp IN
       blocks' = [w \in DOMAIN blocks \cup {v} |->
           IF w # v THEN blocks[w]
           ELSE IF v \in DOMAIN blocks
           THEN [blocks[v] EXCEPT !.carried = @ \/ m.on = Wsarb]
           ELSE [born |-> m.at, carried |-> m.on = Wsarb]]
    /\ UNCHANGED <<entry, inbound, hand, wire, left, time, running, sighted, order,
                   judging, sendings, opened, disturbed>>

----------------------------------------------------------------------------
(* The sweeper: judges the frames that are a window old, and drops the     *)
(* stamps that are.  Its pass over the two maps is one step: to come       *)
(* between them with a frame that matters a reader would have to stall for *)
(* a whole window.                                                         *)

Ripe(born) == time - born >= Window

Carried_Never(v) == FALSE
Carried(v) == v \in DOMAIN blocks /\ blocks[v].carried

\* What became of frame f.
Fate(f) ==
    LET ours == Wsarb \in sighted[f].at
        theirs == sighted[f].at \ {Wsarb} # {}
    IN  CASE ours /\ theirs -> "matched"
          [] ours /\ ~ theirs -> "invented"
          [] ~ ours /\ sighted[f].bornMax > f.stamp -> "stale_dropped"
          [] ~ ours /\ sighted[f].bornMax <= f.stamp /\ Carried(f.stamp) -> "superseded"
          [] ~ ours /\ sighted[f].bornMax <= f.stamp /\ ~ Carried(f.stamp) ->
                IF wsarbMax > f.stamp THEN "skipped" ELSE "lost"

Judged == {f \in DOMAIN sighted : Ripe(sighted[f].born)}

\* A frame of stamp v is still on its way, or the proxy's answer to one is.
Underway(v) ==
    \/ \E s \in Source : \E i \in DOMAIN inbound[s] : inbound[s][i].stamp = v
    \/ \E s \in Source : \E i \in DOMAIN wire[s] : wire[s][i].stamp = v
    \/ \E m \in midway : m.frame.stamp = v
    \/ \E h \in hand : h.frame.stamp >= v
    \/ \E i \in DOMAIN wire[Wsarb] : wire[Wsarb][i].stamp >= v

\* On the last pass what is not a window old is dropped undecided.
Sweep(finishing) ==
    /\ verdict' = verdict \cup {<<f, Fate(f)>> : f \in Judged}
    /\ sighted' = IF finishing THEN <<>>
                  ELSE [f \in DOMAIN sighted \ Judged |-> sighted[f]]
    /\ blocks' = IF finishing THEN <<>>
                 ELSE [v \in {w \in DOMAIN blocks : ~ Ripe(blocks[w].born)} |-> blocks[v]]
    /\ running' = ~ finishing
    /\ disturbed' = disturbed \cup {v \in {f.stamp : f \in Judged} : Underway(v)}
    /\ unmet' = unmet \cup {f \in Judged : f.stamp > topSent}
    /\ UNCHANGED <<entry, path, time, order, sendings, opened>>

ClockTick ==
    /\ time < MaxTime
    /\ time' = time + 1
    /\ UNCHANGED <<entry, path, running, maps, order, judging, sendings, opened, disturbed>>

Next ==
    /\ running
    /\ \/ \E s \in Source : Arbitrate(s) \/ \E f \in Frame : Emit(s, f)
       \/ \E h \in hand : Forward(h)
       \/ \E k \in Slot : Read(k)
       \/ \E m \in midway : See(m) \/ Count(m)
       \/ \E finishing \in BOOLEAN : Sweep(finishing)
       \/ ClockTick

Spec == Init /\ [][Next]_vars

----------------------------------------------------------------------------
Is(fate) == {f \in Frame : <<f, fate>> \in verdict}

(* The verdict is true: "only `lost` is a stamp the client never saw, with *)
(* nothing newer either" (loadtest.rs:1537), and every such stamp is       *)
(* found; a proxy that neither refused a frame of that stamp for its age   *)
(* nor swallowed one of it or a newer one is not failed for it; and        *)
(* nothing is called invented.  This is of stamps whose frames the tester  *)
(* read at one time and judged when none was on its way any more.  And the *)
(* order of the frames is held against the proxy only when two winners     *)
(* passed each other on their way out.                                     *)
VerdictIsTrue ==
    /\ violated => overtook
    /\ \A f \in Frame : f.stamp \notin disturbed =>
          /\ f \in Is("lost") <=> f \in unmet
          /\ f \in Is("lost") =>
                f.stamp \in refused \/ \E w \in swallowed : w >= f.stamp
          /\ f \notin Is("invented")
=============================================================================
