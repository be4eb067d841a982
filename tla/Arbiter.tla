------------------------------ MODULE Arbiter ------------------------------
(***************************************************************************)
(* The arbitration state of one subscription key (`SubEntry` in state.rs)  *)
(* and the five rules of `AppState::on_update` that decide what becomes of *)
(* a frame.  A rule is an action on the entry made under the map's lock;   *)
(* its last parameter is the outcome the handler acts on after unlocking:  *)
(*                                                                         *)
(*   "win"      forwarded, and charged to the source as a win              *)
(*   "deliver"  forwarded, but not a win                                   *)
(*   "late"     not forwarded; one lateness sample for the source          *)
(*   "copy"     not forwarded, and the source was already sampled          *)
(*   "stale"    not forwarded, counted as stale                            *)
(*                                                                         *)
(* The module has no Init/Next of its own: each channel's feed adds the    *)
(* sources that speak on it and picks the rule its frames are routed to.   *)
(***************************************************************************)
EXTENDS Naturals

CONSTANTS
    NumSources,  \* how many upstream endpoints the proxy was given
    MaskBits,    \* width of the per-entry source masks (64 in the code)
    NoSource     \* `block_leader: None`

Source == 0 .. NumSources - 1

ASSUME ArbiterAssumption ==
    /\ NumSources \in Nat \ {0}
    /\ MaskBits \in Nat \ {0}
    /\ NoSource \notin Source

VARIABLES
    last,          \* newest stamp seen across all sources
    leader,        \* the source carrying the block, the stamp or the stream
    sampled,       \* mask: sources already charged a lateness sample
    sent,          \* messages of the open block that have been forwarded
    seen,          \* messages of the open block each source has delivered
    needsSnapshot  \* mask: sources written off until they snapshot again

entry == <<last, leader, sampled, sent, seen, needsSnapshot>>

\* The bit of a source in the masks; sources a mask's width apart share one.
Bit(s) == s % MaskBits

EntryTypeOK ==
    /\ last \in Nat
    /\ leader \in Source \cup {NoSource}
    /\ sampled \subseteq 0 .. MaskBits - 1
    /\ sent \in Nat
    /\ seen \in [Source -> Nat]
    /\ needsSnapshot \subseteq 0 .. MaskBits - 1

\* SubEntry::default(): a key nobody has spoken on yet.
EntryInit ==
    /\ last = 0
    /\ leader = NoSource
    /\ sampled = {}
    /\ sent = 0
    /\ seen = [s \in Source |-> 0]
    /\ needsSnapshot = {}

Forwarded == {"win", "deliver"}
Outcome == Forwarded \cup {"late", "copy", "stale"}

----------------------------------------------------------------------------
\* A stamp nobody has reached yet.
Newer_OrEqual(v) == v >= last
Newer_OrOlder(v) == v # last
Newer(v) == v > last

\* Point: newest wins, an equal stamp is a slower source's copy.
PointFrame(v, out) ==
    /\ \/ Newer(v) /\ out = "win" /\ last' = v
       \/ v = last /\ out = "late" /\ UNCHANGED last
       \/ v < last /\ out = "stale" /\ UNCHANGED last
    /\ UNCHANGED <<leader, sampled, sent, seen, needsSnapshot>>

\* Source s carries the key at stamp v from here on.
Take_IdsFromOne(s, v) == last' = v /\ leader' = s + 1
Take(s, v) == last' = v /\ leader' = s

Keep == UNCHANGED <<last, leader>>

Leads_Anyone(s) == TRUE
Leads_Nobody(s) == FALSE
Leads(s) == leader = s

\* Lead: whoever opens a stamp carries it to its end.
LeadFrame(s, v, out) ==
    /\ \/ Newer(v) /\ out = "win" /\ Take(s, v)
       \/ v = last /\ Leads(s) /\ out = "deliver" /\ Keep
       \/ v = last /\ ~ Leads(s) /\ out = "late" /\ Keep
       \/ v < last /\ out = "stale" /\ Keep
    /\ UNCHANGED <<sampled, sent, seen, needsSnapshot>>

\* Sticky: the first to speak carries the whole stream, until it is lost.
StickyFrame(s, v, out) ==
    /\ \/ leader = NoSource /\ out = "win" /\ Take(s, v)
       \/ Leads(s) /\ Newer(v) /\ out = "win" /\ Take(s, v)
       \/ Leads(s) /\ v = last /\ out = "deliver" /\ Keep
       \/ Leads(s) /\ v < last /\ out = "stale" /\ Keep
       \/ leader \notin {s, NoSource} /\ out = "late" /\ Keep
    /\ UNCHANGED <<sampled, sent, seen, needsSnapshot>>

\* SubEntry::open_block: s has supplied the first message of a newer block.
OpenBlock_KeepsSent(s) ==
    /\ sampled' = {Bit(s)}
    /\ UNCHANGED sent
    /\ seen' = [t \in Source |-> IF t = s THEN 1 ELSE 0]

OpenBlock_KeepsSeen(s) ==
    /\ sampled' = {Bit(s)}
    /\ sent' = 1
    /\ seen' = [seen EXCEPT ![s] = 1]

OpenBlock(s) ==
    /\ sampled' = {Bit(s)}
    /\ sent' = 1
    /\ seen' = [t \in Source |-> IF t = s THEN 1 ELSE 0]

\* On a single-sourced channel only the source being followed may reset it.
Ours(single, s) == single => leader \in {s, NoSource}

SnapshotFrame(single, s, h, out) ==
    /\ needsSnapshot' = needsSnapshot \ {Bit(s)}
    /\ \/ /\ Ours(single, s) /\ Newer(h)
          /\ out = "win"
          /\ Take(s, h)
          /\ OpenBlock(s)
       \/ /\ ~ (Ours(single, s) /\ Newer(h))
          /\ out = "stale"
          /\ Keep
          /\ UNCHANGED <<sampled, sent, seen>>

\* Block: the positions of a block are raced one by one.
Bump(s) == seen' = [seen EXCEPT ![s] = @ + 1]

WrittenOff_Never(s) == FALSE
WrittenOff(s) == Bit(s) \in needsSnapshot

BlockFrame(s, h, out) ==
    /\ \/ /\ ~ WrittenOff(s) /\ Newer(h)
          /\ out = "win"
          /\ Take(s, h)
          /\ OpenBlock(s)
       \/ /\ ~ WrittenOff(s) /\ h = last
          /\ Bump(s)
          /\ seen'[s] > sent
          /\ out = "deliver"
          /\ Take(s, h)
          /\ sent' = seen'[s]
          /\ UNCHANGED sampled
       \/ /\ ~ WrittenOff(s) /\ h = last
          /\ Bump(s)
          /\ seen'[s] <= sent
          /\ out = IF Bit(s) \in sampled THEN "copy" ELSE "late"
          /\ sampled' = sampled \cup {Bit(s)}
          /\ Keep
          /\ UNCHANGED sent
       \/ /\ WrittenOff(s) \/ h < last
          /\ out = "stale"
          /\ Keep
          /\ UNCHANGED <<sampled, sent, seen>>
    /\ UNCHANGED needsSnapshot

----------------------------------------------------------------------------
\* resync_after_source_loss, for a key source s was leading.  The height goes
\* with the leadership; on an incremental key s is written off as well.
Release_KeepsLeader(s, incremental) ==
    /\ leader = s
    /\ last' = 0
    /\ UNCHANGED <<leader, sampled, sent, seen, needsSnapshot>>

Release(s, incremental) ==
    /\ leader = s
    /\ leader' = NoSource
    /\ sampled' = {}
    /\ last' = 0
    /\ needsSnapshot' = IF incremental THEN needsSnapshot \cup {Bit(s)}
                                       ELSE needsSnapshot
    /\ UNCHANGED <<sent, seen>>
=============================================================================
