----------------------------- MODULE TradesFeed -----------------------------
(***************************************************************************)
(* The `trades` channel.  The trades of a coin carry ids that rise; a      *)
(* source sends them in batches, and each node cuts its own batches.  A    *)
(* frame is ordered by the largest id in it, under `Seq::Point`.           *)
(*                                                                         *)
(* A source sends every trade once and in order, except for what it misses *)
(* while its socket is down or what the freshness gate refuses.            *)
(***************************************************************************)
EXTENDS Arbiter

CONSTANTS
    MaxTid,  \* bound: trades are numbered from 1 to MaxTid
    Cuts     \* for each source, the ids its batches end at

ASSUME TradesFeedAssumption ==
    /\ MaxTid \in Nat
    /\ Cuts \in [Source -> SUBSET (1 .. MaxTid)]

Tid == 1 .. MaxTid

VARIABLES
    pos,    \* the last trade each source has sent, or missed
    missed, \* history: the trades each source never got through to the proxy
    shown   \* history: how many times a trade was forwarded

tradesVars == <<entry, pos, missed, shown>>

TradesTypeOK ==
    /\ EntryTypeOK
    /\ pos \in [Source -> 0 .. MaxTid]
    /\ missed \in [Source -> SUBSET Tid]
    /\ shown \in [Tid -> Nat]

TradesInit ==
    /\ EntryInit
    /\ pos = [s \in Source |-> 0]
    /\ missed = [s \in Source |-> {}]
    /\ shown = [t \in Tid |-> 0]

\* The value route_raw orders a batch of the trades first .. newest by.
BatchId_First(first, newest) == first
BatchId(first, newest) == newest

\* c ends the next batch of s after p.
NextCut(s, p, c) ==
    /\ c \in Cuts[s]
    /\ c > p
    /\ \A d \in Cuts[s] : d > p => d >= c

\* A batch from s arrives: the trades after pos[s] up to its next cut.
Batch(s) ==
    \E c \in Tid, o \in Outcome :
        /\ NextCut(s, pos[s], c)
        /\ PointFrame(BatchId(pos[s] + 1, c), o)
        /\ pos' = [pos EXCEPT ![s] = c]
        /\ shown' = [t \in Tid |->
                        IF o \in Forwarded /\ t > pos[s] /\ t <= c
                        THEN shown[t] + 1 ELSE shown[t]]
        /\ UNCHANGED missed

\* The socket was down, or the gate refused the frames, up to some cut.
Miss(s) ==
    \E c \in Cuts[s] :
        /\ c > pos[s]
        /\ pos' = [pos EXCEPT ![s] = c]
        /\ missed' = [missed EXCEPT ![s] =
                        @ \cup {t \in Tid : t > pos[s] /\ t <= c}]
        /\ UNCHANGED <<entry, shown>>

TradesNext == \E s \in Source : Batch(s) \/ Miss(s)

TradesSpec == TradesInit /\ [][TradesNext]_tradesVars

----------------------------------------------------------------------------
(* A trade can only be lost where a source lost it first: every trade up   *)
(* to the mark was forwarded, or some source never got it through.  So two *)
(* gapless sources give a gapless stream, however they cut their batches;  *)
(* that is what ordering a batch by its largest id buys (route_raw).       *)
NothingLost ==
    \A t \in Tid : t <= last => shown[t] > 0 \/ \E s \in Source : t \in missed[s]

\* Every source has a batch of the trades after a up to c.
AllCut(a, c) ==
    \A s \in Source : /\ a \in Cuts[s] \cup {0}
                      /\ c \in Cuts[s]
                      /\ \A d \in Cuts[s] : d <= a \/ d >= c

(* "Forwarding each update once" (README.md:5), as far as it is true of    *)
(* this channel: a trade that every source sends in the same batch goes    *)
(* out once.  One that two nodes cut differently may go out twice, because *)
(* a batch is forwarded whole when its largest id is new (route_raw).      *)
OnceWhereAlike ==
    \A a \in {0} \cup Tid, c \in Tid :
        AllCut(a, c) => \A t \in Tid : a < t /\ t <= c => shown[t] <= 1
=============================================================================
