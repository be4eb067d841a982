# Verification of the websocket arbiter

The program is a proxy between websocket clients and several upstream
order-book servers that all follow one blockchain. It subscribes to every
upstream for what its clients ask for, and forwards each update once, from
whichever source brings it first. This directory holds TLA+ specifications of
that program, the TLC configurations that check them on small instances, and
proofs for every number of sources, clients and messages. Paths such as
`state.rs:684` are under `src/src/`.

## 1. The system

| part | state | operations | works with |
|---|---|---|---|
| Arbitration entry (`state.rs`, `SubEntry`) | high-water mark `last`, `block_leader`, `block_sent`, `block_seen`, two source masks | `on_update` under `Seq::Point`, `Lead`, `Sticky`, `Snapshot`, `Block`; `resync_after_source_loss` | called by every source task under the map's lock |
| Freshness gate (`upstream.rs`, `handle_text`) | none, it reads the clock | refuses frames ahead of the clock or older than `--max-age` | stands before the entry |
| Channel feeds (`upstream.rs`, `route_raw`) | none | choose the rule and the stamp of a frame | `bbo` is Lead, `l2Book` and `l2Diff` Sticky, `trades` Point, `orderUpdates` and `l4Book` Block |
| Snapshots and rebuilds (`state.rs`, `upstream.rs`) | parked clients with their backlogs; fetch tasks in flight | `subscribe` (late joiner), `fetch_snapshot`, `deliver_snapshot`, `fail_pending`, resync after a loss | the entry, throwaway connections to the sources |
| Registry (`state.rs`, `client.rs`) | a client's own set, the map of entries, the flag `upstream_subscribed` | `subscribe`, `unsubscribe`, `pin`, `detach`, `cleanup_client` | queues messages for the source tasks |
| Source task (`upstream.rs`, `run`) | the socket, a control queue, `connected` | connect, drain, resubscribe, read, forward, lose | entry, registry, resync |
| Fan-out (`state.rs`, `client.rs`) | a bounded queue for each client | `try_send`, or send-or-hang-up on incremental channels | after the entry is unlocked |
| Silence monitor (`main.rs`, `stats.rs`) | window counters, a reconnect permit | `roll_window`, `silent_sources`, bounce | resync, the source task |
| Keys and routing (`state.rs`, `upstream.rs`) | none | `SubKey::normalized` on the way in, `route` on the way back | every request and every frame |
| Load tester (`bin/loadtest.rs`) | frames and stamps seen on each stream, its counters | `run_stream`, `sweeper` | the proxy and every node, from the outside |
| JSON shapes, statistics page, command line, scripts | display, parsing and wiring | | not modelled |

What is hard in it:

* handlers run on several worker threads and hold no lock from end to end:
  subscribing, leaving and cleaning up take the client's set, then the entry,
  then the queues, then the map again;
* arbitration happens under a lock and the sends after it, so that one winner
  may overtake another on its way to a client;
* sources die, stall with the socket open, come back in the middle of a block,
  run ahead or lag behind, and cut the same data into other frames;
* a snapshot travels over another connection than the increments it is to be
  the base of, and its fetch may be answered late, by the wrong source, for a
  client that has left and come back, or not at all;
* a dead node keeps its socket open, so the only sign of its death is a silence
  that a quiet market shows as well, measured by counters that are rolled,
  judged and acted upon at different moments.

What makes each part correct:

* *feeds*: an update is committed to once and in order, and goes out once; what
  overtaking after the unlock can do to the order is bounded; none is lost that
  the sources brought, and one bad frame cannot silence a key;
* *rebuilds*: a client applies increments only to a book they belong to, is not
  left waiting, and is not fed by a source that was lost;
* *registry*: entries, client sets and upstream subscriptions agree as soon as
  nothing is under way, and every live source comes to stream what is wanted;
* *fan-out*: a client is sent each frame its snapshot leaves it once, and one
  that missed one is hung up;
* *monitor*: a dead leader is let go of and made to reconnect, a quiet market
  is not taken for a death, and the books of two nodes are not mixed;
* *routing*: both ends spell a key alike, and the rule fits the channel;
* *load tester*: it fails the proxy for what the proxy did and for nothing else.

The hazards this code is exposed to are listed in `PROJECT.json`, each at its
line with the properties that would catch it.

## 2. Modules

| module | models | state and actions in the code |
|---|---|---|
| `Arbiter` | one `SubEntry` | the entry's fields are the variables; `PointFrame`, `LeadFrame`, `StickyFrame`, `SnapshotFrame`, `BlockFrame` are the arms of `on_update`, `Release` is the loss of a leader. The last parameter of a frame action is what the handler does after unlocking: win, deliver, late, copy, stale |
| `Gate` | the clock checks of `handle_text` | `FromFuture`, `TooOld`, `Tick` |
| `LeadFeed` | `bbo` = `Arbiter` + `Gate` | `Frame(s, v)`: a frame stamped `v` arrives from source `s`, any stamp at any time, and a winner goes to the task's `hand`; `Send(s)` is what `on_update` does after the unlock |
| `TradesFeed` | `trades` on `Arbiter` | `Batch(s)`: the next batch of `s` by its own cuts; `Miss(s)`: batches that never got through |
| `BlockFeed` | `orderUpdates` on `Arbiter` | `ArriveWithin`, `ArriveNextBlock` are `on_update` up to the unlock, `Send` what follows it; `Miss` is a source that comes back further on: `Torn` names the blocks it may come back in the middle of |
| `OrderedFeed` | nothing in the code: what a reader of a raced channel is promised | `Commit` to the messages in chain order, `Give` each once, in any order among those due, `Lose` what a source failed to bring; `BlockFeed!Reader` is the refinement mapping |
| `Rebuild` | one incremental key: `Arbiter`, its clients, fetches and source connections; for each client, what is decided under the entry's lock that it is to be sent | an action for each handler, up to its unlock: `Increment`, `Greeting`, `Drop`, `AfterDrop`, `Silent`, `Connect`, `Join`, `Leave`, `Answer`, `Deliver`, `GiveUp`; `Produce` is the node behind a source |
| `Registry` | who is subscribed to what, at the granularity of threads | `Subscribe`/`Enter`/`Tell`/`Told`, `Unsubscribe`/`Leave`/`Tell`/`Told`, `Close` then one `Leave` for each key; `Connect`/`Resubscribe`/`Forward`/`Drop` of a source task. `raced` is no state of the code: it remembers the keys on which two handlers have run into each other |
| `Fanout` | one incremental key between the entry's lock and the sockets | `Win` is `on_update` under the lock, `Send` its sends after it, client by client; `Deliver` and `Hand` the same two halves of `deliver_snapshot`, whose snapshot is of any height and from any source; `Join`, `Leave` are `handle_request`, `Resync` is a loss; `Write`, `HangUp`, `GoAway`, `CleanUp` the tasks of a client's socket, and `late` a reader that was aborted in the middle of a poll; `SendAside` is what else the same queue carries, replies and frames of self-contained keys |
| `Silence` | the monitor, the source tasks and one `l2Book` key on `Arbiter` | `Roll`, `Judge`, `LetGo`, `Notify` are one tick of the monitor in `main.rs`; `Book` (up to the unlock), `Show` (after it), `Ack`, `Drop`, `Bounce`, `AfterLoss`, `Connect` a source task; `permit` is its `Notify` |
| `Routing` | spellings of a subscription, and the way of a frame back to its key | `Subscribe`, `Unsubscribe` are `handle_request` under any spelling; `Frame` is `handle_text`; `normalized`, `route` and `Rule` are the code's functions; `Meaning`, `Accepts`, `Described` and `Frames` say what the upstream does, as `src/` describes it |
| `LoadTest` | the load tester beside the proxy's `Arbiter` | `Read`, `See` and `Count` enter a frame in the maps one after the other (`run_stream`), `Sweep` is a pass of `sweeper`, `Fate` its verdict on a frame; `Arbitrate` is the proxy's gate and `on_update`, which may swallow what it should send, `Forward` its send after the unlock |

The state of a client is cut in three for checking: `Registry` has its
subscriptions, `Rebuild` what its book is built from, `Fanout` its queue. What
the monitor does to an incremental key is in `Rebuild` (`Silent`, at any time),
when it does so in `Silence`. They meet in `detach`, `deliver_snapshot` and the
parked list, which each of them models as far as its own state goes.

*Decided and sent.* `on_update` and `deliver_snapshot` decide under the entry's
lock and send after it (`state.rs:725` and `742-751`, `787` and `797-801`). `LeadFeed`,
`BlockFeed`, `Silence`, `Fanout` and `LoadTest` model both steps, so what they say
of sending is said with every overtaking in it; `TradesFeed` takes them together,
as its properties ask whether a batch goes out and not when. `Rebuild` models the first only: its
`NeverSpliced` and `NeverUnfounded` are about the order in which frames and
snapshots are *decided* to be a client's, which the lock makes one order, and not
about the order in which they reach its queue. The second is `Fanout`'s, where
an increment may pass the snapshot it belongs on (see *An increment before its
snapshot* below).

`MCTradesFeed`, `MCBlockFeed`, `MCRebuild` and `MCRouting` give the constants their values
for TLC; the other runs need only what a `.cfg` can say. The `_proof` modules
hold the theorems.

Operators whose name has an underscore (`Take_IdsFromOne`, `Orphans_None`) are
wrong versions of the operator they stand before. They take part in no
specification; they are there to show that a property notices the mistake.

**Abstractions.** Stamps, heights and trade ids are small numbers. A payload is
left out, except that `Rebuild` remembers whose snapshot each client's book
stands on. Counters of the statistics page are left out, but the outcome of a frame
says which of them would move. What the JSON of a frame looks like is left out; which
of its fields a key is made of is in `Routing`. The window counter of a source
grows without end in the code and is kept modulo `Every` above `First` in
`Silence`, which is all that the test for a due bounce sees of it. `LoadTest` has
one clock for the tester and the proxy, and the sweeper's pass over its two maps
is one step: a reader would have to stall for a whole window to come between
them with a frame that matters.

## 3. Runs

Passing runs:

| run | question | bounds |
|---|---|---|
| `LeadFeed` | does a `bbo` client follow one source through a stamp and miss none of its frames; how often may it be taken back to an older stamp (by each source once, with the frame that was overtaken); does a frame from the future cost only a bounded silence? | 2 sources, 4 stamps, 2 frames of each under a stamp, 3 clock values, both limits 1: stamps too old, too new and right at both limits occur |
| `TradesFeed` | is a trade ever lost that all nodes brought; does one that all cut alike go out once? | 3 sources, 6 trades, cuts that overlap, and a batch (4, 5) all three share |
| `BlockFeed` | do the positions of a block go out once while sources miss messages and come back anywhere; is a source credited with exactly what it sent; does the feed implement `OrderedFeed` (committed to in order, a hole only where a source missed it, each given once)? | 3 sources, blocks of 2, 2 and 1 messages, the second of them torn: a return at a block's start, in the middle of one, past it, and a block after a torn one occur |
| `Rebuild_l2` | `l2Diff`: is an increment ever meant for a client after the snapshot of another node; does a parked client always get out? | 1 client, 2 sources, a last block of two messages, 2 losses, backlog cap of 2 frames: the cap, a mid-block snapshot, both sources lost, and a source found silent that speaks again all occur |
| `Rebuild_l4` | `l4Book`: is an increment ever meant for a client before a snapshot is; is anybody parked with no fetch; does a lost source lead; does a written-off source matter before it snapshots? | 2 clients, 2 sources, 2 blocks, 1 loss, cap of 1, 2 fetches in flight: a client leaves and joins again while its first fetch is still out |
| `Registry` | while two threads interleave their handlers: do the client sets, the entries and the upstream subscriptions agree on every key on which no two handlers have run into each other; is anybody on an entry it did not ask for, or an entry left unfed; does a source come to stream what is held; is the probe kept? | 2 clients, 2 keys of which one is pinned, 1 source, 2 workers, handlers start while at most 2 messages are queued |
| `Fanout` | is a client sent what its snapshot leaves it once, and nothing else of its backlog, while sends, deliveries, resyncs and hang-ups interleave; is a client with a hole hung up; is one that is gone on no list? | 1 client, attached from the start, that is parked by a resync and leaves, joins and goes away at any moment; 2 source tasks, 2 fetches, 4 frames, a single-sourced key, queues of 1, backlog cap of 2: full queues, an evicted joiner, two deliveries at once, snapshots behind and ahead of the stream and from the wrong source, and a reader that subscribes after the cleanup occur |
| `Silence` | is anybody let go in a quiet market; are the books of two sources mixed, but for one in flight when the key is let go of; are bounces spaced; is a dead leader let go of and a silent source made to reconnect, in the end? | 2 sources, 2 stamps, limit of 1 window, first bounce at 2, then every 2: silence within and past the limit, a bounce and its retry, a tick that skips its due window, a permit left over, and losses between any two steps of the monitor occur |
| `Routing` | does a frame reach those who asked for its stream and nobody else; is it carried under one subscription; does its rule fit its channel? | 2 clients with 2 keys each, 1 coin, 1 address typed in 2 ways, 1 aggregation, the default depth, another and none: every spelling of every channel |
| `LoadTest` | is every loss found, is each one real, and does the proxy get blamed for the order only when a winner overtook another? | 2 nodes, 2 frames in all, 2 stamps, 3 clock values, window of 1, a future limit of 0 and an age limit of 1: frames that are too new and too old, replays, frames two nodes share and frames only one has, an overtaking, and the fates lost, superseded, skipped, stale and matched occur |

Two sources or clients are the smallest numbers at which they can disagree, and
a third source is used where a majority could hide a mistake. The key-by-key
state in the code makes one key enough for the feeds and for `Rebuild`;
`Registry` has two, so that a cleanup has one more to go on to and either may be
held by somebody else. It has one source: no property relates two, and all that
a second one changes is when it is told, which the theorems of section 4 cover
for any number; only `EverySourceStreams` is left to the one.

Runs that end in a counterexample, each a disagreement between the code and what
is said of it:

| run | what happens |
|---|---|
| `Rebuild_l2splice` | a late joiner's snapshot makes its source the leader (`state.rs:781`); a client attached to the old leader is switched to another node's increments |
| `Registry_forgotten` | two workers: a client subscribes between the moment `detach` finds the entry empty and the moment it removes it, and is removed with it |

*Raced keys.* Handlers get into each other's way in two places, and `raced`
notes the key at each: a client comes to an entry (`Enter`) that another's last
unsubscribe has found empty and not yet removed (`Removing`), and a client's
socket closes while its reader is in a subscribe (`Subscribing`). On such a key a
client may be forgotten, or stay on the entry after it has gone, for good. No
step reads `raced`, so it takes no behaviour away, and each property names it
only where it is needed: a connected client that has had its request dealt with is
on nothing it does not hold, and an entry with a client is fed, on raced keys too.

Passing runs stay inside what the code promises: `Rebuild_l2` has one client, as
with a second one `NeverSpliced` fails (`Rebuild_l2splice`); with two
workers `NobodyForgotten` fails (`Registry_forgotten`), so the properties of
`Registry` leave out, where they must, the keys in `raced`;
in `BlockFeed` a source that comes back in the middle of a block has its first
message counted as position 1, and may send a later one a second time
(`upstream.rs:119-122` resubscribes at any moment), so `ShownOnce`, `NoHole` and
the promise are about the blocks no source came back in the middle of
(`ShownOnce` over all of `Message` gives the trace). Which blocks these are is a
constant, so every way the sources can return is some instance.

Also found while modelling, without a run of its own:

* *A dead source may lead `l2Diff`.* A fetch is answered by a source whose
  stream is lost; the key is led by it and nothing frees it, as
  `silent_sources` passes over sources that are not connected. `DeadDoesNotLead`
  as an invariant of `Rebuild_l2.cfg` shows it.
* *A gap under a snapshot.* A snapshot may come from a node behind the stream,
  and what lies between it and the join is in neither the snapshot nor the
  backlog, against `state.rs:274-275` ("so that nothing is lost between the
  snapshot's height and the moment the client is attached"). It may come from one
  ahead of it, and what it has baked in is then sent again after the client is
  attached, as only the backlog is filtered by height (`state.rs:774`). Both are
  behaviours of `Fanout`: `EachFrameOnce` asks for what was forwarded *since the
  client was parked* and is not promised more.
* *An increment before its snapshot.* `deliver_snapshot` attaches the client and
  unlocks before it queues the snapshot (`state.rs:784` and `797-801`); in
  `Fanout` a `Win` and a `Send` between `Deliver` and `Hand` put an increment in
  front of it, against `state.rs:464-466` ("a late joiner must not see diffs
  before its own snapshot"). On `l2Diff` that increment may be of another node's
  book than the client's last snapshot, with a single client too.
  `EachFrameOnce` counts frames and does not look at their order.
* *A client that stays after its cleanup.* The reader that is aborted when the
  socket closes may be in the middle of a poll, on another thread, and subscribe
  after `cleanup_client` (`client.rs:56-68`): the client stays on the entry for
  good. It is `late` in `Fanout`, `raced` in `Registry`; without the exception
  `GoneIsGone` fails.
* *Muted on one channel only.* On `l2Diff` `WrittenOffIsMuted` fails, because
  `Seq::Sticky` never reads `needs_snapshot`; and on any key two sources that
  share a mask bit put each other back in play (`MaskBits = 1`).
* *A ghost entry.* A frame still on its way when its entry was removed makes the
  entry again (`state.rs:560`), so the next first subscriber does not start from
  nothing.
* *Two winners out of order.* Two source tasks that won two frames one after the
  other may send them the other way round, because the sends come after the
  unlock. "If the update from channel X is older it is just dropped"
  (`SPEC.md`) is therefore true of the entry's mark and not of what a client
  is sent. The feeds say what is left: on `bbo` each source can do so once
  after a newer stamp (`OvertakenOnce`), on `orderUpdates` only messages due
  together change places (`OrderedFeed`), on `l2Book` a book won before the key
  was let go of may follow the next source's (`OneBook`).
* *Trades cut differently.* A trade that two nodes put in different batches goes
  out twice, which is why `OnceWhereAlike` speaks of batches all cut the same.
* *A dead node is bounced more often than said.* Its server acknowledges the
  resubscription, which resets its silence, so it is bounced every `First`
  windows since its reconnect and never by `Every`, against `main.rs:48-51`.
  `BouncesSpaced` promises no more than what is left. By the same
  acknowledgements a dead leader is found silent later.
* *A permit left over.* `notify_one` for a source that has just dropped by itself
  is taken by its next connection, which is healthy (`Notify`, `Drop`,
  `AfterLoss`, `Connect`, `Bounce` in `Silence`).
* *The end of a quiet market.* The first source to speak after one makes the
  others look silent, against `state.rs:807-812`. `QuietMarketLetsNobodyGo`
  therefore says only that *somebody* was heard of late.
* *The load tester may fail an honest proxy.* The entry of a stamp is dropped a
  window after its first frame, so a frame of that stamp that comes later is
  counted lost though the client had the stamp (against `loadtest.rs:783-784`);
  a frame the proxy delivers later than a window counts as lost. `VerdictIsTrue`
  is about stamps to which neither happens, and `disturbed` says which do. Of the
  others two cases are left, which the property names: a frame the proxy refused
  for its age (`upstream.rs:387-424`) is lost to the tester, though the proxy did
  as it was told, and two winners that passed each other are a fault of order,
  though the proxy arbitrated them rightly.
* *Comments behind the code.* `state.rs:556-557` has `bbo` raced by position and
  `state.rs:193-201` has `l2Book` led by stamp; `route_raw` and the repository's
  README have them as they are modelled.

**Deadlock** is checked in `Silence` and `Routing`, which have no end. It
is not checked where a bound ends the behaviour: the sources come to the end of the bounded chain, the frames and the
clock of `Fanout` and `LoadTest` run out, and a bounded number of losses leaves
`Rebuild` and `Registry` with nothing to do.

**Fairness.** Safety is checked with none. `ParkingEnds` assumes that a fetch
task goes on (weak fairness of the first fetch of each client), which the code ensures with `SNAPSHOT_TIMEOUT` on each source and
a finite list of sources. No progress of the nodes or sockets is assumed.
`HolesAreClosed` assumes that a client's socket task wakes on its permit and
cleans up, which waits for nobody; the writer, the sources and the fetches may
stop. `EverySourceStreams` assumes that a handler that has started goes on (it never
awaits; weak fairness of each task's steps), and that a source task gets its turn
again and again (strong fairness of `Turn`: it waits for a free worker among
others, the reconnect loop never gives up, and the loop's `select!` picks among
its ready branches at random). The property asks that a source *comes to* stream
a key that is still held, again and again, so a source that is lost for good is
excluded by the fairness and one that flaps is not. In `Silence` the monitor goes on (its ticker never stops), and a
source task sends what it has in hand, takes a permit it was left and, once it has
left its loop, goes on to the resync and to a new connection (weak fairness of
`Monitor` and, for each source, of `Onward`, which is `Show`, `Bounce`,
`AfterLoss` or `Connect` and never a choice of two); nothing is assumed of packets, except where `DeadLeaderLetGo` and
`SilentIsReconnected` say that another source goes on speaking.

## 4. Proofs

All proofs hold for any number of sources (and of clients, keys and workers
where a module has them), and for any size of the other constants. Every safety
property of the passing runs is proved.

* `Feeds_proof`, of `LeadFeed`: the type invariant, `OneSourcePerStamp`,
  `LeaderComplete`, `MarkWithinReach` and `OvertakenOnce`. The invariant `IInv`
  adds what none of them says alone: nothing has been admitted, won or sent above
  the mark; a frame in a task's hands counts as won, and the winners on the open
  stamp are its leader alone; and a source that has an older frame in hand has
  not yet taken the client back past the stamp, while the source that brought
  the stamp has none (`Overtaking`).
  `MarkWithinReach` needs of it only that the mark moves to an admitted stamp
  and the clock does not go back. Of `TradesFeed`: `NothingLost` and
  `OnceWhereAlike`. A trade at or below a source's position was forwarded, or
  missed there, or is above the mark; and a batch that everybody cuts alike has
  either not reached the mark, and nothing of it was shown, or has, and no
  source can bring it as new again. The two feeds share the entry and nothing
  else, so `TradesFeed` names its variables, `Init`, `Next` and `Spec` after
  itself to be extended beside `LeadFeed`.
* `BlockFeed_proof`: the type invariant; `CountsAreTrue`, in torn blocks too
  (`Credit`: what a source in the open block sent of it and what it missed of it
  make up its place in it); and of the blocks that are not torn `ShownOnce`,
  `NoHole` and that `BlockFeed` implements `OrderedFeed`. `BlockInv` ties the
  entry to the sources: what is sent or in hand of a whole open block is exactly
  its first `sent` messages, a message is in one hand at most and in none once it
  was sent, and every source vouches for all that is behind its cursor. The
  theorems assume nothing of which blocks are torn: whatever those do to the entry
  is over when the next block begins.
* `Fanout_proof`: `GoneIsGone`, the type invariant and `EachFrameOnce`, for any
  number of clients and source tasks, queues of any depth, and snapshots of any
  height and from any source. The first needs that whoever is on a list is
  connected, or has a reader that is not through: a fetch attaches only whom it
  finds parked, and the cleanup leaves both lists. `EachFrameOnce` speaks of what
  has been written, and a frame is written long after it was taken for a client,
  so the invariant `Tally` counts the copies of a frame wherever they are: in the
  hands of a task that sends it, in a delivery's, queued, written. Of a client
  that is not gone or to be hung up there is never more than one copy; none, while
  it is parked, of what came since it was; and once it is attached one exactly of
  what it is due, which is all that was forwarded since and what its snapshot
  leaves of its backlog. The backlog of a parked client has every frame
  forwarded since it was parked. From then on a frame only changes places, and
  each action is one move between two places or none.
* `Rebuild_proof`: the type invariant (with the cap on the backlog) and `ParkedIsFetched` on both channels; on `l4Book` alone
  (`~ Single`) `DeadDoesNotLead` and, while there are no more sources than mask
  bits, `WrittenOffIsMuted`; and `NeverUnfounded` and `NeverSpliced` under
  `Alone`, which asks for no more than one client on `l2Diff` and asks nothing
  on `l4Book`. `ParkedIsFetched` needs the shape of the lists of fetches:
  whoever is parked by a join or a resync is given a fetch in the same step, and
  a fetch that ends takes its client off the parked list. `WrittenOffIsMuted`
  needs that every source that owes a snapshot is in the mask, which a shared
  bit breaks. The last two need the invariant `Books`: an attached client has had no
  snapshot decided for it only before any source has been read past its greeting, and on `l2Diff`
  the leader is the source that every book on the list comes from. With a second
  client on `l2Diff` both are false, for one reason: a delivery pins its own
  leader under the clients already attached (the run `Rebuild_l2splice`). Both are
  about what is decided under the lock (section 2).
* `Silence_proof`: the type invariant, `OneBook` (a book in a task's hands is the
  leader's, at the mark, unless the key was let go of since it was won, and the
  book last sent is the leader's, at the mark or below),
  `BouncesSpaced` (below `First` a source has not been silent for longer than
  since it was last told to reconnect, nor past `First` for longer than that
  many windows more, so when a bounce is due the last is `First` windows old)
  and `QuietMarketLetsNobodyGo` (there were no more judgements since the last
  packet of anybody than the windows any one source has been silent for, but
  for the one under way).
* `Routing_proof`: the type invariant, `RoutedHome`, `CarriedOnce` and
  `RuleFitsChannel` for any coins, addresses and parameters. The invariant is
  that a client holds exactly the normal spellings of what it asked for, and the
  upstream carries exactly what is held.
* `Registry_proof`: for any number of worker threads, the type invariant, in
  which a handler at work always has a key to work on; `PinnedStays`, which needs
  that a handler telling the sources to unsubscribe is never about a pinned key;
  and `OnlyRacesForget`, `NobodyLingers` and `UpstreamAgrees`. Each of the three
  compares places that a handler updates one after the other while other handlers
  do the same, so none is inductive. What is true between the steps is said by
  four invariants, each resting on those before it:
  * `AskedInv`: until its client closes, a reader subscribes only to what the
    client holds, and the client is on another entry only while that reader is
    about to take it off. No other handler ever puts it there, and a removal of
    the entry only takes away. This is half of `NobodyLingers`, on any key.
  * `FedInv`: of every flagged key and every source that is not down, its queue
    carries the key, or a handler has yet to queue the subscribe there, or a
    handler is at work which will remove the entry. The last case is what makes
    it hold on raced keys: a subscribe that an unsubscribe overtook in the queue
    belongs to an entry about to go. A source that has drained its queue and not
    yet resubscribed counts from the flags.
  * `LedgerInv`: on an unraced key, whoever holds it is on its entry or its
    reader is about to put it there (`Listed`), and whoever is on the entry holds
    it or has a handler that is to take it off (`Left`). It needs that the races
    are all noticed (`Noticed`: nobody is on an unraced entry that is being
    removed, and no client that has closed is subscribing to an unraced key),
    that a flag is there for a client or a pin (`Needed`), and that no handler has
    a key to do twice, or one that its client still holds (`Tidy`).
  * `UnfedInv`, the converse of `FedInv` on unraced keys: what has lost its flag
    is not carried by a queue that no handler has yet to put an unsubscribe on.
    Who tells a source to subscribe to an unraced key holds it and is on its
    entry, so that the flag is there (`SubscribedHasFlag`).

  The last two use `KeyByKey`: what a queue makes of one key depends on no other.
  `OneWorker` shows what the races cost: with one worker thread (`Workers = 1`)
  `raced` stays empty, so all of this holds of every key, and `NobodyForgotten`
  holds, which is false of two (the run `Registry_forgotten`).
* `LoadTest_proof`: the type invariant and `VerdictIsTrue`, for any nodes, which
  may send any stamp, any window and any length of the run. The verdict is
  passed on what the tester remembers, and says something of what the proxy
  did; the invariant `Account` ties the two while the tester runs. The last thing
  the proxy took was sent, swallowed or is in a task's hands, and its stream rises
  until one winner overtakes another (`Rising`); what the tester's maps say of the
  proxy's stream, that stream has come to (`Noted`); a frame a node sent has been
  arbitrated or refused, or waits for it (`Offered`); of a frame that came by the
  proxy a node's copy was read or will be (`Traced`), so nothing is called
  invented; and the frames of an undisturbed stamp that were read at one time are
  judged at one time (`AtOnce`), until when the stamp's entry, or the thread that
  has yet to enter it, tells whether the client had it.

The proofs assume of the constants what the modules' `ASSUME`s say (among them
that clients and tasks are finitely many, and that the nodes of `Rebuild` have
finished a block before the first client comes), and beyond that only the
hypotheses named above, which stand in the theorems that need them:
`~ Single`, enough mask bits, `Alone` and, in `OneWorker`,
`Workers = 1`. Each
is a case the program meets (the `l4Book` channel, few sources, a key with one subscriber, a machine with one
core), and none can be dropped: the run or the paragraph of section 3 that
shows why is named with the property.

What the folds over sequences compute (`Worked`, `Rebuilt`) is proved by induction on a set of lengths (the lemma `Induction`,
from the fact that the naturals are well-founded), because the library's
theorem is stated for an operator and cannot be instantiated by the provers at
hand. Each module of proofs stands alone, so that lemma and the few on maxima
that a fold's definition needs are repeated where they are used.

Only model-checked: the liveness properties (`ParkingEnds`, `HolesAreClosed`,
`EverySourceStreams`, `DeadLeaderLetGo`, `SilentIsReconnected`), as liveness
under fairness is outside what the proof system handles.

## 5. Not modelled, and what comes next

Left out for good: the shapes of the JSON and the texts of acknowledgements and
errors (parsing and wording), the statistics page and its HTML (display; the one
counter that is read back is `Silence`'s), argument parsing, logging and
listeners (I/O), the scripts (other programs), the reconnect backoff (a delay; no
property depends on its length). Of the load tester, the stalls, the ages, the
noise-floor twin and the report are measurements and are left out; `close()`,
which counts the gap still open at the end, sets its limit from a quantile of
hundreds of gaps and would need a bound that large.

What could be added: `Registry` composed with `Rebuild` for the last client
leaving with the entry, the ghost entry of a late frame and the opening snapshot
it hides, which is the hazard at `state.rs:560` that no property covers.
