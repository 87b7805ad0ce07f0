# TLA+ verification of polymarket-mcp-rs

Specifications, model-checking runs and machine-checked proofs for the server in
`src/`. The code is the reference: each definition names, in `PROJECT.json` under
`map`, the lines it is translated from. Paths below are relative to the
repository, so the crate is `src/src/*.rs` here.

## 1. Inventory

One process serves MCP tools over stdio or HTTP. `App` (app.rs) owns every service and
is shared by all tool calls, which run concurrently on a multi-threaded tokio runtime
(`#[tokio::main]`, main.rs:69).

| Component | State it keeps | Operations | Talks to |
|---|---|---|---|
| Trading approvals, `trading.rs` | `approvals` map (tokio mutex), `context` (tokio mutex), audit table in SQLite | preview, place, place_batch, approval_status, account reads, cancellations | exchange (post_order), SQLite, user realtime |
| Market watches, `realtime.rs` | `watches` map (RwLock), one task per watch, two broadcast channels (4096) | watch_markets, stop, stop_all, snapshot, status, events, the task's connect and receive loop | CLOB WebSocket, recorder |
| User watches, `user_realtime.rs` | `watches` map (RwLock), one task per watch | watch, stop, stop_all, events, status | SDK WebSocket client, trading |
| Recorder, `recorder.rs` | `active` map (tokio mutex), one forwarding task and one writer thread per recording, three SQLite tables | start, stop, stop_all, list, replay, replay_events, recovery in `new` | market watches (broadcast), SQLite |
| HTTP transport, `http.rs` | rate windows per address (mutex), counters | observe, allow_request, metrics | MCP service |
| Brief cache, `app.rs:222` | map with insertion times (RwLock) | get_market_brief | Gamma, CLOB |
| Lifecycle, `main.rs`, `App::shutdown` | signal task, service | serve_stdio, shutdown | recorder, watches, trading |
| Tool profiles, `server.rs:50` | none | routing of tools by profile | App |
| Research algorithms, `app.rs` | none | book analysis, fill simulation, downsampling, pagination | polymarket.rs |
| REST client and schemas, `polymarket.rs`, `types.rs`, `error.rs`, `lib.rs` | none | one request each | Gamma, Data, CLOB |
| Diagnostics, `diagnostics.rs` | none | doctor | REST client |

What is hard, and what makes each component correct:

* **Trading.** Two calls can name the same approval; an approval is claimed by a
  compare-and-set on its row, before a wait for a mutex that is held across network
  requests; the process can stop, and any audit write can fail, at every step in between. Correct means: no
  order is sent twice, no order that may exist ever reads as not sent, nobody deadlocks.
* **Market watches.** Registration checks under a read lock and again under a write lock;
  a task runs on after its watch was stopped, until it sees the cancellation; every
  access of the task to its state finds it by id and does nothing when it is gone. Correct means: at most 16
  watches and one per token list, every registered watch attended by a task, no stopped
  watch touched again, no event lost without a sign to the poller.
* **Market feed.** Books are kept by full snapshots and deltas; a delta finds its level by the
  text of its price, and a message that does not deserialise is skipped while the connection stays up. Correct
  means: in step with the exchange but for these two, each of which touches its own token only and is put right by the
  next snapshot; in executable order always.
* **User watches.** The same registry, plus a poll that overwrites the connection state.
* **Recorder.** Updates reach the disk over a lossy broadcast, a forwarding task, a bounded
  channel and a thread. Correct means: every update is written or counted as dropped, and a stopped
  recording is complete up to its stop.
* **HTTP.** A fixed window per address; a gauge of requests in flight that must return to
  zero although a request's future can be dropped at any await.
* **Brief cache.** Concurrent misses, a bound of 256 entries, a time to live, calls that go on after their
  requests are gone.
* **Lifecycle.** Recordings are stopped before the watches that feed them.
* **Algorithms.** Exact decimals: what a fill costs, what a book is worth at a depth.

## 2. Plan

In order of what matters most to a user of the server; a module that is proved about
declares no RECURSIVE operator.

| # | Modules | What they say | Status |
|---|---|---|---|
| 1 | `Trading`, `SingleUseApproval`, `TradingRefinement`, and `TradingProofs` | approval lifecycle, implements a single-use approval | done |
| 2 | `MarketWatches` and its proofs | registry, task lifecycle, cancellation, health counters | done |
| 3 | `EventLog`, `GapAwareLog`, and the proofs | ring of 1024 events and cursors that poll it, implements an abstract gap-aware log | done |
| 4 | `MarketFeed`, which extends `EventLog` and `Ordering`, and `MarketFeedProofs` | REST seed, snapshots, deltas, one book per token against the exchange's book | done |
| 5 | `Recorder` | broadcast, forwarding task, writer, stop, crash and recovery | done |
| 6 | `UserWatches`, which extends `EventLog` | the authenticated registry, its loop, its retained events | done |
| 7 | `BriefCache`, and `PublicHttp`, which extends it | rate windows, the gauge and the cache under requests that are dropped anywhere | done |
| 8 | `BookMath` | what is computed of books and histories, pure definitions | checked through 9 |
| 9 | `MarketListing`, and `MarketResearch`, which extends it and `BookMath` | pages of a moving listing; fan-outs whose answers come in any order | done |

`MarketFeed` and `UserWatches` compose with `EventLog`, `PublicHttp` with `BriefCache`,
`MarketResearch` with `MarketListing` and `BookMath`. Every safety property of the passing runs is proved;
the liveness properties are model-checked.

`Ordering` states what `sort_by` and `retain` return by counting, for each element, those ahead of it:
a definition the provers can expand, unlike the recursive functions of the library.
`SequenceLemmas` holds what several proofs need and the library states in a form the
provers cannot use: induction as a property of a set of numbers or of a finite set
(`Induction`, `SubsetInduction`), a fold as the last state of a run of its steps
(`FoldRuns`), what sorting and filtering give (`ArrangedFacts`), sums over a set that grow with
one of their terms (`SumBumped`), and the library's sum of a function, whatever order it adds in: larger
terms, sums of sums, multiples, parts, and the same terms met one after the other (`SumAtMost`,
`SumPlus`, `SumTimes`, `SumOfPart`, `SumAlong`). What a fold or a sort computes is proved from these, for
every input.

## 3. Trading approvals

### How the module corresponds to the code

`Trading.tla` models `TradingService`. Each of the concurrent tool calls (`Calls`) has a program
counter; one step is one access to state that others see:

| Variable | Code |
|---|---|
| `status`, `orderIds` | `order_approval_audit.status`, and whether `order_ids_json` is not empty (trading.rs:1050) |
| `plans` | keys of `approvals` (trading.rs:53) |
| `approvalsLock`, `contextLock` | who holds the two tokio mutexes; only critical sections that contain an await or another access keep the lock over a step |
| `authenticated` | `context` is `Some` (trading.rs:866) |
| `pc`, `kind`, `ids`, `at`, `answered` | where each call is, which handler it runs, its ids, the loop over the batch, the exchange's answer |
| `due` | the ids for which `now_ms() > expires_at_ms` |
| `sent` | a history: how often `post_order`/`post_orders` left the process with that order |

| Action | Lines | Remarks |
|---|---|---|
| `StartPreview`, `Remember` | 310, 311 | row first, plan second, with an await between |
| `StartPlace` | 353-373 | lookup and clock under no lasting lock |
| `StartBatch`, `CheckBatch` | 510-547 | under the approvals mutex; the first bad id decides |
| `MarkExpired` | 363, 525 | an unconditional UPDATE |
| `Claim` | 1096, 1118 | compare-and-set, all ids of a batch in one transaction |
| `EnterContext`, `Authenticate`, `Validate`, `Release` | 375-465, 550-581 | each failure gives the approval back by an unconditional write |
| `Submit`, `Post`, `Answer` | 466-467, 582-583 | |
| `Forget`, `RecordResult`, `SettleUnknown` | 471-490, 587-618 | remove from memory, then write the outcome |
| `StartAccountRequest`, `AccountRequest` | 626-842 | contend for the context mutex |
| `PassDeadline` | 295 | the clock passes the deadline of an approval |
| `Crash` | external | the process ends at any point and starts again on the same database |

Abstractions. A call that is rejected before it reads shared state is no step. What
`preview` computes from its arguments is one number, `Notional[id]`. Every id stands for one fresh
`approval-<ms>-<n>`; the primary key makes a collision an error that changes nothing. The
checks between authentication and submission (geoblock, build, sign) touch no shared
state, so they are one step that may fail. Every `?` on an audit write is an extra outcome (`WriteFails`) when `DbMayFail`. An answer
is an error, or the results of the first n orders; an accepted response with `success = false` is recorded as
"submitted" like any other (trading.rs:484), so it is not told apart. A row once "due" stays due: the wall clock is assumed not to step back by minutes.
`approval_status` only reads.

### Runs

| Run | Bounds | What it shows |
|---|---|---|
| `trading_faults` | 2 calls, 3 approvals of 1, 1 and 2 under a cap of 2, failing writes, restarts | all safety properties, the frozen rows |
| `trading_live` | 2 calls, 2 approvals, `FairSpec` | every call returns, every submission settles, no claimed row without an owner, the refinement |
| `trading_expired` | 2 calls, 2 approvals | violated: a row says "expired" of an order that was sent |

Two calls race for one approval, or for the two mutexes in either order; three approvals with a cap
of two give batches that fit, permuted and overlapping ones, duplicates within a
batch, a batch that is too much, and an order that only fits alone. The calls, and the two
approvals of equal weight, are symmetry sets in the run without liveness. `BatchLimit` (10 in
the code) is 2: a batch of two already has a first, a last and a rolled-back round. The
theorems below hold for any number of calls and approvals.

Fairness: `SF_vars(Step(c))` for every call. tokio's mutexes are first come first served,
so a waiter whose mutex is free again and again gets it, which weak fairness would not
give; the runtime polls every woken task; the network is assumed to answer or fail
(reqwest and the SDK report a broken connection). A call need not be started. The
liveness run has no failing writes and no restarts: with them a row can stay in "submitting"
for good, which the safety properties cover (it never reads as retryable).

`trading_expired` disagrees with what the code itself writes into the row (`findings` in
`PROJECT.json` quotes the line): a second call on an approval in flight writes "expired" over
its row (trading.rs:363). Note also that the expiry is looked at once (trading.rs:362), before the wait
for the context mutex (375): an order can go into submission after its approval expired.

### Proofs

`TradingProofs.tla` proves, for every set of calls and approvals, every notional and cap,
with and without failing writes and restarts, from `TradingAssumption` alone:
`SpecTypeOK`, `SpecIInv`, `SpecSingleUse`, `SpecSentNeverRetryable`, `SpecExclusiveClaim`,
`SpecAuditedBeforeUsable`. The argument is the invariant `IInv`: single use is not
inductive, because whether `Post` may send depends on what the caller knows of a row it claimed
several steps ago. `IInv` says what a call owns between its claim and its hand-over:
the row was not sent (`OwnedRowsOf`), nobody else owns it (`OwnersDisjoint`), and a row that was sent has left the
statuses that `Claim` accepts (`SentRows`); "expired" appears among the statuses of an owned row, because
`MarkExpired` overwrites whatever is there. `ShapeOf` relates `kind`, `ids` and `pc`. Each action has its
lemma; the steps that change one call only share a lemma about the frame.

A second layer, `SInv`, is proved on top of `IInv`. It says what a call relies on when it
puts a plan into memory and when it takes plans out: the id of a preview that waits for the mutex is unknown to
every call past its checks (`FreshOf`), what is claimed has a row (`ClaimingOf`), a call that
settles has removed the plans it passed and works on rows still "submitting", or "expired" by
another call (`SettlingOf`), and no two calls settle one row (`HandlersDisjoint`), which outlives `Owned`: a call
owns a row until it is sent, and handles it until it is settled. From it follow
`SpecSettledForgotten`, `SpecFrozenOnceUnreachable` (an action property: what is unreachable stays so)
and, with every row in "validating" attributed to its claimant, `SpecNoAbandonedClaim`.

`SpecImplementsSingleUse`: under the mapping of `TradingRefinement` (open rows are "approved", a
call has taken what it owns, `sent` counts uses) every step is a step of
`SingleUseApproval` or a stutter; `ASpecUsedOnce` is proved of that abstract specification itself.

Only model-checked: the two liveness properties, `EveryCallReturns` and `SubmissionSettles`, which are out of the
prover's reach.

## 4. Market watches

### How the module corresponds to the code

`MarketWatches.tla` models the registry of `RealtimeService` and the loop of `WatchTask::run`.
No critical section of the RwLock `watches` contains an await, so each is one step; what lies
between two of them can be interleaved with anything.

| Variable | Code |
|---|---|
| `watches` | the map: for each id its token list, connection state, whether `last_error` is set, error and reconnect counts (realtime.rs:75) |
| `nextId` | the counter behind `fetch_add` |
| `pc`, `tokens`, `mine`, `doomed` | each tool call: next step, token list asked for, id drawn, removed watches it has yet to signal |
| `task`, `cancelled`, `grown`, `failures` | each task: where it is, whether its cancel channel says true, whether its backoff has grown, connections that failed so far |

| Action | Lines (realtime.rs) | Remarks |
|---|---|---|
| `StartWatch` | 111-134 | checks under the read lock, then draws the id |
| `Insert` | 164-178 | checks again under the write lock |
| `Spawn` | 180-192 | a stop may have come since `Insert` |
| `Stop`, `StopAll`, `Signal` | 263-284 | removal under the lock, cancellations after it |
| `Begin`, `Connect`, `Fail`, `Receive` | 316-438, 552-580 | `Connect` does not look at the cancellation |
| `RecordError`, `Mark`, `Wake`, `Break` | 317-348 | error and "Reconnecting" are two critical sections |

The length of the backoff is left out, only whether it has grown counts. Updates of a watch
that is gone do nothing (`Update`), as the code's `get_mut`. What the socket delivers
belongs to `MarketFeed` and `EventLog`.

### Runs

| Run | Bounds | What it shows |
|---|---|---|
| `watches` | 2 calls, 3 token lists, cap 2, 3 ids, 1 failed connection, `FairSpec` | all safety properties; a stopped task ends, a watch gets connected |

With one watch registered, two calls that both pass the first check meet a cap of two, so
that the second check must refuse one of them; a third token list lets the cap and not the tokens decide,
and a third id lets a token list be stopped and watched again. One failure is
enough for every state of the loop, with and without a grown backoff. The 16 of `MAX_ACTIVE_WATCHES` is
the constant `MaxActive`. Deadlock is not checked: ids and failures are bounded
(`MaxId`, `MaxFailures`), and when they have run out and all is stopped nothing is left to do.

Fairness is weak, for every call and for every task: the runtime polls what is ready, connection attempts
end (they succeed or fail), a sleep ends. Failures are not fair, and need not happen; a
watch only gets connected because a bounded number of its connections fail.

### Proofs

`MarketWatchesProofs.tla` proves, for any number of calls, token lists, ids and failures and any
cap, from `WatchAssumption`: `SpecWInv`, `SpecAdmitted` (at most `MaxActive`, one per token list),
`SpecAttended`, `SpecHealthTruthful`, `SpecRetiredForGood`. The invariant `WInv` adds to the properties
what they rest on. An id belongs to the one call that drew it until its task is
spawned (`DrawnIds`), and before its insertion nobody else has seen it (`FreshIds`);
this is what makes `Attended` survive a stop between insertion and spawn. A stop
removes before it cancels (`StoppedIds`), so the task of a registered watch never leaves by
the cancellation. No id is in use before it was drawn (`KnownIds`, `GrownIds`). And the reason of a failure
stays on record until the next connection (`ReasonKept`): without it "Reconnecting" could lose its reason
between `Mark` and `Begin`. The two liveness properties are only
model-checked.

## 5. Recorder

### How the module corresponds to the code

`Recorder.tla` follows an update from the watch that applies it to the row that holds it.

| Variable | Code |
|---|---|
| `applied`, `sent` | the watch's books or events, changed under its lock; the broadcast channel, sent to after it (realtime.rs:560-585) |
| `phase`, `since` | how far `start_recording` is; the last update the reader of the recording knows of without it |
| `cursor`, `task` | the two receivers and the forwarding task (recorder.rs:123-155) |
| `queue` | the bounded channel; what stands behind `QueueCap` are senders that wait, in their order |
| `writer`, `writing`, `ack` | the thread of `writer_loop`, the command it holds, its answer to a stop |
| `rows`, `saved`, `failed` | table `recordings`; the two tables of updates; writes that failed |
| `active`, `cancelled` | the map, the cancel channels |
| `pc`, `todo`, `target`, `answer` | each stop or stop_all call |
| `atStop` | a history: what the task had read when the stop came |
| `faults`, `crashes`, `up` | environment |

| Action | Lines (recorder.rs unless named) | Remarks |
|---|---|---|
| `Change`, `Broadcast`, `BroadcastForeign` | realtime.rs:560-585 | a snapshot can come between the first two |
| `Subscribe`, `Snapshot` | app.rs:1256-1266 | the receivers exist before the snapshot is taken |
| `Open`, `Describe`, `StartFails` | 84-111 | |
| `Spawn`, `Register` | 112-176 | the map needs the mutex, which a stop can hold |
| `Forward`, `EndTask` | 123-155 | a branch of `select!` each; a lag is a gap of positions |
| `Take`, `Write` | 352-418 | one command; a stop ends the thread, written or not |
| `StopCall`, `StopAllCall`, `Lock` | 178-187, 197-201, app.rs:1273 | |
| `Flushed`, `Read` | 188-213 | the mutex is kept while the writer flushes |
| `Crash` | external | the process ends at any point; the orderly `stop_all` of `App::shutdown` is `StopAllCall` |
| `Restart`, `NeighbourStarts` | 47-67, app.rs:62, diagnostics.rs:58 | `new` marks every active row |

Abstractions. One watch of one token is recorded; the updates of all other watches and tokens are
`Foreign`. An update is its position in the broadcast, so that two commands never agree
by accident. At most one update is ahead of the broadcast, where the code can be ahead by the
several of one message (realtime.rs:520-566); a gap is an interval of positions, and the code's count is its
length. The seed is one command, although the code sends one per book. Once the writer
is gone no send succeeds: all that is left to the task is to end. `list`, `replay` and
`replay_events` only read.

The mutex `active` is held from `Lock` to `Flushed` because the guard is a temporary of an
`if let`, which lives to the end of its block (recorder.rs:179-192): other stops and
starts wait for the flush. `StopReturns` shows that this is not a deadlock.

### Runs

| Run | Bounds | What it shows |
|---|---|---|
| `recorder_faults` | book updates; 3 sent, both channels of capacity 1, 1 failed write, 1 crash, a neighbour | all safety properties |
| `recorder_live` | events; 2 sent, 2 stop calls, 1 failed write, `FairSpec` | what is sent is written or counted, stops return |
| `recorder_retry` | 1 failed write | violated: a repeated stop returns an active recording |
| `recorder_neighbour` | a neighbour | violated: a recording that goes on is called interrupted |

A capacity of one makes three updates enough for two gaps, a full channel, and a sender that
waits when the stop comes. The two streams go through the same code with different
table names, and the receivers are independent of each other; each run takes one, a book where the
snapshot matters. Recordings share only the mutex and the broadcast, which one recording and
two stop calls already contend for. Deadlock is not checked: the updates
(`MaxSent`), faults and crashes are bounded, and an idle recorder has nothing to do.

Fairness is weak for each branch of `select!` on its own: tokio polls the branches in random
order, so one that stays ready is taken some time. The channel serves senders in order, as the
mutex does its waiters, and a write to SQLite ends. No update, stop or crash is
forced to happen.

`PROJECT.json` quotes under `findings` what the two violated runs disagree with. A limit
of `FlushedAtStop`: it speaks of what the forwarding task had read. Updates that still wait in
the broadcast when the stop comes are neither recorded nor counted (recorder.rs:183-185).

### Proofs

`RecorderProofs.tla` proves `SpecTypeOK`, `SpecNoSilentGap`, `SpecRecordedInOrder`,
`SpecDroppedExact`, `SpecFlushedAtStop`, `SpecActiveIsAttended` and `SpecStoppedForGood` from
`RecorderAssumption`: any number of recordings and calls, any capacities of at least one, any number of
updates, failed writes and crashes, with or without a neighbour. Apart from the types none of them is
inductive as it stands: `NoSilentGap` speaks of the tables, and says nothing of the channel and the writer
that will fill them. The inductive invariant `RInv` (`SpecRInv`) joins the types, `BroadcastInv` (a
change is at most one ahead of what was sent), `CursorInv` and, for each recording,
`RecordingInv`:

| Part | What it adds |
|---|---|
| `Shape` | which phases of the task, the writer and the calls go together; a recording on the map has not been told to stop |
| `Pipes` | where commands can be, and that the acknowledgement comes from a writer that is done |
| `Ordered` | saved, being written and queued commands are in order, none ahead of its receiver |
| `Counted` | the counts of the row are those of its tables; a new gap is disjoint from the saved ones because of `Ordered` |
| `Conserved` | what was read and is owed is in flight or settled; before there is a task, nothing read is owed |
| `Flushing` | what was read before the stop is ahead of the stop in the channel |
| `Attended` | who is behind a row that says "active" |

A lemma per action (`SendStep` to `RecoverStep`) shows that it keeps the parts; those that touch one
recording share `OneRecording`, which says that the others cannot notice. `StopReturns` and `Delivered` are only model-checked.

## 6. Market feed and event log

### How the modules correspond to the code

`EventLog.tla` is `push_event` and `events` (realtime.rs:234-261, 500-518) with the clients that poll.
`ring`, `nextSequence` and `droppedEvents` are the fields of the watch; an event is its sequence number.
`cursor` is what a client passes as `after_sequence` next: the last sequence of its last page, or
0. `seen` and `missed` are histories: what it got, and the events between its cursor and the oldest one left
that `truncated_before` told it of. `Push` and `Poll` each hold the lock throughout, so
each is one step. `GapAwareLog.tla` is what a client may rely on: the next events up
to some point, the first of them reported lost, the others delivered; nothing of rings.

`MarketFeed.tla` extends it by the books of one watch.

| Variable | Code |
|---|---|
| `market`, `changes` | the exchange's books (external) |
| `phase`, `seed` | how far `App::watch_markets` is, what it fetched (app.rs:1202-1218) |
| `link`, `wire`, `connections` | the socket, the messages on it, connections so far |
| `books`, `counts` | the watch's `books`, the update counters (realtime.rs:75) |
| `published` | a history of the broadcast channel: how often, and the last book |
| `astray` | a history: the tokens of which, since their last snapshot, a message was skipped or a level was missed under another text |

| Action | Lines (realtime.rs unless named) | Remarks |
|---|---|---|
| `Change`, `Emit` | external | any uncrossed change of one level, or of two in a message; an event |
| `Fetch`, `Register` | app.rs:1202-1218, 134-178 | changes can come between the two, and before `Subscribe` |
| `Subscribe`, `Disconnect` | 376-442 | the subscription is answered by a snapshot; what is not JSON or not UTF-8 ends the connection |
| `Skip` | 603-621 | `decode_messages` skips a message it cannot deserialise, whichever it is, with the connection up |
| `ReceiveBook` | 568-585 | `publish_book` of a snapshot |
| `ReceiveChange` | 520-566 | the deltas one after another, skipping tokens without a book and deltas without a size |
| `ReceiveEvent`, `PollStep` | 455-518, app.rs:1235 | through `EventLog` |

Abstractions. A price has a number, by which the exchange counts and `decimal_cmp` sorts, and texts, by
which `apply_level` finds a level (realtime.rs:645-648): a `Decimal` keeps its zeros, so 0.50 and 0.5 are
two texts of one number. `Texts` are the texts and `Value` parses them; every snapshot, seed and delta may
write a price in any of its texts (`Spellings`). Sizes are numbers: the code only compares them with zero.
Timestamps, hashes and the fields of an event are left out, and so are
messages that change nothing, except a delta without a size. `sort_by` is `Sorted` and the `retain` of a delta is `Kept`, both of `Ordering`. A change and its broadcast are one step here; `Recorder`
splits them. Stopping belongs to `MarketWatches`. What is assumed of the exchange: a
subscription is answered first by a snapshot of each book, then by every change in order; its books are
never crossed and list each price once.

### Runs

| Run | Bounds | What it shows |
|---|---|---|
| `market_feed` | 1 token, 2 prices, one of them with 2 texts, 2 sizes, 1 change of up to 2 levels, 2 connections, 1 event | which books are the exchange's and which may not be, their order, and that they agree with the broadcast |

The event log itself is run inside `user_watches` (section 7), whose loop pushes to it. The books start as any uncrossed pair of sides over two prices, with a seed
that is missing or stale and writes its prices in any texts. A change of two levels sets, replaces, removes or moves
levels, before, between or during two connections; any message of either may be skipped, and the
second connection must make good what the first left behind. A book that lacks a skipped delta, one that holds a
price twice, and one that both put right again are all reached within these bounds. More changes, and a second token, whose
book the same code keeps apart from the first, are left to the proofs, which hold for any number of both. Deadlock is not checked: events, changes and
connections are bounded, and a client with nothing to read waits.

What the properties promise is what the code gives. `InStep` holds of a token as long as it is `Trusted`:
not `astray`, or with its snapshot on its way. A skipped delta leaves a live book out of step, possibly crossed, with
nothing but a log line to tell (realtime.rs:613), until the next connection; so does a price in two texts,
which leaves two levels of one price, of which a removal takes one. `Executable` demands the order of the levels
and the best quotes of every book, and one level for each price and no crossing of those that are not astray.

`market_feed` is safety only.

### Proofs

The first section of `UserWatchesProofs.tla` proves of the log alone, for any number of clients, any capacity, page sizes and number of
events, from `LogAssumption`: `SpecRingExact`, `SpecNoSilentLoss` and
`SpecImplementsGapAwareLog`. The invariant `LogInv` is the types with both properties: that
the ring is contiguous (`RingExact`) makes a page an interval (`PageInterval`), and its oldest event the
one after the dropped ones, so that a poll (`PollInterval`) extends what a client knows by a reported gap and
a delivered stretch that meet.

`MarketFeedProofs.tla` proves, for any number of tokens, texts, prices, sizes, changes, connections,
clients and events, any spellings and any messages skipped, from `FeedAssumption` and `LogAssumption`: `SpecInStep` (the
live book of a trusted token and the messages on their way make the exchange's), `SpecExecutable` (every book is in
executable order, and one that is not astray has each price once and is not crossed),
`SpecPublishedLast` (the broadcast's last book is the one kept, and the counters
count every publication), and `SpecKeepsLog`. The invariant is `Inv`:

* `Reach`: there are books, those of the live ones that are not astray, and sound ones for the other tokens, from which
  the messages on the wire, as the exchange means them, make the exchange's books, and no book on the way there is crossed
  or lists a price twice. A change of the exchange adds a message that plays it; a message received is the first one
  played; and for a token whose message is skipped the start is chosen anew, as what that message would have made. Every stage is sound
  for all tokens, trusted or not, which makes it inductive. `InStep` and `SoundStages` follow, for what is played for one token does not depend on
  where the others start (`FoldLocal`), nor on where it starts itself when its snapshot is on the way.
* What a delta does to a live book, a sorted sequence of texts found by text and kept by `retain`, is what the
  exchange does to its set of numbers, unless the level stands there in another text (`Respells`). The lemmas on `Sorted` and `Kept` give
  that for every book, and the deltas of one message, a fold, are the run of their steps.
* `SoundBooks`: the exchange's books, every listing and every live book that is not astray were never crossed and list each price
  once; every live book, astray or not, is sorted and names its first levels best. `Executable` is this read off a client's book.
* `Covered`: on an open connection a token that is not astray has its book, or a snapshot of it is on its way with nothing but
  snapshots before it, so that no delta is passed over for want of a book. `ClosedIsEmpty`: without a
  connection nothing is on the wire, so a seed is never mistaken for what a connection brought.
* `Counted`: of each token the last broadcast is the live book, and the counter of
  updates is the sum, over the tokens, of what was broadcast.

`SpecKeepsLog`: every step of the feed is a step of the log or leaves it alone, so a watch implements
`LogSpec`, which sets no bound on the events, and what is proved of the log holds of it. `IInv` follows from `Inv` (`SpecIInv`).

## 7. User watches

### How the module corresponds to the code

`UserWatches.tla` is `UserRealtimeService`: the registry of authenticated watches and the
loop that `watch` spawns for each. Ids and events are counted per watch, so it extends `EventLog`, which
stands for the events of one watch, `Followed`.

| Variable | Code |
|---|---|
| `watches` | the map: for each id its conditions and connection state (user_realtime.rs:43) |
| `nextId` | the counter behind `fetch_add` |
| `wanted`, `mine` | each call of watch: the conditions it asks for, the id it drew |
| `task` | the loop of each id: none, running, ended |
| `ring`, `nextSequence`, `droppedEvents`, `cursor` | as in `EventLog` |

| Action | Lines (user_realtime.rs) | Remarks |
|---|---|---|
| `Ask`, `Open`, `Insert` | 66-96, 98-107, 123-140 | checked, connected, checked again; the loop is spawned with the insertion, since nothing in between can be told apart |
| `Stop`, `StopAll` | 214-235 | removed, then cancelled; a loop without a watch changes nothing, so both are one step |
| `Cancelled`, `PollConnection`, `Receive`, `StreamError`, `StreamEnds` | 141-166, 244-290 | the branches of `select!`, in any order |
| `PollEvents` | 171-199 | |

### Runs

| Run | Bounds | What it shows |
|---|---|---|
| `user_watches` | 2 calls, 2 sets of conditions and one too large, room for 2 watches, 3 ids, the second followed, 3 events in a ring of 2, pages of 1 or 3, `FairUserSpec` | one watch per set; a dead loop says "Disconnected"; a stopped one ends; the event log is gap-aware; clients catch up |

With one condition per watch at most, the pair of both is refused. The last place, and the same conditions, are contended for by both calls; a
third id lets a set be stopped and watched again. Three events overrun the ring, for a client that has read one, some or
none. Fairness is weak: a loop whose cancellation was sent takes that branch some time (tokio polls the branches of `select!` in
random order), and a client goes on polling. Nothing makes streams end or go on.

A limit the run makes plain: a loop that ended with its stream leaves its watch registered
(user_realtime.rs:158-161). It keeps one of four places, and a repeated `watch` for
the same conditions returns it as it is. `DeadSaysSo` is the promise that remains:
its state says "Disconnected".

### Proofs

`UserWatchesProofs.tla` proves, for any number of calls, conditions, ids, clients and events and any
limits, from `UserAssumption` and `LogAssumption`: `SpecOnePerConditions`, `SpecDeadSaysSo` and
`UserSpecImplementsGapAwareLog`. The two invariants are inductive with the types of the
registry (`RegistryInv`): the second check refuses what the first could not see, and a
branch of the loop that writes a state needs a loop that runs. Every step of `UserSpec` is a step of
`LogSpec` or leaves the events alone (`UserStepIsLogStep`), so what is proved of the log (section 6) holds
here. The two liveness properties are only model-checked.

## 8. Public HTTP and the brief cache

### How the modules correspond to the code

`BriefCache.tla` is `App::get_market_brief` (app.rs:222-348): a call that finds nothing
fresh under the read lock asks upstream and writes under the write lock, three steps that other calls come between. Of
a brief only the time it was stored at is kept, by which the cache judges it (app.rs:229). `PublicHttp.tla` extends it by the requests that make those calls: the middleware
`observe` (http.rs:241) inside `TimeoutLayer` and `CatchPanicLayer`. These layers drop the future of a request; the tool
call is run by the MCP service (external, not vendored) in a task of its own, so it is taken to go on and to store its brief after
its request is gone. Over stdio there is no timeout in the first place.

| Variable | Code |
|---|---|
| `clock` | `Instant::now()`, in ticks |
| `cache`, `asking` | `brief_cache`; of each call the key it asks upstream for |
| `status`, `peer`, `arrived` | how far a request is, its address, `now` of `allow_request` |
| `windows`, `inFlight` | the limiter; the gauge |
| `admitted` | a history: when the limiter let it pass |

| Action | Lines | Remarks |
|---|---|---|
| `Arrive`, `Admit` | http.rs:241-251, 281-302 | the time is taken before the wait for the mutex |
| `Handle` | http.rs:259-262 | `Hit`, `Miss`, `Store`, `Fail` of the cache, or a tool that leaves no state |
| `Drop` | http.rs:225-239 | at either await: timeout or disconnect; the tool call goes on (`stray`) until it ends (`leaked`) |
| `Tick` | external | never past `MaxWait` of a wait for the limiter |

The other counters only rise and are left out; so are requests to other paths, which
`observe` passes on. The limiter's mutex is held for no await, so the wait for it is bounded, by `MaxWait`.

### Runs

| Run | Bounds | What it shows |
|---|---|---|
| `public_http` | 4 requests, 2 clients, 3 keys, 1 per window of 3 ticks, waits of 1, a time to live of 1, 2 cached briefs, 1 window before old ones are forgotten | the rate near the end of a window, the gauge, the bound of the cache |

Three requests of one client in one stretch are what `TwiceTheLimit` forbids at a limit of one, and a
fourth, of the other client, makes the limiter full. Clock values 0 to 3 hold a whole
window and the beginning of the next. Three keys for two places make briefs give way, fresh ones and stale ones.

What the properties say is what the code gives, and less than one might take it for. The
limiter lets twice the limit through around the end of a window, and counts by a time that may be `MaxWait`
old. `in_flight` never returns to zero once a request was dropped while it was handled, which
`GaugeOffByDropped` states exactly. Nothing is claimed of how old a brief's contents are: a brief counts as new when it is
stored (app.rs:345), and what it was made of may have been read any time before, for
no call is bounded in time. `BoundedCache` is about the writes: calls that missed together write one
after another, and the cache keeps its limit and gives up a fresh brief only when it is full of fresh ones. Writing
anew a key that is there makes the oldest go as well, when the cache is full, so the promise is one place
short. Safety only.

### Proofs

`PublicHttpProofs.tla` proves the three properties of the run for any number of requests (finitely
many), clients, keys, places in the cache, ticks and kept windows and any limit, window and time to live, from
`HttpAssumption` and `CacheAssumption`: `SpecTwiceTheLimit`, `SpecGaugeOffByDropped`, `SpecBoundedCache`.

* `SpecBoundedCache`: only `Store` writes the cache, and from a cache within its limit (`TimeInv`) it leaves
  one within its limit; what it removes follows from `Room`, by counting the fresh briefs (`StoreFacts`). The gauge carries its own type: that it is never lowered
  below zero needs that it counts the request being answered.
* The limiter keeps one window of each client and nothing of the requests that counted in it, so the
  invariant says that they can be told apart (`Split`): those of the present window, at most the
  limit, admitted from its beginning on; and those of earlier windows, admitted before its
  beginning plus `MaxWait`, of which at most the limit, those of the window just before, were admitted later
  than `Window` before that. A span shorter than `Window - MaxWait` that reaches into
  the present window therefore meets two windows only (`SpanOfTwo`); one that ends before is
  as it was. A forgotten window is two windows old (`Unknown`), so the next one
  begins late enough, although it begins at a time up to `MaxWait` old.

## 9. Research tools

### How the modules correspond to the code

`BookMath.tla` holds the computations: `simulate_book`, `analyze_book`, the sums and
capacities of baskets, `downsample_points`, `price_history_summary`. Decimals are natural numbers
of ticks and a quotient is a pair; the code's `Decimal` rounds divisions to 28 digits, which no
property here can tell.

`MarketListing.tla` is a client that pages through `list_markets` or
`list_featured_markets` (app.rs:544-765). `volume` and `open` are upstream (external); `walk` is the call in
progress with what it has found; `listed` is what the client got. The call remembers nothing between pages: it
walks upstream from the beginning (`FetchPage`), keeps what is eligible, and cuts by position (`AnswerPage`). One
sort order and one direction stand for all; filters are part of eligibility. A paused market stays in the upstream
listing; that a closed one leaves it is not modelled. A page is a set of markets, put in order by counting for each
those above it (`Before`, `Ranked`): the volumes a call saw stay with it (`walk.seen`), for the
featured markets are sorted once all are there, by what each page showed (app.rs:739).

The offset is cut off at 10 000 (app.rs:549): a client that goes on asking from there would get the same page again, so
the client of the model, who knows the schema (types.rs:33), does not go on when it has more. Featured events are assumed to share no
market (`ListingAssumption`): the code looks for no market in two of them (app.rs:694-729) and would list it twice. The
listing by volume does not look at events, so nothing is assumed of it.

`MarketResearch.tla` adds the tools that fan out: `scan_market_microstructure`
(app.rs:832-967), which lists first, and `analyze_event_consistency` for a negative-risk event
(394-530). `todo`, `flying` and `arrived` are the stream behind `buffer_unordered`; each
answer is a book as it is by then, or a failure. A price history is any sequence of points.

### Runs

| Run | Bounds | What it shows |
|---|---|---|
| `research` | 5 markets, 2 volumes, upstream pages of 2 below a ceiling of 2, client pages of 1 or 2, 1 change; 2 requests in flight, 3 books; histories of 4 points of 3 prices | pages adjoin, analyses, baskets, answers in their rows, samples |

Five markets in pages of two give full, short and unreachable pages; one change can come
between two pages or within a walk. The books have unsorted levels, an empty level at the top and an empty side; an
event of three legs has one more than may be in flight, and one that has no token.
Every history up to four points is sampled to two, three and four.

`PagesAdjoin` says how far "adjacent pages cannot overlap" (app.rs:617) goes: exactly, as
long as nothing changes upstream; each change can repeat one market and hide another. The run allows one change, the
proof any number.
`AnalysisSound` compares a fill with every other way to take as many shares (`Allocations`), so
the reference knows nothing of sorting; what it says of the microprice it says of books that are not
crossed. `BasketExecutable` executes the reported
capacity on the books. All are safety properties.

### Proofs

`MarketResearchProofs.tla` proves, for any markets, tokens, events, books and histories, any number of
requests in flight and any length of a sample, from `ResearchAssumption`:

* `SpecOwnBooks`. The invariant is `RInv`: the books a tool needs are split between those yet to be asked for, those
  in flight and those answered, with one answer each (`EachOnce`), and the list they were taken from stays as
  it was (`BeforeAndAfter`). At the end the keys of the answers are those of the legs, 1 to n, each once;
  sorted they go up from 1 to n in n steps, and there is one way to do that (`StraightUp`).
* `SpecBasketExecutable`. A book's best quote is a level that a walk of the sorted book meets before any worse
  one (`BestComesFirst`). An order for no more than it shows is filled there at the latest, every share at its price
  (`FillsAtOnePrice`); the levels before it may be empty, or as good. The capacity is the least of these sizes, so each book fills the
  order, and what they come to adds up to capacity times the sum of the prices (`SumTimes`).
* `SpecHistoryEnds`. With at least as many points as the sample keeps, a step of one in the sample is a step
  of at least one whole divisor in the numerator, so no index is kept twice (`QuotientGrows`), and the last is exact
  (`QuotientOfMultiple`).

* `SpecAnalysisSound`. A walk takes all of each level until the order is filled and nothing after (`WalkTakes`); by the
  indices of the book instead of the order of the walk, it takes all of every level better than the last one it touches and
  nothing of a worse one (`TakenOf`, `WalkOnLevels`). Against any other choice of as many shares, each share
  exchanged costs at least the price of that last level and saves at most as much (`TradeOff`, `ExchangePays`), so
  no choice is cheaper (`NoCheaper`) or pays more (`NoDearer`). What is cut to a depth or kept near the touch are levels of the book,
  each once (`SharesOfPart`). The microprice is arithmetic (`MicropriceBetween`); it needs an uncrossed book,
  which the code takes for granted and the property states.

A walk is a fold, which the proofs take as a run of its steps (`WalkRuns`).

* `SpecPagesAdjoin`, for any markets, featured events that share none, page sizes, ceiling and number of changes, and any
  calls that fail. How a position in a listing can be off by one for each change, and never by more, is the invariant `LInv`
  (`MarketListing`):

  * `PrefixesAgree`: for every j up to what the client has, its first j markets and the first j of the listing as it is
    now have j in common, less one for each change so far. It is said of all j because a change anywhere
    in the order shifts every position behind it, and of the pages being fetched as well.
  * `WalkAgrees`: a walk by volume that has found f markets has passed g eligible ones, and f and g differ when something
    moved across the place the walk has reached. The larger of the two is what the markets in common fall short of, by one
    for each change; the same i markets further, for the client may have more than the walk has found yet.
  * `FeaturedAgree`: a walk through the featured events sorts what each page showed, so what changed behind it
    (`Stale`) is not seen until the next call. Against what the answer will be (`Coming`, by `SeenOrNow`) the client
    is off by the changes less those yet to come to light.
  * `WalkInOrder`: which pages a call has asked for and why it stops; `WalkedFacts` draws from it that a walk that stops has
    passed all it can reach, or has enough. `Undisturbed` is the exact case, `NoneHidden` what is kept of the end.

  The core is about one market that moves: the first n before and after differ in one market (`TopSwap`), so
  do those of a walk that stops at the same upstream offset (`WalkCosts`), and changes of k markets cost k (`TopMoved`, an
  induction on their number). One lemma per action keeps the invariant (`AskPageLInv`, `FetchPageLInv`,
  `FetchFailsLInv`, `AnswerPageLInv`, `ChangeLInv`). That the client misses at most one market per change at the end follows by counting: what
  the walk passed is in common but for the changes, and what was eligible all along was passed. `ListingPagesAdjoin` says it of
  the two listings alone, from `ListingAssumption`.

## 10. Not modelled

* `approval_status`, `list`, `replay`, `snapshot`, `status`: reads without effect.
* `polymarket.rs`, `types.rs`, `error.rs`, `lib.rs`: one request per function and plain schemas.
* `diagnostics.rs`: a sequence of probes whose results are printed; only that it opens the
  database is a step of `Recorder`.
* `server.rs`: routing of a tool name to one `App` method.
* `main.rs` and `App::shutdown`: the three `stop_all` one after another, each modelled in its own
  module; what a process that ends leaves behind is `Crash` of `Recorder` and `Trading`.
* Wallet and search tools: one or several requests whose answers are passed on. A wallet
  summary asks for the positions twice at once, for the list and for the risk (app.rs:356-362), and promises
  no agreement between them.
* Closed markets that leave the upstream listing while a client pages through it.
