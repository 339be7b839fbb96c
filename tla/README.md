# Verification of the trading engine

TLA+ models of the C++ trading engine under `src/core`, model-checked with TLC on
small instances and, for the core, proved with TLAPS for every instance.

## 1. The system

The engine trades one symbol on up to four venues (Binance spot and futures, Kraken,
OKX, Coinbase). One process, these threads: one per feed handler (websocket), the main
loop of `trading_engine_main.cpp`, and whichever thread a connector reports fills from.
A Python process writes signals into shared memory.

| Part | State it keeps | Operations | Talks to | What is hard |
|---|---|---|---|---|
| Idempotency journal (`idempotency_journal.hpp`) | table of 256 entries (operation, client id) → state, venue id; an append-only file | `begin`, `ack`, `fail`, `lookup`, `recover` | called by the connector | crash between two records, recovery order, full table, failed append |
| Live connector (`live_connector_base.hpp`, one subclass per venue) | `VenueOrderMap` (512), connected flag, journal | `submit_order`, `cancel_order`, `replace_order`, `query_order`, `cancel_all`, `reconcile`, `with_retries` | venue over HTTP | lost replies, late requests, retries of what was done, restart |
| Fill ring (`SpscQueue` in `order_manager.hpp`) | two indices, a buffer of 128 | `push`, `pop` | connector thread → strategy thread | two threads without a lock |
| Order manager (`order_manager.hpp`) | 64 slots, `next_id_`, `position_`, ledger | `submit`, fill callback, `drain_fills`, `update_mid_price` | connector, ledger | fills before submit returns, slot reuse, full queue |
| Position ledger (`position_ledger.hpp`) | 4 venues: pending quantities, position, cost | `on_order_submitted`, `on_order_closed`, `on_fill`, `reconcile_*`, `snapshot` | order manager, reconciliation | order of events, full table |
| Risk controls (`risk/`) | kill switch; rate windows, loss counters; committed notional | `trigger`, `check_*`, `commit_order` | main loop, market maker | check then act, what a kill leaves behind |
| Main loop (`trading_engine_main.cpp`) | `next_id`, `kill_switch_cancel_issued`, timers | one pass: fills, intent, plan, submit, reconnect, reconcile | everything | a kill in the middle of a pass, restart |
| Parent plan and scheduler (`parent_order_manager.hpp`, `child_order_scheduler.hpp`) | the active plan and its working children | `update_target`, `on_child_*`, `schedule` | main loop, router | target changes while children work |
| Smart order router (`router/`) | none | `route` | scheduler | allocation adds up |
| Feed handlers (`feeds/`) | sync state, last sequence, buffered deltas | websocket callbacks, snapshot, resync | book manager | snapshot racing deltas, gaps |
| Order book (`orderbook.hpp`, `book_manager.hpp`) | price grids | `apply_snapshot`, `apply_delta` | feeds, main loop | read while written |
| Shared memory (`ipc/`) | seqlock words, LOB ring | `read`, `publish` | Python process | torn reads |
| Reconciliation (`reconciliation_service.hpp`) | quarantine and drift state per venue | `reconcile_on_reconnect`, `run_periodic_drift_check` | connectors, accounting | one venue of several failing |
| Shadow engine (`shadow_engine.hpp`) | 256 paper orders, position | `submit_order`, `check_fills`, `cancel_all` | main loop, order manager | partial fills and cancels |
| Intent, accounting, venue quality, market maker | positions, equity, moving averages | `evaluate`, `ingest`, `apply`, `on_book_update` | main loop | mostly floating-point policy |

Every part, modelled or not, is listed in `PROJECT.json` with what is left out of it.
The 40 hazards this code is most exposed to are listed there at their lines, with the
properties that cover them; section 6 names smaller ones met while modelling.

What makes each part correct: the journal and the connector must never lie about what
the venue did; the ring, the manager and the ledger must agree with what was executed;
the engine must send nothing over its limits and nothing after a kill; the planner must
not exceed its maximum position; a feed handler must not miss an
update its venue lets it notice, and the grid must hold only levels the exchange still has; a reader of shared
memory must see whole records; reconciliation must run out of patience with a bad venue
and never starve a good one; paper trading must balance its own books.

## 2. Modules

| Module | Models | Composes |
|---|---|---|
| `IdempotencyJournal` | the journal: table, file, replay | – |
| `JournalContract` | abstract: a journal that never crashes | – |
| `LiveConnector` | `LiveConnectorBase`, `VenueOrderMap`, the venue, the network, crashes | extends `IdempotencyJournal` |
| `LiveSession` | the engine as the connector's caller, across processes | extends `LiveConnector` |
| `MCLiveConnector` | the client ids of the TLC runs | extends `LiveConnector` |
| `LiveConnectorProofs` | theorems about the connector | extends `LiveConnector` |
| `BoundedQueue` | abstract: a FIFO queue with a capacity | – |
| `SpscQueue` | the fill ring, one step per shared access | – |
| `OrderManager` | order manager and ledger quantities, connector thread and strategy thread | its queue is `BoundedQueue`'s |
| `OrderManagerProofs` | theorems about manager, ledger and paper trading, lemmas on sums over finite sets | extends `OrderManager` and `ShadowConnector` |
| `TradingEngine` | the main loop with kill switch, circuit breaker and global risk | – |
| `MCTradingEngine` | the limits of the TLC runs | extends `TradingEngine` |
| `TradingEngineProofs` | theorems about the engine | extends `TradingEngine` |
| `FeedProtocols` | pure: how each venue's handler takes a message, validates, buffers, replays, resnapshots | – |
| `FeedHandlers` | the handlers as processes: caller, event loop, sockets, faults | extends `FeedProtocols` |
| `MCFeedHandlers` | the exchange of the TLC run | extends `FeedHandlers` |
| `FeedHandlersProofs` | theorems about the five handlers | extends `FeedHandlers` |
| `OrderBook` | the moving price grid behind `BookManager` | – |
| `MCOrderBook` | the exchange of the TLC run | extends `OrderBook` |
| `OrderBookProofs` | theorems about the grid, lemmas on `Min` and `Max` | extends `OrderBook` |
| `SharedMemory` | the book ring and the signal's sequence lock, three processes | – |
| `ChannelProofs` | theorems about the channels without a lock: signal, ticks and fill ring | extends `SharedMemory` and `SpscQueue` |
| `Planner` | signals → intent → parent plan → child orders | – |
| `PlannerProofs` | the position bound and the shocks | extends `Planner` |
| `Reconciliation` | reconciliation service and session accounting | – |
| `ReconciliationProofs` | the bound on a venue's patience, the fees | extends `Reconciliation` |
| `ShadowConnector` | paper orders, matching, profit and fees | – |

### Connector

`entries` is the journal's table and `log` its file. A call is split where the world
can interfere: `SubmitOrder`, `CancelOrder` and `ReplaceOrder` run up to the first HTTP
attempt (journal `begin` included); `Served`, `ServerError` and `Timeout` are one
attempt of `with_retries`; `SubmitDone`, `CancelDone` and `ReplaceDone` are what follows
it (journal, map and return value in one step). `CrashRestart` may happen between any
two of them and rebuilds the table from the file; `Reconcile` does so while idle.

The venue is external. It holds a sequence of orders, each with the key of the request
that made it; `Effects(r)` is the set of what it may do with a request, read off the
venues' `submit_to_venue`, `cancel_at_venue` and `replace_at_venue`: Binance's
cancel-replace makes a new order and may stop half way, Kraken's amend keeps the order
(`AmendInPlace`), and its reply is taken for OK without being read, also when it refuses
(`AmendConfirmed` is FALSE in run `connector`). It refuses a key only while a live order carries it. A timed-out
request stays on the `wire` and may arrive any time later, also after a restart, or
never. The one abstraction of results: everything `is_retryable` accepts is
`ERROR_UNKNOWN`. `query_order` and the connected flag are left out (`submit_order` does
not look at it), and so are the attempt and duplicate-ack counters.

### Fill ring and order manager

`SpscQueue` splits `push` and `pop` at each shared access; the acquire and release pairs
of the code justify interleaving the steps as written. `OrderManager` then uses the
queue as `BoundedQueue` specifies it. Its submit is two steps, before and after the
connector's call, because fills are queued meanwhile; the connector may report an error
although the order is, or later becomes, live (`LiveConnector` shows how). A cancel or a
reject reports a cumulative fill of 0, as `ShadowConnector`'s do, also after a partial
fill: `PendingTracksOpenOrders` excepts those orders, whose filled part is taken off the
pending quantity twice. In the repository only `ShadowConnector` emits fills; the live
connectors never do.

### Main loop and risk controls

`TradingEngine` is one pass of the loop after another: `LoopKilled` or `Heartbeat`,
`CheckHeartbeat`, `Plan`, one step per child order, `EndPass`. The steps of a child order
are the ways through the body of `submit_decision`: killed, over the order rate, skipped
(no price, not affordable), refused by a limit, committed but stopped by the drawdown,
sent. Each counts the order in the rate windows as the code does, before anything else is
known about it. Configuration is the variable `mode`,
chosen at the start and never changed: paper trading (`shadow`), `futures_only` (`futures`)
and `kill_on_breach` (`killOnBreach`). What the
environment decides is left open: which child orders the planner wants, prices,
affordability, drawdown and the answer of the futures gate. Between any two steps the
clock may tick and a signal may arrive. `sent`, `times` and `cancelled` are history
variables: what was really sent, when, and how much of it when `cancel_all` went out.

The notional is an integer (the code has doubles: no property depends on rounding). One
symbol is traded, so its notional is the whole notional and the concentration test, which
needs another symbol, never applies. In `futures_only` mode Binance (`Primary`) is the only venue
enabled. The futures gate may scale the notional it
commits, but not with the funding rate of 0 the engine passes. The counts of the windows
grow without bound, as the code's do; in a run `MaxCounted` ends a behaviour.
`check_consecutive_losses` is asked in paper trading for a log line only.

### Feed handlers and order book

`FeedProtocols` holds, as operators on the handler's state `h`, what the five handlers do
with a snapshot, an update or a refusal; `FeedHandlers` runs them. One side of the book
stands for both. The exchange's book at version `v` is `Content(v)`: each level has the
number of the update that set its size, or none. A message carries the span of versions
it covers and the levels it sends. Kraken sends what changes among the best
`SubscribedDepth` levels (100 in the code) and nothing of a level pushed out from there.

The handler's three views are kept apart, as in the code: its number (`last`), the book it
computes checksums over (`local`; Kraken's is cut by `truncate_book`, OKX's is not) and the
book the program trades on (`book`, with `bookSeq` and `ready`), which `BookManager` keeps.
Numbering follows the venue (first and last id at Binance, previous id at OKX, a counter at
Coinbase). A checksum covers the best `ChecksumDepth` levels (10 at Kraken, 25 at OKX) and
nothing below. `lacks` are the fields the messages do not carry: without `checksum` a
Kraken or OKX message is accepted unseen, without `prevSeqId` OKX accepts any newer number.

`BookManager` answers the handler nothing. `fate` and `out` of a message are what becomes
of it there: a snapshot refused before or after the book was cleared, and the levels the
grid has nothing for afterwards (`Hidden`: out of range, beyond the 5000 Binance sends, or
moved out with the grid). Any snapshot may be refused and any levels may go; `OrderBook`
models when. The handler streams on, with the old book or with one that is not `ready` and
drops every update; `refused` remembers that the last snapshot is not in the book.

`ws_event_loop` is the variable `pc`; `start` and `stop` run on the caller's thread
(`call`); every socket is kept in `socks` until it is closed, because the code closes none
when it reconnects, and all of them share the one session record `sess`. `Fault` counts
whatever the world may do wrong: connection errors, an update lost, a bad, refused or
dropped snapshot, levels without a place, a refusal, a heartbeat that expires. Left out:
JSON, the REST calls for the tick size, the trade channel.

`OrderBook` is the grid one layer below: prices are whole ticks, `cells` the two arrays,
`base` and `levels` the window, `seq` and `streak` as in the code. `truth` is the
exchange; its updates come in order, are lost, or come again later. The array's index is
translated, and so are the rules that move the window (touch improvement, a streak of
updates out of range) and those that refuse a snapshot. It is read between updates only.

### Shared memory

`SharedMemory` takes every load and store of the protocol words and of the data words
one at a time: feed threads `load`, `fill` and `store` in `LobPublisher::publish`, the
research process polls the ring and publishes the signal (odd, words, even), the engine
reads (`seq`, words, `check`) up to `MaxRetries` times. Either side dies anywhere: the
engine zeroes the ring when it starts again, the research process truncates the file.
The code's acquire and release pairs and fences justify the interleaving. The record has
more words than the two of the model; two are enough to tear.

### Planner

One pass is `Evaluate` (`PortfolioIntentEngine::evaluate` with the regime hysteresis),
`UpdateTarget` (`ParentOrderManager::update_target`, expiry and replacement included) and
one `Child` per venue (`ChildOrderScheduler` with the router's choice and
`submit_decision`'s answer). The signals, the blend that gives the wanted target, the
scores and the horizons are inputs, so venues may be ranked in any order. The code leaves
`filled_qty` and, in a live session, the `global_position` the snapshot starts from
uninitialised; both are choices. In paper mode fills happen between passes, in live mode
at any time. `over` is a history variable: the most that was working on a side when more
was sent to it.

### Reconciliation

A snapshot is the number of trades the venue had made. `cycle` visits the venues in the
order they were registered; a visit is one of `Skip` (quarantined), `Fails` (the fetch, by
its error), `Condemned` (insane), `Drifted`, `fill_gap_detected`, `Spurious` (the unset
`mismatch` flag reads true, which it may on every visit) or `Accepted`, and all but `Skip` and `Accepted` end the cycle
as the code's return does. `CycleEnds` is the accounting's `ingest_reconciliation`: fees
of listed fills that the ring does not remember. The assumption `Remembered >=
2 * Window - 1` is what the code's sizes (512 and 4096) satisfy and what
`FeesCountedOnce` needs.

### Shadow connector

The pool of orders and the account they fill. `check_fills` is cut at each look at the
book, since the feed's thread moves it in between. Profit is computed as the code does
(average entry, realised part of a turn, maker and taker fees, slippage by size), in exact
arithmetic where the code has doubles: the average entry is a quotient, so it and the
realised profit are kept over a common denominator. The slippage alone is rounded.

## 3. Runs

| Run | Question | Result |
|---|---|---|
| `connector` | a venue that amends in place: is every order journalled before it is sent, does the file always read back as memory, do cancel and replace exclude each other, does the connector implement `JournalContract`? | holds |
| `connector_faults` | what is left when appends fail silently, at a venue that cancels and places anew? Does every call end? | acknowledgements stay true, the map stays backed, calls end |
| `session_restart` | is an order whose submit returned OK really placed? | violated: ids restart at 1, the old journal answers |
| `spsc_ring` | is the ring a FIFO queue with true refusals, are items never torn? | holds |
| `order_manager` | position, pending quantities and slots against what was executed, with late failures, dropped fills and a full ledger; are slots given back? | holds |
| `engine` | is what is sent within the limits, is nothing but the sell-off sent after a kill, do its cancels come last, does a kill stop the engine, how many orders can a second see? | holds; at most twice the limit |
| `feeds` | where the venue's numbers tell, are all levels of the book from one moment, with the number of the handler? Where it sends checksums, are the levels they cover real and traded on? Does a handler that lost its way stream again? | holds for a book that took the last snapshot, with the exceptions `Resyncs` names |
| `order_book` | over a walk of the market out of the grid: does no level survive that the exchange no longer has, is the touch never crossed or better than the real one? | holds |
| `ipc` | is an accepted signal whole and current, is no announced slot unwritten, with two feed threads and deaths anywhere? | holds |
| `planner` | by how much can the maximum position be exceeded, does a shock only reduce? | by what was working uncounted; yes |
| `reconciliation` | does patience with a venue end, does no venue starve, is a fee counted once? | holds; the unset flag can starve a venue, and nothing else can |
| `shadow` | do cash, profit and position balance, do reports add up, does an IOC order end? | holds |

Every property has a mutant in `PROJECT.json`: a definition that models code, changed the
way a plausible bug would change it, under which TLC finds the property violated.

**Bounds.** One client id with its replacement, one slot of the table and three records are
enough for every interaction of the journal's keys in `connector`; `connector_faults` has
two orders; `MaxLog` bounds the journal records of a behaviour and `MaxWire = 1` a late
request at a time. The ring has 4 cells and 3 items so that it wraps, fills and empties.
The manager has 2 slots and 2 orders of quantity 2 (partial fills, a slot reused), a queue
of 2 (fills wait or are dropped) and a ledger with room for one venue of two. The engine
has two venues, child orders worth 1 of either sign, and a limit of each kind that is the
one that refuses in some state; passes have up to two child orders, so that the first can
pull the switch on the second; windows end and begin anew within the ticks of the run. The
feeds have four levels, of which Kraken sends three and a checksum covers two; the first
update changes the best level, the second puts a new one behind it, which pushes another
out of the checksum and a third out of Kraken's book. The buffer holds one update (it
overflows), there are three sockets, one fault and a stop with a second start; removals of
levels are left to the proofs. The market of `order_book` walks over
7 prices against a grid of 4. `ipc` has two threads on a ring of two slots, two tries, two
signals and a restart of either side. The planner's maximum is 1 lot and its venues show up
to 2, so one order may already flatten and turn; `MaxExposure` ends a behaviour.
Reconciliation has a venue with and one without a canonical snapshot, budgets of 1, a
window of 2 fills, 3 remembered and 4 made, so the ring forgets. Paper trading has one
slot and two orders of up to 2 lots: one closes, turns or adds to what the other opened.
Symmetry is not used.

**Fairness.** `connector_faults` assumes that a call under way goes on: the HTTP client has
a timeout, and nothing else blocks `with_retries`. `order_manager` assumes that the strategy
keeps draining, that a drain goes on and that a submit returns, which is `CallReturns`.
`engine` assumes the loop's own steps: it is one thread and every call it makes returns.
`feeds` assumes that the event loop's thread runs and that every open socket connects,
sends what is pending and delivers what it was sent. `reconciliation` assumes that the loop starts a
cycle every interval and ends it. `shadow` assumes that the loop calls `check_fills` on each
pass and that latencies end. Nothing is assumed of the venue, of signals, fills or prices.

**Deadlock** is checked except in `engine` (it stops), `feeds` (bounded sockets, faults and
updates are used up) and `shadow` (all orders have ended).

## 4. Proofs

TLAPS checks the theorems for every value of the constants under the `ASSUME` of the
module they are about; TLC evaluates the same assumptions in the runs. They ask that sizes,
bounds and budgets are numbers and that ids and quantities are drawn from numbers, as in
the code, and three things that are less obvious: the updates of the feeds' exchange are a
sequence and the handlers are of the kinds that exist (`ProtocolAssumption`,
`HandlerAssumption`; a checksum covers no more levels than the subscription), the market of the grid opens uncrossed with both sides
(`OpeningAssumption`), and the ring of fees remembers two lists but one
(`Remembered >= 2 * Window - 1`; 4096 and 512 in the code). Every safety invariant and every
action property of the runs is proved.

**Connector.** `LiveConnectorProofs` proves the type invariant, `AckedSubmitIsReal`,
`AckedCancelIsDead` and `MapIsBacked` (also when appends fail), and under
`AppendMayFail = FALSE` `JournalDurable`, `CancelReplaceExclusive`, `WriteAhead` and
the refinement `ImplementsContract`. The invariants form a chain:

1. `TypeInv`: types, and a call under way has a legal target.
2. `TruthInv` adds `CallSound` (what the call in progress has learnt from the venue is
   true) and `JournalTrue` (every entry and every record tells the truth about the
   venue): an acknowledgement is written from what the call learnt, so the first carries
   the second, and venue orders never come back to life.
3. `MapInv` adds `MapIsBacked` itself: an acknowledged entry leaves the table only when
   recovery replaces all of them, and that is when the order map is emptied.
4. `DurInv` adds `JournalKept` (the file replays to the table, and the records of a key
   are such that the last one is its entry), `CancelReplaceExclusive` and `WrittenAhead`
   (the key of the call in progress is in flight in the file). Durability is not
   inductive alone: appending a record of a key that has no slot would change nothing in
   memory but could in the replay, so the invariant keeps the order in which keys took
   their slots (`LogOrdered`) – which also avoids an induction over the file.

**Channels.** `ChannelProofs` proves `TypeCorrect`, `NoTornSignal` and
`AnnouncedIsWritten` of `SharedMemory`. The two channels share only the count of restarts,
so each has an invariant of its own. `SignalInv` says that the sequence word counts the
publications twice and is odd during one (`LockCounts`), which publication each data word
holds at each step of the writer (`WordsFollow`), and that a reader whose sequence word has
not moved holds words of the publication complete when it began (`ReadSound`). For the
ring, every slot below the announced sequence holds something, and every thread past its
copy has filled the slot it is about to announce. It also proves `QueueTypeOK`,
`NoTornItem` and `ImplementsQueue` of `SpscQueue` from `ProducerSound` (between the test
and the store the cell after `write` is not `read`) and `ConsumerSound` (the ring is not
empty, and a copied item is still in its cell): each thread's test stays true because only
the thread itself moves its index towards the other's.

**Order manager.** `OrderManagerProofs` proves `SlotsTrackOrders`, `PositionConserved` and
`PendingTracksOpenOrders` for every number of orders, slots, venues and queued updates.
None is inductive: each relates a counter to what the other thread has done and this one
has not heard of. `QueueInv` says what the fill queue may hold: for each order a chain of
growing cumulative fills that its slot has not heard of, closed by at most one last
update; a slot belongs to one order, an order that is not over has one. On top of it, the
position and each venue's pending quantity are sums over the orders of what their slots
know. A sum over a finite set is a recursive function on its subsets, so what a step does
to it is proved once (`SumIs` and the lemmas after it).

**Engine.** `TradingEngineProofs` proves `SentWithinCaps`, `KillCancelsLast`,
`NoOrderAfterKill` and `RatePerSpan` for every mode, limit and length of a pass.
`SentWithinCaps` is not inductive, because the code tests the committed notional and not
the sent one: `CapsInv` adds that the two are equal until the switch is pulled, after which
nothing is sent. `KillInv` says that once the cancels are out the switch is on and nothing
was sent since, and that a loop no signal ended was left through the cancels. `RateInv`
says how many orders the window under way holds and how many a span may hold that reaches
back before its beginning; a span of one second overlaps at most two windows.

**Planner.** `PlannerProofs` proves `OvershootIsWhatWasWorking` and `ShockOnlyReduces`.
Between evaluation and the last child the pass carries a difference computed earlier:
`Planned` says it leads from the clamped position into the limits, `Routed` that what is
left to send still fits on top of what is working, whatever the venues before took.
`ShockInv` adds that in a shock the difference is the position read, turned round, and that
what is left to send is part of it.

**Feeds and grid.** `FeedHandlersProofs` proves `BookIsGenuine`, `SequenceMatchesBook`,
`ChecksumBookIsTraded` and `BestLevelsAreReal` from `HandlerSound`: no socket is ahead of
the exchange, everything buffered was sent by it, and number, traded book and checksum
book of a synchronised handler belong together (`Consistent`), each as far as its venue
can tell. Every message of a venue has a lemma of its own, since each venue has its own
reason why a gap is noticed. Where the numbers chain, an update that continues the book of
a version makes the book of a later one, of the levels the grid has (`PatchAgrees`), and a
replay of the buffer is followed message by message (`StepStays`,
`ReplayRuns`). Where only a checksum tells, the claim is smaller: what enters the local
book enters the traded one, and truncation leaves the levels under the checksum as they
are (`TruncatedTop`), because the subscription is at least as deep.

`OrderBookProofs` proves `LevelsAreCurrent` and `TouchIsReal` for every market and every
size of the grid, from `BookInv`: a synced grid carries the number of the last update, the
last update is in the exchange's book (so a repeated one changes nothing), and whatever the
grid shows lies inside it. That last part is what a recentering needs: it moves the cells
below `levels` only. That the touch is never crossed then follows from the exchange's.

**Reconciliation.** `ReconciliationProofs` proves `BoundedPatience` and `FeesCountedOnce`.
The bound on patience is not inductive: `PatienceInv` explains each visit without
acceptance as one more failed fetch since the last count of drifts or gaps rose, so their product
with the budget bounds it, although each arriving
snapshot resets the count of failed fetches. For the fees, `FeesInv` says
of each venue (`Remembers`) that the ring holds different trades already counted, that of
two it holds the one that came first is less than a list newer, and that it has forgotten
none a list can still hold. The last part is inductive because of the ring's length
(`OldestIsOut`): what came after the fill it gives up, and the new one, are as many
different trades as it has places, so they cannot all be among those of two lists.

**Paper trading.** The last part of `OrderManagerProofs` proves `ReportsMatchPosition` and
`BooksBalance` from `ShadowInv`. What makes the first inductive is what a check knows across
the moves of the book: the order it looked at is still in the pool, wants at least the
quantity decided (`CheckHolds`), was reported as far as it is filled (`PoolReported`), and
its id has no second slot (`OneSlotEach`). `EntryFacts` is the arithmetic of the second: a
fill of any quantity at any price that opens, adds, closes or turns keeps the equation,
multiplied by the denominator; the fee leaves the cash as it joins the fees.

The induction theorems of the library cannot be used here. Where a number or a list has to
be followed step by step (sums, replays, minima), the proofs take a smallest
counterexample instead, which exists because `<` on `Nat` and strict inclusion on the
subsets of a finite set are well founded (`WFMin`).

Only model-checked are the liveness properties `CallReturns`, `SlotsAreFreed`,
`KillStopsEngine`, `Resyncs`, `NoVenueStarves` and `IocEnds`: fairness is out of the
prover's reach.

## 5. Not modelled

- Configuration loaders, JSON, logging, HTTP, signing, symbol mapping: I/O, parsing and
  formatting.
- Venue quality and the market maker: moving averages and quotes in floating point; the
  engine does not construct the market maker.
- Python research, bindings and deployment: model training and scripts. The two programs
  that share memory with the engine are modelled as the engine's peers in `SharedMemory`.
- Of modelled parts: message rate, book age, price deviation and the recovery guard (the
  loop does not call them), `on_child_fill`, `on_child_cancel`, `poll` and `route` (nothing
  calls them), the trade channel of the feeds, equity and fallback fees of the accounting,
  floating-point rounding everywhere.
- Concurrent readers of `OrderBook`: it is a data race on vectors, undefined behaviour for
  which no set of outcomes can be named.
- Half a record in the journal file, two connectors on one file: the file of the model is a
  sequence of whole records of one writer.

## 6. What the models show beside the properties

Behaviour a reader should know that no statement of the repository contradicts:

- A kill on the notional leaves commitments of orders that were never sent; harmless, as
  nothing is sent afterwards.
- The heartbeat is beaten right before it is checked, so a stalled pass is not noticed.
- `cancel_all` of OKX and Coinbase always refuses, and the engine ignores the result.
- A full journal (256 keys) refuses every new submit; a full order map makes an accepted
  order uncancellable by id.
- `reconcile()` of the connector clears the order map and nothing rebuilds it.
- Coinbase's heartbeat clock survives a reconnect, and an error message stops the handler
  for good; a dropped snapshot is only noticed when the buffer overflows.
- A snapshot the book refuses leaves a handler that streams over the old book, or over one
  that is not ready and takes nothing; no event tells it. The properties of the feeds
  except this state (`Usable`).
- Kraken: `truncate_book` cuts the checksum's book only. A level pushed out of the
  subscription stays in the traded book, with its last size, until the grid moves or a new
  snapshot comes. The properties say nothing of levels below the checksum's.
- OKX without `prevSeqId` and `checksum` (both are optional) accepts an update after a gap.
- Kraken's amend is acknowledged although the venue may have refused it.
- A sound snapshot may read as a mismatch, since the decision's flag is not initialised: it
  ends the cycle without a count, so the venues after it may never be reconciled.
- Every pass of the loop sends the whole difference again; working orders are not counted.
- A quarantine is never lifted, and nothing asks for it.

## 7. What could come next

The composition of `OrderBook` with `FeedHandlers`, so that the snapshots and levels the
book refuses follow from its grid instead of being any; of `ShadowConnector` with
`OrderManager`; two connectors on one journal file.
