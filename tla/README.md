# QuantHelm in TLA+

TLA+ models of QuantHelm, a Rust system that collects Binance USDⓈ-M candles and market data and
gates orders by risk; TLC model-checks them on small instances, and TLAPS proves every invariant and
action property that TLC checks for every instance. Paths below are relative to `src/`.

## 1. Inventory of the system

| Component | Code | State | Operations | Hard behaviour |
|---|---|---|---|---|
| Gap detector | `crates/qh-market-data/src/lib.rs` | latest accepted open time per series | `observe` | order of arrivals, when it may advance |
| REST recovery | `crates/qh-binance/src/rest.rs`, `models.rs` | cursor, candles so far | `backfill_klines`, `klines` | short, wrong, failing pages; termination |
| Ingestion | `apps/quanthelm/src/main.rs` 260-324 | detector, file, candle in hand | `ingest_with_backfill`, `accept_recovered` | detector before file, errors half way |
| Stream supervisor | `crates/qh-binance/src/stream.rs` | session, backoff, rotation timer | `run` | reconnection, back pressure, shutdown |
| Collector | `apps/quanthelm/src/main.rs` 200-258 | the channel, the loop | `watch_klines` | two tasks, Ctrl-C at any moment |
| JSON-lines store | `crates/qh-storage/src/lib.rs` | a file | `append`, `read_all` | torn appends, reuse after a crash |
| Replay | `apps/quanthelm/src/main.rs` 337-365 | counts | `replay` | one break hides another |
| Risk gate | `crates/qh-risk/src/lib.rs`, `qh-config`, `qh-domain` | limits | `new`, `evaluate` | order of checks, boundaries, stale snapshots |
| Symbol filters | `crates/qh-binance/src/filters.rs` | none | `floor` | grids, zero, maximum after flooring |
| Market context | `crates/qh-binance/src/context.rs`, `rest.rs` | the requests under way | `market_context` and the calls it joins | one error of five, answers of different moments |
| Contract metadata | `crates/qh-binance/src/parse.rs`, `models.rs` | none | `exchange_info`, `contract`, `trading_perpetuals` | all or nothing, unknown filters |
| `download-klines` | `apps/quanthelm/src/main.rs` 149-187, `rest.rs`, `parse.rs` | counters, the output file | one request, then append | candles that are not over yet, reuse of the output |
| Stream URLs, environment and secrets, command line, exchange trait | `websocket.rs`, `qh-config`, `main.rs`, `qh-exchange` | none | decoding and printing | - |

How they interact. `watch_klines` spawns the supervisor; the two share a bounded `mpsc` channel
(2048 items) and a `watch` channel for shutdown. The loop awaits one item at a time: a raw frame is
appended to `raw.jsonl`, a closed candle goes to `ingest_with_backfill`, which asks the detector,
may call the REST recovery, and appends to `closed-klines.jsonl`. While it does, nothing empties the
channel, and Ctrl-C is not looked at. Every error of the loop ends the process. Files outlive
processes; the detector does not. `download-klines` shares the detector and the store with the
collector, and `replay` reads what either wrote. `market-context` is a program of one call. The risk
gate and the symbol filters are libraries: nothing in the repository calls them.

What makes each correct:

- detector and ingestion: within a run the file of a series is gapless and in order, the detector
  agrees with it whenever no call is under way, and the file ends with the newest candle delivered;
- recovery: it ends, and succeeds only with exactly the missing range;
- supervisor: reports come in the order of what happened, delays follow the schedule, sessions are
  bounded, a disconnection is followed by an attempt, a stop request ends it;
- collector: what is stored was audited, the channel is served, a stop ends both tasks;
- store: a read that succeeds is complete; replay: it tells a gapless file from any other;
- client: what a call returns is whole, of one contract and made within one timeout before its
  `completed_at`, and it ends; metadata loses no rule; a floor is the best value the exchange takes;
- download: a candle stored as closed by a clock that is not ahead is final, the file misses nothing
  it acknowledged, and what the command reports is what `replay` finds in what it wrote;
- risk gate: an approved opening order is within every limit, and nothing that makes the account's
  situation worse, nor splitting the order, turns a refusal into an approval.

## 2. Modules

| Module | Models | Correspondence |
|---|---|---|
| `GapDetector` | `observe` | `Continuity` is the classification, `Observed` the new latest time |
| `Interval`, `KlineRange` | `Interval::duration`, `backfill_candle_count`, `KlineRequest::validate` | which ranges and requests are accepted, and the constants that the recovery and ingestion share |
| `Backfill` (uses `KlineRange`) | `backfill_klines` | `start`, `end`, `cursor`, `recovered` are its parameter and locals; one `Fetch` step is one request with the loop over its page |
| `CandleLog` | what ingestion promises | per series a log that only grows by the next candle |
| `Ingest` (uses `GapDetector`, `Backfill`) | `ingest_with_backfill`, `accept_recovered` | `Offer` is the call, `Proceed` its steps between awaits; `todo` are the candles it still has to append |
| `KlineSupervisor` | `run`, `ReconnectBackoff`, `send_item` | `sup` is the place in the code, `outbox` the items whose `send` is being awaited |
| `WatchKlines` (uses `Ingest`, `KlineSupervisor`) | `watch_klines` | `main` is the place of the loop; the loop and the supervisor interleave at every await; errors of the loop and of the wait for Ctrl-C unwind it without a join |
| `JsonlStore` | `append`, `read_all` | lines and what is behind the last newline |
| `Replay`, `CollectorRestart` (uses `Ingest`) | `replay`, several runs on one directory | a `Reboot` may strike at any step of ingestion |
| `Download` (uses `JsonlStore`, `Replay`) | `download-klines` with `klines` and `parse_kline_row` | `tally` is the detector and the counters; a process may end between any two steps and be started again |
| `SymbolFilters` | `PriceFilter::floor`, `LotSizeFilter::floor` | one operator per method, and beside them what the exchange takes |
| `ExchangeMetadata` (uses `SymbolFilters`) | `parse_exchange_info`, `contract`, `trading_perpetuals` | the loop over filters is a fold |
| `PublicClient` (uses `ExchangeMetadata`) | `BinancePublicClient` without `klines`, `try_join!` in `market_context` | `generated` is when the exchange made each answer, `parts` what has arrived and parsed |
| `RiskGate` | `evaluate`, `new`, both `validate`s | `Verdict` is the decision; `Refresh` is the caller's next context |
| `Folding` | facts about induction and folds that the proofs share | section 5 |
| `BackfillProofs`, `IngestProofs`, `KlineSupervisorProofs`, `WatchKlinesProofs`, `CollectorRestartProofs` | proofs about the collector and its parts | section 5 |
| `StoreProofs` | proofs about `JsonlStore` and `Download` | section 5 |
| `OrderProofs` | proofs about `RiskGate`, `SymbolFilters`, `ExchangeMetadata` and `PublicClient` | section 5 |

The recovery has no run of its own: it is checked inside `Ingest`, on the ranges ingestion asks for.

`MC<module>` gives the constants for TLC. Definitions whose comment says "Mutant" are wrong on
purpose and used by nothing: each is put in the place of the definition below it to see that some
property fails.

Abstractions. A candle is its open time and its series, in `Download` also its `closed` mark and a
ghost field `final`, which only the exchange knows; a row of an answer has its open and its close
time, in no fixed distance of each other. Prices and volumes are never looked at by this code. Times
are integers and `Step` the interval, so that unaligned times exist. A text frame is the candle it
carries and whether that is closed; one that does not parse is `BadFrame`. Pongs, and pings that are
answered, change nothing. A page is any sequence of open times. In `JsonlStore` a record is a model
value and a torn line the value `Garbled`, because no strict prefix of a JSON object, nor two
objects on a line, decode. In `Ingest` an append is whole or fails without effect, in
`CollectorRestart` it may also have happened unnoticed, and torn lines are `JsonlStore`'s. All three
take `append` to return every error of a write. It does not flush the tokio file before `sync_data`
(`qh-storage/src/lib.rs` 70-71), so this is a promise of the library and not of this code, and
`ReadIsComplete`, `DetectorMatchesStore` and what rests on them hold under it. The program's clock
is the exchange's plus a constant `skew`. In `PublicClient` a payload is a sequence of records, and
a field of a record is a sign, absent, or something that does not decode: what the parsers tell
apart; `received_at` is left out (section 6). Prices and quantities of `SymbolFilters` are integers
in units of the smallest step that occurs. In `RiskGate` fractions are integers in units of `1/Unit`
and the division rounds to that unit, ties to even, as `Decimal` does at its 28th digit; an intent
is what the gate reads of it. Overflow of `Decimal` arithmetic is a panic, hence no approval, and is
left out. The close handshake (`writer.close().await`) is taken to end.

## 3. Runs

| Run | Distinct states | Shows |
|---|---|---|
| `ingest` | 12168 | two series, candles in any order and off the grid, any server: recoveries that end, are exact, ask valid requests and refuse no page that answers its request; contiguity, agreement, refinement of `CandleLog` |
| `supervisor` | 5723 | order of reports, backoff schedule, rotation, stop and retry |
| `watch` | 43090 | the collector with failures and Ctrl-C anywhere: audit before store, progress, and refinement of `Ingest` with its fairness |
| `watch_shutdown` | violation | finding 1 |
| `client` | 204090 | every call of one request and the five joined ones, each way to spoil an answer, delays and timeouts: whole, coherent snapshots; metadata and floors |
| `download` | 1881388 | downloads into one file with crashes in any append and skewed clocks: complete reads, closed is final unless the clock is ahead, reports that agree with `replay` |
| `download_closed` | violation | finding 5 |
| `store_replay` | violation | finding 2 |
| `restart` | 31734 | breaks only where runs begin, and replay tells |
| `restart_report` | violation | finding 3 |
| `risk` | 10032 | the gate on both sides of every limit |
| `risk_halted` | violation | finding 4 |

Bounds and why they are enough. Ingest: two series show that one does not disturb the other, and the
open times up to 10 with `Step` 2 give gaps of up to four candles. With pages of up to two candles a
recovery is one page, several full ones, short ones or one with a last partial page; `MaxCandles` is
three, so that a gap too long is refused. `OffGrid` holds a candle between two multiples of `Step`,
so that a range that does not align occurs; pages are all sequences of up to two open times, on the
grid or off it, and longer ones with anything at their end. Supervisor: a channel of three items is
smaller than what a session sends, so every send may block; delays 1, 2, 3, 3 show doubling and cap.
`AttemptBound` stops the counting of a history variable, the attempts since the last connection, and
nothing else; `GrowthAssumption` demands that it does so only once the delay has reached its
maximum. Collector: a channel of two, one series and three open times, so that a gap, its recovery
and a repeated candle happen. Store: three appends are enough for a torn line, a record merged with
it and one behind it. Download: answers of up to three rows over three candles hold every continuity
and a gap followed by a repetition; two of them close at the same time, which the code does not rule
out; the clock runs up to that time, so that both final and unfinished candles are answered, and is
off by one unit either way; the five requests are two valid ones, at both ends of what the limit may
be, and one for each condition of `KlineRequest::validate`. Client: a timeout of two leaves room for
answers made at different times, a second call and a deadline reached in the middle; every kind of
field is spoiled in each way its parser tells apart; filters have minima of -1 to 3, steps of 0 to 3
and maxima of 0, 4 and 6 (disabled or not, and bounds less or more than a step apart), and every
sequence of up to three of seven assorted ones occurs. Restarts: two, so three runs meet in one
file. Risk: for each limit a value on it, one below and one above; configurations at both ends of
each range `validate` accepts. `MCPublicClient`, `MCDownload` and `MCJsonlStoreReplay` turn the
deadlock check off because `MaxTime` or `AppendBound` end their behaviours; everywhere else a state
without a step would be reported, and the places where the program really ends are `Stopped`
actions.

## 4. Fairness

Weak fairness of a task's own steps stands for the runtime, which polls a task that can move. For
`Fetch` it is the 10 s timeout of the HTTP client: a request is answered or fails. `StopSeen` and
`Rotate` are strongly fair: they are branches of a `tokio::select!` that picks a ready branch at
random, and stay ready between two frames. Nothing is assumed of `connect_async`, which has no
timeout; the liveness properties say "or it hangs there", and only `ConnectingSpec` assumes attempts
end. In `PublicClient` time passes and its timeout fires (`Tick`, `TimesOut`); no answer need ever
come. Nothing is assumed of the exchange, of Ctrl-C, or, in `KlineSupervisor`, of an owner other
than that it keeps receiving. `watch_klines` looks at Ctrl-C only between two items.

## 5. Proofs

The theorems hold for every value of the constants that the named assumptions allow: what kind of
value each is, that intervals, units and capacities are positive, that `None`, `Refused`,
`Malformed` and `Garbled` are no data, that payloads are finite lists whose filters hold numbers or
something that does not decode (`PayloadAssumption`), and `GrowthAssumption` above. tlapm checks
them to the last leaf with Z3, Zenon and LS4.

*Recovery.* `RecoveredIsPrefix` and the range properties are not inductive alone: a page moves the
cursor by as many intervals as it adds candles, and that this never passes the end needs the range
to be a multiple of the interval. The invariant `IInv` adds that (`RangeInv`) and that an idle call
holds nothing; that the candles held never exceed `MaxCandles` follows from it (`PrefixIsBounded`).
`PageKeepsPrefix` and `PageKeepsCursorInRange` carry the step of a page; the facts about multiples
of the interval come first, because the solvers cannot find them alone with an interval that is a
variable. From it follow `TypeOK`, `DoneIsWholeRange`, `RequestsAreValid`, `CursorStaysInRange` and
`HonestPageIsTaken`. `PagesMakeProgress` is the safety half of `CallReturns`: each request that does
not end the call leaves fewer candles to recover, because what is collected and what remains always
add up to the range (`CollectedAndLeft`).

*Induction over data.* The library's induction theorems take an operator, which the provers cannot
instantiate. `Folding` proves `Induction` for sets of numbers instead, from the least number outside
the set, and from it that a `FoldLeft` runs along a chain of intermediate values (`FoldIsChain`) and
that two chains agree. Its operator is a constant, so that a module takes `Folding` by `INSTANCE`
for each loop of the code it reasons about. `ReplayIsTruthful`, `ReportsStayTrue` and
`MetadataStaysFaithful` rest on it.

*Ingestion.* `StoreIsContiguous` needs to know what is in hand: `HandInv` says that the candles
still to be accepted are the next ones of the series, one interval apart, `FillInv` that the range
being recovered is exactly the hole between the detector and the candle in hand (and keeps the
recovery's own invariant, proved once and used through `INSTANCE`), `NewestInv` that the newest
candle delivered is stored or last in hand. One lemma per action keeps `IInv`. It gives type
correctness, contiguity, agreement of detector and file, that the collector is caught up between
calls, that `accept_recovered` never refuses a candle, that a recovery inside ingestion has the
properties proved of it alone (`RecoveriesAreSound`), and that `Ingest` implements `CandleLog`:
only `WriteOk` moves the log, and by its next candle.

*Supervisor.* `EmissionOrder` speaks of the item that entered the channel last, while what decides
it is what the task is about to send and where it will go then. `OrderInv` says both: as long as the
receiver lives, the outbox is a chain of legal successors behind the last item (`Chain`), and the
place of the task tells which report ends that chain (`Told`). Every action either replaces the
outbox at a place whose report is known, or moves its head to the channel. `BackoffSchedule`
compares the code's delay, doubled and capped in place, with the one that doubles without a cap
(`Unbounded`, a recursive function); `ScheduleInv` says that between two attempts the former is the
latter, capped. Doubling a capped delay and capping again is capping the doubled one, and where the
counting stops both are at the maximum (`GrowthAssumption`).

*Collector.* `StoredIsAudited` relates the file of candles to that of frames, two tasks and a
channel apart. `ChannelInv` carries the frame to the file: in what is on its way (`Channel`) a
closed candle stands right behind its frame, which is in front of it or has been taken out to be
audited (`Seen`). So a candle handed over is audited (`NewestIsAudited`), and by the invariant of
`IngestProofs`, used through `INSTANCE`, nothing stored is newer than what was handed over
(`StoredIsCovered`). After an error of the loop the claim about the channel is dropped, because the
frame in hand is lost then and nothing is taken out any more. `CollectorIngests` is the safety part
of `ImplementsIngest`. `CollectorStreams` says the same of the other task: each step of the loop is
one that `KlineSupervisor` allows the owner of the channels. So the supervisor's invariants, proved
of its steps without its fairness, hold of the collector (`CollectorEmitsInOrder`,
`CollectorBacksOff`).

*Restarts.* The invariant of ingestion does not survive a restart: the detector is empty and the
file is not. But it holds of what the current run has appended: `Run` is `IngestProofs` with the
store replaced by the part of it that begins at the run's first candle (`Written`, `Origin`). A step
of ingestion is a step of the run, a restart begins a run with an empty part, and a candle that was
on its way to the disk still continues the part of the run that wrote it. `ReplayIsTruthful` is an
induction over the file: while every candle continues the one before it, replay's detector stands at
the last one and no counter of breaks has moved; once one does not, a counter is positive and stays
so.

*Store.* `ReadIsComplete` quantifies over a file that can be read, and an unreadable file can not
become readable again, because lines are never removed. `LinesComplete` is stated of the finished
lines only: a function `place` finds the acknowledged records in them, in order. A torn tail does
not count: whatever lands behind it makes its line garbled, and then nothing is claimed.

*Download.* Its steps are steps of the store (`DownloadImplementsStore`), so the file keeps the
store's promise (`DownloadReadIsComplete`). `StoredClosedIsFinal` rests on `ClockInv`: the clock was
read before the answer was made, so a candle whose end lies before that reading was over when the
exchange spoke, whatever close times the rows carry. With the clock read afterwards, or ahead, it
would be false. `ReportsStayTrue` needs to follow
the counters while candles are still to be stored: `TallyInv` says that a living process has counted
what a replay of the lines it added would; `FoldOfAppend` carries that over one more line, and
`PrintedInv` keeps it of the printed report when the process has gone.

*Symbol filters.* Between a floored candidate and the candidate there is no grid point
(`NothingBetween`), so the last one is unique (`BestIsUnique`), and a refusal for being too high
means that the only candidate for an answer is out of bounds. `FloorsStayExact` takes this to the
filters of parsed metadata.

*Public client.* `CInv` adds to `TypeOK`, which places every answer between the start of the call
and now, when a call may wait and end (`TimesInv`: not past its deadline, and with all its parts,
made before its end) and what has arrived (`PartsInv`: each part is its payload, parsed without an
error). `SnapshotsAreCoherent` follows from the times; the other snapshot properties are then about
the parsers alone. `CallsKeepTheirDeadline` is the safety half of `CallEnds`. For
`MetadataStaysFaithful` the loop over the filters of a contract is followed one filter at a time:
after the first n of them the rules know the last of each known type among the first n, and have the
others by name, in their order (`Lists` speaks of places by counting those before them).

*Risk gate.* The leverage is a rounded quotient. `IsNearest` says what it is without division: twice
the dividend lies within one divisor of twice the quotient, and ties are even. From this follow the
half unit in `OpeningStaysWithinLimits` and that rounding is monotonic in both arguments, ties
included, on which `WorseBuysNothing` rests. For `SplittingBuysNothing` the second part of an order,
judged after the first, projects the same gross exposure as the whole.

Only model-checked: liveness (`CallReturns`, `CallEnds`, `StopsWhenAsked`, `DisconnectIsRetried`,
`SessionIsBounded`, `ChannelIsServed`, `StopEndsOrBlocks`, and the fairness part of
`ImplementsIngest`), which rests on fairness and `ENABLED` and is out of the prover's reach. Every
other property of the passing runs is a theorem.

## 6. Findings

1. *Shutdown deadlock.* `main.rs:253` awaits the supervisor without receiving from or dropping the
   channel; a supervisor waiting for room (`stream.rs:357`) does not look at shutdown. A slow
   recovery with a busy stream fills the channel, and then Ctrl-C hangs the process.
   (`stream.rs:139`: "Runs until shutdown is requested or the consumer disappears.")
   `StopEndsOrBlocks` shows it is the only way besides a hanging `connect_async`.
2. *Torn line.* A crash inside `append` leaves a partial line; the next run appends behind it, and
   `read_all` then refuses the whole file. (`docs/MARKET_DATA.md:78`: "Every persisted candle can be
   replayed in deterministic file order.")
3. *Counts after a gap.* Replay's detector stays before the first gap, so that every later candle,
   repeated ones included, is counted as a gap. (`docs/MARKET_DATA.md:79`: "Missing, duplicate, and
   out-of-order candles are reported explicitly.")
4. *Halted.* Reducing orders are approved in `Halted`. (`docs/RISK_POLICY.md:30`: "`Halted`:
   strategy-generated orders are blocked.")

5. *Closed by the wrong clock.* `is_closed` of a REST candle is decided by the program's clock
   (`parse.rs:188`). With a clock that is ahead, an unfinished candle is stored as closed
   (`qh-market-data/src/lib.rs:116`: "True only when the exchange says the candle is closed.").
   `ClosedIsFinal` shows that a clock that is not ahead never does it. The recovery takes its candles
   without a look at the mark.

A disagreement that was read and has no run. `received_at` of a REST answer is documented as "Local
receive timestamp" (`context.rs:29`, 51, 76, 112), but each call reads the clock before it sends its
request (`rest.rs:62` and its siblings) and stamps the answer with that; a funding record has no such
field. (For the audited frames of the stream the clock is read behind the frame, as
`qh-market-data/src/lib.rs:139`, "Local receive time", has it.) The models leave the field out,
nothing is claimed of it, and no property here should be read as saying that the stamp is right. It
is early by up to one timeout; nothing in the repository computes with it.

Worth knowing, and no contradiction of a promise:

- a collector restarted on its directory begins with an empty detector and accepts any first candle,
  so a file of several runs may have a gap or a repetition where a run began, and nowhere else
  (`BreaksOnlyAtRestarts`);
- one REST request of a recovery that fails ends the collector (`main.rs:295`): the code has no retry
  and no document promises one, so `CallReturns` counts a failure as an end;
- an error of the wait for Ctrl-C (`main.rs:225`) ends the collector without a stop for the
  supervisor or a join, like every other error of the loop;
- `market_context` starts four requests before the limit of the fifth is refused; the first error of
  the five drops the answers of the others;
- one contract that does not parse fails `exchange_info` for all of them;
- a price filter without a minimum floors a candidate below one tick to zero (`FloorsAreExact` says
  it happens nowhere else).

## 7. Not modelled

Stream URLs (string building from names that were checked before), reading the environment and the
redaction of secrets, logging and the command line: pure formatting and input, without state. Of
parsing, the decoding of JSON text. `qh-exchange` is a trait without an implementation, and the gate
has no caller, so that nothing says when a snapshot it judges is taken. The end of the process kills
its tasks; the models let the supervisor of a failed collector see its channels close instead, which
takes nothing away from what is checked of the time before.
