----------------------------- MODULE PublicClient -----------------------------
(***************************************************************************)
(* BinancePublicClient: its read-only calls of one request, and            *)
(* market_context, which joins five of them under try_join!.  Requests are *)
(* sent, answered and received at different moments of an explicit clock;  *)
(* the exchange answers what and when it likes, or not at all.             *)
(***************************************************************************)
EXTENDS ExchangeMetadata

CONSTANTS
    Timeout,     \* of the HTTP client (10 s in the code)
    MaxFunding,  \* the most funding records one may ask for (1000)
    Amounts,     \* the numbers of funding records callers ask for
    Payloads,    \* per endpoint, what the exchange may answer
    Candidates,  \* prices and quantities to be put on a contract's grid
    MaxTime      \* bound: no call begins that could outlive this time

ASSUME ClientAssumption ==
    /\ Timeout \in Nat \ {0} /\ MaxFunding \in Nat \ {0}
    /\ Amounts \subseteq Nat /\ Candidates \subseteq Int
    /\ MaxTime \in Nat /\ Timeout <= MaxTime /\ None \notin Int \cup Symbols

VARIABLES
    now,        \* the clock
    call,       \* where the call is: idle, waiting, done or failed
    joined,     \* the endpoints it joins
    symbol,     \* the contract asked for; None for exchangeInfo and ping
    started,    \* when its requests were sent
    generated,  \* per endpoint the exchange has answered, when it did
    parts,      \* per endpoint whose answer has arrived, what it was parsed to
    completed   \* completed_at of the result, None before

vars == <<now, call, joined, symbol, started, generated, parts, completed>>

-----------------------------------------------------------------------------
(* The fields of a payload and what each is parsed as.                     *)
Fields ==
    [premiumIndex |-> [markPrice |-> "price", indexPrice |-> "price",
                       estimatedSettlePrice |-> "optional price",
                       lastFundingRate |-> "decimal", interestRate |-> "decimal",
                       nextFundingTime |-> "time", time |-> "time"],
     bookTicker   |-> [bidPrice |-> "price", bidQty |-> "decimal", askPrice |-> "price",
                       askQty |-> "decimal", time |-> "optional time",
                       lastUpdateId |-> "optional count"],
     openInterest |-> [openInterest |-> "decimal", time |-> "time"],
     ticker24h    |-> [priceChange |-> "decimal", priceChangePercent |-> "decimal",
                       weightedAvgPrice |-> "price", lastPrice |-> "price",
                       lastQty |-> "decimal", openPrice |-> "price", highPrice |-> "price",
                       lowPrice |-> "price", volume |-> "decimal", quoteVolume |-> "decimal",
                       openTime |-> "time", closeTime |-> "time", count |-> "count"],
     fundingRate  |-> [fundingRate |-> "decimal", fundingTime |-> "time",
                       markPrice |-> "optional price"]]

Context   == DOMAIN Fields
Endpoints == Context \cup {"exchangeInfo", "ping"}
Calls     == {Context} \cup {{e} : e \in Endpoints}

(* A field of the payload: a sign, None if absent, Malformed if it decodes *)
(* to no number or to no time.                                             *)
RawValues == {"positive", "zero", "negative", None, Malformed}

(* A payload of a context endpoint is a sequence of records; exchangeInfo  *)
(* lists contracts, and the bounds and the step of a filter are numbers.   *)
IsMetadata(payload) ==
    /\ payload.symbols \in Seq(Range(payload.symbols))
    /\ \A i \in DOMAIN payload.symbols :
          LET filters == payload.symbols[i].filters
          IN  /\ filters \in Seq(Range(filters))
              /\ \A j \in DOMAIN filters : filters[j].type \in {"PRICE_FILTER", "LOT_SIZE"} =>
                        filters[j].value \in Filters \cup {Malformed}

ASSUME PayloadAssumption ==
    /\ \A e \in Context : \A payload \in Payloads[e] : \A i \in DOMAIN payload :
          payload[i].raw \in [DOMAIN Fields[e] -> RawValues]
    /\ \A payload \in Payloads["exchangeInfo"] : IsMetadata(payload)

(* required_price, optional_positive_price, timestamp, decimal.            *)
Reading(kind, raw) ==
    CASE kind = "price"          -> IF raw = "positive" THEN raw ELSE Malformed
      [] kind = "optional price" -> IF raw \in {"zero", "negative"} THEN None ELSE raw
      [] kind = "optional count" -> IF raw = "negative" THEN Malformed ELSE raw
      [] kind = "optional time"  -> raw
      [] kind = "count"          -> IF raw \in {None, "negative"} THEN Malformed ELSE raw
      [] OTHER                   -> IF raw = None THEN Malformed ELSE raw

(* One record of a payload: its symbol and its fields.                     *)
ParseRow(e, row) ==
    LET values == [f \in DOMAIN Fields[e] |-> Reading(Fields[e][f], row.raw[f])]
    IN  IF row.symbol \notin Symbols \/ \E f \in DOMAIN values : values[f] = Malformed
        THEN Malformed ELSE [symbol |-> row.symbol, values |-> values]

(* Mutant: whose data it is does not matter.                               *)
AnySymbol(row) == TRUE

(* ensure_symbol.                                                          *)
IsRequested(row) == row.symbol = symbol

(* The rows of an answer: one, but for fundingRate any number.             *)
ParseRows(e, payload) ==
    LET rows == [i \in DOMAIN payload |-> ParseRow(e, payload[i])]
    IN  IF \E i \in DOMAIN rows : rows[i] = Malformed \/ ~IsRequested(rows[i])
        THEN Malformed ELSE rows

(* What the endpoint's method makes of an answer.                          *)
Parse(e, payload) ==
    CASE e = "ping"         -> payload
      [] e = "exchangeInfo" -> ParseExchangeInfo(payload)
      [] OTHER              -> ParseRows(e, payload)

-----------------------------------------------------------------------------
NoCall ==
    /\ joined = {} /\ symbol = None /\ started = 0
    /\ generated = <<>> /\ parts = <<>> /\ completed = None

Init == now = 0 /\ call = "idle" /\ NoCall

(* A limit out of range is refused before its request is sent.             *)
LimitIsRefused(endpoints, limit) ==
    "fundingRate" \in endpoints /\ limit \notin 1 .. MaxFunding

(* The first poll reads the clock for, and sends, every request.           *)
Begin(endpoints, s, limit) ==
    /\ call = "idle" /\ now + Timeout <= MaxTime
    /\ call' = IF LimitIsRefused(endpoints, limit) THEN "failed" ELSE "waiting"
    /\ joined' = endpoints /\ symbol' = s /\ started' = now
    /\ UNCHANGED <<now, generated, parts, completed>>

Request ==
    \E endpoints \in Calls, limit \in Amounts :
        \E s \in IF endpoints \subseteq Context THEN Symbols ELSE {None} :
            Begin(endpoints, s, limit)

(* What is known per endpoint, and now of one more.                        *)
Extended(known, e, value) ==
    [x \in DOMAIN known \cup {e} |-> IF x = e THEN value ELSE known[x]]

(* The exchange makes an answer; it has yet to travel.                     *)
Generate(e) ==
    /\ call = "waiting" /\ e \notin DOMAIN generated
    /\ generated' = Extended(generated, e, now)
    /\ UNCHANGED <<now, call, joined, symbol, started, parts, completed>>

(* Mutant: the snapshot is stamped when its requests are sent.             *)
CompletedAtStart == started

(* completed_at: the clock is read once every part is there.               *)
CompletedAt == now

(* try_join! returns when every request has been answered.                 *)
AllAreIn(received) == DOMAIN received = joined

Accept(e, payload) ==
    /\ parts' = Extended(parts, e, [answer |-> Parse(e, payload),
                                     raw |-> IF e = "exchangeInfo" THEN payload ELSE None])
    /\ IF AllAreIn(parts') THEN call' = "done" /\ completed' = CompletedAt
                           ELSE UNCHANGED <<call, completed>>

(* The first error ends the call; the other requests are dropped with the  *)
(* answers they already have.                                              *)
Fail ==
    /\ call' = "failed"
    /\ generated' = <<>> /\ parts' = <<>>
    /\ UNCHANGED <<now, joined, symbol, started, completed>>

(* An answer arrives; one that does not parse, or is about another         *)
(* contract, is an error.                                                  *)
Arrive(e, payload) ==
    /\ call = "waiting" /\ e \in DOMAIN generated \ DOMAIN parts
    /\ IF Parse(e, payload) = Malformed THEN Fail
       ELSE Accept(e, payload) /\ UNCHANGED <<now, joined, symbol, started, generated>>

(* The transport fails or the exchange answers with an error status.       *)
RequestFails == call = "waiting" /\ Fail

Deadline == started + Timeout

(* Mutant: the timeout covers the wait for an answer but not its body.     *)
TimesOutBeforeAnswer ==
    call = "waiting" /\ now = Deadline /\ DOMAIN generated # joined /\ Fail

TimesOut == call = "waiting" /\ now = Deadline /\ Fail

Tick ==
    /\ call = "waiting" => now < Deadline
    /\ now < MaxTime /\ now' = now + 1
    /\ UNCHANGED <<call, joined, symbol, started, generated, parts, completed>>

(* The caller is done with the result.                                     *)
Return ==
    /\ call \in {"done", "failed"}
    /\ call' = "idle" /\ joined' = {} /\ symbol' = None /\ started' = 0
    /\ generated' = <<>> /\ parts' = <<>> /\ completed' = None
    /\ UNCHANGED now

Exchange == \E e \in joined : Generate(e) \/ \E payload \in Payloads[e] : Arrive(e, payload)

Next == Request \/ Exchange \/ RequestFails \/ TimesOut \/ Tick \/ Return

(* Time passes and timers fire; the exchange need never answer.            *)
Spec == Init /\ [][Next]_vars /\ WF_vars(Tick) /\ WF_vars(TimesOut)

-----------------------------------------------------------------------------
(* The variables stay in their domains.                                    *)
TypeOK ==
    /\ now \in 0 .. MaxTime /\ started \in 0 .. now
    /\ call \in {"idle", "waiting", "done", "failed"} /\ (call = "idle" => NoCall)
    /\ joined \in Calls \cup {{}} /\ symbol \in Symbols \cup {None}
    /\ DOMAIN parts \subseteq DOMAIN generated /\ DOMAIN generated \subseteq joined
    /\ \A e \in DOMAIN generated : generated[e] \in started .. now
    /\ completed # None <=> call = "done"

(* "Failure to prove continuity or parse a context component must never be *)
(* represented as a valid snapshot": a call that returns data returns an   *)
(* answer of every endpoint it joined, each about the contract asked for,  *)
(* and no price in it is other than positive.                              *)
SnapshotIsWhole ==
    call = "done" =>
        \A e \in joined :
            /\ e \in DOMAIN parts
            /\ e \in Context =>
                   \A i \in DOMAIN parts[e].answer :
                       LET row == parts[e].answer[i]
                       IN  /\ row.symbol = symbol
                           /\ \A f \in DOMAIN Fields[e] :
                                 /\ Fields[e][f] = "price" => row.values[f] = "positive"
                                 /\ Fields[e][f] = "optional price" =>
                                        row.values[f] \in {"positive", None}

(* "Time after all component requests completed": whatever order the five  *)
(* answers are made and arrive in, no part of a snapshot is newer than its *)
(* completed_at, none is older by more than one timeout, so no two parts   *)
(* are further apart than that.                                            *)
SnapshotIsCoherent ==
    call = "done" => \A e \in joined : generated[e] \in completed - Timeout .. completed

(* The elements of xs at the places are what is listed, each in its place. *)
Lists(listed, xs, places) ==
    /\ Len(listed) = Cardinality(places)
    /\ \A j \in places : listed[Cardinality({i \in places : i <= j})] = xs[j]

(* "Unknown exchange filters are retained by name rather than silently     *)
(* ignored": exchangeInfo is taken whole or not at all; each filter of     *)
(* each contract is in its rules, an unknown one by name and in its place, *)
(* a known one unless a later one of the same type replaced it.            *)
MetadataIsFaithful ==
    call = "done" /\ joined = {"exchangeInfo"} =>
        LET contracts == parts["exchangeInfo"].answer
            raw       == parts["exchangeInfo"].raw.symbols
            Named(s)  == {i \in DOMAIN raw : raw[i].symbol = s}
        IN  /\ Len(contracts) = Len(raw)
            /\ \A i \in DOMAIN raw :
                  LET filters == raw[i].filters
                      rules   == contracts[i].rules
                      Of(type) == {j \in DOMAIN filters : filters[j].type = type}
                  IN  /\ Lists(rules.unknown, [j \in DOMAIN filters |-> filters[j].type],
                               {j \in DOMAIN filters : filters[j].type \notin KnownFilters})
                      /\ \A type \in KnownFilters :
                            IF Of(type) = {} THEN rules.known[type] = None
                            ELSE rules.known[type] = filters[Max(Of(type))].value
            /\ \A s \in Symbols :
                  IF Named(s) = {} THEN Contract(contracts, s) = None
                  ELSE Contract(contracts, s) = contracts[Min(Named(s))]
            /\ Lists(TradingPerpetuals(contracts), contracts,
                     {i \in DOMAIN raw : raw[i].type = "PERPETUAL" /\ raw[i].status = "TRADING"})

(* Both floors of every filter that was parsed, for every candidate, are   *)
(* the largest prices and quantities the exchange takes that are not above *)
(* the candidate, and zero is a price only where no minimum is set and the *)
(* candidate is below one tick.                                            *)
FloorsAreExact ==
    call = "done" /\ joined = {"exchangeInfo"} =>
        \A i \in DOMAIN parts["exchangeInfo"].answer : \A candidate \in Candidates :
            LET known == parts["exchangeInfo"].answer[i].rules.known
                price == known["PRICE_FILTER"]
                lot   == known["LOT_SIZE"]
            IN  /\ price # None =>
                      LET answer == PriceFloor(price, candidate)
                      IN  /\ IsPriceFloor(price, candidate, answer)
                          /\ answer = 0 => ~Enabled(price.min) /\ candidate < price.step
                /\ lot # None => IsLotFloor(lot, candidate, LotFloor(lot, candidate))

(* Every call ends, whatever the exchange does: the timeout covers the     *)
(* answer until its last byte.                                             *)
CallEnds == call = "waiting" ~> call \in {"done", "failed"}
=============================================================================
