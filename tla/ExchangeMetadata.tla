--------------------------- MODULE ExchangeMetadata ---------------------------
(***************************************************************************)
(* parse_exchange_info: the contracts of an exchangeInfo payload with the  *)
(* filters of each, all of them or an error.  A payload is a server time   *)
(* and a sequence of raw contracts; a raw filter is its type and what its  *)
(* fields decode to.                                                       *)
(***************************************************************************)
EXTENDS SymbolFilters, SequencesExt

CONSTANTS
    None,       \* a filter a contract does not have
    Malformed,  \* a missing field, or one that does not decode
    Symbols     \* the names Symbol::new accepts

ASSUME MetadataAssumption == Malformed # None /\ Malformed \notin Symbols

(* The filters that have a field of their own in SymbolRules.              *)
KnownFilters == {"PRICE_FILTER", "LOT_SIZE", "MARKET_LOT_SIZE", "PERCENT_PRICE",
                 "MIN_NOTIONAL", "MAX_NUM_ORDERS", "MAX_NUM_ALGO_ORDERS"}

NoRules == [known |-> [type \in KnownFilters |-> None], unknown |-> <<>>]

(* A filter without a type, or a known one with a field that is missing or *)
(* does not decode; nobody looks at the fields of an unknown one.          *)
IsMalformed(filter) ==
    \/ filter.type = Malformed
    \/ filter.type \in KnownFilters /\ filter.value = Malformed

(* One turn of the loop of parse_filters.                                  *)
WithFilter(rules, filter) ==
    IF filter.type \in KnownFilters
    THEN [rules EXCEPT !.known[filter.type] = filter.value]
    ELSE [rules EXCEPT !.unknown = Append(@, filter.type)]

ParseFilters(filters) ==
    IF \E i \in DOMAIN filters : IsMalformed(filters[i]) THEN Malformed
    ELSE FoldLeft(WithFilter, NoRules, filters)

(* ContractType and ContractStatus, as far as trading_perpetuals tells.    *)
ParseContract(raw) ==
    LET rules == ParseFilters(raw.filters)
    IN  IF raw.symbol \notin Symbols \/ raw.onboarded = Malformed \/ rules = Malformed
        THEN Malformed
        ELSE [symbol |-> raw.symbol, rules |-> rules,
              trades |-> raw.type = "PERPETUAL" /\ raw.status = "TRADING"]

(* Mutant: contracts that do not parse are skipped.                        *)
ParseWhatParses(payload) ==
    SelectSeq([i \in DOMAIN payload.symbols |-> ParseContract(payload.symbols[i])],
              LAMBDA contract : contract # Malformed)

ParseExchangeInfo(payload) ==
    LET contracts == [i \in DOMAIN payload.symbols |-> ParseContract(payload.symbols[i])]
    IN  IF payload.serverTime = Malformed \/ \E i \in DOMAIN contracts : contracts[i] = Malformed
        THEN Malformed ELSE contracts

(* ExchangeInfo::contract: the first contract of that name.                *)
Contract(contracts, symbol) ==
    LET first == SelectInSeq(contracts, LAMBDA contract : contract.symbol = symbol)
    IN  IF first = 0 THEN None ELSE contracts[first]

(* ExchangeInfo::trading_perpetuals: one contract after the other.         *)
Kept(listed, contract) == IF contract.trades THEN Append(listed, contract) ELSE listed

TradingPerpetuals(contracts) == FoldLeft(Kept, <<>>, contracts)
=============================================================================
