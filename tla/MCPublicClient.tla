---------------------------- MODULE MCPublicClient ----------------------------
(* Context payloads that parse, and each way to spoil one; metadata with    *)
(* every small filter, and with every short sequence of a few filters.     *)
EXTENDS PublicClient

CONSTANTS s1, s2, BadName

MCSymbols == {s1, s2}

Whole(e) == [f \in DOMAIN Fields[e] |-> "positive"]

(* One field of each kind: a value at the edge of what the kind takes.     *)
Edge(kind) == CASE kind = "price" -> {"zero", "negative", None}
                [] kind = "optional price" -> {"zero", Malformed}
                [] kind = "optional count" -> {"negative"}
                [] kind = "optional time"  -> {None, Malformed}
                [] kind = "count" -> {"negative"}
                [] OTHER -> {None, Malformed}

Kinds(e) == {Fields[e][f] : f \in DOMAIN Fields[e]}

Rows(e) ==
    {[symbol |-> s, raw |-> Whole(e)] : s \in {s1, s2, BadName}} \cup
    UNION {LET field == CHOOSE f \in DOMAIN Fields[e] : Fields[e][f] = kind
           IN  {[symbol |-> s1, raw |-> [Whole(e) EXCEPT ![field] = v]] : v \in Edge(kind)} :
              kind \in Kinds(e)}

ContextPayloads(e) ==
    IF e = "fundingRate"
    THEN {<<>>} \cup {<<[symbol |-> s1, raw |-> Whole(e)], row>> : row \in Rows(e)}
    ELSE {<<row>> : row \in Rows(e)}

-----------------------------------------------------------------------------
Bounds(mins, maxs, steps) == [min : mins, max : maxs, step : steps]

Filter(type, value) == [type |-> type, value |-> value]

SmallPrice == [min |-> 2, max |-> 7, step |-> 3]
OtherPrice == [min |-> 0, max |-> 0, step |-> 2]

Assorted == {Filter("PRICE_FILTER", SmallPrice), Filter("PRICE_FILTER", OtherPrice),
             Filter("LOT_SIZE", SmallPrice), Filter("LOT_SIZE", Malformed),
             Filter("FUTURE_FILTER", Malformed), Filter("OTHER_FILTER", None),
             Filter(Malformed, None)}

Raw(s, filters) == [symbol |-> s, type |-> "PERPETUAL", status |-> "TRADING",
                    onboarded |-> 0, filters |-> filters]

Bare == {Raw(s1, <<>>), Raw(s2, <<>>), Raw(BadName, <<>>),
         [Raw(s1, <<>>) EXCEPT !.status = "TRADING_HALT"],
         [Raw(s1, <<>>) EXCEPT !.type = "CURRENT_QUARTER"],
         [Raw(s1, <<>>) EXCEPT !.onboarded = Malformed]}

Info(contracts) == [serverTime |-> 0, symbols |-> contracts]

MetadataPayloads ==
    {Info(<<Raw(s1, <<Filter(type, value)>>)>>) :
         type \in {"PRICE_FILTER", "LOT_SIZE"}, value \in Bounds(-1 .. 3, {0, 4, 6}, 0 .. 3)} \cup
    {Info(<<Raw(s1, filters)>>) : filters \in SeqOf(Assorted, 3)} \cup
    {Info(contracts) : contracts \in SeqOf(Bare, 2)} \cup
    {[serverTime |-> Malformed, symbols |-> <<>>]}

MCPayloads == [e \in Endpoints |->
                  CASE e = "ping"         -> {"{}"}
                    [] e = "exchangeInfo" -> MetadataPayloads
                    [] OTHER              -> ContextPayloads(e)]

MCCandidates == -1 .. 8
=============================================================================
