------------------------------- MODULE Gateway -------------------------------
(***************************************************************************)
(* What the gateway lets through and what it makes of it: validation       *)
(* (gateway/src/validation.rs), the wire types (gateway/src/api.rs), the   *)
(* dispatch and the answers of the exchange endpoints                      *)
(* (gateway/src/handlers.rs), and how the chain reads the same texts       *)
(* (chain/src/tx.rs, chain/src/app.rs).                                    *)
(*                                                                         *)
(* A number in a text is [chars, places, value]: its length, its decimal   *)
(* places and its value, None when it is no number.  An address is         *)
(* [prefix, digits, hex], a client id [chars, plain].                      *)
(***************************************************************************)
EXTENDS Integers, Sequences, FiniteSets, SequencesExt

CONSTANTS
    MaxOrders,           \* max_orders_per_request
    MaxCancels,          \* max_cancels_per_request
    MaxBody,             \* max_request_body_size
    MaxAddress,          \* max_address_length
    MaxChars,            \* max_decimal_length
    MaxPrice, MaxSize,   \* max_price, max_size
    MinNonce             \* min_nonce

None == [none |-> TRUE]
Ok == "ok"

PriceDecimals == 8
UsdcDecimals == 6

ValidationError ==
    {"TooManyOrders", "TooManyCancels", "RequestTooLarge", "InvalidAddress", "InvalidPrice", "InvalidSize",
     "InvalidMarketId", "InvalidTimeInForce", "InvalidNonce", "InvalidOrderType", "InvalidLeverage",
     "InvalidAmount", "InvalidGrouping", "PriceMustBePositive", "SizeMustBePositive", "PriceExceedsMax",
     "SizeExceedsMax", "EmptyOrdersList", "EmptyCancelsList"}

\* The first check that fails gives the error.
First(checks) == IF SelectInSeq(checks, LAMBDA c : c # Ok) = 0 THEN Ok
                 ELSE checks[SelectInSeq(checks, LAMBDA c : c # Ok)]
Check(holds, error) == IF holds THEN Ok ELSE error
All(s, check(_)) == First([i \in DOMAIN s |-> check(s[i])])

\* Decimal::from_str_exact: too many places are refused, not rounded.
from_str_exact(d, decimals) == IF d.value = None \/ d.places > decimals THEN None ELSE d.value
from_str(d) == from_str_exact(d, PriceDecimals)

-----------------------------------------------------------------------------
(* validation.rs *)

Number(d, error, positive, max, tooLarge) ==
    First(<<Check(d.chars <= MaxChars, error),
            Check(from_str(d) # None, error),
            Check(from_str(d) # None => d.value.n > 0, positive),
            Check(from_str(d) # None => d.value.n <= max, tooLarge)>>)

validate_price(d) == Number(d, "InvalidPrice", "PriceMustBePositive", MaxPrice, "PriceExceedsMax")
validate_size(d) == Number(d, "InvalidSize", "SizeMustBePositive", MaxSize, "SizeExceedsMax")

\* No upper bound.
validate_amount(d) ==
    Check(d.chars <= MaxChars /\ from_str(d) # None /\ d.value.n > 0, "InvalidAmount")

validate_address(x) ==
    Check(/\ x.digits + (IF x.prefix = "" THEN 0 ELSE 2) <= MaxAddress
          /\ x.prefix \in {"0x", "0X"} /\ x.digits = 40 /\ x.hex, "InvalidAddress")

validate_nonce(n) == Check(n >= MinNonce, "InvalidNonce")
validate_leverage(l) == Check(l \in 1..50, "InvalidLeverage")
validate_body_size(n) == Check(n <= MaxBody, "RequestTooLarge")
validate_market_name(chars) == Check(chars \in 1..32, "InvalidMarketId")
validate_client_order_id(c) == Check(c.chars <= 64 /\ c.plain, "InvalidOrderType")
validate_grouping(g) == Check(g \in {"na", "Na", "NA", "normalTpsl", "positionTpsl"}, "InvalidGrouping")

Tifs == {"Gtc", "Ioc", "Alo", "Fok"}
LowerTif(t) == CASE t = "Gtc" -> "gtc" [] t = "Ioc" -> "ioc" [] t = "Alo" -> "alo" [] t = "Fok" -> "fok"
                 [] OTHER -> t

\* A type is [tif] or [is_market, trigger_px, tpsl].
IsTrigger(t) == "tpsl" \in DOMAIN t

validate_order_type(t) ==
    IF IsTrigger(t)
    THEN First(<<validate_price(t.trigger_px),
                 Check(t.tpsl \in {"tp", "sl", "TP", "SL"}, "InvalidOrderType")>>)
    ELSE Check(t.tif \in Tifs \cup {LowerTif(x) : x \in Tifs}, "InvalidTimeInForce")

\* Perp and spot orders are checked alike.
validate_order_wire(o) ==
    First(<<validate_price(o.p), validate_size(o.s), validate_order_type(o.t),
            IF o.c = None THEN Ok ELSE validate_client_order_id(o.c)>>)

validate_orders_count(n) ==
    First(<<Check(n # 0, "EmptyOrdersList"), Check(n <= MaxOrders, "TooManyOrders")>>)
validate_cancels_count(n) == Check(n <= MaxCancels, "TooManyCancels")

Orders == {"order", "spotOrder"}
Cancels == {"cancel", "cancelByCloid", "spotCancel"}
Transfers == {"usdTransfer", "withdraw"}
ExchangeAction == Orders \cup Cancels \cup Transfers
                    \cup {"cancelAll", "spotCancelAll", "updateLeverage", "viewTransfer"}

validate_exchange_action(a) ==
    CASE a.type \in Orders ->
            First(<<validate_orders_count(Len(a.orders)), validate_grouping(a.grouping),
                    All(a.orders, validate_order_wire)>>)
      [] a.type \in Cancels ->
            First(<<validate_cancels_count(a.cancels), Check(a.cancels # 0, "EmptyCancelsList")>>)
      [] a.type = "updateLeverage" -> validate_leverage(a.leverage)
      [] a.type \in Transfers -> First(<<validate_address(a.destination), validate_amount(a.amount)>>)
      [] a.type = "viewTransfer" -> validate_amount(a.amount)
      [] OTHER -> Ok

validate_exchange_request(enabled, r) ==
    IF enabled THEN First(<<validate_nonce(r.nonce), validate_exchange_action(r.action)>>) ELSE Ok

\* By what the request names: a user, a coin or nothing.
ByUser == {"clearinghouseState", "openOrders", "spotBalances", "unifiedBalances", "spotOpenOrders",
           "userFills", "userFundingHistory", "stateProof"}
ByCoin == {"l2Book", "spotL2Book", "recentTrades", "candleSnapshot", "fundingHistory"}
InfoRequest == ByUser \cup ByCoin
                 \cup {"meta", "allMids", "spotMeta", "spotAllMids", "spotTokenInfo", "stateInfo",
                       "evidenceStatus"}

validate_info_request(enabled, r) ==
    IF ~enabled THEN Ok
    ELSE CASE r.type \in ByUser -> validate_address(r.user)
           [] r.type \in ByCoin -> validate_market_name(r.coin)
           [] OTHER -> Ok

-----------------------------------------------------------------------------
(* How the texts are read afterwards.  None: the transaction fails. *)

\* handlers.rs parse_address: only the small x is a prefix.
parse_address(x) == IF x.digits = 40 /\ x.hex /\ x.prefix # "0X" THEN [bytes |-> x] ELSE None

\* OrderTypeWire::to_order_type of the chain, case sensitive.
to_order_type(t) ==
    IF IsTrigger(t) THEN [kind |-> IF t.is_market THEN "Market" ELSE "Limit", tif |-> "Gtc"]
    ELSE IF t.tif \in Tifs THEN [kind |-> "Limit", tif |-> t.tif] ELSE None

\* parse_order_type of the gateway's own spot path: any case, and whatever it
\* does not know is good till cancelled.
parse_order_type(t) ==
    IF IsTrigger(t) THEN None
    ELSE IF \E x \in Tifs : t.tif \in {x, LowerTif(x)}
    THEN [kind |-> "Limit", tif |-> CHOOSE x \in Tifs : t.tif \in {x, LowerTif(x)}]
    ELSE [kind |-> "Limit", tif |-> "Gtc"]

\* The direction of a name in capitals is guessed from the side.
TriggerDirection(o) ==
    CASE o.t.tpsl = "tp" -> "Above" [] o.t.tpsl = "sl" -> "Below"
      [] OTHER -> IF o.b THEN "Below" ELSE "Above"

to_order_request(o) ==
    IF \/ None \in {from_str(o.p), from_str(o.s), to_order_type(o.t)}
       \/ IsTrigger(o.t) /\ from_str(o.t.trigger_px) = None
    THEN None
    ELSE [price |-> o.p.value, size |-> o.s.value, order_type |-> to_order_type(o.t),
          trigger |-> IF IsTrigger(o.t) THEN [at |-> o.t.trigger_px.value, dir |-> TriggerDirection(o)]
                      ELSE None]

\* The signed fields of an order: neither the trigger nor the client id.
compute_hash_eip712(o) ==
    [a |-> o.a, b |-> o.b, p |-> o.p, s |-> o.s, r |-> o.r,
     t |-> IF IsTrigger(o.t) THEN "trigger" ELSE LowerTif(o.t.tif)]
compute_hash_eip712_spot(o) ==
    [a |-> o.a, b |-> o.b, p |-> o.p, s |-> o.s,
     t |-> IF IsTrigger(o.t) THEN "trigger" ELSE LowerTif(o.t.tif)]

\* The gateway's own spot path reads the size with the token's decimals, the
\* chain with those of a price.
SpotReadable(router, o, decimals) ==
    IF router = "cometbft" THEN to_order_request(o) # None
    ELSE None \notin {from_str(o.p), from_str_exact(o.s, decimals), parse_order_type(o.t)}

\* Whether an action gets past the conversions on its path.
Readable(router, a, decimals) ==
    CASE a.type = "order" -> \A i \in DOMAIN a.orders : to_order_request(a.orders[i]) # None
      [] a.type = "spotOrder" -> \A i \in DOMAIN a.orders : SpotReadable(router, a.orders[i], decimals)
      [] a.type \in Transfers -> /\ parse_address(a.destination) # None
                                 /\ from_str_exact(a.amount, UsdcDecimals) # None
      [] a.type = "viewTransfer" -> from_str_exact(a.amount, decimals) # None
      [] OTHER -> TRUE

-----------------------------------------------------------------------------
(* Dispatch and answers *)

SpotPath == {"spotOrder", "spotCancel", "spotCancelAll", "viewTransfer"}

\* process_exchange_request_presigned
Route(router, type) ==
    IF type \in SpotPath THEN IF router = "direct" THEN "spot_engine" ELSE "broadcast_spot"
    ELSE IF router = "direct" THEN "app" ELSE "broadcast_perp"

\* signed is the set of requests with a valid signature, exec[st, r] is
\* [state, answer].  One request is validated, its signature is
\* verified, and it is executed.
handle_exchange(st, r, signed, exec) ==
    IF validate_exchange_request(TRUE, r) # Ok THEN [state |-> st, answer |-> "invalid"]
    ELSE IF r \notin signed THEN [state |-> st, answer |-> "unsigned"]
    ELSE exec[st, r]

\* A batch validates and verifies all of its requests, then executes them.
handle_exchange_batch(st, rs, signed, exec) ==
    LET verdict == [i \in DOMAIN rs |->
                        IF validate_exchange_request(TRUE, rs[i]) # Ok THEN "invalid"
                        ELSE IF rs[i] \notin signed THEN "unsigned" ELSE Ok]
        step(acc, i) == IF verdict[i] # Ok THEN [acc EXCEPT !.answers = Append(@, verdict[i])]
                        ELSE LET out == exec[acc.state, rs[i]]
                             IN  [state |-> out.state, answers |-> Append(acc.answers, out.answer)]
    IN  FoldLeft(step, [state |-> st, answers |-> <<>>], [i \in 1..Len(rs) |-> i])

\* An event is [type, oid, fills, remaining], remaining None where the event has
\* no such attribute.
extract_order_statuses(events) ==
    LET status(e) ==
            IF e.type \in {"perp_order", "spot_order"}
            THEN IF e.fills > 0 /\ e.remaining \in {None, [n |-> 0]} THEN "filled" ELSE "resting"
            ELSE "error"
        kept == SelectSeq(events, LAMBDA e : e.type # "perp_fill")
    IN  [i \in DOMAIN kept |-> status(kept[i])]

\* What execute_orders_sync reports of a placed order, and what the gateway's
\* own spot path answers.
order_event(market, o) ==
    [type |-> IF market < 128 THEN "perp_order" ELSE "spot_order", oid |-> o.oid, fills |-> o.fills,
     remaining |-> IF market < 128 THEN [n |-> o.remaining] ELSE None]

spot_status(o) == IF o.remaining = 0 THEN "filled" ELSE "resting"
================================================================================
