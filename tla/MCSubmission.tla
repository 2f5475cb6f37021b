---------------------------- MODULE MCSubmission ----------------------------
(* The requests that Submission takes as given, from the texts that the    *)
(* gateway receives: every combination of a few numbers, addresses, order  *)
(* types and client ids, valid and not.                                    *)
EXTENDS Submission

G == INSTANCE Gateway WITH MaxOrders <- 2, MaxCancels <- 2, MaxBody <- 4, MaxAddress <- 42,
                           MaxChars <- 9, MaxPrice <- 4, MaxSize <- 3, MinNonce <- 1

Text(chars, places, n) == [chars |-> chars, places |-> places, value |-> [n |-> n]]
Numbers == {Text(1, 0, n) : n \in -1..5} \cup {Text(9, p, 2) : p \in {6, 7, 8, 9}}
             \cup {Text(10, 0, 2), [chars |-> 1, places |-> 0, value |-> G!None]}
Few == {Text(1, 0, 2), Text(9, 7, 2)}

Texts(prefixes, digits) == [prefix : prefixes, digits : digits, hex : BOOLEAN]
OrderTypes == [tif : {"Gtc", "gtc", "Fok", "Day"}]
               \cup [is_market : BOOLEAN, trigger_px : Few, tpsl : {"tp", "TP", "sl", "SL", "oco"}]
ClientIds == {G!None, [chars |-> 4, plain |-> TRUE], [chars |-> 65, plain |-> TRUE]}

OrderWires == [a : {0}, b : BOOLEAN, p : Few, s : Few, r : {FALSE}, t : OrderTypes, c : ClientIds]
SomeOrder == [a |-> 0, b |-> TRUE, p |-> Text(1, 0, 2), s |-> Text(1, 0, 2), r |-> FALSE,
              t |-> [tif |-> "Gtc"], c |-> G!None]

Actions ==
    {[type |-> k, orders |-> <<o>>, grouping |-> g] :
        k \in G!Orders, o \in OrderWires, g \in {"na", "other"}}
    \cup {[type |-> k, orders |-> <<[SomeOrder EXCEPT !.p = p, !.s = s]>>, grouping |-> "na"] :
        k \in G!Orders, p \in Numbers, s \in Numbers}
    \cup {[type |-> k, orders |-> [i \in 1..n |-> SomeOrder], grouping |-> "na"] :
        k \in G!Orders, n \in 0..3}
    \cup [type : G!Cancels, cancels : 0..3]
    \cup [type : {"updateLeverage"}, leverage : {0, 1, 50, 51}]
    \cup [type : G!Transfers, destination : Texts({"", "0x", "0X"}, {39, 40, 41}), amount : Numbers]
    \cup [type : {"viewTransfer"}, amount : Numbers]
    \cup [type : {"cancelAll", "spotCancelAll"}]

Valid(action) == G!validate_exchange_action(action) = G!Ok

\* What validation lets through and the handlers then cannot read: a time in
\* force in small letters and a stop order for spot, each on one of the paths,
\* an address that starts with 0X, more decimals than the token has.
Trap(r, action, decimals) ==
    \/ action.type \in G!Orders
        /\ \E i \in DOMAIN action.orders :
              LET o == action.orders[i]
              IN  IF action.type = "spotOrder" /\ r = "direct"
                  THEN G!IsTrigger(o.t) \/ o.s.places > decimals
                  ELSE ~G!IsTrigger(o.t) /\ o.t.tif \notin G!Tifs
    \/ action.type \in G!Transfers /\ (action.destination.prefix = "0X" \/ action.amount.places > 6)
    \/ action.type = "viewTransfer" /\ action.amount.places > decimals

ASSUME ValidatedIsReadable ==
    \A r \in {"direct", "cometbft"}, decimals \in {6, 18} :
        \A action \in Actions :
            Valid(action) => (G!Readable(r, action, decimals) <=> ~Trap(r, action, decimals))

\* Validation bounds what the chain is given: at most MaxOrders orders or
\* cancels, positive prices and sizes within their limits; amounts of transfers
\* have no upper limit.
ASSUME ValidatedIsBounded ==
    \A action \in Actions :
        Valid(action) =>
            CASE action.type \in G!Orders ->
                    /\ Len(action.orders) \in 1..2
                    /\ \A i \in DOMAIN action.orders :
                          /\ action.orders[i].p.value.n \in 1..4 /\ action.orders[i].s.value.n \in 1..3
              [] action.type \in G!Cancels -> action.cancels \in 1..2
              [] action.type \in G!Transfers \cup {"viewTransfer"} -> action.amount.value.n > 0
              [] OTHER -> TRUE
ASSUME AmountsAreNot ==
    \E action \in Actions : action.type = "viewTransfer" /\ Valid(action) /\ action.amount.value.n > 4

\* Every refusal names its reason, and every reason is one that a request meets.
ASSUME ReasonsAreMet ==
    {G!validate_exchange_action(action) : action \in Actions}
    \cup {G!validate_exchange_request(TRUE, [nonce |-> n, action |-> [type |-> "cancelAll"]]) : n \in 0..1}
    \cup {G!validate_info_request(TRUE, [type |-> t, user |-> x, coin |-> n]) :
            t \in G!InfoRequest, x \in Texts({"", "0x"}, {40, 41}), n \in {0, 32, 33}}
    \cup {G!validate_body_size(n) : n \in 4..5}
        = G!ValidationError \cup {G!Ok}

\* tp and sl name a direction; TP and SL leave it to the side of the order, so
\* that a stop of a long position in capitals waits for the price to rise.
ASSUME CapitalsGuess ==
    \A o \in OrderWires :
        G!IsTrigger(o.t) /\ G!validate_order_wire(o) = G!Ok =>
            LET dir == G!TriggerDirection(o)
                meant == IF o.t.tpsl \in {"tp", "TP"} THEN "Above" ELSE "Below"
            IN  dir = meant <=> (o.t.tpsl \in {"tp", "sl"} \/ o.b = (meant = "Below"))

\* Two valid orders with the same signed hash are the same order up to the case
\* of the time in force, the trigger and the client id.
ASSUME SignedFields ==
    \A o, p \in {x \in OrderWires : G!validate_order_wire(x) = G!Ok} :
        G!compute_hash_eip712(o) = G!compute_hash_eip712(p) =>
            /\ [o EXCEPT !.t = p.t, !.c = p.c] = p
            /\ G!IsTrigger(o.t) <=> G!IsTrigger(p.t)
            /\ G!compute_hash_eip712_spot(o) = G!compute_hash_eip712_spot(p)

\* A batch answers every request in turn, as if it had been sent alone; the
\* execution here counts the requests and refuses the third.
BatchRequests == [nonce : 0..4, action : [type : {"cancelAll"}]]
Counted == [n \in 0..4, r \in BatchRequests |->
               [state |-> n + 1, answer |-> IF n = 2 THEN "refused" ELSE "done"]]
HasSignature == {r \in BatchRequests : r.nonce # 3}
Batches == UNION {[1..n -> BatchRequests] : n \in 0..4}
OneByOne(rs) ==
    FoldLeft(LAMBDA acc, r : LET out == G!handle_exchange(acc.state, r, HasSignature, Counted)
                             IN  [state |-> out.state, answers |-> Append(acc.answers, out.answer)],
             [state |-> 0, answers |-> <<>>], rs)
ASSUME BatchIsSequence ==
    \A rs \in Batches : G!handle_exchange_batch(0, rs, HasSignature, Counted) = OneByOne(rs)

\* Under CometBFT no action of the JSON endpoints executes in the gateway.
ASSUME NothingExecutesLocally ==
    \A type \in G!ExchangeAction : /\ G!Route("cometbft", type) \in {"broadcast_spot", "broadcast_perp"}
                                   /\ G!Route("direct", type) \in {"spot_engine", "app"}

\* One status for every order.  A perp order is called filled when nothing of
\* it is left; a spot order through the chain already when it has a fill, which
\* the gateway's own spot path tells apart.  An order that neither filled nor
\* rests is called resting.
Outcomes == [oid : {1}, fills : 0..2, remaining : 0..1, rests : BOOLEAN]
ASSUME StatusesPerOrder ==
    \A o, p \in Outcomes, m \in {0, 128} :
        LET fill == [type |-> "perp_fill"]
            failed == [type |-> "perp_order_failed"]
            events == <<fill, G!order_event(m, o), failed, fill, G!order_event(m, p)>>
            statuses == G!extract_order_statuses(events)
        IN  /\ Len(statuses) = 3 /\ statuses[2] = "error"
            /\ statuses[1] = "filled" <=> o.fills > 0 /\ (m = 128 \/ o.remaining = 0)
            /\ o.fills = 0 => statuses[1] = "resting"
            /\ (m = 128 /\ o.fills > 0 /\ o.remaining = 1) => statuses[1] # G!spot_status(o)

-----------------------------------------------------------------------------
(* The rate limiter, over every history of four requests of two addresses.  *)

L == INSTANCE RateLimit WITH Minute <- 12, MAX_ENTRIES <- 1

Config == [requests_per_minute |-> 2, exchange_requests_per_minute |-> 1, info_requests_per_minute |-> 3,
           burst_multiplier |-> 2, enabled |-> TRUE]
Request(path, ip) == [path |-> path, forwarded |-> "absent", real |-> "absent", connection |-> ip]

\* Requests at the given times; admitted are the indices of those let through.
Replay(st, reqs, times) ==
    FoldLeft(LAMBDA acc, i : LET r == L!call(acc.st, reqs[i], times[i])
                             IN  [st |-> r.state, admitted |-> IF r.ok THEN acc.admitted \cup {i} ELSE acc.admitted],
             [st |-> st, admitted |-> {}], [i \in DOMAIN reqs |-> i])

Paths == {"/exchange", "/info", "/ws"}
Seven(path) == [i \in 1..7 |-> Request(path, "x")]

\* At one moment an address gets its burst, which is the configured number times
\* the multiplier, and one more for each part of a minute it waits: over a minute
\* almost twice that.
ASSUME BurstBounds ==
    /\ Cardinality(Replay(L!new(Config), Seven("/ws"), [i \in 1..7 |-> 0]).admitted) = 4
    /\ Cardinality(Replay(L!new(Config), Seven("/exchange"), [i \in 1..7 |-> 0]).admitted) = 2
    /\ Cardinality(Replay(L!new(Config), Seven("/ws"), <<0, 0, 0, 0, 3, 6, 9>>).admitted) = 7

\* A request that its endpoint refuses has used up some of the global quota, and
\* the limits of one address never concern another.
ASSUME RefusedIsCounted ==
    Replay(L!new(Config), Seven("/exchange") \o Seven("/ws"), [i \in 1..14 |-> 0]).admitted = {1, 2}
ASSUME PerAddress ==
    \A p1, p2, p3, p4 \in Paths, ips \in [1..4 -> {"x", "y"}] :
        LET reqs == [i \in 1..4 |-> Request(<<p1, p2, p3, p4>>[i], ips[i])]
            own(ip) == SelectSeq(reqs, LAMBDA r : r.connection = ip)
            all == Replay(L!new(Config), reqs, <<0, 0, 0, 0>>).admitted
        IN  \A ip \in {"x", "y"} :
                Cardinality({i \in all : ips[i] = ip})
                  = Cardinality(Replay(L!new(Config), own(ip), <<0, 0, 0, 0>>).admitted)

\* Evicting a limiter gives its address the whole burst again; a table that is
\* not over its limit keeps all.
ASSUME EvictionForgives ==
    LET spent == Replay(L!new(Config), Seven("/ws"), [i \in 1..7 |-> 0]).st
        both == L!call(spent, Request("/ws", "y"), 0).state
        none == [global |-> {}, exchange |-> {}, info |-> {}]
    IN  /\ L!cleanup(spent, [none EXCEPT !.global = {"x"}]) = spent
        /\ L!call(L!cleanup(both, [none EXCEPT !.global = {"x"}]), Request("/ws", "x"), 0).ok
        /\ ~L!call(both, Request("/ws", "x"), 0).ok

ASSUME AddressOrder ==
    \A f, r, c \in {"absent", "unreadable", "x", "y"} :
        c # "unreadable" =>
            LET req == [path |-> "/ws", forwarded |-> f, real |-> r, connection |-> c]
            IN  L!extract_client_ip(req) \in {f, r, c, "127.0.0.1"} \ {"absent", "unreadable"}

-----------------------------------------------------------------------------
(* The precompiles, on an engine with one market and its orders.            *)

P == INSTANCE Precompiles WITH MaxFills <- 1, MaxTrades <- 1, Error <- Stranger, Wrap <- 1000

Resting(id, side, px, sz) == [id |-> id, market |-> 0, owner |-> 5, side |-> side, price |-> px, size |-> sz,
                              original_size |-> 9, ts |-> id, dir |-> "Above"]
Book(S) == FoldLeft(P!add_order, P!add_market(P!new, 0), P!ById(S))
Books == {Book(S) : S \in SUBSET {Resting(1, "Buy", 3, 2), Resting(2, "Buy", 3, 4), Resting(3, "Sell", 5, 1),
                                    Resting(4, "Sell", 7, 1)}}
World(e, n, spot) ==
    [perp |-> e, positions |-> (<<5, 0>> :> [size |-> n, entry_notional |-> 2 * n, realized_pnl |-> 0]),
     accounts |-> (5 :> 8),
     states |-> (0 :> [mark_price |-> 4, index_price |-> 4, funding_rate |-> n, open_interest_long |-> 2,
                       next_funding_time |-> 6]), spot |-> spot]
Spot(e, n) == [tables |-> e, balances |-> (<<5, 1>> :> [total |-> 3, reserved |-> n]),
               info |-> (0 :> [base_token |-> 1, quote_token |-> 0, tick_size |-> 1, lot_size |-> 1,
                               best_bid |-> 0, best_ask |-> 0, last_price |-> 0])]
Input(m, depth) == [len |-> 21, address |-> 5, market |-> m, order |-> 3, depth |-> depth, token |-> 1]
Asked(st, name, in) == P!execute(st, P!to_address(name), in, 500)

\* The node builds its executor without a spot engine, so no spot precompile
\* ever answers there; with one, available is what is not reserved.
ASSUME SpotNeverAnswers ==
    \A e \in Books, i \in DOMAIN P!Names :
        LET name == P!Names[i]
        IN  /\ P!is_spot(name) <=> Asked(World(e, 1, P!None), name, Input(0, 3)) = Stranger
            /\ Asked(World(e, 1, Spot(e, 2)), name, Input(0, 3)) # Stranger

\* A book's answer holds all of its size in the levels that its counts announce.
ASSUME BookAnswerIsWhole ==
    \A e \in Books, depth \in 0..3 :
        LET ws == Asked(World(e, 1, P!None), "OrderBook", Input(0, depth))
            sizes == {i \in 3..Len(ws) : i % 2 = 0}
        IN  /\ Len(ws) = 2 + 2 * (ws[1] + ws[2])
            /\ depth >= 2 => FoldSet(LAMBDA i, sum : sum + ws[i], 0, sizes)
                                = FoldSet(LAMBDA o, sum : sum + o.size, 0, e.book)
            /\ Asked(World(e, 1, P!None), "OrderBook", Input(1, depth)) = Stranger

\* A short position, a negative rate and an overdrawn available balance read as
\* large positive numbers.
ASSUME NegativesWrap ==
    \A n \in -3..3 :
        LET st == World(Book({}), n, Spot(Book({}), 5))
        IN  /\ (Asked(st, "Position", Input(0, 1))[1] = n) <=> n >= 0
            /\ (Asked(st, "Funding", Input(0, 1))[1] = n) <=> n >= 0
            /\ Asked(st, "SpotBalance", Input(0, 1))[3] = 998

\* What is not there reads as zeros; too short an input or too little gas is
\* refused before anything is read.
ASSUME AbsentIsZero ==
    \A name \in {"Position", "Market", "Order", "Funding"}, gas \in {49, 50, 99, 100}, len \in {0, 8, 21} :
        LET got == P!execute(World(Book({}), 2, P!None), P!to_address(name),
                             [Input(9, 1) EXCEPT !.len = len], gas)
        IN  IF gas < P!gas_cost(name) \/ len < P!Needed[name] THEN got = Stranger
            ELSE \A i \in DOMAIN got : got[i] = 0
=============================================================================
