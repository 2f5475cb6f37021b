------------------------------- MODULE InfoApi -------------------------------
(***************************************************************************)
(* The answers of POST /info (gateway/src/handlers.rs) as functions of     *)
(* what they read:                                                         *)
(*   gateway   the gateway's own tables: market metadata and the funding   *)
(*             history that the node's funding task writes                 *)
(*   perp      the tables of the perp engine, or None                      *)
(*   positions, leverage   of the perp engine, per account and market      *)
(*   core, evm, reserved   the unified balance and the spot reservations   *)
(*   spot      the tables of the spot engine; tokens: the deployed indices *)
(*   unified_root, nonce_root, height, proofs   of the chain application   *)
(* Texts are the values they show; a request that is refused gives Refused.*)
(***************************************************************************)
EXTENDS EngineTables

CONSTANTS Refused, Accounts, DayMs

Perps == <<"BTC", "ETH", "SOL", "AVAX", "MATIC", "ARB", "OP", "DOGE">>

\* Market ids count from 0; any other name gives the unused id 255.
coin_name_from_market_id(m) == IF m + 1 \in DOMAIN Perps THEN Perps[m + 1] ELSE "UNKNOWN"
market_id_from_coin(coin) ==
    IF coin \in ToSet(Perps) THEN (CHOOSE i \in DOMAIN Perps : Perps[i] = coin) - 1 ELSE 255

parse_address(user) == IF user \in Accounts THEN user ELSE Refused

IfParsed(user, answer(_)) == IF parse_address(user) = Refused THEN Refused ELSE answer(parse_address(user))

Engine(st) == IF st.perp = None THEN st.gateway ELSE st.perp

-----------------------------------------------------------------------------
(* Perp requests *)

Meta(st) == st.gateway.markets

Mids(e) == {[coin |-> coin_name_from_market_id(x[1]), mid |-> x[2].price] : x \in get_all_mid_prices(e)}

AllMids(st) == Mids(Engine(st))

Depth == 20

Level(l) == <<l.price, l.size>>

Levels(e, m) == LET l2 == get_l2(e, m, Depth)
                IN  <<[i \in DOMAIN l2[1] |-> Level(l2[1][i])], [i \in DOMAIN l2[2] |-> Level(l2[2][i])]>>

\* The market is looked up by its symbol among the engine's own markets.
Book(e, coin) ==
    LET found == {m \in e.markets : coin_name_from_market_id(m) = coin}
    IN  IF found = {} THEN Refused ELSE Levels(e, CHOOSE m \in found : TRUE)

L2Book(st, coin) == Book(Engine(st), coin)

\* The summary shows the core view three times and no profit, margin or
\* liquidation price.
ClearinghouseState(st, user) ==
    LET answer(a) ==
            [accountValue |-> st.core[a, 0], withdrawable |-> st.core[a, 0], totalMarginUsed |-> 0,
             assetPositions |->
                IF st.perp = None THEN {}
                ELSE {[coin |-> coin_name_from_market_id(m), szi |-> st.positions[a, m].size,
                       leverage |-> st.leverage[a, m], unrealizedPnl |-> 0]
                        : m \in {k \in st.perp.markets : <<a, k>> \in DOMAIN st.positions}}]
    IN  IfParsed(user, answer)

Shown(o) == [coin |-> coin_name_from_market_id(o.market), oid |-> o.id,
             side |-> IF o.side = "Buy" THEN "B" ELSE "A", limitPx |-> o.price, sz |-> o.size]

OpenOrders(st, user) ==
    IfParsed(user, LAMBDA a : {Shown(o) : o \in get_all_user_orders(Engine(st), a)})

\* Every fill is shown from the taker's side, also to its maker.
ShownFill(f) == [coin |-> coin_name_from_market_id(f.market), px |-> f.price, sz |-> f.size,
                 side |-> IF f.is_taker_buy THEN "B" ELSE "A", oid |-> f.oid, tid |-> f.oid,
                 crossed |-> TRUE]

UserFills(st, user) ==
    LET answer(a) == LET s == get_user_fills(Engine(st), a, 100)
                     IN  [i \in DOMAIN s |-> ShownFill(s[i])]
    IN  IfParsed(user, answer)

\* Both funding histories come from the gateway's tables, newest first.
UserFundingHistory(st, user) == IfParsed(user, LAMBDA a : Newest(At(st.gateway.funding, a), 100))
FundingHistory(st, coin) == Newest(At(st.gateway.market_funding, market_id_from_coin(coin)), 100)

RecentTrades(st, coin) == get_recent_trades(Engine(st), market_id_from_coin(coin), 50)

Minutes == [m1 |-> 1, m5 |-> 5, m15 |-> 15, h1 |-> 60, h4 |-> 240, d1 |-> 1440]

\* The trades are folded in the order in which get_recent_trades gives them.
CandleSnapshot(st, coin, interval, start_time, end_time, now) ==
    LET minute == DayMs \div 1440
        width == Minutes[interval] * minute
        start == IF start_time # None THEN start_time.at ELSE IF now < DayMs THEN 0 ELSE now - DayMs
        end == IF end_time # None THEN end_time.at ELSE now
        seen == SelectSeq(get_recent_trades(Engine(st), market_id_from_coin(coin), 500),
                          LAMBDA f : f.ts >= start /\ f.ts <= end)
        bucket(f) == (f.ts \div width) * width
        in(t) == SelectSeq(seen, LAMBDA f : bucket(f) = t)
        prices(t) == {f.price : f \in ToSet(in(t))}
    IN  IF interval \notin DOMAIN Minutes THEN Refused
        ELSE {[t |-> t, T |-> t + width - 1, o |-> Head(in(t)).price, c |-> Last(in(t)).price,
               h |-> CHOOSE p \in prices(t) : \A q \in prices(t) : q <= p,
               l |-> CHOOSE p \in prices(t) : \A q \in prices(t) : q >= p,
               v |-> FoldLeft(LAMBDA sum, f : sum + f.size, 0, in(t)), n |-> Len(in(t))]
                : t \in {bucket(f) : f \in ToSet(seen)}}

EvidenceStatus(st) == [last |-> st.last_evidence_count, total |-> st.total_evidence_count,
                       validatorCount |-> 5]

-----------------------------------------------------------------------------
(* Spot requests *)

SpotMeta(st) == [tokens |-> st.tokens, universe |-> st.spot.markets]
SpotL2Book(st, m) == IF m \in st.spot.markets THEN Levels(st.spot, m) ELSE Refused
SpotAllMids(st) == get_all_mid_prices(st.spot)
SpotTokenInfo(st, t) == IF t \in st.tokens THEN t ELSE Refused

Held(st, a) == {t \in st.tokens : <<a, t>> \in DOMAIN st.core}

SpotBalances(st, user) ==
    LET held(a, t) == IF <<a, t>> \in DOMAIN st.reserved THEN st.reserved[a, t] ELSE 0
        answer(a) == {[token |-> t, total |-> st.core[a, t], reserved |-> held(a, t),
                       available |-> st.core[a, t] - held(a, t)] : t \in Held(st, a)}
    IN  IfParsed(user, answer)

UnifiedBalances(st, user) ==
    LET answer(a) == {[token |-> t, total |-> st.core[a, t] + st.evm[a, t],
                       coreView |-> st.core[a, t], evmView |-> st.evm[a, t]] : t \in Held(st, a)}
    IN  IfParsed(user, answer)

\* market: None for all of them.
SpotOpenOrders(st, user, market) ==
    LET of(a, m) == {Shown(o) : o \in ToSet(get_orders_by_account(st.spot, a, m))}
        answer(a) == IF market = None THEN UNION {of(a, m) : m \in st.spot.markets}
                     ELSE IF market.id \in st.spot.markets THEN of(a, market.id) ELSE Refused
    IN  IfParsed(user, answer)

-----------------------------------------------------------------------------
(* State requests *)

\* The hash of two roots, not the hash that validators agree on.
StateInfo(st) == [blockHeight |-> st.height, appHash |-> <<"keccak", st.unified_root, st.nonce_root>>,
                  unifiedState |-> st.unified_root, nonces |-> st.nonce_root]

\* The proof is of the tree, the balance beside it is read from the live state.
StateProof(st, user, token) ==
    LET answer(a) ==
            IF <<a, token>> \notin DOMAIN st.proofs THEN [proof |-> None]
            ELSE [proof |-> st.proofs[a, token], root |-> st.unified_root,
                  total |-> st.core[a, token] + st.evm[a, token],
                  verified |-> st.proofs[a, token].root = st.unified_root]
    IN  IfParsed(user, answer)
================================================================================
