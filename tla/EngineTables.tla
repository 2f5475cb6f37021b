----------------------------- MODULE EngineTables -----------------------------
(***************************************************************************)
(* The tables of one engine (engine/src/state.rs, the same operations of   *)
(* engine/src/spot_engine.rs, and the read side of engine/src/orderbook.rs)*)
(* as functions on a record e:                                             *)
(*   markets         the market ids that were added                        *)
(*   orders, book    the orders of the hash maps and of the order books    *)
(*   account_orders  per owner and market, the ids in the order of arrival *)
(*   triggers        the stored orders of the two price maps, in the order *)
(*                   of arrival; index: their ids with market, direction   *)
(*                   and price                                             *)
(*   fills, trades   the histories per account and per market              *)
(* An order is [id, market, owner, side, price, size, ts, dir].            *)
(***************************************************************************)
EXTENDS Integers, Sequences, FiniteSets, SequencesExt

CONSTANTS MaxFills,   \* MAX_FILLS_PER_USER
          MaxTrades   \* MAX_TRADES_PER_MARKET

None == [none |-> TRUE]

new == [markets |-> {}, orders |-> {}, book |-> {}, account_orders |-> <<>>,
        triggers |-> <<>>, index |-> {}, fills |-> <<>>, trades |-> <<>>, next_order_id |-> 1]

add_market(e, m) ==
    [e EXCEPT !.markets = @ \cup {m},
              !.book = {o \in @ : o.market # m},
              !.orders = {o \in @ : o.market # m}]

-----------------------------------------------------------------------------
(* Orders *)

Pushed(f, key, v) == [k \in DOMAIN f \cup {key} |->
                        IF k # key THEN f[k] ELSE Append(IF key \in DOMAIN f THEN f[key] ELSE <<>>, v)]

At(f, key) == IF key \in DOMAIN f THEN f[key] ELSE <<>>

\* insert of a hash map: an order with the same id is replaced.
Inserted(orders, o) == {p \in orders : ~(p.market = o.market /\ p.id = o.id)} \cup {o}

\* A market that was never added has neither map nor book, but the order still
\* enters the account's list.
add_order(e, o) ==
    LET listed == [e EXCEPT !.account_orders = Pushed(@, <<o.owner, o.market>>, o.id)]
    IN  IF o.market \in e.markets
        THEN [listed EXCEPT !.orders = Inserted(@, o), !.book = Inserted(@, o)]
        ELSE listed

\* The map of orders is made when it is missing, the book is not.
restore_order(e, o) ==
    [add_order(e, o) EXCEPT !.orders = Inserted(e.orders, o)]

get_order(e, m, id) ==
    IF \E o \in e.orders : o.market = m /\ o.id = id
    THEN CHOOSE o \in e.orders : o.market = m /\ o.id = id
    ELSE None

remove_order(e, m, id) ==
    LET o == get_order(e, m, id)
    IN  IF o = None THEN e
        ELSE [e EXCEPT !.orders = @ \ {o},
                       !.book = {p \in @ : ~(p.market = m /\ p.id = id)},
                       !.account_orders =
                            [k \in DOMAIN @ |-> IF k = <<o.owner, m>>
                                                THEN SelectSeq(@[k], LAMBDA i : i # id) ELSE @[k]]]

update_order_remaining(e, m, id, size) ==
    LET o == get_order(e, m, id)
    IN  IF o = None THEN e ELSE [e EXCEPT !.orders = Inserted(@, [o EXCEPT !.size = size])]

Known(s) == SelectSeq(s, LAMBDA o : o # None)

get_orders_by_account(e, a, m) ==
    LET ids == At(e.account_orders, <<a, m>>)
    IN  Known([i \in DOMAIN ids |-> get_order(e, m, ids[i])])

get_all_user_orders(e, a) ==
    UNION {ToSet(get_orders_by_account(e, a, m)) : m \in {k[2] : k \in DOMAIN e.account_orders}}

get_order_count(e, a, m) == Len(At(e.account_orders, <<a, m>>))

-----------------------------------------------------------------------------
(* Stored stop and take-profit orders *)

add_trigger_order(e, o) ==
    [e EXCEPT !.triggers = Append(@, o),
              !.index = {t \in @ : t.id # o.id} \cup
                            {[id |-> o.id, market |-> o.market, dir |-> o.dir, price |-> o.price]}]

\* Only the list that the index names is searched.
remove_trigger_order(e, id) ==
    LET named(o) == \E t \in e.index : t.id = id /\ t = [id |-> o.id, market |-> o.market,
                                                         dir |-> o.dir, price |-> o.price]
        at == SelectInSeq(e.triggers, named)
    IN  [e EXCEPT !.index = {t \in @ : t.id # id},
                  !.triggers = IF at = 0 THEN @ ELSE RemoveAt(@, at)]

Without(e, taken) ==
    [e EXCEPT !.triggers = SelectSeq(@, LAMBDA o : o \notin taken),
              !.index = {t \in @ : ~\E o \in taken : o.id = t.id}]

Crossed(m, mark, o) == o.market = m /\ (IF o.dir = "Above" THEN o.price <= mark ELSE o.price >= mark)

get_triggered_orders(e, m, mark, dir) ==
    LET taken(o) == o.dir = dir /\ Crossed(m, mark, o)
    IN  [state |-> Without(e, {o \in ToSet(e.triggers) : taken(o)}),
         orders |-> SortSeq(SelectSeq(e.triggers, taken), LAMBDA o, p : o.price < p.price)]

get_user_trigger_orders(e, a) == {o \in ToSet(e.triggers) : o.owner = a}

cancel_trigger_orders_for_position(e, a, m) ==
    FoldLeft(remove_trigger_order, e,
             [i \in DOMAIN e.triggers |->
                 LET o == e.triggers[i] IN IF o.owner = a /\ o.market = m THEN o.id ELSE 0])

-----------------------------------------------------------------------------
(* Histories: the newest entries are kept, and read newest first. *)

Capped(s, n) == IF Len(s) > n THEN Tail(s) ELSE s

Recorded(f, key, v, n) == [k \in DOMAIN f \cup {key} |->
                              IF k # key THEN f[k] ELSE Capped(Append(At(f, key), v), n)]

\* A fill is [maker, taker, market, price, size, ts, oid]; it is pushed for the
\* maker, then for the taker, also when they are the same account.
record_fill(e, f) ==
    [e EXCEPT !.fills = Recorded(Recorded(@, f.maker, f, MaxFills), f.taker, f, MaxFills),
              !.trades = Recorded(@, f.market, f, MaxTrades)]

Newest(s, limit) == SubSeq(Reverse(s), 1, IF limit < Len(s) THEN limit ELSE Len(s))

get_user_fills(e, a, limit) == Newest(At(e.fills, a), limit)
get_recent_trades(e, m, limit) == Newest(At(e.trades, m), limit)

-----------------------------------------------------------------------------
(* Re-org snapshots.  The orders leave their hash map in any order, here by *)
(* id; the histories are neither taken nor put back.                        *)

ById(S) == SetToSortSeq(S, LAMBDA o, p : o.id < p.id)

snapshot(e) == [markets |-> e.markets, orders |-> ById(e.orders), triggers |-> e.triggers,
                next_order_id |-> e.next_order_id]

from_snapshot(s) ==
    LET withMarkets == [new EXCEPT !.markets = s.markets]
        withOrders == FoldLeft(add_order, withMarkets, s.orders)
    IN  [FoldLeft(add_trigger_order, withOrders, s.triggers) EXCEPT !.next_order_id = s.next_order_id]

restore(e, s) == [from_snapshot(s) EXCEPT !.fills = e.fills, !.trades = e.trades]

\* SpotEngineState keeps its lists as they are and rebuilds the books.
spot_snapshot(e) == [markets |-> e.markets, orders |-> e.orders, account_orders |-> e.account_orders,
                     next_order_id |-> e.next_order_id]

spot_restore(e, s) ==
    [e EXCEPT !.markets = s.markets, !.orders = s.orders, !.account_orders = s.account_orders,
              !.next_order_id = s.next_order_id,
              !.book = {o \in s.orders : o.market \in s.markets}]

-----------------------------------------------------------------------------
(* The book as its readers see it: best price first, oldest first. *)

Bids(e, m) == SetToSortSeq({o \in e.book : o.market = m /\ o.side = "Buy"},
                 LAMBDA o, p : o.price > p.price \/ (o.price = p.price /\ o.id < p.id))
Asks(e, m) == SetToSortSeq({o \in e.book : o.market = m /\ o.side = "Sell"},
                 LAMBDA o, p : o.price < p.price \/ (o.price = p.price /\ o.id < p.id))

mid_price(e, m) ==
    IF Bids(e, m) = <<>> \/ Asks(e, m) = <<>> THEN None
    ELSE [price |-> (Head(Bids(e, m)).price + Head(Asks(e, m)).price) \div 2]

get_all_mid_prices(e) == {<<m, mid_price(e, m)>> : m \in {k \in e.markets : mid_price(e, k) # None}}

\* Levels are opened until depth of them exist; orders of the last open level
\* are still added to it.
aggregate_levels(side, depth) ==
    FoldLeft(LAMBDA levels, o :
                IF levels # <<>> /\ Last(levels).price = o.price
                THEN [levels EXCEPT ![Len(levels)].size = @ + o.size, ![Len(levels)].order_count = @ + 1]
                ELSE IF Len(levels) < depth
                THEN Append(levels, [price |-> o.price, size |-> o.size, order_count |-> 1])
                ELSE levels,
             <<>>, side)

get_l2(e, m, depth) == <<aggregate_levels(Bids(e, m), depth), aggregate_levels(Asks(e, m), depth)>>

\* Sizes have Scale units.  The level that the notional ends in is taken in
\* part, its size cut to a unit.
impact_price(side, notional, Scale) ==
    LET start == [left |-> notional, size |-> 0, cost |-> 0, done |-> FALSE]
        step(w, o) ==
            LET worth == (o.price * o.size) \div Scale
            IN  IF w.done THEN w
                ELSE IF worth <= w.left
                THEN [w EXCEPT !.left = @ - worth, !.size = @ + o.size, !.cost = @ + worth]
                ELSE [left |-> 0, size |-> w.size + (w.left * Scale) \div o.price,
                      cost |-> w.cost + w.left, done |-> TRUE]
        walk == FoldLeft(step, start, side)
    IN  IF notional = 0 \/ walk.size = 0 THEN None ELSE [price |-> (walk.cost * Scale) \div walk.size]

impact_price_buy(e, m, notional, Scale) == impact_price(Asks(e, m), notional, Scale)
impact_price_sell(e, m, notional, Scale) == impact_price(Bids(e, m), notional, Scale)

\* The three values whose median is taken are the mid, the buy side's price
\* (named impact_bid in the code) and the mark price.
compute_impact_mid(e, m, notional, mark, Scale) ==
    LET bid == impact_price_buy(e, m, notional, Scale)
        ask == impact_price_sell(e, m, notional, Scale)
    IN  IF None \in {bid, ask} THEN None
        ELSE LET mid == (bid.price + ask.price) \div 2
                 between(x, p, q) == (x >= p /\ x <= q) \/ (x <= p /\ x >= q)
             IN  [price |-> IF between(mid, bid.price, mark) THEN mid
                            ELSE IF between(mark, mid, bid.price) THEN mark ELSE bid.price]
================================================================================
