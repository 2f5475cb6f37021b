---------------------------- MODULE MCPerpEngine ----------------------------
(* Two accounts and requests around two prices, one of them negative; a    *)
(* trade at either moves the mark past a trigger price, to zero, or across *)
(* it.                                                                     *)
EXTENDS PerpEngine, SequencesExt

Plain(side, price, size, tif) ==
    [side |-> side, price |-> price, size |-> size, tif |-> tif,
     reduce_only |-> FALSE, trigger |-> NoTrigger]

Stop(side, price, direction, trigger_price, reduce) ==
    [side |-> side, price |-> price, size |-> 1, tif |-> "Ioc",
     reduce_only |-> reduce,
     trigger |-> [direction |-> direction, price |-> trigger_price]]

MCRequests ==
    {Plain("Buy", 100, 2, "Gtc"), Plain("Sell", -90, 1, "Alo"), Plain("Buy", 200, 2, "Fok")}
    \cup {Stop("Sell", -90, "Below", 9, FALSE), Stop("Sell", -90, "Below", -80, FALSE),
          Stop("Buy", 200, "Above", 15, TRUE)}

Symmetry == Permutations(Accounts)

-----------------------------------------------------------------------------
(* The tables and the answers of the info API, over every short history of *)
(* a few orders, stored orders and fills.                                  *)

CONSTANT Refused

I == INSTANCE InfoApi WITH MaxFills <- 2, MaxTrades <- 3, Accounts <- {"u", "v"}, DayMs <- 1440

O(id, market, owner, side, price, size) ==
    [id |-> id, market |-> market, owner |-> owner, side |-> side, price |-> price,
     size |-> size, ts |-> id, dir |-> IF side = "Buy" THEN "Above" ELSE "Below"]

Fill(m, t, price, size, ts) ==
    [maker |-> m, taker |-> t, market |-> 0, price |-> price, size |-> size,
     ts |-> ts, oid |-> 10 + ts, is_taker_buy |-> TRUE]

\* Market 0 exists, market 1 does not.
Placed == {O(1, 0, "u", "Buy", 3, 20), O(2, 0, "v", "Sell", 5, 10), O(3, 0, "u", "Buy", 3, 10),
            O(4, 0, "v", "Sell", 7, 20), O(5, 1, "u", "Buy", 2, 10)}
Stored == {O(6, 0, "u", "Buy", 4, 1), O(7, 0, "u", "Sell", 4, 1), O(8, 0, "v", "Buy", 6, 1)}

Start == I!add_market(I!new, 0)

\* Every engine with some of the orders, added in the order of their ids or
\* against it, one of them taken out again.
Filled(S, T, rev) ==
    LET ids == I!ById(S)
        e == FoldLeft(I!add_order, Start, IF rev THEN Reverse(ids) ELSE ids)
    IN  FoldLeft(I!add_trigger_order, e, I!ById(T))
Engines ==
    {Filled(S, T, rev) : S \in SUBSET Placed, T \in SUBSET Stored, rev \in BOOLEAN}
    \cup {I!remove_order(Filled(S, {}, FALSE), o.market, o.id) : S \in SUBSET Placed, o \in Placed}
    \cup {I!remove_trigger_order(Filled({}, T, TRUE), o.id) : T \in SUBSET Stored, o \in Stored}

Ids(S) == {o.id : o \in S}

\* The three tables of orders and the two of stored orders name the same ids;
\* an order for a market that was never added is only in the account's list,
\* which the readers skip and the count does not.
ASSUME TablesAgree ==
    \A e \in Engines :
        /\ e.book = e.orders
        /\ \A a \in {"u", "v"} :
              LET listed == I!At(e.account_orders, <<a, 0>>)
              IN  /\ ToSet(listed) = Ids({o \in e.orders : o.owner = a})
                  /\ Cardinality(ToSet(listed)) = Len(listed)
                  /\ I!get_orders_by_account(e, a, 1) = <<>>
                  /\ I!get_user_trigger_orders(e, a) = {o \in ToSet(e.triggers) : o.owner = a}
        /\ Ids(e.index) = Ids(ToSet(e.triggers))
        /\ Cardinality(e.index) = Len(e.triggers)
ASSUME UnknownMarketIsListed ==
    LET e == I!add_order(Start, O(5, 1, "u", "Buy", 2, 10))
        r == I!restore_order(Start, O(5, 1, "u", "Buy", 2, 10))
    IN  /\ I!get_order_count(e, "u", 1) = 1 /\ I!get_all_user_orders(e, "u") = {}
        /\ r.orders # {} /\ r.book = {}

\* A sweep takes the stored orders that the mark price has crossed, in the
\* order of their prices, and leaves the index without them; cancelling for a
\* position takes all of the account's.
ASSUME SweepTakesCrossed ==
    \A e \in Engines, mark \in 3..6, dir \in {"Above", "Below"} :
        LET got == I!get_triggered_orders(e, 0, mark, dir)
        IN  /\ ToSet(got.orders) \cup ToSet(got.state.triggers) = ToSet(e.triggers)
            /\ \A o \in ToSet(got.orders) : o.dir = dir /\ I!Crossed(0, mark, o)
            /\ \A o \in ToSet(got.state.triggers) : o.dir = dir => ~I!Crossed(0, mark, o)
            /\ Ids(got.state.index) = Ids(ToSet(got.state.triggers))
            /\ \A i \in 1..Len(got.orders)-1 : got.orders[i].price <= got.orders[i+1].price
ASSUME CancelTakesAll ==
    \A e \in Engines : I!get_user_trigger_orders(I!cancel_trigger_orders_for_position(e, "u", 0), "u") = {}

\* A re-org puts back the orders, stored orders and indexes of the snapshot, in
\* either engine, but neither the order of an account's list nor the fills.
ASSUME ReorgRestores ==
    \A e \in Engines :
        LET later == I!record_fill(I!remove_order(e, 0, 1), Fill("u", "v", 3, 1, 1))
            back == I!restore(later, I!snapshot(e))
            spot == I!spot_restore(later, I!spot_snapshot(e))
        IN  /\ back.orders = e.orders /\ back.book = e.book /\ back.index = e.index
            /\ \A a \in {"u", "v"} : ToSet(I!At(back.account_orders, <<a, 0>>))
                                        = ToSet(I!At(e.account_orders, <<a, 0>>))
            /\ spot.book = e.book /\ spot.account_orders = e.account_orders
            /\ I!get_user_fills(back, "u", 5) # <<>>
ASSUME ReorgReorders ==
    \E e \in Engines : I!restore(e, I!snapshot(e)).account_orders # e.account_orders

Worth(S) == FoldSet(LAMBDA o, sum : sum + o.size, 0, S)
Side(e, side) == {o \in e.book : o.side = side}

\* Levels have distinct prices, best first, and together the size of the book;
\* a smaller depth gives a prefix; a coin has a mid price when both sides of
\* its book have a level.
ASSUME LevelsAddUp ==
    \A e \in Engines :
        LET bids == I!get_l2(e, 0, 20)[1]
            asks == I!get_l2(e, 0, 20)[2]
        IN  /\ \A i, j \in DOMAIN bids : i < j => bids[i].price > bids[j].price
            /\ \A i, j \in DOMAIN asks : i < j => asks[i].price < asks[j].price
            /\ Worth(ToSet(bids)) = Worth(Side(e, "Buy")) /\ Worth(ToSet(asks)) = Worth(Side(e, "Sell"))
            /\ \A d \in 0..2 : I!get_l2(e, 0, d)[2] = SubSeq(asks, 1, IF d < Len(asks) THEN d ELSE Len(asks))
            /\ I!get_all_mid_prices(e) # {} <=> bids # <<>> /\ asks # <<>>

\* Buying never averages below the best ask; selling for more than the dust
\* that rounding eats never averages above the best bid by more than a unit.
ASSUME ImpactOutsideSpread ==
    \A e \in Engines, notional \in {1, 6, 15, 40} :
        LET buy == I!impact_price_buy(e, 0, notional, 10)
            sell == I!impact_price_sell(e, 0, notional, 10)
        IN  /\ buy # I!None => buy.price >= Head(I!Asks(e, 0)).price
            /\ sell # I!None => sell.price \in 3..4
            /\ \A mark \in {1, 4, 9} :
                  LET mid == I!compute_impact_mid(e, 0, notional, mark, 10)
                  IN  mid # I!None => mid.price \in {mark, buy.price, (buy.price + sell.price) \div 2}

View(e) == [gateway |-> Start @@ [funding |-> <<>>, market_funding |-> <<>>], perp |-> e, spot |-> e]

\* openOrders is what rests in the book for the user.
ASSUME OpenOrdersRest ==
    \A e \in Engines, a \in {"u", "v"} :
        /\ {x.oid : x \in I!OpenOrders(View(e), a)} = Ids({o \in e.book : o.owner = a})
        /\ {x.oid : x \in I!SpotOpenOrders(View(e), a, I!None)} = Ids({o \in e.book : o.owner = a})
        /\ I!OpenOrders(View(e), "nobody") = Refused

\* Histories of three fills, of which the caps keep two and three.
Histories == {<<Fill(m1, "v", p1, 1, 1), Fill("u", "v", p2, 2, 2), Fill("u", t3, p3, 1, 3)>> :
                m1 \in {"u", "v"}, t3 \in {"u", "v"}, p1 \in 1..3, p2 \in 1..3, p3 \in 1..3}

\* The candle of the recent trades has the right range, volume and count, and
\* its open and close are exchanged: the newest trade opens it.
ASSUME CandleRunsBackwards ==
    \A h \in Histories :
        LET e == FoldLeft(I!record_fill, Start, h)
            candles == I!CandleSnapshot(View(e), "BTC", "m5", I!None, I!None, 4)
        IN  \A c \in candles :
                /\ c.o = h[3].price /\ c.c = h[1].price
                /\ c.h = (CHOOSE p \in {h[i].price : i \in 1..3} : \A i \in 1..3 : h[i].price <= p)
                /\ c.v = 4 /\ c.n = 3 /\ c.t = 0 /\ c.T = 4

\* A user's fills are its newest ones; a trade with itself is there twice, and
\* a maker is shown the taker's order.
ASSUME FillsShown ==
    \A h \in Histories :
        LET shown == I!UserFills(View(FoldLeft(I!record_fill, Start, h)), "u")
        IN  /\ Len(shown) = 2 /\ shown[1].oid = h[3].oid
            /\ (h[3].taker = "u") = (shown[2].oid = h[3].oid)

ASSUME CoinNames ==
    /\ \A m \in 0..7 : I!market_id_from_coin(I!coin_name_from_market_id(m)) = m
    /\ \A m \in 8..255 : I!market_id_from_coin(I!coin_name_from_market_id(m)) = 255
=============================================================================
