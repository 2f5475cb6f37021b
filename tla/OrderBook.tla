----------------------------- MODULE OrderBook ------------------------------
(***************************************************************************)
(* The order book of one market (engine/src/orderbook.rs), which the spot  *)
(* and the perp engine share.  The two B-tree maps and their id index are  *)
(* one function from order ids to orders; the order of the tree is Before. *)
(***************************************************************************)
EXTENDS Integers, Functions

\* Division of the raw integers of two decimals: towards zero.
Truncated(n, d) == IF n >= 0 THEN n \div d ELSE 0 - ((0 - n) \div d)

EmptyMap == [x \in {} |-> x]

Sides == {"Buy", "Sell"}

Opposite(side) == IF side = "Buy" THEN "Sell" ELSE "Buy"

should_rest(tif) == tif \in {"Gtc", "Alo"}

Resting(b, side) == {i \in DOMAIN b : b[i].side = side}

\* Mutant: among equal prices the youngest order first.
Before_Youngest(b, i, j) ==
    \/ b[i].side = "Buy"  /\ b[i].price > b[j].price
    \/ b[i].side = "Sell" /\ b[i].price < b[j].price
    \/ b[i].price = b[j].price /\ i > j

\* OrderKey::cmp: the better price first, the older order among equals.  Ids
\* grow with the timestamps, so the id stands for both.
Before(b, i, j) ==
    \/ b[i].side = "Buy"  /\ b[i].price > b[j].price
    \/ b[i].side = "Sell" /\ b[i].price < b[j].price
    \/ b[i].price = b[j].price /\ i < j

\* best_ask and best_bid
IsBest(b, side, i) ==
    /\ i \in Resting(b, side)
    /\ \A j \in Resting(b, side) \ {i} : Before(b, i, j)

\* Mutant: equal prices do not match.
Crosses_Strict(side, price, maker_price) ==
    IF side = "Buy" THEN price > maker_price ELSE price < maker_price

Crosses(side, price, maker_price) ==
    IF side = "Buy" THEN price >= maker_price ELSE price <= maker_price

RemoveFrom(map, ids) == Restrict(map, DOMAIN map \ ids)

RestingOrder(t) == [owner |-> t.owner, side |-> t.side, price |-> t.price,
                    size |-> t.size, remaining |-> t.remaining]
=============================================================================
