----------------------------- MODULE PerpEngine -----------------------------
(***************************************************************************)
(* The perpetuals engine (engine/src/lib.rs) on one market, with its       *)
(* matching loop (matching.rs), its order maps, trigger orders and mark    *)
(* price (state.rs), and what a restart of the node keeps of them          *)
(* (chain/src/persistence_integration.rs).                                 *)
(*                                                                         *)
(* place_order is recursive: its fills move the mark price, check_triggers *)
(* takes the trigger orders that the new price meets and places them, and  *)
(* each of these may trade and trigger others.  frames is the stack of the *)
(* check_triggers calls in progress, the innermost first: each holds the   *)
(* orders it has taken and not placed yet.  The whole recursion runs under *)
(* the engine's lock, so every other operation waits until the engine is   *)
(* Free.                                                                   *)
(*                                                                         *)
(* Money is left out (Clearing has it): whether an account has the margin  *)
(* for an order, and whether it is liquidated, are free choices here.      *)
(***************************************************************************)
EXTENDS Integers, Sequences, FiniteSets, OrderBook

CONSTANTS
    Accounts,
    Requests,             \* the order requests that may arrive
    MaxOrders,            \* bound: order ids ever given out
    MaxLiquidations,      \* bound: liquidations
    InitialMark,          \* initial_price of add_market
    TickSize, LotSize, MaxOrderSize,      \* MarketConfig
    PartialNum, PartialDen                \* liquidation_partial_ratio

Directions == {"Above", "Below"}
NoTrigger == [direction |-> "None", price |-> 0]

\* Only the gateway's JSON endpoint asks for positive prices: a transaction from
\* the binary endpoint or from CometBFT may name any price on the tick.
Request == [side : Sides, price : Int, size : Nat \ {0},
            tif : {"Gtc", "Ioc", "Fok", "Alo"}, reduce_only : BOOLEAN,
            trigger : {NoTrigger} \cup [direction : Directions, price : Int]]

ASSUME AccountsAssumption == IsFiniteSet(Accounts)
ASSUME RequestsAssumption == Requests \subseteq Request
ASSUME BoundsAssumption == MaxOrders \in Nat /\ MaxLiquidations \in Nat
ASSUME MarketAssumption ==
    /\ InitialMark \in Nat
    /\ TickSize \in Nat \ {0}
    /\ LotSize \in Nat \ {0} /\ MaxOrderSize \in Nat
ASSUME RatioAssumption ==
    PartialNum \in Nat /\ PartialDen \in Nat \ {0} /\ PartialNum <= PartialDen

VARIABLES
    accounts,         \* accounts with an AccountState
    positions,        \* account -> signed size of its position
    orders,           \* order id -> order, the orders map (hashed into AppHash)
    book,             \* order id -> order, the OrderBook (matched, persisted)
    triggers,         \* order id -> stored trigger order
    mark_price, open_interest_long, open_interest_short,
    next_order_id,
    pc,               \* where the innermost place_order stands
    taker,            \* the order it places
    fills,            \* its fills that are not applied yet
    frames,           \* trigger orders of the check_triggers calls in progress
    executed,         \* history: order id -> size in applied fills
    last_trade,       \* history: id of the last taker order that traded
    liquidations      \* history: liquidations so far

marketVars == <<positions, open_interest_long, open_interest_short, mark_price>>
bookVars == <<orders, book>>
historyVars == <<executed, last_trade, liquidations>>
vars == <<accounts, marketVars, bookVars, triggers, next_order_id, pc, taker,
          fills, frames, historyVars>>

-----------------------------------------------------------------------------
(* Values *)

OrderIds == 1..MaxOrders

Order == [owner : Accounts, side : Sides, price : Int, size : Nat \ {0},
          remaining : Nat]

IsOrderMap(map) == DOMAIN map \subseteq OrderIds /\ map \in [DOMAIN map -> Order]

TriggerOrder == [owner : Accounts, request : Request]

IsTriggerMap(map) ==
    DOMAIN map \subseteq OrderIds /\ map \in [DOMAIN map -> TriggerOrder]

TakerOrder == [id : OrderIds, owner : Accounts, side : Sides, price : Int,
               size : Nat \ {0}, remaining : Nat, tif : {"Gtc", "Ioc", "Fok", "Alo"}]

PerpFill == [maker : Accounts, maker_id : OrderIds, price : Int, size : Nat \ {0}]

NoTaker == [id |-> 0]

\* No call holds the engine's lock.
Free == pc = "idle" /\ frames = <<>>

validate_order(r) ==
    /\ r.price % TickSize = 0
    /\ r.size % LotSize = 0
    /\ r.size >= LotSize          \* min_order_size is one lot
    /\ r.size <= MaxOrderSize

\* A reduce-only order must be on the side that closes the position.
validate_reduce_only(r, size) ==
    \/ r.side = "Buy" /\ size < 0
    \/ r.side = "Sell" /\ size > 0

Signed(side, size) == IF side = "Buy" THEN size ELSE 0 - size

Long(size) == IF size > 0 THEN size ELSE 0
Short(size) == IF size < 0 THEN 0 - size ELSE 0
Abs(size) == Long(size) + Short(size)

\* Mutant: a position that changes sides is counted on the side it left.
long_delta_NoFlip(before, after) ==
    IF before >= 0 THEN after - before ELSE 0

\* oi_delta, the long side and the short side
long_delta(before, after) == Long(after) - Long(before)
short_delta(before, after) == Short(after) - Short(before)

\* update_mark_price: 0.9 * old + 0.1 * trade, each product cut off
smoothed(mark, price) ==
    IF mark = 0 THEN price ELSE Truncated(9 * mark, 10) + Truncated(price, 10)

\* The mark price has reached the trigger price.
Met(trigger, mark) ==
    IF trigger.direction = "Above" THEN trigger.price <= mark ELSE trigger.price >= mark

\* Mutant: the sweep leaves the trigger orders below the mark price alone.
Fired_AboveOnly(mark) ==
    {i \in DOMAIN triggers : /\ triggers[i].request.trigger.direction = "Above"
                             /\ Met(triggers[i].request.trigger, mark)}

\* get_triggered_orders_above and get_triggered_orders_below
Fired(mark) == {i \in DOMAIN triggers : Met(triggers[i].request.trigger, mark)}

-----------------------------------------------------------------------------
Init ==
    /\ accounts = {}
    /\ positions = [a \in Accounts |-> 0]
    /\ orders = EmptyMap /\ book = EmptyMap /\ triggers = EmptyMap
    /\ mark_price = InitialMark
    /\ open_interest_long = 0 /\ open_interest_short = 0
    /\ next_order_id = 1
    /\ pc = "idle" /\ taker = NoTaker /\ fills = <<>> /\ frames = <<>>
    /\ executed = [i \in OrderIds |-> 0] /\ last_trade = 0 /\ liquidations = 0

-----------------------------------------------------------------------------
(* place_order up to the matching.  An order that is refused (reduce-only  *)
(* on the wrong side, or not enough margin) has created the account.       *)

Accept(a, r) ==
    /\ validate_order(r)
    /\ r.reduce_only => validate_reduce_only(r, positions[a])
    /\ accounts' = accounts \cup {a}
    /\ next_order_id' = next_order_id + 1
    /\ IF r.trigger # NoTrigger
       THEN /\ triggers' = [i \in DOMAIN triggers \cup {next_order_id} |->
                              IF i = next_order_id THEN [owner |-> a, request |-> r]
                                                   ELSE triggers[i]]
            /\ UNCHANGED <<pc, taker, fills>>
       ELSE /\ taker' = [id |-> next_order_id, owner |-> a, side |-> r.side,
                         price |-> r.price, size |-> r.size, remaining |-> r.size,
                         tif |-> r.tif]
            /\ pc' = "match" /\ fills' = <<>>
            /\ UNCHANGED triggers
    /\ UNCHANGED <<marketVars, bookVars, historyVars>>

\* Margin may be missing for any order that is not reduce-only.
Refuse(a, r) ==
    /\ r.reduce_only => ~validate_reduce_only(r, positions[a])
    /\ accounts' = accounts \cup {a}
    /\ UNCHANGED <<marketVars, bookVars, triggers, next_order_id, pc, taker,
                   fills, historyVars>>

\* The bound leaves an id for every trigger order that is stored after it.
IdsLeft(r) ==
    next_order_id + Cardinality(DOMAIN triggers) + (IF r.trigger = NoTrigger THEN 0 ELSE 1)
        <= MaxOrders

place_order(a, r) ==
    /\ Free
    /\ IdsLeft(r)
    /\ Accept(a, r)
    /\ UNCHANGED frames

refuse_order(a, r) ==
    /\ Free
    /\ validate_order(r)
    /\ Refuse(a, r)
    /\ UNCHANGED frames

-----------------------------------------------------------------------------
(* The matching loop *)

Matchable(i) ==
    /\ taker.remaining > 0
    /\ IsBest(book, Opposite(taker.side), i)
    /\ Crosses(taker.side, taker.price, book[i].price)

\* Mutant: a maker that is filled in part keeps its remaining size.
Consume_NotReduced(b, i, size) ==
    IF b[i].remaining = size THEN RemoveFrom(b, {i}) ELSE b

\* Remove a filled maker, reduce one that is filled in part.
Consume(b, i, size) ==
    IF b[i].remaining = size THEN RemoveFrom(b, {i})
    ELSE [b EXCEPT ![i].remaining = @ - size]

fill_size(remaining, maker_remaining) ==
    IF remaining <= maker_remaining THEN remaining ELSE maker_remaining

\* One turn of the loop.  The taker's own order is removed from the book, and
\* from the book only.
MatchMaker(i) ==
    /\ pc = "match"
    /\ Matchable(i)
    /\ IF book[i].owner = taker.owner
       THEN book' = RemoveFrom(book, {i}) /\ UNCHANGED <<taker, fills>>
       ELSE LET size == fill_size(taker.remaining, book[i].remaining)
            IN  /\ fills' = Append(fills, [maker |-> book[i].owner, maker_id |-> i,
                                           price |-> book[i].price, size |-> size])
                /\ taker' = [taker EXCEPT !.remaining = @ - size]
                /\ book' = Consume(book, i, size)
    /\ UNCHANGED <<accounts, marketVars, orders, triggers, next_order_id, pc,
                   frames, historyVars>>

Makers == {fills[n].maker_id : n \in DOMAIN fills}

\* Mutant: every maker of a fill is dropped from the orders map.
SyncedOrders_DropAll == RemoveFrom(orders, Makers)

\* Makers that left the book leave the orders map, the others take their
\* remaining size from the book.
SyncedOrders ==
    [i \in DOMAIN orders \ (Makers \ DOMAIN book) |->
        IF i \in Makers THEN [orders[i] EXCEPT !.remaining = book[i].remaining]
                        ELSE orders[i]]

\* handle_unfilled fails for a post-only or fill-or-kill order that is filled
\* in part: the call returns with the makers consumed and the fills lost.
handle_unfilled_fails ==
    taker.remaining > 0 /\ fills # <<>> /\ taker.tif \in {"Alo", "Fok"}

Rests == taker.remaining > 0 /\ should_rest(taker.tif)

WithTaker(map) == [i \in DOMAIN map \cup {taker.id} |->
                     IF i = taker.id THEN RestingOrder(taker) ELSE map[i]]

EndMatching ==
    /\ pc = "match"
    /\ \A i \in DOMAIN book : ~Matchable(i)
    /\ IF handle_unfilled_fails
       THEN /\ pc' = "idle" /\ taker' = NoTaker /\ fills' = <<>>
            /\ UNCHANGED bookVars
       ELSE /\ pc' = "fill"
            /\ orders' = SyncedOrders
            /\ book' = IF Rests THEN WithTaker(book) ELSE book
            /\ UNCHANGED <<taker, fills>>
    /\ UNCHANGED <<accounts, marketVars, triggers, next_order_id, frames, historyVars>>

-----------------------------------------------------------------------------
(* apply_fill, once per fill *)

apply_fill ==
    /\ pc = "fill" /\ fills # <<>>
    /\ LET f == Head(fills)
           signed == Signed(taker.side, f.size)
           maker_after == positions[f.maker] - signed
           taker_after == positions[taker.owner] + signed
           flat == {a \in {f.maker} : maker_after = 0}
                     \cup {a \in {taker.owner} : taker_after = 0}
       IN  /\ positions' = [positions EXCEPT ![f.maker] = maker_after,
                                             ![taker.owner] = taker_after]
           /\ open_interest_long' = open_interest_long
                + long_delta(positions[f.maker], maker_after)
                + long_delta(positions[taker.owner], taker_after)
           /\ open_interest_short' = open_interest_short
                + short_delta(positions[f.maker], maker_after)
                + short_delta(positions[taker.owner], taker_after)
           /\ mark_price' = smoothed(mark_price, f.price)
           /\ triggers' = RemoveFrom(triggers,
                            {i \in DOMAIN triggers : triggers[i].owner \in flat})
           /\ executed' = [executed EXCEPT ![f.maker_id] = @ + f.size,
                                           ![taker.id] = @ + f.size]
    /\ fills' = Tail(fills)
    /\ last_trade' = taker.id
    /\ UNCHANGED <<accounts, bookVars, next_order_id, pc, taker, frames, liquidations>>

-----------------------------------------------------------------------------
(* The end of place_order: the remainder enters the orders map, and after  *)
(* a trade check_triggers takes the orders that the mark price meets.      *)

Traded == taker.remaining < taker.size

FinishOrder ==
    /\ pc = "fill" /\ fills = <<>>
    /\ orders' = IF Rests THEN WithTaker(orders) ELSE orders
    /\ book' = IF Rests THEN WithTaker(book) ELSE book
    /\ IF Traded /\ mark_price # 0
       THEN /\ frames' = <<Restrict(triggers, Fired(mark_price))>> \o frames
            /\ triggers' = RemoveFrom(triggers, Fired(mark_price))
       ELSE UNCHANGED <<frames, triggers>>
    /\ pc' = "idle" /\ taker' = NoTaker
    /\ UNCHANGED <<accounts, marketVars, next_order_id, fills, historyVars>>

\* Mutant: the order stays in the list of triggered orders.
Pop_Peek(i) == frames

Pop(i) == <<RemoveFrom(Head(frames), {i})>> \o Tail(frames)

\* The loop of check_triggers: the orders it has taken are placed by id,
\* without their trigger, and one that is refused is dropped.
place_triggered(i) ==
    /\ pc = "idle" /\ frames # <<>>
    /\ i \in DOMAIN Head(frames)
    /\ \A j \in DOMAIN Head(frames) : i <= j
    /\ LET t == Head(frames)[i]
           r == [t.request EXCEPT !.trigger = NoTrigger]
       IN  \/ next_order_id <= MaxOrders /\ Accept(t.owner, r)
           \/ Refuse(t.owner, r)
    /\ frames' = Pop(i)

check_triggers_returns ==
    /\ pc = "idle" /\ frames # <<>>
    /\ DOMAIN Head(frames) = {}
    /\ frames' = Tail(frames)
    /\ UNCHANGED <<accounts, marketVars, bookVars, triggers, next_order_id, pc,
                   taker, fills, historyVars>>

-----------------------------------------------------------------------------
(* Cancellations.  remove_order takes the order out of both maps; the      *)
(* per-account index lists exactly the orders of the orders map.           *)

Cancel(ids) ==
    /\ Free
    /\ orders' = RemoveFrom(orders, ids)
    /\ book' = RemoveFrom(book, ids)
    /\ UNCHANGED <<accounts, marketVars, triggers, next_order_id, pc, taker,
                   fills, frames, historyVars>>

cancel_order(a, i) == i \in DOMAIN orders /\ orders[i].owner = a /\ Cancel({i})

cancel_all_orders(a) == Cancel({i \in DOMAIN orders : orders[i].owner = a})

\* execute_cancel_trigger_sync does not look at the owner.
cancel_trigger(i) ==
    /\ Free
    /\ i \in DOMAIN triggers
    /\ triggers' = RemoveFrom(triggers, {i})
    /\ UNCHANGED <<accounts, marketVars, bookVars, next_order_id, pc, taker,
                   fills, frames, historyVars>>

-----------------------------------------------------------------------------
(* A liquidation closes a part of the position against nobody, at no       *)
(* change of the open interest.  When the insurance fund cannot pay the    *)
(* deficit, trigger_adl first closes parts of profitable positions.        *)

liquidation_size(size) == (Abs(size) * PartialNum) \div PartialDen

Closed(size, amount) == IF size > 0 THEN size - amount ELSE size + amount

liquidate(a, adl) ==
    /\ Free
    /\ liquidations < MaxLiquidations
    /\ a \in accounts /\ positions[a] # 0
    /\ \A x \in Accounts : adl[x] <= Abs(positions[x])
    /\ LET liq_size == liquidation_size(positions[a])
       IN  positions' = [x \in Accounts |->
                           Closed(positions[x], adl[x] + (IF x = a THEN liq_size ELSE 0))]
    /\ triggers' = RemoveFrom(triggers, {i \in DOMAIN triggers : triggers[i].owner = a})
    /\ liquidations' = liquidations + 1
    /\ UNCHANGED <<accounts, open_interest_long, open_interest_short, mark_price, bookVars,
                   next_order_id, pc, taker, fills, frames, executed, last_trade>>

-----------------------------------------------------------------------------
(* A restart between two blocks: extract_state takes the orders from the   *)
(* book, restore_order puts them into every map; accounts and trigger      *)
(* orders are not persisted.                                               *)

Restart ==
    /\ Free
    /\ orders' = book
    /\ accounts' = {} /\ triggers' = EmptyMap
    /\ UNCHANGED <<marketVars, book, next_order_id, pc, taker, fills, frames,
                   historyVars>>

-----------------------------------------------------------------------------
\* What the thread that holds the lock does to end its call.
EngineStep ==
    \/ \E i \in OrderIds : MatchMaker(i) \/ place_triggered(i)
    \/ EndMatching \/ apply_fill \/ FinishOrder \/ check_triggers_returns

Next ==
    \/ \E a \in Accounts, r \in Requests : place_order(a, r) \/ refuse_order(a, r)
    \/ EngineStep
    \/ \E a \in Accounts, i \in OrderIds : cancel_order(a, i)
    \/ \E a \in Accounts : cancel_all_orders(a)
    \/ \E i \in OrderIds : cancel_trigger(i)
    \/ \E a \in Accounts, adl \in [Accounts -> 0..MaxOrderSize] : liquidate(a, adl)
    \/ Restart

Spec == Init /\ [][Next]_vars

-----------------------------------------------------------------------------
(* Properties *)

\* Every variable keeps its type: sizes stay positive through any sequence of
\* partial fills, and a map never holds an order of remaining size zero.
PerpTypeOK ==
    /\ accounts \subseteq Accounts
    /\ positions \in [Accounts -> Int]
    /\ IsOrderMap(orders) /\ IsOrderMap(book)
    /\ \A i \in DOMAIN book : book[i].remaining > 0
    /\ IsTriggerMap(triggers)
    /\ mark_price \in Int
    /\ open_interest_long \in Int /\ open_interest_short \in Int
    /\ next_order_id \in 1..(MaxOrders + 1)
    /\ pc \in {"idle", "match", "fill"}
    /\ IF pc = "idle" THEN taker = NoTaker ELSE taker \in TakerOrder
    /\ fills \in Seq(PerpFill)
    /\ frames \in Seq(Range(frames)) /\ \A t \in Range(frames) : IsTriggerMap(t)
    /\ executed \in [OrderIds -> Nat]
    /\ last_trade \in Nat /\ liquidations \in Nat

SumOver(f(_)) == SumFunction([a \in Accounts |-> f(positions[a])])

\* Invariant I4 of docs/SECURITY.md: longs and shorts have the same size, and
\* the market's open interest is that size, after every fill of every cascade
\* of triggered orders and over restarts.  It holds until the first
\* liquidation, which closes a position against nobody.
PositionConsistency ==
    liquidations = 0 =>
        /\ SumOver(Long) = SumOver(Short)
        /\ open_interest_long = SumOver(Long)
        /\ open_interest_short = SumOver(Short)

\* Every order that can be matched can be found and canceled by its owner:
\* the orders map lists it, with at least the size that is left in the book.
\* Only the order being placed enters the book before the map.
BookIsListed ==
    \A i \in DOMAIN book :
        \/ pc = "fill" /\ i = taker.id
        \/ /\ i \in DOMAIN orders
           /\ orders[i].owner = book[i].owner /\ orders[i].side = book[i].side
           /\ orders[i].price = book[i].price /\ orders[i].size = book[i].size
           /\ book[i].remaining <= orders[i].remaining

\* The fills of an order that were applied and what the maps still show of it
\* never exceed its size, whatever was lost on the way.
NoOverfill ==
    /\ \A i \in DOMAIN book : executed[i] + book[i].remaining <= book[i].size
    /\ \A i \in DOMAIN orders :
         pc = "idle" => executed[i] + orders[i].remaining <= orders[i].size

\* No stop-loss or take-profit is overlooked: when no order is executing, a
\* trigger order whose price the mark has reached was placed after the last
\* trade, so that no sweep has seen it.  Prices may have any sign; only a mark
\* price of zero, which place_order takes for a missing one, is not swept.
TriggersSwept ==
    pc = "idle" /\ mark_price # 0 =>
        \A i \in DOMAIN triggers :
            Met(triggers[i].request.trigger, mark_price) => i > last_trade

PendingIds == DOMAIN triggers \cup UNION {DOMAIN frames[n] : n \in DOMAIN frames}

Phase == CASE pc = "match" -> 2 [] pc = "fill" -> 1 [] pc = "idle" -> 0

\* What the current phase has left to do.
Left == CASE pc = "match" -> Cardinality(DOMAIN book) + taker.remaining
          [] pc = "fill" -> Len(fills)
          [] pc = "idle" -> Len(frames)

\* Every call returns, however its fills and triggers set off one another: each
\* step of the engine uses up a trigger order, or else ends a phase of the
\* order being placed, or else does a part of what the phase has left.
CascadeEnds ==
    [][EngineStep =>
         \/ PendingIds' \subseteq PendingIds /\ PendingIds' # PendingIds
         \/ PendingIds' = PendingIds /\ Phase' < Phase
         \/ PendingIds' = PendingIds /\ Phase' = Phase /\ Left' < Left]_vars
=============================================================================
