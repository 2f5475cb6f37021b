----------------------------- MODULE SpotEngine -----------------------------
(***************************************************************************)
(* The spot trading engine (engine/src/spot_engine.rs, with the order book *)
(* of engine/src/orderbook.rs and the fee rules of primitives/src/spot.rs) *)
(* over the shared balance sheet of UnifiedState.                          *)
(*                                                                         *)
(* A call of place_order or cancel_all_orders holds the engine's write     *)
(* lock from start to end, so at most one is in progress: pc says where it *)
(* stands.  The balance sheet has a lock of its own, taken anew for every  *)
(* debit and credit, and the chain application, the EVM and the perp       *)
(* engine write it without the spot engine's lock: their actions are       *)
(* enabled at every pc.                                                    *)
(***************************************************************************)
EXTENDS UnifiedState, OrderBook, Sequences, FiniteSets

CONSTANTS
    MaxTokens,             \* bound: spot tokens that are ever deployed
    MaxOrders,             \* bound: spot orders that are ever accepted
    MaxDisturbances,       \* bound: writes by the other users of the sheet and
                           \* requests the gateway would have refused
    MaxEvents,             \* bound: orders and disturbances together
    Prices, Sizes,         \* raw prices and sizes a request may carry
    TIFs,                  \* times in force a request may carry
    Amounts,               \* raw amounts a transfer or withdrawal may carry
    InitialUsdc,           \* USDC every account starts with
    MaxSupply,             \* max_supply of a deployed token
    GenesisAllocations,    \* genesis_allocations a deployment may carry
    TickSize, LotSize, MaxOrderSize,    \* SpotMarketConfig
    LotScale, LotCut,      \* 10^ the decimals a lot has more, or less, than a size
    PriceScale,            \* 10^PRICE_DECIMALS
    UsdcScale,             \* 10^(wei_decimals - USDC_DECIMALS)
    FeeScale, MakerRebateRate, TakerFeeRate

ASSUME TokensAssumption == MaxTokens \in Nat /\ Tokens = 0..MaxTokens
ASSUME BoundsAssumption ==
    /\ MaxOrders \in Nat /\ MaxDisturbances \in Nat /\ MaxEvents \in Nat
    /\ InitialUsdc \in Nat /\ MaxSupply \in Nat
\* Decimal::from_str_exact reads a sign: nothing below the gateway's own
\* validation keeps a request from carrying a negative number.
ASSUME RequestAssumption ==
    /\ Prices \subseteq Int
    /\ Sizes \subseteq Int
    /\ Amounts \subseteq Int
    /\ TIFs \subseteq {"Gtc", "Ioc", "Fok", "Alo"}
ASSUME GenesisAssumption ==
    \A alloc \in GenesisAllocations :
        DOMAIN alloc \subseteq Accounts /\ alloc \in [DOMAIN alloc -> Nat]
ASSUME ScaleAssumption ==
    /\ TickSize \in Nat \ {0} /\ LotSize \in Nat \ {0} /\ MaxOrderSize \in Nat
    /\ LotScale \in Nat \ {0} /\ LotCut \in Nat \ {0}
    /\ PriceScale \in Nat \ {0} /\ UsdcScale \in Nat \ {0}
    /\ FeeScale \in Nat \ {0}
    /\ MakerRebateRate \in 0..FeeScale /\ TakerFeeRate \in 0..FeeScale

VARIABLES
    balances,          \* the shared UnifiedState
    reserved,          \* (account, token) -> amount held for orders
    orders,            \* market -> (order id -> order), the orders map
    book,              \* market -> (order id -> order), the OrderBook
    account_orders,    \* account -> market -> ids of its resting orders
    next_token_index,
    next_order_id,
    pc,                \* where the call that holds the engine lock stands
    taker,             \* the order being placed
    fills,             \* fills not yet applied to the balances
    filled_makers,     \* ids to drop from the orders map
    partial_makers,    \* id -> remaining size to write to the orders map
    todo,              \* <<market, id>> cancel_all_orders still has to cancel
    external_ops,      \* writes by the other users so far
    unchecked          \* requests so far that the gateway would have refused

callVars == <<pc, taker, fills, filled_makers, partial_makers, todo>>
bookVars == <<orders, book, account_orders, next_order_id>>
vars == <<balances, reserved, bookVars, next_token_index, callVars, external_ops, unchecked>>

-----------------------------------------------------------------------------
(* Values *)

USDC == 0
Markets == 1..MaxTokens          \* market m trades token m against USDC
OrderIds == 1..MaxOrders

Order == [owner : Accounts, side : Sides, price : Int, size : Nat, remaining : Nat]

IsOrderMap(f) == DOMAIN f \subseteq OrderIds /\ f \in [DOMAIN f -> Order]

TakerOrder == [id : OrderIds, market : Markets, owner : Accounts, side : Sides,
               price : Int, size : Nat, remaining : Nat, tif : TIFs,
               reserve : Int, filled_reserve : Int]

SpotFill == [maker : Accounts, maker_id : OrderIds, price : Int,
             base_size : Nat, quote_size : Int]

NoTaker == [id |-> 0]

DeployedMarkets == 1..(next_token_index - 1)

\* size * price, at the size's scale (Decimal::checked_mul)
Notional(size, price) == Truncated(size * price, PriceScale)

\* to_decimals(USDC_DECIMALS): the digits below the USDC scale are cut off
ToUsdc(x) == Truncated(x, UsdcScale)

\* The maker fee rate is negative: this is what the maker is paid.
maker_rebate(notional) == Truncated(notional * MakerRebateRate, FeeScale)

taker_fee(notional) == Truncated(notional * TakerFeeRate, FeeScale)

\* The size at the scale of the lot: digits below that scale are cut off.
size_normalized(size) == Truncated(size * LotScale, LotCut)

\* The sign of a price is not asked for; a size is at least one lot, which is
\* min_order_size.
validate_order(price, size) ==
    /\ price % TickSize = 0
    /\ size_normalized(size) % LotSize = 0
    /\ size_normalized(size) \in LotSize..MaxOrderSize

\* Mutant: a sell order reserves the quote token.
reserve_token_Quote(side, m) == USDC

reserve_token(side, m) == IF side = "Buy" THEN USDC ELSE m

reserve_amount(side, size, price) ==
    IF side = "Buy" THEN ToUsdc(Notional(size, price)) ELSE size

\* Mutant: what orders reserve is still available.
available_Whole(k) == get_core_view(balances, k)

available(k) == get_core_view(balances, k) - reserved[k]

\* Mutant: a release takes the whole amount, reserved or not.
Released_All(r, amount) == r - amount

\* release_balance never takes more than is reserved.
Released(r, amount) == IF amount <= r THEN r - amount ELSE 0

-----------------------------------------------------------------------------
(* Initial state: genesis has credited USDC, no token is deployed *)

Init ==
    /\ balances = [k \in Accounts \X {USDC} |->
                    Views(InitialUsdc, InitialUsdc, 0)]
    /\ reserved = [k \in Keys |-> 0]
    /\ orders = [m \in Markets |-> EmptyMap]
    /\ book = [m \in Markets |-> EmptyMap]
    /\ account_orders = [a \in Accounts |-> [m \in Markets |-> {}]]
    /\ next_token_index = 1
    /\ next_order_id = 1
    /\ pc = "idle" /\ taker = NoTaker /\ fills = <<>>
    /\ filled_makers = {} /\ partial_makers = EmptyMap /\ todo = {}
    /\ external_ops = 0 /\ unchecked = 0

EventsLeft == next_order_id + external_ops + unchecked <= MaxEvents

MayDisturb == EventsLeft /\ external_ops + unchecked < MaxDisturbances

\* The history of what validation.rs, which only the gateway's JSON requests
\* pass, would have refused.
Counted(positive) ==
    \/ positive /\ UNCHANGED unchecked
    \/ ~positive /\ MayDisturb /\ unchecked' = unchecked + 1

-----------------------------------------------------------------------------
(* deploy_token: an empty allocation list gives the whole supply to the    *)
(* deployer.  The market and its empty book come with the token.           *)

Minted(deployer, alloc) ==
    IF DOMAIN alloc = {} THEN [a \in {deployer} |-> MaxSupply] ELSE alloc

deploy_token(deployer, alloc) ==
    /\ pc = "idle"
    /\ next_token_index <= MaxTokens
    /\ LET t == next_token_index
           minted == Minted(deployer, alloc)
           credited == (DOMAIN minted) \X {t}
       IN  balances' = [k \in DOMAIN balances \cup credited |->
                          IF k \in credited
                          THEN AddCore(get_balance_or_default(balances, k), minted[k[1]])
                          ELSE balances[k]]
    /\ next_token_index' = next_token_index + 1
    /\ UNCHANGED <<reserved, bookVars, callVars, external_ops, unchecked>>

-----------------------------------------------------------------------------
(* place_order *)

\* Everything up to the matching loop: the checks, the reservation, the id.
\* A request that fails a check is refused and changes nothing.
PlaceOrder(a, m, side, price, size, tif) ==
    LET k == <<a, reserve_token(side, m)>>
        amount == reserve_amount(side, size, price)
    IN  /\ pc = "idle"
        /\ m \in DeployedMarkets
        /\ validate_order(price, size)
        /\ available(k) >= amount
        /\ next_order_id \in OrderIds /\ EventsLeft
        /\ reserved' = [reserved EXCEPT ![k] = @ + amount]
        /\ taker' = [id |-> next_order_id, market |-> m, owner |-> a, side |-> side,
                     price |-> price, size |-> size, remaining |-> size, tif |-> tif,
                     reserve |-> amount, filled_reserve |-> 0]
        /\ next_order_id' = next_order_id + 1
        /\ pc' = "match"
        /\ Counted(price > 0)
        /\ UNCHANGED <<balances, orders, book, account_orders, next_token_index,
                       fills, filled_makers, partial_makers, todo, external_ops>>

\* The maker order the loop would match next.
Matchable(i) ==
    LET b == book[taker.market]
    IN  /\ taker.remaining > 0
        /\ IsBest(b, Opposite(taker.side), i)
        /\ Crosses(taker.side, taker.price, b[i].price)

MakerFilled(maker, size) == maker.remaining <= size

\* One iteration of the loop: a fill at the maker's price.
MatchMaker(i) ==
    LET m == taker.market
        maker == book[m][i]
        size == IF taker.remaining <= maker.remaining
                THEN taker.remaining ELSE maker.remaining
        quote == Notional(size, maker.price)
    IN  /\ pc = "match"
        /\ Matchable(i)
        /\ fills' = Append(fills, [maker |-> maker.owner, maker_id |-> i,
                                   price |-> maker.price, base_size |-> size,
                                   quote_size |-> quote])
        /\ taker' = [[taker EXCEPT !.remaining = @ - size] EXCEPT
                       !.filled_reserve =
                           @ + (IF taker.side = "Buy" THEN ToUsdc(quote) ELSE size)]
        /\ IF MakerFilled(maker, size)
           THEN /\ book' = [book EXCEPT ![m] = RemoveFrom(@, {i})]
                /\ filled_makers' = filled_makers \cup {i}
                /\ UNCHANGED partial_makers
           ELSE /\ book' = [book EXCEPT ![m] =
                              Insert(@, i, [maker EXCEPT !.remaining = @ - size])]
                /\ partial_makers' = Insert(partial_makers, i, maker.remaining - size)
                /\ UNCHANGED filled_makers
        /\ UNCHANGED <<balances, reserved, orders, account_orders, next_order_id,
                       next_token_index, pc, todo, external_ops, unchecked>>

\* The order is filled, the other side is empty or its best price is no match.
LoopEnds ==
    LET b == book[taker.market]
        side == Opposite(taker.side)
    IN  \/ taker.remaining = 0
        \/ Resting(b, side) = {}
        \/ \E i \in OrderIds : IsBest(b, side, i) /\ ~Crosses(taker.side, taker.price, b[i].price)

\* The orders map of market m without the filled makers and with the new
\* sizes of the others.
SyncedOrders(m) ==
    LET kept == RemoveFrom(orders[m], filled_makers)
    IN  [i \in DOMAIN kept |->
           IF i \in DOMAIN partial_makers
           THEN [kept[i] EXCEPT !.remaining = partial_makers[i]]
           ELSE kept[i]]

\* The loop ends and the orders map and the account index catch up with the
\* book.
SyncMakers ==
    LET m == taker.market
    IN  /\ pc = "match"
        /\ LoopEnds
        /\ orders' = [orders EXCEPT ![m] = SyncedOrders(m)]
        /\ account_orders' = [a \in Accounts |->
             [account_orders[a] EXCEPT ![m] = @ \ filled_makers]]
        /\ pc' = IF fills = <<>> THEN "finish" ELSE "buyer_pays"
        /\ filled_makers' = {} /\ partial_makers' = EmptyMap
        /\ UNCHANGED <<balances, reserved, book, next_order_id, next_token_index,
                       taker, fills, todo, external_ops, unchecked>>

-----------------------------------------------------------------------------
(* apply_fill, for the first fill that is left.  The releases touch only   *)
(* the engine; each of the two debits and two credits takes the lock of    *)
(* the balance sheet on its own.  A debit that fails makes place_order     *)
(* return the error at once: the book and the orders map keep the result   *)
(* of the matching, later fills are dropped, the taker's reservation stays.*)

fill == Head(fills)
TakerBuys == taker.side = "Buy"
buyer == IF TakerBuys THEN taker.owner ELSE fill.maker
seller == IF TakerBuys THEN fill.maker ELSE taker.owner
QuoteKey == <<buyer, USDC>>
BaseKeyOfBuyer == <<buyer, taker.market>>
BaseKeyOfSeller == <<seller, taker.market>>

\* Quote plus the buyer's fee: a fee for a taker, a rebate for a maker.
quote_with_fee ==
    ToUsdc(fill.quote_size) + (IF TakerBuys THEN ToUsdc(taker_fee(fill.quote_size))
                               ELSE -ToUsdc(maker_rebate(fill.quote_size)))

seller_receives ==
    ToUsdc(fill.quote_size) - (IF TakerBuys THEN -ToUsdc(maker_rebate(fill.quote_size))
                               ELSE ToUsdc(taker_fee(fill.quote_size)))

EndCall ==
    /\ pc' = "idle" /\ taker' = NoTaker /\ fills' = <<>>
    /\ filled_makers' = {} /\ partial_makers' = EmptyMap /\ todo' = {}

ReleaseBoth ==
    reserved' = [reserved EXCEPT ![QuoteKey] = Released(@, quote_with_fee),
                                 ![BaseKeyOfSeller] = Released(@, fill.base_size)]

BuyerPays ==
    /\ pc = "buyer_pays"
    /\ ReleaseBoth
    /\ \/ /\ CanDebitCore(balances, QuoteKey, quote_with_fee)
          /\ balances' = debit_core(balances, QuoteKey, quote_with_fee)
          /\ pc' = "buyer_receives"
          /\ UNCHANGED <<taker, fills, filled_makers, partial_makers, todo>>
       \/ /\ ~CanDebitCore(balances, QuoteKey, quote_with_fee)
          /\ EndCall
          /\ UNCHANGED balances
    /\ UNCHANGED <<bookVars, next_token_index, external_ops, unchecked>>

BuyerReceives ==
    /\ pc = "buyer_receives"
    /\ balances' = credit(balances, BaseKeyOfBuyer, fill.base_size)
    /\ pc' = "seller_pays"
    /\ UNCHANGED <<reserved, bookVars, next_token_index, taker, fills,
                   filled_makers, partial_makers, todo, external_ops, unchecked>>

SellerPays ==
    /\ pc = "seller_pays"
    /\ \/ /\ CanDebitCore(balances, BaseKeyOfSeller, fill.base_size)
          /\ balances' = debit_core(balances, BaseKeyOfSeller, fill.base_size)
          /\ pc' = "seller_receives"
          /\ UNCHANGED <<taker, fills, filled_makers, partial_makers, todo>>
       \/ /\ ~CanDebitCore(balances, BaseKeyOfSeller, fill.base_size)
          /\ EndCall
          /\ UNCHANGED balances
    /\ UNCHANGED <<reserved, bookVars, next_token_index, external_ops, unchecked>>

SellerReceives ==
    /\ pc = "seller_receives"
    /\ balances' = credit(balances, <<seller, USDC>>, seller_receives)
    /\ fills' = Tail(fills)
    /\ pc' = IF Len(fills) = 1 THEN "finish" ELSE "buyer_pays"
    /\ UNCHANGED <<reserved, bookVars, next_token_index, taker,
                   filled_makers, partial_makers, todo, external_ops, unchecked>>

\* Mutant: an order that is dropped gives back what its fills used, too.
remaining_reserve_All == taker.reserve

\* remaining_reserve: what the fills are taken to have left of the reservation
remaining_reserve ==
    IF taker.filled_reserve >= taker.reserve THEN 0
    ELSE taker.reserve - taker.filled_reserve

\* The order rests with its reservation, or is dropped and its reservation
\* released; a filled order leaves the reservation alone.
FinishOrder ==
    LET m == taker.market
        k == <<taker.owner, reserve_token(taker.side, m)>>
        rests == taker.remaining > 0 /\ should_rest(taker.tif)
        dropped == taker.remaining > 0 /\ ~should_rest(taker.tif)
    IN  /\ pc = "finish"
        /\ orders' = IF rests THEN [orders EXCEPT ![m] =
                                      Insert(@, taker.id, RestingOrder(taker))]
                     ELSE orders
        /\ book' = IF rests THEN [book EXCEPT ![m] =
                                    Insert(@, taker.id, RestingOrder(taker))]
                   ELSE book
        /\ account_orders' = IF rests THEN [account_orders EXCEPT ![taker.owner][m] =
                                              @ \cup {taker.id}]
                             ELSE account_orders
        /\ reserved' = IF dropped THEN [reserved EXCEPT ![k] =
                                          Released(@, remaining_reserve)]
                       ELSE reserved
        /\ EndCall
        /\ UNCHANGED <<balances, next_order_id, next_token_index, external_ops, unchecked>>

-----------------------------------------------------------------------------
(* cancel_order and cancel_all_orders *)

\* The order leaves the map, the book and the index, and what it still
\* reserves is released.
Cancel(m, id) ==
    LET o == orders[m][id]
        k == <<o.owner, reserve_token(o.side, m)>>
    IN  /\ reserved' = [reserved EXCEPT ![k] =
                          Released(@, reserve_amount(o.side, o.remaining, o.price))]
        /\ orders' = [orders EXCEPT ![m] = RemoveFrom(@, {id})]
        /\ book' = [book EXCEPT ![m] = RemoveFrom(@, {id})]
        /\ account_orders' = [account_orders EXCEPT ![o.owner][m] = @ \ {id}]

\* An unknown order or one of another account is refused.
cancel_order(a, m, id) ==
    /\ pc = "idle"
    /\ id \in DOMAIN orders[m]
    /\ orders[m][id].owner = a
    /\ Cancel(m, id)
    /\ UNCHANGED <<balances, next_order_id, next_token_index, callVars, external_ops, unchecked>>

\* get_orders_by_account: the indexed ids that are still in the orders map.
cancel_all_orders(a, m) ==
    /\ pc = "idle"
    /\ todo' = {m} \X {id \in account_orders[a][m] : id \in DOMAIN orders[m]}
    /\ todo' # {}
    /\ pc' = "cancel_all"
    /\ UNCHANGED <<balances, reserved, bookVars, next_token_index, taker, fills,
                   filled_makers, partial_makers, external_ops, unchecked>>

\* The loop of cancel_all_orders, oldest order first.
CancelNext ==
    /\ pc = "cancel_all"
    /\ \E x \in todo :
          /\ \A y \in todo : x[2] <= y[2]
          /\ Cancel(x[1], x[2])
          /\ todo' = todo \ {x}
    /\ pc' = IF todo' = {} THEN "idle" ELSE "cancel_all"
    /\ UNCHANGED <<balances, next_order_id, next_token_index, taker, fills,
                   filled_makers, partial_makers, external_ops, unchecked>>

-----------------------------------------------------------------------------
(* view_transfer: to the EVM only what no order reserves. *)

view_transfer(k, amount, to_evm) ==
    /\ pc = "idle"
    /\ Counted(amount > 0)
    /\ \/ /\ to_evm
          /\ available(k) >= amount
          /\ CanDebitCore(balances, k, amount)
          /\ balances' = transfer_to_evm_view(balances, k, amount)
       \/ /\ ~to_evm
          /\ CanDebitEvm(balances, k, amount)
          /\ balances' = transfer_to_core_view(balances, k, amount)
    /\ UNCHANGED <<reserved, bookVars, next_token_index, callVars, external_ops>>

-----------------------------------------------------------------------------
(* The other writers of the balance sheet.  They take its lock only, and   *)
(* know nothing of reservations.                                           *)

External ==
    /\ MayDisturb
    /\ external_ops' = external_ops + 1
    /\ UNCHANGED <<reserved, bookVars, next_token_index, callVars>>

\* HyperCoreApp::execute_usd_transfer_sync
usd_transfer(from, to, amount) ==
    /\ External /\ Counted(amount > 0)
    /\ get_core_view(balances, <<from, USDC>>) >= amount
    /\ balances' = transfer_core(balances, <<from, USDC>>, <<to, USDC>>, amount)

\* HyperCoreApp::execute_withdraw_sync
withdraw(a, amount) ==
    /\ External /\ Counted(amount > 0)
    /\ CanDebitCore(balances, <<a, USDC>>, amount)
    /\ balances' = debit_core(balances, <<a, USDC>>, amount)

\* HyperCoreApp::execute_evm_action_sync: actions 0 and 3 move to the core
\* view, 1 and 2 to the EVM view.
evm_action(k, amount, to_core) ==
    /\ External /\ Counted(amount > 0)
    /\ \/ /\ to_core
          /\ CanDebitEvm(balances, k, amount)
          /\ balances' = transfer_to_core_view(balances, k, amount)
       \/ /\ ~to_core
          /\ CanDebitCore(balances, k, amount)
          /\ balances' = transfer_to_evm_view(balances, k, amount)

\* EvmState::set_balance: a committed EVM transaction writes the balance it has
\* computed for an account; the native token of the EVM is USDC.
set_balance(a, balance) ==
    LET k == <<a, USDC>>
        current == get_evm_view(balances, k)
    IN  /\ External /\ UNCHANGED unchecked
        /\ balance >= 0
        /\ \/ balance > current /\ balances' = credit_evm(balances, k, balance - current)
           \/ balance < current /\ balances' = debit_evm(balances, k, current - balance)

\* The perp engine settles fees and funding in USDC; a debit that fails is
\* ignored there.
perp_settle(a, amount, pays) ==
    /\ External /\ UNCHANGED unchecked
    /\ amount > 0
    /\ \/ /\ pays
          /\ CanDebitCore(balances, <<a, USDC>>, amount)
          /\ balances' = debit_core(balances, <<a, USDC>>, amount)
       \/ /\ ~pays
          /\ balances' = credit(balances, <<a, USDC>>, amount)

-----------------------------------------------------------------------------

PlaceOrderStep ==
    \/ \E i \in OrderIds : MatchMaker(i)
    \/ SyncMakers
    \/ BuyerPays \/ BuyerReceives \/ SellerPays \/ SellerReceives
    \/ FinishOrder

\* The operations of the engine itself.
EngineNext ==
    \/ \E a \in Accounts, alloc \in GenesisAllocations : deploy_token(a, alloc)
    \/ \E a \in Accounts, m \in Markets, side \in Sides, price \in Prices,
          size \in Sizes, tif \in TIFs :
          PlaceOrder(a, m, side, price, size, tif)
    \/ PlaceOrderStep
    \/ \E a \in Accounts, m \in Markets, id \in OrderIds : cancel_order(a, m, id)
    \/ \E a \in Accounts, m \in Markets : cancel_all_orders(a, m)
    \/ CancelNext
    \/ \E k \in Keys, amount \in Amounts, to_evm \in BOOLEAN :
          view_transfer(k, amount, to_evm)

ExternalNext ==
    \/ \E a, b \in Accounts, amount \in Amounts : usd_transfer(a, b, amount)
    \/ \E a \in Accounts, amount \in Amounts : withdraw(a, amount)
    \/ \E k \in Keys, amount \in Amounts, to_core \in BOOLEAN :
          evm_action(k, amount, to_core)
    \/ \E a \in Accounts, balance \in Amounts : set_balance(a, balance)
    \/ \E a \in Accounts, amount \in Amounts, pays \in BOOLEAN :
          perp_settle(a, amount, pays)

Next == EngineNext \/ ExternalNext

Spec == Init /\ [][Next]_vars

-----------------------------------------------------------------------------
(* Properties *)

\* Every variable keeps its type, at every point of a call.
TypeOK ==
    /\ IsBalanceSheet(balances)
    /\ reserved \in [Keys -> Int]
    /\ DOMAIN orders = Markets /\ \A m \in Markets : IsOrderMap(orders[m])
    /\ DOMAIN book = Markets /\ \A m \in Markets : IsOrderMap(book[m])
    /\ account_orders \in [Accounts -> [Markets -> SUBSET OrderIds]]
    /\ next_token_index \in 1..(MaxTokens + 1)
    /\ next_order_id \in 1..(MaxOrders + 1)
    /\ pc \in {"idle", "match", "buyer_pays", "buyer_receives", "seller_pays",
               "seller_receives", "finish", "cancel_all"}
    /\ pc \notin {"idle", "cancel_all"} => taker \in TakerOrder
    /\ fills \in Seq(SpotFill)
    /\ pc \in {"buyer_pays", "buyer_receives", "seller_pays", "seller_receives"}
         => fills # <<>>
    /\ filled_makers \in SUBSET OrderIds
    /\ DOMAIN partial_makers \subseteq OrderIds
    /\ partial_makers \in [DOMAIN partial_makers -> Nat]
    /\ todo \in SUBSET (Markets \X OrderIds)
    /\ external_ops \in 0..MaxDisturbances /\ unchecked \in 0..MaxDisturbances

\* unified_state.rs: "total == core_view + evm_view must ALWAYS hold", between
\* the debits and credits of a fill and under every other writer too.
ViewsAddUp == verify_invariants(balances)

\* No bid rests at or above the price of an ask, also after a call that failed
\* half way.
BookNotCrossed ==
    \A m \in Markets : \A i, j \in DOMAIN book[m] :
        book[m][i].side = "Buy" /\ book[m][j].side = "Sell"
            => book[m][i].price < book[m][j].price

\* The fills of one order follow price-time priority: a maker left partly
\* filled and put back into the book has not lost or gained its place.
FillsInPriority ==
    \A i, j \in DOMAIN fills : i < j =>
        \/ fills[i].maker_id < fills[j].maker_id /\ fills[i].price = fills[j].price
        \/ IF TakerBuys THEN fills[i].price < fills[j].price
                        ELSE fills[i].price > fills[j].price

\* Base tokens an account has on offer in a market (the orders map).
Offered(a, m) ==
    LET asks == {id \in DOMAIN orders[m] :
                    orders[m][id].owner = a /\ orders[m][id].side = "Sell"}
    IN  SumFunction([id \in asks |-> orders[m][id].remaining])

\* Every resting ask is backed by a reservation of its base token, whatever
\* the other writers do and wherever a call fails.
AsksReserved ==
    \A a \in Accounts, m \in Markets : reserved[<<a, m>>] >= Offered(a, m)

\* Nobody but the engine has written the sheet, and every request was one
\* that the gateway would have let through.
Undisturbed == external_ops = 0 /\ unchecked = 0

\* As long as requests are positive no view and no reservation becomes
\* negative: not by rebates, not by the other writers, not by a call that
\* fails half way, and not by a release of more than is left.
NothingNegative ==
    unchecked = 0 =>
        /\ \A k \in DOMAIN balances : balances[k].core_view >= 0 /\ balances[k].evm_view >= 0
        /\ \A k \in Keys : reserved[k] >= 0

\* The engine never reserves more than the core view holds, the available
\* balance is never negative: in an undisturbed engine.
ReservedWithinCore ==
    Undisturbed => \A k \in Keys : reserved[k] <= get_core_view(balances, k)

\* In an undisturbed engine a seller can always deliver: the second debit of a
\* fill, after the buyer has paid, does not fail.
SellerDelivers ==
    Undisturbed /\ pc = "seller_pays" => CanDebitCore(balances, BaseKeyOfSeller, fill.base_size)

Supply(t) == SumFunction([a \in Accounts |-> get_balance_or_default(balances, <<a, t>>).total])

\* Base tokens the buyer of a fill already has and the seller has not yet given.
InTransit(m) ==
    IF pc = "seller_pays" /\ taker.market = m THEN fill.base_size ELSE 0

\* In an undisturbed engine only a deployment creates base tokens: at every
\* step what the accounts own, less what is in transit, stays the same.
BaseNotMinted ==
    [][Undisturbed' => \A m \in DeployedMarkets :
           (Supply(m) - InTransit(m))' = Supply(m) - InTransit(m)]_vars
=============================================================================
