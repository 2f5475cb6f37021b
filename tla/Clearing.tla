------------------------------ MODULE Clearing ------------------------------
(***************************************************************************)
(* The money side of the perpetuals engine: margin (engine/src/risk.rs),   *)
(* funding (funding.rs), liquidation and auto-deleveraging (lib.rs,        *)
(* liquidation.rs, batch_ops.rs) on several markets, with the arithmetic   *)
(* of a position (primitives/src/position.rs).                             *)
(*                                                                         *)
(* Orders rest and are taken whole: partial matching is PerpEngine's.  At  *)
(* the end of a block process_funding and process_liquidations run under   *)
(* the engine's lock; pc says how far they are, and the transactions wait  *)
(* until the engine is "open" again.                                       *)
(*                                                                         *)
(* Amounts are integers in their smallest unit and every division cuts     *)
(* off, as Decimal does.  A rate is in hundredths.                         *)
(***************************************************************************)
EXTENDS Integers, Sequences, FiniteSets, FiniteSetsExt, SequencesExt

CONSTANTS
    Accounts, Markets,    \* both are initial segments of the naturals
    Requests,             \* the orders that may arrive
    Leverages,            \* what update_leverage may be asked for
    InitialCore,          \* account -> USDC in its core view
    InitialMark,          \* initial_price; the index price stays there
    DefaultLeverage, MaintenanceRate, FeeRate, SpreadRate, MaxFundingRate,
    PartialDen,           \* liquidation_partial_ratio is one PartialDen-th
    MaxTrades, MaxResting, MaxFundings, MaxChanges   \* bounds

VARIABLES
    core,             \* account -> USDC in the unified state
    balance,          \* account -> AccountState.balance, the engine's copy
    pos,              \* account -> market -> Position
    leverage, margin_mode,
    mark, accumulator,    \* market -> mark price, funding accumulator
    insurance_fund,
    resting,          \* account -> its order in the book
    pc,               \* "open", or the step process_* has reached
    todo,             \* markets still to settle
    queue,            \* (account, market) pairs still to liquidate
    adl,              \* the auto-deleveraging in progress
    held,             \* history: positions open since the last settlement
    trades, fundings, changes

sheetVars == <<core, balance>>
userVars == <<leverage, margin_mode, resting, trades, changes>>
clearingVars == <<sheetVars, pos, userVars, mark, accumulator, insurance_fund, pc, todo,
                  queue, adl, held, fundings>>

-----------------------------------------------------------------------------
(* Arithmetic *)

Abs(n) == IF n < 0 THEN 0 - n ELSE n
Sign(n) == IF n > 0 THEN 1 ELSE IF n < 0 THEN -1 ELSE 0
Cut(n, d) == Sign(n) * (Abs(n) \div d)          \* division towards zero
Rate(n, r) == Cut(n * r, 100)

NoPosition == [size |-> 0, entry |-> 0, index |-> 0]
NoOrder == [market |-> 0, size |-> 0, price |-> 0]       \* size < 0 sells
NoAdl == [market |-> 0, price |-> 0, deficit |-> 0, left |-> {}, done |-> {}, close |-> 0]

is_empty(p) == p.size = 0
notional_value(p, price) == Abs(p.size) * price
entry_price(p) == p.entry \div Abs(p.size)
unrealized_pnl(p, price) == Sign(p.size) * (notional_value(p, price) - p.entry)

\* Position::apply_fill: a fill (size < 0 sells) opens or adds to the position,
\* reduces it and its entry notional in proportion, or turns it round.
apply_fill(p, size, price) ==
    LET new == p.size + size IN
    [p EXCEPT !.size = new,
              !.entry = CASE new = 0 -> 0
                          [] p.size * size >= 0 -> @ + Abs(size) * price
                          [] p.size * new > 0 -> @ - (@ * Abs(size)) \div Abs(p.size)
                          [] OTHER -> Abs(new) * price]

-----------------------------------------------------------------------------
(* Margin: risk.rs.  ms is the set of markets whose positions count. *)

calculate_equity(a, ms) ==
    balance[a] + FoldSet(LAMBDA m, sum : sum + unrealized_pnl(pos[a][m], mark[m]), 0, ms)

calculate_maintenance_margin(a, ms) ==
    FoldSet(LAMBDA m, sum : sum + Rate(notional_value(pos[a][m], mark[m]), MaintenanceRate), 0, ms)

initial_margin(p, price, l) == notional_value(p, price) \div l

\* Only the position of the order's own market counts.
check_order_margin(a, usdc, r) ==
    LET p == pos[a][r.market]
        l == leverage[a][r.market]
        free == usdc + unrealized_pnl(p, mark[r.market]) - initial_margin(p, mark[r.market], l)
    IN  (Abs(r.size) * r.price) \div l <= free

check_leverage_change(a, m, l) ==
    initial_margin(pos[a][m], mark[m], l) <= calculate_equity(a, {m})

is_liquidatable(a, ms) == calculate_equity(a, ms) <= calculate_maintenance_margin(a, ms)

\* batch_liquidation_check, on one position at a time and strict.
batch_liquidation_check(a, m) ==
    LET p == pos[a][m] IN
    /\ ~is_empty(p)
    /\ balance[a] + (mark[m] - entry_price(p)) * p.size
         < Rate(Abs(mark[m] * p.size), MaintenanceRate)

-----------------------------------------------------------------------------
ClearingInit ==
    /\ core = InitialCore
    /\ balance = [a \in Accounts |-> 0]
    /\ pos = [a \in Accounts |-> [m \in Markets |-> NoPosition]]
    /\ leverage = [a \in Accounts |-> [m \in Markets |-> DefaultLeverage]]
    /\ margin_mode = [a \in Accounts |-> "Isolated"]
    /\ mark = [m \in Markets |-> InitialMark]
    /\ accumulator = [m \in Markets |-> 0]
    /\ insurance_fund = 0
    /\ resting = [a \in Accounts |-> NoOrder]
    /\ pc = "open" /\ todo = {} /\ queue = <<>> /\ adl = NoAdl
    /\ held = {}
    /\ trades = 0 /\ fundings = 0 /\ changes = 0

-----------------------------------------------------------------------------
(* Transactions *)

\* place_order copies the core view into the engine before the margin check; an
\* order that is refused has been synchronised too.
place_order(a, r) ==
    /\ pc = "open"
    /\ trades < MaxTrades
    /\ resting[a] = NoOrder
    /\ Cardinality({b \in Accounts : resting[b] # NoOrder}) < MaxResting
    /\ balance' = [balance EXCEPT ![a] = core[a]]
    /\ resting' = IF check_order_margin(a, core[a], r) THEN [resting EXCEPT ![a] = r] ELSE resting
    /\ UNCHANGED <<core, pos, leverage, margin_mode, trades, changes, mark, accumulator,
                   insurance_fund, pc, todo, queue, adl, held, fundings>>

cancel_order(a) ==
    /\ pc = "open"
    /\ resting[a] # NoOrder
    /\ resting' = [resting EXCEPT ![a] = NoOrder]
    /\ UNCHANGED <<sheetVars, pos, leverage, margin_mode, trades, changes, mark, accumulator,
                   insurance_fund, pc, todo, queue, adl, held, fundings>>

\* update_mark_price: each product is cut off
smoothed(m, price) == Cut(9 * mark[m], 10) + Cut(price, 10)

\* debit_core takes nothing when there is not enough.
debit_core(usdc, amount) == IF amount <= usdc THEN usdc - amount ELSE usdc

\* Taker t trades with the whole resting order of a: Engine::apply_fill.  Both
\* pay a fee, to the engine's copy and to the core view.
take_order(t, a) ==
    LET r == resting[a]
        fee == Rate(Abs(r.size) * r.price, FeeRate)
    IN  /\ pc = "open"
        /\ trades < MaxTrades
        /\ a # t /\ r # NoOrder
        /\ check_order_margin(t, core[t], [r EXCEPT !.size = 0 - @])
        /\ pos' = [pos EXCEPT ![a][r.market] = apply_fill(@, r.size, r.price),
                              ![t][r.market] = apply_fill(@, 0 - r.size, r.price)]
        /\ balance' = [balance EXCEPT ![a] = @ - fee, ![t] = core[t] - fee]
        /\ core' = [b \in Accounts |-> IF b \in {a, t} THEN debit_core(core[b], fee) ELSE core[b]]
        /\ mark' = [mark EXCEPT ![r.market] = smoothed(r.market, r.price)]
        /\ resting' = [resting EXCEPT ![a] = NoOrder]
        /\ held' = {h \in held : ~is_empty(pos'[h[1]][h[2]])}
        /\ trades' = trades + 1
        /\ UNCHANGED <<leverage, margin_mode, changes, accumulator, insurance_fund, pc,
                       todo, queue, adl, fundings>>

update_leverage(a, m, l) ==
    /\ pc = "open"
    /\ changes < MaxChanges
    /\ ~is_empty(pos[a][m]) => check_leverage_change(a, m, l)
    /\ leverage' = [leverage EXCEPT ![a][m] = l]
    /\ changes' = changes + 1
    /\ UNCHANGED <<sheetVars, pos, margin_mode, resting, trades, mark, accumulator,
                   insurance_fund, pc, todo, queue, adl, held, fundings>>

set_margin_mode(a, mode) ==
    /\ pc = "open"
    /\ changes < MaxChanges
    /\ \A m \in Markets : is_empty(pos[a][m])
    /\ margin_mode' = [margin_mode EXCEPT ![a] = mode]
    /\ changes' = changes + 1
    /\ UNCHANGED <<sheetVars, pos, leverage, resting, trades, mark, accumulator,
                   insurance_fund, pc, todo, queue, adl, held, fundings>>

-----------------------------------------------------------------------------
(* The end of a block: funding, when it is due *)

\* calculate_funding_rate with clamp_rate, and settle_funding's accumulator
calculate_funding_rate(m) ==
    LET premium == Cut((mark[m] - InitialMark) * 100, InitialMark)
    IN  IF premium > MaxFundingRate THEN MaxFundingRate
        ELSE IF premium < 0 - MaxFundingRate THEN 0 - MaxFundingRate ELSE premium

end_block(due) ==
    /\ pc = "open"
    /\ due => fundings < MaxFundings
    /\ fundings' = IF due THEN fundings + 1 ELSE fundings
    /\ todo' = IF due THEN Markets ELSE {}
    /\ accumulator' = IF due THEN [m \in Markets |-> accumulator[m] + Rate(mark[m], calculate_funding_rate(m))]
                      ELSE accumulator
    /\ pc' = "funding"
    /\ UNCHANGED <<sheetVars, pos, userVars, mark, insurance_fund, queue, adl, held>>

\* Mutant: a settlement leaves the position's funding index behind.
settle_index_Kept(p, m) == p.index

settle_index(p, m) == accumulator[m]

\* Position::settle_funding: a positive payment is owed by the holder.
payment(a, m) == pos[a][m].size * (accumulator[m] - pos[a][m].index)

\* What a payment leaves in the core view: a debit may fail, a credit never does.
after_payment(a, m) ==
    IF payment(a, m) > 0 THEN debit_core(core[a], payment(a, m)) ELSE core[a] - payment(a, m)

settle_funding(m) ==
    /\ pc = "funding"
    /\ m \in todo
    /\ todo' = todo \ {m}
    /\ balance' = [a \in Accounts |-> balance[a] - payment(a, m)]
    /\ core' = [a \in Accounts |-> after_payment(a, m)]
    /\ pos' = [a \in Accounts |->
                 IF is_empty(pos[a][m]) THEN pos[a]
                 ELSE [pos[a] EXCEPT ![m].index = settle_index(pos[a][m], m)]]
    /\ held' = held \cup {<<a, m>> : a \in {b \in Accounts : ~is_empty(pos[b][m])}}
    /\ UNCHANGED <<userVars, mark, accumulator, insurance_fund, pc, queue, adl, fundings>>

-----------------------------------------------------------------------------
(* Liquidations *)

\* Markets in which the screening has found the account.
Flagged(a) == {m \in Markets : batch_liquidation_check(a, m)}

\* The positions with the most negative result: with a tie, any of them.
find_worst_position(a) ==
    LET open == {m \in Markets : ~is_empty(pos[a][m])}
    IN  {m \in open : \A n \in open :
            unrealized_pnl(pos[a][m], mark[m]) <= unrealized_pnl(pos[a][n], mark[n])}

\* Mutant: only an account that is bankrupt already is confirmed.
Isolated_Bankrupt(a) == {m \in Flagged(a) : calculate_equity(a, {m}) < 0}

\* Each flagged position that is confirmed on its own; or, of an account that
\* shares its margin, the worst one.
Isolated(a) == {m \in Flagged(a) : is_liquidatable(a, {m})}
Shared(a, worst) == {m \in {worst} : Flagged(a) # {} /\ is_liquidatable(a, Markets)}

\* The block is over when nothing is left to liquidate.
After(q) == IF q = <<>> THEN "open" ELSE "liquidate"

Sorted(pairs) ==
    SetToSortSeq(pairs, LAMBDA p, q : p[1] < q[1] \/ (p[1] = q[1] /\ p[2] < q[2]))

find_underwater_accounts ==
    /\ pc = "funding"
    /\ todo = {}
    /\ \E worst \in [{a \in Accounts : margin_mode[a] = "Cross"} -> Markets] :
         /\ \A a \in DOMAIN worst :
              find_worst_position(a) # {} => worst[a] \in find_worst_position(a)
         /\ queue' = Sorted(UNION {{a} \X (IF a \in DOMAIN worst THEN Shared(a, worst[a]) ELSE Isolated(a)) : a \in Accounts})
    /\ pc' = After(queue')
    /\ UNCHANGED <<sheetVars, pos, userVars, mark, accumulator, insurance_fund, todo,
                   adl, held, fundings>>

\* Mutant: the ratio is applied the wrong way round.
calculate_liquidation_size_Inverse(p) == Abs(p.size) * PartialDen

calculate_liquidation_size(p) == Abs(p.size) \div PartialDen

\* A long sells below the mark price, a short buys above it.
calculate_liquidation_price(p, m) == Cut(mark[m] * (100 - Sign(p.size) * SpreadRate), 100)

calculate_bankruptcy_price(a, m) ==
    LET p == pos[a][m] IN entry_price(p) - Sign(p.size) * Cut(balance[a], Abs(p.size))

\* Higher for more profit on the position's value and for more leverage.
calculate_adl_score(a, m) ==
    LET p == pos[a][m]
        value == notional_value(p, mark[m])
    IN  IF value = 0 THEN 0
        ELSE Cut(unrealized_pnl(p, mark[m]) * 100, value) * leverage[a][m]

\* trigger_adl scores every open position of the market, on either side.
Candidates(m) ==
    {[account |-> a, score |-> calculate_adl_score(a, m)] :
       a \in {b \in Accounts : calculate_adl_score(b, m) > 0}}

Shrink(a, m, fill, price) ==
    /\ pos' = [pos EXCEPT ![a][m] = apply_fill(@, fill, price)]
    /\ held' = {h \in held : ~is_empty(pos'[h[1]][h[2]])}

\* apply_liquidation: the difference to the bankruptcy price goes to the
\* insurance fund or is taken from it; if the fund is too small, positions are
\* deleveraged before this one is closed.
apply_liquidation ==
    /\ pc = "liquidate"
    /\ queue # <<>>
    /\ LET a == queue[1][1]
           m == queue[1][2]
           p == pos[a][m]
           size == calculate_liquidation_size(p)
           price == calculate_liquidation_price(p, m)
           residual == Sign(p.size) * (price - calculate_bankruptcy_price(a, m)) * size
           fill == 0 - Sign(p.size) * size
       IN  IF is_empty(p)
           THEN /\ queue' = Tail(queue) /\ pc' = After(Tail(queue))
                /\ UNCHANGED <<pos, held, insurance_fund, adl>>
           ELSE IF insurance_fund + residual >= 0
           THEN /\ insurance_fund' = insurance_fund + residual
                /\ Shrink(a, m, fill, price)
                /\ queue' = Tail(queue) /\ pc' = After(Tail(queue))
                /\ UNCHANGED adl
           ELSE /\ adl' = [market |-> m, price |-> price, deficit |-> 0 - residual,
                           left |-> Candidates(m), done |-> {}, close |-> fill]
                /\ pc' = "adl"
                /\ UNCHANGED <<pos, held, insurance_fund, queue>>
    /\ UNCHANGED <<sheetVars, userVars, mark, accumulator, todo, fundings>>

\* One counterparty, the one with the highest score: it is closed for as much
\* notional as the deficit, and the deficit shrinks by that.
deleverage ==
    /\ pc = "adl"
    /\ adl.deficit > 0 /\ adl.left # {}
    /\ \E c \in adl.left :
         LET p == pos[c.account][adl.market]
             value == notional_value(p, adl.price)
             covered == Min({adl.deficit, value})
             size == IF value = 0 THEN 0 ELSE IF covered = value THEN Abs(p.size)
                     ELSE (Abs(p.size) * ((covered * 10000) \div value)) \div 10000
         IN  /\ \A d \in adl.left : d.score <= c.score
             /\ adl' = [adl EXCEPT !.left = @ \ {c},
                                   !.done = @ \cup {c.account},
                                   !.deficit = IF size = 0 THEN @ ELSE @ - covered]
             /\ Shrink(c.account, adl.market, 0 - Sign(p.size) * size, adl.price)
    /\ UNCHANGED <<sheetVars, userVars, mark, accumulator, insurance_fund, pc, todo,
                   queue, fundings>>

\* The bankrupt position itself is closed last, by the size it was given before
\* the deleveraging, which may have closed it already: funding leaves accounts
\* that are bankrupt and whose position has a profit.
finish_adl ==
    /\ pc = "adl"
    /\ adl.deficit <= 0 \/ adl.left = {}
    /\ Shrink(queue[1][1], adl.market, adl.close, adl.price)
    /\ queue' = Tail(queue) /\ pc' = After(Tail(queue))
    /\ adl' = NoAdl
    /\ UNCHANGED <<sheetVars, userVars, mark, accumulator, insurance_fund, todo, fundings>>

-----------------------------------------------------------------------------
BlockStep ==
    \/ \E due \in BOOLEAN : end_block(due)
    \/ \E m \in Markets : settle_funding(m)
    \/ find_underwater_accounts
    \/ apply_liquidation
    \/ deleverage
    \/ finish_adl

ClearingNext ==
    \/ \E a \in Accounts : \E r \in Requests : place_order(a, r)
    \/ \E a \in Accounts : cancel_order(a)
    \/ \E t, a \in Accounts : take_order(t, a)
    \/ \E a \in Accounts, m \in Markets, l \in Leverages : update_leverage(a, m, l)
    \/ \E a \in Accounts, mode \in {"Isolated", "Cross"} : set_margin_mode(a, mode)
    \/ BlockStep

ClearingSpec == ClearingInit /\ [][ClearingNext]_clearingVars

\* Blocks go on being produced.
FairClearingSpec == ClearingSpec /\ WF_clearingVars(BlockStep)

-----------------------------------------------------------------------------
(* Properties *)

\* A position that this auto-deleveraging has cut and is about to close as well.
ClosedTwice(a, m) == pc = "adl" /\ queue[1] = <<a, m>> /\ a \in adl.done

\* Whoever is liquidated or deleveraged, and in whatever order, the end of a
\* block never enlarges a position and never turns one round; and what is cut
\* twice, as a candidate and as the position in liquidation, ends with no more
\* than the size it was to be closed by.
ClearingShrinks ==
    [][pc # "open" => \A a \in Accounts, m \in Markets :
         \/ /\ Abs(pos'[a][m].size) <= Abs(pos[a][m].size)
            /\ pos'[a][m].size * pos[a][m].size >= 0
         \/ ClosedTwice(a, m) /\ Abs(pos'[a][m].size) <= Abs(adl.close)]_clearingVars

\* A position that was open at the last settlement carries the funding index
\* of its market: at the next one it pays for one interval, no more and no less.
FundingIndexCurrent ==
    \A h \in held : h[2] \notin todo => pos[h[1]][h[2]].index = accumulator[h[2]]

\* Clearing converges: once there are no more trades, block after block, no
\* isolated position stays that the screening finds under water and that is
\* large enough to be cut.
ClearingConverges ==
    <>[](\A a \in Accounts, m \in Markets :
           margin_mode[a] = "Isolated" /\ m \in Flagged(a) => Abs(pos[a][m].size) < PartialDen)
=============================================================================
