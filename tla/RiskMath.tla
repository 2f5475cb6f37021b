------------------------------- MODULE RiskMath -------------------------------
(***************************************************************************)
(* The formulas of positions and margin that do not change the state: the  *)
(* fill arithmetic of primitives/src/position.rs, the sums of              *)
(* engine/src/risk.rs, their vectorised twins of engine/src/batch_ops.rs,  *)
(* and funding (engine/src/funding.rs).                                    *)
(*                                                                         *)
(* Amounts are integers in their smallest unit, divisions cut off, rates   *)
(* are in hundredths.  A holding h is a position with what its market and  *)
(* its owner have set for it: [pos, mark, leverage].                       *)
(***************************************************************************)
EXTENDS Integers, Sequences, FiniteSets, SequencesExt

Abs(n) == IF n < 0 THEN 0 - n ELSE n
Sign(n) == IF n > 0 THEN 1 ELSE IF n < 0 THEN -1 ELSE 0
Cut(n, d) == Sign(n) * Sign(d) * (Abs(n) \div Abs(d))
Rate(n, r) == Cut(n * r, 100)

Sum(s) == FoldLeft(LAMBDA acc, x : acc + x, 0, s)

None == [none |-> TRUE]

-----------------------------------------------------------------------------
(* Position *)

NoPosition == [size |-> 0, entry_notional |-> 0, realized_pnl |-> 0, last_funding_index |-> 0]

notional_value(p, price) == Abs(p.size) * price
entry_price(p) == Cut(p.entry_notional, Abs(p.size))
unrealized_pnl(p, price) == Sign(p.size) * (notional_value(p, price) - p.entry_notional)

\* The part of the entry notional that a fill closes.
closed_notional(p, fill_size) == Cut(p.entry_notional * fill_size, Abs(p.size))

Signed(fill_size, is_buy) == IF is_buy THEN fill_size ELSE 0 - fill_size

Increases(p, fill_size, is_buy) == Sign(p.size) = Sign(Signed(fill_size, is_buy))
Flips(p, fill_size, is_buy) == p.size * (p.size + Signed(fill_size, is_buy)) < 0

calculate_fill_pnl(p, fill_size, fill_price, is_buy) ==
    IF p.size = 0 THEN 0
    ELSE IF Flips(p, fill_size, is_buy) THEN unrealized_pnl(p, fill_price)
    ELSE IF Increases(p, fill_size, is_buy) THEN 0
    ELSE Sign(p.size) * (fill_size * fill_price - closed_notional(p, fill_size))

apply_fill(p, fill_size, fill_price, is_buy) ==
    LET new == p.size + Signed(fill_size, is_buy)
        closed == closed_notional(p, fill_size)
        next ==
            IF p.size = 0 \/ Increases(p, fill_size, is_buy)
            THEN [p EXCEPT !.entry_notional = @ + fill_size * fill_price]
            ELSE IF Flips(p, fill_size, is_buy)
            THEN [p EXCEPT !.realized_pnl = @ + unrealized_pnl(p, fill_price),
                           !.entry_notional = Abs(fill_size - Abs(p.size)) * fill_price]
            ELSE [p EXCEPT !.realized_pnl =
                               @ + Sign(p.size) * (fill_size * fill_price - closed),
                           !.entry_notional = @ - closed]
    IN  [next EXCEPT !.size = new, !.entry_notional = IF new = 0 THEN 0 ELSE @]

\* Where equity meets the maintenance margin: 0 for a long position that its
\* balance pays for, none for an empty one or a rate of one.
liquidation_price(p, balance, rate) ==
    IF p.size = 0 \/ (p.size > 0 /\ rate = 100) THEN None
    ELSE IF p.size > 0
    THEN IF p.entry_notional < balance THEN [price |-> 0]
         ELSE [price |-> Cut((p.entry_notional - balance) * 100, p.size * (100 - rate))]
    ELSE [price |-> Cut((p.entry_notional + balance) * 100, Abs(p.size) * (100 + rate))]

\* Position::settle_funding, and the amount alone.
settle_funding(p, accumulator) ==
    [position |-> [p EXCEPT !.last_funding_index = accumulator],
     payment |-> p.size * (accumulator - p.last_funding_index)]

calculate_funding_payment(size, last_index, accumulator) == size * (accumulator - last_index)

-----------------------------------------------------------------------------
(* Margin *)

initial_margin(p, mark, leverage) == notional_value(p, mark) \div leverage
maintenance_margin(p, mark, rate) == Rate(notional_value(p, mark), rate)

calculate_equity(balance, hs) ==
    balance + Sum([i \in DOMAIN hs |-> unrealized_pnl(hs[i].pos, hs[i].mark)])

calculate_initial_margin(hs) ==
    Sum([i \in DOMAIN hs |-> initial_margin(hs[i].pos, hs[i].mark, hs[i].leverage)])

calculate_maintenance_margin(hs, rate) ==
    Sum([i \in DOMAIN hs |-> maintenance_margin(hs[i].pos, hs[i].mark, rate)])

calculate_free_collateral(balance, hs) ==
    calculate_equity(balance, hs) - calculate_initial_margin(hs)

Lesser(a, b) == IF a < b THEN a ELSE b
Greater(a, b) == IF a > b THEN a ELSE b

calculate_margin_summary(balance, hs, rate) ==
    LET free == calculate_free_collateral(balance, hs)
    IN  [account_value |-> calculate_equity(balance, hs),
         total_position_value |-> Sum([i \in DOMAIN hs |-> notional_value(hs[i].pos, hs[i].mark)]),
         total_initial_margin |-> calculate_initial_margin(hs),
         total_maintenance_margin |-> calculate_maintenance_margin(hs, rate),
         free_collateral |-> free,
         withdrawable |-> IF free > 0 THEN Lesser(free, Greater(balance, 0)) ELSE 0]

is_liquidatable(balance, hs, rate) ==
    calculate_equity(balance, hs) <= calculate_maintenance_margin(hs, rate)

\* In hundredths; none for an account without a margin to keep.
margin_ratio(balance, hs, rate) ==
    IF calculate_maintenance_margin(hs, rate) = 0 THEN None
    ELSE [ratio |-> Cut(calculate_equity(balance, hs) * 100, calculate_maintenance_margin(hs, rate))]

-----------------------------------------------------------------------------
(* Batches: as many elements as the shortest slice has. *)

Least(S) == CHOOSE n \in S : \A k \in S : n <= k

batch_mul_scaled(a, b, scale) ==
    [i \in 1..Least({Len(a), Len(b)}) |-> Cut(a[i] * b[i], scale)]

batch_unrealized_pnl(entries, marks, sizes, scale) ==
    [i \in 1..Least({Len(entries), Len(marks), Len(sizes)}) |->
        Cut((marks[i] - entries[i]) * sizes[i], scale)]

batch_margin_required(marks, sizes, leverages, scale) ==
    [i \in 1..Least({Len(marks), Len(sizes), Len(leverages)}) |->
        Abs(Cut(marks[i] * sizes[i], scale)) \div Greater(leverages[i], 1)]

\* The bit mask as the set of its bits.
batch_price_crosses(bids, asks) ==
    {i \in 1..Least({Len(bids), Len(asks), 64}) : bids[i] >= asks[i]}

\* The entry price of an empty position is taken to be the mark price.
batch_unrealized_pnl_total(hs) ==
    LET entry(h) == IF h.pos.size = 0 THEN h.mark ELSE entry_price(h.pos)
    IN  Sum(batch_unrealized_pnl([i \in DOMAIN hs |-> entry(hs[i])],
                                 [i \in DOMAIN hs |-> hs[i].mark],
                                 [i \in DOMAIN hs |-> hs[i].pos.size], 1))

-----------------------------------------------------------------------------
(* Funding and market data.  A side of the book may be empty (None). *)

mid_price(bid, ask) == IF None \in {bid, ask} THEN None ELSE [price |-> Cut(bid.price + ask.price, 2)]
spread(bid, ask) == IF None \in {bid, ask} THEN None ELSE [price |-> ask.price - bid.price]

calculate_premium_index(bid, ask, index_price) ==
    IF mid_price(bid, ask) = None \/ index_price = 0 THEN 0
    ELSE Cut((mid_price(bid, ask).price - index_price) * 100, index_price)

should_settle(next_funding_time, now) == now >= next_funding_time

time_until_funding(next_funding_time, now) ==
    IF should_settle(next_funding_time, now) THEN 0 ELSE next_funding_time - now

\* MarketConfig of BTC-PERP and ETH-PERP, as far as margin goes; the rate is in
\* thousandths here.
btc_perp == [max_leverage |-> 50, maintenance_margin_rate |-> 25]
eth_perp == [max_leverage |-> 50, maintenance_margin_rate |-> 25]
================================================================================
