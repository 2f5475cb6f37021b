----------------------------- MODULE MCClearing -----------------------------
(* Three accounts on two markets; the third has little money.  A trade far *)
(* from the mark price moves it by a tenth of the way.                     *)
EXTENDS Clearing

MCRequests == {[market |-> 1, size |-> 20, price |-> 100],
               [market |-> 1, size |-> 5, price |-> 1000],
               [market |-> 2, size |-> 10, price |-> 100]}
MCCore == [a \in Accounts |-> IF a = 3 THEN 125 ELSE 500]

-----------------------------------------------------------------------------
(* The formulas of RiskMath on small positions *)

R == INSTANCE RiskMath

Positions == {[size |-> n, entry_notional |-> e, realized_pnl |-> 0, last_funding_index |-> i] :
                n \in -3..3 \ {0}, e \in {0, 1, 7, 12}, i \in {0, 2}} \cup {R!NoPosition}

Holdings == {[pos |-> p, mark |-> k, leverage |-> l] :
                p \in {q \in Positions : q.last_funding_index = 0}, k \in {1, 5}, l \in {1, 3}}
Portfolios == {<<>>} \cup {<<g>> : g \in Holdings} \cup {<<g, h>> : g, h \in Holdings}

\* calculate_fill_pnl says before a fill what apply_fill then realises, for a
\* fill that opens, adds, reduces, closes or turns round; a fill neither makes
\* nor loses money beyond its rounding: what it realises and what stays
\* unrealised at its own price is what was unrealised before.
ASSUME FillPnlAgrees ==
    \A p \in Positions, n \in 1..7, price \in 1..5, is_buy \in BOOLEAN :
        LET q == R!apply_fill(p, n, price, is_buy)
        IN  /\ q.realized_pnl - p.realized_pnl = R!calculate_fill_pnl(p, n, price, is_buy)
            /\ q.size = p.size + R!Signed(n, is_buy)
            /\ q.realized_pnl + R!unrealized_pnl(q, price)
                   = p.realized_pnl + R!unrealized_pnl(p, price)

\* A long account can be liquidated at its liquidation price and at every lower
\* one, and at no higher one; a short account at every higher one, and at the
\* price itself only if nothing was cut off.
ASSUME LiquidationPriceSharp ==
    \A p \in Positions, usdc \in {0, 1, 3, 9}, price \in 0..20 :
        LET at == R!liquidation_price(p, usdc, 10)
            equity == usdc + R!unrealized_pnl(p, price)
            bad == equity * 100 <= R!notional_value(p, price) * 10
        IN  /\ p.size > 0 /\ p.entry_notional >= usdc => (bad <=> price <= at.price)
            /\ p.size < 0 => (bad => price >= at.price) /\ (price > at.price => bad)

\* What can be withdrawn is covered by the balance and by the collateral that
\* no position needs.
ASSUME SummaryConsistent ==
    \A hs \in Portfolios, usdc \in {-4, 0, 20} :
        LET m == R!calculate_margin_summary(usdc, hs, 10)
        IN  /\ m.free_collateral = m.account_value - m.total_initial_margin
            /\ m.withdrawable >= 0
            /\ m.withdrawable > 0 => m.withdrawable <= m.free_collateral /\ m.withdrawable <= usdc
            /\ m.total_maintenance_margin > 0 =>
                  (R!margin_ratio(usdc, hs, 10).ratio > 100 =>
                      ~R!is_liquidatable(usdc, hs, 10))

\* The vectorised sum differs from the exact one by less than a unit per unit
\* of size: the entry price has been cut off.
ASSUME BatchIsClose ==
    \A hs \in Portfolios :
        R!Abs(R!batch_unrealized_pnl_total(hs) - R!calculate_equity(0, hs))
            <= R!Sum([i \in DOMAIN hs |-> R!Abs(hs[i].pos.size)])

ASSUME BatchesAgree ==
    \A a, b \in {<<>>, <<3>>, <<3, -7>>, <<5, 0, 2>>}, l \in {<<0, 2>>, <<1, 3, 9>>} :
        LET marks == [i \in DOMAIN a |-> R!Abs(a[i])]
            required == R!batch_margin_required(marks, b, l, 1)
        IN  /\ \A i \in DOMAIN required :
                  required[i] = R!initial_margin([R!NoPosition EXCEPT !.size = b[i]], marks[i],
                                                 R!Greater(l[i], 1))
            /\ R!batch_mul_scaled(a, b, 2) = [i \in DOMAIN R!batch_mul_scaled(a, b, 2) |->
                                                  R!Cut(a[i] * b[i], 2)]
            /\ R!batch_price_crosses(a, b) \subseteq DOMAIN a \cap DOMAIN b

\* The amount and the settlement of funding are the same, and a position is
\* charged once: a second settlement at the same index takes nothing.
ASSUME FundingOnce ==
    \A p \in Positions, acc \in -3..3 :
        LET once == R!settle_funding(p, acc)
        IN  /\ once.payment = R!calculate_funding_payment(p.size, p.last_funding_index, acc)
            /\ R!settle_funding(once.position, acc).payment = 0

\* Premium and spread of a two-sided market that is not crossed; funding is due
\* when no time is left.
ASSUME MarketDataAgrees ==
    \A bid, ask \in {R!None} \cup {[price |-> n] : n \in {8, 10, 13}}, t, now \in 0..2 :
        /\ R!None \in {bid, ask} => R!calculate_premium_index(bid, ask, 10) = 0
        /\ R!None \notin {bid, ask} /\ bid.price <= ask.price =>
              /\ R!spread(bid, ask).price >= 0
              /\ R!mid_price(bid, ask).price \in bid.price..ask.price
              /\ bid.price > 10 => R!calculate_premium_index(bid, ask, 10) > 0
        /\ R!should_settle(t, now) <=> R!time_until_funding(t, now) = 0

\* With the leverage that both markets allow, the margin that opens a position
\* is less than the margin that keeps it: its equity can be above the first
\* and below the second from the start.  It is not up to a leverage of 40.
ASSUME LeverageAboveMaintenance ==
    \A c \in {R!btc_perp, R!eth_perp} :
        /\ 1000 < c.max_leverage * c.maintenance_margin_rate
        /\ \A l \in 1..40 : 1000 >= l * c.maintenance_margin_rate
=============================================================================
