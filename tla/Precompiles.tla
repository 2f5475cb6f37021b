----------------------------- MODULE Precompiles -----------------------------
(***************************************************************************)
(* The read-only precompiles of the EVM (evm/src/precompiles.rs): requests *)
(* and the words they answer with.                                         *)
(*   input  = [len, address, market, order, depth, token]                  *)
(*   st     = [perp, positions, accounts, states, spot]; perp and          *)
(*            spot.tables are tables of EngineTables, spot may be None     *)
(***************************************************************************)
EXTENDS EngineTables

CONSTANTS Error,    \* a PrecompileError, whatever it says
          Wrap      \* two to the power of 128

First == 2048       \* 0x0800

Names == <<"Position", "Account", "Market", "Order", "Funding", "OrderBook",
           "SpotBalance", "SpotMarket", "SpotOrderBook">>

\* The upper eighteen bytes of the address are zero and the lower two name it.
from_address(a) == IF a.high = 0 /\ a.low - First + 1 \in DOMAIN Names
                   THEN Names[a.low - First + 1] ELSE Error

to_address(p) == [high |-> 0, low |-> First - 1 + CHOOSE i \in DOMAIN Names : Names[i] = p]

is_spot(p) == p \in {"SpotBalance", "SpotMarket", "SpotOrderBook"}

gas_cost(p) == CASE p = "Funding" -> 50
                 [] p = "Account" -> 150
                 [] p \in {"OrderBook", "SpotOrderBook"} -> 500
                 [] OTHER -> 100

Needed == [Position |-> 21, Account |-> 20, Market |-> 1, Order |-> 9, Funding |-> 1,
           OrderBook |-> 2, SpotBalance |-> 21, SpotMarket |-> 1, SpotOrderBook |-> 2]

\* The sixteen bytes of an i128 in the lower half of a word of zeros: the sign
\* is not extended.
Word(x) == x % Wrap

Words(s) == [i \in DOMAIN s |-> Word(s[i])]
Zeros(n) == [i \in 1..n |-> 0]

-----------------------------------------------------------------------------
(* Perpetuals: what is not there reads as zeros, except a book *)

get_position(st, in) ==
    IF <<in.address, in.market>> \notin DOMAIN st.positions THEN Zeros(8)
    ELSE LET p == st.positions[in.address, in.market]
         IN  Words(<<p.size, p.entry_notional, p.realized_pnl>>) \o Zeros(5)

\* Equity and withdrawable are the balance, margin used is zero.
get_account(st, in) ==
    IF in.address \notin DOMAIN st.accounts THEN Zeros(4)
    ELSE LET b == st.accounts[in.address] IN Words(<<b, b, 0, b>>)

get_market(st, in) ==
    IF in.market \notin DOMAIN st.states THEN Zeros(4)
    ELSE LET s == st.states[in.market]
         IN  Words(<<s.mark_price, s.index_price, s.funding_rate, s.open_interest_long>>)

get_order_words(st, in) ==
    LET o == get_order(st.perp, in.market, in.order)
    IN  IF o = None THEN Zeros(8)
        ELSE <<o.id, o.owner>> \o Words(<<o.price, o.original_size, o.size>>) \o Zeros(3)

get_funding(st, in) ==
    IF in.market \notin DOMAIN st.states THEN Zeros(2)
    ELSE <<Word(st.states[in.market].funding_rate), st.states[in.market].next_funding_time>>

\* The two counts, then price and size of every level, bids first.
BookWords(e, m, depth) ==
    LET l2 == get_l2(e, m, IF depth < 20 THEN depth ELSE 20)
        pairs(s) == FoldLeft(LAMBDA ws, l : ws \o Words(<<l.price, l.size>>), <<>>, s)
    IN  IF m \notin e.markets THEN Error
        ELSE <<Len(l2[1]), Len(l2[2])>> \o pairs(l2[1]) \o pairs(l2[2])

get_orderbook(st, in) == BookWords(st.perp, in.market, in.depth)

-----------------------------------------------------------------------------
(* Spot, when an engine was given *)

get_spot_balance(st, in) ==
    LET b == IF <<in.address, in.token>> \in DOMAIN st.spot.balances
             THEN st.spot.balances[in.address, in.token] ELSE [total |-> 0, reserved |-> 0]
    IN  Words(<<b.total, b.reserved, b.total - b.reserved>>)

get_spot_market(st, in) ==
    IF in.market \notin DOMAIN st.spot.info THEN Error
    ELSE LET i == st.spot.info[in.market]
         IN  <<i.base_token, i.quote_token>>
               \o Words(<<i.tick_size, i.lot_size, i.best_bid, i.best_ask, i.last_price>>)

get_spot_orderbook(st, in) == BookWords(st.spot.tables, in.market, in.depth)

-----------------------------------------------------------------------------
Answer(st, p, in) ==
    CASE p = "Position" -> get_position(st, in)
      [] p = "Account" -> get_account(st, in)
      [] p = "Market" -> get_market(st, in)
      [] p = "Order" -> get_order_words(st, in)
      [] p = "Funding" -> get_funding(st, in)
      [] p = "OrderBook" -> get_orderbook(st, in)
      [] p = "SpotBalance" -> get_spot_balance(st, in)
      [] p = "SpotMarket" -> get_spot_market(st, in)
      [] p = "SpotOrderBook" -> get_spot_orderbook(st, in)

execute(st, addr, in, gas_limit) ==
    LET p == from_address(addr)
    IN  CASE p = Error -> Error
          [] gas_limit < gas_cost(p) -> Error
          [] in.len < Needed[p] -> Error
          [] is_spot(p) /\ st.spot = None -> Error
          [] OTHER -> Answer(st, p, in)
=============================================================================
