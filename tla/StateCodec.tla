------------------------------ MODULE StateCodec ------------------------------
(***************************************************************************)
(* What of a validator's state survives a restart: extract_state turns the *)
(* running state into entries of text (chain/src/persistence_integration   *)
(* .rs), persist_state writes these under their keys into column families  *)
(* (persistence/src/persister.rs), load_state reads them back, and         *)
(* restore_state and restore_perp_engine_state parse them into new engines.*)
(*                                                                         *)
(* The operators take the running state as a record r.  A Decimal is its   *)
(* raw value with its number of decimals; a market id of spot is 128 or    *)
(* more.  Persister models when this is done, and the crashes in between.  *)
(***************************************************************************)
EXTENDS Integers, Sequences, FiniteSets, Functions, TLC

CONSTANTS
    PRICE_DECIMALS, SIZE_DECIMALS, USDC_DECIMALS, RATE_DECIMALS, TOKEN_DECIMALS,
    Panic            \* the outcome of expect on a text that cannot be parsed

-----------------------------------------------------------------------------
(* Decimals as text *)

Decimal(raw, decimals) == [raw |-> raw, decimals |-> decimals]
NoDecimal == Decimal(0, -1)

Scale(n) == 10^n

\* The text is given by its digits and the number of them behind the point:
\* the fewest that lose nothing.
to_string_trimmed(d) ==
    LET places == CHOOSE n \in 0..d.decimals :
                     /\ d.raw % Scale(d.decimals - n) = 0
                     /\ \A l \in 0..n - 1 : d.raw % Scale(d.decimals - l) # 0
    IN  [digits |-> d.raw \div Scale(d.decimals - places), places |-> places]

from_str_exact(text, decimals) ==
    IF text.places > decimals THEN NoDecimal
    ELSE Decimal(text.digits * Scale(decimals - text.places), decimals)

price(text) == from_str_exact(text, PRICE_DECIMALS)
size(text) == from_str_exact(text, SIZE_DECIMALS)
rate(text) == from_str_exact(text, RATE_DECIMALS)

\* unwrap_or_else(zero).
OrZero(d, decimals) == IF d = NoDecimal THEN Decimal(0, decimals) ELSE d

-----------------------------------------------------------------------------
(* extract_state.  With a perpetuals engine the trading state goes to perp  *)
(* and only the scalars to core as well, without one it goes to core.       *)

Texts(g) == [k \in DOMAIN g |-> [x \in DOMAIN g[k] |-> to_string_trimmed(g[k][x])]]

UnifiedBalanceData(b) ==
    [total |-> to_string_trimmed(b.total), core_view |-> to_string_trimmed(b.core_view),
     evm_view |-> to_string_trimmed(b.evm_view), decimals |-> b.total.decimals]

\* An order is listed by the book that holds it.
InBook(e) == Restrict(e.orders, e.book)

Engine(e) ==
    [positions |-> e.positions, leverage |-> e.leverage, markets |-> Texts(e.markets),
     orders |-> InBook(e)]

Nothing == [positions |-> <<>>, leverage |-> <<>>, markets |-> <<>>, orders |-> <<>>]

\* The 100 latest blocks.
Recent(blocks, n) == {b \in blocks : Cardinality({c \in blocks : c.height > b.height}) < n}

extract_spot(sp) ==
    [sp EXCEPT !.reserved = [k \in DOMAIN @ |-> to_string_trimmed(@[k])],
               !.markets = Texts(@), !.orders = InBook(sp), !.book = {}]

extract_state(r) ==
    LET scalars == [next_order_id |-> r.engine.next_order_id,
                    insurance_fund |-> to_string_trimmed(
                        Decimal(r.engine.insurance_fund, USDC_DECIMALS))]
    IN  [height |-> r.height, timestamp |-> r.timestamp, app_hash |-> r.app_hash,
         balances |-> [k \in DOMAIN r.balances |-> UnifiedBalanceData(r.balances[k])],
         perp |-> IF r.perp THEN Engine(r.engine) ELSE Nothing,
         core |-> IF r.perp THEN Nothing ELSE Engine(r.engine),
         scalars |-> scalars,
         spot |-> extract_spot(r.spot),
         evm |-> r.evm, nonces |-> r.nonces, cloids |-> r.cloids,
         blocks |-> Recent(r.blocks, 100)]

is_valid(b) ==
    LET t == from_str_exact(b.total, b.decimals)
        c == from_str_exact(b.core_view, b.decimals)
        e == from_str_exact(b.evm_view, b.decimals)
    IN  NoDecimal \notin {t, c, e} /\ t.raw = c.raw + e.raw

validate(s) == \A k \in DOMAIN s.balances : is_valid(s.balances[k])

-----------------------------------------------------------------------------
(* Column families *)

\* persist_state deletes what these hold before it writes.
Cleared == {"CloidIndex", "Orders", "Positions", "Leverage", "Balances", "Nonces"}

\* These are only added to or overwritten.
Merged == {"Markets", "SpotTokens", "SpotMarkets", "SpotReserved", "EvmAccounts",
           "EvmStorage", "EvmCode", "EvmBlockHashes", "BlockMeta", "AppHashes", "Metadata"}

\* These exist, and nothing is ever written to them.
Unused == {"Default", "Accounts", "AccountOrders", "BlockHashes", "Fills",
           "FundingPayments", "Trades"}

ColumnFamily == Cleared \cup Merged \cup Unused

is_critical(cf) == cf \notin {"Fills", "FundingPayments", "Trades", "CloidIndex", "Default"}

EmptyDb == [cf \in ColumnFamily |-> <<>>]

Prefer(a, b) == IF a # <<>> THEN a ELSE b

\* Two entries of a map under one key: the later put is the one that stays.
Put(f, g) == [k \in DOMAIN f \cup DOMAIN g |-> IF k \in DOMAIN g THEN g[k] ELSE f[k]]

\* A market id is one byte, and the offset saturates.
SpotKey(k) == <<IF k[1] + 128 > 255 THEN 255 ELSE k[1] + 128, k[2]>>

SpotOrders(orders) ==
    [key \in {SpotKey(k) : k \in DOMAIN orders} |->
        orders[CHOOSE k \in DOMAIN orders : SpotKey(k) = key]]

Batch(s) ==
    [cf \in ColumnFamily |->
        CASE cf = "Balances"     -> s.balances
          [] cf = "Positions"    -> Prefer(s.perp.positions, s.core.positions)
          [] cf = "Leverage"     -> Prefer(s.perp.leverage, s.core.leverage)
          [] cf = "Markets"      -> Prefer(s.perp.markets, s.core.markets)
          [] cf = "Orders"       -> Put(Prefer(s.perp.orders, s.core.orders),
                                        SpotOrders(s.spot.orders))
          [] cf = "SpotTokens"   -> s.spot.tokens
          [] cf = "SpotMarkets"  -> s.spot.markets
          [] cf = "SpotReserved" -> s.spot.reserved
          [] cf = "EvmAccounts"  -> s.evm.accounts
          [] cf = "EvmStorage"   -> s.evm.storage
          [] cf = "EvmCode"      -> s.evm.code
          [] cf = "EvmBlockHashes" -> s.evm.block_hashes
          [] cf = "Nonces"       -> s.nonces
          [] cf = "CloidIndex"   -> s.cloids
          [] cf = "BlockMeta"    -> [h \in {b.height : b \in s.blocks} |->
                                        CHOOSE b \in s.blocks : b.height = h]
          [] cf = "AppHashes"    -> [h \in {s.height} |-> s.app_hash]
          [] cf = "Metadata"     -> [x \in {"height", "timestamp", "scalars"} |-> s[x]]
          [] OTHER               -> <<>>]

\* A state whose views do not add up is refused.
persist_state(db, s) ==
    IF ~validate(s) THEN db
    ELSE [cf \in ColumnFamily |-> IF cf \in Cleared THEN Batch(s)[cf] ELSE Put(db[cf], Batch(s)[cf])]

\* Everything of the perpetuals comes back under core.  Reserved balances, the
\* counters of the spot engine and the EVM's block hashes are not read.
load_state(db) ==
    LET orders == db["Orders"]
        Market(S) == {k \in DOMAIN orders : k[1] \in S}
        spot == Market(128..255)
    IN  [height |-> db["Metadata"]["height"], timestamp |-> db["Metadata"]["timestamp"],
         app_hash |-> db["AppHashes"][db["Metadata"]["height"]],
         balances |-> db["Balances"], perp |-> Nothing,
         core |-> [positions |-> db["Positions"], leverage |-> db["Leverage"],
                   markets |-> db["Markets"], orders |-> Restrict(orders, Market(0..127))],
         scalars |-> db["Metadata"]["scalars"],
         spot |-> [tokens |-> db["SpotTokens"], markets |-> db["SpotMarkets"],
                   reserved |-> <<>>, book |-> {},
                   orders |-> [k \in {<<l[1] - 128, l[2]>> : l \in spot} |->
                                  orders[<<k[1] + 128, k[2]>>]],
                   next_token_index |-> 0, next_market_id |-> 0, next_order_id |-> 0],
         evm |-> [accounts |-> db["EvmAccounts"], storage |-> db["EvmStorage"],
                  code |-> db["EvmCode"], block_hashes |-> <<>>],
         nonces |-> db["Nonces"], cloids |-> db["CloidIndex"],
         blocks |-> {db["BlockMeta"][h] : h \in DOMAIN db["BlockMeta"]}]

-----------------------------------------------------------------------------
(* restore_state, restore_perp_engine_state, restore_chain_state *)

\* build_market_from_entry: the funding rate and its accumulator are read as
\* prices.
build_market_from_entry(e) ==
    [mark_price |-> price(e.mark_price), index_price |-> price(e.index_price),
     funding_rate |-> price(e.funding_rate),
     funding_accumulator |-> price(e.funding_accumulator),
     open_interest_long |-> size(e.open_interest_long),
     open_interest_short |-> size(e.open_interest_short),
     maker_fee_rate |-> rate(e.maker_fee_rate), taker_fee_rate |-> rate(e.taker_fee_rate)]

Unreadable(s) ==
    \E k \in DOMAIN s.core.markets \cup DOMAIN s.perp.markets :
        \E x \in DOMAIN Prefer(s.perp.markets, s.core.markets)[k] :
            build_market_from_entry(Prefer(s.perp.markets, s.core.markets)[k])[x] = NoDecimal

\* Only the markets of the new engine take their state; an order is restored
\* into the order map, and into the book of its market if there is one.
restore_perp_engine_state(s, markets) ==
    LET part(x) == Prefer(s.perp[x], s.core[x])
        fund == from_str_exact(s.scalars.insurance_fund, USDC_DECIMALS)
    IN  [positions |-> part("positions"), leverage |-> part("leverage"),
         markets |-> [k \in DOMAIN markets |->
                        IF k \in DOMAIN part("markets")
                        THEN build_market_from_entry(part("markets")[k]) ELSE markets[k]],
         orders |-> part("orders"),
         book |-> {k \in DOMAIN part("orders") : <<k[1]>> \in DOMAIN markets},
         next_order_id |-> s.scalars.next_order_id,
         insurance_fund |-> IF fund = NoDecimal THEN 0 ELSE fund.raw]

\* A zero decimals field is of an older snapshot.
RestoredBalance(k, b) ==
    LET d == IF b.decimals > 0 THEN b.decimals ELSE IF k[2] = 0 THEN USDC_DECIMALS
             ELSE TOKEN_DECIMALS
        part(x) == OrZero(from_str_exact(b[x], d), d)
    IN  [total |-> part("total"), core_view |-> part("core_view"), evm_view |-> part("evm_view")]

SpotMarket(e) ==
    [tick_size |-> price(e.tick_size), lot_size |-> size(e.lot_size),
     maker_fee_rate |-> rate(e.maker_fee_rate), taker_fee_rate |-> rate(e.taker_fee_rate)]

\* set_reserved drops zeros; a market that is not there has no book.
RestoredSpot(s) ==
    LET amount(k) == LET d == IF k[2] = 0 THEN USDC_DECIMALS ELSE TOKEN_DECIMALS
                     IN  OrZero(from_str_exact(s.reserved[k], d), d)
    IN  [s EXCEPT !.markets = [k \in DOMAIN @ |-> SpotMarket(@[k])],
                  !.reserved = [k \in {l \in DOMAIN @ : amount(l).raw # 0} |-> amount(k)],
                  !.book = {k \in DOMAIN s.orders : <<k[1]>> \in DOMAIN s.markets}]

restore_chain_state(s) ==
    [nonces |-> s.nonces, cloids |-> s.cloids, blocks |-> s.blocks]

\* The node's main restores the EVM when there is something to restore.
restore_evm(s, new) ==
    IF s.accounts = <<>> /\ s.storage = <<>> /\ s.code = <<>> THEN new
    ELSE [x \in DOMAIN new |-> Put(new[x], s[x])]

\* Balances, then the engines.
restore_state(s, markets) ==
    [height |-> s.height, timestamp |-> s.timestamp, app_hash |-> s.app_hash,
     balances |-> [k \in DOMAIN s.balances |-> RestoredBalance(k, s.balances[k])],
     perp |-> TRUE, engine |-> restore_perp_engine_state(s, markets),
     spot |-> RestoredSpot(s.spot)]

NewEvm == [accounts |-> <<>>, storage |-> <<>>, code |-> <<>>, block_hashes |-> <<>>]

\* A node of the same genesis, with the markets it starts with.
Restored(s, markets) ==
    IF Unreadable(s) THEN Panic
    ELSE restore_state(s, markets) @@ restore_chain_state(s) @@
         [evm |-> restore_evm(s.evm, NewEvm)]

\* The snapshot of state sync is the extracted state itself; of the chain it
\* restores height, time and hash only.
apply_snapshot(s, markets, new) ==
    IF ~validate(s) THEN new
    ELSE IF Unreadable(s) THEN Panic
    ELSE restore_state(s, markets) @@ new
================================================================================
