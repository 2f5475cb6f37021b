------------------------------ MODULE Bootstrap ------------------------------
(***************************************************************************)
(* What a node starts with: the single node's own initialisation and its   *)
(* genesis (node/src/main.rs), the InitChain of a validator                *)
(* (chain/src/app.rs), and the two background tasks of the single node     *)
(* that write the gateway's tables.                                        *)
(*                                                                         *)
(* A genesis is [readable, tokens, balances]; an entry of balances is      *)
(* [address, token, amount, view] and a text of an amount [number, digits, *)
(* places].  A sheet gives the credited raw units per account, token, view.*)
(***************************************************************************)
EXTENDS Integers, Sequences, FiniteSets, SequencesExt

CONSTANTS
    Accounts,        \* the addresses that parse
    Deployer,        \* the system deployer, address zero
    UsdcDecimals, TokenDecimals, PriceDecimals,
    MaxRaw,          \* the largest raw value
    MaxHistory       \* entries that a funding history keeps

None == [none |-> TRUE]

Scale(n) == 10^n

\* Decimal::from_str_exact on an amount that is not negative.
from_str_exact(t, decimals) ==
    IF ~t.number \/ t.places > decimals THEN None
    ELSE LET raw == t.digits * Scale(decimals - t.places)
         IN  IF raw > MaxRaw THEN None ELSE [raw |-> raw]

Decimals(token) == IF token = 0 THEN UsdcDecimals ELSE TokenDecimals

NoSheet == <<>>
Held(sheet, key) == IF key \in DOMAIN sheet THEN sheet[key] ELSE 0

\* UnifiedState::credit and credit_evm.
credit(sheet, a, token, view, raw) ==
    LET key == <<a, token, view>>
    IN  [k \in DOMAIN sheet \cup {key} |-> IF k = key THEN Held(sheet, key) + raw ELSE sheet[k]]

-----------------------------------------------------------------------------
(* The tokens.  An index is the number of tokens deployed before, whatever *)
(* index the genesis names; a refused token takes none.                    *)

Deployable(t) == t.sz_decimals + 5 <= t.wei_decimals

deploy_token(node, t) ==
    IF ~Deployable(t) THEN node
    ELSE [node EXCEPT !.tokens = Append(@, t),
                      !.sheet = credit(@, Deployer, Len(node.tokens) + 1, "core", t.max_supply.raw)]

Empty == [markets |-> {}, tokens |-> <<>>, sheet |-> NoSheet, ok |-> TRUE]

initialize_default_markets(node) == [node EXCEPT !.markets = {"BTC-PERP", "ETH-PERP"}]

TestToken == [index |-> 1, symbol |-> "TEST", wei_decimals |-> 18, sz_decimals |-> 4,
              max_supply |-> [raw |-> 9]]

initialize_spot_markets(node) == deploy_token(node, TestToken)

-----------------------------------------------------------------------------
(* The single node *)

\* An entry without address or amount ends the start with the earlier entries
\* credited; an amount that does not parse counts as nothing, a token index
\* loses its high bits, and an unknown view is the core view.
CreditEntry(node, e) ==
    LET token == e.token % 256
        amount == from_str_exact(e.amount, Decimals(token))
        view == IF e.view = "evm" THEN "evm" ELSE "core"
    IN  IF ~node.ok THEN node
        ELSE IF e.address \notin Accounts THEN [node EXCEPT !.ok = FALSE]
        ELSE IF amount = None \/ amount.raw = 0 THEN node
        ELSE [node EXCEPT !.sheet = credit(@, e.address, token, view, amount.raw)]

initialize_genesis_balances(node, balances) == FoldLeft(CreditEntry, node, balances)

\* create_genesis, with one account for the three that are alike.
Whole(n) == [number |-> TRUE, digits |-> n, places |-> 0]
create_genesis ==
    [readable |-> TRUE,
     tokens |-> <<[index |-> 1, symbol |-> "BTC", wei_decimals |-> 8, sz_decimals |-> 3, max_supply |-> Whole(21)],
                  [index |-> 2, symbol |-> "ETH", wei_decimals |-> 18, sz_decimals |-> 4, max_supply |-> Whole(120)]>>,
     balances |-> <<[address |-> "alice", token |-> 0, amount |-> Whole(100), view |-> "core"],
                    [address |-> "alice", token |-> 1, amount |-> Whole(10), view |-> "core"],
                    [address |-> "alice", token |-> 2, amount |-> Whole(100), view |-> "core"],
                    [address |-> "user", token |-> 0, amount |-> Whole(1000), view |-> "core"],
                    [address |-> "user", token |-> 0, amount |-> Whole(100), view |-> "evm"],
                    [address |-> "user", token |-> 1, amount |-> Whole(100), view |-> "core"],
                    [address |-> "user", token |-> 2, amount |-> Whole(1000), view |-> "core"]>>]

\* A restored node and one under CometBFT initialise nothing themselves.
should_init_genesis(mode, restored) == ~restored /\ mode # "CometBft"

StartNode(mode, restored, genesis) ==
    IF ~should_init_genesis(mode, restored) THEN Empty
    ELSE initialize_genesis_balances(initialize_spot_markets(initialize_default_markets(Empty)),
                                     genesis.balances)

-----------------------------------------------------------------------------
(* The validator: HyperCoreApp::init_from_genesis *)

\* serde refuses the whole genesis for one entry that it cannot read.
Reads(genesis) ==
    /\ genesis.readable
    /\ \A i \in DOMAIN genesis.balances :
          LET e == genesis.balances[i]
          IN  e.address \in Accounts /\ e.token < 256 /\ e.view \in {"core", "evm"}

\* An amount that does not parse is taken as raw units when it is a whole number.
GenesisAmount(e) ==
    LET exact == from_str_exact(e.amount, Decimals(e.token))
    IN  IF exact # None THEN exact.raw
        ELSE IF e.amount.number /\ e.amount.places = 0 /\ e.amount.digits <= MaxRaw
        THEN e.amount.digits ELSE 0

\* The supply is read with the decimals of a price.
Params(t) == [t EXCEPT !.max_supply = LET raw == from_str_exact(t.max_supply, PriceDecimals)
                                      IN  IF raw = None THEN [raw |-> MaxRaw] ELSE raw]

init_from_genesis(node, genesis) ==
    LET deployed == FoldLeft(LAMBDA n, t : deploy_token(n, Params(t)),
                             [node EXCEPT !.markets = {"BTC-PERP", "ETH-PERP"}], genesis.tokens)
        entry(n, e) == IF GenesisAmount(e) = 0 THEN n
                       ELSE [n EXCEPT !.sheet = credit(@, e.address, e.token, e.view, GenesisAmount(e))]
    IN  IF Reads(genesis) THEN FoldLeft(entry, deployed, genesis.balances)
        ELSE [node EXCEPT !.ok = FALSE]

-----------------------------------------------------------------------------
(* The tasks of the single node, on the gateway's own tables               *)
(*   g = [mark, rate, accumulator, next, last, size, history, payments]    *)

\* Each second a mark price moves by a clock's sine, by at most 1 in 2000.
mock_price_feed(g, m, price) == [g EXCEPT !.mark[m] = price]

Kept(s, x) == LET t == Append(s, x) IN IF Len(t) > MaxHistory THEN Tail(t) ELSE t

\* The premium of the mark price over the index price, times 1000, clamped.
calculate_funding_rate(mark, index, max_rate) ==
    LET gap == (mark - index) * 1000
        premium == IF gap < 0 THEN -((-gap) \div index) ELSE gap \div index
    IN  IF index = 0 THEN 0
        ELSE IF premium > max_rate THEN max_rate
        ELSE IF premium < -max_rate THEN -max_rate ELSE premium

\* The mark price is passed as the index price.
SettleMarket(g, m, now, interval, max_rate) ==
    LET rate == calculate_funding_rate(g.mark[m], g.mark[m], max_rate)
    IN  IF now < g.next[m] THEN g
        ELSE [g EXCEPT !.rate[m] = rate, !.accumulator[m] = @ + rate * g.mark[m],
                       !.next[m] = now + interval, !.history[m] = Kept(@, <<now, rate>>)]

\* A closed position keeps its old index.
PayPosition(g, m, a, now) ==
    LET payment == g.size[a, m] * (g.accumulator[m] - g.last[a, m])
    IN  IF g.size[a, m] = 0 THEN g
        ELSE [g EXCEPT !.last[a, m] = g.accumulator[m],
                       !.payments[a] = IF payment = 0 THEN @ ELSE Kept(@, <<m, now, payment>>)]

funding_processor(g, now, interval, max_rate) ==
    LET markets == SetToSeq(DOMAIN g.mark)
        settled == FoldLeft(LAMBDA s, m : SettleMarket(s, m, now, interval, max_rate), g, markets)
    IN  FoldLeft(LAMBDA s, k : PayPosition(s, k[2], k[1], now), settled, SetToSeq(DOMAIN g.size))
=============================================================================
