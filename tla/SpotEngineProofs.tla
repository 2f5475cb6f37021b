-------------------------- MODULE SpotEngineProofs --------------------------
(* Theorems about SpotEngine for every value of its constants. *)
EXTENDS SpotEngine, SumTheorems, SequenceTheorems, TLAPS

\* Dividing a natural number by a positive one, as the fixed-point arithmetic
\* does.
LEMMA DivNat ==
    ASSUME NEW x \in Nat, NEW d \in Nat \ {0}
    PROVE  x \div d \in Nat
  OBVIOUS

\* Truncating division keeps the order of its arguments.
LEMMA DivMonotone ==
    ASSUME NEW x \in Nat, NEW y \in Nat, NEW d \in Nat \ {0}, x <= y
    PROVE  x \div d <= y \div d
  OBVIOUS

\* The product of two natural numbers is one.
LEMMA MulNat ==
    ASSUME NEW x \in Nat, NEW y \in Nat
    PROVE  x * y \in Nat
  OBVIOUS

\* A fraction of an amount is at most the amount: fees and rebates do not
\* exceed the notional.
LEMMA MulDivBound ==
    ASSUME NEW x \in Nat, NEW r \in Nat, NEW d \in Nat \ {0}, r <= d
    PROVE  (x * r) \div d <= x
  <1>1. x * r \in Nat /\ x * d \in Nat
    OBVIOUS
  <1>2. x * r <= x * d
    OBVIOUS
  <1>3. (x * d) \div d = x
    OBVIOUS
  <1>4. QED
    BY <1>1, <1>2, <1>3, DivMonotone

\* Dividing towards zero yields an integer, and of a natural number what the
\* integer division yields.
LEMMA TruncatedIs ==
    ASSUME NEW x \in Int, NEW d \in Nat \ {0}
    PROVE  /\ Truncated(x, d) \in Int
           /\ x >= 0 => Truncated(x, d) = x \div d /\ Truncated(x, d) \in Nat
           /\ x < 0 => Truncated(x, d) <= 0
  <1>1. CASE x >= 0
    <2>1. x \in Nat
      BY <1>1
    <2>2. QED
      BY <1>1, <2>1, DivNat DEF Truncated
  <1>2. CASE x < 0
    <2>1. PICK y : y = 0 - x
      OBVIOUS
    <2>2. y \in Nat
      BY <1>2, <2>1
    <2>3. y \div d \in Nat
      BY <2>2, DivNat
    <2>4. Truncated(x, d) = 0 - (y \div d)
      BY <1>2, <2>1 DEF Truncated
    <2>5. QED
      BY <1>2, <2>3, <2>4
  <1>3. QED
    BY <1>1, <1>2

\* The product of two integers is one.
LEMMA MulInt ==
    ASSUME NEW x \in Int, NEW y \in Int
    PROVE  x * y \in Int
  OBVIOUS

-----------------------------------------------------------------------------
(* The conversions *)

\* The conversions between token and USDC scale yield integers, and natural
\* numbers of natural numbers.
LEMMA Conversions ==
    ASSUME NEW size \in Nat, NEW price \in Int
    PROVE  /\ Notional(size, price) \in Int
           /\ \A x \in Int : ToUsdc(x) \in Int /\ (x >= 0 => ToUsdc(x) >= 0)
           /\ \A side \in Sides : reserve_amount(side, size, price) \in Int
           /\ price >= 0 =>
                /\ Notional(size, price) >= 0
                /\ \A side \in Sides : reserve_amount(side, size, price) >= 0
  <1>1. Notional(size, price) \in Int
    BY MulInt, TruncatedIs, ScaleAssumption DEF Notional
  <1>2. \A x \in Int : ToUsdc(x) \in Int /\ (x >= 0 => ToUsdc(x) >= 0)
    BY TruncatedIs, ScaleAssumption DEF ToUsdc
  <1>3. ASSUME price >= 0
        PROVE  Notional(size, price) >= 0
    <2>1. size * price \in Int /\ size * price >= 0
      BY <1>3, MulNat
    <2>2. QED
      BY <2>1, TruncatedIs, ScaleAssumption DEF Notional
  <1>4. QED
    BY <1>1, <1>2, <1>3 DEF reserve_amount

\* A fee and a rebate are integers.  Neither exceeds the notional when that is
\* not negative, also after both are cut to USDC: so what a buyer pays and a
\* seller receives is not negative either.
LEMMA FeesBounded ==
    ASSUME NEW n \in Int
    PROVE  /\ ToUsdc(maker_rebate(n)) \in Int /\ ToUsdc(taker_fee(n)) \in Int
           /\ ToUsdc(n) \in Int
           /\ n >= 0 => /\ ToUsdc(maker_rebate(n)) \in 0..ToUsdc(n)
                        /\ ToUsdc(taker_fee(n)) \in 0..ToUsdc(n)
                        /\ ToUsdc(n) \in Nat
  <1>1. /\ maker_rebate(n) \in Int /\ taker_fee(n) \in Int
    BY MulInt, TruncatedIs, ScaleAssumption DEF maker_rebate, taker_fee
  <1>2. \A x \in Int : ToUsdc(x) \in Int
    BY TruncatedIs, ScaleAssumption DEF ToUsdc
  <1>3. ASSUME n >= 0
        PROVE  /\ ToUsdc(maker_rebate(n)) \in 0..ToUsdc(n)
               /\ ToUsdc(taker_fee(n)) \in 0..ToUsdc(n)
               /\ ToUsdc(n) \in Nat
    <2>1. n \in Nat
      BY <1>3
    <2>2. \A rate \in 0..FeeScale :
            /\ n * rate \in Nat
            /\ Truncated(n * rate, FeeScale) \in Nat
            /\ Truncated(n * rate, FeeScale) <= n
      <3>1. TAKE rate \in 0..FeeScale
      <3>2. rate \in Nat /\ rate <= FeeScale /\ FeeScale \in Nat \ {0}
        BY ScaleAssumption
      <3>3. n * rate \in Nat
        BY <2>1, <3>2, MulNat
      <3>4. (n * rate) \div FeeScale <= n
        BY <2>1, <3>2, MulDivBound
      <3>5. PICK z : z = n * rate
        OBVIOUS
      <3>6. Truncated(z, FeeScale) = z \div FeeScale /\ Truncated(z, FeeScale) \in Nat
        BY <3>2, <3>3, <3>5, DivNat DEF Truncated
      <3>7. QED
        BY <3>3, <3>4, <3>5, <3>6
    <2>3. /\ maker_rebate(n) \in Nat /\ maker_rebate(n) <= n
          /\ taker_fee(n) \in Nat /\ taker_fee(n) <= n
      BY <2>2, ScaleAssumption DEF maker_rebate, taker_fee
    <2>4. \A x \in Nat : x <= n => ToUsdc(x) \in 0..ToUsdc(n)
      <3>1. TAKE x \in Nat
      <3>2. UsdcScale \in Nat \ {0} /\ x \in Int /\ x >= 0
        BY ScaleAssumption
      <3>3. /\ ToUsdc(x) = x \div UsdcScale /\ ToUsdc(x) \in Nat
            /\ ToUsdc(n) = n \div UsdcScale /\ ToUsdc(n) \in Nat
        BY <2>1, <3>2, DivNat DEF ToUsdc, Truncated
      <3>4. HAVE x <= n
      <3>5. x \div UsdcScale <= n \div UsdcScale
        BY <2>1, <3>2, <3>4, DivMonotone
      <3>6. QED
        BY <3>3, <3>5
    <2>5. QED
      BY <2>1, <2>3, <2>4
  <1>4. QED
    BY <1>1, <1>2, <1>3

\* A size that passes validate_order is at least one unit.
LEMMA ValidSizePositive ==
    ASSUME NEW price, NEW size \in Int, validate_order(price, size)
    PROVE  size \in Nat /\ size > 0
  <1>1. PICK n : n = size * LotScale
    OBVIOUS
  <1>2. n \in Int /\ LotScale \in Nat \ {0} /\ LotCut \in Nat \ {0} /\ LotSize \in Nat \ {0}
    BY <1>1, ScaleAssumption
  <1>3. Truncated(n, LotCut) \in Int /\ Truncated(n, LotCut) >= LotSize
    BY <1>1, <1>2, TruncatedIs DEF validate_order, size_normalized
  <1>4. n > 0
    <2>1. n >= 0
      BY <1>2, <1>3, TruncatedIs
    <2>2. n # 0
      BY <1>2, <1>3 DEF Truncated
    <2>3. QED
      BY <1>2, <2>1, <2>2
  <1>5. QED
    <2>1. CASE size <= 0
      <3>1. PICK z : z = 0 - size
        OBVIOUS
      <3>2. z \in Nat /\ z * LotScale \in Nat /\ n = 0 - (z * LotScale)
        BY <1>1, <1>2, <2>1, <3>1
      <3>3. QED
        BY <1>2, <1>4, <3>2
    <2>2. QED
      BY <2>1

-----------------------------------------------------------------------------
(* The balance sheet *)

ValidSheet(b) == IsBalanceSheet(b) /\ verify_invariants(b)

\* Writing a valid entry keeps the sheet valid.
LEMMA InsertValid ==
    ASSUME NEW b, ValidSheet(b), NEW k \in Keys, NEW v \in UnifiedBalance,
           v.total = v.core_view + v.evm_view
    PROVE  /\ ValidSheet(Insert(b, k, v))
           /\ Insert(b, k, v)[k] = v
           /\ DOMAIN Insert(b, k, v) = DOMAIN b \cup {k}
           /\ \A x \in DOMAIN b \ {k} : Insert(b, k, v)[x] = b[x]
  BY DEF ValidSheet, IsBalanceSheet, verify_invariants, Insert

\* Reading an entry, present or not, yields one whose views add up.
LEMMA EntryValid ==
    ASSUME NEW b, ValidSheet(b), NEW k
    PROVE  LET e == get_balance_or_default(b, k)
           IN  e \in UnifiedBalance /\ e.total = e.core_view + e.evm_view
  BY DEF ValidSheet, IsBalanceSheet, verify_invariants, get_balance_or_default,
         ZeroBalance, Views, UnifiedBalance

\* What credits, debits and view moves do to one valid entry.
LEMMA EntryOperations ==
    ASSUME NEW e \in UnifiedBalance, e.total = e.core_view + e.evm_view, NEW x \in Int
    PROVE  /\ AddCore(e, x) \in UnifiedBalance
           /\ AddCore(e, x).total = AddCore(e, x).core_view + AddCore(e, x).evm_view
           /\ MoveToEvm(e, x) \in UnifiedBalance
           /\ MoveToEvm(e, x).total = MoveToEvm(e, x).core_view + MoveToEvm(e, x).evm_view
           /\ AddEvm(e, x) \in UnifiedBalance
           /\ AddEvm(e, x).total = AddEvm(e, x).core_view + AddEvm(e, x).evm_view
  BY DEF UnifiedBalance, AddCore, AddEvm, MoveToEvm, Views

\* Every operation of UnifiedState keeps the sheet valid, whatever the amount.
LEMMA SheetOperations ==
    ASSUME NEW b, ValidSheet(b), NEW k \in Keys, NEW amount \in Int
    PROVE  /\ ValidSheet(credit(b, k, amount))
           /\ ValidSheet(credit_evm(b, k, amount))
           /\ k \in DOMAIN b =>
                /\ ValidSheet(debit_core(b, k, amount))
                /\ ValidSheet(debit_evm(b, k, amount))
                /\ ValidSheet(transfer_to_evm_view(b, k, amount))
                /\ ValidSheet(transfer_to_core_view(b, k, amount))
  <1>1. PICK e : e = get_balance_or_default(b, k)
    OBVIOUS
  <1>2. e \in UnifiedBalance /\ e.total = e.core_view + e.evm_view
    BY <1>1, EntryValid
  <1>3. PICK y : y = -amount
    OBVIOUS
  <1>4. y \in Int
    BY <1>3
  <1>5. k \in DOMAIN b => b[k] = e
    BY <1>1 DEF get_balance_or_default
  <1>6. \A x \in {amount, y} :
          /\ ValidSheet(Insert(b, k, AddCore(e, x)))
          /\ ValidSheet(Insert(b, k, AddEvm(e, x)))
          /\ ValidSheet(Insert(b, k, MoveToEvm(e, x)))
    <2>1. TAKE x \in {amount, y}
    <2>2. x \in Int
      BY <1>4
    <2>3. /\ AddCore(e, x) \in UnifiedBalance
          /\ AddCore(e, x).total = AddCore(e, x).core_view + AddCore(e, x).evm_view
          /\ MoveToEvm(e, x) \in UnifiedBalance
          /\ MoveToEvm(e, x).total = MoveToEvm(e, x).core_view + MoveToEvm(e, x).evm_view
          /\ AddEvm(e, x) \in UnifiedBalance
          /\ AddEvm(e, x).total = AddEvm(e, x).core_view + AddEvm(e, x).evm_view
      BY <1>2, <2>2, EntryOperations
    <2>4. QED
      BY <2>3, InsertValid
  <1>7. QED
    BY <1>1, <1>3, <1>5, <1>6
       DEF credit, credit_evm, debit_core, debit_evm, transfer_to_evm_view,
           transfer_to_core_view

\* EvmState::set_balance raises or lowers an EVM view to the value it is given.
LEMMA EvmOperations ==
    ASSUME NEW b, ValidSheet(b), NEW k \in Keys, NEW balance \in Int
    PROVE  /\ ValidSheet(credit_evm(b, k, balance - get_evm_view(b, k)))
           /\ balance >= 0 /\ balance < get_evm_view(b, k) =>
                ValidSheet(debit_evm(b, k, get_evm_view(b, k) - balance))
  <1>1. PICK e : e = get_balance_or_default(b, k)
    OBVIOUS
  <1>2. e.evm_view \in Int /\ get_evm_view(b, k) = e.evm_view
    BY <1>1, EntryValid DEF UnifiedBalance, get_evm_view
  <1>3. balance >= 0 /\ balance < e.evm_view => k \in DOMAIN b
    BY <1>1, <1>2 DEF get_balance_or_default, ZeroBalance, Views
  <1>4. balance - e.evm_view \in Int /\ e.evm_view - balance \in Int
    BY <1>2
  <1>5. QED
    BY <1>2, <1>3, <1>4, SheetOperations

\* transfer_core keeps the sheet valid, a transfer to oneself included.
LEMMA TransferCoreValid ==
    ASSUME NEW b, ValidSheet(b), NEW from \in Keys, NEW to \in Keys, NEW amount \in Int
    PROVE  ValidSheet(transfer_core(b, from, to, amount))
  <1>1. CASE from \in DOMAIN b
    <2>1. ValidSheet(debit_core(b, from, amount))
      BY <1>1, SheetOperations
    <2>2. transfer_core(b, from, to, amount) = credit(debit_core(b, from, amount), to, amount)
      BY <1>1 DEF transfer_core, debit_core
    <2>3. QED
      BY <2>1, <2>2, SheetOperations
  <1>2. CASE from \notin DOMAIN b
    BY <1>2, SheetOperations DEF transfer_core
  <1>3. QED
    BY <1>1, <1>2

-----------------------------------------------------------------------------
(* Facts about a state that has its types *)

ApplyPcs == {"buyer_pays", "buyer_receives", "seller_pays", "seller_receives"}

\* The keys the engine builds from accounts and markets are keys of the sheet.
LEMMA KeyFacts ==
    /\ USDC \in Tokens /\ Markets \subseteq Tokens /\ Tokens \subseteq Nat
    /\ \A a \in Accounts, t \in Tokens : <<a, t>> \in Keys
    /\ \A a \in Accounts, m \in Markets, side \in Sides :
         reserve_token(side, m) \in Tokens /\ <<a, reserve_token(side, m)>> \in Keys
  BY TokensAssumption DEF USDC, Markets, Keys, reserve_token

\* The accounts, keys and amounts of the fill being applied.
LEMMA FillFacts ==
    ASSUME TypeOK, pc \in ApplyPcs
    PROVE  /\ taker \in TakerOrder /\ fill \in SpotFill
           /\ buyer \in Accounts /\ seller \in Accounts
           /\ QuoteKey \in Keys /\ <<seller, USDC>> \in Keys
           /\ BaseKeyOfBuyer \in Keys /\ BaseKeyOfSeller \in Keys
           /\ QuoteKey # BaseKeyOfSeller
           /\ quote_with_fee \in Int /\ seller_receives \in Int
           /\ fill.base_size \in Nat
           /\ fill.quote_size >= 0 => quote_with_fee >= 0 /\ seller_receives >= 0
  <1>1. taker \in TakerOrder /\ fill \in SpotFill
    BY DEF TypeOK, ApplyPcs, fill
  <1>2. fill.maker \in Accounts /\ fill.base_size \in Nat /\ fill.quote_size \in Int
    BY <1>1 DEF SpotFill
  <1>3. taker.owner \in Accounts /\ taker.market \in Markets
    BY <1>1 DEF TakerOrder
  <1>4. buyer \in Accounts /\ seller \in Accounts
    BY <1>2, <1>3 DEF buyer, seller
  <1>5. /\ QuoteKey \in Keys /\ <<seller, USDC>> \in Keys
        /\ BaseKeyOfBuyer \in Keys /\ BaseKeyOfSeller \in Keys
    BY <1>3, <1>4, KeyFacts DEF QuoteKey, BaseKeyOfBuyer, BaseKeyOfSeller
  <1>6. QuoteKey # BaseKeyOfSeller
    BY <1>3, TokensAssumption DEF QuoteKey, BaseKeyOfSeller, Markets, USDC
  <1>7. /\ quote_with_fee \in Int /\ seller_receives \in Int
        /\ fill.quote_size >= 0 => quote_with_fee >= 0 /\ seller_receives >= 0
    <2>1. PICK n, r, t : /\ n = ToUsdc(fill.quote_size)
                         /\ r = ToUsdc(maker_rebate(fill.quote_size))
                         /\ t = ToUsdc(taker_fee(fill.quote_size))
      OBVIOUS
    <2>2. /\ n \in Int /\ r \in Int /\ t \in Int
          /\ fill.quote_size >= 0 => r \in 0..n /\ t \in 0..n
      BY <1>2, <2>1, FeesBounded
    <2>3. QED
      BY <2>1, <2>2 DEF quote_with_fee, seller_receives
  <1>8. QED
    BY <1>1, <1>2, <1>4, <1>5, <1>6, <1>7

-----------------------------------------------------------------------------
(* The sheet stays valid under every action. *)

\* deploy_token credits its recipients and keeps the sheet valid.
LEMMA DeployValid ==
    ASSUME TypeOK, ViewsAddUp, NEW a \in Accounts, NEW alloc \in GenesisAllocations,
           deploy_token(a, alloc)
    PROVE  ValidSheet(balances')
  <1> DEFINE t == next_token_index
             minted == Minted(a, alloc)
             credited == (DOMAIN minted) \X {t}
  <1>1. DOMAIN minted \subseteq Accounts /\ \A x \in DOMAIN minted : minted[x] \in Nat
    BY GenesisAssumption, BoundsAssumption DEF Minted
  <1>2. t \in Tokens
    BY TokensAssumption DEF TypeOK, deploy_token
  <1>3. credited \subseteq Keys /\ \A k \in credited : minted[k[1]] \in Nat
    BY <1>1, <1>2 DEF Keys
  <1>4. ValidSheet(balances)
    BY DEF TypeOK, ViewsAddUp, ValidSheet
  <1>5. balances' = [k \in DOMAIN balances \cup credited |->
                       IF k \in credited
                       THEN AddCore(get_balance_or_default(balances, k), minted[k[1]])
                       ELSE balances[k]]
    BY DEF deploy_token
  <1>6. ASSUME NEW k \in credited
        PROVE  LET v == AddCore(get_balance_or_default(balances, k), minted[k[1]])
               IN  v \in UnifiedBalance /\ v.total = v.core_view + v.evm_view
    <2>1. PICK e : e = get_balance_or_default(balances, k)
      OBVIOUS
    <2>2. e \in UnifiedBalance /\ e.total = e.core_view + e.evm_view
      BY <2>1, <1>4, EntryValid
    <2>3. minted[k[1]] \in Int
      BY <1>3
    <2>4. QED
      BY <2>1, <2>2, <2>3, EntryOperations
  <1> HIDE DEF t, minted, credited
  <1>7. DOMAIN balances' \subseteq Keys
    BY <1>3, <1>4, <1>5 DEF ValidSheet, IsBalanceSheet
  <1>8. \A k \in DOMAIN balances' :
          balances'[k] \in UnifiedBalance
          /\ balances'[k].total = balances'[k].core_view + balances'[k].evm_view
    BY <1>4, <1>5, <1>6 DEF ValidSheet, IsBalanceSheet, verify_invariants
  <1>9. QED
    BY <1>5, <1>7, <1>8 DEF ValidSheet, IsBalanceSheet, verify_invariants

\* Every step of the engine and of the other writers keeps the sheet valid.
LEMMA SheetStep ==
    ASSUME TypeOK, ViewsAddUp, [Next]_vars
    PROVE  ValidSheet(balances')
  <1>1. ValidSheet(balances)
    BY DEF TypeOK, ViewsAddUp, ValidSheet
  <1>2. ASSUME NEW a \in Accounts, NEW alloc \in GenesisAllocations, deploy_token(a, alloc)
        PROVE  ValidSheet(balances')
    BY <1>2, DeployValid
  <1>3. CASE BuyerPays
    <2>1. QuoteKey \in Keys /\ quote_with_fee \in Int
      BY <1>3, FillFacts DEF BuyerPays, ApplyPcs
    <2>2. QED
      BY <1>1, <1>3, <2>1, SheetOperations DEF BuyerPays, CanDebitCore
  <1>4. CASE BuyerReceives
    <2>1. BaseKeyOfBuyer \in Keys /\ fill.base_size \in Nat
      BY <1>4, FillFacts DEF BuyerReceives, ApplyPcs
    <2>2. QED
      BY <1>1, <1>4, <2>1, SheetOperations DEF BuyerReceives
  <1>5. CASE SellerPays
    <2>1. BaseKeyOfSeller \in Keys /\ fill.base_size \in Nat
      BY <1>5, FillFacts DEF SellerPays, ApplyPcs
    <2>2. QED
      BY <1>1, <1>5, <2>1, SheetOperations DEF SellerPays, CanDebitCore
  <1>6. CASE SellerReceives
    <2>1. <<seller, USDC>> \in Keys /\ seller_receives \in Int
      BY <1>6, FillFacts DEF SellerReceives, ApplyPcs
    <2>2. QED
      BY <1>1, <1>6, <2>1, SheetOperations DEF SellerReceives
  <1>7. ASSUME NEW k \in Keys, NEW amount \in Amounts, NEW d \in BOOLEAN,
               view_transfer(k, amount, d) \/ evm_action(k, amount, d)
        PROVE  ValidSheet(balances')
    BY <1>1, <1>7, SheetOperations, RequestAssumption DEF view_transfer, evm_action, CanDebitCore, CanDebitEvm
  <1>8. ASSUME NEW a \in Accounts, NEW b \in Accounts, NEW amount \in Amounts,
               usd_transfer(a, b, amount)
        PROVE  ValidSheet(balances')
    BY <1>1, <1>8, TransferCoreValid, KeyFacts, RequestAssumption DEF usd_transfer
  <1>9. ASSUME NEW a \in Accounts, NEW amount \in Amounts, NEW pays \in BOOLEAN,
               withdraw(a, amount) \/ perp_settle(a, amount, pays)
        PROVE  ValidSheet(balances')
    <2>1. <<a, USDC>> \in Keys /\ amount \in Int
      BY KeyFacts, RequestAssumption
    <2>2. QED
      BY <1>1, <1>9, <2>1, SheetOperations DEF withdraw, perp_settle, CanDebitCore
  <1>10. ASSUME NEW a \in Accounts, NEW m \in Markets, NEW side \in Sides,
                NEW price \in Prices, NEW size \in Sizes, NEW tif \in TIFs,
                PlaceOrder(a, m, side, price, size, tif)
         PROVE  ValidSheet(balances')
    BY <1>1, <1>10 DEF PlaceOrder
  <1>11. ASSUME NEW i \in OrderIds, MatchMaker(i)
         PROVE  ValidSheet(balances')
    BY <1>1, <1>11 DEF MatchMaker
  <1>12. CASE SyncMakers \/ FinishOrder \/ CancelNext
    BY <1>1, <1>12 DEF SyncMakers, FinishOrder, CancelNext
  <1>13. ASSUME NEW a \in Accounts, NEW m \in Markets, NEW id \in OrderIds,
                cancel_order(a, m, id)
         PROVE  ValidSheet(balances')
    BY <1>1, <1>13 DEF cancel_order
  <1>14. ASSUME NEW a \in Accounts, NEW m \in Markets, cancel_all_orders(a, m)
         PROVE  ValidSheet(balances')
    BY <1>1, <1>14 DEF cancel_all_orders
  <1>15. CASE UNCHANGED vars
    BY <1>1, <1>15 DEF vars
  <1>16. CASE EngineNext
    BY <1>16, <1>2, <1>3, <1>4, <1>5, <1>6, <1>7, <1>10, <1>11, <1>12, <1>13, <1>14
       DEF EngineNext, PlaceOrderStep
  <1>17. ASSUME NEW a \in Accounts, NEW balance \in Amounts, set_balance(a, balance)
         PROVE  ValidSheet(balances')
    <2>1. <<a, USDC>> \in Keys /\ balance \in Int
      BY KeyFacts, RequestAssumption
    <2>2. QED
      BY <1>1, <1>17, <2>1, EvmOperations DEF set_balance
  <1>18. CASE ExternalNext
    BY <1>18, <1>7, <1>8, <1>9, <1>17 DEF ExternalNext
  <1>19. QED
    BY <1>15, <1>16, <1>18 DEF Next

-----------------------------------------------------------------------------
(* Every other variable keeps its type. *)

\* Inserting into and removing from an order map yields an order map.
LEMMA OrderMapOperations ==
    ASSUME NEW f, IsOrderMap(f)
    PROVE  /\ \A id \in OrderIds, o \in Order : IsOrderMap(Insert(f, id, o))
           /\ \A ids : IsOrderMap(RemoveFrom(f, ids))
  BY DEF IsOrderMap, Insert, RemoveFrom, Restrict

\* release_balance yields an integer; giving back a positive amount leaves
\* neither more than there was nor less than nothing.
LEMMA ReleasedIs ==
    ASSUME NEW r \in Int, NEW amount \in Int
    PROVE  /\ Released(r, amount) \in Int
           /\ amount >= 0 /\ r >= 0 => Released(r, amount) <= r
           /\ r >= 0 => Released(r, amount) >= 0
           /\ amount <= r => Released(r, amount) = r - amount
  BY DEF Released

\* What EndCall leaves behind is well typed.
LEMMA EndCallType ==
    ASSUME EndCall
    PROVE  /\ pc' = "idle" /\ fills' = <<>> /\ fills' \in Seq(SpotFill)
           /\ filled_makers' \in SUBSET OrderIds
           /\ DOMAIN partial_makers' \subseteq OrderIds
           /\ partial_makers' \in [DOMAIN partial_makers' -> Nat]
           /\ todo' \in SUBSET (Markets \X OrderIds)
  BY DEF EndCall, EmptyMap

\* Counting a request keeps within the bound.
LEMMA CountedType ==
    ASSUME TypeOK, NEW positive, Counted(positive)
    PROVE  /\ unchecked' \in 0..MaxDisturbances /\ unchecked' >= unchecked
           /\ unchecked' = 0 => unchecked = 0 /\ positive
  <1>1. unchecked \in 0..MaxDisturbances /\ external_ops \in 0..MaxDisturbances
    BY DEF TypeOK
  <1>2. CASE positive /\ UNCHANGED unchecked
    BY <1>1, <1>2
  <1>3. CASE ~positive /\ MayDisturb /\ unchecked' = unchecked + 1
    BY <1>1, <1>3, BoundsAssumption DEF MayDisturb
  <1>4. QED
    BY <1>2, <1>3 DEF Counted

\* In a run without unchecked requests every amount is positive.
LEMMA AmountPositive ==
    ASSUME TypeOK, NEW amount \in Amounts, Counted(amount > 0), unchecked' = 0
    PROVE  amount \in Nat /\ amount > 0
  <1>1. unchecked \in 0..MaxDisturbances
    BY DEF TypeOK
  <1>2. amount > 0
    BY <1>1, BoundsAssumption, SMTT(40) DEF Counted
  <1>3. amount \in Int
    BY RequestAssumption, SMTT(40)
  <1>4. QED
    BY <1>2, <1>3

\* One iteration of the matching loop keeps the types.
LEMMA MatchMakerType ==
    ASSUME TypeOK, NEW i \in OrderIds, MatchMaker(i), IsBalanceSheet(balances')
    PROVE  TypeOK'
  <1> DEFINE m == taker.market
             maker == book[m][i]
             size == IF taker.remaining <= maker.remaining
                     THEN taker.remaining ELSE maker.remaining
             quote == Notional(size, maker.price)
  <1>1. taker \in TakerOrder /\ m \in Markets /\ taker.remaining \in Nat
    BY SMTT(40) DEF TypeOK, MatchMaker, TakerOrder
  <1>2. maker \in Order /\ maker.remaining \in Nat /\ maker.price \in Int
        /\ maker.owner \in Accounts
    BY <1>1 DEF TypeOK, MatchMaker, Matchable, IsBest, Resting, IsOrderMap, Order
  <1>3. size \in Nat /\ size <= taker.remaining /\ size <= maker.remaining
    BY <1>1, <1>2
  <1>4. quote \in Int /\ ToUsdc(quote) \in Int
    BY <1>2, <1>3, Conversions
  <1> HIDE DEF size, quote
  <1>5. fills' \in Seq(SpotFill)
    <2>1. [maker |-> maker.owner, maker_id |-> i, price |-> maker.price,
           base_size |-> size, quote_size |-> quote] \in SpotFill
      BY <1>2, <1>3, <1>4 DEF SpotFill
    <2>2. QED
      BY <2>1 DEF TypeOK, MatchMaker, size, quote
  <1>6. taker' \in TakerOrder
    <2>1. taker.remaining - size \in Nat
      BY <1>1, <1>3
    <2>2. [taker EXCEPT !.remaining = @ - size] \in TakerOrder
      BY <1>1, <2>1 DEF TakerOrder
    <2>3. taker.filled_reserve + (IF taker.side = "Buy" THEN ToUsdc(quote) ELSE size) \in Int
      BY <1>1, <1>3, <1>4 DEF TakerOrder
    <2>4. taker' = [[taker EXCEPT !.remaining = @ - size] EXCEPT !.filled_reserve =
                      taker.filled_reserve
                        + (IF taker.side = "Buy" THEN ToUsdc(quote) ELSE size)]
      BY <1>1 DEF MatchMaker, size, quote, TakerOrder
    <2>5. QED
      BY <2>2, <2>3, <2>4 DEF TakerOrder
  <1>7. /\ DOMAIN book' = Markets /\ \A x \in Markets : IsOrderMap(book'[x])
        /\ filled_makers' \in SUBSET OrderIds
        /\ DOMAIN partial_makers' \subseteq OrderIds
        /\ partial_makers' \in [DOMAIN partial_makers' -> Nat]
    <2>1. CASE maker.remaining <= size
      <3>1. /\ book' = [book EXCEPT ![m] = RemoveFrom(@, {i})]
            /\ filled_makers' = filled_makers \cup {i}
            /\ partial_makers' = partial_makers
        BY <2>1 DEF MatchMaker, MakerFilled, size
      <3>2. QED
        BY <3>1, <1>1, OrderMapOperations DEF TypeOK
    <2>2. CASE ~(maker.remaining <= size)
      <3>1. /\ book' = [book EXCEPT ![m] = Insert(@, i, [maker EXCEPT !.remaining = @ - size])]
            /\ partial_makers' = Insert(partial_makers, i, maker.remaining - size)
            /\ filled_makers' = filled_makers
        BY <2>2 DEF MatchMaker, MakerFilled, size
      <3>2. maker.remaining - size \in Nat
        BY <1>2, <1>3
      <3>3. [maker EXCEPT !.remaining = @ - size] \in Order
        BY <1>2, <3>2 DEF Order
      <3>4. /\ DOMAIN book' = Markets /\ \A x \in Markets : IsOrderMap(book'[x])
        BY <3>1, <3>3, <1>1, OrderMapOperations DEF TypeOK
      <3>5. /\ DOMAIN partial_makers' \subseteq OrderIds
            /\ partial_makers' \in [DOMAIN partial_makers' -> Nat]
        BY <3>1, <3>2 DEF TypeOK, Insert
      <3>6. QED
        BY <3>1, <3>4, <3>5 DEF TypeOK
    <2>3. QED
      BY <2>1, <2>2
  <1>8. QED
    BY <1>5, <1>6, <1>7 DEF TypeOK, MatchMaker

\* Accepting an order keeps the types.
LEMMA PlaceOrderType ==
    ASSUME TypeOK, IsBalanceSheet(balances'),
           NEW a \in Accounts, NEW m \in Markets, NEW side \in Sides,
           NEW price \in Prices, NEW size \in Sizes, NEW tif \in TIFs,
           PlaceOrder(a, m, side, price, size, tif)
    PROVE  TypeOK'
  <1> DEFINE amount == reserve_amount(side, size, price)
             k == <<a, reserve_token(side, m)>>
  <1>1. size \in Nat /\ price \in Int /\ amount \in Int /\ k \in Keys
    <2>1. validate_order(price, size) /\ size \in Int /\ price \in Int
      BY RequestAssumption DEF PlaceOrder
    <2>2. QED
      BY <2>1, ValidSizePositive, Conversions, KeyFacts
  <1>2. reserved' = [reserved EXCEPT ![k] = @ + amount]
    BY DEF PlaceOrder
  <1>3. reserved' \in [Keys -> Int]
    BY <1>1, <1>2 DEF TypeOK
  <1>4. taker' \in TakerOrder
    BY <1>1 DEF PlaceOrder, TakerOrder
  <1>5. next_order_id' \in 1..(MaxOrders + 1)
    BY BoundsAssumption DEF PlaceOrder, OrderIds
  <1>6. unchecked' \in 0..MaxDisturbances
    <2>1. Counted(price > 0)
      BY DEF PlaceOrder
    <2>2. QED
      BY <2>1, CountedType
  <1>7. QED
    BY <1>3, <1>4, <1>5, <1>6 DEF PlaceOrder, TypeOK

\* Writing the matched makers back to the orders map keeps the types.
LEMMA SyncMakersType ==
    ASSUME TypeOK, IsBalanceSheet(balances'), SyncMakers
    PROVE  TypeOK'
  <1> DEFINE m == taker.market
             kept == RemoveFrom(orders[m], filled_makers)
             synced == SyncedOrders(m)
  <1>1. m \in Markets
    BY DEF TypeOK, SyncMakers, TakerOrder
  <1>2. IsOrderMap(kept)
    BY <1>1, OrderMapOperations DEF TypeOK
  <1>3. IsOrderMap(synced)
    <2>1. ASSUME NEW i \in DOMAIN kept PROVE synced[i] \in Order
      <3>1. kept[i] \in Order
        BY <1>2 DEF IsOrderMap
      <3>2. CASE i \in DOMAIN partial_makers
        <4>1. partial_makers[i] \in Nat
          BY <3>2 DEF TypeOK
        <4>2. QED
          BY <3>1, <3>2, <4>1 DEF Order, SyncedOrders
      <3>3. CASE i \notin DOMAIN partial_makers
        BY <3>1, <3>3 DEF SyncedOrders
      <3>4. QED
        BY <3>2, <3>3
    <2>2. QED
      BY <1>2, <2>1 DEF IsOrderMap, SyncedOrders
  <1>4. orders' = [orders EXCEPT ![m] = synced]
    BY DEF SyncMakers
  <1> HIDE DEF synced, kept
  <1>5. DOMAIN orders' = Markets /\ \A x \in Markets : IsOrderMap(orders'[x])
    BY <1>1, <1>3, <1>4 DEF TypeOK
  <1>6. account_orders' \in [Accounts -> [Markets -> SUBSET OrderIds]]
    BY <1>1 DEF TypeOK, SyncMakers
  <1>7. /\ filled_makers' \in SUBSET OrderIds
        /\ DOMAIN partial_makers' \subseteq OrderIds
        /\ partial_makers' \in [DOMAIN partial_makers' -> Nat]
    BY DEF SyncMakers, EmptyMap
  <1>8. QED
    BY <1>5, <1>6, <1>7 DEF TypeOK, SyncMakers

\* The four balance writes of a fill, and the early returns between them, keep
\* the types.
LEMMA ApplyFillType ==
    ASSUME TypeOK, IsBalanceSheet(balances'),
           BuyerPays \/ BuyerReceives \/ SellerPays \/ SellerReceives
    PROVE  TypeOK'
  <1>1. pc \in ApplyPcs
    BY DEF ApplyPcs, BuyerPays, BuyerReceives, SellerPays, SellerReceives
  <1>2. CASE BuyerPays
    <2>1. reserved' \in [Keys -> Int]
      <3>1. PICK q \in Int, z \in Int : q = quote_with_fee /\ z = fill.base_size
        BY <1>1, FillFacts
      <3>2. QuoteKey \in Keys /\ BaseKeyOfSeller \in Keys /\ QuoteKey # BaseKeyOfSeller
        BY <1>1, FillFacts
      <3>3. reserved' = [reserved EXCEPT ![QuoteKey] = Released(@, q),
                                         ![BaseKeyOfSeller] = Released(@, z)]
        BY <1>2, <3>1 DEF BuyerPays, ReleaseBoth
      <3>4. QED
        BY <3>2, <3>3, ReleasedIs DEF TypeOK
    <2>2. CASE EndCall
      BY <1>2, <2>1, <2>2, EndCallType DEF BuyerPays, TypeOK, bookVars
    <2>3. CASE UNCHANGED <<taker, fills, filled_makers, partial_makers, todo>>
               /\ pc' = "buyer_receives"
      BY <1>2, <2>1, <2>3 DEF BuyerPays, TypeOK, bookVars
    <2>4. QED
      BY <1>2, <2>2, <2>3 DEF BuyerPays
  <1>3. CASE BuyerReceives
    BY <1>3 DEF BuyerReceives, TypeOK, bookVars
  <1>4. CASE SellerPays
    <2>1. CASE EndCall
      BY <1>4, <2>1, EndCallType DEF SellerPays, TypeOK, bookVars
    <2>2. CASE UNCHANGED <<taker, fills, filled_makers, partial_makers, todo>>
               /\ pc' = "seller_receives"
      BY <1>4, <2>2 DEF SellerPays, TypeOK, bookVars
    <2>3. QED
      BY <1>4, <2>1, <2>2 DEF SellerPays
  <1>5. CASE SellerReceives
    <2>1. fills # <<>> /\ fills \in Seq(SpotFill)
      BY <1>5 DEF SellerReceives, TypeOK
    <2>2. Tail(fills) \in Seq(SpotFill) /\ (Len(fills) # 1 => Tail(fills) # <<>>)
      <3>1. Tail(fills) \in Seq(SpotFill)
        BY <2>1
      <3>2. Len(fills) \in Nat /\ Len(fills) # 0
        BY <2>1, EmptySeq, LenProperties
      <3>3. Len(Tail(fills)) = Len(fills) - 1
        BY <2>1, HeadTailProperties
      <3>4. Len(<<>>) = 0
        OBVIOUS
      <3>5. QED
        BY <3>1, <3>2, <3>3, <3>4
    <2>3. fills' \in Seq(SpotFill) /\ (pc' # "finish" => fills' # <<>>)
      BY <1>5, <2>2 DEF SellerReceives
    <2>4. pc' \in {"finish", "buyer_pays"}
      BY <1>5 DEF SellerReceives
    <2>5. taker' \in TakerOrder
      BY <1>5 DEF SellerReceives, TypeOK
    <2>6. QED
      BY <1>5, <2>3, <2>4, <2>5 DEF SellerReceives, TypeOK, bookVars
  <1>6. QED
    BY <1>2, <1>3, <1>4, <1>5

\* Resting or dropping the order keeps the types.
LEMMA FinishOrderType ==
    ASSUME TypeOK, IsBalanceSheet(balances'), FinishOrder
    PROVE  TypeOK'
  <1> DEFINE m == taker.market
             k == <<taker.owner, reserve_token(taker.side, m)>>
             rests == taker.remaining > 0 /\ should_rest(taker.tif)
             dropped == taker.remaining > 0 /\ ~should_rest(taker.tif)
  <1>1. taker \in TakerOrder
    BY DEF TypeOK, FinishOrder
  <1>2. /\ m \in Markets /\ taker.id \in OrderIds /\ taker.owner \in Accounts
        /\ RestingOrder(taker) \in Order /\ k \in Keys
    BY <1>1, KeyFacts DEF TakerOrder, RestingOrder, Order
  <1>3. remaining_reserve \in Nat
    BY <1>1 DEF remaining_reserve, TakerOrder
  <1>4. IsOrderMap(Insert(orders[m], taker.id, RestingOrder(taker)))
        /\ IsOrderMap(Insert(book[m], taker.id, RestingOrder(taker)))
    BY <1>2, OrderMapOperations DEF TypeOK
  <1>5. DOMAIN orders' = Markets /\ \A x \in Markets : IsOrderMap(orders'[x])
    BY <1>2, <1>4 DEF TypeOK, FinishOrder
  <1>6. DOMAIN book' = Markets /\ \A x \in Markets : IsOrderMap(book'[x])
    BY <1>2, <1>4 DEF TypeOK, FinishOrder
  <1>7. account_orders' \in [Accounts -> [Markets -> SUBSET OrderIds]]
    BY <1>2 DEF TypeOK, FinishOrder
  <1>8. reserved' \in [Keys -> Int]
    <2>1. reserved' = IF dropped THEN [reserved EXCEPT ![k] = Released(@, remaining_reserve)]
                      ELSE reserved
      BY DEF FinishOrder
    <2>2. QED
      BY <1>2, <1>3, <2>1, ReleasedIs DEF TypeOK
  <1>9. EndCall
    BY DEF FinishOrder
  <1>10. QED
    BY <1>5, <1>6, <1>7, <1>8, <1>9, EndCallType DEF TypeOK, FinishOrder

\* Cancelling one order or all orders of an account keeps the types.
LEMMA CancelType ==
    ASSUME TypeOK, NEW m \in Markets, NEW id \in DOMAIN orders[m], Cancel(m, id)
    PROVE  /\ reserved' \in [Keys -> Int]
           /\ DOMAIN orders' = Markets /\ \A x \in Markets : IsOrderMap(orders'[x])
           /\ DOMAIN book' = Markets /\ \A x \in Markets : IsOrderMap(book'[x])
           /\ account_orders' \in [Accounts -> [Markets -> SUBSET OrderIds]]
  <1> DEFINE o == orders[m][id]
             k == <<o.owner, reserve_token(o.side, m)>>
             amount == reserve_amount(o.side, o.remaining, o.price)
  <1>1. o \in Order
    BY DEF TypeOK, IsOrderMap
  <1>2. /\ o.owner \in Accounts /\ o.side \in Sides /\ o.remaining \in Nat
        /\ o.price \in Int
    BY <1>1 DEF Order
  <1>3. k \in Keys /\ amount \in Int
    BY <1>2, KeyFacts, Conversions
  <1>4. reserved' \in [Keys -> Int]
    <2>1. reserved' = [reserved EXCEPT ![k] = Released(@, amount)]
      BY DEF Cancel
    <2>2. QED
      BY <1>3, <2>1, ReleasedIs DEF TypeOK
  <1>5. DOMAIN orders' = Markets /\ \A x \in Markets : IsOrderMap(orders'[x])
    BY OrderMapOperations DEF TypeOK, Cancel
  <1>6. DOMAIN book' = Markets /\ \A x \in Markets : IsOrderMap(book'[x])
    BY OrderMapOperations DEF TypeOK, Cancel
  <1>7. account_orders' \in [Accounts -> [Markets -> SUBSET OrderIds]]
    BY <1>2 DEF TypeOK, Cancel
  <1>8. QED
    BY <1>4, <1>5, <1>6, <1>7

\* The orders a sweep still has to cancel are there to be cancelled.
SweepInv ==
    /\ pc # "cancel_all" => todo = {}
    /\ \A x \in todo : x[2] \in DOMAIN orders[x[1]]

TypeInv == TypeOK /\ ViewsAddUp /\ SweepInv

\* The other writers leave the engine's own state alone.
LEMMA ExternalFrame ==
    ASSUME TypeOK, ExternalNext
    PROVE  /\ external_ops' = external_ops + 1
           /\ external_ops' \in 0..MaxDisturbances /\ unchecked' \in 0..MaxDisturbances
           /\ unchecked' >= unchecked
           /\ UNCHANGED <<reserved, bookVars, next_token_index, callVars>>
  <1>1. External /\ (UNCHANGED unchecked \/ \E amount \in Amounts : Counted(amount > 0))
    BY DEF ExternalNext, usd_transfer, withdraw, evm_action, set_balance, perp_settle
  <1>2. \/ UNCHANGED unchecked
        \/ unchecked' \in 0..MaxDisturbances /\ unchecked' >= unchecked
    BY <1>1, CountedType
  <1>3. external_ops' = external_ops + 1 /\ external_ops' \in 0..MaxDisturbances
    BY <1>1, BoundsAssumption DEF External, MayDisturb, TypeOK
  <1>4. unchecked \in 0..MaxDisturbances
    BY DEF TypeOK
  <1>5. QED
    BY <1>1, <1>2, <1>3, <1>4 DEF External

\* Every step keeps the types.
LEMMA TypeStep ==
    ASSUME TypeOK, ViewsAddUp, SweepInv, [Next]_vars
    PROVE  TypeOK' /\ ViewsAddUp'
  <1>1. IsBalanceSheet(balances') /\ ViewsAddUp'
    BY SheetStep DEF ValidSheet, ViewsAddUp
  <1>2. ASSUME NEW a \in Accounts, NEW alloc \in GenesisAllocations, deploy_token(a, alloc)
        PROVE  TypeOK'
    BY <1>1, <1>2, TokensAssumption DEF deploy_token, TypeOK, bookVars, callVars
  <1>3. ASSUME NEW a \in Accounts, NEW m \in Markets, NEW side \in Sides,
               NEW price \in Prices, NEW size \in Sizes, NEW tif \in TIFs,
               PlaceOrder(a, m, side, price, size, tif)
        PROVE  TypeOK'
    BY <1>1, <1>3, PlaceOrderType
  <1>4. CASE PlaceOrderStep
    BY <1>1, <1>4, MatchMakerType, SyncMakersType, ApplyFillType, FinishOrderType
       DEF PlaceOrderStep
  <1>5. ASSUME NEW a \in Accounts, NEW m \in Markets, NEW id \in OrderIds,
               cancel_order(a, m, id)
        PROVE  TypeOK'
    BY <1>1, <1>5, CancelType DEF cancel_order, TypeOK, callVars
  <1>6. ASSUME NEW a \in Accounts, NEW m \in Markets, cancel_all_orders(a, m)
        PROVE  TypeOK'
    BY <1>1, <1>6 DEF cancel_all_orders, TypeOK, bookVars
  <1>7. CASE CancelNext
    <2>1. PICK x \in todo : Cancel(x[1], x[2]) /\ todo' = todo \ {x}
      BY <1>7 DEF CancelNext
    <2>2. /\ x[1] \in Markets /\ x[2] \in DOMAIN orders[x[1]]
          /\ todo' \in SUBSET (Markets \X OrderIds)
      BY <2>1 DEF TypeOK, SweepInv
    <2>3. QED
      BY <1>1, <1>7, <2>1, <2>2, CancelType DEF CancelNext, TypeOK
  <1>8. ASSUME NEW k \in Keys, NEW amount \in Amounts, NEW d \in BOOLEAN,
               view_transfer(k, amount, d)
        PROVE  TypeOK'
    <2>1. unchecked' \in 0..MaxDisturbances
      BY <1>8, CountedType DEF view_transfer
    <2>2. QED
      BY <1>1, <1>8, <2>1 DEF view_transfer, TypeOK, bookVars, callVars
  <1>9. CASE ExternalNext
    BY <1>1, <1>9, ExternalFrame DEF TypeOK, bookVars, callVars
  <1>10. CASE UNCHANGED vars
    BY <1>1, <1>10 DEF vars, bookVars, callVars, TypeOK
  <1>11. CASE EngineNext
    BY <1>11, <1>1, <1>2, <1>3, <1>4, <1>5, <1>6, <1>7, <1>8 DEF EngineNext
  <1>12. QED
    BY <1>1, <1>9, <1>10, <1>11 DEF Next

\* cancel_all_orders works on orders that exist: nothing else runs while it
\* does.
LEMMA SweepStep ==
    ASSUME TypeOK, SweepInv, [Next]_vars
    PROVE  SweepInv'
  <1>1. CASE CancelNext
    <2>1. PICK x \in todo : Cancel(x[1], x[2]) /\ todo' = todo \ {x}
      BY <1>1 DEF CancelNext
    <2>2. pc' # "cancel_all" => todo' = {}
      BY <1>1 DEF CancelNext
    <2>3. ASSUME NEW y \in todo' PROVE y[2] \in DOMAIN orders'[y[1]]
      <3>1. /\ y \in todo /\ y # x
            /\ x \in Markets \X OrderIds /\ y \in Markets \X OrderIds
            /\ y[2] \in DOMAIN orders[y[1]]
        <4>1. /\ todo \in SUBSET (Markets \X OrderIds)
              /\ \A z \in todo : z[2] \in DOMAIN orders[z[1]]
          BY DEF SweepInv, TypeOK
        <4>2. y \in todo /\ y # x
          BY <2>1, <2>3
        <4>3. QED
          BY <4>1, <4>2
      <3>2. y[1] # x[1] \/ y[2] # x[2]
        BY <3>1
      <3>3. orders' = [orders EXCEPT ![x[1]] = RemoveFrom(@, {x[2]})]
        BY <2>1, Zenon DEF Cancel
      <3>4. CASE y[1] = x[1]
        BY <3>1, <3>2, <3>3, <3>4 DEF TypeOK, RemoveFrom, Restrict
      <3>5. CASE y[1] # x[1]
        BY <3>1, <3>3, <3>5 DEF TypeOK
      <3>6. QED
        BY <3>4, <3>5
    <2>4. QED
      BY <2>2, <2>3 DEF SweepInv
  <1>2. ASSUME NEW a \in Accounts, NEW m \in Markets, cancel_all_orders(a, m)
        PROVE  SweepInv'
    BY <1>2 DEF cancel_all_orders, SweepInv, bookVars
  <1>3. CASE todo = {} /\ todo' = {}
    BY <1>3 DEF SweepInv
  <1>4. CASE UNCHANGED <<todo, pc, orders>>
    BY <1>4 DEF SweepInv
  <1>5. CASE PlaceOrderStep
    <2>1. pc \in {"match", "buyer_pays", "buyer_receives", "seller_pays",
                  "seller_receives", "finish"}
      BY <1>5, Zenon DEF PlaceOrderStep, MatchMaker, SyncMakers, BuyerPays,
                  BuyerReceives, SellerPays, SellerReceives, FinishOrder
    <2>2. todo = {}
      BY <2>1 DEF SweepInv
    <2>3. todo' = {}
      BY <1>5, <2>2, Zenon DEF PlaceOrderStep, MatchMaker, SyncMakers, BuyerPays,
                  BuyerReceives, SellerPays, SellerReceives, FinishOrder, EndCall
    <2>4. QED
      BY <1>3, <2>2, <2>3, Zenon
  <1>6. ASSUME NEW a \in Accounts, NEW alloc \in GenesisAllocations, deploy_token(a, alloc)
        PROVE  SweepInv'
    BY <1>4, <1>6 DEF deploy_token, callVars, bookVars
  <1>7. ASSUME NEW a \in Accounts, NEW m \in Markets, NEW side \in Sides,
               NEW price \in Prices, NEW size \in Sizes, NEW tif \in TIFs,
               PlaceOrder(a, m, side, price, size, tif)
        PROVE  SweepInv'
    BY <1>7 DEF PlaceOrder, SweepInv
  <1>8. ASSUME NEW a \in Accounts, NEW m \in Markets, NEW id \in OrderIds,
               cancel_order(a, m, id)
        PROVE  SweepInv'
    BY <1>3, <1>8 DEF cancel_order, SweepInv, callVars
  <1>9. ASSUME NEW k \in Keys, NEW amount \in Amounts, NEW d \in BOOLEAN,
               view_transfer(k, amount, d)
        PROVE  SweepInv'
    BY <1>4, <1>9 DEF view_transfer, callVars, bookVars
  <1>10. CASE EngineNext
    BY <1>10, <1>1, <1>2, <1>5, <1>6, <1>7, <1>8, <1>9 DEF EngineNext
  <1>11. CASE ExternalNext
    BY <1>4, <1>11, ExternalFrame DEF callVars, bookVars
  <1>12. CASE UNCHANGED vars
    BY <1>4, <1>12 DEF vars, callVars, bookVars
  <1>13. QED
    BY <1>10, <1>11, <1>12 DEF Next

\* The initial state has the types and an empty sweep.
LEMMA InitType ==
    ASSUME Init
    PROVE  TypeInv
  <1>1. ValidSheet(balances)
    BY BoundsAssumption, KeyFacts
       DEF Init, ValidSheet, IsBalanceSheet, verify_invariants, UnifiedBalance, Views, Keys
  <1>2. IsOrderMap(EmptyMap)
    BY DEF IsOrderMap, EmptyMap
  <1>3. TypeOK
    BY <1>1, <1>2, BoundsAssumption, TokensAssumption
       DEF Init, TypeOK, ValidSheet, EmptyMap, Keys
  <1>4. SweepInv
    BY DEF Init, SweepInv
  <1>5. QED
    BY <1>1, <1>3, <1>4 DEF TypeInv, ValidSheet, ViewsAddUp

\* Whatever the constants and however the other writers of the balance sheet
\* interleave with the steps of a call (unified_state.rs, spot_engine.rs):
\* every variable keeps its type and each entry's total is the sum of its two
\* views, also for requests that carry a negative price or amount.
THEOREM SheetAlwaysValid == Spec => [](TypeOK /\ ViewsAddUp)
  <1>1. Init => TypeInv
    BY InitType
  <1>2. TypeInv /\ [Next]_vars => TypeInv'
    BY TypeStep, SweepStep DEF TypeInv
  <1>3. TypeInv => TypeOK /\ ViewsAddUp
    BY DEF TypeInv
  <1>4. QED
    BY <1>1, <1>2, <1>3, PTL DEF Spec

-----------------------------------------------------------------------------
(* Nothing becomes negative as long as requests are positive. *)

PositiveSheet(b) == \A k \in DOMAIN b : b[k].core_view >= 0 /\ b[k].evm_view >= 0

PositivePrices(f) == \A i \in DOMAIN f : f[i].price >= 0

\* Prices of orders and the quote of a fill decide the sign of what is released,
\* paid and received, so they belong to the invariant.
Positive ==
    /\ PositiveSheet(balances)
    /\ \A k \in Keys : reserved[k] >= 0
    /\ \A m \in Markets : PositivePrices(orders[m]) /\ PositivePrices(book[m])
    /\ pc \notin {"idle", "cancel_all"} => taker.price >= 0
    /\ \A i \in 1..Len(fills) : fills[i].quote_size >= 0

PositiveInv == unchecked = 0 => Positive

\* A positive amount that a debit has been checked for leaves no view negative.
LEMMA PositiveOperations ==
    ASSUME NEW b, ValidSheet(b), PositiveSheet(b), NEW k \in Keys, NEW amount \in Nat
    PROVE  /\ PositiveSheet(credit(b, k, amount))
           /\ PositiveSheet(credit_evm(b, k, amount))
           /\ CanDebitCore(b, k, amount) =>
                /\ PositiveSheet(debit_core(b, k, amount))
                /\ PositiveSheet(transfer_to_evm_view(b, k, amount))
           /\ CanDebitEvm(b, k, amount) =>
                /\ PositiveSheet(debit_evm(b, k, amount))
                /\ PositiveSheet(transfer_to_core_view(b, k, amount))
  <1>1. PICK e : e = get_balance_or_default(b, k)
    OBVIOUS
  <1>2. e \in UnifiedBalance /\ e.core_view \in Int /\ e.evm_view \in Int
    BY <1>1, EntryValid DEF UnifiedBalance
  <1>3. e.core_view >= 0 /\ e.evm_view >= 0
    BY <1>1 DEF PositiveSheet, get_balance_or_default, ZeroBalance, Views
  <1>4. k \in DOMAIN b => b[k] = e
    BY <1>1 DEF get_balance_or_default
  <1>5. \A v : v.core_view >= 0 /\ v.evm_view >= 0 => PositiveSheet(Insert(b, k, v))
    BY DEF PositiveSheet, Insert
  <1>6. /\ PositiveSheet(credit(b, k, amount)) /\ PositiveSheet(credit_evm(b, k, amount))
    <2>1. /\ AddCore(e, amount).core_view >= 0 /\ AddCore(e, amount).evm_view >= 0
          /\ AddEvm(e, amount).core_view >= 0 /\ AddEvm(e, amount).evm_view >= 0
      BY <1>2, <1>3 DEF AddCore, AddEvm, Views
    <2>2. QED
      BY <1>1, <1>5, <2>1 DEF credit, credit_evm
  <1>7. ASSUME CanDebitCore(b, k, amount)
        PROVE  /\ PositiveSheet(debit_core(b, k, amount))
               /\ PositiveSheet(transfer_to_evm_view(b, k, amount))
    <2>1. b[k] = e /\ e.core_view >= amount
      BY <1>4, <1>7 DEF CanDebitCore
    <2>2. /\ AddCore(e, -amount).core_view >= 0 /\ AddCore(e, -amount).evm_view >= 0
          /\ MoveToEvm(e, amount).core_view >= 0 /\ MoveToEvm(e, amount).evm_view >= 0
      BY <1>2, <1>3, <2>1 DEF AddCore, MoveToEvm, Views
    <2>3. QED
      BY <1>5, <2>1, <2>2 DEF debit_core, transfer_to_evm_view
  <1>8. ASSUME CanDebitEvm(b, k, amount)
        PROVE  /\ PositiveSheet(debit_evm(b, k, amount))
               /\ PositiveSheet(transfer_to_core_view(b, k, amount))
    <2>1. b[k] = e /\ e.evm_view >= amount
      BY <1>4, <1>8 DEF CanDebitEvm
    <2>2. /\ AddEvm(e, -amount).core_view >= 0 /\ AddEvm(e, -amount).evm_view >= 0
          /\ MoveToEvm(e, -amount).core_view >= 0 /\ MoveToEvm(e, -amount).evm_view >= 0
      BY <1>2, <1>3, <2>1 DEF AddEvm, MoveToEvm, Views
    <2>3. QED
      BY <1>5, <2>1, <2>2 DEF debit_evm, transfer_to_core_view
  <1>9. QED
    BY <1>6, <1>7, <1>8

\* The other writers: a checked transfer, withdrawal or settlement of a positive
\* amount, and an EVM balance that is set to a positive value.
LEMMA ExternalPositive ==
    ASSUME TypeOK, ViewsAddUp, Positive, ExternalNext, unchecked' = 0
    PROVE  PositiveSheet(balances')
  <1>1. ValidSheet(balances) /\ PositiveSheet(balances)
    BY DEF TypeOK, ViewsAddUp, ValidSheet, Positive
  <1>2. ASSUME NEW a \in Accounts, NEW b \in Accounts, NEW amount \in Amounts,
               usd_transfer(a, b, amount)
        PROVE  PositiveSheet(balances')
    <2>1. amount \in Nat /\ amount > 0 /\ <<a, USDC>> \in Keys /\ <<b, USDC>> \in Keys
      BY <1>2, AmountPositive, KeyFacts DEF usd_transfer
    <2>2. /\ get_core_view(balances, <<a, USDC>>) >= amount
          /\ balances' = transfer_core(balances, <<a, USDC>>, <<b, USDC>>, amount)
      BY <1>2 DEF usd_transfer
    <2>3. CanDebitCore(balances, <<a, USDC>>, amount)
      BY <2>1, <2>2 DEF CanDebitCore, get_core_view, get_balance_or_default, ZeroBalance, Views
    <2>4. /\ ValidSheet(debit_core(balances, <<a, USDC>>, amount))
          /\ PositiveSheet(debit_core(balances, <<a, USDC>>, amount))
      BY <1>1, <2>1, <2>3, PositiveOperations, SheetOperations, SMTT(40) DEF CanDebitCore
    <2>5. balances' = credit(debit_core(balances, <<a, USDC>>, amount), <<b, USDC>>, amount)
      BY <2>2, <2>3 DEF transfer_core, debit_core, CanDebitCore
    <2>6. QED
      BY <2>1, <2>4, <2>5, PositiveOperations
  <1>3. ASSUME NEW a \in Accounts, NEW amount \in Amounts, NEW pays \in BOOLEAN,
               withdraw(a, amount) \/ perp_settle(a, amount, pays)
        PROVE  PositiveSheet(balances')
    <2>1. amount \in Nat /\ <<a, USDC>> \in Keys
      BY <1>3, AmountPositive, KeyFacts, RequestAssumption DEF withdraw, perp_settle
    <2>2. QED
      BY <1>1, <1>3, <2>1, PositiveOperations DEF withdraw, perp_settle
  <1>4. ASSUME NEW k \in Keys, NEW amount \in Amounts, NEW to_core \in BOOLEAN,
               evm_action(k, amount, to_core)
        PROVE  PositiveSheet(balances')
    <2>1. amount \in Nat
      BY <1>4, AmountPositive DEF evm_action
    <2>2. QED
      BY <1>1, <1>4, <2>1, PositiveOperations DEF evm_action
  <1>5. ASSUME NEW a \in Accounts, NEW balance \in Amounts, set_balance(a, balance)
        PROVE  PositiveSheet(balances')
    <2> DEFINE k == <<a, USDC>>
    <2>1. balance \in Int /\ balance >= 0 /\ k \in Keys
      BY <1>5, KeyFacts, RequestAssumption DEF set_balance
    <2>2. PICK current : current = get_evm_view(balances, k)
      OBVIOUS
    <2>3. current \in Int
      BY <1>1, <2>2, EntryValid DEF get_evm_view, UnifiedBalance
    <2>4. CASE balance > current /\ balances' = credit_evm(balances, k, balance - current)
      <3>1. balance - current \in Nat
        BY <2>1, <2>3, <2>4
      <3>2. QED
        BY <1>1, <2>1, <2>4, <3>1, PositiveOperations
    <2>5. CASE balance < current /\ balances' = debit_evm(balances, k, current - balance)
      <3>1. current - balance \in Nat /\ current > 0
        BY <2>1, <2>3, <2>5
      <3>2. k \in DOMAIN balances /\ balances[k].evm_view = current
        BY <2>2, <3>1 DEF get_evm_view, get_balance_or_default, ZeroBalance, Views
      <3>3. CanDebitEvm(balances, k, current - balance)
        BY <2>1, <2>3, <3>2 DEF CanDebitEvm
      <3>4. QED
        BY <1>1, <2>1, <2>5, <3>1, <3>3, PositiveOperations
    <2>6. QED
      BY <1>5, <2>2, <2>4, <2>5 DEF set_balance
  <1>6. QED
    BY <1>2, <1>3, <1>4, <1>5 DEF ExternalNext

\* Removing orders, and inserting one whose price is not negative, keeps the
\* prices of a map so.
LEMMA PricesKept ==
    ASSUME NEW f, PositivePrices(f)
    PROVE  /\ \A ids : PositivePrices(RemoveFrom(f, ids))
           /\ \A id, o : o.price >= 0 => PositivePrices(Insert(f, id, o))
  BY DEF PositivePrices, RemoveFrom, Restrict, Insert

\* deploy_token credits amounts that are not negative.
LEMMA DeployPositive ==
    ASSUME TypeOK, ViewsAddUp, PositiveSheet(balances), NEW a \in Accounts,
           NEW alloc \in GenesisAllocations, deploy_token(a, alloc)
    PROVE  PositiveSheet(balances')
  <1> DEFINE minted == Minted(a, alloc)
             credited == (DOMAIN minted) \X {next_token_index}
  <1>1. \A k \in credited : minted[k[1]] \in Nat
    BY GenesisAssumption, BoundsAssumption DEF Minted
  <1>2. balances' = [k \in DOMAIN balances \cup credited |->
                       IF k \in credited
                       THEN AddCore(get_balance_or_default(balances, k), minted[k[1]])
                       ELSE balances[k]]
    BY DEF deploy_token
  <1>3. ASSUME NEW k \in credited
        PROVE  LET v == AddCore(get_balance_or_default(balances, k), minted[k[1]])
               IN  v.core_view >= 0 /\ v.evm_view >= 0
    <2>1. PICK e : e = get_balance_or_default(balances, k)
      OBVIOUS
    <2>2. e.core_view \in Int /\ e.evm_view \in Int /\ e.core_view >= 0 /\ e.evm_view >= 0
      BY <2>1, EntryValid
         DEF TypeOK, ViewsAddUp, ValidSheet, UnifiedBalance, PositiveSheet,
             get_balance_or_default, ZeroBalance, Views
    <2>3. QED
      BY <1>1, <2>1, <2>2 DEF AddCore, Views
  <1> HIDE DEF minted, credited
  <1>4. QED
    BY <1>2, <1>3 DEF PositiveSheet

\* An accepted order has a positive price, so what it reserves is not negative.
LEMMA PlaceOrderPositive ==
    ASSUME TypeOK, Positive, NEW a \in Accounts, NEW m \in Markets, NEW side \in Sides,
           NEW price \in Prices, NEW size \in Sizes, NEW tif \in TIFs,
           PlaceOrder(a, m, side, price, size, tif), unchecked' = 0
    PROVE  Positive'
  <1> DEFINE amount == reserve_amount(side, size, price)
             k == <<a, reserve_token(side, m)>>
  <1>1. price \in Int /\ price > 0
    <2>1. Counted(price > 0)
      BY DEF PlaceOrder
    <2>2. unchecked \in 0..MaxDisturbances
      BY DEF TypeOK
    <2>3. QED
      BY <2>1, <2>2, BoundsAssumption, RequestAssumption DEF Counted
  <1>2. size \in Nat /\ amount \in Int /\ amount >= 0 /\ k \in Keys
    <2>1. validate_order(price, size) /\ size \in Int
      BY RequestAssumption DEF PlaceOrder
    <2>2. QED
      BY <1>1, <2>1, ValidSizePositive, Conversions, KeyFacts
  <1>3. reserved' = [reserved EXCEPT ![k] = @ + amount]
    BY DEF PlaceOrder
  <1> HIDE DEF amount, k
  <1>4. \A x \in Keys : reserved'[x] >= 0
    BY <1>2, <1>3 DEF TypeOK, Positive
  <1>5. taker'.price >= 0 /\ UNCHANGED <<balances, orders, book, fills>>
    BY <1>1 DEF PlaceOrder
  <1>6. QED
    BY <1>4, <1>5 DEF Positive

\* A fill at a price that is not negative has a quote that is not.
LEMMA MatchMakerPositive ==
    ASSUME TypeOK, Positive, NEW i \in OrderIds, MatchMaker(i)
    PROVE  Positive'
  <1> DEFINE m == taker.market
             maker == book[m][i]
             size == IF taker.remaining <= maker.remaining
                     THEN taker.remaining ELSE maker.remaining
             quote == Notional(size, maker.price)
             new == [maker |-> maker.owner, maker_id |-> i, price |-> maker.price,
                     base_size |-> size, quote_size |-> quote]
  <1>1. taker \in TakerOrder /\ m \in Markets /\ taker.remaining \in Nat
    BY SMTT(40) DEF TypeOK, MatchMaker, TakerOrder
  <1>2. /\ i \in DOMAIN book[m] /\ maker \in Order /\ maker.remaining \in Nat
        /\ maker.price \in Int /\ maker.owner \in Accounts
    BY <1>1, SMTT(40) DEF TypeOK, MatchMaker, Matchable, IsBest, Resting, IsOrderMap, Order
  <1>3. maker.price >= 0
    BY <1>1, <1>2 DEF Positive, PositivePrices
  <1>4. size \in Nat
    BY <1>1, <1>2
  <1>5. quote \in Int /\ quote >= 0
    BY <1>2, <1>3, <1>4, Conversions
  <1>6. UNCHANGED <<balances, reserved, orders, pc>>
    BY DEF MatchMaker
  <1>7. taker'.price = taker.price
    BY <1>1 DEF MatchMaker, TakerOrder
  <1>8. fills' = Append(fills, new)
    BY DEF MatchMaker
  <1>9. \/ book' = [book EXCEPT ![m] = RemoveFrom(@, {i})]
        \/ book' = [book EXCEPT ![m] = Insert(@, i, [maker EXCEPT !.remaining = @ - size])]
    BY DEF MatchMaker
  <1>10. [maker EXCEPT !.remaining = @ - size].price = maker.price
    BY <1>2 DEF Order
  <1>11. new \in SpotFill /\ new.quote_size = quote
    BY <1>2, <1>4, <1>5 DEF SpotFill
  <1> HIDE DEF new, quote, size
  <1>12. \A x \in 1..Len(fills') : fills'[x].quote_size >= 0
    <2>1. fills \in Seq(SpotFill)
      BY DEF TypeOK
    <2>2. /\ Len(fills') = Len(fills) + 1 /\ fills'[Len(fills) + 1] = new
          /\ \A x \in 1..Len(fills) : fills'[x] = fills[x]
      BY <1>8, <1>11, <2>1, AppendProperties
    <2>3. Len(fills) \in Nat
      BY <2>1
    <2>4. QED
      BY <1>5, <1>11, <2>2, <2>3 DEF Positive
  <1>13. \A x \in Markets : PositivePrices(book'[x])
    <2>1. \A x \in Markets : PositivePrices(book[x])
      BY DEF Positive
    <2>2. DOMAIN book = Markets
      BY DEF TypeOK
    <2>3. PositivePrices(book[m])
      BY <1>1, <2>1
    <2>4. PICK rest : rest = [maker EXCEPT !.remaining = @ - size]
      OBVIOUS
    <2>5. rest.price >= 0
      BY <1>3, <1>10, <2>4
    <2>6. PICK b : /\ b \in {RemoveFrom(book[m], {i}), Insert(book[m], i, rest)}
                   /\ book' = [book EXCEPT ![m] = b]
      BY <1>9, <2>4
    <2>7. PositivePrices(b)
      BY <2>3, <2>5, <2>6, PricesKept
    <2>8. QED
      BY <2>1, <2>2, <2>6, <2>7
  <1>14. QED
    BY <1>6, <1>7, <1>12, <1>13 DEF Positive

\* Writing the matched makers back changes sizes, not prices.
LEMMA SyncMakersPositive ==
    ASSUME TypeOK, Positive, SyncMakers
    PROVE  Positive'
  <1> DEFINE m == taker.market
             kept == RemoveFrom(orders[m], filled_makers)
  <1>1. m \in Markets /\ taker' = taker /\ pc \notin {"idle", "cancel_all"}
    BY DEF TypeOK, SyncMakers, TakerOrder
  <1>2. PositivePrices(kept) /\ IsOrderMap(kept)
    BY <1>1, PricesKept, OrderMapOperations DEF TypeOK, Positive
  <1>3. \A i \in DOMAIN kept : [kept[i] EXCEPT !.remaining = partial_makers[i]].price = kept[i].price
    BY <1>2 DEF IsOrderMap, Order
  <1>4. PositivePrices(SyncedOrders(m))
    BY <1>2, <1>3 DEF PositivePrices, SyncedOrders
  <1>5. orders' = [orders EXCEPT ![m] = SyncedOrders(m)]
    BY DEF SyncMakers
  <1>6. \A x \in Markets : PositivePrices(orders'[x])
    BY <1>1, <1>4, <1>5 DEF TypeOK, Positive
  <1>7. UNCHANGED <<balances, reserved, book, fills>>
    BY DEF SyncMakers
  <1>8. QED
    BY <1>1, <1>6, <1>7 DEF Positive

\* The amounts of the fill being applied.
LEMMA FillPositive ==
    ASSUME TypeOK, Positive, pc \in ApplyPcs
    PROVE  /\ quote_with_fee \in Nat /\ seller_receives \in Nat /\ fill.base_size \in Nat
           /\ fills \in Seq(SpotFill) /\ Len(fills) \in Nat /\ Len(fills) > 0
  <1>1. fills \in Seq(SpotFill) /\ fills # <<>>
    BY DEF TypeOK, ApplyPcs
  <1>2. Len(fills) \in Nat /\ Len(fills) # 0
    BY <1>1, EmptySeq, LenProperties
  <1>3. fill.quote_size >= 0
    BY <1>1, <1>2 DEF Positive, fill
  <1>4. QED
    BY <1>1, <1>2, <1>3, FillFacts

\* What a buyer pays and a seller receives is not negative, a debit is checked
\* and a release takes no more than there is.
LEMMA ApplyFillPositive ==
    ASSUME TypeOK, ViewsAddUp, Positive,
           BuyerPays \/ BuyerReceives \/ SellerPays \/ SellerReceives
    PROVE  Positive'
  <1>1. pc \in ApplyPcs
    BY DEF ApplyPcs, BuyerPays, BuyerReceives, SellerPays, SellerReceives
  <1>2. ValidSheet(balances) /\ PositiveSheet(balances)
    BY DEF TypeOK, ViewsAddUp, ValidSheet, Positive
  <1>3. fills \in Seq(SpotFill) /\ Len(fills) \in Nat /\ Len(fills) > 0
    BY <1>1, FillPositive
  <1>5. PICK q, z, r : q = quote_with_fee /\ z = fill.base_size /\ r = seller_receives
    OBVIOUS
  <1>6. q \in Nat /\ z \in Nat /\ r \in Nat
    BY <1>1, <1>5, FillPositive
  <1>7. /\ QuoteKey \in Keys /\ <<seller, USDC>> \in Keys
        /\ BaseKeyOfBuyer \in Keys /\ BaseKeyOfSeller \in Keys
        /\ QuoteKey # BaseKeyOfSeller
    BY <1>1, FillFacts
  <1>8. PositiveSheet(balances')
    <2>1. CASE BuyerPays
      BY <1>2, <1>5, <1>6, <1>7, <2>1, PositiveOperations DEF BuyerPays
    <2>2. CASE BuyerReceives
      BY <1>2, <1>5, <1>6, <1>7, <2>2, PositiveOperations DEF BuyerReceives
    <2>3. CASE SellerPays
      BY <1>2, <1>5, <1>6, <1>7, <2>3, PositiveOperations DEF SellerPays
    <2>4. CASE SellerReceives
      BY <1>2, <1>5, <1>6, <1>7, <2>4, PositiveOperations DEF SellerReceives
    <2>5. QED
      BY <2>1, <2>2, <2>3, <2>4
  <1>9. \A k \in Keys : reserved'[k] >= 0
    <2>1. CASE BuyerPays
      <3>1. reserved' = [reserved EXCEPT ![QuoteKey] = Released(@, q),
                                         ![BaseKeyOfSeller] = Released(@, z)]
        BY <1>5, <2>1 DEF BuyerPays, ReleaseBoth
      <3>2. \A k \in Keys : /\ Released(reserved[k], q) >= 0
                            /\ Released(reserved[k], z) >= 0
        BY <1>6, ReleasedIs DEF TypeOK, Positive
      <3>3. \A k \in Keys : reserved'[k] \in {reserved[k], Released(reserved[k], q),
                                              Released(reserved[k], z)}
        BY <1>7, <3>1 DEF TypeOK
      <3>4. QED
        BY <3>2, <3>3 DEF Positive
    <2>2. CASE BuyerReceives \/ SellerPays \/ SellerReceives
      BY <2>2 DEF BuyerReceives, SellerPays, SellerReceives, Positive
    <2>3. QED
      BY <2>1, <2>2
  <1>10. UNCHANGED <<orders, book>>
    BY DEF BuyerPays, BuyerReceives, SellerPays, SellerReceives, bookVars
  <1>11. /\ pc' \notin {"idle", "cancel_all"} => taker'.price >= 0
         /\ \A i \in 1..Len(fills') : fills'[i].quote_size >= 0
    <2>1. taker.price >= 0
      BY <1>1 DEF Positive, ApplyPcs
    <2>2. CASE EndCall
      <3>1. pc' = "idle" /\ fills' = <<>>
        BY <2>2, EndCallType
      <3>2. QED
        BY <3>1
    <2>3. CASE UNCHANGED <<taker, fills>>
      BY <2>1, <2>3 DEF Positive
    <2>4. CASE SellerReceives
      <3>1. fills' = Tail(fills) /\ taker' = taker
        BY <2>4 DEF SellerReceives
      <3>2. /\ Len(fills') = Len(fills) - 1
            /\ \A i \in 1..Len(fills') : fills'[i] = fills[i + 1]
        BY <1>3, <3>1, HeadTailProperties
      <3>3. \A i \in 1..Len(fills') : fills'[i].quote_size >= 0
        <4>1. TAKE i \in 1..Len(fills')
        <4>2. i + 1 \in 1..Len(fills)
          BY <1>3, <3>2
        <4>3. QED
          BY <3>2, <4>2 DEF Positive
      <3>4. QED
        BY <2>1, <3>1, <3>3
    <2>5. QED
      BY <2>2, <2>3, <2>4 DEF BuyerPays, BuyerReceives, SellerPays
  <1>12. QED
    BY <1>8, <1>9, <1>10, <1>11 DEF Positive

\* The order that rests has the price it was placed with.
LEMMA FinishOrderPositive ==
    ASSUME TypeOK, Positive, FinishOrder
    PROVE  Positive'
  <1> DEFINE m == taker.market
             k == <<taker.owner, reserve_token(taker.side, m)>>
             resting == Insert(orders[m], taker.id, RestingOrder(taker))
             queued == Insert(book[m], taker.id, RestingOrder(taker))
  <1>1. taker \in TakerOrder /\ taker.price >= 0
    BY DEF TypeOK, FinishOrder, Positive
  <1>2. m \in Markets /\ k \in Keys /\ RestingOrder(taker).price = taker.price
    BY <1>1, KeyFacts DEF TakerOrder, RestingOrder
  <1>3. PositivePrices(resting) /\ PositivePrices(queued)
    BY <1>1, <1>2, PricesKept DEF Positive
  <1>4. /\ orders' \in {orders, [orders EXCEPT ![m] = resting]}
        /\ book' \in {book, [book EXCEPT ![m] = queued]}
        /\ reserved' \in {reserved, [reserved EXCEPT ![k] = Released(@, remaining_reserve)]}
    BY DEF FinishOrder
  <1>5. remaining_reserve \in Int
    BY <1>1 DEF remaining_reserve, TakerOrder
  <1> HIDE DEF k, resting, queued
  <1>6. \A x \in Keys : reserved'[x] >= 0
    BY <1>2, <1>4, <1>5, ReleasedIs DEF TypeOK, Positive
  <1>7. \A x \in Markets : PositivePrices(orders'[x]) /\ PositivePrices(book'[x])
    BY <1>2, <1>3, <1>4 DEF TypeOK, Positive
  <1>8. pc' = "idle" /\ fills' = <<>> /\ balances' = balances
    BY EndCallType DEF FinishOrder
  <1>9. QED
    BY <1>6, <1>7, <1>8 DEF Positive

\* A cancelled order gives back no more than is reserved.
LEMMA CancelPositive ==
    ASSUME TypeOK, Positive, NEW m \in Markets, NEW id \in DOMAIN orders[m], Cancel(m, id)
    PROVE  /\ \A k \in Keys : reserved'[k] >= 0
           /\ \A x \in Markets : PositivePrices(orders'[x]) /\ PositivePrices(book'[x])
  <1> DEFINE o == orders[m][id]
             k == <<o.owner, reserve_token(o.side, m)>>
             amount == reserve_amount(o.side, o.remaining, o.price)
  <1>1. o.owner \in Accounts /\ o.side \in Sides /\ o.remaining \in Nat /\ o.price \in Int
    BY DEF TypeOK, IsOrderMap, Order
  <1>2. k \in Keys /\ amount \in Int
    BY <1>1, KeyFacts, Conversions
  <1>3. reserved' = [reserved EXCEPT ![k] = Released(@, amount)]
    BY DEF Cancel
  <1>4. /\ orders' = [orders EXCEPT ![m] = RemoveFrom(@, {id})]
        /\ book' = [book EXCEPT ![m] = RemoveFrom(@, {id})]
    BY DEF Cancel
  <1> HIDE DEF k, amount
  <1>5. \A x \in Keys : reserved'[x] >= 0
    BY <1>2, <1>3, ReleasedIs DEF TypeOK, Positive
  <1>6. \A x \in Markets : PositivePrices(orders'[x]) /\ PositivePrices(book'[x])
    BY <1>4, PricesKept DEF TypeOK, Positive
  <1>7. QED
    BY <1>5, <1>6

\* No step forgets a request that was not positive.
LEMMA UncheckedGrows ==
    ASSUME TypeOK, [Next]_vars
    PROVE  unchecked' >= unchecked
  <1>1. unchecked \in 0..MaxDisturbances
    BY DEF TypeOK
  <1>2. CASE ExternalNext
    BY <1>1, <1>2, ExternalFrame
  <1>3. ASSUME NEW positive, Counted(positive)
        PROVE  unchecked' >= unchecked
    BY <1>3, CountedType
  <1>4. CASE EngineNext
    <2>1. CASE UNCHANGED unchecked
      BY <1>1, <2>1
    <2>2. CASE PlaceOrderStep
      BY <2>1, <2>2, Zenon DEF PlaceOrderStep, MatchMaker, SyncMakers, BuyerPays,
         BuyerReceives, SellerPays, SellerReceives, FinishOrder
    <2>3. ASSUME NEW a \in Accounts, NEW m \in Markets, NEW side \in Sides,
                 NEW price \in Prices, NEW size \in Sizes, NEW tif \in TIFs,
                 PlaceOrder(a, m, side, price, size, tif)
          PROVE  unchecked' >= unchecked
      BY <1>3, <2>3, Zenon DEF PlaceOrder
    <2>4. ASSUME NEW k \in Keys, NEW amount \in Amounts, NEW d \in BOOLEAN,
                 view_transfer(k, amount, d)
          PROVE  unchecked' >= unchecked
      BY <1>3, <2>4, Zenon DEF view_transfer
    <2>5. ASSUME NEW a \in Accounts, NEW alloc \in GenesisAllocations, deploy_token(a, alloc)
          PROVE  unchecked' >= unchecked
      BY <2>1, <2>5, Zenon DEF deploy_token
    <2>6. ASSUME NEW a \in Accounts, NEW m \in Markets, NEW id \in OrderIds,
                 cancel_order(a, m, id)
          PROVE  unchecked' >= unchecked
      BY <2>1, <2>6, Zenon DEF cancel_order
    <2>7. CASE CancelNext
      BY <2>1, <2>7, Zenon DEF CancelNext
    <2>8. ASSUME NEW a \in Accounts, NEW m \in Markets, cancel_all_orders(a, m)
          PROVE  unchecked' >= unchecked
      BY <2>1, <2>8, Zenon DEF cancel_all_orders
    <2>9. QED
      BY <1>4, <2>2, <2>3, <2>4, <2>5, <2>6, <2>7, <2>8 DEF EngineNext
  <1>5. CASE UNCHANGED vars
    BY <1>1, <1>5 DEF vars
  <1>6. QED
    BY <1>1, <1>2, <1>4, <1>5 DEF Next

\* Every step that leaves no request unchecked keeps all of it from becoming
\* negative.
LEMMA PositiveStep ==
    ASSUME TypeOK, ViewsAddUp, SweepInv, PositiveInv, [Next]_vars
    PROVE  PositiveInv'
  <1>1. SUFFICES ASSUME unchecked' = 0 PROVE Positive'
    BY DEF PositiveInv
  <1>2. unchecked' >= unchecked /\ unchecked \in 0..MaxDisturbances
    BY UncheckedGrows DEF TypeOK
  <1>3. Positive
    BY <1>1, <1>2, BoundsAssumption DEF PositiveInv
  <1>4. ValidSheet(balances) /\ PositiveSheet(balances)
    BY <1>3 DEF TypeOK, ViewsAddUp, ValidSheet, Positive
  <1>5. ASSUME NEW a \in Accounts, NEW alloc \in GenesisAllocations, deploy_token(a, alloc)
        PROVE  Positive'
    <2>1. PositiveSheet(balances')
      BY <1>4, <1>5, DeployPositive
    <2>2. UNCHANGED <<reserved, orders, book, pc, taker, fills>>
      BY <1>5 DEF deploy_token, bookVars, callVars
    <2>3. QED
      BY <1>3, <2>1, <2>2 DEF Positive
  <1>6. ASSUME NEW a \in Accounts, NEW m \in Markets, NEW side \in Sides,
               NEW price \in Prices, NEW size \in Sizes, NEW tif \in TIFs,
               PlaceOrder(a, m, side, price, size, tif)
        PROVE  Positive'
    BY <1>1, <1>3, <1>6, PlaceOrderPositive
  <1>7. CASE PlaceOrderStep
    BY <1>3, <1>7, MatchMakerPositive, SyncMakersPositive, ApplyFillPositive,
       FinishOrderPositive DEF PlaceOrderStep
  <1>8. ASSUME NEW a \in Accounts, NEW m \in Markets, NEW id \in OrderIds,
               cancel_order(a, m, id)
        PROVE  Positive'
    <2>1. id \in DOMAIN orders[m] /\ Cancel(m, id)
      BY <1>8 DEF cancel_order
    <2>2. UNCHANGED <<balances, pc, taker, fills>>
      BY <1>8 DEF cancel_order, callVars
    <2>3. QED
      BY <1>3, <2>1, <2>2, CancelPositive DEF Positive
  <1>9. ASSUME NEW a \in Accounts, NEW m \in Markets, cancel_all_orders(a, m)
        PROVE  Positive'
    BY <1>3, <1>9 DEF cancel_all_orders, Positive, bookVars
  <1>10. CASE CancelNext
    <2>1. PICK x \in todo : Cancel(x[1], x[2])
      BY <1>10 DEF CancelNext
    <2>2. x[1] \in Markets /\ x[2] \in DOMAIN orders[x[1]]
      BY <2>1 DEF TypeOK, SweepInv
    <2>3. /\ UNCHANGED <<balances, taker, fills>>
          /\ pc' \in {"idle", "cancel_all"}
      BY <1>10 DEF CancelNext
    <2>4. QED
      BY <1>3, <2>1, <2>2, <2>3, CancelPositive DEF Positive
  <1>11. ASSUME NEW k \in Keys, NEW amount \in Amounts, NEW d \in BOOLEAN,
                view_transfer(k, amount, d)
         PROVE  Positive'
    <2>1. amount \in Nat
      BY <1>1, <1>11, AmountPositive DEF view_transfer
    <2>2. PositiveSheet(balances')
      BY <1>4, <1>11, <2>1, PositiveOperations DEF view_transfer
    <2>3. UNCHANGED <<reserved, orders, book, pc, taker, fills>>
      BY <1>11 DEF view_transfer, bookVars, callVars
    <2>4. QED
      BY <1>3, <2>2, <2>3 DEF Positive
  <1>12. CASE ExternalNext
    <2>1. PositiveSheet(balances')
      BY <1>1, <1>3, <1>12, ExternalPositive
    <2>2. UNCHANGED <<reserved, orders, book, pc, taker, fills>>
      BY <1>12, ExternalFrame DEF bookVars, callVars
    <2>3. QED
      BY <1>3, <2>1, <2>2 DEF Positive
  <1>13. CASE UNCHANGED vars
    BY <1>3, <1>13 DEF vars, bookVars, callVars, Positive
  <1>14. CASE EngineNext
    BY <1>14, <1>5, <1>6, <1>7, <1>8, <1>9, <1>10, <1>11 DEF EngineNext
  <1>15. QED
    BY <1>12, <1>13, <1>14 DEF Next

\* Nothing is negative at the start.
LEMMA InitPositive ==
    ASSUME Init
    PROVE  Positive
  <1>1. PositiveSheet(balances)
    BY BoundsAssumption DEF Init, PositiveSheet, Views
  <1>2. QED
    BY <1>1 DEF Init, Positive, PositivePrices, EmptyMap

\* Whatever the constants, and whatever the other writers of the sheet do
\* between the steps of a call (spot_engine.rs:249, unified_state.rs): no view
\* and no reservation becomes negative while all requests carry positive
\* prices and amounts, as those the gateway lets through do.
THEOREM NeverNegative == Spec => []NothingNegative
  <1> DEFINE Inv == TypeInv /\ PositiveInv
  <1>1. Init => Inv
    BY InitType, InitPositive DEF PositiveInv
  <1>2. Inv /\ [Next]_vars => Inv'
    BY TypeStep, SweepStep, PositiveStep DEF TypeInv
  <1>3. Inv => NothingNegative
    BY DEF PositiveInv, Positive, PositiveSheet, NothingNegative
  <1>4. QED
    BY <1>1, <1>2, <1>3, PTL DEF Spec

-----------------------------------------------------------------------------
(* The book is never crossed. *)

\* No bid of book b is at or above an ask of b.
NotCrossed(b) ==
    \A i, j \in DOMAIN b : b[i].side = "Buy" /\ b[j].side = "Sell" => b[i].price < b[j].price

\* No order of book b could be matched with order t.
ClearOf(b, t) ==
    \A i \in DOMAIN b : b[i].side = Opposite(t.side) => ~Crosses(t.side, t.price, b[i].price)

\* After the matching loop, what is left of the taker matches nothing in the
\* book: while its fills are applied nothing is added to the book.
TakerClear ==
    pc \in {"buyer_pays", "buyer_receives", "seller_pays", "seller_receives", "finish"}
    /\ taker.remaining > 0
        => ClearOf(book[taker.market], taker)

BookInv == BookNotCrossed /\ TakerClear

\* Taking orders out of a book, or changing how much of one is left, does not
\* cross it.
LEMMA ShrinkKeeps ==
    ASSUME NEW b, NEW c, NotCrossed(b),
           \A i \in DOMAIN c : /\ i \in DOMAIN b
                               /\ c[i].side = b[i].side
                               /\ c[i].price = b[i].price
    PROVE  NotCrossed(c)
  BY DEF NotCrossed

\* An order that matches nothing in a book may rest in it.
LEMMA RestKeeps ==
    ASSUME NEW b, IsOrderMap(b), NEW t \in TakerOrder, NotCrossed(b), ClearOf(b, t)
    PROVE  NotCrossed(Insert(b, t.id, RestingOrder(t)))
  <1> DEFINE o == RestingOrder(t)
             c == Insert(b, t.id, o)
  <1>1. /\ o.side = t.side /\ o.price = t.price
        /\ t.price \in Int /\ t.side \in Sides
    BY DEF RestingOrder, TakerOrder
  <1>2. /\ DOMAIN c = DOMAIN b \cup {t.id}
        /\ \A i \in DOMAIN c : c[i] = IF i = t.id THEN o ELSE b[i]
    BY DEF Insert
  <1>3. \A i \in DOMAIN b : b[i].price \in Int /\ b[i].side \in Sides
    BY DEF IsOrderMap, Order
  <1>4. ASSUME NEW i \in DOMAIN c, NEW j \in DOMAIN c,
               c[i].side = "Buy", c[j].side = "Sell"
        PROVE  c[i].price < c[j].price
    <2>1. CASE i = t.id /\ j = t.id
      BY <1>2, <1>4, <2>1
    <2>2. CASE i = t.id /\ j # t.id
      <3>1. j \in DOMAIN b /\ c[j] = b[j] /\ c[i] = o
        BY <1>2, <2>2
      <3>2. ~Crosses(t.side, t.price, b[j].price)
        BY <1>1, <1>4, <3>1 DEF ClearOf, Opposite
      <3>3. QED
        BY <1>1, <1>3, <1>4, <3>1, <3>2 DEF Crosses
    <2>3. CASE i # t.id /\ j = t.id
      <3>1. i \in DOMAIN b /\ c[i] = b[i] /\ c[j] = o
        BY <1>2, <2>3
      <3>2. ~Crosses(t.side, t.price, b[i].price)
        BY <1>1, <1>4, <3>1 DEF ClearOf, Opposite
      <3>3. QED
        BY <1>1, <1>3, <1>4, <3>1, <3>2 DEF Crosses
    <2>4. CASE i # t.id /\ j # t.id
      BY <1>2, <1>4, <2>4 DEF NotCrossed
    <2>5. QED
      BY <2>1, <2>2, <2>3, <2>4
  <1>5. NotCrossed(c)
    BY <1>4 DEF NotCrossed
  <1>6. QED
    BY <1>5

\* When the loop ends with something of the taker left, nothing in the book
\* matches it: the best order of the other side does not, so no other does.
LEMMA LoopEndClears ==
    ASSUME TypeOK, taker \in TakerOrder, LoopEnds, taker.remaining > 0
    PROVE  ClearOf(book[taker.market], taker)
  <1> DEFINE b == book[taker.market]
             side == Opposite(taker.side)
  <1>1. /\ taker.market \in Markets /\ taker.remaining \in Nat
        /\ taker.side \in Sides /\ taker.price \in Int
    BY DEF TakerOrder
  <1>2. \A i \in DOMAIN b : b[i].price \in Int /\ b[i].side \in Sides
    BY <1>1 DEF TypeOK, IsOrderMap, Order
  <1>3. CASE Resting(b, side) = {}
    BY <1>3 DEF Resting, ClearOf
  <1>4. ASSUME NEW i \in OrderIds, IsBest(b, side, i),
               ~Crosses(taker.side, taker.price, b[i].price)
        PROVE  ClearOf(b, taker)
    <2>1. i \in DOMAIN b /\ b[i].side = side
      BY <1>4 DEF IsBest, Resting
    <2>2. ASSUME NEW j \in DOMAIN b, b[j].side = side
          PROVE  ~Crosses(taker.side, taker.price, b[j].price)
      <3>1. CASE j = i
        BY <1>4, <3>1
      <3>2. CASE j # i
        <4>1. Before(b, i, j)
          BY <1>4, <2>2, <3>2 DEF IsBest, Resting
        <4>2. QED
          BY <1>1, <1>2, <1>4, <2>1, <2>2, <4>1 DEF Before, Crosses, Opposite, Sides
      <3>3. QED
        BY <3>1, <3>2
    <2>3. QED
      BY <2>2 DEF ClearOf
  <1>5. QED
    BY <1>1, <1>3, <1>4 DEF LoopEnds

\* Removing an order from one market's book does not cross any book.
LEMMA RemoveKeeps ==
    ASSUME TypeOK, BookNotCrossed, NEW m \in Markets, NEW ids,
           book' = [book EXCEPT ![m] = RemoveFrom(@, ids)]
    PROVE  BookNotCrossed'
  <1>1. \A n \in Markets : NotCrossed(book[n])
    BY DEF BookNotCrossed, NotCrossed
  <1>2. NotCrossed(RemoveFrom(book[m], ids))
    <2>1. \A i \in DOMAIN RemoveFrom(book[m], ids) :
             i \in DOMAIN book[m] /\ RemoveFrom(book[m], ids)[i] = book[m][i]
      BY DEF RemoveFrom, Restrict
    <2>2. QED
      BY <1>1, <2>1, ShrinkKeeps
  <1>3. \A n \in Markets : book'[n] = IF n = m THEN RemoveFrom(book[m], ids) ELSE book[n]
    BY DEF TypeOK
  <1>4. \A n \in Markets : NotCrossed(book'[n])
    BY <1>1, <1>2, <1>3
  <1>5. QED
    BY <1>4 DEF BookNotCrossed, NotCrossed

\* Every step keeps the book uncrossed.
LEMMA BookStep ==
    ASSUME TypeOK, SweepInv, BookInv, [Next]_vars
    PROVE  BookInv'
  <1> DEFINE Applying == {"buyer_pays", "buyer_receives", "seller_pays",
                          "seller_receives", "finish"}
  <1>1. ASSUME UNCHANGED book, pc' \notin Applying
        PROVE  BookInv'
    BY <1>1 DEF BookInv, BookNotCrossed, TakerClear
  <1>2. ASSUME UNCHANGED <<book, taker>>, pc \in Applying \/ pc' = pc
        PROVE  BookInv'
    BY <1>2 DEF BookInv, BookNotCrossed, TakerClear
  <1>3. ASSUME NEW i \in OrderIds, MatchMaker(i)
        PROVE  BookInv'
    <2> DEFINE m == taker.market
               maker == book[m][i]
               size == IF taker.remaining <= maker.remaining
                       THEN taker.remaining ELSE maker.remaining
               c == Insert(book[m], i, [maker EXCEPT !.remaining = @ - size])
    <2>1. /\ m \in Markets /\ i \in DOMAIN book[m] /\ IsOrderMap(book[m])
          /\ pc' = "match"
      BY <1>3 DEF MatchMaker, Matchable, IsBest, Resting, TypeOK, TakerOrder
    <2>2. CASE book' = [book EXCEPT ![m] = RemoveFrom(@, {i})]
      BY <2>1, <2>2, RemoveKeeps DEF BookInv, TakerClear
    <2>3. CASE book' = [book EXCEPT ![m] = c]
      <3>1. maker \in Order
        BY <2>1 DEF IsOrderMap
      <3>2. /\ [maker EXCEPT !.remaining = @ - size].side = maker.side
            /\ [maker EXCEPT !.remaining = @ - size].price = maker.price
        BY <3>1 DEF Order
      <3>3. \A j \in DOMAIN c : /\ j \in DOMAIN book[m]
                                /\ c[j].side = book[m][j].side
                                /\ c[j].price = book[m][j].price
        BY <2>1, <3>2 DEF Insert
      <3>4. \A n \in Markets : NotCrossed(book[n])
        BY DEF BookInv, BookNotCrossed, NotCrossed
      <3>5. NotCrossed(c)
        <4> HIDE DEF c
        <4>1. QED
          BY <2>1, <3>3, <3>4, ShrinkKeeps
      <3>6. \A n \in Markets : book'[n] = IF n = m THEN c ELSE book[n]
        BY <2>3 DEF TypeOK
      <3>7. \A n \in Markets : NotCrossed(book'[n])
        BY <3>4, <3>5, <3>6
      <3>8. QED
        BY <2>1, <3>7 DEF BookInv, BookNotCrossed, NotCrossed, TakerClear
    <2>4. QED
      BY <1>3, <2>2, <2>3 DEF MatchMaker
  <1>4. CASE SyncMakers
    <2>1. /\ LoopEnds /\ taker \in TakerOrder /\ UNCHANGED <<book, taker>>
      BY <1>4 DEF SyncMakers, TypeOK
    <2>2. taker.remaining > 0 => ClearOf(book[taker.market], taker)
      BY <2>1, LoopEndClears
    <2>3. QED
      BY <2>1, <2>2 DEF BookInv, BookNotCrossed, TakerClear
  <1>5. CASE BuyerPays \/ BuyerReceives \/ SellerPays \/ SellerReceives
    <2>1. pc \in Applying /\ UNCHANGED book
      BY <1>5 DEF BuyerPays, BuyerReceives, SellerPays, SellerReceives, bookVars
    <2>2. UNCHANGED taker \/ pc' = "idle"
      BY <1>5 DEF BuyerPays, BuyerReceives, SellerPays, SellerReceives, EndCall
    <2>3. QED
      BY <1>1, <1>2, <2>1, <2>2
  <1>6. CASE FinishOrder
    <2> DEFINE m == taker.market
               c == Insert(book[m], taker.id, RestingOrder(taker))
    <2>1. /\ pc = "finish" /\ pc' = "idle" /\ taker \in TakerOrder
          /\ m \in Markets /\ IsOrderMap(book[m])
      BY <1>6 DEF FinishOrder, EndCall, TypeOK, TakerOrder
    <2>2. CASE UNCHANGED book
      BY <1>1, <2>1, <2>2
    <2>3. CASE taker.remaining > 0 /\ book' = [book EXCEPT ![m] = c]
      <3>1. \A n \in Markets : NotCrossed(book[n])
        BY DEF BookInv, BookNotCrossed, NotCrossed
      <3>2. ClearOf(book[m], taker)
        BY <2>1, <2>3 DEF BookInv, TakerClear
      <3>3. NotCrossed(c)
        BY <2>1, <3>1, <3>2, RestKeeps
      <3>4. \A n \in Markets : book'[n] = IF n = m THEN c ELSE book[n]
        BY <2>3 DEF TypeOK
      <3>5. \A n \in Markets : NotCrossed(book'[n])
        BY <3>1, <3>3, <3>4
      <3>6. QED
        BY <2>1, <3>5 DEF BookInv, BookNotCrossed, NotCrossed, TakerClear
    <2>4. QED
      BY <1>6, <2>2, <2>3 DEF FinishOrder
  <1>7. ASSUME NEW a \in Accounts, NEW m \in Markets, NEW id \in OrderIds,
               cancel_order(a, m, id)
        PROVE  BookInv'
    BY <1>7, RemoveKeeps DEF cancel_order, Cancel, BookInv, TakerClear, callVars
  <1>8. CASE CancelNext
    <2>1. PICK x \in todo : Cancel(x[1], x[2])
      BY <1>8 DEF CancelNext
    <2>2. x[1] \in Markets
      BY <2>1 DEF TypeOK
    <2>3. book' = [book EXCEPT ![x[1]] = RemoveFrom(@, {x[2]})]
      BY <2>1, Zenon DEF Cancel
    <2>4. BookNotCrossed'
      BY <2>2, <2>3, RemoveKeeps DEF BookInv
    <2>5. pc' \in {"idle", "cancel_all"}
      BY <1>8 DEF CancelNext
    <2>6. QED
      BY <2>4, <2>5 DEF BookInv, TakerClear
  <1>9. ASSUME NEW a \in Accounts, NEW m \in Markets, NEW side \in Sides,
               NEW price \in Prices, NEW size \in Sizes, NEW tif \in TIFs,
               PlaceOrder(a, m, side, price, size, tif)
        PROVE  BookInv'
    BY <1>1, <1>9 DEF PlaceOrder
  <1>10. ASSUME NEW a \in Accounts, NEW m \in Markets, cancel_all_orders(a, m)
         PROVE  BookInv'
    BY <1>1, <1>10 DEF cancel_all_orders, bookVars
  <1>11. ASSUME NEW a \in Accounts, NEW alloc \in GenesisAllocations, deploy_token(a, alloc)
         PROVE  BookInv'
    BY <1>2, <1>11 DEF deploy_token, bookVars, callVars
  <1>12. ASSUME NEW k \in Keys, NEW amount \in Amounts, NEW d \in BOOLEAN,
                view_transfer(k, amount, d)
         PROVE  BookInv'
    BY <1>2, <1>12 DEF view_transfer, bookVars, callVars
  <1>13. CASE ExternalNext
    BY <1>2, <1>13, ExternalFrame DEF bookVars, callVars
  <1>14. CASE UNCHANGED vars
    BY <1>2, <1>14 DEF vars, bookVars, callVars
  <1>15. CASE EngineNext
    BY <1>15, <1>3, <1>4, <1>5, <1>6, <1>7, <1>8, <1>9, <1>10, <1>11, <1>12
       DEF EngineNext, PlaceOrderStep
  <1>16. QED
    BY <1>13, <1>14, <1>15 DEF Next

\* Whatever the constants and however the other writers of the balance sheet
\* make a fill fail half way (spot_engine.rs: place_order, apply_fill): no bid
\* of the book is at or above an ask.
THEOREM BookNeverCrossed == Spec => []BookNotCrossed
  <1>1. Init => TypeInv /\ BookInv
    <2>1. ASSUME Init PROVE BookInv
      BY <2>1 DEF Init, BookInv, BookNotCrossed, TakerClear, EmptyMap
    <2>2. QED
      BY <2>1, InitType
  <1>2. TypeInv /\ BookInv /\ [Next]_vars => TypeInv' /\ BookInv'
    BY TypeStep, SweepStep, BookStep DEF TypeInv
  <1>3. BookInv => BookNotCrossed
    BY DEF BookInv
  <1>4. QED
    BY <1>1, <1>2, <1>3, PTL DEF Spec

-----------------------------------------------------------------------------
(* Fills follow price-time priority. *)

\* A fill at price p of maker i comes before one at price q of maker j.
Ahead(side, i, p, j, q) ==
    \/ i < j /\ p = q
    \/ IF side = "Buy" THEN p < q ELSE p > q

\* The fills so far are ahead of everything the taker may still match.
FillsAhead ==
    pc = "match" /\ taker.remaining > 0 =>
        \A n \in DOMAIN fills :
            \A j \in Resting(book[taker.market], Opposite(taker.side)) :
                Ahead(taker.side, fills[n].maker_id, fills[n].price,
                      j, book[taker.market][j].price)

NoFillsLeft == pc \in {"idle", "cancel_all"} => fills = <<>>

PriorityInv == FillsInPriority /\ FillsAhead /\ NoFillsLeft

\* A turn of the matching loop keeps the order of the fills: the maker is the
\* best there is, and it is gone if the taker goes on.
LEMMA MatchMakerPriority ==
    ASSUME TypeOK, PriorityInv, NEW i \in OrderIds, MatchMaker(i)
    PROVE  PriorityInv'
  <1> DEFINE m == taker.market
             b == book[m]
             side == taker.side
             other == Opposite(side)
             size == IF taker.remaining <= b[i].remaining
                     THEN taker.remaining ELSE b[i].remaining
             new == [maker |-> b[i].owner, maker_id |-> i, price |-> b[i].price,
                     base_size |-> size, quote_size |-> Notional(size, b[i].price)]
  <1>1. /\ pc = "match" /\ pc' = "match" /\ taker \in TakerOrder
        /\ m \in Markets /\ IsOrderMap(b) /\ fills \in Seq(SpotFill)
        /\ taker.remaining > 0 /\ i \in Resting(b, other)
        /\ \A j \in Resting(b, other) \ {i} : Before(b, i, j)
    BY DEF MatchMaker, Matchable, IsBest, TypeOK, TakerOrder
  <1>2. /\ side \in Sides /\ taker.remaining \in Nat
        /\ \A j \in DOMAIN b : /\ j \in Nat /\ b[j].price \in Int /\ b[j].remaining \in Nat
                               /\ b[j] \in Order
    BY <1>1 DEF TakerOrder, IsOrderMap, Order, OrderIds
  <1>3. /\ i \in DOMAIN b /\ b[i].side = other
        /\ size \in Nat
    BY <1>1, <1>2 DEF Resting
  <1>4. /\ fills' = Append(fills, new)
        /\ taker' = [[taker EXCEPT !.remaining = @ - size] EXCEPT
                       !.filled_reserve =
                           @ + (IF taker.side = "Buy" THEN ToUsdc(Notional(size, b[i].price))
                                ELSE size)]
    BY DEF MatchMaker
  <1>5. /\ taker'.market = m /\ taker'.side = side
        /\ taker'.remaining = taker.remaining - size
    BY <1>1, <1>4 DEF TakerOrder
  <1>6. \A n \in DOMAIN fills : \A j \in Resting(b, other) :
           Ahead(side, fills[n].maker_id, fills[n].price, j, b[j].price)
    BY <1>1 DEF PriorityInv, FillsAhead
  <1>7. \A j \in Resting(b, other) \ {i} : Ahead(side, i, b[i].price, j, b[j].price)
    <2>1. ASSUME NEW j \in Resting(b, other) \ {i}
          PROVE  Ahead(side, i, b[i].price, j, b[j].price)
      <3>1. Before(b, i, j)
        BY <1>1
      <3>2. QED
        BY <1>2, <1>3, <3>1 DEF Before, Ahead, Opposite, Sides
    <2>2. QED
      BY <2>1
  <1>8. /\ DOMAIN fills = 1..Len(fills) /\ Len(fills) \in Nat
        /\ DOMAIN fills' = 1..(Len(fills) + 1)
        /\ fills'[Len(fills) + 1] = new
        /\ \A n \in DOMAIN fills : fills'[n] = fills[n]
    <2> HIDE DEF new
    <2>1. QED
      BY <1>1, <1>4
  <1>9. new.maker_id = i /\ new.price = b[i].price
    OBVIOUS
  <1>10. \A n \in DOMAIN fills :
            Ahead(side, fills[n].maker_id, fills[n].price, i, b[i].price)
    BY <1>1, <1>6
  <1>11. FillsInPriority'
    <2>1. ASSUME NEW n \in DOMAIN fills', NEW k \in DOMAIN fills', n < k
          PROVE  Ahead(side, fills'[n].maker_id, fills'[n].price,
                       fills'[k].maker_id, fills'[k].price)
      <3>1. n \in DOMAIN fills /\ fills'[n] = fills[n]
        BY <1>8, <2>1
      <3>2. CASE k \in DOMAIN fills
        <4>1. fills'[k] = fills[k]
          BY <1>8, <3>2
        <4>2. QED
          BY <2>1, <3>1, <3>2, <4>1
             DEF PriorityInv, FillsInPriority, TakerBuys, Ahead
      <3>3. CASE k \notin DOMAIN fills
        <4>1. fills'[k] = new
          BY <1>8, <3>3
        <4> HIDE DEF new
        <4>2. QED
          BY <1>9, <1>10, <3>1, <4>1
      <3>4. QED
        BY <3>2, <3>3
    <2>2. QED
      BY <1>5, <2>1 DEF FillsInPriority, TakerBuys, Ahead
  <1>12. FillsAhead'
    <2>1. SUFFICES ASSUME taker'.remaining > 0 PROVE FillsAhead'
      BY DEF FillsAhead
    <2>2. size = b[i].remaining
      BY <1>2, <1>3, <1>5, <2>1, SMTT(40)
    <2>3. book' = [book EXCEPT ![m] = RemoveFrom(@, {i})]
      BY <1>2, <1>3, <2>2 DEF MatchMaker, MakerFilled
    <2>4. book'[m] = RemoveFrom(b, {i})
      BY <1>1, <2>3 DEF TypeOK
    <2>5. \A j \in Resting(book'[m], other) :
             j \in Resting(b, other) \ {i} /\ book'[m][j] = b[j]
      BY <2>4 DEF Resting, RemoveFrom, Restrict
    <2>6. ASSUME NEW n \in DOMAIN fills', NEW j \in Resting(book'[m], other)
          PROVE  Ahead(side, fills'[n].maker_id, fills'[n].price, j, book'[m][j].price)
      <3>1. j \in Resting(b, other) \ {i} /\ book'[m][j] = b[j]
        BY <2>5
      <3>2. CASE n \in DOMAIN fills
        BY <1>6, <1>8, <3>1, <3>2
      <3>3. CASE n \notin DOMAIN fills
        <4>1. fills'[n] = new
          BY <1>8, <3>3
        <4> HIDE DEF new
        <4>2. QED
          BY <1>7, <1>9, <3>1, <4>1
      <3>4. QED
        BY <3>2, <3>3
    <2>7. QED
      BY <1>5, <2>6 DEF FillsAhead
  <1>13. NoFillsLeft'
    BY <1>1 DEF NoFillsLeft
  <1>14. QED
    BY <1>11, <1>12, <1>13 DEF PriorityInv

\* Every step keeps the order of the fills.
LEMMA PriorityStep ==
    ASSUME TypeOK, PriorityInv, [Next]_vars
    PROVE  PriorityInv'
  <1>1. CASE fills' = <<>>
    BY <1>1 DEF PriorityInv, FillsInPriority, FillsAhead, NoFillsLeft
  <1>2. ASSUME UNCHANGED <<fills, taker>>,
               \/ pc' = pc /\ UNCHANGED book
               \/ pc' \notin {"idle", "cancel_all", "match"}
        PROVE  PriorityInv'
    BY <1>2 DEF PriorityInv, FillsInPriority, TakerBuys, FillsAhead, NoFillsLeft
  <1>3. ASSUME NEW i \in OrderIds, MatchMaker(i) PROVE PriorityInv'
    BY <1>3, MatchMakerPriority
  <1>4. CASE SyncMakers
    BY <1>2, <1>4 DEF SyncMakers
  <1>5. CASE BuyerPays \/ BuyerReceives \/ SellerPays
    <2>1. CASE EndCall
      BY <1>1, <2>1 DEF EndCall
    <2>2. CASE ~EndCall
      BY <1>2, <1>5, <2>2 DEF BuyerPays, BuyerReceives, SellerPays
    <2>3. QED
      BY <2>1, <2>2
  <1>6. CASE SellerReceives
    <2>1. /\ fills' = Tail(fills) /\ UNCHANGED taker /\ pc' \in {"finish", "buyer_pays"}
          /\ fills \in Seq(SpotFill) /\ fills # <<>>
      BY <1>6 DEF SellerReceives, TypeOK
    <2>2. /\ DOMAIN fills' = 1..(Len(fills) - 1) /\ DOMAIN fills = 1..Len(fills)
          /\ Len(fills) \in Nat
          /\ \A n \in 1..(Len(fills) - 1) : fills'[n] = fills[n + 1]
      BY <2>1
    <2>3. ASSUME NEW n \in DOMAIN fills', NEW k \in DOMAIN fills', n < k
          PROVE  /\ n + 1 \in DOMAIN fills /\ k + 1 \in DOMAIN fills /\ n + 1 < k + 1
                 /\ fills'[n] = fills[n + 1] /\ fills'[k] = fills[k + 1]
      BY <2>2, <2>3
    <2>4. FillsInPriority'
      BY <2>1, <2>3 DEF PriorityInv, FillsInPriority, TakerBuys
    <2>5. QED
      BY <2>1, <2>4 DEF PriorityInv, FillsAhead, NoFillsLeft
  <1>7. CASE FinishOrder
    BY <1>1, <1>7 DEF FinishOrder, EndCall
  <1>8. CASE pc \in {"idle", "cancel_all"} /\ UNCHANGED fills
    BY <1>1, <1>8 DEF PriorityInv, NoFillsLeft
  <1>9. ASSUME NEW a \in Accounts, NEW alloc \in GenesisAllocations, deploy_token(a, alloc)
        PROVE  PriorityInv'
    BY <1>8, <1>9 DEF deploy_token, callVars
  <1>10. ASSUME NEW a \in Accounts, NEW m \in Markets, NEW side \in Sides,
                NEW price \in Prices, NEW size \in Sizes, NEW tif \in TIFs,
                PlaceOrder(a, m, side, price, size, tif)
         PROVE  PriorityInv'
    BY <1>8, <1>10 DEF PlaceOrder
  <1>11. ASSUME NEW a \in Accounts, NEW m \in Markets, NEW id \in OrderIds,
                cancel_order(a, m, id)
         PROVE  PriorityInv'
    BY <1>8, <1>11 DEF cancel_order, callVars
  <1>12. ASSUME NEW a \in Accounts, NEW m \in Markets, cancel_all_orders(a, m)
         PROVE  PriorityInv'
    BY <1>8, <1>12 DEF cancel_all_orders
  <1>13. CASE CancelNext
    BY <1>8, <1>13 DEF CancelNext
  <1>14. ASSUME NEW k \in Keys, NEW amount \in Amounts, NEW d \in BOOLEAN,
                view_transfer(k, amount, d)
         PROVE  PriorityInv'
    BY <1>8, <1>14 DEF view_transfer, callVars
  <1>15. CASE ExternalNext
    BY <1>2, <1>15, ExternalFrame DEF bookVars, callVars
  <1>16. CASE UNCHANGED vars
    BY <1>2, <1>16 DEF vars, bookVars, callVars
  <1>17. CASE EngineNext
    BY <1>17, <1>3, <1>4, <1>5, <1>6, <1>7, <1>9, <1>10, <1>11, <1>12, <1>13, <1>14
       DEF EngineNext, PlaceOrderStep
  <1>18. QED
    BY <1>15, <1>16, <1>17 DEF Next

\* The fills of an order follow price-time priority (the loop of place_order in
\* spot_engine.rs over the keys of orderbook.rs), for any book and order:
\* better prices first, older orders first among equal prices.
THEOREM PriorityRespected == Spec => []FillsInPriority
  <1>1. Init => TypeInv /\ PriorityInv
    <2>1. ASSUME Init PROVE PriorityInv
      BY <2>1 DEF Init, PriorityInv, FillsInPriority, FillsAhead, NoFillsLeft
    <2>2. QED
      BY <2>1, InitType
  <1>2. TypeInv /\ PriorityInv /\ [Next]_vars => TypeInv' /\ PriorityInv'
    BY TypeStep, SweepStep, PriorityStep DEF TypeInv
  <1>3. PriorityInv => FillsInPriority
    BY DEF PriorityInv
  <1>4. QED
    BY <1>1, <1>2, <1>3, PTL DEF Spec

-----------------------------------------------------------------------------
(* Amounts on offer and amounts due *)

\* What account a offers in the order map os with the order of one id.
AskAt(os, a, id) ==
    IF id \in DOMAIN os /\ os[id].owner = a /\ os[id].side = "Sell"
    THEN os[id].remaining ELSE 0

OfferedIn(os, a) == SumFunction([id \in OrderIds |-> AskAt(os, a, id)])

SellerIn(t, f) == IF t.side = "Buy" THEN f.maker ELSE t.owner

\* What account a has to deliver for fill f of the taker t.
DueOf(t, f, a) == IF SellerIn(t, f) = a THEN f.base_size ELSE 0

DueIn(t, fs, a) == SumFunction([i \in 1..Len(fs) |-> DueOf(t, fs[i], a)])

\* What an order offers is a natural number.
LEMMA AskNat ==
    ASSUME NEW os, IsOrderMap(os), NEW a
    PROVE  /\ \A id \in OrderIds : AskAt(os, a, id) \in Nat
           /\ IsFiniteSet(OrderIds)
           /\ OfferedIn(os, a) \in Nat
           /\ \A id \in OrderIds : AskAt(os, a, id) <= OfferedIn(os, a)
  <1> DEFINE f == [id \in OrderIds |-> AskAt(os, a, id)]
  <1>1. \A id \in OrderIds : AskAt(os, a, id) \in Nat
    BY DEF IsOrderMap, Order, AskAt
  <1>2. IsFiniteSet(OrderIds)
    BY FS_Interval, BoundsAssumption DEF OrderIds
  <1>3. f \in [OrderIds -> Nat] /\ \A id \in OrderIds : f[id] = AskAt(os, a, id)
    BY <1>1
  <1>4. OfferedIn(os, a) = SumFunction(f)
    BY DEF OfferedIn
  <1> HIDE DEF f
  <1>5. SumFunction(f) \in Nat /\ \A id \in OrderIds : f[id] <= SumFunction(f)
    BY <1>2, <1>3, SumNat
  <1>6. QED
    BY <1>1, <1>2, <1>3, <1>4, <1>5

\* The sum over the asks of an account is the sum over all ids.
LEMMA OfferedIs ==
    ASSUME TypeOK, NEW a \in Accounts, NEW m \in Markets
    PROVE  Offered(a, m) = OfferedIn(orders[m], a)
  <1> DEFINE os == orders[m]
             asks == {id \in DOMAIN os : os[id].owner = a /\ os[id].side = "Sell"}
             f == [id \in OrderIds |-> AskAt(os, a, id)]
             g == [id \in asks |-> os[id].remaining]
  <1>1. IsOrderMap(os)
    BY DEF TypeOK
  <1>2. asks \in SUBSET OrderIds /\ IsFiniteSet(OrderIds)
    BY <1>1, AskNat DEF IsOrderMap
  <1>3. \A id \in OrderIds : AskAt(os, a, id) \in Int
    BY <1>1, AskNat
  <1>4. \A id \in asks : os[id].remaining = AskAt(os, a, id)
    BY DEF AskAt
  <1>5. \A id \in OrderIds \ asks : AskAt(os, a, id) = 0
    BY DEF AskAt
  <1>6. Offered(a, m) = SumFunction(g)
    BY DEF Offered
  <1>7. OfferedIn(os, a) = SumFunction(f)
    BY DEF OfferedIn
  <1> HIDE DEF os, asks
  <1>8. /\ f \in [OrderIds -> Int] /\ g \in [asks -> Int]
        /\ \A id \in asks : g[id] = f[id]
        /\ \A id \in OrderIds \ asks : f[id] = 0
    BY <1>2, <1>3, <1>4, <1>5
  <1> HIDE DEF f, g
  <1>9. SumFunction(g) = SumFunction(f)
    BY <1>2, <1>8, SumSupport
  <1>10. QED
    BY <1>6, <1>7, <1>9 DEF os

\* Changing, adding or removing one order changes what is on offer by that
\* order.
LEMMA OfferedChange ==
    ASSUME NEW os, NEW ps, IsOrderMap(os), IsOrderMap(ps), NEW i \in OrderIds, NEW a,
           \A j \in OrderIds \ {i} : /\ j \in DOMAIN ps <=> j \in DOMAIN os
                                     /\ j \in DOMAIN os => ps[j] = os[j]
    PROVE  OfferedIn(ps, a) = OfferedIn(os, a) - AskAt(os, a, i) + AskAt(ps, a, i)
  <1> DEFINE f == [id \in OrderIds |-> AskAt(os, a, id)]
             g == [id \in OrderIds |-> AskAt(ps, a, id)]
  <1>1. /\ IsFiniteSet(OrderIds)
        /\ \A id \in OrderIds : AskAt(os, a, id) \in Int
        /\ \A id \in OrderIds : AskAt(ps, a, id) \in Int
    <2>1. IsFiniteSet(OrderIds) /\ \A id \in OrderIds : AskAt(os, a, id) \in Nat
      BY AskNat
    <2>2. \A id \in OrderIds : AskAt(ps, a, id) \in Nat
      BY AskNat
    <2>3. QED
      BY <2>1, <2>2
  <1>2. \A j \in OrderIds \ {i} : AskAt(ps, a, j) = AskAt(os, a, j)
    BY DEF AskAt
  <1>3. /\ f \in [OrderIds -> Int] /\ g \in [OrderIds -> Int]
        /\ \A j \in OrderIds \ {i} : g[j] = f[j]
        /\ f[i] = AskAt(os, a, i) /\ g[i] = AskAt(ps, a, i)
    BY <1>1, <1>2
  <1>4. OfferedIn(os, a) = SumFunction(f) /\ OfferedIn(ps, a) = SumFunction(g)
    BY DEF OfferedIn
  <1> HIDE DEF f, g
  <1>5. SumFunction(g) = SumFunction(f) - f[i] + g[i]
    BY <1>1, <1>3, SumChange
  <1>6. QED
    BY <1>3, <1>4, <1>5

\* Taking order i out of a map, and writing an order under id i.
LEMMA OfferedOperations ==
    ASSUME NEW os, IsOrderMap(os), NEW i \in OrderIds, NEW o \in Order, NEW a
    PROVE  /\ OfferedIn(RemoveFrom(os, {i}), a) = OfferedIn(os, a) - AskAt(os, a, i)
           /\ OfferedIn(Insert(os, i, o), a)
                = OfferedIn(os, a) - AskAt(os, a, i)
                    + (IF o.owner = a /\ o.side = "Sell" THEN o.remaining ELSE 0)
  <1> DEFINE ps == RemoveFrom(os, {i})
             qs == Insert(os, i, o)
  <1>1. IsOrderMap(ps) /\ IsOrderMap(qs)
    BY OrderMapOperations
  <1>2. /\ \A j \in OrderIds \ {i} : /\ j \in DOMAIN ps <=> j \in DOMAIN os
                                     /\ j \in DOMAIN os => ps[j] = os[j]
        /\ AskAt(ps, a, i) = 0
    BY DEF RemoveFrom, Restrict, AskAt
  <1>3. /\ \A j \in OrderIds \ {i} : /\ j \in DOMAIN qs <=> j \in DOMAIN os
                                     /\ j \in DOMAIN os => qs[j] = os[j]
        /\ AskAt(qs, a, i) = IF o.owner = a /\ o.side = "Sell" THEN o.remaining ELSE 0
    BY DEF Insert, AskAt
  <1>4. OfferedIn(os, a) \in Nat /\ AskAt(os, a, i) \in Nat
    BY AskNat
  <1> HIDE DEF ps, qs
  <1>5. /\ OfferedIn(ps, a) = OfferedIn(os, a) - AskAt(os, a, i) + AskAt(ps, a, i)
        /\ OfferedIn(qs, a) = OfferedIn(os, a) - AskAt(os, a, i) + AskAt(qs, a, i)
    BY <1>1, <1>2, <1>3, OfferedChange
  <1>6. QED
    BY <1>2, <1>3, <1>4, <1>5 DEF ps, qs

\* What is due for no fills, for one fill more and for the fills after the
\* first.
LEMMA DueOperations ==
    ASSUME NEW t, NEW fs \in Seq(SpotFill), NEW a
    PROVE  /\ DueIn(t, fs, a) \in Nat
           /\ fs = <<>> => DueIn(t, fs, a) = 0
           /\ \A f \in SpotFill : DueIn(t, Append(fs, f), a) = DueIn(t, fs, a) + DueOf(t, f, a)
           /\ fs # <<>> => /\ DueOf(t, Head(fs), a) \in Nat
                           /\ DueIn(t, fs, a) = DueOf(t, Head(fs), a) + DueIn(t, Tail(fs), a)
  <1>1. \A f \in SpotFill : DueOf(t, f, a) \in Nat
    BY DEF DueOf, SpotFill
  <1> DEFINE w(s) == [i \in 1..Len(s) |-> DueOf(t, s[i], a)]
  <1>2. \A s : DueIn(t, s, a) = SumFunction(w(s))
    BY DEF DueIn
  <1>3. \A s \in Seq(SpotFill) : /\ Len(s) \in Nat /\ w(s) \in [1..Len(s) -> Nat]
                                 /\ w(s) \in [1..Len(s) -> Int]
                                 /\ IsFiniteSet(1..Len(s))
    <2>1. \A s \in Seq(SpotFill) : Len(s) \in Nat /\ \A i \in 1..Len(s) : s[i] \in SpotFill
      OBVIOUS
    <2>2. \A s \in Seq(SpotFill) : \A i \in 1..Len(s) : DueOf(t, s[i], a) \in Nat
      BY <1>1, <2>1
    <2>3. \A s \in Seq(SpotFill) : w(s) \in [1..Len(s) -> Nat] /\ w(s) \in [1..Len(s) -> Int]
      BY <2>2
    <2>4. \A s \in Seq(SpotFill) : IsFiniteSet(1..Len(s))
      BY <2>1, FS_Interval
    <2> HIDE DEF w
    <2>5. QED
      BY <2>1, <2>3, <2>4
  <1>4. DueIn(t, fs, a) \in Nat
    <2> HIDE DEF w
    <2>1. QED
      BY <1>2, <1>3, SumNat
  <1>5. ASSUME fs = <<>> PROVE DueIn(t, fs, a) = 0
    <2>1. Len(fs) = 0 /\ 1..Len(fs) = {}
      BY <1>5
    <2> HIDE DEF w
    <2>2. QED
      BY <1>2, <1>3, <2>1, SumType
  <1>6. ASSUME NEW f \in SpotFill
        PROVE  DueIn(t, Append(fs, f), a) = DueIn(t, fs, a) + DueOf(t, f, a)
    <2> DEFINE gs == Append(fs, f)
    <2>1. /\ gs \in Seq(SpotFill) /\ Len(gs) = Len(fs) + 1 /\ gs[Len(fs) + 1] = f
          /\ \A i \in 1..Len(fs) : gs[i] = fs[i]
      OBVIOUS
    <2> HIDE DEF gs
    <2>2. /\ \A i \in 1..Len(fs) : w(gs)[i] = w(fs)[i]
          /\ w(gs)[Len(fs) + 1] = DueOf(t, f, a)
          /\ w(gs) \in [1..(Len(fs) + 1) -> Int]
      BY <2>1, <1>3, SMTT(40)
    <2> HIDE DEF w
    <2>3. SumFunction(w(gs)) = SumFunction(w(fs)) + w(gs)[Len(fs) + 1]
      BY <2>2, <1>3, SumLast
    <2>4. QED
      BY <1>2, <2>2, <2>3 DEF gs
  <1>7. ASSUME fs # <<>>
        PROVE  /\ DueOf(t, Head(fs), a) \in Nat
               /\ DueIn(t, fs, a) = DueOf(t, Head(fs), a) + DueIn(t, Tail(fs), a)
    <2> DEFINE gs == Tail(fs)
               n == Len(gs)
    <2>1. /\ gs \in Seq(SpotFill) /\ n \in Nat /\ Len(fs) = n + 1 /\ fs[1] = Head(fs)
          /\ Head(fs) \in SpotFill /\ \A i \in 1..n : gs[i] = fs[i + 1]
      BY <1>7
    <2> HIDE DEF gs
    <2>2. /\ \A i \in 1..n : w(gs)[i] = w(fs)[i + 1]
          /\ w(fs)[1] = DueOf(t, Head(fs), a)
          /\ w(gs) \in [1..n -> Int] /\ w(fs) \in [1..(n + 1) -> Int]
      <3>1. w(gs) \in [1..n -> Int] /\ w(fs) \in [1..(n + 1) -> Int]
        <4> HIDE DEF w
        <4>1. QED
          BY <2>1, <1>3
      <3>2. \A i \in 1..n : i + 1 \in 1..Len(fs)
        BY <2>1
      <3>3. 1 \in 1..Len(fs)
        BY <2>1
      <3>4. QED
        BY <2>1, <3>1, <3>2, <3>3
    <2> HIDE DEF w
    <2>3. SumFunction(w(fs)) = w(fs)[1] + SumFunction(w(gs))
      BY <2>1, <2>2, SumTail
    <2>4. QED
      BY <1>1, <1>2, <2>1, <2>2, <2>3 DEF gs
  <1>8. QED
    BY <1>4, <1>5, <1>6, <1>7

-----------------------------------------------------------------------------
(* The orders map catches up with the book after every matching loop. *)

\* What one iteration of the matching loop does, z being the size of the fill f
\* and o the maker that is left.
Turn(i, z, f, o) ==
    LET m == taker.market
        b == book[m]
    IN  /\ pc = "match" /\ taker \in TakerOrder /\ m \in Markets
        /\ IsOrderMap(b) /\ i \in DOMAIN b /\ b[i].side = Opposite(taker.side)
        /\ taker.remaining > 0 /\ z <= taker.remaining /\ z <= b[i].remaining
        /\ b[i].remaining > 0 => z > 0
        /\ fills' = Append(fills, f) /\ f.maker = b[i].owner /\ f.base_size = z
        /\ taker'.market = m /\ taker'.side = taker.side /\ taker'.owner = taker.owner
        /\ taker'.reserve = taker.reserve /\ taker'.remaining = taker.remaining - z
        /\ taker.side = "Sell" => taker'.filled_reserve = taker.filled_reserve + z
        /\ UNCHANGED <<pc, orders, reserved>>
        /\ \/ /\ z = b[i].remaining
              /\ book' = [book EXCEPT ![m] = RemoveFrom(b, {i})]
              /\ filled_makers' = filled_makers \cup {i}
              /\ partial_makers' = partial_makers
           \/ /\ z < b[i].remaining
              /\ o = [b[i] EXCEPT !.remaining = b[i].remaining - z]
              /\ book' = [book EXCEPT ![m] = Insert(b, i, o)]
              /\ partial_makers' = Insert(partial_makers, i, b[i].remaining - z)
              /\ filled_makers' = filled_makers

\* MatchMaker is such an iteration.
LEMMA MatchFacts ==
    ASSUME TypeOK, NEW i \in OrderIds, MatchMaker(i)
    PROVE  \E z \in Nat, f \in SpotFill, o \in Order : Turn(i, z, f, o)
  <1> DEFINE m == taker.market
             b == book[m]
             z == IF taker.remaining <= b[i].remaining
                  THEN taker.remaining ELSE b[i].remaining
             q == Notional(z, b[i].price)
             f == [maker |-> b[i].owner, maker_id |-> i, price |-> b[i].price,
                   base_size |-> z, quote_size |-> q]
             o == [b[i] EXCEPT !.remaining = b[i].remaining - z]
  <1>1. /\ pc = "match" /\ pc' = "match" /\ taker \in TakerOrder /\ m \in Markets
        /\ IsOrderMap(b) /\ taker.remaining > 0 /\ i \in DOMAIN b
        /\ b[i].side = Opposite(taker.side) /\ UNCHANGED <<pc, orders, reserved>>
    BY DEF MatchMaker, Matchable, IsBest, Resting, TypeOK, TakerOrder
  <1>2. /\ taker.remaining \in Nat /\ b[i] \in Order /\ b[i].remaining \in Nat
        /\ b[i].price \in Int /\ b[i].owner \in Accounts
    BY <1>1 DEF TakerOrder, IsOrderMap, Order
  <1>3. /\ z \in Nat /\ z <= taker.remaining /\ z <= b[i].remaining
        /\ b[i].remaining > 0 => z > 0
        /\ b[i].remaining <= z <=> z = b[i].remaining
        /\ b[i].remaining - z \in Nat
    BY <1>1, <1>2
  <1>4. q \in Int
    BY <1>2, <1>3, Conversions
  <1>5. /\ fills' = Append(fills, f)
        /\ taker' = [[taker EXCEPT !.remaining = @ - z] EXCEPT
                       !.filled_reserve = @ + (IF taker.side = "Buy" THEN ToUsdc(q) ELSE z)]
    BY DEF MatchMaker
  <1>6. \/ /\ b[i].remaining <= z
           /\ book' = [book EXCEPT ![m] = RemoveFrom(@, {i})]
           /\ filled_makers' = filled_makers \cup {i}
           /\ partial_makers' = partial_makers
        \/ /\ ~(b[i].remaining <= z)
           /\ book' = [book EXCEPT ![m] = Insert(@, i, [b[i] EXCEPT !.remaining = @ - z])]
           /\ partial_makers' = Insert(partial_makers, i, b[i].remaining - z)
           /\ filled_makers' = filled_makers
    BY DEF MatchMaker, MakerFilled
  <1> HIDE DEF z, q
  <1>7. f \in SpotFill /\ f.maker = b[i].owner /\ f.base_size = z
    BY <1>2, <1>3, <1>4 DEF SpotFill
  <1>8. /\ o \in Order /\ o = [b[i] EXCEPT !.remaining = @ - z]
    BY <1>2, <1>3 DEF Order
  <1>9. /\ taker'.market = m /\ taker'.side = taker.side /\ taker'.owner = taker.owner
        /\ taker'.reserve = taker.reserve /\ taker'.remaining = taker.remaining - z
        /\ taker.side = "Sell" => taker'.filled_reserve = taker.filled_reserve + z
    BY <1>1, <1>5 DEF TakerOrder
  <1>10. \/ /\ z = b[i].remaining
            /\ book' = [book EXCEPT ![m] = RemoveFrom(b, {i})]
            /\ filled_makers' = filled_makers \cup {i}
            /\ partial_makers' = partial_makers
         \/ /\ z < b[i].remaining
            /\ book' = [book EXCEPT ![m] = Insert(b, i, o)]
            /\ partial_makers' = Insert(partial_makers, i, b[i].remaining - z)
            /\ filled_makers' = filled_makers
    <2> HIDE DEF o
    <2>1. CASE b[i].remaining <= z
      BY <2>1, <1>1, <1>3, <1>6 DEF TypeOK
    <2>2. CASE ~(b[i].remaining <= z)
      BY <2>2, <1>1, <1>2, <1>3, <1>6, <1>8 DEF TypeOK
    <2>3. QED
      BY <2>1, <2>2
  <1> HIDE DEF f
  <1>11. o = [b[i] EXCEPT !.remaining = b[i].remaining - z]
    OBVIOUS
  <1> HIDE DEF o
  <1>12. Turn(i, z, f, o)
    BY <1>1, <1>3, <1>5, <1>7, <1>9, <1>10, <1>11 DEF Turn
  <1>13. QED
    BY <1>3, <1>7, <1>8, <1>12

\* The orders map os without the ids F and with the sizes P.
Synced(os, F, P) ==
    LET kept == RemoveFrom(os, F)
    IN  [i \in DOMAIN kept |->
           IF i \in DOMAIN P THEN [kept[i] EXCEPT !.remaining = P[i]] ELSE kept[i]]

\* One more maker filled, or partly filled, is one order less, or one order
\* with a new size, in the synced map.
LEMMA SyncedChange ==
    ASSUME NEW os, IsOrderMap(os), NEW F, NEW P, NEW i \in DOMAIN Synced(os, F, P)
    PROVE  /\ Synced(os, F \cup {i}, P) = RemoveFrom(Synced(os, F, P), {i})
           /\ \A n \in Nat :
                Synced(os, F, Insert(P, i, n))
                  = Insert(Synced(os, F, P), i, [Synced(os, F, P)[i] EXCEPT !.remaining = n])
  <1> SUFFICES ASSUME NEW n \in Nat
               PROVE  /\ Synced(os, F \cup {i}, P) = RemoveFrom(Synced(os, F, P), {i})
                      /\ Synced(os, F, Insert(P, i, n))
                           = Insert(Synced(os, F, P), i,
                                    [Synced(os, F, P)[i] EXCEPT !.remaining = n])
    BY 0 \in Nat
  <1> DEFINE b == Synced(os, F, P)
             c == Synced(os, F \cup {i}, P)
             d == Synced(os, F, Insert(P, i, n))
             e == Insert(b, i, [b[i] EXCEPT !.remaining = n])
  <1>1. /\ DOMAIN b = DOMAIN os \ F
        /\ \A j \in DOMAIN b : b[j] = IF j \in DOMAIN P THEN [os[j] EXCEPT !.remaining = P[j]]
                                      ELSE os[j]
        /\ b = [j \in DOMAIN b |-> b[j]]
    BY DEF Synced, RemoveFrom, Restrict
  <1>2. /\ DOMAIN c = DOMAIN os \ (F \cup {i})
        /\ \A j \in DOMAIN c : c[j] = IF j \in DOMAIN P THEN [os[j] EXCEPT !.remaining = P[j]]
                                      ELSE os[j]
        /\ c = [j \in DOMAIN c |-> c[j]]
    BY DEF Synced, RemoveFrom, Restrict
  <1>3. /\ DOMAIN d = DOMAIN os \ F
        /\ \A j \in DOMAIN d : d[j] = IF j \in DOMAIN P \cup {i}
                                      THEN [os[j] EXCEPT !.remaining = IF j = i THEN n ELSE P[j]]
                                      ELSE os[j]
        /\ d = [j \in DOMAIN d |-> d[j]]
    BY DEF Synced, RemoveFrom, Restrict, Insert
  <1>4. i \in DOMAIN b /\ os[i] \in Order
    BY <1>1 DEF IsOrderMap
  <1> HIDE DEF b, c, d
  <1>5. c = RemoveFrom(b, {i})
    <2>1. DOMAIN c = DOMAIN b \ {i} /\ \A j \in DOMAIN c : c[j] = b[j]
      BY <1>1, <1>2
    <2>2. QED
      BY <1>2, <2>1 DEF RemoveFrom, Restrict
  <1>6. d = e
    <2>1. [b[i] EXCEPT !.remaining = n] = [os[i] EXCEPT !.remaining = n]
      BY <1>1, <1>4 DEF Order
    <2>2. /\ DOMAIN e = DOMAIN b \cup {i} /\ e = [j \in DOMAIN e |-> e[j]]
          /\ \A j \in DOMAIN b : e[j] = IF j = i THEN [b[i] EXCEPT !.remaining = n] ELSE b[j]
      BY DEF Insert
    <2> HIDE DEF e
    <2>3. \A j \in DOMAIN b : d[j] = e[j]
      <3>1. TAKE j \in DOMAIN b
      <3>2. CASE j = i
        BY <1>1, <1>3, <1>4, <2>1, <2>2, <3>2
      <3>3. CASE j # i
        BY <1>1, <1>3, <2>2, <3>3
      <3>4. QED
        BY <3>2, <3>3
    <2>4. DOMAIN d = DOMAIN b /\ DOMAIN e = DOMAIN b
      BY <1>1, <1>3, <1>4, <2>2
    <2>5. QED
      BY <1>3, <2>2, <2>3, <2>4
  <1>7. QED
    BY <1>5, <1>6 DEF b, c, d

\* The call that holds the lock is place_order.
InCall == pc \notin {"idle", "cancel_all"}

\* The book holds the orders of the orders map; during the matching loop, those
\* that the map will hold when it has caught up.
BookSynced ==
    /\ pc # "match" => filled_makers = {} /\ DOMAIN partial_makers = {}
    /\ \A m \in Markets :
         book[m] = IF pc = "match" /\ m = taker.market
                   THEN Synced(orders[m], filled_makers, partial_makers)
                   ELSE orders[m]

\* Nothing of size zero rests or is filled, and a seller reserves exactly what
\* is left to sell and what its fills will deliver.
SizesKept ==
    /\ \A m \in Markets : \A i \in DOMAIN book[m] : book[m][i].remaining > 0
    /\ \A n \in 1..Len(fills) : fills[n].base_size > 0
    /\ InCall /\ taker.side = "Sell" => taker.reserve = taker.remaining + taker.filled_reserve

SyncInv == BookSynced /\ SizesKept

\* Nothing is left out of or changed in an orders map by empty corrections.
LEMMA SyncedNone ==
    ASSUME NEW os, IsOrderMap(os), NEW P, DOMAIN P = {}
    PROVE  Synced(os, {}, P) = os
  <1>1. os = [i \in DOMAIN os |-> os[i]]
    BY DEF IsOrderMap
  <1>2. QED
    BY <1>1 DEF Synced, RemoveFrom, Restrict

\* A turn of the matching loop changes the book and what the map lags behind
\* alike.
LEMMA MatchMakerSync ==
    ASSUME TypeOK, SyncInv, NEW i \in OrderIds, MatchMaker(i)
    PROVE  SyncInv'
  <1> DEFINE m == taker.market
             b == book[m]
  <1>0. PICK z \in Nat, f \in SpotFill, o \in Order : Turn(i, z, f, o)
    BY MatchFacts
  <1>1. /\ pc = "match" /\ taker \in TakerOrder /\ m \in Markets
        /\ IsOrderMap(b) /\ i \in DOMAIN b
        /\ z <= taker.remaining
        /\ b[i].remaining > 0 => z > 0
        /\ fills' = Append(fills, f) /\ f.base_size = z
        /\ taker'.market = m /\ taker'.side = taker.side
        /\ taker'.reserve = taker.reserve /\ taker'.remaining = taker.remaining - z
        /\ taker.side = "Sell" => taker'.filled_reserve = taker.filled_reserve + z
        /\ UNCHANGED <<pc, orders>>
        /\ \/ /\ z = b[i].remaining
              /\ book' = [book EXCEPT ![m] = RemoveFrom(b, {i})]
              /\ filled_makers' = filled_makers \cup {i}
              /\ partial_makers' = partial_makers
           \/ /\ z < b[i].remaining
              /\ o = [b[i] EXCEPT !.remaining = b[i].remaining - z]
              /\ book' = [book EXCEPT ![m] = Insert(b, i, o)]
              /\ partial_makers' = Insert(partial_makers, i, b[i].remaining - z)
              /\ filled_makers' = filled_makers
    BY <1>0 DEF Turn
  <1>2. /\ b = Synced(orders[m], filled_makers, partial_makers) /\ IsOrderMap(orders[m])
        /\ \A x \in Markets \ {m} : book[x] = orders[x]
        /\ b[i] \in Order /\ b[i].remaining \in Nat /\ b[i].remaining > 0 /\ DOMAIN book = Markets
    BY <1>1 DEF SyncInv, BookSynced, SizesKept, TypeOK, IsOrderMap, Order
  <1>3. /\ b[i].remaining - z \in Int
        /\ z < b[i].remaining => b[i].remaining - z \in Nat /\ b[i].remaining - z > 0
    BY <1>1, <1>2
  <1>4. /\ book'[m] = Synced(orders[m], filled_makers', partial_makers')
        /\ \A j \in DOMAIN book'[m] : book'[m][j].remaining > 0
    <2> DEFINE os == orders[m]
    <2>0. /\ Synced(os, filled_makers \cup {i}, partial_makers) = RemoveFrom(b, {i})
          /\ \A n \in Nat : Synced(os, filled_makers, Insert(partial_makers, i, n))
                              = Insert(b, i, [b[i] EXCEPT !.remaining = n])
      <3>1. i \in DOMAIN Synced(os, filled_makers, partial_makers) /\ IsOrderMap(os)
        BY <1>1, <1>2
      <3> HIDE DEF os, b
      <3>2. QED
        BY <1>2, <3>1, SyncedChange DEF os
    <2>1. \A j \in DOMAIN b : b[j].remaining > 0
      BY <1>1 DEF SyncInv, SizesKept
    <2>2. CASE book' = [book EXCEPT ![m] = RemoveFrom(b, {i})] /\ filled_makers' = filled_makers \cup {i}
               /\ partial_makers' = partial_makers
      <3>1. book'[m] = RemoveFrom(b, {i})
        BY <1>1, <1>2, <2>2
      <3>2. Synced(orders[m], filled_makers \cup {i}, partial_makers) = RemoveFrom(b, {i})
        BY <2>0
      <3>3. \A j \in DOMAIN RemoveFrom(b, {i}) : RemoveFrom(b, {i})[j].remaining > 0
        BY <2>1 DEF RemoveFrom, Restrict
      <3>4. QED
        BY <2>2, <3>1, <3>2, <3>3
    <2>3. CASE /\ z < b[i].remaining
               /\ o = [b[i] EXCEPT !.remaining = b[i].remaining - z]
               /\ book' = [book EXCEPT ![m] = Insert(b, i, o)]
               /\ partial_makers' = Insert(partial_makers, i, b[i].remaining - z)
               /\ filled_makers' = filled_makers
      <3>1. book'[m] = Insert(b, i, o)
        BY <1>1, <1>2, <2>3
      <3>2. b[i].remaining - z \in Nat
        BY <1>3, <2>3
      <3>3. Synced(orders[m], filled_makers, Insert(partial_makers, i, b[i].remaining - z))
              = Insert(b, i, o)
        BY <2>0, <2>3, <3>2
      <3>4. o.remaining > 0
        BY <1>2, <1>3, <2>3 DEF Order
      <3>5. \A j \in DOMAIN Insert(b, i, o) : Insert(b, i, o)[j].remaining > 0
        BY <2>1, <3>4 DEF Insert
      <3>6. QED
        BY <2>3, <3>1, <3>3, <3>5
    <2>4. QED
      BY <1>1, <2>2, <2>3
  <1>5. \A x \in Markets \ {m} : book'[x] = book[x]
    BY <1>1, <1>2
  <1>6. BookSynced'
    BY <1>1, <1>2, <1>4, <1>5 DEF BookSynced
  <1>7. \A n \in 1..Len(fills') : fills'[n].base_size > 0
    <2>1. /\ Len(fills') = Len(fills) + 1 /\ fills'[Len(fills) + 1] = f
          /\ \A n \in 1..Len(fills) : fills'[n] = fills[n]
          /\ Len(fills) \in Nat
      BY <1>1 DEF TypeOK
    <2>2. \A n \in 1..Len(fills) : fills[n].base_size > 0
      BY DEF SyncInv, SizesKept
    <2>3. \A n \in 1..(Len(fills) + 1) : n \in 1..Len(fills) \/ n = Len(fills) + 1
      BY <2>1
    <2>4. f.base_size > 0
      BY <1>1, <1>2
    <2>5. QED
      BY <2>1, <2>2, <2>3, <2>4
  <1>8. taker'.side = "Sell" => taker'.reserve = taker'.remaining + taker'.filled_reserve
    <2>1. SUFFICES ASSUME taker'.side = "Sell"
                   PROVE  taker'.reserve = taker'.remaining + taker'.filled_reserve
      OBVIOUS
    <2>2. taker.side = "Sell" /\ taker.reserve = taker.remaining + taker.filled_reserve
      BY <1>1, <2>1 DEF SyncInv, SizesKept, InCall
    <2>3. taker.remaining \in Nat /\ taker.filled_reserve \in Int
      BY <1>1 DEF TakerOrder
    <2>4. QED
      BY <1>1, <2>2, <2>3
  <1>9. SizesKept'
    BY <1>4, <1>5, <1>7, <1>8 DEF SyncInv, SizesKept
  <1>10. QED
    BY <1>6, <1>9 DEF SyncInv

\* Every step keeps the book and the orders map together.
LEMMA SyncStep ==
    ASSUME TypeOK, SweepInv, NoFillsLeft, SyncInv, [Next]_vars
    PROVE  SyncInv'
  <1>1. CASE UNCHANGED <<bookVars, callVars>>
    BY <1>1 DEF SyncInv, BookSynced, SizesKept, InCall, bookVars, callVars
  <1>2. ASSUME NEW i \in OrderIds, MatchMaker(i) PROVE SyncInv'
    BY <1>2, MatchMakerSync
  <1>3. CASE SyncMakers
    <2> DEFINE m == taker.market
    <2>1. /\ pc = "match" /\ m \in Markets /\ DOMAIN orders = Markets
          /\ pc' \in {"finish", "buyer_pays"} /\ filled_makers' = {} /\ partial_makers' = EmptyMap
          /\ UNCHANGED <<book, taker, fills>>
      BY <1>3 DEF SyncMakers, TypeOK, TakerOrder
    <2>2. orders' = [orders EXCEPT ![m] = Synced(orders[m], filled_makers, partial_makers)]
      BY <1>3 DEF SyncMakers, SyncedOrders, Synced
    <2>3. \A x \in Markets : book'[x] = orders'[x]
      BY <2>1, <2>2 DEF SyncInv, BookSynced
    <2>4. BookSynced'
      BY <2>1, <2>3 DEF BookSynced, EmptyMap
    <2>5. SizesKept'
      BY <2>1 DEF SyncInv, SizesKept, InCall
    <2>6. QED
      BY <2>4, <2>5 DEF SyncInv
  <1>4. CASE BuyerPays \/ BuyerReceives \/ SellerPays \/ SellerReceives
    <2>1. /\ pc \in ApplyPcs /\ pc' # "match" /\ UNCHANGED <<book, orders>>
          /\ EndCall \/ UNCHANGED <<filled_makers, partial_makers>>
      BY <1>4 DEF BuyerPays, BuyerReceives, SellerPays, SellerReceives, ApplyPcs, bookVars, EndCall
    <2>2. BookSynced'
      BY <2>1 DEF SyncInv, BookSynced, ApplyPcs, EndCall, EmptyMap
    <2>3. InCall /\ (InCall' => UNCHANGED taker)
      BY <1>4, <2>1 DEF InCall, ApplyPcs, BuyerPays, BuyerReceives, SellerPays, SellerReceives,
            EndCall
    <2>4. \A n \in 1..Len(fills') : fills'[n].base_size > 0
      <3>1. CASE fills' = fills
        BY <3>1 DEF SyncInv, SizesKept
      <3>2. CASE fills' = <<>>
        BY <3>2
      <3>3. CASE fills' = Tail(fills)
        <4>1. fills # <<>> /\ fills \in Seq(SpotFill)
          BY <2>1 DEF ApplyPcs, TypeOK
        <4>2. \A n \in 1..Len(fills') : n + 1 \in 1..Len(fills) /\ fills'[n] = fills[n + 1]
          BY <3>3, <4>1
        <4>3. QED
          BY <4>2 DEF SyncInv, SizesKept
      <3>4. QED
        BY <1>4, <3>1, <3>2, <3>3 DEF BuyerPays, BuyerReceives, SellerPays, SellerReceives, EndCall
    <2>5. SizesKept'
      BY <2>1, <2>3, <2>4 DEF SyncInv, SizesKept
    <2>6. QED
      BY <2>2, <2>5 DEF SyncInv
  <1>5. CASE FinishOrder
    <2> DEFINE m == taker.market
               o == RestingOrder(taker)
    <2>1. /\ pc = "finish" /\ pc' = "idle" /\ EndCall /\ fills' = <<>> /\ m \in Markets
          /\ filled_makers' = {} /\ partial_makers' = EmptyMap
      BY <1>5 DEF FinishOrder, EndCall, TypeOK, TakerOrder
    <2>2. \A x \in Markets : book[x] = orders[x]
      BY <2>1 DEF SyncInv, BookSynced
    <2>3. CASE UNCHANGED <<orders, book>>
      BY <2>1, <2>2, <2>3 DEF SyncInv, BookSynced, SizesKept, InCall, EmptyMap
    <2>4. CASE /\ taker.remaining > 0
               /\ orders' = [orders EXCEPT ![m] = Insert(@, taker.id, o)]
               /\ book' = [book EXCEPT ![m] = Insert(@, taker.id, o)]
      <3>1. o.remaining > 0
        BY <2>4 DEF RestingOrder
      <3>2. \A x \in Markets : /\ book'[x] = orders'[x]
                               /\ book'[x] = IF x = m THEN Insert(book[m], taker.id, o) ELSE book[x]
        BY <2>1, <2>2, <2>4 DEF TypeOK
      <3>3. \A x \in Markets : \A j \in DOMAIN book'[x] : book'[x][j].remaining > 0
        <4> HIDE DEF o
        <4>1. \A x \in Markets : \A j \in DOMAIN book[x] : book[x][j].remaining > 0
          BY DEF SyncInv, SizesKept
        <4>2. \A j \in DOMAIN Insert(book[m], taker.id, o) : Insert(book[m], taker.id, o)[j].remaining > 0
          BY <4>1, <3>1, <2>1 DEF Insert
        <4>3. QED
          BY <4>1, <4>2, <3>2
      <3>4. QED
        BY <2>1, <3>2, <3>3 DEF SyncInv, BookSynced, SizesKept, InCall, EmptyMap
    <2>5. QED
      BY <1>5, <2>3, <2>4 DEF FinishOrder
  <1>6. ASSUME NEW m \in Markets, NEW id, Cancel(m, id), pc \in {"idle", "cancel_all"},
               pc' \in {"idle", "cancel_all"}, UNCHANGED <<fills, filled_makers, partial_makers>>
        PROVE  SyncInv'
    <2>1. \A x \in Markets : book[x] = orders[x]
      BY <1>6 DEF SyncInv, BookSynced
    <2>2. \A x \in Markets :
             /\ book'[x] = orders'[x]
             /\ book'[x] = IF x = m THEN RemoveFrom(book[m], {id}) ELSE book[x]
      BY <1>6, <2>1 DEF Cancel, TypeOK
    <2>3. \A x \in Markets : \A j \in DOMAIN book'[x] : book'[x][j].remaining > 0
      BY <2>2 DEF SyncInv, SizesKept, RemoveFrom, Restrict
    <2>4. BookSynced'
      BY <1>6, <2>2 DEF SyncInv, BookSynced
    <2>5. SizesKept'
      BY <1>6, <2>3 DEF SyncInv, SizesKept, InCall
    <2>6. QED
      BY <2>4, <2>5 DEF SyncInv
  <1>7. ASSUME NEW a \in Accounts, NEW m \in Markets, NEW id \in OrderIds, cancel_order(a, m, id)
        PROVE  SyncInv'
    BY <1>6, <1>7 DEF cancel_order, callVars
  <1>8. CASE CancelNext
    <2>1. PICK x \in todo : Cancel(x[1], x[2])
      BY <1>8 DEF CancelNext
    <2>2. x[1] \in Markets
      BY <2>1 DEF TypeOK
    <2>3. QED
      BY <1>6, <1>8, <2>1, <2>2 DEF CancelNext
  <1>9. ASSUME NEW a \in Accounts, NEW m \in Markets, NEW side \in Sides,
               NEW price \in Prices, NEW size \in Sizes, NEW tif \in TIFs,
               PlaceOrder(a, m, side, price, size, tif)
        PROVE  SyncInv'
    <2>1. /\ pc = "idle" /\ UNCHANGED <<orders, book, fills, filled_makers, partial_makers>>
          /\ filled_makers = {} /\ DOMAIN partial_makers = {}
          /\ \A x \in Markets : book[x] = orders[x] /\ IsOrderMap(orders[x])
      BY <1>9 DEF PlaceOrder, SyncInv, BookSynced, TypeOK
    <2>2. \A x \in Markets : Synced(orders[x], {}, partial_makers) = orders[x]
      BY <2>1, SyncedNone
    <2>3. BookSynced'
      BY <1>9, <2>1, <2>2 DEF BookSynced, PlaceOrder
    <2>4. taker'.side = "Sell" => taker'.reserve = taker'.remaining + taker'.filled_reserve
      <3>1. size \in Nat
        BY <1>9, RequestAssumption, ValidSizePositive DEF PlaceOrder
      <3>2. QED
        BY <1>9, <3>1 DEF PlaceOrder, reserve_amount
    <2>5. SizesKept'
      BY <2>1, <2>4 DEF SyncInv, SizesKept
    <2>6. QED
      BY <2>3, <2>5 DEF SyncInv
  <1>10. ASSUME NEW a \in Accounts, NEW m \in Markets, cancel_all_orders(a, m)
         PROVE  SyncInv'
    BY <1>10 DEF cancel_all_orders, SyncInv, BookSynced, SizesKept, InCall, bookVars
  <1>11. ASSUME NEW a \in Accounts, NEW alloc \in GenesisAllocations, deploy_token(a, alloc)
         PROVE  SyncInv'
    BY <1>1, <1>11 DEF deploy_token
  <1>12. ASSUME NEW k \in Keys, NEW amount \in Amounts, NEW d \in BOOLEAN,
                view_transfer(k, amount, d)
         PROVE  SyncInv'
    BY <1>1, <1>12 DEF view_transfer
  <1>13. CASE ExternalNext
    BY <1>1, <1>13, ExternalFrame
  <1>14. CASE UNCHANGED vars
    BY <1>1, <1>14 DEF vars
  <1>15. CASE EngineNext
    BY <1>15, <1>2, <1>3, <1>4, <1>5, <1>7, <1>8, <1>9, <1>10, <1>11, <1>12
       DEF EngineNext, PlaceOrderStep
  <1>16. QED
    BY <1>13, <1>14, <1>15 DEF Next

-----------------------------------------------------------------------------
(* Every ask, resting or being matched, is reserved. *)

\* The fills whose base tokens are still reserved by their sellers.
Unreleased ==
    IF pc \in {"buyer_receives", "seller_pays", "seller_receives"} THEN Tail(fills) ELSE fills

\* What a selling taker has still to sell.
TakerAsk(a) == IF taker.side = "Sell" /\ taker.owner = a THEN taker.remaining ELSE 0

\* Reservations of the call in progress: fills to deliver and the taker's rest.
Owed(a, m) ==
    IF InCall /\ m = taker.market THEN DueIn(taker, Unreleased, a) + TakerAsk(a) ELSE 0

\* The reservation of a base token covers the asks in the book and what the
\* call in progress has still to deliver or to sell.
Backed ==
    \A a \in Accounts, m \in Markets :
        reserved[<<a, m>>] >= OfferedIn(book[m], a) + Owed(a, m)

\* While the orders map lags behind the book it shows what was matched, too.
Unsynced ==
    pc = "match" => \A a \in Accounts :
        OfferedIn(orders[taker.market], a)
          <= OfferedIn(book[taker.market], a)
               + (IF TakerBuys THEN DueIn(taker, fills, a) ELSE 0)

BackInv == Backed /\ Unsynced

\* A base token is not USDC.
LEMMA BaseIsNotQuote ==
    ASSUME NEW a, NEW b, NEW m \in Markets
    PROVE  <<a, m>> # <<b, USDC>>
  BY TokensAssumption DEF Markets, USDC

\* Of the taker only its side and its owner decide who has to deliver.
LEMMA DueSame ==
    ASSUME NEW t, NEW u, t.side = u.side, t.owner = u.owner, NEW fs, NEW a
    PROVE  DueIn(t, fs, a) = DueIn(u, fs, a)
  <1>1. \A f : DueOf(t, f, a) = DueOf(u, f, a)
    BY DEF DueOf, SellerIn
  <1>2. QED
    BY <1>1 DEF DueIn

\* Nothing is due when there are no fills.
LEMMA DueNone ==
    ASSUME NEW t, NEW a
    PROVE  DueIn(t, <<>>, a) = 0
  <1>1. <<>> \in Seq(SpotFill)
    OBVIOUS
  <1>2. QED
    BY <1>1, DueOperations

\* The amounts of the invariant are natural numbers.
LEMMA AmountsNat ==
    ASSUME TypeOK, NEW a \in Accounts, NEW m \in Markets
    PROVE  /\ reserved[<<a, m>>] \in Int
           /\ OfferedIn(book[m], a) \in Nat /\ OfferedIn(orders[m], a) \in Nat
           /\ Owed(a, m) \in Nat
           /\ InCall => /\ TakerAsk(a) \in Nat /\ Unreleased \in Seq(SpotFill)
                        /\ DueIn(taker, Unreleased, a) \in Nat
                        /\ DueIn(taker, fills, a) \in Nat
  <1>1. reserved[<<a, m>>] \in Int
    BY KeyFacts DEF TypeOK
  <1>2. OfferedIn(book[m], a) \in Nat /\ OfferedIn(orders[m], a) \in Nat
    BY AskNat DEF TypeOK
  <1>3. ASSUME InCall
        PROVE  /\ TakerAsk(a) \in Nat /\ Unreleased \in Seq(SpotFill)
               /\ DueIn(taker, Unreleased, a) \in Nat /\ DueIn(taker, fills, a) \in Nat
    <2>1. TakerAsk(a) \in Nat
      BY <1>3 DEF InCall, TakerAsk, TypeOK, TakerOrder
    <2>2. Unreleased \in Seq(SpotFill) /\ fills \in Seq(SpotFill)
      BY DEF Unreleased, TypeOK
    <2>3. QED
      BY <2>1, <2>2, DueOperations
  <1>4. Owed(a, m) \in Nat
    BY <1>3 DEF Owed
  <1>5. QED
    BY <1>1, <1>2, <1>3, <1>4

\* A step that lowers no reservation, leaves the book alone and adds nothing to
\* what is owed.
LEMMA BackFrame ==
    ASSUME TypeOK, Backed, UNCHANGED <<book, reserved>>,
           \A a \in Accounts, m \in Markets : Owed(a, m)' = Owed(a, m) \/ Owed(a, m)' = 0
    PROVE  Backed'
  <1> SUFFICES ASSUME NEW a \in Accounts, NEW m \in Markets
               PROVE  reserved'[<<a, m>>] >= OfferedIn(book'[m], a) + Owed(a, m)'
    BY DEF Backed
  <1>1. /\ reserved[<<a, m>>] \in Int /\ OfferedIn(book[m], a) \in Nat
        /\ Owed(a, m) \in Nat
    BY AmountsNat
  <1>2. reserved[<<a, m>>] >= OfferedIn(book[m], a) + Owed(a, m)
    BY DEF Backed
  <1>3. QED
    BY <1>1, <1>2

\* What one iteration of the matching loop moves: from the maker's ask or from
\* the taker's rest to what is due.
LEMMA TurnAmounts ==
    ASSUME TypeOK, NEW i \in OrderIds, MatchMaker(i), NEW a \in Accounts
    PROVE  \E d \in Nat :
             LET m == taker.market
             IN  /\ m \in Markets /\ pc = "match"
                 /\ DueIn(taker', fills', a) = DueIn(taker, fills, a) + d
                 /\ OfferedIn(book'[m], a) = OfferedIn(book[m], a) - (IF TakerBuys THEN d ELSE 0)
                 /\ TakerAsk(a)' = TakerAsk(a) - (IF TakerBuys THEN 0 ELSE d)
                 /\ \A x \in Markets \ {m} : book'[x] = book[x]
                 /\ taker'.market = m /\ taker'.side = taker.side
                 /\ UNCHANGED <<pc, orders, reserved>>
  <1> DEFINE m == taker.market
             b == book[m]
  <1>0. PICK z \in Nat, f \in SpotFill, o \in Order : Turn(i, z, f, o)
    BY MatchFacts
  <1>1. /\ pc = "match" /\ taker \in TakerOrder /\ m \in Markets
        /\ IsOrderMap(b) /\ i \in DOMAIN b /\ b[i].side = Opposite(taker.side)
        /\ z <= b[i].remaining
        /\ fills' = Append(fills, f) /\ f.maker = b[i].owner /\ f.base_size = z
        /\ taker'.market = m /\ taker'.side = taker.side /\ taker'.owner = taker.owner
        /\ taker'.remaining = taker.remaining - z
        /\ UNCHANGED <<pc, orders, reserved>>
        /\ \/ /\ z = b[i].remaining
              /\ book' = [book EXCEPT ![m] = RemoveFrom(b, {i})]
           \/ /\ z < b[i].remaining
              /\ o = [b[i] EXCEPT !.remaining = b[i].remaining - z]
              /\ book' = [book EXCEPT ![m] = Insert(b, i, o)]
    BY <1>0 DEF Turn
  <1>2. /\ DOMAIN book = Markets /\ fills \in Seq(SpotFill) /\ taker.side \in Sides
        /\ taker.remaining \in Nat /\ b[i] \in Order /\ b[i].remaining \in Nat
    BY <1>1 DEF TypeOK, IsOrderMap, Order, TakerOrder
  <1> DEFINE d == DueOf(taker, f, a)
  <1>3. d \in Nat /\ DueIn(taker, Append(fills, f), a) = DueIn(taker, fills, a) + d
    <2>1. d \in Nat
      BY <1>1 DEF DueOf
    <2>2. QED
      BY <2>1, <1>2, DueOperations
  <1>4. DueIn(taker', fills', a) = DueIn(taker, fills, a) + d
    BY <1>1, <1>3, DueSame
  <1>5. TakerAsk(a)' = TakerAsk(a) - (IF TakerBuys THEN 0 ELSE d)
    BY <1>1, <1>2 DEF TakerAsk, TakerBuys, DueOf, SellerIn, Sides
  <1>6. AskAt(b, a, i) = IF b[i].owner = a /\ TakerBuys THEN b[i].remaining ELSE 0
    BY <1>1, <1>2 DEF AskAt, Opposite, TakerBuys, Sides
  <1>7. OfferedIn(b, a) \in Nat
    BY <1>1, AskNat
  <1>8. OfferedIn(book'[m], a) = OfferedIn(b, a) - (IF TakerBuys THEN d ELSE 0)
    <2>1. /\ OfferedIn(RemoveFrom(b, {i}), a) = OfferedIn(b, a) - AskAt(b, a, i)
          /\ OfferedIn(Insert(b, i, o), a)
               = OfferedIn(b, a) - AskAt(b, a, i)
                   + (IF o.owner = a /\ o.side = "Sell" THEN o.remaining ELSE 0)
      BY <1>1, OfferedOperations
    <2>2. CASE /\ z = b[i].remaining
               /\ book' = [book EXCEPT ![m] = RemoveFrom(b, {i})]
      <3>1. book'[m] = RemoveFrom(b, {i})
        BY <1>1, <1>2, <2>2
      <3>2. AskAt(b, a, i) = IF TakerBuys THEN d ELSE 0
        BY <1>1, <1>6, <2>2 DEF DueOf, SellerIn, TakerBuys
      <3>3. QED
        BY <2>1, <3>1, <3>2
    <2>3. CASE /\ z < b[i].remaining
               /\ o = [b[i] EXCEPT !.remaining = b[i].remaining - z]
               /\ book' = [book EXCEPT ![m] = Insert(b, i, o)]
      <3>1. book'[m] = Insert(b, i, o)
        BY <1>1, <1>2, <2>3
      <3>2. /\ o.owner = b[i].owner /\ o.side = b[i].side
            /\ o.remaining = b[i].remaining - z
        BY <1>2, <2>3 DEF Order
      <3>3. AskAt(b, a, i) - (IF o.owner = a /\ o.side = "Sell" THEN o.remaining ELSE 0)
              = IF TakerBuys THEN d ELSE 0
        BY <1>1, <1>2, <1>6, <3>2 DEF DueOf, SellerIn, TakerBuys, Opposite, Sides
      <3>4. /\ AskAt(b, a, i) \in Nat
            /\ (IF o.owner = a /\ o.side = "Sell" THEN o.remaining ELSE 0) \in Nat
        BY <1>2, <1>6 DEF Order
      <3> HIDE DEF d, b
      <3>5. QED
        BY <1>3, <1>7, <2>1, <3>1, <3>3, <3>4
    <2>4. QED
      BY <1>1, <2>2, <2>3
  <1>9. \A x \in Markets \ {m} : book'[x] = book[x]
    BY <1>1, <1>2
  <1> HIDE DEF d
  <1>10. QED
    BY <1>1, <1>3, <1>4, <1>5, <1>8, <1>9

\* The reservation of a fill that is released: nobody else's reservation of a
\* base token changes, and the seller's by no more than the fill.
LEMMA BuyerPaysBacked ==
    ASSUME TypeOK, Backed, BuyerPays
    PROVE  Backed'
  <1> DEFINE m == taker.market
             z == fill.base_size
             rest == DueIn(taker, Tail(fills), seller)
  <1>1. pc \in ApplyPcs /\ pc = "buyer_pays" /\ InCall
    BY DEF BuyerPays, ApplyPcs, InCall
  <1>2. /\ taker \in TakerOrder /\ seller \in Accounts /\ m \in Markets /\ z \in Nat
        /\ QuoteKey \in Keys /\ BaseKeyOfSeller \in Keys /\ fills # <<>>
        /\ fills \in Seq(SpotFill) /\ reserved \in [Keys -> Int]
    BY <1>1, FillFacts DEF TypeOK, ApplyPcs, TakerOrder
  <1>3. \A a \in Accounts : /\ DueIn(taker, Tail(fills), a) \in Nat
                            /\ DueIn(taker, fills, a)
                                 = (IF a = seller THEN z ELSE 0) + DueIn(taker, Tail(fills), a)
                            /\ TakerAsk(a) \in Nat /\ Owed(a, m) = DueIn(taker, fills, a) + TakerAsk(a)
    <2>1. TAKE a \in Accounts
    <2>2. DueOf(taker, Head(fills), a) = IF a = seller THEN z ELSE 0
      BY DEF DueOf, SellerIn, seller, TakerBuys, fill
    <2>3. Tail(fills) \in Seq(SpotFill)
      BY <1>2
    <2>4. DueIn(taker, Tail(fills), a) \in Nat
      BY <2>3, DueOperations
    <2>5. DueIn(taker, fills, a) = DueOf(taker, Head(fills), a) + DueIn(taker, Tail(fills), a)
      BY <1>2, DueOperations
    <2>6. TakerAsk(a) \in Nat /\ Owed(a, m) = DueIn(taker, fills, a) + TakerAsk(a)
      BY <1>1, <1>2, AmountsNat DEF Owed, Unreleased
    <2>7. QED
      BY <2>2, <2>4, <2>5, <2>6
  <1>4. \A a \in Accounts, x \in Markets :
          /\ reserved[<<a, x>>] \in Int /\ OfferedIn(book[x], a) \in Nat
          /\ reserved[<<a, x>>] >= OfferedIn(book[x], a) + Owed(a, x)
          /\ Owed(a, x) \in Nat
    BY AmountsNat DEF Backed
  <1>5. reserved' = [reserved EXCEPT ![QuoteKey] = Released(@, quote_with_fee),
                                     ![BaseKeyOfSeller] = Released(@, z)]
    BY DEF BuyerPays, ReleaseBoth
  <1>6. \A a \in Accounts, x \in Markets :
          reserved'[<<a, x>>] = reserved[<<a, x>>] - (IF a = seller /\ x = m THEN z ELSE 0)
    <2>1. reserved[BaseKeyOfSeller] >= z
      BY <1>2, <1>3, <1>4, SMTT(40) DEF BaseKeyOfSeller
    <2>2. Released(reserved[BaseKeyOfSeller], z) = reserved[BaseKeyOfSeller] - z
      BY <2>1 DEF Released
    <2>3. TAKE a \in Accounts, x \in Markets
    <2>4. <<a, x>> \in Keys /\ <<a, x>> # QuoteKey
      BY KeyFacts, BaseIsNotQuote DEF QuoteKey
    <2>5. <<a, x>> = BaseKeyOfSeller <=> a = seller /\ x = m
      BY DEF BaseKeyOfSeller
    <2>6. reserved'[<<a, x>>] = IF <<a, x>> = BaseKeyOfSeller
                                THEN Released(reserved[<<a, x>>], z) ELSE reserved[<<a, x>>]
      BY <1>2, <1>5, <2>4
    <2>7. QED
      BY <1>4, <2>2, <2>5, <2>6
  <1>7. \A a \in Accounts, x \in Markets :
          \/ Owed(a, x)' = 0
          \/ x = m /\ Owed(a, x)' = DueIn(taker, Tail(fills), a) + TakerAsk(a)
    <2>1. CASE EndCall
      BY <2>1 DEF EndCall, Owed, InCall
    <2>2. CASE pc' = "buyer_receives" /\ UNCHANGED <<taker, fills>>
      BY <2>2 DEF Owed, InCall, Unreleased, TakerAsk
    <2>3. QED
      BY <2>1, <2>2 DEF BuyerPays
  <1>8. UNCHANGED book
    BY DEF BuyerPays, bookVars
  <1> SUFFICES ASSUME NEW a \in Accounts, NEW x \in Markets
               PROVE  reserved'[<<a, x>>] >= OfferedIn(book[x], a) + Owed(a, x)'
    BY <1>8 DEF Backed
  <1> HIDE DEF m, z
  <1>9. CASE x = m
    <2>1. reserved[<<a, x>>] >= OfferedIn(book[x], a) + DueIn(taker, fills, a) + TakerAsk(a)
      <3>1. Owed(a, x) = DueIn(taker, fills, a) + TakerAsk(a) /\ DueIn(taker, fills, a) \in Nat
        BY <1>2, <1>3, <1>9
      <3>2. QED
        BY <1>3, <1>4, <3>1
    <2>2. /\ reserved'[<<a, x>>] = reserved[<<a, x>>] - (IF a = seller THEN z ELSE 0)
          /\ DueIn(taker, fills, a) = (IF a = seller THEN z ELSE 0) + DueIn(taker, Tail(fills), a)
          /\ DueIn(taker, Tail(fills), a) \in Nat /\ TakerAsk(a) \in Nat
          /\ reserved[<<a, x>>] \in Int /\ OfferedIn(book[x], a) \in Nat
          /\ (IF a = seller THEN z ELSE 0) \in Nat
      BY <1>2, <1>3, <1>4, <1>6, <1>9
    <2>3. \/ Owed(a, x)' = 0
          \/ Owed(a, x)' = DueIn(taker, Tail(fills), a) + TakerAsk(a)
      BY <1>7
    <2>4. QED
      BY <2>1, <2>2, <2>3
  <1>10. CASE x # m
    BY <1>4, <1>6, <1>7, <1>10
  <1>11. QED
    BY <1>9, <1>10

\* A finished order keeps its reservation when it rests and gives back what it
\* has not sold when it does not.
LEMMA FinishOrderBacked ==
    ASSUME TypeOK, SizesKept, Backed, FinishOrder
    PROVE  Backed'
  <1> DEFINE m == taker.market
             k == <<taker.owner, reserve_token(taker.side, m)>>
             o == RestingOrder(taker)
  <1>1. /\ pc = "finish" /\ InCall /\ pc' = "idle" /\ taker \in TakerOrder /\ m \in Markets
        /\ taker.id \in OrderIds /\ taker.side \in Sides /\ taker.owner \in Accounts
        /\ taker.remaining \in Nat /\ taker.filled_reserve \in Int /\ taker.reserve \in Int
        /\ reserved \in [Keys -> Int] /\ IsOrderMap(book[m]) /\ DOMAIN book = Markets
    BY DEF FinishOrder, InCall, EndCall, TypeOK, TakerOrder
  <1>2. o \in Order /\ o.owner = taker.owner /\ o.side = taker.side /\ o.remaining = taker.remaining
    BY <1>1 DEF RestingOrder, TakerOrder, Order
  <1>3. \A a \in Accounts, x \in Markets :
          /\ reserved[<<a, x>>] \in Int /\ OfferedIn(book[x], a) \in Nat /\ TakerAsk(a) \in Nat
          /\ reserved[<<a, x>>] >= OfferedIn(book[x], a) + (IF x = m THEN TakerAsk(a) ELSE 0)
          /\ Owed(a, x)' = 0
    <2>1. TAKE a \in Accounts, x \in Markets
    <2>2. /\ reserved[<<a, x>>] \in Int /\ OfferedIn(book[x], a) \in Nat /\ TakerAsk(a) \in Nat
          /\ DueIn(taker, Unreleased, a) \in Nat
      BY <1>1, AmountsNat
    <2>3. reserved[<<a, x>>] >= OfferedIn(book[x], a) + Owed(a, x)
      BY DEF Backed
    <2>4. Owed(a, x)' = 0
      BY <1>1 DEF Owed, InCall
    <2>5. Owed(a, x) = IF x = m THEN DueIn(taker, Unreleased, a) + TakerAsk(a) ELSE 0
      BY <1>1 DEF Owed
    <2>6. QED
      BY <2>2, <2>3, <2>4, <2>5
  <1> SUFFICES ASSUME NEW a \in Accounts, NEW x \in Markets
               PROVE  reserved'[<<a, x>>] >= OfferedIn(book'[x], a)
    <2>1. \A a \in Accounts, x \in Markets : reserved'[<<a, x>>] >= OfferedIn(book'[x], a)
      OBVIOUS
    <2>2. \A a \in Accounts, x \in Markets : OfferedIn(book'[x], a) \in Nat
      <3>1. \A y \in Markets : IsOrderMap(book'[y])
        BY <1>1, <1>2, OrderMapOperations DEF FinishOrder, TypeOK
      <3>2. QED
        BY <3>1, AskNat
    <2>3. \A a \in Accounts, x \in Markets :
            reserved'[<<a, x>>] >= OfferedIn(book'[x], a) + Owed(a, x)'
      <3>1. TAKE a \in Accounts, x \in Markets
      <3>2. Owed(a, x)' = 0 /\ OfferedIn(book'[x], a) \in Nat
        BY <1>3, <2>2
      <3>3. QED
        BY <2>1, <3>2
    <2>4. QED
      BY <2>3 DEF Backed
  <1>4. CASE taker.remaining > 0 /\ should_rest(taker.tif)
    <2>1. book' = [book EXCEPT ![m] = Insert(book[m], taker.id, o)] /\ reserved' = reserved
      BY <1>1, <1>4 DEF FinishOrder
    <2>2. OfferedIn(Insert(book[m], taker.id, o), a)
            = OfferedIn(book[m], a) - AskAt(book[m], a, taker.id) + TakerAsk(a)
      <3>1. OfferedIn(Insert(book[m], taker.id, o), a)
              = OfferedIn(book[m], a) - AskAt(book[m], a, taker.id)
                  + (IF o.owner = a /\ o.side = "Sell" THEN o.remaining ELSE 0)
        <4> HIDE DEF o, m
        <4>1. QED
          BY <1>1, <1>2, OfferedOperations
      <3>2. QED
        BY <1>2, <3>1 DEF TakerAsk
    <2>3. AskAt(book[m], a, taker.id) \in Nat
      BY <1>1, AskNat
    <2>4. CASE x = m
      <3>1. book'[x] = Insert(book[m], taker.id, o)
        BY <1>1, <2>1, <2>4
      <3>2. QED
        BY <1>1, <1>3, <2>1, <2>2, <2>3, <2>4, <3>1
    <2>5. CASE x # m
      BY <1>1, <1>3, <2>1, <2>5
    <2>6. QED
      BY <2>4, <2>5
  <1>5. CASE taker.remaining > 0 /\ ~should_rest(taker.tif)
    <2>1. book' = book /\ reserved' = [reserved EXCEPT ![k] = Released(@, remaining_reserve)]
      BY <1>5 DEF FinishOrder
    <2>2. CASE taker.side = "Buy"
      <3>1. k = <<taker.owner, USDC>>
        BY <2>2 DEF reserve_token
      <3>2. reserved'[<<a, x>>] = reserved[<<a, x>>]
        BY <1>1, <2>1, <3>1, BaseIsNotQuote, KeyFacts
      <3>3. QED
        BY <1>3, <2>1, <3>2
    <2>3. CASE taker.side = "Sell"
      <3>1. k = <<taker.owner, m>>
        BY <2>3 DEF reserve_token
      <3>2. remaining_reserve = taker.remaining
        <4>1. taker.reserve = taker.remaining + taker.filled_reserve
          BY <1>1, <2>3 DEF SizesKept
        <4>2. QED
          BY <4>1, <1>1, <1>5 DEF remaining_reserve
      <3>3. CASE a = taker.owner /\ x = m
        <4>1. TakerAsk(a) = taker.remaining
          BY <2>3, <3>3 DEF TakerAsk
        <4>2. reserved'[<<a, x>>] = Released(reserved[<<a, x>>], taker.remaining)
          BY <1>1, <2>1, <3>1, <3>2, <3>3, KeyFacts
        <4>3. QED
          BY <1>1, <1>3, <2>1, <3>3, <4>1, <4>2 DEF Released
      <3>4. CASE ~(a = taker.owner /\ x = m)
        <4>1. reserved'[<<a, x>>] = reserved[<<a, x>>]
          BY <1>1, <2>1, <3>1, <3>4, KeyFacts
        <4>2. QED
          BY <1>3, <2>1, <4>1
      <3>5. QED
        BY <3>3, <3>4
    <2>4. QED
      BY <1>1, <2>2, <2>3 DEF Sides
  <1>6. CASE ~(taker.remaining > 0)
    <2>1. book' = book /\ reserved' = reserved
      BY <1>6 DEF FinishOrder
    <2>2. QED
      BY <1>3, <2>1
  <1>7. QED
    BY <1>4, <1>5, <1>6

\* A cancelled ask gives back no more than it offered.
LEMMA CancelBacked ==
    ASSUME TypeOK, BookSynced, Backed, NEW m \in Markets, NEW id \in DOMAIN orders[m],
           Cancel(m, id), ~InCall, ~InCall'
    PROVE  Backed'
  <1> DEFINE o == orders[m][id]
             k == <<o.owner, reserve_token(o.side, m)>>
             amount == reserve_amount(o.side, o.remaining, o.price)
  <1>1. /\ o.owner \in Accounts /\ o.side \in Sides /\ o.remaining \in Nat /\ o.price \in Int
        /\ id \in OrderIds /\ book[m] = orders[m] /\ IsOrderMap(book[m])
        /\ DOMAIN book = Markets /\ reserved \in [Keys -> Int]
    BY DEF TypeOK, IsOrderMap, Order, BookSynced, InCall
  <1>2. /\ reserved' = [reserved EXCEPT ![k] = Released(@, amount)]
        /\ book' = [book EXCEPT ![m] = RemoveFrom(book[m], {id})]
    BY <1>1 DEF Cancel
  <1>3. \A a \in Accounts, x \in Markets :
          /\ reserved[<<a, x>>] \in Int /\ OfferedIn(book[x], a) \in Nat
          /\ reserved[<<a, x>>] >= OfferedIn(book[x], a)
    <2>1. TAKE a \in Accounts, x \in Markets
    <2>2. /\ reserved[<<a, x>>] \in Int /\ OfferedIn(book[x], a) \in Nat
          /\ Owed(a, x) = 0
      BY AmountsNat DEF Owed
    <2>3. reserved[<<a, x>>] >= OfferedIn(book[x], a) + Owed(a, x)
      BY DEF Backed
    <2>4. QED
      BY <2>2, <2>3
  <1>4. \A a \in Accounts, x \in Markets : Owed(a, x)' = 0
    BY DEF Owed
  <1>5. \A a \in Accounts :
          /\ AskAt(book[m], a, id) = IF o.owner = a /\ o.side = "Sell" THEN o.remaining ELSE 0
          /\ AskAt(book[m], a, id) <= OfferedIn(book[m], a)
          /\ OfferedIn(RemoveFrom(book[m], {id}), a) = OfferedIn(book[m], a) - AskAt(book[m], a, id)
    <2>1. TAKE a \in Accounts
    <2>2. AskAt(book[m], a, id) = IF o.owner = a /\ o.side = "Sell" THEN o.remaining ELSE 0
      BY <1>1 DEF AskAt
    <2>3. AskAt(book[m], a, id) <= OfferedIn(book[m], a)
      BY <1>1, AskNat
    <2>4. o \in Order
      BY DEF TypeOK, IsOrderMap
    <2>5. OfferedIn(RemoveFrom(book[m], {id}), a) = OfferedIn(book[m], a) - AskAt(book[m], a, id)
      BY <1>1, <2>4, OfferedOperations
    <2>6. QED
      BY <2>2, <2>3, <2>5
  <1>6. \A a \in Accounts, x \in Markets :
          reserved'[<<a, x>>] = reserved[<<a, x>>] - (IF x = m THEN AskAt(book[m], a, id) ELSE 0)
    <2>1. TAKE a \in Accounts, x \in Markets
    <2>2. <<a, x>> \in Keys
      BY KeyFacts
    <2>3. CASE o.side = "Buy"
      <3>1. k = <<o.owner, USDC>> /\ AskAt(book[m], a, id) = 0
        BY <1>5, <2>3 DEF reserve_token
      <3>2. reserved'[<<a, x>>] = reserved[<<a, x>>]
        BY <1>1, <1>2, <2>2, <3>1, BaseIsNotQuote
      <3>3. QED
        BY <1>3, <3>1, <3>2
    <2>4. CASE o.side = "Sell"
      <3>1. k = <<o.owner, m>> /\ amount = o.remaining
        BY <2>4 DEF reserve_token, reserve_amount
      <3>2. CASE a = o.owner /\ x = m
        <4>1. /\ AskAt(book[m], a, id) = o.remaining
              /\ reserved[<<a, x>>] >= o.remaining
          BY <1>1, <1>3, <1>5, <2>4, <3>2
        <4>2. reserved'[<<a, x>>] = Released(reserved[<<a, x>>], o.remaining)
          BY <1>1, <1>2, <2>2, <3>1, <3>2
        <4>3. QED
          BY <3>2, <4>1, <4>2 DEF Released
      <3>3. CASE ~(a = o.owner /\ x = m)
        <4>1. reserved'[<<a, x>>] = reserved[<<a, x>>]
          BY <1>1, <1>2, <2>2, <3>1, <3>3
        <4>2. x = m => AskAt(book[m], a, id) = 0
          BY <1>5, <3>3
        <4>3. QED
          BY <1>3, <4>1, <4>2
      <3>4. QED
        BY <3>2, <3>3
    <2>5. QED
      BY <1>1, <2>3, <2>4 DEF Sides
  <1> SUFFICES ASSUME NEW a \in Accounts, NEW x \in Markets
               PROVE  reserved'[<<a, x>>] >= OfferedIn(book'[x], a) + 0
    BY <1>4 DEF Backed
  <1> HIDE DEF o
  <1>7. CASE x = m
    <2>1. book'[x] = RemoveFrom(book[m], {id})
      BY <1>1, <1>2, <1>7
    <2>2. AskAt(book[m], a, id) \in Nat
      BY <1>1, AskNat
    <2>3. /\ reserved[<<a, x>>] \in Int /\ OfferedIn(book[m], a) \in Nat
          /\ reserved[<<a, x>>] >= OfferedIn(book[m], a)
      BY <1>3, <1>7
    <2>4. reserved'[<<a, x>>] = reserved[<<a, x>>] - AskAt(book[m], a, id)
      BY <1>6, <1>7
    <2>5. OfferedIn(book'[x], a) = OfferedIn(book[m], a) - AskAt(book[m], a, id)
      BY <1>5, <2>1
    <2>6. QED
      BY <2>2, <2>3, <2>4, <2>5
  <1>8. CASE x # m
    BY <1>1, <1>2, <1>3, <1>6, <1>8
  <1>9. QED
    BY <1>7, <1>8

\* Every step keeps the asks reserved.
LEMMA BackedStep ==
    ASSUME TypeOK, SweepInv, NoFillsLeft, SyncInv, Backed, [Next]_vars
    PROVE  Backed'
  <1>1. CASE UNCHANGED <<reserved, bookVars, callVars>>
    <2>1. UNCHANGED <<book, reserved>>
      BY <1>1 DEF bookVars
    <2>2. \A a \in Accounts, m \in Markets : Owed(a, m)' = Owed(a, m)
      BY <1>1 DEF callVars, Owed, InCall, Unreleased, TakerAsk
    <2>3. QED
      BY <2>1, <2>2, BackFrame
  <1>2. ASSUME NEW i \in OrderIds, MatchMaker(i) PROVE Backed'
    <2> DEFINE m == taker.market
    <2> SUFFICES ASSUME NEW a \in Accounts, NEW x \in Markets
                 PROVE  reserved'[<<a, x>>] >= OfferedIn(book'[x], a) + Owed(a, x)'
      BY DEF Backed
    <2>1. PICK d \in Nat :
            /\ m \in Markets /\ pc = "match"
            /\ DueIn(taker', fills', a) = DueIn(taker, fills, a) + d
            /\ OfferedIn(book'[m], a) = OfferedIn(book[m], a) - (IF TakerBuys THEN d ELSE 0)
            /\ TakerAsk(a)' = TakerAsk(a) - (IF TakerBuys THEN 0 ELSE d)
            /\ \A y \in Markets \ {m} : book'[y] = book[y]
            /\ taker'.market = m
            /\ UNCHANGED <<pc, reserved>>
      BY <1>2, TurnAmounts
    <2>2. /\ reserved[<<a, x>>] \in Int /\ OfferedIn(book[x], a) \in Nat /\ Owed(a, x) \in Nat
          /\ TakerAsk(a) \in Nat /\ DueIn(taker, fills, a) \in Nat
          /\ reserved[<<a, x>>] >= OfferedIn(book[x], a) + Owed(a, x)
      BY <2>1, AmountsNat DEF InCall, Backed
    <2>3. /\ Owed(a, x) = IF x = m THEN DueIn(taker, fills, a) + TakerAsk(a) ELSE 0
          /\ Owed(a, x)' = IF x = m THEN DueIn(taker', fills', a) + TakerAsk(a)' ELSE 0
      BY <2>1 DEF Owed, InCall, Unreleased
    <2> HIDE DEF m
    <2>4. QED
      BY <2>1, <2>2, <2>3
  <1>3. CASE SyncMakers
    <2>1. UNCHANGED <<book, reserved>>
      BY <1>3 DEF SyncMakers
    <2>2. \A a \in Accounts, m \in Markets : Owed(a, m)' = Owed(a, m)
      BY <1>3 DEF SyncMakers, Owed, InCall, Unreleased, TakerAsk
    <2>3. QED
      BY <2>1, <2>2, BackFrame
  <1>4. CASE BuyerPays
    BY <1>4, BuyerPaysBacked
  <1>5. CASE BuyerReceives
    <2>1. UNCHANGED <<book, reserved>>
      BY <1>5 DEF BuyerReceives, bookVars
    <2>2. \A a \in Accounts, m \in Markets : Owed(a, m)' = Owed(a, m)
      BY <1>5 DEF BuyerReceives, Owed, InCall, Unreleased, TakerAsk
    <2>3. QED
      BY <2>1, <2>2, BackFrame
  <1>6. CASE SellerPays
    <2>1. UNCHANGED <<book, reserved>>
      BY <1>6 DEF SellerPays, bookVars
    <2>2. CASE EndCall
      <3>1. \A a \in Accounts, m \in Markets : Owed(a, m)' = 0
        BY <2>2 DEF EndCall, Owed, InCall
      <3>2. QED
        BY <2>1, <3>1, BackFrame
    <2>3. CASE pc' = "seller_receives" /\ UNCHANGED <<taker, fills>>
      <3>1. \A a \in Accounts, m \in Markets : Owed(a, m)' = Owed(a, m)
        BY <1>6, <2>3 DEF SellerPays, Owed, InCall, Unreleased, TakerAsk
      <3>2. QED
        BY <2>1, <3>1, BackFrame
    <2>4. QED
      BY <1>6, <2>2, <2>3 DEF SellerPays
  <1>7. CASE SellerReceives
    <2>1. UNCHANGED <<book, reserved>>
      BY <1>7 DEF SellerReceives, bookVars
    <2>2. \A a \in Accounts, m \in Markets : Owed(a, m)' = Owed(a, m)
      BY <1>7 DEF SellerReceives, Owed, InCall, Unreleased, TakerAsk
    <2>3. QED
      BY <2>1, <2>2, BackFrame
  <1>8. CASE FinishOrder
    BY <1>8, FinishOrderBacked DEF SyncInv
  <1>9. ASSUME NEW a \in Accounts, NEW m \in Markets, NEW id \in OrderIds, cancel_order(a, m, id)
        PROVE  Backed'
    BY <1>9, CancelBacked DEF cancel_order, callVars, SyncInv, InCall
  <1>10. CASE CancelNext
    <2>1. PICK x \in todo : Cancel(x[1], x[2])
      BY <1>10 DEF CancelNext
    <2>2. x[1] \in Markets /\ x[2] \in DOMAIN orders[x[1]]
      BY <2>1 DEF TypeOK, SweepInv
    <2>3. ~InCall /\ ~InCall'
      BY <1>10 DEF CancelNext, InCall
    <2>4. QED
      BY <2>1, <2>2, <2>3, CancelBacked DEF SyncInv
  <1>11. ASSUME NEW a \in Accounts, NEW m \in Markets, NEW side \in Sides,
                NEW price \in Prices, NEW size \in Sizes, NEW tif \in TIFs,
                PlaceOrder(a, m, side, price, size, tif)
         PROVE  Backed'
    <2> DEFINE k == <<a, reserve_token(side, m)>>
               amount == reserve_amount(side, size, price)
    <2>1. /\ pc = "idle" /\ fills' = <<>> /\ pc' = "match" /\ UNCHANGED book
          /\ taker'.market = m /\ taker'.owner = a /\ taker'.side = side /\ taker'.remaining = size
          /\ reserved' = [reserved EXCEPT ![k] = @ + amount]
          /\ reserved \in [Keys -> Int] /\ size \in Nat /\ amount \in Int /\ k \in Keys
      <3>1. validate_order(price, size) /\ size \in Int /\ price \in Int
        BY <1>11, RequestAssumption DEF PlaceOrder
      <3>2. size \in Nat /\ amount \in Int /\ k \in Keys
        BY <3>1, ValidSizePositive, KeyFacts, Conversions
      <3>3. QED
        BY <1>11, <3>2 DEF PlaceOrder, NoFillsLeft, TypeOK
    <2> SUFFICES ASSUME NEW c \in Accounts, NEW x \in Markets
                 PROVE  reserved'[<<c, x>>] >= OfferedIn(book[x], c) + Owed(c, x)'
      BY <2>1 DEF Backed
    <2>2. /\ reserved[<<c, x>>] \in Int /\ OfferedIn(book[x], c) \in Nat
          /\ reserved[<<c, x>>] >= OfferedIn(book[x], c)
      <3>1. reserved[<<c, x>>] \in Int /\ OfferedIn(book[x], c) \in Nat /\ Owed(c, x) = 0
        BY <2>1, AmountsNat DEF Owed, InCall
      <3>2. QED
        BY <3>1 DEF Backed
    <2>3. Owed(c, x)' = IF x = m /\ c = a /\ side = "Sell" THEN size ELSE 0
      <3>1. DueIn(taker', fills', c) = 0
        BY <2>1, DueNone
      <3>2. Owed(c, x)' = IF x = m THEN DueIn(taker', fills', c) + TakerAsk(c)' ELSE 0
        BY <2>1 DEF Owed, InCall, Unreleased
      <3>3. TakerAsk(c)' = IF c = a /\ side = "Sell" THEN size ELSE 0
        BY <2>1 DEF TakerAsk
      <3>4. QED
        BY <2>1, <3>1, <3>2, <3>3
    <2>4. side = "Sell" => k = <<a, m>> /\ amount = size
      BY DEF reserve_token, reserve_amount
    <2>5. <<c, x>> \in Keys
      BY KeyFacts
    <2>6. reserved'[<<c, x>>] = reserved[<<c, x>>] + (IF <<c, x>> = k THEN amount ELSE 0)
      <3> HIDE DEF k, amount
      <3>1. QED
        BY <2>1, <2>2, <2>5
    <2>7. <<c, x>> = k => side = "Sell"
      <3>1. <<c, x>> # <<a, USDC>>
        BY BaseIsNotQuote
      <3>2. side \in {"Buy", "Sell"}
        BY DEF Sides
      <3>3. QED
        BY <3>1, <3>2 DEF reserve_token
    <2>8. <<c, x>> = <<a, m>> <=> c = a /\ x = m
      OBVIOUS
    <2> HIDE DEF amount, k
    <2>9. QED
      BY <2>1, <2>2, <2>3, <2>4, <2>6, <2>7, <2>8
  <1>12. ASSUME NEW a \in Accounts, NEW m \in Markets, cancel_all_orders(a, m)
         PROVE  Backed'
    <2>1. UNCHANGED <<book, reserved>>
      BY <1>12 DEF cancel_all_orders, bookVars
    <2>2. \A c \in Accounts, x \in Markets : Owed(c, x)' = 0
      BY <1>12 DEF cancel_all_orders, Owed, InCall
    <2>3. QED
      BY <2>1, <2>2, BackFrame
  <1>13. ASSUME NEW a \in Accounts, NEW alloc \in GenesisAllocations, deploy_token(a, alloc)
         PROVE  Backed'
    BY <1>1, <1>13 DEF deploy_token
  <1>14. ASSUME NEW k \in Keys, NEW amount \in Amounts, NEW d \in BOOLEAN,
                view_transfer(k, amount, d)
         PROVE  Backed'
    BY <1>1, <1>14 DEF view_transfer
  <1>15. CASE ExternalNext
    BY <1>1, <1>15, ExternalFrame
  <1>16. CASE UNCHANGED vars
    BY <1>1, <1>16 DEF vars
  <1>17. CASE EngineNext
    BY <1>17, <1>2, <1>3, <1>4, <1>5, <1>6, <1>7, <1>8, <1>9, <1>10, <1>11, <1>12, <1>13,
       <1>14 DEF EngineNext, PlaceOrderStep
  <1>18. QED
    BY <1>15, <1>16, <1>17 DEF Next

\* The orders map never shows more than the book and the fills of the loop.
LEMMA UnsyncedStep ==
    ASSUME TypeOK, NoFillsLeft, SyncInv, Unsynced, [Next]_vars
    PROVE  Unsynced'
  <1>1. CASE UNCHANGED <<bookVars, callVars>>
    BY <1>1 DEF Unsynced, TakerBuys, bookVars, callVars
  <1>2. CASE pc' # "match"
    BY <1>2 DEF Unsynced
  <1>3. ASSUME NEW i \in OrderIds, MatchMaker(i) PROVE Unsynced'
    <2> DEFINE m == taker.market
    <2>1. /\ pc = "match" /\ m \in Markets /\ taker'.market = m /\ taker'.side = taker.side
          /\ orders' = orders
      <3>1. PICK z \in Nat, f \in SpotFill, o \in Order : Turn(i, z, f, o)
        BY <1>3, MatchFacts
      <3>2. QED
        BY <3>1 DEF Turn
    <2> SUFFICES ASSUME NEW a \in Accounts
                 PROVE  OfferedIn(orders[m], a)
                          <= OfferedIn(book'[m], a)
                               + (IF TakerBuys THEN DueIn(taker', fills', a) ELSE 0)
      BY <2>1 DEF Unsynced, TakerBuys
    <2>2. PICK d \in Nat :
            /\ DueIn(taker', fills', a) = DueIn(taker, fills, a) + d
            /\ OfferedIn(book'[m], a) = OfferedIn(book[m], a) - (IF TakerBuys THEN d ELSE 0)
      BY <1>3, TurnAmounts
    <2>3. OfferedIn(orders[m], a)
            <= OfferedIn(book[m], a) + (IF TakerBuys THEN DueIn(taker, fills, a) ELSE 0)
      BY <2>1 DEF Unsynced
    <2>4. /\ OfferedIn(orders[m], a) \in Nat /\ OfferedIn(book[m], a) \in Nat
          /\ DueIn(taker, fills, a) \in Nat
      BY <2>1, AmountsNat DEF InCall
    <2> HIDE DEF m
    <2>5. QED
      BY <2>2, <2>3, <2>4
  <1>4. ASSUME NEW a \in Accounts, NEW m \in Markets, NEW side \in Sides,
               NEW price \in Prices, NEW size \in Sizes, NEW tif \in TIFs,
               PlaceOrder(a, m, side, price, size, tif)
        PROVE  Unsynced'
    <2>1. /\ pc = "idle" /\ fills' = <<>> /\ UNCHANGED <<book, orders>> /\ taker'.market = m
      BY <1>4 DEF PlaceOrder, NoFillsLeft
    <2>2. \A c \in Accounts : OfferedIn(orders[m], c) \in Nat /\ DueIn(taker', fills', c) = 0
      <3>1. TAKE c \in Accounts
      <3>2. OfferedIn(orders[m], c) \in Nat
        BY AmountsNat
      <3>3. DueIn(taker', fills', c) = 0
        BY <2>1, DueNone
      <3>4. QED
        BY <3>2, <3>3
    <2>3. orders[m] = book[m]
      BY <2>1 DEF SyncInv, BookSynced
    <2>4. QED
      BY <2>1, <2>2, <2>3 DEF Unsynced
  <1>5. CASE \/ SyncMakers \/ BuyerPays \/ BuyerReceives \/ SellerPays \/ SellerReceives
             \/ FinishOrder \/ CancelNext
    BY <1>2, <1>5 DEF SyncMakers, BuyerPays, BuyerReceives, SellerPays, SellerReceives,
          FinishOrder, CancelNext, EndCall
  <1>6. ASSUME NEW a \in Accounts, NEW m \in Markets, NEW id \in OrderIds, cancel_order(a, m, id)
        PROVE  Unsynced'
    BY <1>2, <1>6 DEF cancel_order, callVars
  <1>7. ASSUME NEW a \in Accounts, NEW m \in Markets, cancel_all_orders(a, m)
        PROVE  Unsynced'
    BY <1>2, <1>7 DEF cancel_all_orders
  <1>8. ASSUME NEW a \in Accounts, NEW alloc \in GenesisAllocations, deploy_token(a, alloc)
        PROVE  Unsynced'
    BY <1>1, <1>8 DEF deploy_token
  <1>9. ASSUME NEW k \in Keys, NEW amount \in Amounts, NEW d \in BOOLEAN,
               view_transfer(k, amount, d)
        PROVE  Unsynced'
    BY <1>1, <1>9 DEF view_transfer
  <1>10. CASE ExternalNext
    BY <1>1, <1>10, ExternalFrame
  <1>11. CASE UNCHANGED vars
    BY <1>1, <1>11 DEF vars
  <1>12. CASE EngineNext
    BY <1>12, <1>3, <1>4, <1>5, <1>6, <1>7, <1>8, <1>9 DEF EngineNext, PlaceOrderStep
  <1>13. QED
    BY <1>10, <1>11, <1>12 DEF Next

\* The invariants of matching and reservations together.
EngineInv == TypeInv /\ PriorityInv /\ SyncInv /\ BackInv

\* They hold at the start and are kept by every step.
LEMMA EngineInductive ==
    /\ Init => EngineInv
    /\ EngineInv /\ [Next]_vars => EngineInv'
  <1>1. ASSUME Init PROVE EngineInv
    <2>1. TypeInv
      BY <1>1, InitType
    <2>2. PriorityInv
      BY <1>1 DEF Init, PriorityInv, FillsInPriority, FillsAhead, NoFillsLeft
    <2>3. SyncInv
      BY <1>1 DEF Init, SyncInv, BookSynced, SizesKept, InCall, EmptyMap
    <2>4. Backed
      <3> SUFFICES ASSUME NEW a \in Accounts, NEW m \in Markets
                   PROVE  reserved[<<a, m>>] >= OfferedIn(book[m], a) + Owed(a, m)
        BY DEF Backed
      <3>1. reserved[<<a, m>>] = 0
        BY <1>1, KeyFacts DEF Init
      <3>2. Owed(a, m) = 0
        BY <1>1 DEF Init, Owed, InCall
      <3>3. OfferedIn(book[m], a) = 0
        <4> DEFINE f == [id \in OrderIds |-> AskAt(book[m], a, id)]
        <4>1. f \in [OrderIds -> Nat] /\ \A id \in OrderIds : f[id] = 0
          BY <1>1 DEF Init, AskAt, EmptyMap
        <4>2. IsFiniteSet(OrderIds)
          BY FS_Interval, BoundsAssumption DEF OrderIds
        <4>3. f \in [OrderIds -> Int]
          BY <4>1
        <4>4. OfferedIn(book[m], a) = SumFunction(f)
          BY DEF OfferedIn
        <4> HIDE DEF f
        <4>5. QED
          BY <4>1, <4>2, <4>3, <4>4, SumZero
      <3>4. QED
        BY <3>1, <3>2, <3>3
    <2>5. Unsynced
      BY <1>1 DEF Init, Unsynced
    <2>6. QED
      BY <2>1, <2>2, <2>3, <2>4, <2>5 DEF EngineInv, BackInv
  <1>2. ASSUME EngineInv, [Next]_vars PROVE EngineInv'
    <2>1. TypeOK /\ ViewsAddUp /\ SweepInv /\ PriorityInv /\ NoFillsLeft /\ SyncInv /\ Backed /\ Unsynced
      BY <1>2 DEF EngineInv, TypeInv, BackInv, PriorityInv
    <2>2. TypeInv'
      BY <1>2, <2>1, TypeStep, SweepStep DEF TypeInv
    <2>3. PriorityInv'
      BY <1>2, <2>1, PriorityStep
    <2>4. SyncInv'
      BY <1>2, <2>1, SyncStep
    <2>5. Backed' /\ Unsynced'
      BY <1>2, <2>1, BackedStep, UnsyncedStep
    <2>6. QED
      BY <2>2, <2>3, <2>4, <2>5 DEF EngineInv, BackInv
  <1>3. QED
    BY <1>1, <1>2

\* Every resting ask is backed by a reservation of its base token
\* (reserve_balance and release_balance of spot_engine.rs), whatever the other
\* writers of the sheet do, wherever a call fails, and while the orders map
\* still shows asks that the loop has matched.
THEOREM AsksAlwaysReserved == Spec => []AsksReserved
  <1>1. Init => EngineInv
    BY EngineInductive
  <1>2. EngineInv /\ [Next]_vars => EngineInv'
    BY EngineInductive
  <1>3. EngineInv => AsksReserved
    <2> SUFFICES ASSUME EngineInv, NEW a \in Accounts, NEW m \in Markets
                 PROVE  reserved[<<a, m>>] >= Offered(a, m)
      BY DEF AsksReserved
    <2>1. TypeOK /\ SyncInv /\ Backed /\ Unsynced
      BY DEF EngineInv, TypeInv, BackInv
    <2>2. Offered(a, m) = OfferedIn(orders[m], a)
      BY <2>1, OfferedIs
    <2>3. /\ reserved[<<a, m>>] \in Int /\ OfferedIn(book[m], a) \in Nat
          /\ OfferedIn(orders[m], a) \in Nat /\ Owed(a, m) \in Nat
          /\ InCall => TakerAsk(a) \in Nat /\ DueIn(taker, fills, a) \in Nat
      BY <2>1, AmountsNat
    <2>4. reserved[<<a, m>>] >= OfferedIn(book[m], a) + Owed(a, m)
      BY <2>1 DEF Backed
    <2>5. CASE pc = "match" /\ m = taker.market
      <3>1. Owed(a, m) = DueIn(taker, fills, a) + TakerAsk(a)
        BY <2>5 DEF Owed, InCall, Unreleased
      <3>2. OfferedIn(orders[m], a)
              <= OfferedIn(book[m], a) + (IF TakerBuys THEN DueIn(taker, fills, a) ELSE 0)
        BY <2>1, <2>5 DEF Unsynced
      <3>3. InCall
        BY <2>5 DEF InCall
      <3>4. QED
        BY <2>2, <2>3, <2>4, <3>1, <3>2, <3>3
    <2>6. CASE ~(pc = "match" /\ m = taker.market)
      <3>1. book[m] = orders[m]
        BY <2>1, <2>6 DEF SyncInv, BookSynced
      <3>2. QED
        BY <2>2, <2>3, <2>4, <3>1
    <2>7. QED
      BY <2>5, <2>6
  <1>4. QED
    BY <1>1, <1>2, <1>3, PTL DEF Spec

-----------------------------------------------------------------------------
(* Reservations are covered by the core view when nobody bypasses them. *)

\* A core view is an integer, and not negative when no view of the sheet is.
LEMMA CoreViewValues ==
    ASSUME NEW b, ValidSheet(b)
    PROVE  /\ \A k \in Keys : get_core_view(b, k) \in Int
           /\ PositiveSheet(b) => \A k \in Keys : get_core_view(b, k) >= 0
  BY DEF ValidSheet, IsBalanceSheet, PositiveSheet, get_core_view, get_balance_or_default,
         UnifiedBalance, ZeroBalance, Views

\* What each operation does to the core views.
LEMMA CoreViewAfter ==
    ASSUME NEW b, ValidSheet(b), NEW k \in Keys, NEW amount \in Int, NEW x \in Keys
    PROVE  /\ get_core_view(b, x) \in Int
           /\ get_core_view(credit(b, k, amount), x)
                = get_core_view(b, x) + (IF x = k THEN amount ELSE 0)
           /\ CanDebitCore(b, k, amount) =>
                /\ get_core_view(b, k) >= amount
                /\ get_core_view(debit_core(b, k, amount), x)
                     = get_core_view(b, x) - (IF x = k THEN amount ELSE 0)
                /\ get_core_view(transfer_to_evm_view(b, k, amount), x)
                     = get_core_view(b, x) - (IF x = k THEN amount ELSE 0)
           /\ CanDebitEvm(b, k, amount) =>
                get_core_view(transfer_to_core_view(b, k, amount), x)
                  = get_core_view(b, x) + (IF x = k THEN amount ELSE 0)
  <1>1. /\ get_core_view(b, x) \in Int
        /\ x \in DOMAIN b => b[x].core_view \in Int
        /\ k \in DOMAIN b => b[k].core_view \in Int
    BY DEF ValidSheet, IsBalanceSheet, get_core_view, get_balance_or_default,
           UnifiedBalance, ZeroBalance, Views
  <1>2. get_core_view(credit(b, k, amount), x)
          = get_core_view(b, x) + (IF x = k THEN amount ELSE 0)
    BY <1>1 DEF credit, Insert, AddCore, Views, get_core_view, get_balance_or_default
  <1>3. ASSUME CanDebitCore(b, k, amount)
        PROVE  /\ get_core_view(b, k) >= amount
               /\ get_core_view(debit_core(b, k, amount), x)
                    = get_core_view(b, x) - (IF x = k THEN amount ELSE 0)
               /\ get_core_view(transfer_to_evm_view(b, k, amount), x)
                    = get_core_view(b, x) - (IF x = k THEN amount ELSE 0)
    BY <1>1, <1>3 DEF CanDebitCore, debit_core, transfer_to_evm_view, MoveToEvm,
           Insert, AddCore, Views, get_core_view, get_balance_or_default
  <1>4. ASSUME CanDebitEvm(b, k, amount)
        PROVE  get_core_view(transfer_to_core_view(b, k, amount), x)
                 = get_core_view(b, x) + (IF x = k THEN amount ELSE 0)
    BY <1>1, <1>4 DEF CanDebitEvm, transfer_to_core_view, MoveToEvm,
           Insert, Views, get_core_view, get_balance_or_default
  <1>5. QED
    BY <1>1, <1>2, <1>3, <1>4

\* The seller's reservation is released before the seller is debited, in a
\* later critical section: until then the core view covers both.
DeliveryInv ==
    pc \in {"buyer_receives", "seller_pays"} =>
        reserved[BaseKeyOfSeller] + fill.base_size
          <= get_core_view(balances, BaseKeyOfSeller)

WithinCore == \A k \in Keys : reserved[k] <= get_core_view(balances, k)

CoverInv == WithinCore /\ DeliveryInv

\* A step that leaves the sheet alone and raises no reservation.
LEMMA CoverFrame ==
    ASSUME TypeOK, TypeOK', CoverInv, UNCHANGED balances,
           \A k \in Keys : reserved'[k] <= reserved[k],
           pc' \notin {"buyer_receives", "seller_pays"}
    PROVE  CoverInv'
  BY DEF CoverInv, WithinCore, DeliveryInv, TypeOK, get_core_view,
         get_balance_or_default, IsBalanceSheet, UnifiedBalance, ZeroBalance, Views

\* Before a fill is applied its seller has reserved what it delivers.
LEMMA FillReserved ==
    ASSUME TypeOK, Backed, pc = "buyer_pays"
    PROVE  reserved[BaseKeyOfSeller] >= fill.base_size
  <1> DEFINE m == taker.market
  <1>1. /\ seller \in Accounts /\ m \in Markets /\ fill.base_size \in Nat /\ fills # <<>>
        /\ fills \in Seq(SpotFill) /\ Tail(fills) \in Seq(SpotFill) /\ InCall
    BY FillFacts DEF TypeOK, ApplyPcs, TakerOrder, InCall
  <1>2. DueOf(taker, Head(fills), seller) = fill.base_size
    BY DEF DueOf, SellerIn, seller, TakerBuys, fill
  <1>3. /\ DueIn(taker, Tail(fills), seller) \in Nat
        /\ DueIn(taker, fills, seller)
             = DueOf(taker, Head(fills), seller) + DueIn(taker, Tail(fills), seller)
    BY <1>1, DueOperations
  <1>4. Owed(seller, m) = DueIn(taker, fills, seller) + TakerAsk(seller)
    BY <1>1 DEF Owed, Unreleased
  <1>5. /\ TakerAsk(seller) \in Nat /\ OfferedIn(book[m], seller) \in Nat
        /\ reserved[<<seller, m>>] \in Int
        /\ reserved[<<seller, m>>] >= OfferedIn(book[m], seller) + Owed(seller, m)
    BY <1>1, AmountsNat DEF Backed
  <1>6. QED
    BY <1>1, <1>2, <1>3, <1>4, <1>5 DEF BaseKeyOfSeller

\* Every step of the engine keeps reservations and the fills that are still to
\* be paid within the core views.
LEMMA CoverStep ==
    ASSUME TypeOK, ViewsAddUp, SweepInv, Backed, Positive, CoverInv, [EngineNext]_vars,
           Positive', unchecked' = 0
    PROVE  CoverInv'
  <1>1. ValidSheet(balances)
    BY DEF TypeOK, ViewsAddUp, ValidSheet
  <1>2. TypeOK' /\ ViewsAddUp'
    BY TypeStep DEF Next
  <1>3. \A k \in Keys : /\ get_core_view(balances, k) \in Nat /\ reserved[k] \in Nat
                        /\ get_core_view(balances, k)' \in Nat /\ reserved'[k] \in Nat
                        /\ reserved[k] <= get_core_view(balances, k)
    <2>1. /\ \A k \in Keys : get_core_view(balances, k) \in Int /\ reserved[k] \in Int
          /\ \A k \in Keys : get_core_view(balances, k) >= 0 /\ reserved[k] >= 0
      BY <1>1, CoreViewValues DEF TypeOK, Positive
    <2>2. ValidSheet(balances') /\ PositiveSheet(balances')
      BY <1>2 DEF TypeOK, ViewsAddUp, ValidSheet, Positive
    <2>3. /\ \A k \in Keys : get_core_view(balances', k) \in Int /\ reserved'[k] \in Int
          /\ \A k \in Keys : get_core_view(balances', k) >= 0 /\ reserved'[k] >= 0
      BY <1>2, <2>2, CoreViewValues DEF TypeOK, Positive
    <2>4. \A k \in Keys : get_core_view(balances, k)' = get_core_view(balances', k)
      BY DEF get_core_view, get_balance_or_default
    <2>5. QED
      BY <2>1, <2>3, <2>4 DEF CoverInv, WithinCore
  <1>4. ASSUME NEW a \in Accounts, NEW alloc \in GenesisAllocations, deploy_token(a, alloc)
        PROVE  CoverInv'
    <2>1. \A k \in Keys : get_core_view(balances', k) >= get_core_view(balances, k)
      <3> DEFINE t == next_token_index
                 minted == Minted(a, alloc)
                 credited == (DOMAIN minted) \X {t}
      <3>1. \A x \in DOMAIN minted : minted[x] \in Nat
        BY GenesisAssumption, BoundsAssumption DEF Minted
      <3>2. balances' = [k \in DOMAIN balances \cup credited |->
                           IF k \in credited
                           THEN AddCore(get_balance_or_default(balances, k), minted[k[1]])
                           ELSE balances[k]]
        BY <1>4 DEF deploy_token
      <3>3. \A k \in credited : minted[k[1]] \in Nat
        BY <3>1
      <3> HIDE DEF minted, credited
      <3>4. TAKE k \in Keys
      <3>5. CASE k \in credited
        <4>1. get_core_view(balances', k) = get_core_view(balances, k) + minted[k[1]]
          BY <3>2, <3>5 DEF AddCore, Views, get_core_view, get_balance_or_default
        <4>2. QED
          BY <4>1, <3>3, <3>5, <1>3
      <3>6. CASE k \notin credited
        <4>1. get_core_view(balances', k) = get_core_view(balances, k)
          BY <3>2, <3>6 DEF get_core_view, get_balance_or_default
        <4>2. QED
          BY <4>1, <1>3
      <3>7. QED
        BY <3>5, <3>6
    <2>2. reserved' = reserved /\ pc' = "idle"
      BY <1>4 DEF deploy_token, callVars
    <2>3. QED
      BY <2>1, <2>2, <1>3 DEF CoverInv, WithinCore, DeliveryInv, get_core_view, get_balance_or_default
  <1>5. ASSUME NEW a \in Accounts, NEW m \in Markets, NEW side \in Sides,
               NEW price \in Prices, NEW size \in Sizes, NEW tif \in TIFs,
               PlaceOrder(a, m, side, price, size, tif)
        PROVE  CoverInv'
    <2> DEFINE k == <<a, reserve_token(side, m)>>
               amount == reserve_amount(side, size, price)
    <2>1. k \in Keys /\ amount \in Nat
      <3>1. Counted(price > 0) /\ validate_order(price, size) /\ unchecked \in 0..MaxDisturbances
        BY <1>5 DEF PlaceOrder, TypeOK
      <3>2. price \in Int /\ price > 0
        BY <3>1, BoundsAssumption, RequestAssumption DEF Counted
      <3>3. size \in Nat
        BY <3>1, ValidSizePositive, RequestAssumption
      <3>4. QED
        BY <3>2, <3>3, KeyFacts, Conversions
    <2>2. /\ reserved' = [reserved EXCEPT ![k] = @ + amount]
          /\ get_core_view(balances, k) - reserved[k] >= amount
          /\ balances' = balances /\ pc' = "match"
      BY <1>5 DEF PlaceOrder, available
    <2> HIDE DEF k, amount
    <2>3. \A x \in Keys : reserved'[x] <= get_core_view(balances, x)
      BY <2>1, <2>2, <1>3 DEF TypeOK
    <2>4. QED
      BY <2>2, <2>3 DEF CoverInv, WithinCore, DeliveryInv
  <1>6. ASSUME NEW i \in OrderIds, MatchMaker(i)
        PROVE  CoverInv'
    BY <1>6, <1>2, <1>3, CoverFrame DEF MatchMaker
  <1>7. CASE SyncMakers
    BY <1>7, <1>2, <1>3, CoverFrame DEF SyncMakers
  <1>8. CASE BuyerPays
    <2>1. pc \in ApplyPcs
      BY <1>8 DEF BuyerPays, ApplyPcs
    <2>2. PICK q \in Nat, z \in Nat, kq \in Keys, kb \in Keys :
            /\ q = quote_with_fee /\ z = fill.base_size
            /\ kq = QuoteKey /\ kb = BaseKeyOfSeller /\ kq # kb
      BY <2>1, FillFacts, FillPositive
    <2>3. reserved' = [reserved EXCEPT ![kq] = Released(@, q), ![kb] = Released(@, z)]
      BY <1>8, <2>2 DEF BuyerPays, ReleaseBoth
    <2>4. /\ \A x \in Keys \ {kq, kb} : reserved'[x] = reserved[x]
          /\ reserved'[kq] = Released(reserved[kq], q)
          /\ reserved'[kb] = Released(reserved[kb], z)
      BY <2>2, <2>3 DEF TypeOK
    <2>5. \A x \in Keys : reserved'[x] <= reserved[x]
      <3>1. /\ Released(reserved[kq], q) <= reserved[kq]
            /\ Released(reserved[kb], z) <= reserved[kb]
        BY <2>2, <1>3 DEF Released
      <3>2. QED
        BY <2>4, <3>1, <1>3
    <2>6. CASE ~CanDebitCore(balances, QuoteKey, quote_with_fee)
      BY <1>8, <2>5, <2>6, <1>2, CoverFrame DEF BuyerPays, EndCall
    <2>7. CASE CanDebitCore(balances, QuoteKey, quote_with_fee)
      <3>1. /\ balances' = debit_core(balances, kq, q) /\ pc' = "buyer_receives"
            /\ UNCHANGED <<taker, fills>>
        BY <1>8, <2>2, <2>7 DEF BuyerPays
      <3>2. /\ get_core_view(balances, kq) >= q
            /\ get_core_view(balances', kq) = get_core_view(balances, kq) - q
            /\ \A x \in Keys \ {kq} : get_core_view(balances', x) = get_core_view(balances, x)
        BY <3>1, <2>2, <2>7, <1>1, CoreViewAfter, <1>3
      <3>3. \A x \in Keys : reserved'[x] <= get_core_view(balances', x)
        BY <3>2, <2>2, <2>4, <1>3 DEF Released
      <3>4. fill' = fill /\ BaseKeyOfSeller' = kb
        BY <3>1, <2>2 DEF fill, BaseKeyOfSeller, seller, TakerBuys
      <3>5. reserved'[kb] + z <= get_core_view(balances', kb)
        <4>1. reserved[kb] >= z
          BY <1>8, <2>2, FillReserved DEF BuyerPays
        <4>2. QED
          BY <4>1, <3>2, <2>2, <2>4, <1>3 DEF Released
      <3>6. QED
        BY <3>3, <3>4, <3>5, <2>2 DEF CoverInv, WithinCore, DeliveryInv
    <2>8. QED
      BY <2>6, <2>7
  <1>9. CASE BuyerReceives
    <2>1. pc \in ApplyPcs /\ pc = "buyer_receives"
      BY <1>9 DEF BuyerReceives, ApplyPcs
    <2>2. PICK z \in Nat, kbb \in Keys, kb \in Keys :
            z = fill.base_size /\ kbb = BaseKeyOfBuyer /\ kb = BaseKeyOfSeller
      BY <2>1, FillFacts
    <2>3. /\ balances' = credit(balances, kbb, z) /\ reserved' = reserved
          /\ UNCHANGED <<taker, fills>>
      BY <1>9, <2>2 DEF BuyerReceives
    <2>4. \A x \in Keys : get_core_view(balances', x) >= get_core_view(balances, x)
      <3>1. \A x \in Keys : get_core_view(balances', x)
                              = get_core_view(balances, x) + (IF x = kbb THEN z ELSE 0)
        BY <2>2, <2>3, <1>1, CoreViewAfter
      <3>2. QED
        BY <3>1, <2>2, <1>3
    <2>5. fill' = fill /\ BaseKeyOfSeller' = kb
      BY <2>2, <2>3 DEF fill, BaseKeyOfSeller, seller, TakerBuys
    <2>6. reserved[kb] + z <= get_core_view(balances, kb)
      BY <2>1, <2>2 DEF CoverInv, DeliveryInv
    <2>7. /\ \A x \in Keys : reserved'[x] <= get_core_view(balances', x)
          /\ reserved'[kb] + z <= get_core_view(balances', kb)
      BY <2>2, <2>3, <2>4, <2>6, <1>3
    <2>8. QED
      BY <2>2, <2>5, <2>7 DEF CoverInv, WithinCore, DeliveryInv
  <1>10. CASE SellerPays
    <2>1. pc \in ApplyPcs /\ pc = "seller_pays"
      BY <1>10 DEF SellerPays, ApplyPcs
    <2>2. PICK z \in Nat, kb \in Keys : z = fill.base_size /\ kb = BaseKeyOfSeller
      BY <2>1, FillFacts
    <2>3. reserved[kb] + z <= get_core_view(balances, kb)
      BY <2>1, <2>2 DEF CoverInv, DeliveryInv
    <2>4. CASE ~CanDebitCore(balances, BaseKeyOfSeller, fill.base_size)
      BY <1>10, <2>4, <1>2, <1>3, CoverFrame DEF SellerPays, EndCall
    <2>5. CASE CanDebitCore(balances, BaseKeyOfSeller, fill.base_size)
      <3>1. /\ balances' = debit_core(balances, kb, z) /\ reserved' = reserved
            /\ pc' = "seller_receives"
        BY <1>10, <2>2, <2>5 DEF SellerPays
      <3>2. /\ get_core_view(balances, kb) >= z
            /\ \A x \in Keys : get_core_view(balances', x)
                                 = get_core_view(balances, x) - (IF x = kb THEN z ELSE 0)
        BY <3>1, <2>2, <2>5, <1>1, CoreViewAfter
      <3>3. \A x \in Keys : reserved'[x] <= get_core_view(balances', x)
        BY <3>1, <3>2, <2>2, <2>3, <1>3
      <3>4. QED
        BY <3>1, <3>3 DEF CoverInv, WithinCore, DeliveryInv
    <2>6. QED
      BY <2>4, <2>5
  <1>11. CASE SellerReceives
    <2>1. pc \in ApplyPcs
      BY <1>11 DEF SellerReceives, ApplyPcs
    <2>2. PICK z \in Nat, k \in Keys : z = seller_receives /\ k = <<seller, USDC>>
      BY <2>1, FillFacts, FillPositive
    <2>3. /\ balances' = credit(balances, k, z) /\ reserved' = reserved
          /\ pc' \notin {"buyer_receives", "seller_pays"}
      BY <1>11, <2>2 DEF SellerReceives
    <2>4. \A x \in Keys : get_core_view(balances', x) >= get_core_view(balances, x)
      BY <2>2, <2>3, <1>1, <1>3, CoreViewAfter
    <2>5. \A x \in Keys : reserved'[x] <= get_core_view(balances', x)
      BY <2>3, <2>4, <1>3
    <2>6. QED
      BY <2>3, <2>5 DEF CoverInv, WithinCore, DeliveryInv
  <1>12. CASE FinishOrder
    <2>1. \A x \in Keys : reserved'[x] <= reserved[x]
      <3> DEFINE k == <<taker.owner, reserve_token(taker.side, taker.market)>>
      <3>1. taker \in TakerOrder
        BY <1>12 DEF FinishOrder, TypeOK
      <3>2. k \in Keys /\ remaining_reserve \in Nat
        <4>1. /\ taker.owner \in Accounts /\ taker.side \in Sides /\ taker.market \in Markets
              /\ taker.reserve \in Int /\ taker.filled_reserve \in Int
          BY <3>1 DEF TakerOrder
        <4>2. remaining_reserve \in Nat
          BY <4>1 DEF remaining_reserve
        <4>3. k \in Keys
          BY <4>1, KeyFacts
        <4>4. QED
          BY <4>2, <4>3
      <3>3. reserved' = reserved
              \/ reserved' = [reserved EXCEPT ![k] = Released(@, remaining_reserve)]
        BY <1>12 DEF FinishOrder
      <3> HIDE DEF k
      <3>4. Released(reserved[k], remaining_reserve) <= reserved[k]
        BY <3>2, <1>3 DEF Released
      <3>5. reserved \in [Keys -> Int]
        BY DEF TypeOK
      <3>6. QED
        BY <3>2, <3>3, <3>4, <3>5, <1>3, SMTT(40)
    <2>2. QED
      BY <1>12, <1>2, <2>1, CoverFrame DEF FinishOrder, EndCall
  <1>13. ASSUME NEW m \in Markets, NEW id \in DOMAIN orders[m], Cancel(m, id),
                UNCHANGED balances, pc' \in {"idle", "cancel_all"}
         PROVE  CoverInv'
    <2> DEFINE o == orders[m][id]
               k == <<o.owner, reserve_token(o.side, m)>>
               amount == reserve_amount(o.side, o.remaining, o.price)
    <2>1. /\ o.owner \in Accounts /\ o.side \in Sides /\ o.remaining \in Nat
          /\ o.price \in Int /\ o.price >= 0
      BY DEF TypeOK, IsOrderMap, Order, Positive, PositivePrices
    <2>2. k \in Keys /\ amount \in Nat
      <3>1. k \in Keys
        BY <2>1, KeyFacts
      <3>2. amount \in Int /\ amount >= 0
        BY <2>1, Conversions
      <3>3. QED
        BY <3>1, <3>2
    <2>3. reserved' = [reserved EXCEPT ![k] = Released(@, amount)]
      BY <1>13 DEF Cancel
    <2> HIDE DEF k, amount
    <2>4. \A x \in Keys : reserved'[x] <= reserved[x]
      BY <2>2, <2>3, <1>3, ReleasedIs DEF TypeOK
    <2>5. QED
      BY <1>13, <1>2, <2>4, CoverFrame
  <1>14. ASSUME NEW a \in Accounts, NEW m \in Markets, NEW id \in OrderIds,
                cancel_order(a, m, id)
         PROVE  CoverInv'
    BY <1>13, <1>14 DEF cancel_order, callVars
  <1>15. ASSUME NEW a \in Accounts, NEW m \in Markets, cancel_all_orders(a, m)
         PROVE  CoverInv'
    BY <1>15, <1>2, <1>3, CoverFrame DEF cancel_all_orders
  <1>16. CASE CancelNext
    <2>1. PICK x \in todo : Cancel(x[1], x[2])
      BY <1>16 DEF CancelNext
    <2>2. x[1] \in Markets /\ x[2] \in DOMAIN orders[x[1]]
      BY <2>1 DEF TypeOK, SweepInv
    <2>3. UNCHANGED balances /\ pc' \in {"idle", "cancel_all"}
      BY <1>16 DEF CancelNext
    <2>4. QED
      BY <1>13, <2>1, <2>2, <2>3
  <1>17. ASSUME NEW k \in Keys, NEW amount \in Amounts, NEW d \in BOOLEAN,
                view_transfer(k, amount, d)
         PROVE  CoverInv'
    <2>1. amount \in Nat /\ reserved' = reserved /\ pc' = "idle"
      BY <1>17, AmountPositive DEF view_transfer, callVars
    <2>2. \A x \in Keys : reserved[x] <= get_core_view(balances', x)
      <3>1. CASE d
        <4>1. /\ balances' = transfer_to_evm_view(balances, k, amount)
              /\ CanDebitCore(balances, k, amount)
              /\ get_core_view(balances, k) - reserved[k] >= amount
          BY <1>17, <3>1 DEF view_transfer, available
        <4>2. \A x \in Keys : get_core_view(balances', x)
                                = get_core_view(balances, x) - (IF x = k THEN amount ELSE 0)
          BY <4>1, <2>1, <1>1, CoreViewAfter
        <4>3. QED
          BY <4>1, <4>2, <2>1, <1>3
      <3>2. CASE ~d
        <4>1. /\ balances' = transfer_to_core_view(balances, k, amount)
              /\ CanDebitEvm(balances, k, amount)
          BY <1>17, <3>2 DEF view_transfer
        <4>2. \A x \in Keys : get_core_view(balances', x)
                                = get_core_view(balances, x) + (IF x = k THEN amount ELSE 0)
          BY <4>1, <2>1, <1>1, CoreViewAfter
        <4>3. QED
          BY <4>2, <2>1, <1>3
      <3>3. QED
        BY <3>1, <3>2
    <2>3. QED
      BY <2>1, <2>2 DEF CoverInv, WithinCore, DeliveryInv
  <1>18. CASE UNCHANGED vars
    BY <1>18 DEF vars, callVars, CoverInv, WithinCore, DeliveryInv,
                 BaseKeyOfSeller, seller, fill, TakerBuys
  <1>19. QED
    BY <1>4, <1>5, <1>6, <1>7, <1>8, <1>9, <1>10, <1>11, <1>12, <1>14, <1>15, <1>16,
       <1>17, <1>18 DEF EngineNext, PlaceOrderStep

\* A step of the engine is not one of the other writers'.
LEMMA EngineCountsNone ==
    ASSUME EngineNext
    PROVE  external_ops' = external_ops
  <1>1. CASE PlaceOrderStep
    BY <1>1, Zenon DEF PlaceOrderStep, MatchMaker, SyncMakers, BuyerPays,
       BuyerReceives, SellerPays, SellerReceives, FinishOrder
  <1>2. ASSUME NEW a \in Accounts, NEW m \in Markets, NEW side \in Sides,
               NEW price \in Prices, NEW size \in Sizes, NEW tif \in TIFs,
               PlaceOrder(a, m, side, price, size, tif)
        PROVE  external_ops' = external_ops
    BY <1>2, Zenon DEF PlaceOrder
  <1>3. ASSUME NEW k \in Keys, NEW amount \in Amounts, NEW d \in BOOLEAN,
               view_transfer(k, amount, d)
        PROVE  external_ops' = external_ops
    BY <1>3, Zenon DEF view_transfer
  <1>4. ASSUME NEW a \in Accounts, NEW alloc \in GenesisAllocations, deploy_token(a, alloc)
        PROVE  external_ops' = external_ops
    BY <1>4, Zenon DEF deploy_token
  <1>5. ASSUME NEW a \in Accounts, NEW m \in Markets, NEW id \in OrderIds,
               cancel_order(a, m, id)
        PROVE  external_ops' = external_ops
    BY <1>5, Zenon DEF cancel_order
  <1>6. ASSUME NEW a \in Accounts, NEW m \in Markets, cancel_all_orders(a, m)
        PROVE  external_ops' = external_ops
    BY <1>6, Zenon DEF cancel_all_orders
  <1>7. CASE CancelNext
    BY <1>7, Zenon DEF CancelNext
  <1>8. QED
    BY <1>1, <1>2, <1>3, <1>4, <1>5, <1>6, <1>7 DEF EngineNext

\* What a step leaves undisturbed was so before it, and is a step of the engine.
LEMMA StillUndisturbed ==
    ASSUME TypeOK, [Next]_vars, Undisturbed'
    PROVE  Undisturbed /\ unchecked' = 0 /\ [EngineNext]_vars
  <1>1. external_ops \in 0..MaxDisturbances /\ unchecked \in 0..MaxDisturbances
    BY DEF TypeOK
  <1>2. external_ops' = 0 /\ unchecked' = 0
    BY DEF Undisturbed
  <1>3. CASE ExternalNext
    BY <1>1, <1>2, <1>3, ExternalFrame, BoundsAssumption
  <1>4. CASE UNCHANGED vars
    BY <1>2, <1>4 DEF vars, Undisturbed
  <1>5. CASE EngineNext
    <2>1. external_ops' = external_ops
      BY <1>5, EngineCountsNone
    <2>2. unchecked' >= unchecked
      BY <1>5, UncheckedGrows
    <2>3. QED
      BY <1>1, <1>2, <1>5, <2>1, <2>2, BoundsAssumption DEF Undisturbed
  <1>6. QED
    BY <1>3, <1>4, <1>5 DEF Next

\* Everything that holds of the engine, and of an undisturbed one in addition.
AloneInv == EngineInv /\ PositiveInv /\ (Undisturbed => CoverInv)

\* It holds at the start and is kept by every step.
LEMMA AloneInductive ==
    /\ Init => AloneInv
    /\ AloneInv /\ [Next]_vars => AloneInv'
  <1>1. ASSUME Init PROVE PositiveInv /\ CoverInv
    <2>1. ValidSheet(balances) /\ PositiveSheet(balances)
      BY <1>1, InitType, InitPositive DEF TypeInv, TypeOK, ViewsAddUp, ValidSheet, Positive
    <2>2. \A k \in Keys : get_core_view(balances, k) \in Int /\ get_core_view(balances, k) >= 0
      BY <2>1, CoreViewValues
    <2>3. QED
      BY <1>1, <2>2, InitPositive DEF Init, CoverInv, WithinCore, DeliveryInv, PositiveInv
  <1>2. ASSUME AloneInv, [Next]_vars PROVE EngineInv' /\ PositiveInv'
    BY <1>2, EngineInductive, PositiveStep DEF AloneInv, EngineInv, TypeInv
  <1>3. ASSUME AloneInv, [Next]_vars, Undisturbed' PROVE CoverInv'
    <2>1. TypeOK /\ ViewsAddUp /\ SweepInv /\ Backed
      BY <1>3 DEF AloneInv, EngineInv, TypeInv, BackInv
    <2>2. Undisturbed /\ unchecked' = 0 /\ [EngineNext]_vars
      BY <1>3, <2>1, StillUndisturbed
    <2>3. CoverInv /\ Positive /\ Positive'
      BY <1>2, <1>3, <2>2 DEF AloneInv, PositiveInv, Undisturbed
    <2>4. QED
      BY <2>1, <2>2, <2>3, CoverStep
  <1>4. QED
    BY <1>1, <1>2, <1>3, EngineInductive DEF AloneInv

\* With no writer that bypasses reservations and no request that is not
\* positive, the engine never promises the same core balance twice
\* (reserve_balance, release_balance, view_transfer and the split critical
\* sections of apply_fill), for every size of the system and every fee schedule.
THEOREM EngineNeverOverReserves == Spec => []ReservedWithinCore
  <1>1. AloneInv => ReservedWithinCore
    BY DEF AloneInv, CoverInv, WithinCore, ReservedWithinCore
  <1>2. QED
    BY <1>1, AloneInductive, PTL DEF Spec

\* What the second debit of a fill needs.
LEMMA DeliveryPossible ==
    ASSUME AloneInv
    PROVE  SellerDelivers
  <1> SUFFICES ASSUME Undisturbed, pc = "seller_pays"
               PROVE  CanDebitCore(balances, BaseKeyOfSeller, fill.base_size)
    BY DEF SellerDelivers
  <1>1. TypeOK /\ ViewsAddUp /\ SizesKept /\ DeliveryInv /\ Positive
    BY DEF AloneInv, EngineInv, TypeInv, SyncInv, CoverInv, PositiveInv, Undisturbed
  <1>2. /\ BaseKeyOfSeller \in Keys /\ fill.base_size \in Nat /\ fills # <<>>
        /\ fills \in Seq(SpotFill)
        /\ reserved[BaseKeyOfSeller] \in Int /\ reserved[BaseKeyOfSeller] >= 0
    BY <1>1, FillFacts DEF ApplyPcs, TypeOK, Positive
  <1>3. fill.base_size > 0
    <2>1. 1 \in 1..Len(fills) /\ fill = fills[1]
      BY <1>2 DEF fill
    <2>2. QED
      BY <1>1, <2>1 DEF SizesKept
  <1>4. reserved[BaseKeyOfSeller] + fill.base_size <= get_core_view(balances, BaseKeyOfSeller)
    BY <1>1 DEF DeliveryInv
  <1>5. get_core_view(balances, BaseKeyOfSeller) \in Int
    BY <1>1, <1>2, CoreViewAfter DEF ValidSheet, TypeOK, ViewsAddUp
  <1>6. get_core_view(balances, BaseKeyOfSeller) >= fill.base_size
    BY <1>2, <1>4, <1>5
  <1>7. BaseKeyOfSeller \in DOMAIN balances
    BY <1>2, <1>3, <1>5, <1>6 DEF get_core_view, get_balance_or_default, ZeroBalance, Views
  <1>8. QED
    BY <1>6, <1>7 DEF CanDebitCore, get_core_view, get_balance_or_default

\* In an undisturbed engine the seller of a fill can deliver although its
\* reservation was released two critical sections earlier (apply_fill in
\* spot_engine.rs): the debit after the buyer has paid never fails, and no fill
\* is applied by half.
THEOREM SellerAlwaysDelivers == Spec => []SellerDelivers
  <1>1. AloneInv => SellerDelivers
    BY DeliveryPossible
  <1>2. QED
    BY <1>1, AloneInductive, PTL DEF Spec

-----------------------------------------------------------------------------
(* Base tokens are neither minted nor lost. *)

TotalOf(b, k) == get_balance_or_default(b, k).total

\* The supply of token t on the sheet b.
SupplyOf(b, t) == SumFunction([a \in Accounts |-> TotalOf(b, <<a, t>>)])

\* Writing one entry changes the supply of its token by the change of its total.
LEMMA SupplyInsert ==
    ASSUME NEW b, ValidSheet(b), NEW k \in Keys, NEW v \in UnifiedBalance, NEW t \in Tokens
    PROVE  /\ SupplyOf(b, t) \in Int
           /\ SupplyOf(Insert(b, k, v), t)
                = SupplyOf(b, t) + (IF k[2] = t THEN v.total - TotalOf(b, k) ELSE 0)
  <1> DEFINE c == Insert(b, k, v)
             f == [a \in Accounts |-> TotalOf(b, <<a, t>>)]
             g == [a \in Accounts |-> TotalOf(c, <<a, t>>)]
  <1>1. k[1] \in Accounts /\ k[2] \in Tokens /\ k = <<k[1], k[2]>>
    BY DEF Keys
  <1>2. ValidSheet(b) /\ v.total \in Int /\ \A x \in Keys : TotalOf(b, x) \in Int
    BY DEF ValidSheet, IsBalanceSheet, UnifiedBalance, TotalOf, get_balance_or_default,
           ZeroBalance, Views
  <1>3. \A x \in Keys : TotalOf(c, x) = IF x = k THEN v.total ELSE TotalOf(b, x)
    BY DEF TotalOf, get_balance_or_default, Insert
  <1>4. \A a \in Accounts : <<a, t>> \in Keys
    BY KeyFacts
  <1>5. /\ f \in [Accounts -> Int] /\ g \in [Accounts -> Int]
        /\ \A a \in Accounts : f[a] = TotalOf(b, <<a, t>>) /\ g[a] = TotalOf(c, <<a, t>>)
    BY <1>2, <1>3, <1>4
  <1>6. SupplyOf(b, t) = SumFunction(f) /\ SupplyOf(c, t) = SumFunction(g)
    BY DEF SupplyOf
  <1>7. \A a \in Accounts \ {k[1]} : g[a] = f[a]
    BY <1>1, <1>3, <1>4, <1>5
  <1>8. /\ f[k[1]] = TotalOf(b, <<k[1], t>>)
        /\ g[k[1]] = IF k[2] = t THEN v.total ELSE f[k[1]]
    BY <1>1, <1>3, <1>4, <1>5
  <1>9. k[2] = t => f[k[1]] = TotalOf(b, k)
    BY <1>1, <1>8
  <1>10. f[k[1]] \in Int /\ g[k[1]] \in Int
    BY <1>1, <1>5
  <1> HIDE DEF c, f, g
  <1>11. SumFunction(f) \in Int /\ SumFunction(g) = SumFunction(f) - f[k[1]] + g[k[1]]
    <2>1. SumFunction(f) \in Int
      BY <1>5, AccountsAssumption, SumType
    <2>2. SumFunction(g) = SumFunction(f) - f[k[1]] + g[k[1]]
      BY <1>1, <1>5, <1>7, AccountsAssumption, SumChange
    <2>3. QED
      BY <2>1, <2>2
  <1>12. SumFunction(g) = SumFunction(f) + (IF k[2] = t THEN v.total - TotalOf(b, k) ELSE 0)
    BY <1>2, <1>8, <1>9, <1>10, <1>11
  <1>13. QED
    BY <1>6, <1>11, <1>12 DEF c

\* What each operation of the engine does to the supply of a token.
LEMMA SupplyOperations ==
    ASSUME NEW b, ValidSheet(b), NEW k \in Keys, NEW amount \in Int, NEW t \in Tokens
    PROVE  /\ SupplyOf(b, t) \in Int
           /\ SupplyOf(credit(b, k, amount), t)
                = SupplyOf(b, t) + (IF k[2] = t THEN amount ELSE 0)
           /\ CanDebitCore(b, k, amount) =>
                /\ SupplyOf(debit_core(b, k, amount), t)
                     = SupplyOf(b, t) - (IF k[2] = t THEN amount ELSE 0)
                /\ SupplyOf(transfer_to_evm_view(b, k, amount), t) = SupplyOf(b, t)
           /\ CanDebitEvm(b, k, amount) =>
                SupplyOf(transfer_to_core_view(b, k, amount), t) = SupplyOf(b, t)
  <1> DEFINE e == get_balance_or_default(b, k)
  <1>1. /\ e \in UnifiedBalance /\ e.total = e.core_view + e.evm_view
        /\ e.total \in Int /\ e.core_view \in Int /\ e.evm_view \in Int /\ TotalOf(b, k) = e.total
    BY DEF ValidSheet, IsBalanceSheet, UnifiedBalance, TotalOf, get_balance_or_default,
           ZeroBalance, Views, verify_invariants
  <1>2. /\ CanDebitCore(b, k, amount) => b[k] = e /\ e.core_view >= amount
        /\ CanDebitEvm(b, k, amount) => b[k] = e /\ e.evm_view >= amount
    BY DEF CanDebitCore, CanDebitEvm, get_balance_or_default
  <1> HIDE DEF e
  <1>3. SupplyOf(b, t) \in Int
    BY <1>1, SupplyInsert
  <1>4. \A v \in UnifiedBalance : SupplyOf(Insert(b, k, v), t)
          = SupplyOf(b, t) + (IF k[2] = t THEN v.total - e.total ELSE 0)
    BY <1>1, SupplyInsert
  <1>5. SupplyOf(credit(b, k, amount), t) = SupplyOf(b, t) + (IF k[2] = t THEN amount ELSE 0)
    <2> DEFINE v == AddCore(e, amount)
    <2>1. v \in UnifiedBalance /\ v.total = e.total + amount
      BY <1>1 DEF AddCore, Views, UnifiedBalance
    <2>2. credit(b, k, amount) = Insert(b, k, v)
      BY DEF credit, e
    <2> HIDE DEF v
    <2>3. QED
      BY <1>1, <1>3, <1>4, <2>1, <2>2
  <1>6. ASSUME CanDebitCore(b, k, amount)
        PROVE  SupplyOf(debit_core(b, k, amount), t)
                 = SupplyOf(b, t) - (IF k[2] = t THEN amount ELSE 0)
    <2> DEFINE v == AddCore(e, -amount)
    <2>1. v \in UnifiedBalance /\ v.total = e.total - amount
      BY <1>1, <1>2, <1>6 DEF AddCore, Views, UnifiedBalance
    <2>2. debit_core(b, k, amount) = Insert(b, k, v)
      BY <1>2, <1>6 DEF debit_core
    <2> HIDE DEF v
    <2>3. QED
      BY <1>1, <1>3, <1>4, <2>1, <2>2
  <1>7. ASSUME CanDebitCore(b, k, amount)
        PROVE  SupplyOf(transfer_to_evm_view(b, k, amount), t) = SupplyOf(b, t)
    <2> DEFINE v == MoveToEvm(e, amount)
    <2>1. v \in UnifiedBalance /\ v.total = e.total
      BY <1>1, <1>2, <1>7 DEF MoveToEvm, Views, UnifiedBalance
    <2>2. transfer_to_evm_view(b, k, amount) = Insert(b, k, v)
      BY <1>2, <1>7 DEF transfer_to_evm_view
    <2> HIDE DEF v
    <2>3. QED
      BY <1>1, <1>3, <1>4, <2>1, <2>2
  <1>8. ASSUME CanDebitEvm(b, k, amount)
        PROVE  SupplyOf(transfer_to_core_view(b, k, amount), t) = SupplyOf(b, t)
    <2> DEFINE v == MoveToEvm(e, -amount)
    <2>1. v \in UnifiedBalance /\ v.total = e.total
      BY <1>1, <1>2, <1>8 DEF MoveToEvm, Views, UnifiedBalance
    <2>2. transfer_to_core_view(b, k, amount) = Insert(b, k, v)
      BY <1>2, <1>8 DEF transfer_to_core_view
    <2> HIDE DEF v
    <2>3. QED
      BY <1>1, <1>3, <1>4, <2>1, <2>2
  <1>9. QED
    BY <1>3, <1>5, <1>6, <1>7, <1>8

\* At every step of the engine what the accounts own of a base token, less what
\* is in transit, stays the same.
LEMMA SupplyStep ==
    ASSUME AloneInv, Undisturbed, [EngineNext]_vars, NEW m \in DeployedMarkets
    PROVE  (Supply(m) - InTransit(m))' = Supply(m) - InTransit(m)
  <1>1. TypeOK /\ ViewsAddUp /\ ValidSheet(balances)
    BY DEF AloneInv, EngineInv, TypeInv, TypeOK, ViewsAddUp, ValidSheet
  <1>2. /\ m \in Tokens /\ m # USDC /\ m # next_token_index /\ m \in Markets
    BY <1>1, TokensAssumption DEF DeployedMarkets, TypeOK, USDC, Markets
  <1>3. /\ Supply(m) = SupplyOf(balances, m) /\ Supply(m)' = SupplyOf(balances', m)
    BY DEF Supply, SupplyOf, TotalOf
  <1>4. SupplyOf(balances, m) \in Int
    <2> DEFINE f == [a \in Accounts |-> TotalOf(balances, <<a, m>>)]
    <2>1. \A a \in Accounts : TotalOf(balances, <<a, m>>) \in Int
      <3>1. \A x \in Keys : TotalOf(balances, x) \in Int
        BY <1>1 DEF ValidSheet, IsBalanceSheet, UnifiedBalance, TotalOf,
               get_balance_or_default, ZeroBalance, Views
      <3>2. QED
        BY <1>2, <3>1, KeyFacts
    <2>2. f \in [Accounts -> Int]
      BY <2>1
    <2>3. SupplyOf(balances, m) = SumFunction(f)
      BY DEF SupplyOf
    <2> HIDE DEF f
    <2>4. QED
      BY <2>2, <2>3, AccountsAssumption, SumType
  <1>5. ASSUME UNCHANGED balances, pc # "seller_pays", pc' # "seller_pays"
        PROVE  (Supply(m) - InTransit(m))' = Supply(m) - InTransit(m)
    BY <1>3, <1>5 DEF InTransit
  <1>6. ASSUME SupplyOf(balances', m) = SupplyOf(balances, m), pc # "seller_pays", pc' # "seller_pays"
        PROVE  (Supply(m) - InTransit(m))' = Supply(m) - InTransit(m)
    BY <1>3, <1>6 DEF InTransit
  <1>7. ASSUME NEW a \in Accounts, NEW alloc \in GenesisAllocations, deploy_token(a, alloc)
        PROVE  (Supply(m) - InTransit(m))' = Supply(m) - InTransit(m)
    <2> DEFINE credited == (DOMAIN Minted(a, alloc)) \X {next_token_index}
    <2>1. \A c \in Accounts : <<c, m>> \notin credited
      BY <1>2
    <2>2. /\ pc = "idle" /\ pc' = "idle"
          /\ DOMAIN balances' = DOMAIN balances \cup credited
          /\ \A k \in DOMAIN balances : k \notin credited => balances'[k] = balances[k]
      BY <1>7 DEF deploy_token, callVars
    <2> HIDE DEF credited
    <2>3. \A c \in Accounts : TotalOf(balances', <<c, m>>) = TotalOf(balances, <<c, m>>)
      BY <2>1, <2>2 DEF TotalOf, get_balance_or_default
    <2>4. SupplyOf(balances', m) = SupplyOf(balances, m)
      BY <2>3 DEF SupplyOf
    <2>5. QED
      BY <1>6, <2>2, <2>4
  <1>8. CASE BuyerPays
    <2>1. pc \in ApplyPcs /\ pc # "seller_pays" /\ pc' # "seller_pays"
      BY <1>8 DEF BuyerPays, ApplyPcs, EndCall
    <2>2. PICK q \in Int, k \in Keys : q = quote_with_fee /\ k = QuoteKey /\ k[2] = USDC
      BY <1>1, <2>1, FillFacts DEF QuoteKey
    <2>3. CASE UNCHANGED balances
      BY <1>5, <2>1, <2>3
    <2>4. CASE CanDebitCore(balances, k, q) /\ balances' = debit_core(balances, k, q)
      <3>1. SupplyOf(balances', m) = SupplyOf(balances, m) - 0
        BY <1>1, <1>2, <2>2, <2>4, SupplyOperations
      <3>2. QED
        BY <1>4, <1>6, <2>1, <3>1
    <2>5. QED
      BY <1>8, <2>2, <2>3, <2>4 DEF BuyerPays
  <1>9. CASE BuyerReceives
    <2>1. pc \in ApplyPcs /\ pc = "buyer_receives" /\ pc' = "seller_pays" /\ UNCHANGED <<taker, fills>>
      BY <1>9 DEF BuyerReceives, ApplyPcs
    <2>2. PICK z \in Nat, k \in Keys :
            z = fill.base_size /\ k = BaseKeyOfBuyer /\ k[2] = taker.market
      BY <1>1, <2>1, FillFacts DEF BaseKeyOfBuyer
    <2>3. SupplyOf(balances', m) = SupplyOf(balances, m) + (IF taker.market = m THEN z ELSE 0)
      BY <1>1, <1>2, <1>9, <2>2, SupplyOperations DEF BuyerReceives
    <2>4. InTransit(m) = 0 /\ InTransit(m)' = IF taker.market = m THEN z ELSE 0
      BY <2>1, <2>2 DEF InTransit, fill
    <2>5. QED
      BY <1>3, <1>4, <2>2, <2>3, <2>4
  <1>10. CASE SellerPays
    <2>1. pc \in ApplyPcs /\ pc = "seller_pays"
      BY <1>10 DEF SellerPays, ApplyPcs
    <2>2. PICK z \in Nat, k \in Keys :
            z = fill.base_size /\ k = BaseKeyOfSeller /\ k[2] = taker.market
      BY <1>1, <2>1, FillFacts DEF BaseKeyOfSeller
    <2>3. CanDebitCore(balances, k, z)
      BY <2>1, <2>2, DeliveryPossible DEF SellerDelivers
    <2>4. balances' = debit_core(balances, k, z) /\ pc' = "seller_receives"
      BY <1>10, <2>2, <2>3 DEF SellerPays
    <2>5. SupplyOf(balances', m) = SupplyOf(balances, m) - (IF taker.market = m THEN z ELSE 0)
      BY <1>1, <1>2, <2>2, <2>3, <2>4, SupplyOperations
    <2>6. InTransit(m)' = 0 /\ InTransit(m) = IF taker.market = m THEN z ELSE 0
      BY <2>1, <2>2, <2>4 DEF InTransit
    <2>7. QED
      BY <1>3, <1>4, <2>2, <2>5, <2>6
  <1>11. CASE SellerReceives
    <2>1. pc \in ApplyPcs /\ pc # "seller_pays" /\ pc' # "seller_pays"
      BY <1>11 DEF SellerReceives, ApplyPcs
    <2>2. PICK z \in Int, k \in Keys : z = seller_receives /\ k = <<seller, USDC>> /\ k[2] = USDC
      BY <1>1, <2>1, FillFacts
    <2>3. SupplyOf(balances', m) = SupplyOf(balances, m) + 0
      BY <1>1, <1>2, <1>11, <2>2, SupplyOperations DEF SellerReceives
    <2>4. QED
      BY <1>4, <1>6, <2>1, <2>3
  <1>12. ASSUME NEW k \in Keys, NEW amount \in Amounts, NEW d \in BOOLEAN,
                view_transfer(k, amount, d)
         PROVE  (Supply(m) - InTransit(m))' = Supply(m) - InTransit(m)
    <2>1. pc # "seller_pays" /\ pc' # "seller_pays" /\ amount \in Int
      BY <1>12, RequestAssumption DEF view_transfer, callVars
    <2>2. \/ CanDebitCore(balances, k, amount) /\ balances' = transfer_to_evm_view(balances, k, amount)
          \/ CanDebitEvm(balances, k, amount) /\ balances' = transfer_to_core_view(balances, k, amount)
      BY <1>12 DEF view_transfer
    <2>3. SupplyOf(balances', m) = SupplyOf(balances, m)
      BY <1>1, <1>2, <2>1, <2>2, SupplyOperations
    <2>4. QED
      BY <1>6, <2>1, <2>3
  <1>13. CASE UNCHANGED vars
    <2>1. UNCHANGED <<balances, pc, taker, fills>>
      BY <1>13 DEF vars, callVars
    <2>2. InTransit(m)' = InTransit(m)
      BY <2>1, SMTT(40) DEF InTransit, fill
    <2>3. QED
      BY <1>3, <2>1, <2>2
  <1>14. CASE \/ \E i \in OrderIds : MatchMaker(i)
              \/ SyncMakers \/ FinishOrder \/ CancelNext
    BY <1>5, <1>14 DEF MatchMaker, SyncMakers, FinishOrder, EndCall, CancelNext
  <1>15. ASSUME NEW a \in Accounts, NEW x \in Markets, NEW id \in OrderIds, cancel_order(a, x, id)
         PROVE  (Supply(m) - InTransit(m))' = Supply(m) - InTransit(m)
    BY <1>5, <1>15 DEF cancel_order, callVars
  <1>16. ASSUME NEW a \in Accounts, NEW x \in Markets, cancel_all_orders(a, x)
         PROVE  (Supply(m) - InTransit(m))' = Supply(m) - InTransit(m)
    BY <1>5, <1>16 DEF cancel_all_orders
  <1>17. ASSUME NEW a \in Accounts, NEW x \in Markets, NEW side \in Sides,
                NEW price \in Prices, NEW size \in Sizes, NEW tif \in TIFs,
                PlaceOrder(a, x, side, price, size, tif)
         PROVE  (Supply(m) - InTransit(m))' = Supply(m) - InTransit(m)
    BY <1>5, <1>17 DEF PlaceOrder
  <1>18. QED
    BY <1>7, <1>8, <1>9, <1>10, <1>11, <1>12, <1>13, <1>14, <1>15, <1>16, <1>17
       DEF EngineNext, PlaceOrderStep

\* In an undisturbed engine only deploy_token creates base tokens: the four
\* critical sections of apply_fill, every return in the middle of a call and
\* every view transfer leave what the accounts own of a base token, less the
\* fill in transit, as it was.
THEOREM BaseNeverMinted == Spec => BaseNotMinted
  <1>1. ASSUME AloneInv, [Next]_vars
        PROVE  [Undisturbed' => \A m \in DeployedMarkets :
                  (Supply(m) - InTransit(m))' = Supply(m) - InTransit(m)]_vars
    BY <1>1, StillUndisturbed, SupplyStep DEF AloneInv, EngineInv, TypeInv
  <1>2. QED
    BY <1>1, AloneInductive, PTL DEF Spec, BaseNotMinted
=============================================================================
