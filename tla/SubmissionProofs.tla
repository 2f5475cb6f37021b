-------------------------- MODULE SubmissionProofs --------------------------
(***************************************************************************)
(* Proofs about the way of a request into the state: the request that has  *)
(* succeeded and is not applied again, and the validators that agree as    *)
(* long as they do nothing on their own.                                   *)
(***************************************************************************)
EXTENDS Submission, SumTheorems, TLAPS

-----------------------------------------------------------------------------
(* Values *)

CoreTxs == {Tx(r) : r \in Requests}
Txs == CoreTxs \cup EvmTxs

Entries == [app : Apps, tx : CoreTxs, whole : BOOLEAN]

Nonces == [Apps \X Addresses -> Nat]

\* A node's state is a record of these fields.
Shaped(s) ==
    s = [height |-> s.height, core |-> s.core, evm |-> s.evm, accounts |-> s.accounts,
         evm_nonces |-> s.evm_nonces, perp_orders |-> s.perp_orders,
         spot_orders |-> s.spot_orders, last_nonce |-> s.last_nonce,
         receipts |-> s.receipts, applied |-> s.applied]

\* A client's request becomes a transaction of one of the two applications, and
\* its sender is an address.
LEMMA RequestFacts ==
    ASSUME NEW r \in Requests
    PROVE  Tx(r) \in CoreTxs
  BY DEF CoreTxs

LEMMA CoreTxFacts ==
    ASSUME NEW t \in CoreTxs
    PROVE  t.action # "evm" /\ t.nonce \in Nat /\ sender(t) \in Addresses
  <1>1. PICK r \in Requests : t = Tx(r)
    BY DEF CoreTxs
  <1>2. r.kind \in Kinds /\ r.nonce \in Nat /\ r.signer \in Accounts
    BY DEF Requests
  <1>3. t.action = convert(r.kind) /\ t.nonce = r.nonce /\ t.signer = r.signer
    BY <1>1 DEF Tx
  <1>4. t.action # "evm"
    BY <1>2, <1>3 DEF convert, Kinds, PerpKinds, SpotKinds
  <1>5. sender(t) \in {t.signer, Stranger}
    BY DEF sender
  <1>6. QED
    BY <1>2, <1>3, <1>4, <1>5 DEF Addresses
-----------------------------------------------------------------------------
(* What one transaction does *)

\* e differs from s neither in its height nor in what tells requests apart.
Keeps(s, e) ==
    /\ Shaped(e)
    /\ e.height = s.height /\ e.last_nonce = s.last_nonce /\ e.applied = s.applied

LEMMA KeepsTwice ==
    ASSUME NEW s, NEW e, NEW f, Keeps(s, e), Keeps(e, f)
    PROVE  Keeps(s, f)
  BY DEF Keeps

\* Setting one of the other fields.
LEMMA SetField ==
    ASSUME NEW s, Shaped(s), NEW x, NEW y
    PROVE  /\ Keeps(s, s)
           /\ Keeps(s, [s EXCEPT !.receipts = x])
           /\ Keeps(s, [s EXCEPT !.evm[x] = y])
           /\ Keeps(s, [s EXCEPT !.evm = x])
           /\ Keeps(s, [s EXCEPT !.accounts = x])
           /\ Keeps(s, [s EXCEPT !.evm_nonces = x])
           /\ Keeps(s, [s EXCEPT !.core[x] = y])
           /\ Keeps(s, [s EXCEPT !.perp_orders[x] = y])
           /\ Keeps(s, [s EXCEPT !.spot_orders[x] = y])
  BY SMTT(40) DEF Shaped, Keeps

\* Setting several.
LEMMA SetFields ==
    ASSUME NEW s, Shaped(s), NEW w, NEW x, NEW y, NEW z
    PROVE  /\ Keeps(s, [s EXCEPT !.evm[x] = y, !.accounts = z])
           /\ Keeps(s, [s EXCEPT !.core[x] = y, !.core[w] = z])
           /\ Keeps(s, [s EXCEPT !.core[x] = y, !.evm[w] = z])
           /\ Keeps(s, [s EXCEPT !.evm = x, !.accounts = y, !.evm_nonces = z])
  <1>1. Keeps(s, [s EXCEPT !.evm[x] = y, !.accounts = z])
    <2>1. PICK e : e = [s EXCEPT !.evm[x] = y]
      OBVIOUS
    <2>2. Keeps(s, e) /\ Shaped(e)
      <3>1. Keeps(s, e)
        BY <2>1, SetField, Zenon
      <3>2. QED
        BY <3>1 DEF Keeps
    <2>3. Keeps(e, [e EXCEPT !.accounts = z])
      BY <2>2, SetField
    <2>4. [s EXCEPT !.evm[x] = y, !.accounts = z] = [e EXCEPT !.accounts = z]
      BY <2>1
    <2>5. QED
      BY <2>2, <2>3, <2>4, KeepsTwice
  <1>2. Keeps(s, [s EXCEPT !.core[x] = y, !.core[w] = z])
    <2>1. PICK e : e = [s EXCEPT !.core[x] = y]
      OBVIOUS
    <2>2. Keeps(s, e) /\ Shaped(e)
      <3>1. Keeps(s, e)
        BY <2>1, SetField, Zenon
      <3>2. QED
        BY <3>1 DEF Keeps
    <2>3. Keeps(e, [e EXCEPT !.core[w] = z])
      BY <2>2, SetField
    <2>4. [s EXCEPT !.core[x] = y, !.core[w] = z] = [e EXCEPT !.core[w] = z]
      BY <2>1
    <2>5. QED
      BY <2>2, <2>3, <2>4, KeepsTwice
  <1>3. Keeps(s, [s EXCEPT !.core[x] = y, !.evm[w] = z])
    <2>1. PICK e : e = [s EXCEPT !.core[x] = y]
      OBVIOUS
    <2>2. Keeps(s, e) /\ Shaped(e)
      <3>1. Keeps(s, e)
        BY <2>1, SetField, Zenon
      <3>2. QED
        BY <3>1 DEF Keeps
    <2>3. Keeps(e, [e EXCEPT !.evm[w] = z])
      BY <2>2, SetField
    <2>4. [s EXCEPT !.core[x] = y, !.evm[w] = z] = [e EXCEPT !.evm[w] = z]
      BY <2>1
    <2>5. QED
      BY <2>2, <2>3, <2>4, KeepsTwice
  <1>4. Keeps(s, [s EXCEPT !.evm = x, !.accounts = y, !.evm_nonces = z])
    <2>1. PICK e, f : e = [s EXCEPT !.evm = x] /\ f = [e EXCEPT !.accounts = y]
      OBVIOUS
    <2>2. Keeps(s, e) /\ Shaped(e)
      <3>1. Keeps(s, e)
        BY <2>1, SetField, Zenon
      <3>2. QED
        BY <3>1 DEF Keeps
    <2>3. Keeps(e, f) /\ Shaped(f)
      <3>1. Keeps(e, f)
        BY <2>1, <2>2, SetField, Zenon
      <3>2. QED
        BY <3>1 DEF Keeps
    <2>4. Keeps(f, [f EXCEPT !.evm_nonces = z])
      BY <2>3, SetField
    <2>5. [s EXCEPT !.evm = x, !.accounts = y, !.evm_nonces = z] = [f EXCEPT !.evm_nonces = z]
      BY <2>1
    <2>6. QED
      BY <2>2, <2>3, <2>4, <2>5, KeepsTwice
  <1>5. QED
    BY <1>1, <1>2, <1>3, <1>4

\* Whatever an action does, it does to balances and orders.
LEMMA EffectKeeps ==
    ASSUME NEW s, Shaped(s), NEW a, NEW action, NEW n
    PROVE  Keeps(s, Effect(s, a, action, n))
  <1> DEFINE orders == [s EXCEPT !.perp_orders[a] = @ + n]
             spot == [s EXCEPT !.spot_orders[a] = @ + n]
             cancel == [s EXCEPT !.spot_orders[a] = 0]
             usd == [s EXCEPT !.core[a] = @ - 1, !.core[Receiver(a)] = @ + 1]
             view == [s EXCEPT !.core[a] = @ - 1, !.evm[a] = @ + 1]
  <1>1. Effect(s, a, action, n) \in {orders, spot, cancel, usd, view, s}
    BY Zenon DEF Effect
  <1>2. Keeps(s, orders) /\ Keeps(s, spot) /\ Keeps(s, cancel) /\ Keeps(s, s)
    BY SetField, Zenon
  <1>3. Keeps(s, view)
    BY SetFields, Zenon
  <1>4. Keeps(s, usd)
    BY SetFields, Zenon
  <1> HIDE DEF orders, spot, cancel, usd, view
  <1>5. QED
    BY <1>1, <1>2, <1>3, <1>4

\* The EVM writes its own balances, accounts and nonces.
LEMMA PreparedKeeps ==
    ASSUME NEW s, Shaped(s), NEW t, NEW commit
    PROVE  Keeps(s, Prepared(s, t, commit))
  <1>1. Keeps(s, set_balance(s, t.from, FAUCET))
    BY SetFields, Zenon DEF set_balance
  <1>2. Keeps(s, s)
    BY SetField
  <1>3. QED
    BY <1>1, <1>2, Zenon DEF Prepared, EnsureSender

LEMMA CommittedKeeps ==
    ASSUME NEW s, Shaped(s), NEW t, NEW loaded
    PROVE  Keeps(s, Committed(s, t, loaded))
  <1>1. Keeps(s, db_commit(s, t, loaded))
    BY SetFields, Zenon DEF db_commit
  <1>2. Keeps(s, s)
    BY SetField
  <1>3. QED
    BY <1>1, <1>2, Zenon DEF Committed

LEMMA ReceiptedKeeps ==
    ASSUME NEW s, Shaped(s), NEW t, NEW loaded, NEW block
    PROVE  Keeps(s, Receipted(s, t, loaded, block))
  BY SetField, Zenon DEF Receipted

\* A simulation changes nothing.
LEMMA InnerKeeps ==
    ASSUME NEW s, Shaped(s), NEW t
    PROVE  /\ Keeps(s, execute_tx_inner(s, t, TRUE))
           /\ execute_tx_inner(s, t, FALSE) = s
  <1>1. execute_tx_inner(s, t, FALSE) = s
    BY DEF execute_tx_inner, Prepared, EnsureSender
  <1>2. PICK ready : ready = Prepared(s, t, TRUE)
    OBVIOUS
  <1>3. Keeps(s, ready) /\ Shaped(ready)
    BY <1>2, PreparedKeeps DEF Keeps
  <1>4. Keeps(ready, Committed(ready, t, ready.evm))
    BY <1>3, CommittedKeeps
  <1>5. execute_tx_inner(s, t, TRUE) = Committed(ready, t, ready.evm)
    BY <1>2 DEF execute_tx_inner
  <1>6. QED
    BY <1>1, <1>3, <1>4, <1>5, KeepsTwice

LEMMA EvmKeeps ==
    ASSUME NEW s, Shaped(s), NEW t
    PROVE  Keeps(s, execute_evm(s, t))
  <1>1. PICK i : i = execute_tx_inner(s, t, TRUE)
    OBVIOUS
  <1>2. Keeps(s, i) /\ Shaped(i)
    BY <1>1, InnerKeeps DEF Keeps
  <1>3. Keeps(i, Receipted(i, t, Prepared(s, t, TRUE).evm, s.height))
    BY <1>2, ReceiptedKeeps
  <1>4. QED
    BY <1>1, <1>2, <1>3, KeepsTwice DEF execute_evm
-----------------------------------------------------------------------------
(* States that a node can be in *)

\* What has succeeded has used its sender's nonce up, and comes last.
Used(s) ==
    \A i \in DOMAIN s.applied :
      LET x == s.applied[i]
      IN  x.whole => x.tx.nonce <= s.last_nonce[<<x.app, sender(x.tx)>>]

Once(s) ==
    \A i, j \in DOMAIN s.applied :
      i < j /\ s.applied[i].app = s.applied[j].app /\ s.applied[i].tx = s.applied[j].tx
        => ~s.applied[i].whole

Good(s) ==
    /\ Shaped(s) /\ s.height \in Nat
    /\ s.last_nonce \in Nonces /\ s.applied \in Seq(Entries)
    /\ Used(s) /\ Once(s)

\* A state that differs in other fields only is as good.
LEMMA GoodKept ==
    ASSUME NEW s, Good(s), NEW e, Keeps(s, e)
    PROVE  Good(e) /\ e.height = s.height
  BY DEF Good, Keeps, Used, Once

\* The height of a block is no part of what makes a state good.
LEMMA HeightSet ==
    ASSUME NEW s, Good(s), NEW h \in Nat
    PROVE  Good([s EXCEPT !.height = h]) /\ [s EXCEPT !.height = h].height = h
  <1>1. PICK e : e = [s EXCEPT !.height = h]
    OBVIOUS
  <1>2. Shaped(e) /\ e.applied = s.applied /\ e.last_nonce = s.last_nonce /\ e.height = h
    BY <1>1 DEF Good, Shaped
  <1>3. Good(e)
    BY <1>2 DEF Good, Used, Once
  <1>4. QED
    BY <1>1, <1>2, <1>3

\* A transaction that takes effect has a nonce beyond its sender's last, and
\* uses it up when it succeeds.
LEMMA AppliedNext ==
    ASSUME NEW s, Good(s), NEW e, Shaped(e), e.height = s.height, e.last_nonce \in Nonces,
           NEW app \in Apps, NEW t \in CoreTxs, NEW whole \in BOOLEAN,
           e.applied = Append(s.applied, [app |-> app, tx |-> t, whole |-> whole]),
           \A k \in Apps \X Addresses : s.last_nonce[k] <= e.last_nonce[k],
           validate_tx(s, app, t),
           whole => t.nonce <= e.last_nonce[<<app, sender(t)>>]
    PROVE  Good(e)
  <1>1. PICK p, q, x : p = s.applied /\ q = e.applied /\ x = [app |-> app, tx |-> t, whole |-> whole]
    OBVIOUS
  <1>2. p \in Seq(Entries) /\ x \in Entries /\ q = Append(p, x)
    BY <1>1 DEF Good, Entries
  <1>3. PICK n \in Nat : n = Len(p) /\ DOMAIN p = 1..n
    BY <1>2
  <1>4. /\ q \in Seq(Entries) /\ DOMAIN q = 1..(n + 1) /\ q[n + 1] = x
        /\ \A i \in 1..n : q[i] = p[i] /\ p[i] \in Entries
    BY <1>2, <1>3
  <1>5. x.tx = t /\ x.app = app /\ x.whole = whole
    BY <1>1
  <1>6. s.last_nonce \in Nonces /\ Used(s) /\ Once(s)
    BY DEF Good
  <1>7. \A i \in 1..n : p[i].whole => p[i].tx.nonce <= s.last_nonce[<<p[i].app, sender(p[i].tx)>>]
    BY <1>1, <1>3, <1>6 DEF Used
  <1>8. Used(e)
    <2>1. SUFFICES ASSUME NEW i \in 1..(n + 1), q[i].whole
                   PROVE  q[i].tx.nonce <= e.last_nonce[<<q[i].app, sender(q[i].tx)>>]
      BY <1>1, <1>4 DEF Used
    <2>2. CASE i = n + 1
      BY <1>4, <1>5, <2>1, <2>2
    <2>3. CASE i \in 1..n
      <3>1. PICK y, k, m : y = p[i].tx /\ k = <<p[i].app, sender(p[i].tx)>> /\ m = y.nonce
        OBVIOUS
      <3>2. p[i].app \in Apps /\ y \in CoreTxs /\ q[i] = p[i]
        BY <1>4, <2>3, <3>1 DEF Entries
      <3>3. m \in Nat /\ k \in Apps \X Addresses
        BY <3>1, <3>2, CoreTxFacts
      <3>4. s.last_nonce[k] \in Nat /\ e.last_nonce[k] \in Nat /\ s.last_nonce[k] <= e.last_nonce[k]
        BY <1>6, <3>3 DEF Nonces
      <3>5. m <= s.last_nonce[k]
        BY <1>7, <2>1, <2>3, <3>1, <3>2
      <3>6. m <= e.last_nonce[k]
        BY <3>3, <3>4, <3>5
      <3>7. QED
        BY <3>1, <3>2, <3>6
    <2>4. QED
      BY <2>2, <2>3
  <1>9. Once(e)
    <2>1. ASSUME NEW i \in 1..n, p[i].app = app, p[i].tx = t PROVE ~p[i].whole
      <3>1. PICK m, k : m = t.nonce /\ k = s.last_nonce[<<app, sender(t)>>]
        OBVIOUS
      <3>2. <<app, sender(t)>> \in Apps \X Addresses /\ m \in Nat
        BY <3>1, CoreTxFacts
      <3>3. k \in Nat /\ m > k
        BY <1>6, <3>1, <3>2 DEF Nonces, validate_tx
      <3>4. p[i].whole => m <= k
        BY <1>7, <2>1, <3>1
      <3>5. QED
        BY <3>2, <3>3, <3>4
    <2>2. SUFFICES ASSUME NEW i \in 1..(n + 1), NEW j \in 1..(n + 1), i < j,
                          q[i].app = q[j].app, q[i].tx = q[j].tx
                   PROVE  ~q[i].whole
      BY <1>1, <1>4 DEF Once
    <2>3. CASE j \in 1..n
      <3>1. i \in 1..n /\ q[i] = p[i] /\ q[j] = p[j]
        BY <1>4, <2>2, <2>3
      <3>2. QED
        BY <1>1, <1>3, <1>6, <2>2, <2>3, <3>1 DEF Once
    <2>4. CASE j = n + 1
      <3>1. i \in 1..n /\ q[i] = p[i] /\ q[j] = x
        BY <1>4, <2>2, <2>4
      <3>2. QED
        BY <1>5, <2>1, <2>2, <3>1
    <2>5. QED
      BY <2>3, <2>4
  <1>10. e.height \in Nat /\ e.applied \in Seq(Entries)
    BY <1>1, <1>4 DEF Good
  <1>11. QED
    BY <1>8, <1>9, <1>10 DEF Good

\* HyperCoreApp::execute_tx, wherever it ends.
LEMMA ExecuteTxGood ==
    ASSUME NEW s, Good(s), NEW app \in Apps, NEW t \in CoreTxs, NEW stop
    PROVE  Good(execute_tx(s, app, t, stop)) /\ execute_tx(s, app, t, stop).height = s.height
  <1>1. PICK a, n, done, e, k : /\ a = sender(t) /\ n = Reached(t, stop)
                                /\ done = Effect(s, a, t.action, n)
                                /\ e = execute_tx(s, app, t, stop)
                                /\ k = [s.last_nonce EXCEPT ![<<app, a>>] = t.nonce]
    OBVIOUS
  <1>2. Keeps(s, done)
    BY <1>1, EffectKeeps DEF Good
  <1>3. ASSUME NEW whole \in BOOLEAN, NEW m, m = Noted(done, app, t, whole)
        PROVE  /\ Shaped(m) /\ m.height = s.height /\ m.last_nonce = s.last_nonce
               /\ m.applied = Append(s.applied, [app |-> app, tx |-> t, whole |-> whole])
    <2>1. PICK q : q = Append(done.applied, [app |-> app, tx |-> t, whole |-> whole])
      OBVIOUS
    <2>2. m = [done EXCEPT !.applied = q]
      BY <1>3, <2>1 DEF Noted
    <2>3. Shaped(m) /\ m.height = done.height /\ m.last_nonce = done.last_nonce /\ m.applied = q
      BY <1>2, <2>2 DEF Keeps, Shaped
    <2>4. QED
      BY <1>2, <2>1, <2>3 DEF Keeps
  <1>4. /\ s.last_nonce \in Nonces /\ <<app, a>> \in Apps \X Addresses /\ t.nonce \in Nat
    BY <1>1, CoreTxFacts DEF Good
  <1>5. CASE ~validate_tx(s, app, t)
    BY <1>5 DEF execute_tx
  <1>6. CASE validate_tx(s, app, t) /\ Succeeds(s, a, t, stop)
    <2>1. PICK m : m = Noted(done, app, t, TRUE)
      OBVIOUS
    <2>2. e = [m EXCEPT !.last_nonce = [m.last_nonce EXCEPT ![<<app, a>>] = t.nonce]]
      BY <1>1, <1>6, <2>1 DEF execute_tx
    <2>3. /\ Shaped(m) /\ m.height = s.height /\ m.last_nonce = s.last_nonce
          /\ m.applied = Append(s.applied, [app |-> app, tx |-> t, whole |-> TRUE])
      BY <1>3, <2>1
    <2>4. e = [m EXCEPT !.last_nonce = k]
      BY <1>1, <2>2, <2>3
    <2>5. Shaped(e) /\ e.height = s.height /\ e.last_nonce = k /\ e.applied = m.applied
      BY <2>3, <2>4 DEF Shaped
    <2>6. k \in Nonces /\ k[<<app, a>>] = t.nonce
          /\ \A x \in Apps \X Addresses : x # <<app, a>> => k[x] = s.last_nonce[x]
      BY <1>1, <1>4 DEF Nonces
    <2>7. t.nonce > s.last_nonce[<<app, a>>]
      BY <1>1, <1>6 DEF validate_tx
    <2>8. \A x \in Apps \X Addresses : s.last_nonce[x] <= k[x]
      <3>1. SUFFICES ASSUME NEW x \in Apps \X Addresses PROVE s.last_nonce[x] <= k[x]
        OBVIOUS
      <3>2. s.last_nonce[x] \in Nat /\ s.last_nonce[<<app, a>>] \in Nat
        BY <1>4 DEF Nonces
      <3>3. QED
        BY <1>4, <2>6, <2>7, <3>2
    <2>9. t.nonce <= k[<<app, a>>]
      BY <1>4, <2>6
    <2>10. Good(e)
      BY <1>1, <1>6, <2>3, <2>5, <2>6, <2>8, <2>9, AppliedNext
    <2>11. QED
      BY <1>1, <2>5, <2>10
  <1>7. CASE validate_tx(s, app, t) /\ ~Succeeds(s, a, t, stop) /\ n > 0 /\ t.action \in Orders
    <2>1. e = Noted(done, app, t, FALSE)
      BY <1>1, <1>7 DEF execute_tx
    <2>2. /\ Shaped(e) /\ e.height = s.height /\ e.last_nonce = s.last_nonce
          /\ e.applied = Append(s.applied, [app |-> app, tx |-> t, whole |-> FALSE])
      BY <1>3, <2>1
    <2>3. \A x \in Apps \X Addresses : s.last_nonce[x] <= e.last_nonce[x]
      BY <1>4, <2>2 DEF Nonces
    <2>4. Good(e)
      BY <1>4, <1>7, <2>2, <2>3, AppliedNext
    <2>5. QED
      BY <1>1, <2>2, <2>4
  <1>8. CASE validate_tx(s, app, t) /\ ~Succeeds(s, a, t, stop) /\ ~(n > 0 /\ t.action \in Orders)
    BY <1>1, <1>8 DEF execute_tx
  <1>9. QED
    BY <1>5, <1>6, <1>7, <1>8

\* A transaction of a block.
LEMMA ExecuteGood ==
    ASSUME NEW s, Good(s), NEW t \in Txs, NEW stop
    PROVE  Good(Execute(s, t, stop)) /\ Execute(s, t, stop).height = s.height
  <1>1. CASE t \in CoreTxs
    BY <1>1, ExecuteTxGood, CoreTxFacts DEF Execute, Apps
  <1>2. CASE t \in EvmTxs
    <2>1. t.action = "evm"
      BY <1>2 DEF EvmTxs
    <2>2. Keeps(s, execute_evm(s, t))
      BY EvmKeeps DEF Good
    <2>3. QED
      BY <2>1, <2>2, GoodKept DEF Execute
  <1>3. QED
    BY <1>1, <1>2 DEF Txs

\* The states after each of the first n transactions of a block.
IsRun(f, s, txs, stops, n) ==
    f = [i \in 0..n |-> IF i = 0 THEN s ELSE Execute(f[i - 1], txs[i], stops[i])]

\* There are such states, whatever the block.
LEMMA RunExists ==
    ASSUME NEW s, NEW txs, NEW stops
    PROVE  \A n \in Nat : \E f : IsRun(f, s, txs, stops, n)
  <1> DEFINE N == {n \in Nat : \E f : IsRun(f, s, txs, stops, n)}
  <1>1. 0 \in N
    <2>1. IsRun([i \in 0..0 |-> s], s, txs, stops, 0)
      BY DEF IsRun
    <2>2. QED
      BY <2>1
  <1>2. ASSUME NEW n \in Nat, n \in N PROVE n + 1 \in N
    <2>1. PICK f : IsRun(f, s, txs, stops, n)
      BY <1>2
    <2>2. \A i \in 0..n : f[i] = IF i = 0 THEN s ELSE Execute(f[i - 1], txs[i], stops[i])
      BY <2>1 DEF IsRun
    <2>3. PICK g : g = [i \in 0..(n + 1) |-> IF i = n + 1 THEN Execute(f[n], txs[n + 1], stops[n + 1])
                                             ELSE f[i]]
      OBVIOUS
    <2>4. ASSUME NEW i \in 0..(n + 1)
          PROVE  g[i] = IF i = 0 THEN s ELSE Execute(g[i - 1], txs[i], stops[i])
      <3>1. CASE i = n + 1
        <4>1. g[i] = Execute(f[n], txs[n + 1], stops[n + 1]) /\ g[n] = f[n] /\ i - 1 = n /\ i # 0
          BY <2>3, <3>1
        <4>2. QED
          BY <3>1, <4>1
      <3>2. CASE i = 0
        BY <2>2, <2>3, <3>2
      <3>3. CASE i \in 1..n
        <4>1. g[i] = f[i] /\ g[i - 1] = f[i - 1] /\ i # 0 /\ i \in 0..n
          BY <2>3, <3>3
        <4>2. QED
          BY <2>2, <4>1
      <3>4. QED
        BY <3>1, <3>2, <3>3
    <2>5. g = [i \in 0..(n + 1) |-> g[i]]
      BY <2>3
    <2>6. IsRun(g, s, txs, stops, n + 1)
      BY <2>4, <2>5 DEF IsRun
    <2>7. QED
      BY <2>6
  <1> HIDE DEF N
  <1>3. \A n \in Nat : n \in N
    BY <1>1, <1>2, NatSetInduction
  <1>4. QED
    BY <1>3 DEF N

\* A block keeps what each of its transactions keeps, and its height.
LEMMA RunBlockGood ==
    ASSUME NEW s, Good(s), NEW txs \in Seq(Txs), NEW stops
    PROVE  Good(run_block(s, txs, stops)) /\ run_block(s, txs, stops).height = s.height
  <1>1. PICK n \in Nat : n = Len(txs) /\ \A i \in 1..n : txs[i] \in Txs
    OBVIOUS
  <1>2. PICK f : f = CHOOSE g : IsRun(g, s, txs, stops, n)
    OBVIOUS
  <1>3. run_block(s, txs, stops) = f[n]
    BY <1>1, <1>2 DEF run_block, IsRun
  <1>4. IsRun(f, s, txs, stops, n)
    BY <1>2, RunExists
  <1>5. \A i \in 0..n : f[i] = IF i = 0 THEN s ELSE Execute(f[i - 1], txs[i], stops[i])
    BY <1>4 DEF IsRun
  <1> DEFINE N == {m \in Nat : m <= n => Good(f[m]) /\ f[m].height = s.height}
  <1>6. 0 \in N
    BY <1>5
  <1>7. ASSUME NEW m \in Nat, m \in N PROVE m + 1 \in N
    <2>1. SUFFICES ASSUME m + 1 <= n
                   PROVE  Good(f[m + 1]) /\ f[m + 1].height = s.height
      OBVIOUS
    <2>2. PICK a, t : a = f[m] /\ t = txs[m + 1]
      OBVIOUS
    <2>3. Good(a) /\ a.height = s.height
      BY <1>7, <2>1, <2>2
    <2>4. t \in Txs
      BY <1>1, <2>1, <2>2
    <2>5. m + 1 \in 0..n /\ m + 1 # 0 /\ (m + 1) - 1 = m
      BY <2>1
    <2>6. f[m + 1] = Execute(a, t, stops[m + 1])
      BY <1>5, <2>2, <2>5
    <2>7. QED
      BY <2>3, <2>4, <2>6, ExecuteGood
  <1> HIDE DEF N
  <1>8. \A m \in Nat : m \in N
    BY <1>6, <1>7, NatSetInduction
  <1>9. QED
    BY <1>3, <1>8 DEF N

\* Genesis.
LEMMA GenesisGood == Good(Genesis) /\ Genesis.height = 0
  <1>1. /\ Shaped(Genesis) /\ Genesis.height = 0 /\ Genesis.applied = <<>>
        /\ Genesis.last_nonce = [x \in Apps \X Addresses |-> 0]
    BY DEF Genesis, Shaped
  <1>2. Genesis.last_nonce \in Nonces /\ Genesis.applied \in Seq(Entries)
    BY <1>1 DEF Nonces
  <1>3. Used(Genesis) /\ Once(Genesis)
    BY <1>1 DEF Used, Once
  <1>4. QED
    BY <1>1, <1>2, <1>3 DEF Good
-----------------------------------------------------------------------------
(* The inductive invariant *)

\* Only a single node has a raw transaction running on its own.
GoodInv ==
    /\ router \in {"direct", "cometbft"}
    /\ router = "cometbft" => running = {}
    /\ mempool \subseteq Txs
    /\ chain \in Seq(Seq(Txs))
    /\ apart \in [Validators -> BOOLEAN]
    /\ DOMAIN state = Validators /\ \A v \in Validators : Good(state[v])

\* A validator's state that is replaced by a good one.
LEMMA StateGood ==
    ASSUME GoodInv, NEW v \in Validators, NEW e, Good(e), state' = [state EXCEPT ![v] = e]
    PROVE  DOMAIN state' = Validators /\ \A w \in Validators : Good(state'[w])
  BY DEF GoodInv

\* The single node's validator.
LEMMA NodeFact == Node \in Validators
  BY SubmissionAssumption DEF Node

\* What is proposed is made of admitted transactions.
LEMMA ProposalType ==
    ASSUME mempool \subseteq Txs, NEW txs \in BoundedSeq(mempool, MaxBlockTxs)
    PROVE  txs \in Seq(Txs)
  <1>1. PICK n \in 0..MaxBlockTxs : txs \in [1..n -> mempool]
    BY DEF BoundedSeq, SeqOf
  <1>2. n \in Nat
    BY SubmissionAssumption
  <1>3. txs \in [1..n -> Txs]
    BY <1>1
  <1>4. QED
    BY <1>2, <1>3

\* A step that leaves the chain, the mempool and the router alone, and changes
\* one validator's state.
LEMMA StepGood ==
    ASSUME GoodInv, NEW v \in Validators, NEW e, Good(e), state' = [state EXCEPT ![v] = e],
           UNCHANGED <<router, mempool, chain>>,
           running' = running \/ router = "direct" \/ running' = {},
           apart' \in [Validators -> BOOLEAN]
    PROVE  GoodInv'
  <1>1. DOMAIN state' = Validators /\ \A w \in Validators : Good(state'[w])
    BY StateGood
  <1>2. QED
    BY <1>1 DEF GoodInv

\* Every step leads from a good state to one.
LEMMA GoodNext ==
    ASSUME GoodInv, [Next]_vars
    PROVE  GoodInv'
  <1>1. \A v \in Validators : Good(state[v]) /\ Shaped(state[v])
    BY DEF GoodInv, Good
  <1>2. apart \in [Validators -> BOOLEAN]
    BY DEF GoodInv
  <1>3. ASSUME NEW v \in Validators, NEW t \in Txs, broadcast_tx_sync(v, t)
        PROVE  GoodInv'
    <2>1. mempool' \subseteq Txs
      BY <1>3 DEF broadcast_tx_sync, GoodInv
    <2>2. UNCHANGED <<router, state, running, chain, apart>>
      BY <1>3 DEF broadcast_tx_sync
    <2>3. QED
      BY <2>1, <2>2 DEF GoodInv
  <1>4. ASSUME NEW v \in Validators, NEW r \in Requests, BroadcastPerp(v, r) \/ BroadcastSpot(v, r)
        PROVE  GoodInv'
    BY <1>3, <1>4, RequestFacts DEF BroadcastPerp, BroadcastSpot, Txs
  <1>5. ASSUME NEW v \in Validators, NEW t \in EvmTxs, EvmBroadcast(v, t)
        PROVE  GoodInv'
    BY <1>3, <1>5 DEF EvmBroadcast, Txs
  <1>6. ASSUME NEW v \in Validators, NEW t \in EvmTxs, Simulate(v, t)
        PROVE  GoodInv'
    <2>1. execute_tx_inner(state[v], t, FALSE) = state[v]
      BY <1>1, InnerKeeps
    <2>2. state' = [state EXCEPT ![v] = state[v]]
      BY <1>6, <2>1 DEF Simulate
    <2>3. UNCHANGED <<router, running, mempool, chain, apart>>
      BY <1>6 DEF Simulate
    <2>4. QED
      BY <1>1, <1>2, <2>2, <2>3, StepGood
  <1>7. ASSUME NEW v \in Validators, NEW txs \in BoundedSeq(mempool, MaxBlockTxs), Decide(v, txs)
        PROVE  GoodInv'
    <2>1. txs \in Seq(Txs)
      BY ProposalType DEF GoodInv
    <2>2. PICK S : S = Seq(Txs)
      OBVIOUS
    <2>3. chain' = Append(chain, txs) /\ chain \in Seq(S) /\ txs \in S
      BY <1>7, <2>1, <2>2 DEF Decide, GoodInv
    <2>4. chain' \in Seq(S)
      BY <2>3
    <2>5. mempool' \subseteq Txs
      BY <1>7 DEF Decide, GoodInv
    <2>6. UNCHANGED <<router, state, running, apart>>
      BY <1>7 DEF Decide
    <2>7. QED
      BY <2>2, <2>4, <2>5, <2>6 DEF GoodInv
  <1>8. ASSUME NEW v \in Validators, NEW stops, finalize_block(v, stops)
        PROVE  GoodInv'
    <2>1. PICK s, h, b, txs, e : /\ s = state[v] /\ h = s.height + 1
                                 /\ b = [s EXCEPT !.height = h] /\ txs = chain[h]
                                 /\ e = run_block(b, txs, stops)
      OBVIOUS
    <2>2. Good(s) /\ s.height \in Nat /\ h \in Nat
      BY <1>1, <2>1 DEF Good
    <2>3. s.height < Len(chain) /\ state' = [state EXCEPT ![v] = e]
      BY <1>8, <2>1 DEF finalize_block
    <2>4. txs \in Seq(Txs)
      <3>1. PICK S : S = Seq(Txs)
        OBVIOUS
      <3>2. chain \in Seq(S)
        BY <3>1 DEF GoodInv
      <3>3. h \in 1..Len(chain)
        BY <2>1, <2>2, <2>3, <3>2
      <3>4. chain[h] \in S
        BY <3>2, <3>3
      <3>5. QED
        BY <2>1, <3>1, <3>4
    <2>5. Good(b)
      BY <2>1, <2>2, HeightSet
    <2>6. Good(e)
      BY <2>1, <2>4, <2>5, RunBlockGood
    <2>7. UNCHANGED <<router, running, mempool, chain>>
      BY <1>8 DEF finalize_block
    <2>8. apart' \in [Validators -> BOOLEAN]
      <3>1. apart' = [apart EXCEPT ![v] = apart[v] \/ stops # Lucky(txs)]
        BY <1>8, <2>1 DEF finalize_block
      <3>2. (apart[v] \/ stops # Lucky(txs)) \in BOOLEAN
        OBVIOUS
      <3>3. QED
        BY <1>2, <3>1, <3>2
    <2>9. QED
      BY <2>3, <2>6, <2>7, <2>8, StepGood
  <1>9. ASSUME NEW v \in Validators, NEW r \in Requests, NEW stop \in 0..2, ExchangeBinary(v, r, stop)
        PROVE  GoodInv'
    <2>1. PICK e : e = execute_tx(state[v], "gateway", Tx(r), stop)
      OBVIOUS
    <2>2. Good(e)
      BY <1>1, <2>1, RequestFacts, ExecuteTxGood DEF Apps
    <2>3. state' = [state EXCEPT ![v] = e] /\ apart' = [apart EXCEPT ![v] = TRUE]
      BY <1>9, <2>1 DEF ExchangeBinary
    <2>4. UNCHANGED <<router, running, mempool, chain>>
      BY <1>9 DEF ExchangeBinary
    <2>5. apart' \in [Validators -> BOOLEAN]
      BY <1>2, <2>3
    <2>6. QED
      BY <2>2, <2>3, <2>4, <2>5, StepGood
  <1>10. ASSUME NEW r \in Requests, NEW stop \in 0..2, ExchangePerp(r, stop)
         PROVE  GoodInv'
    <2>1. PICK e : e = execute_tx(state[Node], "gateway", Tx(r), stop)
      OBVIOUS
    <2>2. Good(e)
      BY <1>1, <2>1, RequestFacts, ExecuteTxGood, NodeFact DEF Apps
    <2>3. state' = [state EXCEPT ![Node] = e] /\ UNCHANGED <<router, running, mempool, chain, apart>>
      BY <1>10, <2>1 DEF ExchangePerp
    <2>4. QED
      BY <1>2, <2>2, <2>3, StepGood, NodeFact
  <1>11. ASSUME NEW r \in Requests, ExchangeSpot(r)
         PROVE  GoodInv'
    <2>1. PICK e : e = Effect(state[Node], r.signer, r.kind, Reached(Tx(r), Parts(Tx(r))))
      OBVIOUS
    <2>2. Keeps(state[Node], e)
      BY <1>1, <2>1, EffectKeeps, NodeFact
    <2>3. Good(e)
      BY <1>1, <2>2, GoodKept, NodeFact
    <2>4. state' = [state EXCEPT ![Node] = e] /\ UNCHANGED <<router, running, mempool, chain, apart>>
      BY <1>11, <2>1 DEF ExchangeSpot
    <2>5. QED
      BY <1>2, <2>3, <2>4, StepGood, NodeFact
  <1>12. ASSUME NEW t \in EvmTxs, EvmRun(t)
         PROVE  GoodInv'
    <2>1. PICK e : e = Prepared(state[Node], t, TRUE)
      OBVIOUS
    <2>2. Keeps(state[Node], e)
      BY <1>1, <2>1, PreparedKeeps, NodeFact
    <2>3. Good(e)
      BY <1>1, <2>2, GoodKept, NodeFact
    <2>4. state' = [state EXCEPT ![Node] = e] /\ router = "direct" /\ UNCHANGED <<router, mempool, chain, apart>>
      BY <1>12, <2>1 DEF EvmRun
    <2>5. QED
      BY <1>2, <2>3, <2>4, StepGood, NodeFact
  <1>13. ASSUME EvmWrite
         PROVE  GoodInv'
    <2>1. PICK s : s = state[Node] /\ Good(s) /\ Shaped(s)
      BY <1>1, NodeFact
    <2>2. PICK x \in running :
            LET written == Receipted(Committed(s, x.tx, x.loaded), x.tx, x.loaded, s.height)
            IN  state' = [state EXCEPT ![Node] =
                   [written EXCEPT !.height = IF Answers(x.tx, x.loaded) THEN @ + 1 ELSE @]]
      BY <1>13, <2>1 DEF EvmWrite
    <2>3. PICK c, w, h, e : /\ c = Committed(s, x.tx, x.loaded)
                            /\ w = Receipted(c, x.tx, x.loaded, s.height)
                            /\ h = (IF Answers(x.tx, x.loaded) THEN w.height + 1 ELSE w.height)
                            /\ e = [w EXCEPT !.height = h]
      OBVIOUS
    <2>4. state' = [state EXCEPT ![Node] = e]
      BY <2>2, <2>3
    <2>5. Keeps(s, c) /\ Shaped(c)
      <3>1. Keeps(s, c)
        BY <2>1, <2>3, CommittedKeeps
      <3>2. QED
        BY <3>1 DEF Keeps
    <2>6. Keeps(c, w)
      BY <2>3, <2>5, ReceiptedKeeps
    <2>7. Good(w)
      BY <2>1, <2>5, <2>6, KeepsTwice, GoodKept
    <2>8. w.height \in Nat
      BY <2>7 DEF Good
    <2>9. h \in Nat
      BY <2>3, <2>8
    <2>10. Good(e)
      BY <2>3, <2>7, <2>9, HeightSet
    <2>11. running' = {} /\ UNCHANGED <<router, mempool, chain, apart>>
      BY <1>13 DEF EvmWrite
    <2>12. QED
      BY <1>2, <2>4, <2>10, <2>11, StepGood, NodeFact
  <1>14. CASE UNCHANGED vars
    BY <1>14 DEF vars, GoodInv
  <1>15. QED
    BY <1>4, <1>5, <1>6, <1>7, <1>8, <1>9, <1>10, <1>11, <1>12, <1>13, <1>14 DEF Next

\* GoodInv holds in every reachable state.
LEMMA GoodAlways == Spec => []GoodInv
  <1>1. Init => GoodInv
    BY GenesisGood DEF Init, GoodInv
  <1>2. GoodInv /\ [Next]_vars => GoodInv'
    BY GoodNext
  <1>3. QED
    BY <1>1, <1>2, PTL DEF Spec

\* A signed request that has succeeded takes no further effect in the same
\* application, however often it is sent, forwarded or repeated in a block and
\* wherever a lock or an unreadable order ended the attempts before.
THEOREM RequestsAppliedOnce == Spec => []AppliedOnce
  <1>1. GoodInv => AppliedOnce
    <2>1. SUFFICES ASSUME GoodInv, NEW v \in Validators PROVE Once(state[v])
      BY DEF AppliedOnce, Once
    <2>2. QED
      BY <2>1 DEF GoodInv, Good
  <1>2. QED
    BY <1>1, GoodAlways, PTL

-----------------------------------------------------------------------------
(* Replicas *)

\* The state after each decided block, which is a function of the chain alone.
IsHistory(R, n, blocks) ==
    /\ R[0] = Genesis
    /\ \A i \in 0..n : Good(R[i]) /\ R[i].height = i
    /\ \A i \in 1..n : R[i] = run_block([R[i - 1] EXCEPT !.height = i], blocks[i], Lucky(blocks[i]))

\* A validator that has done nothing on its own is somewhere in that history.
Follows(st, away, R, n) ==
    \A v \in Validators : ~away[v] => st[v].height \in 0..n /\ st[v] = R[st[v].height]

ReplicaInv ==
    router = "cometbft" =>
      \E R : IsHistory(R, Len(chain), chain) /\ Follows(state, apart, R, Len(chain))

\* A decided block extends the history.
LEMMA HistoryExtends ==
    ASSUME NEW n \in Nat, NEW c, NEW b, NEW R, IsHistory(R, n, c),
           \A i \in 1..n : b[i] = c[i], b[n + 1] \in Seq(Txs)
    PROVE  \E Q : IsHistory(Q, n + 1, b) /\ \A i \in 0..n : Q[i] = R[i]
  <1>1. Good(R[n]) /\ n + 1 \in Nat
    BY DEF IsHistory
  <1>2. PICK s : s = [R[n] EXCEPT !.height = n + 1]
    OBVIOUS
  <1>3. Good(s) /\ s.height = n + 1
    BY <1>1, <1>2, HeightSet
  <1>4. PICK e : e = run_block(s, b[n + 1], Lucky(b[n + 1]))
    OBVIOUS
  <1>5. Good(e) /\ e.height = n + 1
    BY <1>3, <1>4, RunBlockGood
  <1>6. PICK Q : Q = [i \in 0..(n + 1) |-> IF i = n + 1 THEN e ELSE R[i]]
    OBVIOUS
  <1>7. Q[n + 1] = e /\ \A i \in 0..n : Q[i] = R[i]
    BY <1>6
  <1>8. Q[0] = Genesis /\ \A i \in 0..(n + 1) : Good(Q[i]) /\ Q[i].height = i
    <2>1. Q[0] = Genesis
      BY <1>7 DEF IsHistory
    <2>2. \A i \in 0..n : Good(Q[i]) /\ Q[i].height = i
      BY <1>7 DEF IsHistory
    <2>3. Good(Q[n + 1]) /\ Q[n + 1].height = n + 1
      BY <1>5, <1>7
    <2>4. QED
      BY <2>1, <2>2, <2>3
  <1>9. ASSUME NEW i \in 1..(n + 1)
        PROVE  Q[i] = run_block([Q[i - 1] EXCEPT !.height = i], b[i], Lucky(b[i]))
    <2>1. CASE i = n + 1
      <3>1. i - 1 = n /\ n \in 0..n
        BY <2>1
      <3>2. Q[i - 1] = R[n]
        BY <1>7, <3>1
      <3>3. QED
        BY <1>2, <1>4, <1>7, <2>1, <3>2
    <2>2. CASE i \in 1..n
      <3>1. i - 1 \in 0..n /\ i \in 0..n
        BY <2>2
      <3>2. Q[i] = R[i] /\ Q[i - 1] = R[i - 1] /\ b[i] = c[i]
        BY <1>7, <2>2, <3>1
      <3>3. R[i] = run_block([R[i - 1] EXCEPT !.height = i], c[i], Lucky(c[i]))
        BY <2>2 DEF IsHistory
      <3>4. QED
        BY <3>2, <3>3
    <2>3. QED
      BY <2>1, <2>2
  <1>10. IsHistory(Q, n + 1, b)
    BY <1>8, <1>9 DEF IsHistory
  <1>11. QED
    BY <1>7, <1>10

\* Under CometBFT only blocks change the state of a validator that executes
\* nothing on its own.
LEMMA ReplicaNext ==
    ASSUME GoodInv, ReplicaInv, [Next]_vars
    PROVE  ReplicaInv'
  <1>1. router' = router
    BY DEF Next, vars, BroadcastPerp, BroadcastSpot, ExchangeBinary, EvmBroadcast, Simulate, Decide,
           finalize_block, ExchangePerp, ExchangeSpot, EvmRun, EvmWrite, broadcast_tx_sync
  <1>2. SUFFICES ASSUME router = "cometbft"
                 PROVE  \E R : IsHistory(R, Len(chain'), chain') /\ Follows(state', apart', R, Len(chain'))
    BY <1>1 DEF ReplicaInv
  <1>3. PICK R : IsHistory(R, Len(chain), chain) /\ Follows(state, apart, R, Len(chain))
    BY <1>2 DEF ReplicaInv
  <1>4. DOMAIN state = Validators /\ apart \in [Validators -> BOOLEAN]
    BY DEF GoodInv
  <1>5. PICK S : S = Seq(Txs)
    OBVIOUS
  <1>6. chain \in Seq(S)
    BY <1>5 DEF GoodInv
  <1>7. PICK n \in Nat : n = Len(chain)
    BY <1>6
  <1>8. IsHistory(R, n, chain) /\ Follows(state, apart, R, n)
    BY <1>3, <1>7
  <1>9. CASE chain' = chain /\ state' = state /\ apart' = apart
    <2>1. Follows(state', apart', R, Len(chain'))
      BY <1>3, <1>9 DEF Follows
    <2>2. QED
      BY <1>3, <1>9, <2>1
  <1>10. ASSUME NEW v \in Validators, NEW t \in EvmTxs, Simulate(v, t)
         PROVE  chain' = chain /\ apart' = apart /\ Follows(state', apart', R, n)
    <2>1. Shaped(state[v])
      BY DEF GoodInv, Good
    <2>2. execute_tx_inner(state[v], t, FALSE) = state[v]
      BY <2>1, InnerKeeps
    <2>3. state' = [state EXCEPT ![v] = state[v]] /\ chain' = chain /\ apart' = apart
      BY <1>10, <2>2 DEF Simulate
    <2>4. \A w \in Validators : state'[w] = state[w]
      BY <1>4, <2>3
    <2>5. QED
      BY <1>8, <2>3, <2>4 DEF Follows
  <1>11. ASSUME NEW v \in Validators, NEW txs \in BoundedSeq(mempool, MaxBlockTxs), Decide(v, txs)
         PROVE  \E Q : IsHistory(Q, Len(chain'), chain') /\ Follows(state', apart', Q, Len(chain'))
    <2>1. txs \in S
      BY <1>5, ProposalType DEF GoodInv
    <2>2. chain' = Append(chain, txs) /\ state' = state /\ apart' = apart
      BY <1>11 DEF Decide
    <2>3. PICK b : b = chain'
      OBVIOUS
    <2>4. /\ Len(b) = n + 1 /\ b[n + 1] = txs
          /\ \A i \in 1..n : b[i] = chain[i]
      BY <1>6, <1>7, <2>1, <2>2, <2>3
    <2>5. b[n + 1] \in Seq(Txs)
      BY <1>5, <2>1, <2>4
    <2>6. PICK Q : IsHistory(Q, n + 1, b) /\ \A i \in 0..n : Q[i] = R[i]
      BY <1>8, <2>4, <2>5, HistoryExtends
    <2>7. ASSUME NEW w \in Validators, ~apart[w]
          PROVE  state[w].height \in 0..(n + 1) /\ state[w] = Q[state[w].height]
      <3>1. state[w].height \in 0..n /\ state[w] = R[state[w].height]
        BY <1>8, <2>7 DEF Follows
      <3>2. QED
        BY <2>6, <3>1
    <2>8. Follows(state', apart', Q, n + 1)
      BY <2>2, <2>7 DEF Follows
    <2>9. QED
      BY <2>3, <2>4, <2>6, <2>8
  <1>12. ASSUME NEW v \in Validators, NEW stops, finalize_block(v, stops)
         PROVE  chain' = chain /\ Follows(state', apart', R, n)
    <2>1. PICK s, h, b, txs : /\ s = state[v] /\ h = s.height + 1
                              /\ b = [s EXCEPT !.height = h] /\ txs = chain[h]
      OBVIOUS
    <2>2. PICK e : e = run_block(b, txs, stops)
      OBVIOUS
    <2>3. s.height < n /\ state' = [state EXCEPT ![v] = e] /\ chain' = chain
      BY <1>7, <1>12, <2>1, <2>2 DEF finalize_block
    <2>4. apart' = [apart EXCEPT ![v] = apart[v] \/ stops # Lucky(txs)]
      BY <1>12, <2>1 DEF finalize_block
    <2>5. ASSUME NEW w \in Validators, ~apart'[w]
          PROVE  state'[w].height \in 0..n /\ state'[w] = R[state'[w].height]
      <3>1. CASE w = v
        <4>1. ~apart[v] /\ stops = Lucky(txs)
          BY <1>4, <2>4, <2>5, <3>1
        <4>2. s.height \in 0..n /\ s = R[s.height]
          BY <1>8, <2>1, <4>1 DEF Follows
        <4>3. h \in 1..n /\ h \in 0..n /\ h - 1 = s.height
          BY <2>1, <2>3, <4>2
        <4>4. /\ R[h] = run_block([R[h - 1] EXCEPT !.height = h], chain[h], Lucky(chain[h]))
              /\ R[h].height = h
          BY <1>8, <4>3 DEF IsHistory
        <4>5. R[h] = e
          BY <2>1, <2>2, <4>1, <4>2, <4>3, <4>4
        <4>6. state'[w] = e
          BY <1>4, <2>3, <3>1
        <4>7. QED
          BY <4>3, <4>4, <4>5, <4>6
      <3>2. CASE w # v
        <4>1. state'[w] = state[w] /\ ~apart[w]
          BY <1>4, <2>3, <2>4, <2>5, <3>2
        <4>2. QED
          BY <1>8, <4>1 DEF Follows
      <3>3. QED
        BY <3>1, <3>2
    <2>6. QED
      BY <2>3, <2>5 DEF Follows
  <1>13. ASSUME NEW v \in Validators, NEW r \in Requests, NEW stop \in 0..2, ExchangeBinary(v, r, stop)
         PROVE  chain' = chain /\ Follows(state', apart', R, n)
    <2>1. PICK e : state' = [state EXCEPT ![v] = e]
      BY <1>13 DEF ExchangeBinary
    <2>2. chain' = chain /\ apart' = [apart EXCEPT ![v] = TRUE]
      BY <1>13 DEF ExchangeBinary
    <2>3. \A w \in Validators : ~apart'[w] => ~apart[w] /\ state'[w] = state[w]
      BY <1>4, <2>1, <2>2
    <2>4. QED
      BY <1>8, <2>2, <2>3 DEF Follows
  <1>14. ASSUME chain' = chain, Follows(state', apart', R, n)
         PROVE  \E Q : IsHistory(Q, Len(chain'), chain') /\ Follows(state', apart', Q, Len(chain'))
    BY <1>7, <1>8, <1>14
  <1>15. ASSUME NEW v \in Validators, NEW r \in Requests, BroadcastPerp(v, r) \/ BroadcastSpot(v, r)
         PROVE  chain' = chain /\ state' = state /\ apart' = apart
    BY <1>15 DEF BroadcastPerp, BroadcastSpot, broadcast_tx_sync
  <1>16. ASSUME NEW v \in Validators, NEW t \in EvmTxs, EvmBroadcast(v, t)
         PROVE  chain' = chain /\ state' = state /\ apart' = apart
    BY <1>16 DEF EvmBroadcast, broadcast_tx_sync
  <1>17. ASSUME NEW r \in Requests, NEW stop \in 0..2 PROVE ~ExchangePerp(r, stop) /\ ~ExchangeSpot(r)
    BY <1>2 DEF ExchangePerp, ExchangeSpot
  <1>18. ASSUME NEW t \in EvmTxs PROVE ~EvmRun(t)
    BY <1>2 DEF EvmRun
  <1>19. ~EvmWrite
    BY <1>2 DEF EvmWrite, GoodInv
  <1>20. CASE UNCHANGED vars
    BY <1>9, <1>20 DEF vars
  <1>21. QED
    <2>1. CASE \E v \in Validators, r \in Requests : BroadcastPerp(v, r) \/ BroadcastSpot(v, r)
      BY <1>9, <1>15, <2>1
    <2>2. CASE \E v \in Validators, t \in EvmTxs : EvmBroadcast(v, t) \/ Simulate(v, t)
      BY <1>9, <1>10, <1>14, <1>16, <2>2
    <2>3. CASE \E v \in Validators, txs \in BoundedSeq(mempool, MaxBlockTxs) : Decide(v, txs)
      BY <1>11, <2>3
    <2>4. CASE \E v \in Validators, stops \in BoundedSeq(0..2, MaxBlockTxs) : finalize_block(v, stops)
      BY <1>12, <1>14, <2>4
    <2>5. CASE \E v \in Validators, r \in Requests, stop \in 0..2 : ExchangeBinary(v, r, stop)
      BY <1>13, <1>14, <2>5
    <2>6. QED
      BY <1>17, <1>18, <1>19, <1>20, <2>1, <2>2, <2>3, <2>4, <2>5 DEF Next

\* Validators at the same height that have executed nothing on their own and
\* missed no lock have the same state, whatever is simulated, sent again or
\* repeated in a block meanwhile.
THEOREM ReplicasAlwaysAgree == Spec => []ReplicasAgree
  <1>1. Init => ReplicaInv
    <2>1. SUFFICES ASSUME Init PROVE ReplicaInv
      OBVIOUS
    <2>2. chain = <<>> /\ Len(chain) = 0 /\ state = [v \in Validators |-> Genesis]
      BY <2>1 DEF Init
    <2>3. PICK R : R = [i \in 0..0 |-> Genesis]
      OBVIOUS
    <2>4. R[0] = Genesis
      BY <2>3
    <2>5. IsHistory(R, 0, chain)
      <3>1. \A i \in 0..0 : Good(R[i]) /\ R[i].height = i
        <4>1. \A i \in 0..0 : i = 0
          OBVIOUS
        <4>2. Good(R[0]) /\ R[0].height = 0
          BY <2>4, GenesisGood
        <4>3. QED
          BY <4>1, <4>2, Zenon
      <3>2. \A i \in 1..0 : FALSE
        OBVIOUS
      <3>3. QED
        BY <2>4, <3>1, <3>2, Zenon DEF IsHistory
    <2>6. Follows(state, apart, R, 0)
      BY <2>2, <2>4, GenesisGood DEF Follows
    <2>7. QED
      BY <2>2, <2>5, <2>6 DEF ReplicaInv
  <1>2. GoodInv /\ ReplicaInv /\ [Next]_vars => ReplicaInv'
    BY ReplicaNext
  <1>3. ReplicaInv => ReplicasAgree
    <2>1. SUFFICES ASSUME ReplicaInv, router = "cometbft",
                          NEW v \in Validators, NEW w \in Validators, ~apart[v], ~apart[w],
                          state[v].height = state[w].height
                   PROVE  state[v] = state[w]
      BY DEF ReplicasAgree
    <2>2. PICK R : Follows(state, apart, R, Len(chain))
      BY <2>1 DEF ReplicaInv
    <2>3. state[v] = R[state[v].height] /\ state[w] = R[state[w].height]
      BY <2>1, <2>2 DEF Follows
    <2>4. QED
      BY <2>1, <2>3
  <1>4. QED
    BY <1>1, <1>2, <1>3, GoodAlways, PTL DEF Spec
=============================================================================
