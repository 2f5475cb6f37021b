----------------------------- MODULE BlockProofs -----------------------------
(***************************************************************************)
(* Proofs about blocks: the transaction pool and what nonces guarantee     *)
(* when a block producer fills them, and the funding that is settled at    *)
(* their end.                                                              *)
(***************************************************************************)
EXTENDS BlockProducer, Clearing, SequenceTheorems, TLAPS

-----------------------------------------------------------------------------
(* The account index of the pool *)

IndexInv == DOMAIN by_account = Senders /\ NoDanglingIndex

\* Removing any transactions keeps the index sound: a nonce that stays indexed
\* is not the nonce of a removed transaction.
LEMMA RemovalKeepsIndex ==
    ASSUME IndexInv, NEW gone
    PROVE  LET index == WithoutNonces(gone)
           IN  /\ DOMAIN index = Senders
               /\ \A a \in Senders : \A n \in DOMAIN index[a] :
                    /\ index[a][n] \in txs \ gone
                    /\ Sender[index[a][n]] = a /\ Nonce[index[a][n]] = n
  BY DEF IndexInv, NoDanglingIndex, WithoutNonces

\* RemoveAll keeps the index sound.
LEMMA RemoveAllKeepsIndex ==
    ASSUME IndexInv, NEW gone, RemoveAll(gone)
    PROVE  IndexInv'
  BY RemovalKeepsIndex DEF IndexInv, NoDanglingIndex, RemoveAll

\* add keeps the index sound, also when it replaces a transaction with the same
\* nonce or is refused after an eviction.
LEMMA AddKeepsIndex ==
    ASSUME IndexInv, NEW h \in Hashes, add(h)
    PROVE  IndexInv'
  <1>1. CASE UNCHANGED <<txs, by_account, by_time>>
    BY <1>1 DEF IndexInv, NoDanglingIndex
  <1>2. CASE RemoveAll(Evicted)
    BY <1>2, RemoveAllKeepsIndex
  <1>3. CASE /\ by_account' = [WithoutNonces(Evicted) EXCEPT ![Sender[h]] =
                   [n \in DOMAIN WithoutNonces(Evicted)[Sender[h]] \cup {Nonce[h]} |->
                      IF n = Nonce[h] THEN h ELSE WithoutNonces(Evicted)[Sender[h]][n]]]
             /\ txs' = (txs \ Evicted) \cup {h}
    <2>1. PICK index : index = WithoutNonces(Evicted)
      OBVIOUS
    <2>2. /\ DOMAIN index = Senders
          /\ \A a \in Senders : \A n \in DOMAIN index[a] :
               /\ index[a][n] \in txs \ Evicted
               /\ Sender[index[a][n]] = a /\ Nonce[index[a][n]] = n
      BY <2>1, RemovalKeepsIndex
    <2>3. by_account' = [index EXCEPT ![Sender[h]] =
                   [n \in DOMAIN index[Sender[h]] \cup {Nonce[h]} |->
                      IF n = Nonce[h] THEN h ELSE index[Sender[h]][n]]]
      BY <1>3, <2>1
    <2>4. DOMAIN by_account' = Senders
      BY <2>2, <2>3
    <2>5. ASSUME NEW a \in Senders, NEW n \in DOMAIN by_account'[a]
          PROVE  /\ by_account'[a][n] \in txs'
                 /\ Sender[by_account'[a][n]] = a /\ Nonce[by_account'[a][n]] = n
      <3>1. CASE a = Sender[h]
        BY <1>3, <2>2, <2>3, <2>5, <3>1
      <3>2. CASE a # Sender[h]
        BY <1>3, <2>2, <2>3, <2>5, <3>2
      <3>3. QED
        BY <3>1, <3>2
    <2>6. QED
      BY <2>4, <2>5 DEF IndexInv, NoDanglingIndex
  <1>4. QED
    BY <1>1, <1>2, <1>3 DEF add

\* Every other operation of the pool keeps the index sound.
LEMMA PoolStepKeepsIndex ==
    ASSUME IndexInv, [MempoolNext]_poolVars
    PROVE  IndexInv'
  <1>1. ASSUME NEW h \in Hashes, add(h)
        PROVE  IndexInv'
    BY <1>1, AddKeepsIndex
  <1>2. ASSUME NEW h \in Hashes, remove(h)
        PROVE  IndexInv'
    BY <1>2, RemoveAllKeepsIndex DEF remove
  <1>3. ASSUME NEW h \in Hashes, mark_invalid(h)
        PROVE  IndexInv'
    <2>1. CASE remove(h)
      BY <1>2, <2>1
    <2>2. CASE UNCHANGED <<txs, by_account, by_time>>
      BY <2>2 DEF IndexInv, NoDanglingIndex
    <2>3. QED
      BY <1>3, <2>1, <2>2 DEF mark_invalid, RemoveIfKnown
  <1>4. CASE clear_invalid_cache
    BY <1>4 DEF clear_invalid_cache, IndexInv, NoDanglingIndex
  <1>5. ASSUME NEW n \in 1..max_total_txs, prune_expired(n)
        PROVE  IndexInv'
    BY <1>5, RemoveAllKeepsIndex DEF prune_expired
  <1>6. CASE UNCHANGED poolVars
    BY <1>6 DEF poolVars, IndexInv, NoDanglingIndex
  <1>7. QED
    BY <1>1, <1>2, <1>3, <1>4, <1>5, <1>6 DEF MempoolNext

\* For pools of any size: no sequence of additions, replacements, evictions,
\* expiries and removals leaves an index entry whose transaction is gone.
THEOREM PoolIndexSound == MempoolSpec => []NoDanglingIndex
  <1>1. MempoolInit => IndexInv
    BY DEF MempoolInit, IndexInv, NoDanglingIndex, NoNonces
  <1>2. IndexInv /\ [MempoolNext]_poolVars => IndexInv'
    BY PoolStepKeepsIndex
  <1>3. IndexInv => NoDanglingIndex
    BY DEF IndexInv
  <1>4. QED
    BY <1>1, <1>2, <1>3, PTL DEF MempoolSpec

-----------------------------------------------------------------------------
(* Nonces *)

\* The types the argument needs: a batch is a sequence of transactions, the
\* nonces and counters are natural numbers.
BatchType ==
    /\ picked \in Seq(Hashes)
    /\ channel \in Seq(Seq(Hashes))
    /\ batch \in Seq(Hashes)

CounterType ==
    /\ nonces \in [Senders -> Nat]
    /\ last_timestamp_nonces \in [Senders -> Nat]
    /\ executions \in [Hashes -> Nat]
    /\ persisted \in [Hashes -> Nat]
    /\ restarts \in Nat

\* Why a nonce limits its transaction: an executed timestamp nonce is not above
\* the last one recorded, and an account's expected nonce has grown with every
\* execution.
UsedNonces ==
    restarts = 0 =>
        \A h \in Hashes :
            /\ IsTimestamp(h) =>
                 /\ executions[h] <= 1
                 /\ executions[h] > 0 => Nonce[h] <= last_timestamp_nonces[Sender[h]]
            /\ ~IsTimestamp(h) => executions[h] <= Nonce[h] + 1
            /\ executions[h] <= nonces[Sender[h]]

NonceInv == BatchType /\ CounterType /\ UsedNonces

\* get_pending returns sequences of transactions.
LEMMA PendingType == \A s \in get_pending(max_txs_per_block) : s \in Seq(Hashes)
  <1>1. SUFFICES ASSUME NEW s \in get_pending(max_txs_per_block)
                 PROVE  s \in Seq(Hashes)
    OBVIOUS
  <1>2. PICK n \in 0..max_txs_per_block : s \in [1..n -> {h \in Hashes : Indexed(h)}]
    BY <1>1 DEF get_pending
  <1>3. n \in Nat /\ s \in [1..n -> Hashes]
    BY <1>2
  <1>4. QED
    BY <1>3, SeqDef

\* One execution: the nonce that was accepted is used up.
LEMMA ExecuteKeepsNonces ==
    ASSUME CounterType, UsedNonces, NEW h \in Hashes, NEW time, execute_tx(h, time),
           UNCHANGED <<persisted, restarts>>
    PROVE  CounterType' /\ UsedNonces'
  <1>1. CASE UNCHANGED <<nonces, last_timestamp_nonces, executions>>
    BY <1>1 DEF CounterType, UsedNonces, IsTimestamp
  <1>2. CASE /\ validate_nonce(h, time)
             /\ nonces' = [nonces EXCEPT ![Sender[h]] = @ + 1]
             /\ last_timestamp_nonces' = update_timestamp_nonce(h)
             /\ executions' = [executions EXCEPT ![h] = @ + 1]
    <2>1. Sender[h] \in Senders /\ Nonce[h] \in Nat /\ TIMESTAMP_THRESHOLD \in Nat
      BY MempoolAssumption, ProducerAssumption
    <2>2. last_timestamp_nonces' \in [Senders -> Nat]
      BY <1>2, <2>1 DEF CounterType, update_timestamp_nonce
    <2>3. CounterType'
      <3>1. nonces' \in [Senders -> Nat]
        BY <1>2, <2>1 DEF CounterType
      <3>2. executions' \in [Hashes -> Nat]
        BY <1>2 DEF CounterType
      <3>3. QED
        BY <2>2, <3>1, <3>2 DEF CounterType
    <2>4. \A a \in Senders : last_timestamp_nonces'[a] >= last_timestamp_nonces[a]
      <3>1. CASE /\ Nonce[h] > last_timestamp_nonces[Sender[h]]
                 /\ last_timestamp_nonces' =
                      [last_timestamp_nonces EXCEPT ![Sender[h]] = Nonce[h]]
        BY <2>1, <3>1 DEF CounterType
      <3>2. CASE last_timestamp_nonces' = last_timestamp_nonces
        BY <3>2 DEF CounterType
      <3>3. QED
        BY <1>2, <3>1, <3>2 DEF update_timestamp_nonce
    <2>5. \A a \in Senders : nonces'[a] >= nonces[a]
      BY <1>2, <2>1 DEF CounterType
    <2>6. ASSUME restarts = 0, NEW g \in Hashes, g # h
          PROVE  /\ IsTimestamp(g) =>
                      /\ executions'[g] <= 1
                      /\ executions'[g] > 0 => Nonce[g] <= last_timestamp_nonces'[Sender[g]]
                 /\ ~IsTimestamp(g) => executions'[g] <= Nonce[g] + 1
                 /\ executions'[g] <= nonces'[Sender[g]]
      <3>1. executions'[g] = executions[g] /\ Sender[g] \in Senders /\ Nonce[g] \in Nat
        BY <1>2, <2>6, MempoolAssumption DEF CounterType
      <3>2. QED
        BY <2>2, <2>3, <2>4, <2>5, <2>6, <3>1 DEF CounterType, UsedNonces
    <2>7. ASSUME restarts = 0
          PROVE  /\ IsTimestamp(h) =>
                      /\ executions'[h] <= 1
                      /\ executions'[h] > 0 => Nonce[h] <= last_timestamp_nonces'[Sender[h]]
                 /\ ~IsTimestamp(h) => executions'[h] <= Nonce[h] + 1
                 /\ executions'[h] <= nonces'[Sender[h]]
      <3>1. executions'[h] = executions[h] + 1 /\ nonces'[Sender[h]] = nonces[Sender[h]] + 1
        BY <1>2, <2>1 DEF CounterType
      <3>2. /\ executions[h] \in Nat /\ nonces[Sender[h]] \in Nat
            /\ last_timestamp_nonces[Sender[h]] \in Nat
            /\ executions[h] <= nonces[Sender[h]]
        BY <2>1, <2>7 DEF CounterType, UsedNonces
      <3>3. CASE IsTimestamp(h)
        <4>1. Nonce[h] > last_timestamp_nonces[Sender[h]]
          BY <1>2, <3>3 DEF validate_nonce, AfterLastTimestamp
        <4>2. executions[h] = 0
          BY <2>1, <2>7, <3>2, <3>3, <4>1 DEF UsedNonces
        <4>3. last_timestamp_nonces'[Sender[h]] = Nonce[h]
          BY <1>2, <2>1, <3>3, <4>1 DEF update_timestamp_nonce, CounterType
        <4>4. QED
          BY <2>1, <3>1, <3>2, <3>3, <4>2, <4>3
      <3>4. CASE ~IsTimestamp(h)
        <4>1. Nonce[h] >= nonces[Sender[h]]
          BY <1>2, <3>4 DEF validate_nonce, InNonceWindow
        <4>2. QED
          BY <2>1, <3>1, <3>2, <3>4, <4>1
      <3>5. QED
        BY <3>3, <3>4
    <2>8. UsedNonces'
      BY <2>6, <2>7 DEF UsedNonces, IsTimestamp
    <2>9. QED
      BY <2>3, <2>8
  <1>3. QED
    BY <1>1, <1>2 DEF execute_tx

\* The steps that leave the application alone.
LEMMA AppUnchanged ==
    ASSUME CounterType, UsedNonces, UNCHANGED <<appVars, restarts>>,
           persisted' \in [Hashes -> Nat]
    PROVE  CounterType' /\ UsedNonces'
  BY DEF CounterType, UsedNonces, appVars, IsTimestamp

\* Every step of the node keeps the invariant.
LEMMA NonceStep ==
    ASSUME NonceInv, [Next]_vars
    PROVE  NonceInv'
  <1>1. BatchType /\ CounterType /\ UsedNonces
    BY DEF NonceInv
  <1>2. ASSUME NEW h \in Hashes, check_tx(h) \/ push(h)
        PROVE  NonceInv'
    BY <1>1, <1>2, AppUnchanged
       DEF check_tx, push, NonceInv, BatchType, collectorVars, executorVars, diskVars, CounterType
  <1>2a. ASSUME NEW h \in Hashes, ExecuteDirect(h)
         PROVE  NonceInv'
    <2>1. CounterType' /\ UsedNonces'
      BY <1>1, <1>2a, ExecuteKeepsNonces DEF ExecuteDirect
    <2>2. BatchType'
      BY <1>1, <1>2a DEF ExecuteDirect, BatchType, collectorVars, executorVars
    <2>3. QED
      BY <2>1, <2>2 DEF NonceInv
  <1>3. CASE StartCollect \/ DrainOne \/ Commit \/ ClearNext \/ Tick
    BY <1>1, <1>3, AppUnchanged
       DEF StartCollect, DrainOne, Commit, ClearNext, Tick, NonceInv, BatchType,
           collectorVars, executorVars, diskVars, CounterType
  <1>4. CASE Collect
    <2>1. picked' \in Seq(Hashes)
      BY <1>4, PendingType DEF Collect
    <2>2. QED
      BY <1>1, <1>4, <2>1, AppUnchanged DEF Collect, NonceInv, BatchType, executorVars, diskVars, CounterType
  <1>5. CASE Send
    <2>1. picked' \in Seq(Hashes) /\ channel' \in Seq(Seq(Hashes)) /\ batch' = batch
      BY <1>1, <1>5 DEF Send, BatchType, executorVars
    <2>2. CounterType' /\ UsedNonces'
      BY <1>1, <1>5, AppUnchanged DEF Send, diskVars, CounterType
    <2>3. QED
      BY <1>1, <2>1, <2>2 DEF NonceInv, BatchType
  <1>6. CASE BeginBlock
    <2>1. /\ batch' \in Seq(Hashes) /\ channel' \in Seq(Seq(Hashes)) /\ picked' = picked
      BY <1>1, <1>6 DEF BeginBlock, BatchType
    <2>2. CounterType' /\ UsedNonces'
      BY <1>1, <1>6, AppUnchanged DEF BeginBlock, appVars, diskVars, CounterType
    <2>3. QED
      BY <1>1, <2>1, <2>2 DEF NonceInv, BatchType
  <1>7. CASE ExecuteNext
    <2>1. Head(batch) \in Hashes /\ Tail(batch) \in Seq(Hashes)
      BY <1>1, <1>7 DEF ExecuteNext, BatchType
    <2>2. CounterType' /\ UsedNonces'
      BY <1>1, <1>7, <2>1, ExecuteKeepsNonces DEF ExecuteNext, diskVars
    <2>3. QED
      BY <1>1, <1>7, <2>1, <2>2 DEF ExecuteNext, NonceInv, BatchType, collectorVars
  <1>8. CASE FinishBlock
    <2>1. persisted' \in [Hashes -> Nat]
      BY <1>1, <1>8 DEF FinishBlock, AfterCommit, CounterType
    <2>2. QED
      BY <1>1, <1>8, <2>1, AppUnchanged DEF FinishBlock, NonceInv, BatchType, collectorVars
  <1>9. CASE Restart
    <2>1. CounterType' /\ restarts' # 0
      BY <1>1, <1>9 DEF Restart, CounterType, Zero
    <2>2. BatchType'
      BY <1>9 DEF Restart, BatchType
    <2>3. QED
      BY <2>1, <2>2 DEF NonceInv, UsedNonces
  <1>10. CASE UNCHANGED vars
    BY <1>1, <1>10, AppUnchanged
       DEF vars, NonceInv, BatchType, collectorVars, executorVars, diskVars, CounterType
  <1>11. QED
    BY <1>2, <1>2a, <1>3, <1>4, <1>5, <1>6, <1>7, <1>8, <1>9, <1>10 DEF Next, ProducerStep

\* The invariant holds of every behaviour.
LEMMA NoncesKept == Spec => []NonceInv
  <1>1. Init => NonceInv
    BY MempoolAssumption
       DEF Init, NonceInv, BatchType, CounterType, UsedNonces, Zero, IsTimestamp
  <1>2. QED
    BY <1>1, NonceStep, PTL DEF Spec

\* For any number of accounts, transactions, blocks and queued batches: until
\* the process restarts, a timestamp nonce limits its transaction to one
\* execution (execute_tx of chain/src/app.rs).
THEOREM TimestampNoncesOnce == Spec => []TimestampOnce
  <1>1. NonceInv => TimestampOnce
    BY DEF NonceInv, UsedNonces, TimestampOnce
  <1>2. QED
    BY NoncesKept, <1>1, PTL

\* A sequential nonce n, of which the same transaction can be executed again
\* while the counter has not passed it, limits it to n + 1 executions.
THEOREM SequentialNoncesBounded == Spec => []SequentialBounded
  <1>1. NonceInv => SequentialBounded
    BY DEF NonceInv, UsedNonces, SequentialBounded
  <1>2. QED
    BY NoncesKept, <1>1, PTL

-----------------------------------------------------------------------------
(* The database *)

\* What the database and the gateway are behind is what the node has executed.
DiskInv == DurableBetweenBlocks /\ outside \in [Hashes -> Nat]

\* An execution beside the blocks adds as much to both sides.
LEMMA DirectKeepsDisk ==
    ASSUME DiskInv, CounterType, NEW h \in Hashes, ExecuteDirect(h)
    PROVE  DiskInv'
  <1>1. /\ executions' = [executions EXCEPT ![h] = @ + 1]
        /\ outside' = [outside EXCEPT ![h] = @ + 1]
        /\ UNCHANGED <<persisted, saved, executor, pipelined>>
    BY DEF ExecuteDirect, execute_tx, executorVars
  <1>2. \A g \in Hashes : /\ executions[g] \in Nat /\ persisted[g] \in Nat /\ outside[g] \in Nat
                         /\ executions'[g] = executions[g] + (IF g = h THEN 1 ELSE 0)
                         /\ outside'[g] = outside[g] + (IF g = h THEN 1 ELSE 0)
    BY <1>1 DEF CounterType, DiskInv
  <1>3. outside' \in [Hashes -> Nat]
    BY <1>1 DEF DiskInv
  <1>4. QED
    BY <1>1, <1>2, <1>3 DEF DiskInv, DurableBetweenBlocks

\* For any number of blocks and failed writes, on a single node whose last write
\* succeeded: between two blocks the database has, of the parts that are written,
\* all but what the gateway executed since the last block.
THEOREM DatabaseUpToDate == Spec => []DurableBetweenBlocks
  <1>1. Init => DiskInv
    BY DEF Init, DiskInv, DurableBetweenBlocks, Zero
  <1>2. ASSUME DiskInv, NonceInv, [Next]_vars
        PROVE  DiskInv'
    <2>1. ASSUME NEW h \in Hashes, check_tx(h) \/ push(h)
          PROVE  DiskInv'
      BY <1>2, <2>1
         DEF check_tx, push, DiskInv, DurableBetweenBlocks, executorVars, appVars, diskVars
    <2>2. ASSUME NEW h \in Hashes, ExecuteDirect(h)
          PROVE  DiskInv'
      BY <1>2, <2>2, DirectKeepsDisk DEF NonceInv
    <2>3. CASE StartCollect \/ DrainOne \/ Collect \/ Send \/ Tick
      BY <1>2, <2>3
         DEF StartCollect, DrainOne, Collect, Send, Tick, DiskInv, DurableBetweenBlocks,
             executorVars, appVars, diskVars
    <2>4. CASE BeginBlock \/ ExecuteNext \/ Commit \/ ClearNext
      BY <1>2, <2>4
         DEF BeginBlock, ExecuteNext, Commit, ClearNext, DiskInv, DurableBetweenBlocks, diskVars
    <2>5. CASE FinishBlock
      BY <1>2, <2>5
         DEF FinishBlock, AfterCommit, DiskInv, DurableBetweenBlocks, appVars, Zero,
             NonceInv, CounterType
    <2>6. CASE Restart
      BY <1>2, <2>6 DEF Restart, DiskInv, DurableBetweenBlocks, Zero, NonceInv, CounterType
    <2>7. CASE UNCHANGED vars
      BY <1>2, <2>7
         DEF vars, DiskInv, DurableBetweenBlocks, executorVars, appVars, diskVars
    <2>8. QED
      BY <1>2, <2>1, <2>2, <2>3, <2>4, <2>5, <2>6, <2>7 DEF Next, ProducerStep
  <1>3. DiskInv => DurableBetweenBlocks
    BY DEF DiskInv
  <1>4. QED
    BY <1>1, <1>2, <1>3, NoncesKept, PTL DEF Spec

-----------------------------------------------------------------------------
(***************************************************************************)
(* Funding: a position that was open at the last settlement carries the    *)
(* funding index of its market, for any accounts, markets, orders, rates.  *)
(*                                                                         *)
(* The argument: settle_funding writes the index of every open position of *)
(* its market and notes it as held; between two settlements positions only *)
(* change by apply_fill, which keeps the index, and one that is closed is  *)
(* held no longer; a new funding round puts all markets into todo first.   *)
(***************************************************************************)

\* pos is a table of records with the fields of a position.
Shape ==
    /\ DOMAIN pos = Accounts
    /\ \A a \in Accounts : DOMAIN pos[a] = Markets
    /\ \A a \in Accounts, m \in Markets : DOMAIN pos[a][m] = {"size", "entry", "index"}

\* Held positions are open, and funding is settled when the engine is not at it.
HeldOpen ==
    /\ held \subseteq Accounts \X Markets
    /\ \A h \in held : ~is_empty(pos[h[1]][h[2]])
TodoIsFunding == pc # "funding" => todo = {}

FundingInv == Shape /\ HeldOpen /\ TodoIsFunding /\ FundingIndexCurrent

-----------------------------------------------------------------------------
\* The change of one position by a fill keeps the shape and every index.
LEMMA FillKeeps ==
    ASSUME Shape, NEW a, NEW m, NEW size, NEW price,
           pos' = [pos EXCEPT ![a][m] = apply_fill(@, size, price)]
    PROVE  /\ Shape'
           /\ \A b \in Accounts, n \in Markets : pos'[b][n].index = pos[b][n].index
<1> DEFINE p == apply_fill(pos[a][m], size, price)
<1>1. DOMAIN pos' = Accounts
  BY DEF Shape
<1>2. ASSUME NEW b \in Accounts
      PROVE  DOMAIN pos'[b] = Markets
  BY DEF Shape
<1>3. a \in Accounts /\ m \in Markets =>
         /\ DOMAIN p = {"size", "entry", "index"}
         /\ p.index = pos[a][m].index
  BY DEF Shape, apply_fill
<1>4. ASSUME NEW b \in Accounts, NEW n \in Markets
      PROVE  pos'[b][n] = IF b = a /\ n = m THEN p ELSE pos[b][n]
  <2>1. CASE b = a
    BY <2>1 DEF Shape
  <2>2. CASE b # a
    BY <2>2 DEF Shape
  <2> QED BY <2>1, <2>2
<1> HIDE DEF p
<1>5. ASSUME NEW b \in Accounts, NEW n \in Markets
      PROVE  /\ DOMAIN pos'[b][n] = {"size", "entry", "index"}
             /\ pos'[b][n].index = pos[b][n].index
  BY <1>3, <1>4, <1>5 DEF Shape
<1> QED BY <1>1, <1>2, <1>5 DEF Shape

\* A step that keeps every index, the accumulators and the markets to settle,
\* and holds on to no position that it closes, keeps the invariant.
LEMMA KeepsIndices ==
    ASSUME FundingInv, Shape', UNCHANGED <<accumulator, todo>>, TodoIsFunding',
           \A b \in Accounts, n \in Markets : pos'[b][n].index = pos[b][n].index,
           held' = {h \in held : ~is_empty(pos'[h[1]][h[2]])}
    PROVE  FundingInv'
<1>1. HeldOpen'
  BY DEF FundingInv, HeldOpen
<1>2. ASSUME NEW h \in held', h[2] \notin todo'
      PROVE  pos'[h[1]][h[2]].index = accumulator'[h[2]]
  <2>1. h \in held /\ h[1] \in Accounts /\ h[2] \in Markets
    BY DEF FundingInv, HeldOpen
  <2> QED BY <1>2, <2>1 DEF FundingInv, FundingIndexCurrent
<1> QED BY <1>1, <1>2 DEF FundingInv, FundingIndexCurrent

\* Shrink is such a step for the positions.
LEMMA ShrinkKeeps ==
    ASSUME FundingInv, NEW a, NEW m, NEW fill, NEW price, Shrink(a, m, fill, price),
           UNCHANGED <<accumulator, todo>>, pc # "funding", pc' # "funding"
    PROVE  FundingInv'
<1>1. /\ Shape'
      /\ \A b \in Accounts, n \in Markets : pos'[b][n].index = pos[b][n].index
  BY FillKeeps DEF Shrink, FundingInv
<1>2. held' = {h \in held : ~is_empty(pos'[h[1]][h[2]])}
  BY DEF Shrink
<1>3. TodoIsFunding'
  BY DEF FundingInv, TodoIsFunding
<1> QED BY <1>1, <1>2, <1>3, KeepsIndices

\* A step that leaves positions and accumulators alone.
LEMMA Unmoved ==
    ASSUME FundingInv, UNCHANGED <<pos, held, accumulator, todo>>, TodoIsFunding'
    PROVE  FundingInv'
BY DEF FundingInv, Shape, HeldOpen, FundingIndexCurrent

-----------------------------------------------------------------------------
LEMMA FundingInit == ClearingInit => FundingInv
BY DEF ClearingInit, FundingInv, Shape, HeldOpen, TodoIsFunding, FundingIndexCurrent, NoPosition

LEMMA TradeKeeps ==
    ASSUME FundingInv, NEW t \in Accounts, NEW a \in Accounts, take_order(t, a)
    PROVE  FundingInv'
<1> DEFINE r == resting[a]
<1>1. /\ pc = "open" /\ a # t
      /\ pos' = [pos EXCEPT ![a][r.market] = apply_fill(@, r.size, r.price),
                            ![t][r.market] = apply_fill(@, 0 - r.size, r.price)]
      /\ held' = {h \in held : ~is_empty(pos'[h[1]][h[2]])}
      /\ UNCHANGED <<accumulator, todo, pc>>
  BY DEF take_order
<1> HIDE DEF r
<1> DEFINE mid == [pos EXCEPT ![a][r.market] = apply_fill(@, r.size, r.price)]
           pa == apply_fill(pos[a][r.market], r.size, r.price)
           pt == apply_fill(pos[t][r.market], 0 - r.size, r.price)
<1>2. ASSUME NEW b \in Accounts
      PROVE  pos'[b] = IF b = a THEN [pos[a] EXCEPT ![r.market] = pa]
                       ELSE IF b = t THEN [pos[t] EXCEPT ![r.market] = pt] ELSE pos[b]
  BY <1>1 DEF FundingInv, Shape
<1>3. DOMAIN pos' = Accounts
  BY <1>1 DEF FundingInv, Shape
<1>4. r.market \in Markets =>
         /\ DOMAIN pa = {"size", "entry", "index"} /\ pa.index = pos[a][r.market].index
         /\ DOMAIN pt = {"size", "entry", "index"} /\ pt.index = pos[t][r.market].index
  BY DEF FundingInv, Shape, apply_fill
<1> HIDE DEF pa, pt
<1>5. ASSUME NEW b \in Accounts
      PROVE  /\ DOMAIN pos'[b] = Markets
             /\ \A n \in Markets : /\ DOMAIN pos'[b][n] = {"size", "entry", "index"}
                                   /\ pos'[b][n].index = pos[b][n].index
  <2>1. CASE b = a
    BY <1>2, <1>4, <2>1 DEF FundingInv, Shape
  <2>2. CASE b # a /\ b = t
    BY <1>2, <1>4, <2>2 DEF FundingInv, Shape
  <2>3. CASE b # a /\ b # t
    BY <1>2, <2>3 DEF FundingInv, Shape
  <2> QED BY <2>1, <2>2, <2>3
<1>6. Shape'
  BY <1>3, <1>5 DEF Shape
<1>7. TodoIsFunding'
  BY <1>1 DEF FundingInv, TodoIsFunding
<1> QED BY <1>1, <1>5, <1>6, <1>7, KeepsIndices

LEMMA SettleKeeps ==
    ASSUME FundingInv, NEW m \in Markets, settle_funding(m)
    PROVE  FundingInv'
<1>1. /\ pc = "funding" /\ pc' = pc /\ accumulator' = accumulator /\ todo' = todo \ {m}
      /\ pos' = [a \in Accounts |->
                   IF is_empty(pos[a][m]) THEN pos[a]
                   ELSE [pos[a] EXCEPT ![m].index = accumulator[m]]]
      /\ held' = held \cup {<<a, m>> : a \in {b \in Accounts : ~is_empty(pos[b][m])}}
  BY DEF settle_funding, settle_index
<1>2. ASSUME NEW b \in Accounts
      PROVE  /\ DOMAIN pos'[b] = Markets
             /\ \A n \in Markets : /\ DOMAIN pos'[b][n] = {"size", "entry", "index"}
                                   /\ pos'[b][n].size = pos[b][n].size
             /\ \A n \in Markets \ {m} : pos'[b][n].index = pos[b][n].index
             /\ ~is_empty(pos[b][m]) => pos'[b][m].index = accumulator[m]
  <2>1. CASE is_empty(pos[b][m])
    BY <1>1, <2>1 DEF FundingInv, Shape
  <2>2. CASE ~is_empty(pos[b][m])
    <3>1. pos'[b] = [pos[b] EXCEPT ![m] = [pos[b][m] EXCEPT !.index = accumulator[m]]]
      BY <1>1, <2>2
    <3> QED BY <3>1, <2>2 DEF FundingInv, Shape
  <2> QED BY <2>1, <2>2
<1>3. Shape'
  BY <1>1, <1>2 DEF Shape
<1>4. ASSUME NEW h \in held'
      PROVE  /\ h \in Accounts \X Markets /\ ~is_empty(pos[h[1]][h[2]])
             /\ h \in held \/ h[2] = m
  BY <1>1 DEF FundingInv, HeldOpen
<1>5. HeldOpen'
  <2>1. held' \subseteq Accounts \X Markets
    BY <1>4
  <2>2. ASSUME NEW h \in held'
        PROVE  ~is_empty(pos'[h[1]][h[2]])
    BY <1>2, <1>4 DEF is_empty
  <2> QED BY <2>1, <2>2 DEF HeldOpen
<1>6. ASSUME NEW h \in held', h[2] \notin todo'
      PROVE  pos'[h[1]][h[2]].index = accumulator'[h[2]]
  <2>1. CASE h[2] = m
    BY <1>1, <1>2, <1>4, <2>1
  <2>2. CASE h[2] # m
    <3>1. h \in held /\ h[2] \notin todo
      BY <1>1, <1>4, <1>6, <2>2
    <3> QED BY <1>1, <1>2, <1>4, <2>2, <3>1 DEF FundingInv, FundingIndexCurrent
  <2> QED BY <2>1, <2>2
<1>7. TodoIsFunding'
  BY <1>1 DEF TodoIsFunding
<1> QED BY <1>3, <1>5, <1>6, <1>7 DEF FundingInv, FundingIndexCurrent

LEMMA FundingStep ==
    ASSUME FundingInv, [ClearingNext]_clearingVars
    PROVE  FundingInv'
<1>1. ASSUME NEW a \in Accounts, NEW r \in Requests, place_order(a, r)
      PROVE  FundingInv'
  BY <1>1, Unmoved DEF place_order, FundingInv, TodoIsFunding
<1>2. ASSUME NEW a \in Accounts, cancel_order(a)
      PROVE  FundingInv'
  BY <1>2, Unmoved DEF cancel_order, FundingInv, TodoIsFunding
<1>3. ASSUME NEW a \in Accounts, NEW m \in Markets, NEW l \in Leverages, update_leverage(a, m, l)
      PROVE  FundingInv'
  BY <1>3, Unmoved DEF update_leverage, FundingInv, TodoIsFunding
<1>4. ASSUME NEW a \in Accounts, NEW mode, set_margin_mode(a, mode)
      PROVE  FundingInv'
  BY <1>4, Unmoved DEF set_margin_mode, FundingInv, TodoIsFunding
<1>5. ASSUME NEW due \in BOOLEAN, end_block(due)
      PROVE  FundingInv'
  <2>1. CASE due
    <3>1. UNCHANGED <<pos, held>> /\ todo' = Markets /\ pc' = "funding"
      BY <1>5, <2>1 DEF end_block
    <3>2. Shape' /\ HeldOpen' /\ TodoIsFunding'
      BY <3>1 DEF FundingInv, Shape, HeldOpen, TodoIsFunding
    <3>3. \A h \in held' : h[2] \in todo'
      BY <3>1 DEF FundingInv, HeldOpen
    <3> QED BY <3>2, <3>3 DEF FundingInv, FundingIndexCurrent
  <2>2. CASE ~due
    <3>1. UNCHANGED <<pos, held, accumulator>> /\ todo' = {} /\ todo = {}
      BY <1>5, <2>2 DEF end_block, FundingInv, TodoIsFunding
    <3>2. UNCHANGED <<pos, held, accumulator, todo>> /\ TodoIsFunding'
      BY <3>1 DEF TodoIsFunding
    <3> QED BY <3>2, Unmoved
  <2> QED BY <2>1, <2>2
<1>6. CASE find_underwater_accounts
  <2>1. UNCHANGED <<pos, held, accumulator, todo>> /\ todo = {}
    BY <1>6 DEF find_underwater_accounts
  <2>2. TodoIsFunding'
    BY <2>1 DEF TodoIsFunding
  <2> QED BY <2>1, <2>2, Unmoved
<1>7. CASE apply_liquidation
  <2>1. pc = "liquidate" /\ pc' # "funding" /\ UNCHANGED <<accumulator, todo>>
    BY <1>7 DEF apply_liquidation, After
  <2>2. TodoIsFunding'
    BY <2>1 DEF FundingInv, TodoIsFunding
  <2>3. CASE UNCHANGED <<pos, held>>
    BY <2>1, <2>2, <2>3, Unmoved
  <2>4. CASE \E a, m, fill, price : Shrink(a, m, fill, price)
    BY <2>1, <2>4, ShrinkKeeps
  <2>5. UNCHANGED <<pos, held>> \/ \E a, m, fill, price : Shrink(a, m, fill, price)
    BY <1>7 DEF apply_liquidation
  <2> QED BY <2>3, <2>4, <2>5
<1>8. CASE deleverage
  <2>1. pc = "adl" /\ pc' = pc /\ UNCHANGED <<accumulator, todo>>
    BY SMTT(40), <1>8 DEF deleverage
  <2>2. \E a, m, fill, price : Shrink(a, m, fill, price)
    BY <1>8 DEF deleverage
  <2> QED BY SMTT(40), <2>1, <2>2, ShrinkKeeps
<1>9. CASE finish_adl
  <2>1. pc = "adl" /\ pc' # "funding" /\ UNCHANGED <<accumulator, todo>>
    BY <1>9 DEF finish_adl, After
  <2>2. \E a, m, fill, price : Shrink(a, m, fill, price)
    BY <1>9 DEF finish_adl
  <2> QED BY <2>1, <2>2, ShrinkKeeps
<1>10. CASE UNCHANGED clearingVars
  BY <1>10, Unmoved DEF clearingVars, FundingInv, TodoIsFunding
<1> QED
  BY <1>1, <1>2, <1>3, <1>4, <1>5, <1>6, <1>7, <1>8, <1>9, <1>10, TradeKeeps, SettleKeeps
  DEF ClearingNext, BlockStep

-----------------------------------------------------------------------------
\* Every position that process_funding has settled carries its market's
\* accumulator as last_funding_index until it is closed or the next settlement
\* begins, whatever is traded, liquidated or deleveraged in between.
THEOREM FundingOnceAnInterval == ClearingSpec => []FundingIndexCurrent
<1>1. FundingInv /\ [ClearingNext]_clearingVars => FundingInv'
  BY FundingStep
<1>2. FundingInv => FundingIndexCurrent
  BY DEF FundingInv
<1> QED BY FundingInit, <1>1, <1>2, PTL DEF ClearingSpec
=============================================================================
