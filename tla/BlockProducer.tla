---------------------------- MODULE BlockProducer ----------------------------
(***************************************************************************)
(* Block production on one node (chain/src/block_producer.rs) over the     *)
(* Mempool, with the nonce rules of chain/src/state.rs and what a node of  *)
(* node/src/main.rs keeps over a restart.                                  *)
(*                                                                         *)
(* submit_tx checks a transaction against the application and then pushes  *)
(* it into a lock-free queue.  A collector drains the queue into the pool  *)
(* and picks a batch, an executor runs the batch as a block.  In           *)
(* BlockProducer the two are one loop; in PipelinedBlockProducer they are  *)
(* two tasks with a bounded channel between them.                          *)
(*                                                                         *)
(* The gateway of a single node does not submit: it executes transactions  *)
(* on the application itself, between the blocks.                          *)
(***************************************************************************)
EXTENDS Mempool

CONSTANTS
    pipeline_depth,
    max_txs_per_block,
    TIMESTAMP_THRESHOLD,   \* nonces above it are timestamps
    Perp,                  \* transactions that leave orders or positions in the perp engine
    one_hour,              \* validity of a timestamp nonce around the clock
    nonce_window,          \* sequential nonces accepted ahead of the expected
    StartTime, MaxTime,    \* bound: the clock
    MaxSubmissions,        \* bound: transactions that pass check_tx or come to the gateway
    MaxRestarts            \* bound: restarts

ASSUME ProducerAssumption ==
    /\ pipeline_depth \in Nat \ {0} /\ max_txs_per_block \in Nat \ {0}
    /\ Perp \subseteq Hashes
    /\ TIMESTAMP_THRESHOLD \in Nat /\ one_hour \in Nat /\ nonce_window \in Nat
    /\ StartTime \in Nat /\ MaxTime \in Nat /\ StartTime > TIMESTAMP_THRESHOLD
    /\ MaxSubmissions \in Nat /\ MaxRestarts \in Nat

VARIABLES
    now,               \* the clock, in the unit of timestamp nonces
    checked,           \* transactions between check_tx and push
    incoming,          \* SharedMempool.incoming
    collector,         \* "idle", "drain" (with the pool's write lock) or "send"
    picked,            \* the batch the collector is about to send
    channel,           \* batches the executor has not taken yet
    executor,          \* "idle", "execute", "clear", or "dead" after a panic
    batch,             \* the rest of the batch that is being executed
    block_txs,         \* tx_hashes of the block, still to be cleared
    block_time,        \* timestamp of the block
    nonces, last_timestamp_nonces,    \* AppState
    executions,        \* hash -> successful executions in the current state
    persisted,         \* executions of the state the database holds
    saved,             \* history: the last persist_state wrote its batch
    outside,           \* history: executions outside of blocks since then
    submissions, restarts,
    pipelined          \* the node runs PipelinedBlockProducer instead of BlockProducer

clientVars == <<checked, incoming, submissions>>
collectorVars == <<collector, picked, channel>>
executorVars == <<executor, batch, block_txs, block_time>>
appVars == <<nonces, last_timestamp_nonces, executions>>
diskVars == <<persisted, saved, outside>>
vars == <<poolVars, now, clientVars, collectorVars, executorVars, appVars,
          diskVars, restarts, pipelined>>

Zero(S) == [x \in S |-> 0]

Init ==
    /\ MempoolInit
    /\ now = StartTime
    /\ checked = {} /\ incoming = <<>> /\ submissions = 0
    /\ collector = "idle" /\ picked = <<>> /\ channel = <<>>
    /\ executor = "idle" /\ batch = <<>> /\ block_txs = <<>> /\ block_time = StartTime
    /\ nonces = Zero(Senders) /\ last_timestamp_nonces = Zero(Senders)
    /\ executions = Zero(Hashes)
    /\ persisted = executions /\ saved = TRUE /\ outside = executions
    /\ restarts = 0 /\ pipelined \in BOOLEAN

-----------------------------------------------------------------------------
(* AppState::validate_nonce, at a reference time *)

IsTimestamp(h) == Nonce[h] > TIMESTAMP_THRESHOLD

\* Mutant: the last used timestamp is accepted again.
AfterLastTimestamp_OrEqual(h) == Nonce[h] >= last_timestamp_nonces[Sender[h]]

AfterLastTimestamp(h) == Nonce[h] > last_timestamp_nonces[Sender[h]]

\* Mutant: the lower end of the window is not checked.
InNonceWindow_NoFloor(h) == Nonce[h] < nonces[Sender[h]] + nonce_window

InNonceWindow(h) ==
    /\ Nonce[h] >= nonces[Sender[h]]
    /\ Nonce[h] < nonces[Sender[h]] + nonce_window

validate_nonce(h, time) ==
    IF IsTimestamp(h)
    THEN /\ Nonce[h] + one_hour > time
         /\ Nonce[h] < time + one_hour
         /\ AfterLastTimestamp(h)
    ELSE InNonceWindow(h)

-----------------------------------------------------------------------------
(* Clients: BlockProducer::submit_tx, and the gateway *)

\* check_tx under a read lock of the application that is not waited for.
check_tx(h) ==
    /\ submissions < MaxSubmissions
    /\ executor = "idle"
    /\ h \notin checked
    /\ validate_nonce(h, now)
    /\ checked' = checked \cup {h}
    /\ submissions' = submissions + 1
    /\ UNCHANGED <<poolVars, now, incoming, collectorVars, executorVars, appVars,
                   diskVars, restarts, pipelined>>

push(h) ==
    /\ h \in checked
    /\ checked' = checked \ {h}
    /\ incoming' = Append(incoming, h)
    /\ UNCHANGED <<poolVars, now, submissions, collectorVars, executorVars, appVars,
                   diskVars, restarts, pipelined>>

-----------------------------------------------------------------------------
(* Collecting: drain_into_indexed and get_pending *)

\* Without the pipeline the loop collects only when its last block is done.
StartCollect ==
    /\ collector = "idle"
    /\ pipelined \/ (channel = <<>> /\ executor = "idle")
    /\ collector' = "drain"
    /\ UNCHANGED <<poolVars, now, clientVars, picked, channel, executorVars, appVars,
                   diskVars, restarts, pipelined>>

\* An error of add is ignored: the transaction is gone.
DrainOne ==
    /\ collector = "drain"
    /\ incoming # <<>>
    /\ add(Head(incoming))
    /\ incoming' = Tail(incoming)
    /\ UNCHANGED <<invalid, now, checked, submissions, collectorVars, executorVars,
                   appVars, diskVars, restarts, pipelined>>

\* The queue is empty: the lock is released and taken again to read.
Collect ==
    /\ collector = "drain"
    /\ incoming = <<>>
    /\ picked' \in get_pending(max_txs_per_block)
    /\ collector' = "send"
    /\ UNCHANGED <<poolVars, now, clientVars, channel, executorVars, appVars,
                   diskVars, restarts, pipelined>>

HasRoom == Len(channel) < pipeline_depth

\* The batch is sent as soon as the channel has room.
Send ==
    /\ collector = "send"
    /\ HasRoom
    /\ channel' = Append(channel, picked)
    /\ picked' = <<>>
    /\ collector' = "idle"
    /\ UNCHANGED <<poolVars, now, clientVars, executorVars, appVars, diskVars, restarts,
                   pipelined>>

-----------------------------------------------------------------------------
(* Executing: begin_block, execute_tx for every transaction, end_block,     *)
(* commit, and clearing the mempool, under the application's write lock.    *)

BeginBlock ==
    /\ executor = "idle"
    /\ channel # <<>>
    /\ batch' = Head(channel)
    /\ block_txs' = Head(channel)
    /\ channel' = Tail(channel)
    /\ block_time' = now
    /\ executor' = "execute"
    /\ UNCHANGED <<poolVars, now, clientVars, collector, picked, nonces,
                   last_timestamp_nonces, executions, diskVars, restarts, pipelined>>

update_timestamp_nonce(h) ==
    IF IsTimestamp(h) /\ Nonce[h] > last_timestamp_nonces[Sender[h]]
    THEN [last_timestamp_nonces EXCEPT ![Sender[h]] = Nonce[h]]
    ELSE last_timestamp_nonces

\* A transaction whose nonce is refused or whose action fails does not use its
\* nonce; every other one is executed and does.
execute_tx(h, time) ==
    \/ UNCHANGED <<nonces, last_timestamp_nonces, executions>>
    \/ /\ validate_nonce(h, time)
       /\ nonces' = [nonces EXCEPT ![Sender[h]] = @ + 1]
       /\ last_timestamp_nonces' = update_timestamp_nonce(h)
       /\ executions' = [executions EXCEPT ![h] = @ + 1]

\* A thread of a single node's gateway, between two blocks: the application's
\* write lock and execute_tx, without the mempool.
ExecuteDirect(h) ==
    /\ ~pipelined
    /\ executor \in {"idle", "dead"}
    /\ submissions < MaxSubmissions
    /\ execute_tx(h, now)
    /\ executions' # executions
    /\ outside' = [outside EXCEPT ![h] = @ + 1]
    /\ submissions' = submissions + 1
    /\ UNCHANGED <<poolVars, now, checked, incoming, collectorVars, executorVars,
                   persisted, saved, restarts, pipelined>>

ExecuteNext ==
    /\ executor = "execute"
    /\ batch # <<>>
    /\ execute_tx(Head(batch), block_time)
    /\ batch' = Tail(batch)
    /\ UNCHANGED <<poolVars, now, clientVars, collectorVars, executor, block_txs,
                   block_time, diskVars, restarts, pipelined>>

Commit ==
    /\ executor = "execute"
    /\ batch = <<>>
    /\ executor' = "clear"
    /\ UNCHANGED <<poolVars, now, clientVars, collectorVars, batch, block_txs,
                   block_time, appVars, diskVars, restarts, pipelined>>

\* The transactions of the block leave the pool one by one, each with the
\* pool's write lock, which a draining collector holds.
ClearNext ==
    /\ executor = "clear"
    /\ block_txs # <<>>
    /\ collector # "drain"
    /\ RemoveIfKnown(Head(block_txs))
    /\ block_txs' = Tail(block_txs)
    /\ UNCHANGED <<invalid, now, clientVars, collectorVars, executor, batch,
                   block_time, appVars, diskVars, restarts, pipelined>>

\* Mutant: the handler does not run.
AfterCommit_NoHandler == persisted

\* The post-commit handler writes the state as one batch, all but the perp
\* engine, which it is not given; the pipeline has no handler.
AfterCommit ==
    IF pipelined THEN persisted
    ELSE [h \in Hashes |-> IF h \in Perp THEN persisted[h] ELSE executions[h]]

\* An error of persist_state is logged and the next block is produced.  A request
\* or the price task that holds the lock of an engine at that moment lets
\* extract_state panic, which ends the task.
FinishBlock ==
    /\ executor = "clear"
    /\ block_txs = <<>>
    /\ \/ persisted' = AfterCommit /\ saved' = TRUE /\ outside' = Zero(Hashes)
          /\ executor' = "idle"
       \/ ~pipelined /\ saved' = FALSE /\ UNCHANGED <<persisted, outside>>
          /\ executor' \in {"idle", "dead"}
    /\ UNCHANGED <<poolVars, now, clientVars, collectorVars, batch, block_txs,
                   block_time, appVars, restarts, pipelined>>

-----------------------------------------------------------------------------

\* Time passes.
Tick ==
    /\ now < MaxTime
    /\ now' = now + 1
    /\ UNCHANGED <<poolVars, clientVars, collectorVars, executorVars, appVars,
                   diskVars, restarts, pipelined>>

\* The process dies and starts again: main restores the balances and the
\* engines and gives the block producer a new application, whose
\* nonces are those of an empty chain.
Restart ==
    /\ ~pipelined
    /\ restarts < MaxRestarts
    /\ restarts' = restarts + 1
    /\ txs' = {} /\ by_account' = [a \in Senders |-> NoNonces]
    /\ by_time' = <<>> /\ invalid' = {}
    /\ checked' = {} /\ incoming' = <<>>
    /\ collector' = "idle" /\ picked' = <<>> /\ channel' = <<>>
    /\ executor' = "idle" /\ batch' = <<>> /\ block_txs' = <<>>
    /\ nonces' = Zero(Senders) /\ last_timestamp_nonces' = Zero(Senders)
    /\ executions' = persisted /\ saved' = TRUE /\ outside' = Zero(Hashes)
    /\ UNCHANGED <<now, block_time, submissions, persisted, pipelined>>

ProducerStep ==
    \/ DrainOne \/ Collect \/ Send
    \/ BeginBlock \/ ExecuteNext \/ Commit \/ ClearNext \/ FinishBlock

Next ==
    \/ \E h \in Hashes : check_tx(h) \/ push(h) \/ ExecuteDirect(h)
    \/ StartCollect
    \/ ProducerStep
    \/ Tick
    \/ Restart

Spec == Init /\ [][Next]_vars

\* The interval timer fires again and again and the two tasks keep running.
FairSpec ==
    /\ Spec
    /\ WF_vars(StartCollect)
    /\ WF_vars(DrainOne \/ Collect \/ Send)
    /\ WF_vars(BeginBlock \/ ExecuteNext \/ Commit \/ ClearNext \/ FinishBlock)
    /\ WF_vars(\E h \in Hashes : push(h))

-----------------------------------------------------------------------------
(* Properties *)

\* Every variable keeps its type, and the channel never holds more batches than
\* its depth nor a batch more transactions than a block may have.
TypeOK ==
    /\ MempoolTypeOK
    /\ now \in Nat /\ block_time \in Nat
    /\ checked \subseteq Hashes
    /\ incoming \in Seq(Hashes)
    /\ collector \in {"idle", "drain", "send"}
    /\ executor \in {"idle", "execute", "clear", "dead"}
    /\ picked \in Seq(Hashes) /\ Len(picked) <= max_txs_per_block
    /\ channel \in Seq(Seq(Hashes)) /\ Len(channel) <= pipeline_depth
    /\ batch \in Seq(Hashes) /\ block_txs \in Seq(Hashes)
    /\ nonces \in [Senders -> Nat] /\ last_timestamp_nonces \in [Senders -> Nat]
    /\ executions \in [Hashes -> Nat] /\ persisted \in [Hashes -> Nat]
    /\ outside \in [Hashes -> Nat] /\ saved \in BOOLEAN /\ pipelined \in BOOLEAN
    /\ submissions \in 0..MaxSubmissions /\ restarts \in 0..MaxRestarts

\* A transaction with a timestamp nonce is executed at most once, however
\* often it is submitted, however many batches it is collected into and whatever
\* the gateway executes beside the blocks, as long as the process is not
\* restarted.
TimestampOnce ==
    restarts = 0 => \A h \in Hashes : IsTimestamp(h) => executions[h] <= 1

\* A transaction with a sequential nonce n is executed at most n + 1 times:
\* the window accepts a nonce before its turn, and each execution of the
\* account brings its expected nonce nearer.
SequentialBounded ==
    restarts = 0 => \A h \in Hashes : ~IsTimestamp(h) => executions[h] <= Nonce[h] + 1

\* What I6 of docs/SECURITY.md says: each nonce is used at most once per account.
\* The window refutes it.
NonceUsedOnce ==
    restarts = 0 => \A h \in Hashes : executions[h] <= 1

\* On a single node whose last write succeeded, a crash between two blocks loses
\* of the parts that are written only what the gateway executed since the last
\* block, and one good write makes up for any number of failed ones.
DurableBetweenBlocks ==
    ~pipelined /\ executor = "idle" /\ saved =>
        \A h \in Hashes \ Perp : executions[h] = persisted[h] + outside[h]

\* A transaction in the account index does not stay there for ever: it is taken
\* into a block or makes room for another one, unless a panic ends production.
IndexedIsTaken == \A h \in Hashes : Indexed(h) ~> (~Indexed(h) \/ executor = "dead")
=============================================================================
