---------------------------------- MODULE Evm ----------------------------------
(***************************************************************************)
(* The EVM of evm/src/executor.rs over the state of evm/src/state.rs.  The *)
(* balances are those of the unified sheet's EVM view, and the EVM keeps   *)
(* the nonces beside them; an address the EVM has never written has no     *)
(* account there.                                                          *)
(*                                                                         *)
(* The operators take the node's state as a record s, of which they read   *)
(* and change the fields evm (balances), accounts (the addresses with an   *)
(* account) and evm_nonces.  revm itself is external: a transaction is a   *)
(* transfer of a value, or creates a contract whose constructor destroys   *)
(* it in favour of the sender.  Gas fees of the node's own are not         *)
(* enforced, which is the default; revm charges its gas all the same.      *)
(***************************************************************************)
EXTENDS Integers

CONSTANTS
    Precompile,          \* the address of a HyperCore precompile
    Create,              \* no address: the transaction creates a contract
    Contract,            \* the address of the contract it creates
    FEE_COLLECTOR,       \* the block's coinbase
    FAUCET,              \* what an unknown sender starts with
    BASEFEE,             \* the price of gas that nobody gets
    GasLimit, GasUsed    \* a transaction's limit, and what one that succeeds uses

ASSUME EvmAssumption ==
    /\ FAUCET \in Nat /\ BASEFEE \in Nat
    /\ GasLimit \in Nat /\ GasUsed \in 0..GasLimit

\* EvmState::set_balance: the difference is credited to or debited from the
\* sheet, and the address gets an account.
set_balance(s, a, n) == [s EXCEPT !.evm[a] = n, !.accounts = @ \cup {a}]

\* The mutant forgets that only a committed transaction may create accounts.
EnsureSender_Always(s, a, commit) == IF a \in s.accounts THEN s ELSE set_balance(s, a, FAUCET)

\* A sender without an account is given one and the faucet's balance.
EnsureSender(s, a, commit) ==
    IF a \in s.accounts \/ ~commit THEN s ELSE set_balance(s, a, FAUCET)

-----------------------------------------------------------------------------
(* revm *)

Positive(n) == IF n > 0 THEN n ELSE 0

\* transact_preverified compares nothing: the whole limit is debited, down to
\* zero if there is less.
Charged(evm, t) == [evm EXCEPT ![t.from] = Positive(@ - GasLimit * t.price)]

\* A value that is then not there halts the transaction, which uses up its gas.
Halts(evm, t) == t.value > Charged(evm, t)[t.from]

\* A contract that destroys itself while it is created returns the value, with
\* whatever its address held.
Transferred(evm, t) ==
    LET paid == Charged(evm, t)
    IN  IF Halts(evm, t) THEN paid
        ELSE IF t.to = Create THEN [paid EXCEPT ![t.from] = @ + evm[Contract]]
        ELSE [[paid EXCEPT ![t.from] = @ - t.value] EXCEPT ![t.to] = @ + t.value]

\* The gas left over is paid back, whether or not it could be debited, and the
\* coinbase gets the price above the base fee.
Outcome(evm, t) ==
    LET used == IF Halts(evm, t) THEN GasLimit ELSE GasUsed
        back == [Transferred(evm, t) EXCEPT ![t.from] = @ + (GasLimit - used) * t.price]
    IN  [back EXCEPT ![FEE_COLLECTOR] = @ + used * Positive(t.price - BASEFEE)]

\* The accounts revm has loaded, but for a destroyed one.
Touched(t) == {t.from, FEE_COLLECTOR, t.to} \ {Create}

-----------------------------------------------------------------------------

\* HyperEvmDb::commit: every loaded account is written with the balance that
\* revm has worked out from the one it loaded; of a destroyed contract only the
\* account goes, and the sheet keeps its balance.
db_commit(s, t, loaded) ==
    LET new == Outcome(loaded, t)
        created == t.to = Create /\ ~Halts(loaded, t)
    IN  [s EXCEPT
           !.evm = [a \in DOMAIN s.evm |-> IF a \in Touched(t) THEN new[a] ELSE s.evm[a]],
           !.accounts = (@ \cup Touched(t)) \ (IF created THEN {Contract} ELSE {}),
           !.evm_nonces = IF t.to = Create /\ ~created THEN @
                           ELSE [s.evm_nonces EXCEPT ![t.from] = s.evm_nonces[t.from] + 1]]

\* execute_tx_inner up to where revm has loaded what it needs, and from there:
\* a precompile is answered before anything is created, and a simulation
\* commits nothing.
Prepared(s, t, commit) == IF t.to = Precompile THEN s ELSE EnsureSender(s, t.from, commit)
Committed(s, t, loaded) == IF t.to = Precompile THEN s ELSE db_commit(s, t, loaded)

execute_tx_inner(s, t, commit) ==
    LET ready == Prepared(s, t, commit)
    IN  IF commit THEN Committed(ready, t, ready.evm) ELSE ready

\* Whether the caller gets a result; a halt is an error although it has been
\* committed.
Answers(t, loaded) == t.to = Precompile \/ ~Halts(loaded, t)
================================================================================
