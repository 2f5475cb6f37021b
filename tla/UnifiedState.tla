---------------------------- MODULE UnifiedState ----------------------------
(***************************************************************************)
(* The master balance sheet (primitives/src/unified_state.rs): one record  *)
(* per (user, token) holding the total and its split into the part that    *)
(* HyperCore trades with (core_view) and the part that HyperEVM sees       *)
(* (evm_view).  It is shared by the spot engine, the perp engine, the EVM  *)
(* and the chain application behind one RwLock, so each operator below is  *)
(* one critical section.                                                   *)
(*                                                                         *)
(* The sheet is a function from the keys that have an entry: an operation  *)
(* on a missing entry is not the same as one on an entry holding zero.     *)
(* Amounts are raw integers, an i128 in the code: no operation asks for a   *)
(* positive one, so a negative amount passes the tests of the debits.      *)
(***************************************************************************)
EXTENDS Integers, FiniteSets

CONSTANTS Accounts, Tokens

ASSUME AccountsAssumption == IsFiniteSet(Accounts)

Keys == Accounts \X Tokens

UnifiedBalance == [total : Int, core_view : Int, evm_view : Int]

IsBalanceSheet(b) == DOMAIN b \subseteq Keys /\ b \in [DOMAIN b -> UnifiedBalance]

Views(total, core, evm) == [total |-> total, core_view |-> core, evm_view |-> evm]

ZeroBalance == Views(0, 0, 0)

get_balance_or_default(b, k) == IF k \in DOMAIN b THEN b[k] ELSE ZeroBalance

get_core_view(b, k) == get_balance_or_default(b, k).core_view

get_evm_view(b, k) == get_balance_or_default(b, k).evm_view

\* HashMap::insert: the entry of k becomes v, whether it existed or not.
Insert(b, k, v) == [x \in DOMAIN b \cup {k} |-> IF x = k THEN v ELSE b[x]]

\* The entry with its total and core view moved by the same amount.
AddCore(e, amount) ==
    Views(e.total + amount, e.core_view + amount, e.evm_view)

AddEvm(e, amount) ==
    Views(e.total + amount, e.core_view, e.evm_view + amount)

credit(b, k, amount) ==
    Insert(b, k, AddCore(get_balance_or_default(b, k), amount))

credit_evm(b, k, amount) ==
    Insert(b, k, AddEvm(get_balance_or_default(b, k), amount))

\* The condition under which debit_core returns true; it changes nothing
\* otherwise.
CanDebitCore(b, k, amount) == k \in DOMAIN b /\ b[k].core_view >= amount

\* Mutant: the core view pays and the total does not.
debit_core_KeepsTotal(b, k, amount) ==
    Insert(b, k, Views(b[k].total, b[k].core_view - amount, b[k].evm_view))

debit_core(b, k, amount) == Insert(b, k, AddCore(b[k], -amount))

CanDebitEvm(b, k, amount) == k \in DOMAIN b /\ b[k].evm_view >= amount

debit_evm(b, k, amount) == Insert(b, k, AddEvm(b[k], -amount))

\* Mutant: the EVM view gains and the core view does not pay.
MoveToEvm_NoDebit(e, amount) == Views(e.total, e.core_view, e.evm_view + amount)

\* View adjustments: the total stays, the two views trade an amount.
MoveToEvm(e, amount) == Views(e.total, e.core_view - amount, e.evm_view + amount)

transfer_to_evm_view(b, k, amount) == Insert(b, k, MoveToEvm(b[k], amount))

transfer_to_core_view(b, k, amount) == Insert(b, k, MoveToEvm(b[k], -amount))

\* The caller has checked get_core_view(b, from) >= amount; sender first, so a
\* transfer to oneself is the identity.
transfer_core(b, from, to, amount) ==
    LET debited == IF from \in DOMAIN b
                   THEN Insert(b, from, AddCore(b[from], -amount))
                   ELSE b
    IN  credit(debited, to, amount)

\* UnifiedBalance::is_valid of every entry, as verify_invariants does.
verify_invariants(b) ==
    \A k \in DOMAIN b : b[k].total = b[k].core_view + b[k].evm_view
=============================================================================
