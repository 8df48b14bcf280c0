--------------------------- MODULE ExecutionEngine ---------------------------
(***************************************************************************)
(* The built-in token ledger of ecn/execution_engine.py: execute and its   *)
(* three handlers, as functions from a state and a transaction to a state  *)
(* or Error (the code raises).  A state is its "balances": a function from *)
(* the accounts that exist to their balances.                              *)
(***************************************************************************)
EXTENDS Integers

CONSTANTS Account, Error

\* {"balances": ...} over some of the accounts.
LedgerState == UNION {[A -> Nat] : A \in SUBSET Account}

\* Transactions, after the cast int(tx["amount"]); a field that a handler
\* does not read is there all the same.
LedgerTx(Amount) ==
    [type : {"transfer", "mint", "burn", "unknown"},
     from : Account, to : Account, amount : Amount]

\* Mutant: both new balances are computed from the old ones.
_handle_transfer_Stale(balances, tx) ==
    IF /\ tx.amount > 0
       /\ {tx.from, tx.to} \subseteq DOMAIN balances
       /\ balances[tx.from] >= tx.amount
    THEN [balances EXCEPT ![tx.from] = balances[tx.from] - tx.amount,
                          ![tx.to]   = balances[tx.to] + tx.amount]
    ELSE Error

\* Both accounts must exist and the sender must have the amount.
_handle_transfer(balances, tx) ==
    IF /\ tx.amount > 0
       /\ {tx.from, tx.to} \subseteq DOMAIN balances
       /\ balances[tx.from] >= tx.amount
    THEN LET debited == [balances EXCEPT ![tx.from] = @ - tx.amount]
         IN  [debited EXCEPT ![tx.to] = @ + tx.amount]
    ELSE Error

\* Minting creates the account when it does not exist.
_handle_mint(balances, tx) ==
    IF tx.amount > 0
    THEN [a \in DOMAIN balances \cup {tx.to} |->
            (IF a \in DOMAIN balances THEN balances[a] ELSE 0)
            + (IF a = tx.to THEN tx.amount ELSE 0)]
    ELSE Error

\* The account must exist and have the amount.
_handle_burn(balances, tx) ==
    IF /\ tx.amount > 0
       /\ tx.from \in DOMAIN balances
       /\ balances[tx.from] >= tx.amount
    THEN [balances EXCEPT ![tx.from] = @ - tx.amount]
    ELSE Error

\* Dispatch over the registry _HANDLERS.
execute(balances, tx) ==
    CASE tx.type = "transfer" -> _handle_transfer(balances, tx)
      [] tx.type = "mint"     -> _handle_mint(balances, tx)
      [] tx.type = "burn"     -> _handle_burn(balances, tx)
      [] OTHER                -> Error

\* _compute_diff of the state manager: the accounts whose balance changed,
\* with the old and the new balance (0 when the account does not exist).
Balance(balances, a) == IF a \in DOMAIN balances THEN balances[a] ELSE 0
_compute_diff(old, new) ==
    [a \in {b \in DOMAIN old \cup DOMAIN new : Balance(old, b) # Balance(new, b)} |->
        <<Balance(old, a), Balance(new, a)>>]
=============================================================================
