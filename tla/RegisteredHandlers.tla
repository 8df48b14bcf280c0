-------------------------- MODULE RegisteredHandlers -------------------------
(***************************************************************************)
(* The execution engine after register_supply_chain_handlers: one registry *)
(* of handlers, and one world state.  It may lack "balances": the state of *)
(* the service has only "products", and the built-in handlers raise there. *)
(* "products" that are absent are empty: the handlers of the supply chain  *)
(* look them up with get.                                                  *)
(***************************************************************************)
EXTENDS ExecutionEngine

CONSTANTS Product, Place, Party, Check, Reason, None

Chain == INSTANCE SupplyChain

WorldState ==
    [has_balances : BOOLEAN, balances : LedgerState, products : Chain!ChainState]

\* Transactions of all registered types, and of one that is not registered.
WorldTx(Amount) == LedgerTx(Amount) \cup Chain!ChainTx

\* Dispatch; a handler that raises leaves the world as it is, one that does
\* not changes only its part of it.  Without balances every transaction of
\* the token ledger raises, a mint too.
execute_registered(world, tx) ==
    IF tx.type \in Chain!Registered
    THEN LET products == Chain!handle(world.products, tx)
         IN  IF products = Error THEN Error ELSE [world EXCEPT !.products = products]
    ELSE LET balances == execute(world.balances, tx)
         IN  IF ~world.has_balances \/ balances = Error THEN Error ELSE [world EXCEPT !.balances = balances]
=============================================================================
