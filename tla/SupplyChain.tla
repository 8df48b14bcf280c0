----------------------------- MODULE SupplyChain -----------------------------
(***************************************************************************)
(* The supply-chain use case, ecn/use_cases/supply_chain.py: the handlers  *)
(* it registers with the execution engine.  A state is its "products"; the *)
(* sorted list of checks is a set, and an absent quarantine_reason is None.*)
(***************************************************************************)
EXTENDS Integers

CONSTANTS Product, Place, Party, Check, Reason, None, Error

Status == {"manufactured", "in_transit", "at_customs", "quarantined", "delivered"}

ProductRecord ==
    [status : Status, location : Place \cup {"factory"},
     owner : Party \cup {"manufacturer"}, checks : SUBSET Check,
     quarantine_reason : Reason \cup {None}]

ChainState == UNION {[P -> ProductRecord] : P \in SUBSET Product}

ChainTx ==
         [type : {"ship"}, product : Product, destination : Place, shipper : Party]
    \cup [type : {"receive"}, product : Product, receiver : Party, at_customs : BOOLEAN]
    \cup [type : {"inspect"}, product : Product, check : Check]
    \cup [type : {"quarantine"}, product : Product, reason : Reason]
    \cup [type : {"release"}, product : Product]

\* make_initial_state: freshly manufactured products.
make_initial_state(product_ids) ==
    [p \in product_ids |->
        [status |-> "manufactured", location |-> "factory", owner |-> "manufacturer",
         checks |-> {}, quarantine_reason |-> None]]

\* Mutant: a quarantined product can be shipped.
_handle_ship_Quarantined(products, tx) ==
    IF products[tx.product].status # "in_transit"
    THEN [products EXCEPT ![tx.product].status   = "in_transit",
                          ![tx.product].location = tx.destination,
                          ![tx.product].owner    = tx.shipper]
    ELSE Error

_handle_ship(products, tx) ==
    IF products[tx.product].status \notin {"in_transit", "quarantined"}
    THEN [products EXCEPT ![tx.product].status   = "in_transit",
                          ![tx.product].location = tx.destination,
                          ![tx.product].owner    = tx.shipper]
    ELSE Error

\* Mutant: customs does not become the owner.
_handle_receive_CustomsNotOwner(products, tx) ==
    IF products[tx.product].status = "in_transit"
    THEN [products EXCEPT
            ![tx.product].status = IF tx.at_customs THEN "at_customs" ELSE "delivered",
            ![tx.product].owner  = IF tx.at_customs THEN @ ELSE tx.receiver]
    ELSE Error

_handle_receive(products, tx) ==
    IF products[tx.product].status = "in_transit"
    THEN [products EXCEPT
            ![tx.product].status = IF tx.at_customs THEN "at_customs" ELSE "delivered",
            ![tx.product].owner  = tx.receiver]
    ELSE Error

_handle_inspect(products, tx) ==
    [products EXCEPT ![tx.product].checks = @ \cup {tx.check}]

_handle_quarantine(products, tx) ==
    IF products[tx.product].status # "quarantined"
    THEN [products EXCEPT ![tx.product].status = "quarantined",
                          ![tx.product].quarantine_reason = tx.reason]
    ELSE Error

\* A released product goes to customs, wherever it was quarantined.
_handle_release(products, tx) ==
    IF products[tx.product].status = "quarantined"
    THEN [products EXCEPT ![tx.product].status = "at_customs",
                          ![tx.product].quarantine_reason = None]
    ELSE Error

\* register_supply_chain_handlers: the types with a handler.
Registered == {"ship", "receive", "inspect", "quarantine", "release"}

\* The handler registered for the type of tx; _get_product refuses an
\* unknown product.
handle(products, tx) ==
    IF tx.product \notin DOMAIN products
    THEN Error
    ELSE CASE tx.type = "ship"       -> _handle_ship(products, tx)
           [] tx.type = "receive"    -> _handle_receive(products, tx)
           [] tx.type = "inspect"    -> _handle_inspect(products, tx)
           [] tx.type = "quarantine" -> _handle_quarantine(products, tx)
           [] tx.type = "release"    -> _handle_release(products, tx)
=============================================================================
