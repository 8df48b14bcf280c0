------------------------------- MODULE MCNode -------------------------------
(* A node's state manager with all handlers registered: two accounts at the *)
(* start and a third that only a mint creates, one product that exists and  *)
(* one that does not.  The manager is also reset to the default of reset()  *)
(* and to the state of the service, which has no balances.                  *)
EXTENDS NodeWorld

CONSTANTS A, B, C, p1, p2, bob,
          MaxBalance   \* no history of MaxTrace transactions reaches it

MCAccount == {A, B, C}
MCProduct == {p1, p2}

MCExecute(w, tx) == Engine!execute_registered(w, tx)

MCResetStates ==
    {[has_balances |-> TRUE,
      balances |-> [a \in {A, B} |-> IF a = A THEN 2 ELSE 0],
      products |-> Engine!Chain!make_initial_state({p1})],
     [has_balances |-> TRUE, balances |-> <<>>, products |-> <<>>],
     [has_balances |-> FALSE, balances |-> <<>>,
      products |-> Engine!Chain!make_initial_state({p1})]}
MCState ==
    [has_balances : BOOLEAN,
     balances : UNION {[S -> 0 .. MaxBalance] : S \in SUBSET {A, B, C}},
     products : Engine!Chain!ChainState]

\* A mint names no sender and a burn no receiver; the product that does not
\* exist is released, goods reach customs or ann in the shop.
MCTx == {tx \in Engine!WorldTx({0, 1, 2}) :
            /\ tx.type \in {"mint", "unknown"} => tx.from = A
            /\ tx.type \in {"burn", "unknown"} => tx.to = A
            /\ tx.type = "unknown" => tx.amount = 1
            /\ tx.type \in {"transfer", "burn"} => tx.amount # 0
            /\ tx.type = "transfer" => tx.from # B
            /\ tx.type = "mint" => tx.to # B
            /\ tx.type \in {"ship", "receive", "inspect", "quarantine"} => tx.product = p1
            /\ tx.type = "receive" => (tx.at_customs <=> tx.receiver = bob)}
=============================================================================
