----------------------------- MODULE NodeWorld -------------------------------
(***************************************************************************)
(* What the execution trace of a node proves about its token ledger and    *)
(* its products: the state manager with the execution engine after         *)
(* register_supply_chain_handlers, for any accounts and products.          *)
(***************************************************************************)
EXTENDS StateManager, FiniteSets, FiniteSetsExt, Values

CONSTANTS Account, Product, Place, Party, Check, Reason

Engine == INSTANCE RegisteredHandlers

ASSUME NodeWorldConstants ==
    /\ Tx \subseteq Engine!WorldTx(Int)
    /\ None \notin Reason
    /\ \A s \in ResetStates :
          /\ s = [has_balances |-> s.has_balances, balances |-> s.balances,
                  products |-> s.products]
          /\ s.has_balances \in BOOLEAN
          /\ IsFiniteSet(DOMAIN s.balances)
          /\ DOMAIN s.balances \subseteq Account
          /\ s.balances \in [DOMAIN s.balances -> Nat]
          /\ DOMAIN s.products \subseteq Product
          /\ s.products = Engine!Chain!make_initial_state(DOMAIN s.products)

\* The engine of the state manager is the one with all handlers.
AllRegistered ==
    \A world \in Engine!WorldState, tx \in Tx :
        Execute(world, tx) = Engine!execute_registered(world, tx)

-----------------------------------------------------------------------------
(* The token ledger                                                         *)

Total(balances) == SumFunction(balances)

\* The sum of the amounts of the applied transactions of one type.
Moved(type) ==
    SumFunction([i \in {k \in DOMAIN trace : trace[k].tx.type = type} |-> trace[i].tx.amount])

\* The diff of a trace entry says everything the transaction changed:
\* overwriting the old balances with it gives the new state, new accounts
\* included (no handler creates an account with a balance of zero).
DiffExplains(entry) ==
    LET old  == entry.old_hash.balances
        new  == entry.new_hash.balances
        diff == Engine!_compute_diff(old, new)
    IN  new = [a \in DOMAIN old \cup DOMAIN diff |->
                  IF a \in DOMAIN diff THEN diff[a][2] ELSE old[a]]

\* Tokens are neither lost nor created: whatever sequence of transfers (to
\* oneself included), mints, burns and rejected transactions ran, the supply
\* is that of the last reset plus what was minted minus what was burnt, no
\* account is overdrawn, and the diffs of the trace show how it came about.
SupplyConserved ==
    /\ Total(state.balances) = Total(base.balances) + Moved("mint") - Moved("burn")
    /\ \A a \in DOMAIN state.balances : state.balances[a] >= 0
    /\ \A i \in DOMAIN trace : DiffExplains(trace[i])

-----------------------------------------------------------------------------
(* The supply chain                                                         *)

\* The entries of the trace about product p of one of the given types.
Entries(p, types) ==
    {i \in DOMAIN trace : trace[i].tx.type \in types /\ trace[i].tx.product = p}

\* Custody is provable from the trace: the owner of a product is the party
\* of the last ship or receive that a node executed for it, its location is
\* the destination of the last ship, and it is delivered only by a receive
\* that comes right after a ship among its movements, whatever quarantines,
\* releases, inspections and rejected transactions happened in between.
CustodyFollowsTrace ==
    \A p \in DOMAIN state.products :
        LET product == state.products[p]
            moves   == Entries(p, {"ship", "receive"})
            ships   == Entries(p, {"ship"})
        IN  /\ product.owner =
                  IF moves = {} THEN base.products[p].owner
                  ELSE LET tx == trace[Max(moves)].tx
                       IN  IF tx.type = "ship" THEN tx.shipper ELSE tx.receiver
            /\ product.location =
                  IF ships = {} THEN base.products[p].location
                  ELSE trace[Max(ships)].tx.destination
            /\ product.status = "delivered" =>
                  /\ Cardinality(moves) >= 2
                  /\ trace[Max(moves)].tx.type = "receive"
                  /\ trace[Max(moves \ {Max(moves)})].tx.type = "ship"

\* A quarantine is lifted only by a release: a product is quarantined, and
\* has a reason, exactly when the last quarantine or release executed for
\* it was a quarantine, so no ship or receive slips a product past it.
QuarantineHolds ==
    \A p \in DOMAIN state.products :
        LET q == Entries(p, {"quarantine", "release"})
            held == q # {} /\ trace[Max(q)].tx.type = "quarantine"
        IN  /\ held <=> state.products[p].status = "quarantined"
            /\ held <=> state.products[p].quarantine_reason # None
=============================================================================
