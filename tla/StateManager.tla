---------------------------- MODULE StateManager -----------------------------
(***************************************************************************)
(* The world state of one node and its execution trace,                    *)
(* ecn/state_manager.py, for any execution engine.                         *)
(*                                                                         *)
(* SHA-256 over canonical JSON is collision-free here: a state stands for  *)
(* its hash, so old_hash and new_hash of a trace entry are the states      *)
(* themselves.                                                             *)
(***************************************************************************)
EXTENDS Integers, Sequences

CONSTANTS
    State,          \* the world states (a bounded set in a TLC instance)
    Tx,             \* the transactions clients submit
    ResetStates,    \* the states a manager is created with or reset to
    Execute(_, _),  \* the execution engine; Error when it raises
    Error,
    MaxTrace        \* bound: transactions applied since the last reset

ASSUME ManagerConstants ==
    /\ ResetStates \subseteq State
    /\ Error \notin State
    /\ MaxTrace \in Nat

VARIABLES
    state,    \* self._state
    trace,    \* self._trace
    base      \* the state of the last reset (or of __init__)

manager_vars == <<state, trace, base>>

\* An entry of the trace; the diff is a function of the two hashes.
TraceEntry == [tx : Tx, old_hash : State, new_hash : State]

ManagerInit ==
    /\ state \in ResetStates
    /\ trace = <<>>
    /\ base = state

\* Mutant: old_hash is taken after the new state is assigned.
ApplyTransaction_HashLate(tx) ==
    /\ Len(trace) < MaxTrace
    /\ Execute(state, tx) # Error
    /\ state' = Execute(state, tx)
    /\ trace' = Append(trace, [tx |-> tx, old_hash |-> state', new_hash |-> state'])
    /\ UNCHANGED base

\* apply_transaction when the engine accepts tx.
ApplyTransaction(tx) ==
    /\ Len(trace) < MaxTrace
    /\ Execute(state, tx) # Error
    /\ state' = Execute(state, tx)
    /\ trace' = Append(trace, [tx |-> tx, old_hash |-> state, new_hash |-> state'])
    /\ UNCHANGED base

\* apply_transaction when the engine raises: nothing has been assigned yet.
RejectTransaction(tx) ==
    /\ Execute(state, tx) = Error
    /\ UNCHANGED manager_vars

\* reset(new_state): the trace is cleared with the state.
Reset(s) ==
    /\ state' = s
    /\ trace' = <<>>
    /\ base' = s

ManagerNext ==
    \/ \E tx \in Tx : ApplyTransaction(tx) \/ RejectTransaction(tx)
    \/ \E s \in ResetStates : Reset(s)

ManagerSpec == ManagerInit /\ [][ManagerNext]_manager_vars

-----------------------------------------------------------------------------
(* Properties                                                              *)

ManagerTypeOK ==
    /\ state \in State
    /\ trace \in Seq(TraceEntry)
    /\ base \in State

\* The trace replays: it starts at the state of the last reset, every entry
\* starts where the one before it ended and is what the engine computes for
\* its transaction, and the last one ends in the current state.  This is
\* what lets an auditor re-execute a node's history.
TraceReplays ==
    /\ state = IF trace = <<>> THEN base ELSE trace[Len(trace)].new_hash
    /\ \A i \in 1 .. Len(trace) :
          /\ trace[i].old_hash = IF i = 1 THEN base ELSE trace[i - 1].new_hash
          /\ trace[i].new_hash = Execute(trace[i].old_hash, trace[i].tx)
=============================================================================
