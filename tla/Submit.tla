------------------------------- MODULE Submit --------------------------------
(***************************************************************************)
(* The life of a transaction through the API: submit_transaction of        *)
(* ecn/api.py with the transaction records (ecn/transaction.py), the audit *)
(* log (ecn/audit.py), usage counter, ledger and SLA statistics            *)
(* (ecn/billing.py), the SQLite stores (ecn/persistence.py) and the        *)
(* restart of the service from them.                                       *)
(*                                                                         *)
(* The service is one asyncio event loop: a handler holds it ("running")   *)
(* except while it awaits the broadcast, so handlers of several requests   *)
(* interleave only there.  But each store write is a commit of its own:    *)
(* any of them may raise, and the process may die between any two, which   *)
(* is why a step here is one write.  A write to memory and the store write *)
(* behind it are one step, because nothing else can run in between and a   *)
(* crash loses the memory.                                                 *)
(*                                                                         *)
(* What a broadcast answers is any round of signed results (P2PNetwork     *)
(* models how they come about).  Durations, timestamps and fault_count are *)
(* stored and read by nobody; an amount is in units of the tier's price.   *)
(***************************************************************************)
EXTENDS Consensus, Sequences

CONSTANTS
    Request,      \* requests to submit a transaction; names its tx_id too
    MaxFailures,  \* bound: store writes that raise
    MaxCrashes    \* bound: crashes (or restarts) of the service

ASSUME SubmitConstants ==
    /\ None \notin Request
    /\ MaxFailures \in Nat
    /\ MaxCrashes \in Nat

VARIABLES
    \* in memory
    running,       \* the request whose handler holds the event loop, or None
    pc,            \* pc[r]: what the handler of r does next
    local,         \* local[r]: results, cr and event of the handler of r
    _tx_store,     \* the transaction records
    _events,       \* the audit log
    _sla,          \* SLA statistics
    _event_bus,    \* events published to the stream, and handed to webhooks
    \* in the database
    transactions, audit_events, billing_usage, billing_ledger,
    \* history
    response,      \* response[r]: the HTTP answer
    round,         \* round[r]: the event that r's own broadcast recorded
    failures, crashes

memory   == <<running, pc, local, _tx_store, _events, _sla, _event_bus>>
database == <<transactions, audit_events, billing_usage, billing_ledger>>
history  == <<response, round, failures, crashes>>
vars     == <<memory, database, history>>

-----------------------------------------------------------------------------
(* Records                                                                 *)

\* The seven states of a transaction and their order, the only one that
\* _VALID_TRANSITIONS allows: transition never raises here.
TxState == {"INITIATED", "EXECUTING", "PROPOSED", "CONSENSUS_PENDING",
            "FINALIZED", "BILLED", "REPLICATED"}
Rank == [INITIATED |-> 1, EXECUTING |-> 2, PROPOSED |-> 3, CONSENSUS_PENDING |-> 4,
         FINALIZED |-> 5, BILLED |-> 6, REPLICATED |-> 7]

TransactionRecord ==
    [state : TxState, node_count : Nat, consensus_reached : BOOLEAN, billed_amount : Nat]

\* An AuditEvent: its round, number of votes and of faulty nodes, verdict.
\* It does not name the tx_id: nothing stored links it to a transaction.
AuditEvent == [round_id : Nat, votes : Nat, faulty : Nat, consensus_reached : BOOLEAN]

LedgerEntry == [tx_id : Request, node_round_count : Nat, consensus_reached : BOOLEAN]

\* What a handler keeps of its round (results, cr and event), and what it
\* answers.
RoundLocals == [results : Nat, faulty : Nat, consensus_reached : BOOLEAN,
                event : AuditEvent \cup {None}]
Answer == [status : {200, 422, 500}, event : AuditEvent \cup {None}]

ASSUME NoneIsNoRecord ==
    /\ None \notin TransactionRecord
    /\ None \notin AuditEvent
    /\ None \notin RoundLocals
    /\ None \notin Answer

\* The steps of a handler that holds the event loop: each is one write.
Work == TxState \cup {"audit", "usage", "ledger"}

\* Mutant: BILLED is saved before the round is recorded.
After_BilledFirst(step) ==
    CASE step = "INITIATED"         -> "EXECUTING"
      [] step = "EXECUTING"         -> "PROPOSED"
      [] step = "PROPOSED"          -> "CONSENSUS_PENDING"
      [] step = "CONSENSUS_PENDING" -> "broadcast"
      [] step = "audit"             -> "FINALIZED"
      [] step = "FINALIZED"         -> "BILLED"
      [] step = "BILLED"            -> "usage"
      [] step = "usage"             -> "ledger"
      [] step = "ledger"            -> "REPLICATED"
      [] step = "REPLICATED"        -> "answered"

\* Mutant: the round is recorded before FINALIZED is saved.
After_ChargeFirst(step) ==
    CASE step = "INITIATED"         -> "EXECUTING"
      [] step = "EXECUTING"         -> "PROPOSED"
      [] step = "PROPOSED"          -> "CONSENSUS_PENDING"
      [] step = "CONSENSUS_PENDING" -> "broadcast"
      [] step = "audit"             -> "usage"
      [] step = "usage"             -> "ledger"
      [] step = "ledger"            -> "FINALIZED"
      [] step = "FINALIZED"         -> "BILLED"
      [] step = "BILLED"            -> "REPLICATED"
      [] step = "REPLICATED"        -> "answered"

\* Mutant: the ledger entry before the usage counter.
After_LedgerFirst(step) ==
    CASE step = "INITIATED"         -> "EXECUTING"
      [] step = "EXECUTING"         -> "PROPOSED"
      [] step = "PROPOSED"          -> "CONSENSUS_PENDING"
      [] step = "CONSENSUS_PENDING" -> "broadcast"
      [] step = "audit"             -> "FINALIZED"
      [] step = "FINALIZED"         -> "ledger"
      [] step = "ledger"            -> "usage"
      [] step = "usage"             -> "BILLED"
      [] step = "BILLED"            -> "REPLICATED"
      [] step = "REPLICATED"        -> "answered"

\* What the handler does after each of its writes.
After(step) ==
    CASE step = "INITIATED"         -> "EXECUTING"
      [] step = "EXECUTING"         -> "PROPOSED"
      [] step = "PROPOSED"          -> "CONSENSUS_PENDING"
      [] step = "CONSENSUS_PENDING" -> "broadcast"
      [] step = "audit"             -> "FINALIZED"
      [] step = "FINALIZED"         -> "usage"
      [] step = "usage"             -> "ledger"
      [] step = "ledger"            -> "BILLED"
      [] step = "BILLED"            -> "REPLICATED"
      [] step = "REPLICATED"        -> "answered"

\* new_record.
new_record == [state |-> "INITIATED", node_count |-> Cardinality(Node),
               consensus_reached |-> FALSE, billed_amount |-> 0]

\* The record a handler saves next: that of its last save, moved on by
\* transition, with the outcome of the round once it is known.
NextRecord(r) ==
    LET rec == [_tx_store[r] EXCEPT !.state = pc[r]]
    IN  CASE pc[r] = "INITIATED" -> new_record
          [] pc[r] = "FINALIZED" ->
               [rec EXCEPT !.consensus_reached = local[r].consensus_reached,
                           !.node_count = local[r].results + local[r].faulty]
          [] pc[r] = "BILLED"    -> [rec EXCEPT !.billed_amount = rec.node_count]
          [] OTHER               -> rec

-----------------------------------------------------------------------------

Init ==
    /\ running = None
    /\ pc = [r \in Request |-> "new"]
    /\ local = [r \in Request |-> None]
    /\ _tx_store = [r \in Request |-> None]
    /\ _events = <<>>
    /\ _sla = [total |-> 0, faults |-> 0]
    /\ _event_bus = [transactions |-> <<>>, faults |-> <<>>, webhooks |-> {}]
    /\ transactions = [r \in Request |-> None]
    /\ audit_events = <<>>
    /\ billing_usage = 0
    /\ billing_ledger = <<>>
    /\ response = [r \in Request |-> None]
    /\ round = [r \in Request |-> None]
    /\ failures = 0
    /\ crashes = 0

\* A request arrives and its handler gets the event loop.
Submit(r) ==
    /\ pc[r] = "new"
    /\ running = None
    /\ running' = r
    /\ pc' = [pc EXCEPT ![r] = "INITIATED"]
    /\ UNCHANGED <<local, _tx_store, _events, _sla, _event_bus, database, history>>

\* Mutant: only the first and the FINALIZED record are written to the store.
SaveRecord_MilestonesOnly(r) ==
    /\ running = r
    /\ pc[r] \in TxState \ {"REPLICATED"}
    /\ _tx_store' = [_tx_store EXCEPT ![r] = NextRecord(r)]
    /\ transactions' = IF pc[r] \in {"INITIATED", "FINALIZED"}
                       THEN [transactions EXCEPT ![r] = NextRecord(r)] ELSE transactions
    /\ pc' = [pc EXCEPT ![r] = After(pc[r])]
    /\ running' = IF pc[r] = "CONSENSUS_PENDING" THEN None ELSE r
    /\ UNCHANGED <<local, _events, _sla, _event_bus, audit_events, billing_usage,
                   billing_ledger, history>>

\* _save_tx_record: to memory, then to the store.  The last save before the
\* broadcast is followed by its await, which gives the event loop away.
SaveRecord(r) ==
    /\ running = r
    /\ pc[r] \in TxState \ {"REPLICATED"}
    /\ _tx_store' = [_tx_store EXCEPT ![r] = NextRecord(r)]
    /\ transactions' = [transactions EXCEPT ![r] = NextRecord(r)]
    /\ pc' = [pc EXCEPT ![r] = After(pc[r])]
    /\ running' = IF pc[r] = "CONSENSUS_PENDING" THEN None ELSE r
    /\ UNCHANGED <<local, _events, _sla, _event_bus, audit_events, billing_usage,
                   billing_ledger, history>>

\* broadcast raises InsufficientQuorumError: 422.
BroadcastRaises(r) ==
    /\ pc[r] = "broadcast"
    /\ running = None
    /\ pc' = [pc EXCEPT ![r] = "answered"]
    /\ response' = [response EXCEPT ![r] = [status |-> 422, event |-> None]]
    /\ UNCHANGED <<running, local, _tx_store, _events, _sla, _event_bus, database,
                   round, failures, crashes>>

\* broadcast has results and a verdict; AuditLog.record appends the event
\* to the log in memory.
BroadcastReturns(r) ==
    /\ pc[r] = "broadcast"
    /\ running = None
    /\ \E res \in Results :
          /\ DOMAIN res # {}
          /\ \A n \in DOMAIN res : res[n].sigOk
          /\ LET cr    == run_consensus(res, Node)
                 event == [round_id |-> Len(_events) + 1,
                           votes |-> Cardinality(DOMAIN res),
                           faulty |-> Cardinality(cr.faulty_nodes),
                           consensus_reached |-> cr.consensus_reached]
             IN  /\ _events' = Append(_events, event)
                 /\ round' = [round EXCEPT ![r] = event]
                 /\ local' = [local EXCEPT ![r] =
                       [results |-> Cardinality(DOMAIN res),
                        faulty |-> Cardinality(cr.faulty_nodes),
                        consensus_reached |-> cr.consensus_reached,
                        event |-> None]]
    /\ running' = r
    /\ pc' = [pc EXCEPT ![r] = "audit"]
    /\ UNCHANGED <<_tx_store, _sla, _event_bus, database, response, failures, crashes>>

\* Mutant: the latest event is looked up one place too early.
PersistEvent_OffByOne(r) ==
    /\ running = r
    /\ pc[r] = "audit"
    /\ audit_events' = Append(audit_events, _events[Len(_events)])
    /\ local' = [local EXCEPT ![r].event =
          _events[IF Len(_events) > 1 THEN Len(_events) - 1 ELSE 1]]
    /\ pc' = [pc EXCEPT ![r] = After("audit")]
    /\ UNCHANGED <<running, _tx_store, _events, _sla, _event_bus, transactions,
                   billing_usage, billing_ledger, history>>

\* AuditLog.record persists the event, broadcast returns, and the handler
\* takes the latest event of the log for its own.
PersistEvent(r) ==
    /\ running = r
    /\ pc[r] = "audit"
    /\ audit_events' = Append(audit_events, _events[Len(_events)])
    /\ local' = [local EXCEPT ![r].event = _events[Len(_events)]]
    /\ pc' = [pc EXCEPT ![r] = After("audit")]
    /\ UNCHANGED <<running, _tx_store, _events, _sla, _event_bus, transactions,
                   billing_usage, billing_ledger, history>>

\* record_round, first write: the usage counter.
CountUsage(r) ==
    /\ running = r
    /\ pc[r] = "usage"
    /\ billing_usage' = billing_usage + 1
    /\ pc' = [pc EXCEPT ![r] = After("usage")]
    /\ UNCHANGED <<running, local, _tx_store, _events, _sla, _event_bus, transactions,
                   audit_events, billing_ledger, history>>

\* record_round, second write: the ledger entry, and then the SLA statistics.
ChargeLedger(r) ==
    /\ running = r
    /\ pc[r] = "ledger"
    /\ billing_ledger' = Append(billing_ledger,
          [tx_id |-> r, node_round_count |-> _tx_store[r].node_count,
           consensus_reached |-> _tx_store[r].consensus_reached])
    /\ _sla' = [total |-> _sla.total + 1,
                faults |-> _sla.faults + IF _tx_store[r].consensus_reached THEN 0 ELSE 1]
    /\ pc' = [pc EXCEPT ![r] = After("ledger")]
    /\ UNCHANGED <<running, local, _tx_store, _events, _event_bus, transactions,
                   audit_events, billing_usage, history>>

\* Mutant: the event is put in front of the buffer of the stream.
Replicate_NewestFirst(r) ==
    /\ running = r
    /\ pc[r] = "REPLICATED"
    /\ _tx_store' = [_tx_store EXCEPT ![r] = NextRecord(r)]
    /\ transactions' = [transactions EXCEPT ![r] = NextRecord(r)]
    /\ _event_bus' = [_event_bus EXCEPT
          !.transactions = <<local[r].event>> \o @,
          !.webhooks = @ \cup {local[r].event}]
    /\ response' = [response EXCEPT ![r] = [status |-> 200, event |-> local[r].event]]
    /\ pc' = [pc EXCEPT ![r] = "answered"]
    /\ running' = None
    /\ UNCHANGED <<local, _events, _sla, audit_events, billing_usage, billing_ledger,
                   round, failures, crashes>>

\* The last save, then the event goes to webhooks and stream and the
\* handler answers 200.
Replicate(r) ==
    /\ running = r
    /\ pc[r] = "REPLICATED"
    /\ _tx_store' = [_tx_store EXCEPT ![r] = NextRecord(r)]
    /\ transactions' = [transactions EXCEPT ![r] = NextRecord(r)]
    /\ LET event == local[r].event
       IN  /\ _event_bus' =
                 [transactions |-> Append(_event_bus.transactions, event),
                  faults |-> IF event.faulty > 0 THEN Append(_event_bus.faults, event)
                                                 ELSE _event_bus.faults,
                  webhooks |-> _event_bus.webhooks \cup {event}]
           /\ response' = [response EXCEPT ![r] = [status |-> 200, event |-> event]]
    /\ pc' = [pc EXCEPT ![r] = "answered"]
    /\ running' = None
    /\ UNCHANGED <<local, _events, _sla, audit_events, billing_usage, billing_ledger,
                   round, failures, crashes>>

\* Mutant: the failed handler never gives the event loop back.
WriteFails_HoldsLoop(r) ==
    /\ failures < MaxFailures
    /\ running = r
    /\ pc[r] \in Work
    /\ response' = [response EXCEPT ![r] = [status |-> 500, event |-> None]]
    /\ pc' = [pc EXCEPT ![r] = "answered"]
    /\ failures' = failures + 1
    /\ UNCHANGED <<running, local, _tx_store, _events, _sla, _event_bus, database, round, crashes>>

\* A store write raises: the handler ends with 422 up to the broadcast it
\* guards, with 500 outside.  A record has reached memory by then.
WriteFails(r) ==
    /\ failures < MaxFailures
    /\ running = r
    /\ pc[r] \in Work
    /\ _tx_store' = IF pc[r] \in TxState
                    THEN [_tx_store EXCEPT ![r] = NextRecord(r)] ELSE _tx_store
    /\ response' = [response EXCEPT ![r] =
          [status |-> IF pc[r] \in {"PROPOSED", "CONSENSUS_PENDING", "audit"} THEN 422 ELSE 500,
           event |-> None]]
    /\ pc' = [pc EXCEPT ![r] = "answered"]
    /\ running' = None
    /\ failures' = failures + 1
    /\ UNCHANGED <<local, _events, _sla, _event_bus, database, round, crashes>>

\* _load_tx_record, called by the status endpoint: a record found only in
\* the store is cached in memory.
LoadRecord(r) ==
    /\ running = None
    /\ _tx_store[r] = None
    /\ transactions[r] # None
    /\ _tx_store' = [_tx_store EXCEPT ![r] = transactions[r]]
    /\ UNCHANGED <<running, pc, local, _events, _sla, _event_bus, database, history>>

\* What GET /transactions/{tx_id} shows, None for 404.
get_transaction_status(r) == IF _tx_store[r] # None THEN _tx_store[r] ELSE transactions[r]

\* GET /audit/events/{round_id}: the event by its place in the log.
get_event(round_id) == IF round_id \in DOMAIN _events THEN _events[round_id] ELSE None

\* Mutant: the audit log is not reloaded.
Crash_EmptyLog ==
    /\ crashes < MaxCrashes
    /\ crashes' = crashes + 1
    /\ running' = None
    /\ pc' = [r \in Request |-> IF pc[r] \in {"new", "answered"} THEN pc[r] ELSE "lost"]
    /\ local' = [r \in Request |-> None]
    /\ _tx_store' = [r \in Request |-> None]
    /\ _events' = <<>>
    /\ _sla' = [total |-> 0, faults |-> 0]
    /\ _event_bus' = [transactions |-> <<>>, faults |-> <<>>, webhooks |-> {}]
    /\ UNCHANGED <<database, response, round, failures>>

\* The process dies and starts again: lifespan loads the audit log from the
\* store and nothing else; requests under way are lost to their callers.
Crash ==
    /\ crashes < MaxCrashes
    /\ crashes' = crashes + 1
    /\ running' = None
    /\ pc' = [r \in Request |-> IF pc[r] \in {"new", "answered"} THEN pc[r] ELSE "lost"]
    /\ local' = [r \in Request |-> None]
    /\ _tx_store' = [r \in Request |-> None]
    /\ _events' = audit_events
    /\ _sla' = [total |-> 0, faults |-> 0]
    /\ _event_bus' = [transactions |-> <<>>, faults |-> <<>>, webhooks |-> {}]
    /\ UNCHANGED <<database, response, round, failures>>

\* What the handler of r does by itself once the request is there.
Handle(r) ==
    \/ SaveRecord(r)
    \/ BroadcastRaises(r)
    \/ BroadcastReturns(r)
    \/ PersistEvent(r)
    \/ CountUsage(r)
    \/ ChargeLedger(r)
    \/ Replicate(r)

Next ==
    \/ \E r \in Request : Submit(r) \/ Handle(r) \/ WriteFails(r) \/ LoadRecord(r)
    \/ Crash

Spec == Init /\ [][Next]_vars

\* The event loop runs every handler that can go on; broadcasts end
\* (BroadcastTerminates of P2PNetwork).
LiveSpec == Spec /\ \A r \in Request : WF_vars(Handle(r))

-----------------------------------------------------------------------------
(* Properties                                                              *)

TypeOK ==
    /\ running \in Request \cup {None}
    /\ pc \in [Request -> Work \cup {"new", "broadcast", "answered", "lost"}]
    /\ local \in [Request -> RoundLocals \cup {None}]
    /\ _tx_store \in [Request -> TransactionRecord \cup {None}]
    /\ _events \in Seq(AuditEvent)
    /\ _sla \in [total : Nat, faults : Nat]
    /\ _event_bus \in [transactions : Seq(AuditEvent), faults : Seq(AuditEvent),
                       webhooks : SUBSET AuditEvent]
    /\ transactions \in [Request -> TransactionRecord \cup {None}]
    /\ audit_events \in Seq(AuditEvent)
    /\ billing_usage \in Nat
    /\ billing_ledger \in Seq(LedgerEntry)
    /\ response \in [Request -> Answer \cup {None}]
    /\ round \in [Request -> AuditEvent \cup {None}]
    /\ failures \in 0 .. MaxFailures
    /\ crashes \in 0 .. MaxCrashes

\* The database says that r has reached the given state.
Reached(r, state) == transactions[r] # None /\ Rank[transactions[r].state] >= Rank[state]

\* Whatever writes fail and whenever the service dies, no transaction is
\* charged twice, and one that is on record as BILLED has been charged, for
\* the amount and verdict on record.
ChargedExactlyOnce ==
    /\ \A i, j \in DOMAIN billing_ledger :
          billing_ledger[i].tx_id = billing_ledger[j].tx_id => i = j
    /\ \A r \in Request : Reached(r, "BILLED") =>
          \E i \in DOMAIN billing_ledger :
             /\ billing_ledger[i].tx_id = r
             /\ billing_ledger[i].node_round_count = transactions[r].billed_amount
             /\ billing_ledger[i].consensus_reached = transactions[r].consensus_reached

\* Every charge can be defended: the database holds a record of the charged
\* transaction as FINALIZED or beyond and the audit event that its own
\* broadcast recorded, and the three agree on the verdict and on the number
\* of nodes charged for (those that answered plus the faulty ones).  That it
\* is the event of this transaction is known from the history only: the
\* database has no key from a charge to its event.
ChargeIsEvidenced ==
    \A i \in DOMAIN billing_ledger :
        LET entry  == billing_ledger[i]
            record == transactions[entry.tx_id]
            event  == round[entry.tx_id]
        IN  /\ Reached(entry.tx_id, "FINALIZED")
            /\ \E k \in DOMAIN audit_events : audit_events[k] = event
            /\ entry.node_round_count = record.node_count
            /\ entry.node_round_count = event.votes + event.faulty
            /\ entry.consensus_reached = record.consensus_reached
            /\ entry.consensus_reached = event.consensus_reached

\* The usage counter, a second account of the same rounds, is never behind
\* the ledger, and ahead of it only by the round being recorded and by the
\* rounds whose recording was cut short by a failed write or a crash.
UsageCoversLedger ==
    LET recording == Cardinality({r \in Request : pc[r] = "ledger"})
    IN  billing_usage - Len(billing_ledger) \in recording .. recording + failures + crashes

\* As long as no write fails, rounds are numbered by their position in the
\* database, without gaps or repetitions, also across restarts and with a
\* round under way when the service died, so that whoever was answered 200
\* finds its round under its number ever after.
RoundsAreConsecutive ==
    failures = 0 =>
        /\ \A k \in DOMAIN audit_events : audit_events[k].round_id = k
        /\ \A k \in DOMAIN _events : get_event(k).round_id = k
        /\ \A r \in Request : response[r] # None /\ response[r].status = 200 =>
              get_event(response[r].event.round_id) = response[r].event

\* A caller who is told 200 is told about its own round, although other
\* broadcasts completed while its own was under way; that round is in the
\* audit table and the transaction is REPLICATED, whatever happens later.
AnsweredForItsOwnRound ==
    \A r \in Request : response[r] # None /\ response[r].status = 200 =>
        /\ response[r].event = round[r]
        /\ \E k \in DOMAIN audit_events : audit_events[k] = response[r].event
        /\ Reached(r, "REPLICATED")

\* Subscribers see the rounds in the order of the audit log.
StreamFollowsAudit ==
    LET sent == _event_bus.transactions
    IN  \A i, j \in DOMAIN sent : i < j => sent[i].round_id < sent[j].round_id

\* What GET /transactions/{tx_id} shows never goes back to an earlier state,
\* not even over a restart, unless the caller was told of an error.
StatusNeverRegresses ==
    [][\A r \in Request :
          LET status == get_transaction_status(r)
          IN  status # None =>
              \/ status' # None /\ Rank[status.state] <= Rank[status'.state]
              \/ response[r] # None /\ response[r].status # 200]_vars

\* Every request is answered unless the service dies under it.
EveryRequestAnswered ==
    \A r \in Request : pc[r] # "new" ~> pc[r] \in {"answered", "lost"}

-----------------------------------------------------------------------------
(* What the documentation says                                             *)

\* transaction.py, lines 98 and 99: node_count is the "Number of nodes that
\* participated in consensus", which is what the caller is charged for.
DocNodesThatParticipated ==
    \A i \in DOMAIN billing_ledger :
        billing_ledger[i].node_round_count <= Cardinality(Node)
=============================================================================
