------------------------------ MODULE Tenants --------------------------------
(***************************************************************************)
(* Tenants: the registry and the routes of ecn/tenant.py, the starting and *)
(* stopping of the servers of a network (ecn/p2p_network.py,               *)
(* ecn/node_server.py) and the accounts a tenant's rounds are charged to   *)
(* (ecn/billing.py), up to a restart of the service.                       *)
(*                                                                         *)
(* The servers of a network are started and stopped one after the other,   *)
(* each an await, and so is the broadcast: handlers interleave there.      *)
(* From the end of the broadcast to the answer a handler keeps the event   *)
(* loop, but usage counter and ledger are commits of their own that may    *)
(* raise, and the process may die in between.                              *)
(*                                                                         *)
(* The id of a tenant is random: a Tenant is created at most once.  The    *)
(* nodes behave (P2PNetwork is about those that do not): what a broadcast  *)
(* brings back is whether there was consensus.                             *)
(***************************************************************************)
EXTENDS Billing, Values

CONSTANTS
    Handler,      \* request handlers that may run at the same time
    Tenant,       \* ids that may be drawn
    MaxNodes,     \* most nodes of a tenant: 10 in the code
    MaxPeriod,    \* bound: billing periods
    MaxRounds,    \* bound: rounds submitted
    MaxFailures,  \* bound: servers that do not start, writes that raise
    MaxRestarts   \* bound: restarts and crashes of the service

ASSUME TenantsConstants ==
    /\ None \notin Tenant \cup {"deleted", "failed", "lost"}
    /\ MaxNodes \in Nat \ {0}
    /\ MaxPeriod \in Nat \ {0}
    /\ {MaxRounds, MaxFailures, MaxRestarts} \subseteq Nat

VARIABLES
    _tenants,   \* the registered tenants
    nodes,      \* nodes[t]: size of the network of t, 0 as long as the id is not drawn
    started,    \* started[t]: how many of its servers were started
    stopped,    \* stopped[t]: how many of these were stopped again, in the same order
    audit_log,  \* audit_log[t]: consensus_reached of each round of t
    pc,         \* pc[h]: what handler h does next
    tenant,     \* tenant[h]: the tenant it does it for
    local,      \* local[h]: consensus_reached and the period of the round of h
    now,        \* the billing period
    durable,    \* are counters and ledger in a database (ECN_DB_PATH)
    _counts, _entries, _sla,  \* the BillingTracker: usage counters, ledger, SLA statistics
    \* history
    fate,       \* fate[t]: "deleted" (answered 204), "failed" (answered 500), "lost" in a restart
    rounds, failures, restarts

network == <<_tenants, nodes, started, stopped, fate>>
billing == <<durable, _counts, _entries, _sla>>
counters == <<rounds, failures, restarts>>
vars    == <<network, audit_log, pc, tenant, local, now, billing, counters>>

Period == 1 .. MaxPeriod
Round == [consensus_reached : BOOLEAN, period : Period]
Entry == [ledger_id : Nat, tenant_id : Tenant, period : Period, node_round_count : Nat,
          billed_amount : Nat, consensus_reached : BOOLEAN]
Stats == [total : Nat, fault_rounds : Nat]
Step == {"idle", "start", "stop", "broadcast", "usage", "ledger"}
NoSla == [t \in Tenant |-> [total |-> 0, fault_rounds |-> 0]]
NoCounts == [key \in Tenant \X Period |-> 0]

\* A handler between its broadcast and its answer keeps the event loop.
LoopIsFree == \A h \in Handler : pc[h] \notin {"usage", "ledger"}

\* The number of running servers.
Running(t) == started[t] - stopped[t]

\* The handler moves on to a step for a tenant, or answers.
Goto(h, step, t) == pc' = [pc EXCEPT ![h] = step] /\ tenant' = [tenant EXCEPT ![h] = t]
Answer(h) == Goto(h, "idle", None)

-----------------------------------------------------------------------------

Init ==
    /\ _tenants = {}
    /\ nodes = [t \in Tenant |-> 0]
    /\ started = [t \in Tenant |-> 0]
    /\ stopped = [t \in Tenant |-> 0]
    /\ fate = [t \in Tenant |-> None]
    /\ audit_log = [t \in Tenant |-> <<>>]
    /\ pc = [h \in Handler |-> "idle"]
    /\ tenant = [h \in Handler |-> None]
    /\ local = [h \in Handler |-> None]
    /\ now = 1
    /\ durable \in BOOLEAN
    /\ _counts = NoCounts
    /\ _entries = <<>>
    /\ _sla = NoSla
    /\ rounds = 0
    /\ failures = 0
    /\ restarts = 0

-----------------------------------------------------------------------------
(* POST /tenants: create_tenant, P2PNetwork.create, NodeServer.start.      *)

\* The request may ask for any number of nodes and gets 1 to MaxNodes.
CreateTenant(h, t, node_count) ==
    /\ LoopIsFree
    /\ pc[h] = "idle"
    /\ nodes[t] = 0
    /\ nodes' = [nodes EXCEPT ![t] = IF node_count < 1 THEN 1
                                     ELSE IF node_count > MaxNodes THEN MaxNodes ELSE node_count]
    /\ Goto(h, "start", t)
    /\ UNCHANGED <<_tenants, started, stopped, fate, audit_log, local, now, billing, counters>>

StartServer(h) ==
    /\ LoopIsFree
    /\ pc[h] = "start"
    /\ started[tenant[h]] < nodes[tenant[h]]
    /\ started' = [started EXCEPT ![tenant[h]] = @ + 1]
    /\ UNCHANGED <<_tenants, nodes, stopped, fate, audit_log, pc, tenant, local, now, billing, counters>>

\* No port or no socket is to be had: 500, and the servers started before keep running.
StartFails(h) ==
    /\ LoopIsFree
    /\ pc[h] = "start"
    /\ started[tenant[h]] < nodes[tenant[h]]
    /\ failures < MaxFailures
    /\ failures' = failures + 1
    /\ fate' = [fate EXCEPT ![tenant[h]] = "failed"]
    /\ Answer(h)
    /\ UNCHANGED <<_tenants, nodes, started, stopped, audit_log, local, now, billing, rounds, restarts>>

\* The pause is over: the tenant enters the registry, 201.
Register(h) ==
    /\ LoopIsFree
    /\ pc[h] = "start"
    /\ started[tenant[h]] = nodes[tenant[h]]
    /\ _tenants' = _tenants \cup {tenant[h]}
    /\ Answer(h)
    /\ UNCHANGED <<nodes, started, stopped, fate, audit_log, local, now, billing, counters>>

-----------------------------------------------------------------------------
(* DELETE /tenants/{id}: delete_tenant, P2PNetwork.shutdown.               *)

\* Mutant: the tenant leaves the registry when its servers have stopped.
DeleteTenant_PopLater(h, t) ==
    /\ LoopIsFree
    /\ pc[h] = "idle"
    /\ t \in _tenants
    /\ Goto(h, "stop", t)
    /\ UNCHANGED <<network, audit_log, local, now, billing, counters>>

\* An id that is not registered is answered 404 and nothing changes.
DeleteTenant(h, t) ==
    /\ LoopIsFree
    /\ pc[h] = "idle"
    /\ t \in _tenants
    /\ _tenants' = _tenants \ {t}
    /\ Goto(h, "stop", t)
    /\ UNCHANGED <<nodes, started, stopped, fate, audit_log, local, now, billing, counters>>

StopServer(h) ==
    /\ LoopIsFree
    /\ pc[h] = "stop"
    /\ Running(tenant[h]) > 0
    /\ stopped' = [stopped EXCEPT ![tenant[h]] = @ + 1]
    /\ UNCHANGED <<_tenants, nodes, started, fate, audit_log, pc, tenant, local, now, billing, counters>>

\* Mutant: shutdown returns after the first server.
Deleted_AfterFirst(h) ==
    /\ LoopIsFree
    /\ pc[h] = "stop"
    /\ stopped[tenant[h]] > 0
    /\ fate' = [fate EXCEPT ![tenant[h]] = "deleted"]
    /\ Answer(h)
    /\ UNCHANGED <<_tenants, nodes, started, stopped, audit_log, local, now, billing, counters>>

\* 204.
Deleted(h) ==
    /\ LoopIsFree
    /\ pc[h] = "stop"
    /\ Running(tenant[h]) = 0
    /\ fate' = [fate EXCEPT ![tenant[h]] = "deleted"]
    /\ Answer(h)
    /\ UNCHANGED <<_tenants, nodes, started, stopped, audit_log, local, now, billing, counters>>

-----------------------------------------------------------------------------
(* POST /tenants/{id}/transactions.                                        *)

\* An id that is not registered is answered 404.
SubmitTransaction(h, t) ==
    /\ LoopIsFree
    /\ pc[h] = "idle"
    /\ t \in _tenants
    /\ rounds < MaxRounds
    /\ rounds' = rounds + 1
    /\ Goto(h, "broadcast", t)
    /\ UNCHANGED <<network, audit_log, local, now, billing, failures, restarts>>

\* Too few answers, because the transaction is invalid, or the servers have
\* been stopped meanwhile: 422.
BroadcastRaises(h) ==
    /\ LoopIsFree
    /\ pc[h] = "broadcast"
    /\ Answer(h)
    /\ UNCHANGED <<network, audit_log, local, now, billing, counters>>

\* The round is recorded and the handler takes its event from the log.  One
\* answer is always a consensus.  The tenant may have been deleted by now.
BroadcastReturns(h, consensus_reached) ==
    /\ LoopIsFree
    /\ pc[h] = "broadcast"
    /\ nodes[tenant[h]] = 1 => consensus_reached
    /\ audit_log' = [audit_log EXCEPT ![tenant[h]] = Append(@, consensus_reached)]
    /\ local' = [local EXCEPT ![h] = [consensus_reached |-> consensus_reached, period |-> now]]
    /\ Goto(h, "usage", tenant[h])
    /\ UNCHANGED <<network, now, billing, counters>>

\* record_round in two commits, for the period it was called in.
CountUsage(h) ==
    /\ pc[h] = "usage"
    /\ _counts' = increment(_counts, tenant[h], local[h].period)
    /\ Goto(h, "ledger", tenant[h])
    /\ UNCHANGED <<network, audit_log, local, now, durable, _entries, _sla, counters>>

\* Mutant: the ledger asks for the period again.
ChargeLedger_PeriodReadAgain(h) ==
    /\ pc[h] = "ledger"
    /\ _entries' = append_entry(_entries, tenant[h], now, nodes[tenant[h]],
                                local[h].consensus_reached)
    /\ _sla' = record(_sla, tenant[h], local[h].consensus_reached)
    /\ local' = [local EXCEPT ![h] = None]
    /\ Answer(h)
    /\ UNCHANGED <<network, audit_log, now, durable, _counts, counters>>

\* The ledger, the statistics, the webhooks (see Webhooks) and the answer.
ChargeLedger(h) ==
    /\ pc[h] = "ledger"
    /\ _entries' = append_entry(_entries, tenant[h], local[h].period, nodes[tenant[h]],
                                local[h].consensus_reached)
    /\ _sla' = record(_sla, tenant[h], local[h].consensus_reached)
    /\ local' = [local EXCEPT ![h] = None]
    /\ Answer(h)
    /\ UNCHANGED <<network, audit_log, now, durable, _counts, counters>>

\* A write raises, which is no RuntimeError: 500.
RecordFails(h) ==
    /\ pc[h] \in {"usage", "ledger"}
    /\ durable
    /\ failures < MaxFailures
    /\ failures' = failures + 1
    /\ local' = [local EXCEPT ![h] = None]
    /\ Answer(h)
    /\ UNCHANGED <<network, audit_log, now, billing, rounds, restarts>>

-----------------------------------------------------------------------------
(* What the other endpoints report, of registered tenants: for any other   *)
(* id they answer 404.                                                     *)

list_tenants == {[tenant_id |-> t, node_count |-> nodes[t]] : t \in _tenants}

\* AuditLog.summary, as far as the rounds kept here tell.
tenant_audit_summary(t) ==
    [total_rounds             |-> Len(audit_log[t]),
     consensus_failure_rounds |-> Cardinality({i \in DOMAIN audit_log[t] : ~audit_log[t][i]})]

tenant_usage(t)          == get_usage(_counts, t, now)
tenant_billing_ledger(t) == get_billing_ledger(_entries, t)
tenant_sla(t)            == get_sla(_sla, t)

-----------------------------------------------------------------------------
(* The world around.                                                       *)

NextPeriod ==
    /\ now < MaxPeriod
    /\ now' = now + 1
    /\ UNCHANGED <<network, audit_log, pc, tenant, local, billing, counters>>

\* The process dies, or ends by shutdown_all with no request under way, and
\* starts again: tenants, their servers and audit logs are gone.
Restart ==
    /\ restarts < MaxRestarts
    /\ restarts' = restarts + 1
    /\ _tenants' = {}
    /\ stopped' = started
    /\ fate' = [t \in Tenant |-> IF nodes[t] > 0 /\ fate[t] = None THEN "lost" ELSE fate[t]]
    /\ audit_log' = [t \in Tenant |-> <<>>]
    /\ pc' = [h \in Handler |-> "idle"]
    /\ tenant' = [h \in Handler |-> None]
    /\ local' = [h \in Handler |-> None]
    /\ _counts' = IF durable THEN _counts ELSE NoCounts
    /\ _entries' = IF durable THEN _entries ELSE <<>>
    /\ _sla' = NoSla
    /\ UNCHANGED <<nodes, started, now, durable, rounds, failures>>

\* What a handler does, once called.
Handle(h) ==
    \/ StartServer(h) \/ Register(h)
    \/ StopServer(h) \/ Deleted(h)
    \/ BroadcastRaises(h) \/ \E c \in BOOLEAN : BroadcastReturns(h, c)
    \/ CountUsage(h) \/ ChargeLedger(h)

Next ==
    \/ \E h \in Handler :
        \/ Handle(h)
        \/ StartFails(h)
        \/ RecordFails(h)
        \/ \E t \in Tenant, node_count \in 0 .. MaxNodes + 1 : CreateTenant(h, t, node_count)
        \/ \E t \in Tenant : DeleteTenant(h, t) \/ SubmitTransaction(h, t)
    \/ NextPeriod
    \/ Restart

Spec == Init /\ [][Next]_vars

\* The event loop runs every handler that can go on.
LiveSpec == Spec /\ \A h \in Handler : WF_vars(Handle(h))

-----------------------------------------------------------------------------
(* Properties                                                              *)

TypeOK ==
    /\ _tenants \subseteq Tenant
    /\ nodes \in [Tenant -> 0 .. MaxNodes]
    /\ started \in [Tenant -> 0 .. MaxNodes]
    /\ stopped \in [Tenant -> 0 .. MaxNodes]
    /\ audit_log \in [Tenant -> Seq(BOOLEAN)]
    /\ pc \in [Handler -> Step]
    /\ tenant \in [Handler -> Tenant \cup {None}]
    /\ local \in [Handler -> Round \cup {None}]
    /\ now \in Period
    /\ durable \in BOOLEAN
    /\ _counts \in [Tenant \X Period -> Nat]
    /\ _entries \in Seq(Entry)
    /\ _sla \in [Tenant -> Stats]
    /\ fate \in [Tenant -> {None, "deleted", "failed", "lost"}]
    /\ {rounds, failures, restarts} \subseteq Nat

\* The handlers that create or delete a tenant.
Working(t) == {h \in Handler : pc[h] \in {"start", "stop"} /\ tenant[h] = t}

\* Once the id of a tenant is drawn there is always exactly one that answers
\* for it: the handler that starts it, the registry, the handler that stops
\* it, or nobody any more, for one reason.  So two DELETEs that overlap are
\* never both answered 204.  A listed tenant has all its servers
\* running, whatever is created and deleted around it, and one that is
\* neither registered nor being worked on has none, unless its creation
\* failed half way: P2PNetwork.create stops none of those it has started.
ServersAreOwned ==
    \A t \in Tenant :
        /\ Cardinality(Working(t)) + Cardinality({t} \cap _tenants) + Cardinality({fate[t]} \ {None})
               = IF nodes[t] = 0 THEN 0 ELSE 1
        /\ \A info \in list_tenants : info.tenant_id = t => Running(t) = info.node_count
        /\ t \in _tenants \/ Running(t) = 0 \/ Working(t) # {} \/ fate[t] = "failed"

\* The four accounts of a tenant, as its endpoints report them.  Statistics
\* and ledger agree on the rounds and on those without consensus, over all
\* periods, and each is billed for the network the tenant is listed with.
\* In every period the usage counter is never behind the ledger, nor the
\* audit log behind it, and what they are ahead by is the round a handler
\* is just writing down and the failed writes.
AccountsAgree ==
    \A info \in list_tenants :
        LET t         == info.tenant_id
            audit     == tenant_audit_summary(t)
            usage     == tenant_usage(t)
            ledger    == tenant_billing_ledger(t)
            sla       == tenant_sla(t)
            entries   == ledger.entries
            In(p)     == {i \in DOMAIN entries : entries[i].period = p}
            Unwritten == failures + Cardinality({h \in Handler : tenant[h] = t /\ pc[h] \in {"usage", "ledger"}})
        IN  /\ sla.total_rounds = ledger.total_entries
            /\ sla.fault_rounds = Cardinality({i \in DOMAIN entries : ~entries[i].consensus_reached})
            /\ ledger.total_billed = ledger.total_entries * compute_billed_amount(info.node_count)
            /\ audit.total_rounds - ledger.total_entries \in 0 .. Unwritten
            /\ audit.consensus_failure_rounds - sla.fault_rounds \in 0 .. Unwritten
            /\ \A p \in Period : get_count(_counts, t, p) - Cardinality(In(p)) \in 0 .. Unwritten
            /\ usage.round_count - Cardinality(In(now)) \in 0 .. Unwritten
            /\ {u.period : u \in usage.all_periods} \subseteq 1 .. now

\* A deletion, once begun, stops every server of the tenant: no failure of
\* a round, no other request and no restart leaves one running for good.
DeletedTenantsStop ==
    \A h \in Handler, t \in Tenant : pc[h] = "stop" /\ tenant[h] = t ~> Running(t) = 0
=============================================================================
