------------------------------- MODULE Billing -------------------------------
(***************************************************************************)
(* What a billing account is made of (ecn/billing.py): the price of a      *)
(* round, the usage counters per tenant and period, the ledger and the SLA *)
(* statistics.  Counters and ledger have two backends, in memory and in    *)
(* SQLite (ecn/persistence.py), that do the same to the same data: one     *)
(* operator stands for both.  Where they differ is what outlives the       *)
(* process, which is for the modules that use these operators.             *)
(*                                                                         *)
(* Money is in thousandths of a dollar; tx_id and recorded_at are stored   *)
(* and never read.                                                         *)
(***************************************************************************)
EXTENDS Integers, Sequences, FiniteSets

CONSTANT ECN_PRICING_TIER  \* the environment variable

\* An unknown tier counts as "standard".
tiers == {"basic", "standard", "critical"}
get_pricing_tier == IF ECN_PRICING_TIER \in tiers THEN ECN_PRICING_TIER ELSE "standard"

\* The share of the rounds that must reach consensus, in ten-thousandths.
sla_threshold  == [basic |-> 9500, standard |-> 9900, critical |-> 9999]
price_per_rmae == [basic |-> 1, standard |-> 5, critical |-> 20]

compute_billed_amount(node_count) == node_count * price_per_rmae[get_pricing_tier]

-----------------------------------------------------------------------------
(* The counters: counts[<<t, p>>] is the number of rounds of tenant t in   *)
(* period p, 0 where the dict or the table has no entry.                   *)

increment(counts, tenant_id, period) == [counts EXCEPT ![<<tenant_id, period>>] = @ + 1]

get_count(counts, tenant_id, period) == counts[<<tenant_id, period>>]

get_all_periods(counts, tenant_id) ==
    {[period |-> key[2], round_count |-> counts[key]] :
        key \in {k \in DOMAIN counts : k[1] = tenant_id /\ counts[k] > 0}}

\* The ledger: entries are numbered in the order they are appended.
append_entry(entries, tenant_id, period, node_round_count, consensus_reached) ==
    Append(entries, [ledger_id         |-> Len(entries) + 1,
                     tenant_id         |-> tenant_id,
                     period            |-> period,
                     node_round_count  |-> node_round_count,
                     billed_amount     |-> compute_billed_amount(node_round_count),
                     consensus_reached |-> consensus_reached])

\* own[i]: those of the tenant among the first i.
load_entries(entries, tenant_id) ==
    LET own[i \in 0 .. Len(entries)] ==
            IF i = 0 THEN <<>>
            ELSE IF entries[i].tenant_id = tenant_id THEN Append(own[i - 1], entries[i])
            ELSE own[i - 1]
    IN  own[Len(entries)]

\* The SLA statistics: rounds, and those without consensus, per tenant.
record(sla, tenant_id, consensus_reached) ==
    [sla EXCEPT ![tenant_id] =
        [total |-> @.total + 1, fault_rounds |-> @.fault_rounds + IF consensus_reached THEN 0 ELSE 1]]

-----------------------------------------------------------------------------
(* The reports.                                                            *)

get_usage(counts, tenant_id, period) ==
    [current_period |-> period,
     round_count    |-> get_count(counts, tenant_id, period),
     all_periods    |-> get_all_periods(counts, tenant_id)]

sum_billed(own) ==
    LET billed[i \in 0 .. Len(own)] ==
            IF i = 0 THEN 0 ELSE billed[i - 1] + own[i].billed_amount
    IN  billed[Len(own)]

get_billing_ledger(entries, tenant_id) ==
    LET own == load_entries(entries, tenant_id) IN
    [entries       |-> own,
     total_entries |-> Len(own),
     total_billed  |-> sum_billed(own)]

get_sla(sla, tenant_id) ==
    LET s == sla[tenant_id] IN
    [total_rounds |-> s.total,
     fault_rounds |-> s.fault_rounds,
     sla_met      |-> (s.total - s.fault_rounds) * 10000
                        >= sla_threshold[get_pricing_tier] * s.total]
=============================================================================
