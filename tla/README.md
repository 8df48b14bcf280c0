# ECN in TLA+: models, checks and proofs

ECN (Executable Consensus Network) is a Python service. A REST API hands each
transaction to a set of node servers over TCP; every node executes it on its own
copy of the world state and answers with a signed hash of the result; a
consensus layer decides which hash is agreed and which nodes are faulty. Around
this core are a health registry that excludes failing nodes, a lifecycle record
per transaction, an audit log, billing, an event stream, tenants with networks
of their own, and API keys. Everything runs on one asyncio event loop; SQLite
persistence is optional.

This directory is a specification of that system in TLA+, with the TLC
configurations that check it on small instances and theorems checked by TLAPS
for all values of the constants. `PROJECT.json` maps every definition to the
source lines it models and lists runs, mutants, findings, hazards and theorems.

Contents: [1 Inventory](#1-inventory) - [2 Modules](#2-modules-and-the-code) -
[3 Runs](#3-runs) - [4 Fairness](#4-fairness) - [5 Proofs](#5-proofs) -
[6 Abstractions](#6-abstractions) - [7 Disagreements](#7-where-code-and-documentation-disagree) -
[8 Plan](#8-plan)

## 1. Inventory

| Component | State | Operations | Talks to |
|---|---|---|---|
| Execution engine `execution_engine.py` | handler registry | `execute`, `register_handler`, transfer, mint, burn | called by the state manager |
| Supply chain `use_cases/supply_chain.py` | products inside the world state | ship, receive, inspect, quarantine, release | registered in the engine |
| State manager `state_manager.py` | world state, execution trace | `apply_transaction`, `reset`, hashes, diffs | engine |
| Node, node server `node.py`, `node_server.py` | a state manager, a key pair, a TCP server | `execute_transaction`, `_handle_client`, start, stop | state manager, network |
| Consensus `consensus.py` | none (pure) | `run_consensus`, tie-break | called per round |
| Health registry `node_health.py` | one record per node | `record_success`, `record_failure` | written and read by `broadcast` |
| P2P network `p2p_network.py` | servers, registry, audit log | `create`, `broadcast`, `shutdown` | node servers, consensus, registry, audit |
| Transaction lifecycle `transaction.py` | records | `new_record`, `transition` | API |
| Audit log `audit.py` | events in memory and in SQLite | `record`, reload | network, API |
| Billing `billing.py` | usage counter, ledger, SLA statistics | `record_round`, periods, summaries | API |
| Persistence `persistence.py` | SQLite tables | one commit per write | audit, billing, auth, API |
| REST API `api.py` | transaction cache | `submit_transaction`, status, start-up, streaming, polling, admin and some 20 read endpoints | everything |
| Event stream `stream.py` | subscriber queues, backfill buffer | publish, subscribe, unsubscribe, SSE | API |
| Tenants `tenant.py` | one network, audit log and account per tenant | create, delete, submit, list, shutdown | P2P network, billing |
| Webhooks `api.py` | subscriptions, one delivery task per round | subscribe, unsubscribe, `dispatch` | API, tenants |
| Authentication `auth.py` | keys by id and by secret, in memory and in SQLite | issue, revoke, bootstrap, `require_role`, JWT | API, persistence |
| Simulated network, CLI, demos, dashboard, SDKs, deployment | none of their own | scripts, clients, manifests | the above |

What makes each correct, and what is hard about it:

* **Engine, supply chain, state manager.** A rejected transaction changes
  nothing; the trace proves what the state is; tokens are conserved; a product
  under quarantine does not move. Hard: long histories of legal and rejected
  transactions, self-transfers, accounts that do not exist.
* **Consensus.** Every answer is classified once; an honest majority wins against
  any other answers; the tie-break never decides a reached round; bad signatures
  have no influence. Hard: boundary fractions, ties a liar aims at, no counted
  answer at all.
* **Health registry.** State, counter and exclusion time agree; the lifecycle's
  edges; suspicion is cleared or ends in exclusion. Hard: each branch updates only some fields, and
  results that were under way come after the exclusion.
* **P2P network.** A verdict only names nodes that executed; replicas are equal
  while nothing is lost or overlaps; every broadcast ends. Hard: broadcasts
  overlap across `asyncio.gather`; a request is lost before or after execution;
  the registry is read before and written after the await.
* **Submission, audit, billing, persistence.** No transaction is charged twice,
  BILLED implies charged, every charge is evidenced, rounds are numbered without
  gaps, an answer is about the caller's own round, a status does not go back.
  Hard: seven record saves, an audit insert, a usage update and a ledger insert
  are separate commits; any may fail and the process may die between any two;
  other requests interleave at the broadcast.
* **Tenants, billing.** A server runs only while somebody owns it; two deletions never both succeed;
  usage counter, ledger, SLA statistics and audit log of a tenant agree up to what was cut short. Hard:
  servers start and stop one await after the other while other requests arrive; one of them may not
  start; the period may turn between two accounts; a write may fail between them.
* **Stream.** Replay and live stream fit together; a slow client harms itself only; no queue outlives its
  reader; a poller misses nothing that is still buffered. Hard: the generator gives up the loop at every
  event and subscribes only after the replay; buffers and queues are bounded; the numbers start again
  with the process.
* **Webhooks.** One post per round to those who want it, in order, whichever posts raise. Hard:
  subscriptions change between two posts, and the deliveries of rounds overlap.
* **Keys.** An issued key works until it is revoked and not after, over restarts with any
  configuration; the operator gets in unless the configured secret is stored for another role; a bad token does not
  fall through to a good key. Hard:
  memory is changed before a store write that may raise; two indexes over the same keys; the
  bootstrap key meets whatever earlier starts left in the store.

Concurrency model of the program: one event loop, so code between two `await`s
is atomic with respect to other handlers, but not with respect to a crash or a
failing store write. The models follow this: P2P actions are bounded by awaits,
submission actions by commits, and tenants by both.

## 2. Modules and the code

```
Values <- Consensus <- ConsensusRound <- MCConsensus
               |  ^        ^-- ConsensusProofs -> ConsensusLemmas
               |  +---- Submit <- MCSubmit ; SubmitProofs -> ConsensusLemmas
               |
               +-> P2PNetwork <- MCP2P (INSTANCE ExecutionEngine)
                     ^   ^-- P2PProofs
Values <- NodeHealth-+
               ^-- NodeHealthLifecycle <- NodeProofs   (refined by P2PNetwork)
                                             |
ExecutionEngine, SupplyChain                 v
     ^-- RegisteredHandlers <- NodeWorld -> StateManager
                                  ^-- MCNode
Billing <- Tenants <- TenantsProofs
Stream <- MCStream
   ^-- StreamProofs -> Webhooks
Keys <- KeysProofs
```

* **Consensus** (operators) and **ConsensusRound** (one call on any results):
  `run_consensus` with its early return, `_select_winner` with the lexicographic
  tie-break, `ConsensusResult`. Results are a function from the nodes that
  answered to hash and signature verdict; the threshold is a fraction
  `ThresholdNum / ThresholdDen`.
* **NodeHealth** (a record and the two writes) and **NodeHealthLifecycle** (that
  record under any sequence of reports and passing time). The second is the
  abstract specification that each record inside P2PNetwork is shown to implement; it allows
  more than the network does, the rehabilitation of an EXCLUDED node among it.
* **ExecutionEngine**, **SupplyChain**, **RegisteredHandlers** (dispatch over both),
  **StateManager** (state, trace, reset). Handlers are operators from a state and
  a transaction to a state or `Error`, the raised exception. `base` in
  StateManager is a history variable: the state of the last reset. StateManager is written for any engine;
  **NodeWorld** gives it the engine with all handlers and states what the trace says about balances and products.
* **P2PNetwork** composes consensus, registry and node servers. A `Slot` is a
  caller of `broadcast`. `StartBroadcast` is the code up to `gather`;
  `HandleClient` is `_handle_client` on one node; `ConnectFails`, `ReadTimesOut`
  are the two timeouts of `_send_to_server`; `HandleLate` is a node that executes
  a request whose caller has gone; `Complete` is everything after `gather`
  (registry, quorum check, consensus), which awaits nothing. `executed` is a
  history variable.
* **Submit** is `submit_transaction` with its stores. `pc[r]` names what the
  handler does next: a record state to save, `broadcast` (the await), `audit`,
  `usage` or `ledger`. `running` is the handler that holds the event loop.
  `SaveRecord`, `PersistEvent`, `CountUsage`, `ChargeLedger` and `Replicate` are
  one commit each; `WriteFails` makes any of them raise; `Crash` kills the process
  and restarts it from the database as `lifespan` does; `LoadRecord` is the
  status endpoint filling the cache. The broadcast may return any signed round:
  it is the environment here, and P2PNetwork models it in detail.
* **Billing** has the operators of `billing.py` over usage counters, ledger and SLA statistics as values:
  tiers, `increment`, `append_entry`, `record`, `get_usage`, `get_sla`. Submit has the
  same commits for one period without tenants, where the question is what survives a crash.
* **Tenants** composes Billing with the registry, the routes of `tenant.py` and the life of the servers.
  `started[t]` and `stopped[t]` count servers in the order of the network's list; `StartServer` and `StopServer`
  are one await each. `Register` and `Deleted` are what follows the last of them. From the end of the broadcast
  to the answer a handler keeps the loop (`LoopIsFree`), but each commit may raise or be the last thing
  the process does (`Restart`). `list_tenants`, `tenant_usage`, `tenant_billing_ledger`, `tenant_sla` and
  `tenant_audit_summary` are the read endpoints; the properties speak of what these answer.
* **Stream** is the `EventBus` and one SSE generator per client. `Connect`, `ReplayNext`, `ReplayTopic`, `Subscribe` and
  `Receive` are what the generator does from one `yield` to the next, `Close` is its `finally` clause.
  `poll_topic` is the polling endpoint. `replayed`, `since`, `dropped`, `polled` and `carried` are history variables.
* **Webhooks** is the registry with one delivery task per round: `CreateTask` at the answer, `StartDispatch` when the
  task first runs and copies the list, `Post` and `Skipped` per subscription.
* **Keys** is `ApiKeyRegistry` (the two indexes `keys` and `lookup`), the key store, the admin endpoints, the decision of
  `require_role` and the start of the service with any `ECN_AUTH_ENABLED`, `ECN_JWT_SECRET` and
  `ECN_ADMIN_KEY`. A token is what its checks find out about it. `IssueFails` and `RevokeFails` are the store writes
  that raise after memory was changed. `promised` and `revoked` remember what callers were told.
* **MC...** give the constants their values; **...Lemmas** and **...Proofs** hold
  lemmas, invariants, theorems and their proofs. **NodeProofs** is about two components of a node, its health record
  and its state manager, and **StreamProofs** about both ways in which events leave the API; so that one module can
  extend two, the definitions of StateManager and Webhooks carry the component's name (`ManagerSpec`,
  `WebhooksSpec`, `WebhooksTypeOK`).

Operators named after another with a suffix (`run_consensus_InvalidVote`) are
mutants: plausible bugs of that definition. For every property of every run the
named mutant makes TLC report a violation of it.

## 3. Runs

Passing runs:

| Run | Module, configuration | Distinct states | What it asks |
|---|---|---|---|
| `consensus` | MCConsensus | 28,812 | what `run_consensus` promises for any results |
| `node` | MCNode | 72,702 | what trace, ledger and products say about each other |
| `p2p_lossy` | MCP2PLossy | 100,623 | one caller, a liar, lost messages: replicas, verdicts, termination, the end of suspicion |
| `p2p_concurrent` | MCP2PConcurrent | 838,383 | overlapping broadcasts: reported nodes, late results in the health registry, refinement of the lifecycle |
| `submit` | MCSubmit | 37,946 | overlapping requests with failing writes and crashes |
| `tenants` | Tenants, MCTenants | 361,948 | who owns the servers, what the accounts of a tenant say about each other |
| `stream` | MCStream | 620,038 | what clients and pollers get, miss and leave behind |
| `webhooks` | Webhooks, MCWebhooks | 189,451 | who is posted to while subscriptions change |
| `keys` | Keys, MCKeys | 54,236 | whose requests pass over restarts and failing writes |

Bounds and why they are enough:

* `consensus`: all subsets of four nodes, three hashes, each answer signed well or
  badly, keys for all, all but one or no node. Four is the smallest number with a
  tie of two against two as well as a majority of three; the third hash sorts
  between the other two, so ties are broken in both directions. Threshold 51/100 is the
  default of the code. One call, then nothing is left to do: deadlock is not checked.
* `node`: three accounts, one created by a mint only; amounts 0 to 2 where the
  handlers distinguish them; one product plus one that does not exist; histories
  of four transactions between resets (`MaxTrace`), one more than the longest
  chain the properties speak of (ship, receive, quarantine). The histories start from a state with balances and
  products, from `{"balances": {}}` and from the state of the service. `MaxBalance` is never reached.
* `p2p_lossy`: three nodes with one liar is the smallest honest majority; two lost
  messages cost one replica two transactions or two replicas one each. `SuspectThreshold`
  1 and `ExcludedThreshold` 2 make exclusion reachable; the registry's own thresholds
  are a parameter. `RoundTimeout` 0 with `RehabWindow` 1 means that time passes
  between broadcasts only, which with one caller is no loss: nothing else reads
  the registry during a broadcast. The corrupted hash of one state sorts after the
  true one and the others before it, so ties go both ways.
* `p2p_concurrent`: two callers, two nodes, one lost message; `SuspectThreshold` 2 and `ExcludedThreshold` 3, so that
  all states of the lifecycle but the last are passed; time passes during
  broadcasts (`RoundTimeout` 1, `RehabWindow` 2). Symmetry of nodes and of callers is
  used, and no liveness is checked with it. The execution order of the two broadcasts
  can differ per node, which is the whole effect of overlap.
* `submit`: two requests, any rounds of two nodes over two hashes (agreement,
  disagreement, one answer), one failing write, two crashes: enough for a crash during
  the second request after a restart from the first, and for a failure before or after a crash.
  Once every request is answered or lost nothing is left to do: deadlock is not checked.

* `tenants`: two handlers are the least that can overlap (create and delete, delete twice, delete and submit); two
  tenants show that one does not disturb the other; networks of one and of two nodes, so that a creation or
  deletion can be interrupted half way; two periods, two rounds, one failure, one restart, with and without a
  database. One tier suffices, since tiers differ in their rates only (`Billing!tiers` has all).
* `stream`: buffers and queues of two events overflow within three rounds (and the faults topic has fewer events than the
  other); the four kinds of request name one topic, both in either order, or one of them twice, with and without
  backfill and limit; one restart. The clients are symmetric, and no liveness is checked.
* `webhooks`: two subscriptions and two rounds: the smallest in which a list can change between its posts and two
  deliveries overlap. Ids are never drawn twice, so the run stops: deadlock is not checked.
* `keys`: two issued keys, two bootstrap secrets, three starts, one failing write: the third start meets what the
  second left of the first. The service may be down for good: deadlock is not checked. The proofs lift these bounds.

`TypeOK` of the modules is not among the properties of the runs: it is a theorem, or a part of the inductive invariant
behind the theorems (`WebhooksTypeOK` in `HooksInv`; `Typed` in NodeProofs, which does without the bounded set
`State` of `ManagerTypeOK`), and was checked with TLC before it was proved.

Runs in which TLC finds the violation they are about (see section 7):
`divergence_without_fault`, `nodes_counted_twice`, and `excluded_not_rehabilitated` (MCP2P with
DocExcludedAreRehabilitated.cfg: one caller, two nodes, no liar, no lost message, the thresholds 3 and 5 of the code;
a liveness property, under the fairness that its hypothesis needs).

The properties, by the question they answer:

* *May the verdict be wrong?* `EveryoneClassified`, `HonestMajorityWins`,
  `ReachedIsUnambiguous`, `SmallCoalitionCannotForge`, `ToleratesDocumentedFaults`,
  `UnsignedHasNoInfluence`; in the network `LiarsDetected`, `AgreedHashIsHonest`,
  `ReportedNodesExecuted`.
* *Do replicas and traces agree?* `LockStep`, `TraceReplays`, `SupplyConserved`,
  `CustodyFollowsTrace`, `QuarantineHolds`. `SupplyConserved` also says that the diffs of the trace explain every balance,
  `CustodyFollowsTrace` that nothing is delivered that was not shipped and received.
* *What happens to a failing node?* `RegistryConsistent` and `RegistryRefinesLifecycle` (overlapping broadcasts write
  its record, also after it was excluded), `SuspicionIsResolved` (it is cleared or excluded while broadcasts are made).
  That it is not rehabilitated, as documented, is what the run `excluded_not_rehabilitated` shows.
* *Is everybody charged rightly?* `ChargedExactlyOnce`, `ChargeIsEvidenced` (record, ledger entry and the event of
  the round agree on the number of nodes and the verdict),
  `UsageCoversLedger` (the counter may run ahead of the ledger by one per failed write or
  crash, never behind); for tenants `AccountsAgree`.
* *Is everybody told the truth?* `AnsweredForItsOwnRound`, `RoundsAreConsecutive`,
  `StreamFollowsAudit`, `StatusNeverRegresses`.
* *Who owns what runs?* `ServersAreOwned`, `DeletedTenantsStop`, `QueuesAreOwned`.
* *Does everybody hear of the rounds?* `InOrder`, `MissedOnlyInTheGap` (a live client misses only what came between its
  replay and its subscription, and what its own full queue lost), `PollDeliversBuffered`, `PostsAreDue`,
  `StandingHooksArePosted`.
* *Who is let in?* `IssuedKeysAccepted`, `RevokedStaysRevoked`, `OnlyAuthorisedPass`, and `BootstrapOpensAdmin`: the
  ECN_ADMIN_KEY of a start opens the admin endpoints exactly when no stored key of another role has that secret.
* *Does it end?* `BroadcastTerminates`, `SuspicionIsResolved`, `EveryRequestAnswered`, `DeletedTenantsStop`, `StandingHooksArePosted`.

## 4. Fairness

* `P2PNetwork!Fairness`: weak fairness of `HandleClient` per exchange and of `Complete` per
  caller. The event loop runs every ready task, and each wait of `_send_to_server`
  is bounded by `wait_for` (5 s to connect, 10 s to read), so an exchange is either handled
  or fails. A failure or a lost message is never forced. There is no fairness on new
  broadcasts or time: `SuspicionIsResolved` is about those behaviours in which broadcasts keep being made, and says so
  in its premise.
* `P2PNetwork!InUseSpec`, only in `excluded_not_rehabilitated`: the hypothesis of the documented lifecycle, without which an
  excluded node could wait in vain because nobody broadcasts. Callers keep broadcasting each transaction and the clock
  runs; both are strongly fair, since a broadcast under way disables them again and again.
* `Submit!LiveSpec`: weak fairness of each handler. It holds the loop until it awaits or
  ends, and its broadcast ends (`BroadcastTerminates`). Failing writes and crashes are not fair.
* `Tenants!LiveSpec`: weak fairness of each handler: the event loop runs it, starting and stopping a local server
  returns, and its broadcast ends. New requests, failures, the turn of a period and restarts are not fair. That
  `NodeServer.stop` returns is an assumption; what follows when it raises half way is not modelled.
* `Webhooks!WebhooksLiveSpec`: weak fairness of each delivery: its task is scheduled, and a post ends, with an answer or an
  exception. The latter is an assumption on the receivers: the client's `timeout=10.0` bounds each wait for the
  connection or for data, not the whole post. That `create_task` keeps no reference to the task is taken as harmless.
* Stream and Keys have safety properties only and no fairness.

## 5. Proofs

Every safety invariant and action property of the runs is a theorem, as is the refinement of the node lifecycle by the
registry of the network. All are proved by TLAPS for every value of the constants that satisfies the
named assumptions of the modules (`NodeFinite`, `HashOrder`, `ThresholdInRange`,
`Thresholds`, `NetworkConstants`, `HashesDistinct`, `ManagerConstants`, `NodeWorldConstants`,
`SubmitConstants`, `NoneIsNoRecord`, `TenantsConstants`, `StreamConstants`, `WebhooksConstants`,
`KeysConstants`, `NoneIsNoToken`). TLC evaluates the same assumptions in the runs. The fault, failure
and crash bounds are arbitrary naturals, so what is proved holds for any number of them. Three theorems of
NodeProofs have the hypothesis `AllRegistered`: the engine of the state manager is the one with all handlers. It is
what the constant `Execute` of the run `node` is defined to be, and is no assumption of a module because it speaks of
infinitely many states. Where an invariant had to be found, TLC checked it on the instance of the run (for Webhooks also on three
subscriptions and one round) before it was proved.

* **ConsensusProofs** (with ConsensusLemmas): `SpecTypeOK`, `SpecEveryoneClassified`,
  `SpecHonestMajorityWins`, `SpecReachedIsUnambiguous`, `SpecSmallCoalitionCannotForge`,
  `SpecToleratesDocumentedFaults`, `SpecUnsignedHasNoInfluence`. The invariant is that `cr` is what `run_consensus` computes
  (`ResultIsComputed`); the rest are facts about the operators: voters for two hashes are
  disjoint (`VotesDisjoint`), a winner exists and has the most votes
  (`WinnerHasMostVotes`, which needs that bounded non-empty sets of naturals have a greatest
  element), more than half of the votes decide (`MajorityWins`), a threshold above
  one half is a majority (`ThresholdIsMajority`), and a call without the results that are not counted counts the
  same votes (`OnlyCountedMatter`).
* **NodeProofs**, health record: `SpecTypeOK`, `SpecRecordConsistent`, `SpecLifecycleEdges`, about the abstract
  lifecycle. The invariant is type correctness with `RecordConsistent`, which is inductive as it stands.
* **NodeProofs**, execution trace: `SpecTraceReplays` holds for every engine; `TraceReplays` is inductive once the
  trace is known to be a sequence. `SpecQuarantineHolds`, `SpecCustodyFollowsTrace` and `SpecSupplyConserved` hold for the engine
  with all handlers, for any accounts, products and transactions. The lemmas `HandleStep` and `ExecuteStep` say what an accepted
  transaction makes of one product and of the balances; `LastEntryStep` says that a transaction becomes the last
  entry about its product and leaves the last entries about the others alone. `QuarantineHolds` is inductive with
  the types. `CustodyFollowsTrace` is not: that a receive comes right after a ship follows only because a product in
  transit was last moved by one (`TransitFollowsTrace`), which in turn needs that no reset starts with a product in transit.
  `SupplyConserved` needs that the amounts of the trace are integers, and the algebra of finite sums: `SumFunction` of the community
  modules takes the elements in the order of a CHOOSE, and `SumExists`, `SumsAgree`, `SumTakesAny` show from the well-founded order
  of the finite subsets that its recursion has a solution which does not depend on that order. So a transfer to oneself, where
  the second update reads what the first has written, leaves the total alone.
* **P2PProofs**: `SpecTypeOK`, `SpecRegistryConsistent` and `SpecExclusionIsPermanent`. `RegistryConsistent` is
  inductive with the types: whoever writes a record, the two writes keep it consistent (`WritesKeepConsistent`). The third is
  the finding of `excluded_not_rehabilitated` for all constants, and needs more than the
  registry: while a broadcast with an answer from an EXCLUDED node is under way, the
  node has been excluded for no longer than that broadcast has run (`ExclInv`), and a broadcast
  ends within `RoundTimeout < RehabWindow`; so the answer comes too early to
  rehabilitate (`AnswersComeTooEarly`). `SpecRegistryRefinesLifecycle` maps the initial record and every step of the
  network to the lifecycle of each node. The abstract specification bounds the failures in a row, so the proof must show that
  overlapping broadcasts cannot exceed the bound: failures and broadcasts that still wait for the node stay below the exclusion
  threshold plus the number of callers (`FailuresBounded`), since an EXCLUDED node is not contacted any more.
  `SpecReportedNodesExecuted` and `SpecAgreedHashIsHonest` rest on `RepliesAreReports`: a node whose answer has a hash
  executed the transaction of that broadcast, and reports the hash of some state, true or corrupted.
  `SpecLockStep` and `SpecLiarsDetected` are about one caller and no lost
  message. The invariant `SeqInv` keeps the common state before the broadcast: a node
  that has not answered is in it, a node that has answered is in the state after
  the transaction (or in the same one, if the engine raised), and all records of the registry are
  equal, so that a node is contacted exactly if all are. Then an honest majority reports
  the same hash, a liar's differs, and `MajorityWins` gives the verdict.
* **SubmitProofs**: `SpecTypeOK`, `SpecChargedExactlyOnce`, `SpecChargeIsEvidenced`,
  `SpecAnsweredForItsOwnRound`. `SubmitInv` says for each step of a handler what the database holds by
  then: the record saved last (`RecordSaved`), the event of its round (`RoundKnown`),
  whether there is an entry in the ledger (`BilledIsCharged`), and that each entry agrees with
  record and event on nodes and verdict (`LedgerAgrees`) and is the only one (`LedgerIsUnique`). `LoopIsHeld` is why
  it is inductive: only one handler has writes to do, so a record or a log cannot
  change under another's feet. A handler that fails or is lost has no step left, and a crash
  leaves the database as it is, so only what is said of the database has to survive.
  On top of it: `SpecUsageCoversLedger` (`UsageCounted`: the counter leads by the round being recorded and at most one
  round per failed write or crash), `SpecRoundsAreConsecutive` (`EventsNumbered`: memory has one event more than
  the audit table exactly while that event is being written), `SpecStreamFollowsAudit` (`BusIsBehind`: the event of the handler that
  holds the loop is the last of the log and later than all that were sent), and the action property `SpecStatusNeverRegresses`
  (`MemoryIsStored`: a record in memory is the stored one unless its caller was told of an error).
* **TenantsProofs**: `SpecTypeOK`, `SpecServersAreOwned`, `SpecAccountsAgree`. `OneOwner`: somebody answers for each tenant that was created, only
  one does, and how many of its servers run depends on who that is; two deletions cannot both own a tenant because the first takes it out of
  the registry before its first await. `Accounts`: audit log, ledger, SLA statistics and usage counter of a tenant differ by the
  round being written (`HandlersBusy`: there is one such round at most) and at most one more per failure, period by
  period. `load_entries` is a loop over the ledger; `SetInduction`, `LoopExists` and `OwnLoop` show what it returns.
* **StreamProofs**, event stream: `SpecTypeOK`, `SpecQueuesAreOwned`, `SpecInOrder`, `SpecMissedOnlyInTheGap`, `SpecPollDeliversBuffered`.
  `BuffersFollow`: a buffer holds the last numbers of its topic without a gap, from which `Consumed` derives what a replay or a
  poll returns. `SubscribedAsAsked`: a queue is subscribed once per topic, and only while its stream is live.
  `StreamsFit`: what a client has got, is being replayed and has waiting is in order and, with what was lost in the gap and
  at its full queue, complete. `PollersFollow` is the same for offsets over restarts.
* **StreamProofs**, webhooks: `SpecPostsAreDue`. `HooksInv` says that what a delivery has posted and what remains of its copy are together
  (`Places`) without repetition, in the order of the list and not withdrawn before it started, and that every post was
  wanted. Neither list alone could be followed over a step. `ThinnedList` carries the order over
  the deletion of a subscription.
* **KeysProofs**: `SpecTypeOK` and all four properties of the run, `SpecIssuedKeysAccepted`, `SpecRevokedStaysRevoked`,
  `SpecOnlyAuthorisedPass`, `SpecBootstrapOpensAdmin`. After a failed write memory and store differ, in either direction,
  so that neither can be defined from the other. What they still have in common is that no secret stands under two
  ids, within each and between the two (`SecretsListedOnce`); this is why deleting by id removes a secret for good
  (`RevokedGone`) and why no revocation, issue or bootstrap touches another key (`PromiseKept`). It is inductive because a new
  secret was never drawn before (`SecretsKnown`) and a bootstrap happens only if its secret is listed nowhere
  (lemma `InitRegistry`). It also makes `BootstrapOpensAdmin` exact: the row found for a secret is the only one with it, so
  the lookup has the admin role unless that very row has another. `LookupExact`, proved on top of it, says that the two indexes agree but for the secret
  of a bootstrap row that the present start replaced.

The induction theorems of the library take an operator as a parameter, which the installed provers cannot instantiate. Where a proof
needs induction over a number or a finite set it takes a minimal counterexample instead (`WFMin`): in `SetInduction`,
`MinimalSubset` and `LastEntry`.

Only model-checked: liveness, which under fairness is out of this prover's reach: `BroadcastTerminates`,
`SuspicionIsResolved`, `EveryRequestAnswered`, `DeletedTenantsStop`, `StandingHooksArePosted`.

## 6. Abstractions

* Hashes are opaque and collision-free; signatures are a flag; what is left of a hash's
  text is its order. A malicious node's hash differs from every true one.
* The float threshold is a fraction; comparison is exact.
* A world state that lacks "balances" is modelled (`has_balances`): the token handlers raise there, as the KeyError of the code
  does. One that lacks "products" is one with none: the handlers of the supply chain and `_compute_diff` use `get`.
* Node id lists are sets: a node answers a round once and order is not used.
* `excluded_since` is the time passed since then, capped at the window. Latency samples and
  `last_success_at` are reported and never read.
* `_send_to_server` reading the reply is part of `Complete`, as nobody can observe it
  earlier. `gather` and the code after it are one step: between the last answer and
  the resumption of the caller another handler may run, and `Complete` may be delayed past it.
* A node handles a request in one step: it does not await between reading and answering.
* In Submit a write to memory and the commit behind it are one step, since nothing runs in
  between and a crash loses the memory. `WriteFails` keeps the memory part.
* `round[r]` in Submit is a history variable: the event that the broadcast of `r` recorded. Nothing that is stored links an
  event to a transaction (`AuditEvent` keeps the transaction as it was broadcast, without its id), so
  `ChargeIsEvidenced` and `AnsweredForItsOwnRound` say which event belongs to a charge by this variable.
* The branch of `submit_transaction` for an empty result list is unreachable: the network
  raises below `min_responses`, which is 1 in the API. Durations, timestamps and `fault_count`
  are stored and read by nobody; one billing period (Tenants has several); the invalid-transition check never fires because
  the order of saves is fixed.
* In P2PNetwork servers neither start nor stop; in Tenants they do, and a broadcast is one step that ends
  with or without consensus or raises, also because the servers it wants are stopped meanwhile.
* A tenant's id is random (the route passes none), so it is drawn once. Its webhooks are those of Webhooks.
  `shutdown_all` runs when uvicorn has no request under way and is part of `Restart`.
* A bus event is its topic and number. Heartbeats change nothing and are left out.
* The id and the secret of an issued key are fresh random values; one model value stands for both. A token's encoding,
  signature and clock are flags. Claims on which a check raises (no object, an `exp` that is no number) are told apart: the
  request is answered 500.
* `Close` in Stream is the moment the generator's `finally` runs, which may be long after the client has gone. Up to then the
  stream counts as live.

## 7. Where code and documentation disagree

Shown by a run (see "findings" in `PROJECT.json`):

1. Overlapping broadcasts reach nodes in different orders; honest nodes are then flagged as
   faulty, with no liar and no lost message (`divergence_without_fault`; README.md:675).
2. A round with a faulty node is recorded and charged for more nodes than answered
   (`nodes_counted_twice`; api.py:486, transaction.py:99).
3. An EXCLUDED node is never rehabilitated, whatever it does, though README.md:274, node_health.py:14 and api.py:698
   describe how it is: `broadcast` does not contact it any more, so no success is ever recorded for it
   (`excluded_not_rehabilitated`; `SpecExclusionIsPermanent` proves it for all constants). The documents also say "within" the
   window, where `record_success` waits until it has passed.

Noticed while modelling, without a run:

* The 422 documented as "rejected by all nodes" (sdk.py:188) also stands for a transaction that every node
  executed and whose replies were lost.
* A round without consensus goes through FINALIZED and BILLED too (README.md:244 says of FINALIZED: "Quorum reached.").
* After a store write of the audit log fails, the event is in memory only: the caller gets
  422 for an executed round, and after the next restart its round number is given again although
  audit.py calls it monotonically increasing. `RoundsAreConsecutive` therefore assumes no failed write.
* README.md:267 says wrong answers demote a node; only failed exchanges and engine errors do.
  An engine error counts as a failure of the node, so five rejected transactions in a row
  exclude the whole network, and every later broadcast raises.
* p2p_network.py and consensus.py describe quorum as a share of the network; the code divides by the counted
  answers. `ECN_QUORUM_MIN_RESPONSES` is documented and never read.
* api.py describes SUSPECT as three or more failures; a REHABILITATING node becomes SUSPECT after one.
* billing.py says `record_round` is called after every successful consensus; it is called after
  every round that has results. SLA statistics are for the lifetime of the process, not the current
  period (api.py:1238), and their fault rounds are the rounds without consensus.
* A tenant's ledger charges the size of its network for each round, however many nodes answered.
* A tenant whose creation fails leaves the servers started so far running, with nobody to stop them
  (the exception in `ServersAreOwned`). After a restart all tenants are gone, and what the database
  still says of their usage answers 404.
* Between the replay and the subscription of the SSE generator events are lost (stream.py:248 promises replay, then live events).
  A topic named twice subscribes a queue twice and removes it once. An unknown topic with a backfill ends the stream. The
  data of an SSE event does not name its topic. `subscribe_live` is documented with another tuple.
* An offset from before a restart makes a poller skip the first events after it, silently: numbers start again at 0.
* A key whose revocation answered 500 is gone until the restart and back after it, and a retry answers 404 meanwhile.
* Another `ECN_ADMIN_KEY` replaces the row of the bootstrap key, and the old secret stays valid
  until the start after that (`Replaced` in `OnlyAuthorisedPass`).
* An `ECN_ADMIN_KEY` that is the secret of a stored key of another role locks the operator out: `init_registry` takes the
  key it finds for the bootstrap key (auth.py:280, "Only issue bootstrap admin if it doesn't already exist in the store") and
  issues none. `BootstrapOpensAdmin` says that this is the only case.
* execution_engine.py:130 documents ValueError only; in the service, whose state has no balances, a transfer, mint or burn
  raises KeyError, and is counted as a failure of every node.

## 8. Plan

Done: the core path, from the engine over the node, the consensus and the network to the submission with
its stores; tenants with billing periods and both backends; stream, polling and webhooks; keys, tokens and
roles; a theorem for each safety property of the runs (section 5). Next, in this order:

1. **The submission as an abstract service.** A specification of what a client is promised (a transaction is accepted, becomes
   evidenced, is charged once, or is answered with an error) and Submit shown to implement it, by a run and then step by step.
2. **The broadcast as Submit and Tenants see it.** Their environment (a round with or without consensus, or an exception) as an
   abstraction of `P2PNetwork!Complete`.
3. **Quantities behind the liveness properties.** A measure that every fair step of a handler decreases, as an action property.

Not modelled, and why:

* The Merkle variant of the state hash (`state_manager.py`): nobody in the service switches it on, and hashes are opaque here.
* RSA signatures, HMAC and base64 of tokens, SQL text, the schema version table: library calls, or written once and not read.
* The read endpoints that return stored records as they are, HTML, logging, the Stripe webhook (it only logs).
* The simulated network and the demos: sequential, and covered by Consensus without keys.
* The Python, Go, Java and JavaScript SDKs (stateless HTTP clients: each method is one request), the command line, container
  images and manifests.
