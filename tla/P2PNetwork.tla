----------------------------- MODULE P2PNetwork ------------------------------
(***************************************************************************)
(* The peer-to-peer network, ecn/p2p_network.py, with the node servers it  *)
(* talks to (ecn/node_server.py, ecn/node.py), the health registry and the *)
(* consensus layer.                                                        *)
(*                                                                         *)
(* A Slot is a caller of broadcast (a request handler of the API): it runs *)
(* one broadcast after another, and several slots run concurrently.        *)
(* Between the start of a broadcast and the end of asyncio.gather anything *)
(* may happen elsewhere; from the end of gather to the return nothing is   *)
(* awaited, so Complete is one action.  A node executes a request in one   *)
(* step, because _handle_client does not await between reading the request *)
(* and answering.                                                          *)
(*                                                                         *)
(* Time is what the health registry needs of it: a broadcast ends within   *)
(* RoundTimeout (_CONNECT_TIMEOUT plus _READ_TIMEOUT), which is less than  *)
(* the rehabilitation window.                                              *)
(***************************************************************************)
EXTENDS Consensus, NodeHealth

CONSTANTS
    Malicious,           \* nodes started with malicious=True
    Slot,                \* concurrent callers of broadcast
    State,               \* world states
    Tx,                  \* transactions
    InitialState,        \* every node starts with a copy of it
    Execute(_, _),       \* the execution engine; Error when it raises
    Error,
    compute_state_hash,  \* hash of a state
    _corrupt_hash,       \* what a malicious node reports for a state
    MinResponses,        \* min_responses
    RoundTimeout,        \* bound on the duration of a broadcast
    MaxFaults            \* bound: requests and replies the network loses

ASSUME NetworkConstants ==
    /\ Malicious \subseteq Node
    /\ IsFiniteSet(Slot)
    /\ InitialState \in State
    /\ Error \notin State
    /\ \A w \in State, tx \in Tx : Execute(w, tx) \in State \cup {Error}
    /\ MinResponses \in Nat
    /\ RoundTimeout \in Nat
    /\ RoundTimeout < RehabWindow
    /\ MaxFaults \in Nat

\* SHA-256 is collision-free, and a corrupted hash is nobody's true hash.
ASSUME HashesDistinct ==
    /\ compute_state_hash \in [State -> Hash]
    /\ _corrupt_hash \in [State -> Hash]
    /\ \A v, w \in State :
          /\ compute_state_hash[v] = compute_state_hash[w] => v = w
          /\ compute_state_hash[v] # _corrupt_hash[w]

VARIABLES
    world,     \* world[n]: the state of node n's StateManager
    call,      \* call[s]: the last broadcast of slot s
    link,      \* link[s][n]: the exchange of _send_to_server with node n
    late,      \* late[n][tx]: requests n may execute after the caller gave up
    executed,  \* executed[s]: nodes that executed the last broadcast of s (history)
    health,    \* the health registry
    faults     \* faults so far

vars == <<world, call, link, late, executed, health, faults>>

\* The exchange with one node: not contacted, request under way, answered
\* (with the hash, or with an error reply: None), or failed for the caller.
Link == [phase : {"out", "sent", "answered", "failed"}, reply : Hash \cup {None}]
LinkIn(phase) == [phase |-> phase, reply |-> None]

\* A node answers with the hash of its new state, corrupted if malicious.
ReportedHash(n, w) ==
    IF n \in Malicious THEN _corrupt_hash[w] ELSE compute_state_hash[w]

Gathering(s) == call[s].status = "gathering"

-----------------------------------------------------------------------------

Init ==
    /\ world = [n \in Node |-> InitialState]
    /\ call = [s \in Slot |-> [status |-> "idle", tx |-> None, age |-> 0, cr |-> None]]
    /\ link = [s \in Slot |-> [n \in Node |-> LinkIn("out")]]
    /\ late = [n \in Node |-> [tx \in Tx |-> 0]]
    /\ executed = [s \in Slot |-> {}]
    /\ health = [n \in Node |-> Fresh]
    /\ faults = 0

\* broadcast up to gather: the request goes to every node that is not EXCLUDED.
StartBroadcast(s, tx) ==
    /\ ~ Gathering(s)
    /\ call' = [call EXCEPT ![s] =
          [status |-> "gathering", tx |-> tx, age |-> 0, cr |-> None]]
    /\ link' = [link EXCEPT ![s] =
          [n \in Node |-> LinkIn(IF health[n].state = "EXCLUDED" THEN "out" ELSE "sent")]]
    /\ executed' = [executed EXCEPT ![s] = {}]
    /\ UNCHANGED <<world, late, health, faults>>

\* Mutant: a malicious node does not execute what it lies about.
HandleClient_LiarSkips(s, n) ==
    /\ link[s][n].phase = "sent"
    /\ LET w == Execute(world[n], call[s].tx)
       IN  IF w = Error
           THEN /\ link' = [link EXCEPT ![s][n] = LinkIn("answered")]
                /\ UNCHANGED <<world, executed>>
           ELSE /\ link' = [link EXCEPT ![s][n] =
                      [phase |-> "answered", reply |-> ReportedHash(n, w)]]
                /\ world' = [world EXCEPT ![n] = IF n \in Malicious THEN @ ELSE w]
                /\ executed' = [executed EXCEPT ![s] = @ \cup {n}]
    /\ UNCHANGED <<call, late, health, faults>>

\* Mutant: the exception of the engine is swallowed and the node answers.
HandleClient_ErrorSwallowed(s, n) ==
    /\ link[s][n].phase = "sent"
    /\ LET w == Execute(world[n], call[s].tx)
       IN  IF w = Error
           THEN /\ link' = [link EXCEPT ![s][n] =
                      [phase |-> "answered", reply |-> ReportedHash(n, world[n])]]
                /\ UNCHANGED <<world, executed>>
           ELSE /\ link' = [link EXCEPT ![s][n] =
                      [phase |-> "answered", reply |-> ReportedHash(n, w)]]
                /\ world' = [world EXCEPT ![n] = w]
                /\ executed' = [executed EXCEPT ![s] = @ \cup {n}]
    /\ UNCHANGED <<call, late, health, faults>>

\* NodeServer._handle_client: execute, sign and answer; an exception of the
\* engine becomes an error reply and changes nothing.
HandleClient(s, n) ==
    /\ link[s][n].phase = "sent"
    /\ LET w == Execute(world[n], call[s].tx)
       IN  IF w = Error
           THEN /\ link' = [link EXCEPT ![s][n] = LinkIn("answered")]
                /\ UNCHANGED <<world, executed>>
           ELSE /\ link' = [link EXCEPT ![s][n] =
                      [phase |-> "answered", reply |-> ReportedHash(n, w)]]
                /\ world' = [world EXCEPT ![n] = w]
                /\ executed' = [executed EXCEPT ![s] = @ \cup {n}]
    /\ UNCHANGED <<call, late, health, faults>>

\* The connection is refused, or not established within _CONNECT_TIMEOUT.
ConnectFails(s, n) ==
    /\ faults < MaxFaults
    /\ link[s][n].phase = "sent"
    /\ link' = [link EXCEPT ![s][n] = LinkIn("failed")]
    /\ faults' = faults + 1
    /\ UNCHANGED <<world, call, late, executed, health>>

\* readline exceeds _READ_TIMEOUT or the connection breaks: the node may
\* have executed the request already, or may still do so.
ReadTimesOut(s, n) ==
    /\ faults < MaxFaults
    /\ link[s][n].phase \in {"sent", "answered"}
    /\ link' = [link EXCEPT ![s][n] = LinkIn("failed")]
    /\ late' = IF link[s][n].phase = "sent"
               THEN [late EXCEPT ![n][call[s].tx] = @ + 1] ELSE late
    /\ faults' = faults + 1
    /\ UNCHANGED <<world, call, executed, health>>

\* _handle_client for a request whose caller has gone: nobody reads the answer.
HandleLate(n, tx) ==
    /\ late[n][tx] > 0
    /\ late' = [late EXCEPT ![n][tx] = @ - 1]
    /\ world' = [world EXCEPT ![n] =
          IF Execute(@, tx) = Error THEN @ ELSE Execute(@, tx)]
    /\ UNCHANGED <<call, link, executed, health, faults>>

\* The nodes that answered with a result: an error reply raises.
Responders(s) == {n \in Node : link[s][n].phase = "answered" /\ link[s][n].reply # None}
Contacted(s) == {n \in Node : link[s][n].phase # "out"}

\* The NodeResults of a broadcast: every server signs with its own key.
RoundResults(s) == [n \in Responders(s) |-> [hash |-> link[s][n].reply, sigOk |-> TRUE]]

\* Mutant: a failed exchange is recorded twice, where it fails and after gather.
Complete_FailureTwice(s) ==
    /\ Gathering(s)
    /\ \A n \in Node : link[s][n].phase # "sent"
    /\ health' = [n \in Node |->
          IF n \in Responders(s) THEN record_success(health[n])
          ELSE IF n \in Contacted(s) THEN record_failure(record_failure(health[n]))
          ELSE health[n]]
    /\ call' = [call EXCEPT
          ![s].status = IF Cardinality(Responders(s)) < MinResponses
                        THEN "raised" ELSE "returned",
          ![s].age = 0,
          ![s].cr = IF Cardinality(Responders(s)) < MinResponses
                    THEN None ELSE run_consensus(RoundResults(s), Node)]
    /\ link' = [link EXCEPT ![s] = [n \in Node |-> LinkIn("out")]]
    /\ UNCHANGED <<world, late, executed, faults>>

\* Mutant: with too few answers the broadcast sends again instead of raising.
Complete_Retries(s) ==
    /\ Gathering(s)
    /\ \A n \in Node : link[s][n].phase # "sent"
    /\ IF Cardinality(Responders(s)) < MinResponses
       THEN /\ link' = [link EXCEPT ![s] =
                  [n \in Node |-> LinkIn(IF n \in Contacted(s) THEN "sent" ELSE "out")]]
            /\ UNCHANGED <<call, health>>
       ELSE /\ health' = [n \in Node |->
                  IF n \in Responders(s) THEN record_success(health[n])
                  ELSE IF n \in Contacted(s) THEN record_failure(health[n])
                  ELSE health[n]]
            /\ call' = [call EXCEPT ![s].status = "returned", ![s].age = 0,
                                    ![s].cr = run_consensus(RoundResults(s), Node)]
            /\ link' = [link EXCEPT ![s] = [n \in Node |-> LinkIn("out")]]
    /\ UNCHANGED <<world, late, executed, faults>>

\* Mutant: too few answers raise before the health of the nodes is recorded.
Complete_RaisesFirst(s) ==
    /\ Gathering(s)
    /\ \A n \in Node : link[s][n].phase # "sent"
    /\ IF Cardinality(Responders(s)) < MinResponses
       THEN /\ call' = [call EXCEPT ![s].status = "raised", ![s].age = 0, ![s].cr = None]
            /\ UNCHANGED health
       ELSE /\ health' = [n \in Node |->
                  IF n \in Responders(s) THEN record_success(health[n])
                  ELSE IF n \in Contacted(s) THEN record_failure(health[n])
                  ELSE health[n]]
            /\ call' = [call EXCEPT ![s].status = "returned", ![s].age = 0,
                                    ![s].cr = run_consensus(RoundResults(s), Node)]
    /\ link' = [link EXCEPT ![s] = [n \in Node |-> LinkIn("out")]]
    /\ UNCHANGED <<world, late, executed, faults>>

\* broadcast after gather: record the health of every contacted node, check
\* min_responses, run consensus over the results and return.
Complete(s) ==
    /\ Gathering(s)
    /\ \A n \in Node : link[s][n].phase # "sent"
    /\ health' = [n \in Node |->
          IF n \in Responders(s) THEN record_success(health[n])
          ELSE IF n \in Contacted(s) THEN record_failure(health[n])
          ELSE health[n]]
    /\ call' = [call EXCEPT
          ![s].status = IF Cardinality(Responders(s)) < MinResponses
                        THEN "raised" ELSE "returned",
          ![s].age = 0,
          ![s].cr = IF Cardinality(Responders(s)) < MinResponses
                    THEN None ELSE run_consensus(RoundResults(s), Node)]
    /\ link' = [link EXCEPT ![s] = [n \in Node |-> LinkIn("out")]]
    /\ UNCHANGED <<world, late, executed, faults>>

\* external: the clock.  No broadcast outlives its timeouts.
Elapse ==
    /\ \A s \in Slot : Gathering(s) => call[s].age < RoundTimeout
    /\ call' = [s \in Slot |-> IF Gathering(s) THEN [call[s] EXCEPT !.age = @ + 1] ELSE call[s]]
    /\ health' = [n \in Node |-> Aged(health[n])]
    /\ UNCHANGED <<world, link, late, executed, faults>>

Next ==
    \/ \E s \in Slot, tx \in Tx : StartBroadcast(s, tx)
    \/ \E s \in Slot, n \in Node :
          HandleClient(s, n) \/ ConnectFails(s, n) \/ ReadTimesOut(s, n)
    \/ \E n \in Node, tx \in Tx : HandleLate(n, tx)
    \/ \E s \in Slot : Complete(s)
    \/ Elapse

Spec == Init /\ [][Next]_vars

\* The event loop runs every ready task: a server whose request arrived gets
\* to handle it, and a broadcast whose tasks have all ended returns.
Fairness ==
    /\ \A s \in Slot, n \in Node : WF_vars(HandleClient(s, n))
    /\ \A s \in Slot : WF_vars(Complete(s))

LiveSpec == Spec /\ Fairness

\* The use under which README.md and node_health.py describe the lifecycle:
\* callers keep broadcasting each transaction, and the clock runs.  Both are
\* strongly fair because a broadcast under way disables them.
InUseSpec ==
    /\ LiveSpec
    /\ \A s \in Slot, tx \in Tx : SF_vars(StartBroadcast(s, tx))
    /\ SF_vars(Elapse)

-----------------------------------------------------------------------------
(* Properties                                                              *)

TypeOK ==
    /\ world \in [Node -> State]
    /\ call \in [Slot -> [status : {"idle", "gathering", "returned", "raised"},
                          tx : Tx \cup {None}, age : 0 .. RoundTimeout,
                          cr : ConsensusResults \cup {None}]]
    /\ \A s \in Slot : Gathering(s) => call[s].tx \in Tx
    /\ link \in [Slot -> [Node -> Link]]
    /\ late \in [Node -> [Tx -> Nat]]
    /\ executed \in [Slot -> SUBSET Node]
    /\ health \in [Node -> Health]
    /\ faults \in 0 .. MaxFaults

\* One caller and a network that loses nothing.
SequentialAndReliable == Cardinality(Slot) = 1 /\ faults = 0

\* Replicas move in lock step: as long as broadcasts do not overlap and no
\* message is lost, all nodes (malicious ones too: they lie about the hash,
\* not in their state) have the same state whenever no broadcast is under
\* way, also across rejected transactions and exclusions.
LockStep ==
    SequentialAndReliable /\ (\A s \in Slot : ~ Gathering(s)) =>
        \A m, n \in Node : world[m] = world[n]

\* Under the same conditions and with an honest majority a broadcast that
\* returns flags exactly the malicious nodes.
LiarsDetected ==
    SequentialAndReliable /\ 2 * Cardinality(Malicious) < Cardinality(Node)
        /\ MinResponses > 0 =>
            \A s \in Slot : call[s].status = "returned" =>
                /\ call[s].cr.faulty_nodes = Malicious
                /\ call[s].cr.honest_nodes = Node \ Malicious

\* Every node a broadcast reports on, honest or faulty, executed its
\* transaction: lost replies, late requests and error replies of
\* overlapping broadcasts never put another node into the result.
ReportedNodesExecuted ==
    \A s \in Slot : call[s].status = "returned" =>
        call[s].cr.honest_nodes \cup call[s].cr.faulty_nodes \subseteq executed[s]

\* An agreed hash is the hash some node computed or, if the node lies, its
\* corruption; it is an honest one whenever the liars that executed cannot
\* meet the threshold among those reported on.
AgreedHashIsHonest ==
    \A s \in Slot : call[s].status = "returned" =>
        LET cr == call[s].cr
        IN  cr.consensus_reached
            /\ ~ MeetsThreshold(Cardinality(Malicious \cap executed[s]), cr.total_nodes) =>
                  /\ cr.honest_nodes \cap Malicious = {}
                  /\ \E w \in State : cr.agreed_hash = compute_state_hash[w]

\* The registry is consistent although broadcasts overlap: results that were
\* under way when another broadcast excluded the node are applied to the
\* EXCLUDED record, successes as well as failures.
RegistryConsistent == \A n \in Node : Consistent(health[n])

\* Each record of the registry follows the lifecycle of NodeHealthLifecycle:
\* one success or failure per node and broadcast, although a broadcast
\* records all its nodes at once and broadcasts overlap.  A result that was
\* under way when its node was excluded is a step of the record as it is by
\* then, not as it was when the broadcast chose its nodes.
Lifecycle(n) == INSTANCE NodeHealthLifecycle WITH
    health <- health[n], MaxFailures <- ExcludedThreshold + Cardinality(Slot)
RegistryRefinesLifecycle ==
    /\ \A n \in Node : Lifecycle(n)!Init
    /\ [][\A n \in Node : Lifecycle(n)!Next \/ UNCHANGED health[n]]_health

\* Every broadcast returns or raises.
BroadcastTerminates == \A s \in Slot : []<>(~ Gathering(s))

\* SUSPECT is a passing state: as long as broadcasts are made, a node under
\* suspicion is cleared or excluded sooner or later, although broadcasts
\* raise for too few answers and the engine rejects transactions.
SuspicionIsResolved ==
    []<>(\E s \in Slot : Gathering(s)) =>
        \A n \in Node : []<>(health[n].state # "SUSPECT")

\* An EXCLUDED node is never contacted again, and an answer to a broadcast
\* that was under way when it was excluded comes before the window has
\* passed: it stays EXCLUDED for ever.  This is what the code does, in place
\* of the rehabilitation it documents (DocExcludedAreRehabilitated).
ExclusionIsPermanent ==
    [][\A n \in Node :
          health[n].state = "EXCLUDED" => health'[n].state = "EXCLUDED"]_vars

-----------------------------------------------------------------------------
(* What the documentation says                                             *)

\* README.md, line 675: faulty_nodes is the "list of detected malicious
\* nodes", so with a network that loses nothing only those are flagged.
DocDivergenceIsFault ==
    faults = 0 =>
        \A s \in Slot : call[s].status = "returned" =>
            call[s].cr.faulty_nodes \subseteq Malicious

\* README.md, line 274: "EXCLUDED --> REHABILITATING : next success within
\* rehab window" (node_health.py, line 14, and api.py, line 698, alike): in a
\* network in use, an excluded node is re-admitted some time.
DocExcludedAreRehabilitated ==
    \A n \in Node :
        health[n].state = "EXCLUDED" ~> health[n].state = "REHABILITATING"
=============================================================================
