------------------------------ MODULE P2PProofs ------------------------------
(***************************************************************************)
(* The peer-to-peer network for every set of nodes, callers, transactions  *)
(* and every execution engine.                                             *)
(***************************************************************************)
EXTENDS P2PNetwork, ConsensusLemmas, TLAPS

\* The health record stays a record through every write.
LEMMA HealthTypes ==
    ASSUME NEW h \in Health
    PROVE  record_success(h) \in Health /\ record_failure(h) \in Health /\ Aged(h) \in Health
<1> USE Thresholds DEF Health, NodeState
<1>1. record_success(h) \in Health
  BY DEF record_success, WindowServed
<1>2. record_failure(h) \in Health
  BY DEF record_failure
<1>3. Aged(h) \in Health
  BY DEF Aged
<1> QED
  BY <1>1, <1>2, <1>3

\* Link records have their type.
LEMMA LinkTypes ==
    /\ \A p \in {"out", "sent", "answered", "failed"} : LinkIn(p) \in Link
    /\ \A r \in Hash : [phase |-> "answered", reply |-> r] \in Link
    /\ \A n \in Node, w \in State : ReportedHash(n, w) \in Hash
BY HashesDistinct DEF LinkIn, Link, ReportedHash

\* The results of a broadcast are results of some nodes.
LEMMA RoundResultsType ==
    ASSUME TypeOK, NEW s \in Slot
    PROVE  RoundResults(s) \in Results
<1>1. Responders(s) \in SUBSET Node
  BY DEF Responders
<1>2. \A n \in Responders(s) : link[s][n].reply \in Hash
  BY DEF Responders, TypeOK, Link
<1>3. RoundResults(s) \in [Responders(s) -> NodeResult]
  BY <1>2 DEF RoundResults, NodeResult
<1> QED
  BY <1>1, <1>3 DEF Results

\* Only a broadcast under way has exchanges with nodes.
LinksOfGathering ==
    \A s \in Slot, n \in Node : link[s][n].phase # "out" => Gathering(s)

CallRecord == [status : {"idle", "gathering", "returned", "raised"},
               tx : Tx \cup {None}, age : 0 .. RoundTimeout,
               cr : ConsensusResults \cup {None}]

\* Updates of a call keep it a call.
LEMMA CallUpdates ==
    ASSUME NEW c \in CallRecord
    PROVE  /\ \A a \in 0 .. RoundTimeout : [c EXCEPT !.age = a] \in CallRecord
           /\ \A st \in {"idle", "gathering", "returned", "raised"},
                 r \in ConsensusResults \cup {None} :
                 [c EXCEPT !.status = st, !.age = 0, !.cr = r] \in CallRecord
<1>1. 0 \in 0 .. RoundTimeout
  BY NetworkConstants
<1> QED
  BY <1>1 DEF CallRecord

Inv == TypeOK /\ LinksOfGathering

\* The start of a broadcast.
LEMMA StartInv ==
    ASSUME Inv, NEW s \in Slot, NEW tx \in Tx, StartBroadcast(s, tx)
    PROVE  Inv'
<1> USE NetworkConstants DEF Gathering, Inv, TypeOK
<1>1. [status |-> "gathering", tx |-> tx, age |-> 0, cr |-> None] \in CallRecord
  BY DEF CallRecord
<1>2. call' \in [Slot -> CallRecord]
  BY <1>1 DEF StartBroadcast, CallRecord
<1>3. \A r \in Slot : Gathering(r)' => call'[r].tx \in Tx
  BY DEF StartBroadcast
<1>4. link' \in [Slot -> [Node -> Link]]
  BY LinkTypes DEF StartBroadcast
<1>5. executed' \in [Slot -> SUBSET Node]
  BY DEF StartBroadcast
<1>6. LinksOfGathering'
  BY DEF StartBroadcast, LinksOfGathering
<1> QED
  BY <1>2, <1>3, <1>4, <1>5, <1>6 DEF StartBroadcast, CallRecord

\* A node handles a request.
LEMMA HandleInv ==
    ASSUME Inv, NEW s \in Slot, NEW n \in Node, HandleClient(s, n)
    PROVE  Inv'
<1> USE NetworkConstants DEF Gathering, Inv, TypeOK
<1>1. call[s].tx \in Tx
  BY DEF HandleClient, LinksOfGathering
<1>2. CASE Execute(world[n], call[s].tx) = Error
  <2>1. link' = [link EXCEPT ![s][n] = LinkIn("answered")]
    BY <1>2 DEF HandleClient
  <2>2. link' \in [Slot -> [Node -> Link]]
    BY <2>1, LinkTypes
  <2>3. LinksOfGathering'
    BY <2>1 DEF LinksOfGathering, HandleClient
  <2> QED
    BY <1>2, <2>2, <2>3 DEF HandleClient
<1>3. CASE Execute(world[n], call[s].tx) # Error
  <2> DEFINE w == Execute(world[n], call[s].tx)
             a == [phase |-> "answered", reply |-> ReportedHash(n, w)]
  <2>1. w \in State
    BY <1>1, <1>3
  <2>2. a \in Link
    BY <2>1, LinkTypes
  <2>3. /\ link' = [link EXCEPT ![s][n] = a]
        /\ world' = [world EXCEPT ![n] = w]
        /\ executed' = [executed EXCEPT ![s] = @ \cup {n}]
        /\ UNCHANGED <<call, late, health, faults>>
    BY <1>3 DEF HandleClient
  <2> HIDE DEF w, a
  <2>4. link' \in [Slot -> [Node -> Link]]
    BY <2>2, <2>3
  <2>5. world' \in [Node -> State]
    BY <2>1, <2>3
  <2>6. executed' \in [Slot -> SUBSET Node]
    BY <2>3
  <2>7. LinksOfGathering'
    BY <2>3 DEF LinksOfGathering, HandleClient
  <2> QED
    BY <2>3, <2>4, <2>5, <2>6, <2>7
<1> QED
  BY <1>2, <1>3

\* A connection that fails, a read that times out.
LEMMA FaultInv ==
    ASSUME Inv, NEW s \in Slot, NEW n \in Node, ConnectFails(s, n) \/ ReadTimesOut(s, n)
    PROVE  Inv'
<1> USE NetworkConstants DEF Gathering, Inv, TypeOK
<1>1. link' = [link EXCEPT ![s][n] = LinkIn("failed")]
  BY DEF ConnectFails, ReadTimesOut
<1>2. link' \in [Slot -> [Node -> Link]]
  BY <1>1, LinkTypes
<1>3. link[s][n].phase \in {"sent", "answered"}
  BY DEF ConnectFails, ReadTimesOut
<1>4. LinksOfGathering'
  BY <1>1, <1>3 DEF LinksOfGathering, ConnectFails, ReadTimesOut
<1>5. late' \in [Node -> [Tx -> Nat]]
  <2>1. late' = late \/ late' = [late EXCEPT ![n][call[s].tx] = @ + 1]
    BY DEF ConnectFails, ReadTimesOut
  <2>2. call[s].tx \in Tx
    BY <1>3 DEF LinksOfGathering
  <2>3. late[n][call[s].tx] + 1 \in Nat
    BY <2>2
  <2>4. [late[n] EXCEPT ![call[s].tx] = @ + 1] \in [Tx -> Nat]
    BY <2>2, <2>3
  <2> QED
    BY <2>1, <2>4
<1>6. faults' \in 0 .. MaxFaults
  BY DEF ConnectFails, ReadTimesOut
<1> QED
  BY <1>2, <1>4, <1>5, <1>6 DEF ConnectFails, ReadTimesOut

\* A request handled after its caller gave up.
LEMMA LateInv ==
    ASSUME Inv, NEW n \in Node, NEW tx \in Tx, HandleLate(n, tx)
    PROVE  Inv'
<1> USE NetworkConstants DEF Gathering, Inv, TypeOK
<1>1. late' \in [Node -> [Tx -> Nat]]
  BY DEF HandleLate
<1>2. world' \in [Node -> State]
  <2>1. Execute(world[n], tx) \in State \cup {Error}
    OBVIOUS
  <2> QED
    BY <2>1 DEF HandleLate
<1>3. LinksOfGathering'
  BY DEF LinksOfGathering, HandleLate
<1> QED
  BY <1>1, <1>2, <1>3 DEF HandleLate

\* The end of a broadcast.
LEMMA CompleteInv ==
    ASSUME Inv, NEW s \in Slot, Complete(s)
    PROVE  Inv'
<1> USE NetworkConstants DEF Gathering, Inv
<1>1. health' \in [Node -> Health]
  BY HealthTypes DEF Complete, TypeOK
<1>2. link' \in [Slot -> [Node -> Link]]
  BY LinkTypes DEF Complete, TypeOK
<1>3. /\ call' \in [Slot -> CallRecord]
      /\ call'[s].status \in {"raised", "returned"}
      /\ \A r \in Slot \ {s} : call'[r] = call[r]
  <2> DEFINE few == Cardinality(Responders(s)) < MinResponses
             st  == IF few THEN "raised" ELSE "returned"
             cr  == IF few THEN None ELSE run_consensus(RoundResults(s), Node)
  <2>1. cr \in ConsensusResults \cup {None}
    BY RoundResultsType, RunConsensusType
  <2>2. st \in {"raised", "returned"}
    OBVIOUS
  <2>3. call' = [call EXCEPT ![s].status = st, ![s].age = 0, ![s].cr = cr]
    BY DEF Complete
  <2>4. call \in [Slot -> CallRecord]
    BY DEF TypeOK, CallRecord
  <2>5. [call[s] EXCEPT !.status = st, !.age = 0, !.cr = cr] \in CallRecord
    BY <2>1, <2>2, <2>4, CallUpdates
  <2>6. [call[s] EXCEPT !.status = st, !.age = 0, !.cr = cr].status = st
    BY <2>4 DEF CallRecord
  <2> HIDE DEF st, cr
  <2>7. call' = [call EXCEPT ![s] = [call[s] EXCEPT !.status = st, !.age = 0, !.cr = cr]]
    BY <2>3, <2>4
  <2> QED
    BY <2>2, <2>4, <2>5, <2>6, <2>7
<1>4. \A r \in Slot : Gathering(r)' => call'[r].tx \in Tx
  BY <1>3 DEF TypeOK
<1>5. LinksOfGathering'
  <2> SUFFICES ASSUME NEW r \in Slot, NEW n \in Node, link'[r][n].phase # "out"
               PROVE  Gathering(r)'
    BY DEF LinksOfGathering
  <2>1. r # s
    BY DEF Complete, TypeOK, LinkIn
  <2>2. link'[r] = link[r] /\ call'[r] = call[r]
    BY <2>1, <1>3 DEF Complete, TypeOK
  <2> QED
    BY <2>2 DEF LinksOfGathering
<1> QED
  BY <1>1, <1>2, <1>3, <1>4, <1>5 DEF Complete, TypeOK, CallRecord

\* The clock.
LEMMA ElapseInv ==
    ASSUME Inv, Elapse
    PROVE  Inv'
<1> USE NetworkConstants DEF Gathering, Inv, TypeOK
<1>1. health' \in [Node -> Health]
  BY HealthTypes DEF Elapse
<1>2. call' \in [Slot -> CallRecord]
  <2> SUFFICES ASSUME NEW s \in Slot
               PROVE  call'[s] \in CallRecord
    BY DEF Elapse
  <2>1. call[s] \in CallRecord
    BY DEF CallRecord
  <2>2. CASE Gathering(s)
    <3>1. call'[s] = [call[s] EXCEPT !.age = @ + 1] /\ call[s].age < RoundTimeout
      BY <2>2 DEF Elapse
    <3>2. call[s].age + 1 \in 0 .. RoundTimeout
      BY <2>1, <3>1 DEF CallRecord
    <3> HIDE DEF Inv, TypeOK, Gathering
    <3>3. [call[s] EXCEPT !.age = call[s].age + 1] \in CallRecord
      BY <2>1, <3>2, CallUpdates
    <3> QED
      BY <3>1, <3>3
  <2>3. CASE ~ Gathering(s)
    BY <2>1, <2>3 DEF Elapse
  <2> QED
    BY <2>2, <2>3
<1>3. \A s \in Slot : call'[s].status = call[s].status /\ call'[s].tx = call[s].tx
  BY DEF Elapse
<1>4. LinksOfGathering'
  BY <1>3 DEF LinksOfGathering, Elapse
<1> QED
  BY <1>1, <1>2, <1>3, <1>4 DEF Elapse, CallRecord

\* Initially nothing is under way.
LEMMA InitInv == Init => Inv
BY NetworkConstants, LinkTypes, Thresholds
   DEF Init, Inv, TypeOK, LinksOfGathering, Gathering, Fresh, Health, NodeState, LinkIn

\* Every step keeps the invariant.
LEMMA StepInv == Inv /\ [Next]_vars => Inv'
<1> SUFFICES ASSUME Inv, [Next]_vars PROVE Inv'
  OBVIOUS
<1>1. CASE Next
  BY <1>1, StartInv, HandleInv, FaultInv, LateInv, CompleteInv, ElapseInv DEF Next
<1>2. CASE UNCHANGED vars
  BY <1>2 DEF vars, Inv, TypeOK, LinksOfGathering, Gathering
<1> QED
  BY <1>1, <1>2

\* The types of the network hold in every reachable state.
THEOREM SpecTypeOK == Spec => []TypeOK
<1>1. Inv => TypeOK
  BY DEF Inv
<1> QED
  BY <1>1, InitInv, StepInv, PTL DEF Spec

-----------------------------------------------------------------------------
(* The registry stays consistent.                                          *)

\* Each write of the registry keeps a record consistent.
LEMMA WritesKeepConsistent ==
    ASSUME NEW h \in Health, Consistent(h)
    PROVE  /\ Consistent(record_success(h))
           /\ Consistent(record_failure(h))
           /\ Consistent(Aged(h))
<1> USE Thresholds DEF Health, NodeState, Consistent
<1>1. Consistent(record_success(h))
  BY DEF record_success, WindowServed
<1>2. Consistent(record_failure(h))
  BY DEF record_failure
<1>3. Consistent(Aged(h))
  BY DEF Aged
<1> QED
  BY <1>1, <1>2, <1>3

\* Each step leaves a record as it is or writes it.
LEMMA RegistryWrites ==
    ASSUME [Next]_vars, NEW n \in Node
    PROVE  health'[n] \in {health[n], record_success(health[n]),
                           record_failure(health[n]), Aged(health[n])}
<1>1. CASE Elapse
  BY <1>1 DEF Elapse
<1>2. ASSUME NEW s \in Slot, Complete(s)
      PROVE  health'[n] \in {health[n], record_success(health[n]),
                             record_failure(health[n]), Aged(health[n])}
  BY <1>2 DEF Complete
<1>3. CASE ~ Elapse /\ ~ \E s \in Slot : Complete(s)
  BY <1>3 DEF Next, vars, StartBroadcast, HandleClient, ConnectFails, ReadTimesOut, HandleLate
<1> QED
  BY <1>1, <1>2, <1>3

\* State, counter and exclusion time of every record of the registry agree,
\* however broadcasts overlap, for all thresholds, nodes and callers.
THEOREM SpecRegistryConsistent == Spec => []RegistryConsistent
<1>1. Init => RegistryConsistent
  BY Thresholds DEF Init, RegistryConsistent, Consistent, Fresh
<1>2. Inv /\ RegistryConsistent /\ [Next]_vars => RegistryConsistent'
  <2> SUFFICES ASSUME Inv, RegistryConsistent, [Next]_vars, NEW n \in Node
               PROVE  Consistent(health'[n])
    BY DEF RegistryConsistent, Consistent
  <2>1. health[n] \in Health /\ Consistent(health[n])
    BY DEF Inv, TypeOK, RegistryConsistent
  <2> QED
    BY <2>1, RegistryWrites, WritesKeepConsistent
<1> QED
  BY <1>1, <1>2, InitInv, StepInv, PTL DEF Spec

-----------------------------------------------------------------------------
(* Exclusion is permanent.  The argument: a broadcast contacts a node only  *)
(* if it was not EXCLUDED when the broadcast started, so while an EXCLUDED  *)
(* node has an exchange under way it has been excluded for no longer than   *)
(* that broadcast has been running, which is less than the window.          *)

ExcludedDuringCall ==
    \A s \in Slot, n \in Node :
        link[s][n].phase # "out" /\ health[n].state = "EXCLUDED" =>
            health[n].excluded_for <= call[s].age

\* An exclusion time exactly while EXCLUDED.
ExclusionTimed ==
    \A n \in Node : health[n].state = "EXCLUDED" => health[n].excluded_for # None

ExclInv == Inv /\ ExcludedDuringCall /\ ExclusionTimed

\* In a state of ExclInv no answer of a broadcast rehabilitates a node.
LEMMA AnswersComeTooEarly ==
    ASSUME ExclInv, NEW s \in Slot, NEW n \in Node,
           link[s][n].phase # "out", health[n].state = "EXCLUDED"
    PROVE  /\ ~ WindowServed(health[n])
           /\ record_success(health[n]).state = "EXCLUDED"
           /\ record_success(health[n]).excluded_for = health[n].excluded_for
           /\ record_failure(health[n]).state = "EXCLUDED"
           /\ record_failure(health[n]).excluded_for = health[n].excluded_for
<1>1. health[n] \in Health /\ call[s].age \in 0 .. RoundTimeout
  BY DEF ExclInv, Inv, TypeOK
<1>2. health[n].excluded_for \in Nat /\ health[n].excluded_for <= RoundTimeout
  BY <1>1, NetworkConstants, Thresholds DEF ExclInv, ExcludedDuringCall, ExclusionTimed, Health
<1>3. ~ WindowServed(health[n])
  BY <1>2, NetworkConstants, Thresholds DEF WindowServed
<1> QED
  BY <1>3 DEF record_success, record_failure

\* What Complete does to one record.
LEMMA CompleteHealth ==
    ASSUME ExclInv, NEW s \in Slot, Complete(s), NEW n \in Node
    PROVE  /\ health[n].state = "EXCLUDED" =>
                 /\ health'[n].state = "EXCLUDED"
                 /\ health'[n].excluded_for = health[n].excluded_for
           /\ health[n].state # "EXCLUDED" /\ health'[n].state = "EXCLUDED" =>
                 health'[n].excluded_for = 0
<1>1. \/ health'[n] = record_success(health[n]) /\ link[s][n].phase # "out"
      \/ health'[n] = record_failure(health[n]) /\ link[s][n].phase # "out"
      \/ health'[n] = health[n]
  BY DEF Complete, Responders, Contacted
<1>2. health[n] \in Health
  BY DEF ExclInv, Inv, TypeOK
<1>3. CASE health[n].state = "EXCLUDED"
  BY <1>1, <1>3, AnswersComeTooEarly
<1>4. CASE health[n].state # "EXCLUDED"
  BY <1>1, <1>2, <1>4, Thresholds DEF record_success, record_failure, Health
<1> QED
  BY <1>3, <1>4

\* Complete keeps the exclusion invariant.
LEMMA CompleteExcl ==
    ASSUME ExclInv, NEW s \in Slot, Complete(s)
    PROVE  ExclInv'
<1>1. Inv'
  BY CompleteInv DEF ExclInv
<1>2. \A n \in Node : health[n] \in Health /\ health'[n] \in Health
  BY <1>1 DEF ExclInv, Inv, TypeOK
<1>3. ExclusionTimed'
  BY <1>2, CompleteHealth, Thresholds DEF ExclInv, ExclusionTimed
<1>4. ExcludedDuringCall'
  <2> SUFFICES ASSUME NEW r \in Slot, NEW n \in Node,
                      link'[r][n].phase # "out", health'[n].state = "EXCLUDED"
               PROVE  health'[n].excluded_for <= call'[r].age
    BY DEF ExcludedDuringCall
  <2>1. r # s
    BY DEF Complete, LinkIn, ExclInv, Inv, TypeOK
  <2>2. link'[r] = link[r] /\ call'[r].age = call[r].age
    BY <2>1 DEF Complete, ExclInv, Inv, TypeOK
  <2>3. call[r].age \in Nat
    BY NetworkConstants DEF ExclInv, Inv, TypeOK
  <2>4. CASE health[n].state = "EXCLUDED"
    BY <2>2, <2>4, CompleteHealth DEF ExclInv, ExcludedDuringCall
  <2>5. CASE health[n].state # "EXCLUDED"
    BY <2>2, <2>3, <2>5, CompleteHealth
  <2> QED
    BY <2>4, <2>5
<1> QED
  BY <1>1, <1>3, <1>4 DEF ExclInv

\* Aging a record.
LEMMA AgedFacts ==
    ASSUME NEW h \in Health
    PROVE  /\ Aged(h).state = h.state
           /\ h.excluded_for # None =>
                 /\ h.excluded_for \in Nat
                 /\ Aged(h).excluded_for # None
                 /\ Aged(h).excluded_for \in Nat
                 /\ Aged(h).excluded_for <= h.excluded_for + 1
<1>1. /\ Aged(h).state = h.state
      /\ Aged(h).excluded_for =
            IF h.excluded_for # None /\ h.excluded_for < RehabWindow
            THEN h.excluded_for + 1 ELSE h.excluded_for
  BY DEF Aged, Health
<1>2. h.excluded_for # None => h.excluded_for \in Nat
  BY Thresholds DEF Health
<1> QED
  BY <1>1, <1>2, Thresholds

\* The clock keeps the exclusion invariant: both ages grow together.
LEMMA ElapseExcl ==
    ASSUME ExclInv, Elapse
    PROVE  ExclInv'
<1>1. Inv'
  BY ElapseInv DEF ExclInv
<1>2. \A n \in Node : /\ health[n] \in Health
                       /\ health'[n] = Aged(health[n])
                       /\ health'[n].state = health[n].state
  BY AgedFacts DEF ExclInv, Inv, TypeOK, Elapse
<1>3. ExclusionTimed'
  BY <1>2, AgedFacts DEF ExclInv, ExclusionTimed
<1>4. ExcludedDuringCall'
  <2> SUFFICES ASSUME NEW r \in Slot, NEW n \in Node,
                      link'[r][n].phase # "out", health'[n].state = "EXCLUDED"
               PROVE  health'[n].excluded_for <= call'[r].age
    BY DEF ExcludedDuringCall
  <2>1. link'[r] = link[r]
    BY DEF Elapse
  <2>2. Gathering(r)
    BY <2>1 DEF ExclInv, Inv, LinksOfGathering
  <2>3. call'[r].age = call[r].age + 1 /\ call[r].age \in Nat
    BY <2>2, NetworkConstants DEF Elapse, ExclInv, Inv, TypeOK
  <2>4. health[n].state = "EXCLUDED" /\ health[n].excluded_for <= call[r].age
    BY <1>2, <2>1 DEF ExclInv, ExcludedDuringCall
  <2>5. /\ health[n].excluded_for \in Nat
        /\ health'[n].excluded_for \in Nat
        /\ health'[n].excluded_for <= health[n].excluded_for + 1
    BY <1>2, <2>4, AgedFacts DEF ExclInv, ExclusionTimed
  <2> QED
    BY <2>3, <2>4, <2>5
<1> QED
  BY <1>1, <1>3, <1>4 DEF ExclInv

\* The actions that leave the health registry alone and start no exchange
\* with an EXCLUDED node keep the exclusion invariant.
LEMMA OtherExcl ==
    ASSUME ExclInv,
           \/ \E s \in Slot, tx \in Tx : StartBroadcast(s, tx)
           \/ \E s \in Slot, n \in Node :
                 HandleClient(s, n) \/ ConnectFails(s, n) \/ ReadTimesOut(s, n)
           \/ \E n \in Node, tx \in Tx : HandleLate(n, tx)
    PROVE  ExclInv' /\ UNCHANGED health
<1>1. Inv'
  BY StartInv, HandleInv, FaultInv, LateInv DEF ExclInv
<1>2. UNCHANGED health
  BY DEF StartBroadcast, HandleClient, ConnectFails, ReadTimesOut, HandleLate
<1>3. ASSUME NEW r \in Slot, NEW n \in Node,
             link'[r][n].phase # "out", health[n].state = "EXCLUDED"
      PROVE  link[r][n].phase # "out" /\ call'[r] = call[r]
  <2>1. CASE \E s \in Slot, tx \in Tx : StartBroadcast(s, tx)
    BY <1>3, <2>1 DEF StartBroadcast, LinkIn, ExclInv, Inv, TypeOK
  <2>2. CASE \E s \in Slot, m \in Node :
               HandleClient(s, m) \/ ConnectFails(s, m) \/ ReadTimesOut(s, m)
    <3>1. PICK s \in Slot, m \in Node :
                 HandleClient(s, m) \/ ConnectFails(s, m) \/ ReadTimesOut(s, m)
      BY <2>2
    <3>2. PICK l : link' = [link EXCEPT ![s][m] = l]
      BY <3>1 DEF HandleClient, ConnectFails, ReadTimesOut
    <3>3. link[s][m].phase # "out" /\ UNCHANGED call
      BY <3>1 DEF HandleClient, ConnectFails, ReadTimesOut
    <3>4. (r = s /\ n = m) \/ link'[r][n] = link[r][n]
      BY <3>2 DEF ExclInv, Inv, TypeOK
    <3> QED
      BY <1>3, <3>3, <3>4
  <2>3. CASE \E m \in Node, tx \in Tx : HandleLate(m, tx)
    BY <1>3, <2>3 DEF HandleLate
  <2> QED
    BY <2>1, <2>2, <2>3
<1>4. ExcludedDuringCall'
  BY <1>2, <1>3 DEF ExclInv, ExcludedDuringCall
<1>5. ExclusionTimed'
  BY <1>2 DEF ExclInv, ExclusionTimed
<1> QED
  BY <1>1, <1>2, <1>4, <1>5 DEF ExclInv

\* Every step keeps the exclusion invariant and every exclusion.
LEMMA StepExcl ==
    ASSUME ExclInv, [Next]_vars
    PROVE  /\ ExclInv'
           /\ \A n \in Node : health[n].state = "EXCLUDED" => health'[n].state = "EXCLUDED"
<1>1. CASE UNCHANGED vars
  BY <1>1, StepInv DEF vars, ExclInv, ExcludedDuringCall, ExclusionTimed
<1>2. CASE \E s \in Slot : Complete(s)
  BY <1>2, CompleteExcl, CompleteHealth
<1>3. CASE Elapse
  BY <1>3, ElapseExcl DEF Elapse, Aged, ExclInv, Inv, TypeOK, Health
<1>4. CASE ~ UNCHANGED vars /\ ~ Elapse /\ ~ \E s \in Slot : Complete(s)
  BY <1>4, OtherExcl DEF Next
<1> QED
  BY <1>1, <1>2, <1>3, <1>4

\* Once EXCLUDED, a node of a P2PNetwork is EXCLUDED for ever, whatever the
\* thresholds, the number of nodes and the interleaving of broadcasts: the
\* documented rehabilitation (DocExcludedAreRehabilitated) never happens.
THEOREM SpecExclusionIsPermanent == Spec => ExclusionIsPermanent
<1>1. Init => ExclInv
  BY InitInv DEF Init, ExclInv, ExcludedDuringCall, ExclusionTimed, Fresh
<1>2. ExclInv /\ [Next]_vars => ExclInv'
  BY StepExcl
<1>3. ExclInv /\ [Next]_vars =>
         [\A n \in Node : health[n].state = "EXCLUDED" => health'[n].state = "EXCLUDED"]_vars
  BY StepExcl
<1> QED
  BY <1>1, <1>2, <1>3, PTL DEF Spec, ExclusionIsPermanent

-----------------------------------------------------------------------------
(* The registry follows the lifecycle of NodeHealthLifecycle.  The bound on *)
(* the failures that the lifecycle counts: an EXCLUDED node is contacted by *)
(* no new broadcast, so each further failure ends one of the exchanges that *)
(* were under way when it was excluded.                                     *)

Busy(n) == {s \in Slot : link[s][n].phase # "out"}

FailuresBounded ==
    \A n \in Node :
        /\ health[n].state # "EXCLUDED" => health[n].consecutive_failures < ExcludedThreshold
        /\ health[n].consecutive_failures + Cardinality(Busy(n))
              < ExcludedThreshold + Cardinality(Slot)

\* The exchanges with a node are finitely many, at most one per slot.
LEMMA BusyTypes ==
    \A n \in Node : /\ IsFiniteSet(Busy(n))
                    /\ Cardinality(Busy(n)) \in Nat
                    /\ Cardinality(Slot) \in Nat
                    /\ Cardinality(Busy(n)) <= Cardinality(Slot)
<1>1. \A n : Busy(n) \in SUBSET Slot
  BY DEF Busy
<1> QED
  BY <1>1, NetworkConstants, FS_Subset, FS_CardinalityType

\* What the writes of the registry do to the counter and the state.
LEMMA CounterFacts ==
    ASSUME NEW h \in Health
    PROVE  /\ h.consecutive_failures \in Nat
           /\ record_success(h).consecutive_failures = 0
           /\ record_failure(h).consecutive_failures = h.consecutive_failures + 1
           /\ record_failure(h).state # "EXCLUDED" =>
                 h.consecutive_failures + 1 < ExcludedThreshold
           /\ Aged(h).consecutive_failures = h.consecutive_failures
           /\ Aged(h).state = h.state
<1>1. h.consecutive_failures \in Nat
  BY DEF Health
<1>2. record_success(h).consecutive_failures = 0
  BY DEF record_success
<1>3. /\ record_failure(h).consecutive_failures = h.consecutive_failures + 1
      /\ record_failure(h).state # "EXCLUDED" =>
            ~ (h.consecutive_failures + 1 >= ExcludedThreshold)
  BY DEF record_failure
<1>4. /\ Aged(h).consecutive_failures = h.consecutive_failures
      /\ Aged(h).state = h.state
  BY DEF Aged, Health
<1> QED
  BY <1>1, <1>2, <1>3, <1>4, Thresholds

\* The end of a broadcast takes its slot from the exchanges under way.
LEMMA CompleteBusy ==
    ASSUME Inv, NEW s \in Slot, Complete(s), NEW n \in Node
    PROVE  /\ Busy(n)' = Busy(n) \ {s}
           /\ Cardinality(Busy(n)') <= Cardinality(Busy(n))
           /\ link[s][n].phase # "out" => Cardinality(Busy(n)') = Cardinality(Busy(n)) - 1
<1>1. /\ link'[s][n].phase = "out"
      /\ \A r \in Slot : r # s => link'[r] = link[r]
  BY DEF Complete, Inv, TypeOK, LinkIn
<1>2. Busy(n)' = Busy(n) \ {s}
  BY <1>1 DEF Busy
<1>3. Cardinality(Busy(n) \ {s}) = IF s \in Busy(n) THEN Cardinality(Busy(n)) - 1
                                   ELSE Cardinality(Busy(n))
  BY BusyTypes, FS_RemoveElement
<1>4. link[s][n].phase # "out" => s \in Busy(n)
  BY DEF Busy
<1> QED
  BY <1>2, <1>3, <1>4, BusyTypes

\* Complete keeps the bound.
LEMMA CompleteBounded ==
    ASSUME Inv, FailuresBounded, NEW s \in Slot, Complete(s)
    PROVE  FailuresBounded'
<1> SUFFICES ASSUME NEW n \in Node
             PROVE  /\ health'[n].state # "EXCLUDED" =>
                          health'[n].consecutive_failures < ExcludedThreshold
                    /\ health'[n].consecutive_failures + Cardinality(Busy(n)')
                          < ExcludedThreshold + Cardinality(Slot)
  BY DEF FailuresBounded
<1> DEFINE f == health[n].consecutive_failures
           k == Cardinality(Busy(n))
<1>1. health[n] \in Health /\ f \in Nat
  BY CounterFacts DEF Inv, TypeOK
<1>2. /\ k \in Nat /\ Cardinality(Slot) \in Nat /\ k <= Cardinality(Slot)
      /\ Cardinality(Busy(n)') \in Nat /\ Cardinality(Busy(n)') <= k
      /\ link[s][n].phase # "out" => Cardinality(Busy(n)') = k - 1
  <2>1. Busy(n)' = Busy(n) \ {s} /\ Cardinality(Busy(n) \ {s}) \in Nat
    BY CompleteBusy, BusyTypes, FS_RemoveElement, FS_CardinalityType
  <2> QED
    BY <2>1, CompleteBusy, BusyTypes
<1>3. /\ health[n].state # "EXCLUDED" => f < ExcludedThreshold
      /\ f + k < ExcludedThreshold + Cardinality(Slot)
      /\ ExcludedThreshold \in Nat /\ ExcludedThreshold > 0
  BY Thresholds DEF FailuresBounded
<1>4. CASE n \in Responders(s)
  <2>1. health'[n] = record_success(health[n])
    BY <1>4 DEF Complete
  <2>2. health'[n].consecutive_failures = 0
    BY <1>1, <2>1, CounterFacts
  <2>3. link[s][n].phase # "out"
    BY <1>4 DEF Responders
  <2> HIDE DEF f, k
  <2> QED
    BY <1>2, <1>3, <2>2, <2>3
<1>5. CASE n \in Contacted(s) \ Responders(s)
  <2>1. health'[n] = record_failure(health[n]) /\ link[s][n].phase # "out"
    BY <1>5 DEF Complete, Contacted
  <2>2. /\ health'[n].consecutive_failures = f + 1
        /\ health'[n].state # "EXCLUDED" => f + 1 < ExcludedThreshold
    BY <1>1, <2>1, CounterFacts
  <2> HIDE DEF f, k
  <2> QED
    BY <1>1, <1>2, <1>3, <2>1, <2>2
<1>6. CASE n \notin Contacted(s) \cup Responders(s)
  <2>1. health'[n] = health[n]
    BY <1>6 DEF Complete
  <2> QED
    BY <1>1, <1>2, <1>3, <2>1
<1> QED
  BY <1>4, <1>5, <1>6

\* The start of a broadcast keeps the bound: an EXCLUDED node is left out.
LEMMA StartBounded ==
    ASSUME Inv, FailuresBounded, NEW s \in Slot, NEW tx \in Tx, StartBroadcast(s, tx)
    PROVE  FailuresBounded'
<1> SUFFICES ASSUME NEW n \in Node
             PROVE  /\ health[n].state # "EXCLUDED" =>
                          health[n].consecutive_failures < ExcludedThreshold
                    /\ health[n].consecutive_failures + Cardinality(Busy(n)')
                          < ExcludedThreshold + Cardinality(Slot)
  BY DEF FailuresBounded, StartBroadcast
<1> DEFINE f == health[n].consecutive_failures
<1>1. f \in Nat /\ ExcludedThreshold \in Nat
  BY CounterFacts, Thresholds DEF Inv, TypeOK
<1>2. /\ health[n].state # "EXCLUDED" => f < ExcludedThreshold
      /\ f + Cardinality(Busy(n)) < ExcludedThreshold + Cardinality(Slot)
  BY DEF FailuresBounded
<1>3. CASE health[n].state = "EXCLUDED"
  <2>1. link[s][n].phase = "out" /\ link'[s][n].phase = "out"
    BY <1>3 DEF StartBroadcast, Inv, TypeOK, LinksOfGathering, LinkIn
  <2>2. \A r \in Slot : r # s => link'[r] = link[r]
    BY DEF StartBroadcast, Inv, TypeOK
  <2>3. Busy(n)' = Busy(n)
    BY <2>1, <2>2 DEF Busy
  <2> QED
    BY <1>2, <2>3
<1>4. CASE health[n].state # "EXCLUDED"
  <2>1. Busy(n)' \in SUBSET Slot
    BY DEF Busy
  <2>2. /\ Cardinality(Busy(n)') \in Nat
        /\ Cardinality(Slot) \in Nat
        /\ Cardinality(Busy(n)') <= Cardinality(Slot)
    BY <2>1, NetworkConstants, FS_Subset, FS_CardinalityType
  <2> QED
    BY <1>1, <1>2, <1>4, <2>2
<1> QED
  BY <1>3, <1>4

\* Every step keeps the bound.
LEMMA StepBounded == Inv /\ FailuresBounded /\ [Next]_vars => FailuresBounded'
<1> SUFFICES ASSUME Inv, FailuresBounded, [Next]_vars PROVE FailuresBounded'
  OBVIOUS
<1>1. ASSUME UNCHANGED health, \A n \in Node : Busy(n)' = Busy(n) PROVE FailuresBounded'
  BY <1>1 DEF FailuresBounded
<1>2. ASSUME UNCHANGED <<link, health>> PROVE FailuresBounded'
  BY <1>1, <1>2 DEF Busy
<1>3. ASSUME NEW s \in Slot, NEW n \in Node,
             HandleClient(s, n) \/ ConnectFails(s, n) \/ ReadTimesOut(s, n)
      PROVE  FailuresBounded'
  <2>1. PICK l : link' = [link EXCEPT ![s][n] = l] /\ l.phase # "out"
    <3>1. \A p : LinkIn(p).phase = p
      BY DEF LinkIn
    <3>2. \A x : [phase |-> "answered", reply |-> x].phase = "answered"
      OBVIOUS
    <3>3. CASE HandleClient(s, n)
      BY <3>1, <3>2, <3>3 DEF HandleClient
    <3>4. CASE ConnectFails(s, n) \/ ReadTimesOut(s, n)
      BY <3>1, <3>4 DEF ConnectFails, ReadTimesOut
    <3> QED
      BY <1>3, <3>3, <3>4
  <2>2. link[s][n].phase # "out" /\ UNCHANGED health
    BY <1>3 DEF HandleClient, ConnectFails, ReadTimesOut
  <2>3. ASSUME NEW m \in Node PROVE Busy(m)' = Busy(m)
    <3>1. \A r \in Slot : link'[r][m].phase # "out" <=> link[r][m].phase # "out"
      BY <2>1, <2>2 DEF Inv, TypeOK
    <3> QED
      BY <3>1 DEF Busy
  <2> QED
    BY <1>1, <2>2, <2>3
<1>4. CASE Elapse
  <2>1. /\ \A n \in Node : Busy(n)' = Busy(n)
        /\ \A n \in Node : health[n] \in Health /\ health'[n] = Aged(health[n])
    BY <1>4 DEF Elapse, Busy, Inv, TypeOK
  <2> QED
    BY <2>1, CounterFacts DEF FailuresBounded
<1>5. CASE UNCHANGED vars
  BY <1>2, <1>5 DEF vars
<1>6. CASE \E n \in Node, tx \in Tx : HandleLate(n, tx)
  BY <1>2, <1>6 DEF HandleLate
<1> QED
  BY <1>3, <1>4, <1>5, <1>6, StartBounded, CompleteBounded DEF Next

\* The writes of the registry are those of the lifecycle.
LEMMA LifecycleSteps ==
    ASSUME NEW n \in Node
    PROVE  /\ health[n] = Fresh => Lifecycle(n)!Init
           /\ health'[n] = record_success(health[n]) => Lifecycle(n)!Next
           /\ health'[n] = Aged(health[n]) => Lifecycle(n)!Next
           /\ health'[n] = record_failure(health[n])
              /\ health[n].consecutive_failures < ExcludedThreshold + Cardinality(Slot) =>
                    Lifecycle(n)!Next
BY DEF Lifecycle!Init, Lifecycle!Fresh, Fresh, Lifecycle!Next, Lifecycle!RecordSuccess,
       Lifecycle!record_success, record_success, Lifecycle!WindowServed, WindowServed,
       Lifecycle!RecordFailure, Lifecycle!record_failure, record_failure,
       Lifecycle!Elapse, Lifecycle!Aged, Aged

\* Each step is, for every node, a step of its lifecycle or none.
LEMMA StepLifecycle ==
    ASSUME Inv, FailuresBounded, [Next]_vars
    PROVE  [\A n \in Node : Lifecycle(n)!Next \/ UNCHANGED health[n]]_health
<1>1. CASE Elapse
  <2>1. \A n \in Node : health'[n] = Aged(health[n])
    BY <1>1 DEF Elapse
  <2> QED
    BY <2>1, LifecycleSteps
<1>2. ASSUME NEW s \in Slot, Complete(s)
      PROVE  \A n \in Node : Lifecycle(n)!Next \/ UNCHANGED health[n]
  <2> SUFFICES ASSUME NEW n \in Node PROVE Lifecycle(n)!Next \/ UNCHANGED health[n]
    OBVIOUS
  <2>1. CASE n \in Responders(s)
    BY <1>2, <2>1, LifecycleSteps DEF Complete
  <2>2. CASE n \in Contacted(s) \ Responders(s)
    <3>1. health'[n] = record_failure(health[n]) /\ s \in Busy(n)
      BY <1>2, <2>2 DEF Complete, Contacted, Busy
    <3>2. Cardinality(Busy(n)) # 0
      BY <3>1, BusyTypes, FS_EmptySet
    <3>3. /\ health[n].consecutive_failures \in Nat
          /\ Cardinality(Busy(n)) \in Nat
          /\ Cardinality(Slot) \in Nat
          /\ ExcludedThreshold \in Nat
          /\ health[n].consecutive_failures + Cardinality(Busy(n))
                < ExcludedThreshold + Cardinality(Slot)
      BY BusyTypes, CounterFacts, Thresholds DEF Inv, TypeOK, FailuresBounded
    <3>4. health[n].consecutive_failures < ExcludedThreshold + Cardinality(Slot)
      BY <3>3
    <3> QED
      BY <3>1, <3>4, LifecycleSteps
  <2>3. CASE n \notin Contacted(s) \cup Responders(s)
    BY <1>2, <2>3 DEF Complete
  <2> QED
    BY <2>1, <2>2, <2>3
<1>3. CASE ~ Elapse /\ ~ \E s \in Slot : Complete(s)
  <2>1. UNCHANGED health
    BY <1>3 DEF Next, vars, StartBroadcast, HandleClient, ConnectFails, ReadTimesOut, HandleLate
  <2> QED
    BY <2>1
<1> QED
  BY <1>1, <1>2, <1>3

\* The health registry implements the lifecycle of each of its nodes: a
\* broadcast records one success or failure per contacted node, however
\* many broadcasts overlap, and at most one more failure per caller once
\* the node is EXCLUDED.
THEOREM SpecRegistryRefinesLifecycle == Spec => RegistryRefinesLifecycle
<1>1. Init => FailuresBounded
  <2> SUFFICES ASSUME Init, NEW n \in Node
               PROVE  /\ health[n].state # "EXCLUDED" =>
                            health[n].consecutive_failures < ExcludedThreshold
                      /\ health[n].consecutive_failures + Cardinality(Busy(n))
                            < ExcludedThreshold + Cardinality(Slot)
    BY DEF FailuresBounded
  <2>1. health[n].consecutive_failures = 0
    BY DEF Init, Fresh
  <2>2. Busy(n) = {}
    BY DEF Init, Busy, LinkIn
  <2>3. Cardinality(Busy(n)) = 0 /\ Cardinality(Slot) \in Nat
    BY <2>2, FS_EmptySet, BusyTypes
  <2> QED
    BY <2>1, <2>3, Thresholds
<1>2. Init => \A n \in Node : Lifecycle(n)!Init
  BY LifecycleSteps DEF Init
<1>3. Inv /\ FailuresBounded /\ [Next]_vars =>
         [\A n \in Node : Lifecycle(n)!Next \/ UNCHANGED health[n]]_health
  BY StepLifecycle
<1> QED
  BY <1>1, <1>2, <1>3, InitInv, StepInv, StepBounded, PTL DEF Spec, RegistryRefinesLifecycle

-----------------------------------------------------------------------------
(* What a broadcast reports.                                               *)

\* A node that answered with a hash executed the transaction, and the hash
\* is what it reports of some state.
RepliesAreReports ==
    \A s \in Slot, n \in Node :
        link[s][n].phase = "answered" /\ link[s][n].reply # None =>
            /\ n \in executed[s]
            /\ \E w \in State : link[s][n].reply = ReportedHash(n, w)

\* The nodes a result reports on are the nodes that answered, and with every
\* signature in order they are all counted.
LEMMA ReportedAnswered ==
    ASSUME TypeOK, NEW s \in Slot
    PROVE  LET res == RoundResults(s)
               cr  == run_consensus(res, Node)
           IN  /\ cr.honest_nodes \cup cr.faulty_nodes = Responders(s)
               /\ cr.consensus_reached =>
                     /\ cr.honest_nodes = VotersFor(res, Responders(s), cr.agreed_hash)
                     /\ cr.honest_nodes # {}
                     /\ cr.total_nodes = Cardinality(Responders(s))
                     /\ MeetsThreshold(Cardinality(cr.honest_nodes), cr.total_nodes)
<1> DEFINE res == RoundResults(s)
           R   == Responders(s)
           w   == _select_winner(res, R)
           hon == VotersFor(res, R, w)
           cr  == run_consensus(res, Node)
<1>1. R \in SUBSET Node /\ IsFiniteSet(R) /\ DOMAIN res = R
  <2>1. R \in SUBSET Node
    BY DEF Responders
  <2> QED
    BY <2>1, NodeFinite, FS_Subset DEF RoundResults
<1>2. verified_results(res, Node) = R
  BY <1>1 DEF verified_results, RoundResults
<1>3. \A n \in R : res[n].hash \in Hash
  BY DEF RoundResults, Responders, TypeOK, Link
<1>4. CASE R = {}
  <2>1. cr = ConsensusResult(None, 0, 0, {}, R, R \ R)
    BY <1>1, <1>2, <1>4 DEF run_consensus
  <2> HIDE DEF cr
  <2>2. ~ cr.consensus_reached /\ cr.honest_nodes = {} /\ cr.faulty_nodes = R
    BY <2>1 DEF ConsensusResult
  <2> QED
    BY <2>2 DEF cr
<1>5. CASE R # {}
  <2>1. cr = ConsensusResult(w, Votes(res, R, w), Cardinality(R), hon, (R \ hon) \cup (R \ R), R \ R)
    BY <1>1, <1>2, <1>5 DEF run_consensus
  <2>2. (R \ hon) \cup (R \ R) = R \ hon /\ hon \in SUBSET R
    BY DEF VotersFor
  <2>3. w \in VotedHashes(res, R)
    BY <1>1, <1>3, <1>5, WinnerHasMostVotes
  <2>4. hon # {}
    BY <2>3 DEF VotedHashes, VotersFor
  <2>5. Votes(res, R, w) = Cardinality(hon)
    BY DEF Votes
  <2>6. Cardinality(hon) + Cardinality(R \ hon) = Cardinality(R)
    <3>1. R \cap hon = hon
      BY <2>2
    <3>2. /\ IsFiniteSet(hon) /\ Cardinality(hon) \in Nat
          /\ Cardinality(R) \in Nat
          /\ Cardinality(R \ hon) = Cardinality(R) - Cardinality(R \cap hon)
      BY <1>1, <2>2, FS_Subset, FS_Difference, FS_CardinalityType
    <3> QED
      BY <3>1, <3>2
  <2> HIDE DEF cr, w, hon
  <2>7. /\ cr.agreed_hash = w
        /\ cr.honest_nodes = hon
        /\ cr.faulty_nodes = R \ hon
        /\ cr.total_nodes = Cardinality(R)
        /\ cr.consensus_reached => MeetsThreshold(Cardinality(hon), Cardinality(R))
    BY <2>1, <2>2, <2>5, <2>6 DEF ConsensusResult
  <2>8. cr.honest_nodes \cup cr.faulty_nodes = R
    BY <2>2, <2>7
  <2> QED
    BY <2>4, <2>7, <2>8 DEF cr, w, hon
<1> QED
  BY <1>4, <1>5

\* A result that is returned is that of the answers.
LEMMA CompleteCall ==
    ASSUME Inv, NEW s \in Slot, Complete(s)
    PROVE  /\ \A r \in Slot : r # s => call'[r] = call[r]
           /\ call'[s].status = "returned" =>
                 call'[s].cr = run_consensus(RoundResults(s), Node)
           /\ \A n \in Node : link'[s][n].phase = "out"
           /\ \A r \in Slot : r # s => link'[r] = link[r]
           /\ UNCHANGED executed
<1> DEFINE few == Cardinality(Responders(s)) < MinResponses
           st  == IF few THEN "raised" ELSE "returned"
           cr  == IF few THEN None ELSE run_consensus(RoundResults(s), Node)
<1>1. call' = [call EXCEPT ![s].status = st, ![s].age = 0, ![s].cr = cr]
  BY DEF Complete
<1>2. st = "returned" => cr = run_consensus(RoundResults(s), Node)
  OBVIOUS
<1> HIDE DEF st, cr
<1>3. /\ \A r \in Slot : r # s => call'[r] = call[r]
      /\ call'[s].status = st
      /\ call'[s].cr = cr
  BY <1>1 DEF Inv, TypeOK
<1>4. /\ \A n \in Node : link'[s][n].phase = "out"
      /\ \A r \in Slot : r # s => link'[r] = link[r]
  BY DEF Complete, Inv, TypeOK, LinkIn
<1> QED
  BY <1>2, <1>3, <1>4 DEF Complete

\* A broadcast that has returned keeps its result and the nodes that
\* executed its transaction, until its slot starts another one.
LEMMA ReturnedStays ==
    ASSUME Inv, [Next]_vars, NEW s \in Slot, call'[s].status = "returned", ~ Complete(s)
    PROVE  /\ call[s].status = "returned"
           /\ call'[s] = call[s]
           /\ executed'[s] = executed[s]
<1> USE DEF Gathering
<1>1. CASE Elapse
  BY <1>1 DEF Elapse, Inv, TypeOK
<1>2. ASSUME NEW r \in Slot, Complete(r)
      PROVE  call'[s] = call[s] /\ executed'[s] = executed[s]
  BY <1>2, CompleteCall
<1>3. ASSUME NEW r \in Slot, NEW n \in Node, HandleClient(r, n)
      PROVE  call'[s] = call[s] /\ executed'[s] = executed[s]
  <2>1. call' = call /\ r # s
    BY <1>3 DEF HandleClient, Inv, LinksOfGathering
  <2>2. executed' = executed \/ executed' = [executed EXCEPT ![r] = @ \cup {n}]
    BY <1>3 DEF HandleClient
  <2> QED
    BY <2>1, <2>2 DEF Inv, TypeOK
<1>4. ASSUME NEW r \in Slot, NEW tx \in Tx, StartBroadcast(r, tx)
      PROVE  call'[s] = call[s] /\ executed'[s] = executed[s]
  <2>1. r # s
    BY <1>4 DEF StartBroadcast, Inv, TypeOK
  <2> QED
    BY <1>4, <2>1 DEF StartBroadcast, Inv, TypeOK
<1>5. CASE \/ \E r \in Slot, n \in Node : ConnectFails(r, n) \/ ReadTimesOut(r, n)
           \/ \E n \in Node, tx \in Tx : HandleLate(n, tx)
           \/ UNCHANGED vars
  BY <1>5 DEF ConnectFails, ReadTimesOut, HandleLate, vars
<1> QED
  BY <1>1, <1>2, <1>3, <1>4, <1>5 DEF Next

\* Every step keeps the replies reports of nodes that executed.
LEMMA StepReplies == Inv /\ RepliesAreReports /\ [Next]_vars => RepliesAreReports'
<1> SUFFICES ASSUME Inv, RepliesAreReports, [Next]_vars,
                    NEW r \in Slot, NEW m \in Node,
                    link'[r][m].phase = "answered", link'[r][m].reply # None
             PROVE  /\ m \in executed'[r]
                    /\ \E w \in State : link'[r][m].reply = ReportedHash(m, w)
  BY DEF RepliesAreReports
<1>1. ASSUME link'[r][m] = link[r][m], executed[r] \subseteq executed'[r]
      PROVE  /\ m \in executed'[r]
             /\ \E w \in State : link'[r][m].reply = ReportedHash(m, w)
  BY <1>1 DEF RepliesAreReports
<1>2. ASSUME NEW s \in Slot, NEW tx \in Tx, StartBroadcast(s, tx)
      PROVE  link'[r][m] = link[r][m] /\ executed[r] \subseteq executed'[r]
  BY <1>2 DEF StartBroadcast, LinkIn, Inv, TypeOK
<1>3. ASSUME NEW s \in Slot, Complete(s)
      PROVE  link'[r][m] = link[r][m] /\ executed[r] \subseteq executed'[r]
  BY <1>3, CompleteCall
<1>4. ASSUME NEW s \in Slot, NEW n \in Node, ConnectFails(s, n) \/ ReadTimesOut(s, n)
      PROVE  link'[r][m] = link[r][m] /\ executed[r] \subseteq executed'[r]
  <2>1. link' = [link EXCEPT ![s][n] = LinkIn("failed")] /\ UNCHANGED executed
    BY <1>4 DEF ConnectFails, ReadTimesOut
  <2> QED
    BY <2>1 DEF LinkIn, Inv, TypeOK
<1>5. CASE Elapse \/ UNCHANGED vars \/ \E n \in Node, tx \in Tx : HandleLate(n, tx)
  BY <1>1, <1>5 DEF Elapse, vars, HandleLate
<1>6. ASSUME NEW s \in Slot, NEW n \in Node, HandleClient(s, n)
      PROVE  /\ m \in executed'[r]
             /\ \E w \in State : link'[r][m].reply = ReportedHash(m, w)
  <2> DEFINE w == Execute(world[n], call[s].tx)
             a == [phase |-> "answered", reply |-> ReportedHash(n, w)]
  <2>1. CASE w = Error
    <3>1. link' = [link EXCEPT ![s][n] = LinkIn("answered")] /\ UNCHANGED executed
      BY <1>6, <2>1 DEF HandleClient
    <3>2. link'[r][m] = link[r][m]
      BY <3>1 DEF LinkIn, Inv, TypeOK
    <3> QED
      BY <1>1, <3>1, <3>2
  <2>2. CASE w # Error
    <3>1. /\ link' = [link EXCEPT ![s][n] = a]
          /\ executed' = [executed EXCEPT ![s] = @ \cup {n}]
      BY <1>6, <2>2 DEF HandleClient
    <3>2. w \in State
      <4>1. call[s].tx \in Tx
        BY <1>6 DEF HandleClient, Inv, LinksOfGathering, TypeOK
      <4> QED
        BY <2>2, <4>1, NetworkConstants DEF Inv, TypeOK
    <3>3. a.reply = ReportedHash(n, w)
      OBVIOUS
    <3> HIDE DEF a, w
    <3>4. CASE r = s /\ m = n
      BY <3>1, <3>2, <3>3, <3>4 DEF Inv, TypeOK
    <3>5. CASE ~ (r = s /\ m = n)
      <4>1. link'[r][m] = link[r][m] /\ executed[r] \subseteq executed'[r]
        BY <3>1, <3>5 DEF Inv, TypeOK
      <4> QED
        BY <1>1, <4>1
    <3> QED
      BY <3>4, <3>5
  <2> QED
    BY <2>1, <2>2
<1> QED
  BY <1>1, <1>2, <1>3, <1>4, <1>5, <1>6 DEF Next

\* run_consensus over the answers of broadcast: every node reported on,
\* honest or faulty, executed the transaction of that broadcast, whatever is
\* lost, late or rejected and however broadcasts overlap.
THEOREM SpecReportedNodesExecuted == Spec => []ReportedNodesExecuted
<1>1. Init => RepliesAreReports /\ ReportedNodesExecuted
  BY DEF Init, RepliesAreReports, ReportedNodesExecuted, LinkIn
<1>2. Inv /\ RepliesAreReports /\ ReportedNodesExecuted /\ [Next]_vars => ReportedNodesExecuted'
  <2> SUFFICES ASSUME Inv, RepliesAreReports, ReportedNodesExecuted, [Next]_vars,
                      NEW s \in Slot, call'[s].status = "returned"
               PROVE  call'[s].cr.honest_nodes \cup call'[s].cr.faulty_nodes \subseteq executed'[s]
    BY DEF ReportedNodesExecuted
  <2>1. CASE Complete(s)
    <3>1. call'[s].cr = run_consensus(RoundResults(s), Node) /\ UNCHANGED executed
      BY <2>1, CompleteCall
    <3>2. call'[s].cr.honest_nodes \cup call'[s].cr.faulty_nodes = Responders(s)
      BY <3>1, ReportedAnswered DEF Inv
    <3>3. Responders(s) \subseteq executed[s]
      BY DEF Responders, RepliesAreReports
    <3> QED
      BY <3>1, <3>2, <3>3
  <2>2. CASE ~ Complete(s)
    BY <2>2, ReturnedStays DEF ReportedNodesExecuted
  <2> QED
    BY <2>1, <2>2
<1> QED
  BY <1>1, <1>2, InitInv, StepInv, StepReplies, PTL DEF Spec

\* Votes that do not meet the threshold are fewer than votes that do.
LEMMA TooFewVotes ==
    ASSUME NEW u \in Nat, NEW v \in Nat, NEW t \in Nat,
           u <= v, MeetsThreshold(u, t)
    PROVE  MeetsThreshold(v, t)
<1>1. /\ u * ThresholdDen <= v * ThresholdDen
      /\ u * ThresholdDen \in Nat /\ v * ThresholdDen \in Nat /\ ThresholdNum * t \in Nat
  BY ThresholdInRange, ProductMonotone
<1> QED
  BY <1>1 DEF MeetsThreshold

\* The hash of a reached round is an honest one, if the liars that executed
\* cannot meet the threshold among the answers.
LEMMA CompleteAgreed ==
    ASSUME Inv, RepliesAreReports, NEW s \in Slot, NEW cr,
           cr = run_consensus(RoundResults(s), Node),
           cr.consensus_reached,
           ~ MeetsThreshold(Cardinality(Malicious \cap executed[s]), cr.total_nodes)
    PROVE  /\ cr.honest_nodes \cap Malicious = {}
           /\ \E w \in State : cr.agreed_hash = compute_state_hash[w]
<1> DEFINE R    == Responders(s)
           lied == Malicious \cap executed[s]
           hon  == cr.honest_nodes
<1>1. /\ hon = VotersFor(RoundResults(s), R, cr.agreed_hash)
      /\ hon # {}
      /\ cr.total_nodes = Cardinality(R)
      /\ MeetsThreshold(Cardinality(hon), cr.total_nodes)
  BY ReportedAnswered DEF Inv
<1>2. \A n \in hon : /\ n \in R /\ n \in Node /\ n \in executed[s]
                     /\ \E w \in State : cr.agreed_hash = ReportedHash(n, w)
  <2> SUFFICES ASSUME NEW n \in hon
               PROVE  /\ n \in R /\ n \in Node /\ n \in executed[s]
                      /\ \E w \in State : cr.agreed_hash = ReportedHash(n, w)
    OBVIOUS
  <2>1. n \in R /\ RoundResults(s)[n].hash = cr.agreed_hash
    BY <1>1 DEF VotersFor
  <2>2. n \in Node /\ link[s][n].phase = "answered" /\ link[s][n].reply # None
        /\ link[s][n].reply = cr.agreed_hash
    BY <2>1 DEF Responders, RoundResults
  <2> QED
    BY <2>1, <2>2 DEF RepliesAreReports
<1>3. hon \cap Malicious = {}
  <2> SUFFICES ASSUME NEW n \in hon, n \in Malicious PROVE FALSE
    OBVIOUS
  <2>1. PICK w \in State : cr.agreed_hash = _corrupt_hash[w]
    BY <1>2 DEF ReportedHash
  <2>2. hon \subseteq lied
    <3> SUFFICES ASSUME NEW m \in hon, m \notin Malicious PROVE FALSE
      BY <1>2
    <3>1. PICK v \in State : cr.agreed_hash = compute_state_hash[v]
      BY <1>2 DEF ReportedHash
    <3> QED
      BY <2>1, <3>1, HashesDistinct
  <2>3. /\ IsFiniteSet(lied)
        /\ Cardinality(lied) \in Nat /\ Cardinality(hon) \in Nat
        /\ Cardinality(hon) <= Cardinality(lied)
    <3>1. lied \in SUBSET Node
      BY NetworkConstants
    <3> QED
      BY <2>2, <3>1, NodeFinite, FS_Subset, FS_CardinalityType
  <2>4. Cardinality(R) \in Nat
    <3>1. R \in SUBSET Node
      BY DEF Responders
    <3> QED
      BY <3>1, NodeFinite, FS_Subset, FS_CardinalityType
  <2> QED
    BY <1>1, <2>3, <2>4, TooFewVotes
<1>4. \E w \in State : cr.agreed_hash = compute_state_hash[w]
  BY <1>1, <1>2, <1>3 DEF ReportedHash
<1> QED
  BY <1>3, <1>4

\* The hash that broadcast returns as agreed: as long as the liars that
\* executed are too few for the threshold among the nodes reported on, none
\* of them is called honest and the hash is the true hash of a state.
THEOREM SpecAgreedHashIsHonest == Spec => []AgreedHashIsHonest
<1>1. Init => RepliesAreReports /\ AgreedHashIsHonest
  BY DEF Init, RepliesAreReports, AgreedHashIsHonest, LinkIn
<1>2. Inv /\ RepliesAreReports /\ AgreedHashIsHonest /\ [Next]_vars => AgreedHashIsHonest'
  <2> SUFFICES ASSUME Inv, RepliesAreReports, AgreedHashIsHonest, [Next]_vars,
                      NEW s \in Slot, call'[s].status = "returned",
                      call'[s].cr.consensus_reached,
                      ~ MeetsThreshold(Cardinality(Malicious \cap executed'[s]),
                                       call'[s].cr.total_nodes)
               PROVE  /\ call'[s].cr.honest_nodes \cap Malicious = {}
                      /\ \E w \in State : call'[s].cr.agreed_hash = compute_state_hash[w]
    BY DEF AgreedHashIsHonest, MeetsThreshold
  <2>1. CASE Complete(s)
    <3>1. call'[s].cr = run_consensus(RoundResults(s), Node) /\ executed'[s] = executed[s]
      BY <2>1, CompleteCall
    <3> QED
      BY <3>1, CompleteAgreed
  <2>2. CASE ~ Complete(s)
    <3>1. call[s].status = "returned" /\ call'[s] = call[s] /\ executed'[s] = executed[s]
      BY <2>2, ReturnedStays
    <3> QED
      BY <3>1 DEF AgreedHashIsHonest
  <2> QED
    BY <2>1, <2>2
<1> QED
  BY <1>1, <1>2, InitInv, StepInv, StepReplies, PTL DEF Spec

-----------------------------------------------------------------------------
(***************************************************************************)
(* One caller, no lost message: replicas move in lock step and an honest   *)
(* majority exposes every liar, for every number of nodes and every        *)
(* execution engine.                                                       *)
(*                                                                         *)
(* The argument: all health records are equal, so a broadcast contacts all *)
(* nodes or none.  During a broadcast there is a state b that every node   *)
(* had when it started; a node that answered is in Execute(b, tx) (or in b *)
(* with an error reply), one that did not is still in b.  As Execute is a  *)
(* function, the nodes agree again when all have answered.                 *)
(***************************************************************************)

\* The exchange of slot s with node n, in a broadcast that started when all
\* nodes were in state b.
ExchangeFrom(s, n, b) ==
    /\ link[s][n].phase \in {"out", "sent"} => world[n] = b
    /\ link[s][n].phase = "answered" =>
          IF Execute(b, call[s].tx) = Error
          THEN world[n] = b /\ link[s][n].reply = None
          ELSE /\ world[n] = Execute(b, call[s].tx)
               /\ link[s][n].reply = ReportedHash(n, world[n])

AllOrNone(s) ==
    \/ \A n \in Node : link[s][n].phase = "out"
    \/ \A n \in Node : link[s][n].phase \in {"sent", "answered"}

Steps ==
    /\ \A n \in Node, tx \in Tx : late[n][tx] = 0
    /\ \A m, n \in Node : health[m] = health[n]
    /\ \A s \in Slot :
          /\ AllOrNone(s)
          /\ ~ Gathering(s) => \A m, n \in Node : world[m] = world[n]
          /\ Gathering(s) => \E b \in State : \A n \in Node : ExchangeFrom(s, n, b)

SeqInv == Inv /\ (SequentialAndReliable => Steps)

\* There is one slot.
LEMMA OneSlot ==
    ASSUME SequentialAndReliable
    PROVE  \E s \in Slot : Slot = {s}
<1>1. \E s : Slot = {s}
  BY NetworkConstants, FS_Singleton DEF SequentialAndReliable
<1> QED
  BY <1>1

\* Faults only add up.
LEMMA FaultsGrow ==
    ASSUME Inv, [Next]_vars, SequentialAndReliable'
    PROVE  /\ SequentialAndReliable
           /\ \A s \in Slot, n \in Node : ~ ConnectFails(s, n) /\ ~ ReadTimesOut(s, n)
<1>1. faults \in Nat /\ (faults' = faults \/ faults' = faults + 1)
  <2>1. faults \in Nat
    BY NetworkConstants DEF Inv, TypeOK
  <2>2. CASE UNCHANGED vars
    BY <2>1, <2>2 DEF vars
  <2>3. ASSUME NEW s \in Slot, NEW tx \in Tx, StartBroadcast(s, tx) PROVE faults' = faults
    BY <2>3 DEF StartBroadcast
  <2>4. ASSUME NEW s \in Slot, NEW n \in Node, HandleClient(s, n) PROVE faults' = faults
    BY <2>4 DEF HandleClient
  <2>5. ASSUME NEW s \in Slot, NEW n \in Node, ConnectFails(s, n) \/ ReadTimesOut(s, n)
        PROVE  faults' = faults + 1
    BY <2>5 DEF ConnectFails, ReadTimesOut
  <2>6. ASSUME NEW n \in Node, NEW tx \in Tx, HandleLate(n, tx) PROVE faults' = faults
    BY <2>6 DEF HandleLate
  <2>7. ASSUME NEW s \in Slot, Complete(s) PROVE faults' = faults
    BY <2>7 DEF Complete
  <2>8. CASE Elapse
    BY <2>1, <2>8 DEF Elapse
  <2> QED
    BY <2>1, <2>2, <2>3, <2>4, <2>5, <2>6, <2>7, <2>8 DEF Next
<1>2. faults = 0 /\ faults' = 0
  BY <1>1 DEF SequentialAndReliable
<1>3. \A s \in Slot, n \in Node : ~ ConnectFails(s, n) /\ ~ ReadTimesOut(s, n)
  BY <1>1, <1>2 DEF ConnectFails, ReadTimesOut
<1> QED
  BY <1>2, <1>3 DEF SequentialAndReliable

\* A broadcast starts from equal states.
LEMMA StartSteps ==
    ASSUME Inv, Steps, SequentialAndReliable,
           NEW s \in Slot, NEW tx \in Tx, StartBroadcast(s, tx)
    PROVE  Steps'
<1>1. Slot = {s}
  BY OneSlot
<1>2. /\ ~ Gathering(s)
      /\ \A n \in Node : link'[s][n].phase =
            IF health[n].state = "EXCLUDED" THEN "out" ELSE "sent"
      /\ UNCHANGED <<world, late, health>>
  BY DEF StartBroadcast, LinkIn, Inv, TypeOK
<1>3. \A n \in Node, t \in Tx : late'[n][t] = 0
  BY <1>2 DEF Steps
<1>4. \A m, n \in Node : health'[m] = health'[n]
  BY <1>2 DEF Steps
<1>5. AllOrNone(s)'
  BY <1>2 DEF AllOrNone, Steps
<1>6. \E b \in State : \A n \in Node : ExchangeFrom(s, n, b)'
  <2>1. PICK k \in Node : TRUE
    BY NodeFinite
  <2>2. world[k] \in State /\ \A n \in Node : world'[n] = world[k]
    BY <1>2 DEF Steps, Inv, TypeOK
  <2>3. \A n \in Node : ExchangeFrom(s, n, world[k])'
    BY <1>2, <2>2 DEF ExchangeFrom
  <2> QED
    BY <2>2, <2>3
<1>7. Gathering(s)'
  BY DEF StartBroadcast, Gathering, Inv, TypeOK
<1> QED
  BY <1>1, <1>3, <1>4, <1>5, <1>6, <1>7 DEF Steps

\* A node that handles the request moves from b to Execute(b, tx).
LEMMA HandleSteps ==
    ASSUME Inv, Steps, SequentialAndReliable,
           NEW s \in Slot, NEW k \in Node, HandleClient(s, k)
    PROVE  Steps'
<1>1. Slot = {s}
  BY OneSlot
<1>2. /\ link[s][k].phase = "sent"
      /\ UNCHANGED <<call, late, health>>
  BY DEF HandleClient
<1>3. Gathering(s) /\ Gathering(s)'
  BY <1>2 DEF Inv, LinksOfGathering, Gathering
<1>4. PICK b \in State : \A n \in Node : ExchangeFrom(s, n, b)
  BY <1>3 DEF Steps
<1>5. world[k] = b
  BY <1>2, <1>4 DEF ExchangeFrom
<1>6. \A n \in Node \ {k} : link'[s][n] = link[s][n] /\ world'[n] = world[n]
  BY DEF HandleClient, Inv, TypeOK
<1>7. /\ link'[s][k].phase = "answered"
      /\ IF Execute(b, call[s].tx) = Error
         THEN world'[k] = b /\ link'[s][k].reply = None
         ELSE /\ world'[k] = Execute(b, call[s].tx)
              /\ link'[s][k].reply = ReportedHash(k, world'[k])
  <2>1. CASE Execute(b, call[s].tx) = Error
    BY <1>5, <2>1 DEF HandleClient, LinkIn, Inv, TypeOK
  <2>2. CASE Execute(b, call[s].tx) # Error
    BY <1>5, <2>2 DEF HandleClient, Inv, TypeOK
  <2> QED
    BY <2>1, <2>2
<1>8. \A n \in Node : ExchangeFrom(s, n, b)'
  <2>1. ExchangeFrom(s, k, b)'
    BY <1>2, <1>7 DEF ExchangeFrom, ReportedHash
  <2>2. ASSUME NEW n \in Node \ {k} PROVE ExchangeFrom(s, n, b)'
    BY <1>2, <1>4, <1>6, <2>2 DEF ExchangeFrom, ReportedHash
  <2> QED
    BY <2>1, <2>2
<1>9. AllOrNone(s)'
  BY <1>2, <1>6, <1>7 DEF AllOrNone, Steps
<1> QED
  BY <1>1, <1>2, <1>3, <1>8, <1>9 DEF Steps

\* Who responded when a broadcast ends: everybody, or nobody and then all
\* contacted nodes rejected the transaction.
LEMMA AllRespond ==
    ASSUME Inv, Steps, SequentialAndReliable, NEW s \in Slot, Complete(s)
    PROVE  \E b \in State :
              \/ /\ Responders(s) = {}
                 /\ \A n \in Node : world[n] = b
                 /\ Contacted(s) = {} \/ Contacted(s) = Node
              \/ /\ Responders(s) = Node
                 /\ \A n \in Node : /\ world[n] = Execute(b, call[s].tx)
                                    /\ link[s][n].reply = ReportedHash(n, world[n])
                                    /\ world[n] \in State
<1>1. Gathering(s) /\ \A n \in Node : link[s][n].phase # "sent"
  BY DEF Complete
<1>2. PICK b \in State : \A n \in Node : ExchangeFrom(s, n, b)
  BY <1>1 DEF Steps
<1>3. CASE \A n \in Node : link[s][n].phase = "out"
  BY <1>2, <1>3 DEF ExchangeFrom, Responders, Contacted
<1>4. CASE \A n \in Node : link[s][n].phase \in {"sent", "answered"}
  <2>1. \A n \in Node : link[s][n].phase = "answered"
    BY <1>1, <1>4
  <2>2. CASE Execute(b, call[s].tx) = Error
    BY <1>2, <2>1, <2>2 DEF ExchangeFrom, Responders, Contacted
  <2>3. CASE Execute(b, call[s].tx) # Error
    <3>1. \A n \in Node : /\ world[n] = Execute(b, call[s].tx)
                          /\ link[s][n].reply = ReportedHash(n, world[n])
                          /\ world[n] \in State
      BY <1>2, <2>1, <2>3 DEF ExchangeFrom, Inv, TypeOK
    <3>2. \A n \in Node : link[s][n].reply # None
      BY <3>1, LinkTypes, HashOrder
    <3>3. Responders(s) = Node
      BY <2>1, <3>2 DEF Responders
    <3> QED
      BY <3>1, <3>3
  <2> QED
    BY <2>2, <2>3
<1> QED
  BY <1>3, <1>4 DEF Steps, AllOrNone

\* The end of a broadcast leaves equal states and equal health records.
LEMMA CompleteSteps ==
    ASSUME Inv, Steps, SequentialAndReliable, NEW s \in Slot, Complete(s)
    PROVE  Steps'
<1>1. Slot = {s}
  BY OneSlot
<1>2. /\ \A n \in Node : link'[s][n].phase = "out"
      /\ UNCHANGED <<world, late>>
  BY DEF Complete, LinkIn, Inv, TypeOK
<1>3. ~ Gathering(s)'
  <2>1. call'[s].status \in {"raised", "returned"}
    BY DEF Complete, Inv, TypeOK
  <2> QED
    BY <2>1 DEF Gathering
<1>4. \A m, n \in Node : world'[m] = world'[n]
  BY <1>2, AllRespond
<1>5. \A m, n \in Node : health'[m] = health'[n]
  <2>1. \/ Responders(s) = Node
        \/ Responders(s) = {} /\ (Contacted(s) = {} \/ Contacted(s) = Node)
    BY AllRespond
  <2>2. \A n \in Node : health'[n] =
           IF n \in Responders(s) THEN record_success(health[n])
           ELSE IF n \in Contacted(s) THEN record_failure(health[n])
           ELSE health[n]
    BY DEF Complete
  <2> QED
    BY <2>1, <2>2 DEF Steps
<1> QED
  BY <1>1, <1>2, <1>3, <1>4, <1>5 DEF Steps, AllOrNone

\* The clock ages all records alike.
LEMMA ElapseSteps ==
    ASSUME Inv, Steps, SequentialAndReliable, Elapse
    PROVE  Steps'
<1>1. PICK s \in Slot : Slot = {s}
  BY OneSlot
<1>2. UNCHANGED <<world, link, late>>
  BY DEF Elapse
<1>3. call'[s].status = call[s].status /\ call'[s].tx = call[s].tx
  BY DEF Elapse, Inv, TypeOK
<1>4. \A m, n \in Node : health'[m] = health'[n]
  BY DEF Elapse, Steps
<1>5. Gathering(s)' <=> Gathering(s)
  BY <1>3 DEF Gathering
<1>6. \A n \in Node : \A b : ExchangeFrom(s, n, b) => ExchangeFrom(s, n, b)'
  BY <1>2, <1>3 DEF ExchangeFrom, ReportedHash
<1>7. Gathering(s)' => \E b \in State : \A n \in Node : ExchangeFrom(s, n, b)'
  BY <1>5, <1>6 DEF Steps
<1>8. AllOrNone(s)'
  BY <1>2 DEF AllOrNone, Steps
<1> QED
  BY <1>1, <1>2, <1>4, <1>5, <1>7, <1>8 DEF Steps

\* Initially all nodes are alike.
LEMMA InitSeq == Init => SeqInv
<1> SUFFICES ASSUME Init PROVE Steps
  BY InitInv DEF SeqInv
<1> QED
  BY DEF Init, Steps, AllOrNone, Gathering, LinkIn

\* Every step keeps the replicas in step.
LEMMA StepSeq == SeqInv /\ [Next]_vars => SeqInv'
<1> SUFFICES ASSUME SeqInv, [Next]_vars PROVE SeqInv'
  OBVIOUS
<1>1. Inv'
  BY StepInv DEF SeqInv
<1>2. ASSUME SequentialAndReliable'
      PROVE  Steps'
  <2>1. /\ Inv /\ Steps /\ SequentialAndReliable
        /\ \A s \in Slot, n \in Node : ~ ConnectFails(s, n) /\ ~ ReadTimesOut(s, n)
    BY <1>2, FaultsGrow DEF SeqInv
  <2>2. ~ \E n \in Node, tx \in Tx : HandleLate(n, tx)
    BY <2>1 DEF HandleLate, Steps
  <2>3. CASE UNCHANGED vars
    BY <2>1, <2>3 DEF vars, Steps, AllOrNone, Gathering, ExchangeFrom, ReportedHash
  <2>4. CASE Next
    BY <2>1, <2>2, <2>4, StartSteps, HandleSteps, CompleteSteps, ElapseSteps DEF Next
  <2> QED
    BY <2>3, <2>4
<1> QED
  BY <1>1, <1>2 DEF SeqInv

\* With one caller and no lost message all nodes have the same state whenever
\* no broadcast is under way.
THEOREM SpecLockStep == Spec => []LockStep
<1>1. SeqInv => LockStep
  <2> SUFFICES ASSUME SeqInv, SequentialAndReliable, \A s \in Slot : ~ Gathering(s)
               PROVE  \A m, n \in Node : world[m] = world[n]
    BY DEF LockStep
  <2>1. \E s \in Slot : TRUE
    BY OneSlot
  <2> QED
    BY <2>1 DEF SeqInv, Steps
<1> QED
  BY <1>1, InitSeq, StepSeq, PTL DEF Spec

-----------------------------------------------------------------------------

HonestMajority == 2 * Cardinality(Malicious) < Cardinality(Node)

\* When all nodes report on the same state, consensus separates the honest
\* nodes from the malicious ones.
LEMMA SameStateRound ==
    ASSUME HonestMajority, NEW w \in State, NEW res,
           res = [n \in Node |-> [hash |-> ReportedHash(n, w), sigOk |-> TRUE]]
    PROVE  /\ run_consensus(res, Node).honest_nodes = Node \ Malicious
           /\ run_consensus(res, Node).faulty_nodes = Malicious
<1> DEFINE g == compute_state_hash[w]
<1>1. verified_results(res, Node) = Node
  BY DEF verified_results
<1>2. \A n \in Node : res[n].hash \in Hash
  BY LinkTypes
<1>3. VotersFor(res, Node, g) = Node \ Malicious
  BY HashesDistinct DEF VotersFor, ReportedHash
<1>4. 2 * Votes(res, Node, g) > Cardinality(Node)
  <2>1. IsFiniteSet(Malicious) /\ Cardinality(Malicious) \in Nat /\ Cardinality(Node) \in Nat
    BY NetworkConstants, NodeFinite, FS_Subset, FS_CardinalityType
  <2>2. Cardinality(Node \ Malicious) = Cardinality(Node) - Cardinality(Node \cap Malicious)
    BY NodeFinite, FS_Difference
  <2>3. Node \cap Malicious = Malicious
    BY NetworkConstants
  <2>4. Votes(res, Node, g) = Cardinality(Node \ Malicious)
    BY <1>3 DEF Votes
  <2>5. Cardinality(Node \ Malicious) = Cardinality(Node) - Cardinality(Malicious)
    BY <2>2, <2>3
  <2>6. 2 * Cardinality(Malicious) < Cardinality(Node)
    BY DEF HonestMajority
  <2> HIDE DEF g
  <2> QED
    BY <2>1, <2>4, <2>5, <2>6
<1>5. _select_winner(res, Node) = g /\ Node # {}
  BY <1>2, <1>4, NodeFinite, MajorityWins
<1>6. run_consensus(res, Node) =
         ConsensusResult(g, Votes(res, Node, g), Cardinality(Node), Node \ Malicious,
                         Malicious, DOMAIN res \ Node)
  <2>1. (Node \ (Node \ Malicious)) \cup (DOMAIN res \ Node) = Malicious
    BY NetworkConstants
  <2> QED
    BY <1>1, <1>3, <1>5, <2>1 DEF run_consensus
<1>7. \A a, v, t, H, F, I :
         /\ ConsensusResult(a, v, t, H, F, I).honest_nodes = H
         /\ ConsensusResult(a, v, t, H, F, I).faulty_nodes = F
  BY DEF ConsensusResult
<1> QED
  BY ONLY <1>6, <1>7

\* A broadcast that ends without a lost message flags exactly the liars.
LEMMA CompleteFlagsLiars ==
    ASSUME Inv, Steps, SequentialAndReliable, HonestMajority, MinResponses > 0,
           NEW s \in Slot, Complete(s), call'[s].status = "returned"
    PROVE  /\ call'[s].cr.faulty_nodes = Malicious
           /\ call'[s].cr.honest_nodes = Node \ Malicious
<1>1. /\ ~ Cardinality(Responders(s)) < MinResponses
      /\ call'[s].cr = run_consensus(RoundResults(s), Node)
  BY DEF Complete, Inv, TypeOK
<1>2. Responders(s) # {}
  BY <1>1, FS_EmptySet, NetworkConstants
<1>3. PICK b \in State :
         /\ Responders(s) = Node
         /\ \A n \in Node : /\ world[n] = Execute(b, call[s].tx)
                            /\ link[s][n].reply = ReportedHash(n, world[n])
                            /\ world[n] \in State
  BY <1>2, AllRespond
<1> DEFINE w == Execute(b, call[s].tx)
<1>4. w \in State
  BY <1>3, NodeFinite
<1>5. RoundResults(s) = [n \in Node |-> [hash |-> ReportedHash(n, w), sigOk |-> TRUE]]
  BY <1>3 DEF RoundResults
<1> QED
  BY <1>1, <1>4, <1>5, SameStateRound

\* With one caller, no lost message and an honest majority, a broadcast that
\* returns flags exactly the malicious nodes (broadcast and run_consensus).
THEOREM SpecLiarsDetected == Spec => []LiarsDetected
<1> DEFINE LInv == SeqInv /\ LiarsDetected
<1>1. Init => LInv
  BY InitSeq DEF Init, LiarsDetected
<1>2. LInv /\ [Next]_vars => LInv'
  <2> SUFFICES ASSUME SeqInv, LiarsDetected, [Next]_vars,
                      SequentialAndReliable', HonestMajority, MinResponses > 0,
                      NEW s \in Slot, call'[s].status = "returned"
               PROVE  /\ call'[s].cr.faulty_nodes = Malicious
                      /\ call'[s].cr.honest_nodes = Node \ Malicious
    BY StepSeq DEF LiarsDetected, HonestMajority
  <2>1. Inv /\ Steps /\ SequentialAndReliable
    BY FaultsGrow DEF SeqInv
  <2>2. CASE Complete(s)
    BY <2>1, <2>2, CompleteFlagsLiars
  <2>3. CASE call'[s].status = call[s].status /\ call'[s].cr = call[s].cr
    BY <2>1, <2>3 DEF LiarsDetected, HonestMajority
  <2>4. Complete(s) \/ (call'[s].status = call[s].status /\ call'[s].cr = call[s].cr)
    <3>1. CASE UNCHANGED vars
      BY <3>1 DEF vars
    <3>2. ASSUME NEW r \in Slot, NEW tx \in Tx, StartBroadcast(r, tx)
          PROVE  call'[s].status = call[s].status /\ call'[s].cr = call[s].cr
      BY <2>1, <3>2 DEF StartBroadcast, Inv, TypeOK
    <3>3. ASSUME NEW r \in Slot, NEW n \in Node,
                 HandleClient(r, n) \/ ConnectFails(r, n) \/ ReadTimesOut(r, n)
          PROVE  call' = call
      BY <3>3 DEF HandleClient, ConnectFails, ReadTimesOut
    <3>4. ASSUME NEW n \in Node, NEW tx \in Tx, HandleLate(n, tx)
          PROVE  call' = call
      BY <3>4 DEF HandleLate
    <3>5. ASSUME NEW r \in Slot, Complete(r), r # s
          PROVE  call'[s].status = call[s].status /\ call'[s].cr = call[s].cr
      BY <2>1, <3>5 DEF Complete, Inv, TypeOK
    <3>6. CASE Elapse
      BY <2>1, <3>6 DEF Elapse, Inv, TypeOK
    <3> QED
      BY <3>1, <3>2, <3>3, <3>4, <3>5, <3>6 DEF Next
  <2> QED
    BY <2>2, <2>3, <2>4
<1> QED
  BY <1>1, <1>2, PTL DEF Spec
=============================================================================
