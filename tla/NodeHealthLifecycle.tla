------------------------- MODULE NodeHealthLifecycle -------------------------
(***************************************************************************)
(* The lifecycle of one node's health record under any sequence of         *)
(* successes and failures: what NodeHealthRegistry promises to its users.  *)
(* It is the abstract specification that the registry of P2PNetwork        *)
(* implements (RegistryRefinesLifecycle).                                  *)
(***************************************************************************)
EXTENDS NodeHealth

CONSTANT MaxFailures   \* bound: consecutive failures counted by the model

VARIABLE health

-----------------------------------------------------------------------------

Init == health = Fresh

RecordSuccess == health' = record_success(health)

RecordFailure ==
    /\ health.consecutive_failures < MaxFailures
    /\ health' = record_failure(health)

\* external: the wall clock
Elapse == health' = Aged(health)

Next == RecordSuccess \/ RecordFailure \/ Elapse

Spec == Init /\ [][Next]_health

-----------------------------------------------------------------------------
(* Properties                                                              *)

TypeOK == health \in Health

\* Whatever sequence of successes, failures and passing time is reported to
\* NodeHealthRegistry, its record stays consistent.
RecordConsistent == Consistent(health)

\* The edges of the lifecycle: into EXCLUDED only from SUSPECT, out of
\* EXCLUDED only to REHABILITATING and only after the whole window.
LifecycleStep ==
    /\ health'.state = "EXCLUDED" => health.state \in {"SUSPECT", "EXCLUDED"}
    /\ health.state = "EXCLUDED" /\ health'.state # "EXCLUDED" =>
          health'.state = "REHABILITATING" /\ health.excluded_for = RehabWindow
    /\ health'.state = "REHABILITATING" =>
          health.state \in {"EXCLUDED", "REHABILITATING"}

\* No call of record_success or record_failure leaves the lifecycle
\* HEALTHY, SUSPECT, EXCLUDED, REHABILITATING.
LifecycleEdges == [][LifecycleStep]_health
=============================================================================
