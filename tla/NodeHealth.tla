----------------------------- MODULE NodeHealth ------------------------------
(***************************************************************************)
(* The health record of one node, ecn/node_health.py: a NodeHealth and the *)
(* two writes of NodeHealthRegistry to it.  The registry is a function     *)
(* from nodes to such records (P2PNetwork composes them).                  *)
(*                                                                         *)
(* excluded_since is kept as the time that has passed since it was set,    *)
(* because the code only ever asks whether _REHAB_WINDOW_SECS have gone    *)
(* by; the age stops growing there.  last_success_at and the latency       *)
(* samples are reported and never read by the state machine.               *)
(***************************************************************************)
EXTENDS Integers, Values

CONSTANTS
    SuspectThreshold,   \* _SUSPECT_THRESHOLD
    ExcludedThreshold,  \* _EXCLUDED_THRESHOLD
    RehabWindow         \* _REHAB_WINDOW_SECS, in units of Elapse

ASSUME Thresholds ==
    /\ SuspectThreshold \in Nat \ {0}
    /\ ExcludedThreshold \in Nat
    /\ SuspectThreshold < ExcludedThreshold
    /\ RehabWindow \in Nat \ {0}
    /\ None \notin Nat

NodeState == {"HEALTHY", "SUSPECT", "EXCLUDED", "REHABILITATING"}

\* The NodeHealth dataclass.
Health == [state : NodeState,
           consecutive_failures : Nat,
           excluded_for : (0 .. RehabWindow) \cup {None}]

\* _get_or_create: the record of a node seen for the first time.
Fresh == [state |-> "HEALTHY", consecutive_failures |-> 0, excluded_for |-> None]

\* Time since excluded_since has reached the rehabilitation window.
WindowServed(h) == h.excluded_for # None /\ h.excluded_for >= RehabWindow

\* Mutant: every success clears excluded_since.
record_success_ClearsSince(h) ==
    LET rehabilitated == h.state = "EXCLUDED" /\ WindowServed(h)
    IN  [state |-> IF rehabilitated THEN "REHABILITATING"
                   ELSE IF h.state = "EXCLUDED" THEN "EXCLUDED" ELSE "HEALTHY",
         consecutive_failures |-> 0,
         excluded_for |-> None]

\* The record after record_success.
record_success(h) ==
    LET rehabilitated == h.state = "EXCLUDED" /\ WindowServed(h)
    IN  [state |-> IF rehabilitated THEN "REHABILITATING"
                   ELSE IF h.state = "EXCLUDED" THEN "EXCLUDED" ELSE "HEALTHY",
         consecutive_failures |-> 0,
         excluded_for |-> IF rehabilitated THEN None ELSE h.excluded_for]

\* The record after record_failure.
record_failure(h) ==
    LET fails == h.consecutive_failures + 1
    IN  [state |-> IF h.state = "EXCLUDED" \/ fails >= ExcludedThreshold THEN "EXCLUDED"
                   ELSE IF fails >= SuspectThreshold \/ h.state = "REHABILITATING"
                        THEN "SUSPECT" ELSE h.state,
         consecutive_failures |-> fails,
         excluded_for |-> IF h.state # "EXCLUDED" /\ fails >= ExcludedThreshold
                          THEN 0 ELSE h.excluded_for]

\* The record one unit of wall-clock time later.
Aged(h) ==
    [h EXCEPT !.excluded_for =
        IF @ # None /\ @ < RehabWindow THEN @ + 1 ELSE @]

-----------------------------------------------------------------------------
(* Properties                                                              *)

\* The state and the counters of a record agree, although each branch of
\* record_success and record_failure updates only some of them: a node has
\* an exclusion time exactly while it is EXCLUDED (record_success
\* rehabilitates only with one), a HEALTHY node is below the suspicion
\* threshold, a SUSPECT one has failed and is below the exclusion
\* threshold, a REHABILITATING one has not failed since its success.
Consistent(h) ==
    /\ h.state = "EXCLUDED" <=> h.excluded_for # None
    /\ h.state = "HEALTHY" => h.consecutive_failures < SuspectThreshold
    /\ h.state = "SUSPECT" => h.consecutive_failures \in 1 .. (ExcludedThreshold - 1)
    /\ h.state = "REHABILITATING" => h.consecutive_failures = 0
=============================================================================
