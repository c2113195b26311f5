--------------------------- MODULE BreakerContract ---------------------------
(***************************************************************************)
(* What the circuit breaker promises when its calls come one after the     *)
(* other: the three-state machine of circuit_breaker.py's header, with     *)
(* each call one step.                                                     *)
(***************************************************************************)
EXTENDS Naturals

CONSTANTS FailureThreshold, SuccessThreshold, RecoveryTimeout

VARIABLES
    mode,       \* "CLOSED", "OPEN" or "HALF_OPEN"
    streak,     \* consecutive failures while CLOSED
    probes,     \* consecutive successes while HALF_OPEN
    cooled,     \* time since the circuit last opened, up to RecoveryTimeout
    last        \* how the last recorded call ended

vars == <<mode, streak, probes, cooled, last>>

Init ==
    /\ mode = "CLOSED"
    /\ streak = 0
    /\ probes = 0
    /\ cooled = RecoveryTimeout
    /\ last = "none"

Succeed ==
    /\ mode = "CLOSED"
    /\ last' = "success"
    /\ streak' = 0
    /\ UNCHANGED <<mode, probes, cooled>>

Fail ==
    /\ mode = "CLOSED"
    /\ streak + 1 < FailureThreshold
    /\ last' = "failure"
    /\ streak' = streak + 1
    /\ UNCHANGED <<mode, probes, cooled>>

Open ==
    /\ \/ mode = "CLOSED" /\ streak + 1 = FailureThreshold
       \/ mode = "HALF_OPEN"
    /\ last' = "failure"
    /\ mode' = "OPEN"
    /\ streak' = 0
    /\ probes' = 0
    /\ cooled' = 0

StartProbing ==
    /\ mode = "OPEN"
    /\ cooled = RecoveryTimeout
    /\ mode' = "HALF_OPEN"
    /\ probes' = 0
    /\ UNCHANGED <<streak, cooled, last>>

ProbeSucceeds ==
    /\ mode = "HALF_OPEN"
    /\ probes + 1 < SuccessThreshold
    /\ last' = "success"
    /\ probes' = probes + 1
    /\ UNCHANGED <<mode, streak, cooled>>

Close ==
    /\ mode = "HALF_OPEN"
    /\ probes + 1 = SuccessThreshold
    /\ last' = "success"
    /\ mode' = "CLOSED"
    /\ streak' = 0
    /\ probes' = 0
    /\ UNCHANGED cooled

Cool ==
    /\ cooled < RecoveryTimeout
    /\ cooled' = cooled + 1
    /\ UNCHANGED <<mode, streak, probes, last>>

Next == Succeed \/ Fail \/ Open \/ StartProbing \/ ProbeSucceeds \/ Close \/ Cool

Spec == Init /\ [][Next]_vars
=============================================================================
