-------------------------- MODULE SequentialBreaker --------------------------
(***************************************************************************)
(* CircuitBreaker with calls that never overlap, over a reliable Redis and *)
(* in a worker that lives on, implements BreakerContract.  The contract's  *)
(* step is taken at the SET that changes state (or at the counter's write  *)
(* when state does not change); while a call is between that write and its *)
(* last one, the counters it has yet to reset count as reset.              *)
(***************************************************************************)
EXTENDS CircuitBreaker

VARIABLE outcome    \* history: how the last recorded call ended

-----------------------------------------------------------------------------
(* The breaker's steps, and what each of them records of the tool's call   *)

Succeeds(c) ==
    \/ ForgiveFailures(c)
    \/ AddSuccess(c) /\ pc'[c] = "idle"
    \/ Close(c)

Fails(c) ==
    \/ AddFailure(c) /\ pc'[c] = "idle"
    \/ Trip(c)
    \/ Reopen(c)

Unrecorded(c) ==
    \/ Begin(c)
    \/ ReadOpenedAt(c)
    \/ FailFast(c)
    \/ Probe(c)
    \/ ResetProbes(c)
    \/ CountSuccess(c)
    \/ AddSuccess(c) /\ pc'[c] = "close"
    \/ ClearFailures(c)
    \/ ClearSuccesses(c)
    \/ CountFailure(c)
    \/ AddFailure(c) /\ pc'[c] = "trip"
    \/ ReadClock(c)
    \/ Stamp(c)
    \/ Settle(c)
    \/ PassThrough(c)

RecordedInit == Init /\ outcome = "none"

RecordedNext ==
    \/ \E c \in Calls : Succeeds(c) /\ outcome' = "success"
    \/ \E c \in Calls : Fails(c) /\ outcome' = "failure"
    \/ \E c \in Calls : Unrecorded(c) /\ UNCHANGED outcome
    \/ (Tick \/ Environment) /\ UNCHANGED outcome

RecordedSpec == RecordedInit /\ [][RecordedNext]_<<vars, outcome>>

-----------------------------------------------------------------------------

At(places) == \E c \in Calls : pc[c] \in places
AtAfter(s, places) == \E c \in Calls : pc[c] \in places /\ prev[c] = s

Streak ==
    IF At({"trip"}) THEN FailureThreshold - 1
    ELSE IF AtAfter("CLOSED", {"stamp", "stamping", "settle"}) \/ At({"clear_failures"}) THEN 0
    ELSE failures

Probes ==
    IF At({"close"}) THEN SuccessThreshold - 1
    ELSE IF \/ At({"reset_probes", "clear_failures", "clear_successes"})
            \/ AtAfter("HALF_OPEN", {"stamp", "stamping", "settle"})
         THEN 0
    ELSE successes

Contract == INSTANCE BreakerContract
    WITH mode <- state, streak <- Streak, probes <- Probes, cooled <- sinceOpen, last <- outcome

\* The README's circuit breaker (Section 6), for calls that do not overlap: it
\* opens at the FailureThreshold-th failure in a row, a success in between
\* starting the row again, lets no call through before the recovery timeout,
\* closes after SuccessThreshold probes in a row and re-opens at a failed one.
MeetsContract == Contract!Spec
=============================================================================
