------------------------ MODULE CircuitBreakerProofs ------------------------
(***************************************************************************)
(* Invariants of CircuitBreaker for any set of calls, any thresholds and   *)
(* any recovery timeout; and, in the second part, that calls that never    *)
(* overlap, over a Redis that answers and in a worker that lives on,       *)
(* follow BreakerContract.                                                 *)
(***************************************************************************)
EXTENDS SequentialBreaker, TLAPS

\* Every Redis write of the breaker leaves its key at the old or the new value.
LEMMA WrittenValue ==
    ASSUME NEW old, NEW new, NEW v \in Written(old, new)
    PROVE  v = old \/ v = new
BY DEF Written

\* Capping keeps a counter a natural number no greater than its limit.
LEMMA CappedRange ==
    ASSUME NEW n \in Nat, NEW limit \in Nat
    PROVE  Capped(n, limit) \in 0..limit
BY DEF Capped

LEMMA GoToType ==
    ASSUME TypeOK, NEW c \in Calls, NEW place \in Places, NEW s \in CircuitState,
           NEW n \in Nat, place = "stamping" => n = 0, GoTo(c, place, s, n)
    PROVE  /\ pc' \in [Calls -> Places]
           /\ prev' \in [Calls -> CircuitState]
           /\ read' \in [Calls -> Nat]
           /\ StallsEnd'
BY StallAssumption DEF TypeOK, GoTo, StallsEnd

LEMMA ProceedType ==
    ASSUME TypeOK, NEW c \in Calls, NEW place \in Places, Proceed(c, place)
    PROVE  /\ pc' \in [Calls -> Places]
           /\ prev' \in [Calls -> CircuitState]
           /\ read' \in [Calls -> Nat]
           /\ StallsEnd'
BY GoToType DEF TypeOK, Proceed

LEMMA ReturnType ==
    ASSUME TypeOK, NEW c \in Calls, Return(c)
    PROVE  /\ pc' \in [Calls -> Places]
           /\ prev' \in [Calls -> CircuitState]
           /\ read' \in [Calls -> Nat]
           /\ StallsEnd'
BY GoToType DEF Return, Places, CircuitState

LEMMA SetStateType ==
    ASSUME TypeOK, NEW s \in CircuitState, SetState(s)
    PROVE  state' \in CircuitState /\ sinceOpen' \in 0..RecoveryTimeout
BY ThresholdAssumption DEF TypeOK, SetState, Written

\* Where one call goes, the others stay.
LEMMA OnlyOneMoves ==
    ASSUME TypeOK, NEW c \in Calls, NEW place, NEW s, NEW n, GoTo(c, place, s, n)
    PROVE  /\ pc'[c] = place /\ prev'[c] = s /\ read'[c] = n
           /\ \A d \in Calls \ {c} : pc'[d] = pc[d] /\ prev'[d] = prev[d] /\ read'[d] = read[d]
BY DEF TypeOK, GoTo

LEMMA InitType == Init => TypeOK
BY ThresholdAssumption, TroubleAssumption DEF Init, TypeOK, StallsEnd, CircuitState, Places

LEMMA StepType ==
    ASSUME TypeOK, [Next]_vars
    PROVE  TypeOK'
<1>. USE ThresholdAssumption
<1>1. ASSUME NEW c \in Calls, Begin(c)
      PROVE  TypeOK'
  <2>1. PICK s \in Fetched(state, "CLOSED") : GoTo(c, IF s = "OPEN" THEN "gate" ELSE "tool", s, 0)
    BY <1>1 DEF Begin
  <2>2. s \in CircuitState /\ (IF s = "OPEN" THEN "gate" ELSE "tool") \in Places
    BY <2>1 DEF TypeOK, Fetched, CircuitState, Places
  <2>3. /\ pc' \in [Calls -> Places]
        /\ prev' \in [Calls -> CircuitState]
        /\ read' \in [Calls -> Nat]
        /\ StallsEnd'
    BY <2>1, <2>2, GoToType
  <2>4. QED
    BY <1>1, <2>3 DEF Begin, TypeOK, redis
<1>2. ASSUME NEW c \in Calls, ReadOpenedAt(c)
      PROVE  TypeOK'
  <2>1. PICK age \in Fetched(openedAge, RecoveryTimeout) : GoTo(c, "decide", prev[c], age)
    BY <1>2 DEF ReadOpenedAt
  <2>2. age \in Nat /\ prev[c] \in CircuitState /\ "decide" \in Places
    BY <2>1 DEF TypeOK, Fetched, Places
  <2>3. /\ pc' \in [Calls -> Places]
        /\ prev' \in [Calls -> CircuitState]
        /\ read' \in [Calls -> Nat]
        /\ StallsEnd'
    BY <2>1, <2>2, GoToType
  <2>4. QED
    BY <1>2, <2>3 DEF ReadOpenedAt, TypeOK, redis
<1>3. ASSUME NEW c \in Calls, FailFast(c) \/ PassThrough(c) \/ Die(c)
      PROVE  TypeOK'
  BY <1>3, ReturnType DEF FailFast, PassThrough, Die, TypeOK, redis
<1>4. ASSUME NEW c \in Calls, Probe(c)
      PROVE  TypeOK'
  <2>1. state' \in CircuitState /\ sinceOpen' \in 0..RecoveryTimeout
    BY <1>4, SetStateType DEF Probe, CircuitState
  <2>2. /\ pc' \in [Calls -> Places]
        /\ prev' \in [Calls -> CircuitState]
        /\ read' \in [Calls -> Nat]
        /\ StallsEnd'
    BY <1>4, GoToType DEF Probe, CircuitState, Places
  <2>3. QED
    BY <1>4, <2>1, <2>2 DEF Probe, TypeOK
<1>5. ASSUME NEW c \in Calls, ResetProbes(c)
      PROVE  TypeOK'
  <2>1. /\ pc' \in [Calls -> Places]
        /\ prev' \in [Calls -> CircuitState]
        /\ read' \in [Calls -> Nat]
        /\ StallsEnd'
    BY <1>5, ProceedType DEF ResetProbes, Places
  <2>2. successes' \in 0..SuccessThreshold
    BY <1>5, WrittenValue DEF ResetProbes, SetSuccesses, TypeOK
  <2>3. QED
    BY <1>5, <2>1, <2>2 DEF ResetProbes, TypeOK
<1>6. ASSUME NEW c \in Calls, ForgiveFailures(c)
      PROVE  TypeOK'
  <2>1. failures' \in 0..FailureThreshold
    BY <1>6, WrittenValue DEF ForgiveFailures, SetFailures, TypeOK
  <2>2. QED
    BY <1>6, <2>1, ReturnType DEF ForgiveFailures, TypeOK
<1>7. ASSUME NEW c \in Calls, CountSuccess(c)
      PROVE  TypeOK'
  <2>1. PICK n \in Fetched(successes, 0) : GoTo(c, "add_success", prev[c], n)
    BY <1>7 DEF CountSuccess
  <2>2. n \in Nat /\ prev[c] \in CircuitState /\ "add_success" \in Places
    BY <2>1 DEF TypeOK, Fetched, Places
  <2>3. /\ pc' \in [Calls -> Places]
        /\ prev' \in [Calls -> CircuitState]
        /\ read' \in [Calls -> Nat]
        /\ StallsEnd'
    BY <2>1, <2>2, GoToType
  <2>4. QED
    BY <1>7, <2>3 DEF CountSuccess, TypeOK, redis
<1>8. ASSUME NEW c \in Calls, AddSuccess(c)
      PROVE  TypeOK'
  <2>1. Capped(read[c] + 1, SuccessThreshold) \in 0..SuccessThreshold
    BY CappedRange DEF TypeOK
  <2>2. successes' \in 0..SuccessThreshold
    BY <1>8, <2>1, WrittenValue DEF AddSuccess, SetSuccesses, TypeOK
  <2>3. /\ pc' \in [Calls -> Places]
        /\ prev' \in [Calls -> CircuitState]
        /\ read' \in [Calls -> Nat]
        /\ StallsEnd'
    BY <1>8, ProceedType, ReturnType DEF AddSuccess, Places
  <2>4. QED
    BY <1>8, <2>2, <2>3 DEF AddSuccess, TypeOK
<1>9. ASSUME NEW c \in Calls, Close(c) \/ Trip(c) \/ Reopen(c)
      PROVE  TypeOK'
  <2>1. state' \in CircuitState /\ sinceOpen' \in 0..RecoveryTimeout
    BY <1>9, SetStateType DEF Close, Trip, Reopen, CircuitState
  <2>2. /\ pc' \in [Calls -> Places]
        /\ prev' \in [Calls -> CircuitState]
        /\ read' \in [Calls -> Nat]
        /\ StallsEnd'
    BY <1>9, ProceedType DEF Close, Trip, Reopen, Places
  <2>3. QED
    BY <1>9, <2>1, <2>2 DEF Close, Trip, Reopen, TypeOK
<1>10. ASSUME NEW c \in Calls, ClearFailures(c)
       PROVE  TypeOK'
  <2>1. failures' \in 0..FailureThreshold
    BY <1>10, WrittenValue DEF ClearFailures, SetFailures, TypeOK
  <2>2. /\ pc' \in [Calls -> Places]
        /\ prev' \in [Calls -> CircuitState]
        /\ read' \in [Calls -> Nat]
        /\ StallsEnd'
    BY <1>10, ProceedType DEF ClearFailures, Places
  <2>3. QED
    BY <1>10, <2>1, <2>2 DEF ClearFailures, TypeOK
<1>11. ASSUME NEW c \in Calls, ClearSuccesses(c)
       PROVE  TypeOK'
  <2>1. successes' \in 0..SuccessThreshold
    BY <1>11, WrittenValue DEF ClearSuccesses, SetSuccesses, TypeOK
  <2>2. QED
    BY <1>11, <2>1, ReturnType DEF ClearSuccesses, TypeOK
<1>12. ASSUME NEW c \in Calls, CountFailure(c)
       PROVE  TypeOK'
  <2>1. PICK n \in Fetched(failures, 0) : GoTo(c, "add_failure", prev[c], n)
    BY <1>12 DEF CountFailure
  <2>2. n \in Nat /\ prev[c] \in CircuitState /\ "add_failure" \in Places
    BY <2>1 DEF TypeOK, Fetched, Places
  <2>3. /\ pc' \in [Calls -> Places]
        /\ prev' \in [Calls -> CircuitState]
        /\ read' \in [Calls -> Nat]
        /\ StallsEnd'
    BY <2>1, <2>2, GoToType
  <2>4. QED
    BY <1>12, <2>3 DEF CountFailure, TypeOK, redis
<1>13. ASSUME NEW c \in Calls, AddFailure(c)
       PROVE  TypeOK'
  <2>1. Capped(read[c] + 1, FailureThreshold) \in 0..FailureThreshold
    BY CappedRange DEF TypeOK
  <2>2. failures' \in 0..FailureThreshold
    BY <1>13, <2>1, WrittenValue DEF AddFailure, SetFailures, TypeOK
  <2>3. /\ pc' \in [Calls -> Places]
        /\ prev' \in [Calls -> CircuitState]
        /\ read' \in [Calls -> Nat]
        /\ StallsEnd'
    BY <1>13, ProceedType, ReturnType DEF AddFailure, Places
  <2>4. QED
    BY <1>13, <2>2, <2>3 DEF AddFailure, TypeOK
<1>14. ASSUME NEW c \in Calls, Stamp(c)
       PROVE  TypeOK'
  <2>1. read[c] \in 0..RecoveryTimeout
    BY <1>14, StallAssumption DEF Stamp, TypeOK, StallsEnd
  <2>4. openedAge' \in 0..RecoveryTimeout
    BY <1>14, <2>1, WrittenValue DEF Stamp, SetOpenedAt, TypeOK
  <2>2. /\ pc' \in [Calls -> Places]
        /\ prev' \in [Calls -> CircuitState]
        /\ read' \in [Calls -> Nat]
        /\ StallsEnd'
    BY <1>14, ProceedType DEF Stamp, Places
  <2>3. QED
    BY <1>14, <2>4, <2>2 DEF Stamp, TypeOK
<1>20. ASSUME NEW c \in Calls, ReadClock(c)
       PROVE  TypeOK'
  <2>1. /\ pc' \in [Calls -> Places]
        /\ prev' \in [Calls -> CircuitState]
        /\ read' \in [Calls -> Nat]
        /\ StallsEnd'
    BY <1>20, ProceedType DEF ReadClock, Places
  <2>2. QED
    BY <1>20, <2>1 DEF ReadClock, TypeOK, redis
<1>15. ASSUME NEW c \in Calls, Settle(c)
       PROVE  TypeOK'
  <2>1. failures' \in 0..FailureThreshold /\ successes' \in 0..SuccessThreshold
    BY <1>15, WrittenValue DEF Settle, SetFailures, SetSuccesses, TypeOK
  <2>2. QED
    BY <1>15, <2>1, ReturnType DEF Settle, TypeOK
<1>16. CASE Tick
  <2>1. openedAge' \in 0..RecoveryTimeout /\ sinceOpen' \in 0..RecoveryTimeout
    BY <1>16, CappedRange DEF Tick, Older, TypeOK
  <2>2. read' \in [Calls -> Nat] /\ StallsEnd'
    BY <1>16, StallAssumption DEF Tick, Older, Capped, TypeOK, StallsEnd
  <2>3. QED
    BY <1>16, <2>1, <2>2 DEF Tick, TypeOK
<1>17. CASE Environment
  BY <1>17 DEF Environment, TypeOK, StallsEnd, redis, local
<1>18. CASE UNCHANGED vars
  BY <1>18 DEF vars, redis, local, TypeOK, StallsEnd
<1>19. QED
  BY <1>1, <1>2, <1>3, <1>4, <1>5, <1>6, <1>7, <1>8, <1>9, <1>10, <1>11, <1>12,
     <1>13, <1>14, <1>15, <1>16, <1>17, <1>18, <1>20 DEF Next, Advance

\* The counters and the ages stay in range and every call is at a place of the
\* code, whatever fails: Redis, the tool or the worker.
THEOREM TypeCorrect == Spec => []TypeOK
<1>1. Init => TypeOK
  BY InitType
<1>2. TypeOK /\ [Next]_vars => TypeOK'
  BY StepType
<1>3. QED
  BY <1>1, <1>2, PTL DEF Spec

-----------------------------------------------------------------------------
(* A call counts down                                                      *)

\* The steps from each place to the end of call(), on the longest way.
StepsFrom ==
    [idle |-> 0,
     settle |-> 1, stamping |-> 2, stamp |-> 3, trip |-> 4, add_failure |-> 5,
     clear_successes |-> 1, clear_failures |-> 2, close |-> 3, add_success |-> 4,
     tool |-> 6, reset_probes |-> 7, decide |-> 8, gate |-> 9]

StepsLeft(c) == StepsFrom[pc[c]]

LEMMA AdvanceCountsDown ==
    ASSUME TypeOK, NEW c \in Calls, Advance(c)
    PROVE  StepsLeft(c)' < StepsLeft(c)
<1>1. ASSUME NEW place, NEW s, NEW n, GoTo(c, place, s, n), StepsFrom[place] < StepsLeft(c)
      PROVE  StepsLeft(c)' < StepsLeft(c)
  BY <1>1, OnlyOneMoves DEF StepsLeft
<1>2. ASSUME NEW place, Proceed(c, place), StepsFrom[place] < StepsLeft(c)
      PROVE  StepsLeft(c)' < StepsLeft(c)
  BY <1>1, <1>2 DEF Proceed
<1>3. ASSUME Return(c), StepsLeft(c) > 0
      PROVE  StepsLeft(c)' < StepsLeft(c)
  <2>1. StepsFrom["idle"] < StepsLeft(c)
    BY <1>3 DEF StepsFrom
  <2>2. QED
    BY <1>1, <1>3, <2>1 DEF Return
<1>4. CASE ReadOpenedAt(c) \/ CountSuccess(c) \/ CountFailure(c)
  <2>1. \/ pc[c] = "gate" /\ \E n : GoTo(c, "decide", prev[c], n)
        \/ pc[c] = "tool" /\ \E n : GoTo(c, "add_success", prev[c], n)
        \/ pc[c] = "tool" /\ \E n : GoTo(c, "add_failure", prev[c], n)
    BY <1>4 DEF ReadOpenedAt, CountSuccess, CountFailure
  <2>2. QED
    BY <1>1, <2>1 DEF StepsLeft, StepsFrom
<1>5. CASE Probe(c)
  BY <1>1, <1>5 DEF Probe, StepsLeft, StepsFrom
<1>6. CASE FailFast(c) \/ ForgiveFailures(c) \/ PassThrough(c) \/ ClearSuccesses(c) \/ Settle(c)
  BY <1>3, <1>6 DEF FailFast, ForgiveFailures, PassThrough, ClearSuccesses, Settle, StepsLeft,
     StepsFrom
<1>7. CASE \/ ResetProbes(c) \/ Close(c) \/ ClearFailures(c) \/ Reopen(c) \/ Trip(c)
           \/ ReadClock(c) \/ Stamp(c)
  BY <1>2, <1>7
     DEF ResetProbes, Close, ClearFailures, Reopen, Trip, ReadClock, Stamp, StepsLeft, StepsFrom
<1>8. CASE AddSuccess(c) \/ AddFailure(c)
  <2>1. \/ Return(c)
        \/ pc[c] = "add_success" /\ Proceed(c, "close")
        \/ pc[c] = "add_failure" /\ Proceed(c, "trip")
    BY <1>8 DEF AddSuccess, AddFailure
  <2>2. StepsLeft(c) \in {4, 5} /\ (pc[c] = "add_failure" => StepsLeft(c) = 5)
    BY <1>8 DEF AddSuccess, AddFailure, StepsLeft, StepsFrom
  <2>3. QED
    BY <1>2, <1>3, <2>1, <2>2 DEF StepsFrom
<1>9. QED
  BY <1>4, <1>5, <1>6, <1>7, <1>8 DEF Advance

\* The other calls, time and the troubles send no call back.
LEMMA OthersLeaveCalls ==
    ASSUME TypeOK, [Next]_vars, NEW c \in Calls, pc[c] # "idle", ~Advance(c)
    PROVE  StepsLeft(c)' <= StepsLeft(c)
<1>1. StepsLeft(c) \in 0..9 /\ StepsFrom["idle"] = 0
  BY DEF TypeOK, Places, StepsLeft, StepsFrom
<1>2. ASSUME NEW d \in Calls \ {c}, Begin(d) \/ Advance(d) \/ Die(d)
      PROVE  pc'[c] = pc[c]
  <2>1. \E place, s, n : GoTo(d, place, s, n)
    BY <1>2 DEF Begin, Advance, Die, ReadOpenedAt, FailFast, Probe, ResetProbes, ForgiveFailures,
       CountSuccess, AddSuccess, Close, ClearFailures, ClearSuccesses, Reopen, CountFailure,
       AddFailure, Trip, ReadClock, Stamp, Settle, PassThrough, Proceed, Return
  <2>2. QED
    BY <2>1, OnlyOneMoves
<1>3. CASE Begin(c)
  BY <1>3 DEF Begin
<1>4. CASE Die(c)
  <2>1. pc'[c] = "idle"
    BY <1>4, OnlyOneMoves DEF Die, Return
  <2>2. QED
    BY <1>1, <2>1 DEF StepsLeft
<1>5. CASE Tick \/ Environment \/ UNCHANGED vars
  BY <1>1, <1>5 DEF Tick, Environment, vars, local, StepsLeft
<1>6. CASE \E d \in Calls \ {c} : Begin(d) \/ Advance(d) \/ Die(d)
  BY <1>1, <1>2, <1>6 DEF StepsLeft
<1>7. QED
  BY <1>3, <1>4, <1>5, <1>6 DEF Next

\* A call is over after nine of its own steps at most, whatever Redis, the tool and the
\* other calls do: the breaker never keeps a request, and no count it reads makes it loop.
THEOREM CallsCountDown ==
    Spec => /\ [](\A c \in Calls : StepsLeft(c) \in 0..9 /\ (StepsLeft(c) = 0 <=> pc[c] = "idle"))
            /\ [][\A c \in Calls : pc[c] # "idle" =>
                    /\ StepsLeft(c)' <= StepsLeft(c)
                    /\ Advance(c) => StepsLeft(c)' < StepsLeft(c)]_vars
<1>1. TypeOK => \A c \in Calls : StepsLeft(c) \in 0..9 /\ (StepsLeft(c) = 0 <=> pc[c] = "idle")
  BY DEF TypeOK, Places, StepsLeft, StepsFrom
<1>2. ASSUME TypeOK, TypeOK', [Next]_vars, NEW c \in Calls, pc[c] # "idle"
      PROVE  StepsLeft(c)' <= StepsLeft(c) /\ (Advance(c) => StepsLeft(c)' < StepsLeft(c))
  <2>1. StepsLeft(c) \in Nat /\ StepsLeft(c)' \in Nat
    BY <1>2 DEF TypeOK, Places, StepsLeft, StepsFrom
  <2>2. QED
    BY <1>2, <2>1, AdvanceCountsDown, OthersLeaveCalls
<1>3. TypeOK /\ TypeOK' /\ [Next]_vars =>
        [\A c \in Calls : pc[c] # "idle" =>
            /\ StepsLeft(c)' <= StepsLeft(c)
            /\ Advance(c) => StepsLeft(c)' < StepsLeft(c)]_vars
  BY <1>2
<1>4. QED
  BY <1>1, <1>3, TypeCorrect, PTL DEF Spec

-----------------------------------------------------------------------------
(* With a Redis that answers and workers that live on, every write takes   *)
(* effect and no call stops half-way.                                      *)

Reliable == Troubles \subseteq {"tool"}

LEMMA ReliableWrite ==
    ASSUME Reliable, TypeOK, NEW old, NEW new
    PROVE  Written(old, new) = {new}
BY DEF Reliable, TypeOK, Written

LEMMA ReliableRead ==
    ASSUME Reliable, TypeOK, NEW value, NEW default
    PROVE  Fetched(value, default) = {value}
BY DEF Reliable, TypeOK, Fetched

\* The local `state` of a call says which branch of call() the call is in.
BranchFits ==
    \A c \in Calls :
        /\ pc[c] \in {"idle", "add_failure", "trip"} => prev[c] = "CLOSED"
        /\ pc[c] \in {"gate", "decide"} => prev[c] = "OPEN"
        /\ pc[c] \in {"tool", "stamp", "stamping", "settle"} => prev[c] \in {"CLOSED", "HALF_OPEN"}
        /\ pc[c] \in {"reset_probes", "add_success", "close", "clear_failures", "clear_successes"}
              => prev[c] = "HALF_OPEN"

LEMMA BranchFitsStep ==
    ASSUME TypeOK, BranchFits, [Next]_vars
    PROVE  BranchFits'
<1>1. ASSUME NEW c \in Calls, NEW place, NEW s, NEW n, GoTo(c, place, s, n),
             /\ place \in {"idle", "add_failure", "trip"} => s = "CLOSED"
             /\ place \in {"gate", "decide"} => s = "OPEN"
             /\ place \in {"tool", "stamp", "stamping", "settle"} => s \in {"CLOSED", "HALF_OPEN"}
             /\ place \in {"reset_probes", "add_success", "close", "clear_failures",
                           "clear_successes"} => s = "HALF_OPEN"
      PROVE  BranchFits'
  BY <1>1, OnlyOneMoves DEF BranchFits
<1>2. ASSUME NEW c \in Calls, Begin(c)
      PROVE  BranchFits'
  <2>1. PICK s \in Fetched(state, "CLOSED") : GoTo(c, IF s = "OPEN" THEN "gate" ELSE "tool", s, 0)
    BY <1>2 DEF Begin
  <2>2. s \in CircuitState
    BY <2>1 DEF TypeOK, Fetched, CircuitState
  <2>3. CASE s = "OPEN"
    <3>1. GoTo(c, "gate", s, 0)
      BY <2>1, <2>3
    <3>2. QED
      BY <3>1, <1>1, <2>3
  <2>4. CASE s # "OPEN"
    <3>1. GoTo(c, "tool", s, 0) /\ s \in {"CLOSED", "HALF_OPEN"}
      BY <2>1, <2>2, <2>4 DEF CircuitState
    <3>2. QED
      BY <3>1, <1>1
  <2>5. QED
    BY <2>3, <2>4
<1>3. ASSUME NEW c \in Calls, ReadOpenedAt(c)
      PROVE  BranchFits'
  <2>1. PICK age : GoTo(c, "decide", prev[c], age)
    BY <1>3 DEF ReadOpenedAt
  <2>2. prev[c] = "OPEN"
    BY <1>3 DEF ReadOpenedAt, BranchFits
  <2>3. QED
    BY <2>1, <2>2, <1>1
<1>4. ASSUME NEW c \in Calls, Return(c)
      PROVE  BranchFits'
  BY <1>4, <1>1 DEF Return
<1>5. ASSUME NEW c \in Calls, Probe(c)
      PROVE  BranchFits'
  BY <1>5, <1>1 DEF Probe
<1>6. ASSUME NEW c \in Calls, CountSuccess(c)
      PROVE  BranchFits'
  <2>1. PICK n : GoTo(c, "add_success", prev[c], n)
    BY <1>6 DEF CountSuccess
  <2>2. prev[c] = "HALF_OPEN"
    BY <1>6 DEF CountSuccess
  <2>3. QED
    BY <2>1, <2>2, <1>1
<1>7. ASSUME NEW c \in Calls, CountFailure(c)
      PROVE  BranchFits'
  <2>1. PICK n : GoTo(c, "add_failure", prev[c], n)
    BY <1>7 DEF CountFailure
  <2>2. prev[c] = "CLOSED"
    BY <1>7 DEF CountFailure, BranchFits
  <2>3. QED
    BY <2>1, <2>2, <1>1
<1>8. ASSUME NEW c \in Calls, NEW place, Proceed(c, place),
             \/ place = "tool" /\ pc[c] = "reset_probes"
             \/ place = "close" /\ pc[c] = "add_success"
             \/ place = "clear_failures" /\ pc[c] = "close"
             \/ place = "clear_successes" /\ pc[c] = "clear_failures"
             \/ place = "trip" /\ pc[c] = "add_failure"
             \/ place = "stamp" /\ pc[c] \in {"tool", "trip"}
             \/ place = "stamping" /\ pc[c] = "stamp"
             \/ place = "settle" /\ pc[c] = "stamping"
      PROVE  BranchFits'
  <2>1. GoTo(c, place, prev[c], 0)
    BY <1>8 DEF Proceed
  <2>2. /\ place \in {"idle", "add_failure", "trip"} => prev[c] = "CLOSED"
        /\ place \in {"gate", "decide"} => prev[c] = "OPEN"
        /\ place \in {"tool", "stamp", "stamping", "settle"} => prev[c] \in {"CLOSED", "HALF_OPEN"}
        /\ place \in {"reset_probes", "add_success", "close", "clear_failures",
                      "clear_successes"} => prev[c] = "HALF_OPEN"
    BY <1>8 DEF BranchFits
  <2>3. QED
    BY <2>1, <2>2, <1>1
<1>9. ASSUME NEW c \in Calls, Advance(c)
      PROVE  BranchFits'
  <2>1. CASE FailFast(c) \/ ForgiveFailures(c) \/ ClearSuccesses(c) \/ Settle(c) \/ PassThrough(c)
    BY <2>1, <1>4 DEF FailFast, ForgiveFailures, ClearSuccesses, Settle, PassThrough
  <2>2. CASE \/ ResetProbes(c) \/ Close(c) \/ ClearFailures(c) \/ Reopen(c) \/ Trip(c)
             \/ ReadClock(c) \/ Stamp(c)
    BY <2>2, <1>8 DEF ResetProbes, Close, ClearFailures, Reopen, Trip, ReadClock, Stamp
  <2>3. CASE AddSuccess(c) \/ AddFailure(c)
    BY <2>3, <1>4, <1>8 DEF AddSuccess, AddFailure
  <2>4. QED
    BY <1>3, <1>5, <1>6, <1>7, <1>9, <2>1, <2>2, <2>3 DEF Advance
<1>10. CASE Tick \/ Environment \/ UNCHANGED vars
  BY <1>10 DEF Tick, Environment, vars, local, BranchFits
<1>11. QED
  BY <1>2, <1>4, <1>9, <1>10 DEF Next, Die

FailuresSettle ==
    failures >= FailureThreshold =>
        \E c \in Calls : pc[c] \in {"trip", "stamp", "stamping", "settle"} /\ prev[c] # "HALF_OPEN"

SuccessesSettle ==
    successes >= SuccessThreshold =>
        \E c \in Calls : pc[c] \in {"close", "clear_failures", "clear_successes"}

LEMMA FailuresSettleStep ==
    ASSUME Reliable, TypeOK, BranchFits, FailuresSettle, [Next]_vars
    PROVE  FailuresSettle'
<1>. USE ThresholdAssumption
<1>. DEFINE Resetting(d) == pc[d] \in {"trip", "stamp", "stamping", "settle"} /\ prev[d] # "HALF_OPEN"
<1>1. ASSUME NEW c \in Calls, ~Resetting(c), UNCHANGED failures,
             \A d \in Calls \ {c} : pc'[d] = pc[d] /\ prev'[d] = prev[d]
      PROVE  FailuresSettle'
  BY <1>1 DEF FailuresSettle
<1>2. ASSUME NEW c \in Calls, Begin(c) \/ ReadOpenedAt(c) \/ CountSuccess(c) \/ CountFailure(c)
      PROVE  FailuresSettle'
  BY <1>1, <1>2, OnlyOneMoves DEF Begin, ReadOpenedAt, CountSuccess, CountFailure, redis
<1>3. ASSUME NEW c \in Calls, FailFast(c) \/ Probe(c) \/ ResetProbes(c) \/ PassThrough(c)
      PROVE  FailuresSettle'
  BY <1>1, <1>3, OnlyOneMoves
     DEF FailFast, Probe, ResetProbes, PassThrough, Return, Proceed, redis
<1>4. ASSUME NEW c \in Calls, AddSuccess(c) \/ Close(c) \/ ClearSuccesses(c)
      PROVE  FailuresSettle'
  BY <1>1, <1>4, OnlyOneMoves DEF AddSuccess, Close, ClearSuccesses, Return, Proceed
<1>12. ASSUME NEW c \in Calls, Reopen(c)
      PROVE  FailuresSettle'
  BY <1>1, <1>12, OnlyOneMoves DEF Reopen, Proceed
<1>5. ASSUME NEW c \in Calls, ForgiveFailures(c) \/ ClearFailures(c)
      PROVE  FailuresSettle'
  <2>1. failures' = 0
    BY <1>5, ReliableWrite DEF ForgiveFailures, ClearFailures, SetFailures
  <2>2. QED
    BY <2>1 DEF FailuresSettle
<1>6. ASSUME NEW c \in Calls, AddFailure(c)
      PROVE  FailuresSettle'
  <2>. DEFINE n == Capped(read[c] + 1, FailureThreshold)
  <2>1. failures' = n
    BY <1>6, ReliableWrite DEF AddFailure, SetFailures
  <2>2. n >= FailureThreshold => pc'[c] = "trip" /\ prev'[c] = prev[c]
    BY <1>6, OnlyOneMoves DEF AddFailure, Proceed
  <2>3. prev[c] # "HALF_OPEN"
    BY <1>6 DEF AddFailure, BranchFits
  <2>4. QED
    BY <2>1, <2>2, <2>3 DEF FailuresSettle
<1>7. ASSUME NEW c \in Calls, Trip(c) \/ ReadClock(c) \/ Stamp(c)
      PROVE  FailuresSettle'
  <2>1. /\ UNCHANGED failures
        /\ pc[c] \in {"trip", "stamp", "stamping", "settle"}
        /\ pc'[c] \in {"trip", "stamp", "stamping", "settle"}
        /\ prev'[c] = prev[c]
        /\ \A d \in Calls \ {c} : pc'[d] = pc[d] /\ prev'[d] = prev[d]
    BY <1>7, OnlyOneMoves DEF Trip, ReadClock, Stamp, Proceed, redis
  <2>2. QED
    BY <2>1 DEF FailuresSettle
<1>8. ASSUME NEW c \in Calls, Settle(c)
      PROVE  FailuresSettle'
  <2>1. CASE prev[c] = "HALF_OPEN"
    BY <1>1, <1>8, <2>1, OnlyOneMoves DEF Settle, Return
  <2>2. CASE prev[c] # "HALF_OPEN"
    <3>1. failures' = 0
      BY <1>8, <2>2, ReliableWrite DEF Settle, SetFailures
    <3>2. QED
      BY <3>1 DEF FailuresSettle
  <2>3. QED
    BY <2>1, <2>2
<1>9. CASE Tick \/ Environment \/ UNCHANGED vars
  BY <1>9 DEF Tick, Environment, vars, redis, local, FailuresSettle
<1>10. \A c \in Calls : ~Die(c)
  BY DEF Die, TypeOK, Reliable
<1>13. QED
  BY <1>2, <1>3, <1>4, <1>5, <1>6, <1>7, <1>8, <1>9, <1>10, <1>12 DEF Next, Advance

LEMMA SuccessesSettleStep ==
    ASSUME Reliable, TypeOK, SuccessesSettle, [Next]_vars
    PROVE  SuccessesSettle'
<1>. USE ThresholdAssumption
<1>. DEFINE Closing == {"close", "clear_failures", "clear_successes"}
<1>1. ASSUME NEW c \in Calls, pc[c] \notin Closing, UNCHANGED successes,
             \A d \in Calls \ {c} : pc'[d] = pc[d]
      PROVE  SuccessesSettle'
  BY <1>1 DEF SuccessesSettle
<1>2. ASSUME NEW c \in Calls, Begin(c) \/ ReadOpenedAt(c) \/ CountSuccess(c) \/ CountFailure(c)
      PROVE  SuccessesSettle'
  BY <1>1, <1>2, OnlyOneMoves DEF Begin, ReadOpenedAt, CountSuccess, CountFailure, redis
<1>3. ASSUME NEW c \in Calls, FailFast(c) \/ Probe(c) \/ ForgiveFailures(c) \/ PassThrough(c)
      PROVE  SuccessesSettle'
  BY <1>1, <1>3, OnlyOneMoves DEF FailFast, Probe, ForgiveFailures, PassThrough, Return, redis
<1>4. ASSUME NEW c \in Calls, Reopen(c) \/ Trip(c) \/ ReadClock(c) \/ Stamp(c)
      PROVE  SuccessesSettle'
  BY <1>1, <1>4, OnlyOneMoves DEF Reopen, Trip, ReadClock, Stamp, Proceed, redis
<1>5. ASSUME NEW c \in Calls, AddFailure(c)
      PROVE  SuccessesSettle'
  BY <1>1, <1>5, OnlyOneMoves DEF AddFailure, Return, Proceed
<1>6. ASSUME NEW c \in Calls, ResetProbes(c) \/ ClearSuccesses(c)
      PROVE  SuccessesSettle'
  <2>1. successes' = 0
    BY <1>6, ReliableWrite DEF ResetProbes, ClearSuccesses, SetSuccesses
  <2>2. QED
    BY <2>1 DEF SuccessesSettle
<1>7. ASSUME NEW c \in Calls, AddSuccess(c)
      PROVE  SuccessesSettle'
  <2>. DEFINE n == Capped(read[c] + 1, SuccessThreshold)
  <2>1. successes' = n
    BY <1>7, ReliableWrite DEF AddSuccess, SetSuccesses
  <2>2. n >= SuccessThreshold => pc'[c] = "close"
    BY <1>7, OnlyOneMoves DEF AddSuccess, Proceed
  <2>3. QED
    BY <2>1, <2>2 DEF SuccessesSettle
<1>8. ASSUME NEW c \in Calls, Close(c) \/ ClearFailures(c)
      PROVE  SuccessesSettle'
  <2>1. UNCHANGED successes /\ pc'[c] \in Closing
        /\ pc[c] \in Closing /\ \A d \in Calls \ {c} : pc'[d] = pc[d]
    BY <1>8, OnlyOneMoves DEF Close, ClearFailures, Proceed
  <2>2. QED
    BY <2>1 DEF SuccessesSettle
<1>9. ASSUME NEW c \in Calls, Settle(c)
      PROVE  SuccessesSettle'
  <2>1. CASE prev[c] # "HALF_OPEN"
    BY <1>1, <1>9, <2>1, OnlyOneMoves DEF Settle, Return
  <2>2. CASE prev[c] = "HALF_OPEN"
    <3>1. successes' = 0
      BY <1>9, <2>2, ReliableWrite DEF Settle, SetSuccesses
    <3>2. QED
      BY <3>1 DEF SuccessesSettle
  <2>3. QED
    BY <2>1, <2>2
<1>10. CASE Tick \/ Environment \/ UNCHANGED vars
  BY <1>10 DEF Tick, Environment, vars, redis, local, SuccessesSettle
<1>11. \A c \in Calls : ~Die(c)
  BY DEF Die, TypeOK, Reliable
<1>12. QED
  BY <1>2, <1>3, <1>4, <1>5, <1>6, <1>7, <1>8, <1>9, <1>10, <1>11 DEF Next, Advance

LEMMA OpenIsStampedStep ==
    ASSUME Reliable, TypeOK, OpenIsStamped, [Next]_vars
    PROVE  OpenIsStamped'
<1>. USE ThresholdAssumption
<1>1. ASSUME NEW c \in Calls, pc[c] \notin {"stamp", "stamping"}, UNCHANGED <<state, openedAge, sinceOpen>>,
             \A d \in Calls \ {c} : pc'[d] = pc[d]
      PROVE  OpenIsStamped'
  BY <1>1 DEF OpenIsStamped
<1>2. ASSUME NEW c \in Calls, Begin(c) \/ ReadOpenedAt(c) \/ CountSuccess(c) \/ CountFailure(c)
      PROVE  OpenIsStamped'
  BY <1>1, <1>2, OnlyOneMoves DEF Begin, ReadOpenedAt, CountSuccess, CountFailure, redis
<1>3. ASSUME NEW c \in Calls, FailFast(c) \/ ForgiveFailures(c) \/ PassThrough(c) \/ ResetProbes(c)
      PROVE  OpenIsStamped'
  BY <1>1, <1>3, OnlyOneMoves
     DEF FailFast, ForgiveFailures, PassThrough, ResetProbes, Return, Proceed, redis
<1>4. ASSUME NEW c \in Calls, AddFailure(c) \/ AddSuccess(c)
      PROVE  OpenIsStamped'
  BY <1>1, <1>4, OnlyOneMoves DEF AddFailure, AddSuccess, Return, Proceed
<1>5. ASSUME NEW c \in Calls, ClearFailures(c) \/ ClearSuccesses(c) \/ Settle(c)
      PROVE  OpenIsStamped'
  BY <1>1, <1>5, OnlyOneMoves DEF ClearFailures, ClearSuccesses, Settle, Return, Proceed
<1>6. ASSUME NEW c \in Calls, Probe(c) \/ Close(c)
      PROVE  OpenIsStamped'
  <2>1. state' # "OPEN"
    BY <1>6, ReliableWrite DEF Probe, Close, SetState
  <2>2. QED
    BY <2>1 DEF OpenIsStamped
<1>7. ASSUME NEW c \in Calls, Reopen(c) \/ Trip(c)
      PROVE  OpenIsStamped'
  <2>1. pc'[c] = "stamp"
    BY <1>7, OnlyOneMoves DEF Reopen, Trip, Proceed
  <2>2. QED
    BY <2>1 DEF OpenIsStamped
<1>8. ASSUME NEW c \in Calls, Stamp(c)
      PROVE  OpenIsStamped'
  <2>1. openedAge' = read[c] /\ sinceOpen' \in Nat
    BY <1>8, ReliableWrite DEF Stamp, SetOpenedAt, TypeOK
  <2>2. read[c] <= MaxStall /\ read[c] \in Nat
    BY <1>8 DEF Stamp, TypeOK, StallsEnd
  <2>3. QED
    BY <2>1, <2>2, StallAssumption DEF OpenIsStamped
<1>13. ASSUME NEW c \in Calls, ReadClock(c)
       PROVE  OpenIsStamped'
  <2>1. pc'[c] = "stamping"
    BY <1>13, OnlyOneMoves DEF ReadClock, Proceed
  <2>2. QED
    BY <2>1 DEF OpenIsStamped
<1>9. CASE Tick
  BY <1>9, StallAssumption DEF Tick, Older, Capped, TypeOK, OpenIsStamped
<1>10. CASE Environment \/ UNCHANGED vars
  BY <1>10 DEF Environment, vars, redis, local, OpenIsStamped
<1>11. \A c \in Calls : ~Die(c)
  BY DEF Die, TypeOK, Reliable
<1>12. QED
  BY <1>2, <1>3, <1>4, <1>5, <1>6, <1>7, <1>8, <1>9, <1>10, <1>11, <1>13 DEF Next, Advance

BreakerInv == TypeOK /\ BranchFits /\ FailuresSettle /\ SuccessesSettle /\ OpenIsStamped

LEMMA BreakerInvariant ==
    ASSUME Reliable
    PROVE  Spec => []BreakerInv
<1>1. Init => BreakerInv
  <2>1. Init => BranchFits /\ FailuresSettle /\ SuccessesSettle /\ OpenIsStamped
    BY ThresholdAssumption
       DEF Init, BranchFits, FailuresSettle, SuccessesSettle, OpenIsStamped
  <2>2. QED
    BY <2>1, InitType DEF BreakerInv
<1>2. BreakerInv /\ [Next]_vars => BreakerInv'
  BY Reliable, StepType, BranchFitsStep, FailuresSettleStep, SuccessesSettleStep, OpenIsStampedStep
     DEF BreakerInv
<1>3. QED
  BY <1>1, <1>2, PTL DEF Spec

\* Whatever the interleaving, a counter at its threshold is about to be reset
\* by the call that found it there.
THEOREM CountersAlwaysSettle ==
    ASSUME Reliable
    PROVE  Spec => []CountersSettle
<1>1. BreakerInv => CountersSettle
  BY DEF BreakerInv, FailuresSettle, SuccessesSettle, CountersSettle
<1>2. QED
  BY <1>1, BreakerInvariant, PTL

\* Whatever the interleaving and however late each SET lands, an OPEN circuit carries
\* a time no older than its latest opening by more than MaxStall, or is about to.
THEOREM OpenAlwaysStamped ==
    ASSUME Reliable
    PROVE  Spec => []OpenIsStamped
<1>1. BreakerInv => OpenIsStamped
  BY DEF BreakerInv
<1>2. QED
  BY <1>1, BreakerInvariant, PTL

LEMMA ShieldStep ==
    ASSUME Reliable, TypeOK, [Next]_vars, Shielded
    PROVE  Shielded' \/ openedAge' >= RecoveryTimeout
<1>. USE ThresholdAssumption
<1>1. ASSUME NEW c \in Calls, UNCHANGED redis,
             \A d \in Calls \ {c} : pc'[d] = pc[d] /\ read'[d] = read[d],
             pc'[c] \in {"idle", "gate"} \/ (pc'[c] = "decide" /\ read'[c] = openedAge)
      PROVE  Shielded'
  BY <1>1 DEF Shielded, redis
<1>2. ASSUME NEW c \in Calls, Begin(c)
      PROVE  Shielded'
  <2>1. GoTo(c, "gate", "OPEN", 0)
    BY <1>2, ReliableRead DEF Begin, Shielded
  <2>2. QED
    BY <1>2, <2>1, <1>1, OnlyOneMoves DEF Begin
<1>3. ASSUME NEW c \in Calls, ReadOpenedAt(c)
      PROVE  Shielded'
  <2>1. GoTo(c, "decide", prev[c], openedAge)
    BY <1>3, ReliableRead DEF ReadOpenedAt
  <2>2. QED
    BY <1>3, <2>1, <1>1, OnlyOneMoves DEF ReadOpenedAt
<1>4. ASSUME NEW c \in Calls, FailFast(c)
      PROVE  Shielded'
  BY <1>4, <1>1, OnlyOneMoves DEF FailFast, Return
<1>5. ASSUME NEW c \in Calls, Advance(c)
      PROVE  ReadOpenedAt(c) \/ FailFast(c)
  <2>1. pc[c] \in {"idle", "gate", "decide"} /\ ~Probe(c)
    BY DEF Shielded, Probe, TypeOK
  <2>2. QED
    BY <1>5, <2>1
       DEF Advance, ResetProbes, ForgiveFailures, CountSuccess, AddSuccess, Close, ClearFailures,
           ClearSuccesses, Reopen, CountFailure, AddFailure, Trip, ReadClock, Stamp, Settle, PassThrough
<1>6. CASE Tick
  BY <1>6 DEF Tick, Older, Capped, TypeOK, Shielded
<1>7. CASE Environment \/ UNCHANGED vars
  BY <1>7 DEF Environment, vars, redis, local, Shielded
<1>8. \A c \in Calls : ~Die(c)
  BY DEF Die, TypeOK, Reliable
<1>9. QED
  BY <1>2, <1>3, <1>4, <1>5, <1>6, <1>7, <1>8 DEF Next

\* Once every call is at or before the gate of an OPEN circuit, no call
\* reaches the tool before the recovery timeout has run out.
THEOREM OpenShieldsTheTool ==
    ASSUME Reliable
    PROVE  Spec => FailFastUntilTimeout
<1>1. TypeOK /\ [Next]_vars => [Shielded => Shielded' \/ openedAge' >= RecoveryTimeout]_vars
  BY Reliable, ShieldStep
<1>2. QED
  BY <1>1, TypeCorrect, PTL DEF Spec, FailFastUntilTimeout

-----------------------------------------------------------------------------

\* The second part is about an instance with one element of Calls, which makes one
\* call after the other.
OneCall(c) == Calls = {c}

\* What the only call knows of Redis at each of its places.
Follows(c) ==
    /\ pc[c] \in {"gate", "decide", "stamp", "stamping", "settle"} => state = "OPEN"
    /\ state = "OPEN" => openedAge <= sinceOpen \/ pc[c] \in {"stamp", "stamping"}
    /\ pc[c] = "stamping" => read[c] <= sinceOpen
    /\ pc[c] \in {"reset_probes", "add_success", "close"} => state = "HALF_OPEN"
    /\ pc[c] \in {"clear_failures", "clear_successes", "add_failure", "trip"} => state = "CLOSED"
    /\ pc[c] = "tool" => state = prev[c]
    /\ pc[c] = "decide" => read[c] = openedAge
    /\ pc[c] = "add_success" => read[c] = successes
    /\ pc[c] = "add_failure" => read[c] = failures
    /\ pc[c] = "close" => successes = SuccessThreshold
    /\ pc[c] = "trip" => failures = FailureThreshold

\* The counters are below their thresholds, and zero in the states that do not
\* count, except where the call is about to reset them.
CountersFit(c) ==
    /\ \/ failures < FailureThreshold
       \/ pc[c] \in {"trip", "stamp", "stamping", "settle"} /\ prev[c] = "CLOSED"
    /\ \/ successes < SuccessThreshold
       \/ pc[c] \in {"close", "clear_failures", "clear_successes"}
       \/ pc[c] \in {"stamp", "stamping", "settle"} /\ prev[c] = "HALF_OPEN"
    /\ state # "CLOSED" =>
          \/ failures = 0
          \/ pc[c] \in {"stamp", "stamping", "settle"} /\ prev[c] = "CLOSED"
    /\ state # "HALF_OPEN" =>
          \/ successes = 0
          \/ pc[c] \in {"clear_failures", "clear_successes"}
          \/ pc[c] \in {"stamp", "stamping", "settle"} /\ prev[c] = "HALF_OPEN"

SequentialInv(c) == BreakerInv /\ Follows(c) /\ CountersFit(c)

LEMMA SequentialStep ==
    ASSUME Reliable, NEW c, OneCall(c), SequentialInv(c), [Next]_vars
    PROVE  Follows(c)' /\ CountersFit(c)'
<1>. USE ThresholdAssumption DEF SequentialInv, BreakerInv
<1>0. c \in Calls /\ BranchFits
  BY DEF OneCall
<1>1. CASE Begin(c)
  <2>1. GoTo(c, IF state = "OPEN" THEN "gate" ELSE "tool", state, 0)
    BY <1>1, ReliableRead DEF Begin
  <2>2. /\ pc'[c] = (IF state = "OPEN" THEN "gate" ELSE "tool") /\ prev'[c] = state
    BY <1>0, <2>1, OnlyOneMoves
  <2>3. QED
    BY <1>1, <2>2 DEF Begin, redis, Follows, CountersFit
<1>2. CASE ReadOpenedAt(c)
  <2>1. GoTo(c, "decide", prev[c], openedAge)
    BY <1>2, ReliableRead DEF ReadOpenedAt
  <2>2. pc'[c] = "decide" /\ read'[c] = openedAge
    BY <1>0, <2>1, OnlyOneMoves
  <2>3. QED
    BY <1>2, <2>2 DEF ReadOpenedAt, redis, Follows, CountersFit
<1>3. CASE FailFast(c) \/ PassThrough(c)
  <2>1. pc'[c] = "idle" /\ UNCHANGED redis /\ pc[c] \in {"decide", "tool"}
    BY <1>0, <1>3, OnlyOneMoves DEF FailFast, PassThrough, Return
  <2>2. QED
    BY <2>1 DEF redis, Follows, CountersFit
<1>4. CASE Probe(c)
  <2>1. pc'[c] = "reset_probes" /\ state' = "HALF_OPEN"
    BY <1>0, <1>4, OnlyOneMoves, ReliableWrite DEF Probe, SetState
  <2>2. QED
    BY <1>4, <2>1 DEF Probe, Follows, CountersFit
<1>5. CASE ResetProbes(c)
  <2>1. pc'[c] = "tool" /\ prev'[c] = prev[c] /\ successes' = 0
    BY <1>0, <1>5, OnlyOneMoves, ReliableWrite DEF ResetProbes, SetSuccesses, Proceed
  <2>2. prev[c] = "HALF_OPEN"
    BY <1>0, <1>5 DEF ResetProbes, BranchFits
  <2>3. QED
    BY <1>5, <2>1, <2>2 DEF ResetProbes, Follows, CountersFit
<1>6. CASE ForgiveFailures(c)
  <2>1. pc'[c] = "idle" /\ failures' = 0
    BY <1>0, <1>6, OnlyOneMoves, ReliableWrite DEF ForgiveFailures, SetFailures, Return
  <2>2. QED
    BY <1>6, <2>1 DEF ForgiveFailures, Follows, CountersFit
<1>7. CASE CountSuccess(c)
  <2>1. GoTo(c, "add_success", prev[c], successes)
    BY <1>7, ReliableRead DEF CountSuccess
  <2>2. pc'[c] = "add_success" /\ read'[c] = successes
    BY <1>0, <2>1, OnlyOneMoves
  <2>3. QED
    BY <1>7, <2>2 DEF CountSuccess, redis, Follows, CountersFit
<1>8. CASE AddSuccess(c)
  <2>. DEFINE n == Capped(read[c] + 1, SuccessThreshold)
  <2>1. successes' = n /\ n \in 0..SuccessThreshold
    <3>1. n \in 0..SuccessThreshold
      <4>1. read[c] + 1 \in Nat
        BY <1>0 DEF TypeOK
      <4>2. QED
        BY <4>1, CappedRange
    <3>2. QED
      BY <1>8, <3>1, ReliableWrite DEF AddSuccess, SetSuccesses
  <2>2. IF n >= SuccessThreshold THEN pc'[c] = "close" ELSE pc'[c] = "idle"
    BY <1>0, <1>8, OnlyOneMoves DEF AddSuccess, Proceed, Return
  <2>3. CASE n = SuccessThreshold
    <3>1. pc'[c] = "close" /\ successes' = SuccessThreshold
      BY <2>1, <2>2, <2>3
    <3>2. QED
      BY <1>8, <3>1 DEF AddSuccess, Follows, CountersFit
  <2>4. CASE n < SuccessThreshold
    <3>1. pc'[c] = "idle" /\ successes' < SuccessThreshold
      BY <2>1, <2>2, <2>4
    <3>2. QED
      BY <1>8, <3>1 DEF AddSuccess, Follows, CountersFit
  <2>5. QED
    BY <2>1, <2>3, <2>4
<1>9. CASE Close(c)
  <2>1. pc'[c] = "clear_failures" /\ state' = "CLOSED"
    BY <1>0, <1>9, OnlyOneMoves, ReliableWrite DEF Close, SetState, Proceed
  <2>2. failures < FailureThreshold
    BY <1>9 DEF Close, CountersFit
  <2>3. QED
    BY <1>9, <2>1, <2>2 DEF Close, Follows, CountersFit
<1>10. CASE ClearFailures(c)
  <2>1. pc'[c] = "clear_successes" /\ failures' = 0
    BY <1>0, <1>10, OnlyOneMoves, ReliableWrite DEF ClearFailures, SetFailures, Proceed
  <2>2. QED
    BY <1>10, <2>1 DEF ClearFailures, Follows, CountersFit
<1>11. CASE ClearSuccesses(c)
  <2>1. pc'[c] = "idle" /\ successes' = 0
    BY <1>0, <1>11, OnlyOneMoves, ReliableWrite DEF ClearSuccesses, SetSuccesses, Return
  <2>2. QED
    BY <1>11, <2>1 DEF ClearSuccesses, Follows, CountersFit
<1>12. CASE Reopen(c) \/ Trip(c)
  <2>1. pc'[c] = "stamp" /\ prev'[c] = prev[c] /\ state' = "OPEN" /\ UNCHANGED <<failures, successes>>
    BY <1>0, <1>12, OnlyOneMoves, ReliableWrite DEF Reopen, Trip, SetState, Proceed
  <2>2. pc[c] \in {"tool", "trip"}
        /\ (IF pc[c] = "trip" THEN prev[c] = "CLOSED" ELSE prev[c] = "HALF_OPEN")
    BY <1>0, <1>12 DEF Reopen, Trip, BranchFits
  <2>3. QED
    BY <2>1, <2>2 DEF Follows, CountersFit
<1>13. CASE CountFailure(c)
  <2>1. GoTo(c, "add_failure", prev[c], failures)
    BY <1>13, ReliableRead DEF CountFailure
  <2>2. pc'[c] = "add_failure" /\ read'[c] = failures
    BY <1>0, <2>1, OnlyOneMoves
  <2>3. prev[c] = "CLOSED"
    BY <1>0, <1>13 DEF CountFailure, BranchFits
  <2>4. QED
    BY <1>13, <2>2, <2>3 DEF CountFailure, redis, Follows, CountersFit
<1>14. CASE AddFailure(c)
  <2>. DEFINE n == Capped(read[c] + 1, FailureThreshold)
  <2>1. failures' = n /\ n \in 0..FailureThreshold
    <3>1. n \in 0..FailureThreshold
      <4>1. read[c] + 1 \in Nat
        BY <1>0 DEF TypeOK
      <4>2. QED
        BY <4>1, CappedRange
    <3>2. QED
      BY <1>14, <3>1, ReliableWrite DEF AddFailure, SetFailures
  <2>2. IF n >= FailureThreshold THEN pc'[c] = "trip" /\ prev'[c] = prev[c] ELSE pc'[c] = "idle"
    BY <1>0, <1>14, OnlyOneMoves DEF AddFailure, Proceed, Return
  <2>3. prev[c] = "CLOSED"
    BY <1>0, <1>14 DEF AddFailure, BranchFits
  <2>4. CASE n = FailureThreshold
    <3>1. pc'[c] = "trip" /\ prev'[c] = "CLOSED" /\ failures' = FailureThreshold
      BY <2>1, <2>2, <2>3, <2>4
    <3>2. QED
      BY <1>14, <3>1 DEF AddFailure, Follows, CountersFit
  <2>5. CASE n < FailureThreshold
    <3>1. pc'[c] = "idle" /\ failures' < FailureThreshold
      BY <2>1, <2>2, <2>5
    <3>2. QED
      BY <1>14, <3>1 DEF AddFailure, Follows, CountersFit
  <2>6. QED
    BY <2>1, <2>4, <2>5
<1>15. CASE Stamp(c)
  <2>1. pc'[c] = "settle" /\ prev'[c] = prev[c] /\ openedAge' = read[c]
    BY <1>0, <1>15, OnlyOneMoves, ReliableWrite DEF Stamp, Proceed, SetOpenedAt
  <2>2. QED
    BY <1>15, <2>1 DEF Stamp, Follows, CountersFit
<1>21. CASE ReadClock(c)
  <2>1. pc'[c] = "stamping" /\ prev'[c] = prev[c] /\ read'[c] = 0
    BY <1>0, <1>21, OnlyOneMoves DEF ReadClock, Proceed
  <2>2. QED
    BY <1>21, <2>1 DEF ReadClock, redis, TypeOK, Follows, CountersFit
<1>16. CASE Settle(c)
  <2>1. pc'[c] = "idle"
    BY <1>0, <1>16, OnlyOneMoves DEF Settle, Return
  <2>2. IF prev[c] = "HALF_OPEN" THEN successes' = 0 /\ UNCHANGED failures
                                 ELSE failures' = 0 /\ UNCHANGED successes
    BY <1>16, ReliableWrite DEF Settle, SetSuccesses, SetFailures
  <2>3. prev[c] \in {"CLOSED", "HALF_OPEN"}
    BY <1>0, <1>16 DEF Settle, BranchFits
  <2>4. QED
    BY <1>16, <2>1, <2>2, <2>3 DEF Settle, Follows, CountersFit
<1>17. CASE Tick
  BY <1>0, <1>17 DEF Tick, Older, Capped, TypeOK, Follows, CountersFit
<1>18. CASE Environment \/ UNCHANGED vars
  BY <1>18 DEF Environment, vars, redis, local, Follows, CountersFit
<1>19. \A d \in Calls : d = c /\ ~Die(d)
  BY DEF Die, TypeOK, Reliable, OneCall
<1>20. QED
  BY <1>1, <1>2, <1>3, <1>4, <1>5, <1>6, <1>7, <1>8, <1>9, <1>10, <1>11, <1>12, <1>13,
     <1>14, <1>15, <1>16, <1>17, <1>18, <1>19, <1>21 DEF Next, Advance

LEMMA SequentialInvariant ==
    ASSUME Reliable, NEW c, OneCall(c)
    PROVE  Spec => []SequentialInv(c)
<1>1. Init => Follows(c) /\ CountersFit(c)
  BY ThresholdAssumption DEF Init, Follows, CountersFit, OneCall
<1>2. SequentialInv(c) /\ [Next]_vars => (Follows(c) /\ CountersFit(c))'
  BY Reliable, OneCall(c), SequentialStep
<1>3. QED
  BY <1>1, <1>2, BreakerInvariant, PTL DEF Spec, SequentialInv

-----------------------------------------------------------------------------
(* Every step of the only call is a step of the contract or a stutter.     *)

AbstractVars == <<state, Streak, Probes, sinceOpen, outcome>>

LEMMA RecordingChangesNothing == [RecordedNext]_<<vars, outcome>> => [Next]_vars
BY DEF RecordedNext, Succeeds, Fails, Unrecorded, Next, Advance

\* The mapped counters in terms of the only call's place and branch.
LEMMA MappedCounters ==
    ASSUME NEW c, OneCall(c)
    PROVE  /\ Streak = IF pc[c] = "trip" THEN FailureThreshold - 1
                       ELSE IF \/ pc[c] \in {"stamp", "stamping", "settle"} /\ prev[c] = "CLOSED"
                               \/ pc[c] = "clear_failures" THEN 0
                       ELSE failures
           /\ Probes = IF pc[c] = "close" THEN SuccessThreshold - 1
                       ELSE IF \/ pc[c] \in {"reset_probes", "clear_failures", "clear_successes"}
                               \/ pc[c] \in {"stamp", "stamping", "settle"} /\ prev[c] = "HALF_OPEN" THEN 0
                       ELSE successes
BY DEF OneCall, Streak, Probes, At, AtAfter

LEMMA MappedCountersNext ==
    ASSUME NEW c, OneCall(c)
    PROVE  /\ Streak' = IF pc'[c] = "trip" THEN FailureThreshold - 1
                        ELSE IF \/ pc'[c] \in {"stamp", "stamping", "settle"} /\ prev'[c] = "CLOSED"
                                \/ pc'[c] = "clear_failures" THEN 0
                        ELSE failures'
           /\ Probes' = IF pc'[c] = "close" THEN SuccessThreshold - 1
                        ELSE IF \/ pc'[c] \in {"reset_probes", "clear_failures", "clear_successes"}
                                \/ pc'[c] \in {"stamp", "stamping", "settle"} /\ prev'[c] = "HALF_OPEN" THEN 0
                        ELSE successes'
BY DEF OneCall, Streak, Probes, At, AtAfter

LEMMA ContractStep ==
    ASSUME Reliable, NEW c, OneCall(c), SequentialInv(c), [RecordedNext]_<<vars, outcome>>
    PROVE  [Contract!Next]_AbstractVars
<1>. USE ThresholdAssumption DEF SequentialInv, BreakerInv
<1>. USE MappedCounters, MappedCountersNext
<1>0. c \in Calls /\ BranchFits
  BY DEF OneCall
<1>1. CASE Begin(c) /\ UNCHANGED outcome
  <2>1. GoTo(c, IF state = "OPEN" THEN "gate" ELSE "tool", state, 0)
    BY <1>1, ReliableRead DEF Begin
  <2>2. pc[c] = "idle" /\ pc'[c] \in {"gate", "tool"}
    BY <1>0, <1>1, <2>1, OnlyOneMoves DEF Begin
  <2>3. UNCHANGED AbstractVars
    BY <1>1, <2>2 DEF Begin, redis, AbstractVars
  <2>4. QED
    BY <2>3
<1>2. CASE /\ ReadOpenedAt(c) \/ FailFast(c) \/ PassThrough(c) \/ CountSuccess(c) \/ CountFailure(c)
           /\ UNCHANGED outcome
  <2>1. /\ pc[c] \in {"gate", "decide", "tool"}
        /\ pc'[c] \in {"decide", "idle", "add_success", "add_failure"}
        /\ UNCHANGED <<redis, outcome>>
    BY <1>0, <1>2, OnlyOneMoves
       DEF ReadOpenedAt, FailFast, PassThrough, CountSuccess, CountFailure, Return
  <2>2. UNCHANGED AbstractVars
    BY <2>1 DEF redis, AbstractVars
  <2>3. QED
    BY <2>2
<1>3. CASE Probe(c) /\ UNCHANGED outcome
  <2>1. pc'[c] = "reset_probes" /\ state' = "HALF_OPEN" /\ UNCHANGED sinceOpen
    BY <1>0, <1>3, OnlyOneMoves, ReliableWrite DEF Probe, SetState
  <2>2. state = "OPEN" /\ sinceOpen = RecoveryTimeout
    <3>1. state = "OPEN" /\ read[c] = openedAge
      BY <1>3 DEF Probe, Follows
    <3>2. openedAge <= sinceOpen
      BY <1>3, <3>1 DEF Probe, Follows
    <3>3. QED
      BY <1>3, <3>1, <3>2 DEF Probe, TypeOK
  <2>3. Contract!StartProbing
    BY <1>3, <2>1, <2>2 DEF Probe, Contract!StartProbing
  <2>4. QED
    BY <2>3 DEF Contract!Next
<1>4. CASE /\ \/ ResetProbes(c) \/ ClearFailures(c) \/ ClearSuccesses(c)
              \/ ReadClock(c) \/ Stamp(c) \/ Settle(c)
           /\ UNCHANGED outcome
  <2>1. UNCHANGED <<state, sinceOpen, outcome>>
    BY <1>4 DEF ResetProbes, ClearFailures, ClearSuccesses, ReadClock, Stamp, Settle, redis
  <2>2. CASE ResetProbes(c)
    <3>1. pc'[c] = "tool" /\ successes' = 0
      BY <1>0, <2>2, OnlyOneMoves, ReliableWrite DEF ResetProbes, SetSuccesses, Proceed
    <3>2. QED
      BY <2>1, <2>2, <3>1 DEF ResetProbes, AbstractVars
  <2>3. CASE ClearFailures(c)
    <3>1. pc'[c] = "clear_successes" /\ failures' = 0
      BY <1>0, <2>3, OnlyOneMoves, ReliableWrite DEF ClearFailures, SetFailures, Proceed
    <3>2. QED
      BY <2>1, <2>3, <3>1 DEF ClearFailures, AbstractVars
  <2>4. CASE ClearSuccesses(c)
    <3>1. pc'[c] = "idle" /\ successes' = 0
      BY <1>0, <2>4, OnlyOneMoves, ReliableWrite DEF ClearSuccesses, SetSuccesses, Return
    <3>2. QED
      BY <2>1, <2>4, <3>1 DEF ClearSuccesses, AbstractVars
  <2>5. CASE ReadClock(c) \/ Stamp(c)
    <3>1. /\ pc[c] \in {"stamp", "stamping"} /\ pc'[c] \in {"stamping", "settle"}
          /\ prev'[c] = prev[c] /\ UNCHANGED <<failures, successes>>
      BY <1>0, <2>5, OnlyOneMoves DEF ReadClock, Stamp, Proceed, redis
    <3>2. QED
      BY <2>1, <3>1 DEF AbstractVars
  <2>6. CASE Settle(c)
    <3>1. pc'[c] = "idle"
      BY <1>0, <2>6, OnlyOneMoves DEF Settle, Return
    <3>2. IF prev[c] = "HALF_OPEN" THEN successes' = 0 /\ UNCHANGED failures
                                   ELSE failures' = 0 /\ UNCHANGED successes
      BY <2>6, ReliableWrite DEF Settle, SetSuccesses, SetFailures
    <3>3. prev[c] \in {"CLOSED", "HALF_OPEN"}
      BY <1>0, <2>6 DEF Settle, BranchFits
    <3>4. QED
      BY <2>1, <2>6, <3>1, <3>2, <3>3 DEF Settle, AbstractVars
  <2>7. QED
    BY <1>4, <2>2, <2>3, <2>4, <2>5, <2>6
<1>5. CASE ForgiveFailures(c) /\ outcome' = "success"
  <2>1. pc'[c] = "idle" /\ failures' = 0
    BY <1>0, <1>5, OnlyOneMoves, ReliableWrite DEF ForgiveFailures, SetFailures, Return
  <2>2. state = "CLOSED"
    BY <1>0, <1>5 DEF ForgiveFailures, Follows, BranchFits
  <2>3. Contract!Succeed
    BY <1>5, <2>1, <2>2 DEF ForgiveFailures, Contract!Succeed
  <2>4. QED
    BY <2>3 DEF Contract!Next
<1>6. CASE /\ AddSuccess(c)
           /\ \/ pc'[c] = "idle" /\ outcome' = "success"
              \/ pc'[c] = "close" /\ UNCHANGED outcome
  <2>. DEFINE n == Capped(successes + 1, SuccessThreshold)
  <2>1. /\ state = "HALF_OPEN" /\ pc[c] = "add_success" /\ read[c] = successes
        /\ successes \in Nat /\ successes + 1 <= SuccessThreshold
    BY <1>6 DEF AddSuccess, Follows, CountersFit, TypeOK
  <2>2. n = successes + 1
    BY <2>1 DEF Capped
  <2>3. successes' = successes + 1
    BY <1>6, <2>1, <2>2, ReliableWrite DEF AddSuccess, SetSuccesses
  <2>4. CASE successes + 1 = SuccessThreshold
    <3>1. pc'[c] = "close"
      BY <1>0, <1>6, <2>1, <2>2, <2>4, OnlyOneMoves DEF AddSuccess, Proceed
    <3>2. UNCHANGED AbstractVars
      BY <1>6, <2>1, <2>4, <3>1 DEF AddSuccess, AbstractVars
    <3>3. QED
      BY <3>2
  <2>5. CASE successes + 1 < SuccessThreshold
    <3>1. pc'[c] = "idle"
      BY <1>0, <1>6, <2>1, <2>2, <2>5, OnlyOneMoves DEF AddSuccess, Return
    <3>2. Contract!ProbeSucceeds
      BY <1>6, <2>1, <2>3, <2>5, <3>1 DEF AddSuccess, Contract!ProbeSucceeds
    <3>3. QED
      BY <3>2 DEF Contract!Next
  <2>6. QED
    BY <2>1, <2>4, <2>5
<1>7. CASE Close(c) /\ outcome' = "success"
  <2>1. pc'[c] = "clear_failures" /\ state' = "CLOSED" /\ UNCHANGED sinceOpen
    BY <1>0, <1>7, OnlyOneMoves, ReliableWrite DEF Close, SetState, Proceed
  <2>2. state = "HALF_OPEN" /\ pc[c] = "close"
    BY <1>7 DEF Close, Follows
  <2>3. Contract!Close
    BY <1>7, <2>1, <2>2 DEF Close, Contract!Close
  <2>4. QED
    BY <2>3 DEF Contract!Next
<1>8. CASE (Reopen(c) \/ Trip(c)) /\ outcome' = "failure"
  <2>1. /\ pc'[c] = "stamp" /\ prev'[c] = prev[c] /\ state' = "OPEN" /\ sinceOpen' = 0
        /\ UNCHANGED <<failures, successes>>
    BY <1>0, <1>8, OnlyOneMoves, ReliableWrite DEF Reopen, Trip, SetState, Proceed
  <2>2. CASE Reopen(c)
    <3>1. state = "HALF_OPEN" /\ failures = 0 /\ prev[c] = "HALF_OPEN"
      BY <2>2 DEF Reopen, Follows, CountersFit
    <3>2. Contract!Open
      BY <1>8, <2>1, <3>1 DEF Contract!Open
    <3>3. QED
      BY <3>2 DEF Contract!Next
  <2>3. CASE Trip(c)
    <3>1. state = "CLOSED" /\ successes = 0 /\ prev[c] = "CLOSED" /\ pc[c] = "trip"
      BY <1>0, <2>3 DEF Trip, Follows, CountersFit, BranchFits
    <3>2. Contract!Open
      BY <1>8, <2>1, <3>1 DEF Contract!Open
    <3>3. QED
      BY <3>2 DEF Contract!Next
  <2>4. QED
    BY <1>8, <2>2, <2>3
<1>9. CASE /\ AddFailure(c)
           /\ \/ pc'[c] = "idle" /\ outcome' = "failure"
              \/ pc'[c] = "trip" /\ UNCHANGED outcome
  <2>. DEFINE n == Capped(failures + 1, FailureThreshold)
  <2>1. /\ state = "CLOSED" /\ pc[c] = "add_failure" /\ read[c] = failures
        /\ failures \in Nat /\ failures + 1 <= FailureThreshold
    BY <1>9 DEF AddFailure, Follows, CountersFit, TypeOK
  <2>2. n = failures + 1
    BY <2>1 DEF Capped
  <2>3. failures' = failures + 1
    BY <1>9, <2>1, <2>2, ReliableWrite DEF AddFailure, SetFailures
  <2>4. CASE failures + 1 = FailureThreshold
    <3>1. pc'[c] = "trip"
      BY <1>0, <1>9, <2>1, <2>2, <2>4, OnlyOneMoves DEF AddFailure, Proceed
    <3>2. UNCHANGED AbstractVars
      BY <1>9, <2>1, <2>4, <3>1 DEF AddFailure, AbstractVars
    <3>3. QED
      BY <3>2
  <2>5. CASE failures + 1 < FailureThreshold
    <3>1. pc'[c] = "idle"
      BY <1>0, <1>9, <2>1, <2>2, <2>5, OnlyOneMoves DEF AddFailure, Return
    <3>2. Contract!Fail
      BY <1>9, <2>1, <2>3, <2>5, <3>1 DEF AddFailure, Contract!Fail
    <3>3. QED
      BY <3>2 DEF Contract!Next
  <2>6. QED
    BY <2>1, <2>4, <2>5
<1>10. CASE Tick /\ UNCHANGED outcome
  <2>1. UNCHANGED <<state, Streak, Probes>>
    BY <1>10 DEF Tick
  <2>2. CASE sinceOpen < RecoveryTimeout
    <3>1. Contract!Cool
      BY <1>10, <2>1, <2>2 DEF Tick, Older, Capped, TypeOK, Contract!Cool
    <3>2. QED
      BY <3>1 DEF Contract!Next
  <2>3. CASE sinceOpen >= RecoveryTimeout
    BY <1>10, <2>1, <2>3 DEF Tick, Older, Capped, TypeOK, AbstractVars
  <2>4. QED
    BY <2>2, <2>3 DEF TypeOK
<1>11. CASE (Environment \/ UNCHANGED vars) /\ UNCHANGED outcome
  BY <1>11 DEF Environment, vars, redis, local, AbstractVars
<1>12. \A d \in Calls : d = c
  BY DEF OneCall
<1>13. QED
  BY <1>1, <1>2, <1>3, <1>4, <1>5, <1>6, <1>7, <1>8, <1>9, <1>10, <1>11, <1>12
     DEF RecordedNext, Succeeds, Fails, Unrecorded

\* The README's circuit breaker is what calls get that do not overlap, for
\* every pair of thresholds and every recovery timeout.
THEOREM SequentialCallsMeetContract ==
    ASSUME Reliable, NEW c, OneCall(c)
    PROVE  RecordedSpec => MeetsContract
<1>1. RecordedInit => Contract!Init
  <2>1. Init => Streak = 0 /\ Probes = 0
    BY MappedCounters, OneCall(c) DEF Init, OneCall
  <2>2. QED
    BY <2>1 DEF RecordedInit, Init, Contract!Init
<1>2. SequentialInv(c) /\ [RecordedNext]_<<vars, outcome>> => [Contract!Next]_AbstractVars
  BY Reliable, OneCall(c), ContractStep
<1>3. RecordedSpec => Spec
  BY RecordingChangesNothing, PTL DEF RecordedSpec, RecordedInit, Spec
<1>4. QED
  BY <1>1, <1>2, <1>3, SequentialInvariant, PTL
     DEF RecordedSpec, MeetsContract, Contract!Spec, Contract!vars, AbstractVars
=============================================================================
