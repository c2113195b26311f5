--------------------------- MODULE CircuitBreaker ---------------------------
(***************************************************************************)
(* The circuit breaker of one tool (infrastructure/tools/circuit_breaker   *)
(* .py).  Its state is four Redis keys shared by every worker; a call is a *)
(* coroutine that awaits Redis between any two of its steps, so calls of   *)
(* other requests and other processes interleave there.  One action is the *)
(* local code between two awaits together with the Redis command it ends   *)
(* in.                                                                     *)
(*                                                                         *)
(* Two abstractions, both exact for control.  The counters stop at their   *)
(* thresholds: the code only asks whether they have reached them.  The     *)
(* timestamp opened_at is kept as its age, which stops at                  *)
(* RecoveryTimeout; a missing key reads 0.0, an age far beyond it.         *)
(***************************************************************************)
EXTENDS Naturals

CONSTANTS
    Calls,              \* the coroutines inside call() at one time
    FailureThreshold,
    SuccessThreshold,
    RecoveryTimeout,
    MaxStall,           \* a SET of opened_at lands at most this long after its clock was read
    Troubles            \* what may go wrong around the breaker

ASSUME ThresholdAssumption ==
    /\ FailureThreshold \in Nat \ {0}
    /\ SuccessThreshold \in Nat \ {0}
    /\ RecoveryTimeout \in Nat \ {0}

ASSUME StallAssumption == MaxStall \in 0..RecoveryTimeout

\* "tool": a tool may raise; "redis": a Redis command may fail; "worker": a
\* request may be cancelled, or its process die, at any await.
ASSUME TroubleAssumption == Troubles \subseteq {"tool", "redis", "worker"}

VARIABLES
    state,      \* circuit:{tool}:state
    failures,   \* circuit:{tool}:failures
    successes,  \* circuit:{tool}:successes
    openedAge,  \* now - circuit:{tool}:opened_at
    sinceOpen,  \* history: time since state was last set to OPEN
    pc,         \* where each call is
    prev,       \* the local `state` of each call
    read,       \* the integer, or the age of the time, each call read last
    trouble     \* what goes wrong at the moment

redis == <<state, failures, successes, openedAge, sinceOpen>>
local == <<pc, prev, read>>
vars == <<redis, local, trouble>>

CircuitState == {"CLOSED", "OPEN", "HALF_OPEN"}
Places == {"idle", "gate", "decide", "reset_probes", "tool",
           "add_success", "close", "clear_failures", "clear_successes",
           "add_failure", "trip", "stamp", "stamping", "settle"}

Capped(n, limit) == IF n < limit THEN n ELSE limit

StallsEnd == \A c \in Calls : pc[c] = "stamping" => read[c] <= MaxStall

TypeOK ==
    /\ state \in CircuitState
    /\ failures \in 0..FailureThreshold
    /\ successes \in 0..SuccessThreshold
    /\ openedAge \in 0..RecoveryTimeout
    /\ sinceOpen \in 0..RecoveryTimeout
    /\ pc \in [Calls -> Places]
    /\ prev \in [Calls -> CircuitState]
    /\ read \in [Calls -> Nat]
    /\ StallsEnd
    /\ trouble \subseteq Troubles

Init ==
    /\ state = "CLOSED"
    /\ failures = 0
    /\ successes = 0
    /\ openedAge = RecoveryTimeout
    /\ sinceOpen = RecoveryTimeout
    /\ pc = [c \in Calls |-> "idle"]
    /\ prev = [c \in Calls |-> "CLOSED"]
    /\ read = [c \in Calls |-> 0]
    /\ trouble = {}

-----------------------------------------------------------------------------
(* One Redis command.  A failed write is swallowed and changes nothing; a  *)
(* failed read returns the default of its helper.                          *)

Written(old, new) == {new} \cup (IF "redis" \in trouble THEN {old} ELSE {})
Fetched(value, default) == {value} \cup (IF "redis" \in trouble THEN {default} ELSE {})

SetState(s) ==
    /\ state' \in Written(state, s)
    /\ sinceOpen' = IF state' = "OPEN" /\ s = "OPEN" THEN 0 ELSE sinceOpen

SetFailures(n) == failures' \in Written(failures, n)
SetSuccesses(n) == successes' \in Written(successes, n)
SetOpenedAt(age) == openedAge' \in Written(openedAge, age)

GoTo(c, place, s, n) ==
    /\ pc' = [pc EXCEPT ![c] = place]
    /\ prev' = [prev EXCEPT ![c] = s]
    /\ read' = [read EXCEPT ![c] = n]

Proceed(c, place) == GoTo(c, place, prev[c], 0)
Return(c) == GoTo(c, "idle", "CLOSED", 0)

-----------------------------------------------------------------------------
(* call(): the gate                                                        *)

Begin(c) ==
    /\ pc[c] = "idle"
    /\ \E s \in Fetched(state, "CLOSED") :
          GoTo(c, IF s = "OPEN" THEN "gate" ELSE "tool", s, 0)
    /\ UNCHANGED <<redis, trouble>>

ReadOpenedAt(c) ==
    /\ pc[c] = "gate"
    /\ \E age \in Fetched(openedAge, RecoveryTimeout) : GoTo(c, "decide", prev[c], age)
    /\ UNCHANGED <<redis, trouble>>

FailFast(c) ==
    /\ pc[c] = "decide"
    /\ read[c] < RecoveryTimeout
    /\ Return(c)
    /\ UNCHANGED <<redis, trouble>>

\* Slip: the circuit starts probing one unit too early.
EarlyProbe(c) ==
    /\ pc[c] = "decide"
    /\ read[c] + 1 >= RecoveryTimeout
    /\ SetState("HALF_OPEN")
    /\ GoTo(c, "reset_probes", "HALF_OPEN", 0)
    /\ UNCHANGED <<failures, successes, openedAge, trouble>>

Probe(c) ==
    /\ pc[c] = "decide"
    /\ read[c] >= RecoveryTimeout
    /\ SetState("HALF_OPEN")
    /\ GoTo(c, "reset_probes", "HALF_OPEN", 0)
    /\ UNCHANGED <<failures, successes, openedAge, trouble>>

ResetProbes(c) ==
    /\ pc[c] = "reset_probes"
    /\ SetSuccesses(0)
    /\ Proceed(c, "tool")
    /\ UNCHANGED <<state, failures, openedAge, sinceOpen, trouble>>

-----------------------------------------------------------------------------
(* _on_success(prev): the awaited tool has returned                        *)

\* Slip: a success does not end the streak of failures.
UnforgivingSuccess(c) ==
    /\ pc[c] = "tool"
    /\ prev[c] # "HALF_OPEN"
    /\ Return(c)
    /\ UNCHANGED <<redis, trouble>>

ForgiveFailures(c) ==
    /\ pc[c] = "tool"
    /\ prev[c] # "HALF_OPEN"
    /\ SetFailures(0)
    /\ Return(c)
    /\ UNCHANGED <<state, successes, openedAge, sinceOpen, trouble>>

CountSuccess(c) ==
    /\ pc[c] = "tool"
    /\ prev[c] = "HALF_OPEN"
    /\ \E n \in Fetched(successes, 0) : GoTo(c, "add_success", prev[c], n)
    /\ UNCHANGED <<redis, trouble>>

\* Slip: the count has to pass the threshold instead of reaching it.
NeverEnoughSuccesses(c) ==
    /\ pc[c] = "add_success"
    /\ LET n == Capped(read[c] + 1, SuccessThreshold)
       IN  /\ SetSuccesses(n)
           /\ IF n > SuccessThreshold THEN Proceed(c, "close") ELSE Return(c)
    /\ UNCHANGED <<state, failures, openedAge, sinceOpen, trouble>>

AddSuccess(c) ==
    /\ pc[c] = "add_success"
    /\ LET n == Capped(read[c] + 1, SuccessThreshold)
       IN  /\ SetSuccesses(n)
           /\ IF n >= SuccessThreshold THEN Proceed(c, "close") ELSE Return(c)
    /\ UNCHANGED <<state, failures, openedAge, sinceOpen, trouble>>

Close(c) ==
    /\ pc[c] = "close"
    /\ SetState("CLOSED")
    /\ Proceed(c, "clear_failures")
    /\ UNCHANGED <<failures, successes, openedAge, trouble>>

ClearFailures(c) ==
    /\ pc[c] = "clear_failures"
    /\ SetFailures(0)
    /\ Proceed(c, "clear_successes")
    /\ UNCHANGED <<state, successes, openedAge, sinceOpen, trouble>>

ClearSuccesses(c) ==
    /\ pc[c] = "clear_successes"
    /\ SetSuccesses(0)
    /\ Return(c)
    /\ UNCHANGED <<state, failures, openedAge, sinceOpen, trouble>>

-----------------------------------------------------------------------------
(* _on_failure(prev): the awaited tool has raised                          *)

\* Slip: a failed probe re-opens the circuit with the old opened_at.
UnstampedReopen(c) ==
    /\ pc[c] = "tool"
    /\ prev[c] = "HALF_OPEN"
    /\ "tool" \in trouble
    /\ SetState("OPEN")
    /\ Proceed(c, "settle")
    /\ UNCHANGED <<failures, successes, openedAge, trouble>>

Reopen(c) ==
    /\ pc[c] = "tool"
    /\ prev[c] = "HALF_OPEN"
    /\ "tool" \in trouble
    /\ SetState("OPEN")
    /\ Proceed(c, "stamp")
    /\ UNCHANGED <<failures, successes, openedAge, trouble>>

CountFailure(c) ==
    /\ pc[c] = "tool"
    /\ prev[c] # "HALF_OPEN"
    /\ "tool" \in trouble
    /\ \E n \in Fetched(failures, 0) : GoTo(c, "add_failure", prev[c], n)
    /\ UNCHANGED <<redis, trouble>>

\* Slip: the count is stored and never compared with the threshold.
CountingForever(c) ==
    /\ pc[c] = "add_failure"
    /\ SetFailures(read[c] + 1)
    /\ Return(c)
    /\ UNCHANGED <<state, successes, openedAge, sinceOpen, trouble>>

AddFailure(c) ==
    /\ pc[c] = "add_failure"
    /\ LET n == Capped(read[c] + 1, FailureThreshold)
       IN  /\ SetFailures(n)
           /\ IF n >= FailureThreshold THEN Proceed(c, "trip") ELSE Return(c)
    /\ UNCHANGED <<state, successes, openedAge, sinceOpen, trouble>>

Trip(c) ==
    /\ pc[c] = "trip"
    /\ SetState("OPEN")
    /\ Proceed(c, "stamp")
    /\ UNCHANGED <<failures, successes, openedAge, trouble>>

\* time.time() is evaluated before the SET that stores it is awaited; until the
\* SET lands, the time it carries grows older and other calls may write theirs.
ReadClock(c) ==
    /\ pc[c] = "stamp"
    /\ Proceed(c, "stamping")
    /\ UNCHANGED <<redis, trouble>>

Stamp(c) ==
    /\ pc[c] = "stamping"
    /\ SetOpenedAt(read[c])
    /\ Proceed(c, "settle")
    /\ UNCHANGED <<state, failures, successes, sinceOpen, trouble>>

\* Slip: an opening circuit keeps the count of failures that opened it.
UnsettledTrip(c) ==
    /\ pc[c] = "settle"
    /\ IF prev[c] = "HALF_OPEN" THEN SetSuccesses(0) ELSE UNCHANGED successes
    /\ Return(c)
    /\ UNCHANGED <<state, failures, openedAge, sinceOpen, trouble>>

Settle(c) ==
    /\ pc[c] = "settle"
    /\ IF prev[c] = "HALF_OPEN"
         THEN SetSuccesses(0) /\ UNCHANGED failures
         ELSE SetFailures(0) /\ UNCHANGED successes
    /\ Return(c)
    /\ UNCHANGED <<state, openedAge, sinceOpen, trouble>>

\* A ToolExecutionError of the tool passes through and is not recorded.
PassThrough(c) ==
    /\ pc[c] = "tool"
    /\ "tool" \in trouble
    /\ Return(c)
    /\ UNCHANGED <<redis, trouble>>

-----------------------------------------------------------------------------
(* The surroundings                                                        *)

\* A cancelled request or a dead worker leaves Redis as its last command did.
Die(c) ==
    /\ pc[c] # "idle"
    /\ "worker" \in trouble
    /\ Return(c)
    /\ UNCHANGED <<redis, trouble>>

Older(age) == Capped(age + 1, RecoveryTimeout)

Tick ==
    /\ \A c \in Calls : pc[c] = "stamping" => read[c] < MaxStall
    /\ openedAge' = Older(openedAge)
    /\ sinceOpen' = Older(sinceOpen)
    /\ read' = [c \in Calls |->
                  IF pc[c] \in {"decide", "stamping"} THEN Older(read[c]) ELSE read[c]]
    /\ UNCHANGED <<state, failures, successes, pc, prev, trouble>>

Environment ==
    /\ trouble' \in SUBSET Troubles
    /\ UNCHANGED <<redis, local>>

Advance(c) ==
    \/ ReadOpenedAt(c)
    \/ FailFast(c)
    \/ Probe(c)
    \/ ResetProbes(c)
    \/ ForgiveFailures(c)
    \/ CountSuccess(c)
    \/ AddSuccess(c)
    \/ Close(c)
    \/ ClearFailures(c)
    \/ ClearSuccesses(c)
    \/ Reopen(c)
    \/ CountFailure(c)
    \/ AddFailure(c)
    \/ Trip(c)
    \/ ReadClock(c)
    \/ Stamp(c)
    \/ Settle(c)
    \/ PassThrough(c)

Next ==
    \/ \E c \in Calls : Begin(c) \/ Advance(c) \/ Die(c)
    \/ Tick
    \/ Environment

Spec == Init /\ [][Next]_vars

\* The event loop resumes every coroutine whose await has completed, every tool
\* call ends (the HTTP clients have timeouts) and time passes.  Nobody has to
\* make a call, and the surroundings may change or not.
FairSpec ==
    /\ Spec
    /\ \A c \in Calls : WF_vars(Advance(c))
    /\ WF_vars(Tick)

-----------------------------------------------------------------------------

\* A counter stands at its threshold only while a call that put it there, or
\* found it there, is still on its way to reset it: once calls drain, the next
\* failure starts a new streak and the next probe a new count.
CountersSettle ==
    /\ failures >= FailureThreshold =>
          \E c \in Calls :
              pc[c] \in {"trip", "stamp", "stamping", "settle"} /\ prev[c] # "HALF_OPEN"
    /\ successes >= SuccessThreshold =>
          \E c \in Calls : pc[c] \in {"close", "clear_failures", "clear_successes"}

\* An OPEN circuit carries a time that was read at most MaxStall before its latest
\* opening, or a call that opened it has yet to write one: opened_at is never left
\* over from an earlier outage once the opening calls are done, and a SET that lands
\* behind a newer one puts it back by its own delay and no further.
OpenIsStamped ==
    state = "OPEN" =>
        \/ openedAge <= sinceOpen + MaxStall
        \/ \E c \in Calls : pc[c] \in {"stamp", "stamping"}

\* The circuit is OPEN, its recovery timeout is running, and every call is
\* before the gate or has read the present opened_at there.
Shielded ==
    /\ state = "OPEN"
    /\ openedAge < RecoveryTimeout
    /\ \A c \in Calls :
          \/ pc[c] \in {"idle", "gate"}
          \/ pc[c] = "decide" /\ read[c] = openedAge

\* Once no call is past the gate of an OPEN circuit, none gets past it, and so
\* none reaches the tool, before the recovery timeout has elapsed.
FailFastUntilTimeout == [][Shielded => Shielded' \/ openedAge' >= RecoveryTimeout]_vars

\* When the troubles end and calls keep coming, the circuit closes for good,
\* whatever the interrupted, lost and interleaved writes left in Redis.
Recovers ==
    (<>[](trouble = {}) /\ []<>(\E c \in Calls : pc[c] # "idle")) => <>[](state = "CLOSED")
=============================================================================
