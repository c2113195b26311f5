-------------------------- MODULE ToolRateLimiter --------------------------
(***************************************************************************)
(* The sliding-window limiter of one tool (infrastructure/cache/           *)
(* tool_rate_limiter.py): a Redis sorted set of the recent checks, scored  *)
(* with the time each worker read before it sent its MULTI/EXEC.  Between  *)
(* the two the coroutine may wait for Redis, so the transactions of        *)
(* several workers may run in another order than their clocks were read.   *)
(***************************************************************************)
EXTENDS Naturals, FiniteSets

CONSTANTS
    Checks,         \* the calls of check() that ever happen, each its own UUID
    Limit,          \* requests per window
    Window,         \* _WINDOW_SECONDS
    KeyTTL,         \* _KEY_TTL
    MaxStall,       \* the longest time from reading the clock to EXEC
    Lifetime        \* when the clock of the model stops

ASSUME ChecksAssumption == IsFiniteSet(Checks)

ASSUME LimiterAssumption ==
    /\ Limit \in Nat \ {0}
    /\ Window \in Nat \ {0}
    /\ MaxStall \in 0..(Window - 1)
    /\ KeyTTL \in Nat /\ KeyTTL >= Window
    /\ Lifetime \in Nat

VARIABLES
    clock,          \* time.time()
    members,        \* the sorted set toolrate:{tool}
    expiry,         \* when Redis drops the key
    phase,          \* of each check
    now,            \* the local `now` of each check, its member's score
    at              \* history: when the transaction of each check ran

vars == <<clock, members, expiry, phase, now, at>>

Phases == {"waiting", "sent", "admitted", "rejected", "unlimited"}

\* The checks Redis has counted, or may have before its connection failed.
Ran == {c \in Checks : phase[c] \notin {"waiting", "sent"}}

TypeOK ==
    /\ clock \in 0..Lifetime
    /\ members \subseteq Ran
    /\ expiry \in 0..(Lifetime + KeyTTL)
    /\ phase \in [Checks -> Phases]
    /\ now \in [Checks -> 0..Lifetime]
    /\ at \in [Checks -> 0..Lifetime]

Init ==
    /\ clock = 0
    /\ members = {}
    /\ expiry = 0
    /\ phase = [c \in Checks |-> "waiting"]
    /\ now = [c \in Checks |-> 0]
    /\ at = [c \in Checks |-> 0]

-----------------------------------------------------------------------------

\* Slip: the call is added as it arrives, outside the transaction.
EagerSend(c) ==
    /\ phase[c] = "waiting"
    /\ phase' = [phase EXCEPT ![c] = "sent"]
    /\ now' = [now EXCEPT ![c] = clock]
    /\ members' = members \cup {c}
    /\ UNCHANGED <<clock, expiry, at>>

Send(c) ==
    /\ phase[c] = "waiting"
    /\ phase' = [phase EXCEPT ![c] = "sent"]
    /\ now' = [now EXCEPT ![c] = clock]
    /\ UNCHANGED <<clock, members, expiry, at>>

\* Slips: a window that starts at full minutes, and one that is never trimmed.
FixedWindow(c) == {m \in members : now[m] \div Window = now[c] \div Window}
UntrimmedWindow(c) == {m \in members : phase[c] = "sent"}

\* ZREMRANGEBYSCORE -inf (now - 60): what is left of the sorted set.
Recent(c) == {m \in members : now[m] + Window > now[c]}

\* ZADD and EXPIRE.
Record(c) ==
    /\ members' = Recent(c) \cup {c}
    /\ expiry' = clock + KeyTTL

\* The call is recorded whether it is admitted or not.
Execute(c) ==
    /\ phase[c] = "sent"
    /\ phase' = [phase EXCEPT ![c] =
                    IF Cardinality(Recent(c)) >= Limit THEN "rejected" ELSE "admitted"]
    /\ Record(c)
    /\ at' = [at EXCEPT ![c] = clock]
    /\ UNCHANGED <<clock, now>>

\* Redis cannot be reached, or its answer is lost: the call goes ahead.
FailOpen(c) ==
    /\ phase[c] = "sent"
    /\ phase' = [phase EXCEPT ![c] = "unlimited"]
    /\ at' = [at EXCEPT ![c] = clock]
    /\ \/ Record(c)
       \/ UNCHANGED <<members, expiry>>
    /\ UNCHANGED <<clock, now>>

Tick ==
    /\ clock < Lifetime
    /\ \A c \in Checks : phase[c] = "sent" => clock < now[c] + MaxStall
    /\ clock' = clock + 1
    /\ members' = IF clock' >= expiry THEN {} ELSE members
    /\ UNCHANGED <<expiry, phase, now, at>>

Next ==
    \/ \E c \in Checks : Send(c) \/ Execute(c) \/ FailOpen(c)
    \/ Tick

Spec == Init /\ [][Next]_vars

-----------------------------------------------------------------------------

Admitted == {c \in Checks : phase[c] = "admitted"}
Rejected == {c \in Checks : phase[c] = "rejected"}

\* A window that slides: of the calls admitted, however their transactions were
\* delayed and reordered, no more than Limit ran in any period shorter than the
\* window by the longest stall.
AdmittedWithin(c) == {d \in Admitted : at[d] <= at[c] /\ at[c] + MaxStall < at[d] + Window}
SlidingWindow == \A c \in Admitted : Cardinality(AdmittedWithin(c)) <= Limit

\* A call is rejected only if Limit others were made in the window before it
\* (stretched by the stall): the window empties by itself.
MadeBefore(c) == {d \in Ran \ {c} : at[d] <= at[c] /\ at[c] < at[d] + Window + MaxStall}
RejectedOnlyUnderLoad ==
    \A c \in Rejected : Cardinality(MadeBefore(c)) >= Limit
=============================================================================
