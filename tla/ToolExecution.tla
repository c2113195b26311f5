--------------------------- MODULE ToolExecution ---------------------------
(***************************************************************************)
(* The executor node (application/agent/nodes/tool_executor.py) with the   *)
(* result cache (infrastructure/cache/tool_cache.py) and the HTTP client   *)
(* of the plugins (infrastructure/tools/base.py), for executions of any    *)
(* turns that overlap.  The rate limiter and the circuit breaker, modules  *)
(* of their own, may refuse any execution.                                 *)
(***************************************************************************)
EXTENDS Naturals, FiniteSets

CONSTANTS
    Executions,     \* the runs of the node that ever happen
    NoExecution,    \* no entry
    Calls,          \* the tools and arguments that may be asked for
    KeyOf(_),       \* _cache_key
    IsWrite(_),     \* _is_write_operation
    PluginAnswer(_),\* "success", "failure", or "request" if it asks the service
    Posts(_),       \* whether that request changes the service's state
    TTL(_),         \* tool_cache_ttls, 0 for a tool that has none
    MaxAttempts,    \* stop_after_attempt
    Lifetime,       \* when the clock of the model stops
    Troubles        \* what may go wrong

ASSUME ExecutionsAssumption == NoExecution \notin Executions

\* "redis": a command of the cache fails, applied or not; "http": an attempt fails,
\* before or after the service acted; "worker": a request dies.
ASSUME TroublesAssumption == Troubles \subseteq {"redis", "http", "worker"}

ASSUME CallsAssumption ==
    /\ MaxAttempts \in Nat \ {0}
    /\ Lifetime \in Nat
    /\ Calls # {}
    /\ \A x \in Calls : TTL(x) \in Nat /\ PluginAnswer(x) \in {"success", "failure", "request"}

Keys == {KeyOf(x) : x \in Calls}

VARIABLES
    now,            \* Redis's clock
    holder,         \* whose result the entry of each key is
    expiry,         \* when it goes
    phase,          \* where each execution is
    call,           \* its tool and arguments
    result,         \* success of its ToolResult
    source,         \* the execution whose plugin gave that result
    attempts,       \* requests it has sent
    performed,      \* how often the service acted on them
    reported,       \* what the circuit breaker recorded
    stored,         \* history: when its entry was written
    answeredAt      \* history: when it read an entry

cache == <<holder, expiry, stored>>
service == <<attempts, performed>>
vars == <<now, cache, phase, call, result, source, service, reported, answeredAt>>

Phases == {"new", "admitted", "missed", "trying", "answered", "storing", "done", "raised"}
InProgress == {"admitted", "missed", "trying", "answered", "storing"}

TypeOK ==
    /\ now \in 0..Lifetime
    /\ holder \in [Keys -> Executions \cup {NoExecution}]
    /\ expiry \in [Keys -> Nat]
    /\ phase \in [Executions -> Phases]
    /\ call \in [Executions -> Calls]
    /\ result \in [Executions -> {"none", "success", "failure"}]
    /\ source \in [Executions -> Executions \cup {NoExecution}]
    /\ attempts \in [Executions -> 0..MaxAttempts]
    /\ performed \in [Executions -> 0..MaxAttempts]
    /\ reported \in [Executions -> {"none", "success", "failure"}]
    /\ stored \in [Executions -> 0..Lifetime]
    /\ answeredAt \in [Executions -> 0..Lifetime]

Init ==
    /\ now = 0
    /\ holder = [k \in Keys |-> NoExecution]
    /\ expiry = [k \in Keys |-> 0]
    /\ phase = [c \in Executions |-> "new"]
    /\ call = [c \in Executions |-> CHOOSE x \in Calls : TRUE]
    /\ result = [c \in Executions |-> "none"]
    /\ source = [c \in Executions |-> NoExecution]
    /\ attempts = [c \in Executions |-> 0]
    /\ performed = [c \in Executions |-> 0]
    /\ reported = [c \in Executions |-> "none"]
    /\ stored = [c \in Executions |-> 0]
    /\ answeredAt = [c \in Executions |-> 0]

-----------------------------------------------------------------------------

GoesTo(c, place) == phase' = [phase EXCEPT ![c] = place]
Key(c) == KeyOf(call[c])

\* The limiter raises, or lets it on.
Begin(c) ==
    /\ phase[c] = "new"
    /\ \E x \in Calls : call' = [call EXCEPT ![c] = x]
    /\ GoesTo(c, "admitted") \/ GoesTo(c, "raised")
    /\ UNCHANGED <<now, cache, result, source, service, reported, answeredAt>>

\* Slip: what is read is written again, for another TTL.
RenewingHit(c) ==
    /\ phase[c] = "admitted"
    /\ ~IsWrite(call[c])
    /\ holder[Key(c)] # NoExecution
    /\ GoesTo(c, "storing")
    /\ result' = [result EXCEPT ![c] = result[holder[Key(c)]]]
    /\ source' = [source EXCEPT ![c] = source[holder[Key(c)]]]
    /\ answeredAt' = [answeredAt EXCEPT ![c] = now]
    /\ UNCHANGED <<now, cache, call, service, reported>>

\* The entry is the answer: neither the breaker nor the tool is asked.
Hit(c) ==
    /\ phase[c] = "admitted"
    /\ ~IsWrite(call[c])
    /\ holder[Key(c)] # NoExecution
    /\ GoesTo(c, "done")
    /\ result' = [result EXCEPT ![c] = result[holder[Key(c)]]]
    /\ source' = [source EXCEPT ![c] = source[holder[Key(c)]]]
    /\ answeredAt' = [answeredAt EXCEPT ![c] = now]
    /\ UNCHANGED <<now, cache, call, service, reported>>

Miss(c) ==
    /\ phase[c] = "admitted"
    /\ IsWrite(call[c]) \/ holder[Key(c)] = NoExecution \/ "redis" \in Troubles
    /\ GoesTo(c, "missed")
    /\ UNCHANGED <<now, cache, call, result, source, service, reported, answeredAt>>

\* The circuit is OPEN.
CircuitRefuses(c) ==
    /\ phase[c] = "missed"
    /\ GoesTo(c, "raised")
    /\ UNCHANGED <<now, cache, call, result, source, service, reported, answeredAt>>

Returns(c, r) ==
    /\ GoesTo(c, "answered")
    /\ result' = [result EXCEPT ![c] = r]
    /\ source' = [source EXCEPT ![c] = c]

Answer(c) ==
    /\ phase[c] = "missed"
    /\ PluginAnswer(call[c]) # "request"
    /\ Returns(c, PluginAnswer(call[c]))
    /\ UNCHANGED <<now, cache, call, service, reported, answeredAt>>

\* A request, on which the service acts or not.
Send(c, acts) ==
    /\ phase[c] \in {"missed", "trying"}
    /\ PluginAnswer(call[c]) = "request"
    /\ attempts' = [attempts EXCEPT ![c] = @ + 1]
    /\ performed' = [performed EXCEPT ![c] = IF acts /\ Posts(call[c]) THEN @ + 1 ELSE @]
    /\ UNCHANGED <<now, cache, call, reported, answeredAt>>

\* The answer is read; what the plugin cannot parse is a failure.
Respond(c) ==
    /\ Send(c, TRUE)
    /\ Returns(c, "success") \/ ("http" \in Troubles /\ Returns(c, "failure"))

\* Slip: MaxAttempts retries after the first attempt.
OneAttemptMore(c) ==
    /\ "http" \in Troubles
    /\ \E acts \in BOOLEAN : Send(c, acts)
    /\ IF attempts[c] < MaxAttempts
         THEN GoesTo(c, "trying") /\ UNCHANGED <<result, source>>
         ELSE Returns(c, "failure")

\* Slip: nobody counts the attempts.
EndlessAttempts(c) ==
    /\ "http" \in Troubles
    /\ phase[c] \in {"missed", "trying"}
    /\ PluginAnswer(call[c]) = "request"
    /\ phase' = [phase EXCEPT ![c] = IF @ = "missed" THEN "trying" ELSE "missed"]
    /\ UNCHANGED <<now, cache, call, result, source, service, reported, answeredAt>>

\* The attempt raises: tenacity makes another, whatever the method.  The plugin
\* catches what the last one raises.
AttemptFails(c) ==
    /\ "http" \in Troubles
    /\ \E acts \in BOOLEAN : Send(c, acts)
    /\ IF attempts[c] + 1 < MaxAttempts
         THEN GoesTo(c, "trying") /\ UNCHANGED <<result, source>>
         ELSE Returns(c, "failure")

\* Slip: failures are cached as well.
ReportAndKeep(c) ==
    /\ phase[c] = "answered"
    /\ reported' = [reported EXCEPT ![c] = "success"]
    /\ IF TTL(call[c]) # 0 /\ ~IsWrite(call[c])
         THEN GoesTo(c, "storing")
         ELSE GoesTo(c, "done")
    /\ UNCHANGED <<now, cache, call, result, source, service, answeredAt>>

\* The plugin has returned, so the breaker records a success; a successful result
\* of a tool with a TTL is cached.
Report(c) ==
    /\ phase[c] = "answered"
    /\ reported' = [reported EXCEPT ![c] = "success"]
    /\ IF result[c] = "success" /\ TTL(call[c]) # 0 /\ ~IsWrite(call[c])
         THEN GoesTo(c, "storing")
         ELSE GoesTo(c, "done")
    /\ UNCHANGED <<now, cache, call, result, source, service, answeredAt>>

Store(c) ==
    /\ phase[c] = "storing"
    /\ GoesTo(c, "done")
    /\ \/ /\ holder' = [holder EXCEPT ![Key(c)] = c]
          /\ expiry' = [expiry EXCEPT ![Key(c)] = now + TTL(call[c])]
          /\ stored' = [stored EXCEPT ![c] = now]
       \/ "redis" \in Troubles /\ UNCHANGED cache
    /\ UNCHANGED <<now, call, result, source, service, reported, answeredAt>>

Die(c) ==
    /\ phase[c] \in InProgress
    /\ "worker" \in Troubles
    /\ GoesTo(c, "raised")
    /\ UNCHANGED <<now, cache, call, result, source, service, reported, answeredAt>>

Tick ==
    /\ now < Lifetime
    /\ now' = now + 1
    /\ holder' = [k \in Keys |-> IF expiry[k] <= now' THEN NoExecution ELSE holder[k]]
    /\ UNCHANGED <<expiry, stored, phase, call, result, source, service, reported, answeredAt>>

Next ==
    \/ \E c \in Executions :
          \/ Begin(c)
          \/ Hit(c)
          \/ Miss(c)
          \/ CircuitRefuses(c)
          \/ Answer(c)
          \/ Respond(c)
          \/ AttemptFails(c)
          \/ Report(c)
          \/ Store(c)
          \/ Die(c)
    \/ Tick

Spec == Init /\ [][Next]_vars

-----------------------------------------------------------------------------

Done == {c \in Executions : phase[c] = "done"}
FromCache == {c \in Done : source[c] # c}

\* An answer from the cache is a success that the plugin itself gave to an
\* execution with the same key, however executions overlap and whatever is lost;
\* nothing that the service acts on is answered so.
AnswersBelong ==
    \A c \in FromCache :
        /\ source[c] \in Executions
        /\ KeyOf(call[source[c]]) = KeyOf(call[c])
        /\ source[source[c]] = source[c]
        /\ result[c] = "success" /\ result[source[c]] = "success"
        /\ ~IsWrite(call[source[c]])

\* An answer expires one TTL after the execution that got it wrote it: nobody who
\* reads it, or writes late, prolongs it.
AnswersExpire ==
    \A c \in FromCache : answeredAt[c] < stored[source[c]] + TTL(call[source[c]])

\* Success of a write is the service's own: it acted for this execution, and no
\* more than MaxAttempts times, though answers get lost and earlier executions
\* asked for the same.
WritesReachService ==
    \A c \in Done :
        Posts(call[c]) /\ result[c] = "success" => performed[c] \in 1..MaxAttempts

\* README, circuit breaker: the failures of an external API that is down are
\* counted.
CircuitSeesFailures ==
    \A c \in Done :
        attempts[c] = MaxAttempts /\ result[c] = "failure" => reported[c] = "failure"
=============================================================================
