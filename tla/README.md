# Verification of agent-api

TLA+ models of the agent backend (`src/backend/app`), the TLC runs that check
them on small instances, and TLAPS proofs of what matters most for every
instance. `PROJECT.json` lists the components, the runs, the mutants that show
each property can fail, the map from definitions to source lines, the findings,
the hazards and the theorems.

To check a module: `tlc -config AgentTurn.cfg AgentToolsMC.tla`; to check its
proofs: `tlapm AgentProofs.tla`.

## 1. The system

A FastAPI backend answers chat messages with a LangGraph agent that may call one
tool per pass. Several worker processes serve requests; each request is an asyncio
task that yields at every `await`. Shared state is in Redis (circuit breaker,
rate limiter, tool cache) and PostgreSQL (users, sessions, conversations,
messages); Celery workers summarise long conversations in the background.

| Component | State | Operations | What is hard about it |
|---|---|---|---|
| Agent graph (`application/agent`) | `AgentState` of one turn | eight nodes and four conditional routes | retries inside loops, state merged field by field, exceptions that end the turn |
| Circuit breaker (`tools/circuit_breaker.py`) | four Redis keys per tool | `call`: gate, `_on_success`, `_on_failure` | read, compare and write are separate commands; calls overlap; Redis errors are swallowed; a call may die half-way |
| Tool rate limiter (`cache/tool_rate_limiter.py`) | a Redis sorted set per tool | `check` | clocks are read before transactions run, so they run out of order; fail-open |
| Tool cache (`cache/tool_cache.py`) | Redis entries with a TTL | `get`, `set` | key normalisation, write operations, slow executions overwrite newer entries |
| Tool executor (`nodes/tool_executor.py`) | none | limiter, cache, breaker, tool, cache write | the order of the policies, and which errors are retried |
| Tools (`infrastructure/tools`) | registry, HTTP client | `execute`, three HTTP attempts | retries of calls that are not idempotent |
| Chat service (`services/chat_service.py`) | messages in PostgreSQL | `send_message` | several turns of a conversation at once, commit after the handler |
| Summarization (`tasks/summarization.py`) | messages in PostgreSQL | `summarize_conversation` | a long read-then-delete, at-least-once delivery, retries, overlapping tasks |
| Session middleware (`middleware/db_session.py`) | one transaction per request | commit, rollback | a handled `DomainError` commits, any other exception rolls back |
| Authentication (`services/auth_service.py`) | `sessions`, `users` | `register`, `login`, `refresh`, `logout` | rotation and registration are check-then-write; refreshes, logouts and registrations overlap |
| Prompt service (`services/prompt_service.py`) | the objects of the prompts last fetched, shared by all turns of a process | `get`, `get_prompt_object` | nodes of several turns fetch while others wait; fetches fail; versions are published meanwhile |
| LLM provider (`llm/groq_provider.py`) | counters of tokens and cost | `complete`, three attempts | which errors are repeated, and that what is counted is not |
| Node tracing (`observability/agent_tracing.py`) | the generation of each node, the prompt kept in the state | `traced_node` | the prompt must still be the node's own when the model has answered |
| Redaction (`observability/redaction.py`) | none | `redact` | dicts in lists in dicts; applied twice |
| Administration, container, migrations, other observability, frontend, deployment | none | reports, wiring | not modelled |

How they interact: the router calls the chat service, which stores the user's
message, reads the history, runs the graph and stores the answer, all in one
transaction that the middleware commits after the handler. The graph's executor
asks the limiter, then the cache, then runs the tool inside the breaker, and
writes the cache. The chat service sends the Celery task before its transaction
is committed; the task and later turns meet only in the `messages` table.
The breaker, limiter and cache of different requests meet only in Redis. The nodes
that ask the model go through the tracing decorator, the prompt service and the
provider; nodes of different turns of one process meet in the prompt service.

What makes each part correct:

* Agent graph: every turn ends, with a reply that passes validation or an
  exception; retries are bounded; no tool runs without a selection or a retry
  that allows it; the nodes find the fields they rely on.
* Circuit breaker: a counter that has reached its threshold is always reset, an
  OPEN circuit knows when it opened (but for the delay of a write), it keeps calls out for the recovery timeout,
  and it closes again when the tool is well, whatever was lost on the way.
* Rate limiter: never more than the limit in any window, nobody rejected without
  that much load.
* Conversation: no committed message is ever lost, nothing of a rolled-back turn
  remains, the last messages stay verbatim (but for one, see the observations).
* Authentication: rotation is all or nothing, a device that has not logged out
  keeps a session, requests that follow one another leave it exactly one, and
  none after a logout; an address has one user, and overlapping registrations do
  not lose it between them.
* Turn with its tools: retries in retries stay within the product of their bounds,
  no selection writes twice successfully, no reply is left over from before the last
  selection, nor one of the generator's from before the last execution.
* Model calls: a generation is linked to the prompt its node was given, whatever
  others fetch; tokens are counted once whatever is repeated; nobody waits for ever.
* Tool cache and executor: an entry is what the tool successfully returned for
  like arguments, for one TTL; a write is never answered from the cache, and is
  reported successful only if the service performed it.

## 2. Modules

| Module | Models | Kind |
|---|---|---|
| `CircuitBreaker` | `circuit_breaker.py`, one tool, any number of overlapping calls | detailed specification |
| `BreakerContract` | the three-state machine of its header, one step per call | abstract specification |
| `SequentialBreaker` | refinement mapping from the first to the second for calls that do not overlap | refinement |
| `CircuitBreakerProofs` | invariants of the first, the countdown of a call, and the refinement | proofs |
| `AgentGraph` | `graph.py`, `state.py` and the nodes, one turn | detailed specification, and abstract one of `AgentTools` |
| `AgentTools` | a turn whose executor node is the steps of `ToolExecution` | composition of `AgentGraph` and `ToolExecution` |
| `AgentToolsMC`, `AgentProofs` | tools for TLC; the invariants of both, the two refinements, the countdown of a turn | model, proofs |
| `ToolRateLimiter` | `tool_rate_limiter.py`, one tool, several workers | detailed specification |
| `ToolRateLimiterMC`, `ToolRateLimiterProofs` | symmetry for TLC; invariants | model, proofs |
| `Conversation` | `send_message`, the session middleware and `summarize_conversation` on one conversation | composition of two components over one table |
| `ConversationMC`, `ConversationProofs` | symmetry for TLC; invariants | model, proofs |
| `AuthSessions` | login, refresh and logout as transactions on the `sessions` table | detailed specification |
| `Accounts` | registration as transactions on the `users` table, beside the sessions | composition over `AuthSessions` |
| `AuthSessionsMC`, `AccountsMC`, `AuthSessionsProofs` | symmetry for TLC; invariants, one-time use, the refinement | models, proofs |
| `ModelCalls` | `traced_node`, the prompt service and `complete`, for overlapping nodes | detailed specification |
| `ModelCallsProofs` | its invariants, the countdown of a wait | proofs |
| `ToolExecution` | the executor node, the result cache and the HTTP client for overlapping executions | detailed specification |
| `ToolCalls` | the write heuristic, the cache's keys, redaction and what the plugins do with arguments | pure functions, recursive over nested values |
| `PluginExecution` | executions of the registered plugins' calls | composition of the two above |
| `ToolExecutionMC`, `ToolExecutionProofs` | calls for TLC; invariants | model, proofs |
| `NestedData` | recursion over values that nest finitely | lemma |

### CircuitBreaker

One action is the code between two awaits together with the Redis command it
ends in: `Begin` is the `GET` of the state, `ReadOpenedAt`, `FailFast`, `Probe`
and `ResetProbes` are the gate, `ForgiveFailures` ... `ClearSuccesses` are
`_on_success`, `Reopen` ... `Settle` are `_on_failure`. `pc`, `prev` and `read`
are a call's place and locals. `Written` and `Fetched` are the helpers'
`try/except`: a lost write changes nothing, a lost read gives the default. A
call inside the tool is at `pc = "tool"`; a `ToolExecutionError` of the tool
passes through unrecorded (`PassThrough`). `Die` is a cancelled request or a dead
process. `trouble` says what may go wrong now and changes at any time within the
constant `Troubles`.

`time.time()` is evaluated before the `SET` that stores it is awaited, so `ReadClock`
and `Stamp` are two actions: in between others may write their own, later time, which
`Stamp` then overwrites (`read` is the age of the time to be stored, which `Tick`
raises). `MaxStall` bounds the wait, as in the limiter: `Tick` waits for a call whose
`SET` has been on its way that long, which is an assumption about Redis and the event
loop, needed by `OpenIsStamped` only.

Counters stop at their thresholds, since the code only asks whether they are
reached; `opened_at` is kept as its age, which stops at `RecoveryTimeout`.
`sinceOpen` is history. A write that a failed command may have applied all the
same is covered: `Written` contains both values. A call slot is used again when
its call returns, so a few slots stand for any number of calls over time.

### BreakerContract and SequentialBreaker

`BreakerContract` has one step per call: success, failure, opening, probing,
closing. `SequentialBreaker` adds the history variable `outcome` (how the last
recorded call ended), so that a success and a failure are never confused, and
maps the keys to the contract's variables: between the write that changes the
state and the last write of a call, the counters still to be reset count as
reset. The mapping holds for calls that do not overlap, over a Redis that
answers and in a worker that lives; overlapping calls do not refine it, and the
invariants of `CircuitBreaker` say what remains true of them.

### AgentGraph

One action runs a node and takes the route after it. Replies are `"empty"`,
`"blank"` (true in Python, empty after `strip`) or `"text"`; a tool call is its
name and whether its arguments are the planner's `{}` or the selector's. The
planner's action covers the four ways its JSON can be read. `ToolExecutorRaises`
is every `ToolExecutionError` of the executor (unknown tool, rate limit, OPEN
circuit, an exception wrapped by the breaker): no node catches it, so the turn
ends. `RecursionError` is LangGraph's step limit, an external definition.
`loopCount` is in the state and never changes, as in the code. `basis` is history: who
wrote the draft, after which selection and after how many executions. The selector
without a call, the content filter and the error handler write drafts, and the response
generator lets any draft pass that is true in Python.

### AgentTools

`AgentTools` EXTENDS `AgentGraph` and instantiates `ToolExecution`, each with its
variables. The n-th run of the executor node in the turn is execution n: `StartTool`
begins it with the selected call, `RunTool` takes its steps one at a time,
`ReturnResult` and `RaiseError` hand its end to the state and take the route. All
other nodes are those of `AgentGraph` (`RunNode`). The graph's own specification
lets the executor end in any way at once; `ImplementsAgentGraph` says that it
allows all that the composition does. Redis's clock goes on meanwhile, so an entry
of the turn's first execution may be there or not for its second. The breaker and
the limiter may refuse, as in `ToolExecution`. That `WritesAssumption` holds of
the code's heuristic is what `WritesReachService` checks in `tool_execution`.

### ToolRateLimiter

`Send` reads the clock, `Execute` is the `MULTI/EXEC` transaction at any time up
to `MaxStall` later and the comparison after it, `FailOpen` the lost connection
with or without the transaction having run, `Tick` the time and the expiry of the
key. A score of a member is its check's `now`. All workers read one clock: skew
between hosts adds to the stall. `MaxStall < Window` is the module's one
assumption about the surroundings, that a coroutine does not wait for Redis for a
whole minute.

### Conversation

`Begin` is the request's first statement, which also fixes `created_at` for all
rows of the transaction (`server_default=func.now()`; the repository does not
pass the entity's own `created_at`). `Ask` flushes the user's row and reads the
history; `Answer` is the end of the graph and the dispatch; `Refuse` a
`DomainError`, which the exception handler turns into a response, so that the
middleware commits; `Commit` and `RollBack` are the middleware. `Load`,
`ModelFails`, `Compact`, `DatabaseFails`, `Acknowledge` and `WorkerDies` are the
task. (An empty answer of the summarising model is stored like any other,
`summarization.py:94`: `covers` says what a summary was made of, not how well.) A row has its time and the messages it `covers`: itself, or all those a
summary stands for. `EarlyRows` is `rows[:-10]` for every order in which
`ORDER BY created_at` may put ties. A transaction's own effects appear at its
commit, and every statement reads what is committed (READ COMMITTED); of two
tasks that delete the same row, the second finds nothing to delete. That
`self.retry` sends the new delivery and ends the old one is one step.

`touch()` writes nothing (it flushes an unchanged row, so `updated_at` never
moves and `onupdate` never fires), and the Redis key that the task deletes is
written nowhere: both are left out.

### AuthSessions

Every request is made once and is a transaction: `Login` and `Issue` insert a
session, `Refresh` and `Logout` decode a token and read its row, `Revoke` is the
UPDATE, `Commit` and `RollBack` are the middleware. The `jti` of a login or
refresh is the request itself (a UUID), and so is the `device_id` a login draws.
A transaction's writes appear in `session` at its commit; until then its `phase`
says what it has done. `get_device_id` and `revoke` read the row again, since the
session's identity map drops rows nobody refers to: the device never changes, and
a row found revoked is not written again, so that such a request waits for no lock
(`Locked`). A request that is refused, and a logout of a revoked token, ends
without effect. A token can be presented once the commit that made it is done,
which is when its response leaves the middleware. `before` is history: what had
been committed when a request was accepted, so that `InTurn` can tell whether the
requests of a device overlapped.

### Accounts

`LookUp` is `get_by_email`, `Insert` the flush in `create`, `CommitUser` and
`Abandon` the middleware. `get_by_email` finds committed rows; the unique index of
`users.email` makes an INSERT wait for another transaction that has inserted the
address, and fail if that commits. The hashing between them changes nothing and
only lets others in between. A registration that finds the address ends `refused`
(401), one that violates the index ends `failed`: `IntegrityError` is no
`DomainError`, so it is answered with 500. A login needs a registration that has
committed, and is `Login` of `AuthSessions` from there.

### ModelCalls

A run is one execution of a node that asks the model. asyncio lets others in only
where a run waits for the model, since the Langfuse client is synchronous: so
`Start` is all of `traced_node`, `PromptService.get` and `get_prompt_object` up to
the request, and `Respond`, `Unreadable`, `Unusable` are everything after a reply.
`text` is the version `get` returned, or the fallback; `link` is
`_langfuse_prompt` in the node's state. `Retry` and `GiveUp` are tenacity around
`_call`; an error raised after it, in the translation of the reply or in the node,
is not repeated. `requests` counts the calls of `create()`, which the SDK may repeat
on the wire by itself. `BadTemplate` is `format()` on a published text with a stray
brace. `usage` counts the calls of `_record_metrics`. External, and modelled from
their use: the Langfuse SDK, which queues observations and does not raise, and
whose prompt cache never goes back to an older version; whoever publishes; the
cancellation of a request. The tool selector ignores the text it fetches but links
it all the same: `text` is then what it would have been given.

### ToolExecution and ToolCalls

An execution is one run of the executor node. `Begin` is the registry and the
limiter, `Hit` and `Miss` the cache's `get`, `CircuitRefuses` the breaker's gate,
`Answer` a plugin that answers without a request, `Respond` and `AttemptFails` an
attempt of `ResilientHTTPClient` that ends well or raises, `Report` everything
from the plugin's return to the decision to cache, `Store` the cache's `set`.
Limiter and breaker are modules of their own; here each may let any execution
on or refuse it, so what holds does so for all they can do. An entry is named by
the execution that wrote it (`holder`), which stands for its result; `source` is
the execution whose plugin gave an execution's result, itself unless it read an
entry. `attempts` and `performed` count the requests and how often the service
acted on them: a lost answer is an attempt that fails although the service acted.
`Troubles` says what may go wrong: a cache command (swallowed by `get` and `set`,
applied or not), an attempt, a worker. `stored` and `answeredAt` are history.

`ToolExecution` takes the key, the heuristic and the plugins as CONSTANTS, so
that its proofs hold for any of them; `ToolCalls` translates the code's own, and
`PluginExecution` puts the two together (`RealPlugins`). A text is the sequence of its words
(`_tokens`) and the way it is written, a dict a set of pairs. The SHA-256 of the
sorted JSON stands for the normalised arguments: collisions of its first 16
digits are left out. `Alike` says which calls may share an entry without
normalising anything, and `KeysFit` compares the two. `Double` is what `float()`
makes of an integer: integers beyond 2^53 share a double and so an entry. (Those
that no double can hold raise; they are left out.)

What recurses over nested values (`NormalizeArguments`, `Alike`, `Redact`, the
leaves of a value) are recursive functions on `Values`, any set of values that is
closed under taking parts and in which nesting is finite: every argument that was
parsed from JSON is in such a set.

`Redact` is `redaction.py` on the same values, with lists added: a list is a set of
pairs of a position and a value. A key is sensitive if one of its words contains one
of the six patterns (`SensitiveWords` lists those that occur); lengths are words,
scaled so that a shortened text is short. `LogsAreClean` compares its result with
the leaves of the arguments and the keys that lead to each.

## 3. Runs

| Run | Instance | Shows |
|---|---|---|
| `breaker_concurrent` | 3 calls, thresholds 2 and 2, timeout 2, stall 1, failing tool | `TypeOK`, `CountersSettle`, `OpenIsStamped`, `FailFastUntilTimeout` hold at every interleaving |
| `breaker_troubles` | 2 calls, timeout 1, stall 1, failing tool, lost commands, deaths | `Recovers`, a liveness property |
| `breaker_sequential` | 1 call slot, thresholds 5 and 2 as in the container | the code implements `BreakerContract` |
| `agent_turn` | 2 tools, one of which writes, 1 made-up name, 2 retries, 1 loop, limit 14, 2 HTTP attempts, lost commands and answers | a turn with its tools implements `AgentGraph` and ends; the graph's six invariants and action property; `OneWritePerSelection`, `FirstPassSparesService`, `ReplyRestsOnLastExecution` |
| `model_calls` | 2 runs, 2 prompts with 3 versions each, 3 requests, all troubles | `LinkedToItsPrompt`, `UsageCountedOnce`, `CallsEnd` (liveness) |
| `limiter_window` | 5 checks, limit 2, window 3, TTL 4, stall 1, 6 time units | `SlidingWindow`, `RejectedOnlyUnderLoad` |
| `conversation_tasks` | 3 turns, task every 2nd row, from 3 rows, keeping 2, 1 retry, 2 deliveries, all troubles | `NothingForgotten`, `TailIsKept`, `AnswersOwnMessage`, `SummariesFollowFailures` |
| `summarization_dispatch` | 3 turns, every 4th, no trouble | violation: no task is dispatched |
| `auth_sessions` | 2 registrations of 1 address, 5 requests, rollbacks, expiring tokens | `OneRegistrationWins`, `DeviceKeepsSession`, `OneSessionPerDevice` |
| `refresh_one_time` | 3 requests, no trouble | violation: one token is refreshed twice |
| `tool_execution` | 3 executions of 8 calls, 2 attempts, TTLs 2, 1 and none, 2 time units, doubles of 3 bits, all troubles | `AnswersBelong`, `AnswersExpire`, `WritesReachService`, `KeysFit`, `LogsAreClean` |
| `failures_uncounted` | 2 executions, 3 attempts, only requests fail | violation: a failing service is recorded as a success |

Why the bounds are enough. *Breaker*: each property concerns at most the call
that holds a counter or a timestamp, one that races it and one that starts
afresh, so three calls; two suffice for a counter to be below, at and past its
threshold, and timeout 2 separates a fresh, a running and an expired timestamp; a stall of 1 lets
a write of `opened_at` land behind a later one.
`Recovers` needs a full state graph for its fairness and is checked on two calls.
The invariants are proved for all instances. *Turn*: a second tool is there
so that a selection can change the tool, and one writes and one reads; 2 retries
and 2 attempts are the fewest that tell the first from the last, and within 14
steps a turn exhausts its retries, fails validation and selects again before the
limit ends it. The configured 3 retries and limit 25 are covered by the proofs.
*Model calls*: one run waits while the other fetches, which is all that runs can do
to each other; three versions let the text, the memo and the latest all differ,
and three requests are the configured ones.
*Limiter*: five checks fill the limit twice and once more; window 3 and stall 1
make scores run out of order across a window's edge, and the clock passes the
expiry of the key. *Conversation*: of three turns at most two
dispatch a task, and those overlap with each other and the third turn, each
delivered twice; the constants keep 20 and 10 in proportion (`MinToSummarize` >
`KeepTail`), and `SummarizeEvery` is even like the 20: a refused turn makes the count even, so that
tasks do run. `Spread` only keeps
the times of distinct turns apart from a summary's, a millisecond earlier.
*Sessions*: five requests are a login and four uses of its
family, or two families; three uses overlap on one token while a fourth presents
a successor. Two registrations overlap in every way that matters for one address.
The invariants are proved for any number.
*Executions*: one that fills an entry, one that reads it and one that races
either; the eight calls are a read and the same read in capitals, a write, a
request with numbers, an echo whose nested flag is `true`, `1` or `1.0` and whose
nested number is or is not a double, and a stub with secrets in dicts in a list; two attempts are a lost one and its repetition, and a TTL can pass within a
run. The invariants are proved for all instances.
Symmetry (`AnyCheck`, `AnyTurn`, `AnyRequest`, `AnyExecution`) is used in runs without
liveness properties only, where elements of the set differ in nothing but their history.

`CHECK_DEADLOCK FALSE` where the modelled system ends: a turn that is over, all
checks and all requests used up. The breaker never stops, and its runs check
deadlock.

### Fairness

Three properties need it. `Recovers`: `FairSpec` is weakly fair to `Advance(c)`, for a call
that has begun goes on: the event loop resumes a coroutine whose await is done
and every tool call ends (HTTP clients have timeouts), and to `Tick`. Nothing
makes anybody call, changes what goes wrong or kills a worker: the property
assumes that troubles end and that calls keep coming, and TLC checks the rest.
`TurnEnds`: `TurnSpec` is weakly fair to `TurnStep`, for the event loop resumes a
turn whose await is done, and the model, Redis and the services have timeouts; it
is not fair to the clock, nor to any outcome. `CallsEnd`: `ModelCalls` is weakly
fair to `Resume(r)` for each run, by the same argument; nothing makes anybody
publish, fetch or cancel.

### Findings

1. `DispatchedEveryTwenty`: the history has an odd length in a conversation
   whose turns were all answered, so the summary the README describes is not
   made. `SummariesAlwaysFollowFailures` proves it for every even number and every
   interleaving: the agent has to fail once before any task is dispatched.
2. `RefreshIsOneTime`: two overlapping refreshes of one token both succeed and
   leave two sessions of one device; the comment and a test say that a token is
   used once. `RefreshInTurnIsOneTime` proves that overlapping is the only way to it.
3. `CircuitSeesFailures`: the plugins catch every exception and return
   `success=False`, which the breaker records as a success. The circuit of a real
   tool therefore never opens, however long its service is down. `CircuitBreaker`
   models any tool, those that raise included.

Observations that no run is spent on:

* *Validation loops.* Nothing increments `validation_loop_count`: blank replies
  loop until LangGraph's recursion error, although `ARCHITECTURE.md:167` says
  "max 2 loops". `FirstPassFitsBudget` shows that this loop is the only way there.
* *One probe.* Every call that arrives while the circuit is HALF_OPEN, or between
  another's reading OPEN and writing HALF_OPEN, goes to the tool; the docstring
  (`circuit_breaker.py:126`) and the README promise a single probe. The
  invariants of `CircuitBreaker` hold with any number of them.
* *Placeholder arguments.* A selector whose model calls no function sets
  `needs_tool=False` (`tool_selector.py:70`, "LLM decided no tool is needed",
  `tool_selector.py:64`) but leaves selected what was: the planner's tool with the
  arguments `{}`, or in a validation loop the earlier selection. The route looks at
  nothing else, so `AgentGraph` has that tool executed. The selector's draft, if it is
  not empty, then passes through `response_generator.py:53`, and the user is answered
  without a word of what the tool has done: such a reply rests on no execution, and
  `ReplyRestsOnLastExecution` says of it only that it is this selection's.
* *The last messages.* `summarization.py:26` says of `_KEEP_TAIL` "always preserve the
  last N messages verbatim". The rows of a turn have one `created_at`, and nothing else
  orders them: with an odd number of rows the tail may begin between the two. Two tasks
  that are under way at once, and are given the two in different order, delete one
  each, and N - 1 messages remain beside two summaries. `LastMessagesVerbatim` is the
  comment as a formula; `tlc -config TailVerbatim.cfg ConversationMC.tla` refutes it,
  with two turns answered, a third failed and two tasks. `TailIsKept` is what is true:
  one row less than N, and only where both rows of a turn are gone.
* *Rejected calls are load.* The limiter records a call before it compares the
  count, while its docstring raises before it adds the member
  (`tool_rate_limiter.py:12`); `RejectedOnlyUnderLoad` counts them accordingly.
* *Late stamps.* A transition to OPEN writes the state before `opened_at`, and reads the
  clock for that before its `SET` is awaited (`circuit_breaker.py:177` and `:185`). Until
  the timestamp is there, calls read the one of an earlier opening and may go through,
  and one that is late puts back that of another call that opened the circuit after it.
  `OpenIsStamped` says how far and how long; `FailFastUntilTimeout` starts when no call
  is between the gate and its last write, and denies none of this.
* *Logout and rotation.* A logout revokes the one session of its token: one that
  overlaps a refresh of the same token, or comes with an older token of the
  family, leaves the successor alive and answers 204 all the same.
* *Repeated writes.* `WritesReachService` bounds how often a service acts for one
  successful write by `MaxAttempts`, not by one: a `POST` whose answer is lost is
  sent again. The agent's retries make more executions of it.
* *Lower-cased keys.* `Alike` ignores how a text is written, as the code does, so
  `mock_api` may answer an echo of "Hello" with that of "hello", and
  `LIST_REPOS`, which the plugin does not know, is answered from the entry of
  `list_repos`, though the README speaks of identical calls.
* *A raising tool ends the turn.* The breaker wraps a tool's exception in a
  retryable `ToolExecutionError`, which the executor raises again: the graph's retry
  handler sees only results with `success=False`.
* *Overtaken messages.* `AnswersOwnMessage` allows a turn to take the message of a
  turn that began later and committed first for its user's.
* *Prompts.* After a failed fetch or compilation a node works with the fallback
  text, but its generation is linked to the version fetched before. The tool
  selector links a prompt whose text it does not use. A published planner text with
  a stray brace makes every turn fail with a `KeyError`. A planner reply that is no
  JSON fails the turn with 422; `README.md:84` says that the retry handler catches
  it, to which no route leads.
* *Uncounted tokens.* A reply without choices has used tokens that nobody counts.
  A cancelled node leaves its generation open in Langfuse.
* *Overlapping registrations.* The loser is answered 500 where one a moment later
  is told that the address is taken.
* *Redacted counters.* Sensitive keys are found by substring, so counts of tokens
  and the cache's `key` are redacted in the logs as well.
* *Wiring.* `container.py:137` passes two arguments to `AdminService`, whose
  constructor takes one; as read, building the request scope raises `TypeError`.
  The models take up after it. `_get_daily_cost` looks for a metric family by a name
  from which the Prometheus client strips the suffix `_total`, and finds none. The
  gauge of active users falls only when somebody sends a message. The frontend
  never refreshes its tokens.

## 4. Proofs

Proved for every value of the constants that satisfies the modules'
assumptions (each an `ASSUME` that TLC evaluates as well):

* **CircuitBreakerProofs.** `TypeCorrect` holds under all troubles.
  `CountersAlwaysSettle`, `OpenAlwaysStamped` and `OpenShieldsTheTool` say what
  the run checks, under the hypothesis `Reliable` (only tools fail): lost
  commands and deaths really do break the first two, and `Recovers` takes their
  place there. `BreakerInv` adds to them which state a call can be in at each
  place of its code (`BranchFits`); without it a call at `settle` could have
  come from either branch of `_on_failure` and reset the wrong counter.
  `SequentialCallsMeetContract`, in the same module: for one call slot,
  every step maps to a contract step or a stutter. The invariant (`Follows`,
  `CountersFit`) says what the only call knows of Redis at each of its places:
  nobody else writes, so what it read is still there.
* **AgentProofs, the graph.** All six invariants and the action property. The
  inductive invariant says for each node which fields it has been reached with;
  the budget of the first pass follows from a count of the steps each node may
  have been preceded by.
* **AgentProofs, the turn with its tools.** `TurnImplementsGraph`: every step of the composition is a
  step of `AgentGraph` or a stutter, so everything proved of the graph holds of it
  (`TurnKeepsGraphProperties`). It needs `OneAtATime`: an execution that has begun
  and has not been returned is the current one, and it runs the selected call.
  `AtMostOneWritePerSelection` strengthens the count (`WritesCounted`): while the
  current execution may still confirm a write, or a failed one be repeated, there is
  one selection more than confirmed writes. `ReplyAlwaysRestsOnLast` adds that a
  draft with text in it was written after the last selection, and is not carried back
  to the executor if the generator wrote it (`FreshDraft`); that the state's result is the last execution's at every node, and that a
  write is successful only where the service acted (`ExecutionFits`). `FirstPassAlwaysSpares` puts
  the executions that have sent anything into an interval whose length
  `ExecutionsLicensed` bounds, the tool having been selected once (`SelectedOnce`).
  The other half of the composition is `TurnImplementsStack`: a turn's executions
  are executions of `ToolExecution`, so `TurnKeepsToolProperties` carries the
  invariant of `ToolExecutionProofs` over (instantiated, with what that module
  assumes of its constants discharged from `StackAssumption`).
  `TurnCountsDown`: `StepsLeft`, a number of at most `RecursionLimit` times
  `MaxAttempts + 6` and one, falls with every step of the turn and never rises, and
  it is 0 only when the turn is over. This is the whole of `TurnEnds` but for the
  fairness that makes a step happen, and it bounds a turn, which `TurnEnds` does not.
* **ToolRateLimiterProofs.** `SlidingWindow` does not mention the sorted set,
  the proof has to: `RecentCounted` says that an admitted call is a member of the
  set as long as it can share a window with the present, though later
  transactions trim with earlier or later clocks and the key may expire. Then the
  latest admitted call of any window had counted all the others.
* **ConversationProofs.** `NothingForgotten` is not inductive: a task inserts a
  summary of what it *read*, and other tasks may have deleted those rows since.
  `LoadedRemembered` adds that what a task has read is told by the table all the
  same. With it every step of turns, tasks, retries and crashes keeps it.
  `OwnMessageAnswered` rests on dates (`DatingInv`): every row, summaries included,
  is dated no later than the turns it tells of began, all of which have committed,
  and no two turns began at one time.

  `TailAlwaysKept` needs that all that a task has read, and every summary, is *settled*
  (`TailInv`): `KeepTail` rows of messages are strictly later, or `KeepTail - 1` are
  later than the two rows of a turn that began no earlier. That is what `EarlyRows`
  leaves of a row it puts before the tail (`EarlyIsSettled`): of the rows in the tail
  only the row's own twin can tie with it, and a summary in the tail is settled itself.
  And what is settled stays so (`CompactKeepsSettled`): either a task deletes no message
  later than it, or the latest one it deletes is settled itself, and what is later than
  that stays. A message that is only in a summary is settled since it was read; if it
  has no `KeepTail` rows as late as it, both rows of the turn that settles it are gone.
  `SummariesAlwaysFollowFailures` counts: while every question has its answer the
  table has an even number of rows whatever overlaps, a turn reads its own message
  beside them, and an odd number is no multiple of an even one (`ParityInv`). The
  hypothesis is that `SummarizeEvery` is even, which 20 is.

* **AuthSessionsProofs.** `SingleSession` is `OneSessionPerDevice` without
  counting. The strengthening is `AcceptedInTurn`: a token that was accepted is
  still unspent unless a request that this one has not seen has spent it. At the
  commit of a refresh or logout whose device's requests are in turn, the second
  case is excluded, so the token's session is the device's only one and is
  replaced or removed. `DeviceKeepsSession` needs no turn: every refresh that
  commits adds an unrevoked session. `AccountsImplementSessions` carries all three to
  `AccountSpec`, whose other steps leave the sessions alone; `OneRegistrationAlwaysWins`
  is proved from the fact that of the registrations of one address at most one is
  inserted or committed at a time. `RefreshInTurnIsOneTime` is what is true of the
  claim that `refresh_one_time` refutes; it needs that spent tokens stay revoked
  (`Spent`).
* **ModelCallsProofs.** `AlwaysLinkedToItsPrompt` needs that a waiting run still has
  in its state the version of the text it was given; `UsageAlwaysCountedOnce` that a
  run which still waits has not been counted. `WaitsCountDown` is to `CallsEnd` what
  `TurnCountsDown` is to `TurnEnds`: no run waits for more than `MaxRequests` answers,
  and no other run makes it wait longer.

* **ToolExecutionProofs.** The entry of a key is only a name, so the invariant
  has to say what stays true of the execution it names: it is over and changes no
  more (`Cachable`), its expiry is its own writing plus its TTL (`EntryFits`).
  `AnswersBelong` and `AnswersExpire` hold for any key function and heuristic;
  `WritesReachService` under the hypothesis `WritesKnown`, that the heuristic
  recognises what changes the service's state. `IssuesAlwaysReachService` discharges
  it for the code's heuristic and plugins: `create_issue` is the one call that writes,
  and its action names it. `KeysAlwaysFit` and `LogsAlwaysClean` are about the nested
  arguments of such calls, of any depth and size.
* **NestedData.** A recursive function is a `CHOOSE`, and that something satisfies its
  equation has to be shown: `RecursionDefined` does, by joining partial solutions on
  sets closed under parts (`SolutionsAgree`), whenever every set of values has a member
  with no part in it. It stands in for the library's induction theorems, whose
  operator parameter the provers cannot instantiate. `ToolExecutionProofs`
  instantiates it for `NormalizeArguments`, `Alike`, `RedactIn` and `LeavesIn`, and proves
  of all values what it needs (`AlikeShareKeys`, `EveryValueLoggedWell`) by asking for
  the least deep counterexample.
* **CircuitBreakerProofs, once more.** `CallsCountDown`: under all troubles a call has at
  most nine steps, none of which depends on what it reads; with it `Recovers` is left
  with what several calls make of the keys.

Every safety property that a passing run checks is stated by a theorem. Only
model-checked: `Recovers`, `TurnEnds` and `CallsEnd`, since liveness under fairness is
beyond the prover, and the three violated properties. `Recovers` is the one whose
argument is in no theorem: that calls which keep coming close the circuit depends on
how many of them overlap, and is checked for two. `RECURSIVE` operators occur in
`ToolExecutionMC` only, which computes the instance for TLC.

## 5. Not modelled

Named in `PROJECT.json` with reasons. `stream()` of the provider is called by
nobody, and the translation of messages has no state; logging set-up, spans and
Prometheus are written and never read by the program; `RedisRateLimiter` and
`RedisConversationMemory` are constructed and used by nobody, so the per-user
limit of the architecture document does not exist; administration is read-only,
and migrations, the container and deployment run once. The repositories of tool
executions and of usage are never called by `send_message`. A client that loses the
answer to a refresh has lost its session: nothing in the repository handles that,
so there is no behaviour to check. Access tokens are checked by their signature and
age alone, without state.

## 6. Plan

Done: the agent graph and the circuit breaker first, being the core and the
most intricate concurrency; then the limiter; conversations, the other place where
independent processes share state; sessions, where overlapping transactions meet in
one row; the executor with its cache and requests. After these their compositions:
a turn with its tools, sessions with registrations, and the nodes with the prompt
service and the provider; and redaction.

What is left:

1. The breaker and the limiter inside `AgentTools` instead of their free choice. The
   free choice covers all they do; their own state would add how often a turn is
   refused because of other turns.
2. Proofs: `BreakerContract`'s refinement for more than one call slot that do not
   overlap, and what of `Recovers` can be said without fairness.
