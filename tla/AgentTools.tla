----------------------------- MODULE AgentTools -----------------------------
(***************************************************************************)
(* One turn of the agent over the stack that runs its tools: AgentGraph    *)
(* with the node tool_executor taken apart into the steps of ToolExecution *)
(* (the cache, the plugin and the attempts of its HTTP client).  The n-th  *)
(* run of the node is execution n; a turn runs no two at a time.           *)
(***************************************************************************)
EXTENDS AgentGraph, FiniteSets

CONSTANTS
    KeyOf(_),       \* as in ToolExecution, of a tool call
    IsWrite(_),
    PluginAnswer(_),
    Posts(_),
    TTL(_),
    MaxAttempts,
    Lifetime,
    Troubles        \* what may go wrong: "redis", "http"

ASSUME StackAssumption ==
    /\ MaxAttempts \in Nat \ {0}
    /\ Lifetime \in Nat
    /\ Troubles \subseteq {"redis", "http"}
    /\ ToolCalls # {}
    /\ \A x \in ToolCalls : TTL(x) \in Nat /\ PluginAnswer(x) \in {"success", "failure", "request"}

\* The heuristic for writes knows the calls that change a service's state.
ASSUME WritesAssumption ==
    \A x \in ToolCalls : Posts(x) => IsWrite(x) /\ PluginAnswer(x) = "request"

VARIABLES now, holder, expiry, phase, call, result, source, attempts, performed,
          reported, stored, answeredAt

\* Every execution is a step of the graph, so the graph's limit bounds them.
Executions == 1..RecursionLimit

Stack == INSTANCE ToolExecution WITH Calls <- ToolCalls, NoExecution <- 0

stack == <<now, holder, expiry, phase, call, result, source, attempts, performed,
           reported, stored, answeredAt>>
turnVars == <<vars, stack>>

TurnInit == Init /\ Stack!Init

-----------------------------------------------------------------------------

\* The run of the executor that is going on or comes next.
Current == executions + 1

Executing ==
    /\ outcome = "running"
    /\ node = "tool_executor"
    /\ steps < RecursionLimit

\* The other nodes, and what ends the turn between two of them.
RunNode ==
    /\ \/ ContentFilter
       \/ Planner
       \/ ToolSelector
       \/ ErrorHandler
       \/ RetryHandler
       \/ ResponseGenerator
       \/ ModelFails
       \/ Validator
       \/ RecursionError
    /\ UNCHANGED stack

\* Slip: a tool that nobody registered is run like any other.
StartAnything ==
    /\ Executing
    /\ Stack!Begin(Current)
    /\ call'[Current] = selected
    /\ UNCHANGED vars

\* A tool that is not in the registry raises before the limiter is asked.
StartTool ==
    /\ Executing
    /\ Stack!Begin(Current)
    /\ call'[Current] = selected
    /\ selected.tool \notin Tools => phase'[Current] = "raised"
    /\ UNCHANGED vars

RunTool ==
    /\ Executing
    /\ \/ Stack!Hit(Current)
       \/ Stack!Miss(Current)
       \/ Stack!CircuitRefuses(Current)
       \/ Stack!Answer(Current)
       \/ Stack!Respond(Current)
       \/ Stack!AttemptFails(Current)
       \/ Stack!Report(Current)
       \/ Stack!Store(Current)
    /\ UNCHANGED vars

\* The node returns its tool_result, and the route reads its success.
ReturnResult ==
    /\ Running("tool_executor")
    /\ phase[Current] = "done"
    /\ executions' = executions + 1
    /\ toolResult' = result[Current]
    /\ Continue(IF result[Current] = "success" THEN "response_generator" ELSE "error_handler")
    /\ UNCHANGED <<needsTool, selected, draft, errors, retryCount, loopCount, error,
                   selections, basis>>
    /\ UNCHANGED stack

RaiseError ==
    /\ Running("tool_executor")
    /\ phase[Current] = "raised"
    /\ executions' = executions + 1
    /\ Abort("domain_error")
    /\ UNCHANGED <<selections, basis>>
    /\ UNCHANGED stack

TurnStep == RunNode \/ StartTool \/ RunTool \/ ReturnResult \/ RaiseError

TurnNext == TurnStep \/ (Stack!Tick /\ UNCHANGED vars)

\* The event loop resumes the turn whenever what it awaits has come, and all that it
\* awaits comes: the model, Redis and the services have timeouts.
TurnSpec == TurnInit /\ [][TurnNext]_turnVars /\ WF_turnVars(TurnStep)

-----------------------------------------------------------------------------

\* The graph's own specification, in which the executor is one step that succeeds,
\* fails or raises, is all that nodes and routes can tell of the stack: everything
\* that holds of AgentGraph holds of a turn with its tools.
ImplementsAgentGraph == Spec

\* What the service does in one turn: it confirms no more writes than there were
\* selections, since retries repeat failures only.
ConfirmedWrites == {c \in Executions : Posts(call[c]) /\ result[c] = "success"}
OneWritePerSelection == Cardinality(ConfirmedWrites) <= selections

\* Two layers retry, the graph and the HTTP client: until a reply has failed
\* validation, one message costs a service no more than the product of their bounds,
\* MaxAttempts requests from each of the executions that send any.
Requesting == {c \in Executions : attempts[c] > 0}
FirstPassSparesService ==
    outcome = "running" /\ errors = {} =>
        /\ Cardinality(Requesting) <= 1 + MaxToolRetries
        /\ \A c \in Requesting : attempts[c] <= MaxAttempts

\* No reply is left over from an earlier round of the validation loop, although drafts
\* are merged from node to node and a blank one passes through the generator: its
\* author wrote it after the turn's last selection.  The generator wrote its replies
\* after the last execution too, from that execution's result, and a success it had to
\* report of a write is one the service acted on in that very execution.  (A selector
\* that calls no function writes its draft before the tool runs nevertheless.)
ReplyRestsOnLastExecution ==
    outcome = "replied" =>
        /\ basis.selections = selections
        /\ basis.author = "response_generator" =>
              /\ basis.executions = executions
              /\ executions > 0 => toolResult = result[executions]
              /\ executions > 0 /\ toolResult = "success" /\ Posts(call[executions])
                    => performed[executions] > 0

\* Every turn ends: attempts in retries in validation loops come to an end.
TurnEnds == <>(outcome # "running")
=============================================================================
