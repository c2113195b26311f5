----------------------------- MODULE AgentGraph -----------------------------
(***************************************************************************)
(* One turn of the agent: the LangGraph of application/agent/graph.py over *)
(* AgentState.  A step runs one node and the route that follows it.  What  *)
(* a language model, a tool or a policy around the tool answers is chosen  *)
(* from every answer the node tells apart.  An exception in a node ends    *)
(* the turn: no node or edge catches it.                                   *)
(***************************************************************************)
EXTENDS Naturals

CONSTANTS
    Tools,              \* the names in the tool registry
    OtherNames,         \* names a model may make up
    MaxToolRetries,     \* agent_max_tool_retries
    MaxValidationLoops, \* agent_max_validation_loops
    RecursionLimit,     \* LangGraph's bound on the steps of one invocation
    NoTool              \* None

Names == Tools \cup OtherNames

\* The planner names a tool with no arguments; the selector's function call
\* carries the arguments it read from the message.
ToolCalls == [tool : Names, arguments : {"placeholder", "extracted"}]

ASSUME NamesAssumption == Tools \cap OtherNames = {} /\ NoTool \notin Names \cup ToolCalls

ASSUME LimitsAssumption ==
    /\ MaxToolRetries \in Nat
    /\ MaxValidationLoops \in Nat \ {0}
    /\ RecursionLimit \in Nat \ {0}

VARIABLES
    node,               \* the node to run next, or "END"
    needsTool,          \* needs_tool
    selected,           \* selected_tool
    toolResult,         \* tool_result: none, or whether it was a success
    draft,              \* draft_response
    errors,             \* validation_errors
    retryCount,         \* retry_count
    loopCount,          \* validation_loop_count
    error,              \* error
    outcome,            \* how the invocation ended
    steps,              \* nodes run
    selections,         \* history: runs of tool_selector
    executions,         \* history: tool executions started
    basis               \* history: who wrote the draft, after which selection and execution

state == <<needsTool, selected, toolResult, draft, errors, retryCount, loopCount, error>>
history == <<selections, executions, basis>>
vars == <<node, state, outcome, steps, history>>

Nodes == {"content_filter", "planner", "tool_selector", "tool_executor", "error_handler",
          "retry_handler", "response_generator", "validator"}

\* "" is false and fails validation, "  " is true and fails it, "text" passes.
Contents == {"empty", "blank", "text"}
Truthy(content) == content # "empty"

\* A DomainError becomes an error response, any other exception a 500.
Outcomes == {"running", "replied", "domain_error", "crash"}

Bases == [author : Nodes \cup {"nobody"}, selections : Nat, executions : Nat]

TypeOK ==
    /\ node \in Nodes \cup {"END"}
    /\ needsTool \in BOOLEAN
    /\ selected \in ToolCalls \cup {NoTool}
    /\ toolResult \in {"none", "success", "failure"}
    /\ draft \in Contents
    /\ errors \subseteq {"empty", "no_fallback"}
    /\ retryCount \in 0..MaxToolRetries
    /\ loopCount \in Nat
    /\ error \in {"none", "retryable", "unrecoverable", "content_filter_triggered"}
    /\ outcome \in Outcomes
    /\ steps \in 0..RecursionLimit
    /\ selections \in Nat
    /\ executions \in Nat
    /\ basis \in Bases

Init ==
    /\ node = "content_filter"
    /\ needsTool = FALSE
    /\ selected = NoTool
    /\ toolResult = "none"
    /\ draft = "empty"
    /\ errors = {}
    /\ retryCount = 0
    /\ loopCount = 0
    /\ error = "none"
    /\ outcome = "running"
    /\ steps = 0
    /\ selections = 0
    /\ executions = 0
    /\ basis = [author |-> "nobody", selections |-> 0, executions |-> 0]

-----------------------------------------------------------------------------
(* Running a node                                                          *)

Running(n) ==
    /\ outcome = "running"
    /\ node = n
    /\ steps < RecursionLimit
    /\ steps' = steps + 1

Continue(next) ==
    /\ node' = next
    /\ outcome' = IF next = "END" THEN "replied" ELSE "running"

Abort(kind) ==
    /\ outcome' = kind
    /\ UNCHANGED <<node, state>>

\* A draft rests on what its author could know: this selection, this many executions.
WrittenBy(author, selection) ==
    basis' = [author |-> author, selections |-> selection, executions |-> executions]

ContentFilter ==
    /\ Running("content_filter")
    /\ \/ /\ Continue("planner")
          /\ UNCHANGED <<draft, error, basis>>
       \/ /\ draft' = "text"
          /\ error' = "content_filter_triggered"
          /\ WrittenBy("content_filter", selections)
          /\ Continue("END")
    /\ UNCHANGED <<needsTool, selected, toolResult, errors, retryCount, loopCount,
                   selections, executions>>

\* What _try_parse_llm_json and PlannerOutput make of the model's answer.
PlannerAnswers ==
    [form : {"no_json", "no_object", "no_schema"}]
        \cup [form : {"decision"}, needs : BOOLEAN, tool : Names \cup {NoTool}]

Planner ==
    /\ Running("planner")
    /\ \E answer \in PlannerAnswers :
          \/ /\ answer.form \in {"no_json", "no_schema"}
             /\ Abort("domain_error")
          \/ /\ answer.form = "no_object"
             /\ Abort("crash")
          \/ /\ answer.form = "decision"
             /\ IF answer.needs /\ answer.tool \in Tools
                  THEN /\ needsTool' = TRUE
                       /\ selected' = [tool |-> answer.tool, arguments |-> "placeholder"]
                       /\ Continue("tool_selector")
                  ELSE /\ needsTool' = FALSE
                       /\ Continue("response_generator")
                       /\ UNCHANGED selected
             /\ UNCHANGED <<toolResult, draft, errors, retryCount, loopCount, error>>
    /\ UNCHANGED history

\* Slip: the route after the selector forgets the answer without a tool.
SelectorAlwaysExecutes ==
    /\ Running("tool_selector")
    /\ selections' = selections + 1
    /\ \/ /\ \E content \in Contents : draft' = content
          /\ WrittenBy("tool_selector", selections')
          /\ needsTool' = FALSE
          /\ UNCHANGED selected
       \/ /\ \E name \in Names : selected' = [tool |-> name, arguments |-> "extracted"]
          /\ UNCHANGED <<draft, needsTool, basis>>
    /\ Continue("tool_executor")
    /\ UNCHANGED <<toolResult, errors, retryCount, loopCount, error, executions>>

\* Without a function call the planner's choice stays in selected_tool, and the
\* route looks at nothing else.
ToolSelector ==
    /\ Running("tool_selector")
    /\ selections' = selections + 1
    /\ \/ /\ \E content \in Contents : draft' = content
          /\ WrittenBy("tool_selector", selections')
          /\ needsTool' = FALSE
          /\ UNCHANGED selected
       \/ /\ \E name \in Names : selected' = [tool |-> name, arguments |-> "extracted"]
          /\ UNCHANGED <<draft, needsTool, basis>>
    /\ Continue(IF selected' # NoTool THEN "tool_executor" ELSE "response_generator")
    /\ UNCHANGED <<toolResult, errors, retryCount, loopCount, error, executions>>

\* The result is the cached one, the tool's own, or its failure.
ToolExecutor ==
    /\ Running("tool_executor")
    /\ selected # NoTool
    /\ selected.tool \in Tools
    /\ executions' = executions + 1
    /\ \E result \in {"success", "failure"} :
          /\ toolResult' = result
          /\ Continue(IF result = "success" THEN "response_generator" ELSE "error_handler")
    /\ UNCHANGED <<needsTool, selected, draft, errors, retryCount, loopCount, error,
                   selections, basis>>

\* An unknown tool, a rate limit, an OPEN circuit, or an exception the breaker
\* turned into a ToolExecutionError.
ToolExecutorRaises ==
    /\ Running("tool_executor")
    /\ executions' = executions + 1
    /\ Abort("domain_error")
    /\ UNCHANGED <<selections, basis>>

\* Slips: one retry too many, and one too few.
ErrorHandlerWith(anotherRetry) ==
    /\ Running("error_handler")
    /\ IF toolResult = "failure"
         THEN error' = "retryable" /\ UNCHANGED <<draft, basis>>
         ELSE error' = "unrecoverable" /\ draft' = "text" /\ WrittenBy("error_handler", selections)
    /\ Continue(IF error' = "retryable" /\ anotherRetry THEN "retry_handler" ELSE "response_generator")
    /\ UNCHANGED <<needsTool, selected, toolResult, errors, retryCount, loopCount,
                   selections, executions>>
OneRetryTooMany == ErrorHandlerWith(retryCount <= MaxToolRetries)
OneRetryTooFew == ErrorHandlerWith(retryCount + 1 < MaxToolRetries)

ErrorHandler ==
    /\ Running("error_handler")
    /\ IF toolResult = "failure"
         THEN error' = "retryable" /\ UNCHANGED <<draft, basis>>
         ELSE error' = "unrecoverable" /\ draft' = "text" /\ WrittenBy("error_handler", selections)
    /\ Continue(IF error' = "retryable" /\ retryCount < MaxToolRetries
                  THEN "retry_handler" ELSE "response_generator")
    /\ UNCHANGED <<needsTool, selected, toolResult, errors, retryCount, loopCount,
                   selections, executions>>

\* Slips: a retry that is not counted, and one that selects the tool again.
RetryWith(count, next) ==
    /\ Running("retry_handler")
    /\ retryCount' = count
    /\ Continue(next)
    /\ UNCHANGED <<needsTool, selected, toolResult, draft, errors, loopCount, error, history>>
UncountedRetry == RetryWith(retryCount, "tool_executor")
ReselectingRetry == RetryWith(retryCount + 1, "tool_selector")

RetryHandler ==
    /\ Running("retry_handler")
    /\ retryCount' = retryCount + 1
    /\ Continue("tool_executor")
    /\ UNCHANGED <<needsTool, selected, toolResult, draft, errors, loopCount, error, history>>

\* An answer already in the draft passes through; otherwise the model writes one.
ResponseGenerator ==
    /\ Running("response_generator")
    /\ IF Truthy(draft)
         THEN UNCHANGED <<draft, basis>>
         ELSE draft' \in Contents /\ WrittenBy("response_generator", selections)
    /\ Continue("validator")
    /\ UNCHANGED <<needsTool, selected, toolResult, errors, retryCount, loopCount, error,
                   selections, executions>>

\* The language model's provider gave up, or answered what Python cannot use.
ModelFails ==
    /\ \/ Running("planner")
       \/ Running("tool_selector")
       \/ Running("response_generator") /\ ~Truthy(draft)
    /\ \E kind \in {"domain_error", "crash"} : Abort(kind)
    /\ UNCHANGED history

\* Slips: a blank reply passes for want of a strip(), the errors that send the turn
\* back are not recorded, and the turn goes back to the tool instead of its selection.
ValidatorWith(found, recorded, back) ==
    /\ Running("validator")
    /\ errors' = recorded
    /\ Continue(IF found # {} /\ loopCount < MaxValidationLoops THEN back ELSE "END")
    /\ UNCHANGED <<needsTool, selected, toolResult, draft, retryCount, loopCount, error, history>>
FoundIn(reply) == IF reply = "text" THEN {} ELSE {"empty"}
UnstrippedValidator ==
    LET found == IF Truthy(draft) THEN {} ELSE {"empty"} IN ValidatorWith(found, found, "tool_selector")
ForgetfulValidator == ValidatorWith(FoundIn(draft), {}, "tool_selector")
RepeatingValidator == ValidatorWith(FoundIn(draft), FoundIn(draft), "tool_executor")

\* Slip: the loops are counted, and after the last one whatever is in the draft goes out.
CountedLoops ==
    /\ Running("validator")
    /\ errors' = FoundIn(draft)
    /\ loopCount' = loopCount + 1
    /\ Continue(IF errors' # {} /\ loopCount < MaxValidationLoops THEN "tool_selector" ELSE "END")
    /\ UNCHANGED <<needsTool, selected, toolResult, draft, retryCount, error, history>>

Validator ==
    /\ Running("validator")
    /\ errors' = (IF draft # "text" THEN {"empty"} ELSE {})
                    \cup (IF toolResult = "failure" /\ ~Truthy(draft) THEN {"no_fallback"} ELSE {})
    /\ Continue(IF errors' # {} /\ loopCount < MaxValidationLoops THEN "tool_selector" ELSE "END")
    /\ UNCHANGED <<needsTool, selected, toolResult, draft, retryCount, loopCount, error, history>>

\* GraphRecursionError: the step budget is spent and a node is still to run.
RecursionError ==
    /\ outcome = "running"
    /\ steps = RecursionLimit
    /\ Abort("crash")
    /\ UNCHANGED <<steps, history>>

Next ==
    \/ ContentFilter
    \/ Planner
    \/ ToolSelector
    \/ ToolExecutor
    \/ ToolExecutorRaises
    \/ ErrorHandler
    \/ RetryHandler
    \/ ResponseGenerator
    \/ ModelFails
    \/ Validator
    \/ RecursionError

Spec == Init /\ [][Next]_vars

-----------------------------------------------------------------------------

\* Every execution of a tool has its own licence: a run of the selector or a
\* retry, of which a turn has at most MaxToolRetries in all, however often the
\* validator sends it back.
ExecutionsLicensed ==
    executions + (IF node = "tool_executor" /\ outcome = "running" THEN 1 ELSE 0)
        <= selections + retryCount

\* A turn that already has a successful tool result runs a tool again only to
\* replace a reply that failed validation.
SuccessIsRepeatedOnlyForInvalidReply ==
    [][executions' # executions /\ toolResult = "success" => errors # {}]_vars

\* A failed tool is put to the user only when the retries of the turn are used up.
FailureAnsweredAfterAllRetries ==
    node \in {"response_generator", "validator", "END"} /\ toolResult = "failure"
        => retryCount = MaxToolRetries

\* What the nodes take for granted is there: the executor's assertion holds,
\* and error_handler only ever sees failed tools, so its other branch and the
\* apology written there are dead.
NodesFindWhatTheyNeed ==
    /\ node = "tool_executor" => selected # NoTool
    /\ node \in {"error_handler", "retry_handler"} => toolResult = "failure"
    /\ error # "unrecoverable"

\* A turn that ends without an exception has a reply that passes validation,
\* although each of the model's answers on the way may have been blank.
RepliesAreValid == outcome = "replied" => draft = "text"

\* Until a reply has failed validation, all retries included, a turn stays this
\* far below LangGraph's limit: GraphRecursionError is always the validation
\* loop's doing.
FirstPassFitsBudget ==
    outcome = "running" /\ errors = {} => steps <= 6 + 3 * MaxToolRetries
=============================================================================
