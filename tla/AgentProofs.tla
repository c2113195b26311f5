----------------------------- MODULE AgentProofs -----------------------------
(***************************************************************************)
(* Safety of one turn of the agent, for any registry, any retry limit and  *)
(* any step budget: first of the graph by itself, then of a turn over its  *)
(* tools, which is a turn of the graph for any cache keys and any bounds,  *)
(* so that what was proved of the graph carries over.                      *)
(***************************************************************************)
EXTENDS AgentTools, FiniteSetTheorems, TLAPS

\* What holds when a node is about to run, beside the properties themselves:
\* nothing resets loop_count or raises it, the retry handler is entered with a
\* retry left, and a success is only repeated after a failed validation.
Routing ==
    /\ loopCount = 0
    /\ node \in {"content_filter", "planner"} => toolResult = "none" /\ errors = {}
    /\ node = "retry_handler" => retryCount < MaxToolRetries
    /\ node \in {"tool_selector", "tool_executor"} /\ toolResult = "success" => errors # {}
    /\ toolResult # "none" => selected # NoTool

\* How far each node lies from the entry point while no reply has failed
\* validation: a retry costs three steps.
Distance ==
    errors = {} /\ outcome = "running" =>
        /\ node = "content_filter" => steps = 0
        /\ node = "planner" => steps <= 1
        /\ node = "tool_selector" => steps <= 2
        /\ node = "tool_executor" => steps <= 3 + 3 * retryCount
        /\ node = "error_handler" => steps <= 4 + 3 * retryCount
        /\ node = "retry_handler" => steps <= 5 + 3 * retryCount
        /\ node = "response_generator" => steps <= 5 + 3 * MaxToolRetries
        /\ node = "validator" => steps <= 6 + 3 * MaxToolRetries

\* A turn is over exactly when it stands at END, or a node has raised.
EndsAtEnd == outcome = "replied" <=> node = "END"

GraphInv ==
    /\ TypeOK
    /\ Routing
    /\ Distance
    /\ ExecutionsLicensed
    /\ FailureAnsweredAfterAllRetries
    /\ NodesFindWhatTheyNeed
    /\ RepliesAreValid
    /\ EndsAtEnd

LEMMA GraphInit == Init => GraphInv
<1>. SUFFICES ASSUME Init PROVE GraphInv
  OBVIOUS
<1>1. TypeOK
  <2>1. errors \subseteq {"empty", "no_fallback"} /\ needsTool \in BOOLEAN
    BY DEF Init
  <2>2. QED
    BY <2>1, LimitsAssumption DEF Init, TypeOK, Nodes, Contents, Outcomes, Bases
<1>2. Routing /\ Distance
  BY DEF Init, Routing, Distance
<1>3. ExecutionsLicensed /\ FailureAnsweredAfterAllRetries /\ NodesFindWhatTheyNeed
  BY DEF Init, ExecutionsLicensed, FailureAnsweredAfterAllRetries, NodesFindWhatTheyNeed
<1>4. RepliesAreValid /\ EndsAtEnd
  BY DEF Init, RepliesAreValid, EndsAtEnd
<1>5. QED
  BY <1>1, <1>2, <1>3, <1>4 DEF GraphInv

\* A node runs within the budget and spends one step of it.
LEMMA RunningStep ==
    ASSUME TypeOK, NEW n, Running(n)
    PROVE  /\ node = n /\ outcome = "running"
           /\ steps \in Nat /\ steps' = steps + 1 /\ steps' \in 0..RecursionLimit
BY LimitsAssumption DEF Running, TypeOK

LEMMA ContinueStep ==
    ASSUME NEW n, Continue(n)
    PROVE  /\ node' = n /\ outcome' \in {"running", "replied"}
           /\ n = "END" <=> outcome' = "replied"
           /\ n # "END" <=> outcome' = "running"
BY DEF Continue

\* A turn that ends with an exception keeps what the nodes before had written.
LEMMA AbortStep ==
    ASSUME GraphInv, outcome = "running", NEW kind \in {"domain_error", "crash"}, Abort(kind),
           UNCHANGED <<selections, basis>>, steps' \in 0..RecursionLimit,
           \/ executions' = executions
           \/ node = "tool_executor" /\ executions' = executions + 1
    PROVE  GraphInv'
<1>1. TypeOK'
  BY DEF GraphInv, TypeOK, Abort, Outcomes, state
<1>2. Routing' /\ Distance' /\ RepliesAreValid'
  BY DEF GraphInv, Routing, Distance, RepliesAreValid, Abort, state
<1>3. FailureAnsweredAfterAllRetries' /\ NodesFindWhatTheyNeed'
  BY DEF GraphInv, FailureAnsweredAfterAllRetries, NodesFindWhatTheyNeed, Abort, state
<1>4. ExecutionsLicensed'
  BY DEF GraphInv, TypeOK, ExecutionsLicensed, Abort, state
<1>5. EndsAtEnd'
  BY DEF GraphInv, EndsAtEnd, Abort, state
<1>6. QED
  BY <1>1, <1>2, <1>3, <1>4, <1>5 DEF GraphInv

LEMMA NoToolIsNoCall ==
    ASSUME NEW name \in Names
    PROVE  [tool |-> name, arguments |-> "extracted"] # NoTool
BY NamesAssumption DEF ToolCalls

LEMMA BasisType ==
    ASSUME TypeOK, NEW author \in Nodes, NEW n \in Nat, WrittenBy(author, n)
    PROVE  basis' \in Bases
BY DEF WrittenBy, Bases, TypeOK

LEMMA GraphStep ==
    ASSUME GraphInv, [Next]_vars
    PROVE  GraphInv'
<1>. USE LimitsAssumption
<1>0. TypeOK
  BY DEF GraphInv
<1>1. CASE ContentFilter
  <2>1. /\ node = "content_filter" /\ outcome = "running" /\ node' \in {"planner", "END"}
        /\ steps \in Nat /\ steps' = steps + 1 /\ steps' \in 0..RecursionLimit
        /\ outcome' \in {"running", "replied"}
        /\ (node' = "END" <=> outcome' = "replied") /\ (node' # "END" <=> outcome' = "running")
    BY <1>0, <1>1, RunningStep, ContinueStep DEF ContentFilter
  <2>8. basis' \in Bases
    BY <1>0, <1>1, BasisType DEF ContentFilter, TypeOK, Nodes
  <2>2. TypeOK'
    BY <1>0, <1>1, <2>1, <2>8
       DEF GraphInv, NodesFindWhatTheyNeed, Routing, ContentFilter, TypeOK, Nodes, Contents, Outcomes, history
  <2>3. Routing' /\ EndsAtEnd' /\ RepliesAreValid'
    BY <1>0, <1>1, <2>1 DEF GraphInv, Routing, EndsAtEnd, RepliesAreValid, NodesFindWhatTheyNeed, ContentFilter, TypeOK, Continue
  <2>4. Distance'
    BY <1>0, <1>1, <2>1 DEF GraphInv, Routing, Distance, ContentFilter, TypeOK
  <2>5. ExecutionsLicensed'
    BY <1>0, <1>1, <2>1 DEF GraphInv, ExecutionsLicensed, ContentFilter, TypeOK, history
  <2>6. FailureAnsweredAfterAllRetries' /\ NodesFindWhatTheyNeed'
    BY <1>0, <1>1, <2>1 DEF GraphInv, Routing, FailureAnsweredAfterAllRetries, NodesFindWhatTheyNeed, ContentFilter, TypeOK
  <2>7. QED
    BY <2>2, <2>3, <2>4, <2>5, <2>6 DEF GraphInv
<1>2. CASE Planner
  <2>1. /\ node = "planner" /\ outcome = "running"
        /\ steps \in Nat /\ steps' = steps + 1 /\ steps' \in 0..RecursionLimit
        /\ UNCHANGED <<selections, executions, basis>>
    BY <1>0, <1>2, RunningStep DEF Planner, history
  <2>2. CASE Abort("domain_error") \/ Abort("crash")
    BY <2>1, <2>2, AbortStep
  <2>3. CASE ~(Abort("domain_error") \/ Abort("crash"))
    <3>1. PICK answer \in PlannerAnswers :
            /\ IF answer.needs /\ answer.tool \in Tools
                 THEN /\ needsTool' = TRUE
                      /\ selected' = [tool |-> answer.tool, arguments |-> "placeholder"]
                      /\ Continue("tool_selector")
                 ELSE /\ needsTool' = FALSE
                      /\ Continue("response_generator")
                      /\ UNCHANGED selected
            /\ UNCHANGED <<toolResult, draft, errors, retryCount, loopCount, error>>
      BY <1>2, <2>3 DEF Planner
    <3>2. /\ needsTool' \in BOOLEAN
          /\ selected' \in ToolCalls \cup {NoTool}
          /\ node' \in {"tool_selector", "response_generator"} /\ outcome' = "running"
      <4>1. CASE answer.needs /\ answer.tool \in Tools
        BY <3>1, <4>1, ContinueStep DEF ToolCalls, Names
      <4>2. CASE ~(answer.needs /\ answer.tool \in Tools)
        BY <1>0, <3>1, <4>2, ContinueStep DEF TypeOK
      <4>3. QED
        BY <4>1, <4>2
    <3>3. toolResult = "none" /\ errors = {} /\ steps <= 1
      BY <2>1 DEF GraphInv, Routing, Distance
    <3>4. TypeOK'
      BY <1>0, <2>1, <3>1, <3>2 DEF TypeOK, Nodes, Outcomes
    <3>5. Routing' /\ Distance' /\ EndsAtEnd' /\ RepliesAreValid'
      BY <1>0, <2>1, <3>1, <3>2, <3>3
         DEF GraphInv, Routing, Distance, EndsAtEnd, RepliesAreValid, TypeOK
    <3>6. ExecutionsLicensed'
      BY <1>0, <2>1, <3>1, <3>2 DEF GraphInv, ExecutionsLicensed, TypeOK
    <3>7. FailureAnsweredAfterAllRetries' /\ NodesFindWhatTheyNeed'
      BY <2>1, <3>1, <3>2, <3>3
         DEF GraphInv, FailureAnsweredAfterAllRetries, NodesFindWhatTheyNeed
    <3>8. QED
      BY <3>4, <3>5, <3>6, <3>7 DEF GraphInv
  <2>4. QED
    BY <2>2, <2>3
<1>3. CASE ToolSelector
  <2>1. /\ node = "tool_selector" /\ outcome = "running" /\ outcome' = "running"
        /\ steps \in Nat /\ steps' = steps + 1 /\ steps' \in 0..RecursionLimit
        /\ node' = IF selected' # NoTool THEN "tool_executor" ELSE "response_generator"
        /\ selected' = NoTool => selected = NoTool
        /\ needsTool' \in BOOLEAN /\ draft' \in Contents /\ selected' \in ToolCalls \cup {NoTool}
    <3>1. needsTool' \in BOOLEAN /\ draft' \in Contents
      BY <1>0, <1>3 DEF ToolSelector, TypeOK
    <3>2. selected' \in ToolCalls \cup {NoTool} /\ (selected' = NoTool => selected = NoTool)
      <4>1. CASE UNCHANGED selected
        BY <1>0, <4>1 DEF TypeOK
      <4>2. CASE \E name \in Names : selected' = [tool |-> name, arguments |-> "extracted"]
        BY <4>2, NoToolIsNoCall DEF ToolCalls
      <4>3. QED
        BY <1>3, <4>1, <4>2 DEF ToolSelector
    <3>3. QED
      BY <1>0, <1>3, <3>1, <3>2, RunningStep, ContinueStep DEF ToolSelector
  <2>8. basis' \in Bases
    BY <1>0, <1>3, BasisType DEF ToolSelector, TypeOK, Nodes
  <2>2. TypeOK'
    BY <1>0, <1>3, <2>1, <2>8
       DEF GraphInv, NodesFindWhatTheyNeed, Routing, ToolSelector, TypeOK, Nodes, Contents, Outcomes, history
  <2>3. Routing' /\ EndsAtEnd' /\ RepliesAreValid'
    BY <1>0, <1>3, <2>1 DEF GraphInv, Routing, EndsAtEnd, RepliesAreValid, NodesFindWhatTheyNeed, ToolSelector, TypeOK
  <2>4. Distance'
    BY <1>0, <1>3, <2>1 DEF GraphInv, Routing, Distance, ToolSelector, TypeOK
  <2>5. ExecutionsLicensed'
    BY <1>0, <1>3, <2>1 DEF GraphInv, ExecutionsLicensed, ToolSelector, TypeOK, history
  <2>6. FailureAnsweredAfterAllRetries' /\ NodesFindWhatTheyNeed'
    BY <1>0, <1>3, <2>1 DEF GraphInv, Routing, FailureAnsweredAfterAllRetries, NodesFindWhatTheyNeed, ToolSelector, TypeOK
  <2>7. QED
    BY <2>2, <2>3, <2>4, <2>5, <2>6 DEF GraphInv
<1>4. CASE ToolExecutor
  <2>1. /\ node = "tool_executor" /\ outcome = "running" /\ node' = (IF toolResult' = "success" THEN "response_generator" ELSE "error_handler")
        /\ steps \in Nat /\ steps' = steps + 1 /\ steps' \in 0..RecursionLimit
        /\ outcome' \in {"running", "replied"}
        /\ (node' = "END" <=> outcome' = "replied") /\ (node' # "END" <=> outcome' = "running")
    BY <1>0, <1>4, RunningStep, ContinueStep DEF ToolExecutor
  <2>2. TypeOK'
    BY <1>0, <1>4, <2>1 DEF GraphInv, NodesFindWhatTheyNeed, Routing, ToolExecutor, TypeOK, Nodes, Contents, Outcomes, history
  <2>3. Routing' /\ EndsAtEnd' /\ RepliesAreValid'
    BY <1>0, <1>4, <2>1 DEF GraphInv, Routing, EndsAtEnd, RepliesAreValid, NodesFindWhatTheyNeed, ToolExecutor, TypeOK
  <2>4. Distance'
    BY <1>0, <1>4, <2>1 DEF GraphInv, Routing, Distance, ToolExecutor, TypeOK
  <2>5. ExecutionsLicensed'
    BY <1>0, <1>4, <2>1 DEF GraphInv, ExecutionsLicensed, ToolExecutor, TypeOK, history
  <2>6. FailureAnsweredAfterAllRetries' /\ NodesFindWhatTheyNeed'
    BY <1>0, <1>4, <2>1 DEF GraphInv, Routing, FailureAnsweredAfterAllRetries, NodesFindWhatTheyNeed, ToolExecutor, TypeOK
  <2>7. QED
    BY <2>2, <2>3, <2>4, <2>5, <2>6 DEF GraphInv
<1>5. CASE ToolExecutorRaises
  BY <1>0, <1>5, RunningStep, AbortStep DEF ToolExecutorRaises
<1>6. CASE ErrorHandler
  <2>1. /\ node = "error_handler" /\ outcome = "running" /\ node' \in {"retry_handler", "response_generator"}
        /\ steps \in Nat /\ steps' = steps + 1 /\ steps' \in 0..RecursionLimit
        /\ outcome' \in {"running", "replied"}
        /\ (node' = "END" <=> outcome' = "replied") /\ (node' # "END" <=> outcome' = "running")
    BY <1>0, <1>6, RunningStep, ContinueStep DEF ErrorHandler
  <2>8. basis' \in Bases
    BY <1>0, <1>6, BasisType DEF ErrorHandler, TypeOK, Nodes
  <2>2. TypeOK'
    BY <1>0, <1>6, <2>1, <2>8
       DEF GraphInv, NodesFindWhatTheyNeed, Routing, ErrorHandler, TypeOK, Nodes, Contents, Outcomes, history
  <2>3. Routing' /\ EndsAtEnd' /\ RepliesAreValid'
    BY <1>0, <1>6, <2>1 DEF GraphInv, Routing, EndsAtEnd, RepliesAreValid, NodesFindWhatTheyNeed, ErrorHandler, TypeOK, Continue
  <2>4. Distance'
    BY <1>0, <1>6, <2>1 DEF GraphInv, Routing, Distance, ErrorHandler, TypeOK, Continue
  <2>5. ExecutionsLicensed'
    BY <1>0, <1>6, <2>1 DEF GraphInv, ExecutionsLicensed, ErrorHandler, TypeOK, history
  <2>6. FailureAnsweredAfterAllRetries' /\ NodesFindWhatTheyNeed'
    BY <1>0, <1>6, <2>1 DEF GraphInv, Routing, FailureAnsweredAfterAllRetries, NodesFindWhatTheyNeed, ErrorHandler, TypeOK, Continue
  <2>7. QED
    BY <2>2, <2>3, <2>4, <2>5, <2>6 DEF GraphInv
<1>7. CASE RetryHandler
  <2>1. /\ node = "retry_handler" /\ outcome = "running" /\ node' = "tool_executor"
        /\ steps \in Nat /\ steps' = steps + 1 /\ steps' \in 0..RecursionLimit
        /\ outcome' \in {"running", "replied"}
        /\ (node' = "END" <=> outcome' = "replied") /\ (node' # "END" <=> outcome' = "running")
    BY <1>0, <1>7, RunningStep, ContinueStep DEF RetryHandler
  <2>2. TypeOK'
    BY <1>0, <1>7, <2>1 DEF GraphInv, NodesFindWhatTheyNeed, Routing, RetryHandler, TypeOK, Nodes, Contents, Outcomes, history
  <2>3. Routing' /\ EndsAtEnd' /\ RepliesAreValid'
    BY <1>0, <1>7, <2>1 DEF GraphInv, Routing, EndsAtEnd, RepliesAreValid, NodesFindWhatTheyNeed, RetryHandler, TypeOK
  <2>4. Distance'
    BY <1>0, <1>7, <2>1 DEF GraphInv, Routing, Distance, RetryHandler, TypeOK
  <2>5. ExecutionsLicensed'
    BY <1>0, <1>7, <2>1 DEF GraphInv, ExecutionsLicensed, RetryHandler, TypeOK, history
  <2>6. FailureAnsweredAfterAllRetries' /\ NodesFindWhatTheyNeed'
    BY <1>0, <1>7, <2>1 DEF GraphInv, Routing, FailureAnsweredAfterAllRetries, NodesFindWhatTheyNeed, RetryHandler, TypeOK
  <2>7. QED
    BY <2>2, <2>3, <2>4, <2>5, <2>6 DEF GraphInv
<1>8. CASE ResponseGenerator
  <2>1. /\ node = "response_generator" /\ outcome = "running" /\ node' = "validator"
        /\ steps \in Nat /\ steps' = steps + 1 /\ steps' \in 0..RecursionLimit
        /\ outcome' \in {"running", "replied"}
        /\ (node' = "END" <=> outcome' = "replied") /\ (node' # "END" <=> outcome' = "running")
    BY <1>0, <1>8, RunningStep, ContinueStep DEF ResponseGenerator
  <2>8. basis' \in Bases
    BY <1>0, <1>8, BasisType DEF ResponseGenerator, TypeOK, Nodes
  <2>2. TypeOK'
    BY <1>0, <1>8, <2>1, <2>8
       DEF GraphInv, NodesFindWhatTheyNeed, Routing, ResponseGenerator, TypeOK, Nodes, Contents, Outcomes, history
  <2>3. Routing' /\ EndsAtEnd' /\ RepliesAreValid'
    BY <1>0, <1>8, <2>1 DEF GraphInv, Routing, EndsAtEnd, RepliesAreValid, NodesFindWhatTheyNeed, ResponseGenerator, TypeOK
  <2>4. Distance'
    BY <1>0, <1>8, <2>1 DEF GraphInv, Routing, Distance, ResponseGenerator, TypeOK
  <2>5. ExecutionsLicensed'
    BY <1>0, <1>8, <2>1 DEF GraphInv, ExecutionsLicensed, ResponseGenerator, TypeOK, history
  <2>6. FailureAnsweredAfterAllRetries' /\ NodesFindWhatTheyNeed'
    BY <1>0, <1>8, <2>1 DEF GraphInv, Routing, FailureAnsweredAfterAllRetries, NodesFindWhatTheyNeed, ResponseGenerator, TypeOK
  <2>7. QED
    BY <2>2, <2>3, <2>4, <2>5, <2>6 DEF GraphInv
<1>9. CASE ModelFails
  BY <1>0, <1>9, RunningStep, AbortStep DEF ModelFails, history
<1>10. CASE Validator
  <2>1. /\ node = "validator" /\ outcome = "running" /\ node' \in {"tool_selector", "END"}
        /\ steps \in Nat /\ steps' = steps + 1 /\ steps' \in 0..RecursionLimit
        /\ outcome' \in {"running", "replied"}
        /\ (node' = "END" <=> outcome' = "replied") /\ (node' # "END" <=> outcome' = "running")
    BY <1>0, <1>10, RunningStep, ContinueStep DEF Validator
  <2>2. TypeOK'
    BY <1>0, <1>10, <2>1 DEF GraphInv, NodesFindWhatTheyNeed, Routing, Validator, TypeOK, Nodes, Contents, Outcomes, history
  <2>3. Routing' /\ EndsAtEnd' /\ RepliesAreValid'
    BY <1>0, <1>10, <2>1 DEF GraphInv, Routing, EndsAtEnd, RepliesAreValid, NodesFindWhatTheyNeed, Validator, TypeOK, Continue
  <2>4. Distance'
    BY <1>0, <1>10, <2>1 DEF GraphInv, Routing, Distance, Validator, TypeOK, Continue
  <2>5. ExecutionsLicensed'
    BY <1>0, <1>10, <2>1 DEF GraphInv, ExecutionsLicensed, Validator, TypeOK, history
  <2>6. FailureAnsweredAfterAllRetries' /\ NodesFindWhatTheyNeed'
    BY <1>0, <1>10, <2>1 DEF GraphInv, Routing, FailureAnsweredAfterAllRetries, NodesFindWhatTheyNeed, Validator, TypeOK, Continue
  <2>7. QED
    BY <2>2, <2>3, <2>4, <2>5, <2>6 DEF GraphInv
<1>11. CASE RecursionError
  BY <1>0, <1>11, AbortStep DEF RecursionError, history, TypeOK
<1>12. CASE UNCHANGED vars
  <2>1. TypeOK' /\ Routing' /\ Distance' /\ EndsAtEnd' /\ RepliesAreValid'
    BY <1>12 DEF GraphInv, vars, state, history, TypeOK, Routing, Distance, EndsAtEnd, RepliesAreValid
  <2>2. ExecutionsLicensed' /\ FailureAnsweredAfterAllRetries' /\ NodesFindWhatTheyNeed'
    BY <1>12 DEF GraphInv, vars, state, history, ExecutionsLicensed, FailureAnsweredAfterAllRetries,
                 NodesFindWhatTheyNeed
  <2>3. QED
    BY <2>1, <2>2 DEF GraphInv
<1>13. QED
  BY <1>1, <1>2, <1>3, <1>4, <1>5, <1>6, <1>7, <1>8, <1>9, <1>10, <1>11, <1>12 DEF Next

LEMMA GraphInvariant == Spec => []GraphInv
<1>1. GraphInv /\ [Next]_vars => GraphInv'
  BY GraphStep
<1>2. QED
  BY <1>1, GraphInit, PTL DEF Spec

\* Every turn's state stays in range: at most MaxToolRetries retries and
\* RecursionLimit nodes.
THEOREM GraphTypeCorrect == Spec => []TypeOK
<1>1. GraphInv => TypeOK
  BY DEF GraphInv
<1>2. QED
  BY <1>1, GraphInvariant, PTL

\* No tool is executed without a selection or a retry of its own.
THEOREM ExecutionsAlwaysLicensed == Spec => []ExecutionsLicensed
<1>1. GraphInv => ExecutionsLicensed
  BY DEF GraphInv
<1>2. QED
  BY <1>1, GraphInvariant, PTL

\* The user hears of a failed tool only after all retries.
THEOREM FailuresAreRetriedFirst == Spec => []FailureAnsweredAfterAllRetries
<1>1. GraphInv => FailureAnsweredAfterAllRetries
  BY DEF GraphInv
<1>2. QED
  BY <1>1, GraphInvariant, PTL

\* The executor's assertion never fails and the apology of error_handler is
\* unreachable.
THEOREM NodesAlwaysFindWhatTheyNeed == Spec => []NodesFindWhatTheyNeed
<1>1. GraphInv => NodesFindWhatTheyNeed
  BY DEF GraphInv
<1>2. QED
  BY <1>1, GraphInvariant, PTL

\* A turn without exceptions ends in a reply that passes validation.
THEOREM RepliesAlwaysValid == Spec => []RepliesAreValid
<1>1. GraphInv => RepliesAreValid
  BY DEF GraphInv
<1>2. QED
  BY <1>1, GraphInvariant, PTL

\* Without a failed validation no turn runs more than 6 + 3 * MaxToolRetries
\* nodes before its last.
THEOREM FirstPassAlwaysFits == Spec => []FirstPassFitsBudget
<1>1. GraphInv => FirstPassFitsBudget
  <2>. SUFFICES ASSUME GraphInv, outcome = "running", errors = {}
                PROVE  steps <= 6 + 3 * MaxToolRetries
    BY DEF FirstPassFitsBudget
  <2>1. node \in Nodes /\ retryCount \in 0..MaxToolRetries /\ steps \in Nat
    BY DEF GraphInv, TypeOK, EndsAtEnd
  <2>2. node \in {"error_handler", "retry_handler", "tool_executor"}
           => 3 * retryCount <= 3 * MaxToolRetries
    BY <2>1, LimitsAssumption
  <2>3. CASE node = "retry_handler"
    BY <2>1, <2>2, <2>3, LimitsAssumption DEF GraphInv, Distance
  <2>4. CASE node # "retry_handler"
    BY <2>1, <2>2, <2>4, LimitsAssumption DEF GraphInv, Distance, Nodes
  <2>5. QED
    BY <2>3, <2>4
<1>2. QED
  BY <1>1, GraphInvariant, PTL

\* A tool that has succeeded runs again only to replace an invalid reply.
THEOREM SuccessIsNotRepeated == Spec => SuccessIsRepeatedOnlyForInvalidReply
<1>1. GraphInv /\ [Next]_vars
        => [executions' # executions /\ toolResult = "success" => errors # {}]_vars
  <2>. SUFFICES ASSUME GraphInv, [Next]_vars, executions' # executions, toolResult = "success"
                PROVE  errors # {}
    OBVIOUS
  <2>1. node = "tool_executor"
    BY DEF Next, ContentFilter, Planner, ToolSelector, ToolExecutor, ToolExecutorRaises, ErrorHandler,
           RetryHandler, ResponseGenerator, ModelFails, Validator, RecursionError, Running,
           vars, history
  <2>2. QED
    BY <2>1 DEF GraphInv, Routing
<1>2. QED
  BY <1>1, GraphInvariant, PTL DEF Spec, SuccessIsRepeatedOnlyForInvalidReply

-----------------------------------------------------------------------------
(* A turn over its tools                                                   *)

StackTypes ==
    /\ phase \in [Executions -> Stack!Phases]
    /\ call \in [Executions -> ToolCalls]
    /\ result \in [Executions -> {"none", "success", "failure"}]
    /\ holder \in [Stack!Keys -> Executions \cup {0}]
    /\ performed \in [Executions -> Nat]

\* A turn runs its executions one after the other: one that has begun and has not
\* been returned is the current one, and it runs the selected tool.
OneAtATime ==
    /\ executions <= steps
    /\ \A c \in Executions :
          c > executions /\ phase[c] # "new" =>
              /\ c = Current
              /\ node = "tool_executor" /\ outcome = "running" /\ steps < RecursionLimit
              /\ call[c] = selected
              /\ phase[c] # "raised" => selected.tool \in Tools

\* What an execution has at each of its places, and an entry of the cache.
ExecutionFits(c) ==
    /\ phase[c] \in {"answered", "storing", "done"} <=> result[c] # "none"
    /\ phase[c] = "storing" => result[c] = "success"
    /\ result[c] = "success" /\ Posts(call[c]) => performed[c] > 0

EntryFits(k) ==
    holder[k] # 0 => phase[holder[k]] = "done" /\ result[holder[k]] = "success"

StackInv ==
    /\ StackTypes
    /\ OneAtATime
    /\ \A c \in Executions : ExecutionFits(c)
    /\ \A k \in Stack!Keys : EntryFits(k)

-----------------------------------------------------------------------------

LEMMA TurnInitEstablishes == TurnInit => GraphInv /\ StackInv
<1>. SUFFICES ASSUME TurnInit PROVE GraphInv /\ StackInv
  OBVIOUS
<1>1. GraphInv
  BY GraphInit DEF TurnInit
<1>2. (CHOOSE x \in ToolCalls : TRUE) \in ToolCalls
  BY StackAssumption
<1>3. StackTypes
  BY <1>2 DEF TurnInit, Stack!Init, StackTypes, Stack!Phases
<1>4. QED
  BY <1>1, <1>3 DEF StackInv, OneAtATime, ExecutionFits, EntryFits, TurnInit, Init, Stack!Init

-----------------------------------------------------------------------------
(* A step of the current execution                                         *)

OthersKeep ==
    \A d \in Executions \ {Current} :
        /\ phase'[d] = phase[d] /\ call'[d] = call[d]
        /\ result'[d] = result[d] /\ performed'[d] = performed[d]

CurrentMoves ==
    /\ phase[Current] # "done" /\ phase'[Current] # "new"
    /\ call'[Current] = selected
    /\ phase'[Current] # "raised" => selected.tool \in Tools
    /\ result[Current] # "none" => result'[Current] = result[Current]

LEMMA ExecutingFacts ==
    ASSUME GraphInv, StackInv, Executing
    PROVE  /\ Current \in Executions /\ Current > executions
           /\ selected \in ToolCalls
           /\ StackTypes /\ ExecutionFits(Current)
<1>1. executions \in Nat /\ steps \in 0..RecursionLimit /\ executions <= steps
  BY DEF GraphInv, TypeOK, StackInv, OneAtATime
<1>2. Current \in Executions /\ Current > executions
  BY <1>1, LimitsAssumption DEF Executing, Current, Executions
<1>3. selected \in ToolCalls
  BY DEF GraphInv, TypeOK, NodesFindWhatTheyNeed, Executing
<1>4. QED
  BY <1>2, <1>3 DEF StackInv

LEMMA StartMoves ==
    ASSUME GraphInv, StackInv, StartTool
    PROVE  /\ StackTypes' /\ OthersKeep /\ CurrentMoves
           /\ ExecutionFits(Current)' /\ holder' = holder
<1>1. Current \in Executions /\ selected \in ToolCalls /\ StackTypes /\ ExecutionFits(Current)
  BY ExecutingFacts DEF StartTool
<1>2. phase[Current] = "new" /\ call'[Current] = selected /\ UNCHANGED <<result, holder, performed>>
  BY DEF StartTool, Stack!Begin, Stack!cache, Stack!service
<1>3. PICK x \in ToolCalls : call' = [call EXCEPT ![Current] = x]
  BY DEF StartTool, Stack!Begin
<1>4. phase' = [phase EXCEPT ![Current] = "admitted"] \/ phase' = [phase EXCEPT ![Current] = "raised"]
  BY DEF StartTool, Stack!Begin, Stack!GoesTo
<1>5. StackTypes'
  BY <1>1, <1>2, <1>3, <1>4 DEF StackTypes, Stack!Phases
<1>6. OthersKeep /\ CurrentMoves
  BY <1>1, <1>2, <1>3, <1>4 DEF OthersKeep, CurrentMoves, StackTypes, StartTool
<1>7. executions' = executions
  BY DEF StartTool, vars, history
<1>8. ExecutionFits(Current)'
  BY <1>1, <1>2, <1>4, <1>7 DEF ExecutionFits, StackTypes, Current
<1>9. QED
  BY <1>2, <1>5, <1>6, <1>8

\* What all steps of the stack below have in common.
LEMMA RunningFacts ==
    ASSUME GraphInv, StackInv, Executing, phase[Current] \notin {"new", "raised"}
    PROVE  call[Current] = selected /\ selected.tool \in Tools
BY ExecutingFacts DEF StackInv, OneAtATime

\* Result, phase and effect of a step of the plugin or the cache, and what follows.
LEMMA MoveFollows ==
    ASSUME GraphInv, StackInv, Executing, UNCHANGED <<vars, call>>,
           phase[Current] \notin {"new", "raised", "done"},
           NEW p \in {"missed", "trying", "answered", "storing", "done", "raised"},
           phase' = [phase EXCEPT ![Current] = p],
           NEW r \in {"none", "success", "failure"},
           result' = [result EXCEPT ![Current] = r],
           NEW n \in Nat, performed' = [performed EXCEPT ![Current] = n],
           result[Current] # "none" => r = result[Current],
           p \in {"answered", "storing", "done"} <=> r # "none",
           p = "storing" => r = "success",
           r = "success" /\ Posts(call[Current]) => n > 0,
           holder' \in [Stack!Keys -> Executions \cup {0}]
    PROVE  StackTypes' /\ OthersKeep /\ CurrentMoves /\ ExecutionFits(Current)'
<1>1. Current \in Executions /\ StackTypes
  BY ExecutingFacts
<1>2. call[Current] = selected /\ selected.tool \in Tools
  BY RunningFacts
<1>3. Executions' = Executions /\ Current' = Current
  BY DEF Executions, Current, vars, history
<1>4. StackTypes'
  BY <1>1, <1>3 DEF StackTypes, Stack!Phases
<1>5. OthersKeep /\ CurrentMoves
  BY <1>1, <1>2 DEF OthersKeep, CurrentMoves, StackTypes
<1>6. ExecutionFits(Current)'
  BY <1>1, <1>3 DEF ExecutionFits, StackTypes
<1>7. QED
  BY <1>4, <1>5, <1>6

LEMMA RunMoves ==
    ASSUME GraphInv, StackInv, RunTool
    PROVE  /\ StackTypes' /\ OthersKeep /\ CurrentMoves
           /\ ExecutionFits(Current)'
           /\ \A k \in Stack!Keys :
                 \/ holder'[k] = holder[k]
                 \/ (holder'[k] = Current /\ phase'[Current] = "done" /\ result[Current] = "success")
<1>. DEFINE c == Current
<1>1. Executing /\ UNCHANGED vars
  BY DEF RunTool
<1>2. c \in Executions /\ StackTypes /\ ExecutionFits(c)
  BY <1>1, ExecutingFacts
<1>3. /\ result[c] \in {"none", "success", "failure"} /\ performed[c] \in Nat
      /\ result = [result EXCEPT ![c] = result[c]]
      /\ performed = [performed EXCEPT ![c] = performed[c]]
      /\ holder \in [Stack!Keys -> Executions \cup {0}]
      /\ call[c] \in ToolCalls
  BY <1>2 DEF StackTypes
<1>. HIDE DEF c
<1>4. CASE Stack!Hit(c)
  <2>. DEFINE r == result[holder[Stack!Key(c)]]
  <2>1. Stack!Key(c) \in Stack!Keys
    BY <1>3 DEF Stack!Key, Stack!Keys
  <2>2. r = "success"
    BY <1>4, <2>1 DEF Stack!Hit, StackInv, EntryFits
  <2>3. ~Posts(call[c])
    BY <1>3, <1>4, WritesAssumption DEF Stack!Hit
  <2>4. /\ phase[c] = "admitted" /\ UNCHANGED <<call, performed, holder>>
        /\ phase' = [phase EXCEPT ![c] = "done"]
        /\ result' = [result EXCEPT ![c] = r]
    BY <1>4 DEF Stack!Hit, Stack!GoesTo, Stack!cache, Stack!service
  <2>. HIDE DEF r
  <2>5. result[c] = "none"
    BY <1>2, <2>4 DEF ExecutionFits, c
  <2>6. StackTypes' /\ OthersKeep /\ CurrentMoves /\ ExecutionFits(Current)'
    BY <1>1, <1>3, <2>2, <2>3, <2>4, <2>5, MoveFollows DEF c
  <2>7. QED
    BY <2>4, <2>6
<1>5. CASE Stack!Miss(c) \/ Stack!CircuitRefuses(c)
  <2>1. /\ phase[c] \in {"admitted", "missed"} /\ UNCHANGED <<call, performed, holder, result>>
        /\ \/ phase' = [phase EXCEPT ![c] = "missed"]
           \/ phase' = [phase EXCEPT ![c] = "raised"]
    BY <1>5 DEF Stack!Miss, Stack!CircuitRefuses, Stack!GoesTo, Stack!cache, Stack!service
  <2>2. result[c] = "none"
    BY <1>2, <2>1 DEF ExecutionFits, c
  <2>3. StackTypes' /\ OthersKeep /\ CurrentMoves /\ ExecutionFits(Current)'
    BY <1>1, <1>3, <2>1, <2>2, MoveFollows DEF c
  <2>4. QED
    BY <2>1, <2>3
<1>6. CASE Stack!Answer(c)
  <2>1. /\ phase[c] = "missed" /\ UNCHANGED <<call, performed, holder>>
        /\ phase' = [phase EXCEPT ![c] = "answered"]
        /\ result' = [result EXCEPT ![c] = PluginAnswer(call[c])]
    BY <1>6 DEF Stack!Answer, Stack!Returns, Stack!GoesTo, Stack!cache, Stack!service
  <2>2. PluginAnswer(call[c]) \in {"success", "failure"} /\ ~Posts(call[c])
    BY <1>3, <1>6, StackAssumption, WritesAssumption DEF Stack!Answer
  <2>3. result[c] = "none"
    BY <1>2, <2>1 DEF ExecutionFits, c
  <2>4. StackTypes' /\ OthersKeep /\ CurrentMoves /\ ExecutionFits(Current)'
    BY <1>1, <1>3, <2>1, <2>2, <2>3, MoveFollows DEF c
  <2>5. QED
    BY <2>1, <2>4
<1>7. CASE Stack!Respond(c)
  <2>. DEFINE n == IF Posts(call[c]) THEN performed[c] + 1 ELSE performed[c]
  <2>1. /\ phase[c] \in {"missed", "trying"} /\ UNCHANGED <<call, holder>>
        /\ phase' = [phase EXCEPT ![c] = "answered"]
        /\ performed' = [performed EXCEPT ![c] = n]
    BY <1>7 DEF Stack!Respond, Stack!Returns, Stack!GoesTo, Stack!Send, Stack!cache
  <2>2. PICK r \in {"success", "failure"} : result' = [result EXCEPT ![c] = r]
    BY <1>7 DEF Stack!Respond, Stack!Returns
  <2>3. n \in Nat /\ (Posts(call[c]) => n > 0)
    BY <1>3
  <2>. HIDE DEF n
  <2>4. result[c] = "none"
    BY <1>2, <2>1 DEF ExecutionFits, c
  <2>5. StackTypes' /\ OthersKeep /\ CurrentMoves /\ ExecutionFits(Current)'
    BY <1>1, <1>3, <2>1, <2>2, <2>3, <2>4, MoveFollows DEF c
  <2>6. QED
    BY <2>1, <2>5
<1>8. CASE Stack!AttemptFails(c)
  <2>1. PICK acts \in BOOLEAN : Stack!Send(c, acts)
    BY <1>8 DEF Stack!AttemptFails
  <2>. DEFINE n == IF acts /\ Posts(call[c]) THEN performed[c] + 1 ELSE performed[c]
  <2>2. /\ phase[c] \in {"missed", "trying"} /\ UNCHANGED <<call, holder>>
        /\ performed' = [performed EXCEPT ![c] = n]
    BY <2>1 DEF Stack!Send, Stack!cache
  <2>3. n \in Nat
    BY <1>3
  <2>. HIDE DEF n
  <2>4. result[c] = "none"
    BY <1>2, <2>2 DEF ExecutionFits, c
  <2>5. \/ phase' = [phase EXCEPT ![c] = "trying"] /\ UNCHANGED result
        \/ phase' = [phase EXCEPT ![c] = "answered"] /\ result' = [result EXCEPT ![c] = "failure"]
    BY <1>8 DEF Stack!AttemptFails, Stack!Returns, Stack!GoesTo
  <2>6. StackTypes' /\ OthersKeep /\ CurrentMoves /\ ExecutionFits(Current)'
    BY <1>1, <1>3, <2>2, <2>3, <2>4, <2>5, MoveFollows DEF c
  <2>7. QED
    BY <2>2, <2>6
<1>9. CASE Stack!Report(c)
  <2>1. /\ phase[c] = "answered" /\ UNCHANGED <<call, performed, holder, result>>
        /\ \/ phase' = [phase EXCEPT ![c] = "storing"] /\ result[c] = "success"
           \/ phase' = [phase EXCEPT ![c] = "done"]
    BY <1>9 DEF Stack!Report, Stack!GoesTo, Stack!cache, Stack!service
  <2>2. result[c] # "none" /\ (result[c] = "success" /\ Posts(call[c]) => performed[c] > 0)
    BY <1>2, <2>1 DEF ExecutionFits, c
  <2>3. StackTypes' /\ OthersKeep /\ CurrentMoves /\ ExecutionFits(Current)'
    BY <1>1, <1>3, <2>1, <2>2, MoveFollows DEF c
  <2>4. QED
    BY <2>1, <2>3
<1>10. CASE Stack!Store(c)
  <2>1. /\ phase[c] = "storing" /\ UNCHANGED <<call, performed, result>>
        /\ phase' = [phase EXCEPT ![c] = "done"]
        /\ holder' = [holder EXCEPT ![Stack!Key(c)] = c] \/ UNCHANGED holder
    BY <1>10 DEF Stack!Store, Stack!GoesTo, Stack!cache, Stack!service
  <2>2. /\ result[c] = "success"
        /\ result[c] = "success" /\ Posts(call[c]) => performed[c] > 0
    BY <1>2, <2>1 DEF ExecutionFits, c
  <2>3. phase'[c] = "done"
    BY <1>2, <2>1 DEF StackTypes
  <2>4. holder' \in [Stack!Keys -> Executions \cup {0}]
    BY <1>2, <1>3, <2>1
  <2>5. StackTypes' /\ OthersKeep /\ CurrentMoves /\ ExecutionFits(Current)'
    BY <1>1, <1>3, <2>1, <2>2, <2>4, MoveFollows DEF c
  <2>6. \A k \in Stack!Keys : holder'[k] = holder[k] \/ holder'[k] = c
    BY <1>3, <2>1
  <2>7. QED
    BY <2>2, <2>3, <2>5, <2>6 DEF c
<1>11. QED
  BY <1>4, <1>5, <1>6, <1>7, <1>8, <1>9, <1>10 DEF RunTool, c

-----------------------------------------------------------------------------
(* Every step                                                              *)

LEMMA StackMovesKeep ==
    ASSUME GraphInv, StackInv, StartTool \/ RunTool
    PROVE  StackInv'
<1>1. Executing /\ UNCHANGED vars
  BY DEF StartTool, RunTool
<1>2. /\ StackTypes' /\ OthersKeep /\ CurrentMoves /\ ExecutionFits(Current)'
      /\ \A k \in Stack!Keys :
            \/ holder'[k] = holder[k]
            \/ (holder'[k] = Current /\ phase'[Current] = "done" /\ result[Current] = "success")
  BY StartMoves, RunMoves
<1>3. Current \in Executions /\ Current > executions /\ StackTypes
  BY <1>1, ExecutingFacts
<1>4. /\ Current' = Current /\ executions' = executions /\ selected' = selected /\ node' = node
      /\ steps' = steps /\ outcome' = outcome
  BY <1>1 DEF Current, vars, history, state
<1>5. OneAtATime'
  <2>1. executions <= steps
    BY DEF StackInv, OneAtATime
  <2>2. ASSUME NEW d \in Executions, d > executions, phase'[d] # "new"
        PROVE  d = Current
    BY <1>2, <2>2 DEF OthersKeep, StackInv, OneAtATime
  <2>3. QED
    BY <1>1, <1>2, <1>4, <2>1, <2>2 DEF OneAtATime, CurrentMoves, Executing
<1>6. ASSUME NEW d \in Executions PROVE ExecutionFits(d)'
  <2>1. CASE d = Current
    BY <1>2, <1>4, <2>1 DEF ExecutionFits
  <2>2. CASE d # Current
    BY <1>2, <2>2 DEF OthersKeep, ExecutionFits, StackInv
  <2>3. QED
    BY <2>1, <2>2
<1>7. ASSUME NEW k \in Stack!Keys PROVE EntryFits(k)'
  <2>1. CASE holder'[k] = holder[k]
    <3>1. holder[k] # 0 => holder[k] \in Executions \ {Current}
      BY <1>2, <1>3 DEF StackInv, EntryFits, StackTypes, CurrentMoves
    <3>2. QED
      BY <1>2, <2>1, <3>1 DEF StackInv, EntryFits, OthersKeep
  <2>2. CASE holder'[k] = Current /\ phase'[Current] = "done" /\ result[Current] = "success"
    BY <1>2, <2>2 DEF CurrentMoves, EntryFits
  <2>3. QED
    BY <1>2, <2>1, <2>2
<1>8. QED
  BY <1>2, <1>5, <1>6, <1>7 DEF StackInv

LEMMA NodeKeepsStack ==
    ASSUME GraphInv, StackInv, RunNode
    PROVE  StackInv'
<1>1. UNCHANGED stack /\ executions' = executions /\ (steps' = steps \/ steps' = steps + 1)
  BY DEF RunNode, ContentFilter, Planner, ToolSelector, ErrorHandler, RetryHandler,
         ResponseGenerator, ModelFails, Validator, RecursionError, Running, history
<1>2. node # "tool_executor" \/ steps = RecursionLimit
  BY DEF RunNode, ContentFilter, Planner, ToolSelector, ErrorHandler, RetryHandler,
         ResponseGenerator, ModelFails, Validator, RecursionError, Running
<1>3. executions \in Nat /\ steps \in Nat /\ steps <= RecursionLimit
  BY LimitsAssumption DEF GraphInv, TypeOK
<1>4. \A c \in Executions : c > executions => phase[c] = "new"
  BY <1>2, <1>3 DEF StackInv, OneAtATime
<1>5. OneAtATime'
  BY <1>1, <1>3, <1>4 DEF OneAtATime, stack, StackInv
<1>6. QED
  BY <1>1, <1>5 DEF StackInv, StackTypes, ExecutionFits, EntryFits, stack

LEMMA EndKeepsStack ==
    ASSUME GraphInv, StackInv, ReturnResult \/ RaiseError
    PROVE  StackInv'
<1>1. /\ UNCHANGED stack /\ executions' = executions + 1 /\ steps' = steps + 1
      /\ outcome = "running" /\ node = "tool_executor" /\ steps < RecursionLimit
  BY DEF ReturnResult, RaiseError, Running
<1>2. executions \in Nat /\ steps \in Nat
  BY LimitsAssumption DEF GraphInv, TypeOK
<1>3. \A c \in Executions : c > executions + 1 => phase[c] = "new"
  BY <1>2 DEF StackInv, OneAtATime, Current, Executions
<1>4. OneAtATime'
  BY <1>1, <1>2, <1>3 DEF OneAtATime, stack, StackInv, Executions
<1>5. QED
  BY <1>1, <1>4 DEF StackInv, StackTypes, ExecutionFits, EntryFits, stack

LEMMA TickKeepsStack ==
    ASSUME StackInv, Stack!Tick, UNCHANGED vars
    PROVE  StackInv'
<1>1. UNCHANGED <<phase, call, result, performed>>
  BY DEF Stack!Tick, Stack!service
<1>2. holder' = [k \in Stack!Keys |-> IF expiry[k] <= now' THEN 0 ELSE holder[k]]
  BY DEF Stack!Tick
<1>3. StackTypes'
  BY <1>1, <1>2 DEF StackInv, StackTypes
<1>4. \A k \in Stack!Keys : EntryFits(k)'
  BY <1>1, <1>2 DEF StackInv, EntryFits
<1>5. OneAtATime' /\ \A c \in Executions : ExecutionFits(c)'
  BY <1>1 DEF StackInv, OneAtATime, ExecutionFits, Current, vars, state, history
<1>6. QED
  BY <1>3, <1>4, <1>5 DEF StackInv

\* The executor's result is one that the abstract node may return.
LEMMA TurnMapsToGraph ==
    ASSUME GraphInv, StackInv, [TurnNext]_turnVars
    PROVE  [Next]_vars
<1>1. CASE RunNode
  BY <1>1 DEF RunNode, Next
<1>2. CASE StartTool \/ RunTool
  BY <1>2 DEF StartTool, RunTool
<1>3. CASE ReturnResult
  <2>1. Executing /\ phase[Current] = "done"
    BY <1>3 DEF ReturnResult, Running, Executing
  <2>2. Current \in Executions /\ selected \in ToolCalls /\ StackTypes /\ ExecutionFits(Current)
    BY <2>1, ExecutingFacts
  <2>3. selected.tool \in Tools /\ result[Current] \in {"success", "failure"}
    BY <2>1, <2>2, RunningFacts, ExecutingFacts DEF StackInv, OneAtATime, ExecutionFits, StackTypes
  <2>4. selected # NoTool
    BY <2>2, NamesAssumption
  <2>5. ToolExecutor
    BY <1>3, <2>3, <2>4 DEF ReturnResult, ToolExecutor
  <2>6. QED
    BY <2>5 DEF Next
<1>4. CASE RaiseError
  BY <1>4 DEF RaiseError, ToolExecutorRaises, Next
<1>5. CASE UNCHANGED vars
  BY <1>5
<1>6. QED
  BY <1>1, <1>2, <1>3, <1>4, <1>5 DEF TurnNext, TurnStep, turnVars

LEMMA TurnStepKeeps ==
    ASSUME GraphInv, StackInv, [TurnNext]_turnVars
    PROVE  GraphInv' /\ StackInv'
<1>1. GraphInv'
  BY TurnMapsToGraph, GraphStep
<1>2. CASE UNCHANGED turnVars
  BY <1>1, <1>2 DEF turnVars, stack, vars, state, history, StackInv, StackTypes, OneAtATime,
              ExecutionFits, EntryFits, Current
<1>3. CASE TurnNext
  BY <1>1, <1>3, StackMovesKeep, NodeKeepsStack, EndKeepsStack, TickKeepsStack DEF TurnNext, TurnStep
<1>4. QED
  BY <1>1, <1>2, <1>3

LEMMA TurnInvariant == TurnSpec => [](GraphInv /\ StackInv)
<1>1. GraphInv /\ StackInv /\ [TurnNext]_turnVars => GraphInv' /\ StackInv'
  BY TurnStepKeeps
<1>2. QED
  BY <1>1, TurnInitEstablishes, PTL DEF TurnSpec

-----------------------------------------------------------------------------

\* The executor with its cache, breaker, plugin and attempts does to the turn what
\* the single step of AgentGraph allows: a turn over its tools is one of the graph.
THEOREM TurnImplementsGraph == TurnSpec => ImplementsAgentGraph
<1>1. TurnInit => Init
  BY DEF TurnInit
<1>2. GraphInv /\ StackInv /\ [TurnNext]_turnVars => [Next]_vars
  BY TurnMapsToGraph
<1>3. QED
  BY <1>1, <1>2, TurnInvariant, PTL DEF TurnSpec, Spec, ImplementsAgentGraph

\* What was proved of the graph holds of every turn over its tools.
THEOREM TurnKeepsGraphProperties ==
    TurnSpec => /\ []TypeOK
                /\ []ExecutionsLicensed
                /\ []FailureAnsweredAfterAllRetries
                /\ []NodesFindWhatTheyNeed
                /\ []RepliesAreValid
                /\ []FirstPassFitsBudget
                /\ SuccessIsRepeatedOnlyForInvalidReply
BY TurnImplementsGraph, GraphTypeCorrect, ExecutionsAlwaysLicensed, FailuresAreRetriedFirst,
   NodesAlwaysFindWhatTheyNeed, RepliesAlwaysValid, FirstPassAlwaysFits, SuccessIsNotRepeated,
   PTL DEF ImplementsAgentGraph

-----------------------------------------------------------------------------
(* What holds of the stack holds in a turn.  The theorems of module         *)
(* ToolExecutionProofs that are used say nothing of nested values.          *)

Tool == INSTANCE ToolExecutionProofs
            WITH Calls <- ToolCalls, NoExecution <- 0,
                 Values <- {}, Nesting <- LAMBDA v : 0, Double <- LAMBDA n : n

LEMMA TurnMapsToStack ==
    ASSUME GraphInv, StackInv, [TurnNext]_turnVars
    PROVE  [Stack!Next]_(Stack!vars)
<1>1. CASE UNCHANGED stack
  BY <1>1 DEF stack, Stack!vars, Stack!cache, Stack!service
<1>2. CASE StartTool \/ RunTool
  <2>1. Current \in Executions
    BY <1>2, ExecutingFacts DEF StartTool, RunTool
  <2>2. QED
    BY <1>2, <2>1 DEF StartTool, RunTool, Stack!Next
<1>3. CASE Stack!Tick
  BY <1>3 DEF Stack!Next
<1>4. QED
  BY <1>1, <1>2, <1>3 DEF TurnNext, TurnStep, RunNode, ReturnResult, RaiseError, turnVars

\* A turn runs the stack as module ToolExecution lets any executions run: the turn
\* takes no step of its own in the cache, the plugin or the HTTP client.
THEOREM TurnImplementsStack == TurnSpec => Stack!Spec
<1>1. TurnInit => Stack!Init
  BY DEF TurnInit
<1>2. GraphInv /\ StackInv /\ [TurnNext]_turnVars => [Stack!Next]_(Stack!vars)
  BY TurnMapsToStack
<1>3. QED
  BY <1>1, <1>2, TurnInvariant, PTL DEF TurnSpec, Stack!Spec

LEMMA StackStepIsTool == [Stack!Next]_(Stack!vars) => [Tool!Next]_(Tool!vars)
<1>1. Stack!Tick => Tool!Tick
  BY DEF Tool!cache, Tool!service, Stack!cache, Stack!service, Tool!Tick, Stack!Tick,
         Tool!Keys, Stack!Keys
<1>2. ASSUME NEW c \in Executions
      PROVE  /\ Stack!Begin(c) => Tool!Begin(c)
             /\ Stack!Hit(c) => Tool!Hit(c)
             /\ Stack!Miss(c) => Tool!Miss(c)
             /\ Stack!CircuitRefuses(c) => Tool!CircuitRefuses(c)
             /\ Stack!Answer(c) => Tool!Answer(c)
             /\ Stack!Respond(c) => Tool!Respond(c)
             /\ Stack!AttemptFails(c) => Tool!AttemptFails(c)
             /\ Stack!Report(c) => Tool!Report(c)
             /\ Stack!Store(c) => Tool!Store(c)
             /\ Stack!Die(c) => Tool!Die(c)
  BY DEF Tool!cache, Tool!service, Stack!cache, Stack!service, Tool!Key, Stack!Key,
         Tool!GoesTo, Stack!GoesTo, Tool!Returns, Stack!Returns, Tool!Send, Stack!Send,
         Tool!Begin, Stack!Begin, Tool!Hit, Stack!Hit, Tool!Miss, Stack!Miss,
         Tool!CircuitRefuses, Stack!CircuitRefuses, Tool!Answer, Stack!Answer,
         Tool!Respond, Stack!Respond, Tool!AttemptFails, Stack!AttemptFails,
         Tool!Report, Stack!Report, Tool!Store, Stack!Store, Tool!Die, Stack!Die,
         Tool!InProgress, Stack!InProgress
<1>3. ASSUME NEW c \in Executions,
             \/ Stack!Begin(c) \/ Stack!Hit(c) \/ Stack!Miss(c) \/ Stack!CircuitRefuses(c)
             \/ Stack!Answer(c) \/ Stack!Respond(c) \/ Stack!AttemptFails(c)
             \/ Stack!Report(c) \/ Stack!Store(c) \/ Stack!Die(c)
      PROVE  Tool!Next
  BY <1>2, <1>3 DEF Tool!Next
<1>4. Stack!Next => Tool!Next
  BY <1>1, <1>3 DEF Tool!Next, Stack!Next
<1>5. QED
  BY <1>4 DEF Tool!vars, Tool!cache, Tool!service, Stack!vars, Stack!cache, Stack!service

LEMMA TurnKeepsTools == TurnSpec => []Tool!ToolsInv
<1>1. Tool!ExecutionsAssumption /\ Tool!TroublesAssumption /\ Tool!CallsAssumption
  BY StackAssumption, LimitsAssumption
     DEF Tool!ExecutionsAssumption, Tool!TroublesAssumption, Tool!CallsAssumption, Executions
<1>2. Tool!ValuesAssumption
  BY DEF Tool!ValuesAssumption
<1>3. Stack!Init => Tool!Init
  BY DEF Tool!Init, Stack!Init, Tool!Keys, Stack!Keys
<1>4. Tool!Init => Tool!ToolsInv
  BY <1>1, <1>2, Tool!InitEstablishes
<1>5. Tool!ToolsInv /\ [Tool!Next]_(Tool!vars) => Tool!ToolsInv'
  BY <1>1, <1>2, Tool!NextKeeps
<1>6. QED
  BY <1>3, <1>4, <1>5, StackStepIsTool, TurnImplementsStack, PTL DEF Stack!Spec

\* Within a turn too, the cache answers with successes of the same key for one TTL, and
\* a write that succeeds has been performed for that very execution.
THEOREM TurnKeepsToolProperties ==
    TurnSpec => [](Stack!AnswersBelong /\ Stack!AnswersExpire /\ Stack!WritesReachService)
<1>1. Tool!ToolsInv => Stack!AnswersBelong /\ Stack!AnswersExpire
  BY DEF Tool!ToolsInv, Tool!ExecutionFits, Tool!CachedAnswerFits, Tool!Cachable,
         Stack!AnswersBelong, Stack!AnswersExpire, Stack!FromCache, Stack!Done
<1>2. Tool!ToolsInv => Stack!WritesReachService
  BY WritesAssumption, StackAssumption
     DEF Tool!ToolsInv, Tool!TypeOK, Tool!ExecutionFits, Tool!Progress, Tool!CachedAnswerFits,
         Tool!OwnAnswerFits, Tool!Cachable, Stack!WritesReachService, Stack!Done
<1>3. QED
  BY <1>1, <1>2, TurnKeepsTools, PTL

-----------------------------------------------------------------------------
(* A turn counts down                                                      *)

\* What an execution has still to do, at most.
Remaining(c) ==
    CASE phase[c] = "new" -> MaxAttempts + 5
      [] phase[c] = "admitted" -> MaxAttempts + 4
      [] phase[c] = "missed" -> MaxAttempts + 3
      [] phase[c] = "trying" -> MaxAttempts + 3 - attempts[c]
      [] phase[c] = "answered" -> 2
      [] phase[c] = "storing" -> 1
      [] OTHER -> 0

PerNode == MaxAttempts + 6

\* The steps of a turn that may still come, at most.
StepsLeft ==
    IF outcome # "running"
      THEN 0
      ELSE (RecursionLimit - steps) * PerNode + (IF Executing THEN Remaining(Current) ELSE 0) + 1

LEMMA RemainingBounds ==
    ASSUME Tool!ToolsInv, NEW c \in Executions
    PROVE  Remaining(c) \in 0..(MaxAttempts + 5)
<1>1. MaxAttempts \in Nat
  BY StackAssumption
<1>2. attempts[c] \in Nat /\ (phase[c] = "trying" => attempts[c] < MaxAttempts)
  BY DEF Tool!ToolsInv, Tool!TypeOK, Tool!ExecutionFits, Tool!Progress
<1>3. QED
  BY <1>1, <1>2 DEF Remaining

\* A step within an execution takes something off it.
LEMMA ExecutionCountsDown ==
    ASSUME GraphInv, StackInv, Tool!ToolsInv, StartTool \/ RunTool
    PROVE  Remaining(Current)' \in Nat /\ Remaining(Current)' < Remaining(Current)
<1>. DEFINE c == Current
<1>1. Executing /\ UNCHANGED vars
  BY DEF StartTool, RunTool
<1>2. c \in Executions /\ MaxAttempts \in Nat /\ c' = c
  BY <1>1, ExecutingFacts, StackAssumption DEF Current, vars, history
<1>3. /\ attempts[c] \in Nat /\ attempts \in [Executions -> 0..MaxAttempts]
      /\ phase \in [Executions -> Tool!Phases]
      /\ phase[c] = "trying" => attempts[c] < MaxAttempts
  BY <1>2 DEF Tool!ToolsInv, Tool!TypeOK, Tool!ExecutionFits, Tool!Progress
<1>. HIDE DEF c
<1>4. CASE StartTool
  BY <1>2, <1>3, <1>4 DEF StartTool, Stack!Begin, Stack!GoesTo, Remaining, c
<1>5. CASE Stack!Hit(c) \/ Stack!Miss(c) \/ Stack!CircuitRefuses(c)
  BY <1>2, <1>3, <1>5 DEF Stack!Hit, Stack!Miss, Stack!CircuitRefuses, Stack!GoesTo, Remaining, c
<1>6. CASE Stack!Answer(c) \/ Stack!Respond(c)
  BY <1>2, <1>3, <1>6 DEF Stack!Answer, Stack!Respond, Stack!Send, Stack!Returns, Stack!GoesTo,
                          Remaining, c
<1>7. CASE Stack!AttemptFails(c)
  BY <1>2, <1>3, <1>7 DEF Stack!AttemptFails, Stack!Send, Stack!Returns, Stack!GoesTo, Remaining, c
<1>8. CASE Stack!Report(c) \/ Stack!Store(c)
  BY <1>2, <1>3, <1>8 DEF Stack!Report, Stack!Store, Stack!GoesTo, Remaining, c
<1>9. QED
  BY <1>4, <1>5, <1>6, <1>7, <1>8 DEF StartTool, RunTool, c

LEMMA StepsLeftNatural ==
    ASSUME GraphInv, StackInv, Tool!ToolsInv
    PROVE  StepsLeft \in Nat /\ (outcome = "running" => StepsLeft > 0)
<1>1. steps \in 0..RecursionLimit /\ RecursionLimit \in Nat /\ PerNode \in Nat /\ MaxAttempts \in Nat
  BY LimitsAssumption, StackAssumption DEF GraphInv, TypeOK, PerNode
<1>2. (RecursionLimit - steps) * PerNode \in Nat
  BY <1>1
<1>3. Executing => Remaining(Current) \in Nat
  BY <1>1, RemainingBounds, ExecutingFacts
<1>4. QED
  BY <1>2, <1>3 DEF StepsLeft

LEMMA NodeCountsDown ==
    ASSUME GraphInv, StackInv, Tool!ToolsInv, RunNode \/ ReturnResult \/ RaiseError
    PROVE  StepsLeft' \in Nat /\ StepsLeft' < StepsLeft
<1>1. StepsLeft \in Nat /\ StepsLeft > 0 /\ outcome = "running"
  BY StepsLeftNatural DEF RunNode, ContentFilter, Planner, ToolSelector, ErrorHandler, RetryHandler,
         ResponseGenerator, ModelFails, Validator, RecursionError, ReturnResult, RaiseError, Running
<1>2. CASE outcome' # "running"
  BY <1>1, <1>2 DEF StepsLeft
<1>3. CASE outcome' = "running"
  <2>1. UNCHANGED stack /\ steps' = steps + 1 /\ steps < RecursionLimit
    BY <1>3 DEF RunNode, ContentFilter, Planner, ToolSelector, ErrorHandler, RetryHandler,
           ResponseGenerator, ModelFails, Validator, RecursionError, ReturnResult, RaiseError,
           Running, Abort
  <2>2. /\ steps \in Nat /\ RecursionLimit \in Nat /\ MaxAttempts \in Nat
        /\ executions \in Nat /\ executions <= steps
    BY LimitsAssumption, StackAssumption DEF GraphInv, TypeOK, StackInv, OneAtATime
  <2>3. Executing' => executions' = executions
    BY <1>3 DEF Executing, RunNode, ContentFilter, Planner, ToolSelector, ErrorHandler, RetryHandler,
           ResponseGenerator, ModelFails, Validator, RecursionError, ReturnResult, RaiseError,
           Running, Continue, Abort, history
  <2>4. Executing' => Remaining(Current)' \in 0..(MaxAttempts + 5)
    <3>1. SUFFICES ASSUME Executing' PROVE Remaining(Current)' \in 0..(MaxAttempts + 5)
      OBVIOUS
    <3>2. Current \in Executions
      BY <2>1, <2>2 DEF Current, Executions
    <3>3. Remaining(Current)' = Remaining(Current)
      BY <2>1, <2>3, <3>1 DEF Remaining, Current, stack
    <3>4. QED
      BY <3>2, <3>3, RemainingBounds
  <2>5. Executing => Remaining(Current) \in Nat
    BY <2>2, RemainingBounds, ExecutingFacts
  <2>. DEFINE rest == (RecursionLimit - steps') * PerNode
  <2>6. (RecursionLimit - steps) * PerNode = rest + PerNode /\ rest \in Nat
    BY <2>1, <2>2 DEF PerNode
  <2>7. StepsLeft' = rest + (IF Executing' THEN Remaining(Current)' ELSE 0) + 1
    BY <1>3 DEF StepsLeft
  <2>. HIDE DEF rest
  <2>8. StepsLeft = rest + PerNode + (IF Executing THEN Remaining(Current) ELSE 0) + 1
    BY <1>1, <2>6 DEF StepsLeft
  <2>9. StepsLeft >= rest + MaxAttempts + 7
    BY <2>2, <2>5, <2>6, <2>8 DEF PerNode
  <2>10. StepsLeft' <= rest + MaxAttempts + 6 /\ StepsLeft' \in Nat
    BY <2>2, <2>4, <2>6, <2>7
  <2>11. QED
    BY <1>1, <2>2, <2>6, <2>9, <2>10
<1>4. QED
  BY <1>2, <1>3

LEMMA StepCountsDown ==
    ASSUME GraphInv, StackInv, Tool!ToolsInv, [TurnNext]_turnVars
    PROVE  StepsLeft' <= StepsLeft /\ (TurnStep => StepsLeft' < StepsLeft)
<1>1. StepsLeft \in Nat
  BY StepsLeftNatural
<1>2. CASE RunNode \/ ReturnResult \/ RaiseError
  BY <1>1, <1>2, NodeCountsDown
<1>3. CASE StartTool \/ RunTool
  <2>. DEFINE rest == (RecursionLimit - steps) * PerNode
  <2>1. UNCHANGED vars /\ Executing /\ outcome = "running"
    BY <1>3 DEF StartTool, RunTool, Executing
  <2>2. rest' = rest /\ Executing' /\ outcome' = "running"
    BY <2>1 DEF vars, Executing, PerNode
  <2>3. rest \in Nat
    BY LimitsAssumption, StackAssumption DEF GraphInv, TypeOK, PerNode
  <2>4. Remaining(Current) \in Nat
    BY <2>1, RemainingBounds, ExecutingFacts, StackAssumption
  <2>5. Remaining(Current)' \in Nat /\ Remaining(Current)' < Remaining(Current)
    BY <1>3, ExecutionCountsDown
  <2>6. StepsLeft = rest + Remaining(Current) + 1 /\ StepsLeft' = rest' + Remaining(Current)' + 1
    BY <2>1, <2>2 DEF StepsLeft
  <2>. HIDE DEF rest
  <2>7. QED
    BY <2>2, <2>3, <2>4, <2>5, <2>6
<1>4. CASE UNCHANGED vars /\ UNCHANGED <<phase, attempts>> /\ ~TurnStep
  <2>1. StepsLeft' = StepsLeft
    BY <1>4 DEF vars, history, StepsLeft, Executing, Current, Remaining, PerNode
  <2>2. QED
    BY <1>1, <1>4, <2>1
<1>5. QED
  <2>1. CASE TurnStep
    BY <1>2, <1>3, <2>1 DEF TurnStep
  <2>2. CASE ~TurnStep
    BY <1>4, <2>2 DEF TurnNext, turnVars, stack, Stack!Tick, Stack!service
  <2>3. QED
    BY <2>1, <2>2

\* A turn counts down: whatever the model, the tools and the troubles answer, each of
\* its own steps lowers a number that starts at most PerNode times RecursionLimit and
\* one; so it has no more steps than that, and a turn that is never left alone ends.
THEOREM TurnCountsDown ==
    TurnSpec => /\ StepsLeft = RecursionLimit * PerNode + 1
                /\ [](StepsLeft \in Nat /\ (StepsLeft = 0 => outcome # "running"))
                /\ [][StepsLeft' <= StepsLeft /\ (TurnStep => StepsLeft' < StepsLeft)]_turnVars
<1>1. TurnInit => StepsLeft = RecursionLimit * PerNode + 1
  BY LimitsAssumption, StackAssumption DEF TurnInit, Init, StepsLeft, Executing, PerNode
<1>2. GraphInv /\ StackInv /\ Tool!ToolsInv
        => StepsLeft \in Nat /\ (StepsLeft = 0 => outcome # "running")
  BY StepsLeftNatural
<1>3. GraphInv /\ StackInv /\ Tool!ToolsInv /\ [TurnNext]_turnVars
        => [StepsLeft' <= StepsLeft /\ (TurnStep => StepsLeft' < StepsLeft)]_turnVars
  BY StepCountsDown
<1>4. QED
  BY <1>1, <1>2, <1>3, TurnInvariant, TurnKeepsTools, PTL DEF TurnSpec

-----------------------------------------------------------------------------
(* Confirmed writes                                                        *)

\* The current execution may still confirm a write, and a failed one may be repeated.
MayConfirm ==
    /\ outcome = "running"
    /\ \/ node \in {"error_handler", "retry_handler"}
       \/ node = "tool_executor" /\ Current \notin ConfirmedWrites

WritesCounted ==
    Cardinality(ConfirmedWrites) + (IF MayConfirm THEN 1 ELSE 0) <= selections

LEMMA WritesFinite == IsFiniteSet(ConfirmedWrites) /\ Cardinality(ConfirmedWrites) \in Nat
<1>1. IsFiniteSet(Executions)
  BY FS_Interval, LimitsAssumption DEF Executions
<1>2. QED
  BY <1>1, FS_Subset, FS_CardinalityType DEF ConfirmedWrites

LEMMA WritesOfStep ==
    ASSUME GraphInv, StackInv, StartTool \/ RunTool
    PROVE  ConfirmedWrites' \in {ConfirmedWrites, ConfirmedWrites \cup {Current}}
<1>1. /\ OthersKeep /\ CurrentMoves /\ ExecutionFits(Current)' /\ StackTypes
      /\ Current \in Executions
  BY StartMoves, RunMoves, ExecutingFacts DEF StartTool, RunTool
<1>2. \A d \in Executions \ {Current} : d \in ConfirmedWrites' <=> d \in ConfirmedWrites
  BY <1>1 DEF OthersKeep, ConfirmedWrites
<1>3. Current \in ConfirmedWrites => Current \in ConfirmedWrites'
  <2>1. SUFFICES ASSUME Current \in ConfirmedWrites PROVE Current \in ConfirmedWrites'
    OBVIOUS
  <2>2. ExecutionFits(Current) /\ result[Current] = "success"
    BY <1>1, <2>1 DEF StackInv, ConfirmedWrites
  <2>3. phase[Current] \in {"answered", "storing"}
    BY <1>1, <2>2 DEF ExecutionFits, CurrentMoves
  <2>4. call[Current] = selected
    BY <1>1, <2>3, RunningFacts DEF StartTool, RunTool
  <2>5. QED
    BY <1>1, <2>1, <2>2, <2>4 DEF CurrentMoves, ConfirmedWrites
<1>4. QED
  BY <1>1, <1>2, <1>3 DEF ConfirmedWrites

LEMMA WritesStep ==
    ASSUME GraphInv, StackInv, WritesCounted, [TurnNext]_turnVars
    PROVE  WritesCounted'
<1>1. selections \in Nat /\ Cardinality(ConfirmedWrites) \in Nat
  BY WritesFinite DEF GraphInv, TypeOK
<1>2. CASE StartTool \/ RunTool
  <2>1. Executing /\ UNCHANGED vars
    BY <1>2 DEF StartTool, RunTool
  <2>2. /\ selections' = selections /\ outcome' = outcome /\ node' = node
        /\ Current' = Current
    BY <2>1 DEF vars, history, Current
  <2>3. CASE ConfirmedWrites' = ConfirmedWrites
    BY <2>2, <2>3 DEF WritesCounted, MayConfirm
  <2>4. CASE ConfirmedWrites' = ConfirmedWrites \cup {Current} /\ Current \notin ConfirmedWrites
    <3>1. MayConfirm /\ ~MayConfirm'
      BY <2>1, <2>2, <2>4 DEF MayConfirm, Executing
    <3>2. Cardinality(ConfirmedWrites') = Cardinality(ConfirmedWrites) + 1
      BY <2>4, WritesFinite, FS_AddElement
    <3>3. QED
      BY <1>1, <2>2, <3>1, <3>2 DEF WritesCounted
  <2>5. QED
    BY <1>2, <2>3, <2>4, WritesOfStep
<1>3. CASE RunNode
  <2>1. ConfirmedWrites' = ConfirmedWrites
    BY <1>3 DEF RunNode, stack, ConfirmedWrites
  <2>2. CASE ToolSelector
    <3>1. selections' = selections + 1
      BY <2>2 DEF ToolSelector
    <3>2. QED
      BY <1>1, <2>1, <3>1 DEF WritesCounted
  <2>3. CASE ~ToolSelector
    <3>1. selections' = selections /\ (MayConfirm' => MayConfirm)
      <4>1. CASE ErrorHandler \/ RetryHandler
        <5>1. Current \notin ConfirmedWrites \/ MayConfirm
          BY <4>1 DEF ErrorHandler, RetryHandler, Running, MayConfirm
        <5>2. QED
          BY <4>1 DEF ErrorHandler, RetryHandler, Running, MayConfirm, history
      <4>2. CASE ~(ErrorHandler \/ RetryHandler)
        BY <1>3, <2>3, <4>2 DEF RunNode, ContentFilter, Planner, ResponseGenerator, ModelFails,
              Validator, RecursionError, Running, Continue, Abort, MayConfirm, history
      <4>3. QED
        BY <4>1, <4>2
    <3>2. QED
      BY <1>1, <2>1, <3>1 DEF WritesCounted
  <2>4. QED
    BY <2>2, <2>3
<1>4. CASE ReturnResult \/ RaiseError
  <2>1. ConfirmedWrites' = ConfirmedWrites /\ selections' = selections
    BY <1>4 DEF ReturnResult, RaiseError, stack, ConfirmedWrites
  <2>2. MayConfirm' => MayConfirm
    BY <1>4 DEF ReturnResult, RaiseError, Running, Continue, Abort, MayConfirm, ConfirmedWrites
  <2>3. QED
    BY <1>1, <2>1, <2>2 DEF WritesCounted
<1>5. CASE (Stack!Tick /\ UNCHANGED vars) \/ UNCHANGED turnVars
  <2>1. UNCHANGED <<vars, call, result>>
    BY <1>5 DEF Stack!Tick, turnVars, stack
  <2>2. ConfirmedWrites' = ConfirmedWrites /\ MayConfirm' = MayConfirm
    BY <2>1 DEF ConfirmedWrites, MayConfirm, Current, vars, history
  <2>3. QED
    BY <2>1, <2>2 DEF WritesCounted, vars, history
<1>6. QED
  BY <1>2, <1>3, <1>4, <1>5 DEF TurnNext, TurnStep

\* Retries repeat failures only: a turn confirms one write per selection at most.
THEOREM AtMostOneWritePerSelection == TurnSpec => []OneWritePerSelection
<1>1. TurnInit => WritesCounted
  <2>1. SUFFICES ASSUME TurnInit PROVE WritesCounted
    OBVIOUS
  <2>2. ConfirmedWrites = {}
    BY <2>1 DEF TurnInit, Stack!Init, ConfirmedWrites
  <2>3. ~MayConfirm /\ selections = 0
    BY <2>1 DEF TurnInit, Init, MayConfirm
  <2>4. QED
    BY <2>2, <2>3, FS_EmptySet DEF WritesCounted
<1>2. GraphInv /\ StackInv /\ WritesCounted /\ [TurnNext]_turnVars => WritesCounted'
  BY WritesStep
<1>3. GraphInv /\ WritesCounted => OneWritePerSelection
  BY WritesFinite DEF WritesCounted, OneWritePerSelection, GraphInv, TypeOK
<1>4. QED
  BY <1>1, <1>2, <1>3, TurnInvariant, PTL DEF TurnSpec

-----------------------------------------------------------------------------
(* What a reply rests on                                                   *)

\* A draft that will pass validation is of the latest selection; the generator wrote it
\* after the latest execution, and what stands before an execution is not the
\* generator's.  The selector never finds such a draft.
FreshDraft ==
    /\ node \in {"content_filter", "planner", "tool_selector"} => draft # "text"
    /\ draft = "text" =>
          /\ basis.selections = selections
          /\ basis.author = "response_generator" =>
                /\ basis.executions = executions
                /\ node \notin {"tool_executor", "error_handler", "retry_handler"}

LEMMA FreshDraftStep ==
    ASSUME GraphInv, FreshDraft, [Next]_vars, outcome' # "domain_error", outcome' # "crash"
    PROVE  FreshDraft'
<1>1. CASE ContentFilter
  BY <1>1 DEF ContentFilter, Running, Continue, WrittenBy, FreshDraft
<1>2. CASE Planner
  BY <1>2 DEF Planner, Running, Continue, Abort, FreshDraft, history
<1>3. CASE ToolSelector
  BY <1>3 DEF ToolSelector, Running, Continue, WrittenBy, FreshDraft
<1>4. CASE ToolExecutor
  BY <1>4 DEF ToolExecutor, Running, Continue, FreshDraft
<1>5. CASE ErrorHandler
  BY <1>5 DEF ErrorHandler, Running, Continue, WrittenBy, FreshDraft
<1>6. CASE RetryHandler
  BY <1>6 DEF RetryHandler, Running, Continue, FreshDraft, history
<1>7. CASE ResponseGenerator
  BY <1>7 DEF ResponseGenerator, Running, Continue, WrittenBy, Truthy, FreshDraft
<1>8. CASE Validator
  BY <1>8 DEF Validator, Running, Continue, FreshDraft, GraphInv, FailureAnsweredAfterAllRetries,
     Truthy, history
<1>9. CASE ToolExecutorRaises \/ ModelFails \/ RecursionError
  BY <1>9 DEF ToolExecutorRaises, ModelFails, RecursionError, Abort
<1>10. CASE UNCHANGED vars
  BY <1>10 DEF vars, state, history, FreshDraft
<1>11. QED
  BY <1>1, <1>2, <1>3, <1>4, <1>5, <1>6, <1>7, <1>8, <1>9, <1>10 DEF Next

LastExecution ==
    executions > 0 /\ outcome \in {"running", "replied"} => toolResult = result[executions]

\* A turn that has raised makes no further step of the graph.
LiveDraft == outcome \in {"running", "replied"} => FreshDraft

LEMMA LiveDraftStep ==
    ASSUME GraphInv, LiveDraft, [Next]_vars
    PROVE  LiveDraft'
<1>1. CASE outcome = "running"
  BY <1>1, FreshDraftStep DEF LiveDraft
<1>2. CASE outcome # "running"
  <2>1. UNCHANGED vars
    BY <1>2 DEF Next, ContentFilter, Planner, ToolSelector, ToolExecutor, ToolExecutorRaises,
       ErrorHandler, RetryHandler, ResponseGenerator, ModelFails, Validator, RecursionError, Running
  <2>2. QED
    BY <2>1 DEF vars, state, history, LiveDraft, FreshDraft
<1>3. QED
  BY <1>1, <1>2

\* A reply was written after the turn's last selection, whatever drafts the rounds
\* before left behind; by the generator only after the last execution, from its result,
\* and a success of a write is one the service acted on in this very execution.
THEOREM ReplyAlwaysRestsOnLast == TurnSpec => []ReplyRestsOnLastExecution
<1>1. TurnInit => LastExecution
  BY DEF TurnInit, Init, LastExecution
<1>2. ASSUME GraphInv, StackInv, LastExecution, [TurnNext]_turnVars
      PROVE  LastExecution'
  <2>1. executions \in Nat
    BY <1>2 DEF GraphInv, TypeOK
  <2>2. CASE StartTool \/ RunTool
    <3>1. OthersKeep /\ UNCHANGED vars /\ Executing
      BY <1>2, <2>2, StartMoves, RunMoves DEF StartTool, RunTool
    <3>2. Current \in Executions
      BY <1>2, <3>1, ExecutingFacts
    <3>3. executions > 0 => result'[executions] = result[executions]
      BY <2>1, <3>1, <3>2, LimitsAssumption DEF OthersKeep, Current, Executions
    <3>4. QED
      BY <1>2, <3>1, <3>3 DEF LastExecution, vars, history, state
  <2>3. CASE RunNode
    <3>1. executions' = executions /\ toolResult' = toolResult /\ result' = result
          /\ outcome = "running"
      BY <2>3 DEF RunNode, ContentFilter, Planner, ToolSelector, ErrorHandler, RetryHandler,
             ResponseGenerator, ModelFails, Validator, RecursionError, Abort, Running,
             history, state, stack
    <3>2. QED
      BY <1>2, <3>1 DEF LastExecution
  <2>4. CASE ReturnResult
    BY <2>1, <2>4 DEF ReturnResult, LastExecution, Current, stack
  <2>5. CASE RaiseError
    BY <2>5 DEF RaiseError, Abort, LastExecution
  <2>6. CASE (Stack!Tick /\ UNCHANGED vars) \/ UNCHANGED turnVars
    BY <1>2, <2>6 DEF Stack!Tick, turnVars, stack, vars, history, state, LastExecution
  <2>7. QED
    BY <1>2, <2>2, <2>3, <2>4, <2>5, <2>6 DEF TurnNext, TurnStep
<1>3. ASSUME GraphInv, StackInv, LastExecution, LiveDraft PROVE ReplyRestsOnLastExecution
  <2>1. SUFFICES ASSUME outcome = "replied" PROVE ReplyRestsOnLastExecution
    BY DEF ReplyRestsOnLastExecution
  <2>2. ASSUME executions > 0
        PROVE  /\ toolResult = result[executions]
               /\ toolResult = "success" /\ Posts(call[executions]) => performed[executions] > 0
    <3>1. executions \in Executions
      BY <1>3, <2>2, LimitsAssumption DEF GraphInv, TypeOK, StackInv, OneAtATime, Executions
    <3>2. QED
      BY <1>3, <2>1, <2>2, <3>1 DEF LastExecution, StackInv, ExecutionFits
  <2>3. draft = "text"
    BY <1>3, <2>1 DEF GraphInv, RepliesAreValid
  <2>4. /\ basis.selections = selections
        /\ basis.author = "response_generator" => basis.executions = executions
    BY <1>3, <2>1, <2>3 DEF LiveDraft, FreshDraft
  <2>5. QED
    BY <2>2, <2>4 DEF ReplyRestsOnLastExecution
<1>4. Init => LiveDraft
  BY DEF Init, LiveDraft, FreshDraft
<1>5. GraphInv /\ LiveDraft /\ [Next]_vars => LiveDraft'
  BY LiveDraftStep
<1>6. QED
  BY <1>1, <1>2, <1>3, <1>4, <1>5, TurnInvariant, TurnImplementsGraph, PTL
     DEF TurnSpec, ImplementsAgentGraph, Spec

-----------------------------------------------------------------------------
(* Requests                                                                *)

\* Until a reply has failed validation, the tool is selected once.
SelectedOnce ==
    outcome = "running" /\ errors = {} =>
        /\ selections <= 1
        /\ node \in {"content_filter", "planner", "tool_selector"} => selections = 0

\* What an execution has sent at each of its places.
AttemptsFit ==
    /\ attempts \in [Executions -> Nat]
    /\ \A c \in Executions :
          /\ attempts[c] <= MaxAttempts
          /\ phase[c] \in {"new", "admitted", "missed"} => attempts[c] = 0
          /\ phase[c] = "trying" => attempts[c] < MaxAttempts

LEMMA SelectedOnceStep ==
    ASSUME GraphInv, StackInv, SelectedOnce, [TurnNext]_turnVars
    PROVE  SelectedOnce'
<1>1. selections \in Nat
  BY DEF GraphInv, TypeOK
<1>2. CASE RunNode
  <2>1. CASE ToolSelector
    BY <1>1, <2>1 DEF ToolSelector, Running, Continue, SelectedOnce
  <2>2. CASE Validator
    BY <2>2 DEF Validator, Running, Continue, SelectedOnce, history
  <2>3. CASE ContentFilter \/ Planner
    BY <2>3 DEF ContentFilter, Planner, Running, Continue, Abort, SelectedOnce, history
  <2>4. CASE ErrorHandler \/ RetryHandler \/ ResponseGenerator
    BY <2>4 DEF ErrorHandler, RetryHandler, ResponseGenerator, Running, Continue, SelectedOnce, history
  <2>5. CASE ModelFails \/ RecursionError
    BY <2>5 DEF ModelFails, RecursionError, Abort, SelectedOnce
  <2>6. QED
    BY <1>2, <2>1, <2>2, <2>3, <2>4, <2>5 DEF RunNode
<1>3. CASE ReturnResult \/ RaiseError
  BY <1>3 DEF ReturnResult, RaiseError, Running, Continue, Abort, SelectedOnce
<1>4. CASE UNCHANGED vars
  BY <1>4 DEF vars, state, history, SelectedOnce
<1>5. QED
  BY <1>2, <1>3, <1>4 DEF TurnNext, TurnStep, StartTool, RunTool, turnVars

\* The steps of an execution that send nothing.
LEMMA QuietStep ==
    ASSUME StackTypes, AttemptsFit, Current \in Executions, UNCHANGED attempts,
           NEW p \in Stack!Phases, phase' = [phase EXCEPT ![Current] = p],
           p # "trying",
           p \in {"admitted", "missed"} => phase[Current] \in {"new", "admitted"},
           p # "new"
    PROVE  AttemptsFit'
BY DEF StackTypes, AttemptsFit, Executions

LEMMA SendingStep ==
    ASSUME StackTypes, AttemptsFit, Current \in Executions,
           phase[Current] \in {"missed", "trying"},
           attempts' = [attempts EXCEPT ![Current] = @ + 1],
           \/ phase' = [phase EXCEPT ![Current] = "answered"]
           \/ attempts[Current] + 1 < MaxAttempts /\ phase' = [phase EXCEPT ![Current] = "trying"]
    PROVE  AttemptsFit'
<1>1. attempts[Current] \in Nat /\ attempts[Current] + 1 <= MaxAttempts
  BY StackAssumption DEF AttemptsFit
<1>2. attempts' \in [Executions -> Nat]
  BY <1>1 DEF AttemptsFit
<1>3. ASSUME NEW d \in Executions
      PROVE  /\ attempts'[d] <= MaxAttempts
             /\ phase'[d] \in {"new", "admitted", "missed"} => attempts'[d] = 0
             /\ phase'[d] = "trying" => attempts'[d] < MaxAttempts
  <2>1. CASE d = Current
    <3>1. attempts'[d] = attempts[Current] + 1
      BY <2>1 DEF AttemptsFit
    <3>2. phase'[d] \in {"answered", "trying"}
      BY <2>1 DEF StackTypes
    <3>3. phase'[d] = "trying" => attempts[Current] + 1 < MaxAttempts
      BY <2>1 DEF StackTypes
    <3>4. QED
      BY <1>1, <3>1, <3>2, <3>3
  <2>2. CASE d # Current
    <3>1. attempts'[d] = attempts[d] /\ phase'[d] = phase[d]
      BY <2>2 DEF AttemptsFit, StackTypes
    <3>2. QED
      BY <3>1 DEF AttemptsFit
  <2>3. QED
    BY <2>1, <2>2
<1>4. Executions' = Executions
  BY DEF Executions
<1>5. QED
  BY <1>2, <1>3, <1>4 DEF AttemptsFit

LEMMA AttemptsStep ==
    ASSUME GraphInv, StackInv, AttemptsFit, [TurnNext]_turnVars
    PROVE  AttemptsFit'
<1>1. CASE StartTool
  <2>1. StackTypes /\ Current \in Executions
    BY <1>1, ExecutingFacts DEF StartTool
  <2>2. phase[Current] = "new" /\ UNCHANGED attempts
    BY <1>1 DEF StartTool, Stack!Begin, Stack!service
  <2>3. PICK p \in {"admitted", "raised"} : phase' = [phase EXCEPT ![Current] = p]
    BY <1>1 DEF StartTool, Stack!Begin, Stack!GoesTo
  <2>4. QED
    BY <2>1, <2>2, <2>3, QuietStep DEF Stack!Phases
<1>2. CASE RunTool
  <2>1. StackTypes /\ Current \in Executions
    BY <1>2, ExecutingFacts DEF RunTool
  <2>2. CASE \/ Stack!Hit(Current) \/ Stack!Miss(Current) \/ Stack!CircuitRefuses(Current)
             \/ Stack!Answer(Current) \/ Stack!Report(Current) \/ Stack!Store(Current)
    <3>1. UNCHANGED attempts
      BY <2>2 DEF Stack!Hit, Stack!Miss, Stack!CircuitRefuses, Stack!Answer, Stack!Report,
                  Stack!Store, Stack!service
    <3>2. PICK p \in {"done", "missed", "raised", "answered", "storing"} :
             /\ phase' = [phase EXCEPT ![Current] = p]
             /\ p = "missed" => phase[Current] = "admitted"
      BY <2>2 DEF Stack!Hit, Stack!Miss, Stack!CircuitRefuses, Stack!Answer, Stack!Report,
                  Stack!Store, Stack!Returns, Stack!GoesTo
    <3>3. QED
      BY <2>1, <3>1, <3>2, QuietStep DEF Stack!Phases
  <2>3. CASE Stack!Respond(Current)
    BY <2>1, <2>3, SendingStep DEF Stack!Respond, Stack!Send, Stack!Returns, Stack!GoesTo
  <2>4. CASE Stack!AttemptFails(Current)
    BY <2>1, <2>4, SendingStep DEF Stack!AttemptFails, Stack!Send, Stack!Returns, Stack!GoesTo
  <2>5. QED
    BY <1>2, <2>2, <2>3, <2>4 DEF RunTool
<1>3. CASE UNCHANGED stack \/ Stack!Tick
  BY <1>3 DEF stack, Stack!Tick, Stack!service, AttemptsFit, Executions
<1>4. QED
  BY <1>1, <1>2, <1>3 DEF TurnNext, TurnStep, RunNode, ReturnResult, RaiseError, turnVars

\* Retries in retries stay within the product of their bounds while no reply has
\* failed validation, for any bounds.
THEOREM FirstPassAlwaysSpares == TurnSpec => []FirstPassSparesService
<1>1. TurnInit => SelectedOnce /\ AttemptsFit
  BY StackAssumption DEF TurnInit, Init, Stack!Init, SelectedOnce, AttemptsFit
<1>2. GraphInv /\ StackInv /\ SelectedOnce /\ AttemptsFit /\ [TurnNext]_turnVars
        => SelectedOnce' /\ AttemptsFit'
  BY SelectedOnceStep, AttemptsStep
<1>3. ASSUME GraphInv, StackInv, SelectedOnce, AttemptsFit PROVE FirstPassSparesService
  <2>1. SUFFICES ASSUME outcome = "running", errors = {}
                 PROVE  Cardinality(Requesting) <= 1 + MaxToolRetries
    BY <1>3 DEF FirstPassSparesService, AttemptsFit, Requesting
  <2>2. executions \in Nat /\ selections <= 1 /\ retryCount <= MaxToolRetries
        /\ selections \in Nat /\ retryCount \in Nat
    BY <1>3, <2>1, LimitsAssumption DEF GraphInv, TypeOK, SelectedOnce
  <2>3. ASSUME NEW c \in Requesting PROVE c \in 1..(1 + MaxToolRetries)
    <3>1. c \in Executions /\ phase[c] # "new"
      BY <1>3, <2>3 DEF Requesting, AttemptsFit
    <3>2. c <= executions \/ (c = executions + 1 /\ node = "tool_executor")
      BY <1>3, <2>2, <3>1 DEF StackInv, OneAtATime, Current, Executions
    <3>3. QED
      BY <1>3, <2>1, <2>2, <3>1, <3>2, LimitsAssumption DEF GraphInv, ExecutionsLicensed, Executions
  <2>4. Requesting \subseteq 1..(1 + MaxToolRetries)
    BY <2>3
  <2>5. /\ IsFiniteSet(1..(1 + MaxToolRetries))
        /\ Cardinality(1..(1 + MaxToolRetries)) = 1 + MaxToolRetries
    <3>1. MaxToolRetries \in Nat
      BY LimitsAssumption
    <3>2. QED
      BY <3>1, FS_Interval
  <2>6. QED
    BY <2>4, <2>5, FS_Subset
<1>4. QED
  BY <1>1, <1>2, <1>3, TurnInvariant, PTL DEF TurnSpec
=============================================================================
