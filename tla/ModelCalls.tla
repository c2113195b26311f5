----------------------------- MODULE ModelCalls -----------------------------
(***************************************************************************)
(* The agent's nodes that ask the model, as the turns of one process run   *)
(* them concurrently: traced_node opens a generation in Langfuse, the node *)
(* fetches its prompt from the PromptService all turns share, and          *)
(* GroqProvider.complete sends the request and repeats it.  Langfuse's SDK *)
(* queues observations and does not raise.                                 *)
(*                                                                         *)
(* A run is one execution of such a node.  asyncio interleaves runs only   *)
(* where they wait for the model, so all that a node does before its first *)
(* request is one step, and all it does from a response on another.        *)
(***************************************************************************)
EXTENDS Naturals

CONSTANTS
    Runs,
    Prompts,        \* the names nodes ask for
    Templates,      \* the planner's: its text is formatted, its answer parsed
    MaxRequests,    \* stop_after_attempt
    MaxVersion,     \* bound on the versions somebody publishes
    Troubles        \* what may go wrong: "langfuse", "template", "model", "reply", "cancel"

ASSUME CallsAssumption ==
    /\ Prompts # {}
    /\ Templates \subseteq Prompts
    /\ MaxRequests \in Nat \ {0}
    /\ MaxVersion \in Nat \ {0}
    /\ Troubles \subseteq {"langfuse", "template", "model", "reply", "cancel"}

VARIABLES
    published,      \* in Langfuse: the latest version of every prompt
    memo,           \* _prompt_objects: the version last fetched, or None
    place,          \* how far every run is
    prompt,         \* the prompt it asked for
    text,           \* the version get gave it, or Fallback
    link,           \* _langfuse_prompt in its state, or None
    requests,       \* complete()'s calls of create() for it; the SDK may repeat each
    usage,          \* how often tokens and cost were counted for it
    generation,     \* its observation, and how it was ended
    linked          \* the version the observation is linked to, or None

vars == <<published, memo, place, prompt, text, link, requests, usage, generation, linked>>

None == 0
Fallback == 0
Versions == 1..MaxVersion

TypeOK ==
    /\ published \in [Prompts -> Versions]
    /\ memo \in [Prompts -> 0..MaxVersion]
    /\ \A p \in Prompts : memo[p] <= published[p]
    /\ place \in [Runs -> {"idle", "waiting", "returned", "failed", "gone"}]
    /\ prompt \in [Runs -> Prompts]
    /\ text \in [Runs -> 0..MaxVersion]
    /\ link \in [Runs -> 0..MaxVersion]
    /\ requests \in [Runs -> 0..MaxRequests]
    /\ usage \in [Runs -> Nat]
    /\ generation \in [Runs -> {"none", "open", "output", "error"}]
    /\ linked \in [Runs -> 0..MaxVersion]

Init ==
    /\ published = [p \in Prompts |-> 1]
    /\ memo = [p \in Prompts |-> None]
    /\ place = [r \in Runs |-> "idle"]
    /\ prompt \in {[r \in Runs |-> p] : p \in Prompts}
    /\ text = [r \in Runs |-> Fallback]
    /\ link = [r \in Runs |-> None]
    /\ requests = [r \in Runs |-> 0]
    /\ usage = [r \in Runs |-> 0]
    /\ generation = [r \in Runs |-> "none"]
    /\ linked = [r \in Runs |-> None]

-----------------------------------------------------------------------------

\* The SDK answers from its cache as long as that is fresh, else with the latest.
Served(p) == {v \in Versions : memo[p] <= v /\ v <= published[p]}

\* PromptService.get: the object is remembered before it is compiled, and stays
\* when a later fetch fails.
Got(p, object, version) ==
    \/ object \in Served(p) /\ version = object
    \/ "langfuse" \in Troubles /\ object \in Served(p) \cup {memo[p]} /\ version = Fallback

\* traced_node when the node raises: the generation is ended, without a prompt.
Raise(r) ==
    /\ place' = [place EXCEPT ![r] = "failed"]
    /\ generation' = [generation EXCEPT ![r] = "error"]
    /\ link' = [link EXCEPT ![r] = None]
    /\ UNCHANGED linked

\* Slip: the service is asked for the object at the end, when others have used it.
PromptNow(r) == memo[prompt[r]]

\* What traced_node finds in the state when the node has returned.
PromptOfState(r) == link[r]

Return(r) ==
    /\ place' = [place EXCEPT ![r] = "returned"]
    /\ generation' = [generation EXCEPT ![r] = "output"]
    /\ linked' = [linked EXCEPT ![r] = PromptOfState(r)]
    /\ link' = [link EXCEPT ![r] = None]

\* A node fetches its prompt and sends its first request.
Start(r) ==
    /\ place[r] = "idle"
    /\ \E p \in Prompts, object, version \in 0..MaxVersion :
        /\ Got(p, object, version)
        /\ prompt' = [prompt EXCEPT ![r] = p]
        /\ memo' = [memo EXCEPT ![p] = object]
        /\ text' = [text EXCEPT ![r] = version]
        /\ link' = [link EXCEPT ![r] = object]
    /\ place' = [place EXCEPT ![r] = "waiting"]
    /\ generation' = [generation EXCEPT ![r] = "open"]
    /\ requests' = [requests EXCEPT ![r] = 1]
    /\ UNCHANGED <<published, usage, linked>>

\* A published text with a stray brace makes the planner's format() raise.
BadTemplate(r) ==
    /\ place[r] = "idle"
    /\ "template" \in Troubles
    /\ \E p \in Templates : \E version \in Served(p) :
        /\ prompt' = [prompt EXCEPT ![r] = p]
        /\ memo' = [memo EXCEPT ![p] = version]
        /\ text' = [text EXCEPT ![r] = version]
    /\ Raise(r)
    /\ UNCHANGED <<published, requests, usage>>

\* response_generator with an answer that is there already asks nobody.
PassThrough(r) ==
    /\ place[r] = "idle"
    /\ Return(r)
    /\ UNCHANGED <<published, memo, prompt, text, requests, usage>>

\* Slips: one request more, and no end of them.
RequestAgain(r, limit) ==
    /\ place[r] = "waiting"
    /\ "model" \in Troubles
    /\ requests[r] < limit
    /\ requests' = [requests EXCEPT ![r] = @ + 1]
    /\ UNCHANGED <<published, memo, place, prompt, text, link, usage, generation, linked>>
OneRequestMore(r) == RequestAgain(r, MaxRequests + 1)
EndlessRequests(r) ==
    /\ place[r] = "waiting"
    /\ "model" \in Troubles
    /\ requests' = [requests EXCEPT ![r] = (@ % MaxRequests) + 1]
    /\ UNCHANGED <<published, memo, place, prompt, text, link, usage, generation, linked>>

\* A request fails or times out (LLMProviderError): tenacity sends another.
Retry(r) == RequestAgain(r, MaxRequests)

\* The last request fails, and reraise hands the error to the node.
GiveUp(r) ==
    /\ place[r] = "waiting"
    /\ "model" \in Troubles
    /\ requests[r] = MaxRequests
    /\ Raise(r)
    /\ UNCHANGED <<published, memo, prompt, text, requests, usage>>

\* A response without choices, or with arguments that are no object: the error is
\* raised outside the try and not repeated, and its tokens are not counted.
Unreadable(r) ==
    /\ place[r] = "waiting"
    /\ "reply" \in Troubles
    /\ Raise(r)
    /\ UNCHANGED <<published, memo, prompt, text, requests, usage>>

Count(r) == usage' = [usage EXCEPT ![r] = @ + 1]

\* A readable response is counted, and the node returns.
Respond(r) ==
    /\ place[r] = "waiting"
    /\ Count(r)
    /\ Return(r)
    /\ UNCHANGED <<published, memo, prompt, text, requests>>

\* Slip: what the node cannot use is asked for again.
RepeatUnusable(r) ==
    /\ place[r] = "waiting"
    /\ prompt[r] \in Templates
    /\ "reply" \in Troubles
    /\ Count(r)
    /\ requests[r] < MaxRequests
    /\ requests' = [requests EXCEPT ![r] = @ + 1]
    /\ UNCHANGED <<published, memo, place, prompt, text, link, generation, linked>>

\* A counted response that is not the JSON the planner asked for fails its node.
Unusable(r) ==
    /\ place[r] = "waiting"
    /\ prompt[r] \in Templates
    /\ "reply" \in Troubles
    /\ Count(r)
    /\ Raise(r)
    /\ UNCHANGED <<published, memo, prompt, text, requests>>

\* CancelledError is no Exception: nobody ends the generation.
Cancel(r) ==
    /\ place[r] = "waiting"
    /\ "cancel" \in Troubles
    /\ place' = [place EXCEPT ![r] = "gone"]
    /\ UNCHANGED <<published, memo, prompt, text, link, requests, usage, generation, linked>>

Publish(p) ==
    /\ published[p] < MaxVersion
    /\ published' = [published EXCEPT ![p] = @ + 1]
    /\ UNCHANGED <<memo, place, prompt, text, link, requests, usage, generation, linked>>

\* What follows the wait for a request, which has a timeout.
Resume(r) == Retry(r) \/ GiveUp(r) \/ Unreadable(r) \/ Respond(r) \/ Unusable(r)

Next ==
    \/ \E r \in Runs :
        Start(r) \/ BadTemplate(r) \/ PassThrough(r) \/ Resume(r) \/ Cancel(r)
    \/ \E p \in Prompts : Publish(p)

\* Every request is answered, refused or timed out, and the loop resumes its run.
Spec == Init /\ [][Next]_vars /\ \A r \in Runs : WF_vars(Resume(r))

-----------------------------------------------------------------------------

\* Whatever others fetch while a run waits, its generation is linked to the version
\* whose text the run was given; only a run on the fallback may carry another, the
\* one fetched last before it began.
LinkedToItsPrompt ==
    \A r \in Runs :
        /\ place[r] = "returned" /\ text[r] # Fallback => linked[r] = text[r]
        /\ linked[r] # None => place[r] = "returned" /\ requests[r] > 0

\* Retries do not multiply cost: a run that asked the model and returned was counted
\* once, one that failed at most once, a cancelled one never.
UsageCountedOnce ==
    \A r \in Runs :
        /\ place[r] = "returned" /\ requests[r] > 0 => usage[r] = 1
        /\ place[r] = "failed" => usage[r] <= 1
        /\ place[r] \in {"waiting", "gone"} => usage[r] = 0

\* No run waits for the model for ever.
CallsEnd == \A r \in Runs : place[r] = "waiting" ~> place[r] # "waiting"
=============================================================================
