-------------------------- MODULE ModelCallsProofs --------------------------
(***************************************************************************)
(* ModelCalls for any number of concurrent runs, prompts, versions and     *)
(* requests, and any trouble.                                              *)
(***************************************************************************)
EXTENDS ModelCalls, TLAPS

\* What a run knows of its prompt and its cost at each of its places.
RunsFit ==
    \A r \in Runs :
        /\ place[r] = "idle" => text[r] = Fallback /\ requests[r] = 0
        /\ place[r] = "waiting" => requests[r] > 0 /\ (text[r] # Fallback => link[r] = text[r])
        /\ place[r] = "idle" => link[r] = None
        /\ place[r] # "returned" => linked[r] = None
        /\ place[r] \in {"idle", "waiting", "gone"} => usage[r] = 0

CallsInv == TypeOK /\ RunsFit /\ LinkedToItsPrompt /\ UsageCountedOnce

LEMMA InitInv == Init => CallsInv
BY CallsAssumption DEF Init, CallsInv, TypeOK, RunsFit, LinkedToItsPrompt, UsageCountedOnce,
    Versions, None, Fallback

LEMMA StepInv == CallsInv /\ [Next]_vars => CallsInv'
<1>. SUFFICES ASSUME CallsInv, [Next]_vars PROVE CallsInv'
  OBVIOUS
<1>. USE CallsAssumption DEF CallsInv
<1>1. ASSUME NEW r \in Runs, Start(r) PROVE CallsInv'
  <2>. PICK p \in Prompts, object \in 0..MaxVersion, version \in 0..MaxVersion :
         /\ Got(p, object, version)
         /\ prompt' = [prompt EXCEPT ![r] = p]
         /\ memo' = [memo EXCEPT ![p] = object]
         /\ text' = [text EXCEPT ![r] = version]
         /\ link' = [link EXCEPT ![r] = object]
    BY <1>1 DEF Start
  <2>1. object <= published[p] /\ (version # Fallback => version = object)
    BY DEF Got, Served, Versions, TypeOK
  <2>2. TypeOK'
    BY <1>1, <2>1 DEF Start, TypeOK, Versions
  <2>3. RunsFit' /\ LinkedToItsPrompt' /\ UsageCountedOnce'
    BY <1>1, <2>1 DEF Start, TypeOK, RunsFit, LinkedToItsPrompt, UsageCountedOnce, None, Fallback
  <2>4. QED
    BY <2>2, <2>3
<1>2. ASSUME NEW r \in Runs, BadTemplate(r) PROVE CallsInv'
  <2>. PICK p \in Templates : \E version \in Served(p) :
         /\ prompt' = [prompt EXCEPT ![r] = p]
         /\ memo' = [memo EXCEPT ![p] = version]
         /\ text' = [text EXCEPT ![r] = version]
    BY <1>2 DEF BadTemplate
  <2>. PICK version \in Served(p) :
         /\ prompt' = [prompt EXCEPT ![r] = p]
         /\ memo' = [memo EXCEPT ![p] = version]
         /\ text' = [text EXCEPT ![r] = version]
    OBVIOUS
  <2>1. TypeOK'
    BY <1>2 DEF BadTemplate, Raise, Served, TypeOK, Versions, None
  <2>2. RunsFit' /\ LinkedToItsPrompt' /\ UsageCountedOnce'
    BY <1>2 DEF BadTemplate, Raise, TypeOK, RunsFit, LinkedToItsPrompt, UsageCountedOnce, None
  <2>3. QED
    BY <2>1, <2>2
<1>3. ASSUME NEW r \in Runs, PassThrough(r) \/ Respond(r) PROVE CallsInv'
  <2>1. TypeOK'
    BY <1>3 DEF PassThrough, Respond, Return, Count, PromptOfState, TypeOK, None
  <2>2. RunsFit' /\ LinkedToItsPrompt' /\ UsageCountedOnce'
    BY <1>3 DEF PassThrough, Respond, Return, Count, PromptOfState, TypeOK, RunsFit,
        LinkedToItsPrompt, UsageCountedOnce, None, Fallback
  <2>3. QED
    BY <2>1, <2>2
<1>4. ASSUME NEW r \in Runs, Retry(r) PROVE CallsInv'
  BY <1>4 DEF Retry, RequestAgain, TypeOK, RunsFit, LinkedToItsPrompt, UsageCountedOnce
<1>5. ASSUME NEW r \in Runs, GiveUp(r) \/ Unreadable(r) \/ Unusable(r) PROVE CallsInv'
  <2>1. TypeOK'
    BY <1>5 DEF GiveUp, Unreadable, Unusable, Raise, Count, TypeOK, None
  <2>2. RunsFit' /\ LinkedToItsPrompt' /\ UsageCountedOnce'
    BY <1>5 DEF GiveUp, Unreadable, Unusable, Raise, Count, TypeOK, RunsFit, LinkedToItsPrompt,
        UsageCountedOnce
  <2>3. QED
    BY <2>1, <2>2
<1>6. ASSUME NEW r \in Runs, Cancel(r) PROVE CallsInv'
  BY <1>6 DEF Cancel, TypeOK, RunsFit, LinkedToItsPrompt, UsageCountedOnce
<1>7. ASSUME NEW p \in Prompts, Publish(p) PROVE CallsInv'
  BY <1>7 DEF Publish, TypeOK, Versions, RunsFit, LinkedToItsPrompt, UsageCountedOnce
<1>8. CASE UNCHANGED vars
  BY <1>8 DEF vars, TypeOK, RunsFit, LinkedToItsPrompt, UsageCountedOnce
<1>9. QED
  BY <1>1, <1>2, <1>3, <1>4, <1>5, <1>6, <1>7, <1>8 DEF Next, Resume

LEMMA CallsInvariant == Spec => []CallsInv
BY InitInv, StepInv, PTL DEF Spec

\* No run sends more than MaxRequests requests, and the service never remembers a
\* version that nobody has published.
THEOREM CallsTypeCorrect == Spec => []TypeOK
BY CallsInvariant, PTL DEF CallsInv

\* However many runs fetch the same prompt meanwhile, a generation is linked to the
\* version its own run was given.
THEOREM AlwaysLinkedToItsPrompt == Spec => []LinkedToItsPrompt
BY CallsInvariant, PTL DEF CallsInv

\* However often a request is repeated, a run's tokens are counted once.
THEOREM UsageAlwaysCountedOnce == Spec => []UsageCountedOnce
BY CallsInvariant, PTL DEF CallsInv

-----------------------------------------------------------------------------
(* A wait for the model counts down                                        *)

\* The answers, refusals and timeouts that a run may still wait for, at most.
WaitsLeft(r) == IF place[r] = "waiting" THEN MaxRequests + 1 - requests[r] ELSE 0

WaitsBounded ==
    \A r \in Runs :
        /\ WaitsLeft(r) \in 0..MaxRequests
        /\ place[r] = "waiting" => WaitsLeft(r) > 0

LEMMA ResumeCountsDown ==
    ASSUME CallsInv, NEW r \in Runs, Resume(r)
    PROVE  WaitsLeft(r)' < WaitsLeft(r)
<1>1. /\ place[r] = "waiting" /\ requests[r] \in 0..MaxRequests /\ MaxRequests \in Nat
      /\ place \in [Runs -> {"idle", "waiting", "returned", "failed", "gone"}]
      /\ requests \in [Runs -> 0..MaxRequests]
  BY CallsAssumption DEF CallsInv, TypeOK, Resume, Retry, RequestAgain, GiveUp, Unreadable, Respond,
     Unusable
<1>2. CASE Retry(r)
  BY <1>1, <1>2 DEF Retry, RequestAgain, WaitsLeft
<1>3. CASE GiveUp(r) \/ Unreadable(r) \/ Unusable(r) \/ Respond(r)
  <2>1. place'[r] # "waiting"
    BY <1>1, <1>3 DEF GiveUp, Unreadable, Unusable, Respond, Raise, Return
  <2>2. QED
    BY <1>1, <2>1 DEF WaitsLeft
<1>4. QED
  BY <1>2, <1>3 DEF Resume

\* Nobody but the run itself touches what it waits for.
LEMMA OthersLeaveWaits ==
    ASSUME CallsInv, [Next]_vars, NEW r \in Runs, place[r] = "waiting", ~Resume(r)
    PROVE  WaitsLeft(r)' <= WaitsLeft(r)
<1>1. /\ requests[r] \in 0..MaxRequests /\ MaxRequests \in Nat
      /\ place \in [Runs -> {"idle", "waiting", "returned", "failed", "gone"}]
      /\ requests \in [Runs -> 0..MaxRequests]
  BY CallsAssumption DEF CallsInv, TypeOK
<1>2. ASSUME NEW q \in Runs \ {r},
             Start(q) \/ BadTemplate(q) \/ PassThrough(q) \/ Resume(q) \/ Cancel(q)
      PROVE  place'[r] = place[r] /\ requests'[r] = requests[r]
  BY <1>1, <1>2 DEF Start, BadTemplate, PassThrough, Cancel, Resume, Retry, RequestAgain, GiveUp,
     Unreadable, Respond, Unusable, Raise, Return
<1>3. CASE Start(r) \/ BadTemplate(r) \/ PassThrough(r)
  BY <1>3 DEF Start, BadTemplate, PassThrough
<1>4. CASE Cancel(r)
  BY <1>1, <1>4 DEF Cancel, WaitsLeft
<1>5. CASE \E p \in Prompts : Publish(p)
  BY <1>1, <1>5 DEF Publish, WaitsLeft
<1>6. CASE UNCHANGED vars
  BY <1>1, <1>6 DEF vars, WaitsLeft
<1>7. CASE \E q \in Runs \ {r} :
             Start(q) \/ BadTemplate(q) \/ PassThrough(q) \/ Resume(q) \/ Cancel(q)
  BY <1>1, <1>2, <1>7 DEF WaitsLeft
<1>8. QED
  BY <1>3, <1>4, <1>5, <1>6, <1>7 DEF Next

\* A run that waits is resumed MaxRequests times at most, whatever the others do and
\* the model answers; each time brings it nearer its end, and nothing takes it away.
THEOREM WaitsCountDown ==
    Spec => /\ []WaitsBounded
            /\ [][\A r \in Runs : place[r] = "waiting" =>
                    /\ WaitsLeft(r)' <= WaitsLeft(r)
                    /\ Resume(r) => WaitsLeft(r)' < WaitsLeft(r)]_vars
<1>1. CallsInv => WaitsBounded
  <2>1. SUFFICES ASSUME CallsInv, NEW r \in Runs
                 PROVE  /\ WaitsLeft(r) \in 0..MaxRequests
                        /\ place[r] = "waiting" => WaitsLeft(r) > 0
    BY DEF WaitsBounded
  <2>2. requests[r] \in 0..MaxRequests /\ MaxRequests \in Nat
    BY <2>1, CallsAssumption DEF CallsInv, TypeOK
  <2>3. place[r] = "waiting" => requests[r] > 0
    BY <2>1 DEF CallsInv, RunsFit
  <2>4. QED
    BY <2>2, <2>3 DEF WaitsLeft
<1>2. ASSUME CallsInv, [Next]_vars, CallsInv', NEW r \in Runs, place[r] = "waiting"
      PROVE  WaitsLeft(r)' <= WaitsLeft(r) /\ (Resume(r) => WaitsLeft(r)' < WaitsLeft(r))
  <2>1. WaitsLeft(r) \in Nat /\ WaitsLeft(r)' \in Nat
    BY <1>2, CallsAssumption DEF CallsInv, TypeOK, WaitsLeft
  <2>2. QED
    BY <1>2, <2>1, ResumeCountsDown, OthersLeaveWaits
<1>3. CallsInv /\ CallsInv' /\ [Next]_vars =>
        [\A r \in Runs : place[r] = "waiting" =>
            /\ WaitsLeft(r)' <= WaitsLeft(r)
            /\ Resume(r) => WaitsLeft(r)' < WaitsLeft(r)]_vars
  BY <1>2
<1>4. QED
  BY <1>1, <1>3, CallsInvariant, PTL DEF Spec
=============================================================================
