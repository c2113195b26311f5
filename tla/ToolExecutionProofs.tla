------------------------ MODULE ToolExecutionProofs ------------------------
(***************************************************************************)
(* What the executor and its cache keep, for any number of overlapping     *)
(* executions, any keys and any troubles; then what the cache's keys and   *)
(* the redaction do with arguments that nest to any depth.                 *)
(***************************************************************************)
EXTENDS PluginExecution, WellFoundedInduction, TLAPS

\* Where a result may be read from the cache: its execution is over.
Cachable(d) ==
    /\ d \in Executions
    /\ phase[d] = "done"
    /\ source[d] = d
    /\ result[d] = "success"
    /\ ~IsWrite(call[d])

EntryFits(k) ==
    holder[k] # NoExecution =>
        /\ Cachable(holder[k])
        /\ KeyOf(call[holder[k]]) = k
        /\ expiry[k] = stored[holder[k]] + TTL(call[holder[k]])
        /\ now < expiry[k]

\* What an execution has done at each of its places.
Progress(c) ==
    /\ phase[c] \in {"new", "admitted", "missed"} => attempts[c] = 0
    /\ phase[c] = "trying" => attempts[c] < MaxAttempts
    /\ performed[c] <= attempts[c]
    /\ phase[c] \in {"answered", "storing"} => source[c] = c
    /\ phase[c] = "storing" => result[c] = "success" /\ TTL(call[c]) # 0 /\ ~IsWrite(call[c])

CachedAnswerFits(c) ==
    phase[c] = "done" /\ source[c] # c =>
        /\ Cachable(source[c])
        /\ KeyOf(call[source[c]]) = KeyOf(call[c])
        /\ result[c] = "success"
        /\ ~IsWrite(call[c])
        /\ answeredAt[c] < stored[source[c]] + TTL(call[source[c]])

OwnAnswerFits(c) ==
    ( /\ phase[c] \in {"answered", "storing", "done"} /\ source[c] = c
      /\ PluginAnswer(call[c]) = "request" /\ Posts(call[c]) /\ result[c] = "success" )
        => performed[c] > 0

ExecutionFits(c) == Progress(c) /\ CachedAnswerFits(c) /\ OwnAnswerFits(c)

ToolsInv ==
    /\ TypeOK
    /\ \A k \in Keys : EntryFits(k)
    /\ \A c \in Executions : ExecutionFits(c)

-----------------------------------------------------------------------------

LEMMA InitEstablishes == Init => ToolsInv
<1>. SUFFICES ASSUME Init PROVE ToolsInv
  OBVIOUS
<1>1. TypeOK
  BY CallsAssumption DEF Init, TypeOK, Phases
<1>2. \A k \in Keys : EntryFits(k)
  BY DEF Init, EntryFits
<1>3. ASSUME NEW c \in Executions PROVE ExecutionFits(c)
  <2>1. phase[c] = "new" /\ attempts[c] = 0 /\ performed[c] = 0
    BY DEF Init
  <2>2. Progress(c)
    BY <2>1 DEF Progress
  <2>3. CachedAnswerFits(c) /\ OwnAnswerFits(c)
    BY <2>1 DEF CachedAnswerFits, OwnAnswerFits
  <2>4. QED
    BY <2>2, <2>3 DEF ExecutionFits
<1>4. QED
  BY <1>1, <1>2, <1>3 DEF ToolsInv

-----------------------------------------------------------------------------
(* A step of an execution leaves the others alone                          *)

Step(c) ==
    \/ Begin(c) \/ Hit(c) \/ Miss(c) \/ CircuitRefuses(c) \/ Answer(c)
    \/ Respond(c) \/ AttemptFails(c) \/ Report(c) \/ Store(c) \/ Die(c)

OthersKeep(c) ==
    /\ phase[c] # "done"
    /\ now' = now
    /\ \A d \in Executions \ {c} :
          /\ phase'[d] = phase[d] /\ call'[d] = call[d]
          /\ result'[d] = result[d] /\ source'[d] = source[d]
          /\ attempts'[d] = attempts[d] /\ performed'[d] = performed[d]
          /\ stored'[d] = stored[d] /\ answeredAt'[d] = answeredAt[d]

LEMMA StepKeepsTypes ==
    ASSUME ToolsInv, NEW c \in Executions, Step(c)
    PROVE  TypeOK' /\ OthersKeep(c)
<1>. USE CallsAssumption DEF ToolsInv, cache, service
<1>1. Key(c) \in Keys /\ call[c] \in Calls
  BY DEF TypeOK, Key, Keys
<1>2. CASE Begin(c)
  BY <1>2 DEF Begin, GoesTo, TypeOK, Phases, OthersKeep
<1>3. CASE Hit(c)
  <2>1. holder[Key(c)] \in Executions
    BY <1>1, <1>3 DEF Hit, TypeOK
  <2>2. QED
    BY <1>3, <2>1 DEF Hit, GoesTo, TypeOK, Phases, OthersKeep
<1>4. CASE Miss(c) \/ CircuitRefuses(c) \/ Die(c)
  BY <1>4 DEF Miss, CircuitRefuses, Die, InProgress, GoesTo, TypeOK, Phases, OthersKeep
<1>5. CASE Answer(c)
  BY <1>1, <1>5 DEF Answer, Returns, GoesTo, TypeOK, Phases, OthersKeep
<1>6. CASE Respond(c) \/ AttemptFails(c)
  <2>1. PICK acts \in BOOLEAN : Send(c, acts)
    BY <1>6 DEF Respond, AttemptFails
  <2>2. attempts[c] < MaxAttempts /\ performed[c] <= attempts[c] /\ phase[c] # "done"
    BY <2>1 DEF Send, ExecutionFits, Progress, TypeOK
  <2>3. /\ attempts' \in [Executions -> 0..MaxAttempts]
        /\ performed' \in [Executions -> 0..MaxAttempts]
    BY <2>1, <2>2 DEF Send, TypeOK
  <2>4. /\ phase' \in [Executions -> Phases]
        /\ result' \in [Executions -> {"none", "success", "failure"}]
        /\ source' \in [Executions -> Executions \cup {NoExecution}]
        /\ \A d \in Executions \ {c} :
              phase'[d] = phase[d] /\ result'[d] = result[d] /\ source'[d] = source[d]
    BY <1>6 DEF Respond, AttemptFails, Returns, GoesTo, TypeOK, Phases
  <2>5. QED
    BY <2>1, <2>2, <2>3, <2>4 DEF Send, TypeOK, OthersKeep
<1>7. CASE Report(c)
  BY <1>7 DEF Report, GoesTo, TypeOK, Phases, OthersKeep
<1>8. CASE Store(c)
  BY <1>1, <1>8 DEF Store, GoesTo, TypeOK, Phases, OthersKeep
<1>9. QED
  BY <1>2, <1>3, <1>4, <1>5, <1>6, <1>7, <1>8 DEF Step

\* So what is cached stays as it is.
LEMMA StepKeepsCachable ==
    ASSUME ToolsInv, NEW c \in Executions, OthersKeep(c), NEW d, Cachable(d)
    PROVE  Cachable(d)' /\ call'[d] = call[d] /\ stored'[d] = stored[d] /\ d # c
BY DEF OthersKeep, Cachable

LEMMA StepKeepsEntries ==
    ASSUME ToolsInv, NEW c \in Executions, Step(c), TypeOK', OthersKeep(c), NEW k \in Keys
    PROVE  EntryFits(k)'
<1>. USE DEF ToolsInv
<1>1. CASE holder'[k] = holder[k] /\ expiry'[k] = expiry[k]
  BY <1>1, StepKeepsCachable DEF EntryFits, OthersKeep
<1>2. CASE ~(holder'[k] = holder[k] /\ expiry'[k] = expiry[k])
  <2>1. Store(c) /\ k = Key(c) /\ Key(c) \in Keys
    BY <1>2 DEF Step, Begin, Hit, Miss, CircuitRefuses, Answer, Respond, AttemptFails, Send,
                Report, Store, Die, cache, TypeOK, Key, Keys
  <2>2. /\ holder'[k] = c /\ expiry'[k] = now + TTL(call[c]) /\ stored'[c] = now
        /\ phase'[c] = "done"
        /\ UNCHANGED <<now, call, result, source>>
    BY <1>2, <2>1 DEF Store, GoesTo, cache, TypeOK
  <2>3. /\ source[c] = c /\ result[c] = "success" /\ TTL(call[c]) # 0 /\ ~IsWrite(call[c])
    BY <2>1 DEF Store, ExecutionFits, Progress
  <2>4. TTL(call[c]) \in Nat /\ now \in Nat
    BY CallsAssumption DEF TypeOK
  <2>5. QED
    BY <2>1, <2>2, <2>3, <2>4 DEF EntryFits, Cachable, Key
<1>3. QED
  BY <1>1, <1>2

LEMMA StepKeepsProgress ==
    ASSUME ToolsInv, NEW c \in Executions, Step(c)
    PROVE  Progress(c)' /\ OwnAnswerFits(c)'
<1>. USE CallsAssumption DEF ToolsInv, ExecutionFits
<1>1. CASE Begin(c) \/ Miss(c) \/ CircuitRefuses(c) \/ Die(c)
  <2>1. phase'[c] \in {"admitted", "missed", "raised"} /\ UNCHANGED service
    BY <1>1 DEF Begin, Miss, CircuitRefuses, Die, GoesTo, TypeOK
  <2>2. phase'[c] \in {"admitted", "missed"} => attempts[c] = 0
    BY <1>1 DEF Begin, Miss, CircuitRefuses, Die, GoesTo, TypeOK, Progress
  <2>3. performed'[c] <= attempts'[c] /\ attempts'[c] = attempts[c]
    BY <2>1 DEF service, Progress
  <2>4. Progress(c)'
    BY <2>1, <2>2, <2>3 DEF Progress
  <2>5. OwnAnswerFits(c)'
    BY <2>1 DEF OwnAnswerFits
  <2>6. QED
    BY <2>4, <2>5
<1>2. CASE Hit(c)
  <2>1. holder[Key(c)] \in Executions /\ source[holder[Key(c)]] # c
    BY <1>2 DEF Hit, TypeOK, Key, Keys, EntryFits, Cachable
  <2>2. QED
    BY <1>2, <2>1 DEF Hit, GoesTo, service, TypeOK, Progress, OwnAnswerFits
<1>3. CASE Answer(c)
  BY <1>3 DEF Answer, Returns, GoesTo, service, TypeOK, Progress, OwnAnswerFits
<1>4. CASE Respond(c) \/ AttemptFails(c)
  <2>1. PICK acts \in BOOLEAN : Send(c, acts) /\ (Respond(c) => acts)
    BY <1>4 DEF Respond, AttemptFails
  <2>2. /\ phase[c] \in {"missed", "trying"} /\ PluginAnswer(call[c]) = "request"
        /\ attempts'[c] = attempts[c] + 1 /\ attempts[c] \in Nat /\ performed[c] \in Nat
        /\ performed'[c] = IF acts /\ Posts(call[c]) THEN performed[c] + 1 ELSE performed[c]
        /\ performed[c] <= attempts[c]
        /\ call' = call
    BY <2>1 DEF Send, Progress, TypeOK
  <2>3. CASE Respond(c)
    <3>1. acts /\ phase'[c] = "answered" /\ source'[c] = c
      BY <2>1, <2>3 DEF Respond, Returns, GoesTo, TypeOK
    <3>2. Posts(call[c]) => performed'[c] = performed[c] + 1
      BY <2>2, <3>1
    <3>3. performed'[c] <= attempts'[c]
      BY <2>2
    <3>4. QED
      BY <2>2, <3>1, <3>2, <3>3 DEF Progress, OwnAnswerFits
  <2>4. CASE AttemptFails(c)
    <3>1. \/ phase'[c] = "trying" /\ attempts[c] + 1 < MaxAttempts
          \/ phase'[c] = "answered" /\ source'[c] = c /\ result'[c] = "failure"
      BY <2>4 DEF AttemptFails, Returns, GoesTo, TypeOK
    <3>2. QED
      BY <2>2, <3>1 DEF Progress, OwnAnswerFits
  <2>5. QED
    BY <1>4, <2>3, <2>4
<1>5. CASE Report(c)
  BY <1>5 DEF Report, GoesTo, service, TypeOK, Progress, OwnAnswerFits
<1>6. CASE Store(c)
  BY <1>6 DEF Store, GoesTo, service, TypeOK, Progress, OwnAnswerFits
<1>7. QED
  BY <1>1, <1>2, <1>3, <1>4, <1>5, <1>6 DEF Step

LEMMA StepKeepsAnswers ==
    ASSUME ToolsInv, NEW c \in Executions, Step(c), TypeOK', OthersKeep(c)
    PROVE  CachedAnswerFits(c)'
<1>. USE DEF ToolsInv, ExecutionFits
<1>1. CASE Hit(c)
  <2>1. PICK d \in Executions :
           /\ d = holder[Key(c)] /\ Cachable(d) /\ KeyOf(call[d]) = KeyOf(call[c])
           /\ now < stored[d] + TTL(call[d])
    BY <1>1 DEF Hit, TypeOK, Key, Keys, EntryFits, Cachable
  <2>2. /\ source'[c] = d /\ result'[c] = "success" /\ answeredAt'[c] = now
        /\ call' = call /\ stored' = stored /\ ~IsWrite(call[c])
    BY <1>1, <2>1 DEF Hit, cache, TypeOK, Cachable
  <2>3. Cachable(d)' /\ source'[c] \in Executions
    BY <2>1, <2>2, StepKeepsCachable DEF Cachable, OthersKeep, TypeOK
  <2>4. QED
    BY <2>1, <2>2, <2>3 DEF CachedAnswerFits, Cachable
<1>2. CASE ~Hit(c)
  <2>1. phase'[c] = "done" => source'[c] = c
    <3>1. CASE Report(c) \/ Store(c)
      BY <3>1 DEF Report, Store, Progress
    <3>2. CASE Begin(c) \/ Miss(c) \/ CircuitRefuses(c) \/ Die(c) \/ Answer(c)
      BY <3>2 DEF Begin, Miss, CircuitRefuses, Die, Answer, Returns, GoesTo, TypeOK
    <3>3. CASE Respond(c) \/ AttemptFails(c)
      BY <3>3 DEF Respond, AttemptFails, Returns, GoesTo, TypeOK
    <3>4. QED
      BY <1>2, <3>1, <3>2, <3>3 DEF Step
  <2>2. QED
    BY <2>1 DEF CachedAnswerFits
<1>3. QED
  BY <1>1, <1>2

-----------------------------------------------------------------------------

LEMMA NextKeeps == ToolsInv /\ [Next]_vars => ToolsInv'
<1>. SUFFICES ASSUME ToolsInv, [Next]_vars PROVE ToolsInv'
  OBVIOUS
<1>1. ASSUME NEW c \in Executions, Step(c) PROVE ToolsInv'
  <2>1. TypeOK' /\ OthersKeep(c)
    BY <1>1, StepKeepsTypes
  <2>2. \A k \in Keys : EntryFits(k)'
    BY <1>1, <2>1, StepKeepsEntries
  <2>3. ExecutionFits(c)'
    BY <1>1, <2>1, StepKeepsProgress, StepKeepsAnswers DEF ExecutionFits
  <2>4. ASSUME NEW e \in Executions \ {c} PROVE ExecutionFits(e)'
    <3>1. ExecutionFits(e)
      BY DEF ToolsInv
    <3>2. Progress(e)' /\ OwnAnswerFits(e)'
      BY <2>1, <3>1 DEF OthersKeep, ExecutionFits, Progress, OwnAnswerFits
    <3>3. CachedAnswerFits(e)'
      BY <2>1, <3>1, StepKeepsCachable DEF OthersKeep, ExecutionFits, CachedAnswerFits
    <3>4. QED
      BY <3>2, <3>3 DEF ExecutionFits
  <2>5. QED
    BY <2>1, <2>2, <2>3, <2>4 DEF ToolsInv
<1>2. CASE Tick
  <2>1. TypeOK'
    BY <1>2, CallsAssumption DEF ToolsInv, Tick, service, TypeOK
  <2>2. \A k \in Keys : EntryFits(k)'
    <3>1. ASSUME NEW k \in Keys, holder'[k] # NoExecution PROVE holder'[k] = holder[k] /\ now' < expiry[k]
      <4>1. holder'[k] = holder[k] /\ ~(expiry[k] <= now')
        BY <1>2, <3>1 DEF Tick
      <4>2. expiry[k] \in Nat /\ now' \in Nat
        BY <1>2 DEF Tick, ToolsInv, TypeOK
      <4>3. QED
        BY <4>1, <4>2
    <3>2. QED
      BY <1>2, <3>1 DEF Tick, service, ToolsInv, EntryFits, Cachable
  <2>3. \A c \in Executions : ExecutionFits(c)'
    BY <1>2 DEF Tick, service, ToolsInv, ExecutionFits, Progress, CachedAnswerFits, OwnAnswerFits,
                Cachable
  <2>4. QED
    BY <2>1, <2>2, <2>3 DEF ToolsInv
<1>3. CASE UNCHANGED vars
  BY <1>3 DEF vars, cache, service, ToolsInv, TypeOK, EntryFits, ExecutionFits, Progress,
              CachedAnswerFits, OwnAnswerFits, Cachable
<1>4. QED
  BY <1>1, <1>2, <1>3 DEF Next, Step

LEMMA ToolsInvariant == Spec => []ToolsInv
BY InitEstablishes, NextKeeps, PTL DEF Spec

-----------------------------------------------------------------------------

\* Places, results and counters stay in range; no execution sends more than
\* MaxAttempts requests.
THEOREM ToolsTypeCorrect == Spec => []TypeOK
BY ToolsInvariant, PTL DEF ToolsInv

\* The cache answers with successes of executions that had the same key, never of a
\* write.
THEOREM AnswersAlwaysBelong == Spec => []AnswersBelong
<1>1. ToolsInv => AnswersBelong
  BY DEF ToolsInv, ExecutionFits, CachedAnswerFits, Cachable, AnswersBelong, FromCache, Done
<1>2. QED
  BY <1>1, ToolsInvariant, PTL

\* Entries are answered with for one TTL from their own execution's write.
THEOREM AnswersAlwaysExpire == Spec => []AnswersExpire
<1>1. ToolsInv => AnswersExpire
  BY DEF ToolsInv, ExecutionFits, CachedAnswerFits, AnswersExpire, FromCache, Done
<1>2. QED
  BY <1>1, ToolsInvariant, PTL

\* If the heuristic for writes knows every call that changes the service's state,
\* a write that is reported successful has been performed for that very execution.
WritesKnown == \A x \in Calls : Posts(x) => IsWrite(x) /\ PluginAnswer(x) = "request"
THEOREM WritesAlwaysReachService ==
    ASSUME WritesKnown
    PROVE  Spec => []WritesReachService
<1>1. ASSUME ToolsInv PROVE WritesReachService
  <2>1. ASSUME NEW c \in Done, Posts(call[c]), result[c] = "success"
        PROVE  performed[c] \in 1..MaxAttempts
    <3>1. c \in Executions /\ phase[c] = "done" /\ call[c] \in Calls /\ performed[c] \in 0..MaxAttempts
      BY <1>1 DEF Done, ToolsInv, TypeOK
    <3>2. source[c] = c
      BY <1>1, <2>1, <3>1, WritesKnown DEF WritesKnown, ToolsInv, ExecutionFits, CachedAnswerFits
    <3>3. performed[c] > 0
      BY <1>1, <2>1, <3>1, <3>2, WritesKnown DEF WritesKnown, ToolsInv, ExecutionFits, OwnAnswerFits
    <3>4. QED
      BY <3>1, <3>3, CallsAssumption
  <2>2. QED
    BY <2>1 DEF WritesReachService
<1>2. QED
  BY <1>1, ToolsInvariant, PTL

-----------------------------------------------------------------------------
(* Recursion over arguments                                                *)

\* What is directly inside a value, and one layer of each recursion of module ToolCalls.
PartsOf(v) == {p[2] : p \in v.items}
PairParts(vw) == {<<p[2], q[2]>> : p \in vw[1].items, q \in vw[2].items}

NormalizeLayer(f, v) ==
    IF v.kind = "dict" THEN Dict({<<p[1], f[p[2]]>> : p \in v.items}) ELSE Coerce(v)

AlikeLayer(f, vw) ==
    \/ SameScalar(vw[1], vw[2])
    \/ /\ vw[1].kind = "dict" /\ vw[2].kind = "dict"
       /\ \A p \in vw[1].items : \E q \in vw[2].items : p[1] = q[1] /\ f[<<p[2], q[2]>>]
       /\ \A q \in vw[2].items : \E p \in vw[1].items : p[1] = q[1] /\ f[<<p[2], q[2]>>]

RedactLayer(f, v) ==
    IF v.kind = "dict"
      THEN Dict({<<p[1], IF Sensitive(p[1]) THEN Redacted ELSE f[p[2]]>> : p \in v.items})
    ELSE IF v.kind = "list" THEN [v EXCEPT !.items = {<<p[1], f[p[2]]>> : p \in @}]
    ELSE IF v.kind = "str" /\ Len(v.text) > LongText THEN Shortened(v)
    ELSE v

LeavesLayer(f, v) ==
    IF v.kind \in {"dict", "list"}
      THEN UNION {{<<<<p[1]>> \o leaf[1], leaf[2]>> : leaf \in f[p[2]]} : p \in v.items}
      ELSE {<<<<>>, v>>}

Normalizing == INSTANCE NestedData WITH Parts <- PartsOf, Layer <- NormalizeLayer
Comparing == INSTANCE NestedData WITH Parts <- PairParts, Layer <- AlikeLayer
Redacting == INSTANCE NestedData WITH Parts <- PartsOf, Layer <- RedactLayer
Listing == INSTANCE NestedData WITH Parts <- PartsOf, Layer <- LeavesLayer

ClosedSet(S) == \A v \in S : PartsOf(v) \subseteq S
FoundedSet(S) == \A T \in SUBSET S : T # {} => \E v \in T : PartsOf(v) \cap T = {}

Less == {ss \in Nat \X Nat : ss[1] < ss[2]}
LEMMA LeastNumber ==
    ASSUME NEW N \in SUBSET Nat, N # {}
    PROVE  \E n \in N : \A m \in N : n <= m
<1>1. OpToRel(<, Nat) = Less
  BY Zenon DEF OpToRel, Less
<1>2. IsWellFoundedOn(Less, Nat)
  BY <1>1, NatLessThanWellFounded, Zenon
<1>3. PICK n \in N : \A m \in N : <<m, n>> \notin Less
  BY <1>2, WFMin
<1>4. \A m, k \in Nat : <<m, k>> \in Less <=> m < k
  BY DEF Less
<1>5. ASSUME NEW m \in N PROVE n <= m
  <2>1. m \in Nat /\ n \in Nat
    OBVIOUS
  <2>2. ~(m < n)
    BY <1>3, <1>4, <2>1
  <2>3. QED
    BY <2>1, <2>2
<1>6. QED
  BY <1>5

\* Values nest finitely, so that any set of them has one that contains no other of it.
LEMMA ValuesNest == ClosedSet(Values) /\ FoundedSet(Values)
<1>1. ClosedSet(Values)
  BY ValuesAssumption DEF ClosedSet, PartsOf
<1>2. ASSUME NEW T \in SUBSET Values, T # {}
      PROVE  \E v \in T : PartsOf(v) \cap T = {}
  <2>1. {Nesting(v) : v \in T} \in SUBSET Nat /\ {Nesting(v) : v \in T} # {}
    BY <1>2, ValuesAssumption
  <2>2. PICK n \in {Nesting(v) : v \in T} : \A m \in {Nesting(v) : v \in T} : n <= m
    BY <2>1, LeastNumber
  <2>3. PICK v \in T : \A w \in T : Nesting(v) <= Nesting(w)
    BY <2>2
  <2>4. PartsOf(v) \cap T = {}
    BY <2>3, ValuesAssumption DEF PartsOf
  <2>5. QED
    BY <2>4
<1>3. QED
  BY <1>1, <1>2 DEF FoundedSet

\* Pairs of values nest as their first values do.
LEMMA PairsNest ==
    /\ \A vw \in Values \X Values : PairParts(vw) \subseteq Values \X Values
    /\ \A T \in SUBSET (Values \X Values) : T # {} => \E vw \in T : PairParts(vw) \cap T = {}
<1>1. ASSUME NEW v \in Values, NEW w \in Values
      PROVE  PairParts(<<v, w>>) \subseteq Values \X Values
  BY ValuesAssumption DEF PairParts
<1>2. ASSUME NEW T \in SUBSET (Values \X Values), T # {}
      PROVE  \E vw \in T : PairParts(vw) \cap T = {}
  <2>. DEFINE V == {vw[1] : vw \in T}
  <2>1. V \in SUBSET Values /\ V # {}
    BY <1>2
  <2>2. PICK v \in V : PartsOf(v) \cap V = {}
    BY <2>1, ValuesNest DEF FoundedSet
  <2>3. PICK vw \in T : vw[1] = v
    BY <2>2
  <2>4. ASSUME NEW xy \in PairParts(vw), xy \in T PROVE FALSE
    <3>1. xy[1] \in PartsOf(v)
      BY <2>3, <2>4 DEF PairParts, PartsOf
    <3>2. QED
      BY <2>2, <2>4, <3>1
  <2>5. QED
    BY <2>4
<1>3. QED
  BY <1>1, <1>2

\* So the recursive functions are what their definitions say.
LEMMA NormalizeDefined ==
    NormalizeArguments = [v \in Values |-> NormalizeLayer(NormalizeArguments, v)]
<1>1. NormalizeArguments = Normalizing!Recursion(Values)
  BY Zenon DEF NormalizeArguments, Normalizing!Recursion, NormalizeLayer
<1>2. Normalizing!Closed(Values) /\ Normalizing!Founded(Values)
  BY ValuesNest DEF Normalizing!Closed, Normalizing!Founded, ClosedSet, FoundedSet
<1>3. Normalizing!UsesParts(Values)
  BY DEF Normalizing!UsesParts, NormalizeLayer, PartsOf
<1>4. QED
  BY <1>1, <1>2, <1>3, Normalizing!RecursionDefined

LEMMA AlikeDefined == Alike = [vw \in Values \X Values |-> AlikeLayer(Alike, vw)]
<1>1. Alike = Comparing!Recursion(Values \X Values)
  BY Zenon DEF Alike, Comparing!Recursion, AlikeLayer
<1>2. Comparing!Closed(Values \X Values) /\ Comparing!Founded(Values \X Values)
  BY PairsNest DEF Comparing!Closed, Comparing!Founded
<1>3. Comparing!UsesParts(Values \X Values)
  <2>1. ASSUME NEW vw \in Values \X Values, NEW f, NEW g, \A xy \in PairParts(vw) : f[xy] = g[xy]
        PROVE  AlikeLayer(f, vw) = AlikeLayer(g, vw)
    <3>1. \A p \in vw[1].items, q \in vw[2].items : f[<<p[2], q[2]>>] = g[<<p[2], q[2]>>]
      BY <2>1 DEF PairParts
    <3>2. QED
      BY <3>1 DEF AlikeLayer
  <2>2. QED
    BY <2>1 DEF Comparing!UsesParts
<1>4. QED
  BY <1>1, <1>2, <1>3, Comparing!RecursionDefined

LEMMA RedactDefined ==
    ASSUME NEW S, ClosedSet(S), FoundedSet(S)
    PROVE  RedactIn(S) = [v \in S |-> RedactLayer(RedactIn(S), v)]
<1>1. RedactIn(S) = Redacting!Recursion(S)
  BY Zenon DEF RedactIn, Redacting!Recursion, RedactLayer
<1>2. Redacting!Closed(S) /\ Redacting!Founded(S)
  BY DEF Redacting!Closed, Redacting!Founded, ClosedSet, FoundedSet
<1>3. ASSUME NEW v \in S, NEW f, NEW g, \A w \in PartsOf(v) : f[w] = g[w]
      PROVE  RedactLayer(f, v) = RedactLayer(g, v)
  <2>1. \A p \in v.items : f[p[2]] = g[p[2]]
    BY <1>3 DEF PartsOf
  <2>2. {<<p[1], f[p[2]]>> : p \in v.items} = {<<p[1], g[p[2]]>> : p \in v.items}
    BY <2>1
  <2>3. {<<p[1], IF Sensitive(p[1]) THEN Redacted ELSE f[p[2]]>> : p \in v.items}
          = {<<p[1], IF Sensitive(p[1]) THEN Redacted ELSE g[p[2]]>> : p \in v.items}
    BY <2>1
  <2>4. QED
    BY <2>2, <2>3, Zenon DEF RedactLayer
<1>4. QED
  BY <1>1, <1>2, <1>3, Redacting!RecursionDefined DEF Redacting!UsesParts

LEMMA LeavesDefined ==
    ASSUME NEW S, ClosedSet(S), FoundedSet(S)
    PROVE  LeavesIn(S) = [v \in S |-> LeavesLayer(LeavesIn(S), v)]
<1>1. LeavesIn(S) = Listing!Recursion(S)
  BY Zenon DEF LeavesIn, Listing!Recursion, LeavesLayer
<1>2. Listing!Closed(S) /\ Listing!Founded(S)
  BY DEF Listing!Closed, Listing!Founded, ClosedSet, FoundedSet
<1>3. ASSUME NEW v \in S, NEW f, NEW g, \A w \in PartsOf(v) : f[w] = g[w]
      PROVE  LeavesLayer(f, v) = LeavesLayer(g, v)
  <2>1. \A p \in v.items : f[p[2]] = g[p[2]]
    BY <1>3 DEF PartsOf
  <2>. DEFINE Below(h, p) == {<<<<p[1]>> \o leaf[1], leaf[2]>> : leaf \in h[p[2]]}
  <2>2. \A p \in v.items : Below(f, p) = Below(g, p)
    BY <2>1
  <2>3. {Below(f, p) : p \in v.items} = {Below(g, p) : p \in v.items}
    <3>. HIDE DEF Below
    <3>1. QED
      BY <2>2
  <2>4. QED
    BY <2>3, Zenon DEF LeavesLayer
<1>4. QED
  BY <1>1, <1>2, <1>3, Listing!RecursionDefined DEF Listing!UsesParts

-----------------------------------------------------------------------------
(* The cache's keys                                                        *)

LEMMA ValueFields ==
    ASSUME NEW k, NEW t, NEW r, NEW n, NEW i, NEW kk, NEW tt, NEW rr, NEW nn, NEW ii
    PROVE  /\ Value(k, t, r, n, i).kind = k
           /\ Value(k, t, r, n, i).text = t
           /\ Value(k, t, r, n, i).written = r
           /\ Value(k, t, r, n, i).number = n
           /\ Value(k, t, r, n, i).items = i
           /\ Value(k, t, r, n, i) = Value(kk, tt, rr, nn, ii)
                <=> k = kk /\ t = tt /\ r = rr /\ n = nn /\ i = ii
BY DEF Value

\* What is left of a scalar in a key.
LEMMA CoercedFields ==
    ASSUME NEW v \in Values
    PROVE  Coerce(v) = Value(IF v.kind = "int" THEN "float" ELSE v.kind, v.text,
                             IF v.kind = "str" THEN "plain" ELSE v.written,
                             IF v.kind = "int" THEN Double(v.number) ELSE v.number, v.items)
<1>1. v = Value(v.kind, v.text, v.written, v.number, v.items)
  BY ValuesAssumption DEF WellFormed
<1>2. CASE v.kind = "str"
  BY <1>1, <1>2 DEF Coerce, Value
<1>3. CASE v.kind = "int"
  BY <1>1, <1>3 DEF Coerce, Value
<1>4. CASE v.kind \notin {"str", "int"}
  BY <1>1, <1>4 DEF Coerce
<1>5. QED
  BY <1>2, <1>3, <1>4

LEMMA CoercedAlike ==
    ASSUME NEW v \in Values, NEW w \in Values
    PROVE  Coerce(v) = Coerce(w) <=> SameScalar(v, w)
<1>1. WellFormed(v) /\ WellFormed(w)
  BY ValuesAssumption
<1>2. Coerce(v) = Coerce(w) <=>
        /\ (IF v.kind = "int" THEN "float" ELSE v.kind) = (IF w.kind = "int" THEN "float" ELSE w.kind)
        /\ v.text = w.text
        /\ (IF v.kind = "str" THEN "plain" ELSE v.written) = (IF w.kind = "str" THEN "plain" ELSE w.written)
        /\ (IF v.kind = "int" THEN Double(v.number) ELSE v.number)
             = (IF w.kind = "int" THEN Double(w.number) ELSE w.number)
        /\ v.items = w.items
  BY CoercedFields, ValueFields
<1>3. v = w <=> /\ v.kind = w.kind /\ v.text = w.text /\ v.written = w.written
                /\ v.number = w.number /\ v.items = w.items
  BY <1>1, ValueFields DEF WellFormed
<1>4. QED
  BY <1>1, <1>2, <1>3 DEF SameScalar, WellFormed

\* Dicts are normalized to one dict if their items are, pair by pair.
LEMMA NormalizedDicts ==
    ASSUME NEW v \in Values, v.kind = "dict", NEW w \in Values, w.kind = "dict",
           \A p \in v.items, q \in w.items :
              NormalizeArguments[p[2]] = NormalizeArguments[q[2]] <=> Alike[<<p[2], q[2]>>]
    PROVE  NormalizeArguments[v] = NormalizeArguments[w] <=> Alike[<<v, w>>]
<1>. DEFINE Pair(p) == <<p[1], NormalizeArguments[p[2]]>>
            A == {Pair(p) : p \in v.items}
            B == {Pair(q) : q \in w.items}
            Similar == /\ \A p \in v.items : \E q \in w.items : p[1] = q[1] /\ Alike[<<p[2], q[2]>>]
                       /\ \A q \in w.items : \E p \in v.items : p[1] = q[1] /\ Alike[<<p[2], q[2]>>]
<1>1. NormalizeArguments[v] = Dict(A) /\ NormalizeArguments[w] = Dict(B)
  BY NormalizeDefined DEF NormalizeLayer
<1>2. \A p \in v.items, q \in w.items :
         Pair(p) = Pair(q) <=> p[1] = q[1] /\ Alike[<<p[2], q[2]>>]
  OBVIOUS
<1>3. A = B <=> Similar
  <2>. HIDE DEF Pair
  <2>1. A = B <=> /\ \A p \in v.items : \E q \in w.items : Pair(p) = Pair(q)
                  /\ \A q \in w.items : \E p \in v.items : Pair(p) = Pair(q)
    OBVIOUS
  <2>2. QED
    BY <1>2, <2>1
<1>4. Dict(A) = Dict(B) <=> A = B
  <2>. HIDE DEF A, B
  <2>1. QED
    BY ValueFields DEF Dict
<1>5. Alike[<<v, w>>] <=> SameScalar(v, w) \/ Similar
  <2>1. Alike[<<v, w>>] = AlikeLayer(Alike, <<v, w>>)
    BY AlikeDefined
  <2>2. QED
    BY <2>1 DEF AlikeLayer
<1>6. SameScalar(v, w) => v = w
  BY DEF SameScalar
<1>7. QED
  <2>. HIDE DEF A, B, Similar
  <2>1. QED
    BY <1>1, <1>3, <1>4, <1>5, <1>6

\* Arguments are normalized to the same exactly if they are alike, however deep they
\* nest: a least deep counterexample would have a less deep one inside.
THEOREM AlikeShareKeys ==
    \A v, w \in Values : NormalizeArguments[v] = NormalizeArguments[w] <=> Alike[<<v, w>>]
<1>. DEFINE Fits(v, w) == NormalizeArguments[v] = NormalizeArguments[w] <=> Alike[<<v, w>>]
            T == {v \in Values : \E w \in Values : ~Fits(v, w)}
<1>. SUFFICES ASSUME T # {} PROVE FALSE
  OBVIOUS
<1>1. PICK v \in T : PartsOf(v) \cap T = {}
  BY ValuesNest DEF FoundedSet
<1>2. PICK w \in Values : ~Fits(v, w)
  OBVIOUS
<1>3. v \in Values
  OBVIOUS
<1>4. CASE v.kind = "dict" /\ w.kind = "dict"
  <2>1. ASSUME NEW p \in v.items, NEW q \in w.items PROVE Fits(p[2], q[2])
    <3>1. p[2] \in Values /\ q[2] \in Values /\ p[2] \notin T
      BY <1>1, <1>3, ValuesAssumption DEF PartsOf
    <3>2. QED
      BY <3>1
  <2>2. QED
    BY <1>2, <1>3, <1>4, <2>1, NormalizedDicts
<1>5. CASE ~(v.kind = "dict" /\ w.kind = "dict")
  <2>1. Alike[<<v, w>>] <=> SameScalar(v, w)
    BY <1>3, <1>5, AlikeDefined DEF AlikeLayer
  <2>2. NormalizeArguments[v] = NormalizeArguments[w] <=> SameScalar(v, w)
    <3>1. CASE v.kind # "dict" /\ w.kind # "dict"
      BY <1>3, <3>1, NormalizeDefined, CoercedAlike DEF NormalizeLayer
    <3>2. CASE v.kind = "dict" /\ w.kind # "dict"
      <4>1. NormalizeArguments[v].kind = "dict"
        BY <1>3, <3>2, NormalizeDefined, ValueFields DEF NormalizeLayer, Dict
      <4>2. NormalizeArguments[w].kind # "dict"
        BY <3>2, NormalizeDefined, CoercedFields, ValueFields DEF NormalizeLayer
      <4>3. ~SameScalar(v, w)
        BY <3>2 DEF SameScalar
      <4>4. QED
        BY <4>1, <4>2, <4>3
    <3>3. CASE v.kind # "dict" /\ w.kind = "dict"
      <4>1. NormalizeArguments[w].kind = "dict"
        BY <3>3, NormalizeDefined, ValueFields DEF NormalizeLayer, Dict
      <4>2. NormalizeArguments[v].kind # "dict"
        BY <1>3, <3>3, NormalizeDefined, CoercedFields, ValueFields DEF NormalizeLayer
      <4>3. ~SameScalar(v, w)
        BY <3>3 DEF SameScalar
      <4>4. QED
        BY <4>1, <4>2, <4>3
    <3>4. QED
      BY <1>5, <3>1, <3>2, <3>3
  <2>3. QED
    BY <1>2, <2>1, <2>2
<1>6. QED
  BY <1>4, <1>5

-----------------------------------------------------------------------------
(* The log                                                                 *)

LEMMA RedactUnfolds == Redact = [v \in Values |-> RedactLayer(Redact, v)]
BY ValuesNest, RedactDefined DEF Redact

\* A container is redacted item by item: no position of a list is sensitive.
RedactedItem(p) == <<p[1], IF Sensitive(p[1]) THEN Redacted ELSE Redact[p[2]]>>
RedactedItems(v) == {RedactedItem(p) : p \in v.items}

LEMMA ContainerRedacted ==
    ASSUME NEW v \in Values, v.kind \in {"dict", "list"}
    PROVE  Redact[v] = Value(v.kind, <<>>, "plain", 0, RedactedItems(v))
<1>1. WellFormed(v)
  BY ValuesAssumption
<1>2. CASE v.kind = "dict"
  <2>1. Redact[v] = Dict(RedactedItems(v))
    BY <1>2, RedactUnfolds DEF RedactLayer, RedactedItems, RedactedItem
  <2>2. QED
    BY <1>2, <2>1 DEF Dict
<1>3. CASE v.kind = "list"
  <2>. DEFINE plain == {<<p[1], Redact[p[2]]>> : p \in v.items}
  <2>1. Redact[v] = [v EXCEPT !.items = plain]
    BY <1>3, RedactUnfolds, Zenon DEF RedactLayer
  <2>2. \A p \in v.items : ~Sensitive(p[1])
    BY <1>1, <1>3 DEF WellFormed, Sensitive, SensitiveWords
  <2>3. plain = RedactedItems(v)
    BY <2>2 DEF RedactedItems, RedactedItem
  <2>. HIDE DEF plain
  <2>4. v = Value("list", <<>>, "plain", 0, v.items)
    BY <1>1, <1>3 DEF WellFormed
  <2>5. [v EXCEPT !.items = plain] = Value("list", <<>>, "plain", 0, plain)
    BY <2>4 DEF Value
  <2>6. QED
    BY <1>3, <2>1, <2>3, <2>5
<1>4. QED
  BY <1>2, <1>3

LEMMA ScalarRedacted ==
    ASSUME NEW v \in Values, v.kind \notin {"dict", "list"}
    PROVE  /\ Redact[v] \in {v, Shortened(v)}
           /\ Redact[v].kind = v.kind /\ Redact[v].items = {}
           /\ v.kind = "str" => ~(Len(Redact[v].text) > LongText)
<1>1. Redact[v] = IF v.kind = "str" /\ Len(v.text) > LongText THEN Shortened(v) ELSE v
  BY RedactUnfolds DEF RedactLayer
<1>2. v = Value(v.kind, v.text, v.written, v.number, v.items) /\ v.items = {}
  BY ValuesAssumption DEF WellFormed
<1>3. Shortened(v) = Value(v.kind, <<v.text[1], "truncated">>, v.written, v.number, {})
  BY <1>2 DEF Shortened, Value
<1>4. CASE v.kind = "str" /\ Len(v.text) > LongText
  <2>1. Redact[v] = Shortened(v)
    BY <1>1, <1>4
  <2>2. Redact[v].kind = v.kind /\ Redact[v].items = {}
    BY <1>3, <2>1, ValueFields
  <2>3. Redact[v].text = <<v.text[1], "truncated">>
    BY <1>3, <2>1, ValueFields
  <2>4. Len(<<v.text[1], "truncated">>) = 2
    OBVIOUS
  <2>5. QED
    BY <2>1, <2>2, <2>3, <2>4 DEF LongText
<1>5. CASE ~(v.kind = "str" /\ Len(v.text) > LongText)
  BY <1>1, <1>2, <1>5
<1>6. QED
  BY <1>4, <1>5

LEMMA RedactedFields == Redacted.kind = "str" /\ Redacted.items = {} /\ Redacted.text = <<"redacted">>
BY ValueFields DEF Redacted, Text

\* What is logged nests no deeper than what was given.
LEMMA PartsRedacted ==
    ASSUME NEW v \in Values
    PROVE  PartsOf(Redact[v]) \subseteq {Redacted} \cup {Redact[w] : w \in PartsOf(v)}
<1>1. CASE v.kind \in {"dict", "list"}
  <2>1. Redact[v].items = RedactedItems(v)
    BY <1>1, ContainerRedacted, ValueFields
  <2>2. QED
    BY <2>1 DEF PartsOf, RedactedItems, RedactedItem
<1>2. CASE v.kind \notin {"dict", "list"}
  BY <1>2, ScalarRedacted DEF PartsOf
<1>3. QED
  BY <1>1, <1>2

LEMMA LoggedNest == ClosedSet(Logged) /\ FoundedSet(Logged)
<1>1. PartsOf(Redacted) = {}
  BY RedactedFields DEF PartsOf
<1>2. ClosedSet(Logged)
  <2>1. ASSUME NEW v \in Values PROVE PartsOf(Redact[v]) \subseteq Logged
    BY PartsRedacted, ValuesNest DEF Logged, ClosedSet
  <2>2. QED
    BY <1>1, <2>1 DEF ClosedSet, Logged
<1>3. ASSUME NEW T \in SUBSET Logged, T # {} PROVE \E u \in T : PartsOf(u) \cap T = {}
  <2>1. CASE Redacted \in T
    BY <1>1, <2>1
  <2>2. CASE Redacted \notin T
    <3>. DEFINE V == {v \in Values : Redact[v] \in T}
    <3>1. V # {} /\ V \in SUBSET Values
      BY <1>3, <2>2 DEF Logged
    <3>2. PICK v \in V : PartsOf(v) \cap V = {}
      BY <3>1, ValuesNest DEF FoundedSet
    <3>3. ASSUME NEW w \in PartsOf(v) PROVE Redact[w] \notin T
      BY <3>2, ValuesNest DEF ClosedSet
    <3>4. PartsOf(Redact[v]) \cap T = {}
      BY <2>2, <3>3, PartsRedacted
    <3>5. QED
      BY <3>4
  <2>3. QED
    BY <2>1, <2>2
<1>4. QED
  BY <1>2, <1>3 DEF FoundedSet

LEMMA LogUnfolds ==
    /\ RedactLog = [u \in Logged |-> RedactLayer(RedactLog, u)]
    /\ Told = [u \in Logged |-> LeavesLayer(Told, u)]
    /\ Given = [v \in Values |-> LeavesLayer(Given, v)]
BY LoggedNest, ValuesNest, RedactDefined, LeavesDefined DEF RedactLog, Told, Given

-----------------------------------------------------------------------------

\* The keys of dicts and the positions of lists.
ItemKeys == UNION {{p[1] : p \in v.items} : v \in Values}

LEMMA HiddenBelow ==
    ASSUME NEW k \in ItemKeys, NEW path \in Seq(ItemKeys)
    PROVE  /\ <<k>> \o path \in Seq(ItemKeys)
           /\ Hidden(<<k>> \o path) <=> Sensitive(k) \/ Hidden(path)
<1>. DEFINE long == <<k>> \o path
<1>1. /\ long \in Seq(ItemKeys) /\ DOMAIN long = 1..(Len(path) + 1)
      /\ long[1] = k /\ \A i \in 1..Len(path) : long[i + 1] = path[i]
  OBVIOUS
<1>. HIDE DEF long
<1>2. ASSUME NEW i \in DOMAIN long PROVE i = 1 \/ (i - 1 \in 1..Len(path) /\ long[i] = path[i - 1])
  <2>1. CASE i # 1
    <3>1. i - 1 \in 1..Len(path) /\ (i - 1) + 1 = i
      BY <1>1, <2>1
    <3>2. QED
      BY <1>1, <3>1
  <2>2. QED
    BY <2>1
<1>3. Hidden(long) => Sensitive(k) \/ Hidden(path)
  BY <1>1, <1>2 DEF Hidden
<1>4. Sensitive(k) => Hidden(long)
  BY <1>1 DEF Hidden
<1>5. ASSUME Hidden(path) PROVE Hidden(long)
  <2>1. PICK i \in 1..Len(path) : Sensitive(path[i])
    BY <1>5 DEF Hidden
  <2>2. i + 1 \in DOMAIN long /\ Sensitive(long[i + 1])
    BY <1>1, <2>1
  <2>3. QED
    BY <2>2 DEF Hidden
<1>6. QED
  BY <1>1, <1>3, <1>4, <1>5 DEF long

\* The three parts of LogsAreClean, for any value.
ToldCleanly(v) ==
    \A leaf \in Told[Redact[v]] :
        leaf[1] \in Seq(ItemKeys) /\ (Hidden(leaf[1]) => leaf[2] = Redacted)
ToldFully(v) ==
    \A leaf \in Given[v] :
        /\ leaf[1] \in Seq(ItemKeys)
        /\ ~Hidden(leaf[1]) =>
              leaf \in Told[Redact[v]] \/ <<leaf[1], Shortened(leaf[2])>> \in Told[Redact[v]]
ToldOnce(v) == RedactLog[Redact[v]] = Redact[v]
LoggedWell(v) == ToldCleanly(v) /\ ToldFully(v) /\ ToldOnce(v)

LEMMA ScalarLoggedWell ==
    ASSUME NEW v \in Values, v.kind \notin {"dict", "list"}
    PROVE  LoggedWell(v)
<1>1. /\ Redact[v] \in Logged /\ Redact[v].kind \notin {"dict", "list"}
      /\ Redact[v] \in {v, Shortened(v)}
  BY ScalarRedacted DEF Logged
<1>2. Told[Redact[v]] = {<<<<>>, Redact[v]>>}
  BY <1>1, LogUnfolds DEF LeavesLayer
<1>3. Given[v] = {<<<<>>, v>>}
  BY LogUnfolds DEF LeavesLayer
<1>4. <<>> \in Seq(ItemKeys) /\ ~Hidden(<<>>)
  BY DEF Hidden
<1>5. ToldOnce(v)
  <2>1. RedactLog[Redact[v]] = RedactLayer(RedactLog, Redact[v])
    BY <1>1, LogUnfolds
  <2>2. QED
    BY <1>1, <2>1, ScalarRedacted DEF RedactLayer, ToldOnce
<1>6. QED
  BY <1>1, <1>2, <1>3, <1>4, <1>5 DEF LoggedWell, ToldCleanly, ToldFully

LEMMA ContainerLoggedWell ==
    ASSUME NEW v \in Values, v.kind \in {"dict", "list"}, \A w \in PartsOf(v) : LoggedWell(w)
    PROVE  LoggedWell(v)
<1>. DEFINE u == Redact[v]
<1>1. u \in Logged /\ u = Value(v.kind, <<>>, "plain", 0, RedactedItems(v))
  BY ContainerRedacted DEF Logged
<1>2. u.kind = v.kind /\ u.items = RedactedItems(v)
  BY <1>1, ValueFields
<1>3. ASSUME NEW p \in v.items
      PROVE  /\ p[1] \in ItemKeys /\ p[2] \in Values /\ LoggedWell(p[2])
             /\ RedactedItem(p)[1] = p[1]
             /\ RedactedItem(p)[2] = IF Sensitive(p[1]) THEN Redacted ELSE Redact[p[2]]
  BY ValuesAssumption DEF ItemKeys, PartsOf, RedactedItem
<1>4. /\ Redacted \in Logged /\ Told[Redacted] = {<<<<>>, Redacted>>}
      /\ RedactLog[Redacted] = Redacted
  <2>1. Redacted \in Logged
    BY DEF Logged
  <2>2. Told[Redacted] = LeavesLayer(Told, Redacted) /\ RedactLog[Redacted] = RedactLayer(RedactLog, Redacted)
    BY <2>1, LogUnfolds
  <2>3. Redacted.kind = "str" /\ ~(Len(Redacted.text) > LongText)
    BY RedactedFields DEF LongText
  <2>4. LeavesLayer(Told, Redacted) = {<<<<>>, Redacted>>}
    BY <2>3 DEF LeavesLayer
  <2>5. RedactLayer(RedactLog, Redacted) = Redacted
    BY <2>3, Zenon DEF RedactLayer
  <2>6. QED
    BY <2>1, <2>2, <2>4, <2>5
<1>5. Told[u] = UNION {{<<<<q[1]>> \o leaf[1], leaf[2]>> : leaf \in Told[q[2]]} : q \in u.items}
  BY <1>1, <1>2, LogUnfolds DEF LeavesLayer
<1>6. Given[v] = UNION {{<<<<p[1]>> \o leaf[1], leaf[2]>> : leaf \in Given[p[2]]} : p \in v.items}
  BY LogUnfolds DEF LeavesLayer
<1>. HIDE DEF u
<1>7. ToldCleanly(v)
  <2>1. ASSUME NEW leaf \in Told[u]
        PROVE  leaf[1] \in Seq(ItemKeys) /\ (Hidden(leaf[1]) => leaf[2] = Redacted)
    <3>1. PICK q \in u.items : \E below \in Told[q[2]] : leaf = <<<<q[1]>> \o below[1], below[2]>>
      BY <1>5
    <3>. PICK below \in Told[q[2]] : leaf = <<<<q[1]>> \o below[1], below[2]>>
      BY <3>1
    <3>2. PICK p \in v.items : q = RedactedItem(p)
      BY <1>2 DEF RedactedItems
    <3>3. leaf[1] = <<p[1]>> \o below[1] /\ leaf[2] = below[2]
      BY <1>3, <3>1, <3>2
    <3>4. below[1] \in Seq(ItemKeys)
            /\ (Sensitive(p[1]) \/ Hidden(below[1]) => below[2] = Redacted)
      <4>1. CASE Sensitive(p[1])
        <5>1. below \in Told[Redacted]
          BY <1>3, <3>2, <4>1
        <5>2. below[1] = <<>> /\ below[2] = Redacted
          BY <1>4, <5>1
        <5>3. QED
          BY <5>2
      <4>2. CASE ~Sensitive(p[1])
        <5>1. below \in Told[Redact[p[2]]] /\ ToldCleanly(p[2])
          BY <1>3, <3>1, <3>2, <4>2 DEF LoggedWell
        <5>2. QED
          BY <4>2, <5>1 DEF ToldCleanly
      <4>3. QED
        BY <4>1, <4>2
    <3>5. QED
      BY <1>3, <3>3, <3>4, HiddenBelow
  <2>2. QED
    BY <2>1 DEF ToldCleanly, u
<1>8. ToldFully(v)
  <2>1. ASSUME NEW leaf \in Given[v]
        PROVE  /\ leaf[1] \in Seq(ItemKeys)
               /\ ~Hidden(leaf[1]) =>
                     leaf \in Told[u] \/ <<leaf[1], Shortened(leaf[2])>> \in Told[u]
    <3>1. PICK p \in v.items : \E below \in Given[p[2]] : leaf = <<<<p[1]>> \o below[1], below[2]>>
      BY <1>6
    <3>. PICK below \in Given[p[2]] : leaf = <<<<p[1]>> \o below[1], below[2]>>
      BY <3>1
    <3>2. /\ below[1] \in Seq(ItemKeys)
          /\ ~Hidden(below[1]) => \/ below \in Told[Redact[p[2]]]
                                  \/ <<below[1], Shortened(below[2])>> \in Told[Redact[p[2]]]
      BY <1>3, <3>1 DEF LoggedWell, ToldFully
    <3>3. leaf[1] = <<p[1]>> \o below[1] /\ leaf[2] = below[2]
      BY <3>1
    <3>4. leaf[1] \in Seq(ItemKeys) /\ (Hidden(leaf[1]) <=> Sensitive(p[1]) \/ Hidden(below[1]))
      BY <1>3, <3>2, <3>3, HiddenBelow
    <3>5. ASSUME ~Sensitive(p[1]), NEW other \in Told[Redact[p[2]]]
          PROVE  <<<<p[1]>> \o other[1], other[2]>> \in Told[u]
      <4>1. RedactedItem(p) \in u.items /\ RedactedItem(p)[1] = p[1] /\ RedactedItem(p)[2] = Redact[p[2]]
        BY <1>2, <1>3, <3>5 DEF RedactedItems
      <4>. DEFINE Below(q) == {<<<<q[1]>> \o found[1], found[2]>> : found \in Told[q[2]]}
      <4>2. <<<<p[1]>> \o other[1], other[2]>> \in Below(RedactedItem(p))
        BY <3>5, <4>1
      <4>3. Told[u] = UNION {Below(q) : q \in u.items}
        BY <1>5, Zenon
      <4>. HIDE DEF Below
      <4>4. QED
        BY <4>1, <4>2, <4>3
    <3>6. ASSUME ~Hidden(leaf[1]), below \in Told[Redact[p[2]]] PROVE leaf \in Told[u]
      BY <3>1, <3>4, <3>5, <3>6
    <3>7. ASSUME ~Hidden(leaf[1]), <<below[1], Shortened(below[2])>> \in Told[Redact[p[2]]]
          PROVE  <<leaf[1], Shortened(leaf[2])>> \in Told[u]
      <4>. DEFINE other == <<below[1], Shortened(below[2])>>
      <4>1. other[1] = below[1] /\ other[2] = Shortened(below[2])
        OBVIOUS
      <4>. HIDE DEF other
      <4>2. <<<<p[1]>> \o other[1], other[2]>> \in Told[u]
        BY <3>4, <3>5, <3>7 DEF other
      <4>3. QED
        BY <3>3, <4>1, <4>2
    <3>8. QED
      BY <3>2, <3>4, <3>6, <3>7
  <2>2. QED
    BY <2>1 DEF ToldFully, u
<1>9. ToldOnce(v)
  <2>1. ASSUME NEW p \in v.items
        PROVE  <<RedactedItem(p)[1], IF Sensitive(RedactedItem(p)[1])
                                       THEN Redacted ELSE RedactLog[RedactedItem(p)[2]]>>
                 = RedactedItem(p)
    <3>1. ~Sensitive(p[1]) => RedactLog[Redact[p[2]]] = Redact[p[2]]
      BY <1>3 DEF LoggedWell, ToldOnce
    <3>2. QED
      BY <3>1 DEF RedactedItem
  <2>2. CASE v.kind = "dict"
    <3>. DEFINE again == {<<q[1], IF Sensitive(q[1]) THEN Redacted ELSE RedactLog[q[2]]>> : q \in u.items}
    <3>1. RedactLog[u] = Dict(again)
      BY <1>1, <1>2, <2>2, LogUnfolds DEF RedactLayer
    <3>2. again = u.items
      BY <1>2, <2>1 DEF RedactedItems
    <3>3. QED
      BY <1>1, <1>2, <2>2, <3>1, <3>2 DEF ToldOnce, Dict, u
  <2>3. CASE v.kind = "list"
    <3>. DEFINE again == {<<q[1], RedactLog[q[2]]>> : q \in u.items}
    <3>1. RedactLog[u] = [u EXCEPT !.items = again]
      <4>1. RedactLog[u] = RedactLayer(RedactLog, u)
        BY <1>1, LogUnfolds
      <4>2. u.kind = "list"
        BY <1>2, <2>3
      <4>3. QED
        BY <4>1, <4>2, Zenon DEF RedactLayer
    <3>2. \A p \in v.items : ~Sensitive(p[1])
      BY <2>3, ValuesAssumption DEF WellFormed, Sensitive, SensitiveWords
    <3>3. again = u.items
      <4>1. \A p \in v.items : <<RedactedItem(p)[1], RedactLog[RedactedItem(p)[2]]>> = RedactedItem(p)
        BY <1>3, <2>1, <3>2
      <4>2. QED
        BY <1>2, <4>1 DEF RedactedItems
    <3>. HIDE DEF again
    <3>4. [u EXCEPT !.items = u.items] = u
      BY <1>1 DEF Value
    <3>5. QED
      BY <3>1, <3>3, <3>4 DEF ToldOnce, u
  <2>4. QED
    BY <2>2, <2>3
<1>10. QED
  BY <1>7, <1>8, <1>9 DEF LoggedWell

\* Whatever nests finitely is logged without what is below a sensitive key, with all
\* the rest, and the same when it is redacted again.
THEOREM EveryValueLoggedWell == \A v \in Values : LoggedWell(v)
<1>. DEFINE T == {v \in Values : ~LoggedWell(v)}
<1>. SUFFICES ASSUME T # {} PROVE FALSE
  OBVIOUS
<1>1. PICK v \in T : PartsOf(v) \cap T = {}
  BY ValuesNest DEF FoundedSet
<1>2. \A w \in PartsOf(v) : LoggedWell(w)
  BY <1>1, ValuesNest DEF ClosedSet
<1>3. QED
  BY <1>2, ScalarLoggedWell, ContainerLoggedWell

-----------------------------------------------------------------------------
(* Executions of the real plugins                                          *)

\* The cache's heuristic recognises every call of create_issue.
LEMMA IssuesAreWrites == \A x : PostsIssue(x) => WritesNamed(x) /\ AnswerOf(x) = "request"
<1>1. ASSUME NEW x, PostsIssue(x) PROVE WritesNamed(x)
  <2>1. <<<<"action">>, Text(<<"create", "issue">>, "plain")>> \in x.arguments
    BY <1>1 DEF PostsIssue, Named
  <2>2. /\ Text(<<"create", "issue">>, "plain").kind = "str"
        /\ Text(<<"create", "issue">>, "plain").text = <<"create", "issue">>
    BY ValueFields DEF Text
  <2>3. "create" \in Words(<<"create", "issue">>) \cap WritePatterns
    BY DEF Words, WritePatterns
  <2>4. QED
    BY <2>1, <2>2, <2>3 DEF WritesNamed, IsWriteOperation
<1>2. QED
  BY <1>1 DEF AnswerOf

\* github_tool.py with tool_cache.py: an issue that is reported created has been
\* created for that very execution; no answer from the cache stands for it.
THEOREM IssuesAlwaysReachService ==
    ASSUME RealPlugins
    PROVE  Spec => []WritesReachService
<1>1. WritesKnown
  BY RealPlugins, IssuesAreWrites DEF RealPlugins, WritesKnown
<1>2. QED
  BY <1>1, WritesAlwaysReachService

\* tool_cache.py: calls of one tool share an entry exactly if their arguments are
\* alike, for arguments of any depth.
THEOREM KeysAlwaysFit ==
    ASSUME RealPlugins
    PROVE  Spec => []KeysFit
<1>1. ASSUME TypeOK PROVE KeysFit
  <2>1. ASSUME NEW c \in Executions, NEW d \in Executions
        PROVE  Key(c) = Key(d) <=>
                 /\ call[c].tool = call[d].tool
                 /\ Alike[<<Dict(call[c].arguments), Dict(call[d].arguments)>>]
    <3>1. call[c] \in Calls /\ call[d] \in Calls
      BY <1>1 DEF TypeOK
    <3>2. /\ Dict(call[c].arguments) \in Values /\ Key(c) = CacheKey(call[c])
          /\ Dict(call[d].arguments) \in Values /\ Key(d) = CacheKey(call[d])
      BY <3>1, RealPlugins DEF RealPlugins, Key
    <3>3. QED
      BY <3>2, AlikeShareKeys DEF CacheKey
  <2>2. QED
    BY <2>1 DEF KeysFit
<1>2. QED
  BY <1>1, ToolsTypeCorrect, PTL

\* tool_executor.py with redaction.py: what an execution logs of its arguments holds
\* no secret and lacks nothing else, for arguments of any depth.
THEOREM LogsAlwaysClean ==
    ASSUME RealPlugins
    PROVE  Spec => []LogsAreClean
<1>1. ASSUME TypeOK PROVE LogsAreClean
  <2>1. ASSUME NEW c \in Executions PROVE LoggedWell(Dict(call[c].arguments))
    <3>1. call[c] \in Calls
      BY <1>1 DEF TypeOK
    <3>2. QED
      BY <3>1, RealPlugins, EveryValueLoggedWell DEF RealPlugins
  <2>2. QED
    BY <2>1 DEF LogsAreClean, LoggedWell, ToldCleanly, ToldFully, ToldOnce
<1>2. QED
  BY <1>1, ToolsTypeCorrect, PTL
=============================================================================
