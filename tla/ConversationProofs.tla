------------------------- MODULE ConversationProofs -------------------------
(***************************************************************************)
(* No message is forgotten, for any number of overlapping turns and tasks, *)
(* any sizes and every kind of trouble.                                    *)
(***************************************************************************)
EXTENDS Conversation, FiniteSetTheorems, TLAPS

\* What a task has read is still told by the table, as rows or in a summary,
\* whoever has compacted it since.
LoadedRemembered == \A t \in Turns : UNION {r.covers : r \in loaded[t]} \subseteq said

ConversationInv == TypeOK /\ IsFiniteSet(table) /\ NothingForgotten /\ LoadedRemembered

-----------------------------------------------------------------------------

LEMMA InitEstablishes == Init => ConversationInv
<1>. SUFFICES ASSUME Init PROVE ConversationInv
  OBVIOUS
<1>1. TypeOK
  BY SizesAssumption DEF Init, TypeOK
<1>2. IsFiniteSet(table)
  BY FS_EmptySet DEF Init
<1>3. NothingForgotten /\ LoadedRemembered
  BY DEF Init, NothingForgotten, Remembered, LoadedRemembered
<1>4. QED
  BY <1>1, <1>2, <1>3 DEF ConversationInv

LEMMA MessageTyped ==
    ASSUME TypeOK, NEW t \in Turns, NEW role \in {"user", "assistant"}
    PROVE  Message(t, role) \in Rows /\ Message(t, role).covers = {<<t, role>>}
BY DEF TypeOK, Message, Rows, MessageIds

LEMMA SummaryTyped ==
    ASSUME TypeOK, NEW t \in Turns, NEW at \in Int
    PROVE  /\ Summary(t, at) \in Rows
           /\ Summary(t, at).covers = UNION {r.covers : r \in loaded[t]}
<1>1. UNION {r.covers : r \in loaded[t]} \subseteq MessageIds
  <2>1. \A r \in loaded[t] : r.covers \subseteq MessageIds
    BY DEF TypeOK, Rows
  <2>2. QED
    BY <2>1
<1>2. runs[t] \in Nat
  BY SizesAssumption DEF TypeOK
<1>3. QED
  BY <1>1, <1>2 DEF Summary, Rows

LEMMA TimesTyped ==
    ASSUME NEW rows \in SUBSET Rows
    PROVE  SummaryTimes(rows) \subseteq Int
BY DEF SummaryTimes, Rows

-----------------------------------------------------------------------------

LEMMA CommitKeeps ==
    ASSUME ConversationInv, NEW t \in Turns, Commit(t)
    PROVE  ConversationInv'
<1>. DEFINE roles == IF turn[t] = "answered" THEN {"user", "assistant"} ELSE {"user"}
            added == {Message(t, role) : role \in roles}
            named == {<<t, role>> : role \in roles}
<1>1. table' = table \cup added /\ said' = said \cup named
  BY DEF Commit
<1>2. roles \subseteq {"user", "assistant"}
  OBVIOUS
<1>3. \A role \in roles : Message(t, role) \in Rows /\ Message(t, role).covers = {<<t, role>>}
  BY <1>2, MessageTyped DEF ConversationInv
<1>4. TypeOK'
  <2>1. table' \subseteq Rows /\ said' \subseteq MessageIds
    BY <1>1, <1>2, <1>3 DEF ConversationInv, TypeOK, MessageIds
  <2>2. turn' \in [Turns -> {"new", "begun", "asked", "answered", "refused", "committed", "lost"}]
    BY DEF Commit, ConversationInv, TypeOK
  <2>3. QED
    BY <2>1, <2>2 DEF Commit, ConversationInv, TypeOK, tasks
<1>5. IsFiniteSet(table')
  <2>1. added \subseteq {Message(t, "user"), Message(t, "assistant")}
    OBVIOUS
  <2>2. IsFiniteSet({Message(t, "user"), Message(t, "assistant")})
    <3>1. ASSUME NEW a, NEW b PROVE IsFiniteSet({a, b})
      <4>1. IsFiniteSet({a})
        BY FS_Singleton
      <4>2. IsFiniteSet({a} \cup {b})
        BY <4>1, FS_AddElement
      <4>3. {a, b} = {a} \cup {b}
        OBVIOUS
      <4>4. QED
        BY <4>2, <4>3
    <3>2. QED
      BY <3>1
  <2>3. IsFiniteSet(added)
    BY <2>1, <2>2, FS_Subset
  <2>4. QED
    BY <1>1, <2>3, FS_Union DEF ConversationInv
<1>6. NothingForgotten'
  <2>. DEFINE told == UNION {r.covers : r \in added}
  <2>1. told = named
    BY <1>3
  <2>2. Remembered' = Remembered \cup told
    BY <1>1 DEF Remembered
  <2>3. QED
    BY <1>1, <2>1, <2>2 DEF ConversationInv, NothingForgotten
<1>7. LoadedRemembered'
  BY <1>1 DEF Commit, tasks, ConversationInv, LoadedRemembered
<1>8. QED
  BY <1>4, <1>5, <1>6, <1>7 DEF ConversationInv

\* The rows deleted, and those another task has deleted already, are all told by
\* the summary.
LEMMA CompactKeeps ==
    ASSUME ConversationInv, NEW t \in Turns, Compact(t)
    PROVE  ConversationInv'
<1>1. PICK at \in SummaryTimes(loaded[t]) : table' = (table \ loaded[t]) \cup {Summary(t, at)}
  BY DEF Compact
<1>2. loaded[t] \in SUBSET Rows
  BY DEF ConversationInv, TypeOK
<1>3. at \in Int
  BY <1>2, TimesTyped
<1>4. /\ Summary(t, at) \in Rows
      /\ Summary(t, at).covers = UNION {r.covers : r \in loaded[t]}
  BY <1>3, SummaryTyped DEF ConversationInv
<1>5. TypeOK'
  BY <1>1, <1>4 DEF Compact, ConversationInv, TypeOK, requests
<1>6. IsFiniteSet(table')
  <2>1. IsFiniteSet(table \ loaded[t])
    BY FS_Difference DEF ConversationInv
  <2>2. QED
    BY <1>1, <2>1, FS_AddElement
<1>7. NothingForgotten'
  <2>1. UNION {r.covers : r \in loaded[t]} \subseteq said
    BY DEF ConversationInv, LoadedRemembered
  <2>2. Remembered' \subseteq said
    <3>1. SUFFICES ASSUME NEW m \in Remembered' PROVE m \in said
      OBVIOUS
    <3>2. PICK r \in table' : m \in r.covers
      BY <3>1 DEF Remembered
    <3>3. CASE r \in table
      BY <3>2, <3>3 DEF ConversationInv, NothingForgotten, Remembered
    <3>4. CASE r = Summary(t, at)
      BY <3>2, <3>4, <1>4, <2>1
    <3>5. QED
      BY <1>1, <3>3, <3>4
  <2>3. said \subseteq Remembered'
    <3>1. SUFFICES ASSUME NEW m \in said PROVE \E r \in table' : m \in r.covers
      BY DEF Remembered
    <3>2. PICK r \in table : m \in r.covers
      BY DEF ConversationInv, NothingForgotten, Remembered
    <3>3. CASE r \in loaded[t]
      BY <1>1, <1>4, <3>2, <3>3
    <3>4. CASE r \notin loaded[t]
      BY <1>1, <3>2, <3>4
    <3>5. QED
      BY <3>3, <3>4
  <2>4. said' = said
    BY DEF Compact
  <2>5. QED
    BY <2>2, <2>3, <2>4 DEF NothingForgotten
<1>8. LoadedRemembered'
  BY DEF Compact, ConversationInv, LoadedRemembered, TypeOK
<1>9. QED
  BY <1>5, <1>6, <1>7, <1>8 DEF ConversationInv

LEMMA LoadKeeps ==
    ASSUME ConversationInv, NEW t \in Turns, Load(t)
    PROVE  ConversationInv'
<1>1. /\ UNCHANGED <<table, requests, retries, clock, said>>
      /\ runs' = [runs EXCEPT ![t] = @ + 1] /\ runs[t] < MaxRuns
      /\ \/ task' = [task EXCEPT ![t] = "ended"] /\ loaded' = loaded
         \/ /\ task' = [task EXCEPT ![t] = "loaded"]
            /\ \E early \in EarlyRows(table) : loaded' = [loaded EXCEPT ![t] = early]
  BY DEF Load
<1>2. EarlyRows(table) \subseteq SUBSET table
  BY DEF EarlyRows
<1>3. TypeOK'
  BY <1>1, <1>2, SizesAssumption DEF ConversationInv, TypeOK, requests
<1>4. NothingForgotten'
  BY <1>1 DEF ConversationInv, NothingForgotten, Remembered
<1>5. LoadedRemembered'
  <2>1. CASE loaded' = loaded
    BY <1>1, <2>1 DEF ConversationInv, LoadedRemembered
  <2>2. CASE \E early \in EarlyRows(table) : loaded' = [loaded EXCEPT ![t] = early]
    <3>1. PICK early \in SUBSET table : loaded' = [loaded EXCEPT ![t] = early]
      BY <1>2, <2>2
    <3>2. UNION {r.covers : r \in early} \subseteq said
      BY DEF ConversationInv, NothingForgotten, Remembered
    <3>3. \A u \in Turns : loaded'[u] = early \/ loaded'[u] = loaded[u]
      BY <3>1 DEF ConversationInv, TypeOK
    <3>4. QED
      BY <1>1, <3>2, <3>3 DEF ConversationInv, LoadedRemembered
  <2>3. QED
    BY <1>1, <2>1, <2>2
<1>6. QED
  BY <1>1, <1>3, <1>4, <1>5 DEF ConversationInv

\* Steps of requests that commit nothing, and of tasks that change no row.
LEMMA OtherStepsKeep ==
    ASSUME ConversationInv, NEW t \in Turns,
           \/ Begin(t) \/ Ask(t) \/ Answer(t) \/ Refuse(t) \/ RollBack(t)
           \/ ModelFails(t) \/ DatabaseFails(t) \/ Acknowledge(t) \/ WorkerDies(t)
    PROVE  ConversationInv'
<1>1. table' = table /\ said' = said
  BY DEF Begin, Ask, Answer, Refuse, RollBack, ModelFails, DatabaseFails, Acknowledge, WorkerDies
<1>2. \A u \in Turns : loaded'[u] = loaded[u] \/ loaded'[u] = {}
  BY DEF Begin, Ask, Answer, Refuse, RollBack, ModelFails, DatabaseFails, Acknowledge, WorkerDies,
         Dispatch, tasks, ConversationInv, TypeOK
<1>3. TypeOK'
  <2>1. ASSUME Begin(t) PROVE TypeOK'
    BY <2>1, SizesAssumption DEF Begin, ConversationInv, TypeOK, tasks
  <2>2. ASSUME Ask(t) PROVE TypeOK'
    <3>1. Cardinality(table) \in Nat
      BY FS_CardinalityType DEF ConversationInv
    <3>2. QED
      BY <2>2, <3>1 DEF Ask, HistoryLength, ConversationInv, TypeOK, tasks
  <2>3. ASSUME Answer(t) PROVE TypeOK'
    BY <2>3 DEF Answer, Dispatch, ConversationInv, TypeOK, tasks
  <2>4. ASSUME Refuse(t) \/ RollBack(t) PROVE TypeOK'
    BY <2>4 DEF Refuse, RollBack, ConversationInv, TypeOK, tasks
  <2>5. ASSUME ModelFails(t) PROVE TypeOK'
    BY <2>5, SizesAssumption DEF ModelFails, ConversationInv, TypeOK, requests
  <2>6. ASSUME DatabaseFails(t) \/ WorkerDies(t) PROVE TypeOK'
    BY <2>6 DEF DatabaseFails, WorkerDies, ConversationInv, TypeOK, requests
  <2>7. ASSUME Acknowledge(t) PROVE TypeOK'
    BY <2>7 DEF Acknowledge, ConversationInv, TypeOK, requests
  <2>8. QED
    BY <2>1, <2>2, <2>3, <2>4, <2>5, <2>6, <2>7
<1>4. NothingForgotten'
  BY <1>1 DEF ConversationInv, NothingForgotten, Remembered
<1>5. LoadedRemembered'
  BY <1>1, <1>2 DEF ConversationInv, LoadedRemembered
<1>6. QED
  BY <1>1, <1>3, <1>4, <1>5 DEF ConversationInv

LEMMA StepKeeps == ConversationInv /\ [Next]_vars => ConversationInv'
<1>. SUFFICES ASSUME ConversationInv, [Next]_vars PROVE ConversationInv'
  OBVIOUS
<1>1. CASE UNCHANGED vars
  BY <1>1 DEF vars, requests, tasks, ConversationInv, TypeOK, NothingForgotten, Remembered,
              LoadedRemembered
<1>2. CASE Next
  BY <1>2, CommitKeeps, CompactKeeps, LoadKeeps, OtherStepsKeep DEF Next
<1>3. QED
  BY <1>1, <1>2

LEMMA ConversationInvariant == Spec => []ConversationInv
BY InitEstablishes, StepKeeps, PTL DEF Spec

-----------------------------------------------------------------------------

\* Retries and deliveries of a task stay within their bounds, every row stands
\* for messages of the conversation, and times are integers.
THEOREM ConversationTypeCorrect == Spec => []TypeOK
BY ConversationInvariant, PTL DEF ConversationInv

\* Every message of a committed turn stays in the table, as a row or as part of
\* a summary, and nothing of a turn that was rolled back is ever there.
THEOREM NothingEverForgotten == Spec => []NothingForgotten
BY ConversationInvariant, PTL DEF ConversationInv

-----------------------------------------------------------------------------

\* A row is dated no later than the turns it tells of began, all of which have
\* committed; and no two turns began at one time.
DatedBy(r) == r.covers # {} /\ \A m \in r.covers : m[1] \in Turns /\ r.at <= began[m[1]]
Dated ==
    /\ \A r \in table : DatedBy(r)
    /\ \A t \in Turns : \A r \in loaded[t] : DatedBy(r)
    /\ \A t \in Turns : turn[t] # "new" => began[t] < clock
    /\ \A t, u \in Turns : turn[t] # "new" /\ turn[u] # "new" /\ t # u => began[t] # began[u]
SaidCommitted == \A m \in said : turn[m[1]] = "committed"

DatingInv == ConversationInv /\ Dated /\ SaidCommitted

\* All that is told has been said, so what the table and the tasks' rows tell is
\* told by committed turns.
LEMMA ToldIsCommitted ==
    ASSUME ConversationInv, SaidCommitted
    PROVE  /\ \A r \in table : \A m \in r.covers : turn[m[1]] = "committed"
           /\ \A t \in Turns : \A r \in loaded[t] : \A m \in r.covers : turn[m[1]] = "committed"
<1>1. \A r \in table : r.covers \subseteq said
  BY DEF ConversationInv, NothingForgotten, Remembered
<1>2. \A t \in Turns : \A r \in loaded[t] : r.covers \subseteq said
  BY DEF ConversationInv, LoadedRemembered
<1>3. QED
  BY <1>1, <1>2 DEF SaidCommitted

LEMMA DatingStep == DatingInv /\ [Next]_vars => Dated' /\ SaidCommitted'
<1>. SUFFICES ASSUME DatingInv, [Next]_vars PROVE Dated' /\ SaidCommitted'
  OBVIOUS
<1>. USE DEF DatingInv
<1>1. ASSUME NEW t \in Turns, Begin(t) PROVE Dated' /\ SaidCommitted'
  <2>1. \A r : (\A m \in r.covers : turn[m[1]] = "committed") /\ DatedBy(r) => DatedBy(r)'
    BY <1>1 DEF Begin, DatedBy, ConversationInv, TypeOK
  <2>2. \A r \in table' : DatedBy(r)'
    BY <1>1, <2>1, ToldIsCommitted DEF Begin, Dated
  <2>3. \A u \in Turns : \A r \in loaded'[u] : DatedBy(r)'
    BY <1>1, <2>1, ToldIsCommitted DEF Begin, Dated, tasks
  <2>4. /\ \A u \in Turns : turn'[u] # "new" => began'[u] < clock'
        /\ \A u, v \in Turns : turn'[u] # "new" /\ turn'[v] # "new" /\ u # v => began'[u] # began'[v]
    BY <1>1, SizesAssumption DEF Begin, Dated, ConversationInv, TypeOK
  <2>5. SaidCommitted'
    BY <1>1 DEF Begin, SaidCommitted, ConversationInv, TypeOK
  <2>6. QED
    BY <2>2, <2>3, <2>4, <2>5 DEF Dated
<1>2. ASSUME NEW t \in Turns, Ask(t) \/ Answer(t) \/ Refuse(t) \/ RollBack(t)
      PROVE  Dated' /\ SaidCommitted'
  <2>1. /\ UNCHANGED <<table, loaded, began, clock, said>>
        /\ turn[t] \notin {"new", "committed"}
        /\ \A u \in Turns : turn'[u] = turn[u] \/ (u = t /\ turn'[u] # "new")
    BY <1>2 DEF Ask, Answer, Refuse, RollBack, Dispatch, tasks, ConversationInv, TypeOK
  <2>2. Dated'
    BY <2>1 DEF Dated, DatedBy
  <2>3. SaidCommitted'
    BY <2>1 DEF SaidCommitted, ConversationInv, TypeOK, MessageIds
  <2>4. QED
    BY <2>2, <2>3
<1>3. ASSUME NEW t \in Turns, Commit(t) PROVE Dated' /\ SaidCommitted'
  <2>1. UNCHANGED <<loaded, began, clock>> /\ turn' = [turn EXCEPT ![t] = "committed"]
        /\ turn[t] # "new"
    BY <1>3 DEF Commit, tasks
  <2>2. \A r \in table' : r \in table \/ \E role \in {"user", "assistant"} : r = Message(t, role)
    BY <1>3 DEF Commit
  <2>3. ASSUME NEW role \in {"user", "assistant"} PROVE DatedBy(Message(t, role))
    <3>1. began[t] <= began[t]
      BY DEF ConversationInv, TypeOK
    <3>2. /\ Message(t, role).covers = {<<t, role>>}
          /\ Message(t, role).at = began[t]
      BY DEF Message
    <3>3. \A m \in {<<t, role>>} : m[1] = t
      OBVIOUS
    <3>4. QED
      BY <3>1, <3>2, <3>3 DEF DatedBy
  <2>4. Dated'
    <3>1. \A r \in table' : DatedBy(r)'
      BY <2>1, <2>2, <2>3 DEF Dated, DatedBy
    <3>2. QED
      BY <2>1, <3>1 DEF Dated, DatedBy, ConversationInv, TypeOK
  <2>5. \A m \in said' : m \in said \/ m[1] = t
    BY <1>3 DEF Commit
  <2>6. \A m \in said : m[1] \in Turns
    BY DEF ConversationInv, TypeOK, MessageIds
  <2>7. SaidCommitted'
    BY <2>1, <2>5, <2>6 DEF SaidCommitted, ConversationInv, TypeOK
  <2>8. QED
    BY <2>4, <2>7
<1>4. ASSUME NEW t \in Turns, Load(t) PROVE Dated' /\ SaidCommitted'
  <2>1. UNCHANGED <<table, turn, began, clock, said>>
    BY <1>4 DEF Load, requests
  <2>2. \A u \in Turns : loaded'[u] = loaded[u] \/ loaded'[u] \in SUBSET table
    BY <1>4 DEF Load, EarlyRows, ConversationInv, TypeOK
  <2>3. \A u \in Turns : \A r \in loaded'[u] : DatedBy(r)
    BY <2>2 DEF Dated
  <2>4. Dated'
    BY <2>1, <2>3 DEF Dated, DatedBy
  <2>5. QED
    BY <2>1, <2>4 DEF SaidCommitted
<1>5. ASSUME NEW t \in Turns, Compact(t) PROVE Dated' /\ SaidCommitted'
  <2>1. UNCHANGED <<turn, began, clock, said>>
    BY <1>5 DEF Compact, requests
  <2>2. PICK at \in SummaryTimes(loaded[t]) : table' = (table \ loaded[t]) \cup {Summary(t, at)}
    BY <1>5 DEF Compact
  <2>3. PICK e \in loaded[t] : (at = e.at \/ at = e.at - 1) /\ \A s \in loaded[t] : e.at <= s.at
    <3>1. PICK e \in loaded[t], early \in {0, 1} :
            at = e.at - early /\ \A s \in loaded[t] : e.at <= s.at
      BY <2>2 DEF SummaryTimes
    <3>2. e.at \in Int
      BY DEF ConversationInv, TypeOK, Rows
    <3>3. QED
      BY <3>1, <3>2
  <2>4. DatedBy(Summary(t, at))
    <3>1. loaded[t] \subseteq Rows
      BY DEF ConversationInv, TypeOK
    <3>2. \A s \in loaded[t] : s.at \in Int /\ at <= s.at
      BY <2>3, <3>1 DEF Rows
    <3>3. at \in Int
      BY <2>3, <3>2
    <3>4. ASSUME NEW m \in Summary(t, at).covers PROVE m[1] \in Turns /\ at <= began[m[1]]
      <4>1. PICK s \in loaded[t] : m \in s.covers
        BY DEF Summary
      <4>2. m[1] \in Turns /\ s.at <= began[m[1]]
        BY <4>1 DEF Dated, DatedBy
      <4>3. began[m[1]] \in Nat
        BY <4>2 DEF ConversationInv, TypeOK
      <4>4. QED
        BY <3>2, <3>3, <4>2, <4>3
    <3>5. e.covers # {} /\ e.covers \subseteq Summary(t, at).covers
      BY DEF Dated, DatedBy, Summary
    <3>6. Summary(t, at).at = at
      BY DEF Summary
    <3>7. QED
      BY <3>4, <3>5, <3>6 DEF DatedBy
  <2>5. \A u \in Turns : \A r \in loaded'[u] : DatedBy(r)
    BY <1>5 DEF Compact, Dated, ConversationInv, TypeOK
  <2>6. \A r \in table' : DatedBy(r)
    BY <2>2, <2>4 DEF Dated
  <2>7. Dated'
    BY <2>1, <2>5, <2>6 DEF Dated, DatedBy
  <2>8. QED
    BY <2>1, <2>7 DEF SaidCommitted
<1>6. ASSUME NEW t \in Turns,
             ModelFails(t) \/ DatabaseFails(t) \/ Acknowledge(t) \/ WorkerDies(t)
      PROVE  Dated' /\ SaidCommitted'
  <2>1. UNCHANGED <<table, turn, began, clock, said>>
    BY <1>6 DEF ModelFails, DatabaseFails, Acknowledge, WorkerDies, requests
  <2>2. \A u \in Turns : loaded'[u] = loaded[u] \/ loaded'[u] = {}
    BY <1>6 DEF ModelFails, DatabaseFails, Acknowledge, WorkerDies, ConversationInv, TypeOK
  <2>3. \A u \in Turns : \A r \in loaded'[u] : DatedBy(r)
    BY <2>2 DEF Dated
  <2>4. QED
    BY <2>1, <2>3 DEF Dated, DatedBy, SaidCommitted
<1>7. CASE UNCHANGED vars
  BY <1>7 DEF vars, requests, tasks, Dated, DatedBy, SaidCommitted
<1>8. QED
  BY <1>1, <1>2, <1>3, <1>4, <1>5, <1>6, <1>7 DEF Next

LEMMA DatingInvariant == Spec => []DatingInv
<1>1. Init => Dated /\ SaidCommitted
  BY DEF Init, Dated, SaidCommitted
<1>2. QED
  BY <1>1, InitEstablishes, StepKeeps, DatingStep, PTL DEF Spec, DatingInv

\* When a turn asks the agent, its own message is the latest it reads, unless a turn
\* that began later has committed; however many turns and tasks overlap.
THEOREM OwnMessageAnswered == Spec => AnswersOwnMessage
<1>1. ASSUME DatingInv, NEW t \in Turns, turn[t] = "begun", NEW r \in table, began[t] <= r.at
      PROVE  \E u \in Turns : turn[u] = "committed" /\ began[u] > began[t]
  <2>. USE DEF DatingInv
  <2>1. PICK m \in r.covers : m[1] \in Turns /\ r.at <= began[m[1]] /\ turn[m[1]] = "committed"
    BY <1>1, ToldIsCommitted DEF Dated, DatedBy
  <2>2. r.at \in Int /\ began[t] \in Nat /\ began[m[1]] \in Nat
    BY <1>1, <2>1 DEF ConversationInv, TypeOK, Rows
  <2>3. began[m[1]] # began[t]
    BY <1>1, <2>1 DEF Dated
  <2>4. QED
    BY <1>1, <2>1, <2>2, <2>3
<1>2. ASSUME DatingInv, NEW t \in Turns, \A r \in table : ~(began[t] <= r.at)
      PROVE  LastMessages(t) = {Message(t, "user")}
  <2>1. \A r \in table : r.at \in Int
    BY <1>2 DEF DatingInv, ConversationInv, TypeOK, Rows
  <2>2. began[t] \in Nat /\ Message(t, "user").at = began[t]
    BY <1>2 DEF DatingInv, ConversationInv, TypeOK, Message
  <2>3. \A r \in table : r.at <= Message(t, "user").at /\ ~(Message(t, "user").at <= r.at)
    BY <1>2, <2>1, <2>2
  <2>4. Message(t, "user").at <= Message(t, "user").at
    BY <2>2
  <2>5. QED
    BY <2>3, <2>4 DEF LastMessages, History
<1>3. DatingInv /\ [Next]_vars =>
        [\A t \in Turns : turn[t] = "begun" /\ turn'[t] = "asked" =>
            \/ LastMessages(t) = {Message(t, "user")}
            \/ \E u \in Turns : turn[u] = "committed" /\ began[u] > began[t]]_vars
  BY <1>1, <1>2
<1>4. QED
  BY <1>3, DatingInvariant, PTL DEF Spec, AnswersOwnMessage

-----------------------------------------------------------------------------
(* The tail                                                                *)

\* Enough rows of messages are later than this for it to be out of the tail, or enough
\* to be out of it if the rows of some turn change places.
IsSummary(r) == r.id[2] = "system"
LaterIn(rows, at) == {s \in rows : ~IsSummary(s) /\ s.at > at}
Pair(t) == {t} \X {"user", "assistant"}
SettledIn(rows, at) ==
    \/ Cardinality(LaterIn(rows, at)) >= KeepTail
    \/ \E t \in Turns : /\ Pair(t) \subseteq said
                        /\ began[t] >= at
                        /\ Cardinality(LaterIn(rows, began[t])) >= KeepTail - 1
Settled(at) == SettledIn(table, at)

\* What is early enough to be read for a summary stays so.
TailInv ==
    /\ \A r \in table : IsSummary(r) \/ \E t \in Turns, role \in {"user", "assistant"} :
                            <<t, role>> \in said /\ r = Message(t, role)
    /\ \A r \in table : IsSummary(r) => Settled(r.at)
    /\ \A t \in Turns : \A r \in loaded[t] : Settled(r.at)
    /\ \A m \in Summarized : Settled(began[m[1]])

Less == {ss \in Nat \X Nat : ss[1] < ss[2]}
LEMMA LeastNumber ==
    ASSUME NEW N \in SUBSET Nat, N # {}
    PROVE  \E n \in N : \A m \in N : n <= m
<1>1. OpToRel(<, Nat) = Less
  BY Zenon DEF OpToRel, Less
<1>2. IsWellFoundedOn(Less, Nat)
  BY <1>1, NatLessThanWellFounded, Zenon
<1>3. PICK n \in N : \A m \in N : <<m, n>> \notin Less
  BY <1>2, WFMin
<1>4. \A m, k \in Nat : <<m, k>> \in Less <=> m < k
  BY DEF Less
<1>5. ASSUME NEW m \in N PROVE n <= m
  <2>1. m \in Nat /\ n \in Nat
    OBVIOUS
  <2>2. ~(m < n)
    BY <1>3, <1>4, <2>1
  <2>3. QED
    BY <2>1, <2>2
<1>6. QED
  BY <1>5

\* The later the time and the fewer the rows, the fewer are later.
LEMMA LaterRows ==
    ASSUME NEW rows \in SUBSET Rows, IsFiniteSet(rows), NEW some \in SUBSET Rows,
           NEW at \in Int, NEW x \in Int, x >= at, LaterIn(some, x) \subseteq rows
    PROVE  /\ Cardinality(LaterIn(some, x)) \in Nat
           /\ Cardinality(LaterIn(rows, at)) \in Nat
           /\ Cardinality(LaterIn(some, x)) <= Cardinality(LaterIn(rows, at))
<1>1. LaterIn(some, x) \subseteq LaterIn(rows, at)
  BY DEF LaterIn, Rows
<1>2. IsFiniteSet(LaterIn(rows, at))
  BY FS_Subset DEF LaterIn
<1>3. IsFiniteSet(LaterIn(some, x)) /\ Cardinality(LaterIn(some, x)) <= Cardinality(LaterIn(rows, at))
  BY <1>1, <1>2, FS_Subset
<1>4. QED
  BY <1>2, <1>3, FS_CardinalityType

\* What was settled is so among rows that have kept all that is later.
LEMMA KeptRowsSettle ==
    ASSUME ConversationInv, NEW rows \in SUBSET Rows, IsFiniteSet(rows),
           NEW at \in Int, NEW x \in Int, x >= at, Settled(x), LaterIn(table, x) \subseteq rows
    PROVE  SettledIn(rows, at)
<1>. USE DEF ConversationInv, TypeOK
<1>1. CASE Cardinality(LaterIn(table, x)) >= KeepTail
  BY <1>1, LaterRows, SizesAssumption DEF SettledIn
<1>2. CASE \E t \in Turns : /\ Pair(t) \subseteq said
                            /\ began[t] >= x
                            /\ Cardinality(LaterIn(table, began[t])) >= KeepTail - 1
  <2>1. PICK t \in Turns : /\ Pair(t) \subseteq said
                           /\ began[t] >= x
                           /\ Cardinality(LaterIn(table, began[t])) >= KeepTail - 1
    BY <1>2
  <2>2. began[t] \in Int /\ began[t] >= at
    BY <2>1
  <2>3. LaterIn(table, began[t]) \subseteq rows
    BY <2>1, <2>2 DEF LaterIn, Rows
  <2>4. Cardinality(LaterIn(rows, began[t])) >= KeepTail - 1
    BY <2>1, <2>2, <2>3, LaterRows, SizesAssumption
  <2>5. QED
    BY <2>1, <2>2, <2>4 DEF SettledIn
<1>3. QED
  BY <1>1, <1>2 DEF Settled, SettledIn

\* Among rows of the table there is one that no other message of them is later than.
LEMMA LatestRow ==
    ASSUME ConversationInv, NEW D \in SUBSET table, D # {}, \A r \in D : ~IsSummary(r)
    PROVE  \E r \in D : D \cap LaterIn(table, r.at) = {}
<1>. DEFINE Later(at) == LaterIn(table, at)
            N == {Cardinality(Later(r.at)) : r \in D}
<1>. USE DEF ConversationInv, TypeOK
<1>1. \A r \in table : r.at \in Int
  BY DEF Rows
<1>2. \A r \in D : Cardinality(Later(r.at)) \in Nat
  <2>1. \A r \in D : IsFiniteSet(Later(r.at))
    BY FS_Subset DEF LaterIn
  <2>2. QED
    BY <2>1, FS_CardinalityType
<1>3. N \in SUBSET Nat /\ N # {}
  BY <1>2
<1>4. PICK n \in N : \A m \in N : n <= m
  BY <1>3, LeastNumber
<1>5. PICK r \in D : n = Cardinality(Later(r.at))
  OBVIOUS
<1>6. SUFFICES ASSUME NEW s \in D, s.at > r.at PROVE FALSE
  BY DEF LaterIn
<1>7. Later(s.at) \subseteq Later(r.at) /\ s \in Later(r.at) \ Later(s.at)
  BY <1>1, <1>6 DEF LaterIn
<1>8. IsFiniteSet(Later(r.at))
  BY FS_Subset DEF LaterIn
<1>9. Cardinality(Later(s.at)) <= Cardinality(Later(r.at)) /\ Cardinality(Later(s.at)) # Cardinality(Later(r.at))
  BY <1>7, <1>8, FS_Subset
<1>10. Cardinality(Later(r.at)) <= Cardinality(Later(s.at))
  BY <1>4, <1>5
<1>11. QED
  BY <1>2, <1>9, <1>10

\* A task deletes what is settled, so what is later than the latest of it stays.
LEMMA CompactKeepsSettled ==
    ASSUME ConversationInv, TailInv, NEW t \in Turns, NEW kept \in SUBSET Rows,
           table \ loaded[t] \subseteq kept, IsFiniteSet(kept), NEW at \in Int, Settled(at)
    PROVE  SettledIn(kept, at)
<1>. DEFINE D == loaded[t] \cap LaterIn(table, at)
<1>1. CASE D = {}
  <2>1. LaterIn(table, at) \subseteq kept
    BY <1>1 DEF LaterIn
  <2>2. QED
    BY <2>1, KeptRowsSettle
<1>2. CASE D # {}
  <2>1. D \in SUBSET table /\ \A r \in D : ~IsSummary(r)
    BY DEF LaterIn
  <2>2. PICK r \in D : D \cap LaterIn(table, r.at) = {}
    BY <1>2, <2>1, LatestRow
  <2>3. Settled(r.at) /\ r.at \in Int /\ r.at > at
    BY <2>2 DEF TailInv, LaterIn, ConversationInv, TypeOK, Rows
  <2>4. LaterIn(table, r.at) \subseteq kept
    BY <2>2, <2>3 DEF LaterIn, ConversationInv, TypeOK, Rows
  <2>5. QED
    BY <2>3, <2>4, KeptRowsSettle
<1>3. QED
  BY <1>1, <1>2

\* What is read for a summary was not among the KeepTail latest rows.  Either these are
\* messages, and one of them at most is no later, the other row of the same turn, or
\* there is a summary among them, which is settled and no earlier.
LEMMA EarlyIsSettled ==
    ASSUME DatingInv, TailInv, NEW early \in EarlyRows(table), NEW r \in early
    PROVE  Settled(r.at)
<1>. DEFINE tail == table \ early
<1>1. /\ r \in table /\ Cardinality(tail) = KeepTail
      /\ \A s \in tail : s \in table /\ r.at <= s.at
  BY DEF EarlyRows
<1>2. /\ table \in SUBSET Rows /\ IsFiniteSet(table) /\ IsFiniteSet(tail)
      /\ \A s \in table : s.at \in Int
      /\ \A t \in Turns : began[t] \in Nat
  BY FS_Subset DEF DatingInv, ConversationInv, TypeOK, Rows
<1>. HIDE DEF tail
<1>3. IsFiniteSet(LaterIn(table, r.at)) /\ Cardinality(LaterIn(table, r.at)) \in Nat
  BY <1>2, FS_Subset, FS_CardinalityType DEF LaterIn
<1>4. CASE \E s \in tail \cup {r} : IsSummary(s)
  <2>1. PICK s \in table : Settled(s.at) /\ s.at >= r.at
    BY <1>1, <1>2, <1>4 DEF TailInv
  <2>2. LaterIn(table, s.at) \subseteq table
    BY DEF LaterIn
  <2>3. SettledIn(table, r.at)
    BY <1>1, <1>2, <2>1, <2>2, KeptRowsSettle DEF DatingInv
  <2>4. QED
    BY <2>3 DEF Settled
<1>5. CASE \A s \in tail \cup {r} : ~IsSummary(s)
  <2>1. PICK t \in Turns, role \in {"user", "assistant"} : <<t, role>> \in said /\ r = Message(t, role)
    BY <1>1, <1>5 DEF TailInv
  <2>. DEFINE twin == IF role = "user" THEN "assistant" ELSE "user"
  <2>2. r.at = began[t] /\ r \notin tail
    BY <2>1 DEF Message, tail
  <2>3. ASSUME NEW s \in tail, ~(s.at > r.at) PROVE s = Message(t, twin) /\ <<t, twin>> \in said
    <3>1. PICK u \in Turns, said_by \in {"user", "assistant"} :
            <<u, said_by>> \in said /\ s = Message(u, said_by)
      BY <1>1, <1>5, <2>3 DEF TailInv
    <3>2. began[u] = began[t]
      BY <1>1, <1>2, <2>2, <2>3, <3>1 DEF Message
    <3>3. turn[u] = "committed" /\ turn[t] = "committed"
      BY <2>1, <3>1 DEF DatingInv, SaidCommitted
    <3>4. u = t
      BY <3>2, <3>3 DEF DatingInv, Dated
    <3>5. said_by # role
      BY <2>1, <2>2, <2>3, <3>1, <3>4
    <3>6. QED
      BY <3>1, <3>4, <3>5
  <2>4. CASE \A s \in tail : s.at > r.at
    <3>1. tail \subseteq LaterIn(table, r.at)
      BY <1>1, <1>5, <2>4 DEF LaterIn
    <3>2. KeepTail <= Cardinality(LaterIn(table, r.at))
      BY <1>1, <1>3, <3>1, FS_Subset
    <3>3. QED
      BY <1>3, <3>2, SizesAssumption DEF Settled, SettledIn
  <2>5. CASE \E s \in tail : ~(s.at > r.at)
    <3>1. Pair(t) \subseteq said
      BY <2>1, <2>3, <2>5 DEF Pair
    <3>. DEFINE other == Message(t, twin)
    <3>2. tail \ {other} \subseteq LaterIn(table, r.at)
      BY <1>1, <1>5, <2>3 DEF LaterIn
    <3>. HIDE DEF other
    <3>3. /\ IsFiniteSet(tail \ {other})
          /\ Cardinality(tail \ {other}) = IF other \in tail THEN KeepTail - 1 ELSE KeepTail
      BY <1>1, <1>2, FS_RemoveElement
    <3>4. Cardinality(tail \ {other}) <= Cardinality(LaterIn(table, r.at))
      BY <1>3, <3>2, FS_Subset
    <3>5. Cardinality(LaterIn(table, began[t])) >= KeepTail - 1
      BY <1>3, <2>2, <3>3, <3>4, SizesAssumption
    <3>6. began[t] >= r.at
      BY <1>2, <2>2
    <3>7. QED
      BY <3>1, <3>5, <3>6 DEF Settled, SettledIn
  <2>6. QED
    BY <2>4, <2>5
<1>6. QED
  BY <1>4, <1>5

\* Rows that are added leave what is settled settled.
LEMMA AddedRowsSettle ==
    ASSUME ConversationInv, ConversationInv', table \subseteq table', said \subseteq said',
           UNCHANGED began, NEW at \in Int, Settled(at)
    PROVE  Settled(at)'
<1>1. table' \in SUBSET Rows /\ IsFiniteSet(table') /\ LaterIn(table, at) \subseteq table'
  BY DEF ConversationInv, TypeOK, LaterIn
<1>2. SettledIn(table', at)
  BY <1>1, KeptRowsSettle
<1>3. QED
  BY <1>2 DEF Settled, SettledIn, Pair, LaterIn, IsSummary

\* A step that leaves the rows alone keeps the invariant by what it loads.
LEMMA SameRowsSettle ==
    ASSUME TailInv, UNCHANGED <<table, began, said>>,
           \A u \in Turns : \A r \in loaded'[u] : Settled(r.at)
    PROVE  TailInv'
<1>1. \A at : Settled(at)' <=> Settled(at)
  BY DEF Settled, SettledIn, Pair, LaterIn, IsSummary
<1>2. \A u, role : Message(u, role)' = Message(u, role)
  BY DEF Message
<1>3. Summarized' = Summarized
  BY <1>2 DEF Summarized
<1>4. \A r \in table' : IsSummary(r)' \/ \E u \in Turns, role \in {"user", "assistant"} :
                            <<u, role>> \in said' /\ r = Message(u, role)'
  BY <1>2 DEF TailInv, IsSummary
<1>5. /\ \A r \in table' : IsSummary(r)' => Settled(r.at)'
      /\ \A u \in Turns : \A r \in loaded'[u] : Settled(r.at)'
  BY <1>1 DEF TailInv, IsSummary
<1>6. \A m \in Summarized' : Settled(began[m[1]])'
  <2>1. \A m \in Summarized : \E x : x = began[m[1]] /\ Settled(x)'
    BY <1>1 DEF TailInv
  <2>2. QED
    BY <1>3, <2>1 DEF Settled
<1>7. QED
  BY <1>4, <1>5, <1>6 DEF TailInv

LEMMA TailStep == DatingInv /\ ConversationInv' /\ TailInv /\ [Next]_vars => TailInv'
<1>. SUFFICES ASSUME DatingInv, ConversationInv', TailInv, [Next]_vars PROVE TailInv'
  OBVIOUS
<1>. USE DEF DatingInv
<1>0. /\ table \in SUBSET Rows /\ loaded \in [Turns -> SUBSET Rows] /\ began \in [Turns -> Nat]
      /\ \A r \in table : r.at \in Int
      /\ \A t \in Turns : \A r \in loaded[t] : r.at \in Int
      /\ \A m \in said : m \in MessageIds /\ began[m[1]] \in Int
  BY DEF ConversationInv, TypeOK, Rows, MessageIds
<1>1. ASSUME NEW t \in Turns, Commit(t) PROVE TailInv'
  <2>. DEFINE roles == IF turn[t] = "answered" THEN {"user", "assistant"} ELSE {"user"}
  <2>1. /\ UNCHANGED <<loaded, began>> /\ table \subseteq table' /\ said \subseteq said'
        /\ table' = table \cup {Message(t, role) : role \in roles}
        /\ said' = said \cup {<<t, role>> : role \in roles}
    BY <1>1 DEF Commit, tasks
  <2>2. \A r \in table' : r \in table \/ \E role \in {"user", "assistant"} :
                            <<t, role>> \in said' /\ r = Message(t, role)
    BY <2>1
  <2>3. \A u, role : Message(u, role)' = Message(u, role)
    BY <2>1 DEF Message
  <2>4. \A r \in table' : IsSummary(r)' => r \in table /\ IsSummary(r)
    BY <2>2 DEF IsSummary, Message
  <2>5. \A at \in Int : Settled(at) => Settled(at)'
    BY <2>1, AddedRowsSettle
  <2>6. \A m \in Summarized' : m \in Summarized
    <3>1. \A m \in said' : m \in said \/ Message(m[1], m[2]) \in table'
      BY <2>1
    <3>2. QED
      BY <2>1, <2>3, <3>1 DEF Summarized
  <2>7. \A r \in table' : IsSummary(r)' \/ \E u \in Turns, role \in {"user", "assistant"} :
                            <<u, role>> \in said' /\ r = Message(u, role)
    BY <2>1, <2>2 DEF TailInv, IsSummary
  <2>8. \A m \in Summarized' : Settled(began[m[1]])'
    <3>1. \A m \in Summarized : Settled(began[m[1]]) /\ began[m[1]] \in Int
      BY <1>0 DEF TailInv, Summarized
    <3>2. \A m \in Summarized : \E at \in Int : at = began[m[1]] /\ Settled(at)'
      BY <2>5, <3>1
    <3>3. QED
      BY <2>1, <2>6, <3>2 DEF Settled
  <2>9. \A r \in table' : IsSummary(r)' => Settled(r.at)'
    BY <1>0, <2>4, <2>5 DEF TailInv
  <2>10. \A u \in Turns : \A r \in loaded'[u] : Settled(r.at)'
    BY <1>0, <2>1, <2>5 DEF TailInv
  <2>11. QED
    BY <2>3, <2>7, <2>8, <2>9, <2>10 DEF TailInv
<1>2. ASSUME NEW t \in Turns, Compact(t) PROVE TailInv'
  <2>1. /\ UNCHANGED <<turn, began, said>>
        /\ \A u \in Turns : loaded'[u] = loaded[u] \/ loaded'[u] = {}
    BY <1>0, <1>2 DEF Compact, requests
  <2>2. PICK at \in SummaryTimes(loaded[t]) : table' = (table \ loaded[t]) \cup {Summary(t, at)}
    BY <1>2 DEF Compact
  <2>3. table' \in SUBSET Rows /\ IsFiniteSet(table') /\ table \ loaded[t] \subseteq table'
    BY <2>2 DEF ConversationInv, TypeOK
  <2>4. ASSUME NEW x \in Int, Settled(x) PROVE Settled(x)'
    <3>1. SettledIn(table', x)
      BY <2>3, <2>4, CompactKeepsSettled
    <3>2. QED
      BY <2>1, <3>1 DEF Settled, SettledIn, Pair, LaterIn, IsSummary
  <2>5. at \in Int /\ Settled(at)
    <3>1. PICK e \in loaded[t], early \in {0, 1} : at = e.at - early
      BY <2>2 DEF SummaryTimes
    <3>2. e.at \in Int /\ Settled(e.at) /\ at \in Int /\ e.at >= at
      BY <1>0, <3>1 DEF TailInv
    <3>3. LaterIn(table, e.at) \subseteq table
      BY DEF LaterIn
    <3>4. SettledIn(table, at)
      BY <1>0, <3>2, <3>3, KeptRowsSettle DEF ConversationInv
    <3>5. QED
      BY <3>2, <3>4 DEF Settled
  <2>6. Summary(t, at).at = at /\ IsSummary(Summary(t, at))
    BY DEF Summary, IsSummary
  <2>7. \A u, role : Message(u, role)' = Message(u, role)
    BY <2>1 DEF Message
  <2>8. \A r \in table : IsSummary(r) \/ \E u \in Turns, role \in {"user", "assistant"} :
                            <<u, role>> \in said' /\ r = Message(u, role)'
    BY <2>1, <2>7 DEF TailInv
  <2>9. \A r \in table' : IsSummary(r) => r.at \in Int /\ Settled(r.at)
    BY <1>0, <2>2, <2>5, <2>6 DEF TailInv
  <2>10. \A u \in Turns : \A r \in loaded'[u] : r.at \in Int /\ Settled(r.at)
    BY <1>0, <2>1 DEF TailInv
  <2>11. \A r \in table' : IsSummary(r) \/ r \in table
    BY <2>2, <2>6
  <2>12. ASSUME NEW m \in Summarized' PROVE began[m[1]] \in Int /\ Settled(began[m[1]])
    <3>1. m \in said /\ Message(m[1], m[2]) \notin table'
      BY <2>1, <2>7 DEF Summarized
    <3>2. CASE Message(m[1], m[2]) \notin table
      BY <1>0, <3>1, <3>2 DEF Summarized, TailInv
    <3>3. CASE Message(m[1], m[2]) \in table
      <4>1. Message(m[1], m[2]) \in loaded[t]
        BY <2>2, <3>1, <3>3
      <4>2. Settled(Message(m[1], m[2]).at)
        BY <4>1 DEF TailInv
      <4>3. QED
        BY <1>0, <3>1, <4>2 DEF Message
    <3>4. QED
      BY <3>2, <3>3
  <2>13. \A m \in Summarized' : Settled(began[m[1]])'
    <3>1. \A m \in Summarized' : \E x \in Int : x = began[m[1]] /\ Settled(x)'
      BY <2>4, <2>12
    <3>2. QED
      BY <2>1, <3>1 DEF Settled
  <2>14. QED
    BY <2>4, <2>8, <2>9, <2>10, <2>11, <2>13 DEF TailInv, IsSummary
<1>3. ASSUME NEW t \in Turns, Load(t) PROVE TailInv'
  <2>1. UNCHANGED <<table, turn, began, said>>
    BY <1>3 DEF Load, requests
  <2>2. \A u \in Turns : loaded'[u] = loaded[u] \/ loaded'[u] \in EarlyRows(table)
    BY <1>0, <1>3 DEF Load
  <2>3. \A u \in Turns : \A r \in loaded'[u] : Settled(r.at)
    BY <2>2, EarlyIsSettled DEF TailInv
  <2>4. QED
    BY <2>1, <2>3, SameRowsSettle
<1>4. ASSUME NEW t \in Turns, Begin(t) PROVE TailInv'
  <2>1. /\ UNCHANGED <<table, loaded, said>> /\ turn[t] # "committed"
        /\ \A u \in Turns \ {t} : began'[u] = began[u]
    BY <1>0, <1>4 DEF Begin, tasks
  <2>2. \A m \in said : /\ m[1] \in Turns /\ began'[m[1]] = began[m[1]]
                        /\ Message(m[1], m[2])' = Message(m[1], m[2])
    BY <1>0, <2>1 DEF SaidCommitted, Message, MessageIds
  <2>3. \A u \in Turns : Pair(u) \subseteq said => began'[u] = began[u]
    <3>1. \A u \in Turns : <<u, "user">> \in Pair(u)
      BY DEF Pair
    <3>2. QED
      BY <2>2, <3>1
  <2>4. \A at : Settled(at) => Settled(at)'
    BY <2>1, <2>3 DEF Settled, SettledIn, LaterIn, Pair, IsSummary
  <2>5. \A u \in Turns, role \in {"user", "assistant"} :
            <<u, role>> \in said => <<u, role>> \in said' /\ Message(u, role)' = Message(u, role)
    BY <2>1, <2>2
  <2>6. \A r \in table' : IsSummary(r)' \/ \E u \in Turns, role \in {"user", "assistant"} :
                            <<u, role>> \in said' /\ r = Message(u, role)'
    BY <2>1, <2>5 DEF TailInv, IsSummary
  <2>7. Summarized' = Summarized
    BY <2>1, <2>2 DEF Summarized
  <2>8. \A m \in Summarized' : Settled(began[m[1]])'
    <3>1. \A m \in Summarized : m \in said /\ began'[m[1]] = began[m[1]] /\ Settled(began[m[1]])
      BY <2>2 DEF Summarized, TailInv
    <3>2. \A m \in Summarized : \E x : x = began[m[1]] /\ x = began'[m[1]] /\ Settled(x)'
      BY <2>4, <3>1
    <3>3. QED
      BY <2>7, <3>2 DEF Settled
  <2>9. /\ \A r \in table' : IsSummary(r)' => Settled(r.at)'
        /\ \A u \in Turns : \A r \in loaded'[u] : Settled(r.at)'
    BY <2>1, <2>4 DEF TailInv, IsSummary
  <2>10. QED
    BY <2>6, <2>8, <2>9 DEF TailInv
<1>5. ASSUME NEW t \in Turns,
             \/ Ask(t) \/ Answer(t) \/ Refuse(t) \/ RollBack(t)
             \/ ModelFails(t) \/ DatabaseFails(t) \/ Acknowledge(t) \/ WorkerDies(t)
      PROVE  TailInv'
  <2>1. UNCHANGED <<table, began, said>>
    BY <1>5 DEF Ask, Answer, Refuse, RollBack, ModelFails, DatabaseFails, Acknowledge, WorkerDies,
                requests
  <2>2. \A u \in Turns : loaded'[u] = loaded[u] \/ loaded'[u] = {}
    BY <1>0, <1>5 DEF Ask, Answer, Refuse, RollBack, ModelFails, DatabaseFails, Acknowledge,
                WorkerDies, Dispatch, tasks
  <2>3. QED
    <3>1. \A u \in Turns : \A r \in loaded'[u] : Settled(r.at)
      BY <2>2 DEF TailInv
    <3>2. QED
      BY <2>1, <3>1, SameRowsSettle
<1>6. CASE UNCHANGED vars
  <2>1. UNCHANGED <<table, began, said, loaded>>
    BY <1>6 DEF vars, requests, tasks
  <2>2. \A u \in Turns : \A r \in loaded'[u] : Settled(r.at)
    BY <2>1 DEF TailInv
  <2>3. QED
    BY <2>1, <2>2, SameRowsSettle
<1>7. QED
  BY <1>1, <1>2, <1>3, <1>4, <1>5, <1>6 DEF Next

LEMMA TailInvariant == Spec => [](DatingInv /\ TailInv)
<1>1. Init => TailInv
  BY DEF Init, TailInv, Summarized
<1>2. DatingInv => ConversationInv
  BY DEF DatingInv
<1>3. QED
  BY <1>1, <1>2, TailStep, DatingInvariant, PTL DEF Spec

\* However many tasks and turns overlap, however they order rows that tie, are delivered
\* again or fail: a message that is only in a summary has KeepTail messages as late as it
\* that are rows, or one less where the two rows of a turn have been taken for each other.
THEOREM TailAlwaysKept == Spec => []TailIsKept
<1>1. ASSUME DatingInv, TailInv, NEW m \in Summarized,
             ~(Cardinality(AsLateAs(began[m[1]])) >= KeepTail)
      PROVE  \E t \in Turns : began[t] >= began[m[1]] /\ TieBrokenTwice(t)
  <2>1. /\ m[1] \in Turns /\ \A t \in Turns : began[t] \in Int
        /\ table \in SUBSET Rows /\ IsFiniteSet(table)
    <3>1. said \in SUBSET MessageIds /\ began \in [Turns -> Nat] /\ table \in SUBSET Rows
      BY <1>1 DEF DatingInv, ConversationInv, TypeOK
    <3>2. m \in MessageIds
      BY <3>1 DEF Summarized
    <3>3. QED
      BY <1>1, <3>1, <3>2 DEF DatingInv, ConversationInv, MessageIds
  <2>2. ASSUME NEW x \in Int
        PROVE  /\ IsFiniteSet(AsLateAs(x)) /\ LaterIn(table, x) \subseteq AsLateAs(x)
               /\ Cardinality(AsLateAs(x)) \in Nat /\ Cardinality(LaterIn(table, x)) \in Nat
               /\ Cardinality(LaterIn(table, x)) <= Cardinality(AsLateAs(x))
    <3>1. IsFiniteSet(AsLateAs(x))
      BY <2>1, FS_Subset DEF AsLateAs
    <3>2. LaterIn(table, x) \subseteq AsLateAs(x)
      BY <2>1 DEF AsLateAs, LaterIn, IsSummary, Rows
    <3>3. QED
      BY <3>1, <3>2, FS_Subset, FS_CardinalityType
  <2>3. Settled(began[m[1]])
    BY <1>1 DEF TailInv
  <2>4. ~(Cardinality(LaterIn(table, began[m[1]])) >= KeepTail)
    BY <1>1, <2>1, <2>2, SizesAssumption
  <2>5. PICK t \in Turns : /\ Pair(t) \subseteq said
                           /\ began[t] >= began[m[1]]
                           /\ Cardinality(LaterIn(table, began[t])) >= KeepTail - 1
    BY <2>3, <2>4 DEF Settled, SettledIn
  <2>6. ASSUME NEW n \in Pair(t) PROVE n \in Summarized
    <3>. DEFINE row == Message(n[1], n[2])
    <3>1. n[1] = t /\ n[2] \in {"user", "assistant"} /\ row.at = began[t] /\ row.id[2] = n[2]
      BY DEF Pair, Message
    <3>. HIDE DEF row
    <3>2. SUFFICES ASSUME row \in table PROVE FALSE
      BY <2>5 DEF Summarized, row
    <3>3. row \in AsLateAs(began[m[1]]) /\ row \notin LaterIn(table, began[t])
      BY <2>1, <2>5, <3>1, <3>2 DEF AsLateAs, LaterIn
    <3>4. LaterIn(table, began[t]) \cup {row} \subseteq AsLateAs(began[m[1]])
      BY <2>1, <2>5, <3>3 DEF AsLateAs, LaterIn, IsSummary, Rows
    <3>5. IsFiniteSet(LaterIn(table, began[t]))
      BY <2>1, <2>2, FS_Subset
    <3>6. /\ IsFiniteSet(LaterIn(table, began[t]) \cup {row})
          /\ Cardinality(LaterIn(table, began[t]) \cup {row}) = Cardinality(LaterIn(table, began[t])) + 1
      BY <3>3, <3>5, FS_AddElement
    <3>7. Cardinality(LaterIn(table, began[t]) \cup {row}) <= Cardinality(AsLateAs(began[m[1]]))
      BY <2>1, <2>2, <3>4, FS_Subset
    <3>8. QED
      BY <1>1, <2>1, <2>2, <2>5, <3>6, <3>7, SizesAssumption
  <2>7. Cardinality(AsLateAs(began[t])) >= KeepTail - 1
    BY <2>1, <2>2, <2>5, SizesAssumption
  <2>8. QED
    BY <2>5, <2>6, <2>7 DEF TieBrokenTwice, Pair
<1>2. DatingInv /\ TailInv => TailIsKept
  BY <1>1 DEF TailIsKept
<1>3. QED
  BY <1>2, TailInvariant, PTL

-----------------------------------------------------------------------------
(* The count that decides on a summary                                     *)

Even(n) == \E k \in Nat : n = 2 * k
Odd(n) == \E k \in Nat : n = 2 * k + 1

\* As long as every question has its answer, rows come in pairs, so a turn reads an odd
\* number of them, and no task is there that might break the pairs up.
ParityInv ==
    \/ QuestionUnanswered
    \/ /\ \A t \in Turns : task[t] = "none"
       /\ Even(Cardinality(table))
       /\ \A t \in Turns : turn[t] = "asked" => Odd(seen[t])

LEMMA OddIsNoMultiple ==
    ASSUME NEW m \in Nat \ {0}, Even(m), NEW n \in Nat, Odd(n)
    PROVE  n % m # 0
<1>1. SUFFICES ASSUME n % m = 0 PROVE FALSE
  OBVIOUS
<1>2. PICK q \in Int : n = m * q
  BY <1>1
<1>3. PICK k \in Nat : m = 2 * k
  BY DEF Even
<1>4. n = 2 * (k * q)
  BY <1>2, <1>3
<1>5. PICK j \in Nat : n = 2 * j + 1
  BY DEF Odd
<1>6. k * q \in Int
  BY <1>3
<1>7. QED
  BY <1>4, <1>5, <1>6

\* An answered turn adds two rows that were not there.
LEMMA AnswerAddsTwo ==
    ASSUME DatingInv, NEW t \in Turns, turn[t] = "answered", Commit(t)
    PROVE  Cardinality(table') = Cardinality(table) + 2
<1>. DEFINE u == Message(t, "user")
            a == Message(t, "assistant")
<1>1. table' = (table \cup {u}) \cup {a}
  BY DEF Commit
<1>2. u \notin table /\ a \notin table
  <2>1. \A role : <<t, role>> \in Message(t, role).covers
    BY DEF Message
  <2>2. \A role : Message(t, role) \in table => turn[<<t, role>>[1]] = "committed"
    BY <2>1, ToldIsCommitted DEF DatingInv
  <2>3. QED
    BY <2>2
<1>3. u # a
  BY DEF Message
<1>. HIDE DEF u, a
<1>4. /\ IsFiniteSet(table \cup {u})
      /\ Cardinality(table \cup {u}) = Cardinality(table) + 1
  BY <1>2, FS_AddElement DEF DatingInv, ConversationInv
<1>5. Cardinality(table') = Cardinality(table \cup {u}) + 1
  BY <1>1, <1>2, <1>3, <1>4, FS_AddElement
<1>6. Cardinality(table) \in Nat
  BY FS_CardinalityType DEF DatingInv, ConversationInv
<1>7. QED
  BY <1>4, <1>5, <1>6

LEMMA ParityStep ==
    ASSUME Even(SummarizeEvery), DatingInv, ParityInv, [Next]_vars
    PROVE  ParityInv'
<1>. USE DEF DatingInv
<1>1. CASE QuestionUnanswered
  <2>1. PICK u \in Turns : <<u, "user">> \in said /\ <<u, "assistant">> \notin said
    BY <1>1 DEF QuestionUnanswered
  <2>2. turn[u] = "committed"
    BY <2>1 DEF SaidCommitted
  <2>3. CASE \E t \in Turns : Commit(t)
    <3>1. PICK t \in Turns : Commit(t)
      BY <2>3
    <3>2. t # u /\ said \subseteq said' /\ \A m \in said' : m \in said \/ m[1] = t
      BY <2>2, <3>1 DEF Commit
    <3>3. <<u, "user">> \in said' /\ <<u, "assistant">> \notin said'
      BY <2>1, <3>2
    <3>4. QED
      BY <3>3 DEF ParityInv, QuestionUnanswered
  <2>4. CASE said' = said
    BY <1>1, <2>4 DEF ParityInv, QuestionUnanswered
  <2>5. QED
    BY <2>3, <2>4 DEF Next, vars, Begin, Ask, Answer, Refuse, RollBack, Load, ModelFails, Compact,
                      DatabaseFails, Acknowledge, WorkerDies
<1>2. CASE /\ \A t \in Turns : task[t] = "none"
           /\ Even(Cardinality(table))
           /\ \A t \in Turns : turn[t] = "asked" => Odd(seen[t])
  <2>1. ASSUME NEW t \in Turns, Ask(t) PROVE ParityInv'
    <3>1. Odd(Cardinality(table) + 1)
      <4>1. PICK k \in Nat : Cardinality(table) = 2 * k
        BY <1>2 DEF Even
      <4>2. QED
        BY <4>1 DEF Odd
    <3>2. UNCHANGED <<table, task, said>> /\ \A u \in Turns : turn'[u] = "asked" => Odd(seen'[u])
      BY <1>2, <2>1, <3>1 DEF Ask, HistoryLength, tasks, ConversationInv, TypeOK
    <3>3. QED
      BY <1>2, <3>2 DEF ParityInv, Odd, Even
  <2>2. ASSUME NEW t \in Turns, Answer(t) PROVE ParityInv'
    <3>1. seen[t] % SummarizeEvery # 0
      BY <1>2, <2>2, OddIsNoMultiple, SizesAssumption DEF Answer, ConversationInv, TypeOK
    <3>2. UNCHANGED <<table, task, seen, said>> /\ \A u \in Turns : turn'[u] = "asked" => turn[u] = "asked"
      BY <2>2, <3>1 DEF Answer, tasks, ConversationInv, TypeOK
    <3>3. QED
      BY <1>2, <3>2 DEF ParityInv, Odd, Even
  <2>3. ASSUME NEW t \in Turns, Commit(t), turn[t] = "answered" PROVE ParityInv'
    <3>1. Cardinality(table') = Cardinality(table) + 2
      BY <2>3, AnswerAddsTwo
    <3>2. PICK k \in Nat : Cardinality(table) = 2 * k
      BY <1>2 DEF Even
    <3>3. Cardinality(table') = 2 * (k + 1)
      BY <3>1, <3>2
    <3>4. UNCHANGED <<task, seen>> /\ \A u \in Turns : turn'[u] = "asked" => turn[u] = "asked"
      BY <2>3 DEF Commit, tasks, ConversationInv, TypeOK
    <3>5. QED
      BY <1>2, <3>3, <3>4 DEF ParityInv, Odd, Even
  <2>4. ASSUME NEW t \in Turns, Commit(t), turn[t] = "refused" PROVE ParityInv'
    <3>1. said' = said \cup {<<t, "user">>}
      BY <2>4 DEF Commit
    <3>2. <<t, "assistant">> \notin said
      BY <2>4 DEF SaidCommitted
    <3>3. QED
      BY <3>1, <3>2 DEF ParityInv, QuestionUnanswered
  <2>5. ASSUME NEW t \in Turns, Begin(t) \/ Refuse(t) \/ RollBack(t) PROVE ParityInv'
    <3>1. UNCHANGED <<table, task, seen, said>> /\ \A u \in Turns : turn'[u] = "asked" => turn[u] = "asked"
      BY <2>5 DEF Begin, Refuse, RollBack, tasks, ConversationInv, TypeOK
    <3>2. QED
      BY <1>2, <3>1 DEF ParityInv, Odd, Even
  <2>6. ASSUME NEW t \in Turns,
               \/ Load(t) \/ ModelFails(t) \/ Compact(t) \/ DatabaseFails(t)
               \/ Acknowledge(t) \/ WorkerDies(t)
        PROVE  FALSE
    BY <1>2, <2>6 DEF Load, ModelFails, Compact, DatabaseFails, Acknowledge, WorkerDies
  <2>7. CASE UNCHANGED vars
    BY <1>2, <2>7 DEF vars, requests, tasks, ParityInv, QuestionUnanswered, Odd, Even
  <2>8. ASSUME NEW t \in Turns, Commit(t) PROVE ParityInv'
    BY <2>3, <2>4, <2>8 DEF Commit
  <2>9. QED
    BY <2>1, <2>2, <2>5, <2>6, <2>7, <2>8 DEF Next
<1>3. QED
  BY <1>1, <1>2 DEF ParityInv

\* With the 20 of the code, or any even number: however turns overlap, end or are lost,
\* no task is ever dispatched before the agent has failed in the conversation.
THEOREM SummariesAlwaysFollowFailures ==
    ASSUME Even(SummarizeEvery)
    PROVE  Spec => []SummariesFollowFailures
<1>1. Init => ParityInv
  <2>1. Even(0)
    BY DEF Even
  <2>2. QED
    BY <2>1, FS_EmptySet DEF Init, ParityInv
<1>2. DatingInv /\ ParityInv /\ [Next]_vars => ParityInv'
  BY ParityStep
<1>3. ParityInv => SummariesFollowFailures
  BY DEF ParityInv, SummariesFollowFailures
<1>4. QED
  BY <1>1, <1>2, <1>3, DatingInvariant, PTL DEF Spec
=============================================================================
