---------------------------- MODULE Conversation ----------------------------
(***************************************************************************)
(* The messages of one conversation in PostgreSQL: turns of                *)
(* application/services/chat_service.py, each a transaction of its own     *)
(* request, and the Celery tasks of infrastructure/tasks/summarization.py  *)
(* that replace early rows by a summary.  All of them overlap; a statement *)
(* sees what is committed when it runs (READ COMMITTED) and its own        *)
(* transaction's rows.  A row's created_at is the time its transaction     *)
(* began, so the two rows of a turn tie, and ORDER BY may put either one   *)
(* first.                                                                  *)
(***************************************************************************)
EXTENDS Integers, FiniteSets

CONSTANTS
    Turns,              \* the requests ever made to the conversation
    SummarizeEvery,     \* the 20 of send_message
    MinToSummarize,     \* the 20 of summarize_conversation
    KeepTail,           \* _KEEP_TAIL
    MaxRetries,         \* max_retries of the task
    MaxRuns,            \* bound of the model: deliveries of one task
    Spread,             \* milliseconds between the starts of two transactions
    Troubles            \* what may go wrong

ASSUME TurnsAssumption == IsFiniteSet(Turns)

ASSUME SizesAssumption ==
    /\ SummarizeEvery \in Nat \ {0}
    /\ KeepTail \in Nat
    /\ MinToSummarize \in Nat /\ MinToSummarize > KeepTail
    /\ MaxRetries \in Nat
    /\ MaxRuns \in Nat
    /\ Spread \in Nat \ {0}

\* "agent": the graph raises; "request": a request's process dies or an
\* unexpected exception rolls it back; "broker": a task cannot be dispatched;
\* "model": the summarising model fails; "database": a task's statement fails;
\* "worker": a Celery worker dies.
Trouble == {"agent", "request", "broker", "model", "database", "worker"}
ASSUME TroublesAssumption == Troubles \subseteq Trouble

VARIABLES
    table,      \* the committed rows of messages
    turn,       \* where each request is
    began,      \* when its transaction began
    seen,       \* len(history) of each request
    task,       \* where the task dispatched by each request is
    loaded,     \* to_summarize of each task
    retries,    \* its retries
    runs,       \* its deliveries
    clock,
    said        \* history: the messages whose transactions committed

requests == <<turn, began, seen>>
tasks == <<task, loaded, retries, runs>>
vars == <<table, requests, tasks, clock, said>>

\* A row carries the messages it stands for: itself, or those it summarizes.
Message(t, role) ==
    [id |-> <<t, role, 0>>, at |-> began[t], covers |-> {<<t, role>>}]
Summary(t, at) ==
    [id |-> <<t, "system", runs[t]>>, at |-> at, covers |-> UNION {r.covers : r \in loaded[t]}]

MessageIds == Turns \X {"user", "assistant"}
Rows == [id : Turns \X {"user", "assistant", "system"} \X Nat, at : Int, covers : SUBSET MessageIds]

TypeOK ==
    /\ table \subseteq Rows
    /\ turn \in [Turns -> {"new", "begun", "asked", "answered", "refused", "committed", "lost"}]
    /\ began \in [Turns -> Nat]
    /\ seen \in [Turns -> Nat]
    /\ task \in [Turns -> {"none", "queued", "loaded", "compacted", "ended"}]
    /\ loaded \in [Turns -> SUBSET Rows]
    /\ retries \in [Turns -> 0..MaxRetries]
    /\ runs \in [Turns -> 0..MaxRuns]
    /\ clock \in Nat
    /\ said \subseteq MessageIds

Init ==
    /\ table = {}
    /\ turn = [t \in Turns |-> "new"]
    /\ began = [t \in Turns |-> 0]
    /\ seen = [t \in Turns |-> 0]
    /\ task = [t \in Turns |-> "none"]
    /\ loaded = [t \in Turns |-> {}]
    /\ retries = [t \in Turns |-> 0]
    /\ runs = [t \in Turns |-> 0]
    /\ clock = Spread
    /\ said = {}

-----------------------------------------------------------------------------
(* send_message                                                            *)

\* The request's first statement looks the conversation up.
Begin(t) ==
    /\ turn[t] = "new"
    /\ turn' = [turn EXCEPT ![t] = "begun"]
    /\ began' = [began EXCEPT ![t] = clock]
    /\ clock' = clock + Spread
    /\ UNCHANGED <<table, seen, tasks, said>>

\* Slip: the history is read before the user's message is added.
WithoutOwnMessage == Cardinality(table)

\* What a transaction reads: the committed rows and its own message.
HistoryLength == Cardinality(table) + 1
History(t) == table \cup {Message(t, "user")}

\* What the filter and the nodes after it take for the user's message, messages[-1]:
\* any of the latest rows, as ORDER BY breaks ties.
LastMessages(t) == {r \in History(t) : \A s \in History(t) : s.at <= r.at}

\* The user's message is flushed, unseen by others, and the history read.
Ask(t) ==
    /\ turn[t] = "begun"
    /\ turn' = [turn EXCEPT ![t] = "asked"]
    /\ seen' = [seen EXCEPT ![t] = HistoryLength]
    /\ UNCHANGED <<table, began, tasks, clock, said>>

\* The task goes to the broker before the transaction is committed.
Dispatch(t) ==
    /\ task' = [task EXCEPT ![t] = "queued"]
    /\ UNCHANGED <<loaded, retries, runs>>

Answer(t) ==
    /\ turn[t] = "asked"
    /\ turn' = [turn EXCEPT ![t] = "answered"]
    /\ \/ seen[t] % SummarizeEvery = 0 /\ Dispatch(t)
       \/ seen[t] % SummarizeEvery # 0 /\ UNCHANGED tasks
       \/ seen[t] % SummarizeEvery = 0 /\ "broker" \in Troubles /\ UNCHANGED tasks
    /\ UNCHANGED <<table, began, seen, clock, said>>

\* A DomainError of the graph becomes a response, and the middleware commits.
Refuse(t) ==
    /\ turn[t] = "asked"
    /\ "agent" \in Troubles
    /\ turn' = [turn EXCEPT ![t] = "refused"]
    /\ UNCHANGED <<table, began, seen, tasks, clock, said>>

Commit(t) ==
    /\ turn[t] \in {"answered", "refused"}
    /\ turn' = [turn EXCEPT ![t] = "committed"]
    /\ LET roles == IF turn[t] = "answered" THEN {"user", "assistant"} ELSE {"user"}
       IN  /\ table' = table \cup {Message(t, role) : role \in roles}
           /\ said' = said \cup {<<t, role>> : role \in roles}
    /\ UNCHANGED <<began, seen, tasks, clock>>

RollBack(t) ==
    /\ turn[t] \in {"begun", "asked", "answered", "refused"}
    /\ "request" \in Troubles
    /\ turn' = [turn EXCEPT ![t] = "lost"]
    /\ UNCHANGED <<table, began, seen, tasks, clock, said>>

-----------------------------------------------------------------------------
(* summarize_conversation                                                  *)

\* Slip: ORDER BY created_at DESC.
NewestRows(rows) ==
    {early \in SUBSET rows :
        /\ Cardinality(rows \ early) = KeepTail
        /\ \A r \in early, s \in rows \ early : r.at >= s.at}

\* rows[:-_KEEP_TAIL], for every way ORDER BY created_at may break ties.
EarlyRows(rows) ==
    {early \in SUBSET rows :
        /\ Cardinality(rows \ early) = KeepTail
        /\ \A r \in early, s \in rows \ early : r.at <= s.at}

Load(t) ==
    /\ task[t] = "queued"
    /\ runs[t] < MaxRuns
    /\ runs' = [runs EXCEPT ![t] = @ + 1]
    /\ IF Cardinality(table) < MinToSummarize
         THEN /\ task' = [task EXCEPT ![t] = "ended"]
              /\ UNCHANGED loaded
         ELSE /\ task' = [task EXCEPT ![t] = "loaded"]
              /\ \E early \in EarlyRows(table) : loaded' = [loaded EXCEPT ![t] = early]
    /\ UNCHANGED <<table, requests, retries, clock, said>>

\* Slip: one retry more than max_retries.
GenerousModelFails(t) ==
    /\ task[t] = "loaded"
    /\ "model" \in Troubles
    /\ IF retries[t] <= MaxRetries
         THEN /\ task' = [task EXCEPT ![t] = "queued"]
              /\ retries' = [retries EXCEPT ![t] = @ + 1]
         ELSE /\ task' = [task EXCEPT ![t] = "ended"]
              /\ UNCHANGED retries
    /\ loaded' = [loaded EXCEPT ![t] = {}]
    /\ UNCHANGED <<table, requests, runs, clock, said>>

\* self.retry: a new delivery, and this one is over.
ModelFails(t) ==
    /\ task[t] = "loaded"
    /\ "model" \in Troubles
    /\ IF retries[t] < MaxRetries
         THEN /\ task' = [task EXCEPT ![t] = "queued"]
              /\ retries' = [retries EXCEPT ![t] = @ + 1]
         ELSE /\ task' = [task EXCEPT ![t] = "ended"]
              /\ UNCHANGED retries
    /\ loaded' = [loaded EXCEPT ![t] = {}]
    /\ UNCHANGED <<table, requests, runs, clock, said>>

\* Slip: a summary is dated by the task's own transaction.
DatedNow(rows) == {clock}

\* A millisecond before the earliest row, or less where that would pass into
\* another second.
SummaryTimes(rows) ==
    LET Earliest == {r \in rows : \A s \in rows : r.at <= s.at}
    IN  {r.at - early : r \in Earliest, early \in {0, 1}}

\* Slip: DELETE everything as old as the rows that were read.
CompactByTime(t) ==
    /\ task[t] = "loaded"
    /\ task' = [task EXCEPT ![t] = "compacted"]
    /\ \E at \in SummaryTimes(loaded[t]) :
          table' = {r \in table : \A s \in loaded[t] : r.at > s.at} \cup {Summary(t, at)}
    /\ loaded' = [loaded EXCEPT ![t] = {}]
    /\ UNCHANGED <<requests, retries, runs, clock, said>>

\* DELETE removes the rows that were read, as far as they are still there.  That the
\* summary's text covers them is the model's business: an empty answer is stored too.
Compact(t) ==
    /\ task[t] = "loaded"
    /\ task' = [task EXCEPT ![t] = "compacted"]
    /\ \E at \in SummaryTimes(loaded[t]) :
          table' = (table \ loaded[t]) \cup {Summary(t, at)}
    /\ loaded' = [loaded EXCEPT ![t] = {}]
    /\ UNCHANGED <<requests, retries, runs, clock, said>>

\* The exception ends the task, and its transaction is rolled back.
DatabaseFails(t) ==
    /\ task[t] \in {"queued", "loaded"}
    /\ "database" \in Troubles
    /\ task' = [task EXCEPT ![t] = "ended"]
    /\ loaded' = [loaded EXCEPT ![t] = {}]
    /\ UNCHANGED <<table, requests, retries, runs, clock, said>>

Acknowledge(t) ==
    /\ task[t] = "compacted"
    /\ task' = [task EXCEPT ![t] = "ended"]
    /\ UNCHANGED <<table, requests, loaded, retries, runs, clock, said>>

\* acks_late: the task is delivered again, also if it had already committed.
WorkerDies(t) ==
    /\ task[t] \in {"loaded", "compacted"}
    /\ "worker" \in Troubles
    /\ task' = [task EXCEPT ![t] = "queued"]
    /\ loaded' = [loaded EXCEPT ![t] = {}]
    /\ UNCHANGED <<table, requests, retries, runs, clock, said>>

Next ==
    \E t \in Turns :
        \/ Begin(t)
        \/ Ask(t)
        \/ Answer(t)
        \/ Refuse(t)
        \/ Commit(t)
        \/ RollBack(t)
        \/ Load(t)
        \/ ModelFails(t)
        \/ Compact(t)
        \/ DatabaseFails(t)
        \/ Acknowledge(t)
        \/ WorkerDies(t)

Spec == Init /\ [][Next]_vars

-----------------------------------------------------------------------------

\* No message of a committed turn is ever lost, and none of a turn that was
\* rolled back is kept: each is a row or part of a summary that is one, through
\* overlapping, repeated and interrupted tasks.
Remembered == UNION {r.covers : r \in table}
NothingForgotten == Remembered = said

\* Messages that are only in a summary now, and the rows of messages as late as a time.
Summarized == {m \in said : Message(m[1], m[2]) \notin table}
AsLateAs(at) == {r \in table : r.id[2] # "system" /\ r.at >= at}

\* "always preserve the last N messages verbatim" (summarization.py:26, _KEEP_TAIL): a
\* message that is only in a summary has N as late as it that are rows still.  Not so:
\* TailVerbatim.cfg.
LastMessagesVerbatim == \A m \in Summarized : Cardinality(AsLateAs(began[m[1]])) >= KeepTail

\* What the tasks keep of that promise, however they overlap with turns and one another,
\* are repeated or fail.  A row too few is kept where the tail begins in the middle of a
\* turn, and two tasks that ordered rows that tie differently have deleted one row of
\* the turn each.  No second row is lost so, and none in another way.
TieBrokenTwice(t) ==
    /\ {t} \X {"user", "assistant"} \subseteq Summarized
    /\ Cardinality(AsLateAs(began[t])) >= KeepTail - 1
TailIsKept ==
    \A m \in Summarized :
        \/ Cardinality(AsLateAs(began[m[1]])) >= KeepTail
        \/ \E t \in Turns : began[t] >= began[m[1]] /\ TieBrokenTwice(t)

\* The agent answers the message it was sent: the last one it reads is the turn's own,
\* unless a turn that began later has committed already.  Neither a summary nor a turn
\* that began before puts a row behind it.
AnswersOwnMessage ==
    [][\A t \in Turns : turn[t] = "begun" /\ turn'[t] = "asked" =>
          \/ LastMessages(t) = {Message(t, "user")}
          \/ \E u \in Turns : turn[u] = "committed" /\ began[u] > began[t]]_vars

\* What becomes of that count, 20 being even: answered turns leave two rows each, so a
\* turn reads an odd number of them, and no conversation is ever summarized unless the
\* agent has failed in it and left a question without its answer.
QuestionUnanswered == \E t \in Turns : <<t, "user">> \in said /\ <<t, "assistant">> \notin said
SummariesFollowFailures == (\E t \in Turns : task[t] # "none") => QuestionUnanswered

\* README, Section 3: a task is dispatched after every 20th message.
DispatchedEveryTwenty ==
    Cardinality(said) >= SummarizeEvery => \E t \in Turns : task[t] # "none"
=============================================================================
