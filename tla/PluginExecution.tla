--------------------------- MODULE PluginExecution ---------------------------
(***************************************************************************)
(* Executions of calls of the plugins the container registers, with the    *)
(* cache's own keys and its own heuristic for writes.                      *)
(***************************************************************************)
EXTENDS ToolExecution, ToolCalls

WritesNamed(x) == IsWriteOperation(x.arguments)

\* What module ToolExecution leaves open.
RealPlugins ==
    \A x \in Calls :
        /\ Dict(x.arguments) \in Values
        /\ KeyOf(x) = CacheKey(x)
        /\ IsWrite(x) = WritesNamed(x)
        /\ PluginAnswer(x) = AnswerOf(x)
        /\ Posts(x) = PostsIssue(x)

\* tool_cache.py: executions share an entry exactly if their arguments, nested ones
\* too, differ in nothing but the writing of texts and the type of numbers; integers
\* that are one double are one number.
KeysFit ==
    \A c, d \in Executions :
        Key(c) = Key(d) <=>
            /\ call[c].tool = call[d].tool
            /\ Alike[<<Dict(call[c].arguments), Dict(call[d].arguments)>>]

Hidden(path) == \E i \in DOMAIN path : Sensitive(path[i])

\* redaction.py: of the arguments an execution logs once it is admitted, nothing
\* below a sensitive key is told, however dicts and lists are nested, and every other
\* argument is, in full or shortened; the log's own processor, which redacts them
\* again, changes nothing.
LogsAreClean ==
    \A c \in Executions : phase[c] = "admitted" =>
        LET arguments == Dict(call[c].arguments)
            logged == Redact[arguments]
        IN  /\ \A leaf \in Told[logged] : Hidden(leaf[1]) => leaf[2] = Redacted
            /\ \A leaf \in Given[arguments] :
                  ~Hidden(leaf[1]) =>
                      leaf \in Told[logged] \/ <<leaf[1], Shortened(leaf[2])>> \in Told[logged]
            /\ RedactLog[logged] = logged
=============================================================================
