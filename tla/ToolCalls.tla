----------------------------- MODULE ToolCalls -----------------------------
(***************************************************************************)
(* The arguments of a tool call, as infrastructure/cache/tool_cache.py     *)
(* reads them and as the plugins do.  A dict is a set of pairs of a key and *)
(* a value.  A text is its words (runs of letters) and how it is written:  *)
(* plainly, with capitals or with blanks around it.  Other than in Python, *)
(* TRUE is not 1: the kind of a value tells them apart.                    *)
(***************************************************************************)
EXTENDS Integers, FiniteSets, Sequences

CONSTANTS
    Values,         \* the values that occur in arguments
    Nesting(_),     \* how deep a value nests
    Double(_)       \* the double that float() gives for an int

Value(kind, text, written, number, items) ==
    [kind |-> kind, text |-> text, written |-> written, number |-> number, items |-> items]

Text(words, written) == Value("str", words, written, 0, {})
Whole(n) == Value("int", <<>>, "plain", n, {})
Decimal(n) == Value("float", <<>>, "plain", n, {})
Truth(n) == Value("bool", <<>>, "plain", n, {})
Dict(items) == Value("dict", <<>>, "plain", 0, items)
Null == Value("null", <<>>, "plain", 0, {})

\* A list is a set of pairs too, of a position, as many words as it counts, and the
\* value there.
Position(i) == [j \in 1..i |-> "next"]
List(values) == Value("list", <<>>, "plain", 0, {<<Position(i), values[i]>> : i \in DOMAIN values})

Words(text) == {text[i] : i \in DOMAIN text}

WellFormed(v) ==
    /\ v = Value(v.kind, v.text, v.written, v.number, v.items)
    /\ v.kind # "str" => v.text = <<>> /\ v.written = "plain"
    /\ v.kind \notin {"int", "float", "bool"} => v.number = 0
    /\ v.kind = "float" => Double(v.number) = v.number
    /\ v.kind \notin {"dict", "list"} => v.items = {}
    /\ v.kind = "list" => \A p \in v.items : Words(p[1]) \subseteq {"next"}

\* What is parsed from JSON nests finitely.
ASSUME ValuesAssumption ==
    \A v \in Values :
        /\ WellFormed(v)
        /\ Nesting(v) \in Nat
        /\ \A p \in v.items : p[2] \in Values /\ Nesting(p[2]) < Nesting(v)

-----------------------------------------------------------------------------
(* tool_cache.py                                                           *)

WritePatterns == {"create", "post", "delete", "update", "put", "patch", "remove", "write"}

\* Slip: the values are not looked at.
WriteNamedInKeys(arguments) ==
    \E p \in arguments : Words(p[1]) \cap WritePatterns # {}

IsWriteOperation(arguments) ==
    \E p \in arguments :
        \/ p[2].kind = "str" /\ Words(p[2].text) \cap WritePatterns # {}
        \/ Words(p[1]) \cap WritePatterns # {}

\* Slip: bool is a subclass of int.
CoerceBooleans(v) ==
    CASE v.kind = "str" -> [v EXCEPT !.written = "plain"]
      [] v.kind \in {"int", "bool"} -> [v EXCEPT !.kind = "float", !.number = Double(@)]
      [] OTHER -> v

\* strip().lower() and float(): how the value is written is lost, and the type of
\* a number, with the last digits of a large one.
Coerce(v) ==
    CASE v.kind = "str" -> [v EXCEPT !.written = "plain"]
      [] v.kind = "int" -> [v EXCEPT !.kind = "float", !.number = Double(@)]
      [] OTHER -> v

NormalizeArguments[v \in Values] ==
    IF v.kind = "dict"
      THEN Dict({<<p[1], NormalizeArguments[p[2]]>> : p \in v.items})
      ELSE Coerce(v)

\* The hash of the sorted JSON stands for the normalized arguments.
CacheKey(x) == <<x.tool, NormalizeArguments[Dict(x.arguments)]>>

SameScalar(v, w) ==
    \/ v = w
    \/ v.kind = "str" /\ w.kind = "str" /\ v.text = w.text
    \/ {v.kind, w.kind} \subseteq {"int", "float"} /\ Double(v.number) = Double(w.number)

\* Values that may share an entry, said without normalizing: the same keys, and
\* below them values that differ in nothing but how a text is written or a number
\* is typed.
Alike[vw \in Values \X Values] ==
    \/ SameScalar(vw[1], vw[2])
    \/ /\ vw[1].kind = "dict" /\ vw[2].kind = "dict"
       /\ \A p \in vw[1].items : \E q \in vw[2].items : p[1] = q[1] /\ Alike[<<p[2], q[2]>>]
       /\ \A q \in vw[2].items : \E p \in vw[1].items : p[1] = q[1] /\ Alike[<<p[2], q[2]>>]

-----------------------------------------------------------------------------
(* redaction.py                                                            *)

\* key, token, secret, password, auth, credential, and words that contain one.
SensitiveWords == {"key", "token", "tokens", "secret", "password", "auth", "author", "credential"}
Sensitive(key) == Words(key) \cap SensitiveWords # {}

\* 200 characters are LongText words, and the 50 that are kept are one.
LongText == 3
Redacted == Text(<<"redacted">>, "plain")
Shortened(v) == [v EXCEPT !.text = <<v.text[1], "truncated">>]

\* Slip: only texts are taken for secrets.
RedactTextsOnlyIn(S) ==
    LET hides(p) == Sensitive(p[1]) /\ p[2].kind = "str"
        redact[v \in S] ==
            IF v.kind = "dict"
              THEN Dict({<<p[1], IF hides(p) THEN Redacted ELSE redact[p[2]]>> : p \in v.items})
            ELSE IF v.kind = "list"
              THEN [v EXCEPT !.items = {<<p[1], redact[p[2]]>> : p \in @}]
            ELSE IF v.kind = "str" /\ Len(v.text) > LongText THEN Shortened(v)
            ELSE v
    IN  redact

\* redact, for the values of a set.
RedactIn(S) ==
    LET redact[v \in S] ==
            IF v.kind = "dict"
              THEN Dict({<<p[1], IF Sensitive(p[1]) THEN Redacted ELSE redact[p[2]]>> : p \in v.items})
            ELSE IF v.kind = "list"
              THEN [v EXCEPT !.items = {<<p[1], redact[p[2]]>> : p \in @}]
            ELSE IF v.kind = "str" /\ Len(v.text) > LongText THEN Shortened(v)
            ELSE v
    IN  redact

\* tool_executor redacts the arguments, and redacting_processor what is logged.
Redact == RedactIn(Values)
Logged == {Redact[v] : v \in Values} \cup {Redacted}
RedactLog == RedactIn(Logged)

\* The texts and numbers of a value, each with the keys that lead to it.
LeavesIn(S) ==
    LET leaves[v \in S] ==
            IF v.kind \in {"dict", "list"}
              THEN UNION {{<<<<p[1]>> \o leaf[1], leaf[2]>> : leaf \in leaves[p[2]]} : p \in v.items}
              ELSE {<<<<>>, v>>}
    IN  leaves
Given == LeavesIn(Values)
Told == LeavesIn(Logged)

-----------------------------------------------------------------------------
(* The plugins                                                             *)

\* bool(v): an empty value of any type, also 0, FALSE and None, does not count.
Truthy(v) == v # Value(v.kind, <<>>, "plain", 0, {})

Present(arguments, key) == \E p \in arguments : p[1] = key /\ p[2] # Null
Filled(arguments, key) == \E p \in arguments : p[1] = key /\ Truthy(p[2])
Named(arguments, key, name) == <<key, Text(name, "plain")>> \in arguments

\* create_issue: the one request that changes the service's state.
PostsIssue(x) ==
    /\ x.tool = "github"
    /\ Named(x.arguments, <<"action">>, <<"create", "issue">>)
    /\ Filled(x.arguments, <<"repo">>) /\ Filled(x.arguments, <<"title">>)

Lists(x) ==
    /\ x.tool = "github"
    /\ Named(x.arguments, <<"action">>, <<"list", "repos">>)

Forecasts(x) ==
    /\ x.tool = "weather"
    /\ Present(x.arguments, <<"latitude">>) /\ Present(x.arguments, <<"longitude">>)

\* What a plugin answers by itself: mock_api succeeds; calls with arguments that do
\* not make a request, and the stubs, fail.
AnswerOf(x) ==
    IF PostsIssue(x) \/ Lists(x) \/ Forecasts(x) THEN "request"
    ELSE IF x.tool = "mock_api" THEN "success"
    ELSE "failure"
=============================================================================
