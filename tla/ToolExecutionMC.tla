-------------------------- MODULE ToolExecutionMC --------------------------
(***************************************************************************)
(* Executions of calls of the real plugins, with the cache's own keys.     *)
(***************************************************************************)
EXTENDS PluginExecution, FiniteSetsExt, TLC

GitHub(arguments) == [tool |-> "github", arguments |-> arguments]
Weather(arguments) == [tool |-> "weather", arguments |-> arguments]
Mock(arguments) == [tool |-> "mock_api", arguments |-> arguments]
Jira(arguments) == [tool |-> "jira", arguments |-> arguments]

Action(words, written) == <<<<"action">>, Text(words, written)>>
Issue == {Action(<<"create", "issue">>, "plain"),
          <<<<"repo">>, Text(<<"acme">>, "plain")>>, <<<<"title">>, Text(<<"bug">>, "plain")>>}

ListRepos == GitHub({Action(<<"list", "repos">>, "plain")})
ListReposLoudly == GitHub({Action(<<"list", "repos">>, "capitals")})
CreateIssue == GitHub(Issue)
Forecast == Weather({<<<<"latitude">>, Whole(0)>>, <<<<"longitude">>, Whole(2)>>})
Echo(verbose, id) == Mock({<<<<"payload">>, Dict({<<<<"verbose">>, verbose>>, <<<<"id">>, id>>})>>})
EchoTrue == Echo(Truth(1), Whole(8))
EchoWhole == Echo(Whole(1), Whole(9))
EchoDecimal == Echo(Decimal(1), Decimal(8))
SearchJira == Jira({
    Action(<<"search">>, "plain"),
    <<<<"servers">>, List(<<
        Dict({<<<<"api", "key">>, Text(<<"topsecret">>, "plain")>>,
              <<<<"name">>, Text(<<"acme">>, "plain")>>}),
        Dict({<<<<"auth">>, Dict({<<<<"user">>, Text(<<"somebody">>, "plain")>>})>>,
              <<<<"max", "tokens">>, Whole(9)>>})>>)>>,
    <<<<"note">>, Text(<<"a", "rather", "long", "text">>, "plain")>>})

PluginCalls == {ListRepos, ListReposLoudly, CreateIssue, Forecast,
                EchoTrue, EchoWhole, EchoDecimal, SearchJira}

RECURSIVE WithParts(_)
WithParts(v) == {v} \cup UNION {WithParts(p[2]) : p \in v.items}
PluginValues == UNION {WithParts(Dict(x.arguments)) : x \in PluginCalls}

RECURSIVE Depth(_)
Depth(v) == Max({0} \cup {1 + Depth(p[2]) : p \in v.items})

\* Doubles of three bits: of the numbers from 8 on, they hold the even ones.
ThreeBits(n) == IF n < 8 THEN n ELSE n - (n % 2)

\* 3600 and 300 in the settings, 60 for mock_api, none for jira.
PluginTTL(x) ==
    CASE x.tool = "github" -> 2
      [] x.tool \in {"weather", "mock_api"} -> 1
      [] OTHER -> 0

\* The keys of all calls, computed once.
PluginKeys == [x \in PluginCalls |-> CacheKey(x)]
PluginKey(x) == PluginKeys[x]

ASSUME CallsOfPlugins == RealPlugins

AnyExecution == Permutations(Executions)
=============================================================================
