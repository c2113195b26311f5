CONSTANTS
    e1 = e1
    e2 = e2
    e3 = e3
    NoExecution = NoExecution
    Executions = {e1, e2, e3}
    Calls <- PluginCalls
    Values <- PluginValues
    Nesting <- Depth
    Double <- ThreeBits
    KeyOf <- PluginKey
    IsWrite <- WritesNamed
    PluginAnswer <- AnswerOf
    Posts <- PostsIssue
    TTL <- PluginTTL
    MaxAttempts = 2
    Lifetime = 2
    Troubles = {"redis", "http", "worker"}
SPECIFICATION Spec
SYMMETRY AnyExecution
INVARIANT TypeOK
INVARIANT AnswersBelong
INVARIANT AnswersExpire
INVARIANT WritesReachService
INVARIANT KeysFit
INVARIANT LogsAreClean
CHECK_DEADLOCK FALSE
