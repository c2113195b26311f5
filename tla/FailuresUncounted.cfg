CONSTANTS
    e1 = e1
    e2 = e2
    NoExecution = NoExecution
    Executions = {e1, e2}
    Calls <- PluginCalls
    Values <- PluginValues
    Nesting <- Depth
    Double <- ThreeBits
    KeyOf <- PluginKey
    IsWrite <- WritesNamed
    PluginAnswer <- AnswerOf
    Posts <- PostsIssue
    TTL <- PluginTTL
    MaxAttempts = 3
    Lifetime = 2
    Troubles = {"http"}
SPECIFICATION Spec
SYMMETRY AnyExecution
INVARIANT CircuitSeesFailures
CHECK_DEADLOCK FALSE
