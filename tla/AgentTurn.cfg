\* One turn over its tools: every loop and every retry can be taken at least once.
CONSTANTS
    github = github
    weather = weather
    made_up = made_up
    NoTool = NoTool
    Tools = {github, weather}
    WritingTools = {github}
    OtherNames = {made_up}
    MaxToolRetries = 2
    MaxValidationLoops = 1
    RecursionLimit = 14
    KeyOf <- Itself
    IsWrite <- WritesFor
    Posts <- WritesFor
    PluginAnswer <- AnswerFor
    TTL <- OneHour
    MaxAttempts = 2
    Lifetime = 1
    Troubles = {"redis", "http"}
SPECIFICATION TurnSpec
INVARIANT TypeOK
INVARIANT OneWritePerSelection
INVARIANT FirstPassSparesService
INVARIANT ReplyRestsOnLastExecution
INVARIANT ExecutionsLicensed
INVARIANT FailureAnsweredAfterAllRetries
INVARIANT NodesFindWhatTheyNeed
INVARIANT RepliesAreValid
INVARIANT FirstPassFitsBudget
PROPERTY SuccessIsRepeatedOnlyForInvalidReply
PROPERTY ImplementsAgentGraph
PROPERTY TurnEnds
CHECK_DEADLOCK FALSE
