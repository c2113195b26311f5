\* Overlapping runs of the planner and the response generator in one process.
CONSTANTS
    r1 = r1
    r2 = r2
    planner_system = planner_system
    response_generator_system = response_generator_system
    Runs = {r1, r2}
    Prompts = {planner_system, response_generator_system}
    Templates = {planner_system}
    MaxRequests = 3
    MaxVersion = 3
    Troubles = {"langfuse", "template", "model", "reply", "cancel"}
SPECIFICATION Spec
INVARIANT TypeOK
INVARIANT LinkedToItsPrompt
INVARIANT UsageCountedOnce
PROPERTY CallsEnd
CHECK_DEADLOCK FALSE
