CONSTANTS
    Agent = {"a", "b"}
    Root = "a"
    SubAgents <- MCSubAgents
    Tools <- MCTools
    Does <- MCDoes
    Confirmed = {"deploy", "read"}
    Consented = {"deploy"}
    LongRunning = {"choose"}
    Callbacks = {"b"}
    Executing = {"b"}
    MaxIterations = 2
    MaxLlmCalls = 3
    MaxParallel = 2
    MaxCalls = 3
    MaxMessages = 3
    Faults = {"drop", "hook", "model"}
SPECIFICATION Spec
INVARIANTS
    RunsAsApproved
    RequestIsConversation
    AnsweredWhenAsked
    AnsweredByOwner
CHECK_DEADLOCK FALSE
