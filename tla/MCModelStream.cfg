SPECIFICATION Spec
CONSTANTS
    None = None
    Fresh = Fresh
    Providers = {"anthropic", "openai", "gemini"}
    Plans <- MCPlans
INVARIANTS
    StreamedIsWhole
    ThoughtsReplayed
    AnswersFindTheirCalls
CHECK_DEADLOCK FALSE
