SPECIFICATION FairSpec
CONSTANTS
    Prompts = {p, q}
    Triggers = {q}
    Texts = {t, u}
    Customs = {c}
    Aborts = {a}
    Answers = {"answer", "calls", "failed", "overflow", "length"}
    MaxRetries = 1
    MaxHost = 2
    MaxSaid = 3
    Overlap = FALSE
CHECK_DEADLOCK FALSE
INVARIANTS
    TypeOK
    IdleMeansIdle
    NothingLeftBehind
    ContextIsRebuilt
    ShownIsQueued
    ResultsStayWithCalls
PROPERTIES
    CallsReturn
