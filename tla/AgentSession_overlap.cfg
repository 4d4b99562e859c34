SPECIFICATION Spec
CONSTANTS
    Prompts = {p, q}
    Triggers = {}
    Texts = {t, u}
    Customs = {c}
    Aborts = {a}
    Answers = {"answer", "calls", "failed", "overflow", "length"}
    MaxRetries = 1
    MaxHost = 1
    MaxSaid = 3
    Overlap = TRUE
CHECK_DEADLOCK FALSE
INVARIANTS
    IdleMeansIdle
