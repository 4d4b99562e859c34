SPECIFICATION Spec
CONSTANTS
    Actors = {a, b, c}
    Keys = {t, k}
    Nobody = nobody
    Token = t
    MaxChanges = 3
SYMMETRY Symmetry
CHECK_DEADLOCK FALSE
INVARIANTS
    TypeOK
    UpdatesSurvive
    ExchangedOnce
