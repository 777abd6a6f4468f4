SPECIFICATION Spec
CONSTANTS
    Texts = {"", "/", "typed"}
    None = None
    MaxCreations = 2
    MaxOvertakes = 5
INVARIANTS
    ProgressPageIsOwned
CHECK_DEADLOCK FALSE
