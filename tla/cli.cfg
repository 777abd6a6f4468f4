SPECIFICATION Spec
CONSTANTS
    Texts = {"", "/", "typed"}
    None = None
    MaxCreations = 2
    MaxOvertakes = 5
INVARIANTS
    CliInv
    WizardSatisfiesService
PROPERTY IndexingEnds
CHECK_DEADLOCK FALSE
