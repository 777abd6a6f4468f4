SPECIFICATION SearchSpec
CONSTANTS
    d1 = d1
    d2 = d2
    d3 = d3
    asked = asked
    None = None
    Documents = {d1, d2, d3}
    Payload <- MCPayload
    Slug <- MCSlug
    Lower <- MCLower
    Similar <- MCSimilar
    MaxCrashes = 1
    Texts = {asked}
    Mentions <- MCMentions
    Near <- MCNear
    Symmetric <- MCSymmetric
    TopK = 2
    MaxHops = 2
    MaxSearches = 0
PROPERTY RedoIsSafe
CHECK_DEADLOCK FALSE
