SPECIFICATION Spec
CONSTANTS
    s1 = s1
    s2 = s2
    guide = guide
    notes = notes
    broken = broken
    Sessions = {s1, s2}
    Names = {"recipes", "menus"}
    Files = {guide, notes, broken}
    Paths <- MCPaths
    FileKind <- MCFileKind
    Parts <- MCParts
    MaxCreations = 2
    None = None
INVARIANTS
    KbInv
PROPERTIES
    CreatesAtomically
    CreationsEnd
CHECK_DEADLOCK FALSE
