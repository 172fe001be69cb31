CONSTANTS
    Programs <- MCRaw
    StackHeight = 6
    MaxFrames = 2
    WordMax = 15
    Typed = {0}
SPECIFICATION Spec
INVARIANTS TypeOK
