CONSTANTS
    Pieces <- MCPieces
    SizeMax = 7
SPECIFICATION Spec
INVARIANTS Duplicates
CHECK_DEADLOCK FALSE
