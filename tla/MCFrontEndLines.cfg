CONSTANTS
    Texts <- MCTexts
    MaxIdent = 9
    MaxDigits = 2
    WordMax = 15
SPECIFICATION Spec
INVARIANT LinesAreTrue
