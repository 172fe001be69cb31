CONSTANTS
    Sources = {"good", "other", "token", "syntax", "names", "crashing", "long", "failing"}
    BadToken = {"token"}
    BadSyntax = {"syntax"}
    BadNames = {"names"}
    Crashing = {"crashing"}
    Long = {"long"}
    Failing = {"failing"}
    OptionSets <- MCOptionSets
SPECIFICATION Spec
INVARIANTS TypeOK RunsWhatWasCompiled SuccessMeansAll
PROPERTIES LeavesItsProgram
