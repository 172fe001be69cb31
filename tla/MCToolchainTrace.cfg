CONSTANTS
    Sources = {"good"}
    BadToken = {}
    BadSyntax = {}
    BadNames = {}
    Crashing = {}
    Long = {}
    Failing = {}
    OptionSets = {{"n"}}
SPECIFICATION Spec
INVARIANTS EndsWithoutTrace
