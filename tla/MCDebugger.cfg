CONSTANTS
    CodeLen = 7
    MaxBps = 2
    Program <- BreakProgram
    ReturnAddrs <- BreakReturns
SPECIFICATION FairSpec
INVARIANTS
    TypeOK
    OrigsAreProgram
    BreaksResolve
    Restorable
    ExecutesTheProgram
    EndRestoresProgram
    StepRunsOne
    PromptRestoresSignal
    ReportsKnownStatus
PROPERTIES
    ResumesPastBreakpoint
    RunsTheProgram
    InterruptReturns
