CONSTANTS
    Inputs <- SeparateNumbers
    ChunkSize = 3
    WordMin <- MCWordMin
    WordMax = 79
    MaxInterrupts = 2
SPECIFICATION FairSpec
CHECK_DEADLOCK FALSE
INVARIANTS TypeOK NothingLost ReadsWhatWasTyped
PROPERTIES ReadAnswers
