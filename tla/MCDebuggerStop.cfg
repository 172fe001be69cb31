CONSTANTS
    CodeLen = 6
    MaxBps = 2
    Program <- CallProgram
    ReturnAddrs <- CallReturns
SPECIFICATION Spec
PROPERTIES
    StopsAtBreakpoint
