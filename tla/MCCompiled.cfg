CONSTANTS
    Sources <- MCSources
    Executed <- MCExecuted
    Programs = {}
    StackHeight = 64
    MaxFrames = 16
    WordMax = 127
    Typed = {0, 1, 2, 3}
    Fuel = 12
SPECIFICATION CompiledSpec
INVARIANTS JudgesTheSource GraphsAreSound PlacedInOrder
           KeepsDiscipline FramesAreTheCallers ReachesItsScope StopsForWantOfStack
PROPERTIES MeansTheSource RunsTheProgram ReturnsToTheCaller EndsWithTheSource
