SPECIFICATION Spec
CONSTANTS
    DataWidth = 3
    Words = 2
    Base = 16
    Addresses = {16, 21}
    Undefined = "x"
    WordWidth = 2
    Distances = {1, 3, 7}
    MaxPause = 5
    CounterWidth = 3
    MaxRowWidth = 2
    Blank = blank
    Pixel = {a, b}
    RowWidths = {1, 2, 3}
    InitialDelays = {0, 2, 6}
    MaxRun = 7
    Stages = 5
    Bubble = bubble
    MaxCommands = 9
INVARIANTS
    SharedBus
    RamsAnswer
    NoEarlyInterrupt
    WindowIsNeighbourhood
    OneWindowPerPixel
    InFlight
    InOrder
PROPERTIES
    BurstsEnd
    NoMissedInterrupt
    FullReset
    SystemRuns
    WindowHeld
    Answered
