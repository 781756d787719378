SPECIFICATION TrafficSpec
CONSTANTS
    MaxRowWidth = 1
    Pixel = {p}
    Blank = blank
    Stages = 3
    YMemDepth = 2
    XFifoDepth = 2
    ZFifoDepth = 2
    Garbage = garbage
    RowWidths = {1}
    InitialDelays = {0, 1}
    ChannelCounts = {1, 2}
    YAddresses = {0}
    YCells = {blank}
INVARIANTS
    NoPixelWhileInit
    WordAligned
PROPERTIES
    ResultHeld
