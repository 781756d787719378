SPECIFICATION Spec
CONSTANTS
    MaxRowWidth = 2
    Pixel <- MCPixel
    Blank = blank
    Stages = 5
    YMemDepth = 2
    XFifoDepth = 2
    ZFifoDepth = 2
    Garbage = garbage
    Geometries <- MCGeometries
    MaxWords = 4
    MaxRuns = 3
    Drain = FALSE
INVARIANTS
    OnlyResultsDue
