\* The comment of invoke in c/common.h: violated by CAST and MUL.
SPECIFICATION Spec
CONSTANTS
    tOpCount = 1
    Companions = {}
INVARIANT OkMeansWritten
CHECK_DEADLOCK FALSE
