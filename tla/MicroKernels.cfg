\* Three places and four operators to add: a repeated operator, a full resolver
\* and custom operators between builtin ones all occur.
SPECIFICATION Spec
CONSTANTS
    tOpCount = 3
    Companions = {"ADD", "RELU", "CIRCULAR_BUFFER"}
INVARIANTS
    FoundWithItsParser
    EveryPlaceIsFound
    ReadsWereSet
    TypesRespected
\* A node that was refused stays so.
CHECK_DEADLOCK FALSE
