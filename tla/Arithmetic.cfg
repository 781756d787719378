SPECIFICATION Spec
CONSTANTS
    Width = 8
    TapWidth = 4
    AccumulatorWidth = 13
    Images = {1, 2, 3, 4}
    Filters = {1, 2, 3}
    Strides = {1, 2, 3}
    Dilations = {1, 2}
    SmallSum = 9
INVARIANTS
    FixedPointIsNearest
    ResultIsDotProduct
    LayersAreRight
    ElementsAreRight
    TensorsAreRight
CHECK_DEADLOCK FALSE
