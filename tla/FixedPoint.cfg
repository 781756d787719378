\* Equality with gemmlowp, as UtilsTest asserts it: violated by negative ties.
SPECIFICATION Spec
CONSTANT Width = 8
INVARIANT HighMulIsGemmlowp
CHECK_DEADLOCK FALSE
