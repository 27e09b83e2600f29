SPECIFICATION Spec
CONSTANTS
    IntBits = 6
    FloatBits = 3
    LargestFloat = 112
    DoubleBits = 6
    LargestDouble = 4032
    Fractions = 3
    Character <- MCCharacter
INVARIANTS
    IntegersKept
    OrderIsKept
    RereadsAsItself
    SplitIsExact
    InsertsLevels
    AddressIsComplete
CHECK_DEADLOCK FALSE
