SPECIFICATION Spec
CONSTANTS
    Key <- MCKey
    Text <- MCText
    IsInt <- MCIsInt
    IsFloat <- MCIsFloat
    IsDouble <- MCIsDouble
    IsBool <- MCIsBool
    AsLong <- MCAsLong
    AsFloat <- MCAsFloat
    AsDouble <- MCAsDouble
    AsBoolean <- MCAsBoolean
    AsCharacter <- MCAsCharacter
    LevelsOf <- MCLevelsOf
    Chains <- MCChains
    Messages <- MCMessages
    OutputTopics <- MCOutputTopics
INVARIANTS
    TypeOK
    NeverTerminatesOnExpectedPayload
    LastTransformerDecides
    TopicOnlyGrows
CHECK_DEADLOCK FALSE
