SPECIFICATION Spec
CONSTANTS
    Topic <- MCTopic
    Payload <- MCPayload
    Transformer <- MCTransformer
    Routes <- MCRoutes
    Execute <- MCExecute
    MaxMessages = 3
INVARIANTS
    TypeOK
    InLaneOrder
    NothingLost
    PublishedIsChainOutput
CHECK_DEADLOCK FALSE
