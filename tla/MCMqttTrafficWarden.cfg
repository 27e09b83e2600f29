SPECIFICATION Spec
CONSTANTS
    Topic <- MCTopic
    Payload <- MCPayload
    Transformer <- MCTransformer
    Routes <- MCRoutes
    Execute <- MCExecute
    TopicList <- MCTopicList
    Matching <- MCMatching
    MaxMessages = 2
    MaxMsgIds = 3
    MaxPublishes = 2
INVARIANTS
    BrokerLaneOrder
    NothingVanishes
PROPERTIES
    EveryMessageRelayed
    ImplementsService
CHECK_DEADLOCK FALSE
