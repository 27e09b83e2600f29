SPECIFICATION Spec
CONSTANTS
    Topic <- MCTopic
    Payload <- MCPayload
    Transformer <- MCTransformer
    Routes <- MCRoutes
    Execute <- MCExecute
    TopicList <- MCTopicList
    Matching <- MCMatching
    MaxMessages = 1
    MaxMsgIds = 4
    MaxPublishes = 2
PROPERTIES
    LossIsFollowedByAttempt
CHECK_DEADLOCK FALSE
