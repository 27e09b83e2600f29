SPECIFICATION Spec
CONSTANTS
    Topic <- MCTopic
    Payload <- MCPayload
    Transformer <- MCTransformer
    Routes <- MCRoutes
    Execute <- MCExecute
    Visits <- MCVisits
    MaxOutside = 2
    MaxMessages = 7
INVARIANTS
    ArrivalsAreBounded
PROPERTIES
    ComesToRest
CHECK_DEADLOCK FALSE
