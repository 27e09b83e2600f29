SPECIFICATION Spec
CONSTANTS
    Topic <- MCTopic
    Payload <- MCPayload
    Transformer <- MCTransformer
    Routes <- MCRoutes
    Execute <- MCExecute
    MaxMessages = 2
PROPERTIES
    EveryRouteServed
    ImplementsRelay
CHECK_DEADLOCK FALSE
