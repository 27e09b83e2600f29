SPECIFICATION Spec
CONSTANTS
    Subscriptions = 2
    MaxMsgIds = 5
    MaxPublishes = 3
INVARIANTS
    TypeOK
    RetryChainAlive
    DeliveredInOrder
    OneAttemptAtATime
    NoneForgotten
PROPERTIES
    Resubscribed
    EventuallyDelivered
    ImplementsChannel
CHECK_DEADLOCK FALSE
