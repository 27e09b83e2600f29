SPECIFICATION Spec
CONSTANTS
    IntSize = 8
    LongSize = 32
    IsValidIp <- MCIsValidIp
    HasTlsPrefix <- MCHasTlsPrefix
    Configurations <- MCConfigurations
    Unparsable <- MCUnparsable
PROPERTIES
    ExitsWithoutRoutes
CHECK_DEADLOCK FALSE
