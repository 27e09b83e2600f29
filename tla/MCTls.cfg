SPECIFICATION Spec
CONSTANTS
    IntSize = 8
    LongSize = 32
    IsValidIp <- MCIsValidIp
    HasTlsPrefix <- MCHasTlsPrefix
    Configurations <- MCConfigurations
    Unparsable <- MCUnparsable
INVARIANTS
    SslMeansTls
CHECK_DEADLOCK FALSE
