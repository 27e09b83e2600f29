SPECIFICATION Spec
CONSTANTS
    IntSize = 8
    LongSize = 32
    IsValidIp <- MCIsValidIp
    HasTlsPrefix <- MCHasTlsPrefix
    Configurations <- MCConfigurations
    Unparsable <- MCUnparsable
INVARIANTS
    TypeOK
    AcceptedIffConforming
    RoutesAsConfigured
    SslOptionsAsConfigured
CHECK_DEADLOCK FALSE
