CONSTANTS
    None = None
    KeyId = {k1, k2}
    BootSecret = {b1, b2}
    ExpectIssuer = TRUE
    ExpectAudience = FALSE
    MaxFailures = 1
    MaxStarts = 3
SPECIFICATION Spec
INVARIANTS
    IssuedKeysAccepted
    RevokedStaysRevoked
    OnlyAuthorisedPass
PROPERTIES
    BootstrapOpensAdmin
CHECK_DEADLOCK FALSE
