CONSTANTS
    None = None
    ECN_PRICING_TIER = "basic"
    Handler = {h1, h2}
    Tenant = {t1, t2}
    MaxNodes = 2
    MaxPeriod = 2
    MaxRounds = 2
    MaxFailures = 1
    MaxRestarts = 1
SPECIFICATION LiveSpec
INVARIANTS
    ServersAreOwned
    AccountsAgree
PROPERTIES
    DeletedTenantsStop
CHECK_DEADLOCK FALSE
