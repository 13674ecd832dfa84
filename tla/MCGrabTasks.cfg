SPECIFICATION FairSpec
CONSTANTS
    Plain <- PlainGrabbers
    Secure <- SecureGrabbers
    CfgPull = "cfgpull"
    WebUi = TRUE
    Asked = {"ALL"}
    MaxDead = 1
    MaxCuts = 1
    MaxDrops = 1
    MaxMishaps = 1
INVARIANTS Excluded Standing
PROPERTIES HaltsOnlyMidway Recovers
CHECK_DEADLOCK FALSE
