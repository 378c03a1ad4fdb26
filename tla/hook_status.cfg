CONSTANTS
    h1 = h1
    h2 = h2
    NoHost = NoHost
    HasToken = TRUE
    Hosts = {h1}
    Env = {"err", "lostReply", "listErr", "resync", "manual"}
    MaxLag = 0
    MaxSecrets = 3
    MaxHooks = 3
    MaxCrashes = 2
CHECK_DEADLOCK FALSE
SPECIFICATION FairSpec
INVARIANT HooksMatchStatus
PROPERTY BecomesReady
