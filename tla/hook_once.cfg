CONSTANTS
    h1 = h1
    h2 = h2
    NoHost = NoHost
    HasToken = TRUE
    Hosts = {h1, h2}
    Env = {"err", "lostReply", "updateErr", "hosts", "manual"}
    MaxLag = 1
    MaxSecrets = 2
    MaxHooks = 2
    MaxCrashes = 1
CHECK_DEADLOCK FALSE
SPECIFICATION Spec
INVARIANTS TypeOK RegisteredOnce DeliveriesVerify
PROPERTY StatusOnlyGrows
