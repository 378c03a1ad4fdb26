CONSTANTS
    a1 = a1
    a2 = a2
    c1 = c1
    c2 = c2
    c3 = c3
    Nil = Nil
    Apps = {a1}
    Chans = {c1, c2}
    Env = {"err", "resync"}
    Forced = {}
    MaxCrashes = 1
SPECIFICATION FairSpec
PROPERTIES DeletionCompletes LiveGetsRoutine
