CONSTANTS
    a1 = a1
    a2 = a2
    o1 = o1
    o2 = o2
    k1 = k1
    k2 = k2
    None = None
    Home = k1
    Default = "main"
    Apps = {a1, a2}
    Objs = {o1, o2}
    Branches = {"main", "next"}
    Clusters = {k1, k2}
    ObjsOf <- Objects
    DestOf <- TwoDests
    AutoSync = {a1}
    Worker = "worker"
    Handlers = {"handler"}
    MaxEvents = 2
SPECIFICATION FairSpec
PROPERTIES InstallsWhatWasRecorded FinalizedIsClean DiesOnlyOf DeletionCompletes ReleaseFollowsTarget
CHECK_DEADLOCK FALSE
