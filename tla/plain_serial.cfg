CONSTANTS
    a1 = a1
    a2 = a2
    o1 = o1
    o2 = o2
    o3 = o3
    r1 = r1
    r2 = r2
    p1 = p1
    p2 = p2
    k1 = k1
    k2 = k2
    v1 = v1
    v2 = v2
    None = None
    Apps = {a1, a2}
    Procs = {"worker"}
    Objs = {o1, o2, o3}
    Contents = {v1, v2}
    Repos = {r1, r2}
    Paths = {p1, p2}
    Clusters = {k1, k2}
    RepoOf <- SameRepo
    PathOf <- TwoPaths
    DestOf <- TwoDests
    LabelOf <- TwoLabels
    HomeOf <- PathHome
    AutoSync = {a1}
    Env = {"clear", "forced"}
    MaxPushes = 3
    MaxDrifts = 1
    MaxFaults = 0
    MaxLag = 1
SYMMETRY Alike
SPECIFICATION Spec
INVARIANTS TypeOK Tracked DeployedInDestination
PROPERTIES SyncedIsTrue ClearIsComplete PrunesOwnOnly ImplementsManager
