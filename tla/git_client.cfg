CONSTANTS
    f1 = f1
    f2 = f2
    f3 = f3
    d0 = d0
    d1 = d1
    None = None
    Files = {f1, f2, f3}
    Dirs = {d0, d1}
    Contents = {"v1", "v2"}
    Contexts = {"build", "test"}
    Root = d0
    DirOf <- InDirs
    ParentOf <- Parents
    PageSize = 1
    TreePage = 2
    MaxEvents = 3
SPECIFICATION Spec
INVARIANTS ListsAllHooks StatusIsListed ManifestsAreComplete ManifestsAreGenuine
