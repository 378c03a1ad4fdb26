CONSTANTS
    a1 = a1
    a2 = a2
    c1 = c1
    c2 = c2
    c3 = c3
    Nil = Nil
    Apps = {a1}
    Chans = {c1, c2}
    Env = {"edit", "foreign", "err", "recreate", "touch", "zero"}
    Forced = {a1}
    MaxCrashes = 1
SPECIFICATION Spec
INVARIANTS TypeOK NoUnstoppableRoutine NoBlockedStop StoppedBeforeClear
