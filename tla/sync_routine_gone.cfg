CONSTANTS
    a1 = a1
    a2 = a2
    c1 = c1
    c2 = c2
    c3 = c3
    Nil = Nil
    Apps = {a1, a2}
    Chans = {c1, c2, c3}
    Env = {"touch", "zero"}
    Forced = {}
    MaxCrashes = 2
SPECIFICATION Spec
INVARIANTS GoneMeansClean PeriodIsDefaulted
PROPERTY FinalizedIsClean
SYMMETRY Interchangeable
