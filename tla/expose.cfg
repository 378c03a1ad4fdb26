CONSTANTS
    n1 = n1
    ip1 = ip1
    NoIp = NoIp
    Names = {n1}
    Ips = {ip1}
    Settings <- SomeSettings
    Env = {}
    MaxEdits = 1
    MaxAssigned = 1
    MaxFaults = 1
CHECK_DEADLOCK FALSE
SPECIFICATION Spec
INVARIANTS TypeOK SettledResources SettledHost
