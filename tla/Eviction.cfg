CONSTANTS
    k1 = k1
    k2 = k2
    k3 = k3
    Keys = {k1, k2, k3}
    None = None
    Sizes = {1, 2}
    Cost <- OneDear
    Left = {k1, k2}
    Cap = 3
    MaxOps = 3
    UnlinkMayFail = TRUE
SPECIFICATION Spec
    
PROPERTY WritesDone
CHECK_DEADLOCK FALSE
