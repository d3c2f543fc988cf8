SPECIFICATION LockSpec
CONSTANTS
    None = None
    u1 = u1
    u2 = u2
    u3 = u3
    u4 = u4
    o0 = o0
    o1 = o1
    o2 = o2
    Calls = {u1, u2, u3, u4}
    Owners = {o0, o1, o2}
    OwnerOf <- Callers
CHECK_DEADLOCK FALSE
INVARIANT NoLostUpdate
