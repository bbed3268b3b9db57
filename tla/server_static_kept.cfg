\* The address of a device goes to the pool when its lease ends.
CONSTANTS
    IPs <- MCIPs
    RangeStart <- MCRangeStart
    RangeEnd <- MCRangeEnd
    Clients <- MCMACs
    Refs <- MCRefs
    NoID = NoID
    Nil = Nil
    a = a
    b = b
    r1 = r1
    r2 = r2
    MACs <- MCMACs
    PacketID <- MCOwnID
    DeviceID <- MCOwnID
    Workers <- MCWorkers
    Kinds <- MCDora
    Hints <- MCNoIPs
    Window = 1
    Duplicates = FALSE
    Devices <- MCOneDevice
    StaticIPs <- MCOneIP
    Dynamic = Dynamic
SPECIFICATION Spec
SYMMETRY RefSymmetry
PROPERTY StaticKept
