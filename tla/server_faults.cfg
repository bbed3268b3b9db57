\* One client, every message, lost, duplicated and reordered, and a device record that changes.
CONSTANTS
    IPs <- MCOneIP
    RangeStart <- MCRangeStart
    RangeEnd <- MCRangeStart
    Clients <- MCMACs
    Refs <- MCRefs
    NoID = NoID
    Nil = Nil
    a = a
    b = b
    r1 = r1
    r2 = r2
    MACs <- MCOneMAC
    PacketID <- MCOption61
    DeviceID <- MCRecordID
    Workers <- MCWorkers
    Kinds <- MCAll
    Hints <- MCOneIP
    Window = 3
    Duplicates = TRUE
    Devices <- MCOneDevice
    StaticIPs <- MCOneIP
    Dynamic = Dynamic
SPECIFICATION Spec
SYMMETRY RefSymmetry
INVARIANT RenewalFlagFresh
