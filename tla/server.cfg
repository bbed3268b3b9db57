\* Two clients, one of them a device; no DECLINE, an orderly network; the device record is added, replaced and deleted.
CONSTANTS
    IPs <- MCIPs
    RangeStart <- MCRangeStart
    RangeEnd <- MCRangeEnd
    Clients <- MCMACs
    Refs <- MCRefs
    NoID = NoID
    Nil = Nil
    a = a
    b = b
    r1 = r1
    r2 = r2
    MACs <- MCMACs
    PacketID <- MCOwnID
    DeviceID <- MCOwnID
    Workers <- MCWorkers
    Kinds <- MCOrderly
    Hints <- MCNoIPs
    Window = 1
    Duplicates = FALSE
    Devices <- MCOneDevice
    StaticIPs <- MCOneIP
    Dynamic = Dynamic
SPECIFICATION Spec
SYMMETRY RefSymmetry
INVARIANT ServerTypeOK
INVARIANT AckedIsBound
PROPERTY BoundNeverNaked
PROPERTY OrphanedOnlyByReplacing
