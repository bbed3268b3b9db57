\* Two clients, one without identifier, two addresses in range and one outside.
CONSTANTS
    IPs <- MCIPs
    RangeStart <- MCRangeStart
    RangeEnd <- MCRangeEnd
    Clients <- MCClients
    Refs <- MCRefs
    NoID = NoID
    Nil = Nil
    a = a
    b = b
    r1 = r1
    r2 = r2
    r3 = r3
SPECIFICATION StoreSpec
SYMMETRY Symmetry
INVARIANT TypeOK
INVARIANT Coherent
INVARIANT PoolDisjoint
PROPERTY OwnerStable
PROPERTY LostOnlyByMoving
PROPERTY PoolFIFO
PROPERTY ImplementsLifecycle
