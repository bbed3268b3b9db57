\* Subnets come and go under packets and a device.
CONSTANTS
    Names <- MCNames
    Networks <- MCTwoNetworks
    Addresses <- MCTwoAddresses
    MACs <- MCMACs
    StaticIPs <- MCStaticIPs
    Stores <- MCTwoStores
    ApiAdds = TRUE
    Nil = Nil
    n1 = n1
    n2 = n2
    s1 = s1
    s2 = s2
    m1 = m1
SPECIFICATION Spec
SYMMETRY Symmetry
INVARIANT TableTypeOK
INVARIANT LookupUnique
INVARIANT BoundInTable
