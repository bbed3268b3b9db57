\* The subnets of the configuration, under fair reapers.
CONSTANTS
    Names <- MCNames
    Networks <- MCTwoNetworks
    Addresses <- MCTwoAddresses
    MACs <- MCNoMACs
    StaticIPs <- MCStaticIPs
    Stores <- MCTwoStores
    ApiAdds = FALSE
    Nil = Nil
    n1 = n1
    n2 = n2
    s1 = s1
    s2 = s2
    m1 = m1
SPECIFICATION FairSpec
PROPERTY LateEnds
