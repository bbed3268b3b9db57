\* Two clients, one of them with a static address, four networks.
SPECIFICATION Spec
CONSTANTS
  Base = 8
  Nil = Nil
  a = a
  b = b
  Nets <- MCNets
  Home = 1
  Own <- MCOwn
  Others <- MCOthers
  Upstream <- MCUpstream
  Hosts <- MCHosts
  DNS <- MCDNS
  Clients <- MCTwo
  Static <- MCTwoStatic
  Roams <- MCRoams
  Flags <- MCFlags
  Window = 1
INVARIANTS
  RelayTypeOK
  OwnSubnet
  RepliesGoBack
  Understood
