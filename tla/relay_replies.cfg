\* A reply addressed to giaddr at a mydhcp relay.
SPECIFICATION Spec
CONSTANTS
  Base = 8
  Nil = Nil
  a = a
  b = b
  Nets <- MCNets
  Home = 1
  Own <- MCOwn
  Others <- MCOthers
  Upstream <- MCUpstream
  Hosts <- MCHosts
  DNS <- MCDNS
  Clients <- MCOne
  Static <- MCOneStatic
  Roams <- MCOneRoams
  Flags <- MCOneFlags
  Window = 1
PROPERTY ForwardsReplies
