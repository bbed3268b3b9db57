---------------------------- MODULE MCDhcpServer ----------------------------
(* TLC instances of DhcpServer: two clients, a two-address range.            *)
EXTENDS DhcpServer

CONSTANTS a, b, r1, r2

MCIPs == 1 .. 2
MCNoIPs == {}
MCOneIP == {1}
MCRangeStart == 1
MCRangeEnd == 2
MCRefs == {r1, r2}
MCWorkers == {1}

\* Two clients, known by their hardware addresses; the first is the device.
MCMACs == {a, b}
MCOwnID == [mac \in MCMACs |-> mac]
MCOneDevice == {a}

\* One client, known by the identifier b in its packets (option 61) and by a
\* in its device record.
MCOneMAC == {a}
MCOption61 == [mac \in MCOneMAC |-> b]
MCRecordID == [mac \in MCOneMAC |-> a]

MCAll == {"discover", "request", "release", "decline"}
MCOrderly == {"discover", "request", "release"}
MCDora == {"discover", "request"}

RefSymmetry == Permutations(MCRefs)

=============================================================================
