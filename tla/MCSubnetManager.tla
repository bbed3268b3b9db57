--------------------------- MODULE MCSubnetManager ---------------------------
(* TLC instances of SubnetManager: two addresses, three networks that nest   *)
(* or are apart, two names.                                                  *)
EXTENDS SubnetManager, TLC

CONSTANTS n1, n2, s1, s2, m1

MCNames == {n1, n2}
MCTwoStores == {s1, s2}
MCMACs == {m1}
MCNoMACs == {}
MCStaticIPs == {0}

\* A one-bit internet: all of it, and its halves.
MCTwoAddresses == 0 .. 1
MCTwoNetworks == {[base |-> 0, size |-> 2], [base |-> 0, size |-> 1], [base |-> 1, size |-> 1]}

Symmetry == Permutations(MCNames) \cup Permutations(MCTwoStores)

=============================================================================
