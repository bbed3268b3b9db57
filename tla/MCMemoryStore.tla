---------------------------- MODULE MCMemoryStore ----------------------------
(* TLC instance of MemoryStore: address 0 is in the subnet but outside the   *)
(* dynamic range 1 .. 2, and a client without identifier, whose packets have *)
(* hlen 0 and no option 61, calls the store like the others.                 *)
EXTENDS MemoryStore

CONSTANTS a, b, r1, r2, r3

MCIPs == 0 .. 2
MCRangeStart == 1
MCRangeEnd == 2
MCClients == {a, b, NoID}
MCRefs == {r1, r2, r3}

Symmetry == Permutations({a, b}) \cup Permutations(MCRefs)

=============================================================================
