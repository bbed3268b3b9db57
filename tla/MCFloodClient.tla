---------------------------- MODULE MCFloodClient ----------------------------
(* TLC instance of FloodClient: two clients that draw one number or two.     *)
EXTENDS FloodClient

CONSTANTS a, b, x1, x2

MCClients == {a, b}
MCXids == {x1, x2}

=============================================================================
