-------------------------------- MODULE MCRelay --------------------------------
(***************************************************************************)
(* Four networks: 1 has the server; 2 a relay of another make, which       *)
(* forwards to the mydhcp relay on 3, which forwards to the server; 4 a    *)
(* mydhcp relay that forwards to another server.                           *)
(***************************************************************************)
EXTENDS Relay

CONSTANTS a, b

MCNets      == 1 .. 4
MCOwn       == {3, 4}
MCOthers    == {4}
MCUpstream  == 2 :> 3 @@ 3 :> 1
MCHosts     == {1}
MCDNS       == <<<<1, 1>>>>

\* b has a device record with an address on 3.
MCOne       == {a}
MCOneStatic == a :> Nil
MCTwo       == {a, b}
MCTwoStatic == a :> Nil @@ b :> <<3, 1>>

\* a moves between the server's network and two behind relays; b has been
\* moved to the server's, with its record.
MCRoams     == a :> {1, 2, 4} @@ b :> {1}
MCOneRoams  == a :> MCNets

\* a asks for broadcast answers or not, b does not.
MCFlags == a :> BOOLEAN @@ b :> {FALSE}
MCOneFlags == a :> BOOLEAN
===============================================================================
