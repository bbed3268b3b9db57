------------------------------- MODULE MCTftp -------------------------------
(* TLC instance of Tftp: two devices, one with a file of two blocks, and two *)
(* block numbers, so that the number wraps at the end of the file.           *)
EXTENDS Tftp

CONSTANTS a, b

MCDevices == {a, b}
MCSize == [d \in MCDevices |-> IF d = a THEN 2 ELSE 1]

=============================================================================
