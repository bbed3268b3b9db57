--------------------------- MODULE MCPluginEvents ---------------------------
(* TLC instance of PluginEvents: two events, two browsers, channels of one.  *)
EXTENDS PluginEvents

CONSTANTS e1, e2, s1, s2

MCEvents == {e1, e2}
MCStreams == {s1, s2}

=============================================================================
