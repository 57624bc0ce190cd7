--------------------------- MODULE MCBeadsBridge ----------------------------
(* Small instances of BeadsBridge for TLC. *)
EXTENDS BeadsBridge

CONSTANTS c1, c2, c3

\* One card that waits for another; a chain of three.
MCEdges  == {<<c1, c2>>}
MCChain  == {<<c1, c2>>, <<c2, c3>>}
=============================================================================
