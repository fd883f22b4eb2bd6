--------------------------- MODULE MCRoutingTable ---------------------------
(* Instance of RoutingTable for TLC: IDs of three one-bit bytes, of which   *)
(* xorDistance keeps two; three peers fall into one bucket of two places,   *)
(* two of which are at the same distance of anything.                       *)
EXTENDS RoutingTable

MCPeerID == {{0}, {2}, {0, 2}, {0, 1, 2}}
MCTarget == {{1, 2}}
MCCount == {0, 1, 3}

=============================================================================
