------------------------ MODULE MCWaylandConnection ------------------------
(* Values for the constants of WaylandConnection.                            *)
EXTENDS WaylandConnection

CONSTANTS t1, t2

=============================================================================
