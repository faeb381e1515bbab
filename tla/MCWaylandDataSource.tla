------------------------ MODULE MCWaylandDataSource ------------------------
(* Values for the constants of WaylandDataSource: an entry whose data fits   *)
(* into a pipe, one whose data does not, and one without the mime type.      *)
EXTENDS WaylandDataSource, TLC

CONSTANTS p1, p2, small, large, none, LargeSize

SizeOf == (small :> Room) @@ (large :> LargeSize) @@ (none :> NoData)

=============================================================================
