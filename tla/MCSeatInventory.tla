--------------------------- MODULE MCSeatInventory ---------------------------
(* SeatInventory, with its refinement of SeatLedger, on small instances.    *)
EXTENDS SeatRefinement, TLC

\* Connections are interchangeable; hold and seat ids are ordered and are not.
ClientSymmetry == Permutations(Clients)
=============================================================================
