------------------------- MODULE MCMatchController -------------------------
(* MatchController on small periods.  Two handlers, so that a command can  *)
(* overtake another; instants between the milliseconds and between the     *)
(* seconds, so that the rounding of either shows.                          *)
EXTENDS MatchController

CONSTANTS w1, w2

MCCallers == {w1, w2}
=============================================================================
