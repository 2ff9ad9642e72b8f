----------------------------- MODULE MCCadence -----------------------------
(* Cadence with a ring of three, small enough to wrap and to be refilled,  *)
(* and the 0 us a tick of a backlog may measure.                           *)
EXTENDS Cadence

MCIntervals == {0, 1, 2}
=============================================================================
