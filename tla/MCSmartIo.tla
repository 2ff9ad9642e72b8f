----------------------------- MODULE MCSmartIo -----------------------------
(* SmartIo on one or two channels, with both supported types, one that is  *)
(* not supported, and the HAL's two output values.                         *)
EXTENDS SmartIo

MCTypes  == {0, 1, 4}
MCValues == {0, 255}
=============================================================================
