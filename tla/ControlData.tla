---------------------------- MODULE ControlData ----------------------------
(***************************************************************************)
(* The driver-station view the daemon keeps and the word it puts on the    *)
(* wire: control_data_encoder.{hpp,cpp} and DaemonState's snapshot.        *)
(*                                                                         *)
(* ControlWord is a uint32 assembled with |= from fields whose masks are   *)
(* disjoint, so each |= is an addition here.                               *)
(***************************************************************************)
EXTENDS Integers

RobotMode == [Unknown |-> 0, Auto |-> 1, Teleop |-> 2, Test |-> 3]

RobotModes == {RobotMode.Unknown, RobotMode.Auto, RobotMode.Teleop, RobotMode.Test}

(* Bit layout of mrc::ControlData::ControlWord.                            *)
kCwEnabledBit         == 1
kCwRobotModeUnit      == 2       \* 1 << kCwRobotModeShift, a 2-bit field
kCwEStopBit           == 8
kCwFmsConnectedBit    == 16
kCwDsConnectedBit     == 32
kCwWatchdogActiveBit  == 64
kCwSupportsOpmodesBit == 128
kCwAllianceUnit       == 256     \* 1 << kCwAllianceShift, a 4-bit field

If(b, bit) == IF b THEN bit ELSE 0

(* static_cast<uint32_t>(x) << shift & mask keeps the field's low bits; a  *)
(* negative int wraps to its two's complement, as % does here.             *)
pack_control_word(v) ==
    If(v.enabled, kCwEnabledBit)
  + (v.mode % 4) * kCwRobotModeUnit
  + If(v.e_stop, kCwEStopBit)
  + If(v.fms_connected, kCwFmsConnectedBit)
  + If(v.ds_connected, kCwDsConnectedBit)
  + If(v.enabled, kCwWatchdogActiveBit)
  + If(v.supports_opmodes, kCwSupportsOpmodesBit)
  + (v.alliance % 16) * kCwAllianceUnit

(* No bytes: what encode_control_data returns on an empty message.         *)
NoBytes == [ControlWord |-> 0, MatchTime |-> 0]

(* The protobuf message.  A proto3 scalar equal to 0 is not put on the     *)
(* wire, so the all-zero message has no bytes at all: the same result as   *)
(* an encoding error, which the publisher drops.  CurrentOpMode is 0.      *)
encode_control_data(v) ==
  [ControlWord |-> pack_control_word(v), MatchTime |-> v.match_time_s]

(* What the HAL (external) reads back from a ControlWord.                  *)
HasBit(w, bit)   == (w \div bit) % 2 = 1
WordEnabled(w)   == HasBit(w, kCwEnabledBit)
WordMode(w)      == (w \div kCwRobotModeUnit) % 4
WordEStop(w)     == HasBit(w, kCwEStopBit)
WordDs(w)        == HasBit(w, kCwDsConnectedBit)
WordWatchdog(w)  == HasBit(w, kCwWatchdogActiveBit)
WordAlliance(w)  == (w \div kCwAllianceUnit) % 16

(* Mutant: DsConnected is left at its default.                             *)
ds_unset == FALSE

(* `.ds_connected = true`: the daemon is the driver station.               *)
ds_connected == TRUE

(* DaemonState::snapshot_control on the stored fields.                     *)
snapshot_control(s) ==
  [enabled          |-> s.enabled,
   ds_connected     |-> ds_connected,
   fms_connected    |-> FALSE,
   e_stop           |-> s.e_stop,
   supports_opmodes |-> FALSE,
   mode             |-> s.mode,
   alliance         |-> s.alliance,
   match_time_s     |-> s.match_time_s]

(* The members of DaemonState and their initial values.                    *)
DaemonStateInit ==
  [enabled |-> FALSE, mode |-> RobotMode.Unknown, alliance |-> 0,
   e_stop |-> FALSE, match_time_s |-> 0]
=============================================================================
