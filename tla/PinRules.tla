------------------------------ MODULE PinRules ------------------------------
(***************************************************************************)
(* What a bank of SmartIo channels promises about its pins, without saying *)
(* when.  A channel turns to a direction only on a type it is being told,  *)
(* and its level changes only to that of a valset it is being told: one    *)
(* that is told nothing, because the HAL is gone or has not come, moves no *)
(* pin but to complete the turn it has begun.  A pin is free before it is  *)
(* taken in another direction, and an output is taken at the channel's     *)
(* level.  When the process dies every pin is free, and the next process   *)
(* knows no direction and no level.                                        *)
(*                                                                         *)
(* The level follows a valset also while the channel is no output, as in   *)
(* smartio_state.cpp; smartio_state.hpp calls such a valset dropped.       *)
(***************************************************************************)
CONSTANT Channels

VARIABLES
  told,     \* per channel: the directions and the levels it is being told,
            \* one of each or none
  turned,   \* per channel: the direction it has or is turning to
  level,    \* per channel: the level it has as an output
  pin,      \* per channel: direction and driven level
  alive

vars == <<told, turned, level, pin, alive>>

Directions == {"none", "in", "out"}

Words == [dirs : SUBSET Directions, levels : SUBSET BOOLEAN]

Free == [dir |-> "none", level |-> FALSE]

Nothing == [dirs |-> {}, levels |-> {}]

Taken(dir, b) == [dir |-> dir, level |-> dir = "out" /\ b]

Init ==
  /\ told = [c \in Channels |-> Nothing]
  /\ turned = [c \in Channels |-> "none"]
  /\ level = [c \in Channels |-> FALSE]
  /\ pin = [c \in Channels |-> Free]
  /\ alive = TRUE

(* The HAL speaks, or falls silent.                                        *)
Tell == told' \in [Channels -> Words] /\ UNCHANGED <<turned, level, pin, alive>>

Turn(c) ==
  /\ \E dir \in told[c].dirs : turned' = [turned EXCEPT ![c] = dir]
  /\ UNCHANGED <<told, level, pin, alive>>

Release(c) ==
  /\ pin[c].dir # turned[c]
  /\ pin' = [pin EXCEPT ![c] = Free]
  /\ UNCHANGED <<told, turned, level, alive>>

Acquire(c) ==
  /\ pin[c] = Free
  /\ pin' = [pin EXCEPT ![c] = Taken(turned[c], level[c])]
  /\ UNCHANGED <<told, turned, level, alive>>

Ask(c) ==
  /\ \E b \in told[c].levels :
       /\ level' = [level EXCEPT ![c] = b]
       /\ pin' = [pin EXCEPT ![c] = Taken(pin[c].dir, b)]
  /\ UNCHANGED <<told, turned, alive>>

Die ==
  /\ alive' = FALSE /\ pin' = [c \in Channels |-> Free]
  /\ UNCHANGED <<told, turned, level>>

Revive ==
  /\ alive' = TRUE
  /\ told' = [c \in Channels |-> Nothing]
  /\ turned' = [c \in Channels |-> "none"]
  /\ level' = [c \in Channels |-> FALSE]
  /\ UNCHANGED pin

Next ==
  \/ alive /\ Tell
  \/ alive /\ \E c \in Channels : Turn(c) \/ Release(c) \/ Acquire(c) \/ Ask(c)
  \/ alive /\ Die
  \/ ~ alive /\ Revive

Spec == Init /\ [][Next]_vars
=============================================================================
