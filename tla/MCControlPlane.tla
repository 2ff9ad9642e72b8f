--------------------------- MODULE MCControlPlane ---------------------------
(* ControlPlane with the inputs each question needs.  A field that no      *)
(* input sets keeps its initial value, which keeps the runs small.         *)
EXTENDS ControlPlane

CONSTANTS w1, w2

OneWorker  == {w1}
TwoWorkers == {w1, w2}

AllVerbs == {"start", "stop", "skip-to-teleop"}

Enable == { [enabled |-> TRUE] }

(* Every field, several at once, at and past the edge of its range.        *)
ManualRequests ==
  { [enabled |-> TRUE, mode |-> 3],
    [enabled |-> FALSE, e_stop |-> TRUE],
    [mode |-> 4, alliance |-> 9],
    [alliance |-> -1] }

HelperManual ==
  { Set("enabled", TRUE), Set("e_stop", TRUE), Set("mode", 7), Set("alliance", 20) }

HelperEStop == { Set("e_stop", TRUE), Set("e_stop", FALSE) }
=============================================================================
