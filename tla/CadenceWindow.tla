--------------------------- MODULE CadenceWindow ---------------------------
(***************************************************************************)
(* What a cadence tracker promises, without rings, copies or epochs: it    *)
(* remembers the last Capacity intervals, and every answer is the asked    *)
(* percentile of what it remembers at that moment, 0 if that is nothing.   *)
(***************************************************************************)
EXTENDS Integers, Sequences, FiniteSets

CONSTANTS Capacity, Readers

VARIABLES
  window,   \* the intervals remembered, oldest first
  answer    \* per reader: the percentile last asked for, and the answer

vars == <<window, answer>>

Init == window = <<>> /\ answer = [r \in Readers |-> [p |-> 0, value |-> 0]]

(* How many of n intervals lie below the percentile, per mille.            *)
Rank(p, n) == IF (p * n) \div 1000 < n THEN (p * n) \div 1000 ELSE n - 1

IsPercentile(v, p, w) ==
  LET below  == { i \in DOMAIN w : w[i] < v }
      atMost == { i \in DOMAIN w : w[i] <= v }
      k      == Rank(p, Len(w))
  IN  IF w = <<>> THEN v = 0 ELSE Cardinality(below) <= k /\ k < Cardinality(atMost)

(* The window takes in an interval, and lets the oldest go when it is full. *)
Slide ==
  /\ window' # <<>>
  /\ LET us == window'[Len(window')]
     IN  window' = Append(IF Len(window) < Capacity THEN window ELSE Tail(window), us)
  /\ UNCHANGED answer

Answer(r) ==
  /\ answer' = [answer EXCEPT ![r] = answer'[r]]
  /\ IsPercentile(answer'[r].value, answer'[r].p, window)
  /\ UNCHANGED window

Next == Slide \/ \E r \in Readers : Answer(r)

Spec == Init /\ [][Next]_vars
=============================================================================
