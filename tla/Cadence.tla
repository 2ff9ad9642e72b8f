------------------------------ MODULE Cadence ------------------------------
(***************************************************************************)
(* CadenceTracker: the ring of the publisher's last intervals, and the     *)
(* percentiles read from a sorted copy that is renewed when a read finds   *)
(* it out of date.                                                         *)
(*                                                                         *)
(* The class is "not thread-safe, owned by a single thread"; main.cpp      *)
(* hands it to the diagnostics thread and the web handlers as well.  With  *)
(* Exclusive a call runs alone, as the class expects; without, the         *)
(* publisher's calls fall between the steps of a read, as the daemon is    *)
(* wired.                                                                  *)
(***************************************************************************)
EXTENDS Integers, Sequences, Sorting

CONSTANTS
  Capacity,    \* kCapacity
  Intervals,   \* intervals the publisher may measure, in whole us
  Readers,     \* operations that read, each on a thread of its own
  Exclusive,   \* calls exclude each other
  MaxRecords   \* bound: intervals recorded

(* The percentiles, per mille, each of the operations reads one after the  *)
(* other: DiagnosticsPublisher::tick, handle_healthz, handle_state, and    *)
(* main() on its way out (once, its two in the order the compiler takes).  *)
TickReads    == <<990, 500>>
HealthzReads == <<990, 990>>
StateReads   == <<500, 990>>
MainReads    == <<500, 990>>

Reads ==
  [diagnostics |-> TickReads, healthz |-> HealthzReads, state |-> StateReads,
   main |-> MainReads]

ASSUME CadenceAssumption ==
  /\ Capacity \in Nat \ {0}
  /\ Intervals \subseteq Nat
  /\ Readers \subseteq DOMAIN Reads
  /\ Exclusive \in BOOLEAN
  /\ MaxRecords \in Nat

VARIABLES
  samples_us, next, count, epoch,  \* the ring
  sorted_cache, cached_epoch,      \* the sorted copy and the epoch it is of
  read,   \* per reader: the step of its read, and which of its reads it is
  reply,  \* per reader: what its last read returned, and whether of any samples
  history \* every interval recorded

vars == <<samples_us, next, count, epoch, sorted_cache, cached_epoch, read, reply, history>>

ring  == <<samples_us, next, count, epoch, history>>
cache == <<sorted_cache, cached_epoch>>

Slots == 0 .. Capacity - 1

FirstRead == [step |-> "idle", i |-> 1]

NoReply == [p |-> 0, value |-> 0, some |-> FALSE]

Init ==
  /\ samples_us = [i \in Slots |-> 0] /\ next = 0 /\ count = 0 /\ epoch = 0
  /\ sorted_cache = [i \in Slots |-> 0] /\ cached_epoch = 0
  /\ read = [r \in Readers |-> FirstRead]
  /\ reply = [r \in Readers |-> NoReply]
  /\ history = <<>>

NobodyReads == \A r \in Readers : read[r].step = "idle"

-----------------------------------------------------------------------------
(* The publisher.                                                          *)

(* Mutants: the index runs past the end; the ring is one slot short.       *)
NextSlotUnwrapped == next + 1

NextSlotShort == (next + 1) % (Capacity - 1)

NextSlot == (next + 1) % Capacity

(* Mutant: a full ring does not count.                                     *)
EpochWhileFilling == IF count < Capacity THEN epoch + 1 ELSE epoch

NextEpoch == epoch + 1

record_interval_us(us) ==
  /\ samples_us' = [samples_us EXCEPT ![next] = us]
  /\ next' = NextSlot
  /\ count' = IF count < Capacity THEN count + 1 ELSE count
  /\ epoch' = NextEpoch
  /\ history' = Append(history, us)
  /\ UNCHANGED <<cache, read, reply>>

Record ==
  /\ Exclusive => NobodyReads
  /\ Len(history) < MaxRecords
  /\ \E us \in Intervals : record_interval_us(us)

-----------------------------------------------------------------------------
(* percentile_ms.                                                          *)

(* std::copy_n and std::sort on the first count_ entries.                  *)
Copied == [i \in Slots |-> IF i < count THEN samples_us[i] ELSE sorted_cache[i]]

Ordered ==
  LET p == CHOOSE p \in Sortings(sorted_cache, count) : TRUE
  IN  [i \in Slots |-> IF i < count THEN sorted_cache[p[i]] ELSE sorted_cache[i]]

(* Mutant: rounded up, and not held back from the end.                     *)
IndexRoundedUp(p, n) == (p * n + 999) \div 1000

(* The index into the sorted entries, of a percentile per mille.           *)
Index(p, n) == IF (p * n) \div 1000 >= n THEN n - 1 ELSE (p * n) \div 1000

Percentile(r) == Reads[r][read[r].i]

GoRead(r, step) == read' = [read EXCEPT ![r].step = step]

(* The read returns; the operation goes on to its next, or is over.        *)
Answer(r, value) ==
  /\ reply' = [reply EXCEPT ![r] = [p |-> Percentile(r), value |-> value, some |-> count # 0]]
  /\ read' = [read EXCEPT ![r] =
                [step |-> "idle", i |-> (read[r].i % Len(Reads[r])) + 1]]
  /\ UNCHANGED <<ring, cache>>

(* percentile_ms begins: its early return, or the look at the epoch.       *)
NoSamples(r) ==
  /\ Exclusive => NobodyReads
  /\ read[r].step = "idle" /\ count = 0
  /\ Answer(r, 0)

percentile_ms(r) ==
  /\ Exclusive => NobodyReads
  /\ read[r].step = "idle" /\ count # 0
  /\ GoRead(r, IF cached_epoch = epoch THEN "index" ELSE "copy")
  /\ UNCHANGED <<ring, cache, reply>>

(* refresh_sorted.                                                         *)
Copy(r) ==
  /\ read[r].step = "copy" /\ GoRead(r, "sort")
  /\ sorted_cache' = Copied
  /\ UNCHANGED <<ring, cached_epoch, reply>>

Sort(r) ==
  /\ read[r].step = "sort" /\ GoRead(r, "mark")
  /\ sorted_cache' = Ordered
  /\ UNCHANGED <<ring, cached_epoch, reply>>

Mark(r) ==
  /\ read[r].step = "mark" /\ GoRead(r, "index")
  /\ cached_epoch' = epoch
  /\ UNCHANGED <<ring, sorted_cache, reply>>

Return(r) == read[r].step = "index" /\ Answer(r, sorted_cache[Index(Percentile(r), count)])

Next ==
  \/ Record
  \/ \E r \in Readers :
       NoSamples(r) \/ percentile_ms(r) \/ Copy(r) \/ Sort(r) \/ Mark(r) \/ Return(r)

Spec == Init /\ [][Next]_vars

-----------------------------------------------------------------------------
(* Properties.                                                             *)

(* Every variable has its type.                                            *)
TypeOK ==
  /\ samples_us \in [Slots -> Nat] /\ next \in Slots /\ count \in 0..Capacity
  /\ epoch \in Nat /\ cached_epoch \in Nat
  /\ sorted_cache \in [Slots -> Nat]
  /\ read \in [Readers -> [step : {"idle", "copy", "sort", "mark", "index"},
                            i : 1..2]]
  /\ reply \in [Readers -> [p : 0..1000, value : Nat, some : BOOLEAN]]
  /\ history \in Seq(Nat)

(* The ring holds the last Capacity intervals and nothing older: the       *)
(* interval recorded as number i is in slot i - 1 modulo the capacity.     *)
RingIsLastN ==
  /\ count = IF Len(history) < Capacity THEN Len(history) ELSE Capacity
  /\ \A i \in (Len(history) - count + 1) .. Len(history) :
       samples_us[(i - 1) % Capacity] = history[i]

(* The tracker is a window of the last Capacity intervals whose every      *)
(* answer is exact: the sorted copy is never out of date when it is used,  *)
(* whichever reads and records came in between.                            *)
Window ==
  INSTANCE CadenceWindow
  WITH window <- SubSeq(history, Len(history) - count + 1, Len(history)),
       answer <- [r \in Readers |-> [p |-> reply[r].p, value |-> reply[r].value]]

AnswersExactly == Window!Spec

(* A percentile of a tracker that has samples is one of the intervals      *)
(* recorded ("stores the last N intervals", cadence_tracker.hpp).          *)
ReportedWasRecorded ==
  \A r \in Readers :
    reply[r].some => \E i \in DOMAIN history : reply[r].value = history[i]
=============================================================================
