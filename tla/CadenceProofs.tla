--------------------------- MODULE CadenceProofs ---------------------------
(***************************************************************************)
(* The ring of CadenceTracker for every capacity, exclusive or shared: the *)
(* readers write only the cache.  And, when calls exclude each other, the  *)
(* tracker as a whole: it implements CadenceWindow.                        *)
(***************************************************************************)
EXTENDS Cadence, SortingProofs, SequenceTheorems

(* The inductive invariant: the types of the ring, and the next slot is    *)
(* the one of the next interval's number.                                  *)
RingType ==
  /\ samples_us \in [Slots -> Nat]
  /\ next \in Slots
  /\ count \in 0..Capacity
  /\ history \in Seq(Nat)

NextIsNumber == next = Len(history) % Capacity

IInv == RingType /\ NextIsNumber /\ RingIsLastN

-----------------------------------------------------------------------------

(* Remainders are slots.                                                   *)
LEMMA ModIsSlot == ASSUME NEW a \in Nat PROVE a % Capacity \in Slots
  BY CadenceAssumption DEF Slots

(* A number written with a remainder below the capacity has that one.      *)
LEMMA ModUnique ==
  ASSUME NEW q \in Nat, NEW r \in Slots
  PROVE  (Capacity * q + r) % Capacity = r
  BY CadenceAssumption, Z3 DEF Slots

(* A number is its quotient times the capacity, plus its remainder.        *)
LEMMA DivMod ==
  ASSUME NEW a \in Nat
  PROVE  \E q \in Nat, r \in Slots : a = Capacity * q + r /\ a % Capacity = r
<1> DEFINE q == a \div Capacity
           d == a - Capacity * q
<1>1. Capacity \in Nat /\ Capacity > 0
  BY CadenceAssumption
<1>2. q \in Nat
  BY <1>1, Z3
<1>3. Capacity * q <= a /\ a < Capacity * q + Capacity
  BY <1>1, Z3
<1>4. Capacity * q \in Nat
  BY <1>1, <1>2, Z3
<1> HIDE DEF q
<1>5. d \in Slots /\ a = Capacity * q + d
  BY <1>1, <1>3, <1>4 DEF Slots
<1>6. (Capacity * q + d) % Capacity = d
  BY <1>2, <1>5, ModUnique
<1> HIDE DEF d
<1>7. a % Capacity = d
  BY <1>5, <1>6, Zenon
<1> QED
  BY <1>2, <1>5, <1>7, Zenon

(* The next slot of the ring is the remainder of the next number.          *)
LEMMA ModSucc ==
  ASSUME NEW a \in Nat
  PROVE  ((a % Capacity) + 1) % Capacity = (a + 1) % Capacity
<1>1. PICK q \in Nat, r \in Slots : a = Capacity * q + r /\ a % Capacity = r
  BY DivMod
<1>2. r \in Nat /\ Capacity \in Nat \ {0}
  BY CadenceAssumption DEF Slots
<1>3. a = Capacity * q + r
  BY <1>1
<1>4. CASE r + 1 < Capacity
  <2>1. r + 1 \in Slots
    BY <1>2, <1>4 DEF Slots
  <2>2. (Capacity * q + (r + 1)) % Capacity = r + 1
    BY <2>1, ModUnique
  <2>3. (Capacity * 0 + (r + 1)) % Capacity = r + 1
    BY <2>1, ModUnique
  <2>4. a + 1 = Capacity * q + (r + 1) /\ r + 1 = Capacity * 0 + (r + 1)
    BY <1>2, <1>3, Z3
  <2> QED
    BY <1>1, <2>2, <2>3, <2>4, Zenon
<1>5. CASE r + 1 = Capacity
  <2>1. 0 \in Slots
    BY <1>2 DEF Slots
  <2>2. (Capacity * (q + 1) + 0) % Capacity = 0 /\ (Capacity * 1 + 0) % Capacity = 0
    BY <2>1, ModUnique
  <2>3. a + 1 = Capacity * (q + 1) + 0 /\ r + 1 = Capacity * 1 + 0
    BY <1>2, <1>3, <1>5, Z3
  <2> QED
    BY <1>1, <2>2, <2>3, Zenon
<1> QED
  BY <1>2, <1>4, <1>5 DEF Slots

(* Numbers less than the capacity apart have different slots.              *)
LEMMA ModDistinct ==
  ASSUME NEW a \in Nat, NEW b \in Nat, a < b, b - a < Capacity
  PROVE  a % Capacity # b % Capacity
<1> SUFFICES ASSUME a % Capacity = b % Capacity PROVE FALSE
  OBVIOUS
<1>1. PICK p \in Nat, r \in Slots : a = Capacity * p + r /\ a % Capacity = r
  BY DivMod
<1>2. PICK q \in Nat, s \in Slots : b = Capacity * q + s /\ b % Capacity = s
  BY DivMod
<1>3. /\ r \in Nat /\ Capacity \in Nat \ {0} /\ r = s
      /\ a = Capacity * p + r /\ b = Capacity * q + r
  BY <1>1, <1>2, CadenceAssumption DEF Slots
<1>4. Capacity * q > Capacity * p /\ Capacity * q < Capacity * p + Capacity
  BY <1>3
<1>5. CASE q <= p
  <2>1. Capacity * q <= Capacity * p
    BY <1>3, <1>5, Z3
  <2> QED
    BY <1>3, <1>4, <2>1
<1>6. CASE q >= p + 1
  <2>1. Capacity * q >= Capacity * (p + 1)
    BY <1>3, <1>6, Z3
  <2>2. Capacity * (p + 1) = Capacity * p + Capacity
    BY <1>3, Z3
  <2> QED
    BY <1>3, <1>4, <2>1, <2>2
<1> QED
  BY <1>5, <1>6

-----------------------------------------------------------------------------
(* A recorded interval takes the place of the oldest.                      *)
LEMMA RecordIInv == ASSUME IInv, NEW us \in Nat, record_interval_us(us) PROVE IInv'
<1> DEFINE len == Len(history)
<1>1. len \in Nat /\ Capacity \in Nat \ {0} /\ next = len % Capacity
  BY CadenceAssumption DEF IInv, RingType, NextIsNumber
<1>2. /\ history' = Append(history, us) /\ history' \in Seq(Nat)
      /\ Len(history') = len + 1 /\ history'[len + 1] = us
      /\ \A i \in 1..len : history'[i] = history[i]
  BY DEF record_interval_us, IInv, RingType
<1>3. /\ samples_us' = [samples_us EXCEPT ![next] = us]
      /\ next' = (next + 1) % Capacity
      /\ count' = IF count < Capacity THEN count + 1 ELSE count
  BY DEF record_interval_us, NextSlot
<1>4. RingType'
  <2>1. next' \in Slots
    <3>1. next + 1 \in Nat
      BY <1>1 DEF IInv, RingType, Slots
    <3> QED
      BY <1>3, <3>1, ModIsSlot
  <2>2. samples_us' \in [Slots -> Nat]
    BY <1>3 DEF IInv, RingType
  <2>3. count' \in 0..Capacity
    BY <1>1, <1>3 DEF IInv, RingType
  <2> QED
    BY <1>2, <2>1, <2>2, <2>3 DEF RingType
<1>5. NextIsNumber'
  BY <1>1, <1>2, <1>3, ModSucc DEF NextIsNumber
<1>6. /\ count \in 0..Capacity /\ count' \in 0..Capacity
      /\ count = IF len < Capacity THEN len ELSE Capacity
      /\ count' = IF len + 1 < Capacity THEN len + 1 ELSE Capacity
  BY <1>1, <1>3, <1>4 DEF IInv, RingType, RingIsLastN
<1> HIDE DEF len
<1>7. ASSUME NEW i \in (Len(history') - count' + 1) .. Len(history')
      PROVE  samples_us'[(i - 1) % Capacity] = history'[i]
  <2>1. i \in Int /\ i >= 1 /\ i <= len + 1 /\ len - (i - 1) < Capacity
    BY <1>1, <1>2, <1>6
  <2>2. i - 1 \in Nat /\ (i - 1) % Capacity \in Slots
    BY <2>1, ModIsSlot
  <2>3. CASE i = len + 1
    <3>1. (i - 1) % Capacity = next
      BY <1>1, <2>3
    <3> QED
      BY <1>2, <1>3, <2>3, <3>1 DEF IInv, RingType
  <2>4. CASE i # len + 1
    <3>1. i - 1 < len /\ i \in 1..len /\ i \in (len - count + 1) .. len
      BY <1>1, <1>6, <2>1, <2>4
    <3>2. (i - 1) % Capacity # next
      BY <1>1, <2>1, <2>2, <3>1, ModDistinct
    <3>3. samples_us'[(i - 1) % Capacity] = samples_us[(i - 1) % Capacity]
      BY <1>3, <2>2, <3>2 DEF IInv, RingType
    <3>4. samples_us[(i - 1) % Capacity] = history[i]
      BY <3>1 DEF IInv, RingIsLastN, len
    <3> QED
      BY <1>2, <3>1, <3>3, <3>4
  <2> QED
    BY <2>3, <2>4
<1>8. RingIsLastN'
  <2>1. Len(history') = len + 1
    BY <1>2
  <2>2. count' = IF Len(history') < Capacity THEN Len(history') ELSE Capacity
    BY <1>6, <2>1
  <2>3. \A i \in (Len(history') - count' + 1) .. Len(history') :
          samples_us'[(i - 1) % Capacity] = history'[i]
    BY <1>7, Zenon
  <2> QED
    BY <2>2, <2>3, Zenon DEF RingIsLastN
<1> QED
  BY <1>4, <1>5, <1>8 DEF IInv

(* Every step preserves IInv: only the publisher's calls change the ring.  *)
LEMMA NextIInv == IInv /\ [Next]_vars => IInv'
<1> SUFFICES ASSUME IInv, [Next]_vars PROVE IInv'
  OBVIOUS
<1>1. CASE Record
  BY <1>1, RecordIInv, CadenceAssumption DEF Record
<1>2. CASE UNCHANGED ring
  BY <1>2 DEF ring, IInv, RingType, NextIsNumber, RingIsLastN
<1>3. CASE UNCHANGED vars
  BY <1>2, <1>3 DEF vars, ring
<1>4. ASSUME NEW r \in Readers, ~ UNCHANGED ring PROVE
        /\ ~ NoSamples(r) /\ ~ percentile_ms(r)
        /\ ~ Copy(r) /\ ~ Sort(r) /\ ~ Mark(r) /\ ~ Return(r)
  BY <1>4 DEF NoSamples, percentile_ms, Copy, Sort, Mark, Return, Answer
<1> QED
  BY <1>1, <1>2, <1>3, <1>4 DEF Next

(* The empty ring.                                                         *)
LEMMA InitIInv == Init => IInv
<1> SUFFICES ASSUME Init PROVE IInv
  OBVIOUS
<1>1. 0 \in Slots /\ 0 % Capacity = 0 /\ Len(<<>>) = 0 /\ <<>> \in Seq(Nat)
  BY CadenceAssumption DEF Slots
<1>2. RingType /\ NextIsNumber
  BY <1>1, CadenceAssumption DEF Init, RingType, NextIsNumber
<1>3. RingIsLastN
  BY <1>1, CadenceAssumption DEF Init, RingIsLastN
<1> QED
  BY <1>2, <1>3 DEF IInv

(* IInv is an invariant.                                                   *)
THEOREM Invariance == Spec => []IInv
  BY InitIInv, NextIInv, PTL DEF Spec

(* The ring holds exactly the last Capacity intervals, for every capacity, *)
(* however the reads of other threads fall.                                *)
THEOREM RingExact == Spec => []RingIsLastN
<1>1. IInv => RingIsLastN
  BY DEF IInv
<1> QED
  BY Invariance, <1>1, PTL

-----------------------------------------------------------------------------
(* Types, exclusive or shared.                                             *)

Busy(r) == read[r].step # "idle"

(* A read that has begun found samples, and they do not go away.           *)
HasSamples == \A r \in Readers : Busy(r) => count # 0

TInv == IInv /\ TypeOK /\ HasSamples

PerMille == 0 .. 1000

(* What the readers read: two percentiles each.                            *)
LEMMA ReadsFacts ==
  ASSUME NEW r \in Readers
  PROVE  Len(Reads[r]) = 2 /\ \A i \in 1 .. 2 : Reads[r][i] \in PerMille
<1>1. r \in {"diagnostics", "healthz", "state", "main"}
  BY CadenceAssumption DEF Reads
<1>2. CASE r = "diagnostics"
  BY <1>2 DEF Reads, TickReads, PerMille
<1>3. CASE r = "healthz"
  BY <1>3 DEF Reads, HealthzReads, PerMille
<1>4. CASE r = "state"
  BY <1>4 DEF Reads, StateReads, PerMille
<1>5. CASE r = "main"
  BY <1>5 DEF Reads, MainReads, PerMille
<1> QED
  BY <1>1, <1>2, <1>3, <1>4, <1>5

(* A reader asks for one of its percentiles.                               *)
LEMMA PercentileAsked ==
  ASSUME NEW r \in Readers, read[r].i \in 1 .. 2
  PROVE  Len(Reads[r]) = 2 /\ Percentile(r) \in PerMille
  BY ReadsFacts, Zenon DEF Percentile

(* The same in numbers.                                                    *)
LEMMA PercentileType ==
  ASSUME NEW r \in Readers, read[r].i \in 1 .. 2
  PROVE  Len(Reads[r]) = 2 /\ Percentile(r) \in 0 .. 1000 /\ Percentile(r) \in Nat
<1>1. Len(Reads[r]) = 2 /\ Percentile(r) \in PerMille
  BY PercentileAsked
<1> DEFINE x == Percentile(r)
<1>2. x \in PerMille
  BY <1>1
<1> HIDE DEF x
<1>3. x \in 0 .. 1000 /\ x \in Nat
  BY <1>2, SMT DEF PerMille
<1> QED
  BY <1>1, <1>3, SMT DEF x

(* An index is one of the first n places.                                  *)
LEMMA IndexIsPlace ==
  ASSUME NEW p \in PerMille, NEW n \in Nat, n # 0
  PROVE  Index(p, n) \in Places(n)
<1>1. p * n \in Nat
  BY Z3 DEF PerMille
<1>2. (p * n) \div 1000 \in Nat
  BY <1>1
<1> QED
  BY <1>2 DEF Index, Places

(* A rearranged copy has the same type.                                    *)
LEMMA OrderedIsCopy ==
  ASSUME sorted_cache \in [Slots -> Nat], count \in 0 .. Capacity
  PROVE  \E p \in Sortings(sorted_cache, count) :
           /\ Ordered \in [Slots -> Nat]
           /\ \A i \in Places(count) : Ordered[i] = sorted_cache[p[i]]
<1> DEFINE p == CHOOSE q \in Sortings(sorted_cache, count) : TRUE
<1>1. count \in Nat /\ Places(count) \subseteq Slots
  BY CadenceAssumption DEF Places, Slots
<1>2. \A i \in Places(count) : sorted_cache[i] \in Int
  BY <1>1
<1>3. p \in Sortings(sorted_cache, count)
  BY <1>1, <1>2, SortingExists
<1>4. Ordered = [i \in Slots |-> IF i < count THEN sorted_cache[p[i]] ELSE sorted_cache[i]]
  BY DEF Ordered
<1> HIDE DEF p
<1>5. \A i \in Places(count) : p[i] \in Slots
  <2>1. p \in Bijection(Places(count), Places(count))
    BY <1>3 DEF Sortings
  <2>2. p \in [Places(count) -> Places(count)]
    BY <2>1, Fun_BijectionProperties
  <2> QED
    BY <1>1, <2>2
<1>6. \A i \in Slots : i < count <=> i \in Places(count)
  BY <1>1 DEF Slots, Places
<1>7. Ordered \in [Slots -> Nat]
  BY <1>4, <1>5, <1>6
<1>8. \A i \in Places(count) : Ordered[i] = sorted_cache[p[i]]
  BY <1>1, <1>4, <1>6
<1> QED
  BY <1>3, <1>7, <1>8

ReadTypes == [step : {"idle", "copy", "sort", "mark", "index"}, i : 1 .. 2]

ReplyTypes == [p : 0 .. 1000, value : Nat, some : BOOLEAN]

(* A read that returns leaves the types.                                   *)
LEMMA AnswerTypes ==
  ASSUME TypeOK, NEW r \in Readers, NEW v \in Nat, Answer(r, v)
  PROVE  read' \in [Readers -> ReadTypes] /\ reply' \in [Readers -> ReplyTypes]
<1>1. /\ read \in [Readers -> ReadTypes] /\ reply \in [Readers -> ReplyTypes]
      /\ read[r].i \in 1 .. 2
  <2>1. read \in [Readers -> ReadTypes] /\ reply \in [Readers -> ReplyTypes]
    BY DEF TypeOK, ReadTypes, ReplyTypes
  <2>2. read[r] \in ReadTypes
    BY <2>1
  <2> QED
    BY <2>1, <2>2 DEF ReadTypes
<1>2. Len(Reads[r]) = 2 /\ Percentile(r) \in 0 .. 1000
  BY <1>1, PercentileType
<1>3. (read[r].i % Len(Reads[r])) + 1 \in 1 .. 2
  BY <1>1, <1>2
<1>4. /\ reply' = [reply EXCEPT ![r] = [p |-> Percentile(r), value |-> v, some |-> count # 0]]
      /\ read' = [read EXCEPT ![r] = [step |-> "idle", i |-> (read[r].i % Len(Reads[r])) + 1]]
  BY DEF Answer
<1>5. [p |-> Percentile(r), value |-> v, some |-> count # 0] \in ReplyTypes
  BY <1>2 DEF ReplyTypes
<1>6. [step |-> "idle", i |-> (read[r].i % Len(Reads[r])) + 1] \in ReadTypes
  BY <1>3 DEF ReadTypes
<1> QED
  BY <1>1, <1>4, <1>5, <1>6

(* What is read at the end of percentile_ms is one of the copy's entries.  *)
LEMMA IndexedIsEntry ==
  ASSUME TInv, NEW r \in Readers, Return(r)
  PROVE  /\ Index(Percentile(r), count) \in Places(count)
         /\ sorted_cache[Index(Percentile(r), count)] \in Nat
<1>1. read[r].i \in 1 .. 2 /\ count \in Nat /\ count # 0 /\ count <= Capacity
  <2>1. read[r].i \in 1 .. 2
    BY DEF TInv, TypeOK
  <2>2. count \in 0 .. Capacity
    BY DEF TInv, TypeOK
  <2>3. count # 0
    BY DEF TInv, HasSamples, Busy, Return
  <2> QED
    BY <2>1, <2>2, <2>3, CadenceAssumption
<1>2. Percentile(r) \in PerMille
  BY <1>1, PercentileAsked, Zenon
<1>3. Index(Percentile(r), count) \in Places(count)
  BY <1>1, <1>2, IndexIsPlace, Zenon
<1>4. Places(count) \subseteq Slots
  BY <1>1, CadenceAssumption DEF Places, Slots
<1> QED
  BY <1>3, <1>4 DEF TInv, TypeOK

(* Every step keeps the types, and a read that has begun has samples.      *)
LEMMA NextTInv == TInv /\ [Next]_vars => TInv'
<1> SUFFICES ASSUME TInv, [Next]_vars PROVE TInv'
  OBVIOUS
<1>1. IInv'
  BY NextIInv DEF TInv
<1>2. /\ read \in [Readers -> ReadTypes] /\ reply \in [Readers -> ReplyTypes]
      /\ sorted_cache \in [Slots -> Nat] /\ epoch \in Nat /\ cached_epoch \in Nat
      /\ count \in 0 .. Capacity
  BY DEF TInv, TypeOK, ReadTypes, ReplyTypes
<1>3. ASSUME /\ read' \in [Readers -> ReadTypes] /\ reply' \in [Readers -> ReplyTypes]
             /\ sorted_cache' \in [Slots -> Nat] /\ epoch' \in Nat /\ cached_epoch' \in Nat
      PROVE  TypeOK'
  BY <1>1, <1>3 DEF IInv, RingType, TypeOK, ReadTypes, ReplyTypes
<1>4. CASE Record
  <2>1. UNCHANGED <<sorted_cache, cached_epoch, read, reply>> /\ epoch' = epoch + 1
    BY <1>4 DEF Record, record_interval_us, cache, NextEpoch
  <2>2. count' # 0
    BY <1>2, <1>4, CadenceAssumption DEF Record, record_interval_us
  <2>3. TypeOK'
    BY <1>2, <1>3, <2>1
  <2> QED
    BY <1>1, <2>2, <2>3 DEF TInv, HasSamples
<1>5. ASSUME NEW r \in Readers, NEW v \in Nat, Answer(r, v) PROVE TInv'
  <2>1. UNCHANGED <<sorted_cache, epoch, cached_epoch, count>>
    BY <1>5 DEF Answer, ring, cache
  <2>2. TypeOK'
    BY <1>2, <1>3, <1>5, <2>1, AnswerTypes DEF TInv
  <2>3. HasSamples'
    BY <1>2, <1>5, <2>1 DEF TInv, HasSamples, Busy, Answer
  <2> QED
    BY <1>1, <2>2, <2>3 DEF TInv
<1>6. ASSUME NEW r \in Readers, NEW step \in {"copy", "sort", "mark", "index"},
             GoRead(r, step), count # 0, UNCHANGED <<ring, reply>>,
             sorted_cache' \in [Slots -> Nat], cached_epoch' \in Nat
      PROVE  TInv'
  <2>1. read' = [read EXCEPT ![r] = [read[r] EXCEPT !.step = step]]
    BY <1>6 DEF GoRead
  <2>2. read' \in [Readers -> ReadTypes]
    BY <1>2, <2>1 DEF ReadTypes
  <2>3. UNCHANGED <<epoch, count, reply>>
    BY <1>6 DEF ring
  <2>4. TypeOK'
    BY <1>2, <1>3, <1>6, <2>2, <2>3
  <2> QED
    BY <1>1, <1>6, <2>3, <2>4 DEF TInv, HasSamples
<1>7. ASSUME NEW r \in Readers, NoSamples(r) PROVE TInv'
  BY <1>5, <1>7 DEF NoSamples
<1>8. ASSUME NEW r \in Readers, percentile_ms(r) PROVE TInv'
  <2>1. UNCHANGED <<ring, sorted_cache, cached_epoch, reply>> /\ count # 0
    BY <1>8 DEF percentile_ms, cache
  <2> QED
    BY <1>2, <1>6, <1>8, <2>1 DEF percentile_ms
<1>9. ASSUME NEW r \in Readers, Copy(r) PROVE TInv'
  <2>1. Copied \in [Slots -> Nat]
    BY DEF Copied, TInv, TypeOK
  <2>2. count # 0
    BY <1>9 DEF TInv, HasSamples, Busy, Copy
  <2> QED
    BY <1>2, <1>6, <1>9, <2>1, <2>2 DEF Copy
<1>10. ASSUME NEW r \in Readers, Sort(r) PROVE TInv'
  <2>1. Ordered \in [Slots -> Nat]
    BY <1>2, OrderedIsCopy
  <2>2. count # 0
    BY <1>10 DEF TInv, HasSamples, Busy, Sort
  <2> QED
    BY <1>2, <1>6, <1>10, <2>1, <2>2 DEF Sort
<1>11. ASSUME NEW r \in Readers, Mark(r) PROVE TInv'
  <2>1. count # 0
    BY <1>11 DEF TInv, HasSamples, Busy, Mark
  <2> QED
    BY <1>2, <1>6, <1>11, <2>1 DEF Mark
<1>12. ASSUME NEW r \in Readers, Return(r) PROVE TInv'
  BY <1>5, <1>12, IndexedIsEntry DEF Return
<1>13. CASE UNCHANGED vars
  <2>1. UNCHANGED <<sorted_cache, cached_epoch, epoch, read, reply, count>>
    BY <1>13 DEF vars
  <2>2. TypeOK'
    BY <1>2, <1>3, <2>1
  <2> QED
    BY <1>1, <2>1, <2>2 DEF TInv, HasSamples, Busy
<1> QED
  BY <1>4, <1>7, <1>8, <1>9, <1>10, <1>11, <1>12, <1>13 DEF Next

(* The initial state.                                                      *)
LEMMA InitTInv == Init => TInv
<1> SUFFICES ASSUME Init PROVE TInv
  OBVIOUS
<1>1. IInv
  BY InitIInv
<1>2. FirstRead \in ReadTypes /\ NoReply \in ReplyTypes
  BY DEF FirstRead, NoReply, ReadTypes, ReplyTypes
<1>3. TypeOK
  BY <1>1, <1>2 DEF Init, IInv, RingType, TypeOK, ReadTypes, ReplyTypes
<1>4. HasSamples
  BY DEF Init, HasSamples, Busy, FirstRead
<1> QED
  BY <1>1, <1>3, <1>4 DEF TInv

(* Every variable keeps its type for every capacity, also in the race: no  *)
(* read of percentile_ms indexes the copy outside its first count entries. *)
THEOREM TypeCorrect == Spec => []TypeOK
<1>1. TInv => TypeOK
  BY DEF TInv
<1> QED
  BY <1>1, InitTInv, NextTInv, PTL DEF Spec

-----------------------------------------------------------------------------
(* When calls exclude each other.                                          *)

OneAtATime == \A r, s \in Readers : Busy(r) /\ Busy(s) => r = s

(* The copy is the ring's samples, each once, in ascending order.          *)
Arranged ==
  \E p \in Bijection(Places(count), Places(count)) :
    /\ \A i \in Places(count) : sorted_cache[i] = samples_us[p[i]]
    /\ \A i, j \in Places(count) : i < j => sorted_cache[i] <= sorted_cache[j]

CopyIsCurrent ==
  /\ cached_epoch <= epoch
  /\ cached_epoch = epoch /\ count # 0 => Arranged

(* How far a read has brought the copy.                                    *)
Refreshed(r) ==
  /\ read[r].step \in {"copy", "sort", "mark"} => cached_epoch # epoch
  /\ read[r].step = "sort" => \A i \in Places(count) : sorted_cache[i] = samples_us[i]
  /\ read[r].step = "mark" => Arranged
  /\ read[r].step = "index" => cached_epoch = epoch

XInv == TInv /\ OneAtATime /\ CopyIsCurrent /\ \A r \in Readers : Refreshed(r)

(* Steps that leave the ring and the copy alone leave the arrangement.     *)
LEMMA SameArrangement ==
  ASSUME UNCHANGED <<samples_us, count, sorted_cache>>, Arranged
  PROVE  Arranged'
  BY DEF Arranged

(* With one reader under way, the invariant is about that reader.          *)
LEMMA AloneXInv ==
  ASSUME TInv', NEW r \in Readers, \A s \in Readers \ {r} : read'[s].step = "idle",
         CopyIsCurrent', Refreshed(r)'
  PROVE  XInv'
<1>1. ASSUME NEW s \in Readers \ {r} PROVE Refreshed(s)' /\ ~ Busy(s)'
  <2>1. read'[s].step = "idle"
    OBVIOUS
  <2> QED
    BY <2>1 DEF Refreshed, Busy
<1>2. \A s \in Readers : Refreshed(s)'
  BY <1>1
<1>3. OneAtATime'
  BY <1>1 DEF OneAtATime
<1> QED
  BY <1>2, <1>3 DEF XInv

(* A step of a read whose caller has the tracker to itself.                *)
LEMMA GoReadAlone ==
  ASSUME TInv, NEW r \in Readers, NEW step, GoRead(r, step),
         \A s \in Readers \ {r} : ~ Busy(s)
  PROVE  /\ read'[r].step = step
         /\ \A s \in Readers \ {r} : read'[s].step = "idle"
<1>1. read \in [Readers -> ReadTypes]
  BY DEF TInv, TypeOK, ReadTypes
<1>2. read' = [read EXCEPT ![r] = [read[r] EXCEPT !.step = step]]
  BY DEF GoRead
<1>3. read[r] \in ReadTypes
  BY <1>1
<1>4. [read[r] EXCEPT !.step = step].step = step
  BY <1>3 DEF ReadTypes
<1>5. \A s \in Readers \ {r} : read'[s] = read[s]
  BY <1>1, <1>2
<1>6. read'[r].step = step
  BY <1>1, <1>2, <1>4
<1> QED
  BY <1>5, <1>6 DEF Busy

(* The same for a read that returns.                                       *)
LEMMA AnswerAlone ==
  ASSUME XInv, NEW r \in Readers, NEW v \in Nat, Answer(r, v), TInv',
         \A s \in Readers \ {r} : ~ Busy(s)
  PROVE  XInv'
<1>1. read \in [Readers -> ReadTypes]
  BY DEF XInv, TInv, TypeOK, ReadTypes
<1>2. /\ read' = [read EXCEPT ![r] = [step |-> "idle", i |-> (read[r].i % Len(Reads[r])) + 1]]
      /\ UNCHANGED <<samples_us, count, epoch, sorted_cache, cached_epoch>>
  BY DEF Answer, ring, cache
<1>3. read'[r].step = "idle"
  BY <1>1, <1>2
<1>4. \A s \in Readers \ {r} : read'[s].step = "idle"
  BY <1>1, <1>2 DEF Busy
<1>5. CopyIsCurrent'
  BY <1>2, SameArrangement DEF XInv, CopyIsCurrent
<1>6. Refreshed(r)'
  BY <1>3 DEF Refreshed
<1> QED
  BY <1>4, <1>5, <1>6, AloneXInv

(* The others are idle.                                                    *)
LEMMA OthersIdle ==
  ASSUME XInv, NEW r \in Readers, NobodyReads \/ Busy(r)
  PROVE  \A s \in Readers \ {r} : ~ Busy(s)
  BY DEF XInv, OneAtATime, NobodyReads, Busy

(* Every step preserves XInv.                                              *)
LEMMA NextXInv == ASSUME Exclusive, XInv, [Next]_vars PROVE XInv'
<1>1. TInv /\ TInv'
  BY NextTInv DEF XInv
<1>2. /\ read \in [Readers -> ReadTypes] /\ sorted_cache \in [Slots -> Nat]
      /\ samples_us \in [Slots -> Nat] /\ count \in 0 .. Capacity
      /\ epoch \in Nat /\ cached_epoch \in Nat
      /\ Places(count) \subseteq Slots
  <2>1. /\ read \in [Readers -> ReadTypes] /\ sorted_cache \in [Slots -> Nat]
        /\ samples_us \in [Slots -> Nat] /\ count \in 0 .. Capacity
        /\ epoch \in Nat /\ cached_epoch \in Nat
    BY <1>1 DEF TInv, TypeOK, ReadTypes
  <2> QED
    BY <2>1, CadenceAssumption DEF Places, Slots
<1>3. CopyIsCurrent /\ \A r \in Readers : Refreshed(r)
  BY DEF XInv
<1>4. CASE Record
  <2>1. UNCHANGED <<cached_epoch, read>> /\ epoch' = epoch + 1 /\ NobodyReads
    BY <1>4 DEF Record, record_interval_us, cache, NextEpoch
  <2>2. \A r \in Readers : read'[r].step = "idle"
    BY <2>1 DEF NobodyReads
  <2>3. CopyIsCurrent'
    <3>1. cached_epoch' < epoch'
      BY <1>2, <1>3, <2>1 DEF CopyIsCurrent
    <3>2. cached_epoch' \in Nat /\ epoch' \in Nat
      BY <1>2, <2>1
    <3> QED
      BY <3>1, <3>2 DEF CopyIsCurrent
  <2>4. OneAtATime' /\ \A r \in Readers : Refreshed(r)'
    BY <2>2 DEF OneAtATime, Refreshed, Busy
  <2> QED
    BY <1>1, <2>3, <2>4 DEF XInv
<1>5. ASSUME NEW r \in Readers, NoSamples(r) PROVE XInv'
  <2>1. NobodyReads /\ Answer(r, 0)
    BY <1>5 DEF NoSamples
  <2> QED
    BY <1>1, <2>1, OthersIdle, AnswerAlone
<1>6. ASSUME NEW r \in Readers, percentile_ms(r) PROVE XInv'
  <2> DEFINE step == IF cached_epoch = epoch THEN "index" ELSE "copy"
  <2>1. /\ NobodyReads /\ GoRead(r, step)
        /\ UNCHANGED <<samples_us, count, epoch, sorted_cache, cached_epoch>>
    BY <1>6 DEF percentile_ms, ring, cache
  <2>2. /\ read'[r].step = step
        /\ \A s \in Readers \ {r} : read'[s].step = "idle"
    BY <1>1, <2>1, OthersIdle, GoReadAlone
  <2>3. CopyIsCurrent'
    BY <1>3, <2>1, SameArrangement DEF CopyIsCurrent
  <2>4. Refreshed(r)'
    BY <2>1, <2>2 DEF Refreshed
  <2> QED
    BY <1>1, <2>2, <2>3, <2>4, AloneXInv
<1>7. ASSUME NEW r \in Readers, Copy(r) PROVE XInv'
  <2>1. /\ Busy(r) /\ GoRead(r, "sort") /\ cached_epoch # epoch
        /\ UNCHANGED <<samples_us, count, epoch, cached_epoch>>
        /\ sorted_cache' = Copied
    BY <1>3, <1>7 DEF Copy, Busy, Refreshed, ring
  <2>2. /\ read'[r].step = "sort"
        /\ \A s \in Readers \ {r} : read'[s].step = "idle"
    BY <1>1, <2>1, OthersIdle, GoReadAlone
  <2>3. CopyIsCurrent'
    BY <1>3, <2>1 DEF CopyIsCurrent
  <2>4. \A i \in Places(count) : Copied[i] = samples_us[i]
    BY <1>2 DEF Copied, Places
  <2>5. Refreshed(r)'
    BY <2>1, <2>2, <2>4 DEF Refreshed
  <2> QED
    BY <1>1, <2>2, <2>3, <2>5, AloneXInv
<1>8. ASSUME NEW r \in Readers, Sort(r) PROVE XInv'
  <2>1. /\ Busy(r) /\ GoRead(r, "mark") /\ cached_epoch # epoch
        /\ UNCHANGED <<samples_us, count, epoch, cached_epoch>>
        /\ sorted_cache' = Ordered
        /\ \A i \in Places(count) : sorted_cache[i] = samples_us[i]
    BY <1>3, <1>8 DEF Sort, Busy, Refreshed, ring
  <2>2. /\ read'[r].step = "mark"
        /\ \A s \in Readers \ {r} : read'[s].step = "idle"
    BY <1>1, <2>1, OthersIdle, GoReadAlone
  <2>3. CopyIsCurrent'
    BY <1>3, <2>1 DEF CopyIsCurrent
  <2>4. PICK p \in Sortings(sorted_cache, count) :
          \A i \in Places(count) : Ordered[i] = sorted_cache[p[i]]
    BY <1>2, OrderedIsCopy
  <2>5. /\ p \in Bijection(Places(count), Places(count))
        /\ \A i, j \in Places(count) : i < j => sorted_cache[p[i]] <= sorted_cache[p[j]]
    BY DEF Sortings
  <2>6. \A i \in Places(count) : p[i] \in Places(count)
    BY <2>5, Fun_BijectionProperties
  <2>7. /\ \A i \in Places(count) : Ordered[i] = samples_us[p[i]]
        /\ \A i, j \in Places(count) : i < j => Ordered[i] <= Ordered[j]
    BY <2>1, <2>4, <2>5, <2>6
  <2>8. Arranged'
    BY <2>1, <2>5, <2>7 DEF Arranged
  <2>9. Refreshed(r)'
    BY <2>1, <2>2, <2>8 DEF Refreshed
  <2> QED
    BY <1>1, <2>2, <2>3, <2>9, AloneXInv
<1>9. ASSUME NEW r \in Readers, Mark(r) PROVE XInv'
  <2>1. /\ Busy(r) /\ GoRead(r, "index") /\ Arranged
        /\ UNCHANGED <<samples_us, count, epoch, sorted_cache>>
        /\ cached_epoch' = epoch
    BY <1>3, <1>9 DEF Mark, Busy, Refreshed, ring
  <2>2. /\ read'[r].step = "index"
        /\ \A s \in Readers \ {r} : read'[s].step = "idle"
    BY <1>1, <2>1, OthersIdle, GoReadAlone
  <2>3. CopyIsCurrent'
    BY <1>2, <2>1, SameArrangement DEF CopyIsCurrent
  <2>4. Refreshed(r)'
    BY <2>1, <2>2 DEF Refreshed
  <2> QED
    BY <1>1, <2>2, <2>3, <2>4, AloneXInv
<1>10. ASSUME NEW r \in Readers, Return(r) PROVE XInv'
  <2>1. Busy(r) /\ Answer(r, sorted_cache[Index(Percentile(r), count)])
    BY <1>10 DEF Return, Busy
  <2>2. sorted_cache[Index(Percentile(r), count)] \in Nat
    BY <1>1, <1>10, IndexedIsEntry
  <2> QED
    BY <1>1, <2>1, <2>2, OthersIdle, AnswerAlone
<1>11. CASE UNCHANGED vars
  <2>1. UNCHANGED <<samples_us, count, epoch, sorted_cache, cached_epoch, read>>
    BY <1>11 DEF vars
  <2>2. OneAtATime' /\ CopyIsCurrent'
    BY <1>3, <2>1, SameArrangement DEF XInv, OneAtATime, Busy, CopyIsCurrent
  <2>3. \A r \in Readers : Refreshed(r)'
    BY <1>3, <2>1, SameArrangement DEF Refreshed
  <2> QED
    BY <1>1, <2>2, <2>3 DEF XInv
<1> QED
  BY <1>4, <1>5, <1>6, <1>7, <1>8, <1>9, <1>10, <1>11 DEF Next

(* The initial state.                                                      *)
LEMMA InitXInv == Init => XInv
<1> SUFFICES ASSUME Init PROVE XInv
  OBVIOUS
<1>1. \A r \in Readers : read[r].step = "idle"
  BY DEF Init, FirstRead
<1>2. OneAtATime /\ \A r \in Readers : Refreshed(r)
  BY <1>1 DEF OneAtATime, Busy, Refreshed
<1>3. CopyIsCurrent
  BY DEF Init, CopyIsCurrent
<1> QED
  BY <1>2, <1>3, InitTInv DEF XInv

-----------------------------------------------------------------------------
(* The window that the tracker's answers are about.                        *)

Kept == SubSeq(history, Len(history) - count + 1, Len(history))

Told == [r \in Readers |-> [p |-> reply[r].p, value |-> reply[r].value]]

KeptIsLast ==
  /\ Len(history) \in Nat /\ count \in Nat /\ count <= Len(history)
  /\ Kept \in Seq(Nat) /\ Len(Kept) = count /\ DOMAIN Kept = 1 .. count
  /\ \A i \in 1 .. count : Kept[i] = history[Len(history) - count + i]

(* What is kept are the last count intervals.                              *)
LEMMA KeptFacts == IInv => KeptIsLast
<1> SUFFICES ASSUME IInv PROVE KeptIsLast
  OBVIOUS
<1> DEFINE len == Len(history)
           m   == len - count + 1
<1>1. len \in Nat /\ count \in Nat /\ count <= len
  BY CadenceAssumption DEF IInv, RingType, RingIsLastN
<1>2. history \in Seq(Nat)
  BY DEF IInv, RingType
<1>3. ASSUME NEW i \in m .. len PROVE history[i] \in Nat
  <2>1. i \in 1 .. len
    BY <1>1
  <2> QED
    BY <1>2, <2>1, ElementOfSeq
<1> HIDE DEF len
<1>4. m \in Int /\ len \in Int
  BY <1>1
<1> HIDE DEF m
<1>5. /\ SubSeq(history, m, len) \in Seq(Nat)
      /\ Len(SubSeq(history, m, len)) = IF m <= len THEN len - m + 1 ELSE 0
      /\ \A i \in 1 .. len - m + 1 : SubSeq(history, m, len)[i] = history[m + i - 1]
  BY <1>3, <1>4, SubSeqProperties
<1>6. Kept = SubSeq(history, m, len)
  BY DEF Kept, m, len
<1>7. len - m + 1 = count /\ \A i \in 1 .. count : m + i - 1 = len - count + i
  BY <1>1 DEF m
<1>8. Len(Kept) = count
  BY <1>1, <1>5, <1>6, <1>7 DEF m
<1>9. DOMAIN Kept = 1 .. count
  BY <1>5, <1>6, <1>8, LenProperties
<1>10. \A i \in 1 .. count : Kept[i] = history[len - count + i]
  BY <1>5, <1>6, <1>7
<1> QED
  BY <1>1, <1>5, <1>6, <1>8, <1>9, <1>10 DEF KeptIsLast, len

(* The slot of the i-th interval kept.                                     *)
SlotOf == [i \in 1 .. count |-> (Len(history) - count + i - 1) % Capacity]

(* Every slot in use has one of the intervals kept, and no two the same.   *)
LEMMA SlotOfIsBijection ==
  ASSUME IInv
  PROVE  SlotOf \in Bijection(1 .. count, Places(count))
<1> DEFINE len == Len(history)
<1>1. /\ len \in Nat /\ Capacity \in Nat \ {0} /\ count \in Nat /\ count <= len
      /\ count = IF len < Capacity THEN len ELSE Capacity
  BY KeptFacts, CadenceAssumption DEF KeptIsLast, IInv, RingIsLastN
<1>2. \A i \in 1 .. count : SlotOf[i] = (len - count + i - 1) % Capacity
  BY DEF SlotOf
<1>3. SlotOf = [i \in 1 .. count |-> SlotOf[i]]
  BY DEF SlotOf
<1> HIDE DEF len
<1>4. ASSUME NEW i \in 1 .. count
      PROVE  /\ len - count + i - 1 \in Nat
             /\ SlotOf[i] \in Slots
  <2>1. len - count + i - 1 \in Nat
    BY <1>1
  <2>2. (len - count + i - 1) % Capacity \in Slots
    BY <2>1, ModIsSlot
  <2> QED
    BY <1>2, <2>1, <2>2
<1>5. ASSUME NEW i \in 1 .. count, NEW j \in 1 .. count, i < j
      PROVE  SlotOf[i] # SlotOf[j]
  <2> DEFINE a == len - count + i - 1
             b == len - count + j - 1
  <2>1. a \in Nat /\ b \in Nat
    BY <1>4
  <2>2. a < b /\ b - a < Capacity
    BY <1>1, <1>5
  <2>3. SlotOf[i] = a % Capacity /\ SlotOf[j] = b % Capacity
    BY <1>2
  <2> HIDE DEF a, b
  <2> QED
    BY <2>1, <2>2, <2>3, ModDistinct
<1>6. \A i, j \in 1 .. count : SlotOf[i] = SlotOf[j] => i = j
  BY <1>5
<1>7. CASE len < Capacity
  <2>1. \A i \in 1 .. count : SlotOf[i] = i - 1
    <3> SUFFICES ASSUME NEW i \in 1 .. count PROVE SlotOf[i] = i - 1
      OBVIOUS
    <3>1. i - 1 \in Slots /\ len - count + i - 1 = Capacity * 0 + (i - 1)
      BY <1>1, <1>7 DEF Slots
    <3>2. (Capacity * 0 + (i - 1)) % Capacity = i - 1
      BY <3>1, ModUnique
    <3> QED
      BY <1>2, <3>1, <3>2, Zenon
  <2>2. SlotOf \in [1 .. count -> Places(count)]
    <3>1. \A i \in 1 .. count : SlotOf[i] \in Places(count)
      BY <1>1, <2>1 DEF Places
    <3> QED
      BY <1>3, <3>1
  <2>3. \A s \in Places(count) : \E i \in 1 .. count : SlotOf[i] = s
    <3> SUFFICES ASSUME NEW s \in Places(count) PROVE \E i \in 1 .. count : SlotOf[i] = s
      OBVIOUS
    <3>1. s + 1 \in 1 .. count /\ (s + 1) - 1 = s
      BY <1>1 DEF Places
    <3> QED
      BY <2>1, <3>1
  <2> QED
    BY <1>6, <2>2, <2>3, Fun_IsBij
<1>8. CASE len >= Capacity
  <2>1. count = Capacity /\ Places(count) = Slots
    BY <1>1, <1>8 DEF Places, Slots
  <2>2. SlotOf \in [1 .. count -> Places(count)]
    BY <1>3, <1>4, <2>1
  <2>3. PICK q \in Nat, r \in Slots : len = Capacity * q + r /\ len % Capacity = r
    BY <1>1, DivMod
  <2>4. /\ Capacity * q \in Nat /\ r \in 0 .. Capacity - 1
        /\ q - 1 \in Nat /\ Capacity * (q - 1) = Capacity * q - Capacity
    <3>1. Capacity * q \in Nat /\ r \in 0 .. Capacity - 1
      BY <1>1, <2>3, Z3 DEF Slots
    <3>2. q # 0
      <4>1. Capacity * 0 = 0
        BY <1>1, Z3
      <4> QED
        BY <1>1, <1>8, <2>3, <3>1, <4>1
    <3>3. Capacity * (q - 1) = Capacity * q - Capacity
      BY <1>1, <2>3, Z3
    <3> QED
      BY <3>1, <3>2, <3>3
  <2>5. ASSUME NEW s \in Slots, NEW k \in Nat, NEW n \in Nat, n = Capacity * k + s,
               len - Capacity <= n, n < len
        PROVE  \E i \in 1 .. count : SlotOf[i] = s
    <3> DEFINE i == n - (len - Capacity) + 1
    <3>1. i \in 1 .. count /\ len - count + i - 1 = n
      BY <1>1, <2>1, <2>5
    <3>2. n % Capacity = s
      BY <2>5, ModUnique
    <3> HIDE DEF i
    <3>3. SlotOf[i] = s
      BY <1>2, <3>1, <3>2
    <3> QED
      BY <3>1, <3>3
  <2>6. ASSUME NEW s \in Places(count) PROVE \E i \in 1 .. count : SlotOf[i] = s
    <3>1. s \in Slots /\ s \in 0 .. Capacity - 1
      BY <2>1 DEF Slots
    <3>2. CASE s < r
      <4> DEFINE n == Capacity * q + s
      <4>1. n \in Nat /\ len - Capacity <= n /\ n < len
        BY <1>1, <2>3, <2>4, <3>1, <3>2
      <4> QED
        BY <2>5, <3>1, <4>1
    <3>3. CASE s >= r
      <4> DEFINE n == Capacity * (q - 1) + s
      <4>1. n = Capacity * q - Capacity + s
        BY <2>4
      <4>2. n \in Nat /\ len - Capacity <= n /\ n < len
        BY <1>1, <1>8, <2>3, <2>4, <3>1, <3>3, <4>1
      <4> QED
        BY <2>4, <2>5, <3>1, <4>2
    <3> QED
      BY <2>4, <3>1, <3>2, <3>3
  <2> QED
    BY <1>6, <2>2, <2>6, Fun_IsBij
<1> QED
  BY <1>1, <1>7, <1>8

(* So the slots in use hold what is kept, in another order.                *)
LEMMA SlotsHoldKept ==
  ASSUME IInv
  PROVE  \E g \in Bijection(Places(count), 1 .. count) :
           \A s \in Places(count) : samples_us[s] = Kept[g[s]]
<1> DEFINE g == Inverse(SlotOf, 1 .. count, Places(count))
<1>1. SlotOf \in Bijection(1 .. count, Places(count))
  BY SlotOfIsBijection
<1>2. /\ g \in Bijection(Places(count), 1 .. count)
      /\ \A i \in 1 .. count : g[SlotOf[i]] = i
  BY <1>1, Fun_BijInverse
<1> HIDE DEF g
<1>3. \A s \in Places(count) : \E i \in 1 .. count : SlotOf[i] = s
  BY <1>1 DEF Bijection, Surjection
<1>4. \A i \in 1 .. count : samples_us[SlotOf[i]] = Kept[i]
  <2> SUFFICES ASSUME NEW i \in 1 .. count PROVE samples_us[SlotOf[i]] = Kept[i]
    OBVIOUS
  <2> DEFINE n == Len(history) - count + i
  <2>1. n \in (Len(history) - count + 1) .. Len(history) /\ n - 1 = Len(history) - count + i - 1
    BY KeptFacts DEF KeptIsLast
  <2>2. Kept[i] = history[n]
    BY KeptFacts DEF KeptIsLast
  <2>3. SlotOf[i] = (n - 1) % Capacity
    BY <2>1 DEF SlotOf
  <2> HIDE DEF n
  <2>4. samples_us[(n - 1) % Capacity] = history[n]
    BY <2>1 DEF IInv, RingIsLastN
  <2> QED
    BY <2>2, <2>3, <2>4
<1>5. ASSUME NEW s \in Places(count) PROVE samples_us[s] = Kept[g[s]]
  <2>1. PICK i \in 1 .. count : SlotOf[i] = s
    BY <1>3
  <2>2. g[s] = i /\ samples_us[s] = Kept[i]
    BY <1>2, <1>4, <2>1
  <2> QED
    BY <2>2
<1> QED
  BY <1>2, <1>5

-----------------------------------------------------------------------------
(* The exclusive tracker implements CadenceWindow.                         *)

(* When a read is about to index it, the copy is what is kept, sorted.     *)
LEMMA CopyIsKept ==
  ASSUME XInv, NEW r \in Readers, Return(r)
  PROVE  /\ count \in Nat /\ count # 0
         /\ \A i, j \in Places(count) : i < j => sorted_cache[i] <= sorted_cache[j]
         /\ \E q \in Bijection(Places(count), 1 .. count) :
              \A i \in Places(count) : sorted_cache[i] \in Int /\ sorted_cache[i] = Kept[q[i]]
<1>1. TInv /\ IInv
  BY DEF XInv, TInv
<1>2. count \in Nat /\ count # 0 /\ count <= Capacity
  <2>1. count \in 0 .. Capacity
    BY <1>1 DEF TInv, TypeOK
  <2>2. count # 0
    BY <1>1 DEF TInv, HasSamples, Busy, Return
  <2> QED
    BY <2>1, <2>2, CadenceAssumption
<1>3. Arranged
  <2>1. cached_epoch = epoch
    BY DEF XInv, Refreshed, Return
  <2> QED
    BY <1>2, <2>1 DEF XInv, CopyIsCurrent
<1>4. PICK p \in Bijection(Places(count), Places(count)) :
        /\ \A i \in Places(count) : sorted_cache[i] = samples_us[p[i]]
        /\ \A i, j \in Places(count) : i < j => sorted_cache[i] <= sorted_cache[j]
  BY <1>3 DEF Arranged
<1>5. PICK g \in Bijection(Places(count), 1 .. count) :
        \A s \in Places(count) : samples_us[s] = Kept[g[s]]
  BY <1>1, SlotsHoldKept
<1> DEFINE q == [i \in Places(count) |-> g[p[i]]]
<1>6. q \in Bijection(Places(count), 1 .. count)
  BY Fun_BijTransitive
<1>7. \A i \in Places(count) : p[i] \in Places(count)
  BY Fun_BijectionProperties
<1>8. \A i \in Places(count) : sorted_cache[i] = Kept[q[i]]
  BY <1>4, <1>5, <1>7
<1>9. \A i \in Places(count) : sorted_cache[i] \in Int /\ sorted_cache[i] = Kept[q[i]]
  <2>1. Places(count) \subseteq Slots
    BY <1>2, CadenceAssumption DEF Places, Slots
  <2> QED
    BY <1>1, <1>8, <2>1 DEF TInv, TypeOK
<1> HIDE DEF q
<1> QED
  BY <1>2, <1>4, <1>6, <1>9

(* What a read returns is the percentile of what is kept.                  *)
LEMMA ReturnedIsPercentile ==
  ASSUME XInv, NEW r \in Readers, Return(r)
  PROVE  Window!IsPercentile(sorted_cache[Index(Percentile(r), count)], Percentile(r), Kept)
<1> DEFINE k == Index(Percentile(r), count)
           v == sorted_cache[k]
<1>1. TInv /\ IInv
  BY DEF XInv, TInv
<1>2. k \in Places(count)
  BY <1>1, IndexedIsEntry
<1> HIDE DEF k
<1>3. /\ count \in Nat /\ count # 0
      /\ \A i, j \in Places(count) : i < j => sorted_cache[i] <= sorted_cache[j]
  BY CopyIsKept
<1>4. PICK q \in Bijection(Places(count), 1 .. count) :
         \A i \in Places(count) : sorted_cache[i] \in Int /\ sorted_cache[i] = Kept[q[i]]
  BY CopyIsKept, Zenon
<1>5. /\ Cardinality(Below(Kept, count, v)) <= k
       /\ k < Cardinality(AtMost(Kept, count, v))
  BY <1>2, <1>3, <1>4, RankOfSorted, Zenon
<1>6. Len(Kept) = count /\ DOMAIN Kept = 1 .. count /\ Kept # <<>>
  BY <1>1, <1>3, KeptFacts DEF KeptIsLast
<1>7. k = Window!Rank(Percentile(r), Len(Kept))
  <2>1. Percentile(r) \in Nat
    <3>1. read[r].i \in 1 .. 2
      BY <1>1 DEF TInv, TypeOK
    <3> QED
      BY <3>1, PercentileType
  <2>2. Percentile(r) * count \in Nat
    BY <1>3, <2>1, Z3
  <2>3. (Percentile(r) * count) \div 1000 \in Nat
    BY <2>2
  <2> QED
    BY <1>3, <1>6, <2>3 DEF k, Index, Window!Rank
<1> HIDE DEF v
<1>8. Window!IsPercentile(v, Percentile(r), Kept)
  <2>1. \A S : Window!Cardinality(S) = Cardinality(S)
    BY DEF Cardinality, Window!Cardinality
  <2>2. /\ Window!Cardinality({ i \in DOMAIN Kept : Kept[i] < v }) <= k
        /\ k < Window!Cardinality({ i \in DOMAIN Kept : Kept[i] <= v })
    BY <1>5, <1>6, <2>1, Zenon DEF Below, AtMost
  <2> QED
    BY <1>6, <1>7, <2>2, Zenon DEF Window!IsPercentile
<1> QED
  BY <1>8 DEF v, k

(* A read that returns a percentile is an answer of the window.            *)
LEMMA AnswerIsAnswer ==
  ASSUME XInv, NEW r \in Readers, NEW v, Answer(r, v),
         Window!IsPercentile(v, Percentile(r), Kept)
  PROVE  Window!Answer(r)
<1>1. reply \in [Readers -> ReplyTypes]
  BY DEF XInv, TInv, TypeOK, ReplyTypes
<1>2. /\ reply' = [reply EXCEPT ![r] = [p |-> Percentile(r), value |-> v, some |-> count # 0]]
      /\ UNCHANGED <<history, count>>
  BY DEF Answer, ring
<1>3. Kept' = Kept
  BY <1>2 DEF Kept
<1>4. reply'[r].p = Percentile(r) /\ reply'[r].value = v
  BY <1>1, <1>2
<1>5. Told'[r].p = Percentile(r) /\ Told'[r].value = v
  BY <1>4 DEF Told
<1>6. \A s \in Readers \ {r} : Told'[s] = Told[s]
  <2>1. \A s \in Readers \ {r} : reply'[s] = reply[s]
    BY <1>1, <1>2
  <2> QED
    BY <2>1 DEF Told
<1>7. Told' = [Told EXCEPT ![r] = Told'[r]]
  BY <1>6 DEF Told
<1>8. Window!IsPercentile(Told'[r].value, Told'[r].p, Kept)
  BY <1>5
<1> QED
  BY <1>3, <1>7, <1>8 DEF Window!Answer, Kept, Told

(* A recorded interval slides the window.                                  *)
LEMMA RecordIsSlide ==
  ASSUME IInv, IInv', NEW us \in Nat, record_interval_us(us)
  PROVE  Window!Slide
<1> DEFINE len  == Len(history)
           rest == IF Len(Kept) < Capacity THEN Kept ELSE Tail(Kept)
<1>1. /\ len \in Nat /\ count \in Nat /\ count <= len /\ Capacity \in Nat \ {0}
      /\ Kept \in Seq(Nat) /\ Len(Kept) = count
      /\ \A i \in 1 .. count : Kept[i] = history[len - count + i]
      /\ count = IF len < Capacity THEN len ELSE Capacity
  BY KeptFacts, CadenceAssumption DEF KeptIsLast, IInv, RingIsLastN
<1>2. /\ history' = Append(history, us) /\ history \in Seq(Nat)
      /\ count' = IF count < Capacity THEN count + 1 ELSE count
      /\ UNCHANGED reply
  BY DEF record_interval_us, IInv, RingType
<1>3. /\ Len(history') = len + 1 /\ history'[len + 1] = us
      /\ \A i \in 1 .. len : history'[i] = history[i]
  BY <1>2, AppendProperties
<1>4. /\ Kept' \in Seq(Nat) /\ Len(Kept') = count'
      /\ \A i \in 1 .. count' : Kept'[i] = history'[(len + 1) - count' + i]
  <2>1. KeptIsLast'
    BY KeptFacts, PTL
  <2>2. /\ Kept' \in Seq(Nat) /\ Len(Kept') = count'
        /\ \A i \in 1 .. count' : Kept'[i] = history'[Len(history') - count' + i]
    BY <2>1, Zenon DEF KeptIsLast
  <2>3. ASSUME NEW i \in 1 .. count' PROVE Kept'[i] = history'[(len + 1) - count' + i]
    <3>1. Kept'[i] = history'[Len(history') - count' + i]
      BY <2>2, Zenon
    <3> QED
      BY <1>3, <3>1, Zenon
  <2> QED
    BY <2>2, <2>3, Zenon
<1> HIDE DEF len
<1>5. count' \in Nat /\ count' >= 1
  BY <1>1, <1>2
<1>6. /\ rest \in Seq(Nat) /\ Len(rest) = count' - 1
      /\ \A i \in 1 .. count' - 1 : rest[i] = history[(len + 1) - count' + i]
  <2>1. CASE count < Capacity
    BY <1>1, <1>2, <2>1
  <2>2. CASE ~ (count < Capacity)
    <3>1. Kept # <<>> /\ rest = Tail(Kept) /\ count' = count
      BY <1>1, <1>2, <2>2
    <3>2. /\ rest \in Seq(Nat) /\ Len(rest) = count - 1
          /\ \A i \in 1 .. count - 1 : rest[i] = Kept[i + 1]
      BY <1>1, <3>1, HeadTailProperties
    <3>3. \A i \in 1 .. count - 1 : /\ i + 1 \in 1 .. count
                                    /\ len - count + (i + 1) = (len + 1) - count + i
      BY <1>1
    <3> QED
      BY <1>1, <3>1, <3>2, <3>3
  <2> QED
    BY <2>1, <2>2
<1> HIDE DEF rest
<1>7. /\ Append(rest, us) \in Seq(Nat) /\ Len(Append(rest, us)) = count'
      /\ \A i \in 1 .. count' - 1 : Append(rest, us)[i] = rest[i]
      /\ Append(rest, us)[count'] = us
  <2>1. /\ Append(rest, us) \in Seq(Nat) /\ Len(Append(rest, us)) = Len(rest) + 1
        /\ \A i \in 1 .. Len(rest) : Append(rest, us)[i] = rest[i]
        /\ Append(rest, us)[Len(rest) + 1] = us
    BY <1>6, AppendProperties
  <2>2. Len(rest) + 1 = count'
    BY <1>5, <1>6
  <2> QED
    BY <1>6, <2>1, <2>2
<1>8. Kept'[count'] = us
  <2>1. \A a, c \in Nat : c >= 1 => c \in 1 .. c /\ (a + 1) - c + c = a + 1
    OBVIOUS
  <2>2. count' \in 1 .. count' /\ (len + 1) - count' + count' = len + 1
    BY <1>1, <1>5, <2>1, Zenon
  <2>3. Kept'[count'] = history'[(len + 1) - count' + count']
    BY <1>4, <2>2, Zenon
  <2> QED
    BY <1>3, <2>2, <2>3, Zenon
<1>9. ASSUME NEW i \in 1 .. count' PROVE Kept'[i] = Append(rest, us)[i]
  <2>1. CASE i = count'
    BY <1>7, <1>8, <2>1
  <2>2. CASE i # count'
    <3>1. i \in 1 .. count' - 1 /\ (len + 1) - count' + i \in 1 .. len
      BY <1>1, <1>2, <1>5, <2>2
    <3>2. Kept'[i] = history'[(len + 1) - count' + i]
      BY <1>4
    <3>3. history'[(len + 1) - count' + i] = history[(len + 1) - count' + i]
      BY <1>3, <3>1
    <3> QED
      BY <1>6, <1>7, <3>1, <3>2, <3>3
  <2> QED
    BY <2>1, <2>2
<1>10. Kept' = Append(rest, us)
  BY <1>4, <1>7, <1>9, SeqEqual
<1>11. Kept' # <<>> /\ Kept'[Len(Kept')] = us
  BY <1>4, <1>5, <1>8
<1>12. Told' = Told
  BY <1>2 DEF Told
<1> QED
  BY <1>10, <1>11, <1>12 DEF Window!Slide, Kept, Told, rest

(* Every step is a step of the window or changes nothing of it.            *)
LEMMA NextRefines ==
  ASSUME Exclusive, XInv, [Next]_vars PROVE [Window!Next]_(Window!vars)
<1>1. IInv /\ IInv' /\ TInv
  BY NextIInv DEF XInv, TInv
<1>2. CASE Record
  BY <1>1, <1>2, RecordIsSlide, CadenceAssumption DEF Record, Window!Next
<1>3. ASSUME NEW r \in Readers, NoSamples(r) PROVE Window!Next
  <2>1. Kept = <<>>
    BY <1>1, <1>3, KeptFacts DEF KeptIsLast, NoSamples
  <2>2. Window!IsPercentile(0, Percentile(r), Kept)
    BY <2>1 DEF Window!IsPercentile
  <2>3. Window!Answer(r)
    BY <1>3, <2>2, AnswerIsAnswer DEF NoSamples
  <2> QED
    BY <2>3 DEF Window!Next
<1>4. ASSUME NEW r \in Readers, Return(r) PROVE Window!Next
  <2>1. Window!Answer(r)
    BY <1>4, ReturnedIsPercentile, AnswerIsAnswer DEF Return
  <2> QED
    BY <2>1 DEF Window!Next
<1>5. CASE UNCHANGED <<history, count, reply>>
  BY <1>5 DEF Window!vars
<1>6. ASSUME NEW r \in Readers, percentile_ms(r) \/ Copy(r) \/ Sort(r) \/ Mark(r)
      PROVE  UNCHANGED <<history, count, reply>>
  BY <1>6 DEF percentile_ms, Copy, Sort, Mark, ring
<1>7. CASE UNCHANGED vars
  BY <1>5, <1>7 DEF vars
<1> QED
  BY <1>2, <1>3, <1>4, <1>5, <1>6, <1>7 DEF Next

(* The initial state is the empty window.                                  *)
LEMMA InitRefines == Init => Window!Init
<1> SUFFICES ASSUME Init PROVE Window!Init
  OBVIOUS
<1>1. Kept = <<>>
  <2>1. IInv /\ count = 0
    BY InitTInv DEF TInv, Init
  <2> QED
    BY <2>1, KeptFacts DEF KeptIsLast
<1>2. Told = [r \in Readers |-> [p |-> 0, value |-> 0]]
  BY DEF Told, Init, NoReply
<1> QED
  BY <1>1, <1>2 DEF Window!Init, Kept, Told

(* When calls exclude each other, as the class asks, every answer of the   *)
(* tracker is the exact percentile of the last Capacity intervals, for     *)
(* every capacity, whatever is recorded and however often it is read: the  *)
(* sorted copy is never out of date when percentile_ms indexes it.         *)
THEOREM ExclusiveExact == Exclusive => (Spec => AnswersExactly)
<1> SUFFICES ASSUME Exclusive PROVE Spec => AnswersExactly
  OBVIOUS
<1>1. XInv /\ [Next]_vars => XInv'
  BY NextXInv
<1>2. XInv /\ [Next]_vars => [Window!Next]_(Window!vars)
  BY NextRefines
<1> QED
  BY <1>1, <1>2, InitXInv, InitRefines, PTL DEF Spec, AnswersExactly, Window!Spec

-----------------------------------------------------------------------------
(* What the race takes away.                                               *)

(* A recorded interval stays recorded.                                     *)
LEMMA StillRecorded ==
  ASSUME IInv, NEW us \in Nat, record_interval_us(us), ReportedWasRecorded
  PROVE  ReportedWasRecorded'
<1>1. history \in Seq(Nat) /\ history' = Append(history, us) /\ reply' = reply
  BY DEF record_interval_us, IInv, RingType
<1>2. \A i \in DOMAIN history : i \in DOMAIN history' /\ history'[i] = history[i]
  BY <1>1
<1>3. ASSUME NEW r \in Readers, reply'[r].some
      PROVE  \E i \in DOMAIN history' : reply'[r].value = history'[i]
  <2>1. PICK i \in DOMAIN history : reply[r].value = history[i]
    BY <1>1, <1>3 DEF ReportedWasRecorded
  <2> QED
    BY <1>1, <1>2, <2>1, Zenon
<1> QED
  BY <1>3 DEF ReportedWasRecorded

(* An answer that was recorded, or is of no samples, reports no other.     *)
LEMMA AnswerWasRecorded ==
  ASSUME XInv, ReportedWasRecorded, NEW r \in Readers, NEW v, Answer(r, v),
         count # 0 => \E i \in DOMAIN history : v = history[i]
  PROVE  ReportedWasRecorded'
<1>1. reply \in [Readers -> ReplyTypes]
  BY DEF XInv, TInv, TypeOK, ReplyTypes
<1>2. /\ reply' = [reply EXCEPT ![r] = [p |-> Percentile(r), value |-> v, some |-> count # 0]]
      /\ history' = history
  BY DEF Answer, ring
<1>3. reply'[r].some = (count # 0) /\ reply'[r].value = v
  BY <1>1, <1>2
<1>4. ASSUME NEW s \in Readers, reply'[s].some
      PROVE  \E i \in DOMAIN history' : reply'[s].value = history'[i]
  <2>1. CASE s = r
    BY <1>2, <1>3, <1>4, <2>1
  <2>2. CASE s # r
    <3>1. reply'[s] = reply[s]
      BY <1>1, <1>2, <2>2
    <3> QED
      BY <1>2, <1>4, <3>1 DEF ReportedWasRecorded
  <2> QED
    BY <2>1, <2>2
<1> QED
  BY <1>4 DEF ReportedWasRecorded

(* When calls exclude each other, what percentile_ms returns of a tracker  *)
(* with samples is one of the intervals recorded.  Of the daemon as main   *)
(* wires it this is false; exclusion is all that is missing.               *)
THEOREM ExclusiveRecorded == Exclusive => (Spec => []ReportedWasRecorded)
<1> SUFFICES ASSUME Exclusive PROVE Spec => []ReportedWasRecorded
  OBVIOUS
<1>1. Init => ReportedWasRecorded
  BY DEF Init, NoReply, ReportedWasRecorded
<1>2. XInv /\ [Next]_vars => XInv'
  BY NextXInv
<1>3. XInv /\ ReportedWasRecorded /\ [Next]_vars => ReportedWasRecorded'
  <2> SUFFICES ASSUME XInv, ReportedWasRecorded, [Next]_vars PROVE ReportedWasRecorded'
    OBVIOUS
  <2>1. IInv /\ KeptIsLast
    BY KeptFacts DEF XInv, TInv
  <2>2. CASE Record
    BY <2>1, <2>2, StillRecorded, CadenceAssumption DEF Record
  <2>3. ASSUME NEW r \in Readers, NoSamples(r) PROVE ReportedWasRecorded'
    BY <2>3, AnswerWasRecorded DEF NoSamples
  <2>4. ASSUME NEW r \in Readers, Return(r) PROVE ReportedWasRecorded'
    <3> DEFINE k == Index(Percentile(r), count)
    <3>1. k \in Places(count)
      BY <2>4, IndexedIsEntry DEF XInv
    <3> HIDE DEF k
    <3>2. PICK q \in Bijection(Places(count), 1 .. count) :
            \A i \in Places(count) : sorted_cache[i] \in Int /\ sorted_cache[i] = Kept[q[i]]
      BY <2>4, CopyIsKept, Zenon
    <3>3. q[k] \in 1 .. count /\ sorted_cache[k] = Kept[q[k]]
      <4>1. q \in [Places(count) -> 1 .. count]
        BY Fun_BijectionProperties
      <4> QED
        BY <3>1, <3>2, <4>1
    <3>4. Len(history) - count + q[k] \in 1 .. Len(history)
      BY <2>1, <3>3 DEF KeptIsLast
    <3>5. sorted_cache[k] = history[Len(history) - count + q[k]]
      BY <2>1, <3>3 DEF KeptIsLast
    <3>6. DOMAIN history = 1 .. Len(history)
      BY <2>1 DEF IInv, RingType
    <3>7. \E i \in DOMAIN history : sorted_cache[k] = history[i]
      BY <3>4, <3>5, <3>6, Zenon
    <3> QED
      BY <2>4, <3>7, AnswerWasRecorded DEF Return, k
  <2>5. CASE UNCHANGED <<history, reply>>
    BY <2>5 DEF ReportedWasRecorded
  <2>6. ASSUME NEW r \in Readers, percentile_ms(r) \/ Copy(r) \/ Sort(r) \/ Mark(r)
        PROVE  UNCHANGED <<history, reply>>
    BY <2>6 DEF percentile_ms, Copy, Sort, Mark, ring
  <2>7. CASE UNCHANGED vars
    BY <2>5, <2>7 DEF vars
  <2> QED
    BY <2>2, <2>3, <2>4, <2>5, <2>6, <2>7 DEF Next
<1> QED
  BY <1>1, <1>2, <1>3, InitXInv, PTL DEF Spec
=============================================================================
