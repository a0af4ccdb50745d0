--------------------------- MODULE ServiceProofs ----------------------------
(* Proofs about the services of the device: error log, sleep timer, status  *)
(* task, the link to the access point, the settings and the web server,     *)
(* each for every value of its constants.                                   *)
EXTENDS ErrorLog, SleepManager, StatusTask, WifiManager, Settings, WebServer,
        FiniteSetTheorems, SequenceTheorems, TLAPS

-----------------------------------------------------------------------------
(* The error log, for any set of tasks, any size of the ring and any number *)
(* of calls.                                                                *)

(* The inductive invariant: with the types, the count never exceeds the     *)
(* ring.  A count loaded into a register needs no invariant of its own: it  *)
(* was compared with the size before the increment that uses it.            *)
IInv == TypeOK /\ NeverOutOfRange

(* A remainder is an index of the ring.                                     *)
LEMMA RemainderInRing ==
  ASSUME NEW n \in Nat
  PROVE  n % Size \in Ring
  BY LogAssumption DEF Ring

(* The initial state satisfies the invariant.                               *)
LEMMA InitInvariant == Init => IInv
  <1> SUFFICES ASSUME Init PROVE IInv
    OBVIOUS
  <1>1. 0 \in Ring /\ 0 \in Calls /\ 0 \in 0..MaxExports /\ 0 <= Size
    BY LogAssumption DEF Ring, Calls
  <1> QED BY <1>1 DEF Init, IInv, TypeOK, NeverOutOfRange

(* An entry that error_log_get computes lies inside the array: the          *)
(* subtraction cannot make the operand of C's % negative.                   *)
LEMMA ActualInRing ==
  ASSUME TypeOK, NeverOutOfRange, NEW i \in Nat
  PROVE  Actual(i) \in Ring
  <1>1. ((head + i + Size) - count) \in Nat
    BY LogAssumption DEF TypeOK, NeverOutOfRange, Ring
  <1> QED BY <1>1, RemainderInRing DEF Actual

(* Every step of a writer preserves the invariant.                          *)
LEMMA WriteInvariant ==
  ASSUME IInv, NEW w \in Writers, Write(w)
  PROVE  IInv'
  <1> USE DEF IInv, TypeOK, NeverOutOfRange, Step
  <1>1. CASE AddBegin(w)
    <2>1. calls + 1 \in Calls
      BY <1>1, LogAssumption DEF AddBegin, Calls
    <2> QED BY <1>1, <2>1 DEF AddBegin
  <1>2. CASE WriteMeta(w)
    BY <1>2 DEF WriteMeta
  <1>3. CASE WriteMessage(w)
    BY <1>3 DEF WriteMessage
  <1>4. CASE LoadHead(w)
    <2>1. head \in Nat
      BY LogAssumption DEF Ring
    <2> QED BY <1>4, <2>1 DEF LoadHead
  <1>5. CASE StoreHead(w)
    <2>1. (reg[w] + 1) % Size \in Ring
      BY RemainderInRing
    <2> QED BY <1>5, <2>1 DEF StoreHead
  <1>6. CASE LoadCount(w)
    BY <1>6 DEF LoadCount
  <1>7. CASE StoreCount(w)
    <2>1. count' \in Nat /\ count' <= Size
      BY <1>7, LogAssumption DEF StoreCount
    <2> QED BY <1>7, <2>1 DEF StoreCount
  <1> QED BY <1>1, <1>2, <1>3, <1>4, <1>5, <1>6, <1>7 DEF Write

(* Every step preserves the invariant.                                      *)
LEMMA NextInvariant == IInv /\ [Next]_vars => IInv'
  <1> SUFFICES ASSUME IInv, [Next]_vars PROVE IInv'
    OBVIOUS
  <1> USE DEF IInv, TypeOK, NeverOutOfRange, logVars
  <1>1. ASSUME NEW w \in Writers, Write(w)
        PROVE  IInv'
    BY <1>1, WriteInvariant
  <1>2. CASE ExportBegin
    <2>1. exports + 1 \in 0..MaxExports
      BY <1>2, LogAssumption DEF ExportBegin
    <2> QED BY <1>2, <2>1 DEF ExportBegin
  <1>3. CASE ExportEntry
    <2>1. EntryAt(Len(export)) \in [meta : Calls, message : Calls]
      BY ActualInRing DEF EntryAt
    <2>2. export' \in Seq([meta : Calls, message : Calls])
      BY <1>3, <2>1 DEF ExportEntry
    <2> QED BY <1>3, <2>2 DEF ExportEntry
  <1>4. CASE ExportEnd
    BY <1>4 DEF ExportEnd
  <1>5. CASE UNCHANGED vars
    BY <1>5 DEF vars
  <1> QED BY <1>1, <1>2, <1>3, <1>4, <1>5 DEF Next

(* The state keeps its shape; in particular the head stays an index of the  *)
(* array (error_log.c:40).                                                  *)
THEOREM TypeCorrect == Spec => []TypeOK
  <1>1. IInv => TypeOK
    BY DEF IInv
  <1> QED BY InitInvariant, NextInvariant, <1>1, PTL DEF Spec

(* Whatever the interleaving of the tasks that log and of the web server,   *)
(* the count never exceeds the ring, so that error_log_get never reads      *)
(* outside s_entries (error_log.c:39-40, 60).                               *)
THEOREM InRange == Spec => []NeverOutOfRange
  <1>1. IInv => NeverOutOfRange
    BY DEF IInv
  <1> QED BY InitInvariant, NextInvariant, <1>1, PTL DEF Spec
-----------------------------------------------------------------------------
(* One task that adds.  What follows holds for any ring and any number of   *)
(* calls, and needs the single writer: racing ones may lose an entry.       *)
OneWriter == \E w \in Writers : Writers = {w}

Whole(e) == [meta |-> e, message |-> e]

(* The calls whose entry the head has passed.                               *)
Passed(w) ==
  IF pc[w] \in {"meta", "message", "loadHead", "storeHead"} THEN calls - 1 ELSE calls

(* Those that have stored the count, too.                                   *)
CountedBy(w) == IF pc[w] = "idle" THEN calls ELSE calls - 1

(* How many entries behind the head are intact: the slot at the head, once  *)
(* it is being filled, no longer belongs to the oldest of a full ring.      *)
Room(w) == IF pc[w] \in {"message", "loadHead", "storeHead"} THEN Size - 1 ELSE Size
KeptBy(w) == IF Passed(w) < Room(w) THEN Passed(w) ELSE Room(w)

(* The k-th slot behind the head.                                           *)
Behind(k) == IF k <= head THEN head - k ELSE (head + Size) - k

(* What the registers, the entry being written and the entries behind the   *)
(* head hold, and what an undisturbed export has copied.                    *)
WriterHolds(w) ==
  /\ calls = 0 => pc[w] = "idle"
  /\ count = IF CountedBy(w) < Size THEN CountedBy(w) ELSE Size
  /\ pc[w] # "idle" => call[w] = calls
  /\ pc[w] \in {"meta", "message", "loadHead", "storeHead"} => slot[w] = head
  /\ pc[w] = "storeHead" => reg[w] = head
  /\ pc[w] = "storeCount" => reg[w] = count
SlotHolds(w) ==
  /\ pc[w] = "message" => entries[head].meta = calls
  /\ pc[w] \in {"loadHead", "storeHead"} => entries[head] = Whole(calls)
RingHolds(w) ==
  \A k \in 1..KeptBy(w) : entries[Behind(k)] = Whole((Passed(w) - k) + 1)
ExportHolds(w) ==
  calm /\ rpc = "export" =>
    /\ pc[w] = "idle" /\ Len(export) <= count
    /\ \A i \in DOMAIN export : export[i] = Whole((calls - count) + i)
AloneInv(w) == IInv /\ WriterHolds(w) /\ SlotHolds(w) /\ RingHolds(w) /\ ExportHolds(w)

(* The remainders that occur need one subtraction at most.                  *)
LEMMA SmallRemainder ==
  ASSUME NEW n \in Nat, n < 2 * Size
  PROVE  n % Size = IF n < Size THEN n ELSE n - Size
  <1>1. CASE n < Size
    BY <1>1, LogAssumption
  <1>2. CASE n >= Size
    BY <1>2, LogAssumption
  <1> QED BY <1>1, <1>2, LogAssumption

(* A slot behind the head is in the ring, and is not the head unless the    *)
(* whole ring is counted.                                                   *)
LEMMA BehindInRing ==
  ASSUME TypeOK, NEW k \in 1..Size
  PROVE  Behind(k) \in Ring /\ (k < Size => Behind(k) # head)
  BY LogAssumption DEF Behind, TypeOK, Ring

(* The invariant of a lone writer holds for the empty log.                  *)
LEMMA AloneInit ==
  ASSUME NEW w \in Writers, Init
  PROVE  AloneInv(w)
  <1>1. IInv
    BY InitInvariant
  <1>2. WriterHolds(w)
    BY LogAssumption DEF Init, WriterHolds, CountedBy
  <1>3. SlotHolds(w) /\ RingHolds(w) /\ ExportHolds(w)
    BY LogAssumption DEF Init, SlotHolds, RingHolds, ExportHolds, KeptBy, Passed, Room
  <1> QED BY <1>1, <1>2, <1>3 DEF AloneInv

(* A step of error_log_add.                                                 *)
LEMMA AloneWrite ==
  ASSUME NEW w \in Writers, Writers = {w}, AloneInv(w), Write(w)
  PROVE  AloneInv(w)'
  <1> USE DEF AloneInv
  <1>0. IInv'
    BY WriteInvariant
  <1>s. TypeOK /\ TypeOK'
    BY <1>0 DEF IInv
  <1>t. calls \in Nat /\ head \in Nat /\ head < Size /\ count \in Nat /\ Size \in Nat
        /\ Size > 0
    BY <1>s, LogAssumption DEF TypeOK, Calls, Ring
  <1>e. ExportHolds(w)'
    BY DEF ExportHolds, Write, AddBegin, WriteMeta, WriteMessage, LoadHead, StoreHead,
           LoadCount, StoreCount, Step
  <1>1. CASE AddBegin(w)
    <2>1. pc[w] = "idle" /\ pc'[w] = "meta" /\ calls' = calls + 1
          /\ call'[w] = calls + 1 /\ slot'[w] = head
          /\ UNCHANGED <<entries, head, count, reg>>
      BY <1>1, <1>s DEF AddBegin, Step, TypeOK
    <2>2. WriterHolds(w)' /\ SlotHolds(w)'
      BY <2>1, <1>t DEF WriterHolds, SlotHolds, CountedBy
    <2>3. Passed(w)' = Passed(w) /\ KeptBy(w)' = KeptBy(w)
      BY <2>1, <1>t DEF Passed, KeptBy, Room
    <2>4. RingHolds(w)'
      BY <2>1, <2>3 DEF RingHolds, Behind
    <2> QED BY <1>0, <1>e, <2>2, <2>4
  <1>2. CASE WriteMeta(w)
    <2>1. pc[w] = "meta" /\ pc'[w] = "message" /\ slot[w] = head /\ call[w] = calls
          /\ entries' = [entries EXCEPT ![head].meta = calls]
          /\ UNCHANGED <<head, count, call, slot, reg, calls>>
      BY <1>2, <1>s, <1>t DEF WriteMeta, Step, TypeOK, WriterHolds
    <2>2. WriterHolds(w)'
      BY <2>1, <1>t DEF WriterHolds, CountedBy
    <2>3. SlotHolds(w)'
      BY <2>1, <1>s, <1>t DEF SlotHolds, TypeOK
    <2>4. Passed(w)' = Passed(w) /\ KeptBy(w)' <= KeptBy(w) /\ KeptBy(w)' < Size
          /\ KeptBy(w) \in Nat /\ KeptBy(w)' \in Nat /\ KeptBy(w) <= Size
      BY <2>1, <1>t DEF Passed, KeptBy, Room, WriterHolds
    <2>5. RingHolds(w)'
      <3> SUFFICES ASSUME NEW k \in 1..KeptBy(w)'
                   PROVE  entries'[Behind(k)'] = Whole((Passed(w)' - k) + 1)
        BY DEF RingHolds
      <3>1. k \in 1..KeptBy(w) /\ k \in 1..Size /\ k < Size
        BY <2>4, <1>t
      <3>2. Behind(k) \in Ring /\ Behind(k) # head /\ Behind(k)' = Behind(k)
        BY <3>1, <2>1, <1>s, BehindInRing DEF Behind
      <3>3. entries'[Behind(k)] = entries[Behind(k)]
        BY <3>2, <2>1, <1>s, <1>t DEF TypeOK
      <3> QED BY <3>1, <3>2, <3>3, <2>4 DEF RingHolds
    <2> QED BY <1>0, <1>e, <2>2, <2>3, <2>5
  <1>3. CASE WriteMessage(w)
    <2>1. pc[w] = "message" /\ pc'[w] = "loadHead" /\ slot[w] = head /\ call[w] = calls
          /\ entries' = [entries EXCEPT ![head].message = calls]
          /\ entries[head].meta = calls
          /\ UNCHANGED <<head, count, call, slot, reg, calls>>
      BY <1>3, <1>s, <1>t DEF WriteMessage, Step, TypeOK, WriterHolds, SlotHolds
    <2>2. WriterHolds(w)'
      BY <2>1, <1>t DEF WriterHolds, CountedBy
    <2>3. SlotHolds(w)'
      BY <2>1, <1>s, <1>t DEF SlotHolds, TypeOK, Whole
    <2>4. Passed(w)' = Passed(w) /\ KeptBy(w)' = KeptBy(w) /\ KeptBy(w) < Size /\ KeptBy(w) \in Nat
      BY <2>1, <1>t DEF Passed, KeptBy, Room, WriterHolds
    <2>5. RingHolds(w)'
      <3> SUFFICES ASSUME NEW k \in 1..KeptBy(w)'
                   PROVE  entries'[Behind(k)'] = Whole((Passed(w)' - k) + 1)
        BY DEF RingHolds
      <3>1. k \in 1..KeptBy(w) /\ k \in 1..Size /\ k < Size
        BY <2>4, <1>t
      <3>2. Behind(k) \in Ring /\ Behind(k) # head /\ Behind(k)' = Behind(k)
        BY <3>1, <2>1, <1>s, BehindInRing DEF Behind
      <3>3. entries'[Behind(k)] = entries[Behind(k)]
        BY <3>2, <2>1, <1>s, <1>t DEF TypeOK
      <3> QED BY <3>1, <3>2, <3>3, <2>4 DEF RingHolds
    <2> QED BY <1>0, <1>e, <2>2, <2>3, <2>5
  <1>4. CASE LoadHead(w)
    <2>1. pc[w] = "loadHead" /\ pc'[w] = "storeHead" /\ reg'[w] = head
          /\ UNCHANGED <<entries, head, count, call, slot, calls>>
      BY <1>4, <1>s, <1>t DEF LoadHead, Step, TypeOK
    <2>2. WriterHolds(w)' /\ SlotHolds(w)'
      BY <2>1, <1>t DEF WriterHolds, SlotHolds, CountedBy
    <2>3. Passed(w)' = Passed(w) /\ KeptBy(w)' = KeptBy(w)
      BY <2>1, <1>t DEF Passed, KeptBy, Room
    <2>4. RingHolds(w)'
      BY <2>1, <2>3 DEF RingHolds, Behind
    <2> QED BY <1>0, <1>e, <2>2, <2>4
  <1>5. CASE StoreHead(w)
    <2>1. pc[w] = "storeHead" /\ pc'[w] = "loadCount" /\ reg[w] = head
          /\ head' = (head + 1) % Size /\ entries[head] = Whole(calls)
          /\ UNCHANGED <<entries, count, call, slot, reg, calls>>
      BY <1>5, <1>s, <1>t DEF StoreHead, Step, TypeOK, WriterHolds, SlotHolds
    <2>2. head' = IF head + 1 < Size THEN head + 1 ELSE 0
      BY <2>1, <1>t, SmallRemainder
    <2>3. WriterHolds(w)' /\ SlotHolds(w)'
      BY <2>1, <1>t DEF WriterHolds, SlotHolds, CountedBy
    <2>4. Passed(w)' = Passed(w) + 1 /\ KeptBy(w)' = KeptBy(w) + 1 /\ KeptBy(w) \in Nat
          /\ KeptBy(w) < Size /\ Passed(w) = calls - 1
      BY <2>1, <1>t DEF Passed, KeptBy, Room, WriterHolds
    <2>5. RingHolds(w)'
      <3> SUFFICES ASSUME NEW k \in 1..KeptBy(w)'
                   PROVE  entries'[Behind(k)'] = Whole((Passed(w)' - k) + 1)
        BY DEF RingHolds
      <3>1. CASE k = 1
        <4>1. Behind(k)' = head
          BY <3>1, <2>2, <1>t DEF Behind
        <4>2. (Passed(w)' - k) + 1 = calls
          BY <3>1, <2>4, <1>t
        <4> QED BY <4>1, <4>2, <2>1
      <3>2. CASE k > 1
        <4>1. k - 1 \in 1..KeptBy(w) /\ k \in Nat
          BY <3>2, <2>4
        <4>2. Behind(k)' = Behind(k - 1)
          BY <3>2, <4>1, <2>2, <2>4, <1>t DEF Behind
        <4>3. (Passed(w)' - k) + 1 = (Passed(w) - (k - 1)) + 1
          BY <2>4, <4>1, <1>t
        <4> QED BY <4>1, <4>2, <4>3, <2>1 DEF RingHolds
      <3> QED BY <3>1, <3>2, <2>4
    <2> QED BY <1>0, <1>e, <2>3, <2>5
  <1>6. CASE LoadCount(w)
    <2>1. pc[w] = "loadCount" /\ pc'[w] = "storeCount" /\ reg'[w] = count
          /\ UNCHANGED <<entries, head, count, call, slot, calls>>
      BY <1>6, <1>s, <1>t DEF LoadCount, Step, TypeOK
    <2>2. WriterHolds(w)' /\ SlotHolds(w)'
      BY <2>1, <1>t DEF WriterHolds, SlotHolds, CountedBy
    <2>3. Passed(w)' = Passed(w) /\ KeptBy(w)' = KeptBy(w)
      BY <2>1, <1>t DEF Passed, KeptBy, Room
    <2>4. RingHolds(w)'
      BY <2>1, <2>3 DEF RingHolds, Behind
    <2> QED BY <1>0, <1>e, <2>2, <2>4
  <1>7. CASE StoreCount(w)
    <2>1. pc[w] = "storeCount" /\ pc'[w] = "idle" /\ reg[w] = count
          /\ count' = (IF count < Size THEN count + 1 ELSE count)
          /\ UNCHANGED <<entries, head, call, slot, reg, calls>>
      BY <1>7, <1>s, <1>t DEF StoreCount, Step, TypeOK, WriterHolds
    <2>2. WriterHolds(w)' /\ SlotHolds(w)'
      BY <2>1, <1>t DEF WriterHolds, SlotHolds, CountedBy
    <2>3. Passed(w)' = Passed(w) /\ KeptBy(w)' = KeptBy(w)
      BY <2>1, <1>t DEF Passed, KeptBy, Room
    <2>4. RingHolds(w)'
      BY <2>1, <2>3 DEF RingHolds, Behind
    <2> QED BY <1>0, <1>e, <2>2, <2>4
  <1> QED BY <1>1, <1>2, <1>3, <1>4, <1>5, <1>6, <1>7 DEF Write

(* Every step preserves what holds of one writer.                           *)
LEMMA AloneNext ==
  ASSUME NEW w \in Writers, Writers = {w}, AloneInv(w), [Next]_vars
  PROVE  AloneInv(w)'
  <1> USE DEF AloneInv
  <1>0. IInv'
    BY NextInvariant
  <1>t. TypeOK /\ calls \in Nat /\ head \in Nat /\ head < Size /\ count \in Nat
        /\ Size \in Nat /\ Size > 0
    BY LogAssumption DEF IInv, TypeOK, Calls, Ring
  <1>1. ASSUME NEW v \in Writers, Write(v)
        PROVE  AloneInv(w)'
    <2>1. Write(w)
      BY <1>1
    <2> QED BY <2>1, AloneWrite
  <1>2. ASSUME UNCHANGED logVars
        PROVE  WriterHolds(w)' /\ SlotHolds(w)' /\ RingHolds(w)'
    BY <1>2 DEF logVars, WriterHolds, SlotHolds, RingHolds, CountedBy, Passed, KeptBy,
                Room, Behind
  <1>3. CASE ExportBegin
    <2>1. ExportHolds(w)'
      BY <1>3, <1>t DEF ExportBegin, ExportHolds, logVars
    <2> QED BY <1>0, <1>2, <1>3, <2>1 DEF ExportBegin
  <1>4. CASE ExportEntry
    <2>1. SUFFICES ASSUME calm', rpc' = "export"
                   PROVE  ExportHolds(w)'
      BY <1>0, <1>2, <1>4 DEF ExportEntry, ExportHolds
    <2>2. calm /\ rpc = "export" /\ pc[w] = "idle" /\ Len(export) < count
          /\ Len(export) \in Nat /\ UNCHANGED <<count, calls, pc, calm, rpc>>
      BY <1>4, <1>t, <2>1 DEF ExportEntry, ExportHolds, logVars, TypeOK
    <2>3. count = (IF calls < Size THEN calls ELSE Size) /\ KeptBy(w) = count
          /\ Passed(w) = calls
      BY <2>2, <1>t DEF WriterHolds, CountedBy, KeptBy, Passed, Room
    <2> DEFINE k == count - Len(export)
    <2>4. k \in 1..KeptBy(w) /\ k \in 1..Size /\ k \in Nat
      BY <2>2, <2>3, <1>t
    <2>5. Actual(Len(export)) = Behind(k)
      <3>1. ((head + Len(export) + Size) - count) \in Nat
            /\ ((head + Len(export) + Size) - count) < 2 * Size
        BY <2>2, <2>3, <1>t
      <3>2. Actual(Len(export)) = IF (head + Len(export) + Size) - count < Size
                                    THEN (head + Len(export) + Size) - count
                                    ELSE ((head + Len(export) + Size) - count) - Size
        BY <3>1, SmallRemainder DEF Actual
      <3> QED BY <3>2, <2>2, <2>3, <1>t DEF Behind
    <2>6. EntryAt(Len(export)) = Whole((calls - count) + (Len(export) + 1))
      <3>1. entries[Behind(k)] = Whole((Passed(w) - k) + 1)
        BY <2>4 DEF RingHolds
      <3>2. (Passed(w) - k) + 1 = (calls - count) + (Len(export) + 1)
        BY <2>2, <2>3, <1>t
      <3> QED BY <3>1, <3>2, <2>5 DEF EntryAt
    <2>7. export' = Append(export, EntryAt(Len(export)))
      BY <1>4 DEF ExportEntry
    <2>8. export \in Seq([meta : Calls, message : Calls])
          /\ EntryAt(Len(export)) \in [meta : Calls, message : Calls]
      BY <1>t, ActualInRing, <2>2 DEF IInv, TypeOK, EntryAt
    <2>9. /\ Len(export') = Len(export) + 1
          /\ DOMAIN export' = 1..(Len(export) + 1)
          /\ \A i \in 1..Len(export) : export'[i] = export[i]
          /\ export'[Len(export) + 1] = EntryAt(Len(export))
      BY <2>7, <2>8
    <2>10. \A i \in 1..Len(export) : export[i] = Whole((calls - count) + i)
      BY <2>2, <2>8 DEF ExportHolds
    <2>11. \A i \in DOMAIN export' : export'[i] = Whole((calls - count) + i)
      <3> SUFFICES ASSUME NEW i \in 1..(Len(export) + 1)
                   PROVE  export'[i] = Whole((calls - count) + i)
        BY <2>9
      <3>1. CASE i = Len(export) + 1
        <4>1. export'[Len(export) + 1] = Whole((calls - count) + (Len(export) + 1))
          BY <2>6, <2>9
        <4> QED BY <4>1, <3>1
      <3>2. CASE i \in 1..Len(export)
        BY <3>2, <2>9, <2>10
      <3> QED BY <3>1, <3>2, <2>2
    <2> QED BY <2>2, <2>9, <2>11, <1>t DEF ExportHolds, Whole
  <1>5. CASE ExportEnd
    <2>1. ExportHolds(w)'
      BY <1>5 DEF ExportEnd, ExportHolds
    <2> QED BY <1>0, <1>2, <1>5, <2>1 DEF ExportEnd
  <1>6. CASE UNCHANGED vars
    <2>1. ExportHolds(w)'
      BY <1>6 DEF vars, ExportHolds
    <2> QED BY <1>0, <1>2, <1>6, <2>1 DEF vars, logVars
  <1> QED BY <1>1, <1>3, <1>4, <1>5, <1>6 DEF Next

(* What one writer's invariant says of a finished export.                   *)
LEMMA AloneExport ==
  ASSUME NEW w \in Writers, AloneInv(w)
  PROVE  CalmExportExact
  <1> SUFFICES ASSUME calm, Len(export) >= count, rpc = "export"
               PROVE  /\ Len(export) = IF calls < Size THEN calls ELSE Size
                      /\ \A i \in DOMAIN export :
                           export[i] = Whole((calls - Len(export)) + i)
    BY DEF CalmExportExact, Whole
  <1>1. pc[w] = "idle" /\ Len(export) <= count
        /\ \A i \in DOMAIN export : export[i] = Whole((calls - count) + i)
    BY DEF AloneInv, ExportHolds
  <1>2. Len(export) = count
    BY <1>1 DEF AloneInv, IInv, TypeOK
  <1>3. count = IF calls < Size THEN calls ELSE Size
    BY <1>1 DEF AloneInv, WriterHolds, CountedBy
  <1> QED BY <1>1, <1>2, <1>3

(* With one task adding, an export that it did not disturb returns the      *)
(* latest entries, oldest first and whole (error_log.c:57-87).              *)
THEOREM ExportExact == OneWriter => (Spec => []CalmExportExact)
  <1> SUFFICES ASSUME NEW w \in Writers, Writers = {w}
               PROVE  Spec => []CalmExportExact
    BY DEF OneWriter
  <1>1. Init => AloneInv(w)
    BY AloneInit
  <1>2. AloneInv(w) /\ [Next]_vars => AloneInv(w)'
    BY AloneNext
  <1>3. AloneInv(w) => CalmExportExact
    BY AloneExport
  <1> QED BY <1>1, <1>2, <1>3, PTL DEF Spec

(* The abstract log, as one writer's progress determines it.                *)
Log(w) == [i \in 1..KeptBy(w) |-> Whole((Passed(w) - KeptBy(w)) + i)]

(* The entries that error_log_get can return are this log.                  *)
LEMMA ViewIsLog ==
  ASSUME NEW w \in Writers, Writers = {w}, AloneInv(w)
  PROVE  View = Log(w)
  <1>1. TypeOK /\ WriterHolds(w) /\ RingHolds(w)
    BY DEF AloneInv, IInv
  <1>2. calls \in Nat /\ head \in Nat /\ head < Size /\ count \in Nat /\ Size \in Nat
        /\ Size > 0
    BY <1>1, LogAssumption DEF TypeOK, Calls, Ring
  <1> DEFINE a == Cardinality({v \in Writers : Added(v)})
             o == Cardinality({v \in Writers : Overwriting(v)})
  <1>3. a = IF Added(w) THEN 1 ELSE 0
    <2>1. CASE Added(w)
      <3>1. {v \in Writers : Added(v)} = {w}
        BY <2>1
      <3> QED BY <3>1, <2>1, FS_Singleton
    <2>2. CASE ~Added(w)
      <3>1. {v \in Writers : Added(v)} = {}
        BY <2>2
      <3> QED BY <3>1, <2>2, FS_EmptySet
    <2> QED BY <2>1, <2>2
  <1>4. o = IF Overwriting(w) THEN 1 ELSE 0
    <2>1. CASE Overwriting(w)
      <3>1. {v \in Writers : Overwriting(v)} = {w}
        BY <2>1
      <3> QED BY <3>1, <2>1, FS_Singleton
    <2>2. CASE ~Overwriting(w)
      <3>1. {v \in Writers : Overwriting(v)} = {}
        BY <2>2
      <3> QED BY <3>1, <2>2, FS_EmptySet
    <2> QED BY <2>1, <2>2
  <1>5. stored = (count + a) - o /\ oldest = (head + (Size - (count + a))) + o
    <2>1. stored = (count + a) - o
      BY DEF stored
    <2>2. oldest = (head + (Size - (count + a))) + o
      BY DEF oldest
    <2> QED BY <2>1, <2>2
  <1> HIDE DEF a, o
  <1>6. (count + a) - o = KeptBy(w) /\ KeptBy(w) \in Nat /\ KeptBy(w) <= Size
    BY <1>1, <1>2, <1>3, <1>4
       DEF Added, Overwriting, KeptBy, Passed, Room, WriterHolds, CountedBy, TypeOK
  <1>7. stored = KeptBy(w) /\ oldest = (head + Size) - KeptBy(w)
    BY <1>2, <1>3, <1>4, <1>5, <1>6
  <1>8. ASSUME NEW i \in 1..KeptBy(w)
        PROVE  entries[(oldest + i - 1) % Size] = Whole((Passed(w) - KeptBy(w)) + i)
    <2> DEFINE k == (KeptBy(w) - i) + 1
    <2>1. k \in 1..KeptBy(w) /\ k \in Nat /\ k <= Size /\ i \in Nat
      BY <1>2, <1>6
    <2>2. oldest + i - 1 = (head + Size) - k
      BY <1>2, <1>6, <1>7, <2>1
    <2>3. ((head + Size) - k) % Size = Behind(k)
      BY <1>2, <2>1, SmallRemainder DEF Behind
    <2>4. (Passed(w) - k) + 1 = (Passed(w) - KeptBy(w)) + i
      <3>1. Passed(w) \in Int
        BY <1>2 DEF Passed
      <3> QED BY <3>1, <1>6, <2>1
    <2>5. entries[Behind(k)] = Whole((Passed(w) - k) + 1)
      BY <1>1, <2>1 DEF RingHolds
    <2> QED BY <2>2, <2>3, <2>4, <2>5
  <1> QED BY <1>7, <1>8 DEF View, Log

(* A function on 1..n is a sequence of that length.                         *)
LEMMA FunctionIsSeq ==
  ASSUME NEW S, NEW n \in Nat, NEW f \in [1..n -> S]
  PROVE  f \in Seq(S) /\ Len(f) = n
  <1>1. f \in UNION {[1..m -> S] : m \in Nat}
    OBVIOUS
  <1>2. f \in Seq(S)
    BY <1>1, SeqDef, Zenon
  <1>3. Len(f) \in Nat /\ DOMAIN f = 1..Len(f)
    BY <1>2, LenProperties
  <1>4. DOMAIN f = 1..n
    OBVIOUS
  <1> QED BY <1>2, <1>3, <1>4

(* Every step of one writer is a step of the abstract log, or none: filling *)
(* the slot of the oldest entry of a full ring forgets it, storing the head *)
(* adds the new one (error_log.c:27-41).                                    *)
LEMMA LogStep ==
  ASSUME NEW w \in Writers, Writers = {w}, AloneInv(w), AloneInv(w)', [Next]_vars
  PROVE  \/ Log(w)' = Log(w)
         \/ Len(Log(w)) = Size /\ Log(w)' = Tail(Log(w))
         \/ /\ Len(Log(w)) < Size /\ calls \in 1..MaxAdds
            /\ Log(w)' = Append(Log(w), Whole(calls))
  <1>1. TypeOK /\ WriterHolds(w)
    BY DEF AloneInv, IInv
  <1>2. calls \in Nat /\ count \in Nat /\ Size \in Nat /\ Size > 0
    BY <1>1, LogAssumption DEF TypeOK, Calls
  <1>3. KeptBy(w) \in Nat /\ Passed(w) \in Int /\ KeptBy(w) <= Size
    BY <1>1, <1>2 DEF KeptBy, Passed, Room, WriterHolds
  <1>4. Log(w) \in Seq([meta : Int, message : Int]) /\ Len(Log(w)) = KeptBy(w)
        /\ DOMAIN Log(w) = 1..KeptBy(w)
    <2>1. \A i \in 1..KeptBy(w) : Whole((Passed(w) - KeptBy(w)) + i) \in [meta : Int, message : Int]
      BY <1>3 DEF Whole
    <2>2. Log(w) \in [1..KeptBy(w) -> [meta : Int, message : Int]]
      BY <2>1 DEF Log
    <2>3. Log(w) \in Seq([meta : Int, message : Int]) /\ Len(Log(w)) = KeptBy(w)
      BY <2>2, <1>3, FunctionIsSeq
    <2> QED BY <2>2, <2>3
  <1>5. ASSUME Passed(w)' = Passed(w), KeptBy(w)' = KeptBy(w)
        PROVE  Log(w)' = Log(w)
    BY <1>5 DEF Log
  <1>6. CASE WriteMeta(w) /\ KeptBy(w)' # KeptBy(w)
    <2>1. pc[w] = "meta" /\ pc'[w] = "message" /\ calls' = calls
      BY <1>1, <1>6 DEF WriteMeta, Step, TypeOK
    <2>2. KeptBy(w) = Size /\ KeptBy(w)' = Size - 1 /\ Passed(w)' = Passed(w)
      BY <1>1, <1>2, <1>6, <2>1 DEF KeptBy, Passed, Room, WriterHolds
    <2>3. Log(w)' = Tail(Log(w))
      <3>1. Log(w)' = [i \in 1..(Size - 1) |-> Whole((Passed(w) - (Size - 1)) + i)]
        BY <2>2 DEF Log
      <3>2. Tail(Log(w)) = [i \in 1..(Size - 1) |-> Log(w)[i + 1]]
        <4>1. Log(w) # <<>>
          BY <1>2, <1>4, <2>2
        <4>2. /\ Tail(Log(w)) \in Seq([meta : Int, message : Int])
              /\ Len(Tail(Log(w))) = Size - 1
              /\ \A i \in 1..(Size - 1) : Tail(Log(w))[i] = Log(w)[i + 1]
          BY <4>1, <1>4, <2>2, HeadTailProperties
        <4>3. Tail(Log(w)) \in [1..(Size - 1) -> [meta : Int, message : Int]]
          BY <4>2, LenProperties
        <4> QED BY <4>2, <4>3
      <3>3. \A i \in 1..(Size - 1) : Log(w)[i + 1] = Whole((Passed(w) - (Size - 1)) + i)
        <4> SUFFICES ASSUME NEW i \in 1..(Size - 1)
                     PROVE  Log(w)[i + 1] = Whole((Passed(w) - (Size - 1)) + i)
          OBVIOUS
        <4>1. i + 1 \in 1..KeptBy(w)
          BY <1>2, <2>2
        <4>2. Log(w)[i + 1] = Whole((Passed(w) - KeptBy(w)) + (i + 1))
          BY <4>1 DEF Log
        <4>3. (Passed(w) - KeptBy(w)) + (i + 1) = (Passed(w) - (Size - 1)) + i
          BY <1>2, <1>3, <2>2
        <4> QED BY <4>2, <4>3
      <3> QED BY <3>1, <3>2, <3>3
    <2> QED BY <2>2, <2>3, <1>4
  <1>7. CASE StoreHead(w)
    <2>1. pc[w] = "storeHead" /\ pc'[w] = "loadCount" /\ calls' = calls
      BY <1>1, <1>7 DEF StoreHead, Step, TypeOK
    <2>2. KeptBy(w)' = KeptBy(w) + 1 /\ Passed(w)' = Passed(w) + 1 /\ KeptBy(w) < Size
          /\ Passed(w)' = calls /\ calls > 0
      BY <1>1, <1>2, <2>1 DEF KeptBy, Passed, Room, WriterHolds
    <2>3. Log(w)' = Append(Log(w), Whole(calls))
      <3>1. Log(w)' = [i \in 1..(KeptBy(w) + 1) |-> Whole((Passed(w) - KeptBy(w)) + i)]
        <4>1. (Passed(w)' - KeptBy(w)') = Passed(w) - KeptBy(w)
          BY <1>3, <2>2
        <4> QED BY <4>1, <2>2 DEF Log
      <3>2. Append(Log(w), Whole(calls)) =
              [i \in 1..(KeptBy(w) + 1) |-> IF i = KeptBy(w) + 1 THEN Whole(calls) ELSE Log(w)[i]]
        <4>1. Whole(calls) \in [meta : Int, message : Int]
          BY <1>2 DEF Whole
        <4>2. /\ Append(Log(w), Whole(calls)) \in Seq([meta : Int, message : Int])
              /\ Len(Append(Log(w), Whole(calls))) = KeptBy(w) + 1
              /\ \A i \in 1..KeptBy(w) : Append(Log(w), Whole(calls))[i] = Log(w)[i]
              /\ Append(Log(w), Whole(calls))[KeptBy(w) + 1] = Whole(calls)
          BY <4>1, <1>4, AppendProperties
        <4>3. Append(Log(w), Whole(calls)) \in [1..(KeptBy(w) + 1) -> [meta : Int, message : Int]]
          BY <4>2, LenProperties
        <4>4. ASSUME NEW i \in 1..(KeptBy(w) + 1)
              PROVE  Append(Log(w), Whole(calls))[i]
                       = IF i = KeptBy(w) + 1 THEN Whole(calls) ELSE Log(w)[i]
          <5>1. i = KeptBy(w) + 1 \/ i \in 1..KeptBy(w)
            BY <1>3
          <5>2. i \in 1..KeptBy(w) => i # KeptBy(w) + 1
            BY <1>3
          <5> QED BY <5>1, <5>2, <4>2
        <4> QED BY <4>3, <4>4
      <3>3. \A i \in 1..(KeptBy(w) + 1) :
              Whole((Passed(w) - KeptBy(w)) + i)
                = IF i = KeptBy(w) + 1 THEN Whole(calls) ELSE Log(w)[i]
        <4> SUFFICES ASSUME NEW i \in 1..(KeptBy(w) + 1)
                     PROVE  Whole((Passed(w) - KeptBy(w)) + i)
                              = IF i = KeptBy(w) + 1 THEN Whole(calls) ELSE Log(w)[i]
          OBVIOUS
        <4>1. CASE i = KeptBy(w) + 1
          <5>1. (Passed(w) - KeptBy(w)) + i = calls
            BY <1>3, <2>2, <4>1
          <5> QED BY <4>1, <5>1
        <4>2. CASE i \in 1..KeptBy(w)
          <5>1. i # KeptBy(w) + 1
            BY <1>3, <4>2
          <5> QED BY <4>2, <5>1 DEF Log
        <4> QED BY <4>1, <4>2, <1>3
      <3> QED BY <3>1, <3>2, <3>3
    <2>4. calls \in 1..MaxAdds
      BY <1>1, <1>2, <2>2 DEF TypeOK, Calls
    <2> QED BY <2>2, <2>3, <2>4, <1>4
  <1>8. CASE UNCHANGED <<pc, calls>>
    <2>1. Passed(w)' = Passed(w) /\ KeptBy(w)' = KeptBy(w)
      BY <1>8 DEF Passed, KeptBy, Room
    <2> QED BY <1>5, <2>1
  <1>9. CASE Write(w) /\ ~StoreHead(w)
    <2>1. Passed(w)' = Passed(w)
      BY <1>1, <1>2, <1>9
         DEF Write, AddBegin, WriteMeta, WriteMessage, LoadHead, LoadCount, StoreCount,
             Step, Passed, TypeOK
    <2>2. ~WriteMeta(w) => KeptBy(w)' = KeptBy(w)
      BY <1>1, <1>2, <1>9, <2>1
         DEF Write, AddBegin, WriteMessage, LoadHead, LoadCount, StoreCount,
             Step, KeptBy, Room, TypeOK
    <2> QED BY <1>5, <1>6, <2>1, <2>2
  <1>10. Write(w) \/ UNCHANGED <<pc, calls>>
    BY DEF Next, ExportBegin, ExportEntry, ExportEnd, logVars, vars
  <1> QED BY <1>7, <1>8, <1>9, <1>10

(* The same said of the entries that can be read.                           *)
LEMMA StepIsAbstract ==
  ASSUME NEW w \in Writers, Writers = {w}, AloneInv(w), AloneInv(w)', [Next]_vars,
         View = Log(w), (View = Log(w))'
  PROVE  [Abstract!Next]_View
  <1>1. CASE Log(w)' = Log(w)
    BY <1>1
  <1>2. CASE Len(Log(w)) = Size /\ Log(w)' = Tail(Log(w))
    BY <1>2 DEF Abstract!Next, Abstract!Forget
  <1>3. CASE /\ Len(Log(w)) < Size /\ calls \in 1..MaxAdds
             /\ Log(w)' = Append(Log(w), Whole(calls))
    <2>1. Whole(calls) \in {[meta |-> e, message |-> e] : e \in 1..MaxAdds}
      BY <1>3 DEF Whole
    <2>2. Abstract!Add(Whole(calls))
      BY <1>3 DEF Abstract!Add
    <2> QED BY <2>1, <2>2 DEF Abstract!Next
  <1> QED BY <1>1, <1>2, <1>3, LogStep

(* error_log_add, called by one task, keeps the promise of the header: the  *)
(* latest entries in the order of their addition, of which only the oldest  *)
(* is forgotten and only to make room (error_log.h, error_log.c:20-45).     *)
THEOREM LogRefined == OneWriter => (Spec => ImplementsBoundedLog)
  <1> SUFFICES ASSUME NEW w \in Writers, Writers = {w}
               PROVE  Spec => ImplementsBoundedLog
    BY DEF OneWriter
  <1>1. Init => AloneInv(w)
    BY AloneInit
  <1>2. AloneInv(w) /\ [Next]_vars => AloneInv(w)'
    BY AloneNext
  <1>3. AloneInv(w) => View = Log(w)
    BY ViewIsLog
  <1>4. Init => Abstract!Init
    <2> SUFFICES ASSUME Init PROVE View = <<>>
      BY DEF Abstract!Init
    <2>1. View = Log(w)
      BY <1>1, <1>3
    <2>2. KeptBy(w) = 0
      BY LogAssumption DEF Init, KeptBy, Passed, Room
    <2> QED BY <2>1, <2>2 DEF Log
  <1>5. AloneInv(w) /\ AloneInv(w)' /\ [Next]_vars /\ View = Log(w) /\ (View = Log(w))'
          => [Abstract!Next]_View
    BY StepIsAbstract
  <1> QED BY <1>1, <1>2, <1>3, <1>4, <1>5, PTL DEF Spec, ImplementsBoundedLog, Abstract!Spec

-----------------------------------------------------------------------------
(* The sleep timer, for any set of wakers and any number of presses.        *)

(* Nobody is half-way in a wake-up of a device that is asleep or about to   *)
(* be: a wake-up takes the idleness away, and time gives it back only when  *)
(* all are done.                                                            *)
CalmInv ==
  /\ idle => \A t \in Wakers : wakePc[t] = "rest"
  /\ napPc = "battery" => AllResting /\ ~asleep
  /\ asleep => AllResting

(* Of a device that is asleep, the effects of falling asleep that           *)
(* sleep_task is past have been carried out and not been undone.            *)
DarkInv ==
  /\ asleep /\ napPc # "dim" => ~lit
  /\ asleep /\ napPc \notin {"dim", "stop"} => ~drawing
  /\ asleep /\ napPc \notin {"dim", "stop", "hush"} => (hushed <=> HushInSleep)
  /\ asleep /\ napPc \notin {"dim", "stop", "hush", "save"} => saving
  /\ hushed => HushInSleep

(* A press released asleep is on its way to the main loop, and until it is  *)
(* judged there the device is still asleep or has only just woken.          *)
PressInv ==
  fromSleep /\ (judging \/ pressBit \/ (wasPressed /\ ~pressed)) => asleep \/ fresh

(* The types, apart: the facts, and where everybody is.                     *)
SleepFacts ==
  /\ asleep \in BOOLEAN /\ lit \in BOOLEAN /\ drawing \in BOOLEAN
  /\ hushed \in BOOLEAN /\ saving \in BOOLEAN
  /\ idle \in BOOLEAN /\ fresh \in BOOLEAN /\ active \in BOOLEAN
  /\ pressed \in BOOLEAN /\ wasPressed \in BOOLEAN
  /\ pressBit \in BOOLEAN /\ judging \in BOOLEAN /\ fromSleep \in BOOLEAN
  /\ off \in BOOLEAN
SleepPlaces ==
  /\ napPc \in {"poll", "battery", "dim", "stop", "hush", "save", "held"}
  /\ wakePc \in [Sleepers -> {"rest", "light", "draw", "unsave", "unhush"}]
  /\ presses \in 0..MaxPresses

LEMMA SleepTypes == SleepTypeOK <=> SleepFacts /\ SleepPlaces
  BY DEF SleepTypeOK, SleepFacts, SleepPlaces
LEMMA SleepTypesNext == SleepFacts' /\ SleepPlaces' => SleepTypeOK'
  BY DEF SleepTypeOK, SleepFacts, SleepPlaces

LEMMA SleepInitInv == SleepInit => SleepTypeOK /\ CalmInv /\ DarkInv /\ PressInv
  <1> SUFFICES ASSUME SleepInit PROVE SleepTypeOK /\ CalmInv /\ DarkInv /\ PressInv
    OBVIOUS
  <1>1. SleepFacts
    BY DEF SleepInit, SleepFacts
  <1>2. SleepPlaces
    BY HushAssumption DEF SleepInit, SleepPlaces
  <1>3. CalmInv
    BY DEF SleepInit, CalmInv, AllResting, Sleepers
  <1>4. DarkInv /\ PressInv
    BY DEF SleepInit, DarkInv, PressInv
  <1> QED BY <1>1, <1>2, <1>3, <1>4, SleepTypes

(* Every step keeps the types of the facts ...                              *)
LEMMA FactsKept == SleepFacts /\ [SleepNext]_sleepVars => SleepFacts'
  <1> SUFFICES ASSUME SleepFacts, [SleepNext]_sleepVars PROVE SleepFacts'
    OBVIOUS
  <1> USE DEF SleepFacts, screen, clocks, knobVars
  <1>1. ASSUME NEW t \in Sleepers, Restore(t) PROVE SleepFacts'
    <2>1. idle' = (idle /\ ~(t = "sleep" /\ wakePc[t] = "unhush"))
      BY <1>1 DEF Restore
    <2>2. idle' \in BOOLEAN
      BY <2>1
    <2>3. /\ asleep' = asleep /\ fresh' = fresh /\ active' = active /\ off' = off
          /\ pressed' = pressed /\ wasPressed' = wasPressed /\ pressBit' = pressBit
          /\ judging' = judging /\ fromSleep' = fromSleep
      BY <1>1 DEF Restore
    <2>4. /\ lit' = lit \/ lit' = TRUE
          /\ drawing' = drawing \/ drawing' = TRUE
          /\ saving' = saving \/ saving' = FALSE
          /\ hushed' = hushed \/ hushed' = (hushed /\ ~HushInSleep)
      BY <1>1 DEF Restore
    <2>5. hushed' \in BOOLEAN
      BY <2>4
    <2>6. lit' \in BOOLEAN /\ drawing' \in BOOLEAN /\ saving' \in BOOLEAN
      BY <2>4
    <2> QED BY <2>2, <2>3, <2>5, <2>6
  <1>2. ASSUME NEW recent \in BOOLEAN, Poll(recent) PROVE SleepFacts'
    <2>1. idle' = FALSE \/ idle' = idle
      BY <1>2 DEF Poll
    <2>2. /\ asleep' = asleep /\ fresh' = fresh /\ active' = active /\ off' = off
          /\ lit' = lit /\ drawing' = drawing /\ hushed' = hushed /\ saving' = saving
          /\ pressed' = pressed /\ wasPressed' = wasPressed /\ pressBit' = pressBit
          /\ judging' = judging /\ fromSleep' = fromSleep
      BY <1>2 DEF Poll
    <2>3. idle' \in BOOLEAN
      BY <2>1
    <2> QED BY <2>2, <2>3
  <1>3. ASSUME NEW full \in BOOLEAN, CheckBattery(full) PROVE SleepFacts'
    <2>1. (idle' = FALSE \/ idle' = idle) /\ (asleep' = TRUE \/ asleep' = asleep)
      BY <1>3 DEF CheckBattery
    <2>2. /\ fresh' = fresh /\ active' = active /\ off' = off
          /\ lit' = lit /\ drawing' = drawing /\ hushed' = hushed /\ saving' = saving
          /\ pressed' = pressed /\ wasPressed' = wasPressed /\ pressBit' = pressBit
          /\ judging' = judging /\ fromSleep' = fromSleep
      BY <1>3 DEF CheckBattery
    <2>3. idle' \in BOOLEAN /\ asleep' \in BOOLEAN
      BY <2>1
    <2> QED BY <2>2, <2>3
  <1>4. CASE FallAsleep
    <2>1. /\ lit' = FALSE \/ lit' = lit
          /\ drawing' = FALSE \/ drawing' = drawing
          /\ saving' = TRUE \/ saving' = saving
          /\ hushed' = hushed \/ hushed' = (hushed \/ HushInSleep)
      BY <1>4 DEF FallAsleep
    <2>2. hushed' \in BOOLEAN
      BY <2>1
    <2>3. /\ asleep' = asleep /\ idle' = idle /\ fresh' = fresh /\ active' = active
          /\ off' = off
          /\ pressed' = pressed /\ wasPressed' = wasPressed /\ pressBit' = pressBit
          /\ judging' = judging /\ fromSleep' = fromSleep
      BY <1>4 DEF FallAsleep
    <2>4. lit' \in BOOLEAN /\ drawing' \in BOOLEAN /\ saving' \in BOOLEAN
      BY <2>1
    <2> QED BY <2>2, <2>3, <2>4
  <1>5. CASE WakeOnRelease
    BY <1>5 DEF WakeOnRelease
  <1>6. CASE Press
    BY <1>6 DEF Press
  <1>7. CASE Release
    BY <1>7 DEF Release
  <1>8. CASE SampleButton
    BY <1>8 DEF SampleButton
  <1>9. CASE LongPress
    BY <1>9 DEF LongPress
  <1>10. CASE TakePress
    BY <1>10 DEF TakePress, ResetActivity
  <1>11. ASSUME NEW hides \in BOOLEAN, JudgePress(hides) PROVE SleepFacts'
    BY <1>11 DEF JudgePress
  <1>12. ASSUME NEW t \in Wakers, OtherActivity(t) PROVE SleepFacts'
    <2>1. /\ lit' = lit /\ drawing' = drawing /\ hushed' = hushed /\ saving' = saving
          /\ active' = active /\ off' = off
          /\ pressed' = pressed /\ wasPressed' = wasPressed /\ pressBit' = pressBit
          /\ judging' = judging /\ fromSleep' = fromSleep
      BY <1>12 DEF OtherActivity
    <2>2. asleep' \in BOOLEAN /\ idle' \in BOOLEAN /\ fresh' \in BOOLEAN
      BY <1>12 DEF OtherActivity, ResetActivity
    <2> QED BY <2>1, <2>2
  <1>13. CASE EndActivity
    <2>1. /\ lit' = lit /\ drawing' = drawing /\ hushed' = hushed /\ saving' = saving
          /\ asleep' = asleep /\ idle' = idle /\ fresh' = fresh /\ off' = off
          /\ pressed' = pressed /\ wasPressed' = wasPressed /\ pressBit' = pressBit
          /\ judging' = judging /\ fromSleep' = fromSleep
      BY <1>13 DEF EndActivity
    <2>2. active' = FALSE
      BY <1>13 DEF EndActivity
    <2>3. active' \in BOOLEAN
      BY <2>2
    <2> QED BY <2>1, <2>3
  <1>14. CASE Elapse
    BY <1>14 DEF Elapse
  <1>15. CASE Expire
    BY <1>15 DEF Expire
  <1>16. CASE UNCHANGED sleepVars
    BY <1>16 DEF sleepVars
  <1> QED BY <1>1, <1>2, <1>3, <1>4, <1>5, <1>6, <1>7, <1>8, <1>9, <1>10, <1>11, <1>12, <1>13,
             <1>14, <1>15, <1>16 DEF SleepNext

(* ... and those of the places.                                             *)
LEMMA PlacesKept == SleepPlaces /\ [SleepNext]_sleepVars => SleepPlaces'
  <1> SUFFICES ASSUME SleepPlaces, [SleepNext]_sleepVars PROVE SleepPlaces'
    OBVIOUS
  <1> USE WakersAssumption, HushAssumption DEF SleepPlaces, Sleepers, knobVars
  <1>1. ASSUME NEW t \in Sleepers, Restore(t) PROVE SleepPlaces'
    BY <1>1 DEF Restore
  <1>2. ASSUME NEW recent \in BOOLEAN, Poll(recent) PROVE SleepPlaces'
    BY <1>2 DEF Poll
  <1>3. ASSUME NEW full \in BOOLEAN, CheckBattery(full) PROVE SleepPlaces'
    BY <1>3 DEF CheckBattery
  <1>4. CASE FallAsleep
    BY <1>4 DEF FallAsleep
  <1>5. CASE WakeOnRelease
    BY <1>5 DEF WakeOnRelease
  <1>6. CASE Press
    BY <1>6 DEF Press
  <1>7. CASE Release
    BY <1>7 DEF Release
  <1>8. CASE SampleButton
    BY <1>8 DEF SampleButton
  <1>9. CASE LongPress
    BY <1>9 DEF LongPress
  <1>10. CASE TakePress
    BY <1>10 DEF TakePress, ResetActivity
  <1>11. ASSUME NEW hides \in BOOLEAN, JudgePress(hides) PROVE SleepPlaces'
    BY <1>11 DEF JudgePress
  <1>12. ASSUME NEW t \in Wakers, OtherActivity(t) PROVE SleepPlaces'
    BY <1>12 DEF OtherActivity, ResetActivity
  <1>13. CASE EndActivity
    BY <1>13 DEF EndActivity
  <1>14. CASE Elapse
    BY <1>14 DEF Elapse
  <1>15. CASE Expire
    BY <1>15 DEF Expire
  <1>16. CASE UNCHANGED sleepVars
    BY <1>16 DEF sleepVars
  <1> QED BY <1>1, <1>2, <1>3, <1>4, <1>5, <1>6, <1>7, <1>8, <1>9, <1>10, <1>11, <1>12, <1>13,
             <1>14, <1>15, <1>16 DEF SleepNext

(* A wake-up is over before the device is idle, and the device is idle      *)
(* before it falls asleep.                                                  *)
LEMMA CalmKept == SleepFacts /\ SleepPlaces /\ CalmInv /\ [SleepNext]_sleepVars => CalmInv'
  <1> SUFFICES ASSUME SleepFacts, SleepPlaces, CalmInv, [SleepNext]_sleepVars PROVE CalmInv'
    OBVIOUS
  <1> USE WakersAssumption DEF SleepFacts, SleepPlaces, CalmInv, AllResting, Sleepers,
             screen, clocks, knobVars
  <1>1. ASSUME NEW t \in Sleepers, Restore(t) PROVE CalmInv'
    BY <1>1 DEF Restore
  <1>2. ASSUME NEW recent \in BOOLEAN, Poll(recent) PROVE CalmInv'
    BY <1>2 DEF Poll
  <1>3. ASSUME NEW full \in BOOLEAN, CheckBattery(full) PROVE CalmInv'
    BY <1>3 DEF CheckBattery
  <1>4. CASE FallAsleep
    BY <1>4 DEF FallAsleep
  <1>5. CASE WakeOnRelease
    BY <1>5 DEF WakeOnRelease
  <1>6. CASE Press
    BY <1>6 DEF Press
  <1>7. CASE Release
    BY <1>7 DEF Release
  <1>8. CASE SampleButton
    BY <1>8 DEF SampleButton
  <1>9. CASE LongPress
    BY <1>9 DEF LongPress
  <1>10. CASE TakePress
    BY <1>10 DEF TakePress, ResetActivity
  <1>11. ASSUME NEW hides \in BOOLEAN, JudgePress(hides) PROVE CalmInv'
    BY <1>11 DEF JudgePress
  <1>12. ASSUME NEW t \in Wakers, OtherActivity(t) PROVE CalmInv'
    BY <1>12 DEF OtherActivity, ResetActivity
  <1>13. CASE EndActivity
    BY <1>13 DEF EndActivity
  <1>14. CASE Elapse
    BY <1>14 DEF Elapse
  <1>15. CASE Expire
    BY <1>15 DEF Expire
  <1>16. CASE UNCHANGED sleepVars
    BY <1>16 DEF sleepVars
  <1> QED BY <1>1, <1>2, <1>3, <1>4, <1>5, <1>6, <1>7, <1>8, <1>9, <1>10, <1>11, <1>12, <1>13,
             <1>14, <1>15, <1>16 DEF SleepNext

(* The effects of falling asleep are carried out one after the other, and no *)
(* wake-up undoes them while the device still counts as asleep.             *)
LEMMA DarkKept == SleepFacts /\ SleepPlaces /\ CalmInv /\ DarkInv /\ [SleepNext]_sleepVars => DarkInv'
  <1> SUFFICES ASSUME SleepFacts, SleepPlaces, CalmInv, DarkInv, [SleepNext]_sleepVars PROVE DarkInv'
    OBVIOUS
  <1> USE WakersAssumption, HushAssumption DEF SleepFacts, SleepPlaces, CalmInv, DarkInv,
             AllResting, Sleepers, screen, clocks, knobVars
  <1>1. ASSUME NEW t \in Sleepers, Restore(t) PROVE DarkInv'
    BY <1>1 DEF Restore
  <1>2. ASSUME NEW recent \in BOOLEAN, Poll(recent) PROVE DarkInv'
    BY <1>2 DEF Poll
  <1>3. ASSUME NEW full \in BOOLEAN, CheckBattery(full) PROVE DarkInv'
    BY <1>3 DEF CheckBattery
  <1>4. CASE FallAsleep
    BY <1>4 DEF FallAsleep
  <1>5. CASE WakeOnRelease
    BY <1>5 DEF WakeOnRelease
  <1>6. CASE Press
    BY <1>6 DEF Press
  <1>7. CASE Release
    BY <1>7 DEF Release
  <1>8. CASE SampleButton
    BY <1>8 DEF SampleButton
  <1>9. CASE LongPress
    BY <1>9 DEF LongPress
  <1>10. CASE TakePress
    BY <1>10 DEF TakePress, ResetActivity
  <1>11. ASSUME NEW hides \in BOOLEAN, JudgePress(hides) PROVE DarkInv'
    BY <1>11 DEF JudgePress
  <1>12. ASSUME NEW t \in Wakers, OtherActivity(t) PROVE DarkInv'
    BY <1>12 DEF OtherActivity, ResetActivity
  <1>13. CASE EndActivity
    BY <1>13 DEF EndActivity
  <1>14. CASE Elapse
    BY <1>14 DEF Elapse
  <1>15. CASE Expire
    BY <1>15 DEF Expire
  <1>16. CASE UNCHANGED sleepVars
    BY <1>16 DEF sleepVars
  <1> QED BY <1>1, <1>2, <1>3, <1>4, <1>5, <1>6, <1>7, <1>8, <1>9, <1>10, <1>11, <1>12, <1>13,
             <1>14, <1>15, <1>16 DEF SleepNext

(* 800 ms do not pass between a release asleep and its judgement.           *)
LEMMA PressKept == SleepFacts /\ SleepPlaces /\ PressInv /\ [SleepNext]_sleepVars => PressInv'
  <1> SUFFICES ASSUME SleepFacts, SleepPlaces, PressInv, [SleepNext]_sleepVars PROVE PressInv'
    OBVIOUS
  <1> USE DEF SleepFacts, SleepPlaces, PressInv, screen, clocks, knobVars
  <1>1. ASSUME NEW t \in Sleepers, Restore(t) PROVE PressInv'
    BY <1>1 DEF Restore
  <1>2. ASSUME NEW recent \in BOOLEAN, Poll(recent) PROVE PressInv'
    BY <1>2 DEF Poll
  <1>3. ASSUME NEW full \in BOOLEAN, CheckBattery(full) PROVE PressInv'
    BY <1>3 DEF CheckBattery
  <1>4. CASE FallAsleep
    BY <1>4 DEF FallAsleep
  <1>5. CASE WakeOnRelease
    BY <1>5 DEF WakeOnRelease
  <1>6. CASE Press
    BY <1>6 DEF Press
  <1>7. CASE Release
    BY <1>7 DEF Release
  <1>8. CASE SampleButton
    BY <1>8 DEF SampleButton
  <1>9. CASE LongPress
    BY <1>9 DEF LongPress
  <1>10. CASE TakePress
    BY <1>10 DEF TakePress, ResetActivity
  <1>11. ASSUME NEW hides \in BOOLEAN, JudgePress(hides) PROVE PressInv'
    BY <1>11 DEF JudgePress
  <1>12. ASSUME NEW t \in Wakers, OtherActivity(t) PROVE PressInv'
    BY <1>12 DEF OtherActivity, ResetActivity
  <1>13. CASE EndActivity
    BY <1>13 DEF EndActivity
  <1>14. CASE Elapse
    BY <1>14 DEF Elapse
  <1>15. CASE Expire
    BY <1>15 DEF Expire
  <1>16. CASE UNCHANGED sleepVars
    BY <1>16 DEF sleepVars
  <1> QED BY <1>1, <1>2, <1>3, <1>4, <1>5, <1>6, <1>7, <1>8, <1>9, <1>10, <1>11, <1>12, <1>13,
             <1>14, <1>15, <1>16 DEF SleepNext

(* The four parts together are inductive.                                   *)
SleepInv == SleepTypeOK /\ CalmInv /\ DarkInv /\ PressInv

LEMMA SleepInvKept == SleepSpec => []SleepInv
  <1>1. SleepInit => SleepInv
    BY SleepInitInv DEF SleepInv
  <1>2. SleepInv /\ [SleepNext]_sleepVars => SleepInv'
    <2> SUFFICES ASSUME SleepInv, [SleepNext]_sleepVars PROVE SleepInv'
      OBVIOUS
    <2>1. SleepFacts /\ SleepPlaces
      BY SleepTypes DEF SleepInv
    <2>2. SleepTypeOK'
      BY <2>1, FactsKept, PlacesKept, SleepTypesNext
    <2>3. CalmInv'
      BY <2>1, CalmKept DEF SleepInv
    <2>4. DarkInv'
      BY <2>1, DarkKept DEF SleepInv
    <2>5. PressInv'
      BY <2>1, PressKept DEF SleepInv
    <2> QED BY <2>2, <2>3, <2>4, <2>5 DEF SleepInv
  <1> QED BY <1>1, <1>2, PTL DEF SleepSpec

(* Every variable of the sleep manager keeps its type.                      *)
THEOREM SleepTypesHold == SleepSpec => []SleepTypeOK
  <1>1. SleepInv => SleepTypeOK
    BY DEF SleepInv
  <1> QED BY <1>1, SleepInvKept, PTL

(* A device left asleep is dark, does not draw, has its radio saving and    *)
(* listens only if it was told to: no race of sleep_task with any number of *)
(* wakers leaves one of the four effects undone.                            *)
THEOREM DarkAsleep == SleepSpec => []AsleepIsDark
  <1>1. SleepInv => AsleepIsDark
    <2> SUFFICES ASSUME SleepInv PROVE AsleepIsDark
      OBVIOUS
    <2>1. SleepFacts
      BY SleepTypes DEF SleepInv
    <2> QED BY <2>1, HushAssumption DEF SleepInv, DarkInv, AsleepIsDark, NapResting, SleepFacts
  <1> QED BY <1>1, SleepInvKept, PTL

(* A press released asleep never begins a recording, however many tasks     *)
(* wake the device in between.                                              *)
THEOREM PressOnlyWakes == SleepSpec => WakingPressOnlyWakes
  <1> DEFINE Wakes == judging /\ ~judging' /\ fromSleep => active' = active
  <1>1. SleepInv /\ [SleepNext]_sleepVars => [Wakes]_sleepVars
    <2> SUFFICES ASSUME SleepInv, SleepNext, judging, ~judging', fromSleep
                 PROVE active' = active
      OBVIOUS
    <2>1. SleepFacts
      BY SleepTypes DEF SleepInv
    <2>2. asleep \/ fresh
      BY DEF SleepInv, PressInv
    <2> USE DEF screen, clocks, knobVars
    <2>3. ASSUME NEW hides \in BOOLEAN, JudgePress(hides) PROVE active' = active
      <3>1. active' = (active \/ (~hides /\ ~asleep /\ ~fresh))
        BY <2>3 DEF JudgePress
      <3> QED BY <3>1, <2>1, <2>2 DEF SleepFacts
    <2>4. CASE \/ \E t \in Sleepers : Restore(t)
               \/ \E recent \in BOOLEAN : Poll(recent)
               \/ \E full \in BOOLEAN : CheckBattery(full)
               \/ FallAsleep \/ WakeOnRelease
      BY <2>4 DEF Restore, Poll, CheckBattery, FallAsleep, WakeOnRelease
    <2>5. CASE \/ Press \/ Release \/ SampleButton \/ LongPress \/ TakePress
               \/ \E t \in Wakers : OtherActivity(t)
      BY <2>5 DEF Press, Release, SampleButton, LongPress, TakePress, OtherActivity
    <2>6. CASE EndActivity \/ Elapse \/ Expire
      BY <2>6 DEF EndActivity, Elapse, Expire
    <2> QED BY <2>3, <2>4, <2>5, <2>6 DEF SleepNext
  <1> QED BY <1>1, SleepInvKept, PTL DEF SleepSpec, WakingPressOnlyWakes

-----------------------------------------------------------------------------
(* The status task.                                                         *)

(* The time the client is down is charged to the rounds counted: to each of *)
(* the first AsleepLimit ones a round asleep, to each further one a round   *)
(* awake, since no round asleep leaves the count beyond its own limit.      *)
(* What the tasks were not asked for is charged to the two poll counters.   *)
Charged(rounds) == IF rounds < AsleepLimit THEN AsleepRound * rounds
                   ELSE AwakeLimit + (rounds - AsleepLimit)
RoundInv ==
  /\ reconnectTicks \in 0..(AwakeLimit - 1) /\ stuckFor \in Nat /\ unasked \in Nat
  /\ pollCounter \in 0..(SlowPoll - 1) /\ sleepCounter \in 0..(SleepPoll - 1)
  /\ stuckFor <= Charged(reconnectTicks)
  /\ (uiIdle /\ lightShows = "activity") => activityLed
  /\ unasked <= pollCounter + sleepCounter

(* One more round counted is one more charged, at the rate of its kind.     *)
LEMMA ChargedRises ==
  ASSUME NEW n \in Nat
  PROVE  /\ Charged(n) \in Nat
         /\ n + 1 < AsleepLimit => Charged(n + 1) = Charged(n) + AsleepRound
         /\ Charged(n + 1) >= Charged(n) + 1
         /\ n < AwakeLimit => Charged(n) < AwakeLimit + AwakeLimit
  <1> USE StatusAssumption
  <1>1. AsleepRound \in Nat \ {0} /\ AsleepLimit \in Nat \ {0}
    <2>1. AsleepRound = 0 => AsleepRound * AsleepLimit = 0
      OBVIOUS
    <2>2. AsleepLimit = 0 => AsleepRound * AsleepLimit = 0
      OBVIOUS
    <2> QED BY <2>1, <2>2
  <1>2. \A k \in Nat : AsleepRound * k \in Nat /\ AsleepRound * (k + 1) = AsleepRound * k + AsleepRound
    BY <1>1
  <1>3. \A k \in Nat : k + 1 = AsleepLimit => AsleepRound * k + AsleepRound = AwakeLimit
    BY <1>2
  <1>4. \A k \in Nat : k < AsleepLimit => AsleepRound * k <= AwakeLimit
    BY <1>1
  <1>5. Charged(n) \in Nat
    BY <1>2 DEF Charged
  <1>6. n + 1 < AsleepLimit => Charged(n + 1) = Charged(n) + AsleepRound
    BY <1>2 DEF Charged
  <1>7. Charged(n + 1) >= Charged(n) + 1
    BY <1>1, <1>2, <1>3 DEF Charged
  <1>8. n < AwakeLimit => Charged(n) < AwakeLimit + AwakeLimit
    BY <1>1, <1>4 DEF Charged
  <1> QED BY <1>5, <1>6, <1>7, <1>8

(* A round of the watchdog keeps within what is charged.                    *)
LEMMA WatchdogKeeps ==
  ASSUME RoundInv, NEW limit, NEW lasts,
         (limit = AwakeLimit /\ lasts = 1) \/ (limit = AsleepLimit /\ lasts = AsleepRound),
         Watchdog(limit, lasts)
  PROVE  /\ reconnectTicks' \in 0..(AwakeLimit - 1) /\ stuckFor' \in Nat
         /\ stuckFor' <= Charged(reconnectTicks')
  <1>1. Charged(0) = 0 \/ Charged(0) \in Nat
    BY ChargedRises
  <1>2. \A n \in Nat : /\ Charged(n) \in Nat
                       /\ n + 1 < AsleepLimit => Charged(n + 1) = Charged(n) + AsleepRound
                       /\ Charged(n + 1) >= Charged(n) + 1
    BY ChargedRises
  <1>3. CASE link # "down" \/ reconnectTicks + 1 >= limit
    BY <1>2, <1>3, StatusAssumption DEF Watchdog, RoundInv
  <1>4. CASE link = "down" /\ reconnectTicks + 1 < limit
    <2>1. reconnectTicks' = reconnectTicks + 1 /\ stuckFor' = stuckFor + lasts
      BY <1>4, StatusAssumption DEF Watchdog, RoundInv
    <2> QED BY <1>2, <1>4, <2>1, StatusAssumption DEF RoundInv
  <1> QED BY <1>3, <1>4, StatusAssumption DEF RoundInv

(* The counters of polls start again below their largest threshold.         *)
LEMMA PolledInRange ==
  ASSUME NEW limit \in Nat \ {0}, NEW c \in 0..(limit - 1), NEW threshold \in Nat,
         threshold <= limit
  PROVE  Polled(c, threshold) \in 0..(limit - 1)
         /\ (Polled(c, threshold) # 0 => Polled(c, threshold) = c + 1)
  BY DEF Polled

(* Nothing is charged yet.                                                  *)
LEMMA RoundInit == StatusInit => RoundInv
  <1>1. Charged(0) \in Nat
    BY ChargedRises
  <1> QED BY <1>1, StatusAssumption DEF StatusInit, RoundInv

(* Each round of the status task keeps the charge.                          *)
LEMMA RoundNext == RoundInv /\ [StatusNext]_statusVars => RoundInv'
  <1> SUFFICES ASSUME RoundInv, [StatusNext]_statusVars PROVE RoundInv'
    OBVIOUS
  <1> USE DEF RoundInv
  <1>0. Charged(reconnectTicks) \in Nat
    BY ChargedRises
  <1>1. CASE Others
    <2>1. UNCHANGED <<activityLed, roundAt, sawBusy, reconnectTicks, pollCounter, sleepCounter>>
          /\ stuckFor' \in {0, stuckFor} /\ unasked' \in {0, unasked}
      BY <1>1 DEF Others
    <2>2. uiIdle' /\ lightShows' = "activity" => uiIdle /\ lightShows = "activity"
      BY <1>1 DEF Others, Outside
    <2>3. Charged(reconnectTicks)' = Charged(reconnectTicks)
      BY <2>1 DEF Charged
    <2> QED BY <1>0, <2>1, <2>2, <2>3
  <1>2. CASE AsleepRoundStep
    <2>1. Watchdog(AsleepLimit, AsleepRound)
          /\ UNCHANGED <<Outside, activityLed, lightShows, pollCounter>>
      BY <1>2 DEF AsleepRoundStep
    <2>2. stuckFor' <= Charged(reconnectTicks') /\ reconnectTicks' \in 0..(AwakeLimit - 1)
          /\ stuckFor' \in Nat
      BY <2>1, WatchdogKeeps
    <2>3. Polled(sleepCounter, SleepPoll) \in 0..(SleepPoll - 1)
          /\ (Polled(sleepCounter, SleepPoll) # 0 =>
                Polled(sleepCounter, SleepPoll) = sleepCounter + 1)
      BY StatusAssumption, PolledInRange
    <2>4. sleepCounter' \in 0..(SleepPoll - 1) /\ unasked' \in Nat
          /\ unasked' <= pollCounter + sleepCounter'
      <3>1. CASE link = "connected"
        <4>1. sleepCounter' = Polled(sleepCounter, SleepPoll)
          BY <1>2, <3>1 DEF AsleepRoundStep
        <4>2. unasked' \in {0, unasked + 1} /\ (unasked' # 0 => sleepCounter' # 0)
          BY <1>2, <3>1 DEF AsleepRoundStep
        <4> QED BY <4>1, <4>2, <2>3
      <3>2. CASE link # "connected"
        <4>1. sleepCounter' = sleepCounter /\ unasked' = 0
          BY <1>2, <3>2 DEF AsleepRoundStep
        <4> QED BY <4>1, StatusAssumption
      <3> QED BY <3>1, <3>2
    <2> QED BY <2>1, <2>2, <2>4 DEF Outside
  <1>3. CASE AwakeLooks
    BY <1>3 DEF AwakeLooks, Outside, Counts
  <1>4. CASE LightOn
    BY <1>4 DEF LightOn, Outside, Counts
  <1>5. CASE LightOff
    BY <1>5 DEF LightOff, Outside, Counts
  <1>6. CASE PollTasks
    <2>1. UNCHANGED <<Outside, activityLed, lightShows, reconnectTicks, stuckFor, sleepCounter>>
          /\ unasked' = (IF pollCounter' = 0 THEN 0 ELSE unasked + 1)
      BY <1>6 DEF PollTasks
    <2>2. PICK threshold \in {FastPoll, SlowPoll} : pollCounter' = Polled(pollCounter, threshold)
      BY <1>6 DEF PollTasks
    <2>3. pollCounter' \in 0..(SlowPoll - 1) /\ (pollCounter' # 0 => pollCounter' = pollCounter + 1)
      BY <2>2, StatusAssumption, PolledInRange
    <2>4. unasked' \in Nat /\ unasked' <= pollCounter' + sleepCounter'
      <3>1. {pollCounter, sleepCounter, pollCounter'} \subseteq Nat
        BY <2>3, StatusAssumption
      <3>2. sleepCounter' = sleepCounter
        BY <2>1
      <3>3. CASE pollCounter' = 0
        <4>1. unasked' = 0
          BY <2>1, <3>3
        <4> QED BY <4>1, <3>1, <3>2
      <3>4. CASE pollCounter' # 0
        <4>1. unasked' = unasked + 1 /\ pollCounter' = pollCounter + 1
          BY <2>1, <2>3, <3>4
        <4> QED BY <4>1, <3>1, <3>2
      <3> QED BY <3>3, <3>4
    <2>5. Charged(reconnectTicks') = Charged(reconnectTicks)
      BY <2>1
    <2> QED BY <2>1, <2>3, <2>4, <2>5 DEF Outside
  <1>7. CASE AwakeWatches
    <2>1. Watchdog(AwakeLimit, 1)
          /\ UNCHANGED <<Outside, activityLed, lightShows, pollCounter, sleepCounter, unasked>>
      BY <1>7 DEF AwakeWatches
    <2>2. stuckFor' <= Charged(reconnectTicks') /\ reconnectTicks' \in 0..(AwakeLimit - 1)
          /\ stuckFor' \in Nat
      BY <2>1, WatchdogKeeps
    <2> QED BY <2>1, <2>2 DEF Outside
  <1>8. CASE UNCHANGED statusVars
    BY <1>8 DEF statusVars
  <1> QED BY <1>1, <1>2, <1>3, <1>4, <1>5, <1>6, <1>7, <1>8 DEF StatusNext

(* Awake or asleep or changing between the two, the watchdog acts within    *)
(* its two limits together, the activity light is remembered, and the tasks *)
(* are polled (app_tasks.c:478, 551, 582, 601).                             *)
THEOREM WatchdogActs == StatusSpec => []StatusHolds
  <1>1. RoundInv => StatusHolds
    <2> SUFFICES ASSUME RoundInv PROVE StatusHolds
      OBVIOUS
    <2>1. Charged(reconnectTicks) \in Nat /\ Charged(reconnectTicks) < AwakeLimit + AwakeLimit
      BY ChargedRises, StatusAssumption DEF RoundInv
    <2> QED BY <2>1, StatusAssumption DEF RoundInv, StatusHolds
  <1> QED BY <1>1, RoundInit, RoundNext, PTL DEF StatusSpec

-----------------------------------------------------------------------------
(* The Wi-Fi manager.                                                       *)

(* The driver has at most the events of one attempt waiting, and the last   *)
(* of them agrees with what it does.                                        *)
LinkInv ==
  /\ reconnects \in 0..MaxReconnects /\ lost \in 0..(MaxReconnects + 1)
  /\ reconnects = (IF lost > MaxReconnects THEN MaxReconnects ELSE lost)
  /\ \/ radio = "off" /\ events = <<>>
     \/ radio = "idle" /\ events \in {<<>>, <<"START">>, <<"DISCONNECTED">>,
                                      <<"GOT_IP", "DISCONNECTED">>}
     \/ radio = "trying" /\ events = <<>>
     \/ radio = "linked" /\ events \in {<<>>, <<"GOT_IP">>}
  /\ wifiState = "FAILED" => lost > MaxReconnects
  /\ wifiState = "FAILED" <=> radio = "idle" /\ events = <<>>
  /\ shownWifi = "ok" => connectedBit

(* What a sequence is with one more element.                                *)
LEMMA OneMoreQueued ==
  ASSUME NEW S, NEW s \in Seq(S), NEW e \in S
  PROVE  /\ Append(s, e) \in Seq(S) /\ Len(Append(s, e)) = Len(s) + 1
         /\ \A i \in 1..Len(s) : Append(s, e)[i] = s[i]
         /\ Append(s, e)[Len(s) + 1] = e
  OBVIOUS

(* What appending an event and taking the first one make of the queues.     *)
LEMMA Queues ==
  /\ Append(<<>>, "START") = <<"START">> /\ Append(<<>>, "DISCONNECTED") = <<"DISCONNECTED">>
  /\ Append(<<>>, "GOT_IP") = <<"GOT_IP">>
  /\ Append(<<"GOT_IP">>, "DISCONNECTED") = <<"GOT_IP", "DISCONNECTED">>
  /\ Tail(<<"START">>) = <<>> /\ Tail(<<"DISCONNECTED">>) = <<>> /\ Tail(<<"GOT_IP">>) = <<>>
  /\ Tail(<<"GOT_IP", "DISCONNECTED">>) = <<"DISCONNECTED">>
  /\ Head(<<"START">>) = "START" /\ Head(<<"DISCONNECTED">>) = "DISCONNECTED"
  /\ Head(<<"GOT_IP">>) = "GOT_IP" /\ Head(<<"GOT_IP", "DISCONNECTED">>) = "GOT_IP"
  /\ <<"START">> # <<>> /\ <<"DISCONNECTED">> # <<>> /\ <<"GOT_IP">> # <<>>
  /\ <<"GOT_IP", "DISCONNECTED">> # <<>>
  <1>1. /\ Append(<<>>, "START") = <<"START">> /\ Append(<<>>, "DISCONNECTED") = <<"DISCONNECTED">>
        /\ Append(<<>>, "GOT_IP") = <<"GOT_IP">>
    OBVIOUS
  <1>2. Append(<<"GOT_IP">>, "DISCONNECTED") = <<"GOT_IP", "DISCONNECTED">>
    <2> DEFINE one == <<"GOT_IP">>
               two == <<"GOT_IP", "DISCONNECTED">>
               all == Append(one, "DISCONNECTED")
    <2>1. /\ one \in Seq({"GOT_IP", "DISCONNECTED"}) /\ Len(one) = 1 /\ one[1] = "GOT_IP"
          /\ two \in Seq({"GOT_IP", "DISCONNECTED"}) /\ Len(two) = 2
          /\ two[1] = "GOT_IP" /\ two[2] = "DISCONNECTED"
      OBVIOUS
    <2> HIDE DEF one, two
    <2>2. /\ all \in Seq({"GOT_IP", "DISCONNECTED"}) /\ Len(all) = 2
          /\ all[1] = "GOT_IP" /\ all[2] = "DISCONNECTED"
      <3>1. /\ all \in Seq({"GOT_IP", "DISCONNECTED"}) /\ Len(all) = Len(one) + 1
            /\ \A i \in 1..Len(one) : all[i] = one[i]
            /\ all[Len(one) + 1] = "DISCONNECTED"
        BY <2>1, OneMoreQueued
      <3> HIDE DEF all
      <3> QED BY <3>1, <2>1
    <2> HIDE DEF all
    <2>3. \A i \in 1..Len(all) : all[i] = two[i]
      BY <2>1, <2>2
    <2>4. all = two
      BY <2>1, <2>2, <2>3, SeqEqual
    <2> QED BY <2>4 DEF one, two, all
  <1>3. Tail(<<"START">>) = <<>> /\ Tail(<<"DISCONNECTED">>) = <<>> /\ Tail(<<"GOT_IP">>) = <<>>
    OBVIOUS
  <1>4. Tail(<<"GOT_IP", "DISCONNECTED">>) = <<"DISCONNECTED">>
    OBVIOUS
  <1>5. /\ Head(<<"START">>) = "START" /\ Head(<<"DISCONNECTED">>) = "DISCONNECTED"
        /\ Head(<<"GOT_IP">>) = "GOT_IP" /\ Head(<<"GOT_IP", "DISCONNECTED">>) = "GOT_IP"
    OBVIOUS
  <1>6. /\ <<"START">> # <<>> /\ <<"DISCONNECTED">> # <<>> /\ <<"GOT_IP">> # <<>>
        /\ <<"GOT_IP", "DISCONNECTED">> # <<>>
    OBVIOUS
  <1> QED BY <1>1, <1>2, <1>3, <1>4, <1>5, <1>6

(* The driver is off and nothing waits.                                     *)
LEMMA LinkInit == WifiInit => LinkInv
  BY WifiAssumption DEF WifiInit, LinkInv

(* Each event and each command keeps the driver and the queue in step.      *)
LEMMA LinkNext == LinkInv /\ [WifiNext]_wifiVars => LinkInv'
  <1> SUFFICES ASSUME LinkInv, [WifiNext]_wifiVars PROVE LinkInv'
    OBVIOUS
  <1> USE WifiAssumption, Queues DEF LinkInv
  <1>1. CASE WifiStart
    BY <1>1 DEF WifiStart
  <1>2. CASE LinkUp
    BY <1>2 DEF LinkUp
  <1>3. CASE LinkDown
    BY <1>3 DEF LinkDown
  <1>4. CASE OnStart
    BY <1>4 DEF OnStart, SetWifiState
  <1>5. CASE OnDisconnected
    <2>1. events # <<>> /\ Head(events) = "DISCONNECTED" /\ events' = Tail(events)
      BY <1>5 DEF OnDisconnected
    <2>2. radio = "idle" /\ events = <<"DISCONNECTED">> /\ events' = <<>>
      BY <2>1
    <2>3. lost' = (IF lost > MaxReconnects THEN lost ELSE lost + 1)
      BY <1>5 DEF OnDisconnected
    <2>4. CASE reconnects < MaxReconnects
      <3>1. reconnects' = reconnects + 1 /\ radio' = "trying" /\ wifiState' = wifiState
            /\ shownWifi' = shownWifi /\ connectedBit' = connectedBit
        BY <1>5, <2>4 DEF OnDisconnected
      <3> QED BY <2>2, <2>3, <2>4, <3>1
    <2>5. CASE ~(reconnects < MaxReconnects)
      <3>1. reconnects' = reconnects /\ radio' = radio /\ wifiState' = "FAILED"
            /\ shownWifi' = "failed"
        BY <1>5, <2>5 DEF OnDisconnected, SetWifiState
      <3> QED BY <2>2, <2>3, <2>5, <3>1
    <2> QED BY <2>4, <2>5
  <1>6. CASE OnGotIp
    <2>1. events # <<>> /\ Head(events) = "GOT_IP" /\ events' = Tail(events)
      BY <1>6 DEF OnGotIp
    <2>2. /\ reconnects' = 0 /\ lost' = 0 /\ radio' = radio /\ wifiState' = "CONNECTED"
          /\ shownWifi' = "ok" /\ connectedBit'
      BY <1>6 DEF OnGotIp, SetWifiState
    <2>3. \/ radio = "idle" /\ events' = <<"DISCONNECTED">>
          \/ radio = "linked" /\ events' = <<>>
      BY <2>1
    <2> QED BY <2>2, <2>3
  <1>7. CASE UNCHANGED wifiVars
    BY <1>7 DEF wifiVars
  <1> QED BY <1>1, <1>2, <1>3, <1>4, <1>5, <1>6, <1>7 DEF WifiNext

(* The link is given up after one more loss in a row than there are         *)
(* attempts, and not before (wifi_manager.c:39).                            *)
THEOREM GivenUpLast == WifiSpec => []GivesUpLast
  <1>1. LinkInv => GivesUpLast
    BY Queues DEF LinkInv, GivesUpLast
  <1> QED BY <1>1, LinkInit, LinkNext, PTL DEF WifiSpec

-----------------------------------------------------------------------------
(* The settings, in force and stored.                                       *)

(* What is left of the fields while they are edited or saved.               *)
FromToken == <<"oc_token", "oc_port", "volume">>
FromPort == <<"oc_port", "volume">>
FromVolume == <<"volume">>
Remnants == {FieldOrder, FromToken, FromPort, FromVolume}

(* The fields a save is past.                                               *)
Written(fields) ==
  CASE fields = FieldOrder -> {}
    [] fields = FromToken -> {"wifi_ssid"}
    [] fields = FromPort -> {"wifi_ssid", "oc_token"}
    [] OTHER -> {"wifi_ssid", "oc_token", "oc_port"}

(* The shape of the state.                                                  *)
SettingsShape ==
  /\ DOMAIN inForce = Fields /\ DOMAIN nvs = Fields /\ DOMAIN mayHold = Fields
  /\ DOMAIN editing = Editors /\ disturbed \in BOOLEAN
  /\ \A e \in Editors :
       /\ DOMAIN editing[e] = {"phase", "fields", "new", "read"}
       /\ editing[e].phase \in {"rest", "edit", "save"}
       /\ ~AtRest(e) => editing[e].fields \in Remnants
       /\ editing[e].phase # "save" => editing[e].read = Unset
  /\ \A f \in Fields : nvs[f] = Unset \/ nvs[f] = <<nvs[f][1]>>
  /\ \A e \in Editors : editing[e].read = Unset \/ editing[e].read = <<editing[e].read[1]>>

(* The mask shown instead of a secret is neither in force nor stored nor    *)
(* about to be.                                                             *)
NeverMasked ==
  \A f \in Secrets :
    /\ inForce[f] # Mask /\ nvs[f] # <<Mask>>
    /\ \A e \in Editors :
         editing[e].phase = "save" /\ Head(editing[e].fields) = f => editing[e].read # <<Mask>>

(* Where one editor at a time was at work: both what is in force and what   *)
(* is stored are values the user may expect.                                *)
OneEditor == \A d, e \in Editors : ~AtRest(d) /\ ~AtRest(e) => d = e

Held ==
  \A f \in Fields :
    /\ inForce[f] \in mayHold[f]
    /\ nvs[f] = Unset => WithBuilt[f] \in mayHold[f]
    /\ nvs[f] # Unset => nvs[f][1] \in mayHold[f]

(* And a save has stored the fields it is past; at rest everything stored   *)
(* is in force.                                                             *)
SavedSoFar ==
  \A e \in Editors : editing[e].phase = "save" =>
    /\ editing[e].read # Unset => editing[e].read = <<inForce[Head(editing[e].fields)]>>
    /\ \A f \in Written(editing[e].fields) : nvs[f] = <<inForce[f]>>

AllSaved ==
  (\A e \in Editors : AtRest(e)) => \A f \in Fields : nvs[f] \in {Unset, <<inForce[f]>>}

(* The inductive invariant.                                                 *)
SettingsInv ==
  SettingsShape /\ NeverMasked /\ (~disturbed => OneEditor /\ Held /\ SavedSoFar /\ AllSaved)

(* The fields, by name.                                                     *)
LEMMA FieldNames == Fields = {"wifi_ssid", "oc_token", "oc_port", "volume"}
  <1>1. Len(FieldOrder) = 4 /\ FieldOrder[1] = "wifi_ssid" /\ FieldOrder[2] = "oc_token"
        /\ FieldOrder[3] = "oc_port" /\ FieldOrder[4] = "volume"
    BY DEF FieldOrder
  <1>2. 1..4 = {1, 2, 3, 4}
    OBVIOUS
  <1> QED BY <1>1, <1>2 DEF Fields

(* What is left to save, field by field.                                    *)
LEMMA SuffixSteps ==
  /\ Head(FieldOrder) = "wifi_ssid" /\ Tail(FieldOrder) = FromToken
  /\ Head(FromToken) = "oc_token" /\ Tail(FromToken) = FromPort
  /\ Head(FromPort) = "oc_port" /\ Tail(FromPort) = FromVolume
  /\ Head(FromVolume) = "volume" /\ Tail(FromVolume) = <<>>
  <1>1. Head(FieldOrder) = "wifi_ssid" /\ Head(FromToken) = "oc_token"
        /\ Head(FromPort) = "oc_port" /\ Head(FromVolume) = "volume"
    BY DEF FieldOrder, FromToken, FromPort, FromVolume
  <1>2. Tail(FieldOrder) = FromToken
    BY DEF FieldOrder, FromToken
  <1>3. Tail(FromToken) = FromPort
    BY DEF FromToken, FromPort
  <1>4. Tail(FromPort) = FromVolume
    BY DEF FromPort, FromVolume
  <1>5. Tail(FromVolume) = <<>>
    BY DEF FromVolume
  <1> QED BY <1>1, <1>2, <1>3, <1>4, <1>5

(* What is left at each field tells the fields apart.                       *)
LEMMA SuffixesDiffer ==
  /\ FieldOrder # FromToken /\ FieldOrder # FromPort /\ FieldOrder # FromVolume
  /\ FromToken # FromPort /\ FromToken # FromVolume /\ FromPort # FromVolume
  /\ FieldOrder # <<>> /\ FromToken # <<>> /\ FromPort # <<>> /\ FromVolume # <<>>
  <1>1. Len(FieldOrder) = 4 /\ Len(FromToken) = 3 /\ Len(FromPort) = 2 /\ Len(FromVolume) = 1
        /\ Len(<<>>) = 0
    BY DEF FieldOrder, FromToken, FromPort, FromVolume
  <1>2. 4 # 3 /\ 4 # 2 /\ 4 # 1 /\ 3 # 2 /\ 3 # 1 /\ 2 # 1 /\ 4 # 0 /\ 3 # 0 /\ 2 # 0 /\ 1 # 0
    OBVIOUS
  <1> QED BY <1>1, <1>2, Zenon

(* The field being saved is the first of those not yet saved.               *)
LEMMA SuffixFacts ==
  ASSUME NEW s \in Remnants
  PROVE  /\ Head(s) \in Fields /\ Written(s) \subseteq Fields
         /\ Tail(s) = <<>> => Fields = Written(s) \cup {Head(s)}
         /\ Tail(s) # <<>> => Tail(s) \in Remnants /\ Written(Tail(s)) = Written(s) \cup {Head(s)}
         /\ Written(FieldOrder) = {} /\ Head(s) \notin Written(s)
  <1>1. /\ Written(FieldOrder) = {} /\ Written(FromToken) = {"wifi_ssid"}
        /\ Written(FromPort) = {"wifi_ssid", "oc_token"}
        /\ Written(FromVolume) = {"wifi_ssid", "oc_token", "oc_port"}
    BY SuffixesDiffer DEF Written
  <1>2. CASE s = FieldOrder
    BY <1>1, <1>2, SuffixSteps, SuffixesDiffer, FieldNames DEF Remnants
  <1>3. CASE s = FromToken
    BY <1>1, <1>3, SuffixSteps, SuffixesDiffer, FieldNames DEF Remnants
  <1>4. CASE s = FromPort
    BY <1>1, <1>4, SuffixSteps, SuffixesDiffer, FieldNames DEF Remnants
  <1>5. CASE s = FromVolume
    BY <1>1, <1>5, SuffixSteps, SuffixesDiffer, FieldNames DEF Remnants
  <1> QED BY <1>2, <1>3, <1>4, <1>5 DEF Remnants

(* Neither what was built in nor what a reset leaves is the mask.           *)
LEMMA PlainValues ==
  /\ DOMAIN WithBuilt = Fields /\ DOMAIN Zero = Fields
  /\ \A f \in Secrets : f \in Fields /\ WithBuilt[f] # Mask /\ Zero[f] # Mask
  <1>1. DOMAIN WithBuilt = Fields /\ DOMAIN Zero = Fields
    BY DEF WithBuilt, Zero
  <1>2. "oc_token" \in Fields /\ "oc_token" \in Texts
    BY FieldNames DEF Texts
  <1>3. Zero["oc_token"] # Mask
    BY <1>2 DEF Zero, Mask
  <1>4. Bare["oc_token"] = ""
    BY <1>2, SMT DEF Bare
  <1>5. WithBuilt["oc_token"] # Mask
    BY <1>2, <1>4, BuiltAssumption DEF WithBuilt, Mask, Secrets
  <1> QED BY <1>1, <1>2, <1>3, <1>5 DEF Secrets

(* A secret that is taken from a request is not the mask.                   *)
LEMMA TokenTaken ==
  ASSUME NEW f \in Secrets, NEW v, Takes(f, v), NEW c \in Converted(f, v)
  PROVE  c # Mask
  <1>1. f = "oc_token" /\ f \in Texts
    BY DEF Secrets, Texts
  <1>2. Converted(f, v) = {v}
    BY <1>1 DEF Converted, InWidth
  <1> QED BY <1>1, <1>2 DEF Takes

(* What a restart loads of each field.                                      *)
LEMMA LoadedValues ==
  ASSUME NEW s, NEW f \in Fields
  PROVE  /\ DOMAIN Loaded(s) = Fields
         /\ Loaded(s)[f] = IF s[f] = Unset THEN WithBuilt[f] ELSE s[f][1]
  BY DEF Loaded

(* The initial state satisfies the invariant.                               *)
LEMMA SettingsStart == SettingsInit => SettingsInv
  <1> SUFFICES ASSUME SettingsInit PROVE SettingsInv
    OBVIOUS
  <1>1. \A f \in Fields : nvs[f] = Unset /\ inForce[f] = WithBuilt[f] /\ mayHold[f] = {inForce[f]}
    BY LoadedValues DEF SettingsInit
  <1>2. DOMAIN inForce = Fields /\ DOMAIN nvs = Fields /\ DOMAIN mayHold = Fields
    BY DEF SettingsInit, Loaded
  <1>3. /\ DOMAIN editing = Editors
        /\ \A e \in Editors : editing[e] = NotSaving
    BY DEF SettingsInit
  <1>4. /\ DOMAIN NotSaving = {"phase", "fields", "new", "read"}
        /\ NotSaving.phase = "rest" /\ NotSaving.read = Unset
    BY DEF NotSaving
  <1>5. disturbed = FALSE
    BY DEF SettingsInit
  <1>6. SettingsShape
    BY <1>1, <1>2, <1>3, <1>4, <1>5 DEF SettingsShape, AtRest
  <1>7. NeverMasked
    BY <1>1, <1>3, <1>4, PlainValues DEF NeverMasked, Unset
  <1>8. OneEditor /\ Held /\ SavedSoFar /\ AllSaved
    BY <1>1, <1>3, <1>4 DEF OneEditor, Held, SavedSoFar, AllSaved, AtRest
  <1> QED BY <1>6, <1>7, <1>8 DEF SettingsInv

(* An edit begins: the editor gets its list of fields, and a value comes    *)
(* into force only if the user may expect it.                               *)
LEMMA EditBegins ==
  ASSUME SettingsInv, NEW e \in Editors, NEW new, NEW fields \in Remnants, AtRest(e),
         editing' = [editing EXCEPT ![e] =
           [phase |-> "edit", fields |-> fields, new |-> new, read |-> Unset]],
         disturbed' = (disturbed \/ \E o \in Editors \ {e} : ~AtRest(o)),
         nvs' = nvs, DOMAIN inForce' = Fields, DOMAIN mayHold' = Fields,
         \A f \in Fields :
           \/ inForce'[f] = inForce[f] /\ mayHold'[f] = mayHold[f]
           \/ /\ inForce'[f] \in mayHold'[f] /\ mayHold[f] \subseteq mayHold'[f]
              /\ f \in Secrets => inForce'[f] # Mask
  PROVE  SettingsInv'
  <1>1. SettingsShape /\ NeverMasked /\ (~disturbed => OneEditor /\ Held /\ SavedSoFar /\ AllSaved)
    BY DEF SettingsInv
  <1>2. /\ DOMAIN editing' = Editors
        /\ editing'[e] = [phase |-> "edit", fields |-> fields, new |-> new, read |-> Unset]
        /\ \A d \in Editors \ {e} : editing'[d] = editing[d]
    BY <1>1 DEF SettingsShape
  <1>3. /\ DOMAIN (editing'[e]) = {"phase", "fields", "new", "read"}
        /\ editing'[e].phase = "edit" /\ editing'[e].fields = fields /\ editing'[e].read = Unset
    BY <1>2
  <1>4. SettingsShape'
    BY <1>1, <1>2, <1>3 DEF SettingsShape, AtRest
  <1>5. NeverMasked'
    BY <1>1, <1>2, <1>3, PlainValues DEF NeverMasked
  <1>6. ASSUME ~disturbed' PROVE OneEditor' /\ Held' /\ SavedSoFar' /\ AllSaved'
    <2>1. ~disturbed /\ \A o \in Editors \ {e} : AtRest(o)
      BY <1>6
    <2>2. \A o \in Editors \ {e} : editing'[o].phase = "rest"
      BY <1>2, <2>1 DEF AtRest
    <2>3. OneEditor' /\ AllSaved'
      BY <1>2, <1>3, <2>2 DEF OneEditor, AllSaved, AtRest
    <2>4. SavedSoFar'
      BY <1>3, <2>2 DEF SavedSoFar
    <2>5. Held'
      BY <1>1, <2>1 DEF Held
    <2> QED BY <2>3, <2>4, <2>5
  <1> QED BY <1>4, <1>5, <1>6 DEF SettingsInv

(* One field is written, or fails to be.                                    *)
LEMMA SaveStep ==
  ASSUME SettingsInv, NEW e \in Editors, editing[e].phase = "save", editing[e].read # Unset,
         NEW ok \in BOOLEAN, AfterWrite(e, ok), inForce' = inForce,
         \/ ok /\ nvs' = [nvs EXCEPT ![Head(editing[e].fields)] = editing[e].read] /\ disturbed' = disturbed
         \/ ~ok /\ nvs' = nvs /\ disturbed' = TRUE
  PROVE  SettingsInv'
  <1> DEFINE fields == editing[e].fields
             h == Head(fields)
             left == Tail(fields)
  <1>1. SettingsShape /\ NeverMasked /\ (~disturbed => OneEditor /\ Held /\ SavedSoFar /\ AllSaved)
    BY DEF SettingsInv
  <1>2. fields \in Remnants
    BY <1>1 DEF SettingsShape, AtRest
  <1>3. /\ h \in Fields /\ Written(fields) \subseteq Fields
        /\ left = <<>> => Fields = Written(fields) \cup {h}
        /\ left # <<>> => left \in Remnants /\ Written(left) = Written(fields) \cup {h}
    BY <1>2, SuffixFacts
  <1>4. editing' = [editing EXCEPT ![e] =
           IF left = <<>> THEN NotSaving ELSE [editing[e] EXCEPT !.fields = left, !.read = Unset]]
    BY DEF AfterWrite
  <1>5. /\ DOMAIN editing' = Editors
        /\ left = <<>> => editing'[e] = NotSaving
        /\ left # <<>> => editing'[e] = [editing[e] EXCEPT !.fields = left, !.read = Unset]
        /\ \A d \in Editors \ {e} : editing'[d] = editing[d]
    BY <1>1, <1>4 DEF SettingsShape
  <1>6. /\ DOMAIN (editing'[e]) = {"phase", "fields", "new", "read"} /\ editing'[e].read = Unset
        /\ left = <<>> => editing'[e].phase = "rest"
        /\ left # <<>> => editing'[e].phase = "save" /\ editing'[e].fields = left
    <2>1. /\ DOMAIN NotSaving = {"phase", "fields", "new", "read"}
          /\ NotSaving.phase = "rest" /\ NotSaving.read = Unset
      BY DEF NotSaving
    <2>2. DOMAIN (editing[e]) = {"phase", "fields", "new", "read"}
      BY <1>1 DEF SettingsShape
    <2>3. CASE left = <<>>
      BY <1>5, <2>1, <2>3
    <2>4. CASE left # <<>>
      BY <1>5, <2>2, <2>4
    <2> QED BY <2>3, <2>4
  <1>7. /\ DOMAIN nvs' = Fields
        /\ \A f \in Fields \ {h} : nvs'[f] = nvs[f]
        /\ ok => nvs'[h] = editing[e].read
        /\ ~ok => nvs'[h] = nvs[h]
    BY <1>1, <1>3 DEF SettingsShape
  <1>8. /\ DOMAIN mayHold' = Fields
        /\ \/ mayHold' = mayHold
           \/ ok /\ ~disturbed /\ left = <<>> /\ \A f \in Fields : mayHold'[f] = {inForce[f]}
    <2>1. mayHold' = IF left = <<>> /\ (\A o \in Editors \ {e} : AtRest(o)) /\ ok /\ ~disturbed
                     THEN [f \in Fields |-> {inForce[f]}] ELSE mayHold
      BY DEF AfterWrite
    <2> QED BY <1>1, <2>1 DEF SettingsShape
  <1> HIDE DEF fields, h, left
  <1>9. editing[e].read = <<editing[e].read[1]>>
    BY <1>1 DEF SettingsShape
  <1>10. SettingsShape'
    <2>1. \A f \in Fields : nvs'[f] = Unset \/ nvs'[f] = <<nvs'[f][1]>>
      BY <1>1, <1>3, <1>7, <1>9 DEF SettingsShape
    <2>2. \A d \in Editors :
            /\ DOMAIN (editing'[d]) = {"phase", "fields", "new", "read"}
            /\ editing'[d].phase \in {"rest", "edit", "save"}
            /\ editing'[d].phase # "rest" => editing'[d].fields \in Remnants
            /\ editing'[d].phase # "save" => editing'[d].read = Unset
            /\ editing'[d].read = Unset \/ editing'[d].read = <<editing'[d].read[1]>>
      BY <1>1, <1>3, <1>5, <1>6 DEF SettingsShape, AtRest
    <2>3. disturbed' \in BOOLEAN /\ DOMAIN inForce' = Fields
      BY <1>1 DEF SettingsShape
    <2> QED BY <1>5, <1>7, <1>8, <2>1, <2>2, <2>3 DEF SettingsShape, AtRest
  <1>11. NeverMasked'
    <2>1. SUFFICES ASSUME NEW f \in Secrets
                   PROVE  /\ inForce[f] # Mask /\ nvs'[f] # <<Mask>>
                          /\ \A d \in Editors :
                               editing'[d].phase = "save" /\ Head(editing'[d].fields) = f =>
                                 editing'[d].read # <<Mask>>
      BY DEF NeverMasked
    <2>2. f \in Fields
      BY PlainValues
    <2>3. nvs'[f] # <<Mask>>
      BY <1>1, <1>7, <2>2 DEF NeverMasked, h, fields
    <2>4. Unset # <<Mask>>
      BY DEF Unset
    <2>5. /\ inForce[f] # Mask
          /\ \A d \in Editors : editing[d].phase = "save" /\ Head(editing[d].fields) = f =>
               editing[d].read # <<Mask>>
      BY <1>1 DEF NeverMasked
    <2>6. \A d \in Editors : editing'[d] = editing[d] \/ editing'[d].read = Unset
      BY <1>5, <1>6
    <2>7. ASSUME NEW d \in Editors, editing'[d].phase = "save", Head(editing'[d].fields) = f
          PROVE  editing'[d].read # <<Mask>>
      BY <2>4, <2>5, <2>6, <2>7
    <2> QED BY <2>3, <2>5, <2>7
  <1>12. ASSUME ~disturbed' PROVE OneEditor' /\ Held' /\ SavedSoFar' /\ AllSaved'
    <2>1. ok /\ ~disturbed /\ OneEditor /\ Held /\ SavedSoFar
      BY <1>1, <1>12
    <2>2. \A o \in Editors \ {e} : editing[o].phase = "rest" /\ editing'[o] = editing[o]
      BY <1>5, <2>1 DEF OneEditor, AtRest
    <2>3. editing[e].read = <<inForce[h]>> /\ \A f \in Written(fields) : nvs[f] = <<inForce[f]>>
      BY <2>1 DEF SavedSoFar, h, fields
    <2>4. \A f \in Written(fields) \cup {h} : nvs'[f] = <<inForce[f]>>
      BY <1>3, <1>7, <2>1, <2>3
    <2>5. OneEditor'
      BY <2>2 DEF OneEditor, AtRest
    <2>6. SavedSoFar'
      BY <1>3, <1>6, <2>2, <2>4 DEF SavedSoFar
    <2>7. AllSaved'
      <3>1. SUFFICES ASSUME \A d \in Editors : editing'[d].phase = "rest"
                     PROVE  \A f \in Fields : nvs'[f] = <<inForce[f]>>
        BY DEF AllSaved, AtRest
      <3>2. left = <<>>
        BY <1>6, <3>1
      <3> QED BY <1>3, <2>4, <3>2
    <2>8. Held'
      <3>1. SUFFICES ASSUME NEW f \in Fields
                     PROVE  /\ inForce[f] \in mayHold'[f]
                            /\ nvs'[f] = Unset => WithBuilt[f] \in mayHold'[f]
                            /\ nvs'[f] # Unset => nvs'[f][1] \in mayHold'[f]
        BY DEF Held
      <3>2. <<inForce[f]>> # Unset /\ <<inForce[f]>>[1] = inForce[f]
        BY DEF Unset
      <3>3. CASE mayHold' = mayHold
        <4>1. nvs'[f] = nvs[f] \/ nvs'[f] = <<inForce[f]>>
          BY <1>7, <2>4
        <4> QED BY <2>1, <3>2, <3>3, <4>1 DEF Held
      <3>4. CASE left = <<>> /\ mayHold'[f] = {inForce[f]}
        <4>1. nvs'[f] = <<inForce[f]>>
          BY <1>3, <2>4, <3>4
        <4> QED BY <3>2, <3>4, <4>1
      <3> QED BY <1>8, <3>3, <3>4
    <2> QED BY <2>5, <2>6, <2>7, <2>8
  <1> QED BY <1>10, <1>11, <1>12 DEF SettingsInv

(* The record of an editor at rest.                                         *)
LEMMA RestingEditor ==
  /\ DOMAIN NotSaving = {"phase", "fields", "new", "read"}
  /\ NotSaving.phase = "rest" /\ NotSaving.read = Unset
  BY DEF NotSaving

(* One field is taken into force.                                           *)
LEMMA FieldEdited ==
  ASSUME SettingsInv, NEW e \in Editors, EditField(e)
  PROVE  SettingsInv'
  <1> DEFINE f == Head(editing[e].fields)
             left == Tail(editing[e].fields)
  <1>1. SettingsShape /\ NeverMasked /\ (~disturbed => OneEditor /\ Held /\ SavedSoFar /\ AllSaved)
    BY DEF SettingsInv
  <1>2. editing[e].phase = "edit" /\ editing[e].fields \in Remnants /\ editing[e].read = Unset
    BY <1>1 DEF EditField, SettingsShape, AtRest
  <1>3. f \in Fields /\ (left # <<>> => left \in Remnants) /\ Written(FieldOrder) = {}
        /\ Head(FieldOrder) = "wifi_ssid"
    BY <1>2, SuffixFacts, SuffixSteps
  <1>4. /\ UNCHANGED <<nvs, disturbed>>
        /\ editing' = [editing EXCEPT ![e].phase = IF left = <<>> THEN "save" ELSE "edit",
                                      ![e].fields = IF left = <<>> THEN FieldOrder ELSE left]
    BY DEF EditField
  <1>5. /\ DOMAIN inForce' = Fields /\ DOMAIN mayHold' = Fields
        /\ \A g \in Fields :
             \/ inForce'[g] = inForce[g] /\ mayHold'[g] = mayHold[g]
             \/ /\ inForce'[g] \in mayHold'[g] /\ mayHold[g] \subseteq mayHold'[g]
                /\ g \in Secrets => inForce'[g] # Mask
    <2>1. DOMAIN inForce = Fields /\ DOMAIN mayHold = Fields
      BY <1>1 DEF SettingsShape
    <2>2. CASE ~Takes(f, editing[e].new[f])
      <3>1. UNCHANGED <<inForce, mayHold>>
        BY <2>2 DEF EditField
      <3> HIDE DEF f
      <3> QED BY <2>1, <3>1
    <2>3. CASE Takes(f, editing[e].new[f])
      <3>1. PICK c \in Converted(f, editing[e].new[f]) : Gives(f, c)
        BY <2>3 DEF EditField
      <3>2. inForce' = [inForce EXCEPT ![f] = c] /\ mayHold' = [mayHold EXCEPT ![f] = mayHold[f] \cup {c}]
        BY <3>1 DEF Gives
      <3>3. f \in Secrets => c # Mask
        BY <2>3, TokenTaken
      <3>4. f \in Fields
        BY <1>3
      <3> HIDE DEF f
      <3>5. DOMAIN inForce' = Fields /\ DOMAIN mayHold' = Fields
        BY <2>1, <3>2
      <3>6. inForce'[f] = c /\ mayHold'[f] = mayHold[f] \cup {c}
        BY <2>1, <3>2, <3>4
      <3>7. \A g \in Fields \ {f} : inForce'[g] = inForce[g] /\ mayHold'[g] = mayHold[g]
        BY <2>1, <3>2
      <3> QED BY <3>3, <3>4, <3>5, <3>6, <3>7
    <2> QED BY <2>2, <2>3
  <1> HIDE DEF f, left
  <1>6. DOMAIN editing = Editors /\ DOMAIN (editing[e]) = {"phase", "fields", "new", "read"}
    BY <1>1 DEF SettingsShape
  <1>7. /\ DOMAIN editing' = Editors
        /\ \A d \in Editors \ {e} : editing'[d] = editing[d]
        /\ DOMAIN (editing'[e]) = {"phase", "fields", "new", "read"} /\ editing'[e].read = Unset
        /\ \/ editing'[e].phase = "edit" /\ editing'[e].fields \in Remnants
           \/ editing'[e].phase = "save" /\ editing'[e].fields = FieldOrder
    BY <1>2, <1>3, <1>4, <1>6
  <1>8. FieldOrder \in Remnants
    BY DEF Remnants
  <1>9. SettingsShape'
    BY <1>1, <1>4, <1>5, <1>7, <1>8 DEF SettingsShape, AtRest
  <1>10. NeverMasked'
    <2>1. Unset # <<Mask>>
      BY DEF Unset
    <2>2. \A g \in Secrets : inForce'[g] # Mask /\ nvs'[g] # <<Mask>>
      BY <1>1, <1>4, <1>5, PlainValues DEF NeverMasked
    <2>3. \A d \in Editors : editing'[d] = editing[d] \/ editing'[d].read = Unset
      BY <1>7
    <2>4. \A g \in Secrets, d \in Editors :
            editing'[d].phase = "save" /\ Head(editing'[d].fields) = g => editing'[d].read # <<Mask>>
      BY <1>1, <2>1, <2>3 DEF NeverMasked
    <2> QED BY <2>2, <2>4 DEF NeverMasked
  <1>11. ASSUME ~disturbed' PROVE OneEditor' /\ Held' /\ SavedSoFar' /\ AllSaved'
    <2>1. OneEditor /\ Held
      BY <1>1, <1>4, <1>11
    <2>2. \A d \in Editors \ {e} : editing[d].phase = "rest" /\ editing'[d] = editing[d]
      BY <1>2, <1>7, <2>1 DEF OneEditor, AtRest
    <2>3. OneEditor' /\ AllSaved'
      BY <1>7, <2>2 DEF OneEditor, AllSaved, AtRest
    <2>4. SavedSoFar'
      BY <1>3, <1>7, <2>2 DEF SavedSoFar
    <2>5. Held'
      BY <1>4, <1>5, <2>1 DEF Held
    <2> QED BY <2>3, <2>4, <2>5
  <1> QED BY <1>9, <1>10, <1>11 DEF SettingsInv

(* Every step preserves the invariant.                                      *)
LEMMA SettingsStep == SettingsInv /\ [SettingsNext]_settingsVars => SettingsInv'
  <1> SUFFICES ASSUME SettingsInv, [SettingsNext]_settingsVars PROVE SettingsInv'
    OBVIOUS
  <1>0. SettingsShape /\ NeverMasked /\ (~disturbed => OneEditor /\ Held /\ SavedSoFar /\ AllSaved)
    BY DEF SettingsInv
  <1>a. DOMAIN inForce = Fields /\ DOMAIN mayHold = Fields /\ DOMAIN editing = Editors /\ DOMAIN nvs = Fields
    BY <1>0 DEF SettingsShape
  <1>b. "web" \in Editors /\ "main" \in Editors /\ "volume" \in Fields /\ FieldOrder \in Remnants /\ FromVolume \in Remnants
    BY FieldNames DEF Editors, Remnants
  <1>1. CASE Export
    <2>1. UNCHANGED <<inForce, nvs, editing, mayHold, disturbed>>
      BY <1>1 DEF Export
    <2> QED BY <1>0, <2>1 DEF SettingsInv, SettingsShape, NeverMasked, OneEditor, Held, SavedSoFar, AllSaved, AtRest
  <1>2. CASE PutSettings
    <2>1. UNCHANGED <<inForce, nvs, mayHold>>
      BY <1>2 DEF PutSettings
    <2>2. ASSUME NEW new, BeginEdit("web", new) PROVE SettingsInv'
      BY <1>a, <1>b, <2>1, <2>2, EditBegins DEF BeginEdit
    <2> QED BY <1>2, <2>2, Zenon DEF PutSettings
  <1>3. CASE ResetSettings
    <2>1. BeginEdit("web", Bare) /\ inForce' = Zero /\ nvs' = nvs
          /\ mayHold' = [f \in Fields |-> mayHold[f] \cup {Zero[f]}]
      BY <1>3 DEF ResetSettings
    <2>2. \A f \in Fields : inForce'[f] \in mayHold'[f] /\ mayHold[f] \subseteq mayHold'[f]
               /\ (f \in Secrets => inForce'[f] # Mask)
      BY <2>1, PlainValues
    <2>3. DOMAIN inForce' = Fields /\ DOMAIN mayHold' = Fields
      BY <2>1, PlainValues
    <2> QED BY <1>b, <2>1, <2>2, <2>3, EditBegins DEF BeginEdit
  <1>4. ASSUME NEW v \in Spoken, SpeakVolume(v) PROVE SettingsInv'
    <2> DEFINE new == [inForce EXCEPT !["volume"] = IF v < 0 THEN 0 ELSE IF v > 100 THEN 100 ELSE v]
    <2>1. /\ AtRest("main")
          /\ editing' = [editing EXCEPT !["main"] =
               [phase |-> "edit", fields |-> <<"volume">>, new |-> new, read |-> Unset]]
      BY <1>4 DEF SpeakVolume
    <2> HIDE DEF new
    <2>2. disturbed' = (disturbed \/ \E o \in Editors \ {"main"} : ~AtRest(o))
      BY <1>4 DEF SpeakVolume, Editors
    <2>3. UNCHANGED <<inForce, nvs, mayHold>>
      BY <1>4 DEF SpeakVolume
    <2> QED BY <1>a, <1>b, <2>1, <2>2, <2>3, EditBegins DEF FromVolume
  <1>5. ASSUME NEW e \in Editors, EditField(e) PROVE SettingsInv'
    BY <1>5, FieldEdited
  <1>6. ASSUME NEW e \in Editors, ReadField(e) PROVE SettingsInv'
    <2>1. /\ UNCHANGED <<inForce, nvs, mayHold, disturbed>>
          /\ editing[e].phase = "save" /\ editing[e].read = Unset
          /\ editing' = [editing EXCEPT ![e].read = <<inForce[Head(editing[e].fields)]>>]
      BY <1>6 DEF ReadField
    <2>2. /\ DOMAIN editing' = Editors
          /\ editing'[e] = [editing[e] EXCEPT !.read = <<inForce[Head(editing[e].fields)]>>]
          /\ \A d \in Editors \ {e} : editing'[d] = editing[d]
      BY <1>a, <2>1
    <2>3. DOMAIN (editing[e]) = {"phase", "fields", "new", "read"} /\ editing[e].fields \in Remnants
      BY <1>0, <2>1 DEF SettingsShape, AtRest
    <2>4. /\ DOMAIN (editing'[e]) = {"phase", "fields", "new", "read"}
          /\ editing'[e].phase = "save" /\ editing'[e].fields = editing[e].fields
          /\ editing'[e].read = <<inForce[Head(editing[e].fields)]>>
      BY <2>1, <2>2, <2>3
    <2>5. <<inForce[Head(editing[e].fields)]>>[1] = inForce[Head(editing[e].fields)]
      OBVIOUS
    <2>6. SettingsShape'
      BY <1>0, <2>1, <2>2, <2>3, <2>4, <2>5 DEF SettingsShape, AtRest
    <2>7. NeverMasked'
      <3>1. SUFFICES ASSUME NEW f \in Secrets, NEW d \in Editors, editing'[d].phase = "save",
                            Head(editing'[d].fields) = f
                     PROVE  editing'[d].read # <<Mask>>
        BY <1>0, <2>1 DEF NeverMasked
      <3>2. CASE d = e
        <4>1. editing'[d].read = <<inForce[f]>> /\ inForce[f] # Mask
          BY <1>0, <2>4, <3>1, <3>2 DEF NeverMasked
        <4>2. <<inForce[f]>>[1] = inForce[f] /\ <<Mask>>[1] = Mask
          OBVIOUS
        <4> QED BY <4>1, <4>2
      <3>3. CASE d # e
        BY <1>0, <2>2, <3>1, <3>3 DEF NeverMasked
      <3> QED BY <3>2, <3>3
    <2>8. \A d \in Editors : editing'[d].phase = editing[d].phase /\ editing'[d].fields = editing[d].fields
      BY <2>1, <2>2, <2>4
    <2>9. ASSUME ~disturbed' PROVE OneEditor' /\ Held' /\ SavedSoFar' /\ AllSaved'
      <3>1. OneEditor /\ Held /\ SavedSoFar /\ AllSaved
        BY <1>0, <2>1, <2>9
      <3>2. OneEditor' /\ Held' /\ AllSaved'
        BY <2>1, <2>8, <3>1 DEF OneEditor, Held, AllSaved, AtRest
      <3>3. SavedSoFar'
        BY <2>1, <2>2, <2>4, <3>1 DEF SavedSoFar
      <3> QED BY <3>2, <3>3
    <2> QED BY <2>6, <2>7, <2>9 DEF SettingsInv
  <1>7. ASSUME NEW e \in Editors, WriteField(e) PROVE SettingsInv'
    BY <1>7, SaveStep DEF WriteField
  <1>8. ASSUME NEW e \in Editors, WriteFails(e) PROVE SettingsInv'
    BY <1>8, SaveStep DEF WriteFails
  <1>9. ASSUME NEW e \in Editors, OpenFails(e) PROVE SettingsInv'
    <2>1. /\ UNCHANGED <<inForce, nvs, mayHold>> /\ disturbed' = TRUE
          /\ editing' = [editing EXCEPT ![e] = NotSaving]
      BY <1>9 DEF OpenFails
    <2>2. /\ DOMAIN editing' = Editors /\ editing'[e] = NotSaving
          /\ \A d \in Editors \ {e} : editing'[d] = editing[d]
      BY <1>a, <2>1
    <2> QED BY <1>0, <2>1, <2>2, RestingEditor DEF SettingsInv, SettingsShape, NeverMasked, AtRest
  <1>10. ASSUME NEW erased \in BOOLEAN, Reboot(erased) PROVE SettingsInv'
    <2>1. /\ inForce' = Loaded(nvs') /\ editing' = [d \in Editors |-> NotSaving] /\ mayHold' = mayHold
          /\ erased => disturbed' = TRUE /\ nvs' = [f \in Fields |-> Unset]
          /\ ~erased => disturbed' = disturbed /\ nvs' = nvs
      BY <1>0, <1>10 DEF Reboot, SettingsShape
    <2>2. DOMAIN editing' = Editors /\ \A d \in Editors : editing'[d] = NotSaving
      BY <2>1
    <2>3. /\ DOMAIN nvs' = Fields
          /\ \A f \in Fields : nvs'[f] = nvs[f] \/ nvs'[f] = Unset
      BY <1>a, <2>1
    <2>4. /\ DOMAIN inForce' = Fields
          /\ \A f \in Fields : inForce'[f] = IF nvs'[f] = Unset THEN WithBuilt[f] ELSE nvs'[f][1]
      BY <2>1, LoadedValues DEF Loaded
    <2>5. \A f \in Fields : nvs'[f] = Unset \/ nvs'[f] = <<nvs'[f][1]>>
      BY <1>0, <2>3 DEF SettingsShape
    <2>6. disturbed' \in BOOLEAN
      BY <1>0, <2>1 DEF SettingsShape
    <2>7. SettingsShape'
      BY <1>a, <2>1, <2>2, <2>3, <2>4, <2>5, <2>6, RestingEditor DEF SettingsShape, AtRest
    <2>8. NeverMasked'
      <3>1. SUFFICES ASSUME NEW f \in Secrets PROVE inForce'[f] # Mask /\ nvs'[f] # <<Mask>>
        BY <2>2, RestingEditor DEF NeverMasked
      <3>2. f \in Fields /\ WithBuilt[f] # Mask
        BY PlainValues
      <3>3. nvs'[f] # <<Mask>>
        BY <1>0, <2>3, <3>2 DEF NeverMasked, Unset
      <3>4. nvs'[f] # Unset => nvs'[f][1] # Mask
        BY <2>5, <3>2, <3>3
      <3> QED BY <2>4, <3>2, <3>3, <3>4
    <2>9. ASSUME ~disturbed' PROVE OneEditor' /\ Held' /\ SavedSoFar' /\ AllSaved'
      <3>1. Held /\ nvs' = nvs
        BY <1>0, <2>1, <2>9
      <3>2. OneEditor' /\ SavedSoFar'
        BY <2>2, RestingEditor DEF OneEditor, SavedSoFar, AtRest
      <3>3. Held'
        BY <2>1, <2>4, <3>1 DEF Held
      <3>4. AllSaved'
        BY <2>4, <2>5 DEF AllSaved
      <3> QED BY <3>2, <3>3, <3>4
    <2> QED BY <2>7, <2>8, <2>9 DEF SettingsInv
  <1>11. CASE UNCHANGED settingsVars
    <2>1. UNCHANGED <<inForce, nvs, editing, mayHold, disturbed>>
      BY <1>11 DEF settingsVars
    <2> QED BY <1>0, <2>1 DEF SettingsInv, SettingsShape, NeverMasked, OneEditor, Held, SavedSoFar, AllSaved, AtRest
  <1> QED BY <1>1, <1>2, <1>3, <1>4, <1>5, <1>6, <1>7, <1>8, <1>9, <1>10, <1>11 DEF SettingsNext

(* With one editor at a time and writes that succeed, what a restart loads  *)
(* is what was in force; and the mask is never taken for a secret, whatever *)
(* fails or overlaps, for any number of edits.                              *)
THEOREM SettingsKept == SettingsSpec => []SettingsSurvive
  <1>1. SettingsInv => SettingsSurvive
    BY DEF SettingsInv, NeverMasked, Held, AllSaved, SettingsSurvive
  <1> QED BY <1>1, SettingsStart, SettingsStep, PTL DEF SettingsSpec

-----------------------------------------------------------------------------
(* The web server.                                                          *)

(* The requests whose effect comes from a body.                             *)
Carries == Bodied \cup OnePiece

(* What a request holds of the heap depends on how far it is.               *)
HeapAt ==
  /\ webStage \in {"idle", "start"} => webHeap = {}
  /\ webStage \in {"recv", "parse"} => webHeap \subseteq {"buf"}
  /\ webStage \in {"recv", "parse"} /\ route \notin Bodied \cup Lenient => webHeap = {}
  /\ webStage \in {"apply", "build"} => webHeap \subseteq {"json"}
  /\ webStage = "answer" => webHeap \subseteq {"str"}

(* A request is answered when it ends, once, and has no effect before.      *)
AnswerAt ==
  /\ webStage # "idle" => answers = {} /\ route # "none" /\ effects = <<>>
  /\ webStage = "idle" /\ route # "none" => \E a \in {"ok", "not_ok", "400", "500"} : answers = {a}
  /\ route = "none" => answers = {} /\ effects = <<>>

(* What takes effect had come whole and could be parsed, and was answered   *)
(* ok.                                                                      *)
EffectAt ==
  /\ webStage = "apply" /\ route \in Carries => received = length /\ body # "garbage"
  /\ effects # <<>> /\ route \in Carries => received = length /\ body # "garbage"
  /\ answers # {} /\ answers # {"ok"} => effects = <<>>

(* The interface shows whether the server runs.                             *)
ServerShown == shownServer = (server = "running")

(* The inductive invariant.                                                 *)
WebInv == WebTypeOK /\ HeapAt /\ AnswerAt /\ EffectAt /\ ServerShown

(* The initial state satisfies the invariant.                               *)
LEMMA WebStarts == WebInit => WebInv
  <1> SUFFICES ASSUME WebInit PROVE WebInv
    OBVIOUS
  <1>1. WebTypeOK
    <2>1. length \in 0..(MaxPieces + 1) /\ received \in 0..MaxPieces
      BY WebAssumption DEF WebInit
    <2>2. shownServer \in BOOLEAN /\ webHeap \subseteq {"buf", "json", "str"}
      BY DEF WebInit
    <2>3. body \in Bodies /\ server \in {"stopped", "running"} /\ route \in Routes \cup {"none"}
      BY DEF WebInit, Bodies
    <2> QED BY <2>1, <2>2, <2>3 DEF WebInit, WebTypeOK
  <1>2. HeapAt /\ AnswerAt /\ EffectAt
    BY DEF WebInit, HeapAt, AnswerAt, EffectAt
  <1>3. ServerShown
    BY DEF WebInit, ServerShown
  <1> QED BY <1>1, <1>2, <1>3 DEF WebInv

(* A reply is the only one.                                                 *)
LEMMA OneReply ==
  ASSUME NEW r, answers = {}, Reply(r)
  PROVE  answers' = {r} /\ webStage' = "idle"
  BY DEF Reply, ToStage

(* Every step preserves the invariant.                                      *)
LEMMA WebStep == WebInv /\ [WebNext]_webVars => WebInv'
  <1> SUFFICES ASSUME WebInv, [WebNext]_webVars PROVE WebInv'
    OBVIOUS
  <1> USE WebAssumption DEF WebInv, AtStage, ToStage, Still, RequestVars, TooLong, OutOfMemory
  <1>0. /\ answers # {} => webStage = "idle"
        /\ webStage # "idle" => effects = <<>> /\ route # "none"
    BY DEF AnswerAt
  <1>1. ASSUME NEW ok \in BOOLEAN, Toggle(ok) PROVE WebInv'
    <2>1. WebTypeOK' /\ ServerShown'
      BY <1>1 DEF Toggle, WebTypeOK, ServerShown
    <2>2. HeapAt' /\ AnswerAt' /\ EffectAt'
      BY <1>1 DEF Toggle, HeapAt, AnswerAt, EffectAt
    <2> QED BY <2>1, <2>2
  <1>2. ASSUME NEW r \in Routes, NEW b \in Bodies, NEW n \in 0..(MaxPieces + 1), Arrives(r, b, n)
        PROVE  WebInv'
    <2>1. WebTypeOK' /\ ServerShown'
      BY <1>2 DEF Arrives, WebTypeOK, ServerShown
    <2>2. r # "none"
      BY DEF Routes, Bodied, Lenient, OnePiece, Reports, Checked, Plain
    <2>3. HeapAt' /\ AnswerAt' /\ EffectAt'
      BY <1>2, <2>2 DEF Arrives, HeapAt, AnswerAt, EffectAt
    <2> QED BY <2>1, <2>3
  <1>3. ASSUME RefuseLength PROVE WebInv'
    <2>1. answers' = {"400"} /\ webStage' = "idle"
      BY <1>3, OneReply DEF RefuseLength, AnswerAt
    <2>2. UNCHANGED <<server, route, body, length, shownServer, received, webHeap, effects>> /\ webStage = "start"
      BY <1>3 DEF RefuseLength
    <2> QED BY <1>0, <2>1, <2>2 DEF WebTypeOK, HeapAt, AnswerAt, EffectAt, ServerShown
  <1>4. ASSUME AllocateBuffer PROVE WebInv'
    <2>1. /\ UNCHANGED <<server, route, body, length, shownServer, received, effects>> /\ webStage = "start"
          /\ webHeap = {} /\ answers = {} /\ effects = <<>> /\ route # "none"
          /\ route \in Bodied \cup Lenient
      BY <1>4 DEF AllocateBuffer, HeapAt, AnswerAt
    <2>2. \/ webHeap' = {"buf"} /\ webStage' = "recv" /\ answers' = {}
          \/ webHeap' = {} /\ webStage' = "idle" /\ answers' = {"500"}
          \/ webHeap' = {} /\ webStage' = "build" /\ answers' = {}
      BY <1>4, <2>1, OneReply DEF AllocateBuffer
    <2> QED BY <2>1, <2>2 DEF WebTypeOK, HeapAt, AnswerAt, EffectAt, ServerShown
  <1>5. ASSUME NoBuffer PROVE WebInv'
    <2>1. /\ UNCHANGED <<server, route, body, length, shownServer, received, webHeap, answers, effects>>
          /\ webStage = "start" /\ webHeap = {} /\ answers = {} /\ effects = <<>> /\ route # "none"
      BY <1>5 DEF NoBuffer, HeapAt, AnswerAt
    <2>2. webStage' \in {"build", "recv"} \/ (webStage' = "apply" /\ route \notin Carries)
      BY <1>5 DEF NoBuffer, Plain, Carries, Bodied, OnePiece
    <2> QED BY <2>1, <2>2 DEF WebTypeOK, HeapAt, AnswerAt, EffectAt, ServerShown
  <1>6. ASSUME ReceivePiece PROVE WebInv'
    <2>1. /\ UNCHANGED <<server, route, body, length, shownServer, webHeap, answers, effects>>
          /\ webStage = "recv" /\ answers = {} /\ effects = <<>> /\ route # "none"
          /\ webStage' \in {"parse", "recv"}
      BY <1>6 DEF ReceivePiece, AnswerAt
    <2>2. received' \in 0..MaxPieces
      BY <1>6 DEF ReceivePiece, WebTypeOK
    <2> QED BY <2>1, <2>2 DEF WebTypeOK, HeapAt, AnswerAt, EffectAt, ServerShown
  <1>7. ASSUME ReceiveFails PROVE WebInv'
    <2>1. /\ UNCHANGED <<server, route, body, length, shownServer, received, effects>>
          /\ webStage = "recv" /\ answers = {} /\ effects = <<>> /\ route # "none"
          /\ webHeap \subseteq {"buf"} /\ (route \notin Bodied \cup Lenient => webHeap = {})
      BY <1>7 DEF ReceiveFails, AnswerAt, HeapAt
    <2>2. route \in Bodied => route \notin Lenient
      BY DEF Bodied, Lenient
    <2>3. CASE route \in Bodied
      <3>1. webHeap' = {} /\ answers' = {"500"} /\ webStage' = "idle"
        BY <1>7, <2>1, <2>2, <2>3, OneReply DEF ReceiveFails
      <3> QED BY <2>1, <3>1 DEF WebTypeOK, HeapAt, AnswerAt, EffectAt, ServerShown
    <2>4. CASE route \in Lenient
      <3>1. webHeap' = webHeap /\ answers' = {} /\ webStage' = "parse"
        BY <1>7, <2>1, <2>2, <2>4 DEF ReceiveFails
      <3> QED BY <2>1, <2>4, <3>1 DEF WebTypeOK, HeapAt, AnswerAt, EffectAt, ServerShown
    <2>5. CASE route \notin Bodied \cup Lenient
      <3>1. webHeap' = {} /\ answers' = {"not_ok"} /\ webStage' = "idle"
        BY <1>7, <2>1, <2>5, OneReply DEF ReceiveFails
      <3> QED BY <2>1, <3>1 DEF WebTypeOK, HeapAt, AnswerAt, EffectAt, ServerShown
    <2> QED BY <2>3, <2>4, <2>5
  <1>8. ASSUME ParseBody PROVE WebInv'
    <2>1. /\ UNCHANGED <<server, route, body, length, shownServer, received, effects>>
          /\ webStage = "parse" /\ answers = {} /\ effects = <<>> /\ route # "none"
          /\ webHeap \subseteq {"buf"}
      BY <1>8 DEF ParseBody, AnswerAt, HeapAt
    <2>2. /\ webHeap' \subseteq {"json"}
          /\ Worth = "garbage" => webHeap' = {}
      BY <1>8, <2>1 DEF ParseBody
    <2>3. \/ webStage' = "build" /\ answers' = {}
          \/ webStage' = "idle" /\ Worth = "garbage" /\ \E a \in {"400", "not_ok"} : answers' = {a}
          \/ webStage' = "apply" /\ answers' = {} /\ (route \in Carries => Worth # "garbage")
      <3>1. CASE route \in Lenient
        <4>1. route \notin Bodied \cup OnePiece
          BY <3>1 DEF Bodied, OnePiece, Lenient
        <4> QED BY <1>8, <2>1, <3>1, <4>1 DEF ParseBody
      <3>2. CASE route \in Bodied /\ Worth = "garbage"
        <4>1. route \notin Lenient \cup OnePiece
          BY <3>2 DEF Bodied, OnePiece, Lenient
        <4>2. Reply("400")
          BY <1>8, <3>2, <4>1 DEF ParseBody
        <4> QED BY <2>1, <3>2, <4>2, OneReply
      <3>3. CASE route \in OnePiece /\ Worth = "garbage"
        <4>1. route \notin Lenient \cup Bodied
          BY <3>3 DEF Bodied, OnePiece, Lenient
        <4>2. Reply("not_ok")
          BY <1>8, <3>3, <4>1 DEF ParseBody
        <4> QED BY <2>1, <3>3, <4>2, OneReply
      <3>4. CASE route \notin Lenient /\ ~(route \in Carries /\ Worth = "garbage")
        BY <1>8, <2>1, <3>4 DEF ParseBody, Carries
      <3> QED BY <3>1, <3>2, <3>3, <3>4 DEF Carries
    <2>4. Worth # "garbage" => received = length /\ body # "garbage"
      BY DEF Worth
    <2> QED BY <2>1, <2>2, <2>3, <2>4 DEF WebTypeOK, HeapAt, AnswerAt, EffectAt, ServerShown
  <1>9. ASSUME ApplyRequest PROVE WebInv'
    <2>1. /\ UNCHANGED <<server, route, body, length, shownServer, received>>
          /\ webStage = "apply" /\ answers = {} /\ effects = <<>> /\ route # "none"
          /\ webHeap \subseteq {"json"}
          /\ (route \in Carries => received = length /\ body # "garbage")
      BY <1>9 DEF ApplyRequest, AnswerAt, HeapAt, EffectAt
    <2>2. webHeap' = {}
      BY <1>9, <2>1 DEF ApplyRequest
    <2>3. \/ effects' = <<>> /\ webStage' = "idle" /\ \E a \in {"400", "not_ok"} : answers' = {a}
          \/ effects' = <<>> /\ webStage' = "build" /\ answers' = {}
          \/ webStage' = "idle" /\ answers' = {"ok"}
      <3>1. \/ effects' = <<>> /\ Reply(IF route \in OnePiece THEN "not_ok" ELSE "400")
            \/ effects' = <<>> /\ ToStage("build") /\ UNCHANGED answers
            \/ effects' = <<>> /\ Reply("not_ok")
            \/ Reply("ok")
        BY <1>9, Zenon DEF ApplyRequest
      <3> QED BY <2>1, <3>1, OneReply
    <2> QED BY <2>1, <2>2, <2>3 DEF WebTypeOK, HeapAt, AnswerAt, EffectAt, ServerShown
  <1>10. ASSUME BuildAnswer PROVE WebInv'
    <2>1. /\ UNCHANGED <<server, route, body, length, shownServer, received, effects>>
          /\ webStage = "build" /\ answers = {} /\ effects = <<>> /\ route # "none"
          /\ webHeap \subseteq {"json"}
      BY <1>10 DEF BuildAnswer, AnswerAt, HeapAt
    <2>2. \/ webHeap' = {"str"} /\ webStage' = "answer" /\ answers' = {}
          \/ webHeap' = {} /\ webStage' = "idle" /\ answers' = {"500"}
          \/ webHeap' = {} /\ webStage' = "crashed" /\ answers' = {}
      BY <1>10, <2>1, OneReply DEF BuildAnswer
    <2> QED BY <2>1, <2>2 DEF WebTypeOK, HeapAt, AnswerAt, EffectAt, ServerShown
  <1>11. ASSUME SendAnswer PROVE WebInv'
    <2>1. /\ UNCHANGED <<server, route, body, length, shownServer, received, effects>>
          /\ webStage = "answer" /\ answers = {} /\ effects = <<>> /\ route # "none"
          /\ webHeap \subseteq {"str"}
      BY <1>11 DEF SendAnswer, AnswerAt, HeapAt
    <2>2. webHeap' = {} /\ webStage' = "idle" /\ \E a \in {"ok", "not_ok"} : answers' = {a}
      BY <1>11, <2>1, OneReply DEF SendAnswer
    <2> QED BY <2>1, <2>2 DEF WebTypeOK, HeapAt, AnswerAt, EffectAt, ServerShown
  <1>12. CASE UNCHANGED webVars
    BY <1>12 DEF webVars, WebTypeOK, HeapAt, AnswerAt, EffectAt, ServerShown
  <1> QED BY <1>1, <1>2, <1>3, <1>4, <1>5, <1>6, <1>7, <1>8, <1>9, <1>10, <1>11, <1>12 DEF WebNext

(* Every request is answered once, leaves nothing on the heap, and has an   *)
(* effect only if its body came whole, for bodies of any length.            *)
THEOREM RequestsKept == WebSpec => []RequestsHold
  <1>1. WebInv => RequestsHold
    <2> SUFFICES ASSUME WebInv PROVE RequestsHold
      OBVIOUS
    <2>1. answers = {} \/ \E a : answers = {a}
      BY DEF WebInv, AnswerAt
    <2>2. Cardinality(answers) <= 1 /\ (answers # {} => Cardinality(answers) = 1)
      <3>1. CASE answers = {}
        <4>1. Cardinality({}) = 0
          BY FS_EmptySet
        <4> QED BY <3>1, <4>1
      <3>2. ASSUME NEW a, answers = {a} PROVE Cardinality(answers) = 1
        BY <3>2, FS_Singleton
      <3> QED BY <2>1, <3>1, <3>2
    <2>3. webStage = "idle" /\ route # "none" => answers # {} /\ webHeap = {}
      BY DEF WebInv, AnswerAt, HeapAt
    <2> QED BY <2>2, <2>3 DEF WebInv, EffectAt, ServerShown, RequestsHold, Carries
  <1> QED BY <1>1, WebStarts, WebStep, PTL DEF WebSpec

-----------------------------------------------------------------------------
(* The types of the status task, the Wi-Fi manager and the settings.        *)

(* The light, the round and the counters have their types.                  *)
RoundMarks ==
  /\ link \in {"connected", "down", "other"} /\ lightShows \in {"state", "activity"}
  /\ roundAt \in {"look", "on", "off", "poll", "watch"}
  /\ dozing \in BOOLEAN /\ uiIdle \in BOOLEAN /\ busy \in BOOLEAN
  /\ activityLed \in BOOLEAN /\ sawBusy \in BOOLEAN

LEMMA RoundMarksStep == RoundMarks /\ [StatusNext]_statusVars => RoundMarks'
  <1> SUFFICES ASSUME RoundMarks, [StatusNext]_statusVars PROVE RoundMarks'
    OBVIOUS
  <1> USE DEF RoundMarks, Outside
  <1>1. CASE Others
    <2>1. UNCHANGED <<activityLed, roundAt, sawBusy>>
      BY <1>1 DEF Others
    <2>2. link' \in {"connected", "down", "other"} /\ lightShows' \in {"state", "activity"}
      BY <1>1 DEF Others
    <2>3. dozing' \in BOOLEAN /\ uiIdle' \in BOOLEAN /\ busy' \in BOOLEAN
      BY <1>1, Zenon DEF Others
    <2> QED BY <2>1, <2>2, <2>3
  <1>2. CASE AsleepRoundStep
    BY <1>2 DEF AsleepRoundStep
  <1>3. CASE AwakeLooks
    <2>1. roundAt' \in {"on", "off", "poll", "watch"}
      BY <1>3, SMT DEF AwakeLooks
    <2>2. sawBusy' = busy /\ UNCHANGED <<link, uiIdle, busy, dozing, activityLed, lightShows>>
      BY <1>3 DEF AwakeLooks
    <2> QED BY <2>1, <2>2
  <1>4. CASE LightOn
    BY <1>4 DEF LightOn
  <1>5. CASE LightOff
    BY <1>5 DEF LightOff
  <1>6. CASE PollTasks
    BY <1>6 DEF PollTasks
  <1>7. CASE AwakeWatches
    BY <1>7 DEF AwakeWatches
  <1>8. CASE UNCHANGED statusVars
    BY <1>8 DEF statusVars
  <1> QED BY <1>1, <1>2, <1>3, <1>4, <1>5, <1>6, <1>7, <1>8 DEF StatusNext

LEMMA StatusTyped == StatusSpec => []StatusTypeOK
  <1>1. StatusInit => RoundMarks
    BY DEF StatusInit, RoundMarks
  <1>2. RoundInv /\ RoundMarks => StatusTypeOK
    BY DEF RoundInv, RoundMarks, StatusTypeOK
  <1> QED BY <1>1, <1>2, RoundInit, RoundNext, RoundMarksStep, PTL DEF StatusSpec

(* The states, the driver's events and the count of connections.            *)
LinkMarks ==
  /\ wifiState \in WifiStates /\ links \in 0..MaxLinks /\ connectedBit \in BOOLEAN
  /\ shownWifi \in {"none", "connecting", "ok", "failed"}

LEMMA LinkMarksStep == LinkMarks /\ [WifiNext]_wifiVars => LinkMarks'
  <1> SUFFICES ASSUME LinkMarks, [WifiNext]_wifiVars PROVE LinkMarks'
    OBVIOUS
  <1> USE DEF LinkMarks
  <1>0. \A st \in WifiStates : SetWifiState(st) =>
          /\ wifiState' \in WifiStates /\ connectedBit' \in BOOLEAN
          /\ shownWifi' \in {"none", "connecting", "ok", "failed"}
    BY SMT DEF SetWifiState, WifiStates
  <1>s. {"CONNECTING", "FAILED", "CONNECTED"} \subseteq WifiStates
    BY DEF WifiStates
  <1>1. CASE WifiStart
    BY <1>1 DEF WifiStart
  <1>2. CASE LinkUp
    <2>1. links' \in 0..MaxLinks
      BY <1>2, WifiAssumption DEF LinkUp
    <2> QED BY <1>2, <2>1 DEF LinkUp
  <1>3. CASE LinkDown
    BY <1>3 DEF LinkDown
  <1>4. CASE OnStart
    BY <1>0, <1>s, <1>4 DEF OnStart
  <1>5. CASE OnDisconnected
    BY <1>0, <1>s, <1>5 DEF OnDisconnected
  <1>6. CASE OnGotIp
    BY <1>0, <1>s, <1>6 DEF OnGotIp
  <1>7. CASE UNCHANGED wifiVars
    BY <1>7 DEF wifiVars
  <1> QED BY <1>1, <1>2, <1>3, <1>4, <1>5, <1>6, <1>7 DEF WifiNext

LEMMA WifiTyped == WifiSpec => []WifiTypeOK
  <1>1. WifiInit => LinkMarks
    <2>1. WifiInit => links = 0 /\ connectedBit = FALSE /\ shownWifi = "none" /\ wifiState \in WifiStates
      BY DEF WifiInit, WifiStates
    <2>2. 0 \in 0..MaxLinks
      BY WifiAssumption
    <2> QED BY <2>1, <2>2 DEF LinkMarks
  <1>2. LinkInv /\ LinkMarks => WifiTypeOK
    <2> SUFFICES ASSUME LinkInv, LinkMarks PROVE WifiTypeOK
      OBVIOUS
    <2>1. events \in Seq({"START", "DISCONNECTED", "GOT_IP"})
      <3>1. events \in {<<>>, <<"START">>, <<"DISCONNECTED">>, <<"GOT_IP", "DISCONNECTED">>, <<"GOT_IP">>}
        BY Zenon DEF LinkInv
      <3> DEFINE S == Seq({"START", "DISCONNECTED", "GOT_IP"})
      <3>2. /\ <<>> \in S /\ <<"START">> \in S /\ <<"DISCONNECTED">> \in S
            /\ <<"GOT_IP", "DISCONNECTED">> \in S /\ <<"GOT_IP">> \in S
        OBVIOUS
      <3> HIDE DEF S
      <3>3. events \in S
        BY <3>1, <3>2, Zenon
      <3> QED BY <3>3 DEF S
    <2>2. radio \in {"off", "idle", "trying", "linked"}
      BY DEF LinkInv
    <2> QED BY <2>1, <2>2 DEF LinkInv, LinkMarks, WifiTypeOK
  <1> QED BY <1>1, <1>2, LinkInit, LinkNext, LinkMarksStep, PTL DEF WifiSpec

(* WholeFields of the settings.  A conversion makes any number fit its field.   *)
WholeFields == Fields \ Texts
Numeric(new) == \A f \in WholeFields : new[f] \in Int

LEMMA NumberFields == WholeFields = {"oc_port", "volume"} /\ \A f \in WholeFields : Widest[f] \in Nat
  <1>1. WholeFields = {"oc_port", "volume"}
    BY FieldNames DEF WholeFields, Texts
  <1> QED BY <1>1 DEF Widest, WholeFields

LEMMA WholeFits == ASSUME NEW f \in Fields, NEW v, InWidth(f, v) PROVE f \in WholeFields => v \in Int
  BY NumberFields DEF InWidth, WholeFields

LEMMA ConvertedFits ==
  ASSUME NEW f \in Fields, NEW v, f \in WholeFields => v \in Int, NEW c \in Converted(f, v)
  PROVE  InWidth(f, c)
  <1>1. CASE f \in Texts
    BY <1>1 DEF InWidth
  <1>2. CASE f \notin Texts
    <2> DEFINE w == Widest[f]
    <2>1. w \in Nat /\ v \in Int
      BY <1>2, NumberFields DEF WholeFields
    <2>2. (c = v /\ InWidth(f, v)) \/ c = v % (w + 1) \/ c = 0 \/ c = w
      BY DEF Converted
    <2> HIDE DEF w
    <2>3. v % (w + 1) \in 0..w
      BY <2>1
    <2>4. (c = v /\ InWidth(f, v)) \/ c \in 0..w
      BY <2>1, <2>2, <2>3
    <2> QED BY <2>4 DEF InWidth, w
  <1> QED BY <1>1, <1>2

LEMMA BareFits ==
  /\ Numeric(Bare)
  /\ \A f \in Fields : InWidth(f, Bare[f]) /\ InWidth(f, Zero[f]) /\ InWidth(f, WithBuilt[f])
  <1>1. ASSUME NEW f \in WholeFields PROVE Bare[f] \in 0..Widest[f] /\ Zero[f] \in 0..Widest[f]
    <2>1. f \in Fields /\ f \notin Texts /\ (f = "oc_port" \/ f = "volume")
      BY NumberFields DEF WholeFields
    <2>2. Zero[f] = 0
      BY <2>1 DEF Zero
    <2>3. Bare[f] = (IF f = "oc_port" THEN 18789 ELSE 100)
      BY <2>1, SMT DEF Bare
    <2>4. Widest[f] = (IF f = "oc_port" THEN 65535 ELSE 255)
      BY <2>1 DEF Widest
    <2> QED BY <2>1, <2>2, <2>3, <2>4
  <1>2. \A f \in Fields : InWidth(f, Bare[f]) /\ InWidth(f, Zero[f])
    BY <1>1 DEF InWidth, WholeFields
  <1>3. \A f \in Fields : InWidth(f, WithBuilt[f])
    BY <1>2, NumbersAssumption DEF WithBuilt
  <1>4. Numeric(Bare)
    BY <1>1, NumberFields DEF Numeric
  <1> QED BY <1>2, <1>3, <1>4

(* What is in force and stored fits, and what is given to an editor is a    *)
(* number where the field is one.                                           *)
AllFit ==
  /\ \A f \in Fields : InWidth(f, inForce[f]) /\ (nvs[f] # Unset => InWidth(f, nvs[f][1]))
  /\ page # <<>> => DOMAIN (page[1]) = Fields /\ Numeric(page[1])
  /\ \A e \in Editors :
       /\ editing[e].phase = "edit" => Numeric(editing[e].new)
       /\ editing[e].phase = "save" /\ editing[e].read # Unset =>
            InWidth(Head(editing[e].fields), editing[e].read[1])

EditCounts ==
  /\ edits \in 0..MaxEdits /\ cuts \in 0..MaxCuts /\ flashFaults \in 0..MaxFlashFaults

LEMMA EditCountsStep == EditCounts /\ [SettingsNext]_settingsVars => EditCounts'
  <1> SUFFICES ASSUME EditCounts, [SettingsNext]_settingsVars PROVE EditCounts'
    OBVIOUS
  <1>1. MaxEdits \in Nat /\ MaxCuts \in Nat /\ MaxFlashFaults \in Nat
    BY SettingsAssumption
  <1>2. /\ edits' = edits \/ (edits < MaxEdits /\ edits' = edits + 1)
        /\ cuts' = cuts \/ (cuts < MaxCuts /\ cuts' = cuts + 1)
        /\ flashFaults' = flashFaults
             \/ (flashFaults < MaxFlashFaults /\ flashFaults' = flashFaults + 1)
    <2>1. CASE Export \/ PutSettings \/ ResetSettings \/ \E v \in Spoken : SpeakVolume(v)
      BY <2>1 DEF Export, PutSettings, ResetSettings, SpeakVolume, BeginEdit
    <2>2. CASE \E e \in Editors : EditField(e) \/ ReadField(e) \/ WriteField(e)
      BY <2>2 DEF EditField, ReadField, WriteField
    <2>3. CASE \E e \in Editors : WriteFails(e) \/ OpenFails(e)
      BY <2>3 DEF WriteFails, OpenFails
    <2>4. CASE \E erased \in BOOLEAN : Reboot(erased)
      BY <2>4 DEF Reboot
    <2>5. CASE UNCHANGED settingsVars
      BY <2>5 DEF settingsVars
    <2> QED BY <2>1, <2>2, <2>3, <2>4, <2>5 DEF SettingsNext
  <1> QED BY <1>1, <1>2 DEF EditCounts

LEMMA AllFitStep == SettingsInv /\ AllFit /\ [SettingsNext]_settingsVars => AllFit'
  <1> SUFFICES ASSUME SettingsInv, AllFit, [SettingsNext]_settingsVars PROVE AllFit'
    OBVIOUS
  <1>0. SettingsShape
    BY DEF SettingsInv
  <1>a. /\ DOMAIN inForce = Fields /\ DOMAIN editing = Editors /\ DOMAIN nvs = Fields
        /\ \A e \in Editors : DOMAIN (editing[e]) = {"phase", "fields", "new", "read"}
    BY <1>0 DEF SettingsShape
  <1>b. "web" \in Editors /\ "main" \in Editors
    BY DEF Editors
  <1>p. page # <<>> => DOMAIN (page[1]) = Fields /\ Numeric(page[1])
    BY DEF AllFit
  <1>f. \A f \in Fields : InWidth(f, inForce[f]) /\ (nvs[f] # Unset => InWidth(f, nvs[f][1]))
    BY DEF AllFit
  <1>e. \A e \in Editors :
          /\ editing[e].phase = "edit" => Numeric(editing[e].new)
          /\ editing[e].phase = "save" /\ editing[e].read # Unset =>
               InWidth(Head(editing[e].fields), editing[e].read[1])
    BY DEF AllFit
  <1>w. Numeric(inForce)
    BY <1>f, WholeFits DEF Numeric, WholeFields
  <1> DEFINE Taught(e, new, fields) ==
               editing' = [editing EXCEPT ![e] =
                 [phase |-> "edit", fields |-> fields, new |-> new, read |-> Unset]]
             Kept == /\ \A f \in Fields : InWidth(f, inForce'[f])
                     /\ \A f \in Fields : nvs'[f] # Unset => InWidth(f, nvs'[f][1])
                     /\ page' # <<>> => DOMAIN (page'[1]) = Fields /\ Numeric(page'[1])
  <1>t. ASSUME NEW e \in Editors, NEW new, NEW fields, Numeric(new), Taught(e, new, fields), Kept
        PROVE  AllFit'
    <2>1. /\ editing'[e] = [phase |-> "edit", fields |-> fields, new |-> new, read |-> Unset]
          /\ \A d \in Editors \ {e} : editing'[d] = editing[d]
      BY <1>a, <1>t
    <2>2. editing'[e].phase = "edit" /\ editing'[e].new = new
      BY <2>1
    <2>3. Numeric(new)
      BY <1>t
    <2>4. Kept
      BY <1>t
    <2> HIDE DEF Taught
    <2> QED BY <1>e, <2>1, <2>2, <2>3, <2>4 DEF AllFit
  <1>1. CASE Export
    <2>1. UNCHANGED <<inForce, nvs, editing>>
      BY <1>1 DEF Export
    <2> DEFINE p == [f \in Fields |-> IF f \in Secrets THEN Mask ELSE inForce[f]]
    <2>2. page' = <<p>>
      BY <1>1 DEF Export
    <2>3. page'[1] = p /\ DOMAIN p = Fields
      BY <2>2
    <2>4. \A f \in WholeFields : p[f] = inForce[f]
      BY NumberFields DEF Secrets, WholeFields
    <2> HIDE DEF p
    <2>5. Numeric(p)
      BY <1>w, <2>4 DEF Numeric
    <2> QED BY <1>e, <1>f, <2>1, <2>3, <2>5 DEF AllFit
  <1>2. CASE PutSettings
    <2>1. UNCHANGED <<inForce, nvs, page>> /\ page # <<>>
      BY <1>2 DEF PutSettings
    <2>2. Kept
      BY <1>f, <1>p, <2>1
    <2>3. ASSUME NEW new, Numeric(new), BeginEdit("web", new) PROVE AllFit'
      BY <1>b, <1>t, <2>2, <2>3 DEF BeginEdit
    <2>4. CASE BeginEdit("web", page[1])
      BY <1>p, <2>1, <2>3, <2>4
    <2>5. ASSUME NEW f \in Fields, NEW v \in Typed[f], BeginEdit("web", [page[1] EXCEPT ![f] = v])
          PROVE  AllFit'
      <3>1. Numeric([page[1] EXCEPT ![f] = v])
        BY <1>p, <2>1, NumbersAssumption DEF Numeric, WholeFields
      <3> QED BY <2>3, <2>5, <3>1
    <2> QED BY <1>2, <2>4, <2>5, Zenon DEF PutSettings
  <1>3. CASE ResetSettings
    <2>1. BeginEdit("web", Bare) /\ inForce' = Zero /\ nvs' = nvs /\ page' = page
      BY <1>3 DEF ResetSettings
    <2>2. Kept
      BY <1>f, <1>p, <2>1, BareFits
    <2> QED BY <1>b, <1>t, <2>1, <2>2, BareFits DEF BeginEdit
  <1>4. ASSUME NEW v \in Spoken, SpeakVolume(v) PROVE AllFit'
    <2> DEFINE new == [inForce EXCEPT !["volume"] = IF v < 0 THEN 0 ELSE IF v > 100 THEN 100 ELSE v]
    <2>1. /\ UNCHANGED <<inForce, nvs, page>>
          /\ Taught("main", new, <<"volume">>)
      BY <1>4 DEF SpeakVolume
    <2>2. Kept
      BY <1>f, <1>p, <2>1
    <2>3. v \in Int
      BY NumbersAssumption
    <2>4. Numeric(new)
      <3>1. \A f \in WholeFields : new[f] = inForce[f] \/ new[f] \in {0, 100, v}
        BY <1>a DEF WholeFields
      <3> HIDE DEF new
      <3> QED BY <1>w, <2>3, <3>1 DEF Numeric
    <2> HIDE DEF new
    <2> QED BY <1>b, <1>t, <2>1, <2>2, <2>4
  <1>5. ASSUME NEW e \in Editors, EditField(e) PROVE AllFit'
    <2> DEFINE f == Head(editing[e].fields)
               left == Tail(editing[e].fields)
    <2>1. /\ UNCHANGED <<nvs, page>> /\ editing[e].phase = "edit"
          /\ editing' = [editing EXCEPT ![e].phase = IF left = <<>> THEN "save" ELSE "edit",
                                        ![e].fields = IF left = <<>> THEN FieldOrder ELSE left]
      BY <1>5 DEF EditField
    <2>2. f \in Fields /\ editing[e].read = Unset /\ Numeric(editing[e].new)
      BY <1>0, <1>e, <2>1, SuffixFacts DEF SettingsShape, AtRest
    <2>3. \A g \in Fields : InWidth(g, inForce'[g])
      <3>1. CASE UNCHANGED inForce
        BY <1>f, <3>1
      <3>2. ASSUME NEW c \in Converted(f, editing[e].new[f]), Gives(f, c)
            PROVE  \A g \in Fields : InWidth(g, inForce'[g])
        <4>1. InWidth(f, c)
          BY <2>2, ConvertedFits DEF Numeric
        <4>2. inForce' = [inForce EXCEPT ![f] = c]
          BY <3>2 DEF Gives
        <4> HIDE DEF f
        <4> QED BY <1>a, <1>f, <4>1, <4>2
      <3> QED BY <1>5, <3>1, <3>2 DEF EditField
    <2> HIDE DEF f, left
    <2>4. /\ \A d \in Editors \ {e} : editing'[d] = editing[d]
          /\ editing'[e].new = editing[e].new /\ editing'[e].read = editing[e].read
      BY <1>a, <2>1
    <2> QED BY <1>e, <1>f, <1>p, <2>1, <2>2, <2>3, <2>4 DEF AllFit
  <1>6. ASSUME NEW e \in Editors, ReadField(e) PROVE AllFit'
    <2>1. /\ UNCHANGED <<inForce, nvs, page>> /\ editing[e].phase = "save"
          /\ editing' = [editing EXCEPT ![e].read = <<inForce[Head(editing[e].fields)]>>]
      BY <1>6 DEF ReadField
    <2>2. Head(editing[e].fields) \in Fields
      BY <1>0, <2>1, SuffixFacts DEF SettingsShape, AtRest
    <2> DEFINE read == <<inForce[Head(editing[e].fields)]>>
    <2>3. read[1] = inForce[Head(editing[e].fields)]
      OBVIOUS
    <2> HIDE DEF read
    <2>4. /\ \A d \in Editors \ {e} : editing'[d] = editing[d]
          /\ editing'[e].new = editing[e].new /\ editing'[e].fields = editing[e].fields
          /\ editing'[e].phase = "save" /\ editing'[e].read = read
      BY <1>a, <2>1 DEF read
    <2>5. InWidth(Head(editing'[e].fields), editing'[e].read[1])
      BY <1>f, <2>2, <2>3, <2>4
    <2> QED BY <1>e, <1>f, <1>p, <2>1, <2>4, <2>5 DEF AllFit
  <1>7. ASSUME NEW e \in Editors, NEW ok \in BOOLEAN, AfterWrite(e, ok), editing[e].phase = "save",
               editing[e].read # Unset, UNCHANGED <<inForce, page>>,
               \/ UNCHANGED nvs
               \/ nvs' = [nvs EXCEPT ![Head(editing[e].fields)] = editing[e].read]
        PROVE  AllFit'
    <2>1. Head(editing[e].fields) \in Fields
      BY <1>0, <1>7, SuffixFacts DEF SettingsShape, AtRest
    <2>2. InWidth(Head(editing[e].fields), editing[e].read[1])
      BY <1>e, <1>7
    <2>3. \A f \in Fields : nvs'[f] # Unset => InWidth(f, nvs'[f][1])
      BY <1>a, <1>f, <1>7, <2>1, <2>2
    <2>4. /\ \A d \in Editors \ {e} : editing'[d] = editing[d]
          /\ editing'[e].read = Unset /\ editing'[e].phase # "edit"
      <3> DEFINE left == Tail(editing[e].fields)
      <3>1. editing' = [editing EXCEPT ![e] =
              IF left = <<>> THEN NotSaving ELSE [editing[e] EXCEPT !.fields = left, !.read = Unset]]
        BY <1>7 DEF AfterWrite
      <3> HIDE DEF left
      <3> QED BY <1>a, <1>7, <3>1, RestingEditor
    <2> QED BY <1>e, <1>f, <1>p, <1>7, <2>3, <2>4 DEF AllFit
  <1>8. ASSUME NEW e \in Editors, WriteField(e) \/ WriteFails(e) PROVE AllFit'
    <2>1. CASE WriteField(e)
      BY <1>7, <2>1 DEF WriteField
    <2>2. CASE WriteFails(e)
      BY <1>7, <2>2 DEF WriteFails
    <2> QED BY <1>8, <2>1, <2>2
  <1>9. ASSUME NEW e \in Editors, OpenFails(e) PROVE AllFit'
    <2>1. UNCHANGED <<inForce, nvs, page>> /\ editing' = [editing EXCEPT ![e] = NotSaving]
      BY <1>9 DEF OpenFails
    <2>2. editing'[e] = NotSaving /\ \A d \in Editors \ {e} : editing'[d] = editing[d]
      BY <1>a, <2>1
    <2> QED BY <1>e, <1>f, <1>p, <2>1, <2>2, RestingEditor DEF AllFit
  <1>10. ASSUME NEW erased \in BOOLEAN, Reboot(erased) PROVE AllFit'
    <2>1. /\ inForce' = Loaded(nvs') /\ editing' = [d \in Editors |-> NotSaving] /\ page' = page
          /\ nvs' = nvs \/ nvs' = [f \in Fields |-> Unset]
      BY <1>10 DEF Reboot
    <2>2. \A f \in Fields : nvs'[f] # Unset => InWidth(f, nvs'[f][1])
      BY <1>f, <2>1
    <2>3. \A f \in Fields : InWidth(f, inForce'[f])
      BY <2>1, <2>2, LoadedValues, BareFits
    <2>4. \A d \in Editors : editing'[d] = NotSaving
      BY <2>1
    <2> QED BY <1>p, <2>1, <2>2, <2>3, <2>4, RestingEditor DEF AllFit
  <1>11. CASE UNCHANGED settingsVars
    <2>1. UNCHANGED <<inForce, nvs, editing, page>>
      BY <1>11 DEF settingsVars
    <2> QED BY <1>e, <1>f, <1>p, <2>1 DEF AllFit
  <1> QED BY <1>1, <1>2, <1>3, <1>4, <1>5, <1>6, <1>8, <1>9, <1>10, <1>11 DEF SettingsNext

LEMMA SettingsTyped == SettingsSpec => []SettingsTypeOK
  <1>1. SettingsInit => AllFit /\ EditCounts
    <2> SUFFICES ASSUME SettingsInit PROVE AllFit /\ EditCounts
      OBVIOUS
    <2>1. \A f \in Fields : nvs[f] = Unset /\ inForce[f] = WithBuilt[f]
      BY LoadedValues DEF SettingsInit
    <2>2. page = <<>> /\ \A e \in Editors : editing[e] = NotSaving
      BY DEF SettingsInit
    <2>3. EditCounts
      BY SettingsAssumption DEF SettingsInit, EditCounts
    <2> QED BY <2>1, <2>2, <2>3, RestingEditor, BareFits DEF AllFit
  <1>2. SettingsInv /\ AllFit /\ EditCounts => SettingsTypeOK
    BY DEF SettingsInv, SettingsShape, Held, AllFit, EditCounts, SettingsTypeOK
  <1> QED BY <1>1, <1>2, SettingsStart, SettingsStep, AllFitStep, EditCountsStep, PTL DEF SettingsSpec

(* The server and the request it has under way.                             *)
LEMMA WebTyped == WebSpec => []WebTypeOK
  <1>1. WebInv => WebTypeOK
    BY DEF WebInv
  <1> QED BY <1>1, WebStarts, WebStep, PTL DEF WebSpec
=============================================================================
