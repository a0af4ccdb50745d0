-------------------------- MODULE ActiveRunsProofs --------------------------
(* Proofs about ActiveRuns, for any runs of any number, any number of slots *)
(* and any number of starts.                                                *)
EXTENDS ActiveRuns, FiniteSetTheorems, WellFoundedInduction, NaturalsInduction, TLAPS

(* The least of a non-empty set of natural numbers, by the well-foundedness *)
(* of < rather than by induction.                                           *)
LEMMA LeastNatural ==
  ASSUME NEW T \in SUBSET Nat, T # {}
  PROVE  \E m \in T : \A n \in T : m <= n
  <1>1. PICK m \in T : \A n \in T : ~(<<n, m>> \in OpToRel(<, Nat))
    BY NatLessThanWellFounded, WFMin
  <1>2. \A n \in T : ~(n < m)
    BY <1>1 DEF OpToRel
  <1> QED BY <1>2

-----------------------------------------------------------------------------
(* The inductive invariant: the types, one slot at most for a run, and a    *)
(* count that covers the slots.  SlotsDistinct and CountCovers are each     *)
(* inductive once the types are known.                                      *)
IInv == TypeOK /\ SlotsDistinct /\ CountCovers

(* add_run_slot takes a slot of the table: a free one if there is one, and  *)
(* otherwise one of those with the earliest start.                          *)
LEMMA ChosenSlotIsOldest ==
  ASSUME TypeOK
  PROVE  /\ ChosenSlot \in Slots
         /\ Slots # Active => ChosenSlot \notin Active
         /\ Slots = Active => \A j \in Slots : started[ChosenSlot] <= started[j]
  <1>0. Slots \in SUBSET Nat /\ 1 \in Slots /\ Active \subseteq Slots
    BY SlotsAssumption DEF Slots, Active
  <1>1. CASE Slots \ Active # {}
    <2>1. \E i \in Slots \ Active : \A j \in Slots \ Active : i <= j
      BY <1>0, <1>1, LeastNatural
    <2>2. ChosenSlot = CHOOSE i \in Slots \ Active : \A j \in Slots \ Active : i <= j
      BY <1>1 DEF ChosenSlot
    <2>3. ChosenSlot \in Slots \ Active
      BY <2>1, <2>2
    <2> QED BY <2>3
  <1>2. CASE Slots \ Active = {}
    <2> DEFINE Starts == {started[i] : i \in Slots}
               Better(i, j) == started[i] < started[j] \/ (started[i] = started[j] /\ i <= j)
    <2>0. \A i \in Slots : started[i] \in Nat
      BY SlotsAssumption DEF TypeOK
    <2>1. PICK m \in Starts : \A n \in Starts : m <= n
      <3>1. Starts \in SUBSET Nat /\ Starts # {}
        BY <1>0, <2>0
      <3> HIDE DEF Starts
      <3> QED BY <3>1, LeastNatural
    <2> DEFINE Oldest == {i \in Slots : started[i] = m}
    <2>2. PICK k \in Oldest : \A i \in Oldest : k <= i
      <3>1. Oldest \in SUBSET Nat /\ Oldest # {}
        BY <1>0, <2>1
      <3> HIDE DEF Oldest
      <3> QED BY <3>1, LeastNatural
    <2>3. k \in Slots /\ \A j \in Slots : Better(k, j)
      <3> SUFFICES ASSUME NEW j \in Slots PROVE Better(k, j)
        BY <2>2
      <3>1. started[k] = m /\ m <= started[j] /\ m \in Nat /\ started[j] \in Nat
        BY <2>0, <2>1, <2>2
      <3>2. started[j] = m => k <= j
        BY <2>2
      <3> QED BY <3>1, <3>2
    <2>4. ChosenSlot = CHOOSE i \in Slots : \A j \in Slots : Better(i, j)
      BY <1>2 DEF ChosenSlot
    <2>5. ChosenSlot \in Slots /\ \A j \in Slots : Better(ChosenSlot, j)
      <3> HIDE DEF Better
      <3> QED BY <2>3, <2>4
    <2>6. Slots = Active
      BY <1>0, <1>2
    <2> QED BY <2>0, <2>5, <2>6
  <1> QED BY <1>0, <1>1, <1>2

(* The active slots are finitely many.                                      *)
LEMMA ActiveFinite == IsFiniteSet(Active) /\ Cardinality(Active) \in Nat
  <1>1. IsFiniteSet(Slots)
    BY SlotsAssumption, FS_Interval DEF Slots
  <1>2. Active \in SUBSET Slots
    BY DEF Active
  <1> QED BY <1>1, <1>2, FS_Subset, FS_CardinalityType

(* The initial state satisfies the invariant.                               *)
LEMMA InitInvariant == Init => IInv
  <1> SUFFICES ASSUME Init PROVE IInv
    OBVIOUS
  <1>1. TypeOK
    <2>1. 0 \in 0..MaxStarts /\ 0 \in Nat
      BY SlotsAssumption
    <2>2. info \in [active : BOOLEAN, external : BOOLEAN, run : Runs \cup {None},
                    session : Runs \cup {None}]
      BY DEF Init, Cleared
    <2> QED BY <2>1, <2>2 DEF Init, TypeOK
  <1>2. Active = {}
    BY DEF Init, Active
  <1>3. count >= Cardinality(Active)
    BY <1>2, FS_EmptySet DEF Init
  <1> QED BY <1>1, <1>2, <1>3 DEF IInv, SlotsDistinct, CountCovers

(* Taking a slot keeps the types.                                           *)
LEMMA AddSlotType ==
  ASSUME TypeOK, NEW r \in Runs, AddSlot(r), clock < MaxStarts
  PROVE  /\ slot' \in [Slots -> Runs \cup {None}]
         /\ started' \in [Slots -> 0..MaxStarts]
         /\ count' \in Nat
         /\ evicted' \in SUBSET Runs
  <1>1. CASE r \in Tracked
    BY <1>1 DEF TypeOK, AddSlot
  <1>2. CASE r \notin Tracked
    <2> DEFINE i == ChosenSlot
    <2>1. /\ slot' = [slot EXCEPT ![i] = r]
          /\ started' = [started EXCEPT ![i] = clock + 1]
          /\ count' = count + 1
          /\ evicted' = (evicted \cup ({slot[i]} \ {None})) \ {r}
      BY <1>2 DEF AddSlot
    <2>2. clock + 1 \in 0..MaxStarts
      BY SlotsAssumption DEF TypeOK
    <2>3. i \in Slots /\ slot[i] \in Runs \cup {None}
      BY ChosenSlotIsOldest DEF TypeOK
    <2> HIDE DEF i
    <2> QED BY <2>1, <2>2, <2>3 DEF TypeOK
  <1> QED BY <1>1, <1>2

(* Taking a slot for a run that had none keeps the runs distinct and adds   *)
(* at most one active slot for the one that is counted.                     *)
LEMMA AddSlotTable ==
  ASSUME IInv, NEW r \in Runs, AddSlot(r)
  PROVE  SlotsDistinct' /\ CountCovers'
  <1> USE DEF IInv
  <1>1. CASE r \in Tracked
    BY <1>1 DEF AddSlot, SlotsDistinct, CountCovers, Active
  <1>2. CASE r \notin Tracked
    <2> DEFINE k == ChosenSlot
    <2>1. slot' = [slot EXCEPT ![k] = r] /\ count' = count + 1 /\ k \in Slots
      BY <1>2, ChosenSlotIsOldest DEF AddSlot
    <2> HIDE DEF k
    <2>2. slot \in [Slots -> Runs \cup {None}] /\ count \in Nat
      BY DEF TypeOK
    <2>3. Active' \subseteq Active \cup {k}
      BY <2>1, <2>2 DEF Active
    <2>4. SlotsDistinct'
      <3> SUFFICES ASSUME NEW i \in Active', NEW j \in Active', slot'[i] = slot'[j]
                   PROVE  i = j
        BY DEF SlotsDistinct
      <3>1. \A a \in Active : slot[a] # r
        BY <1>2 DEF Tracked
      <3> QED BY <2>1, <2>2, <2>3, <3>1 DEF SlotsDistinct, Active
    <2>5. Cardinality(Active') <= Cardinality(Active) + 1
      <3>1. /\ IsFiniteSet(Active \cup {k})
            /\ Cardinality(Active \cup {k}) <= Cardinality(Active) + 1
        <4>1. /\ IsFiniteSet(Active \cup {k})
              /\ Cardinality(Active \cup {k}) =
                   IF k \in Active THEN Cardinality(Active) ELSE Cardinality(Active) + 1
          BY ActiveFinite, FS_AddElement
        <4> QED BY <4>1, ActiveFinite
      <3>2. Cardinality(Active') <= Cardinality(Active \cup {k})
        BY <2>3, <3>1, FS_Subset
      <3>3. Cardinality(Active') \in Nat /\ Cardinality(Active \cup {k}) \in Nat
        BY <2>3, <3>1, FS_Subset, FS_CardinalityType
      <3> QED BY <3>1, <3>2, <3>3, ActiveFinite
    <2>6. Cardinality(Active') \in Nat
      BY <2>3, ActiveFinite, FS_AddElement, FS_Subset, FS_CardinalityType
    <2> QED BY <2>1, <2>2, <2>4, <2>5, <2>6, ActiveFinite DEF CountCovers
  <1> QED BY <1>1, <1>2

(* Giving a slot back keeps the types and the table: the count goes down    *)
(* only when a slot was found.                                              *)
LEMMA RemoveSlotTable ==
  ASSUME IInv, NEW r \in Runs, RemoveSlot(r)
  PROVE  /\ slot' \in [Slots -> Runs \cup {None}]
         /\ started' \in [Slots -> 0..MaxStarts]
         /\ count' \in Nat
         /\ info' \in [active : BOOLEAN, external : BOOLEAN,
                       run : Runs \cup {None}, session : Runs \cup {None}]
         /\ SlotsDistinct' /\ CountCovers'
  <1> USE DEF IInv
  <1> DEFINE left == IF r \in Tracked /\ count > 0 THEN count - 1 ELSE count
  <1>1. /\ slot' = [i \in Slots |-> IF slot[i] = r THEN None ELSE slot[i]]
        /\ count' = left /\ started' = started
        /\ info' = IF left = 0 /\ info.external THEN Cleared ELSE info
    BY DEF RemoveSlot
  <1>2. /\ slot \in [Slots -> Runs \cup {None}] /\ count \in Nat
        /\ started \in [Slots -> 0..MaxStarts]
    BY DEF TypeOK
  <1>3. info' \in [active : BOOLEAN, external : BOOLEAN,
                  run : Runs \cup {None}, session : Runs \cup {None}]
    <2> HIDE DEF left
    <2> QED BY <1>1 DEF TypeOK, Cleared
  <1>4. Active' \subseteq Active /\ \A i \in Active' : slot'[i] = slot[i]
    BY <1>1, <1>2 DEF Active
  <1>5. SlotsDistinct'
    BY <1>4 DEF SlotsDistinct
  <1>6. Cardinality(Active') \in Nat /\ Cardinality(Active') <= Cardinality(Active)
    BY <1>4, ActiveFinite, FS_Subset, FS_CardinalityType
  <1>7. CountCovers'
    <2>1. CASE r \notin Tracked
      BY <1>1, <1>2, <1>6, <2>1, ActiveFinite DEF CountCovers
    <2>2. CASE r \in Tracked
      <3>1. PICK k \in Active : slot[k] = r
        BY <2>2 DEF Tracked
      <3>2. Active' \subseteq Active \ {k}
        BY <1>1, <1>2, <1>4, <3>1 DEF Active
      <3>3. /\ IsFiniteSet(Active \ {k})
            /\ Cardinality(Active \ {k}) = Cardinality(Active) - 1
        BY <3>1, ActiveFinite, FS_RemoveElement
      <3>4. Cardinality(Active') <= Cardinality(Active) - 1
        BY <3>2, <3>3, FS_Subset
      <3> QED BY <1>1, <1>2, <1>6, <3>4, ActiveFinite DEF CountCovers
    <2> QED BY <2>1, <2>2
  <1> QED BY <1>1, <1>2, <1>3, <1>5, <1>7

(* A step that leaves the table alone keeps what is said of it.             *)
LEMMA TableUnchanged ==
  ASSUME IInv, UNCHANGED <<slot, count>>
  PROVE  SlotsDistinct' /\ CountCovers'
  BY DEF IInv, SlotsDistinct, CountCovers, Active

(* Freeing every slot keeps it too.                                         *)
LEMMA TableFreed ==
  ASSUME slot' = [i \in Slots |-> None], count' = 0
  PROVE  SlotsDistinct' /\ CountCovers'
  <1>1. Active' = {}
    BY DEF Active
  <1> QED BY <1>1, FS_EmptySet DEF SlotsDistinct, CountCovers

(* Cleared activity is well typed.                                          *)
LEMMA ClearedType ==
  Cleared \in [active : BOOLEAN, external : BOOLEAN, run : Runs \cup {None},
               session : Runs \cup {None}]
  BY DEF Cleared

(* Every step preserves the inductive invariant.                            *)
LEMMA NextInvariant == IInv /\ [Next]_vars => IInv'
<1> SUFFICES ASSUME IInv, [Next]_vars PROVE IInv'
  OBVIOUS
<1>0. TypeOK /\ SlotsDistinct /\ CountCovers
  BY DEF IInv
<1> USE DEF IInv
<1>1. ASSUME NEW r \in Runs, LifecycleStart(r) PROVE IInv'
  <2>0. clock < MaxStarts
    BY <1>1 DEF LifecycleStart
  <2>1. clock' \in 0..MaxStarts
    BY <1>0, <1>1, <2>0, SlotsAssumption DEF LifecycleStart, TypeOK
  <2>2. sent' \in [Runs -> SUBSET {"asked", "cron", "start", "final", "end", "cronEnd"}]
        /\ cb' \in BOOLEAN
    BY <1>0, <1>1 DEF LifecycleStart, TypeOK
  <2>3. CASE cb
    <3>1. UNCHANGED <<slot, started, count, evicted>> /\ info' = [info EXCEPT !.active = TRUE]
      BY <1>1, <2>3 DEF LifecycleStart
    <3>2. /\ info' \in [active : BOOLEAN, external : BOOLEAN, run : Runs \cup {None},
                       session : Runs \cup {None}]
          /\ slot' \in [Slots -> Runs \cup {None}] /\ started' \in [Slots -> 0..MaxStarts]
          /\ count' \in Nat /\ evicted' \in SUBSET Runs
      BY <1>0, <3>1 DEF TypeOK
    <3>3. TypeOK'
      BY <2>1, <2>2, <3>2, Zenon DEF TypeOK
    <3>4. SlotsDistinct' /\ CountCovers'
      BY <3>1, TableUnchanged
    <3> QED BY <3>3, <3>4
  <2>4. CASE ~cb
    <3>1. AddSlot(r) /\ info' = [Busy(info) EXCEPT !.run = r, !.session = r]
      BY <1>1, <2>4 DEF LifecycleStart
    <3>2. info' \in [active : BOOLEAN, external : BOOLEAN,
                    run : Runs \cup {None}, session : Runs \cup {None}]
      BY <1>0, <3>1 DEF Busy, TypeOK
    <3>3. TypeOK'
      BY <1>0, <2>0, <2>1, <2>2, <3>1, <3>2, AddSlotType DEF TypeOK
    <3> QED BY <3>1, <3>3, AddSlotTable
  <2> QED BY <2>3, <2>4
<1>2. ASSUME NEW r \in Runs, LifecycleEnd(r) PROVE IInv'
  <2>1. CASE cb
    BY <1>0, <1>2, <2>1, TableUnchanged DEF LifecycleEnd, Publishing, TypeOK
  <2>2. CASE ~cb
    BY <1>0, <1>2, <2>2, RemoveSlotTable DEF LifecycleEnd, Publishing, TypeOK
  <2> QED BY <2>1, <2>2
<1>3. ASSUME NEW r \in Runs, AgentWorks(r) PROVE IInv'
  BY <1>0, <1>3, TableUnchanged DEF AgentWorks, Busy, TypeOK
<1>4. ASSUME NEW r \in Runs, ChatDelta(r) PROVE IInv'
  BY <1>0, <1>4, TableUnchanged DEF ChatDelta, Busy, TypeOK
<1>5. ASSUME NEW r \in Runs, ChatEnd(r) PROVE IInv'
  <2>1. CASE cb
    <3>1. info' = Cleared /\ cb' = FALSE
      BY <1>5, <2>1 DEF ChatEnd
    <3> QED BY <1>0, <1>5, <2>1, <3>1, ClearedType, TableUnchanged
            DEF ChatEnd, Publishing, TypeOK
  <2>2. CASE ~cb
    BY <1>0, <1>5, <2>2, RemoveSlotTable DEF ChatEnd, Publishing, TypeOK
  <2> QED BY <2>1, <2>2
<1>6. ASSUME NEW r \in Runs, CronEnd(r) PROVE IInv'
  BY <1>0, <1>6, TableUnchanged DEF CronEnd, Publishing, Cleared, TypeOK
<1>7. ASSUME NEW r \in Runs, Lost(r) PROVE IInv'
  BY <1>0, <1>7, TableUnchanged DEF Lost, Publishing, TypeOK
<1>8. ASSUME NEW r \in CronRuns, CronStart(r) PROVE IInv'
  BY <1>0, <1>8, TableUnchanged, SlotsAssumption DEF CronStart, Publishing, Busy, Runs, TypeOK
<1>9. ASSUME NEW aged \in BOOLEAN, Health(aged) PROVE IInv'
  <2>1. CASE info.active /\ aged
    <3>1. slot' = [i \in Slots |-> None] /\ count' = 0 /\ info' = Cleared
      BY <1>9, <2>1 DEF Health
    <3>2. UNCHANGED <<started, cb, sent, clock, evicted>>
      BY <1>9 DEF Health
    <3>3. TypeOK'
      BY <1>0, <3>1, <3>2, ClearedType DEF TypeOK
    <3> QED BY <3>1, <3>3, TableFreed
  <2>2. CASE ~(info.active /\ aged)
    BY <1>0, <1>9, <2>2, TableUnchanged DEF Health, TypeOK
  <2> QED BY <2>1, <2>2
<1>10. CASE AbortSession
  BY <1>0, <1>10, TableUnchanged DEF AbortSession, TypeOK
<1>11. CASE DeviceAbort
  BY <1>0, <1>11, TableUnchanged DEF DeviceAbort, TypeOK
<1>12. ASSUME NEW r \in DeviceRuns, DeviceSend(r) PROVE IInv'
  BY <1>0, <1>12, TableUnchanged DEF DeviceSend, Publishing, Runs, TypeOK
<1>13. CASE UNCHANGED vars
  BY <1>0, <1>13, TableUnchanged DEF vars, TypeOK
<1> QED
  BY <1>1, <1>2, <1>3, <1>4, <1>5, <1>6, <1>7, <1>8, <1>9, <1>10, <1>11, <1>12, <1>13
  DEF Next, Event

-----------------------------------------------------------------------------
(* The table, the count and the flags are always well typed.                *)
THEOREM TypeCorrect == Spec => []TypeOK
  <1>1. IInv => TypeOK
    BY DEF IInv
  <1> QED BY InitInvariant, NextInvariant, <1>1, PTL DEF Spec

(* No run ever occupies two slots of the carousel, however often the        *)
(* gateway repeats its start and whatever was evicted                       *)
(* (openclaw_client.c:160-161).                                             *)
THEOREM RunsDistinct == Spec => []SlotsDistinct
  <1>1. IInv => SlotsDistinct
    BY DEF IInv
  <1> QED BY InitInvariant, NextInvariant, <1>1, PTL DEF Spec

(* The count never understates the table, so the end of one run never       *)
(* makes the gateway look idle while another is tracked (191-200).          *)
THEOREM NeverUndercounted == Spec => []CountCovers
  <1>1. IInv => CountCovers
    BY DEF IInv
  <1> QED BY InitInvariant, NextInvariant, <1>1, PTL DEF Spec

(* A run that loses its slot to another started no later than any run that  *)
(* is tracked at that moment (169-176).                                     *)
THEOREM OldestGoesFirst == Spec => EvictedAreOldest
  <1> DEFINE Fair == \A r \in evicted' \ evicted : \A i, j \in Slots :
                       slot[i] = r => started[i] <= started[j]
  <1>1. ASSUME IInv, Next PROVE Fair
    <2>1. ASSUME NEW x \in Runs, LifecycleStart(x), evicted' # evicted
          PROVE  Fair
      <3>1. x \notin Tracked /\ evicted' = (evicted \cup ({slot[ChosenSlot]} \ {None})) \ {x}
        BY <2>1 DEF LifecycleStart, AddSlot
      <3>2. SUFFICES ASSUME NEW r \in evicted' \ evicted,
                            NEW i \in Slots, NEW j \in Slots, slot[i] = r
                     PROVE  started[i] <= started[j]
        OBVIOUS
      <3>3. r = slot[ChosenSlot] /\ r # None
        BY <3>1
      <3>4. ChosenSlot \in Slots
        BY <1>1, ChosenSlotIsOldest DEF IInv
      <3>5. ChosenSlot \in Active /\ i \in Active
        BY <3>2, <3>3, <3>4 DEF Active
      <3>6. i = ChosenSlot
        BY <1>1, <3>2, <3>3, <3>5 DEF IInv, SlotsDistinct
      <3>7. Slots = Active
        BY <1>1, <3>5, ChosenSlotIsOldest DEF IInv
      <3> QED BY <1>1, <3>2, <3>6, <3>7, ChosenSlotIsOldest DEF IInv
    <2>2. CASE evicted' = evicted
      BY <2>2
    <2>3. CASE evicted' # evicted
      BY <1>1, <2>1, <2>3 DEF Next, Event, LifecycleEnd, AgentWorks, ChatDelta, ChatEnd,
         CronStart, CronEnd, Lost, Health, AbortSession, DeviceSend, DeviceAbort
    <2> QED BY <2>2, <2>3
  <1>2. ASSUME IInv, [Next]_vars PROVE [Fair]_vars
    BY <1>1, <1>2
  <1> QED BY InitInvariant, NextInvariant, <1>2, PTL DEF Spec, EvictedAreOldest

-----------------------------------------------------------------------------
(* Activity and the table, while only other clients' runs are reported.     *)
(* OthersOnly is lost for ever with the first chat or cron job, so what is  *)
(* shown under it may use it for the past as well.                          *)
LEMMA OthersBefore ==
  ASSUME TypeOK, Next, OthersOnly'
  PROVE  OthersOnly
  <1>1. \A q \in Runs : sent[q] \subseteq sent'[q]
    <2>1. ASSUME NEW r \in Runs, NEW m, sent' = [sent EXCEPT ![r] = @ \cup {m}]
          PROVE  \A q \in Runs : sent[q] \subseteq sent'[q]
      BY <2>1 DEF TypeOK
    <2>2. ASSUME NEW r \in Runs, Event(r)
          PROVE  \A q \in Runs : sent[q] \subseteq sent'[q]
      <3>1. CASE AgentWorks(r) \/ ChatDelta(r)
        BY <3>1 DEF AgentWorks, ChatDelta
      <3>2. CASE \/ LifecycleStart(r) \/ LifecycleEnd(r) \/ ChatEnd(r) \/ CronEnd(r)
                 \/ Lost(r)
        BY <2>1, <3>2 DEF LifecycleStart, LifecycleEnd, ChatEnd, CronEnd, Lost, Publishing
      <3> QED BY <2>2, <3>1, <3>2 DEF Event
    <2>3. ASSUME NEW r \in CronRuns, CronStart(r)
          PROVE  \A q \in Runs : sent[q] \subseteq sent'[q]
      BY <2>1, <2>3, SlotsAssumption DEF CronStart, Publishing, Runs
    <2>4. ASSUME NEW r \in DeviceRuns, DeviceSend(r)
          PROVE  \A q \in Runs : sent[q] \subseteq sent'[q]
      BY <2>1, <2>4 DEF DeviceSend, Publishing, Runs
    <2>5. CASE (\E aged \in BOOLEAN : Health(aged)) \/ AbortSession \/ DeviceAbort
      BY <2>5 DEF Health, AbortSession, DeviceAbort
    <2> QED BY <2>2, <2>3, <2>4, <2>5 DEF Next
  <1> QED BY <1>1 DEF OthersOnly

(* A chat of the device and a cron job announce themselves.                 *)
LEMMA OthersSteps ==
  ASSUME TypeOK, OthersOnly, OthersOnly'
  PROVE  /\ \A r \in DeviceRuns : ~DeviceSend(r)
         /\ \A r \in CronRuns : ~CronStart(r)
         /\ \A r \in Runs : ~CronEnd(r)
  <1>1. \A r \in Runs, m \in {"asked", "cron"} : ~Publishing(r, m)
    BY DEF TypeOK, OthersOnly, Publishing
  <1>2. DeviceRuns \subseteq Runs /\ CronRuns \subseteq Runs
    BY SlotsAssumption DEF Runs
  <1>3. \A r \in Runs : "cron" \notin sent[r]
    BY DEF OthersOnly
  <1> QED BY <1>1, <1>2, <1>3 DEF DeviceSend, CronStart, CronEnd

(* The strengthening of BusyWhileTracked: no callback is registered, so     *)
(* that every start is taken for external activity.                         *)
BusyInv == ~MayAbort /\ OthersOnly => ~cb /\ (Active # {} => info.active)

(* The end of a run clears the activity only with the last counted run.     *)
LEMMA BusyRemove ==
  ASSUME IInv, IInv', Active # {} => info.active, NEW r \in Runs, RemoveSlot(r)
  PROVE  Active' # {} => info'.active
  <1> DEFINE left == IF r \in Tracked /\ count > 0 THEN count - 1 ELSE count
  <1>1. /\ slot' = [i \in Slots |-> IF slot[i] = r THEN None ELSE slot[i]]
        /\ count' = left
        /\ info' = IF left = 0 /\ info.external THEN Cleared ELSE info
    BY DEF RemoveSlot
  <1>2. Active' # {} => Active # {}
    BY <1>1 DEF Active
  <1>3. CASE left = 0
    <2>1. CountCovers' /\ count' = 0
      BY <1>1, <1>3 DEF IInv
    <2>2. Active' = {}
      <3>1. Active' \in SUBSET Active
        BY <1>1 DEF Active
      <3>2. IsFiniteSet(Active') /\ Cardinality(Active') \in Nat
        BY <3>1, ActiveFinite, FS_Subset, FS_CardinalityType
      <3>3. Cardinality(Active') = 0
        BY <2>1, <3>2 DEF CountCovers
      <3> QED BY <3>2, <3>3, FS_EmptySet
    <2> QED BY <2>2
  <1>4. CASE left # 0
    BY <1>1, <1>2, <1>4
  <1> QED BY <1>3, <1>4

(* While only others' runs go on and nothing is aborted, every event keeps  *)
(* the activity shown as long as a slot is taken.                           *)
LEMMA BusyNext == IInv /\ BusyInv /\ [Next]_vars => BusyInv'
  <1> SUFFICES ASSUME IInv, BusyInv, [Next]_vars, ~MayAbort, OthersOnly'
               PROVE  ~cb' /\ (Active' # {} => info'.active)
    BY DEF BusyInv
  <1>0. IInv' /\ TypeOK
    BY NextInvariant DEF IInv
  <1>1. CASE UNCHANGED vars
    BY <1>1 DEF vars, BusyInv, OthersOnly, Active
  <1>2. CASE Next
    <2>1. OthersOnly /\ ~cb /\ (Active # {} => info.active)
      BY <1>0, <1>2, OthersBefore DEF BusyInv
    <2>2. /\ \A r \in DeviceRuns : ~DeviceSend(r)
          /\ \A r \in CronRuns : ~CronStart(r)
          /\ \A r \in Runs : ~CronEnd(r)
      BY <1>0, <2>1, OthersSteps
    <2>3. ASSUME NEW r \in Runs, LifecycleStart(r) \/ AgentWorks(r) \/ ChatDelta(r)
          PROVE  ~cb' /\ (Active' # {} => info'.active)
      <3>1. info \in [active : BOOLEAN, external : BOOLEAN, run : Runs \cup {None},
                      session : Runs \cup {None}]
        BY <1>0 DEF TypeOK
      <3>2. info'.active /\ ~cb'
        <4>1. CASE LifecycleStart(r)
          BY <2>1, <3>1, <4>1 DEF LifecycleStart, Busy
        <4>2. CASE AgentWorks(r)
          BY <2>1, <3>1, <4>2 DEF AgentWorks, Busy
        <4>3. CASE ChatDelta(r)
          BY <2>1, <3>1, <4>3 DEF ChatDelta, Busy
        <4> QED BY <2>3, <4>1, <4>2, <4>3
      <3> QED BY <3>2
    <2>4. ASSUME NEW r \in Runs, LifecycleEnd(r) \/ ChatEnd(r)
          PROVE  ~cb' /\ (Active' # {} => info'.active)
      <3>1. RemoveSlot(r) /\ ~cb'
        BY <2>1, <2>4 DEF LifecycleEnd, ChatEnd
      <3> QED BY <1>0, <2>1, <3>1, BusyRemove
    <2>5. ASSUME NEW r \in Runs, Lost(r)
          PROVE  ~cb' /\ (Active' # {} => info'.active)
      BY <2>1, <2>5 DEF Lost, Active
    <2>6. ASSUME NEW aged \in BOOLEAN, Health(aged)
          PROVE  ~cb' /\ (Active' # {} => info'.active)
      BY <2>1, <2>6 DEF Health, Active
    <2>7. ~AbortSession /\ ~DeviceAbort
      BY DEF AbortSession, DeviceAbort
    <2> QED BY <1>2, <2>2, <2>3, <2>4, <2>5, <2>6, <2>7 DEF Next, Event
  <1> QED BY <1>1, <1>2

(* While only other clients' runs are reported and the user aborts nothing, *)
(* a run in the table means that activity is shown, for any numbers of runs *)
(* and slots, even when events are lost (openclaw_client.c:192-200,         *)
(* 505-531).                                                                *)
THEOREM BusyShown == Spec => [](~MayAbort => BusyWhileTracked)
  <1>1. Init => BusyInv
    BY DEF Init, BusyInv, Active
  <1>2. BusyInv => (~MayAbort => BusyWhileTracked)
    BY DEF BusyInv, BusyWhileTracked
  <1> QED BY InitInvariant, NextInvariant, BusyNext, <1>1, <1>2, PTL DEF Spec

(* The strengthening of IdleWhenAllEnded: while no more runs began than     *)
(* there are slots nothing is evicted, the count is exact, every slot       *)
(* belongs to a run in progress, and activity is external and somebody's.   *)
Exact ==
  /\ count = Cardinality(Active)
  /\ \A i \in Active : InProgress(slot[i])
  /\ info.active => info.external /\ \E q \in Runs : InProgress(q)

IdleInv ==
  ~MayLose /\ OthersOnly =>
    ~cb /\ IsFiniteSet(Begun) /\ (Cardinality(Begun) <= MaxSlots => Exact)

(* A run that has no slot finds a free one: a full table would hold as many *)
(* runs that began as there are slots, and this one is one more.            *)
LEMMA RoomLeft ==
  ASSUME IInv, Exact, NEW r \in Runs, r \notin Tracked, NEW S, IsFiniteSet(S),
         r \in S, Begun \subseteq S, Cardinality(S) <= MaxSlots
  PROVE  Active # Slots
  <1> SUFFICES ASSUME Active = Slots PROVE FALSE
    OBVIOUS
  <1>1. slot \in Injection(Slots, S \ {r})
    <2>1. \A i \in Slots : slot[i] \in S \ {r}
      <3> SUFFICES ASSUME NEW i \in Slots PROVE slot[i] \in S \ {r}
        OBVIOUS
      <3>1. slot[i] \in Runs /\ slot[i] # r /\ InProgress(slot[i])
        BY DEF IInv, TypeOK, Active, Tracked, Exact
      <3> QED BY <3>1 DEF InProgress, Begun
    <2>2. slot \in [Slots -> S \ {r}]
      BY <2>1 DEF IInv, TypeOK
    <2> QED BY <2>2 DEF Injection, IsInjective, IInv, SlotsDistinct
  <1>2. IsFiniteSet(S \ {r}) /\ Cardinality(S \ {r}) = Cardinality(S) - 1
    BY FS_RemoveElement
  <1>3. Cardinality(Slots) <= Cardinality(S \ {r})
    BY <1>1, <1>2, FS_Injection
  <1>4. Cardinality(Slots) = MaxSlots
    BY FS_Interval, SlotsAssumption DEF Slots
  <1>5. Cardinality(S) \in Nat
    BY FS_CardinalityType
  <1> QED BY <1>2, <1>3, <1>4, <1>5, SlotsAssumption

(* The start of a run keeps the count exact.                                *)
LEMMA ExactStart ==
  ASSUME IInv, Exact, NEW r \in Runs, AddSlot(r), IsFiniteSet(Begun'),
         r \in Begun', Begun \subseteq Begun', Cardinality(Begun') <= MaxSlots
  PROVE  /\ count' = Cardinality(Active')
         /\ \A i \in Active' : slot'[i] = r \/ (i \in Active /\ slot'[i] = slot[i])
  <1>1. CASE r \in Tracked
    BY <1>1 DEF AddSlot, Exact, Active
  <1>2. CASE r \notin Tracked
    <2> DEFINE k == ChosenSlot
    <2>1. k \in Slots /\ k \notin Active
      BY <1>2, RoomLeft, ChosenSlotIsOldest DEF IInv
    <2>2. slot' = [slot EXCEPT ![k] = r] /\ count' = count + 1
      BY <1>2 DEF AddSlot
    <2> HIDE DEF k
    <2>3. r # None /\ slot \in [Slots -> Runs \cup {None}]
      BY SlotsAssumption DEF IInv, TypeOK, Runs
    <2>4. Active' = Active \cup {k}
      BY <2>1, <2>2, <2>3 DEF Active
    <2>5. Cardinality(Active') = Cardinality(Active) + 1
      BY <2>1, <2>4, ActiveFinite, FS_AddElement
    <2> QED BY <2>1, <2>2, <2>3, <2>4, <2>5 DEF Exact, Active
  <1> QED BY <1>1, <1>2

(* The end of a run keeps the count exact: only its own slot is freed, and  *)
(* counted, if it has one.                                                  *)
LEMMA ExactRemove ==
  ASSUME IInv, Exact, NEW r \in Runs, RemoveSlot(r)
  PROVE  /\ count' = Cardinality(Active')
         /\ \A i \in Active' : i \in Active /\ slot'[i] = slot[i] /\ slot[i] # r
         /\ info'.active => info.active /\ info' = info /\ count' # 0
  <1> DEFINE left == IF r \in Tracked /\ count > 0 THEN count - 1 ELSE count
  <1>1. /\ slot' = [i \in Slots |-> IF slot[i] = r THEN None ELSE slot[i]]
        /\ count' = left
        /\ info' = IF left = 0 /\ info.external THEN Cleared ELSE info
    BY DEF RemoveSlot
  <1>2. r # None /\ count \in Nat
    BY SlotsAssumption DEF IInv, TypeOK, Runs
  <1>3. \A i \in Active' : i \in Active /\ slot'[i] = slot[i] /\ slot[i] # r
    BY <1>1 DEF Active
  <1>4. count' = Cardinality(Active')
    <2>1. CASE r \in Tracked
      <3>1. PICK k \in Active : slot[k] = r
        BY <2>1 DEF Tracked
      <3>2. Active' = Active \ {k}
        BY <1>1, <3>1 DEF Active, IInv, SlotsDistinct
      <3>3. Cardinality(Active') = Cardinality(Active) - 1
        BY <3>1, <3>2, ActiveFinite, FS_RemoveElement
      <3>4. Cardinality(Active) # 0
        BY <3>1, ActiveFinite, FS_EmptySet
      <3> QED BY <1>1, <1>2, <2>1, <3>3, <3>4 DEF Exact
    <2>2. CASE r \notin Tracked
      <3>1. Active' = Active
        BY <1>1, <2>2 DEF Active, Tracked
      <3> QED BY <1>1, <2>2, <3>1 DEF Exact
    <2> QED BY <2>1, <2>2
  <1>5. info'.active => info.active /\ info' = info /\ count' # 0
    <2> HIDE DEF left
    <2>1. ~Cleared.active
      BY DEF Cleared
    <2> QED BY <1>1, <2>1 DEF Exact
  <1> QED BY <1>3, <1>4, <1>5

(* While no event is lost and the runs fit the table, every event keeps the *)
(* count exact and the slots those of the runs in progress.                 *)
LEMMA IdleNext == IInv /\ IdleInv /\ [Next]_vars => IdleInv'
  <1> SUFFICES ASSUME IInv, IdleInv, [Next]_vars, ~MayLose, OthersOnly'
               PROVE  /\ ~cb' /\ IsFiniteSet(Begun')
                      /\ Cardinality(Begun') <= MaxSlots => Exact'
    BY DEF IdleInv
  <1>0. TypeOK
    BY DEF IInv
  <1>1. CASE UNCHANGED vars
    BY <1>1 DEF vars, IdleInv, OthersOnly, Active, Begun, Exact, InProgress
  <1>2. CASE Next
    <2>1. OthersOnly /\ ~cb /\ IsFiniteSet(Begun) /\ (Cardinality(Begun) <= MaxSlots => Exact)
      BY <1>0, <1>2, OthersBefore DEF IdleInv
    <2>2. /\ \A r \in DeviceRuns : ~DeviceSend(r)
          /\ \A r \in CronRuns : ~CronStart(r)
          /\ \A r \in Runs : ~CronEnd(r)
      BY <1>0, <2>1, OthersSteps
    <2>3. info \in [active : BOOLEAN, external : BOOLEAN, run : Runs \cup {None},
                    session : Runs \cup {None}]
      BY <1>0 DEF TypeOK
    <2>4. ASSUME NEW r \in Runs, LifecycleStart(r)
          PROVE  ~cb' /\ IsFiniteSet(Begun') /\ (Cardinality(Begun') <= MaxSlots => Exact')
      <3>1. /\ AddSlot(r) /\ ~cb'
            /\ sent' = [sent EXCEPT ![r] = @ \cup {"start"}]
            /\ info' = [Busy(info) EXCEPT !.run = r, !.session = r]
            /\ "end" \notin sent[r]
        BY <2>1, <2>4 DEF LifecycleStart
      <3>2. /\ Begun' = Begun \cup {r}
            /\ \A q \in Runs : InProgress(q) => InProgress(q)'
            /\ InProgress(r)'
        BY <1>0, <3>1 DEF Begun, InProgress, TypeOK
      <3>3. IsFiniteSet(Begun') /\ Cardinality(Begun) <= Cardinality(Begun')
        BY <2>1, <3>2, FS_AddElement, FS_Subset
      <3>4. info'.active /\ info'.external
        BY <2>3, <3>1 DEF Busy
      <3>5. ASSUME Cardinality(Begun') <= MaxSlots PROVE Exact'
        <4>1. Exact
          BY <2>1, <3>3, <3>5, FS_CardinalityType, SlotsAssumption
        <4>2. /\ count' = Cardinality(Active')
              /\ \A i \in Active' : slot'[i] = r \/ (i \in Active /\ slot'[i] = slot[i])
          BY <3>1, <3>2, <3>3, <3>5, <4>1, ExactStart
        <4>3. \A i \in Active : slot[i] \in Runs
          BY <1>0 DEF TypeOK, Active
        <4> QED BY <3>2, <3>4, <4>1, <4>2, <4>3 DEF Exact, InProgress
      <3> QED BY <3>1, <3>3, <3>5
    <2>5. ASSUME NEW r \in Runs, LifecycleEnd(r)
          PROVE  ~cb' /\ IsFiniteSet(Begun') /\ (Cardinality(Begun') <= MaxSlots => Exact')
      <3>1. /\ RemoveSlot(r) /\ ~cb' /\ "start" \in sent[r]
            /\ sent' = [sent EXCEPT ![r] = @ \cup {"end"}]
        BY <2>1, <2>5 DEF LifecycleEnd, Publishing
      <3>2. Begun' = Begun /\ \A q \in Runs : InProgress(q) /\ q # r => InProgress(q)'
        BY <1>0, <3>1 DEF Begun, InProgress, TypeOK
      <3>3. ASSUME Exact PROVE Exact'
        <4>1. /\ count' = Cardinality(Active')
              /\ \A i \in Active' : i \in Active /\ slot'[i] = slot[i] /\ slot[i] # r
              /\ info'.active => info.active /\ info' = info /\ count' # 0
          BY <3>1, <3>3, ExactRemove
        <4>2. \A i \in Active : slot[i] \in Runs
          BY <1>0 DEF TypeOK, Active
        <4>3. \A i \in Active' : InProgress(slot[i])' /\ slot'[i] = slot[i] /\ slot[i] \in Runs
          BY <3>2, <3>3, <4>1, <4>2 DEF Exact, InProgress
        <4>4. info'.active => Active' # {}
          BY <4>1, FS_EmptySet
        <4> QED BY <3>3, <4>1, <4>3, <4>4 DEF Exact, InProgress
      <3> QED BY <2>1, <3>1, <3>2, <3>3
    <2>6. ASSUME NEW r \in Runs, ChatEnd(r)
          PROVE  ~cb' /\ IsFiniteSet(Begun') /\ (Cardinality(Begun') <= MaxSlots => Exact')
      <3>1. /\ RemoveSlot(r) /\ ~cb'
            /\ sent' = [sent EXCEPT ![r] = @ \cup {"final"}]
        BY <2>1, <2>6 DEF ChatEnd, Publishing
      <3>2. Begun' = Begun /\ \A q \in Runs : InProgress(q) => InProgress(q)'
        BY <1>0, <3>1 DEF Begun, InProgress, TypeOK
      <3>3. ASSUME Exact PROVE Exact'
        <4>1. /\ count' = Cardinality(Active')
              /\ \A i \in Active' : i \in Active /\ slot'[i] = slot[i] /\ slot[i] # r
              /\ info'.active => info.active /\ info' = info /\ count' # 0
          BY <3>1, <3>3, ExactRemove
        <4>2. \A i \in Active : slot[i] \in Runs
          BY <1>0 DEF TypeOK, Active
        <4> QED BY <3>2, <3>3, <4>1, <4>2 DEF Exact, InProgress
      <3> QED BY <2>1, <3>1, <3>2, <3>3
    <2>7. ASSUME NEW r \in Runs, AgentWorks(r) \/ ChatDelta(r)
          PROVE  ~cb' /\ IsFiniteSet(Begun') /\ (Cardinality(Begun') <= MaxSlots => Exact')
      <3>1. Reporting(r) /\ ~cb' /\ UNCHANGED <<slot, count, sent>>
        BY <2>1, <2>7 DEF AgentWorks, ChatDelta
      <3>2. InProgress(r)
        BY <2>1, <3>1 DEF Reporting, InProgress, OthersOnly
      <3>3. info'.active /\ info'.external
        <4>1. CASE AgentWorks(r)
          BY <2>1, <2>3, <4>1 DEF AgentWorks, Busy
        <4>2. CASE ChatDelta(r)
          BY <2>1, <2>3, <4>2 DEF ChatDelta, Busy
        <4> QED BY <2>7, <4>1, <4>2
      <3> QED BY <2>1, <3>1, <3>2, <3>3 DEF Exact, Active, Begun, InProgress
    <2>8. ASSUME NEW aged \in BOOLEAN, Health(aged)
          PROVE  ~cb' /\ IsFiniteSet(Begun') /\ (Cardinality(Begun') <= MaxSlots => Exact')
      <3>1. CASE info.active /\ aged
        <4>1. /\ slot' = [i \in Slots |-> None] /\ count' = 0 /\ info' = Cleared
              /\ UNCHANGED <<cb, sent>>
          BY <2>8, <3>1 DEF Health
        <4>2. Active' = {} /\ ~info'.active
          BY <4>1 DEF Active, Cleared
        <4> QED BY <2>1, <4>1, <4>2, FS_EmptySet DEF Exact, Begun
      <3>2. CASE ~(info.active /\ aged)
        BY <2>1, <2>8, <3>2 DEF Health, Exact, Active, Begun, InProgress
      <3> QED BY <3>1, <3>2
    <2>9. CASE AbortSession
      <3>1. ~info'.active /\ UNCHANGED <<slot, count, cb, sent>>
        BY <2>3, <2>9 DEF AbortSession
      <3> QED BY <2>1, <3>1 DEF Exact, Active, Begun, InProgress
    <2>10. ~DeviceAbort /\ \A r \in Runs : ~Lost(r)
      BY <2>1 DEF DeviceAbort, Lost
    <2> QED BY <1>2, <2>2, <2>4, <2>5, <2>6, <2>7, <2>8, <2>9, <2>10 DEF Next, Event
  <1> QED BY <1>1, <1>2

(* When all runs that began have ended, no activity is shown, provided that *)
(* no event is lost and no more runs began than there are slots: for any    *)
(* numbers of both, whatever the user aborts and the health check clears    *)
(* meanwhile (openclaw_client.c:189-201, 523-526).                          *)
THEOREM IdleShown == Spec => [](~MayLose => IdleWhenAllEnded)
  <1>1. Init => IdleInv
    <2> SUFFICES ASSUME Init PROVE IdleInv
      OBVIOUS
    <2>1. Active = {} /\ Begun = {} /\ ~info.active /\ ~cb /\ count = 0
      BY DEF Init, Active, Begun, Cleared
    <2> QED BY <2>1, FS_EmptySet DEF IdleInv, Exact
  <1>2. IdleInv => (~MayLose => IdleWhenAllEnded)
    BY DEF IdleInv, IdleWhenAllEnded, Exact
  <1> QED BY InitInvariant, NextInvariant, IdleNext, <1>1, <1>2, PTL DEF Spec
=============================================================================
