---------------------------- MODULE BoardProofs -----------------------------
(* Proofs about the board: the buttons of the boards without a knob, the    *)
(* M5Stick's one-bit speaker, the wheel, the Watcher's expander, the LED    *)
(* and the conversions of the drivers, each for every value of its          *)
(* constants; and about ed25519_lib, with which the device proves who it    *)
(* is: signatures, and the blocks of the hash.                              *)
EXTENDS Buttons, DeltaSigma, Encoder, Board, Lights, Scales, Signing, Sha512, TLAPS

-----------------------------------------------------------------------------
(* Buttons.  Each press is worth one gesture, and where that gesture still  *)
(* is can be told from the state: in the hold that was not reported, or in  *)
(* the click that waits for its window.                                     *)
Unreported == IF (held /\ ~seen) \/ (seen /\ ~longFired) THEN 1 ELSE 0
Waiting == IF pending THEN 1 ELSE 0
Gestured == tally["click"] + tally["double"] + tally["long"]
ButtonsInv ==
  /\ ButtonsTypeOK
  /\ Gestured + Waiting + Unreported <= tally["press"]
  /\ tally["double"] > 0 => tally["press"] > tally["double"]

(* Counting a gesture adds one to its entry and leaves the others.          *)
LEMMA CountedAddsOne ==
  ASSUME ButtonsTypeOK, NEW g \in Gestures, Counted(g)
  PROVE  /\ tally' \in [Gestures -> Nat]
         /\ tally'[g] = tally[g] + 1
         /\ \A o \in Gestures \ {g} : tally'[o] = tally[o]
  BY DEF ButtonsTypeOK, Counted

(* The types, apart: what is a fact or a set, and what is counted.          *)
ButtonsFacts ==
  /\ button \in M5Stick \cup AudioBoard
  /\ held \in BOOLEAN /\ seen \in BOOLEAN /\ longFired \in BOOLEAN
  /\ pending \in BOOLEAN /\ (pending => button \in M5Stick)
  /\ asked \subseteq Requests
  /\ autoRead \in BOOLEAN /\ sleepsDeep \in BOOLEAN
ButtonsClocks == age \in 0..LongHold /\ gap \in 0..DoubleWindow
LEMMA ButtonsTypes ==
  ButtonsTypeOK <=> ButtonsFacts /\ ButtonsClocks /\ tally \in [Gestures -> 0..MaxGestures]
  BY DEF ButtonsTypeOK, ButtonsFacts, ButtonsClocks
LEMMA ButtonsTypesNext ==
  ButtonsFacts' /\ ButtonsClocks' /\ tally' \in [Gestures -> 0..MaxGestures] => ButtonsTypeOK'
  BY DEF ButtonsTypeOK, ButtonsFacts, ButtonsClocks

(* Nothing was pressed yet.                                                 *)
LEMMA ButtonsInitInv == ButtonsInit => ButtonsInv
  <1> SUFFICES ASSUME ButtonsInit PROVE ButtonsInv
    OBVIOUS
  <1>1. ButtonsTypeOK
    <2>1. ButtonsFacts
      BY DEF ButtonsInit, ButtonsFacts
    <2>2. ButtonsClocks
      BY ButtonsAssumption DEF ButtonsInit, ButtonsClocks
    <2>3. tally \in [Gestures -> 0..MaxGestures]
      BY ButtonsAssumption DEF ButtonsInit
    <2> QED BY <2>1, <2>2, <2>3, ButtonsTypes
  <1>2. Gestured = 0 /\ Waiting = 0 /\ Unreported = 0 /\ tally["press"] = 0 /\ tally["double"] = 0
    BY DEF ButtonsInit, Gestured, Waiting, Unreported, Gestures
  <1> QED BY <1>1, <1>2 DEF ButtonsInv

(* A step that adds no more gestures than it takes from the presses in      *)
(* waiting keeps the bound, and with it every entry below MaxGestures.      *)
LEMMA TallyKept ==
  ASSUME ButtonsTypeOK, tally' \in [Gestures -> Nat], tally'["press"] <= MaxGestures,
         Gestured' <= tally'["press"]
  PROVE  tally' \in [Gestures -> 0..MaxGestures]
  <1>1. \A g \in Gestures : tally'[g] \in Nat
    OBVIOUS
  <1>2. \A g \in Gestures : tally'[g] <= MaxGestures
    BY <1>1, ButtonsAssumption DEF Gestures, Gestured
  <1> QED BY <1>1, <1>2, ButtonsAssumption

(* Every poll, every press and every release keeps the bound.               *)
LEMMA ButtonsNextInv == ButtonsInv /\ [ButtonsNext]_buttonVars => ButtonsInv'
  <1> SUFFICES ASSUME ButtonsInv, [ButtonsNext]_buttonVars PROVE ButtonsInv'
    OBVIOUS
  <1> USE ButtonsAssumption
  <1>0. /\ ButtonsTypeOK
        /\ tally["click"] \in Nat /\ tally["double"] \in Nat
        /\ tally["long"] \in Nat /\ tally["press"] \in 0..MaxGestures
        /\ Gestured \in Nat /\ Waiting \in {0, 1} /\ Unreported \in {0, 1}
    BY DEF ButtonsInv, ButtonsTypeOK, Gestures, Gestured, Waiting, Unreported
  <1>00. ButtonsFacts /\ ButtonsClocks /\ tally \in [Gestures -> 0..MaxGestures]
    BY <1>0, ButtonsTypes
  <1>1. CASE PollPress
    <2>1. held /\ ~seen /\ seen' /\ ~longFired' /\ held' = held /\ button' = button
      BY <1>1, <1>0 DEF PollPress, ButtonsTypeOK
    <2>2. Unreported = 1 /\ Unreported' = 1
      BY <2>1 DEF Unreported
    <2>3. CASE pending /\ InWindow
      <3>1. Counted("double") /\ ~pending' /\ Waiting = 1 /\ Waiting' = 0
        BY <1>1, <2>3 DEF PollPress, Waiting
      <3>2. /\ tally' \in [Gestures -> Nat] /\ tally'["double"] = tally["double"] + 1
            /\ tally'["click"] = tally["click"] /\ tally'["long"] = tally["long"]
            /\ tally'["press"] = tally["press"]
        BY <1>0, <3>1, CountedAddsOne DEF Gestures
      <3>3. /\ Gestured' + Waiting' + Unreported' <= tally'["press"]
            /\ tally'["press"] > tally'["double"]
        BY <1>0, <2>2, <3>1, <3>2 DEF ButtonsInv, Gestured
      <3>4. tally' \in [Gestures -> 0..MaxGestures]
        BY <1>0, <2>2, <3>1, <3>2, <3>3, TallyKept DEF Gestured
      <3>5. ButtonsTypeOK'
        <4>1. ButtonsFacts'
          BY <1>00, <1>1, <2>1, <2>3, <3>1 DEF PollPress, ButtonsFacts, DoubleAsks, Requests
        <4>2. ButtonsClocks'
          BY <1>00, <1>1 DEF PollPress, ButtonsClocks, Later, UpTo
        <4> QED BY <1>00, <4>1, <4>2, <3>4, ButtonsTypesNext
      <3> QED BY <3>3, <3>5 DEF ButtonsInv
    <2>4. CASE ~(pending /\ InWindow)
      <3>1. tally' = tally /\ pending' = pending
        BY <1>1, <2>4 DEF PollPress
      <3>2. ButtonsTypeOK'
        <4>1. ButtonsFacts'
          BY <1>00, <1>1, <2>1, <2>4, <3>1 DEF PollPress, ButtonsFacts, Requests
        <4>2. ButtonsClocks'
          BY <1>00, <1>1 DEF PollPress, ButtonsClocks, Later, UpTo
        <4> QED BY <1>00, <4>1, <4>2, <3>1, ButtonsTypesNext
      <3> QED BY <2>2, <3>1, <3>2 DEF ButtonsInv, Gestured, Waiting
    <2> QED BY <2>3, <2>4
  <1>2. ASSUME NEW face \in Faces, PollHeld(face) PROVE ButtonsInv'
    <2>1. held /\ seen /\ held' = held /\ seen' = seen /\ pending' = pending /\ Waiting' = Waiting
      BY <1>2 DEF PollHeld, Waiting
    <2>2. CASE ~longFired /\ age + 1 >= HoldLimit
      <3>1. Counted("long") /\ longFired' /\ Unreported = 1 /\ Unreported' = 0
        BY <1>2, <2>1, <2>2 DEF PollHeld, Unreported
      <3>2. /\ tally' \in [Gestures -> Nat] /\ tally'["long"] = tally["long"] + 1
            /\ tally'["click"] = tally["click"] /\ tally'["double"] = tally["double"]
            /\ tally'["press"] = tally["press"]
        BY <1>0, <3>1, CountedAddsOne DEF Gestures
      <3>3. /\ Gestured' + Waiting' + Unreported' <= tally'["press"]
            /\ tally'["double"] > 0 => tally'["press"] > tally'["double"]
        BY <1>0, <2>1, <3>1, <3>2 DEF ButtonsInv, Gestured
      <3>4. tally' \in [Gestures -> 0..MaxGestures]
        BY <1>0, <2>1, <3>1, <3>2, <3>3, TallyKept DEF Gestured
      <3>5. ButtonsTypeOK'
        BY <1>0, <1>2, <2>1, <2>2, <3>4
           DEF PollHeld, ButtonsTypeOK, Older, Later, UpTo, LongAsks, Requests
      <3> QED BY <3>3, <3>5 DEF ButtonsInv
    <2>3. CASE ~(~longFired /\ age + 1 >= HoldLimit)
      <3>1. tally' = tally /\ longFired' = longFired /\ asked' = asked /\ sleepsDeep' = sleepsDeep
        BY <1>2, <2>3 DEF PollHeld
      <3>2. ButtonsTypeOK'
        BY <1>0, <1>2, <2>1, <3>1 DEF PollHeld, ButtonsTypeOK, Older, Later, UpTo
      <3> QED BY <2>1, <3>1, <3>2 DEF ButtonsInv, Gestured, Unreported
    <2> QED BY <2>2, <2>3
  <1>3. ASSUME NEW rec \in BOOLEAN, PollRelease(rec) PROVE ButtonsInv'
    <2>1. /\ ~held /\ seen /\ ~longFired /\ ~seen' /\ held' = held /\ Unreported = 1
          /\ Unreported' = 0
      BY <1>3, <1>0 DEF PollRelease, Unreported, ButtonsTypeOK
    <2>2. CASE button = "boot"
      <3>1. Counted("click") /\ pending' = pending
        BY <1>3, <2>2 DEF PollRelease, M5Stick
      <3>2. /\ tally' \in [Gestures -> Nat] /\ tally'["click"] = tally["click"] + 1
            /\ tally'["long"] = tally["long"] /\ tally'["double"] = tally["double"]
            /\ tally'["press"] = tally["press"]
        BY <1>0, <3>1, CountedAddsOne DEF Gestures
      <3>3. /\ Gestured' + Waiting' + Unreported' <= tally'["press"]
            /\ tally'["double"] > 0 => tally'["press"] > tally'["double"]
        BY <1>0, <2>1, <3>1, <3>2 DEF ButtonsInv, Gestured, Waiting
      <3>4. tally' \in [Gestures -> 0..MaxGestures]
        <4>1. Waiting' \in Nat
          BY DEF Waiting
        <4> QED BY <1>0, <2>1, <3>2, <3>3, <4>1, TallyKept DEF Gestured
      <3>5. ButtonsTypeOK'
        <4>1. ButtonsFacts'
          BY <1>00, <1>3, <2>1, <2>2, <3>1 DEF PollRelease, ButtonsFacts, ClickAsks, Requests, M5Stick
        <4>2. ButtonsClocks'
          BY <1>00, <1>3 DEF PollRelease, ButtonsClocks
        <4> QED BY <1>00, <4>1, <4>2, <3>4, ButtonsTypesNext
      <3> QED BY <3>3, <3>5 DEF ButtonsInv
    <2>3. CASE button # "boot"
      <3>1. tally' = tally /\ asked' = asked /\ (pending' => pending \/ button \in M5Stick)
        BY <1>0, <1>3, <2>3 DEF PollRelease, M5Stick, AudioBoard, ButtonsTypeOK
      <3>2. ButtonsTypeOK'
        <4>1. ButtonsFacts'
          BY <1>00, <1>3, <2>1, <2>3, <3>1 DEF PollRelease, ButtonsFacts, M5Stick, AudioBoard
        <4>2. ButtonsClocks'
          BY <1>00, <1>3 DEF PollRelease, ButtonsClocks
        <4> QED BY <1>00, <4>1, <4>2, <3>1, ButtonsTypesNext
      <3>3. Waiting' <= Waiting + 1
        BY <1>0 DEF Waiting
      <3>4. Waiting' \in Nat /\ Gestured' = Gestured
        BY <3>1 DEF Waiting, Gestured
      <3>5. Gestured' + Waiting' + Unreported' <= tally'["press"]
        BY <1>0, <2>1, <3>1, <3>3, <3>4 DEF ButtonsInv
      <3> QED BY <3>1, <3>2, <3>5 DEF ButtonsInv
    <2> QED BY <2>2, <2>3
  <1>4. ASSUME NEW face \in Faces, NEW rec \in BOOLEAN, NEW speaks \in BOOLEAN,
               PollUp(face, rec, speaks)
        PROVE  ButtonsInv'
    <2>1. /\ ~held /\ ~seen' /\ held' = held /\ Unreported = 0 /\ Unreported' = 0
      BY <1>4, <1>0 DEF PollUp, Unreported, ButtonsTypeOK
    <2>2. CASE pending /\ ~InWindow
      <3>1. Counted("click") /\ ~pending' /\ Waiting = 1 /\ Waiting' = 0
        BY <1>4, <2>2 DEF PollUp, Waiting
      <3>2. /\ tally' \in [Gestures -> Nat] /\ tally'["click"] = tally["click"] + 1
            /\ tally'["long"] = tally["long"] /\ tally'["double"] = tally["double"]
            /\ tally'["press"] = tally["press"]
        BY <1>0, <3>1, CountedAddsOne DEF Gestures
      <3>3. /\ Gestured' + Waiting' + Unreported' <= tally'["press"]
            /\ tally'["double"] > 0 => tally'["press"] > tally'["double"]
        BY <1>0, <2>1, <3>1, <3>2 DEF ButtonsInv, Gestured
      <3>4. tally' \in [Gestures -> 0..MaxGestures]
        BY <1>0, <2>1, <3>1, <3>2, <3>3, TallyKept DEF Gestured
      <3>5. ClickAsks(face, rec, speaks) \in Requests
        BY <1>0 DEF ClickAsks, Requests, ButtonsTypeOK, M5Stick, AudioBoard
      <3>6. ButtonsTypeOK'
        <4>1. ButtonsFacts'
          BY <1>00, <1>4, <2>1, <2>2, <3>1, <3>5 DEF PollUp, ButtonsFacts
        <4>2. ButtonsClocks'
          BY <1>00, <1>4 DEF PollUp, ButtonsClocks, Later, UpTo
        <4> QED BY <1>00, <4>1, <4>2, <3>4, ButtonsTypesNext
      <3> QED BY <3>3, <3>6 DEF ButtonsInv
    <2>3. CASE ~(pending /\ ~InWindow)
      <3>1. tally' = tally /\ pending' = pending /\ asked' = asked
        BY <1>4, <2>3 DEF PollUp
      <3>2. ButtonsTypeOK'
        <4>1. ButtonsFacts'
          BY <1>00, <1>4, <2>1, <3>1 DEF PollUp, ButtonsFacts
        <4>2. ButtonsClocks'
          BY <1>00, <1>4 DEF PollUp, ButtonsClocks, Later, UpTo
        <4> QED BY <1>00, <4>1, <4>2, <3>1, ButtonsTypesNext
      <3> QED BY <2>1, <3>1, <3>2 DEF ButtonsInv, Gestured, Waiting
    <2> QED BY <2>2, <2>3
  <1>5. CASE PushButton
    <2>1. /\ ~held /\ ~seen /\ held' /\ ~seen' /\ Counted("press") /\ tally["press"] < MaxGestures
          /\ pending' = pending /\ Unreported = 0 /\ Unreported' = 1
      BY <1>5, <1>0 DEF PushButton, Unreported, ButtonsTypeOK
    <2>2. /\ tally' \in [Gestures -> Nat] /\ tally'["press"] = tally["press"] + 1
          /\ tally'["click"] = tally["click"] /\ tally'["double"] = tally["double"]
          /\ tally'["long"] = tally["long"]
      BY <1>0, <2>1, CountedAddsOne DEF Gestures
    <2>3. /\ Gestured' + Waiting' + Unreported' <= tally'["press"]
          /\ tally'["double"] > 0 => tally'["press"] > tally'["double"]
      BY <1>0, <2>1, <2>2 DEF ButtonsInv, Gestured, Waiting
    <2>4. tally' \in [Gestures -> 0..MaxGestures]
      BY <1>0, <2>1, <2>2, TallyKept DEF ButtonsInv, Gestured
    <2>5. ButtonsTypeOK'
      BY <1>0, <1>5, <2>1, <2>4 DEF PushButton, ButtonsTypeOK
    <2> QED BY <2>3, <2>5 DEF ButtonsInv
  <1>6. CASE LetGo
    <2>1. ButtonsTypeOK' /\ tally' = tally /\ pending' = pending
      BY <1>0, <1>6 DEF LetGo, ButtonsTypeOK
    <2>2. Unreported' = Unreported
      BY <1>6 DEF LetGo, Unreported
    <2> QED BY <2>1, <2>2 DEF ButtonsInv, Gestured, Waiting
  <1>7. CASE ServeRequests
    <2>1. ButtonsTypeOK' /\ tally' = tally
      BY <1>0, <1>7 DEF ServeRequests, ButtonsTypeOK
    <2> QED BY <1>7, <2>1 DEF ServeRequests, ButtonsInv, Gestured, Waiting, Unreported
  <1>8. CASE UNCHANGED buttonVars
    BY <1>8 DEF buttonVars, ButtonsInv, ButtonsTypeOK, Gestured, Waiting, Unreported
  <1> QED BY <1>1, <1>2, <1>3, <1>4, <1>5, <1>6, <1>7, <1>8 DEF ButtonsNext

(* app_tasks.c:204: whatever the timing and however long it goes on, a      *)
(* button never reports more gestures than it was pressed.                  *)
THEOREM NoPhantoms == ButtonsSpec => []NoPhantomGesture
  <1>1. ButtonsInv => NoPhantomGesture
    <2> SUFFICES ASSUME ButtonsInv PROVE NoPhantomGesture
      OBVIOUS
    <2>1. /\ Gestured \in Nat /\ Waiting \in Nat /\ Unreported \in Nat
          /\ tally["press"] \in Nat
      BY DEF ButtonsInv, ButtonsTypeOK, Gestures, Gestured, Waiting, Unreported
    <2>2. Gestured <= tally["press"]
      BY <2>1 DEF ButtonsInv
    <2> QED BY <2>2 DEF ButtonsInv, NoPhantomGesture, Gestured
  <1> QED BY <1>1, ButtonsInitInv, ButtonsNextInv, PTL DEF ButtonsSpec

-----------------------------------------------------------------------------
(* The speaker.  What the integrator has taken in is what the bits gave     *)
(* back: Full for each one, and the holder's copy is where the stream is.   *)
DsInv ==
  /\ DsTypeOK
  /\ ones <= Bits - bitsLeft
  /\ bitsLeft > 0 => drive # 1 /\ dsOwner # "none"
  /\ drive # 1 => acc - started = (Bits - bitsLeft) * drive + Full * ones
  /\ acc = streamed
  /\ dsOwner = "none" => dsAccum = streamed

(* A sample's drive takes the integrator down, by less than its range.      *)
LEMMA DriveInRange ==
  ASSUME NEW sample \in -Half..(Half - 1)
  PROVE  Drive(sample) \in (1 - Full)..0
  BY HalfAssumption DEF Drive, Clamp, Full

(* One more bit of the same drive is one more drive taken in.               *)
LEMMA OneMore ==
  ASSUME NEW n \in Int, NEW d \in Int
  PROVE  (n + 1) * d = n * d + d
  OBVIOUS

(* Nothing was played yet.                                                  *)
LEMMA DsInitInv == DsInit => DsInv
  BY HalfAssumption, BitsAssumption DEF DsInit, DsInv, DsTypeOK, Full

(* Every sample, every bit and every change of the player keep it.          *)
LEMMA DsNextInv == DsInv /\ [DsNext]_dsVars => DsInv'
  <1> SUFFICES ASSUME DsInv, [DsNext]_dsVars PROVE DsInv'
    OBVIOUS
  <1> USE HalfAssumption, BitsAssumption
  <1>1. ASSUME NEW p \in Players, PlayBegin(p) PROVE DsInv'
    BY <1>1 DEF PlayBegin, DsInv, DsTypeOK
  <1>2. ASSUME NEW sample \in -Half..(Half - 1), NextSample(sample) PROVE DsInv'
    <2>1. Drive(sample) \in (1 - Full)..0
      BY DriveInRange
    <2>2. DsTypeOK'
      BY <1>2, <2>1 DEF NextSample, DsInv, DsTypeOK, Full
    <2>3. (Bits - Bits) * drive' = 0 /\ Full * 0 = 0
      BY <1>2, <2>1 DEF NextSample, Full
    <2> QED BY <1>2, <2>1, <2>2, <2>3 DEF NextSample, DsInv, DsTypeOK, Full
  <1>3. CASE NextBit
    <2> DEFINE n == Bits - bitsLeft
    <2>1. /\ bitsLeft \in 1..Bits /\ bitsLeft' = bitsLeft - 1 /\ drive # 1 /\ drive' = drive
          /\ drive \in (1 - Full)..0 /\ Full \in Nat /\ acc \in 0..(Full - 1)
          /\ started \in Int /\ started' = started /\ ones \in Nat /\ streamed' = acc'
      BY <1>3 DEF NextBit, DsInv, DsTypeOK, Full
    <2>2. acc - started = n * drive + Full * ones
      BY <2>1 DEF DsInv
    <2>3. (n + 1) * drive = n * drive + drive
      BY <2>1, OneMore
    <2>4. Full * (ones + 1) = Full * ones + Full
      BY <2>1
    <2>5. n * drive \in Int /\ Full * ones \in Int
      BY <2>1
    <2>6. /\ acc' - started = (n * drive + drive) + Full * ones'
          /\ acc' \in 0..(Full - 1) /\ ones' \in Nat /\ ones' <= ones + 1
      <3>1. CASE acc + drive < 0
        BY <1>3, <2>1, <2>2, <2>4, <2>5, <3>1 DEF NextBit
      <3>2. CASE ~(acc + drive < 0)
        BY <1>3, <2>1, <2>2, <2>5, <3>2 DEF NextBit
      <3> QED BY <3>1, <3>2
    <2>7. Bits - bitsLeft' = n + 1
      BY <2>1
    <2>8. acc' - started' = (Bits - bitsLeft') * drive' + Full * ones'
      BY <2>1, <2>3, <2>6, <2>7
    <2>9. DsTypeOK' /\ ones' <= Bits - bitsLeft'
      BY <1>3, <2>1, <2>6 DEF NextBit, DsInv, DsTypeOK
    <2> QED BY <1>3, <2>1, <2>8, <2>9 DEF NextBit, DsInv, DsTypeOK
  <1>4. CASE PlayEnd
    BY <1>4 DEF PlayEnd, DsInv, DsTypeOK
  <1>5. CASE UNCHANGED dsVars
    BY <1>5 DEF dsVars, DsInv, DsTypeOK
  <1> QED BY <1>1, <1>2, <1>3, <1>4, <1>5 DEF DsNext

(* board.c:2098: one addition a bit keeps the integrator in its range, and  *)
(* the bits of a sample carry its drive to within one bit, for any sample   *)
(* width, any number of bits and whichever tasks take turns.                *)
THEOREM DensityTracks == DsSpec => []DensityTracksSample
  <1>1. DsInv => DensityTracksSample
    BY DEF DsInv, DsTypeOK, DensityTracksSample
  <1> QED BY <1>1, DsInitInv, DsNextInv, PTL DEF DsSpec

-----------------------------------------------------------------------------
(* The wheel.                                                               *)

PinsByQuarter == [q \in 0..3 |-> CASE q = 0 -> 0 [] q = 1 -> 2 [] q = 2 -> 3 [] q = 3 -> 1]

(* The pins depend on the quarter the shaft is in.                          *)
LEMMA PinsOfQuarter ==
  ASSUME NEW p \in Int
  PROVE  /\ p % 4 \in 0..3
         /\ p % 4 = 0 => PinsAt(p) = 0
         /\ p % 4 = 1 => PinsAt(p) = 2
         /\ p % 4 = 2 => PinsAt(p) = 3
         /\ p % 4 = 3 => PinsAt(p) = 1
  <1>1. p % 4 \in 0..3
    OBVIOUS
  <1>2. PinsAt(p) = PinsByQuarter[p % 4]
    BY DEF PinsAt, PinsByQuarter
  <1>3. /\ PinsByQuarter[0] = 0 /\ PinsByQuarter[1] = 2
        /\ PinsByQuarter[2] = 3 /\ PinsByQuarter[3] = 1
    BY DEF PinsByQuarter
  <1> QED BY <1>1, <1>2, <1>3

(* The table of steps, entry by entry.                                      *)
LEMMA LutEntries ==
  /\ Lut[0] = 0 /\ Lut[2] = 1 /\ Lut[3] = 0 /\ Lut[1] = -1
  /\ Lut[8] = -1 /\ Lut[10] = 0 /\ Lut[11] = 1 /\ Lut[9] = 0
  /\ Lut[12] = 0 /\ Lut[14] = -1 /\ Lut[15] = 0 /\ Lut[13] = 1
  /\ Lut[4] = 1 /\ Lut[6] = 0 /\ Lut[7] = -1 /\ Lut[5] = 0
  BY DEF Lut

(* A poll that sees a step counts it; half a turn it cannot tell from none. *)
LEMMA StepCounted ==
  ASSUME NEW p \in Int, NEW turned \in Int
  PROVE  LET add == Lut[PinsAt(p) * 4 + PinsAt(p + turned)]
         IN  /\ add \in {-1, 0, 1} /\ (add - turned) % 2 = 0
             /\ turned \in {-1, 0, 1} => add = turned
  <1> DEFINE add == Lut[PinsAt(p) * 4 + PinsAt(p + turned)]
  <1>1. p % 4 \in 0..3 /\ (p + turned) % 4 \in 0..3 /\ turned % 4 \in 0..3
    OBVIOUS
  <1>2. /\ turned % 4 = 0 => (p + turned) % 4 = p % 4
        /\ turned % 4 = 1 => (p + turned) % 4 = (IF p % 4 = 3 THEN 0 ELSE (p % 4) + 1)
        /\ turned % 4 = 3 => (p + turned) % 4 = (IF p % 4 = 0 THEN 3 ELSE (p % 4) - 1)
        /\ turned % 4 = 2 => (p + turned) % 4 = (IF p % 4 > 1 THEN (p % 4) - 2 ELSE (p % 4) + 2)
    OBVIOUS
  <1>3. /\ turned % 4 = 0 => add = 0
        /\ turned % 4 = 1 => add = 1
        /\ turned % 4 = 3 => add = -1
        /\ turned % 4 = 2 => add = 0
    <2>1. p + turned \in Int
      OBVIOUS
    <2>2. /\ p % 4 = 0 => PinsAt(p) = 0
          /\ p % 4 = 1 => PinsAt(p) = 2
          /\ p % 4 = 2 => PinsAt(p) = 3
          /\ p % 4 = 3 => PinsAt(p) = 1
      BY PinsOfQuarter
    <2>3. /\ (p + turned) % 4 = 0 => PinsAt(p + turned) = 0
          /\ (p + turned) % 4 = 1 => PinsAt(p + turned) = 2
          /\ (p + turned) % 4 = 2 => PinsAt(p + turned) = 3
          /\ (p + turned) % 4 = 3 => PinsAt(p + turned) = 1
      BY <2>1, PinsOfQuarter
    <2> QED BY <1>1, <1>2, <2>2, <2>3, LutEntries
  <1>4. add \in {-1, 0, 1} /\ (add - turned) % 2 = 0
    BY <1>1, <1>3
  <1>5. turned \in {-1, 0, 1} => add = turned
    BY <1>3
  <1> QED BY <1>4, <1>5

(* What is counted follows the shaft, and what is not delivered yet is in   *)
(* the counter or in the callback's hands.                                  *)
WheelInv ==
  /\ shaft \in Int /\ knobDelta \in Int /\ counted \in Int /\ delivered \in Int
  /\ ticking.loaded \in Int /\ ticking.add \in {-1, 0, 1} /\ taking.read \in Int
  /\ knobPrev = PinsAt(shaft)
  /\ (counted - shaft) % 2 = 0 /\ (~skipped => counted = shaft)
  /\ ~collided =>
       /\ ~(taking.on /\ ticking.on)
       /\ taking.on => taking.read = knobDelta
       /\ ticking.on => ticking.loaded = knobDelta
       /\ delivered + knobDelta + (IF ticking.on THEN ticking.add ELSE 0) = counted

(* The wheel starts in step with the decoder.                               *)
LEMMA WheelInit == EncoderInit => WheelInv
  BY DEF EncoderInit, WheelInv, NotTicking, NotTaking

(* Each poll, store, read and clear keeps it so.                            *)
LEMMA WheelNext == WheelInv /\ [EncoderNext]_encoderVars => WheelInv'
  <1> SUFFICES ASSUME WheelInv, [EncoderNext]_encoderVars PROVE WheelInv'
    OBVIOUS
  <1> USE DEF WheelInv
  <1>1. ASSUME NEW turned \in -MaxSteps..MaxSteps, TickLoads(turned)
        PROVE  WheelInv'
    <2>1. shaft \in Int /\ turned \in Int /\ shaft' = shaft + turned
      BY <1>1, EncoderAssumption DEF TickLoads
    <2> DEFINE add == Lut[PinsAt(shaft) * 4 + PinsAt(shaft + turned)]
    <2>2. add \in {-1, 0, 1} /\ (add - turned) % 2 = 0 /\ (turned \in {-1, 0, 1} => add = turned)
      BY <2>1, StepCounted
    <2>3. /\ knobPrev' = PinsAt(shaft') /\ counted' = counted + add
          /\ ticking' = [on |-> TRUE, loaded |-> knobDelta, add |-> add]
      BY <1>1, <2>1 DEF TickLoads
    <2>4. (counted' - shaft') % 2 = 0 /\ (~skipped' => counted' = shaft')
      <3>1. (counted' - shaft') = (counted - shaft) + (add - turned)
        BY <2>1, <2>2, <2>3
      <3> HIDE DEF add
      <3>2. counted - shaft \in Int /\ add - turned \in Int
        BY <2>1, <2>2
      <3>3. \A a, b \in Int : a % 2 = 0 /\ b % 2 = 0 => (a + b) % 2 = 0
        OBVIOUS
      <3>4. (counted' - shaft') % 2 = 0
        BY <3>1, <3>2, <3>3, <2>2
      <3>5. skipped' = (skipped \/ turned \notin {-1, 0, 1})
        BY <1>1 DEF TickLoads
      <3> QED BY <3>4, <3>5, <2>1, <2>2, <2>3
    <2>5. ~collided' => ~collided /\ ~taking'.on
      BY <1>1 DEF TickLoads
    <2>6. UNCHANGED <<knobDelta, taking, delivered>> /\ ~ticking.on
      BY <1>1 DEF TickLoads
    <2> HIDE DEF add
    <2> QED BY <2>1, <2>2, <2>3, <2>4, <2>5, <2>6
  <1>2. CASE TickStores
    BY <1>2 DEF TickStores, NotTicking
  <1>3. CASE TakeReads
    BY <1>3 DEF TakeReads
  <1>4. CASE TakeClears
    BY <1>4 DEF TakeClears, NotTaking
  <1>5. CASE UNCHANGED encoderVars
    BY <1>5 DEF encoderVars
  <1> QED BY <1>1, <1>2, <1>3, <1>4, <1>5 DEF EncoderNext

(* As long as no poll is outrun the decoder follows the shaft, and every    *)
(* detent it counts is given to the knob task once, unless callback and     *)
(* task collided (board.c:1280, 1326).                                      *)
THEOREM DetentsArrive == EncoderSpec => []StepsArriveOnce
  <1>1. WheelInv => StepsArriveOnce
    BY DEF WheelInv, StepsArriveOnce
  <1> QED BY <1>1, WheelInit, WheelNext, PTL DEF EncoderSpec

-----------------------------------------------------------------------------
(* The expander's pins.                                                     *)

OtherParts == {"i2c0", "rgb", "display", "touch", "lvgl", "audio", "knob"}
NoPins(calls) ==
  /\ Len(calls) \in Nat
  /\ \A i \in 1..Len(calls) : calls[i].sets # "io_exp" /\ calls[i].pins = "none"

(* The codec's calls, one by one.                                           *)
LEMMA AudioTouchesNoPin == NoPins(Audio)
  <1>1. Len(Audio) = 12
    BY DEF Audio
  <1>2. /\ Audio[1] = Try("i2s_tx") /\ Audio[2] = Check /\ Audio[3] = Check
        /\ Audio[4] = Check /\ Audio[5] = Check /\ Audio[6] = Check
        /\ Audio[7] = Check /\ Audio[8] = Check /\ Audio[9] = Try("play_dev")
        /\ Audio[10] = Soft("none") /\ Audio[11] = Soft("none")
        /\ Audio[12] = Call("record_dev", "goes on", "none")
    BY DEF Audio
  <1>3. \A i \in 1..12 : \/ i = 1 \/ i = 2 \/ i = 3 \/ i = 4 \/ i = 5 \/ i = 6
                         \/ i = 7 \/ i = 8 \/ i = 9 \/ i = 10 \/ i = 11 \/ i = 12
    OBVIOUS
  <1>4. /\ Try("i2s_tx").sets # "io_exp" /\ Try("i2s_tx").pins = "none"
        /\ Try("play_dev").sets # "io_exp" /\ Try("play_dev").pins = "none"
        /\ Check.sets # "io_exp" /\ Check.pins = "none"
        /\ Soft("none").sets # "io_exp" /\ Soft("none").pins = "none"
        /\ Call("record_dev", "goes on", "none").sets # "io_exp"
        /\ Call("record_dev", "goes on", "none").pins = "none"
    BY DEF Try, Check, Soft, Call
  <1>5. \A i \in 1..12 : Audio[i].sets # "io_exp" /\ Audio[i].pins = "none"
    BY <1>2, <1>3, <1>4
  <1> QED BY <1>1, <1>5 DEF NoPins

(* No part of the Watcher but its expander touches the expander.            *)
LEMMA OthersTouchNoPin ==
  ASSUME board = "watcher", NEW name \in OtherParts
  PROVE  NoPins(CallsOf(name))
  <1> USE DEF NoPins, Call, Try, Check, Soft
  <1>1. NoPins(I2c0) /\ NoPins(Knob)
    BY DEF I2c0, Knob
  <1>2. NoPins(Rgb)
    BY DEF Rgb
  <1>3. NoPins(DisplayWatcher)
    BY DEF DisplayWatcher
  <1>4. NoPins(TouchWatcher)
    BY DEF TouchWatcher
  <1>5. NoPins(Lvgl)
    BY DEF Lvgl
  <1>6. NoPins(Audio)
    BY AudioTouchesNoPin
  <1>7. CASE name = "i2c0" \/ name = "knob"
    BY <1>1, <1>7 DEF CallsOf
  <1>8. CASE name = "rgb" \/ name = "lvgl" \/ name = "audio"
    BY <1>2, <1>5, <1>6, <1>8 DEF CallsOf
  <1>9. CASE name = "display" \/ name = "touch"
    BY <1>3, <1>4, <1>9 DEF CallsOf
  <1> QED BY <1>7, <1>8, <1>9 DEF OtherParts

(* The Watcher's parts, and the calls of the two that set pins.             *)
LEMMA WatcherParts ==
  ASSUME board = "watcher"
  PROVE  /\ Len(Parts) = 9 /\ Parts[1] = "i2c0" /\ Parts[2] = "expander" /\ Parts[3] = "power"
         /\ \A k \in 4..9 : Parts[k] \in OtherParts
  <1>1. Parts = <<"i2c0", "expander", "power", "rgb", "display", "touch", "lvgl", "audio", "knob">>
    BY DEF Parts, BootOrder
  <1>2. \A k \in 4..9 : k = 4 \/ k = 5 \/ k = 6 \/ k = 7 \/ k = 8 \/ k = 9
    OBVIOUS
  <1> QED BY <1>1, <1>2 DEF OtherParts

(* The calls of the expander and of the power rails.                        *)
LEMMA ExpanderCalls ==
  ASSUME board = "watcher"
  PROVE  /\ Len(CallsOf("expander")) = 3
         /\ CallsOf("expander")[1] = Try("io_exp")
         /\ CallsOf("expander")[2] = PinWrite("inputs")
         /\ CallsOf("expander")[3] = PinWrite("outputs")
         /\ "io_exp" \in handles => /\ Len(CallsOf("power")) = 2
                                   /\ CallsOf("power")[1] = PinWrite("system on")
                                   /\ CallsOf("power")[2] = PinWrite("rails on")
         /\ "io_exp" \notin handles => CallsOf("power") = <<>>
  BY DEF CallsOf, Expander, Power

(* The pins follow the calls made so far; asleep every input but the button *)
(* is an output.                                                            *)
RailsOn == outputs = Outputs /\ Rails \cup {"system"} \subseteq high
BootPins ==
  /\ part \in 1..10 /\ op \in Nat \ {0}
  /\ part = 1 \/ (part = 2 /\ op = 1) => "io_exp" \notin handles
  /\ part = 2 => op <= 4 /\ (op = 3 => outputs \subseteq Outputs) /\ (op = 4 => outputs = Outputs)
  /\ part = 3 /\ "io_exp" \in handles =>
       /\ outputs = Outputs /\ op <= 3
       /\ op >= 2 => "system" \in high
       /\ op = 3 => Rails \subseteq high
  /\ part >= 4 /\ "io_exp" \in handles => RailsOn
PinsInv ==
  board = "watcher" /\ ~missed =>
    /\ outputs \subseteq Outputs \cup Inputs
    /\ stage = "boot" => BootPins
    /\ stage = "up" /\ "io_exp" \in handles => RailsOn
    /\ stage \in {"clear", "raise", "asleep"} /\ "io_exp" \in handles => NonWake \subseteq outputs

(* At power-on every pin is an input.                                       *)
LEMMA PinsInit == BoardInit => PinsInv
  BY DEF BoardInit, PinsInv, BootPins

(* What the calls of a part set, field by field.                            *)
LEMMA PartCallsSet ==
  ASSUME board = "watcher"
  PROVE  /\ Len(Parts) = 9
         /\ part = 2 => /\ Len(PartCalls) = 3
                        /\ PartCalls[1].sets = "io_exp" /\ PartCalls[1].pins = "none"
                        /\ PartCalls[1].fails = "error"
                        /\ PartCalls[2].sets = "none" /\ PartCalls[2].pins = "inputs"
                        /\ PartCalls[3].sets = "none" /\ PartCalls[3].pins = "outputs"
         /\ part = 3 /\ "io_exp" \in handles =>
                        /\ Len(PartCalls) = 2
                        /\ PartCalls[1].sets = "none" /\ PartCalls[1].pins = "system on"
                        /\ PartCalls[2].sets = "none" /\ PartCalls[2].pins = "rails on"
         /\ part = 3 /\ "io_exp" \notin handles => Len(PartCalls) = 0
         /\ part = 1 \/ part \in 4..9 => NoPins(PartCalls)
  <1>1. /\ Len(Parts) = 9 /\ Parts[1] = "i2c0" /\ Parts[2] = "expander" /\ Parts[3] = "power"
        /\ \A k \in 4..9 : Parts[k] \in OtherParts
    BY WatcherParts
  <1>2. /\ Try("io_exp").sets = "io_exp" /\ Try("io_exp").pins = "none"
        /\ Try("io_exp").fails = "error"
        /\ \A w : PinWrite(w).sets = "none" /\ PinWrite(w).pins = w
    BY DEF Try, PinWrite, Call
  <1>3. ASSUME part = 2
        PROVE  /\ Len(PartCalls) = 3
               /\ PartCalls[1].sets = "io_exp" /\ PartCalls[1].pins = "none"
               /\ PartCalls[1].fails = "error"
               /\ PartCalls[2].sets = "none" /\ PartCalls[2].pins = "inputs"
               /\ PartCalls[3].sets = "none" /\ PartCalls[3].pins = "outputs"
    <2>1. PartCalls = CallsOf("expander")
      BY <1>1, <1>3 DEF PartCalls
    <2> QED BY <1>2, <2>1, ExpanderCalls
  <1>4. ASSUME part = 3, "io_exp" \in handles
        PROVE  /\ Len(PartCalls) = 2
               /\ PartCalls[1].sets = "none" /\ PartCalls[1].pins = "system on"
               /\ PartCalls[2].sets = "none" /\ PartCalls[2].pins = "rails on"
    <2>1. PartCalls = CallsOf("power")
      BY <1>1, <1>4 DEF PartCalls
    <2> QED BY <1>2, <1>4, <2>1, ExpanderCalls
  <1>5. ASSUME part = 3, "io_exp" \notin handles PROVE Len(PartCalls) = 0
    <2>1. PartCalls = <<>>
      BY <1>1, <1>5, ExpanderCalls DEF PartCalls
    <2> QED BY <2>1
  <1>6. ASSUME part = 1 \/ part \in 4..9 PROVE NoPins(PartCalls)
    <2>1. Parts[part] \in OtherParts
      BY <1>1, <1>6 DEF OtherParts
    <2> QED BY <2>1, OthersTouchNoPin DEF PartCalls
  <1> QED BY <1>1, <1>3, <1>4, <1>5, <1>6

(* A call that succeeds: the pins, by what it writes.                       *)
LEMMA SucceedsSets ==
  ASSUME CallSucceeds
  PROVE  /\ op <= Len(PartCalls) /\ op' = op + 1 /\ part' = part
         /\ stage = "boot" /\ stage' = "boot" /\ part <= Len(Parts)
         /\ missed' = missed /\ board' = board
         /\ "io_exp" \in handles' <=> "io_exp" \in handles \/ PartCalls[op].sets = "io_exp"
         /\ PartCalls[op].pins = "none" => outputs' = outputs /\ high' = high
         /\ PartCalls[op].pins = "inputs" => outputs' = outputs \ Inputs /\ high' = high
         /\ PartCalls[op].pins = "outputs" => outputs' = outputs \cup Outputs /\ high' = high
         /\ PartCalls[op].pins = "system on" => outputs' = outputs /\ high' = high \cup {"system"}
         /\ PartCalls[op].pins = "rails on" => outputs' = outputs /\ high' = high \cup Rails
  <1> DEFINE call == PartCalls[op]
  <1>1. /\ op <= Len(PartCalls) /\ op' = op + 1 /\ part' = part
        /\ stage = "boot" /\ stage' = "boot" /\ part <= Len(Parts)
        /\ missed' = missed /\ board' = board
        /\ handles' = (handles \cup {call.sets}) \ {"none"} /\ PinsAfter(call.pins)
    BY DEF CallSucceeds, Booting
  <1> HIDE DEF call
  <1>2. "io_exp" \in handles' <=> "io_exp" \in handles \/ call.sets = "io_exp"
    BY <1>1
  <1>3. /\ call.pins = "none" => outputs' = outputs /\ high' = high
        /\ call.pins = "inputs" => outputs' = outputs \ Inputs /\ high' = high
        /\ call.pins = "outputs" => outputs' = outputs \cup Outputs /\ high' = high
        /\ call.pins = "system on" => outputs' = outputs /\ high' = high \cup {"system"}
        /\ call.pins = "rails on" => outputs' = outputs /\ high' = high \cup Rails
    BY <1>1 DEF PinsAfter
  <1> QED BY <1>1, <1>2, <1>3 DEF call

(* A call that succeeds keeps the pins in step.                             *)
LEMMA PinsSucceed ==
  ASSUME PinsInv, CallSucceeds, board = "watcher", ~missed'
  PROVE  PinsInv'
  <1>0. Len(Parts) = 9
    BY PartCallsSet
  <1>1. /\ op <= Len(PartCalls) /\ op' = op + 1 /\ part' = part
        /\ stage = "boot" /\ stage' = "boot" /\ part <= Len(Parts)
        /\ ~missed /\ board' = board
        /\ "io_exp" \in handles' <=> "io_exp" \in handles \/ PartCalls[op].sets = "io_exp"
    <2>1. missed' = missed
      BY SucceedsSets
    <2> QED BY <2>1, SucceedsSets
  <1>2. /\ PartCalls[op].pins = "none" => outputs' = outputs /\ high' = high
        /\ PartCalls[op].pins = "inputs" => outputs' = outputs \ Inputs /\ high' = high
        /\ PartCalls[op].pins = "outputs" => outputs' = outputs \cup Outputs /\ high' = high
        /\ PartCalls[op].pins = "system on" => outputs' = outputs /\ high' = high \cup {"system"}
        /\ PartCalls[op].pins = "rails on" => outputs' = outputs /\ high' = high \cup Rails
    BY SucceedsSets
  <1>3. BootPins /\ outputs \subseteq Outputs \cup Inputs
    BY <1>1 DEF PinsInv
  <1>4. part \in 1..9 /\ op \in Nat \ {0}
    BY <1>0, <1>1, <1>3 DEF BootPins
  <1>5. BootPins' /\ outputs' \subseteq Outputs \cup Inputs => PinsInv'
    BY <1>1 DEF PinsInv
  <1>6. CASE part = 2
    <2>0. /\ Len(PartCalls) = 3
          /\ PartCalls[1].sets = "io_exp" /\ PartCalls[1].pins = "none"
          /\ PartCalls[2].sets = "none" /\ PartCalls[2].pins = "inputs"
          /\ PartCalls[3].sets = "none" /\ PartCalls[3].pins = "outputs"
      BY <1>6, PartCallsSet
    <2>1. op \in 1..3
      BY <1>1, <1>4, <2>0
    <2>2. CASE op = 1
      <3>1. outputs' = outputs /\ high' = high
        BY <1>2, <2>0, <2>2
      <3> QED BY <1>1, <1>3, <1>5, <1>6, <2>2, <3>1 DEF BootPins
    <2>3. CASE op = 2
      <3>1. outputs' = outputs \ Inputs
        BY <1>2, <2>0, <2>3
      <3> QED BY <1>1, <1>3, <1>5, <1>6, <2>3, <3>1 DEF BootPins
    <2>4. CASE op = 3
      <3>1. outputs' = outputs \cup Outputs
        BY <1>2, <2>0, <2>4
      <3>2. outputs' = Outputs
        BY <1>3, <1>6, <2>4, <3>1 DEF BootPins
      <3> QED BY <1>1, <1>3, <1>5, <1>6, <2>4, <3>2 DEF BootPins
    <2> QED BY <2>1, <2>2, <2>3, <2>4
  <1>7. CASE part = 3
    <2>1. CASE "io_exp" \notin handles
      <3>1. Len(PartCalls) = 0
        BY <1>7, <2>1, PartCallsSet
      <3> QED BY <1>1, <1>4, <3>1
    <2>2. CASE "io_exp" \in handles
      <3>0. /\ Len(PartCalls) = 2
            /\ PartCalls[1].sets = "none" /\ PartCalls[1].pins = "system on"
            /\ PartCalls[2].sets = "none" /\ PartCalls[2].pins = "rails on"
        BY <1>7, <2>2, PartCallsSet
      <3>1. op \in 1..2
        <4>1. op <= Len(PartCalls) /\ op \in Nat \ {0}
          BY <1>1, <1>4
        <4>2. Len(PartCalls) = 2
          BY <3>0
        <4>3. op = 1 \/ op = 2
          BY <4>1, <4>2
        <4> QED BY <4>3
      <3>2. CASE op = 1
        <4>1. outputs' = outputs /\ high' = high \cup {"system"}
          BY <1>2, <3>0, <3>2
        <4> QED BY <1>1, <1>3, <1>5, <1>7, <2>2, <3>2, <4>1 DEF BootPins
      <3>3. CASE op = 2
        <4>1. outputs' = outputs /\ high' = high \cup Rails
          BY <1>2, <3>0, <3>3
        <4> QED BY <1>1, <1>3, <1>5, <1>7, <2>2, <3>3, <4>1 DEF BootPins
      <3> QED BY <3>1, <3>2, <3>3
    <2> QED BY <2>1, <2>2
  <1>8. CASE part = 1 \/ part \in 4..9
    <2>1. PartCalls[op].sets # "io_exp" /\ PartCalls[op].pins = "none"
      <3>1. NoPins(PartCalls)
        BY <1>8, PartCallsSet
      <3>2. Len(PartCalls) \in Nat => op \in 1..Len(PartCalls)
        BY <1>1, <1>4
      <3>3. Len(PartCalls) \in Nat
        BY <3>1 DEF NoPins
      <3> QED BY <3>1, <3>2, <3>3 DEF NoPins
    <2>2. outputs' = outputs /\ high' = high /\ ("io_exp" \in handles' <=> "io_exp" \in handles)
      BY <1>1, <1>2, <2>1
    <2> QED BY <1>1, <1>3, <1>4, <1>5, <1>8, <2>2 DEF BootPins, RailsOn
  <1> QED BY <1>4, <1>6, <1>7, <1>8

(* One that fails ends its part, or was a write and is missed.              *)
LEMMA PinsFail ==
  ASSUME PinsInv, CallFails, board = "watcher", ~missed'
  PROVE  PinsInv'
  <1>0. Len(Parts) = 9
    BY PartCallsSet
  <1>1. /\ stage = "boot" /\ part <= Len(Parts) /\ op <= Len(PartCalls)
        /\ handles' = handles /\ outputs' = outputs /\ high' = high
        /\ stage' = "failed" \/ stage' = "boot"
    BY DEF CallFails, Booting
  <1>10. part <= 9
    BY <1>0, <1>1
  <1>11. op <= Len(PartCalls)
    BY <1>1
  <1>9. /\ PartCalls[op].fails = "goes on" => op' = op + 1 /\ part' = part
        /\ PartCalls[op].fails # "goes on" => op' = 1 /\ part' = part + 1
    BY DEF CallFails, Booting
  <1>2. ~missed /\ PartCalls[op].pins = "none"
    <2>1. missed' = (missed \/ PartCalls[op].pins # "none")
      BY DEF CallFails
    <2> QED BY <2>1, Zenon
  <1>3. BootPins /\ outputs \subseteq Outputs \cup Inputs
    BY <1>1, <1>2 DEF PinsInv
  <1>4. part \in 1..9 /\ op \in Nat \ {0}
    BY <1>3, <1>10 DEF BootPins
  <1>5. BootPins' => PinsInv'
    BY <1>1, <1>3 DEF PinsInv
  <1>6. CASE part = 2
    <2>0. /\ Len(PartCalls) = 3 /\ PartCalls[1].fails = "error"
          /\ PartCalls[2].pins = "inputs" /\ PartCalls[3].pins = "outputs"
      BY <1>6, PartCallsSet
    <2>1. op \in 1..3
      BY <1>4, <1>11, <2>0
    <2>3. op # 2 /\ op # 3
      BY <1>2, <2>0
    <2>2. op = 1 /\ op' = 1 /\ part' = 3
      <3>1. op = 1
        BY <2>1, <2>3
      <3>2. PartCalls[op].fails # "goes on"
        BY <2>0, <3>1
      <3>3. op' = 1 /\ part' = part + 1
        BY <1>9, <3>2
      <3> QED BY <1>6, <3>1, <3>3
    <2> QED BY <1>1, <1>3, <1>5, <1>6, <2>2 DEF BootPins
  <1>7. CASE part = 3
    <2>1. CASE "io_exp" \notin handles
      <3>1. Len(PartCalls) = 0
        BY <1>7, <2>1, PartCallsSet
      <3> QED BY <1>4, <1>11, <3>1
    <2>2. CASE "io_exp" \in handles
      <3>0. /\ Len(PartCalls) = 2
            /\ PartCalls[1].pins = "system on" /\ PartCalls[2].pins = "rails on"
        BY <1>7, <2>2, PartCallsSet
      <3>1. op = 1 \/ op = 2
        <4>1. op <= Len(PartCalls) /\ op \in Nat \ {0}
          BY <1>4, <1>11
        <4>2. Len(PartCalls) = 2
          BY <3>0
        <4> QED BY <4>1, <4>2
      <3>2. CASE op = 1
        BY <1>2, <3>0, <3>2
      <3>3. CASE op = 2
        BY <1>2, <3>0, <3>3
      <3> QED BY <3>1, <3>2, <3>3
    <2> QED BY <2>1, <2>2
  <1>8. CASE part = 1 \/ part \in 4..9
    <2>1. (part' = part /\ op' = op + 1) \/ (part' = part + 1 /\ op' = 1)
      BY <1>9
    <2>2. part' \in 1..10 /\ op' \in Nat \ {0}
      BY <1>4, <1>8, <2>1
    <2>3. CASE part = 1
      <3>1. part' = 1 \/ (part' = 2 /\ op' = 1)
        BY <2>1, <2>3
      <3>2. "io_exp" \notin handles'
        BY <1>1, <1>3, <2>3 DEF BootPins
      <3> QED BY <1>5, <2>2, <3>1, <3>2 DEF BootPins
    <2>4. CASE part \in 4..9
      <3>1. part' >= 4
        BY <2>1, <2>4
      <3>2. "io_exp" \in handles' => RailsOn'
        BY <1>1, <1>3, <2>4 DEF BootPins, RailsOn
      <3> QED BY <1>5, <2>2, <3>1, <3>2 DEF BootPins
    <2> QED BY <1>8, <2>3, <2>4
  <1> QED BY <1>4, <1>6, <1>7, <1>8

(* A part is done once each of its calls was made.                          *)
LEMMA PinsPart ==
  ASSUME PinsInv, PartDone, board = "watcher", ~missed'
  PROVE  PinsInv'
  <1>0. Len(Parts) = 9
    BY PartCallsSet
  <1>1. /\ stage = "boot" /\ part <= Len(Parts) /\ op > Len(PartCalls)
        /\ part' = part + 1 /\ op' = 1 /\ stage' = stage /\ missed' = missed
        /\ handles' = handles /\ outputs' = outputs /\ high' = high
    BY DEF PartDone, Booting, expanderVars
  <1>2. ~missed
    BY <1>1
  <1>3. BootPins /\ outputs \subseteq Outputs \cup Inputs
    BY <1>1, <1>2 DEF PinsInv
  <1>4. part \in 1..9 /\ op \in Nat \ {0}
    BY <1>0, <1>1, <1>3 DEF BootPins
  <1>5. part = 2 => outputs = Outputs
    <2> SUFFICES ASSUME part = 2 PROVE outputs = Outputs
      OBVIOUS
    <2>1. Len(PartCalls) = 3
      BY PartCallsSet
    <2>2. op = 4
      BY <1>1, <1>3, <2>1 DEF BootPins
    <2> QED BY <1>3, <2>2 DEF BootPins
  <1>6. part = 3 /\ "io_exp" \in handles => RailsOn
    <2> SUFFICES ASSUME part = 3, "io_exp" \in handles PROVE RailsOn
      OBVIOUS
    <2>1. Len(PartCalls) = 2
      BY PartCallsSet
    <2>2. op = 3
      BY <1>1, <1>3, <2>1 DEF BootPins
    <2> QED BY <1>3, <2>2 DEF BootPins, RailsOn
  <1>7. BootPins'
    <2>1. part + 1 \in 2..10 /\ (part + 1 = 2 => part = 1) /\ (part + 1 = 3 => part = 2)
          /\ (part + 1 >= 4 => part = 3 \/ part >= 4)
      BY <1>4
    <2> QED BY <1>1, <1>3, <1>4, <1>5, <1>6, <2>1 DEF BootPins, RailsOn
  <1> QED BY <1>1, <1>3, <1>7 DEF PinsInv

(* The steps of board_init.                                                 *)
LEMMA PinsBoot ==
  ASSUME PinsInv, CallSucceeds \/ CallFails \/ PartDone \/ BootDone,
         board = "watcher", ~missed'
  PROVE  PinsInv'
  <1>1. CASE BootDone
    <2>0. Len(Parts) = 9
      BY PartCallsSet
    <2>1. /\ stage = "boot" /\ part > Len(Parts) /\ stage' = "up" /\ missed' = missed
          /\ handles' = handles /\ outputs' = outputs /\ high' = high
      BY <1>1 DEF BootDone, expanderVars
    <2>2. BootPins /\ outputs \subseteq Outputs \cup Inputs
      BY <2>1 DEF PinsInv
    <2>3. part = 10
      BY <2>0, <2>1, <2>2 DEF BootPins
    <2> QED BY <2>1, <2>2, <2>3 DEF PinsInv, BootPins, RailsOn
  <1> QED BY <1>1, PinsSucceed, PinsFail, PinsPart

(* Deep sleep and waking up.                                                *)
LEMMA PinsSleep ==
  ASSUME PinsInv, \/ Restart \/ PrepareBegin \/ WaitRelease \/ CutRails \/ RedirectInputs
                  \/ ClearLatch \/ RaiseInt \/ Wake \/ \E p \in Inputs : InputChanges(p)
  PROVE  PinsInv'
  <1> USE DEF PinsInv, SleepUnchanged, expanderVars, RailsOn
  <1>1. CASE Restart
    BY <1>1 DEF Restart, Reset, BootPins
  <1>2. CASE PrepareBegin
    BY <1>2 DEF PrepareBegin
  <1>3. CASE WaitRelease
    <2>1. stage = "release" /\ UNCHANGED <<board, handles, missed, outputs, high>>
      BY <1>3 DEF WaitRelease
    <2>2. board = "watcher" =>
            stage' = "cut" \/ (stage' = "raise" /\ "io_exp" \notin handles)
      <3>1. CASE board = "watcher" /\ "io_exp" \in handles
        BY <1>3, <3>1 DEF WaitRelease, HasExpander
      <3>2. CASE board = "watcher" /\ "io_exp" \notin handles
        BY <1>3, <3>2 DEF WaitRelease, HasExpander
      <3> QED BY <3>1, <3>2
    <2> QED BY <2>1, <2>2 DEF NonWake
  <1>4. CASE CutRails
    BY <1>4 DEF CutRails
  <1>5. CASE RedirectInputs
    BY <1>5 DEF RedirectInputs, NonWake
  <1>6. CASE ClearLatch
    BY <1>6 DEF ClearLatch, NonWake
  <1>7. CASE RaiseInt
    BY <1>7 DEF RaiseInt, NonWake
  <1>8. CASE Wake
    BY <1>8 DEF Wake, Reset, BootPins
  <1>9. CASE \E p \in Inputs : InputChanges(p)
    BY <1>9 DEF InputChanges, NonWake
  <1> QED BY <1>1, <1>2, <1>3, <1>4, <1>5, <1>6, <1>7, <1>8, <1>9

(* As long as no write to the expander failed, a sleeping Watcher is woken  *)
(* by its button alone, and one that is up has every rail on again, for any *)
(* wiring of the inputs (board.c:1667).                                     *)
THEOREM PinsFollow == BoardSpec => []PinsFollowPower
  <1>1. PinsInv /\ [BoardNext]_boardVars => PinsInv'
    <2> SUFFICES ASSUME PinsInv, [BoardNext]_boardVars PROVE PinsInv'
      OBVIOUS
    <2>1. CASE CallSucceeds \/ CallFails \/ PartDone \/ BootDone
      <3>1. board' = board
        BY <2>1 DEF CallSucceeds, CallFails, PartDone, BootDone
      <3>2. board' = "watcher" /\ ~missed' => PinsInv'
        BY <2>1, <3>1, PinsBoot
      <3> QED BY <3>2 DEF PinsInv
    <2>2. CASE UNCHANGED boardVars
      BY <2>2 DEF boardVars, expanderVars, PinsInv, BootPins, RailsOn, NonWake
    <2> QED BY <2>1, <2>2, PinsSleep DEF BoardNext
  <1>2. PinsInv => PinsFollowPower
    BY DEF PinsInv, PinsFollowPower, RailsOn, NonWake, IntLow
  <1> QED BY <1>1, <1>2, PinsInit, PTL DEF BoardSpec

-----------------------------------------------------------------------------
(* The LED, which callers and the task that paints it share.                *)

(* Nobody is between its two stores; or one caller is, and the mode is      *)
(* already its own.                                                         *)
NobodyStores == \A c \in LightCallers : storing[c] = NoAnimation

OneStores ==
  \E c \in LightCallers :
    /\ \A d \in LightCallers \ {c} : storing[d] = NoAnimation
    /\ storing[c] # NoAnimation /\ animMode = storing[c].mode

(* As long as calls did not overlap, mode and colour belong to one call.    *)
WholeCalls ==
  ~overlapped => (NobodyStores /\ lastCall = [mode |-> animMode, colour |-> animColour]) \/ OneStores

(* What the frame under way has read is still what is stored, and nobody    *)
(* is painting, unless somebody stored or painted meanwhile.                *)
FrameFollows ==
  /\ frame.pc = "second" => frame.mode = "blink" /\ driver = "strip"
  /\ undisturbed =>
       /\ \A c \in LightCallers : painting[c] = "none"
       /\ frame.pc \in {"colour", "paint", "second", "rest"} => frame.mode = animMode
       /\ frame.pc = "paint" => frame.colour = animColour
       /\ frame.pc = "rest" => led \in FrameLeaves([mode |-> animMode, colour |-> animColour])

(* The inductive invariant.                                                 *)
LightsInv == LightsTypeOK /\ WholeCalls /\ FrameFollows

(* The mark of no call under way is none of the calls.                      *)
LEMMA NoAnimationApart == \A a \in Animations : a # NoAnimation
  BY DEF Animations, NoAnimation, Modes, Comets, Pictures

(* The initial state satisfies the invariant.                               *)
LEMMA LightsStart == LightsInit => LightsInv
  <1> SUFFICES ASSUME LightsInit PROVE LightsInv
    OBVIOUS
  <1>1. PICK a \in Animations : animMode = a.mode /\ animColour = a.colour /\ lastCall = a
    BY DEF LightsInit
  <1>2. LightsTypeOK
    <2>1. animMode \in Modes /\ animColour \in Shades /\ lastCall \in Animations
      BY <1>1 DEF Animations
    <2>2. storing \in [LightCallers -> Animations \cup {NoAnimation}]
      BY DEF LightsInit
    <2>3. painting \in [LightCallers -> Shades \cup {"none"}] /\ driver \in {"strip", "pwm"}
      BY DEF LightsInit
    <2>4. frame \in [pc : {"colour", "paint", "second", "rest"}, mode : Modes, colour : Shades]
      BY DEF LightsInit, Modes, Shades
    <2>5. led \in Shades \cup {"own"} /\ lightCalls \in 0..MaxLightCalls
      BY LightsAssumption DEF LightsInit, Shades
    <2>6. overlapped \in BOOLEAN /\ undisturbed \in BOOLEAN /\ oddPhase \in BOOLEAN
      BY Zenon DEF LightsInit
    <2> QED BY <2>1, <2>2, <2>3, <2>4, <2>5, <2>6, Zenon DEF LightsTypeOK
  <1>3. WholeCalls
    BY <1>1 DEF LightsInit, WholeCalls, NobodyStores, Animations
  <1>4. FrameFollows
    BY DEF LightsInit, FrameFollows
  <1> QED BY <1>2, <1>3, <1>4 DEF LightsInv

(* What callers store.                                                      *)
LEMMA CallsStep ==
  ASSUME LightsInv, NEW c \in LightCallers,
         (\E a \in Animations : StoreMode(c, a)) \/ StoreColour(c)
  PROVE  LightsInv'
  <1> USE DEF LightsInv
  <1>1. ASSUME NEW a \in Animations, StoreMode(c, a) PROVE LightsInv'
    <2>1. LightsTypeOK'
      <3>1. a.mode \in Modes
        BY DEF Animations
      <3>2. lightCalls' \in 0..MaxLightCalls
        BY <1>1, LightsAssumption DEF StoreMode, CallBegins, LightsTypeOK
      <3>3. storing' \in [LightCallers -> Animations \cup {NoAnimation}]
        BY <1>1 DEF StoreMode, LightsTypeOK
      <3>4. overlapped' \in BOOLEAN /\ undisturbed' \in BOOLEAN
        BY <1>1 DEF StoreMode
      <3> QED BY <1>1, <3>1, <3>2, <3>3, <3>4 DEF StoreMode, LightsTypeOK
    <2>2. WholeCalls'
      <3>1. SUFFICES ASSUME Alone(c) PROVE OneStores'
        BY <1>1 DEF StoreMode, WholeCalls
      <3> QED BY <1>1, <3>1, NoAnimationApart DEF StoreMode, OneStores, Alone, LightsTypeOK
    <2>3. FrameFollows'
      BY <1>1 DEF StoreMode, FrameFollows
    <2> QED BY <2>1, <2>2, <2>3
  <1>2. ASSUME StoreColour(c) PROVE LightsInv'
    <2>0. storing[c] \in Animations
      BY <1>2 DEF StoreColour, LightsTypeOK
    <2>1. LightsTypeOK'
      BY <1>2, <2>0 DEF StoreColour, LightsTypeOK, Animations
    <2>2. WholeCalls'
      <3>1. SUFFICES ASSUME ~overlapped PROVE NobodyStores' /\ (lastCall = [mode |-> animMode, colour |-> animColour])'
        BY <1>2 DEF StoreColour, WholeCalls
      <3>2. animMode = storing[c].mode /\ \A d \in LightCallers \ {c} : storing[d] = NoAnimation
        BY <1>2, <3>1 DEF StoreColour, WholeCalls, NobodyStores, OneStores
      <3>3. lastCall' = [mode |-> animMode', colour |-> animColour']
        BY <1>2, <2>0, <3>2 DEF StoreColour, Animations
      <3>4. NobodyStores'
        BY <1>2, <3>2 DEF StoreColour, NobodyStores, LightsTypeOK
      <3> QED BY <3>3, <3>4
    <2>3. FrameFollows'
      BY <1>2 DEF StoreColour, FrameFollows
    <2> QED BY <2>1, <2>2, <2>3
  <1> QED BY <1>1, <1>2

(* What callers paint.                                                      *)
LEMMA PaintStep ==
  ASSUME LightsInv, NEW c \in LightCallers,
         (\E colour \in Shades : PaintBegins(c, colour)) \/ PaintEnds(c)
  PROVE  LightsInv'
  <1> USE DEF LightsInv
  <1>1. /\ painting' \in [LightCallers -> Shades \cup {"none"}] /\ led' \in Shades \cup {"own"}
        /\ undisturbed' = FALSE
        /\ UNCHANGED <<driver, animMode, animColour, storing, frame, oddPhase, overlapped, lastCall>>
    BY DEF PaintBegins, PaintEnds, LightsTypeOK
  <1>2. lightCalls' \in 0..MaxLightCalls
    BY LightsAssumption DEF PaintBegins, PaintEnds, CallBegins, LightsTypeOK
  <1>3. LightsTypeOK'
    BY <1>1, <1>2 DEF LightsTypeOK
  <1>4. WholeCalls'
    BY <1>1 DEF WholeCalls, NobodyStores, OneStores
  <1>5. FrameFollows'
    BY <1>1 DEF FrameFollows
  <1> QED BY <1>3, <1>4, <1>5

(* What the task reads.                                                     *)
LEMMA ReadStep ==
  ASSUME LightsInv, FrameReadsMode \/ FrameReadsColour
  PROVE  LightsInv'
  <1> USE DEF LightsInv
  <1>1. WholeCalls'
    BY DEF FrameReadsMode, FrameReadsColour, WholeCalls, NobodyStores, OneStores
  <1>2. CASE FrameReadsMode
    <2>1. /\ frame' = [frame EXCEPT !.pc = "colour", !.mode = animMode] /\ undisturbed' \in BOOLEAN
          /\ undisturbed' => \A c \in LightCallers : painting[c] = "none"
          /\ UNCHANGED <<driver, animMode, animColour, storing, painting, oddPhase, led, overlapped,
                         lastCall, lightCalls>>
      BY <1>2 DEF FrameReadsMode, Stored, Painted
    <2> QED BY <1>1, <2>1 DEF LightsTypeOK, FrameFollows
  <1>3. CASE FrameReadsColour
    BY <1>1, <1>3 DEF FrameReadsColour, LightsTypeOK, FrameFollows
  <1> QED BY <1>2, <1>3

(* What the task paints: the colours of its frame and of who paints too,    *)
(* and, undisturbed, what the animation leaves.                             *)
LEMMA FrameStep ==
  ASSUME LightsInv, StripPaints \/ StripDarkens \/ StripPictures \/ StripComets \/ PwmPaints
  PROVE  LightsInv'
  <1> USE DEF LightsInv
  <1>1. PICK pc \in {"second", "rest"} :
          /\ FrameGoesTo(pc)
          /\ pc = "second" => frame.mode = "blink" /\ driver = "strip"
          /\ pc = "rest" => ~(StripPaints /\ frame.mode = "blink")
    BY DEF StripPaints, StripDarkens, StripPictures, StripComets, PwmPaints
  <1>2. WholeCalls'
    BY <1>1 DEF FrameGoesTo, WholeCalls, NobodyStores, OneStores
  <1>3. frame.colour \in Shades /\ frame.mode \in Modes /\ \A c \in LightCallers : painting[c] \in Shades \cup {"none"}
    BY DEF LightsTypeOK
  <1>4. led' \in Shades \cup {"own"}
    BY <1>3 DEF StripPaints, StripDarkens, StripPictures, StripComets, PwmPaints, Shows, Shades
  <1>5. oddPhase' \in BOOLEAN
    BY DEF StripPaints, StripDarkens, StripPictures, StripComets, PwmPaints, LightsTypeOK
  <1>6. LightsTypeOK'
    BY <1>1, <1>4, <1>5 DEF FrameGoesTo, LightsTypeOK
  <1>7. ASSUME undisturbed, pc = "rest" PROVE led' \in FrameLeaves([mode |-> animMode, colour |-> animColour])'
    <2>1. frame.mode = animMode /\ (frame.pc = "paint" => frame.colour = animColour)
      BY <1>7 DEF FrameFollows, StripPaints, StripDarkens, StripPictures, StripComets, PwmPaints
    <2>2. \A S : Shows(S) => led' \in S
      BY <1>7 DEF Shows, FrameFollows
    <2>3. UNCHANGED <<driver, animMode, animColour>>
      BY <1>1 DEF FrameGoesTo
    <2>4. CASE StripPaints
      <3>1. animMode \in {"off", "solid", "breathe"} /\ frame.mode = animMode /\ frame.colour = animColour
        BY <1>1, <1>3, <1>7, <2>1, <2>4 DEF StripPaints, Modes
      <3>2. /\ animMode = "off" => led' = "dark"
            /\ animMode = "solid" => led' = animColour
            /\ animMode = "breathe" => led' \in {animColour, "dark"}
        BY <2>2, <2>4, <3>1 DEF StripPaints
      <3> QED BY <2>3, <3>1, <3>2 DEF FrameLeaves, Pictures
    <2>5. CASE StripDarkens
      <3>1. animMode = "blink" /\ led' = "dark" /\ driver' = "strip"
        BY <2>1, <2>2, <2>3, <2>5 DEF StripDarkens, FrameFollows
      <3> QED BY <2>3, <3>1 DEF FrameLeaves, Pictures
    <2>6. CASE StripPictures
      BY <2>1, <2>2, <2>3, <2>6 DEF StripPictures, FrameLeaves, Pictures
    <2>7. CASE StripComets
      BY <2>1, <2>2, <2>3, <2>7 DEF StripComets, FrameLeaves, Comets, Pictures
    <2>8. CASE PwmPaints
      BY <2>1, <2>2, <2>3, <2>8 DEF PwmPaints, FrameLeaves, Pictures
    <2> QED BY <2>4, <2>5, <2>6, <2>7, <2>8
  <1>8. FrameFollows'
    <2>1. /\ frame' = [frame EXCEPT !.pc = pc]
          /\ UNCHANGED <<driver, animMode, animColour, storing, painting, undisturbed>>
      BY <1>1 DEF FrameGoesTo
    <2>2. frame'.pc = pc /\ frame'.mode = frame.mode
      BY <2>1 DEF LightsTypeOK
    <2>3. undisturbed => frame.mode = animMode /\ \A c \in LightCallers : painting[c] = "none"
      BY DEF FrameFollows, LightsTypeOK
    <2>4. undisturbed /\ pc = "rest" => (led \in FrameLeaves([mode |-> animMode, colour |-> animColour]))'
      BY <1>7
    <2> QED BY <1>1, <2>1, <2>2, <2>3, <2>4 DEF FrameFollows
  <1> QED BY <1>2, <1>6, <1>8

(* Every step preserves the invariant.                                      *)
LEMMA LightsStep == LightsInv /\ [LightsNext]_lightVars => LightsInv'
  <1> SUFFICES ASSUME LightsInv, [LightsNext]_lightVars PROVE LightsInv'
    OBVIOUS
  <1>1. CASE UNCHANGED lightVars
    BY <1>1 DEF lightVars, LightsInv, LightsTypeOK, WholeCalls, FrameFollows, NobodyStores, OneStores, FrameLeaves
  <1> QED BY <1>1, CallsStep, PaintStep, ReadStep, FrameStep DEF LightsNext, FrameNext

(* Once calls that did not overlap and a frame that nobody disturbed are    *)
(* over, the LED shows what the mode and colour of one call leave on it, on *)
(* either driver, for any colours and any number of calls (board.c:561).    *)
THEOREM OneCallShows == LightsSpec => []SettledIsOneCall
  <1>1. LightsInv => SettledIsOneCall
    BY DEF LightsInv, WholeCalls, FrameFollows, SettledIsOneCall, OneStores, Stored
  <1> QED BY <1>1, LightsStart, LightsStep, PTL DEF LightsSpec

-----------------------------------------------------------------------------
(* The conversions.                                                         *)

(* Names for the ranges of hues and of bytes, and the channel of the        *)
(* conversion that falls with the remainder.                                *)
Degrees == 0..360
ByteValues == 0..255
LowChannel(s, v, rem) == Byte((v * (255 - ((s * rem) \div 256))) \div 256)

(* Scaling by a fraction of 256 never grows a value.                        *)
LEMMA ScaledDown ==
  ASSUME NEW a \in 0..255, NEW b \in 0..256
  PROVE  a * b \in Int /\ (a * b) \div 256 \in 0..a
  <1>1. a * b \in Int /\ 0 <= a * b /\ a * b <= a * 256
    OBVIOUS
  <1>2. \A n \in Int : 0 <= n /\ n <= a * 256 => n \div 256 \in 0..a
    OBVIOUS
  <1> QED BY <1>1, <1>2

(* A byte stays what it is.                                                 *)
LEMMA BytesStay == \A n \in 0..255 : Byte(n) = n
  BY DEF Byte

(* Every number becomes a byte.                                             *)
LEMMA BytesAre == \A n \in Int : Byte(n) \in 0..255
  BY DEF Byte

(* The region of a hue and how far it lies in it.                           *)
LEMMA HueParts ==
  ASSUME NEW h \in 0..360
  PROVE  /\ Region(h) \in 0..6 /\ Remainder(h) \in 0..354
         /\ Region(h) = 6 => Remainder(h) = 0
  BY DEF Region, Remainder

(* The darkest channel.                                                     *)
DarkChannel(s, v) == Byte((v * (255 - s)) \div 256)
LEMMA ChannelP ==
  ASSUME NEW s \in ByteValues, NEW v \in ByteValues
  PROVE  DarkChannel(s, v) \in 0..v
  <1>1. 255 - s \in 0..256 /\ v \in 0..255
    BY DEF ByteValues
  <1> DEFINE rest == 255 - s
  <1> HIDE DEF rest
  <1>2. rest \in 0..256
    BY <1>1 DEF rest
  <1>3. (v * rest) \div 256 \in 0..v
    BY <1>1, <1>2, ScaledDown
  <1>4. Byte((v * rest) \div 256) \in 0..v
    BY <1>1, <1>3, BytesStay
  <1> QED BY <1>4 DEF rest, DarkChannel

(* The channel between.                                                     *)
LEMMA ChannelQ ==
  ASSUME NEW s \in ByteValues, NEW v \in ByteValues, NEW rem \in ByteValues
  PROVE  LowChannel(s, v, rem) \in 0..v
  <1>0. s \in 0..255 /\ v \in 0..255 /\ rem \in 0..256
    BY DEF ByteValues
  <1>1. (s * rem) \div 256 \in 0..s
    BY <1>0, ScaledDown
  <1>2. 255 - ((s * rem) \div 256) \in 0..255
    BY <1>0, <1>1
  <1> DEFINE rest == 255 - ((s * rem) \div 256)
  <1> HIDE DEF rest
  <1>3. rest \in 0..256
    BY <1>2 DEF rest
  <1>4. (v * rest) \div 256 \in 0..v
    BY <1>0, <1>3, ScaledDown
  <1>5. Byte((v * rest) \div 256) \in 0..v
    BY <1>0, <1>4, BytesStay
  <1> QED BY <1>5 DEF rest, LowChannel

(* A channel brighter than the value occurs where the remainder leaves a    *)
(* byte, in the regions that use it unnarrowed.                             *)
LEMMA BrightestChannel ==
  ASSUME NEW h \in Degrees, NEW s \in ByteValues, NEW v \in ByteValues, NEW i \in 1..3,
         HsvToRgb(h, s, v)[i] > v
  PROVE  Region(h) \in {1, 3, 5} /\ Remainder(h) > 255
  <1> DEFINE rem == Remainder(h)
             p == DarkChannel(s, v)
             q == LowChannel(s, v, rem)
             t == LowChannel(s, v, 255 - Byte(rem))
  <1>0. h \in 0..360 /\ s \in 0..255 /\ v \in 0..255
    BY DEF Degrees, ByteValues
  <1>1. Region(h) \in 0..6 /\ rem \in 0..354 /\ (Region(h) = 6 => rem = 0)
    BY <1>0, HueParts
  <1>2. p \in 0..v
    BY ChannelP
  <1>5. HsvToRgb(h, s, v) =
          IF s = 0 THEN <<v, v, v>>
          ELSE CASE Region(h) = 0 -> <<v, t, p>>
                 [] Region(h) = 1 -> <<q, v, p>>
                 [] Region(h) = 2 -> <<p, v, t>>
                 [] Region(h) = 3 -> <<p, q, v>>
                 [] Region(h) = 4 -> <<t, p, v>>
                 [] OTHER -> <<v, p, q>>
    BY Zenon DEF HsvToRgb, LowChannel, DarkChannel, rem
  <1> HIDE DEF rem
  <1>3. ASSUME rem <= 255 PROVE q \in 0..v
    <2>1. rem \in ByteValues
      BY <1>1, <1>3 DEF ByteValues
    <2> QED BY <2>1, ChannelQ, Zenon
  <1>4. t \in 0..v
    <2>1. Byte(rem) \in 0..255
      BY <1>1, BytesAre
    <2>2. 255 - Byte(rem) \in ByteValues
      BY <2>1 DEF ByteValues
    <2> QED BY <2>2, ChannelQ, Zenon
  <1> HIDE DEF p, q, t
  <1>6. \A x \in 0..v, y \in 0..v, z \in 0..v : ~(<<x, y, z>>[i] > v)
    BY <1>0
  <1>7. ~\E x \in 0..v, y \in 0..v, z \in 0..v : HsvToRgb(h, s, v) = <<x, y, z>>
    BY <1>6
  <1>8. v \in 0..v
    BY <1>0
  <1>9. ~(rem <= 255)
    BY <1>2, <1>3, <1>4, <1>5, <1>7, <1>8
  <1>10. Region(h) \notin {0, 2, 4}
    BY <1>2, <1>4, <1>5, <1>7, <1>8
  <1> QED BY <1>1, <1>9, <1>10 DEF rem

(* The fingers read from a report lie within what was read of it.           *)
LEMMA FingersFit ==
  ASSUME NEW announced \in Nat
  PROVE  LET length == ReadLength(announced)
         IN  Fingers(length) > 0 => LastByteUsed(length) < length /\ length <= BufferSize
  <1> DEFINE length == ReadLength(announced)
  <1>0. BufferSize = 64
    BY DEF BufferSize
  <1>1. length \in 0..64
    BY <1>0 DEF ReadLength, Least
  <1> HIDE DEF length
  <1>2. SUFFICES ASSUME Fingers(length) > 0 PROVE LastByteUsed(length) < length /\ length <= BufferSize
    BY DEF length
  <1>3. length >= 4
    BY <1>1, <1>2 DEF Fingers
  <1>4. MaxPoints \in 1..10
    BY ScalesAssumption
  <1>5. (length - 4) \div 6 \in Nat /\ 6 * ((length - 4) \div 6) <= length - 4
    BY <1>1, <1>3
  <1>6. Fingers(length) \in Nat /\ Fingers(length) <= (length - 4) \div 6
    BY <1>1, <1>3, <1>4, <1>5 DEF Fingers, Least
  <1>7. LastByteUsed(length) < length
    BY <1>1, <1>5, <1>6 DEF LastByteUsed
  <1> QED BY <1>0, <1>1, <1>7

(* A rounded area contains the one asked for.                               *)
LEMMA AreaGrows ==
  ASSUME NEW a, a.x1 \in Nat, a.x2 \in Nat
  PROVE  LET r == Rounded(a) IN r.x1 <= a.x1 /\ r.x2 >= a.x2 /\ r.x2 - a.x2 < 4
  BY DEF Rounded

(* The battery's percentage and the duty cycle of the backlight keep their  *)
(* ranges.                                                                  *)
LEMMA BatteryFits ==
  ASSUME NEW mv \in Nat
  PROVE  BatteryPercent(mv) \in 0..100
  <1>1. mv > 3000 /\ mv < 4200 => ((mv - 3000) * 100) \div 1200 \in 0..100
    OBVIOUS
  <1> QED BY <1>1 DEF BatteryPercent

\* What the brightness register takes.
Duties == 0..1024

(* The battery's percentage and the duty cycle of the backlight keep their  *)
(* ranges.                                                                  *)
LEMMA DutyFits ==
  ASSUME NEW percent \in Int
  PROVE  Duty(percent) \in Duties
  <1>1. \A n \in 0..100 : (1024 * n) \div 100 \in 0..1024
    OBVIOUS
  <1>2. (IF percent < 0 THEN 0 ELSE IF percent > 100 THEN 100 ELSE percent) \in 0..100
    OBVIOUS
  <1> QED BY <1>1, <1>2 DEF Duty, Duties

(* Whatever it is applied to, a conversion keeps its range.                 *)
LEMMA RangesKept == ScalesInit => ConversionsInRange
  <1> SUFFICES ASSUME ScalesInit PROVE ConversionsInRange
    OBVIOUS
  <1>0. Hues \subseteq Degrees /\ Levels \subseteq ByteValues /\ Lengths \subseteq Nat
    BY ScalesAssumption DEF Degrees, ByteValues
  <1>1. probe.what = "hsv" => probe.h \in Degrees /\ probe.s \in ByteValues /\ probe.v \in ByteValues
    <2>1. probe.what = "hsv" => probe.h \in Hues /\ probe.s \in Levels /\ probe.v \in Levels
      BY DEF ScalesInit
    <2> QED BY <1>0, <2>1, Zenon
  <1>2. probe.what = "touch" => probe.status.length \in Nat
    <2>1. probe.what = "touch" => probe.status \in Statuses
      BY DEF ScalesInit
    <2>2. probe.what = "touch" => probe.status.length \in Lengths
      BY <2>1 DEF Statuses
    <2> QED BY <1>0, <2>2, Zenon
  <1>3. probe.what = "area" => probe.x1 \in Nat /\ probe.x2 \in Nat
    <2>1. probe.what = "area" => probe.x1 \in 0..16 /\ probe.x2 \in 0..16
      BY DEF ScalesInit
    <2> QED BY <2>1
  <1>4. probe.what = "battery" => probe.mv \in Nat
    <2>1. probe.what = "battery" => probe.mv \in Lengths
      BY DEF ScalesInit
    <2> QED BY <1>0, <2>1, Zenon
  <1>5. probe.what = "duty" => probe.percent \in Int
    <2>1. probe.what = "duty" => probe.percent \in -1..101
      BY DEF ScalesInit
    <2> QED BY <2>1
  <1>6. probe.what = "hsv" /\ (\E i \in 1..3 : HsvToRgb(probe.h, probe.s, probe.v)[i] > probe.v) =>
           Region(probe.h) \in {1, 3, 5} /\ Remainder(probe.h) > 255
    BY <1>1, BrightestChannel, Zenon
  <1>7. probe.what = "touch" =>
           LET length == ReadLength(probe.status.length)
           IN  Fingers(length) > 0 => LastByteUsed(length) < length /\ length <= BufferSize
    BY <1>2, FingersFit, Zenon
  <1>8. probe.what = "area" =>
           LET r == Rounded(probe) IN r.x1 <= probe.x1 /\ r.x2 >= probe.x2 /\ r.x2 - probe.x2 < 4
    BY <1>3, AreaGrows, Zenon
  <1>9. probe.what = "battery" => BatteryPercent(probe.mv) \in 0..100
    BY <1>4, BatteryFits, Zenon
  <1>10. probe.what = "duty" => Duty(probe.percent) \in 0..1024
    <2>1. SUFFICES ASSUME probe.what = "duty" PROVE Duty(probe.percent) \in 0..1024
      OBVIOUS
    <2>2. probe.percent \in Int
      BY <1>5, <2>1
    <2>3. Duty(probe.percent) \in Duties
      BY <2>2, DutyFits, Zenon
    <2> QED BY <2>3 DEF Duties
  <1> QED BY <1>6, <1>7, <1>8, <1>9, <1>10 DEF ConversionsInRange

(* Every conversion of the board keeps its range for all inputs of its      *)
(* domain, not only the ones TLC tried.                                     *)
THEOREM ConversionsKeepRange == ScalesSpec => []ConversionsInRange
  <1>1. ConversionsInRange /\ [ScalesNext]_scalesVars => ConversionsInRange'
    BY DEF ScalesNext, scalesVars, ConversionsInRange
  <1> QED BY RangesKept, <1>1, PTL DEF ScalesSpec

-----------------------------------------------------------------------------
(* Signatures.  S = h a + r, and S B - h A is r B again, modulo the group's *)
(* order.                                                                   *)
(* What remains of a number does not change with whole rounds of L.         *)
LEMMA RoundsAway ==
  ASSUME NEW a \in Int, NEW k \in Int
  PROVE  (L * k + a) % L = a % L
  <1>1. L \in Nat /\ L > 0
    BY SigningAssumption
  <1>2. PICK q \in Int, r \in 0..(L - 1) : a = L * q + r /\ a % L = r
    <2>1. a = L * (a \div L) + (a % L) /\ a % L \in 0..(L - 1) /\ a \div L \in Int
      BY <1>1
    <2> QED BY <2>1
  <1>3. L * k + a = L * (k + q) + r
    BY <1>1, <1>2
  <1>4. (L * (k + q) + r) % L = r
    <2>1. ASSUME NEW m \in Int PROVE (L * m + r) % L = r
      <3> DEFINE x == L * m + r
      <3>1. x \in Int
        BY <1>1
      <3>2. x = L * (x \div L) + (x % L) /\ x % L \in 0..(L - 1) /\ x \div L \in Int
        BY <1>1, <3>1
      <3> DEFINE d == m - (x \div L)
      <3>3. d \in Int /\ L * d = (x % L) - r
        BY <1>1, <3>2
      <3>4. d = 0
        <4>1. -L < L * d /\ L * d < L
          BY <1>1, <3>2, <3>3
        <4> HIDE DEF d
        <4>2. d >= 1 => L * d >= L
          BY <1>1, <3>3
        <4>3. d <= -1 => L * d <= -L
          BY <1>1, <3>3
        <4> QED BY <1>1, <3>3, <4>1, <4>2, <4>3
      <3> QED BY <1>1, <3>2, <3>3, <3>4
    <2> QED BY <2>1
  <1> QED BY <1>2, <1>3, <1>4

LEMMA Remains == ASSUME NEW a \in Int
  PROVE  /\ a % L \in 0..(L - 1)
         /\ \E q \in Int : a = L * q + (a % L)
  <1>1. L \in Nat /\ L > 0
    BY SigningAssumption
  <1>2. a = L * (a \div L) + (a % L) /\ a % L \in 0..(L - 1) /\ a \div L \in Int
    BY <1>1
  <1> QED BY <1>2

(* verify.c:50: with S = h a + r, S B - h A comes to r B again.             *)
LEMMA AnswerComesBack ==
  ASSUME NEW h \in Int, NEW a \in Int, NEW r \in Int
  PROVE  (h * (L - (a % L)) + ((h * a + r) % L)) % L = r % L
  <1>1. L \in Nat /\ L > 0
    BY SigningAssumption
  <1>2. PICK q \in Int : a = L * q + (a % L)
    BY Remains
  <1>3. h * a + r \in Int
    OBVIOUS
  <1>4. PICK p \in Int : h * a + r = L * p + ((h * a + r) % L)
    BY <1>3, Remains
  <1> DEFINE m == a % L  s == (h * a + r) % L
  <1>5. m \in Int /\ s \in Int
    BY <1>3, Remains
  <1>6. a = L * q + m /\ h * a + r = L * p + s
    BY <1>2, <1>4
  <1> HIDE DEF m, s
  <1>7. h * a = L * (h * q) + h * m
    BY <1>1, <1>5, <1>6
  <1>8. h * (L - m) + s = L * (h + h * q - p) + r
    <2>1. h * (L - m) = L * h - h * m
      BY <1>1, <1>5
    <2>2. s = h * a + r - L * p
      BY <1>1, <1>5, <1>6
    <2>3. L * (h + h * q - p) = L * h + L * (h * q) - L * p
      BY <1>1
    <2> QED BY <1>1, <1>5, <1>7, <2>1, <2>2, <2>3
  <1>9. h + h * q - p \in Int
    OBVIOUS
  <1>10. (L * (h + h * q - p) + r) % L = r % L
    BY <1>9, RoundsAway
  <1> QED BY <1>8, <1>10 DEF m, s

(* add_scalar.c: adding before or after taking what remains is the same.    *)
LEMMA AddedComesBack ==
  ASSUME NEW a \in Int, NEW n \in Int
  PROVE  ((n % L) + (a % L)) % L = ((n + a) % L) % L
  <1>1. L \in Nat /\ L > 0
    BY SigningAssumption
  <1> DEFINE x == n % L  y == a % L  z == (n + a) % L
  <1>2. PICK q \in Int : n = L * q + x
    BY Remains
  <1>3. PICK p \in Int : a = L * p + y
    BY Remains
  <1>4. PICK t \in Int : n + a = L * t + z
    <2>1. n + a \in Int
      OBVIOUS
    <2> QED BY <2>1, Remains
  <1>5. x \in Int /\ y \in Int /\ z \in Int
    <2>1. n + a \in Int
      OBVIOUS
    <2> QED BY <2>1, Remains
  <1> HIDE DEF x, y, z
  <1>6. x + y = L * (t - q - p) + z
    BY <1>1, <1>2, <1>3, <1>4, <1>5
  <1>7. (L * (t - q - p) + z) % L = z % L
    BY <1>5, RoundsAway
  <1> QED BY <1>6, <1>7 DEF x, y, z

(* The keys are a pair, and the last signature is accepted.                 *)
KeysPair == public = ScalarMultBase(scalar) /\ apart = public
LastAccepted == signature # None => Verify(signature, signature.message, signature.key)
SigningInv == scalar \in Nat /\ SignedIsVerified

LEMMA SigningBegins == SigningInit => SigningInv
  <1> SUFFICES ASSUME SigningInit PROVE SigningInv
    OBVIOUS
  <1>1. scalar \in Nat
    BY DEF SigningInit, Clamped
  <1>2. public = ScalarMultBase(scalar) /\ apart = public /\ signature = None
    BY DEF SigningInit
  <1> QED BY <1>1, <1>2 DEF SigningInv, SignedIsVerified

LEMMA SignKeeps == ASSUME SigningInv, NEW message \in Messages, Sign(message) PROVE SigningInv'
  <1>1. PICK r \in 0..(L - 1), hram \in 0..(L - 1) :
          LET nonce == <<"prefix", prefix, message>>
              R == ScalarMultBase(r)
              challenge == <<"hram", <<R, public>>, message>>
              told == Remember(nonce, r, hash)
          IN  /\ hash' = Remember(challenge, hram, told)
              /\ signature' = [R |-> R, S |-> ScMuladd(hram, scalar, r), message |-> message,
                               key |-> public]
    BY DEF Sign
  <1>2. scalar' = scalar /\ public' = public /\ apart' = apart
    BY DEF Sign
  <1> DEFINE R == ScalarMultBase(r)
             challenge == <<"hram", <<R, public>>, message>>
             told == Remember(<<"prefix", prefix, message>>, r, hash)
  <1>3. hash' = [y \in DOMAIN told \cup {challenge} |-> IF y = challenge THEN hram ELSE told[y]]
    BY <1>1 DEF Remember
  <1> HIDE DEF told
  <1>4. challenge \in DOMAIN hash' /\ hash'[challenge] = hram
    BY <1>3
  <1>5. /\ signature'.R = R /\ signature'.S = ScMuladd(hram, scalar, r)
        /\ signature'.message = message /\ signature'.key = public
    BY <1>1
  <1>6. public = scalar % L /\ scalar \in Int
    BY DEF SigningInv, SignedIsVerified, ScalarMultBase
  <1>7. (hram * (L - public) + ScMuladd(hram, scalar, r)) % L = R
    <2>1. hram \in Int /\ r \in Int
      OBVIOUS
    <2>2. (hram * (L - (scalar % L)) + ((hram * scalar + r) % L)) % L = r % L
      BY <1>6, <2>1, AnswerComesBack
    <2> QED BY <2>2, <1>6 DEF ScMuladd, ScalarMultBase
  <1>8. Verify(signature, signature.message, signature.key)'
    BY <1>4, <1>5, <1>7 DEF Verify
  <1> QED BY <1>2, <1>8 DEF SigningInv, SignedIsVerified

LEMMA AddScalarKeeps == ASSUME SigningInv, NEW n \in AddedScalars, AddScalar(n) PROVE SigningInv'
  <1>1. n \in Int /\ scalar \in Int /\ n \in Nat
    BY SigningAssumption DEF SigningInv
  <1>2. /\ scalar' = (n + scalar) % L /\ public' = scalar' % L
        /\ apart' = ((n % L) + apart) % L /\ signature' = signature /\ hash' = hash
    BY <1>1 DEF AddScalar, ScMuladd, ScalarMultBase
  <1>3. apart = scalar % L
    BY DEF SigningInv, SignedIsVerified, ScalarMultBase
  <1>4. apart' = public'
    BY <1>1, <1>2, <1>3, AddedComesBack
  <1>5. scalar' \in Nat
    <2>1. n + scalar \in Int
      BY <1>1
    <2>2. (n + scalar) % L \in 0..(L - 1)
      BY <2>1, Remains
    <2> QED BY <1>2, <2>2, SigningAssumption
  <1>6. (signature # None => Verify(signature, signature.message, signature.key))'
    BY <1>2 DEF SigningInv, SignedIsVerified, Verify, None
  <1> QED BY <1>2, <1>4, <1>5, <1>6 DEF SigningInv, SignedIsVerified, ScalarMultBase

LEMMA SigningSteps == SigningInv /\ [SigningNext]_signVars => SigningInv'
  <1> SUFFICES ASSUME SigningInv, [SigningNext]_signVars PROVE SigningInv'
    OBVIOUS
  <1>1. CASE \E message \in Messages : Sign(message)
    BY <1>1, SignKeeps
  <1>2. CASE \E n \in AddedScalars : AddScalar(n)
    BY <1>2, AddScalarKeeps
  <1>3. CASE UNCHANGED signVars
    BY <1>3 DEF SigningInv, SignedIsVerified, signVars, Verify, None, ScalarMultBase
  <1> QED BY <1>1, <1>2, <1>3 DEF SigningNext

(* add_scalar.c:42, :57, verify.c:50.                                       *)
THEOREM SignaturesAccepted == SigningSpec => []SignedIsVerified
  <1>1. SigningInv => SignedIsVerified
    BY DEF SigningInv
  <1> QED BY <1>1, SigningBegins, SigningSteps, PTL DEF SigningSpec

-----------------------------------------------------------------------------
(* The hash.  What was handed to sha512_compress, what is in the buffer and *)
(* what is still to be taken make up the message.                           *)
(* While a message is taken in: whole blocks were handed over, and the      *)
(* buffer starts with what came after them.                                 *)
Taken == fed - piece
ShaCounts ==
  /\ curlen \in 0..(Block - 1) /\ piece \in Nat /\ fed \in Nat /\ bits \in Int
  /\ blocks \in Seq(Seq(Int)) /\ closed \in BOOLEAN
  /\ buf \in [0..(Block - 1) -> Int]
  /\ closed => piece = 0
BlocksSoFar == \A b \in 1..Len(blocks) : blocks[b] = [i \in 1..Block |-> (b - 1) * Block + i - 1]
BufferSoFar == \A j \in 0..(curlen - 1) : buf[j] = Block * Len(blocks) + j
Opened == ~closed => /\ BlocksSoFar /\ BufferSoFar
                     /\ Len(blocks) * Block + curlen = Taken
                     /\ bits = Len(blocks) * (Block * 8)
Finished == closed => blocks = [b \in 1..BlocksOf(fed) |->
                                  [i \in 1..Block |-> PaddedByte(fed, (b - 1) * Block + i - 1)]]
ShaInv == ShaCounts /\ Opened /\ Finished

USE DEF Block

(* What is indexed from 1 to m is a sequence.                               *)
LEMMA IndexedIsSeq ==
  ASSUME NEW S, NEW m \in Nat, NEW f, f \in [1..m -> S]
  PROVE  f \in Seq(S)
  OBVIOUS

(* One element more at the end.                                             *)
LEMMA AppendedLast ==
  ASSUME NEW S, NEW s, s \in Seq(S), NEW e, e \in S
  PROVE  /\ Append(s, e) \in Seq(S) /\ Len(Append(s, e)) = Len(s) + 1
         /\ Append(s, e)[Len(s) + 1] = e /\ s \o <<e>> = Append(s, e)
         /\ \A b \in 1..Len(s) : Append(s, e)[b] = s[b]
  OBVIOUS

(* What the invariant says while a message is open, spelled out.            *)
LEMMA ShaOpen ==
  ASSUME ShaInv, ~closed
  PROVE  /\ curlen \in 0..127 /\ piece \in Nat /\ fed \in Nat /\ bits \in Int
         /\ blocks \in Seq(Seq(Int)) /\ Len(blocks) \in Nat
         /\ buf \in [0..127 -> Int]
         /\ fed - piece = 128 * Len(blocks) + curlen /\ bits = 1024 * Len(blocks)
         /\ \A j \in 0..(curlen - 1) : buf[j] = 128 * Len(blocks) + j
         /\ BlocksSoFar
  <1>1. /\ curlen \in 0..127 /\ piece \in Nat /\ fed \in Nat /\ bits \in Int
        /\ blocks \in Seq(Seq(Int)) /\ buf \in [0..127 -> Int]
    BY DEF ShaInv, ShaCounts
  <1>2. Len(blocks) \in Nat
    BY <1>1
  <1>3. BlocksSoFar /\ BufferSoFar /\ Len(blocks) * 128 + curlen = Taken /\ bits = Len(blocks) * 1024
    BY DEF ShaInv, Opened
  <1>4. \A j \in 0..(curlen - 1) : buf[j] = 128 * Len(blocks) + j
    BY <1>3 DEF BufferSoFar
  <1>5. fed - piece = 128 * Len(blocks) + curlen
    BY <1>1, <1>2, <1>3 DEF Taken
  <1>6. bits = 1024 * Len(blocks)
    BY <1>2, <1>3
  <1> QED BY <1>1, <1>2, <1>3, <1>4, <1>5, <1>6

(* And what shows it of the next state.                                     *)
LEMMA ShaStaysOpen ==
  ASSUME ~closed', closed' \in BOOLEAN,
         curlen' \in 0..127, piece' \in Nat, fed' \in Nat,
         blocks' \in Seq(Seq(Int)), buf' \in [0..127 -> Int],
         NEW k \in Nat, k = Len(blocks'),
         fed' - piece' = 128 * k + curlen', bits' = 1024 * k,
         \A j \in 0..(curlen' - 1) : buf'[j] = 128 * k + j,
         BlocksSoFar'
  PROVE  ShaInv'
  <1>1. bits' \in Int
    OBVIOUS
  <1>2. ShaCounts'
    BY <1>1 DEF ShaCounts
  <1>3. (Len(blocks) * Block + curlen = Taken)'
    BY DEF Taken
  <1>4. (bits = Len(blocks) * (Block * 8))'
    OBVIOUS
  <1>5. BufferSoFar'
    BY DEF BufferSoFar
  <1>6. Finished'
    BY DEF Finished
  <1> QED BY <1>2, <1>3, <1>4, <1>5, <1>6 DEF ShaInv, Opened

LEMMA ShaBegins == ShaInit => ShaInv
  <1> SUFFICES ASSUME ShaInit PROVE ShaInv
    OBVIOUS
  <1> USE DEF Block
  <1>1. ShaCounts
    <2>1. buf \in [0..(Block - 1) -> Int]
      BY DEF ShaInit, Pad
    <2>2. blocks \in Seq(Seq(Int)) /\ curlen \in 0..(Block - 1)
      BY DEF ShaInit
    <2>3. piece \in Nat /\ fed \in Nat /\ bits \in Int /\ piece = 0
      BY DEF ShaInit
    <2>4. closed \in BOOLEAN
      BY DEF ShaInit
    <2> QED BY <2>1, <2>2, <2>3, <2>4 DEF ShaCounts
  <1>2. Opened
    BY DEF ShaInit, Opened, BlocksSoFar, BufferSoFar, Taken
  <1>3. Finished
    BY DEF ShaInit, Finished
  <1> QED BY <1>1, <1>2, <1>3 DEF ShaInv

LEMMA UpdateKeeps == ASSUME ShaInv, NEW n \in Pieces, Update(n) PROVE ShaInv'
  <1>1. /\ ~closed /\ piece = 0 /\ piece' = n /\ fed' = fed + n /\ n \in Nat /\ buf' = buf
        /\ curlen' = curlen /\ bits' = bits /\ blocks' = blocks /\ closed' = closed
    BY ShaAssumption DEF Update
  <1>2. ShaCounts'
    BY <1>1 DEF ShaInv, ShaCounts
  <1>3. Taken' = Taken
    BY <1>1 DEF ShaInv, ShaCounts, Taken
  <1> QED BY <1>1, <1>2, <1>3 DEF ShaInv, Opened, Finished, BlocksSoFar, BufferSoFar

(* A block that follows those handed over keeps them whole.                 *)
LEMMA BlockAppended ==
  ASSUME ShaInv, ~closed, NEW block,
         block = [i \in 1..Block |-> Len(blocks) * Block + i - 1],
         blocks' = Append(blocks, block)
  PROVE  BlocksSoFar' /\ blocks' \in Seq(Seq(Int)) /\ Len(blocks') = Len(blocks) + 1
  <1> DEFINE n == Len(blocks)
  <1>1. blocks \in Seq(Seq(Int)) /\ n \in Nat /\ BlocksSoFar
    BY DEF ShaInv, ShaCounts, Opened
  <1>n. n \in Nat
    BY <1>1
  <1>2. block \in Seq(Int)
    <2>1. block \in [1..128 -> Int]
      BY <1>1
    <2>2. 128 \in Nat
      OBVIOUS
    <2> QED BY <2>1, <2>2, IndexedIsSeq
  <1>3. /\ blocks' \in Seq(Seq(Int)) /\ Len(blocks') = n + 1 /\ blocks'[n + 1] = block
        /\ \A b \in 1..n : blocks'[b] = blocks[b]
    BY <1>1, <1>2, AppendedLast
  <1>4. ASSUME NEW b \in 1..(n + 1) PROVE blocks'[b] = [i \in 1..Block |-> (b - 1) * Block + i - 1]
    <2>1. CASE b = n + 1
      BY <1>1, <1>3, <2>1
    <2>2. CASE b # n + 1
      <3>1. b \in 1..n
        <4> HIDE DEF n
        <4> QED BY <1>n, <2>2
      <3> QED BY <1>1, <1>3, <3>1 DEF BlocksSoFar
    <2> QED BY <2>1, <2>2
  <1>5. ASSUME NEW b \in 1..Len(blocks')
        PROVE  blocks'[b] = [i \in 1..Block |-> (b - 1) * Block + i - 1]
    <2>1. b \in 1..(n + 1)
      BY <1>3
    <2> QED BY <1>4, <2>1
  <1>6. BlocksSoFar'
    BY <1>5, Zenon DEF BlocksSoFar
  <1> QED BY <1>3, <1>6

LEMMA DirectKeeps == ASSUME ShaInv, UpdateDirect PROVE ShaInv'
  <1>1. ~closed
    BY DEF UpdateDirect, ShaInv, ShaCounts
  <1>2. curlen = 0 /\ piece >= 128 /\ piece' = piece - 128 /\ bits' = bits + 1024 /\ fed' = fed
    BY DEF UpdateDirect
  <1>3. blocks' = Append(blocks, Next128) /\ buf' = buf /\ curlen' = curlen /\ closed' = closed
    BY DEF UpdateDirect, Compress
  <1>4. PICK k \in Nat : k = Len(blocks)
    BY <1>1, ShaOpen
  <1>5. /\ piece \in Nat /\ fed \in Nat /\ buf \in [0..127 -> Int]
        /\ fed - piece = 128 * k + curlen /\ bits = 1024 * k
    BY <1>1, <1>4, ShaOpen
  <1>6. Next128 = [i \in 1..Block |-> Len(blocks) * Block + i - 1]
    <2>1. fed - piece = k * 128
      BY <1>2, <1>5
    <2> QED BY <2>1, <1>4 DEF Next128
  <1>7. BlocksSoFar' /\ blocks' \in Seq(Seq(Int)) /\ Len(blocks') = k + 1
    BY <1>1, <1>3, <1>4, <1>6, BlockAppended
  <1>8. fed' - piece' = 128 * (k + 1) + curlen' /\ bits' = 1024 * (k + 1) /\ piece' \in Nat
    <2>1. curlen' = 0
      BY <1>2, <1>3
    <2> QED BY <1>2, <1>5, <2>1
  <1>9. \A j \in 0..(curlen' - 1) : buf'[j] = 128 * (k + 1) + j
    BY <1>2, <1>3
  <1>10. ~closed' /\ closed' \in BOOLEAN /\ curlen' \in 0..127 /\ fed' \in Nat
    BY <1>1, <1>2, <1>3, <1>5 DEF ShaInv, ShaCounts
  <1>11. k + 1 \in Nat /\ k + 1 = Len(blocks') /\ buf' \in [0..127 -> Int]
    BY <1>3, <1>5, <1>7
  <1> QED BY <1>7, <1>8, <1>9, <1>10, <1>11, ShaStaysOpen

LEMMA FillKeeps == ASSUME ShaInv, UpdateFill PROVE ShaInv'
  <1> DEFINE n == IF piece < Block - curlen THEN piece ELSE Block - curlen
             filled == [i \in 0..(Block - 1) |-> IF i \in curlen..(curlen + n - 1)
                                             THEN fed - piece + i - curlen ELSE buf[i]]
  <1>1. ~closed
    BY DEF UpdateFill, ShaInv, ShaCounts
  <1>2. PICK k \in Nat : k = Len(blocks)
    BY <1>1, ShaOpen
  <1>3. /\ piece \in Nat /\ fed \in Nat /\ curlen \in 0..127 /\ buf \in [0..127 -> Int]
        /\ fed - piece = 128 * k + curlen /\ bits = 1024 * k
    BY <1>1, <1>2, ShaOpen
  <1>4. \A j \in 0..(curlen - 1) : buf[j] = 128 * k + j
    BY <1>1, <1>2, ShaOpen
  <1>5. buf' = filled /\ piece' = piece - n /\ fed' = fed /\ closed' = closed
    BY DEF UpdateFill
  <1>6. IF curlen + n = Block
        THEN blocks' = Append(blocks, Buffer(filled)) /\ bits' = bits + Block * 8 /\ curlen' = 0
        ELSE curlen' = curlen + n /\ bits' = bits /\ blocks' = blocks
    BY DEF UpdateFill, Compress
  <1>7. n \in Nat /\ n <= piece /\ curlen + n <= 128
    BY <1>3
  <1> HIDE DEF n
  <1>8. \A j \in 0..(curlen + n - 1) : filled[j] = 128 * k + j
    <2> TAKE j \in 0..(curlen + n - 1)
    <2>1. j \in 0..127 /\ j \in Int
      BY <1>3, <1>7
    <2>2. CASE j < curlen
      <3>1. filled[j] = buf[j] /\ j \in 0..(curlen - 1)
        BY <1>3, <2>1, <2>2
      <3> QED BY <1>4, <3>1
    <2>3. CASE j >= curlen
      <3>1. j \in curlen..(curlen + n - 1)
        BY <1>3, <1>7, <2>1, <2>3
      <3>2. filled[j] = fed - piece + j - curlen
        BY <2>1, <3>1
      <3> HIDE DEF filled
      <3> QED BY <1>3, <2>1, <3>2
    <2> QED BY <1>3, <2>1, <2>2, <2>3
  <1>9. filled \in [0..127 -> Int]
    BY <1>3
  <1> HIDE DEF filled
  <1>10. piece' \in Nat /\ fed' \in Nat /\ buf' \in [0..127 -> Int]
    BY <1>3, <1>5, <1>7, <1>9
  <1>11. ~closed' /\ closed' \in BOOLEAN
    BY <1>1, <1>5 DEF ShaInv, ShaCounts
  <1>12. CASE curlen + n = 128
    <2>1. blocks' = Append(blocks, Buffer(filled)) /\ bits' = bits + 1024 /\ curlen' = 0
      BY <1>6, <1>12
    <2>2. Buffer(filled) = [i \in 1..Block |-> Len(blocks) * Block + i - 1]
      <3>1. ASSUME NEW i \in 1..128 PROVE filled[i - 1] = k * 128 + i - 1
        <4>1. i - 1 \in 0..(curlen + n - 1)
          BY <1>3, <1>7, <1>12
        <4>2. filled[i - 1] = 128 * k + (i - 1)
          BY <1>8, <4>1
        <4> QED BY <4>2
      <3> QED BY <1>2, <3>1 DEF Buffer
    <2>3. BlocksSoFar' /\ blocks' \in Seq(Seq(Int)) /\ Len(blocks') = k + 1
      BY <1>1, <1>2, <2>1, <2>2, BlockAppended
    <2>4. fed' - piece' = 128 * (k + 1) + curlen' /\ bits' = 1024 * (k + 1)
      BY <1>3, <1>5, <1>7, <1>12, <2>1
    <2>5. \A j \in 0..(curlen' - 1) : buf'[j] = 128 * (k + 1) + j
      BY <2>1
    <2>6. k + 1 \in Nat /\ k + 1 = Len(blocks') /\ curlen' \in 0..127
      BY <2>1, <2>3
    <2> QED BY <1>10, <1>11, <2>3, <2>4, <2>5, <2>6, ShaStaysOpen
  <1>13. CASE curlen + n # 128
    <2>1. curlen' = curlen + n /\ bits' = bits /\ blocks' = blocks
      BY <1>6, <1>13
    <2>2. curlen' \in 0..127
      BY <1>3, <1>7, <1>13, <2>1
    <2>3. \A j \in 0..(curlen' - 1) : buf'[j] = 128 * k + j
      <3>1. buf' = filled
        BY <1>5
      <3> TAKE j \in 0..(curlen' - 1)
      <3>2. j \in 0..(curlen + n - 1)
        <4>1. curlen' - 1 = curlen + n - 1
          BY <1>3, <1>7, <2>1
        <4> QED BY <4>1, Zenon
      <3>3. filled[j] = 128 * k + j
        BY <1>8, <3>2
      <3> QED BY <3>1, <3>3
    <2>4. fed' - piece' = 128 * k + curlen' /\ bits' = 1024 * k
      BY <1>3, <1>5, <1>7, <2>1
    <2>5. BlocksSoFar' /\ blocks' \in Seq(Seq(Int)) /\ k = Len(blocks')
      <3>1. BlocksSoFar /\ blocks \in Seq(Seq(Int))
        BY <1>1, ShaOpen
      <3>2. BlocksSoFar'
        BY <2>1, <3>1 DEF BlocksSoFar
      <3> QED BY <1>2, <2>1, <3>1, <3>2
    <2> QED BY <1>10, <1>11, <2>2, <2>3, <2>4, <2>5, ShaStaysOpen
  <1> QED BY <1>12, <1>13

(* What byte comes where in the padded message of n bytes, in m blocks.     *)
LEMMA MessageByte ==
  ASSUME NEW n \in Nat, NEW p \in Nat, p < n
  PROVE  PaddedByte(n, p) = p
  BY DEF PaddedByte
LEMMA BitByte ==
  ASSUME NEW n \in Nat
  PROVE  PaddedByte(n, n) = Pad.one
  BY DEF PaddedByte
LEMMA ZeroByte ==
  ASSUME NEW n \in Nat, NEW p \in Nat, NEW m \in Nat, m = BlocksOf(n), p > n, p < 128 * m - 1
  PROVE  PaddedByte(n, p) = Pad.zero
  BY DEF PaddedByte
LEMMA LengthByte ==
  ASSUME NEW n \in Nat, NEW p \in Nat, NEW m \in Nat, m = BlocksOf(n), p > n, p >= 128 * m - 1
  PROVE  PaddedByte(n, p) = LengthBytes(8 * n)
  BY DEF PaddedByte

(* How many blocks, where the last one was filled to c.                     *)
LEMMA BlocksNeeded ==
  ASSUME NEW k \in Nat, NEW c \in 0..127
  PROVE  BlocksOf(128 * k + c) = IF c + 1 > 112 THEN k + 2 ELSE k + 1
  <1>1. c <= 111 => (128 * k + c + 17 + 128 - 1) \div 128 = k + 1
    OBVIOUS
  <1>2. c > 111 => (128 * k + c + 17 + 128 - 1) \div 128 = k + 2
    OBVIOUS
  <1> QED BY <1>1, <1>2 DEF BlocksOf

(* The buffer's bytes after padding: what was taken in, the bit, then       *)
(* zeros to the place given.                                                *)
BitAndZeros(p, b, c, to) ==
  /\ p \in [0..127 -> Int] /\ p[c] = Pad.one
  /\ \A j \in 0..(c - 1) : p[j] = b[j]
  /\ \A j \in (c + 1)..to : p[j] = Pad.zero
LEMMA PaddedOnce ==
  ASSUME NEW b, b \in [0..127 -> Int], NEW c, c \in 0..127, NEW to, to \in 0..127
  PROVE  BitAndZeros(Padded([b EXCEPT ![c] = Pad.one], c + 1, to), b, c, to)
  <1> DEFINE one == [b EXCEPT ![c] = Pad.one]
             p == Padded(one, c + 1, to)
  <1>1. one \in [0..127 -> Int] /\ one[c] = Pad.one /\ \A j \in 0..(c - 1) : one[j] = b[j]
    BY DEF Pad
  <1> HIDE DEF one
  <1>2. p = [i \in 0..127 |-> IF i \in (c + 1)..to THEN Pad.zero ELSE one[i]]
    BY DEF Padded
  <1>3. Pad.zero \in Int
    BY DEF Pad
  <1> HIDE DEF p
  <1>4. p \in [0..127 -> Int]
    BY <1>1, <1>2, <1>3
  <1>5. p[c] = Pad.one
    <2>1. c \in 0..127 /\ ~(c \in (c + 1)..to)
      OBVIOUS
    <2> QED BY <1>1, <1>2, <2>1
  <1>6. \A j \in 0..(c - 1) : p[j] = b[j]
    <2> TAKE j \in 0..(c - 1)
    <2>1. j \in 0..127 /\ ~(j \in (c + 1)..to)
      OBVIOUS
    <2> QED BY <1>1, <1>2, <2>1
  <1>7. \A j \in (c + 1)..to : p[j] = Pad.zero
    <2> TAKE j \in (c + 1)..to
    <2>1. j \in 0..127
      OBVIOUS
    <2> QED BY <1>2, <2>1
  <1>8. BitAndZeros(p, b, c, to)
    BY <1>4, <1>5, <1>6, <1>7 DEF BitAndZeros
  <1> QED BY <1>8, Zenon DEF one, p

(* With the length at its end.                                              *)
(* With the length at its end.                                              *)
EndsInLength(w, b, n) ==
  /\ w \in [0..127 -> Int] /\ w[127] = LengthBytes(n)
  /\ \A j \in 120..126 : w[j] = Pad.zero
  /\ \A j \in 0..119 : w[j] = b[j]

LEMMA WithItsLength ==
  ASSUME NEW b \in [0..127 -> Int], NEW n \in Int
  PROVE  EndsInLength(WithLength(b, n), b, n)
  <1>1. WithLength(b, n) = [i \in 0..127 |-> IF i = 127 THEN LengthBytes(n)
                                             ELSE IF i >= 120 THEN Pad.zero ELSE b[i]]
    BY DEF WithLength
  <1>2. LengthBytes(n) \in Int /\ Pad.zero \in Int
    BY DEF LengthBytes, Pad
  <1> QED BY <1>1, <1>2 DEF EndsInLength

(* A block as it is handed over.                                            *)
PaddedBlock(f, b) == [i \in 1..Block |-> PaddedByte(f, (b - 1) * Block + i - 1)]
HoldsBlock(b, f, k) == \A i \in 1..128 : b[i - 1] = PaddedByte(f, k * 128 + i - 1)
LEMMA HandedOver ==
  ASSUME NEW b, b \in [0..127 -> Int], NEW f, NEW k, k \in Nat, HoldsBlock(b, f, k)
  PROVE  Buffer(b) \in Seq(Int) /\ Buffer(b) = PaddedBlock(f, k + 1)
  <1>1. Buffer(b) = [i \in 1..128 |-> b[i - 1]]
    BY DEF Buffer
  <1>2. Buffer(b) \in [1..128 -> Int]
    <2>1. \A i \in 1..128 : i - 1 \in 0..127
      OBVIOUS
    <2> QED BY <1>1, <2>1
  <1>3. 128 \in Nat
    OBVIOUS
  <1>4. Buffer(b) \in Seq(Int)
    <2> DEFINE f0 == Buffer(b)
               m0 == 128
    <2>1. m0 \in Nat /\ f0 \in [1..m0 -> Int]
      BY <1>2, <1>3
    <2> HIDE DEF f0, m0
    <2>2. f0 \in Seq(Int)
      BY <2>1, IndexedIsSeq
    <2> QED BY <2>2 DEF f0
  <1>5. k + 1 - 1 = k
    OBVIOUS
  <1>6. Buffer(b) = [i \in 1..128 |-> PaddedByte(f, k * 128 + i - 1)]
    BY <1>1 DEF HoldsBlock
  <1>7. Buffer(b) = PaddedBlock(f, k + 1)
    BY <1>5, <1>6 DEF PaddedBlock
  <1> QED BY <1>4, <1>7

(* sha512_final: the message was handed over up to its last block, and the  *)
(* bytes in the buffer, the bit, the zeros and the length follow.           *)
LEMMA FinalKeeps == ASSUME ShaInv, Final PROVE ShaInv'
  <1> DEFINE n == bits + curlen * 8
             one == [buf EXCEPT ![curlen] = Pad.one]
             zeros == Padded(one, 0, 119)
             short == Padded(one, curlen + 1, 119)
             long == Padded(one, curlen + 1, 127)
  <1>0. ~closed
    BY DEF Final
  <1>1. piece = 0 /\ closed' = TRUE /\ curlen' = 120 /\ piece' = 0 /\ fed' = fed
    BY DEF Final
  <1>2. PICK k \in Nat : k = Len(blocks)
    BY <1>0, ShaOpen
  <1>b. buf \in [0..127 -> Int]
    BY <1>0, ShaOpen
  <1>s. blocks \in Seq(Seq(Int))
    BY <1>0, ShaOpen
  <1>3. fed \in Nat /\ curlen \in 0..127 /\ fed = 128 * k + curlen /\ bits = 1024 * k
    <2>1. fed \in Nat /\ curlen \in 0..127 /\ fed - piece = 128 * k + curlen /\ bits = 1024 * k
      BY <1>0, <1>2, ShaOpen
    <2> QED BY <1>1, <2>1
  <1>4. \A j \in 0..(curlen - 1) : buf[j] = 128 * k + j
    BY <1>0, <1>2, ShaOpen
  <1>5. n \in Int /\ n = 8 * fed
    BY <1>3
  <1>6. /\ curlen + 1 > 112 => /\ buf' = WithLength(zeros, n)
                               /\ blocks' = Append(blocks, Buffer(long)) \o <<Buffer(WithLength(zeros, n))>>
        /\ ~(curlen + 1 > 112) => /\ buf' = WithLength(short, n)
                                  /\ blocks' = blocks \o <<Buffer(WithLength(short, n))>>
    BY DEF Final
  <1>7. bits' \in Int
    <2>1. bits' = n
      BY DEF Final
    <2> QED BY <1>5, <2>1
  <1>8. one \in [0..127 -> Int]
    <2>1. Pad.one \in Int
      BY DEF Pad
    <2> QED BY <1>3, <1>b, <2>1
  <1>o. one = [buf EXCEPT ![curlen] = Pad.one] /\ 119 \in 0..127 /\ 127 \in 0..127
    OBVIOUS
  <1>p. /\ short = Padded(one, curlen + 1, 119) /\ long = Padded(one, curlen + 1, 127)
        /\ zeros = Padded(one, 0, 119)
    OBVIOUS
  <1>c. curlen \in 0..127
    BY <1>3
  <1>9. BlocksOf(fed) = IF curlen + 1 > 112 THEN k + 2 ELSE k + 1
    BY <1>3, BlocksNeeded
  <1> HIDE DEF n, one, short, long, zeros
  (* Whole blocks are the message's own bytes.                              *)
  <1>10. ASSUME NEW b \in 1..k PROVE blocks[b] = PaddedBlock(fed, b)
    <2>1. blocks[b] = [i \in 1..128 |-> (b - 1) * 128 + i - 1]
      <3>1. BlocksSoFar
        BY <1>0, ShaOpen
      <3>2. b \in 1..Len(blocks)
        BY <1>2
      <3> QED BY <3>1, <3>2 DEF BlocksSoFar
    <2>2. ASSUME NEW i \in 1..128
          PROVE  (b - 1) * 128 + i - 1 = PaddedByte(fed, (b - 1) * 128 + i - 1)
      <3>1. (b - 1) * 128 + i - 1 \in Nat /\ (b - 1) * 128 + i - 1 < fed
        BY <1>3
      <3> QED BY <1>3, <3>1, MessageByte
    <2> QED BY <2>1, <2>2 DEF PaddedBlock
  <1>11. CASE curlen + 1 > 112
    <2>1. /\ long \in [0..127 -> Int] /\ long[curlen] = Pad.one
          /\ \A j \in 0..(curlen - 1) : long[j] = buf[j]
          /\ \A j \in (curlen + 1)..127 : long[j] = Pad.zero
      <3>1. BitAndZeros(Padded([buf EXCEPT ![curlen] = Pad.one], curlen + 1, 127), buf, curlen, 127)
        BY <1>b, <1>c, <1>o, PaddedOnce, Zenon
      <3>2. BitAndZeros(long, buf, curlen, 127)
        BY <3>1, Zenon DEF long, one
      <3> QED BY <3>2, Zenon DEF BitAndZeros
    <2>2. zeros \in [0..127 -> Int] /\ \A j \in 0..119 : zeros[j] = Pad.zero
      <3>1. zeros = [i \in 0..127 |-> IF i \in 0..119 THEN Pad.zero ELSE one[i]]
        BY <1>p DEF Padded
      <3>2. Pad.zero \in Int
        BY DEF Pad
      <3>3. ASSUME NEW i \in 0..127 PROVE (IF i \in 0..119 THEN Pad.zero ELSE one[i]) \in Int
        BY <1>8, <3>2
      <3>4. \A j \in 0..119 : j \in 0..127
        OBVIOUS
      <3> HIDE DEF zeros, one
      <3> QED BY <3>1, <3>3, <3>4
    <2> DEFINE w == WithLength(zeros, n)
    <2>3. /\ w \in [0..127 -> Int] /\ w[127] = LengthBytes(n)
          /\ \A j \in 120..126 : w[j] = Pad.zero
          /\ \A j \in 0..119 : w[j] = zeros[j]
      <3>1. EndsInLength(w, zeros, n)
        BY <1>5, <2>2, WithItsLength, Zenon
      <3> QED BY <3>1, Zenon DEF EndsInLength
    <2>4. k + 2 = BlocksOf(fed) /\ k + 2 \in Nat
      BY <1>9, <1>11
    <2>7. blocks' = Append(blocks, Buffer(long)) \o <<Buffer(w)>> /\ buf' = w
      BY <1>6, <1>11
    <2> HIDE DEF w
    <2>5. Buffer(long) = PaddedBlock(fed, k + 1) /\ Buffer(long) \in Seq(Int)
      <3>1. ASSUME NEW i \in 1..128 PROVE long[i - 1] = PaddedByte(fed, k * 128 + i - 1)
        <4> DEFINE p == k * 128 + i - 1
        <4>1. i - 1 \in 0..127 /\ p \in Nat /\ p < 128 * (k + 2) - 1
          OBVIOUS
        <4>2. /\ i - 1 < curlen => p < fed /\ i - 1 \in 0..(curlen - 1) /\ p = 128 * k + (i - 1)
              /\ i - 1 = curlen => p = fed
              /\ i - 1 > curlen => p > fed /\ i - 1 \in (curlen + 1)..127
          BY <1>3, <4>1
        <4>3. i - 1 < curlen \/ i - 1 = curlen \/ i - 1 > curlen
          BY <1>3, <4>1
        <4> HIDE DEF p
        <4>4. CASE i - 1 < curlen
          <5>1. long[i - 1] = p
            BY <1>4, <2>1, <4>2, <4>4
          <5>2. PaddedByte(fed, p) = p
            BY <1>3, <4>1, <4>2, <4>4, MessageByte
          <5> QED BY <5>1, <5>2 DEF p
        <4>5. CASE i - 1 = curlen
          <5>1. PaddedByte(fed, p) = Pad.one
            BY <1>3, <4>2, <4>5, BitByte
          <5> QED BY <2>1, <4>5, <5>1 DEF p
        <4>6. CASE i - 1 > curlen
          <5>1. PaddedByte(fed, p) = Pad.zero
            BY <1>3, <2>4, <4>1, <4>2, <4>6, ZeroByte
          <5> QED BY <2>1, <4>2, <4>6, <5>1 DEF p
        <4> QED BY <4>3, <4>4, <4>5, <4>6
      <3>2. long \in [0..127 -> Int]
        BY <2>1
      <3>3. HoldsBlock(long, fed, k)
        BY <3>1 DEF HoldsBlock
      <3> QED BY <3>2, <3>3, HandedOver, Zenon
    <2>6. Buffer(w) = PaddedBlock(fed, k + 2) /\ Buffer(w) \in Seq(Int)
      <3>1. ASSUME NEW i \in 1..128 PROVE w[i - 1] = PaddedByte(fed, (k + 1) * 128 + i - 1)
        <4> DEFINE p == (k + 1) * 128 + i - 1
        <4>1. /\ i - 1 \in 0..127 /\ p \in Nat /\ p > fed
              /\ i - 1 = 127 => p >= 128 * (k + 2) - 1
              /\ i - 1 # 127 => /\ p < 128 * (k + 2) - 1
                                /\ i - 1 \in 120..126 \/ i - 1 \in 0..119
          BY <1>3
        <4> HIDE DEF p
        <4>2. CASE i - 1 = 127
          <5>1. PaddedByte(fed, p) = LengthBytes(8 * fed)
            BY <1>3, <2>4, <4>1, <4>2, LengthByte
          <5> QED BY <1>5, <2>3, <4>2, <5>1 DEF p
        <4>3. CASE i - 1 # 127
          <5>1. PaddedByte(fed, p) = Pad.zero
            BY <1>3, <2>4, <4>1, <4>3, ZeroByte
          <5>2. w[i - 1] = Pad.zero
            <6>1. CASE i - 1 \in 120..126
              BY <2>3, <6>1
            <6>2. CASE i - 1 \in 0..119
              BY <2>2, <2>3, <6>2
            <6> QED BY <4>1, <4>3, <6>1, <6>2
          <5> QED BY <5>1, <5>2 DEF p
        <4> QED BY <4>2, <4>3
      <3>2. k + 1 \in Nat /\ k + 1 + 1 = k + 2
        OBVIOUS
      <3>3. HoldsBlock(w, fed, k + 1)
        BY <3>1 DEF HoldsBlock
      <3>4. w \in [0..127 -> Int]
        BY <2>3
      <3>5. Buffer(w) \in Seq(Int) /\ Buffer(w) = PaddedBlock(fed, k + 1 + 1)
        BY <3>2, <3>3, <3>4, HandedOver, Zenon
      <3> QED BY <3>2, <3>5, Zenon
    <2> DEFINE more == Append(blocks, Buffer(long))
    <2>8. /\ more \in Seq(Seq(Int)) /\ Len(more) = k + 1 /\ more[k + 1] = Buffer(long)
          /\ \A b \in 1..k : more[b] = blocks[b]
      BY <1>2, <1>s, <2>5, AppendedLast
    <2>9. blocks' = more \o <<Buffer(w)>>
      BY <2>7
    <2> HIDE DEF more
    <2>10. /\ blocks' \in Seq(Seq(Int)) /\ Len(blocks') = Len(more) + 1
           /\ blocks'[Len(more) + 1] = Buffer(w) /\ \A b \in 1..Len(more) : blocks'[b] = more[b]
      BY <2>6, <2>8, <2>9, AppendedLast
    <2>11. Len(blocks') = k + 2 /\ blocks'[k + 2] = Buffer(w) /\ \A b \in 1..(k + 1) : blocks'[b] = more[b]
      <3>1. Len(more) = k + 1 /\ k + 1 + 1 = k + 2
        BY <2>8
      <3> QED BY <2>10, <3>1
    <2>12. ASSUME NEW b \in 1..(k + 2) PROVE blocks'[b] = PaddedBlock(fed, b)
      <3>1. CASE b \in 1..k
        <4>1. b \in 1..(k + 1)
          BY <3>1
        <4> QED BY <1>10, <2>8, <2>11, <3>1, <4>1
      <3>2. CASE b = k + 1
        <4>1. b \in 1..(k + 1)
          BY <3>2
        <4> QED BY <2>5, <2>8, <2>11, <3>2, <4>1
      <3>3. CASE b = k + 2
        BY <2>6, <2>11, <3>3
      <3>4. b \in 1..k \/ b = k + 1 \/ b = k + 2
        OBVIOUS
      <3> QED BY <3>1, <3>2, <3>3, <3>4
    <2>13. blocks' = [b \in 1..BlocksOf(fed) |-> PaddedBlock(fed, b)]
      <3>1. Len(blocks') = BlocksOf(fed)
        BY <2>4, <2>11
      <3>2. \A b \in 1..BlocksOf(fed) : blocks'[b] = PaddedBlock(fed, b)
        BY <2>4, <2>12
      <3>3. blocks' = [b \in 1..Len(blocks') |-> blocks'[b]]
        BY <2>10
      <3> QED BY <3>1, <3>2, <3>3
    <2>14. Finished'
      BY <1>1, <2>13 DEF Finished, PaddedBlock
    <2>15. ShaCounts'
      BY <1>1, <1>3, <1>7, <2>3, <2>7, <2>10 DEF ShaCounts
    <2> QED BY <1>1, <2>14, <2>15 DEF ShaInv, Opened
  <1>12. CASE ~(curlen + 1 > 112)
    <2>1. /\ short \in [0..127 -> Int] /\ short[curlen] = Pad.one
          /\ \A j \in 0..(curlen - 1) : short[j] = buf[j]
          /\ \A j \in (curlen + 1)..119 : short[j] = Pad.zero
      <3>1. BitAndZeros(Padded([buf EXCEPT ![curlen] = Pad.one], curlen + 1, 119), buf, curlen, 119)
        BY <1>b, <1>c, <1>o, PaddedOnce, Zenon
      <3>2. BitAndZeros(short, buf, curlen, 119)
        BY <3>1, Zenon DEF short, one
      <3> QED BY <3>2, Zenon DEF BitAndZeros
    <2> DEFINE w == WithLength(short, n)
    <2>2. /\ w \in [0..127 -> Int] /\ w[127] = LengthBytes(n)
          /\ \A j \in 120..126 : w[j] = Pad.zero
          /\ \A j \in 0..119 : w[j] = short[j]
      <3>1. EndsInLength(w, short, n)
        BY <1>5, <2>1, WithItsLength, Zenon
      <3> QED BY <3>1, Zenon DEF EndsInLength
    <2>3. k + 1 = BlocksOf(fed) /\ k + 1 \in Nat
      BY <1>9, <1>12
    <2>5. blocks' = blocks \o <<Buffer(w)>> /\ buf' = w
      BY <1>6, <1>12
    <2> HIDE DEF w
    <2>4. Buffer(w) = PaddedBlock(fed, k + 1) /\ Buffer(w) \in Seq(Int)
      <3>1. ASSUME NEW i \in 1..128 PROVE w[i - 1] = PaddedByte(fed, k * 128 + i - 1)
        <4> DEFINE p == k * 128 + i - 1
        <4>1. i - 1 \in 0..127 /\ p \in Nat
          OBVIOUS
        <4>2. /\ i - 1 < curlen => /\ p < fed /\ i - 1 \in 0..(curlen - 1) /\ i - 1 \in 0..119
                                   /\ p = 128 * k + (i - 1)
              /\ i - 1 = curlen => p = fed /\ i - 1 \in 0..119
              /\ i - 1 > curlen => p > fed
              /\ i - 1 > curlen /\ i - 1 # 127 => p < 128 * (k + 1) - 1
              /\ i - 1 > curlen /\ i - 1 = 127 => p >= 128 * (k + 1) - 1
              /\ i - 1 > curlen /\ i - 1 # 127 =>
                   i - 1 \in 120..126 \/ (i - 1 \in 0..119 /\ i - 1 \in (curlen + 1)..119)
          BY <1>3, <1>12, <4>1
        <4>3. i - 1 < curlen \/ i - 1 = curlen \/ i - 1 > curlen
          BY <1>3, <4>1
        <4> HIDE DEF p
        <4>4. CASE i - 1 < curlen
          <5>1. w[i - 1] = buf[i - 1]
            BY <2>1, <2>2, <4>2, <4>4, Zenon
          <5>2. buf[i - 1] = p
            BY <1>4, <4>2, <4>4
          <5>3. PaddedByte(fed, p) = p
            BY <1>3, <4>1, <4>2, <4>4, MessageByte
          <5> QED BY <5>1, <5>2, <5>3 DEF p
        <4>5. CASE i - 1 = curlen
          <5>1. PaddedByte(fed, p) = Pad.one
            BY <1>3, <4>2, <4>5, BitByte
          <5>2. w[i - 1] = Pad.one
            BY <2>1, <2>2, <4>2, <4>5
          <5> QED BY <5>1, <5>2 DEF p
        <4>6. CASE i - 1 > curlen /\ i - 1 # 127
          <5>1. PaddedByte(fed, p) = Pad.zero
            BY <1>3, <2>3, <4>1, <4>2, <4>6, ZeroByte
          <5>2. w[i - 1] = Pad.zero
            BY <2>1, <2>2, <4>2, <4>6
          <5> QED BY <5>1, <5>2 DEF p
        <4>7. CASE i - 1 > curlen /\ i - 1 = 127
          <5>1. PaddedByte(fed, p) = LengthBytes(8 * fed)
            BY <1>3, <2>3, <4>1, <4>2, <4>7, LengthByte
          <5> QED BY <1>5, <2>2, <4>7, <5>1 DEF p
        <4> QED BY <4>3, <4>4, <4>5, <4>6, <4>7
      <3>2. w \in [0..127 -> Int]
        BY <2>2
      <3>3. HoldsBlock(w, fed, k)
        BY <3>1 DEF HoldsBlock
      <3> QED BY <3>2, <3>3, HandedOver, Zenon
    <2>6. /\ blocks' \in Seq(Seq(Int)) /\ Len(blocks') = k + 1 /\ blocks'[k + 1] = Buffer(w)
          /\ \A b \in 1..k : blocks'[b] = blocks[b]
      BY <1>2, <1>s, <2>4, <2>5, AppendedLast
    <2>7. ASSUME NEW b \in 1..(k + 1) PROVE blocks'[b] = PaddedBlock(fed, b)
      <3>1. b \in 1..k \/ b = k + 1
        OBVIOUS
      <3> QED BY <1>10, <2>4, <2>6, <3>1
    <2>8. blocks' = [b \in 1..BlocksOf(fed) |-> PaddedBlock(fed, b)]
      <3>1. Len(blocks') = BlocksOf(fed)
        BY <2>3, <2>6
      <3>2. \A b \in 1..BlocksOf(fed) : blocks'[b] = PaddedBlock(fed, b)
        BY <2>3, <2>7
      <3>3. blocks' = [b \in 1..Len(blocks') |-> blocks'[b]]
        BY <2>6
      <3> QED BY <3>1, <3>2, <3>3
    <2>9. Finished'
      BY <1>1, <2>8 DEF Finished, PaddedBlock
    <2>10. ShaCounts'
      BY <1>1, <1>3, <1>7, <2>2, <2>5, <2>6 DEF ShaCounts
    <2> QED BY <1>1, <2>9, <2>10 DEF ShaInv, Opened
  <1> QED BY <1>11, <1>12

LEMMA AgainKeeps == ASSUME ShaInv, InitAgain PROVE ShaInv'
  <1>1. /\ closed /\ closed' = FALSE /\ curlen' = 0 /\ bits' = 0 /\ blocks' = <<>> /\ fed' = 0
        /\ buf' = buf /\ piece' = piece
    BY DEF InitAgain
  <1>2. ShaCounts'
    <2>1. blocks' \in Seq(Seq(Int)) /\ curlen' \in 0..(Block - 1)
      BY <1>1
    <2>2. piece' = 0 /\ piece' \in Nat /\ fed' \in Nat /\ bits' \in Int
      BY <1>1 DEF ShaInv, ShaCounts
    <2>3. buf' \in [0..(Block - 1) -> Int] /\ closed' \in BOOLEAN
      BY <1>1 DEF ShaInv, ShaCounts
    <2> QED BY <2>1, <2>2, <2>3 DEF ShaCounts
  <1>3. piece' = 0 /\ Len(blocks') = 0
    BY <1>1 DEF ShaInv, ShaCounts
  <1>4. Opened'
    BY <1>1, <1>3 DEF Opened, BlocksSoFar, BufferSoFar, Taken, Block
  <1>5. Finished'
    BY <1>1 DEF Finished
  <1> QED BY <1>2, <1>4, <1>5 DEF ShaInv

LEMMA ShaSteps == ShaInv /\ [ShaNext]_shaVars => ShaInv'
  <1> SUFFICES ASSUME ShaInv, [ShaNext]_shaVars PROVE ShaInv'
    OBVIOUS
  <1>1. CASE \E n \in Pieces : Update(n)
    BY <1>1, UpdateKeeps
  <1>2. CASE UpdateDirect
    BY <1>2, DirectKeeps
  <1>3. CASE UpdateFill
    BY <1>3, FillKeeps
  <1>4. CASE Final
    BY <1>4, FinalKeeps
  <1>5. CASE InitAgain
    BY <1>5, AgainKeeps
  <1>6. CASE UNCHANGED shaVars
    <2>1. /\ buf' = buf /\ curlen' = curlen /\ bits' = bits /\ blocks' = blocks
          /\ piece' = piece /\ fed' = fed /\ closed' = closed
      BY <1>6 DEF shaVars
    <2>2. ShaCounts'
      BY <2>1 DEF ShaInv, ShaCounts
    <2>3. Opened'
      <3> SUFFICES ASSUME ~closed PROVE Opened'
        BY <2>1 DEF Opened
      <3>1. BlocksSoFar' /\ BufferSoFar' /\ Taken' = Taken
        BY <2>1 DEF ShaInv, Opened, BlocksSoFar, BufferSoFar, Taken
      <3> QED BY <2>1, <3>1 DEF ShaInv, Opened
    <2>4. Finished'
      BY <2>1 DEF ShaInv, Finished
    <2> QED BY <2>2, <2>3, <2>4 DEF ShaInv
  <1> QED BY <1>1, <1>2, <1>3, <1>4, <1>5, <1>6 DEF ShaNext

(* sha512.c:174, :218.                                                      *)
THEOREM BlocksHashed == ShaSpec => []BlocksWhole
  <1>1. ShaInv => BlocksWhole
    BY DEF ShaInv, Opened, Finished, BlocksSoFar, Taken, BlocksWhole
  <1> QED BY <1>1, ShaBegins, ShaSteps, PTL DEF ShaSpec

HIDE DEF Block

-----------------------------------------------------------------------------
(* The types of the board, the wheel, the hash and the signatures.          *)

\* The handles of the parts.
Handles ==
  {"i2c0_bus", "i2c1_bus", "io_exp", "rgb", "lcd_io", "lcd_panel", "touch", "lvgl_disp",
   "touch_indev", "i2s_tx", "i2s_rx", "play_dev", "record_dev", "knob_timer"}
PartNames ==
  {"i2c0", "expander", "power", "pa", "rgb", "display", "touch", "lvgl", "audio", "knob",
   "buttons"}
(* At most twelve calls, each with a handle or nothing to leave.            *)
FewCalls(calls) ==
  /\ Len(calls) \in 0..12
  /\ \A i \in 1..Len(calls) : calls[i].sets \in Handles \cup {"none"}

(* What a call leaves when it succeeds.                                     *)
Leaves(call) == call.sets \in Handles \cup {"none"}

(* A few calls that each leave a handle or nothing.                         *)
LEMMA OneCall == \A a : Leaves(a) => FewCalls(<<a>>)
  BY DEF FewCalls, Leaves

LEMMA TwoCalls == \A a, b : Leaves(a) /\ Leaves(b) => FewCalls(<<a, b>>)
  <1> SUFFICES ASSUME NEW a, NEW b, Leaves(a), Leaves(b) PROVE FewCalls(<<a, b>>)
    OBVIOUS
  <1> DEFINE s == <<a, b>>
  <1>1. Len(s) = 2 /\ s[1] = a /\ s[2] = b
    OBVIOUS
  <1> HIDE DEF s
  <1>2. \A i \in 1..2 : i = 1 \/ i = 2
    OBVIOUS
  <1>3. FewCalls(s)
    BY <1>1, <1>2 DEF FewCalls, Leaves
  <1> QED BY <1>3 DEF s

LEMMA ThreeCalls == \A a, b, c : Leaves(a) /\ Leaves(b) /\ Leaves(c) => FewCalls(<<a, b, c>>)
  <1> SUFFICES ASSUME NEW a, NEW b, NEW c, Leaves(a), Leaves(b), Leaves(c)
               PROVE  FewCalls(<<a, b, c>>)
    OBVIOUS
  <1> DEFINE s == <<a, b, c>>
  <1>1. Len(s) = 3 /\ s[1] = a /\ s[2] = b /\ s[3] = c
    OBVIOUS
  <1> HIDE DEF s
  <1>2. \A i \in 1..3 : i = 1 \/ i = 2 \/ i = 3
    OBVIOUS
  <1>3. FewCalls(s)
    BY <1>1, <1>2 DEF FewCalls, Leaves
  <1> QED BY <1>3 DEF s

(* What a call leaves behind is a handle or nothing.                        *)
LEMMA CallsLeave ==
  /\ \A how, pins : \A h \in Handles \cup {"none"} : Call(h, how, pins).sets \in Handles \cup {"none"}
  /\ \A h \in Handles : Try(h).sets \in Handles \cup {"none"}
  /\ \A h \in Handles \cup {"none"} : Soft(h).sets \in Handles \cup {"none"}
  /\ \A pins : PinWrite(pins).sets \in Handles \cup {"none"}
  /\ Check.sets \in Handles \cup {"none"}
  BY DEF Call, Try, Soft, Check, PinWrite

(* No function makes more than twelve calls.                                *)
LEMMA AudioShort == FewCalls(Audio)
  <1>1. Len(Audio) = 12
    BY DEF Audio
  <1>2. /\ Audio[1] = Try("i2s_tx") /\ Audio[2] = Check /\ Audio[3] = Check
        /\ Audio[4] = Check /\ Audio[5] = Check /\ Audio[6] = Check
        /\ Audio[7] = Check /\ Audio[8] = Check /\ Audio[9] = Try("play_dev")
        /\ Audio[10] = Soft("none") /\ Audio[11] = Soft("none")
        /\ Audio[12] = Call("record_dev", "goes on", "none")
    BY DEF Audio
  <1>3. \A i \in 1..12 : \/ i = 1 \/ i = 2 \/ i = 3 \/ i = 4 \/ i = 5 \/ i = 6
                         \/ i = 7 \/ i = 8 \/ i = 9 \/ i = 10 \/ i = 11 \/ i = 12
    OBVIOUS
  <1>4. {"i2s_tx", "play_dev", "record_dev"} \subseteq Handles
    BY DEF Handles
  <1>5. /\ Try("i2s_tx").sets \in Handles \cup {"none"}
        /\ Try("play_dev").sets \in Handles \cup {"none"}
        /\ Check.sets \in Handles \cup {"none"} /\ Soft("none").sets \in Handles \cup {"none"}
        /\ Call("record_dev", "goes on", "none").sets \in Handles \cup {"none"}
    BY <1>4, CallsLeave
  <1>6. \A i \in 1..12 : Audio[i].sets \in Handles \cup {"none"}
    BY <1>2, <1>3, <1>5
  <1> QED BY <1>1, <1>6 DEF FewCalls

LEMMA CallsShort ==
  ASSUME NEW name \in PartNames
  PROVE  FewCalls(CallsOf(name))
  <1>0. /\ Leaves(Try("io_exp")) /\ Leaves(Call("none", "goes on", "none"))
        /\ \A w : Leaves(PinWrite(w))
    BY CallsLeave DEF Handles, Leaves
  <1>2. FewCalls(Expander)
    <2>1. FewCalls(<<Try("io_exp"), PinWrite("inputs"), PinWrite("outputs")>>)
      BY <1>0, ThreeCalls, Zenon
    <2>2. FewCalls(<<Try("io_exp")>>)
      BY <1>0, OneCall, Zenon
    <2> QED BY <2>1, <2>2, Zenon DEF Expander
  <1>p. FewCalls(Power) /\ FewCalls(Amplifier)
    BY <1>0, OneCall, TwoCalls, Zenon DEF Power, Amplifier
  <1> USE DEF FewCalls, Call, Try, Check, Soft, PinWrite, Handles
  <1>1. FewCalls(I2c0) /\ FewCalls(Knob) /\ FewCalls(<<>>)
    BY DEF I2c0, Knob
  <1>3. FewCalls(Rgb) /\ FewCalls(UserButtons)
    BY DEF Rgb, RgbStick, UserButtons
  <1>4. FewCalls(DisplayWatcher)
    BY DEF DisplayWatcher
  <1>5. FewCalls(DisplayBox3) /\ FewCalls(DisplayStick)
    BY DEF DisplayBox3, DisplayStick
  <1>6. FewCalls(TouchWatcher) /\ FewCalls(TouchBox3)
    BY DEF TouchWatcher, TouchBox3
  <1>7. FewCalls(LvglStick) /\ FewCalls(Lvgl)
    BY DEF LvglStick, Lvgl
  <1>8. FewCalls(AudioStick)
    BY DEF AudioStick
  <1>9. FewCalls(Audio)
    BY AudioShort
  <1> HIDE DEF FewCalls, Call, Try, Check, Soft, PinWrite, Handles
  <1>10. CASE name \in {"i2c0", "expander", "power", "pa"}
    BY <1>1, <1>2, <1>p, <1>10 DEF CallsOf
  <1>11. CASE name \in {"rgb", "display", "buttons"}
    BY <1>3, <1>4, <1>5, <1>11 DEF CallsOf
  <1>12. CASE name \in {"touch", "lvgl", "audio", "knob"}
    BY <1>1, <1>6, <1>7, <1>8, <1>9, <1>12 DEF CallsOf
  <1> QED BY <1>10, <1>11, <1>12 DEF PartNames

(* No board has more than nine parts.                                       *)
LEMMA PartsFew ==
  ASSUME board \in Boards
  PROVE  Len(Parts) \in 0..9 /\ \A k \in 1..Len(Parts) : Parts[k] \in PartNames
  <1> USE DEF Parts, BootOrder, PartNames
  <1>1. CASE board = "watcher"
    <2>1. Parts = <<"i2c0", "expander", "power", "rgb", "display", "touch", "lvgl", "audio", "knob">>
      BY <1>1
    <2>2. \A k \in 1..9 : k = 1 \/ k = 2 \/ k = 3 \/ k = 4 \/ k = 5 \/ k = 6 \/ k = 7 \/ k = 8 \/ k = 9
      OBVIOUS
    <2> HIDE DEF Parts
    <2> QED BY <2>1, <2>2
  <1>2. CASE board = "waveshare"
    <2>1. Parts = <<"i2c0", "expander", "pa", "rgb", "audio", "buttons">>
      BY <1>2
    <2>2. \A k \in 1..6 : k = 1 \/ k = 2 \/ k = 3 \/ k = 4 \/ k = 5 \/ k = 6
      OBVIOUS
    <2> HIDE DEF Parts
    <2> QED BY <2>1, <2>2
  <1>3. CASE board = "box3"
    <2>1. Parts = <<"i2c0", "pa", "rgb", "display", "touch", "lvgl", "audio", "buttons">>
      BY <1>3
    <2>2. \A k \in 1..8 : k = 1 \/ k = 2 \/ k = 3 \/ k = 4 \/ k = 5 \/ k = 6 \/ k = 7 \/ k = 8
      OBVIOUS
    <2> HIDE DEF Parts
    <2> QED BY <2>1, <2>2
  <1>4. CASE board = "m5stick"
    <2>1. Parts = <<"i2c0", "rgb", "display", "lvgl", "audio", "buttons">>
      BY <1>4
    <2>2. \A k \in 1..6 : k = 1 \/ k = 2 \/ k = 3 \/ k = 4 \/ k = 5 \/ k = 6
      OBVIOUS
    <2> HIDE DEF Parts
    <2> QED BY <2>1, <2>2
  <1> QED BY <1>1, <1>2, <1>3, <1>4, BoardsAssumption

LEMMA BoardTypesStep == BoardTypeOK /\ [BoardNext]_boardVars => BoardTypeOK'
  <1> SUFFICES ASSUME BoardTypeOK, [BoardNext]_boardVars PROVE BoardTypeOK'
    OBVIOUS
  <1>0. /\ board \in Boards /\ stage \in Stages /\ part \in 1..10 /\ op \in 1..13
        /\ handles \subseteq Handles
        /\ outputs \subseteq Outputs \cup Inputs /\ high \subseteq Outputs \cup Inputs
        /\ highIn \subseteq Inputs /\ latched \subseteq Inputs /\ missed \in BOOLEAN
        /\ boardFaults \in 0..MaxBoardFaults /\ changes \in 0..MaxChanges /\ naps \in 0..MaxNaps
    BY DEF BoardTypeOK, Handles
  <1>n. /\ part \in 1..10 /\ op \in 1..13 /\ boardFaults \in 0..MaxBoardFaults
        /\ changes \in 0..MaxChanges /\ naps \in 0..MaxNaps
    BY <1>0
  <1> DEFINE Typed == /\ board \in Boards /\ stage \in Stages /\ part \in 1..10 /\ op \in 1..13
                      /\ handles \subseteq Handles
                      /\ outputs \subseteq Outputs \cup Inputs
                      /\ high \subseteq Outputs \cup Inputs
                      /\ highIn \subseteq Inputs /\ latched \subseteq Inputs /\ missed \in BOOLEAN
                      /\ boardFaults \in 0..MaxBoardFaults /\ changes \in 0..MaxChanges
                      /\ naps \in 0..MaxNaps
  <1>1. SUFFICES Typed'
    BY DEF BoardTypeOK, Handles
  <1>2. Rails \subseteq Outputs /\ "system" \in Outputs
    BY DEF Outputs
  <1>b. MaxBoardFaults \in Nat /\ MaxChanges \in Nat /\ MaxNaps \in Nat
    BY NapsAssumption
  <1>3. CASE CallSucceeds
    <2>1. FewCalls(PartCalls)
      <3>1. part \in 1..Len(Parts)
        BY <1>0, <1>3, PartsFew DEF CallSucceeds, Booting
      <3> QED BY <1>0, <3>1, PartsFew, CallsShort, Zenon DEF PartCalls
    <2> DEFINE call == PartCalls[op]
    <2>2. /\ op <= Len(PartCalls) /\ op' = op + 1
          /\ handles' = (handles \cup {call.sets}) \ {"none"} /\ PinsAfter(call.pins)
          /\ UNCHANGED <<board, stage, part, highIn, latched, missed, boardFaults, changes, naps>>
      BY <1>3 DEF CallSucceeds
    <2>3. call.sets \in Handles \cup {"none"} /\ op' \in 1..13
      <3>n. PICK n \in 0..12 : n = Len(PartCalls)
        BY <2>1 DEF FewCalls
      <3>1. op \in 1..n
        BY <1>n, <2>2, <3>n
      <3>2. call.sets \in Handles \cup {"none"}
        BY <2>1, <3>n, <3>1, Zenon DEF FewCalls
      <3>3. op' = op + 1
        BY <2>2
      <3>4. op' \in 1..13
        BY <3>1, <3>3
      <3> QED BY <3>2, <3>4
    <2> HIDE DEF call
    <2>4. /\ outputs' \subseteq Outputs \cup Inputs /\ high' \subseteq Outputs \cup Inputs
      BY <1>0, <1>2, <2>2 DEF PinsAfter
    <2>5. handles' \subseteq Handles
      BY <1>0, <2>2, <2>3
    <2> QED BY <1>0, <2>2, <2>3, <2>4, <2>5
  <1>4. CASE CallFails
    <2>1. Len(PartCalls) \in 0..12 /\ part \in 1..9
      <3>n. PICK n \in 0..9 : n = Len(Parts)
        BY <1>0, PartsFew, Zenon
      <3>1. part <= n
        BY <1>4, <3>n DEF CallFails, Booting
      <3>2. part \in 1..n /\ part \in 1..9
        BY <1>n, <3>1
      <3> QED BY <1>0, <3>n, <3>2, PartsFew, CallsShort, Zenon DEF PartCalls, FewCalls
    <2>2. /\ op <= Len(PartCalls) /\ boardFaults < MaxBoardFaults /\ boardFaults' = boardFaults + 1
          /\ (op' = op + 1 /\ part' = part) \/ (op' = 1 /\ part' = part + 1)
          /\ stage' \in {"failed", "boot"} /\ missed' \in BOOLEAN
          /\ UNCHANGED <<board, handles, outputs, high, highIn, latched, changes, naps>>
      BY <1>4 DEF CallFails
    <2>3. op' \in 1..13 /\ part' \in 1..10
      <3>n. PICK n \in 0..12 : n = Len(PartCalls)
        BY <2>1
      <3>1. op <= n /\ ((op' = op + 1 /\ part' = part) \/ (op' = 1 /\ part' = part + 1))
        BY <2>2, <3>n
      <3>2. op' = op + 1 \/ op' = 1
        BY <3>1
      <3>3. op' \in 1..13
        BY <1>n, <3>1, <3>2
      <3>4. part' = part \/ part' = part + 1
        BY <3>1
      <3>5. part' \in 1..10
        BY <2>1, <3>4
      <3> QED BY <3>3, <3>5
    <2>4. boardFaults' \in 0..MaxBoardFaults
      <3>1. boardFaults < MaxBoardFaults /\ boardFaults' = boardFaults + 1
        BY <2>2
      <3> QED BY <1>n, <1>b, <3>1
    <2>5. stage' \in Stages
      BY <2>2 DEF Stages
    <2> QED BY <1>0, <2>2, <2>3, <2>4, <2>5
  <1>5. CASE PartDone
    <2>1. part \in 1..9
      <3>n. PICK n \in 0..9 : n = Len(Parts)
        BY <1>0, PartsFew, Zenon
      <3>1. part <= n
        BY <1>5, <3>n DEF PartDone, Booting
      <3> QED BY <1>n, <3>1
    <2> QED BY <1>0, <1>5, <2>1 DEF PartDone, expanderVars
  <1>6. CASE BootDone
    BY <1>0, <1>6 DEF BootDone, expanderVars, Stages
  <1>7. CASE Restart \/ Wake
    <2>1. Reset /\ UNCHANGED <<board, expanderVars, boardFaults, changes, naps>>
      BY <1>7 DEF Restart, Wake
    <2> QED BY <1>0, <2>1 DEF Reset, expanderVars, Stages
  <1>8. CASE PrepareBegin
    BY <1>0, <1>b, <1>8 DEF PrepareBegin, SleepUnchanged, Stages
  <1>9. CASE WaitRelease
    BY <1>0, <1>9 DEF WaitRelease, SleepUnchanged, Stages
  <1>10. CASE CutRails
    BY <1>0, <1>10 DEF CutRails, SleepUnchanged, Stages
  <1>11. CASE RedirectInputs
    BY <1>0, <1>11 DEF RedirectInputs, SleepUnchanged, Stages, NonWake
  <1>12. CASE ClearLatch
    BY <1>0, <1>12 DEF ClearLatch, SleepUnchanged, Stages
  <1>13. CASE RaiseInt
    <2>1. (latched' = highIn /\ UNCHANGED stage) \/ (stage' = "asleep" /\ UNCHANGED latched)
      BY <1>13 DEF RaiseInt
    <2> QED BY <1>0, <1>13, <2>1 DEF RaiseInt, SleepUnchanged, Stages
  <1>14. CASE \E p \in Inputs : InputChanges(p)
    <2>1. PICK p \in Inputs : InputChanges(p)
      BY <1>14
    <2>2. highIn' \subseteq Inputs
      BY <1>0, <2>1 DEF InputChanges
    <2>3. changes' \in 0..MaxChanges
      BY <1>0, <1>b, <2>1 DEF InputChanges
    <2> QED BY <1>0, <2>1, <2>2, <2>3 DEF InputChanges
  <1>15. CASE UNCHANGED boardVars
    BY <1>0, <1>15 DEF boardVars, expanderVars
  <1> QED BY <1>3, <1>4, <1>5, <1>6, <1>7, <1>8, <1>9, <1>10, <1>11, <1>12, <1>13, <1>14, <1>15
             DEF BoardNext

(* The calls and the pins of every board, whatever fails, have their types. *)
LEMMA BoardTyped == BoardSpec => []BoardTypeOK
  <1>1. BoardInit => BoardTypeOK
    <2> SUFFICES ASSUME BoardInit PROVE BoardTypeOK
      OBVIOUS
    <2>1. boardFaults \in 0..MaxBoardFaults /\ changes \in 0..MaxChanges /\ naps \in 0..MaxNaps
      BY NapsAssumption DEF BoardInit
    <2>2. stage \in Stages /\ missed \in BOOLEAN
      BY DEF BoardInit, Stages
    <2>3. part \in 1..10 /\ op \in 1..13
      BY DEF BoardInit
    <2> QED BY <2>1, <2>2, <2>3 DEF BoardInit, BoardTypeOK
  <1> QED BY <1>1, BoardTypesStep, PTL DEF BoardSpec

(* The counters of the hash stay within the longest message.                *)
ShaBounds == bits \in Nat /\ piece \in 0..MaxMessage /\ fed \in 0..MaxMessage

(* A wheel that is polled so often has not turned further.                  *)
WheelTurned ==
  /\ ticks \in 0..MaxTicks /\ skipped \in BOOLEAN /\ collided \in BOOLEAN
  /\ shaft >= -(MaxSteps * ticks) /\ shaft <= MaxSteps * ticks
  /\ ticking \in [on : BOOLEAN, loaded : Int, add : {-1, 0, 1}]
  /\ taking \in [on : BOOLEAN, read : Int]

LEMMA WheelTurnsOn == WheelInv /\ WheelTurned /\ [EncoderNext]_encoderVars => WheelTurned'
  <1> SUFFICES ASSUME WheelInv, WheelTurned, [EncoderNext]_encoderVars PROVE WheelTurned'
    OBVIOUS
  <1>0. MaxSteps \in Nat /\ MaxTicks \in Nat /\ ticks \in 0..MaxTicks /\ shaft \in Int
    BY EncoderAssumption DEF WheelTurned, WheelInv
  <1>1. ASSUME NEW turned \in -MaxSteps..MaxSteps, TickLoads(turned)
        PROVE  WheelTurned'
    <2>1. shaft' = shaft + turned /\ ticks' = ticks + 1 /\ ticks < MaxTicks
      BY <1>1 DEF TickLoads
    <2>2. shaft >= -(MaxSteps * ticks) /\ shaft <= MaxSteps * ticks
      BY DEF WheelTurned
    <2>3. MaxSteps * (ticks + 1) = MaxSteps * ticks + MaxSteps /\ MaxSteps * ticks \in Int
      BY <1>0
    <2>4. shaft' >= -(MaxSteps * ticks') /\ shaft' <= MaxSteps * ticks'
      BY <1>0, <2>1, <2>2, <2>3
    <2>5. ticks' \in 0..MaxTicks
      BY <1>0, <2>1
    <2>6. PICK a : ticking' = [on |-> TRUE, loaded |-> knobDelta, add |-> a]
      BY <1>1 DEF TickLoads
    <2>b. a \in {-1, 0, 1}
      <3>1. ticking'.add \in {-1, 0, 1}
        BY <1>1, WheelNext DEF EncoderNext, WheelInv
      <3> QED BY <2>6, <3>1
    <2>7. taking' = taking /\ knobDelta \in Int
      BY <1>1 DEF TickLoads, WheelInv
    <2>8. skipped' \in BOOLEAN /\ collided' \in BOOLEAN
      BY <1>1 DEF TickLoads
    <2>9. ticking' \in [on : BOOLEAN, loaded : Int, add : {-1, 0, 1}]
      BY <2>6, <2>b, <2>7
    <2>10. taking' \in [on : BOOLEAN, read : Int]
      BY <2>7 DEF WheelTurned
    <2> QED BY <2>4, <2>5, <2>8, <2>9, <2>10, Zenon DEF WheelTurned
  <1>2. CASE TickStores
    BY <1>2 DEF TickStores, NotTicking, WheelTurned
  <1>3. CASE TakeReads
    <2>1. knobDelta \in Int
      BY DEF WheelInv
    <2>2. collided' \in BOOLEAN
      BY <1>3 DEF TakeReads
    <2> QED BY <1>3, <2>1, <2>2 DEF TakeReads, WheelTurned
  <1>4. CASE TakeClears
    BY <1>4 DEF TakeClears, NotTaking, WheelTurned
  <1>5. CASE UNCHANGED encoderVars
    BY <1>5 DEF encoderVars, WheelTurned
  <1> QED BY <1>1, <1>2, <1>3, <1>4, <1>5 DEF EncoderNext

(* Counters, pins and the two sides' halves of their work have their types. *)
LEMMA EncoderTyped == EncoderSpec => []EncoderTypeOK
  <1>1. EncoderInit => WheelTurned
    <2> SUFFICES ASSUME EncoderInit PROVE WheelTurned
      OBVIOUS
    <2>1. MaxSteps * ticks = 0 /\ ticks \in 0..MaxTicks /\ shaft = 0
      BY EncoderAssumption DEF EncoderInit
    <2>2. /\ ticking \in [on : BOOLEAN, loaded : Int, add : {-1, 0, 1}]
          /\ taking \in [on : BOOLEAN, read : Int]
      BY DEF EncoderInit, NotTicking, NotTaking
    <2>3. shaft >= -(MaxSteps * ticks) /\ shaft <= MaxSteps * ticks
      BY <2>1
    <2>4. skipped \in BOOLEAN /\ collided \in BOOLEAN
      BY DEF EncoderInit
    <2> QED BY <2>1, <2>2, <2>3, <2>4, Zenon DEF WheelTurned
  <1>2. WheelInv /\ WheelTurned => EncoderTypeOK
    <2> SUFFICES ASSUME WheelInv, WheelTurned PROVE EncoderTypeOK
      OBVIOUS
    <2>1. knobPrev \in 0..3
      BY PinsOfQuarter DEF WheelInv, PinsAt
    <2>2. shaft \in (-MaxSteps * MaxTicks)..(MaxSteps * MaxTicks)
      <3>1. /\ MaxSteps \in Nat /\ MaxTicks \in Nat /\ ticks \in 0..MaxTicks /\ shaft \in Int
            /\ shaft >= -(MaxSteps * ticks) /\ shaft <= MaxSteps * ticks
        BY EncoderAssumption DEF WheelTurned, WheelInv
      <3>2. \A a, b, c \in Nat : b <= c => a * b <= a * c
        OBVIOUS
      <3>3. MaxSteps * ticks <= MaxSteps * MaxTicks
        BY <3>1, <3>2
      <3>4. (-MaxSteps) * MaxTicks = -(MaxSteps * MaxTicks)
        BY <3>1
      <3>5. MaxSteps * ticks \in Int /\ MaxSteps * MaxTicks \in Int
        BY <3>1
      <3> QED BY <3>1, <3>3, <3>4, <3>5
    <2> QED BY <2>1, <2>2 DEF EncoderTypeOK, WheelInv, WheelTurned
  <1> QED BY <1>1, <1>2, WheelInit, WheelNext, WheelTurnsOn, PTL DEF EncoderSpec

(* No more bytes are fed than the longest message has.                      *)
LEMMA ShaBoundsStep == ShaInv /\ ShaBounds /\ [ShaNext]_shaVars => ShaBounds'
  <1> SUFFICES ASSUME ShaInv, ShaBounds, [ShaNext]_shaVars PROVE ShaBounds'
    OBVIOUS
  <1> USE DEF Block
  <1>0. /\ bits \in Nat /\ piece \in 0..MaxMessage /\ fed \in 0..MaxMessage /\ MaxMessage \in Nat
        /\ curlen \in 0..127
    BY ShaAssumption DEF ShaBounds, ShaInv, ShaCounts
  <1>1. CASE \E n \in Pieces : Update(n)
    <2>1. PICK n \in Nat : Update(n)
      BY <1>1, ShaAssumption
    <2>2. fed + n <= MaxMessage /\ piece' = n /\ fed' = fed + n /\ bits' = bits
      BY <2>1 DEF Update
    <2> QED BY <1>0, <2>2 DEF ShaBounds
  <1>2. CASE UpdateDirect
    <2>1. piece >= 128 /\ piece' = piece - 128 /\ bits' = bits + 1024 /\ fed' = fed
      BY <1>2 DEF UpdateDirect
    <2> QED BY <1>0, <2>1 DEF ShaBounds
  <1>3. CASE UpdateFill
    <2> DEFINE n == IF piece < Block - curlen THEN piece ELSE Block - curlen
    <2>1. piece' = piece - n /\ fed' = fed /\ (bits' = bits \/ bits' = bits + 1024)
      BY <1>3 DEF UpdateFill
    <2>2. n \in Nat /\ n <= piece
      BY <1>0
    <2> HIDE DEF n
    <2>3. bits' \in Nat
      BY <1>0, <2>1
    <2>4. piece' \in 0..MaxMessage
      BY <1>0, <2>1, <2>2
    <2> QED BY <1>0, <2>1, <2>3, <2>4 DEF ShaBounds
  <1>4. CASE Final
    <2>1. bits' = bits + curlen * 8 /\ piece' = piece /\ fed' = fed
      BY <1>4 DEF Final
    <2> QED BY <1>0, <2>1 DEF ShaBounds
  <1>5. CASE InitAgain
    BY <1>0, <1>5 DEF InitAgain, ShaBounds
  <1>6. CASE UNCHANGED shaVars
    BY <1>0, <1>6 DEF shaVars, ShaBounds
  <1> QED BY <1>1, <1>2, <1>3, <1>4, <1>5, <1>6 DEF ShaNext

LEMMA ShaTyped == ShaSpec => []ShaTypeOK
  <1>1. ShaInit => ShaBounds
    BY ShaAssumption DEF ShaInit, ShaBounds
  <1>2. ShaInv /\ ShaBounds => ShaTypeOK
    BY DEF ShaInv, ShaCounts, ShaBounds, ShaTypeOK, Block
  <1> QED BY <1>1, <1>2, ShaBegins, ShaSteps, ShaBoundsStep, PTL DEF ShaSpec

(* Points and scalars stay below the group's order.                         *)
LEMMA SigningTypesStep ==
  SigningInv /\ SigningTypeOK /\ [SigningNext]_signVars => SigningTypeOK'
  <1> SUFFICES ASSUME SigningInv, SigningTypeOK, [SigningNext]_signVars PROVE SigningTypeOK'
    OBVIOUS
  <1>0. /\ L \in Nat \ {0, 1} /\ MaxOps \in Nat /\ AddedScalars \subseteq Nat /\ scalar \in Nat
        /\ prefix \in Seq(Nat) /\ public \in 0..(L - 1) /\ apart \in 0..(L - 1)
        /\ ops \in 0..MaxOps
    BY SigningAssumption DEF SigningTypeOK
  <1>m. \A n \in Nat : n % L \in 0..(L - 1)
    BY <1>0
  <1>1. ASSUME NEW message \in Messages, Sign(message)
        PROVE  SigningTypeOK'
    <2>1. PICK r \in 0..(L - 1), hram \in 0..(L - 1) :
            LET nonce == <<"prefix", prefix, message>>
                R == ScalarMultBase(r)
                challenge == <<"hram", <<R, public>>, message>>
                wanted == Remember(nonce, r, hash)
            IN  /\ hash' = Remember(challenge, hram, wanted)
                /\ signature' = [R |-> R, S |-> ScMuladd(hram, scalar, r), message |-> message,
                                 key |-> public]
      BY <1>1 DEF Sign
    <2> DEFINE nonce == <<"prefix", prefix, message>>
               challenge == <<"hram", <<ScalarMultBase(r), public>>, message>>
               wanted == Remember(nonce, r, hash)
    <2>2. hash' = Remember(challenge, hram, wanted)
      BY <2>1
    <2>3. \A x \in DOMAIN hash : hash[x] \in 0..(L - 1)
      BY DEF SigningTypeOK
    <2> HIDE DEF nonce, challenge
    <2>4. \A x \in DOMAIN wanted : wanted[x] \in 0..(L - 1)
      BY <2>3 DEF Remember
    <2> HIDE DEF wanted
    <2>5. \A x \in DOMAIN hash' : hash'[x] \in 0..(L - 1)
      BY <2>2, <2>4 DEF Remember
    <2>6. ScalarMultBase(r) \in 0..(L - 1) /\ ScMuladd(hram, scalar, r) \in 0..(L - 1)
      <3>1. r \in Nat /\ hram \in Nat
        BY <1>0
      <3>2. hram * scalar + r \in Nat
        BY <1>0, <3>1
      <3> QED BY <1>m, <3>1, <3>2 DEF ScalarMultBase, ScMuladd
    <2>7. signature' \in [R : 0..(L - 1), S : 0..(L - 1), message : Messages, key : 0..(L - 1)]
      BY <1>0, <2>1, <2>6
    <2>8. ops' \in 0..MaxOps
      <3>1. ops < MaxOps /\ ops' = ops + 1
        BY <1>1 DEF Sign
      <3> QED BY <1>0, <3>1
    <2>9. UNCHANGED <<scalar, prefix, public, apart>>
      BY <1>1 DEF Sign
    <2> QED BY <1>0, <2>5, <2>7, <2>8, <2>9 DEF SigningTypeOK
  <1>2. ASSUME NEW n \in AddedScalars, AddScalar(n)
        PROVE  SigningTypeOK'
    <2>1. /\ ops < MaxOps /\ ops' = ops + 1 /\ scalar' = ScMuladd(1, n, scalar)
          /\ prefix' = Append(prefix, n) /\ public' = ScalarMultBase(scalar')
          /\ apart' = (ScalarMultBase(n) + apart) % L /\ UNCHANGED <<signature, hash>>
      BY <1>2 DEF AddScalar
    <2>2. n \in Nat
      BY <1>0
    <2>3. 1 * n + scalar \in Nat
      BY <1>0, <2>2
    <2>4. scalar' \in Nat
      <3>1. scalar' \in 0..(L - 1)
        BY <1>m, <2>1, <2>3 DEF ScMuladd
      <3> QED BY <1>0, <3>1
    <2>5. public' \in 0..(L - 1)
      BY <1>m, <2>1, <2>4 DEF ScalarMultBase
    <2>6. apart' \in 0..(L - 1)
      <3>1. ScalarMultBase(n) \in 0..(L - 1)
        BY <1>m, <2>2 DEF ScalarMultBase
      <3>2. ScalarMultBase(n) + apart \in Nat
        BY <1>0, <3>1
      <3> QED BY <1>m, <2>1, <3>2
    <2>7. ops' \in 0..MaxOps
      BY <1>0, <2>1
    <2>8. prefix' \in Seq(Nat)
      BY <1>0, <2>1, <2>2
    <2> QED BY <2>1, <2>4, <2>5, <2>6, <2>7, <2>8 DEF SigningTypeOK
  <1>3. CASE UNCHANGED signVars
    BY <1>3 DEF signVars, SigningTypeOK
  <1> QED BY <1>1, <1>2, <1>3 DEF SigningNext

LEMMA SigningTyped == SigningSpec => []SigningTypeOK
  <1>1. SigningInit => SigningTypeOK
    <2> SUFFICES ASSUME SigningInit PROVE SigningTypeOK
      OBVIOUS
    <2>0. L \in Nat \ {0, 1} /\ MaxOps \in Nat
      BY SigningAssumption
    <2>1. /\ prefix = <<>> /\ public = ScalarMultBase(scalar) /\ apart = public
          /\ signature = None /\ hash = <<>> /\ ops = 0 /\ scalar \in Nat
      BY DEF SigningInit, Clamped
    <2>2. public \in 0..(L - 1)
      BY <2>0, <2>1 DEF ScalarMultBase
    <2>3. prefix \in Seq(Nat) /\ ops \in 0..MaxOps /\ \A x \in DOMAIN hash : hash[x] \in 0..(L - 1)
      BY <2>0, <2>1
    <2> QED BY <2>1, <2>2, <2>3 DEF SigningTypeOK
  <1> QED BY <1>1, SigningTypesStep, SigningBegins, SigningSteps, PTL DEF SigningSpec

(* The gestures, the speaker's stream and the LED: their invariants hold    *)
(* their types.                                                             *)
LEMMA ButtonsTyped == ButtonsSpec => []ButtonsTypeOK
  <1>1. ButtonsInv => ButtonsTypeOK
    BY DEF ButtonsInv
  <1> QED BY <1>1, ButtonsInitInv, ButtonsNextInv, PTL DEF ButtonsSpec

LEMMA DsTyped == DsSpec => []DsTypeOK
  <1>1. DsInv => DsTypeOK
    BY DEF DsInv
  <1> QED BY <1>1, DsInitInv, DsNextInv, PTL DEF DsSpec

LEMMA LightsTyped == LightsSpec => []LightsTypeOK
  <1>1. LightsInv => LightsTypeOK
    BY DEF LightsInv
  <1> QED BY <1>1, LightsStart, LightsStep, PTL DEF LightsSpec
=============================================================================
