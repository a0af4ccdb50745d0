------------------------------ MODULE Encoder -------------------------------
(***************************************************************************)
(* The Watcher's wheel (components/board/board.c:1269): a timer callback   *)
(* decodes both pins every 20 ms and adds to a counter, which the knob     *)
(* task reads and then clears.  Between a read and the write that follows  *)
(* it the other side may run.                                              *)
(***************************************************************************)
EXTENDS Integers

CONSTANTS
  MaxSteps,        \* quarter turns the shaft may make between two polls
  MaxTicks         \* bound: polls of the timer

ASSUME EncoderAssumption == MaxSteps \in Nat /\ MaxTicks \in Nat

VARIABLES
  shaft,           \* the position of the shaft, in quarter turns
  knobPrev,        \* s_knob_prev_state
  knobDelta,       \* s_knob_delta
  ticking,         \* the callback: the delta it loaded and what it will add
  taking,          \* board_knob_get_delta: rest or the delta it read
  counted,         \* history: the sum of all decoded steps
  delivered,       \* history: the sum of all deltas returned
  skipped,         \* history: the shaft outran a poll
  collided,        \* history: the callback ran inside get_delta or around it
  ticks

encoderVars == <<shaft, knobPrev, knobDelta, ticking, taking, counted, delivered, skipped,
                 collided, ticks>>

\* The pins, A * 2 + B, as the shaft turns clockwise.
PinsAt(position) == [q \in 0..3 |-> CASE q = 0 -> 0 [] q = 1 -> 2 [] q = 2 -> 3 [] q = 3 -> 1]
                    [position % 4]

\* Mutant: one entry of the table has the wrong sign.
LutSwapped ==
  [i \in 0..15 |-> IF i \in {2, 4, 11, 14} THEN 1 ELSE IF i \in {1, 7, 8, 13} THEN -1 ELSE 0]

\* s_knob_lut, by prev * 4 + cur.
Lut == [i \in 0..15 |-> IF i \in {2, 4, 11, 13} THEN 1 ELSE IF i \in {1, 7, 8, 14} THEN -1 ELSE 0]

NotTicking == [on |-> FALSE, loaded |-> 0, add |-> 0]
NotTaking == [on |-> FALSE, read |-> 0]
Deltas == (-4 * MaxTicks)..(4 * MaxTicks)

EncoderTypeOK ==
  /\ shaft \in (-MaxSteps * MaxTicks)..(MaxSteps * MaxTicks) /\ knobPrev \in 0..3
  /\ knobDelta \in Int /\ counted \in Int /\ delivered \in Int
  /\ ticking \in [on : BOOLEAN, loaded : Int, add : {-1, 0, 1}]
  /\ taking \in [on : BOOLEAN, read : Int]
  /\ skipped \in BOOLEAN /\ collided \in BOOLEAN /\ ticks \in 0..MaxTicks

EncoderInit ==
  /\ shaft = 0 /\ knobPrev = PinsAt(0)
  /\ knobDelta = 0 /\ ticking = NotTicking /\ taking = NotTaking
  /\ counted = 0 /\ delivered = 0 /\ skipped = FALSE /\ collided = FALSE /\ ticks = 0

-----------------------------------------------------------------------------
\* knob_timer_cb samples the pins, looks the step up and loads the counter ...
TickLoads(turned) ==
  /\ ~ticking.on /\ ticks < MaxTicks /\ ticks' = ticks + 1
  /\ shaft' = shaft + turned
  /\ LET cur == PinsAt(shaft') IN
       /\ ticking' = [on |-> TRUE, loaded |-> knobDelta, add |-> Lut[knobPrev * 4 + cur]]
       /\ counted' = counted + Lut[knobPrev * 4 + cur]
       /\ knobPrev' = cur
  /\ skipped' = (skipped \/ turned \notin {-1, 0, 1})
  /\ collided' = (collided \/ taking.on)
  /\ UNCHANGED <<knobDelta, taking, delivered>>

\* ... and stores the sum.
TickStores ==
  /\ ticking.on
  /\ knobDelta' = ticking.loaded + ticking.add /\ ticking' = NotTicking
  /\ UNCHANGED <<shaft, knobPrev, taking, counted, delivered, skipped, collided, ticks>>

TakeReads ==
  /\ ~taking.on /\ taking' = [on |-> TRUE, read |-> knobDelta]
  /\ collided' = (collided \/ ticking.on)
  /\ UNCHANGED <<shaft, knobPrev, knobDelta, ticking, counted, delivered, skipped, ticks>>

TakeClears ==
  /\ taking.on /\ knobDelta' = 0
  /\ delivered' = delivered + taking.read /\ taking' = NotTaking
  /\ UNCHANGED <<shaft, knobPrev, ticking, counted, skipped, collided, ticks>>

EncoderNext ==
  \/ \E turned \in -MaxSteps..MaxSteps : TickLoads(turned)
  \/ TickStores \/ TakeReads \/ TakeClears

EncoderSpec == EncoderInit /\ [][EncoderNext]_encoderVars

-----------------------------------------------------------------------------
(* Properties.                                                             *)

\* board.c:1280, :1326: as long as every poll sees at most one step the decoder
\* follows the shaft, and outrun it errs by whole half turns only; what it
\* counts reaches the knob task once, unless callback and task collided.
StepsArriveOnce ==
  /\ (counted - shaft) % 2 = 0 /\ (~skipped => counted = shaft)
  /\ ~collided /\ ~taking.on /\ ~ticking.on => delivered + knobDelta = counted
=============================================================================
