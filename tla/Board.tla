------------------------------- MODULE Board --------------------------------
(***************************************************************************)
(* The board support of the four boards (components/board/board.c): how    *)
(* board_init brings the parts up and goes on without the ones that fail,  *)
(* and how the device goes into deep sleep and comes back.                 *)
(*                                                                         *)
(* An init function is the sequence of its calls: one that is checked ends *)
(* it with an error, a soft one ends it with ESP_OK, the rest are ignored. *)
(* What it leaves behind is the set of handles that are not NULL.  Only    *)
(* the Watcher's expander keeps state over deep sleep: directions, output  *)
(* levels and the input latch behind its interrupt line.                   *)
(***************************************************************************)
EXTENDS Naturals, Sequences, FiniteSets

CONSTANTS
  Boards,          \* subset of {"watcher", "waveshare", "box3", "m5stick"}
  Inputs,          \* expander pins wired as inputs, "button" included
  MaxBoardFaults,  \* bound: calls that fail
  MaxChanges,      \* bound: changes of the input pins
  MaxNaps          \* bound: deep sleeps

ASSUME BoardsAssumption == Boards \subseteq {"watcher", "waveshare", "box3", "m5stick"}
ASSUME InputsAssumption == "button" \in Inputs
ASSUME NapsAssumption == MaxBoardFaults \in Nat /\ MaxChanges \in Nat /\ MaxNaps \in Nat

VARIABLES
  board,           \* the board the firmware was built for
  stage,           \* boot, up, failed, the steps of going to sleep, asleep
  part, op,        \* board_init: the part being initialised and its next call
  handles,         \* handles that are not NULL
  outputs, high,   \* expander: pins set as outputs, output pins set high
  highIn, latched, \* expander: input pins that are high, and were when last read
  missed,          \* history: an expander write failed since the reset
  boardFaults, changes, naps

expanderVars == <<outputs, high, highIn, latched, missed>>
boardVars == <<board, stage, part, op, handles, expanderVars, boardFaults,
               changes, naps>>

-----------------------------------------------------------------------------
(* The parts in order, and their calls.                                    *)

BootOrder ==
  [watcher   |-> <<"i2c0", "expander", "power", "rgb", "display", "touch", "lvgl",
                   "audio", "knob">>,
   waveshare |-> <<"i2c0", "expander", "pa", "rgb", "audio", "buttons">>,
   box3      |-> <<"i2c0", "pa", "rgb", "display", "touch", "lvgl", "audio", "buttons">>,
   m5stick   |-> <<"i2c0", "rgb", "display", "lvgl", "audio", "buttons">>]

Call(handle, otherwise, pins) == [sets |-> handle, fails |-> otherwise, pins |-> pins]
Try(handle) == Call(handle, "error", "none")
Check == Call("none", "error", "none")
Soft(handle) == Call(handle, "ok", "none")
PinWrite(write) == Call("none", "goes on", write)

I2c0 == <<Try("i2c0_bus")>>

\* Mutant: the inputs are not set as inputs.
ExpanderOutputs == <<Try("io_exp"), PinWrite("outputs")>>

Expander ==
  IF board = "watcher"
  THEN <<Try("io_exp"), PinWrite("inputs"), PinWrite("outputs")>>
  ELSE <<Try("io_exp")>>

Power == <<PinWrite("system on"), PinWrite("rails on")>>

Amplifier == <<Call("none", "goes on", "none")>>

RgbStick == <<Check, Try("rgb")>>

Rgb == CASE board = "box3" -> <<>>
         [] board = "m5stick" -> RgbStick
         [] OTHER -> <<Try("rgb")>>

DisplayWatcher ==
  <<Check, Check, Check, Try("lcd_io"), Try("lcd_panel"), Check, Check, Check, Check>>

DisplayBox3 ==
  <<Check, Check, Check, Try("lcd_io"), Try("lcd_panel"), Check, Check, Check>>

DisplayStick == <<Check, Try("lcd_io"), Try("lcd_panel")>>

\* The version is read twice before the Watcher gives up; the BOX-3 tries two
\* addresses, each with a fresh panel IO.
TouchWatcher == <<Try("i2c1_bus"), Check, Check, Try("touch")>>
TouchBox3 == <<Try("touch")>>

\* The M5Stick alone asks for the panel first.
LvglStick ==
  IF "lcd_panel" \in handles THEN <<Check, Try("lvgl_disp")>>
  ELSE <<Call("none", "never", "none")>>

Lvgl ==
  <<Check, Try("lvgl_disp")>>
  \o (IF "touch" \in handles THEN <<Soft("touch_indev")>> ELSE <<>>)

\* Channels (which the M5Stick makes one by one), modes and enabling; the
\* interfaces and the ES8311; the microphone, and the opening of both.
AudioStick == <<Try("i2s_rx"), Check, Check, Try("i2s_tx"), Check, Check>>

Audio ==
  <<Try("i2s_tx"), Check, Check, Check, Check, Check, Check, Check, Try("play_dev"),
    Soft("none"), Soft("none"), Call("record_dev", "goes on", "none")>>

Knob == <<Check, Try("knob_timer"), Check>>
UserButtons == IF board = "box3" THEN <<Check, Check>> ELSE <<Check>>

CallsOf(name) ==
  CASE name = "i2c0" -> I2c0
    [] name = "expander" -> Expander
    [] name = "power" -> IF "io_exp" \in handles THEN Power ELSE <<>>
    [] name = "pa" -> Amplifier
    [] name = "rgb" -> Rgb
    [] name = "display" -> CASE board = "watcher" -> DisplayWatcher
                             [] board = "box3" -> DisplayBox3
                             [] OTHER -> DisplayStick
    [] name = "touch" -> IF board = "watcher" THEN TouchWatcher ELSE TouchBox3
    [] name = "lvgl" -> IF board = "m5stick" THEN LvglStick ELSE Lvgl
    [] name = "audio" -> IF board = "m5stick" THEN AudioStick ELSE Audio
    [] name = "knob" -> Knob
    [] name = "buttons" -> UserButtons

-----------------------------------------------------------------------------
Rails == {"sdcard", "lcd", "ai", "pa", "grove", "batadc"}
Outputs == Rails \cup {"system", "batdet", "reset"}
Stages == {"boot", "up", "failed", "release", "cut", "redirect", "clear", "raise", "asleep"}

BoardTypeOK ==
  /\ board \in Boards /\ stage \in Stages
  /\ part \in 1..10 /\ op \in 1..13
  /\ handles \subseteq {"i2c0_bus", "i2c1_bus", "io_exp", "rgb", "lcd_io", "lcd_panel",
                        "touch", "lvgl_disp", "touch_indev", "i2s_tx", "i2s_rx",
                        "play_dev", "record_dev", "knob_timer"}
  /\ outputs \subseteq Outputs \cup Inputs /\ high \subseteq Outputs \cup Inputs
  /\ highIn \subseteq Inputs /\ latched \subseteq Inputs
  /\ missed \in BOOLEAN
  /\ boardFaults \in 0..MaxBoardFaults /\ changes \in 0..MaxChanges /\ naps \in 0..MaxNaps

\* Power-on: the expander's pins are inputs with their output registers high.
BoardInit ==
  /\ board \in Boards /\ stage = "boot" /\ part = 1 /\ op = 1
  /\ handles = {}
  /\ outputs = {} /\ high = Outputs \cup Inputs
  /\ highIn = Inputs /\ latched = Inputs /\ missed = FALSE
  /\ boardFaults = 0 /\ changes = 0 /\ naps = 0

-----------------------------------------------------------------------------
(* board_init.                                                             *)

Parts == BootOrder[board]
Booting == stage = "boot" /\ part <= Len(Parts)
PartCalls == CallsOf(Parts[part])

\* What an expander write does to the pins.
PinsAfter(write) ==
  /\ outputs' = CASE write = "inputs" -> outputs \ Inputs
                  [] write = "outputs" -> outputs \cup Outputs
                  [] OTHER -> outputs
  /\ high' = CASE write = "system on" -> high \cup {"system"}
               [] write = "rails on" -> high \cup Rails
               [] OTHER -> high

CallSucceeds ==
  /\ Booting /\ op <= Len(PartCalls) /\ PartCalls[op].fails # "never"
  /\ handles' = (handles \cup {PartCalls[op].sets}) \ {"none"}
  /\ PinsAfter(PartCalls[op].pins)
  /\ op' = op + 1
  /\ UNCHANGED <<board, stage, part, highIn, latched, missed, boardFaults, changes, naps>>

\* Only a missing I2C0 bus ends board_init, and not on the M5Stick.
CallFails ==
  /\ Booting /\ op <= Len(PartCalls) /\ boardFaults < MaxBoardFaults
  /\ boardFaults' = boardFaults + 1
  /\ LET how == PartCalls[op].fails
     IN  /\ IF how = "goes on" THEN op' = op + 1 /\ UNCHANGED part
                               ELSE op' = 1 /\ part' = part + 1
         /\ stage' = IF Parts[part] = "i2c0" /\ board # "m5stick" THEN "failed" ELSE "boot"
         /\ missed' = (missed \/ PartCalls[op].pins # "none")
  /\ UNCHANGED <<board, handles, outputs, high, highIn, latched, changes, naps>>

PartDone ==
  /\ Booting /\ op > Len(PartCalls)
  /\ part' = part + 1 /\ op' = 1
  /\ UNCHANGED <<board, stage, handles, expanderVars, boardFaults, changes, naps>>

BootDone ==
  /\ stage = "boot" /\ part > Len(Parts)
  /\ stage' = "up"
  /\ UNCHANGED <<board, part, op, handles, expanderVars, boardFaults, changes, naps>>

Reset == part' = 1 /\ op' = 1 /\ handles' = {} /\ stage' = "boot"

\* app_main restarts after a failed board_init.
Restart ==
  /\ stage = "failed" /\ Reset
  /\ UNCHANGED <<board, expanderVars, boardFaults, changes, naps>>

-----------------------------------------------------------------------------
(* board_prepare_deep_sleep, and waking up.                                *)

HasExpander == board = "watcher" /\ "io_exp" \in handles
Released == "button" \in highIn
NonWake == Inputs \ {"button"}
IntLow == \E p \in Inputs \ outputs : (p \in highIn) # (p \in latched)

SleepUnchanged == UNCHANGED <<board, part, op, handles, highIn, missed, boardFaults, changes>>

PrepareBegin ==
  /\ stage = "up" /\ naps < MaxNaps /\ naps' = naps + 1
  /\ stage' = "release"
  /\ SleepUnchanged /\ UNCHANGED <<outputs, high, latched>>

\* The wait for the release of the button gives up after ten seconds (five on
\* the boards without the expander; the M5Stick does not wait).
WaitRelease ==
  /\ stage = "release"
  /\ stage' = IF HasExpander THEN "cut" ELSE IF board = "watcher" THEN "raise" ELSE "asleep"
  /\ latched' = IF HasExpander THEN highIn ELSE latched
  /\ SleepUnchanged /\ UNCHANGED <<outputs, high, naps>>

CutRails ==
  /\ stage = "cut"
  /\ high' = high \ Rails /\ stage' = "redirect"
  /\ SleepUnchanged /\ UNCHANGED <<outputs, latched, naps>>

RedirectInputs ==
  /\ stage = "redirect"
  /\ outputs' = outputs \cup NonWake /\ high' = high \ NonWake
  /\ stage' = "clear"
  /\ SleepUnchanged /\ UNCHANGED <<latched, naps>>

ClearLatch ==
  /\ stage = "clear"
  /\ latched' = highIn /\ stage' = "raise"
  /\ SleepUnchanged /\ UNCHANGED <<outputs, high, naps>>

\* GPIO2 is read up to a hundred times, and the latch again each time.
RaiseInt ==
  /\ stage = "raise"
  /\ \/ IntLow /\ HasExpander /\ latched' = highIn /\ UNCHANGED stage
     \/ stage' = "asleep" /\ UNCHANGED latched
  /\ SleepUnchanged /\ UNCHANGED <<outputs, high, naps>>

Wake ==
  /\ stage = "asleep"
  /\ IF board = "watcher" THEN IntLow ELSE ~Released
  /\ Reset
  /\ UNCHANGED <<board, expanderVars, boardFaults, changes, naps>>

-----------------------------------------------------------------------------
\* The world: the button is pressed and released, cards and cables come and go,
\* and pins float once their rails are off.
InputChanges(p) ==
  /\ stage \notin {"boot", "failed"} /\ changes < MaxChanges /\ changes' = changes + 1
  /\ highIn' = (highIn \ {p}) \cup ({p} \ highIn)
  /\ UNCHANGED <<board, stage, part, op, handles, outputs, high, latched, missed,
                 boardFaults, naps>>

BoardNext ==
  \/ CallSucceeds \/ CallFails \/ PartDone \/ BootDone \/ Restart
  \/ PrepareBegin \/ WaitRelease \/ CutRails \/ RedirectInputs \/ ClearLatch \/ RaiseInt
  \/ Wake \/ (\E p \in Inputs : InputChanges(p))

BoardSpec == BoardInit /\ [][BoardNext]_boardVars

-----------------------------------------------------------------------------
(* Properties.                                                             *)

\* board.c:1667: once asleep only the button pulls the interrupt line down; and
\* board_init undoes what deep sleep did to the expander, which no reset of the
\* processor clears: every rail is on and every input an input again.
PinsFollowPower ==
  board = "watcher" /\ ~missed =>
    /\ stage = "asleep" /\ "io_exp" \in handles /\ IntLow =>
         ("button" \in highIn) # ("button" \in latched)
    /\ stage = "up" /\ "io_exp" \in handles =>
         outputs = Outputs /\ Rails \cup {"system"} \subseteq high
=============================================================================
