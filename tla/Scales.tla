------------------------------- MODULE Scales -------------------------------
(***************************************************************************)
(* The board's conversions (components/board/board.c), with C's widths and *)
(* roundings: a division of non-negative numbers truncates, a shift of a   *)
(* negative one rounds down, a byte keeps eight bits.                      *)
(***************************************************************************)
EXTENDS Integers

CONSTANTS
  Hues, Levels,    \* hsv_to_rgb's inputs: hues, and saturations and values
  Lengths,         \* lengths the touch chip announces
  MaxPoints        \* CONFIG_ESP_LCD_TOUCH_MAX_POINTS

ASSUME ScalesAssumption ==
  /\ Hues \subseteq 0..360 /\ Levels \subseteq 0..255
  /\ Lengths \subseteq Nat /\ MaxPoints \in 1..10

VARIABLE probe     \* a conversion and its inputs

scalesVars == <<probe>>

Byte(x) == x % 256
Least(a, b) == IF a < b THEN a ELSE b

-----------------------------------------------------------------------------
(* hsv_to_rgb: q uses the whole remainder, t its low byte.                 *)

Region(h) == h \div 60
Remainder(h) == (h - Region(h) * 60) * 6

HsvToRgb(h, s, v) ==
  LET rem == Remainder(h)
      p == Byte((v * (255 - s)) \div 256)
      q == Byte((v * (255 - ((s * rem) \div 256))) \div 256)
      t == Byte((v * (255 - ((s * (255 - Byte(rem))) \div 256))) \div 256)
  IN  IF s = 0 THEN <<v, v, v>>
      ELSE CASE Region(h) = 0 -> <<v, t, p>>
             [] Region(h) = 1 -> <<q, v, p>>
             [] Region(h) = 2 -> <<p, v, t>>
             [] Region(h) = 3 -> <<p, q, v>>
             [] Region(h) = 4 -> <<t, p, v>>
             [] OTHER -> <<v, p, q>>

\* The BOX-3's battery: 3000 mV is empty, 4200 mV full.
BatteryPercent(mv) ==
  CASE mv <= 3000 -> 0 [] mv >= 4200 -> 100 [] OTHER -> ((mv - 3000) * 100) \div 1200

\* board_display_set_brightness, for a timer of 10 bits.
Duty(percent) ==
  (1024 * (IF percent < 0 THEN 0 ELSE IF percent > 100 THEN 100 ELSE percent)) \div 100

\* lvgl_rounder_cb: the panel takes columns by fours.
Rounded(area) == [x1 |-> (area.x1 \div 4) * 4, x2 |-> (area.x2 \div 4) * 4 + 3]

-----------------------------------------------------------------------------
(* spd2010_read_data_impl, once the chip reports a finger: the length it   *)
(* announces, capped to the buffer, gives the number of fingers; finger i  *)
(* takes the bytes from 5 + 6i to 8 + 6i.                                  *)

BufferSize == 4 + 10 * 6
\* Mutant: the announced length is not capped.
ReadLengthUncapped(announced) == announced

ReadLength(announced) == Least(announced, BufferSize)
Fingers(length) == IF length < 4 THEN 0 ELSE Least((length - 4) \div 6, MaxPoints)
LastByteUsed(length) == 8 + (Fingers(length) - 1) * 6

\* What the status bytes make the driver do.
TouchCommands(status) ==
  CASE status.bios -> <<"clear_int", "cpu_start">>
    [] ~status.bios /\ status.cpu -> <<"point_mode", "touch_start", "clear_int">>
    [] ~status.bios /\ ~status.cpu /\ status.runs /\ status.length = 0 -> <<"clear_int">>
    [] ~status.bios /\ ~status.cpu /\ ~(status.runs /\ status.length = 0) /\ status.finger ->
         <<"read">>
    [] ~status.bios /\ ~status.cpu /\ ~(status.runs /\ status.length = 0) /\ ~status.finger
         /\ status.runs /\ status.aux -> <<"clear_int">>
    [] OTHER -> <<>>

Statuses == [bios : BOOLEAN, cpu : BOOLEAN, runs : BOOLEAN, finger : BOOLEAN, aux : BOOLEAN,
             length : Lengths]

-----------------------------------------------------------------------------
ScalesInit ==
  probe \in [what : {"hsv"}, h : Hues, s : Levels, v : Levels]
            \cup [what : {"touch"}, status : Statuses]
            \cup [what : {"area"}, x1 : 0..16, x2 : 0..16]
            \cup [what : {"battery"}, mv : Lengths]
            \cup [what : {"duty"}, percent : -1..101]

ScalesNext == UNCHANGED probe
ScalesSpec == ScalesInit /\ [][ScalesNext]_scalesVars

-----------------------------------------------------------------------------
(* Properties.                                                             *)

\* board.c:323: a channel wraps past the value only in the last third of an odd
\* region; board.c:775, :808: fingers are taken from bytes that were just read,
\* inside the buffer; board.c:586: the area only grows, to whole groups.
ConversionsInRange ==
  /\ probe.what = "hsv" /\ (\E i \in 1..3 : HsvToRgb(probe.h, probe.s, probe.v)[i] > probe.v) =>
       Region(probe.h) \in {1, 3, 5} /\ Remainder(probe.h) > 255
  /\ probe.what = "touch" /\ TouchCommands(probe.status) = <<"read">> =>
       LET length == ReadLength(probe.status.length)
       IN  Fingers(length) > 0 => LastByteUsed(length) < length /\ length <= BufferSize
  /\ probe.what = "area" =>
       LET r == Rounded(probe) IN r.x1 <= probe.x1 /\ r.x2 >= probe.x2 /\ r.x2 - probe.x2 < 4
  /\ probe.what = "battery" => BatteryPercent(probe.mv) \in 0..100
  /\ probe.what = "duty" => Duty(probe.percent) \in 0..1024
=============================================================================
