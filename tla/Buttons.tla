------------------------------ MODULE Buttons ------------------------------
(***************************************************************************)
(* Boards without a knob: knob_task of main/app_tasks.c polls the buttons  *)
(* every 50 ms and tells short, double and long presses apart.             *)
(*                                                                         *)
(* The buttons share no state, so a behaviour follows one of them: A, B or *)
(* C of the M5Stick, the boot button or BTN1 of the audio board.  Time is  *)
(* counted in polls: "age" since the press, "gap" since the last short     *)
(* release, each up to the longest span the code compares it with.  The    *)
(* interface state a gesture meets is an input of the poll.                *)
(***************************************************************************)
EXTENDS Naturals, FiniteSets

CONSTANTS
  DoubleWindow,    \* DBLCLK_WINDOW_MS, in polls
  LongHold,        \* LONG_PRESS_MS, in polls
  MaxGestures      \* bound: presses

ASSUME ButtonsAssumption ==
  /\ DoubleWindow \in Nat \ {0} /\ LongHold \in Nat
  /\ LongHold > 1 /\ MaxGestures \in Nat

VARIABLES
  button,          \* the button followed
  held,            \* it is down
  seen,            \* what the last poll saw: was_pressed, a_was, ...
  age, gap,        \* polls since the press and since the short release
  longFired,       \* this hold has been reported
  pending,         \* a_pending_single, ...
  asked,           \* event bits set and calls made, not yet taken
  autoRead,        \* auto_read_response
  sleepsDeep,      \* deep sleep: only a reboot follows
  tally            \* history: presses and gestures

buttonVars == <<button, held, seen, age, gap, longFired, pending, asked,
                autoRead, sleepsDeep, tally>>

M5Stick == {"A", "B", "C"}
AudioBoard == {"boot", "btn1"}
Requests == {"CANCEL", "PRESSED", "DETAILS", "TASKS", "WEB", "SPEAK",
             "abort", "stop", "dismiss"}
Gestures == {"press", "click", "double", "long"}

ButtonsTypeOK ==
  /\ button \in M5Stick \cup AudioBoard
  /\ held \in BOOLEAN /\ seen \in BOOLEAN /\ longFired \in BOOLEAN
  /\ pending \in BOOLEAN /\ (pending => button \in M5Stick)
  /\ age \in 0..LongHold /\ gap \in 0..DoubleWindow
  /\ asked \subseteq Requests
  /\ autoRead \in BOOLEAN /\ sleepsDeep \in BOOLEAN
  /\ tally \in [Gestures -> 0..MaxGestures]

ButtonsInit ==
  /\ button \in M5Stick \cup AudioBoard
  /\ held = FALSE /\ seen = FALSE /\ longFired = FALSE /\ pending = FALSE
  /\ asked = {} /\ age = 0 /\ gap = 0
  /\ autoRead = FALSE /\ sleepsDeep = FALSE
  /\ tally = [g \in Gestures |-> 0]

-----------------------------------------------------------------------------
(* What a gesture asks for, given the state of the interface.              *)

Faces == {"idle", "listening", "sending", "thinking", "response", "tts"}

\* rec: g_recording; speaks: g_tts_pending.
ClickAsks(face, rec, speaks) ==
  CASE button \in {"A", "boot"} -> IF rec THEN "CANCEL" ELSE "PRESSED"
    [] button = "B" /\ face \in {"listening", "sending"} -> "CANCEL"
    [] button = "B" /\ face = "thinking" -> "abort"
    [] button = "B" /\ face = "tts" -> "stop"
    [] button = "B" /\ face = "response" -> IF speaks THEN "SPEAK" ELSE "dismiss"
    [] button = "C" -> IF face = "response" THEN "DETAILS" ELSE "TASKS"
    [] OTHER -> "WEB"

\* A double click of A flips auto_read_response instead.
DoubleAsks == CASE button = "B" -> {"DETAILS"} [] button = "C" -> {"WEB"} [] OTHER -> {}

\* A long press of A or C turns the device off instead.
LongAsks(face) ==
  CASE button = "B" -> {"TASKS"}
    [] button = "boot" /\ face = "thinking" -> {"abort"}
    [] button = "boot" /\ face = "tts" -> {"stop"}
    [] OTHER -> {}

HoldLimit == IF button = "B" THEN LongHold \div 2 ELSE LongHold

-----------------------------------------------------------------------------
(* One poll, by what the last one saw.                                     *)

UpTo(limit, n) == IF n < limit THEN n ELSE limit
Older == age' = UpTo(LongHold, age + 1)
Later == gap' = UpTo(DoubleWindow, gap + 1)
InWindow == gap + 1 < DoubleWindow
Counted(g) == tally' = [tally EXCEPT ![g] = @ + 1]

\* Down for the first time: within the window of the last release it is a
\* double click.
PollPress ==
  /\ ~sleepsDeep /\ held /\ ~seen
  /\ seen' = TRUE /\ longFired' = FALSE
  /\ age' = 0 /\ Later
  /\ IF pending /\ InWindow
     THEN /\ pending' = FALSE
          /\ asked' = asked \cup DoubleAsks
          /\ autoRead' = (autoRead # (button = "A"))
          /\ Counted("double")
     ELSE /\ asked' = IF button = "btn1" THEN asked \cup {"WEB"} ELSE asked
          /\ UNCHANGED <<pending, autoRead, tally>>
  /\ UNCHANGED <<button, held, sleepsDeep>>

\* Still down: the long press is reported once.
PollHeld(face) ==
  /\ ~sleepsDeep /\ held /\ seen /\ button # "btn1"
  /\ Older /\ Later
  /\ IF ~longFired /\ age + 1 >= HoldLimit
     THEN /\ longFired' = TRUE
          /\ asked' = asked \cup LongAsks(face)
          /\ sleepsDeep' = (button \in {"A", "C"})
          /\ Counted("long")
     ELSE UNCHANGED <<longFired, asked, sleepsDeep, tally>>
  /\ UNCHANGED <<button, held, seen, pending, autoRead>>

\* Mutant: a release is a click after a long press, too.
PollReleaseLong(rec) ==
  /\ ~sleepsDeep /\ ~held /\ seen
  /\ seen' = FALSE /\ gap' = 0
  /\ CASE button \in M5Stick ->
            pending' = TRUE /\ UNCHANGED <<asked, tally>>
       [] button = "boot" ->
            /\ asked' = asked \cup {ClickAsks("idle", rec, FALSE)}
            /\ Counted("click") /\ UNCHANGED pending
       [] button = "btn1" -> UNCHANGED <<pending, asked, tally>>
  /\ UNCHANGED <<button, held, age, longFired, autoRead, sleepsDeep>>

\* Up again after a short press: the M5Stick waits for a second one, the
\* audio board acts at once.
PollRelease(rec) ==
  /\ ~sleepsDeep /\ ~held /\ seen /\ ~longFired
  /\ seen' = FALSE /\ gap' = 0
  /\ CASE button \in M5Stick ->
            pending' = TRUE /\ UNCHANGED <<asked, tally>>
       [] button = "boot" ->
            /\ asked' = asked \cup {ClickAsks("idle", rec, FALSE)}
            /\ Counted("click") /\ UNCHANGED pending
       [] button = "btn1" -> UNCHANGED <<pending, asked, tally>>
  /\ UNCHANGED <<button, held, age, longFired, autoRead, sleepsDeep>>

\* Up, as before or after a long press: the pending single click fires when
\* its window has passed.
PollUp(face, rec, speaks) ==
  /\ ~sleepsDeep /\ ~held /\ (seen => longFired) /\ (seen \/ pending)
  /\ seen' = FALSE /\ Later
  /\ IF pending /\ ~InWindow
     THEN /\ pending' = FALSE
          /\ asked' = asked \cup {ClickAsks(face, rec, speaks)}
          /\ Counted("click")
     ELSE UNCHANGED <<pending, asked, tally>>
  /\ UNCHANGED <<button, held, age, longFired, autoRead, sleepsDeep>>

\* The user; a press or a release shorter than a poll is never seen.
PushButton ==
  /\ ~sleepsDeep /\ ~held /\ ~seen /\ tally["press"] < MaxGestures
  /\ held' = TRUE /\ Counted("press")
  /\ UNCHANGED <<button, seen, age, gap, longFired, pending, asked, autoRead,
                 sleepsDeep>>

LetGo ==
  /\ ~sleepsDeep /\ held /\ seen
  /\ held' = FALSE
  /\ UNCHANGED <<button, seen, age, gap, longFired, pending, asked, autoRead,
                 sleepsDeep, tally>>

\* The main loop takes the bits; the calls have returned.
ServeRequests ==
  /\ asked # {} /\ asked' = {}
  /\ UNCHANGED <<button, held, seen, age, gap, longFired, pending, autoRead,
                 sleepsDeep, tally>>

ButtonsNext ==
  \/ PollPress \/ PushButton \/ LetGo \/ ServeRequests
  \/ \E face \in Faces : PollHeld(face)
  \/ \E rec \in BOOLEAN : PollRelease(rec)
  \/ \E face \in Faces, rec, speaks \in BOOLEAN : PollUp(face, rec, speaks)

ButtonsSpec == ButtonsInit /\ [][ButtonsNext]_buttonVars

-----------------------------------------------------------------------------
(* Properties.                                                             *)

\* No press counts twice: whatever the timing, a button reports at most one
\* gesture for each press, and a double click needs one more press than there
\* are double clicks.
NoPhantomGesture ==
  /\ tally["click"] + tally["double"] + tally["long"] <= tally["press"]
  /\ tally["double"] > 0 => tally["press"] > tally["double"]
=============================================================================
