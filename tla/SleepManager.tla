---------------------------- MODULE SleepManager ----------------------------
(***************************************************************************)
(* Light sleep, of main/app_tasks.c: the sleep task darkens an idle        *)
(* device, and whichever task sees activity first (the main loop, the knob *)
(* task, the status task or a gateway callback) undoes it again.           *)
(*                                                                         *)
(* No lock orders the two.  s_sleeping is published BEFORE the four effects*)
(* of falling asleep are carried out, so a waker may run between any two of *)
(* them: each effect is a step here, and so is each effect of waking up.   *)
(* Time is two facts: "idle", that the last activity is older than the     *)
(* sleep timeout, and "fresh", that the last wake-up is younger than 800 ms.*)
(***************************************************************************)
EXTENDS Naturals

CONSTANTS
  Wakers,          \* tasks that call app_reset_activity_timer, "main" included
  HushInSleep,     \* wake_word_in_sleep is off: the engine pauses in sleep
  MaxPresses       \* bound: presses of the button

ASSUME WakersAssumption == "main" \in Wakers /\ "sleep" \notin Wakers
ASSUME HushAssumption == HushInSleep \in BOOLEAN /\ MaxPresses \in Nat

VARIABLES
  asleep,          \* s_sleeping
  lit,             \* the backlight and the LED are on
  drawing,         \* the LVGL timer task runs
  hushed,          \* the wake word engine is paused by sleep
  saving,          \* the radio is in WIFI_PS_MAX_MODEM
  napPc,           \* where sleep_task is
  wakePc,          \* where each task inside app_reset_activity_timer is
  idle, fresh,     \* the two facts about time
  active,          \* the interface shows an operation in progress
  pressed,         \* the button is down
  wasPressed,      \* knob_task's was_pressed
  pressBit,        \* KNOB_PRESSED_BIT
  judging,         \* the main loop has taken the bit, not yet acted on it
  fromSleep,       \* history: that press was released asleep
  presses,         \* history, bounded: presses so far
  off              \* deep sleep: only a reboot follows

screen == <<lit, drawing, hushed, saving>>
clocks == <<idle, fresh>>
knobVars == <<pressed, wasPressed, pressBit, judging, fromSleep, presses>>
sleepVars == <<asleep, screen, napPc, wakePc, clocks, active, knobVars, off>>

Sleepers == Wakers \cup {"sleep"}

SleepTypeOK ==
  /\ asleep \in BOOLEAN /\ lit \in BOOLEAN /\ drawing \in BOOLEAN
  /\ hushed \in BOOLEAN /\ saving \in BOOLEAN
  /\ napPc \in {"poll", "battery", "dim", "stop", "hush", "save", "held"}
  /\ wakePc \in [Sleepers -> {"rest", "light", "draw", "unsave", "unhush"}]
  /\ idle \in BOOLEAN /\ fresh \in BOOLEAN /\ active \in BOOLEAN
  /\ pressed \in BOOLEAN /\ wasPressed \in BOOLEAN
  /\ pressBit \in BOOLEAN /\ judging \in BOOLEAN /\ fromSleep \in BOOLEAN
  /\ presses \in 0..MaxPresses /\ off \in BOOLEAN

SleepInit ==
  /\ asleep = FALSE /\ lit = TRUE /\ drawing = TRUE
  /\ hushed = FALSE /\ saving = FALSE
  /\ napPc = "poll" /\ wakePc = [t \in Sleepers |-> "rest"]
  /\ idle = FALSE /\ fresh = FALSE /\ active = FALSE
  /\ pressed = FALSE /\ wasPressed = FALSE /\ pressBit = FALSE
  /\ judging = FALSE /\ fromSleep = FALSE /\ presses = 0 /\ off = FALSE

-----------------------------------------------------------------------------
(* app_reset_activity_timer: the timestamp, then, only when the flag is    *)
(* still set, the effects of sleep undone one after the other.             *)

AllResting == \A t \in Sleepers : wakePc[t] = "rest"

ResetActivity(t) ==
  /\ wakePc[t] = "rest"
  /\ idle' = FALSE
  /\ IF asleep
     THEN /\ asleep' = FALSE
          /\ fresh' = TRUE
          /\ wakePc' = [wakePc EXCEPT ![t] = "light"]
     ELSE UNCHANGED <<asleep, fresh, wakePc>>

Restore(t) ==
  /\ ~off
  /\ \/ /\ wakePc[t] = "light" /\ lit' = TRUE
        /\ wakePc' = [wakePc EXCEPT ![t] = "draw"]
        /\ UNCHANGED <<drawing, saving, hushed>>
     \/ /\ wakePc[t] = "draw" /\ drawing' = TRUE
        /\ wakePc' = [wakePc EXCEPT ![t] = "unsave"]
        /\ UNCHANGED <<lit, saving, hushed>>
     \/ /\ wakePc[t] = "unsave" /\ saving' = FALSE
        /\ wakePc' = [wakePc EXCEPT ![t] = "unhush"]
        /\ UNCHANGED <<lit, drawing, hushed>>
     \/ /\ wakePc[t] = "unhush"
        /\ hushed' = (hushed /\ ~HushInSleep)
        /\ wakePc' = [wakePc EXCEPT ![t] = "rest"]
        /\ UNCHANGED <<lit, drawing, saving>>
  /\ idle' = (idle /\ ~(t = "sleep" /\ wakePc[t] = "unhush"))
  /\ UNCHANGED <<asleep, napPc, fresh, active, knobVars, off>>

-----------------------------------------------------------------------------
(* sleep_task, one poll in five seconds.  The decision is made from values *)
(* read before the battery is asked over I2C.                              *)

\* recent: the gateway is CONNECTED and was active less than 30 s ago.
Poll(recent) ==
  /\ ~off /\ napPc = "poll" /\ wakePc["sleep"] = "rest"
  /\ CASE active \/ (~asleep /\ recent) ->
            idle' = FALSE /\ UNCHANGED napPc
       [] ~active /\ asleep ->
            /\ napPc' = IF pressed THEN "held" ELSE "poll"
            /\ UNCHANGED idle
       [] OTHER ->
            /\ napPc' = IF idle THEN "battery" ELSE "poll"
            /\ UNCHANGED idle
  /\ UNCHANGED <<asleep, screen, wakePc, fresh, active, knobVars, off>>

\* full: the battery is at 95 % or more, or charging.
CheckBattery(full) ==
  /\ ~off /\ napPc = "battery"
  /\ IF full
     THEN idle' = FALSE /\ napPc' = "poll" /\ UNCHANGED asleep
     ELSE asleep' = TRUE /\ napPc' = "dim" /\ UNCHANGED idle
  /\ UNCHANGED <<screen, wakePc, fresh, active, knobVars, off>>

\* Mutant: the screen is left on.
FallAsleepLit ==
  /\ ~off
  /\ \/ /\ napPc = "dim" /\ napPc' = "hush"
        /\ UNCHANGED screen
     \/ /\ napPc = "hush" /\ hushed' = (hushed \/ HushInSleep) /\ napPc' = "save"
        /\ UNCHANGED <<lit, drawing, saving>>
     \/ /\ napPc = "save" /\ saving' = TRUE /\ napPc' = "poll"
        /\ UNCHANGED <<lit, drawing, hushed>>
  /\ UNCHANGED <<asleep, wakePc, clocks, active, knobVars, off>>

FallAsleep ==
  /\ ~off
  /\ \/ /\ napPc = "dim" /\ lit' = FALSE /\ napPc' = "stop"
        /\ UNCHANGED <<drawing, hushed, saving>>
     \/ /\ napPc = "stop" /\ drawing' = FALSE /\ napPc' = "hush"
        /\ UNCHANGED <<lit, hushed, saving>>
     \/ /\ napPc = "hush" /\ hushed' = (hushed \/ HushInSleep) /\ napPc' = "save"
        /\ UNCHANGED <<lit, drawing, saving>>
     \/ /\ napPc = "save" /\ saving' = TRUE /\ napPc' = "poll"
        /\ UNCHANGED <<lit, drawing, hushed>>
  /\ UNCHANGED <<asleep, wakePc, clocks, active, knobVars, off>>

\* The poll found the button down: wait for its release, then wake inline,
\* without looking at the flag again.
WakeOnRelease ==
  /\ ~off /\ napPc = "held" /\ ~pressed
  /\ asleep' = FALSE /\ fresh' = TRUE
  /\ wakePc' = [wakePc EXCEPT !["sleep"] = "light"]
  /\ napPc' = "poll"
  /\ UNCHANGED <<screen, idle, active, knobVars, off>>

-----------------------------------------------------------------------------
(* The button: knob_task turns a release into KNOB_PRESSED_BIT, the main   *)
(* loop turns the bit into a wake-up or into a recording.                  *)

Press ==
  /\ ~off /\ ~pressed /\ ~wasPressed /\ presses < MaxPresses
  /\ pressed' = TRUE /\ presses' = presses + 1
  /\ UNCHANGED <<asleep, screen, napPc, wakePc, clocks, active, wasPressed,
                 pressBit, judging, fromSleep, off>>

Release ==
  /\ ~off /\ pressed /\ wasPressed
  /\ pressed' = FALSE
  /\ fromSleep' = (asleep \/ ((pressBit \/ judging) /\ fromSleep))
  /\ UNCHANGED <<asleep, screen, napPc, wakePc, clocks, active, wasPressed,
                 pressBit, judging, presses, off>>

SampleButton ==
  /\ ~off /\ wasPressed # pressed
  /\ wasPressed' = pressed
  /\ pressBit' = (pressBit \/ ~pressed)
  /\ UNCHANGED <<asleep, screen, napPc, wakePc, clocks, active, pressed,
                 judging, fromSleep, presses, off>>

\* Held for four seconds: the gateway and the radio go down, the screen goes
\* dark and the chip enters deep sleep, from which it reboots.
LongPress ==
  /\ ~off /\ pressed /\ wasPressed
  /\ off' = TRUE /\ lit' = FALSE
  /\ UNCHANGED <<asleep, drawing, hushed, saving, napPc, wakePc, clocks,
                 active, knobVars>>

\* The main loop takes the bit and resets the timer ...
TakePress ==
  /\ ~off /\ pressBit /\ ~judging
  /\ ResetActivity("main")
  /\ pressBit' = FALSE /\ judging' = TRUE
  /\ UNCHANGED <<screen, napPc, active, pressed, wasPressed, fromSleep,
                 presses, off>>

\* Mutant: app_just_woke() is not asked.
JudgePressStale(hides) ==
  /\ ~off /\ judging /\ wakePc["main"] = "rest"
  /\ judging' = FALSE
  /\ active' = (active \/ (~hides /\ ~asleep))
  /\ fromSleep' = (fromSleep /\ (pressBit \/ wasPressed))
  /\ UNCHANGED <<asleep, screen, napPc, wakePc, clocks, pressed, wasPressed,
                 pressBit, presses, off>>

\* ... and goes on to a recording, unless the press only hid the task list
\* (hides) or app_is_sleeping() or app_just_woke() still hold by then.
JudgePress(hides) ==
  /\ ~off /\ judging /\ wakePc["main"] = "rest"
  /\ judging' = FALSE
  /\ active' = (active \/ (~hides /\ ~asleep /\ ~fresh))
  /\ fromSleep' = (fromSleep /\ (pressBit \/ wasPressed))
  /\ UNCHANGED <<asleep, screen, napPc, wakePc, clocks, pressed, wasPressed,
                 pressBit, presses, off>>

\* Any other activity: a touch or a web toggle in the main loop, a spin of
\* the wheel, external gateway activity, a notification.
OtherActivity(t) ==
  /\ ~off
  /\ t = "main" => ~pressBit /\ ~judging
  /\ asleep \/ idle
  /\ ResetActivity(t)
  /\ UNCHANGED <<screen, napPc, active, knobVars, off>>

\* The operation that was in progress ends (an answer, a cancel, an error).
EndActivity ==
  /\ ~off /\ active
  /\ active' = FALSE
  /\ UNCHANGED <<asleep, screen, napPc, wakePc, clocks, knobVars, off>>

-----------------------------------------------------------------------------
(* Time.  A timeout is tens of seconds and a wake-up milliseconds, so the  *)
(* timeout does not expire while a task is in the middle of one; the main  *)
(* loop looks at its bits every 110 ms and sleep_task at a held button     *)
(* every 50 ms, so 800 ms do not pass before they have.                    *)

Elapse ==
  /\ ~off /\ ~idle /\ AllResting /\ napPc \in {"poll", "held"}
  /\ ~pressBit /\ ~judging /\ ~(napPc = "held" /\ ~pressed)
  /\ idle' = TRUE
  /\ UNCHANGED <<asleep, screen, napPc, wakePc, fresh, active, knobVars, off>>

Expire ==
  /\ ~off /\ fresh /\ AllResting
  /\ ~pressBit /\ ~judging /\ wasPressed = pressed /\ ~(napPc = "held" /\ ~pressed)
  /\ fresh' = FALSE
  /\ UNCHANGED <<asleep, screen, napPc, wakePc, idle, active, knobVars, off>>

SleepNext ==
  \/ \E t \in Sleepers : Restore(t)
  \/ \E recent \in BOOLEAN : Poll(recent)
  \/ \E full \in BOOLEAN : CheckBattery(full)
  \/ FallAsleep \/ WakeOnRelease
  \/ Press \/ Release \/ SampleButton \/ LongPress \/ TakePress
  \/ \E hides \in BOOLEAN : JudgePress(hides)
  \/ \E t \in Wakers : OtherActivity(t)
  \/ EndActivity \/ Elapse \/ Expire

SleepSpec == SleepInit /\ [][SleepNext]_sleepVars

-----------------------------------------------------------------------------
(* Properties.                                                             *)

NapResting == AllResting /\ napPc = "poll" /\ ~off

\* The comment at app_tasks.c:630, "Restore display and LED on wake": when no
\* task is half-way, a device that is awake is lit, draws, listens and has
\* its faster radio back.
AwakeIsWhole ==
  NapResting /\ ~asleep => lit /\ drawing /\ ~hushed /\ ~saving

\* A device left asleep really saves power: no waker that lost a race with
\* sleep_task leaves the screen, LVGL, the microphone or the radio running.
AsleepIsDark ==
  NapResting /\ asleep =>
    ~lit /\ ~drawing /\ saving /\ hushed = HushInSleep

\* docs/wheel-state-machine.md:29: a press made while the device sleeps wakes
\* it and does not start a recording, whoever wakes it first.
WakingPressOnlyWakes ==
  [][judging /\ ~judging' /\ fromSleep => active' = active]_sleepVars
=============================================================================
