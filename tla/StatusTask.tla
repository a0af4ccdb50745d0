----------------------------- MODULE StatusTask -----------------------------
(***************************************************************************)
(* status_update_task: one round each half second awake and each two       *)
(* seconds asleep: the activity light, the polling and the reconnection    *)
(* watchdog, whose count goes on when the device falls asleep or wakes.    *)
(***************************************************************************)
EXTENDS Naturals

CONSTANTS
  AwakeLimit, AsleepLimit,       \* 60 and 15 rounds in the code
  AsleepRound,                   \* how many awake rounds one asleep lasts: 4
  FastPoll, SlowPoll, SleepPoll  \* 10, 120 and 30 rounds in the code

ASSUME StatusAssumption ==
  /\ AwakeLimit \in Nat \ {0} /\ AsleepLimit \in Nat /\ AsleepLimit <= AwakeLimit
  /\ AsleepRound \in Nat /\ AsleepRound * AsleepLimit = AwakeLimit
  /\ FastPoll \in Nat /\ SlowPoll \in Nat \ {0} /\ SleepPoll \in Nat \ {0}
  /\ FastPoll <= SlowPoll

VARIABLES
  link,            \* the client's state: CONNECTED; one of the three the watchdog acts in
                   \* ("down"); or another one, as while an answer is awaited ("other")
  dozing,          \* s_sleeping
  uiIdle,          \* ui_get_state() = UI_STATE_IDLE
  busy,            \* oc_active or bg_running, as the client's info tells them
  activityLed,     \* activity_led_active
  lightShows,      \* what the LED is lit for: the interface's state or the activity
  roundAt,         \* where the round is: "look", "on", "off", "poll", "watch"
  sawBusy,         \* what the round found of busy
  reconnectTicks,  \* reconnect_ticks
  stuckFor,        \* history: time since the client is down, in awake rounds
  pollCounter, sleepCounter,
  unasked          \* history: rounds since the tasks were last asked for, while CONNECTED

statusVars == <<link, dozing, uiIdle, busy, activityLed, lightShows, roundAt, sawBusy,
                reconnectTicks, stuckFor, pollCounter, sleepCounter, unasked>>

StatusTypeOK ==
  /\ link \in {"connected", "down", "other"} /\ {dozing, uiIdle, busy, activityLed, sawBusy} \subseteq BOOLEAN
  /\ lightShows \in {"state", "activity"} /\ roundAt \in {"look", "on", "off", "poll", "watch"}
  /\ reconnectTicks \in 0..(AwakeLimit - 1) /\ stuckFor \in Nat /\ unasked \in Nat
  /\ pollCounter \in 0..(SlowPoll - 1) /\ sleepCounter \in 0..(SleepPoll - 1)

StatusInit ==
  /\ link = "down" /\ dozing = FALSE /\ uiIdle = TRUE /\ busy = FALSE
  /\ activityLed = FALSE /\ lightShows = "state" /\ roundAt = "look" /\ sawBusy = FALSE
  /\ reconnectTicks = 0 /\ stuckFor = 0 /\ pollCounter = 0 /\ sleepCounter = 0 /\ unasked = 0

Outside == <<link, uiIdle, busy>>
Counts == <<reconnectTicks, stuckFor, pollCounter, sleepCounter, unasked>>

-----------------------------------------------------------------------------
\* The other tasks and the gateway, between any two steps; a new state of the interface
\* lights the LED anew (app_set_state).
Others ==
  /\ \/ link' \in {"connected", "down", "other"} \ {link}
        /\ UNCHANGED <<dozing, uiIdle, busy, lightShows>>
     \/ dozing' = ~dozing /\ UNCHANGED <<Outside, lightShows>>
     \/ busy' = ~busy /\ UNCHANGED <<link, dozing, uiIdle, lightShows>>
     \/ uiIdle' = ~uiIdle /\ lightShows' = "state" /\ UNCHANGED <<link, dozing, busy>>
  /\ stuckFor' = (IF link' # link THEN 0 ELSE stuckFor)
  /\ unasked' = (IF link' # link \/ dozing' # dozing THEN 0 ELSE unasked)
  /\ UNCHANGED <<activityLed, roundAt, sawBusy, reconnectTicks, pollCounter, sleepCounter>>

\* The watchdog: at its limit it disconnects and connects again.
Watchdog(limit, lasts) ==
  LET ticks == IF link = "down" THEN reconnectTicks + 1 ELSE 0
      forced == ticks >= limit
  IN  /\ reconnectTicks' = IF forced THEN 0 ELSE ticks
      /\ stuckFor' = IF link # "down" \/ forced THEN 0 ELSE stuckFor + lasts

Polled(counter, threshold) == IF counter + 1 >= threshold THEN 0 ELSE counter + 1

\* Asleep: activity wakes it, the tasks are polled slowly, the watchdog runs on.
AsleepRoundStep ==
  /\ roundAt = "look" /\ dozing /\ Watchdog(AsleepLimit, AsleepRound)
  /\ IF link = "connected" THEN sleepCounter' = Polled(sleepCounter, SleepPoll) /\ dozing' \in BOOLEAN
     ELSE UNCHANGED <<sleepCounter, dozing>>
  /\ unasked' = IF link = "connected" /\ sleepCounter' # 0 /\ dozing' THEN unasked + 1 ELSE 0
  /\ UNCHANGED <<Outside, activityLed, lightShows, roundAt, sawBusy, pollCounter>>

\* Awake: what the round sees decides of the light.
AwakeLooks ==
  /\ roundAt = "look" /\ ~dozing /\ sawBusy' = busy
  /\ roundAt' = CASE link # "connected" -> "watch"
                  [] link = "connected" /\ uiIdle /\ busy /\ ~activityLed -> "on"
                  [] link = "connected" /\ ~busy /\ activityLed -> "off"
                  [] OTHER -> "poll"
  /\ UNCHANGED <<Outside, dozing, activityLed, lightShows, Counts>>
LightOn ==
  /\ roundAt = "on" /\ roundAt' = "poll" /\ lightShows' = "activity" /\ activityLed' = TRUE
  /\ UNCHANGED <<Outside, dozing, sawBusy, Counts>>
\* Mutant: the light is not given back to the interface.
LightOffKept ==
  /\ roundAt = "off" /\ roundAt' = "poll" /\ activityLed' = FALSE /\ UNCHANGED lightShows
  /\ UNCHANGED <<Outside, dozing, sawBusy, Counts>>

LightOff ==
  /\ roundAt = "off" /\ roundAt' = "poll" /\ activityLed' = FALSE
  /\ lightShows' = IF uiIdle THEN "state" ELSE lightShows
  /\ UNCHANGED <<Outside, dozing, sawBusy, Counts>>
PollTasks ==
  /\ roundAt = "poll" /\ roundAt' = "watch"
  /\ \E visible \in BOOLEAN :                              \* ui_tasks_is_visible
       pollCounter' = Polled(pollCounter, IF sawBusy \/ visible THEN FastPoll ELSE SlowPoll)
  /\ unasked' = IF pollCounter' = 0 THEN 0 ELSE unasked + 1
  /\ UNCHANGED <<Outside, dozing, activityLed, lightShows, sawBusy, reconnectTicks, stuckFor,
                 sleepCounter>>
AwakeWatches ==
  /\ roundAt = "watch" /\ roundAt' = "look" /\ Watchdog(AwakeLimit, 1)
  /\ UNCHANGED <<Outside, dozing, activityLed, lightShows, sawBusy, pollCounter, sleepCounter,
                 unasked>>

StatusNext ==
  Others \/ AsleepRoundStep \/ AwakeLooks \/ LightOn \/ LightOff \/ PollTasks \/ AwakeWatches
StatusSpec == StatusInit /\ [][StatusNext]_statusVars

-----------------------------------------------------------------------------
(* Properties.                                                             *)

\* app_tasks.c:601, :478, :551, :582: awake or asleep or changing between the two, the
\* watchdog never waits longer than its two limits together; with the interface idle the
\* activity light never outlives what the task remembers of it; and connected and left
\* alone, the tasks are polled within a slow poll's time.
StatusHolds ==
  /\ stuckFor < AwakeLimit + AsleepRound * AsleepLimit
  /\ (uiIdle /\ lightShows = "activity") => activityLed
  /\ unasked < SlowPoll + SleepPoll
=============================================================================
