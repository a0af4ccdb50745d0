----------------------------- MODULE ActiveRuns -----------------------------
(***************************************************************************)
(* What the device knows of the agent runs of its gateway                  *)
(* (components/openclaw/openclaw_client.c: the active_runs slots, the      *)
(* is_active/is_external flags of s_oc.info, and the branches of           *)
(* handle_message that maintain them).                                     *)
(*                                                                         *)
(* The gateway sends the events of every run to every client.  The client  *)
(* takes an event for one of the device's own chat whenever a chat         *)
(* callback is registered, and for external activity otherwise; it does    *)
(* not compare run identities.  handle_message runs on one task, so each   *)
(* event is one action; sends and aborts by other tasks come in between.   *)
(***************************************************************************)
EXTENDS Integers, FiniteSets

CONSTANTS
  Externals,   \* runs of other clients, of hooks and of cron jobs
  CronRuns,    \* those of Externals that a cron job started
  DeviceRuns,  \* runs of this device's own chat requests
  None,
  MaxSlots,    \* OC_MAX_ACTIVE_RUNS
  MaxStarts,   \* bound: lifecycle/start events
  MayLose,     \* whether events may be lost with the connection
  MayAge,      \* whether a session may age past 30 s while its run goes on
  MayAbort     \* whether the user aborts activity

ASSUME SlotsAssumption ==
  /\ MaxSlots \in Nat \ {0} /\ MaxStarts \in Nat
  /\ CronRuns \subseteq Externals
  /\ Externals \cap DeviceRuns = {}
  /\ None \notin Externals \cup DeviceRuns
  /\ MayLose \in BOOLEAN /\ MayAge \in BOOLEAN /\ MayAbort \in BOOLEAN

Runs == Externals \cup DeviceRuns
Slots == 1..MaxSlots

VARIABLES
  slot,     \* active_runs: the run in each active slot, or None
  started,  \* started_ms of each slot, as the number of its start
  count,    \* active_runs_count
  info,     \* is_active, is_external, active_run_id and active_session_key
            \* (the run they belong to)
  cb,       \* whether a chat callback is registered
  sent,     \* gateway: the milestones of each run that were published
  clock,    \* number of starts so far
  evicted   \* history: runs that lost their slot to a newer one

clientVars == <<slot, started, count, info, cb>>
vars == <<slot, started, count, info, cb, sent, clock, evicted>>

-----------------------------------------------------------------------------
Active == {i \in Slots : slot[i] # None}
Tracked == {slot[i] : i \in Active}

(* clear_activity *)
Cleared == [active |-> FALSE, external |-> FALSE, run |-> None,
            session |-> None]

Busy(i) == [i EXCEPT !.active = TRUE, !.external = TRUE]

Init ==
  /\ slot = [i \in Slots |-> None] /\ started = [i \in Slots |-> 0]
  /\ count = 0
  /\ info = Cleared
  /\ cb = FALSE
  /\ sent = [r \in Runs |-> {}]
  /\ clock = 0 /\ evicted = {}

(* Mutant of ChosenSlot: the newest run is evicted.                         *)
ChosenNewest ==
  LET free == Slots \ Active
  IN  IF free # {} THEN CHOOSE i \in free : \A j \in free : i <= j
      ELSE CHOOSE i \in Slots : \A j \in Slots : started[i] >= started[j]

(* The slot add_run_slot takes for a run that has none: the first free one, *)
(* or else the first of the oldest.                                         *)
ChosenSlot ==
  LET better(i, j) == started[i] < started[j] \/ (started[i] = started[j] /\ i <= j)
      free == Slots \ Active
  IN  IF free # {} THEN CHOOSE i \in free : \A j \in free : i <= j
      ELSE CHOOSE i \in Slots : \A j \in Slots : better(i, j)

(* Mutant of AddSlot: the run is not looked up first.                       *)
AddSlotAlways(r) ==
  LET i == ChosenSlot IN
  /\ slot' = [slot EXCEPT ![i] = r]
  /\ started' = [started EXCEPT ![i] = clock + 1]
  /\ count' = count + 1
  /\ evicted' = (evicted \cup ({slot[i]} \ {None})) \ {r}

(* add_run_slot: eviction reuses the slot and yet increments the count.     *)
AddSlot(r) ==
  IF r \in Tracked THEN UNCHANGED <<slot, started, count, evicted>>
  ELSE LET i == ChosenSlot IN
       /\ slot' = [slot EXCEPT ![i] = r]
       /\ started' = [started EXCEPT ![i] = clock + 1]
       /\ count' = count + 1
       /\ evicted' = (evicted \cup ({slot[i]} \ {None})) \ {r}

(* Mutants of RemoveSlot: the count goes down for a run without a slot,     *)
(* even below zero; the same, but never below zero; any run's end clears    *)
(* the activity; the count is not updated.                                  *)
RemoveSlotNoFloor(r) ==
  LET left == count - 1 IN
  /\ slot' = [i \in Slots |-> IF slot[i] = r THEN None ELSE slot[i]]
  /\ count' = left
  /\ info' = IF left = 0 /\ info.external THEN Cleared ELSE info
  /\ UNCHANGED started

RemoveSlotUnfound(r) ==
  LET left == IF count > 0 THEN count - 1 ELSE 0 IN
  /\ slot' = [i \in Slots |-> IF slot[i] = r THEN None ELSE slot[i]]
  /\ count' = left
  /\ info' = IF left = 0 /\ info.external THEN Cleared ELSE info
  /\ UNCHANGED started

RemoveSlotClears(r) ==
  LET left == IF r \in Tracked /\ count > 0 THEN count - 1 ELSE count IN
  /\ slot' = [i \in Slots |-> IF slot[i] = r THEN None ELSE slot[i]]
  /\ count' = left
  /\ info' = IF info.external THEN Cleared ELSE info
  /\ UNCHANGED started

RemoveSlotKeepsCount(r) ==
  /\ slot' = [i \in Slots |-> IF slot[i] = r THEN None ELSE slot[i]]
  /\ info' = IF count = 0 /\ info.external THEN Cleared ELSE info
  /\ UNCHANGED <<count, started>>

(* remove_run_slot, with the clearing of the overall activity.              *)
RemoveSlot(r) ==
  LET left == IF r \in Tracked /\ count > 0 THEN count - 1 ELSE count IN
  /\ slot' = [i \in Slots |-> IF slot[i] = r THEN None ELSE slot[i]]
  /\ count' = left
  /\ info' = IF left = 0 /\ info.external THEN Cleared ELSE info
  /\ UNCHANGED started

-----------------------------------------------------------------------------
(* handle_message.  Publishing(r, m): the gateway reports milestone m of r. *)

InProgress(r) == "start" \in sent[r] /\ "end" \notin sent[r]
Reporting(r) == sent[r] \cap {"asked", "start"} # {} /\ "end" \notin sent[r]

Publishing(r, m) ==
  /\ m \notin sent[r]
  /\ sent' = [sent EXCEPT ![r] = @ \cup {m}]

(* agent/lifecycle phase "start"; a gateway that retries repeats it.        *)
LifecycleStart(r) ==
  /\ sent[r] \cap {"final", "end"} = {} /\ clock < MaxStarts
  /\ r \in DeviceRuns => sent[r] # {}
  /\ sent' = [sent EXCEPT ![r] = @ \cup {"start"}]
  /\ clock' = clock + 1
  /\ IF cb
     THEN /\ info' = [info EXCEPT !.active = TRUE]
          /\ UNCHANGED <<slot, started, count, evicted>>
     ELSE /\ AddSlot(r)
          /\ info' = [Busy(info) EXCEPT !.run = r, !.session = r]
  /\ UNCHANGED cb

(* agent/lifecycle phase "end" or "error".                                  *)
LifecycleEnd(r) ==
  /\ "start" \in sent[r] /\ Publishing(r, "end")
  /\ IF cb THEN UNCHANGED <<slot, started, count, info>> ELSE RemoveSlot(r)
  /\ UNCHANGED <<cb, clock, evicted>>

(* agent/tool and agent/assistant: "imply external context".                *)
AgentWorks(r) ==
  /\ Reporting(r)
  /\ info' = IF cb THEN info ELSE Busy(info)
  /\ UNCHANGED <<slot, started, count, cb, sent, clock, evicted>>

ChatDelta(r) ==
  /\ Reporting(r) /\ "final" \notin sent[r]
  /\ info' = IF cb THEN info ELSE [Busy(info) EXCEPT !.run = r, !.session = r]
  /\ UNCHANGED <<slot, started, count, cb, sent, clock, evicted>>

(* chat/final, error or aborted: with a callback registered it ends the     *)
(* device's chat, whatever run it belongs to.                               *)
ChatEnd(r) ==
  /\ Reporting(r) /\ Publishing(r, "final")
  /\ IF cb
     THEN /\ cb' = FALSE /\ info' = Cleared
          /\ UNCHANGED <<slot, started, count>>
     ELSE RemoveSlot(r) /\ UNCHANGED cb
  /\ UNCHANGED <<clock, evicted>>

CronStart(r) ==
  /\ r \in CronRuns /\ sent[r] = {} /\ Publishing(r, "cron")
  /\ info' = [Busy(info) EXCEPT !.session = r]
  /\ UNCHANGED <<slot, started, count, cb, clock, evicted>>

CronEnd(r) ==
  /\ "cron" \in sent[r] /\ ~InProgress(r) /\ Publishing(r, "cronEnd")
  /\ info' = Cleared
  /\ UNCHANGED <<slot, started, count, cb, clock, evicted>>

(* A milestone the device never hears of: the connection was down.          *)
Lost(r) ==
  /\ MayLose
  /\ \E m \in {"start", "final", "end"} :
       /\ (sent[r] = {} <=> m = "start")
       /\ r \in DeviceRuns => m # "start"
       /\ Publishing(r, m)
  /\ UNCHANGED <<slot, started, count, info, cb, clock, evicted>>

AllQuiet == \A r \in Runs : ~InProgress(r) /\ ("cron" \in sent[r] => "cronEnd" \in sent[r])

(* Mutant of Health: a tracked run is never taken for stale.                *)
HealthUntrackedOnly(aged) ==
  /\ aged => AllQuiet \/ MayAge
  /\ IF info.active /\ aged /\ info.run = None
     THEN /\ slot' = [i \in Slots |-> None] /\ count' = 0 /\ info' = Cleared
     ELSE UNCHANGED <<slot, count, info>>
  /\ UNCHANGED <<started, cb, sent, clock, evicted>>

(* The periodic health event, with the age of the newest session: activity  *)
(* that is 30 s old is stale, and every slot is freed.                      *)
Health(aged) ==
  /\ aged => AllQuiet \/ MayAge
  /\ IF info.active /\ aged
     THEN /\ slot' = [i \in Slots |-> None] /\ count' = 0 /\ info' = Cleared
     ELSE UNCHANGED <<slot, count, info>>
  /\ UNCHANGED <<started, cb, sent, clock, evicted>>

-----------------------------------------------------------------------------
(* Other tasks.                                                             *)

(* openclaw_chat_abort_session, as the knob task calls it: the flags are    *)
(* reset at once, the slots wait for the gateway's answer.                  *)
AbortSession ==
  /\ MayAbort /\ info.active /\ info.external /\ info.session # None
  /\ info' = [info EXCEPT !.active = FALSE, !.external = FALSE,
                          !.session = None, !.run = None]
  /\ UNCHANGED <<slot, started, count, cb, sent, clock, evicted>>

(* openclaw_chat_send registers the callback and starts a run of ours.      *)
DeviceSend(r) ==
  /\ ~cb /\ Publishing(r, "asked") /\ sent[r] = {}
  /\ cb' = TRUE
  /\ UNCHANGED <<slot, started, count, info, clock, evicted>>

(* openclaw_chat_abort clears the callback.                                 *)
DeviceAbort ==
  /\ MayAbort /\ cb /\ cb' = FALSE
  /\ UNCHANGED <<slot, started, count, info, sent, clock, evicted>>

-----------------------------------------------------------------------------
Event(r) ==
  LifecycleStart(r) \/ LifecycleEnd(r) \/ AgentWorks(r) \/ ChatDelta(r)
  \/ ChatEnd(r) \/ CronEnd(r) \/ Lost(r)

Next ==
  \/ \E r \in Runs : Event(r)
  \/ \E r \in CronRuns : CronStart(r)
  \/ \E aged \in BOOLEAN : Health(aged)
  \/ AbortSession \/ DeviceAbort
  \/ \E r \in DeviceRuns : DeviceSend(r)

Spec == Init /\ [][Next]_vars

(* The gateway finishes every run; it pushes its health every 30 s, and     *)
(* once nothing runs the age it reports passes 30 s (strong fairness: the   *)
(* last fresh age it reported does not repeat for ever).                    *)
Fairness ==
  /\ \A r \in Runs : WF_vars(LifecycleEnd(r)) /\ WF_vars(CronEnd(r))
  /\ SF_vars(Health(TRUE))

FairSpec == Spec /\ Fairness

-----------------------------------------------------------------------------
(* The shape of the state.                                                  *)
TypeOK ==
  /\ slot \in [Slots -> Runs \cup {None}]
  /\ started \in [Slots -> 0..MaxStarts]
  /\ count \in Nat
  /\ info \in [active : BOOLEAN, external : BOOLEAN, run : Runs \cup {None},
               session : Runs \cup {None}]
  /\ cb \in BOOLEAN
  /\ sent \in [Runs -> SUBSET {"asked", "cron", "start", "final", "end", "cronEnd"}]
  /\ clock \in 0..MaxStarts
  /\ evicted \in SUBSET Runs

(* However starts repeat and slots are reused, no run is shown twice in the *)
(* carousel (find_run_slot before a slot is taken, 160-161).                *)
SlotsDistinct == \A i, j \in Active : slot[i] = slot[j] => i = j

(* The count never falls below the number of active slots, so a decrement   *)
(* cannot report the gateway idle while a tracked run goes on (191-200).    *)
CountCovers == count >= Cardinality(Active)

(* Only the oldest runs lose their place: a run evicted from a full table   *)
(* started before every run that is still tracked (169-176).                *)
EvictedAreOldest ==
  [][\A r \in evicted' \ evicted : \A i, j \in Slots :
        slot[i] = r => started[i] <= started[j]]_vars

(* Neither a chat of the device nor a cron job has begun.                   *)
OthersOnly == \A r \in Runs : sent[r] \cap {"asked", "cron"} = {}

(* While no event is lost and only other clients' runs are reported, a      *)
(* tracked run means that the display says so (192-200, 505-531).           *)
BusyWhileTracked == OthersOnly /\ Active # {} => info.active

(* ... and when all runs have ended nothing is displayed, as long as they   *)
(* never exceeded the slots.                                                *)
Begun == {r \in Runs : "start" \in sent[r]}
IdleWhenAllEnded ==
  OthersOnly /\ Cardinality(Begun) <= MaxSlots /\ (\A r \in Runs : ~InProgress(r))
    => ~info.active

(* Whatever was lost or misattributed, activity that is over is cleared in  *)
(* the end (the health check of 704-717).                                   *)
ActivityClears == AllQuiet ~> ~info.active
=============================================================================
