---------------------------- MODULE CronNotices -----------------------------
(***************************************************************************)
(* Which messages of other sessions the device reads aloud: the sessions   *)
(* of cron jobs it was told of, in a ring that forgets.                    *)
(***************************************************************************)
EXTENDS Naturals, Sequences, FiniteSets

CONSTANTS
  Sessions,        \* session keys at the gateway
  Channels,        \* those that are not a cron job's: people writing over a channel
  RingSize,        \* 4 in the code
  MaxCronEvents    \* bound

Nobody == "no session"

ASSUME NoticeAssumption ==
  /\ Channels \subseteq Sessions /\ Nobody \notin Sessions
  /\ RingSize \in Nat \ {0} /\ MaxCronEvents \in Nat

VARIABLES
  ring,            \* s_oc.cron_sessions
  ringIndex,       \* s_oc.cron_session_idx
  running,         \* cron sessions whose job runs at the gateway
  tracked,         \* history: the sessions in the order they entered the ring
  autoNotify,      \* cfg->auto_notify
  heardOf,         \* history: the session last read aloud, Nobody if it was suppressed
  cronEvents

noticeVars ==
  <<ring, ringIndex, running, tracked, autoNotify, heardOf, cronEvents>>

NoticeTypeOK ==
  /\ ring \in [0..(RingSize - 1) -> Sessions \cup {Nobody}] /\ ringIndex \in 0..(RingSize - 1)
  /\ running \subseteq Sessions /\ tracked \in Seq(Sessions)
  /\ autoNotify \in BOOLEAN /\ heardOf \in Sessions \cup {Nobody}
  /\ cronEvents \in 0..MaxCronEvents

NoticeInit ==
  /\ ring = [i \in 0..(RingSize - 1) |-> Nobody] /\ ringIndex = 0 /\ running = {}
  /\ tracked = <<>> /\ autoNotify \in BOOLEAN /\ heardOf = Nobody
  /\ cronEvents = 0

IsCronSession(s) == \E i \in DOMAIN ring : ring[i] = s
\* Mutant: a session that is in the ring is written again.
TrackAlways(s) ==
  /\ ring' = [ring EXCEPT ![ringIndex] = s] /\ ringIndex' = (ringIndex + 1) % RingSize
  /\ tracked' = Append(tracked, s)

TrackCronSession(s) ==
  IF IsCronSession(s) THEN UNCHANGED <<ring, ringIndex, tracked>>
  ELSE /\ ring' = [ring EXCEPT ![ringIndex] = s] /\ ringIndex' = (ringIndex + 1) % RingSize
       /\ tracked' = Append(tracked, s)

CronEvent == cronEvents < MaxCronEvents /\ cronEvents' = cronEvents + 1

-----------------------------------------------------------------------------
\* The event "cron" with action start or status running.
CronStarts(s) ==
  /\ CronEvent /\ s \notin running /\ running' = running \cup {s}
  /\ TrackCronSession(s)
  /\ UNCHANGED <<autoNotify, heardOf>>
CronEnds(s) ==
  /\ CronEvent /\ s \in running /\ running' = running \ {s}
  /\ UNCHANGED <<ring, ringIndex, tracked, autoNotify, heardOf>>

\* A final message of a session the device did not ask, and on_openclaw_notify.
ExternalFinal(s) ==
  /\ s \in running \cup Channels
  /\ heardOf' = IF autoNotify /\ IsCronSession(s) THEN s ELSE Nobody
  /\ UNCHANGED <<ring, ringIndex, running, tracked, autoNotify, cronEvents>>

NoticeNext ==
  \/ \E s \in Sessions \ Channels : CronStarts(s) \/ CronEnds(s)
  \/ \E s \in Sessions : ExternalFinal(s)
NoticeSpec == NoticeInit /\ [][NoticeNext]_noticeVars

-----------------------------------------------------------------------------
(* Properties.                                                             *)

LastEntered(s) == CHOOSE k \in 1..Len(tracked) :
                    tracked[k] = s /\ \A j \in (k + 1)..Len(tracked) : tracked[j] # s

\* openclaw_client.c:223: no session is in the ring twice; one that was told of is
\* forgotten only after RingSize others entered since, so a message of a running job is
\* missed only then.
NoticesHold ==
  /\ \A i, j \in DOMAIN ring : ring[i] = ring[j] /\ ring[i] # Nobody => i = j
  /\ \A s \in running : ~IsCronSession(s) => Len(tracked) - LastEntered(s) >= RingSize
=============================================================================
