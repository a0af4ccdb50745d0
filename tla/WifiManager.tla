---------------------------- MODULE WifiManager -----------------------------
(***************************************************************************)
(* wifi_manager.c: one event handler, run by the event task, between the   *)
(* Wi-Fi driver's events and the application's callback.                   *)
(***************************************************************************)
EXTENDS Naturals, Sequences

CONSTANTS
  MaxReconnects,      \* MAX_RETRIES: 10 in the code
  MaxLinks         \* bound: connections made

ASSUME WifiAssumption == MaxReconnects \in Nat /\ MaxLinks \in Nat

WifiStates == {"DISCONNECTED", "CONNECTING", "CONNECTED", "FAILED"}

VARIABLES
  wifiState,       \* s_state
  reconnects,         \* s_retry_count
  radio,           \* the driver: off, idle, trying, linked
  events,          \* its events not handled yet
  shownWifi,       \* what on_wifi_state last put on the screen
  connectedBit,    \* WIFI_CONNECTED_BIT
  lost,            \* history: disconnections handled since the last address
  links

wifiVars == <<wifiState, reconnects, radio, events, shownWifi, connectedBit, lost, links>>

WifiTypeOK ==
  /\ wifiState \in WifiStates /\ reconnects \in 0..MaxReconnects
  /\ radio \in {"off", "idle", "trying", "linked"}
  /\ events \in Seq({"START", "DISCONNECTED", "GOT_IP"})
  /\ shownWifi \in {"none", "connecting", "ok", "failed"} /\ connectedBit \in BOOLEAN
  /\ lost \in 0..(MaxReconnects + 1) /\ links \in 0..MaxLinks

WifiInit ==
  /\ wifiState = "DISCONNECTED" /\ reconnects = 0 /\ radio = "off" /\ events = <<>>
  /\ shownWifi = "none" /\ connectedBit = FALSE /\ lost = 0 /\ links = 0

\* set_state and on_wifi_state.
SetWifiState(st) ==
  /\ wifiState' = st
  /\ shownWifi' = CASE st = "CONNECTED" -> "ok" [] st = "CONNECTING" -> "connecting"
                    [] st = "FAILED" -> "failed" [] OTHER -> "none"
  /\ connectedBit' = (connectedBit \/ st = "CONNECTED")

-----------------------------------------------------------------------------
\* wifi_manager_init ends in esp_wifi_start.
WifiStart ==
  /\ radio = "off" /\ radio' = "idle" /\ events' = Append(events, "START")
  /\ UNCHANGED <<wifiState, reconnects, shownWifi, connectedBit, lost, links>>

\* The driver: an attempt ends in an address or a disconnection, a link may be lost.
LinkUp ==
  /\ radio = "trying" /\ links < MaxLinks /\ links' = links + 1
  /\ radio' = "linked" /\ events' = Append(events, "GOT_IP")
  /\ UNCHANGED <<wifiState, reconnects, shownWifi, connectedBit, lost>>
LinkDown ==
  /\ radio \in {"trying", "linked"} /\ radio' = "idle"
  /\ events' = Append(events, "DISCONNECTED")
  /\ UNCHANGED <<wifiState, reconnects, shownWifi, connectedBit, lost, links>>

\* wifi_event_handler.
OnStart ==
  /\ events # <<>> /\ Head(events) = "START" /\ events' = Tail(events)
  /\ SetWifiState("CONNECTING") /\ radio' = "trying"
  /\ UNCHANGED <<reconnects, lost, links>>
OnDisconnected ==
  /\ events # <<>> /\ Head(events) = "DISCONNECTED" /\ events' = Tail(events)
  /\ lost' = IF lost > MaxReconnects THEN lost ELSE lost + 1
  /\ IF reconnects < MaxReconnects
     THEN /\ reconnects' = reconnects + 1 /\ radio' = "trying"
          /\ UNCHANGED <<wifiState, shownWifi, connectedBit>>
     ELSE SetWifiState("FAILED") /\ UNCHANGED <<reconnects, radio>>
  /\ UNCHANGED links
\* Mutant: an address does not start the count of reconnects again.
OnGotIpKeepsCount ==
  /\ events # <<>> /\ Head(events) = "GOT_IP" /\ events' = Tail(events)
  /\ lost' = 0 /\ SetWifiState("CONNECTED")
  /\ UNCHANGED <<reconnects, radio, links>>

OnGotIp ==
  /\ events # <<>> /\ Head(events) = "GOT_IP" /\ events' = Tail(events)
  /\ reconnects' = 0 /\ lost' = 0 /\ SetWifiState("CONNECTED")
  /\ UNCHANGED <<radio, links>>

WifiNext == WifiStart \/ LinkUp \/ LinkDown \/ OnStart \/ OnDisconnected \/ OnGotIp
WifiSpec == WifiInit /\ [][WifiNext]_wifiVars

-----------------------------------------------------------------------------
(* Properties.                                                             *)

\* wifi_manager.c:39: it gives up after one more loss in a row than it reconnects and not
\* before; until then it never rests: an attempt, a link or an event of them is under
\* way; and what the screen says of a failure, the reconnects agree with.
GivesUpLast ==
  /\ wifiState = "FAILED" => lost > MaxReconnects /\ radio = "idle" /\ events = <<>>
  /\ (wifiState # "FAILED" /\ radio \in {"off", "idle"} /\ events = <<>>) => radio = "off"
  /\ shownWifi = "ok" => connectedBit
  /\ reconnects = (IF lost > MaxReconnects THEN MaxReconnects ELSE lost)
=============================================================================
