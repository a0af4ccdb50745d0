--------------------------- MODULE OpenClawClient ---------------------------
(***************************************************************************)
(* The OpenClaw gateway client (components/openclaw/openclaw_client.c).    *)
(*                                                                         *)
(* One process-wide structure, s_oc, is shared without a lock by           *)
(*   - the tasks that call openclaw_chat_send and openclaw_chat_abort (the *)
(*     main loop, the knob task, the serial console),                      *)
(*   - the WebSocket task, which runs ws_event_handler/handle_message, and *)
(*   - the status task, whose watchdog tears the connection down.          *)
(* A step reads or writes s_oc.state or s_oc.chat_cb once.                 *)
(* "if (chat_cb) chat_cb(...)" loads the pointer once, as the compiler has *)
(* it, tests it and then calls what it loaded.                             *)
(* The gateway is external: the events the client receives from it.        *)
(***************************************************************************)
EXTENDS Naturals, Sequences, FiniteSets

CONSTANTS
  Tasks,       \* the tasks that send and abort chats
  Requests,    \* identities of chat.send calls; each is used at most once
  Externals,   \* runs started by other clients of the same gateway
  None,
  MaxAborts,   \* bound: calls of openclaw_chat_abort
  MaxDrops,    \* bound: lost connections and transport errors
  MaxRejects,  \* bound: chat.send requests refused by the gateway
  MayFail      \* whether an allocation inside chat_send may fail

ASSUME ConstantsAssumption ==
  /\ None \notin Requests \cup Externals
  /\ Requests \cap Externals = {}
  /\ "ws" \notin Tasks /\ "status" \notin Tasks
  /\ MaxAborts \in Nat /\ MaxDrops \in Nat /\ MaxRejects \in Nat
  /\ MayFail \in BOOLEAN

VARIABLES
  oc,        \* s_oc.state
  chatCb,    \* s_oc.chat_cb: the request that registered it, or None (NULL)
  link,      \* s_oc.ws: "none" (NULL), "down", "open", "authed"
  inbox,     \* frames of the current connection, in order of delivery; the
             \* one that is being handled is still the first
  wsPc,      \* where the WebSocket task is in a chat event: "delta", "final"
             \* once it is taken for the device's, "calling" with a callback
             \* loaded, "closing" after its call, "reset" with chat_cb cleared
  called,    \* the callback the WebSocket task has loaded and calls, or None
  wdPc,      \* the status task: "boot", "watch", "reconnect"
  pc,        \* where each task is inside chat_send / chat_abort
  arg,       \* the request a task is sending
  notify,    \* per thread: the state whose state_cb call is still to run
  run,       \* gateway: progress of every run
  fresh,     \* requests not yet used
  answers,   \* history: the runs whose final text each request was given
  abandoned, \* history: requests whose callback an abort took away before the
             \* WebSocket task had loaded it
  crossed,   \* history: requests registered while another thread had cleared
             \* chat_cb and not yet stored CONNECTED
  budget     \* remaining aborts, drops and rejects

clientVars == <<oc, chatCb, link, inbox, wsPc, called, wdPc, pc, arg, notify>>
historyVars == <<fresh, answers, abandoned, crossed, budget>>
vars == <<oc, chatCb, link, inbox, wsPc, called, wdPc, pc, arg, notify, run,
          fresh, answers, abandoned, crossed, budget>>

-----------------------------------------------------------------------------
(* openclaw_state_t.  The enum is ordered, ERROR last: chat_abort's guard   *)
(* `state < CONNECTED` lets ERROR through.                                  *)
States == {"DISCONNECTED", "CONNECTING", "AUTHENTICATING", "CONNECTED",
           "CHAT_SENDING", "CHAT_THINKING", "CHAT_STREAMING", "ERROR"}
Chatting == {"CHAT_SENDING", "CHAT_THINKING", "CHAT_STREAMING"}
AtLeastConnected == Chatting \cup {"CONNECTED", "ERROR"}

Threads == Tasks \cup {"ws", "status"}
Runs == Requests \cup Externals

Msg(type, r) == [type |-> type, run |-> r]
Messages == [type : {"challenge", "ok", "error"}, run : {None}]
              \cup [type : {"delta", "final"}, run : Runs]

(* set_state: the store to s_oc.state; the state callback follows on the    *)
(* same thread (StateCallback), but other threads may run in between.       *)
SetState(th, st) ==
  /\ oc' = st
  /\ notify' = [notify EXCEPT ![th] = st]

Spend(what) ==
  /\ budget[what] > 0
  /\ budget' = [budget EXCEPT ![what] = @ - 1]

Idle(t) == pc[t] = "idle" /\ notify[t] = None
WsIdle == wsPc = "idle" /\ notify["ws"] = None
Goto(t, from, to) == pc[t] = from /\ notify[t] = None /\ pc' = [pc EXCEPT ![t] = to]

Init ==
  /\ oc = "DISCONNECTED" /\ chatCb = None /\ link = "none" /\ inbox = <<>>
  /\ wsPc = "idle" /\ called = None /\ wdPc = "boot"
  /\ pc = [t \in Tasks |-> "idle"]
  /\ arg = [t \in Tasks |-> None]
  /\ notify = [th \in Threads |-> None]
  /\ run = [r \in Runs |-> "none"]
  /\ fresh = Requests
  /\ answers = [r \in Requests |-> <<>>]
  /\ abandoned = {} /\ crossed = {}
  /\ budget = [abort |-> MaxAborts, drop |-> MaxDrops, reject |-> MaxRejects]

(* The call of state_cb at the end of set_state.  Its effect on the user    *)
(* interface belongs to the module that composes this one.                  *)
StateCallback(th) ==
  /\ notify[th] # None
  /\ notify' = [notify EXCEPT ![th] = None]
  /\ UNCHANGED <<oc, chatCb, link, inbox, wsPc, called, wdPc, pc, arg, run, historyVars>>

-----------------------------------------------------------------------------
(* Connection management.                                                   *)

(* openclaw_connect, from app_main at boot and from the watchdog.           *)
Connect ==
  /\ wdPc \in {"boot", "reconnect"} /\ notify["status"] = None
  /\ link' = "down" /\ wdPc' = "watch"
  /\ SetState("status", "CONNECTING")
  /\ UNCHANGED <<chatCb, inbox, wsPc, called, pc, arg, run, historyVars>>

(* Mutant of WatchdogDisconnect: a refused handshake is not watched.        *)
WatchdogIgnoresError ==
  /\ wdPc = "watch" /\ notify["status"] = None
  /\ oc \in {"DISCONNECTED", "CONNECTING"}
  /\ WsIdle
  /\ link' = "none" /\ inbox' = <<>> /\ wdPc' = "reconnect"
  /\ SetState("status", "DISCONNECTED")
  /\ UNCHANGED <<chatCb, wsPc, called, pc, arg, run, historyVars>>

(* The watchdog's openclaw_disconnect after 30 s in one of three states;    *)
(* stopping the client waits for the WebSocket task to leave its handler.   *)
WatchdogDisconnect ==
  /\ wdPc = "watch" /\ notify["status"] = None
  /\ oc \in {"DISCONNECTED", "ERROR", "CONNECTING"}
  /\ WsIdle
  /\ link' = "none" /\ inbox' = <<>> /\ wdPc' = "reconnect"
  /\ SetState("status", "DISCONNECTED")
  /\ UNCHANGED <<chatCb, wsPc, called, pc, arg, run, historyVars>>

(* WEBSOCKET_EVENT_CONNECTED; the gateway's first frame is the challenge.   *)
WsOpened ==
  /\ link = "down" /\ WsIdle /\ notify["status"] = None
  /\ link' = "open" /\ inbox' = <<Msg("challenge", None)>>
  /\ SetState("ws", "CONNECTING")
  /\ UNCHANGED <<chatCb, wsPc, called, wdPc, pc, arg, run, historyVars>>

(* WEBSOCKET_EVENT_DISCONNECTED or a close frame: unread frames are lost.   *)
WsLost ==
  /\ link \in {"open", "authed"} /\ WsIdle
  /\ Spend("drop")
  /\ link' = "down" /\ inbox' = <<>>
  /\ SetState("ws", "DISCONNECTED")
  /\ UNCHANGED <<chatCb, wsPc, called, wdPc, pc, arg, run, fresh, answers, abandoned, crossed>>

(* WEBSOCKET_EVENT_ERROR: a transport error, or a connection attempt failed.*)
WsError ==
  /\ link # "none" /\ WsIdle
  /\ Spend("drop")
  /\ link' = "down" /\ inbox' = <<>>
  /\ SetState("ws", "ERROR")
  /\ UNCHANGED <<chatCb, wsPc, called, wdPc, pc, arg, run, fresh, answers, abandoned, crossed>>

-----------------------------------------------------------------------------
(* handle_message, on the WebSocket task.                                   *)

Receive(type) == WsIdle /\ inbox # <<>> /\ Head(inbox).type = type

(* connect.challenge: send_connect transmits the signed request and only    *)
(* then sets AUTHENTICATING; the gateway accepts or refuses.                *)
OnChallenge ==
  /\ Receive("challenge")
  /\ \/ /\ link' = "authed"
        /\ inbox' = Append(Tail(inbox), Msg("ok", None))
        /\ UNCHANGED budget
     \/ /\ Spend("reject")
        /\ inbox' = Append(Tail(inbox), Msg("error", None))
        /\ UNCHANGED link
  /\ SetState("ws", "AUTHENTICATING")
  /\ UNCHANGED <<chatCb, wsPc, called, wdPc, pc, arg, run, fresh, answers, abandoned, crossed>>

(* A "res" frame: it matters only while AUTHENTICATING.  In particular the  *)
(* gateway's refusal of a chat.send is logged and otherwise ignored.        *)
OnResponse(type) ==
  /\ Receive(type)
  /\ inbox' = Tail(inbox)
  /\ IF oc = "AUTHENTICATING"
     THEN SetState("ws", IF type = "ok" THEN "CONNECTED" ELSE "ERROR")
     ELSE UNCHANGED <<oc, notify>>
  /\ UNCHANGED <<chatCb, link, wsPc, called, wdPc, pc, arg, run, historyVars>>

(* chat/delta with a callback registered is a streaming chunk, otherwise    *)
(* external activity (module ActiveRuns).                                   *)
OnChatDelta ==
  /\ Receive("delta")
  /\ IF chatCb # None THEN wsPc' = "delta" /\ UNCHANGED inbox
                      ELSE inbox' = Tail(inbox) /\ UNCHANGED wsPc
  /\ UNCHANGED <<oc, chatCb, link, called, wdPc, pc, arg, notify, run, historyVars>>

StreamChat ==
  /\ wsPc = "delta" /\ wsPc' = "idle"
  /\ inbox' = Tail(inbox)
  /\ SetState("ws", "CHAT_STREAMING")
  /\ UNCHANGED <<chatCb, link, called, wdPc, pc, arg, run, historyVars>>

(* chat/final, chat/error, chat/aborted of any run: for the device's chat   *)
(* if a callback is registered, otherwise external activity.                *)
OnChatFinal ==
  /\ Receive("final")
  /\ IF chatCb # None THEN wsPc' = "final" /\ UNCHANGED inbox
                      ELSE inbox' = Tail(inbox) /\ UNCHANGED wsPc
  /\ UNCHANGED <<oc, chatCb, link, called, wdPc, pc, arg, notify, run, historyVars>>

(* Mutant of LoadCallback: a callback that has gone is called as well.      *)
LoadCallbackUntested ==
  /\ wsPc = "final" /\ wsPc' = "calling"
  /\ called' = chatCb
  /\ UNCHANGED <<oc, chatCb, link, inbox, wdPc, pc, arg, notify, run, historyVars>>

(* The text has been assembled: chat_cb is loaded again and tested, ...     *)
LoadCallback ==
  /\ wsPc = "final"
  /\ called' = chatCb
  /\ IF chatCb # None THEN wsPc' = "calling" /\ UNCHANGED inbox
                      ELSE wsPc' = "closing" /\ inbox' = Tail(inbox)
  /\ UNCHANGED <<oc, chatCb, link, wdPc, pc, arg, notify, run, historyVars>>

(* Mutant of AnswerChat: the callback is not called for a run that ends     *)
(* before it has streamed anything (as an error does).                      *)
AnswerStreamedOnly ==
  /\ wsPc = "calling" /\ wsPc' = "closing" /\ called' = None
  /\ inbox' = Tail(inbox)
  /\ answers' = IF oc = "CHAT_STREAMING"
                THEN [answers EXCEPT ![called] = Append(@, Head(inbox).run)]
                ELSE answers
  /\ UNCHANGED <<oc, chatCb, link, wdPc, pc, arg, notify, run, fresh,
                 abandoned, crossed, budget>>

(* ... and what was loaded is called with the text and is_final set; ...    *)
AnswerChat ==
  /\ wsPc = "calling" /\ wsPc' = "closing" /\ called' = None
  /\ inbox' = Tail(inbox)
  /\ answers' = [answers EXCEPT ![called] = Append(@, Head(inbox).run)]
  /\ UNCHANGED <<oc, chatCb, link, wdPc, pc, arg, notify, run, fresh,
                 abandoned, crossed, budget>>

(* Mutant of CloseChat: the callback survives the end of its chat.          *)
CloseChatKeepsCallback ==
  /\ wsPc = "closing" /\ wsPc' = "reset"
  /\ UNCHANGED <<oc, chatCb, link, inbox, called, wdPc, pc, arg, notify, run, historyVars>>

(* ... after which whatever callback is registered is cleared ...           *)
CloseChat ==
  /\ wsPc = "closing" /\ wsPc' = "reset"
  /\ chatCb' = None
  /\ UNCHANGED <<oc, link, inbox, called, wdPc, pc, arg, notify, run, historyVars>>

(* ... and then the state is CONNECTED, whoever has registered since.       *)
ChatClosed ==
  /\ wsPc = "reset" /\ wsPc' = "idle"
  /\ SetState("ws", "CONNECTED")
  /\ UNCHANGED <<chatCb, link, inbox, called, wdPc, pc, arg, run, historyVars>>

-----------------------------------------------------------------------------
(* openclaw_chat_send and its variants, on task t.                          *)

(* Mutant of SendBegin: the guard on the state is missing.                  *)
SendBeginUnguarded(t, r) ==
  /\ r \in fresh
  /\ Goto(t, "idle", "begun")
  /\ fresh' = fresh \ {r} /\ arg' = [arg EXCEPT ![t] = r]
  /\ UNCHANGED <<oc, chatCb, link, inbox, wsPc, called, wdPc, notify, run, answers,
                 abandoned, crossed, budget>>

(* The guard, ...                                                           *)
SendBegin(t, r) ==
  /\ oc = "CONNECTED" /\ r \in fresh
  /\ Goto(t, "idle", "begun")
  /\ fresh' = fresh \ {r} /\ arg' = [arg EXCEPT ![t] = r]
  /\ UNCHANGED <<oc, chatCb, link, inbox, wsPc, called, wdPc, notify, run, answers,
                 abandoned, crossed, budget>>

(* Another thread is between its "chat_cb = NULL" and its set_state.        *)
Resetting == wsPc = "reset" \/ \E t \in Tasks : pc[t] = "reset"

(* ... then the registration of the callback, whatever has happened since.  *)
SendRegister(t) ==
  /\ Goto(t, "begun", "armed")
  /\ chatCb' = arg[t]
  /\ crossed' = IF Resetting THEN crossed \cup {arg[t]} ELSE crossed
  /\ UNCHANGED <<oc, link, inbox, wsPc, called, wdPc, arg, notify, run, fresh, answers,
                 abandoned, budget>>

(* ESP_ERR_NO_MEM, after the callback was registered.                       *)
SendFails(t) ==
  /\ MayFail
  /\ Goto(t, "armed", "idle")
  /\ arg' = [arg EXCEPT ![t] = None]
  /\ UNCHANGED <<oc, chatCb, link, inbox, wsPc, called, wdPc, notify, run, historyVars>>

SendAnnounce(t) ==
  /\ Goto(t, "armed", "sending")
  /\ SetState(t, "CHAT_SENDING")
  /\ UNCHANGED <<chatCb, link, inbox, wsPc, called, wdPc, arg, run, historyVars>>

(* esp_websocket_client_send_text, whose result is ignored: the request     *)
(* reaches the gateway only on an authenticated connection.                 *)
Transmit(t) ==
  /\ Goto(t, "sending", "sent")
  /\ \/ /\ link = "authed"
        /\ run' = [run EXCEPT ![arg[t]] = "running"]
        /\ UNCHANGED <<inbox, budget>>
     \/ /\ link = "authed"
        /\ Spend("reject")
        /\ inbox' = Append(inbox, Msg("error", None))
        /\ UNCHANGED run
     \/ /\ link # "authed"
        /\ UNCHANGED <<run, inbox, budget>>
  /\ UNCHANGED <<oc, chatCb, link, wsPc, called, wdPc, arg, notify, fresh, answers,
                 abandoned, crossed>>

SendDone(t) ==
  /\ Goto(t, "sent", "idle")
  /\ arg' = [arg EXCEPT ![t] = None]
  /\ SetState(t, "CHAT_THINKING")
  /\ UNCHANGED <<chatCb, link, inbox, wsPc, called, wdPc, run, historyVars>>

(* openclaw_chat_abort: the guard and the chat.abort request, ...           *)
AbortBegin(t) ==
  /\ oc \in AtLeastConnected /\ link # "none"
  /\ Spend("abort")
  /\ Goto(t, "idle", "aborting")
  /\ UNCHANGED <<oc, chatCb, link, inbox, wsPc, called, wdPc, arg, notify, run, fresh,
                 answers, abandoned, crossed>>

(* Mutant of AbortClear: the callback is left registered.                   *)
AbortClearKeepsCallback(t) ==
  /\ Goto(t, "aborting", "reset")
  /\ abandoned' = abandoned \cup ({chatCb} \ {None, called})
  /\ UNCHANGED <<oc, chatCb, link, inbox, wsPc, called, wdPc, arg, notify, run, fresh,
                 answers, crossed, budget>>

(* ... then the callback is cleared, whosever it is by now; the WebSocket   *)
(* task may already be about to call it ...                                 *)
AbortClear(t) ==
  /\ Goto(t, "aborting", "reset")
  /\ chatCb' = None
  /\ abandoned' = abandoned \cup ({chatCb} \ {None, called})
  /\ UNCHANGED <<oc, link, inbox, wsPc, called, wdPc, arg, notify, run, fresh, answers,
                 crossed, budget>>

(* ... and the state is CONNECTED, whatever has happened since the guard.   *)
AbortDone(t) ==
  /\ Goto(t, "reset", "idle")
  /\ SetState(t, "CONNECTED")
  /\ UNCHANGED <<chatCb, link, inbox, wsPc, called, wdPc, arg, run, historyVars>>

-----------------------------------------------------------------------------
(* The gateway (external).  Events reach this client only while it is       *)
(* authenticated; every client sees the events of every run.                *)

Publish(msg) == inbox' = IF link = "authed" THEN Append(inbox, msg) ELSE inbox

GatewayStart(e) ==
  /\ run[e] = "none"
  /\ run' = [run EXCEPT ![e] = "running"]
  /\ UNCHANGED <<clientVars, historyVars>>

GatewayDelta(r) ==
  /\ run[r] = "running"
  /\ run' = [run EXCEPT ![r] = "streaming"]
  /\ Publish(Msg("delta", r))
  /\ UNCHANGED <<oc, chatCb, link, wsPc, called, wdPc, pc, arg, notify, historyVars>>

(* The end of a run: its final text, an error, or an abort carried out.     *)
GatewayFinal(r) ==
  /\ run[r] \in {"running", "streaming"}
  /\ run' = [run EXCEPT ![r] = "done"]
  /\ Publish(Msg("final", r))
  /\ UNCHANGED <<oc, chatCb, link, wsPc, called, wdPc, pc, arg, notify, historyVars>>

-----------------------------------------------------------------------------
WsNext ==
  \/ WsOpened \/ WsLost \/ WsError
  \/ OnChallenge \/ OnResponse("ok") \/ OnResponse("error")
  \/ OnChatDelta \/ StreamChat \/ OnChatFinal
  \/ LoadCallback \/ AnswerChat \/ CloseChat \/ ChatClosed

SendNext(t) ==
  \/ \E r \in Requests : SendBegin(t, r)
  \/ SendRegister(t) \/ SendFails(t) \/ SendAnnounce(t) \/ Transmit(t) \/ SendDone(t)

AbortNext(t) == AbortBegin(t) \/ AbortClear(t) \/ AbortDone(t)

GatewayNext ==
  \/ \E e \in Externals : GatewayStart(e)
  \/ \E r \in Runs : GatewayDelta(r) \/ GatewayFinal(r)

Next ==
  \/ \E th \in Threads : StateCallback(th)
  \/ Connect \/ WatchdogDisconnect
  \/ WsNext
  \/ \E t \in Tasks : SendNext(t) \/ AbortNext(t)
  \/ GatewayNext

Spec == Init /\ [][Next]_vars

(* A task that is inside a call runs on; the WebSocket task reads what it   *)
(* received and reconnects by itself; the gateway finishes what it started. *)
(* The status task's watchdog polls every 500 ms (2 s asleep).  A handshake *)
(* takes far less than the watchdog's 30 s, so the watchdog does not cut    *)
(* off every attempt: strong fairness.  Nothing is assumed of users or of   *)
(* failures.                                                                *)
Fairness ==
  /\ \A th \in Threads : WF_vars(StateCallback(th))
  /\ WF_vars(Connect) /\ WF_vars(WatchdogDisconnect)
  /\ SF_vars(WsOpened) /\ SF_vars(OnChallenge)
  /\ WF_vars(OnResponse("ok")) /\ WF_vars(OnResponse("error"))
  /\ WF_vars(OnChatDelta) /\ WF_vars(StreamChat)
  /\ WF_vars(OnChatFinal) /\ WF_vars(LoadCallback) /\ WF_vars(AnswerChat)
  /\ WF_vars(CloseChat) /\ WF_vars(ChatClosed)
  /\ \A t \in Tasks : /\ WF_vars(SendRegister(t)) /\ WF_vars(SendAnnounce(t))
                      /\ WF_vars(Transmit(t)) /\ WF_vars(SendDone(t))
                      /\ WF_vars(AbortClear(t)) /\ WF_vars(AbortDone(t))
  /\ \A r \in Runs : WF_vars(GatewayFinal(r))

FairSpec == Spec /\ Fairness

-----------------------------------------------------------------------------
(* The shape of the state; a task inside chat_send has a request, and a     *)
(* callback is called only where one was loaded.                            *)
TypeOK ==
  /\ oc \in States
  /\ chatCb \in Requests \cup {None}
  /\ link \in {"none", "down", "open", "authed"}
  /\ inbox \in Seq(Messages)
  /\ wsPc \in {"idle", "delta", "final", "calling", "closing", "reset"}
  /\ called \in Requests \cup {None}
  /\ wsPc = "calling" <=> called # None
  /\ wdPc \in {"boot", "watch", "reconnect"}
  /\ pc \in [Tasks -> {"idle", "begun", "armed", "sending", "sent", "aborting",
                   "reset"}]
  /\ arg \in [Tasks -> Requests \cup {None}]
  /\ \A t \in Tasks : pc[t] \in {"begun", "armed", "sending", "sent"} => arg[t] # None
  /\ notify \in [Threads -> States \cup {None}]
  /\ run \in [Runs -> {"none", "running", "streaming", "done"}]
  /\ fresh \in SUBSET Requests
  /\ answers \in [Requests -> Seq(Runs)]
  /\ abandoned \in SUBSET Requests /\ crossed \in SUBSET Requests
  /\ budget \in [{"abort", "drop", "reject"} -> Nat]

(* However chat_send, chat_abort, reconnections and chat events of any run  *)
(* interleave, the callback registered by one chat_send is called with a    *)
(* final text at most once: no response is shown or spoken twice            *)
(* (openclaw_client.c:472-473).                                             *)
AtMostOneAnswer == \A r \in Requests : Len(answers[r]) <= 1

(* Once openclaw_chat_abort has cleared the callback of a request, nothing  *)
(* the gateway still sends reaches that callback (1703-1704), except the    *)
(* one call the WebSocket task was already making when it was cleared:      *)
(* nobody waits for that one (472, 479, 485).                               *)
AbandonedStaysSilent ==
  [][\A r \in abandoned : answers'[r] = answers[r]]_vars

(* No connection was lost and nothing was refused so far.                   *)
Linked == budget["drop"] = MaxDrops
Unharmed == Linked /\ budget["reject"] = MaxRejects

(* While the connection holds and nothing was refused, every path back to   *)
(* CONNECTED clears the callback first (473, 480, 486, 1703): one that is   *)
(* registered in CONNECTED is that of a request which has not reached the   *)
(* gateway, in the middle of chat_send or after its failure (1172) - or it  *)
(* was registered between the two stores of such a path, the only way to    *)
(* have a chat going on in a client that offers to take another.            *)
CallbackMeansBusy ==
  Unharmed /\ chatCb # None /\ oc = "CONNECTED" =>
    run[chatCb] = "none" \/ chatCb \in crossed

(* With one task that sends, nobody else on the gateway and no failures,    *)
(* the final text a request is given is that of its own run.                *)
OwnAnswer ==
  Unharmed => \A r \in Requests : \A i \in DOMAIN answers[r] : answers[r][i] = r

(* ... the CONNECTED guard of chat_send (1136) keeps one request in flight, *)
OneInFlight ==
  Unharmed => Cardinality({r \in Requests : run[r] \in {"running", "streaming"}}) <= 1

(* ... and every request that chat_send accepted is answered.               *)
Answered == \A r \in Requests : r \notin fresh ~> answers[r] # <<>> \/ ~Unharmed

(* Unless the client is left in the middle of a chat, it is authenticated   *)
(* again after every loss, error or refused handshake: by the library's own *)
(* reconnection, or by the watchdog (app_tasks.c:599-616) where the library *)
(* has no reason to act.                                                    *)
Reconnects ==
  <>[](oc \notin Chatting) => []<>(oc = "CONNECTED" /\ link = "authed")

(* A response that arrives after its request was aborted never triggers a   *)
(* callback (the comment at openclaw_client.c:1704).                        *)
LateResponseIgnored ==
  [][\A r \in Requests : answers'[r] # answers[r] =>
        answers'[r][Len(answers'[r])] \notin abandoned]_vars
=============================================================================
