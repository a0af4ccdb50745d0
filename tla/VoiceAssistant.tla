--------------------------- MODULE VoiceAssistant ---------------------------
(***************************************************************************)
(* The assistant of a board with display and wheel (the SenseCAP Watcher): *)
(* what the tasks of main/ do to one another through the user interface    *)
(* state, the event group g_app_events and a few flags, composed with the  *)
(* gateway client of module OpenClawClient, whose state callback and chat  *)
(* callback drive the interface.                                           *)
(*                                                                         *)
(*   main loop   app_main.c, which also runs voice_chat.c to its end       *)
(*   knob task   app_tasks.c: the wheel's button and its rotation          *)
(*   TTS task    app_tasks.c, tts_client.c                                 *)
(*   callbacks   on whatever thread of the client calls set_state          *)
(*                                                                         *)
(* Left out: sleep, the tasks screen, the camera, notifications.           *)
(***************************************************************************)
EXTENDS OpenClawClient

CONSTANTS
  main, knob,  \* the two tasks that call the client here
  Inputs,      \* what the user may do
  MaxInputs,   \* bound: user inputs
  AutoRead,    \* settings: auto_read_response
  MayOutrun    \* whether a run may end before chat_send has returned

ASSUME AssistantAssumption ==
  /\ {main, knob} \subseteq Tasks /\ main # knob
  /\ Inputs \subseteq {"click", "spin", "touch", "cancel", "wake", "play", "details"}
  /\ MaxInputs \in Nat /\ AutoRead \in BOOLEAN /\ MayOutrun \in BOOLEAN

VARIABLES
  ui,         \* the interface state, s_state of ui.c
  bits,       \* g_app_events: KNOB, CANCEL, TOUCH, TTS, WAKE, DETAILS
  recording,  \* g_recording
  mpc,        \* where the main loop is
  taken,      \* the bits the main loop took and has still to handle
  kpc,        \* where the knob task is
  tpc,        \* where the TTS task is
  ttsPending, \* g_tts_pending
  listen,     \* g_continue_listening
  playing,    \* s_tts.playing
  paused,     \* s_paused of wake_word.c
  shown,      \* g_response_shown_at > 0
  inputs,     \* user inputs so far
  past        \* history: what the user did that has still to be honoured

taskVars == <<mpc, taken, kpc, tpc>>
ttsVars == <<ttsPending, listen, playing, paused>>
userVars == <<inputs, past>>
uiVars == <<ui, bits, recording, taskVars, ttsVars, shown, userVars>>
allVars == <<vars, uiVars>>

-----------------------------------------------------------------------------
(* ui_state_t.  Nothing sets TTS_PLAYING: playback is shown as TTS_LOADING. *)
UiStates == {"BOOT", "CONNECTING", "IDLE", "LISTENING", "SENDING", "THINKING",
             "STREAMING", "RESPONSE", "TTS_LOADING", "ERROR"}
MainBits == {"KNOB", "DETAILS", "TOUCH", "WAKE"}
Bits == MainBits \cup {"CANCEL", "TTS"}

(* voice_chat.c between the start of a recording and the check for CANCEL.  *)
Recording == {"record", "recorded", "stt"}

AssistantInit ==
  /\ Init
  /\ ui = "CONNECTING" /\ bits = {} /\ recording = FALSE
  /\ mpc = "wait" /\ taken = {} /\ kpc = "idle" /\ tpc = "wait"
  /\ ttsPending = FALSE /\ listen = FALSE /\ playing = FALSE /\ paused = FALSE
  /\ shown = FALSE /\ inputs = 0
  /\ past = [cancel |-> FALSE, touch |-> FALSE]

-----------------------------------------------------------------------------
(* The user.                                                                *)

Input(kind) ==
  /\ kind \in Inputs /\ inputs < MaxInputs /\ wdPc # "boot"
  /\ inputs' = inputs + 1

(* A short press of the wheel, seen by the knob task at its release.        *)
Click ==
  /\ Input("click") /\ kpc = "idle"
  /\ IF recording
     THEN /\ bits' = bits \cup {"CANCEL"}
          /\ past' = [past EXCEPT !.cancel = TRUE]
     ELSE /\ bits' = bits \cup {"KNOB"}
          /\ UNCHANGED past
  /\ UNCHANGED <<vars, ui, recording, taskVars, ttsVars, shown>>

(* The cancel button, which the screen shows while LISTENING.               *)
CancelButton ==
  /\ Input("cancel") /\ ui = "LISTENING"
  /\ bits' = bits \cup {"CANCEL"}
  /\ past' = [past EXCEPT !.cancel = @ \/ mpc \in Recording]
  /\ UNCHANGED <<vars, ui, recording, taskVars, ttsVars, shown>>

Touch ==
  /\ Input("touch")
  /\ bits' = bits \cup {"TOUCH"}
  /\ past' = [past EXCEPT !.touch = @ \/ recording]
  /\ UNCHANGED <<vars, ui, recording, taskVars, ttsVars, shown>>

(* The details and play buttons, shown with a response.                     *)
Details ==
  /\ Input("details") /\ ui = "RESPONSE"
  /\ bits' = bits \cup {"DETAILS"}
  /\ UNCHANGED <<vars, ui, recording, taskVars, ttsVars, shown, past>>

Play ==
  /\ Input("play") /\ ui \in {"RESPONSE", "TTS_LOADING"}
  /\ bits' = bits \cup {"TTS"}
  /\ UNCHANGED <<vars, ui, recording, taskVars, ttsVars, shown, past>>

(* The wake word, unless its engine is paused.                              *)
WakeWord ==
  /\ Input("wake") /\ ~paused
  /\ bits' = bits \cup {"WAKE"}
  /\ UNCHANGED <<vars, ui, recording, taskVars, ttsVars, shown, past>>

-----------------------------------------------------------------------------
(* The wheel turns: knob_task's choice by what is going on.                 *)

Turn == Input("spin") /\ kpc = "idle"

SpinCancels ==
  /\ Turn /\ (recording \/ ui = "SENDING")
  /\ bits' = bits \cup {"CANCEL"}
  /\ past' = [past EXCEPT !.cancel = @ \/ mpc \in Recording]
  /\ UNCHANGED <<vars, ui, recording, taskVars, ttsVars, shown>>

SpinAborts ==
  /\ Turn /\ ~recording /\ ui \in {"THINKING", "STREAMING"}
  /\ kpc' = "abort"
  /\ UNCHANGED <<vars, ui, bits, recording, mpc, taken, tpc, ttsVars, shown, past>>

SpinStopsSpeech ==
  /\ Turn /\ ~recording /\ ui = "TTS_LOADING"
  /\ kpc' = "stopping"
  /\ UNCHANGED <<vars, ui, bits, recording, mpc, taken, tpc, ttsVars, shown, past>>

SpinDismisses ==
  /\ Turn /\ ~recording /\ ui = "RESPONSE"
  /\ IF ttsPending
     THEN /\ ttsPending' = FALSE /\ listen' = FALSE /\ shown' = TRUE
          /\ UNCHANGED ui
     ELSE /\ shown' = FALSE /\ ui' = "IDLE"
          /\ UNCHANGED <<ttsPending, listen>>
  /\ UNCHANGED <<vars, bits, recording, taskVars, playing, paused, past>>

(* openclaw_chat_abort from the knob task: it may refuse, and the interface *)
(* is IDLE in any case.                                                     *)
AbortAllowed == oc \in AtLeastConnected /\ link # "none"

KnobAbort ==
  /\ kpc = "abort" /\ kpc' = "aborting"
  /\ IF AbortAllowed THEN AbortBegin(knob) ELSE UNCHANGED vars
  /\ UNCHANGED <<ui, bits, recording, mpc, taken, tpc, ttsVars, shown, userVars>>

KnobAborted ==
  /\ kpc = "aborting" /\ Idle(knob)
  /\ kpc' = "idle" /\ ui' = "IDLE"
  /\ UNCHANGED <<vars, bits, recording, mpc, taken, tpc, ttsVars, shown, userVars>>

(* tts_stop returns once playback has ended, or after 2.5 s; its request    *)
(* only shortens a playback, whose length is left open here.                *)
KnobStopped ==
  /\ kpc = "stopping"
  /\ kpc' = "idle" /\ listen' = FALSE
  /\ UNCHANGED <<vars, ui, bits, recording, mpc, taken, tpc, ttsPending, playing,
                 paused, shown, userVars>>

KnobNext == KnobAbort \/ KnobAborted \/ KnobStopped

-----------------------------------------------------------------------------
(* The main loop: it takes its bits at once and handles them in order.      *)

Handle(bit) == mpc = "handle" /\ bit \in taken /\ taken' = taken \ {bit}
Then(from, to) == mpc = from /\ mpc' = to

MainTake ==
  /\ Then("wait", "handle")
  /\ bits \cap MainBits # {} /\ wdPc # "boot"
  /\ taken' = bits \cap MainBits /\ bits' = bits \ MainBits
  /\ UNCHANGED <<vars, ui, recording, kpc, tpc, ttsVars, shown, userVars>>

MainLoop ==
  /\ Then("handle", "wait") /\ taken = {}
  /\ UNCHANGED <<vars, ui, bits, recording, taken, kpc, tpc, ttsVars, shown, userVars>>

MainTouch ==
  /\ Handle("TOUCH")
  /\ \/ /\ recording
        /\ bits' = bits \cup {"CANCEL"} /\ UNCHANGED <<ui, shown>>
     \/ /\ ~recording /\ ui = "RESPONSE" /\ ~ttsPending
        /\ shown' = FALSE /\ ui' = "IDLE" /\ UNCHANGED bits
     \/ /\ ~recording /\ (ui # "RESPONSE" \/ ttsPending)
        /\ UNCHANGED <<ui, bits, shown>>
  /\ UNCHANGED <<vars, recording, mpc, kpc, tpc, ttsVars, userVars>>

(* wake_word_pause goes before voice_chat_start.                            *)
PauseToStart == paused' = (mpc' = "start" \/ paused)

(* A press of the wheel does what the interface state, read now, calls for. *)
MainKnob ==
  /\ "TOUCH" \notin taken /\ Handle("KNOB")
  /\ mpc' = CASE ui \in {"IDLE", "RESPONSE"} -> "start"
              [] ui = "TTS_LOADING" -> "stop"
              [] ui \in {"THINKING", "STREAMING"} -> "abort"
              [] OTHER -> "handle"
  /\ PauseToStart
  /\ UNCHANGED <<vars, ui, bits, recording, kpc, tpc, ttsPending, listen, playing,
                 shown, userVars>>

MainWake ==
  /\ taken \cap {"TOUCH", "KNOB"} = {} /\ Handle("WAKE")
  /\ mpc' = IF ui \in {"IDLE", "RESPONSE"} THEN "start" ELSE "handle"
  /\ PauseToStart
  /\ UNCHANGED <<vars, ui, bits, recording, kpc, tpc, ttsPending, listen, playing,
                 shown, userVars>>

(* The details button: SENDING is shown and the request is made.            *)
MainDetails ==
  /\ taken = {"DETAILS"} /\ Handle("DETAILS")
  /\ IF oc = "CONNECTED" /\ fresh # {}
     THEN mpc' = "ask" /\ ui' = "SENDING"
     ELSE UNCHANGED <<mpc, ui>>
  /\ UNCHANGED <<vars, bits, recording, kpc, tpc, ttsVars, shown, userVars>>

MainStop ==
  /\ Then("stop", "stopping")
  /\ UNCHANGED <<vars, ui, bits, recording, taken, kpc, tpc, ttsVars, shown, userVars>>

MainStopped ==
  /\ Then("stopping", "handle")
  /\ listen' = FALSE /\ ui' = "IDLE"
  /\ UNCHANGED <<vars, bits, recording, taken, kpc, tpc, ttsPending, playing, paused,
                 shown, userVars>>

MainAbort ==
  /\ Then("abort", "aborting")
  /\ IF AbortAllowed THEN AbortBegin(main) ELSE UNCHANGED vars
  /\ UNCHANGED <<ui, bits, recording, taken, kpc, tpc, ttsVars, shown, userVars>>

MainAborted ==
  /\ Then("aborting", "handle") /\ Idle(main)
  /\ ui' = "IDLE"
  /\ UNCHANGED <<vars, bits, recording, taken, kpc, tpc, ttsVars, shown, userVars>>

(* Mutant of BackToIdle: the interface is left as it is.                    *)
BackToIdleSilently ==
  /\ Then("idle", "resume")
  /\ UNCHANGED <<vars, ui, bits, recording, taken, kpc, tpc, ttsVars, shown, userVars>>

(* app_set_state(UI_STATE_IDLE), with which a voice chat ends early.        *)
BackToIdle ==
  /\ Then("idle", "resume") /\ ui' = "IDLE"
  /\ UNCHANGED <<vars, bits, recording, taken, kpc, tpc, ttsVars, shown, userVars>>

-----------------------------------------------------------------------------
(* voice_chat_start, on the main loop.                                      *)

(* Mutant of VoiceStart: any state from CONNECTED on will do.               *)
VoiceStartBusy ==
  /\ mpc = "start"
  /\ IF oc \in AtLeastConnected THEN mpc' = "beep" /\ UNCHANGED ui
                                ELSE mpc' = "idle" /\ ui' = "ERROR"
  /\ UNCHANGED <<vars, bits, recording, taken, kpc, tpc, ttsVars, shown, userVars>>

(* The guard: only a client without a chat in progress will take what is    *)
(* going to be said.                                                        *)
VoiceStart ==
  /\ mpc = "start"
  /\ IF oc = "CONNECTED" THEN mpc' = "beep" /\ UNCHANGED ui
                         ELSE mpc' = "idle" /\ ui' = "ERROR"
  /\ UNCHANGED <<vars, bits, recording, taken, kpc, tpc, ttsVars, shown, userVars>>

VoiceRecord ==
  /\ Then("beep", "record")
  /\ recording' = TRUE /\ ui' = "LISTENING"
  /\ past' = [cancel |-> FALSE, touch |-> FALSE]
  /\ UNCHANGED <<vars, bits, taken, kpc, tpc, ttsVars, shown, inputs>>

VoiceCancelled ==
  /\ Then("record", "idle") /\ "CANCEL" \in bits
  /\ bits' = bits \ {"CANCEL"} /\ recording' = FALSE
  /\ UNCHANGED <<vars, ui, taken, kpc, tpc, ttsVars, shown, userVars>>

(* No buffer, silence after speech, no speech, or the maximal length.       *)
VoiceRecorded ==
  /\ Then("record", "recorded") /\ recording' = FALSE
  /\ UNCHANGED <<vars, ui, bits, taken, kpc, tpc, ttsVars, shown, userVars>>

(* Too short or without speech: discarded.  (fresh bounds the requests.)    *)
VoiceDiscard ==
  /\ Then("recorded", "idle")
  /\ UNCHANGED <<vars, ui, bits, recording, taken, kpc, tpc, ttsVars, shown, userVars>>

VoiceTranscribe ==
  /\ Then("recorded", "stt") /\ fresh # {}
  /\ ui' = "SENDING"
  /\ UNCHANGED <<vars, bits, recording, taken, kpc, tpc, ttsVars, shown, userVars>>

(* Mutant of VoiceTranscribed: a cancel during transcription is not looked  *)
(* for.                                                                     *)
VoiceTranscribedUnchecked ==
  /\ Then("stt", "send")
  /\ UNCHANGED <<vars, ui, bits, recording, taken, kpc, tpc, ttsVars, shown, userVars>>

(* The transcription is there: one last look for a cancel.                  *)
VoiceTranscribed ==
  /\ mpc = "stt"
  /\ IF "CANCEL" \in bits
     THEN mpc' = "idle" /\ bits' = bits \ {"CANCEL"}
     ELSE mpc' = "send" /\ UNCHANGED bits
  /\ UNCHANGED <<vars, ui, recording, taken, kpc, tpc, ttsVars, shown, userVars>>

(* openclaw_chat_send, whose refusal nobody notices.                        *)
ChatSend ==
  /\ IF oc = "CONNECTED" THEN \E r \in fresh : SendBegin(main, r)
                         ELSE UNCHANGED vars
  /\ UNCHANGED <<ui, bits, recording, taken, kpc, tpc, ttsVars, shown, userVars>>

Sent == Idle(main) /\ UNCHANGED <<vars, ui, bits, recording, taken, kpc, tpc, ttsVars,
                                  shown, userVars>>

VoiceSend == Then("send", "sending") /\ ChatSend
VoiceSent == Then("sending", "resume") /\ Sent
DetailsSend == Then("ask", "asking") /\ ChatSend
DetailsSent == Then("asking", "handle") /\ Sent

(* wake_word_resume, after voice_chat_start.                                *)
VoiceResume ==
  /\ Then("resume", "handle") /\ paused' = FALSE
  /\ UNCHANGED <<vars, ui, bits, recording, taken, kpc, tpc, ttsPending, listen,
                 playing, shown, userVars>>

MainNext ==
  \/ MainTake \/ MainLoop \/ MainTouch \/ MainKnob \/ MainWake \/ MainDetails
  \/ MainStop \/ MainStopped \/ MainAbort \/ MainAborted \/ BackToIdle
  \/ VoiceStart \/ VoiceRecord \/ VoiceCancelled \/ VoiceRecorded \/ VoiceDiscard
  \/ VoiceTranscribe \/ VoiceTranscribed \/ VoiceSend \/ VoiceSent \/ VoiceResume
  \/ DetailsSend \/ DetailsSent

-----------------------------------------------------------------------------
(* tts_play_task.                                                           *)

(* It takes the bit and, unless something plays or the text is empty (a     *)
(* final without content, or of nothing but tags), speaks.                  *)
TtsTake ==
  /\ tpc = "wait" /\ "TTS" \in bits
  /\ bits' = bits \ {"TTS"} /\ ttsPending' = FALSE
  /\ tpc' \in IF playing THEN {"wait"} ELSE {"load", "noText"}
  /\ UNCHANGED <<vars, ui, recording, mpc, taken, kpc, listen, playing, paused, shown,
                 userVars>>

TtsNoText ==
  /\ tpc = "noText" /\ tpc' = "wait" /\ ui' = "IDLE"
  /\ UNCHANGED <<vars, bits, recording, mpc, taken, kpc, ttsVars, shown, userVars>>

TtsLoad ==
  /\ tpc = "load" /\ tpc' = "speak" /\ ui' = "TTS_LOADING"
  /\ UNCHANGED <<vars, bits, recording, mpc, taken, kpc, ttsVars, shown, userVars>>

(* wake_word_pause and tts_speak ...                                        *)
TtsSpeak ==
  /\ tpc = "speak" /\ tpc' = "speaking"
  /\ playing' = TRUE /\ paused' = TRUE
  /\ UNCHANGED <<vars, ui, bits, recording, mpc, taken, kpc, ttsPending, listen,
                 shown, userVars>>

(* ... which returns when all is played, stopped, or failed; then           *)
(* wake_word_resume.                                                        *)
TtsSpoken ==
  /\ tpc = "speaking" /\ playing' = FALSE /\ paused' = FALSE
  /\ \E result \in {"failed", "spoken"} : tpc' = result
  /\ UNCHANGED <<vars, ui, bits, recording, mpc, taken, kpc, ttsPending, listen,
                 shown, userVars>>

TtsFailed ==
  /\ tpc = "failed" /\ tpc' = "apology" /\ ui' = "RESPONSE"
  /\ UNCHANGED <<vars, bits, recording, mpc, taken, kpc, ttsVars, shown, userVars>>

TtsApology ==
  /\ tpc = "apology" /\ tpc' = "spoken" /\ listen' = FALSE
  /\ UNCHANGED <<vars, ui, bits, recording, mpc, taken, kpc, ttsPending, playing, paused,
                 shown, userVars>>

TtsDone ==
  /\ tpc = "spoken" /\ tpc' = "done" /\ ui' = "IDLE"
  /\ UNCHANGED <<vars, bits, recording, mpc, taken, kpc, ttsVars, shown, userVars>>

(* A follow-up reply is expected: recording is triggered after a pause.     *)
TtsFollowUp ==
  /\ tpc = "done" /\ tpc' = IF listen THEN "pause" ELSE "wait"
  /\ listen' = FALSE
  /\ UNCHANGED <<vars, ui, bits, recording, mpc, taken, kpc, ttsPending, playing, paused,
                 shown, userVars>>

TtsListen ==
  /\ tpc = "pause" /\ tpc' = "wait" /\ bits' = bits \cup {"WAKE"}
  /\ UNCHANGED <<vars, ui, recording, mpc, taken, kpc, ttsVars, shown, userVars>>

TtsNext ==
  \/ TtsTake \/ TtsNoText \/ TtsLoad \/ TtsSpeak \/ TtsSpoken \/ TtsFailed
  \/ TtsApology \/ TtsDone \/ TtsFollowUp \/ TtsListen

-----------------------------------------------------------------------------
(* The callbacks of the client.                                             *)

(* Mutant of Shows: one enum is taken for the other.                        *)
ShowsCast(st) == st

(* on_openclaw_state: the interface state that follows a state of the       *)
(* client.                                                                  *)
Shows(st) ==
  CASE st = "CONNECTED" /\ ui \in {"BOOT", "CONNECTING", "ERROR"} -> "IDLE"
    [] st \in {"CONNECTING", "AUTHENTICATING"} -> "CONNECTING"
    [] st = "CHAT_THINKING" -> "THINKING"
    [] st = "CHAT_STREAMING" -> "STREAMING"
    [] st = "DISCONNECTED" /\ ui \in {"IDLE", "BOOT", "CONNECTING"} -> "CONNECTING"
    [] st = "ERROR" -> "ERROR"
    [] OTHER -> ui

OnState(th) ==
  /\ StateCallback(th)
  /\ ui' = Shows(notify[th])
  /\ UNCHANGED <<bits, recording, taskVars, ttsVars, shown, userVars>>

(* app_on_chat_response with is_final: the follow-up tag, the response, and *)
(* its speech.                                                              *)
OnChatResponse(follow) ==
  /\ AnswerChat
  /\ listen' = follow
  /\ ui' = "RESPONSE" /\ shown' = TRUE
  /\ ttsPending' = (ttsPending \/ AutoRead)
  /\ bits' = IF AutoRead THEN bits \cup {"TTS"} ELSE bits
  /\ UNCHANGED <<recording, taskVars, playing, paused, userVars>>

(* status_update_task: a response is shown for 60 s.                        *)
ResponseTimeout ==
  /\ ui = "RESPONSE" /\ shown
  /\ ui' = "IDLE" /\ shown' = FALSE
  /\ UNCHANGED <<vars, bits, recording, taskVars, ttsVars, userVars>>

(* chat_send has not returned: its last step is the callback for THINKING.  *)
InsideSend(r) == \E t \in Tasks : arg[t] = r \/ notify[t] = "CHAT_THINKING"

(* What else the client and the gateway do.                                 *)
ClientNext ==
  /\ \/ Connect \/ WatchdogDisconnect
     \/ WsOpened \/ WsLost \/ WsError \/ OnChallenge
     \/ OnResponse("ok") \/ OnResponse("error")
     \/ OnChatDelta \/ StreamChat \/ OnChatFinal \/ LoadCallback \/ CloseChat
     \/ ChatClosed
     \/ \E t \in Tasks : SendRegister(t) \/ SendFails(t) \/ SendAnnounce(t) \/ Transmit(t)
                         \/ SendDone(t) \/ AbortClear(t) \/ AbortDone(t)
     \/ \E e \in Externals : GatewayStart(e)
     \/ \E r \in Runs : GatewayDelta(r)
     \/ \E r \in Runs : (InsideSend(r) => MayOutrun) /\ GatewayFinal(r)
  /\ UNCHANGED uiVars

UserNext ==
  \/ Click \/ CancelButton \/ Touch \/ Details \/ Play \/ WakeWord
  \/ SpinCancels \/ SpinAborts \/ SpinStopsSpeech \/ SpinDismisses

CallbackNext ==
  \/ \E th \in Threads : OnState(th)
  \/ \E follow \in BOOLEAN : OnChatResponse(follow)

AssistantNext ==
  UserNext \/ KnobNext \/ MainNext \/ TtsNext \/ CallbackNext \/ ResponseTimeout
  \/ ClientNext

AssistantSpec == AssistantInit /\ [][AssistantNext]_allVars

(* Every task runs on; a recording, a transcription and a playback end; a   *)
(* displayed response times out.  Nothing is assumed of the user.           *)
AssistantFairness ==
  /\ Fairness
  /\ WF_allVars(KnobNext) /\ WF_allVars(MainNext) /\ WF_allVars(TtsNext)
  /\ WF_allVars(ResponseTimeout)
  /\ \A th \in Threads : WF_allVars(OnState(th))

AssistantFairSpec == AssistantSpec /\ AssistantFairness

-----------------------------------------------------------------------------
(* The shape of the state.                                                  *)
AssistantTypeOK ==
  /\ ui \in UiStates /\ bits \subseteq Bits /\ recording \in BOOLEAN
  /\ mpc \in {"wait", "handle", "stop", "stopping", "abort", "aborting", "idle",
              "start", "beep", "record", "recorded", "stt", "send", "sending", "resume",
              "ask", "asking"}
  /\ taken \subseteq MainBits
  /\ kpc \in {"idle", "abort", "aborting", "stopping"}
  /\ tpc \in {"wait", "noText", "load", "speak", "speaking", "failed", "apology",
              "spoken", "done", "pause"}
  /\ ttsPending \in BOOLEAN /\ listen \in BOOLEAN /\ playing \in BOOLEAN
  /\ paused \in BOOLEAN /\ shown \in BOOLEAN
  /\ inputs \in 0..MaxInputs
  /\ past \in [cancel : BOOLEAN, touch : BOOLEAN]

(* A cancel made while recording or transcribing, by the wheel or by the    *)
(* cancel button, is honoured: what was said is not sent (voice_chat.c:     *)
(* 98-108 and 250-257 share the one CANCEL bit).                            *)
CancelHonoured == mpc = "send" => ~past.cancel

(* A recording is never made over a chat still in progress, whose answer    *)
(* would break into it, whatever the interface shows: it may show RESPONSE  *)
(* or IDLE before the chat is closed (voice_chat.c:43).  The exception is   *)
(* that of the client's guard: a request registered between the two stores  *)
(* of an abort runs in a client that says CONNECTED.                        *)
NoChatWhileRecording == recording => chatCb \in {None} \cup crossed

(* Where every run outlasts the call that sent it and nobody aborts, the    *)
(* assistant is READY again once the user leaves it alone, in whatever      *)
(* order voice chats, cancels, touches, responses, their speech and the     *)
(* follow-up recordings came.                                               *)
ReadyAgain == []<>(ui = "IDLE")

(* A touch during recording cancels it (app_main.c:411): nothing is sent.   *)
TouchCancels == mpc = "send" => ~past.touch
=============================================================================
