------------------------------- MODULE Speech -------------------------------
(***************************************************************************)
(* Speaking a text: components/tts/tts_client.c (tts_speak, tts_stop), the *)
(* task that turns TTS_PLAY_BIT into speech (tts_play_task of              *)
(* main/app_tasks.c), the one-shot announcer and the notification callback *)
(* of main/app_main.c, and the pause flag of the wake word engine they all *)
(* write.                                                                  *)
(*                                                                         *)
(* s_tts.playing and s_tts.stop_requested are plain variables shared by    *)
(* every task; tts_stop waits for the first to fall, for at most 2.5 s.    *)
(* The MP3 is abstracted to "more to play or not", a text to where it came *)
(* from, and the heap to the buffers of tts_speak that are still allocated.*)
(***************************************************************************)
EXTENDS Naturals, FiniteSets

CONSTANTS
  Voices,          \* tasks that speak: "tts" and, without a display, "ann"
  Stoppers,        \* tasks that call tts_stop because the user asks for it
  MaxTexts,        \* bound: texts handed over for speaking
  MaxStops,        \* bound: tts_stop calls
  MaxStarved       \* bound: allocations that fail

ASSUME VoicesAssumption == "tts" \in Voices /\ Voices \subseteq {"tts", "ann"}
ASSUME SpeechBoundsAssumption == MaxTexts \in Nat /\ MaxStops \in Nat /\ MaxStarved \in Nat

VARIABLES
  talking,         \* s_tts.playing
  stopReq,         \* s_tts.stop_requested
  talk,            \* where each voice is
  heap,            \* the buffers of tts_speak each voice holds
  leaked,          \* buffers nobody will free
  deaf,            \* the wake word engine's s_paused
  speakBit,        \* TTS_PLAY_BIT
  notice,          \* g_tts_text is not empty
  copying,         \* on_openclaw_notify has set the bit, not yet g_tts_text
  reply,           \* ui_get_full_response() is not empty
  notified,        \* this utterance of "tts" comes from g_tts_text
  announcing,      \* s_announce_running
  listenOn,        \* g_continue_listening
  wakeBit,         \* WAKE_WORD_BIT set by the TTS task
  face,            \* what the interface shows of the speech
  stopPc,          \* where each stopper is
  recording,       \* the main loop is inside voice_chat_start
  doomed,          \* history: voices stopped in the middle of an utterance
  texts, stops, starved

speechVars == <<talking, stopReq, talk, heap, leaked, deaf, speakBit, notice,
                copying, reply, notified, announcing, listenOn, wakeBit, face,
                stopPc, recording, doomed, texts, stops, starved>>
player == <<talking, stopReq>>
memory == <<heap, leaked, starved>>
inbox == <<speakBit, notice, copying, reply, notified, texts>>
outbox == <<announcing, listenOn, wakeBit, face, recording>>
stopVars == <<stopPc, doomed, stops>>

Buffers == {"clean", "json", "escaped", "mp3", "dec", "pcm", "resamp"}

SpeechTypeOK ==
  /\ talking \in BOOLEAN /\ stopReq \in BOOLEAN /\ deaf \in BOOLEAN
  /\ talk \in [Voices -> {"rest", "mute", "enter", "wait", "claim", "prepare",
                          "request", "load", "play", "sound", "close",
                          "break", "unmute", "failed", "after", "sorry"}]
  /\ heap \in [Voices -> SUBSET Buffers] /\ leaked \subseteq Buffers
  /\ speakBit \in BOOLEAN /\ notice \in BOOLEAN /\ reply \in BOOLEAN
  /\ notified \in BOOLEAN /\ announcing \in BOOLEAN /\ copying \in BOOLEAN
  /\ listenOn \in BOOLEAN /\ wakeBit \in BOOLEAN /\ recording \in BOOLEAN
  /\ face \in {"idle", "response", "loading"}
  /\ stopPc \in [Stoppers -> {"rest", "waiting"}]
  /\ doomed \subseteq Voices
  /\ texts \in 0..MaxTexts /\ stops \in 0..MaxStops /\ starved \in 0..MaxStarved

SpeechInit ==
  /\ talking = FALSE /\ stopReq = FALSE /\ deaf = FALSE
  /\ talk = [v \in Voices |-> "rest"]
  /\ heap = [v \in Voices |-> {}] /\ leaked = {}
  /\ speakBit = FALSE /\ notice = FALSE /\ reply = FALSE /\ notified = FALSE
  /\ copying = FALSE /\ recording = FALSE
  /\ announcing = FALSE /\ listenOn = FALSE /\ wakeBit = FALSE
  /\ face = "idle"
  /\ stopPc = [s \in Stoppers |-> "rest"] /\ doomed = {}
  /\ texts = 0 /\ stops = 0 /\ starved = 0

Goto(v, pc) == talk' = [talk EXCEPT ![v] = pc]

-----------------------------------------------------------------------------
(* Texts arrive: an answer of the assistant, a notification, or, on boards *)
(* without a display, the address of the web server.                       *)

\* app_on_chat_response, its last lines; listens: the answer held [LISTEN].
AnswerToSpeak(listens) ==
  /\ texts < MaxTexts /\ ~copying
  /\ texts' = texts + 1
  /\ listenOn' = listens
  /\ reply' = TRUE /\ face' = "response" /\ speakBit' = TRUE
  /\ UNCHANGED <<player, talk, memory, deaf, notice, copying, notified,
                 announcing, wakeBit, recording, stopVars>>

\* on_openclaw_notify: the response is shown and the bit set ...
NoticeToSpeak ==
  /\ texts < MaxTexts /\ ~copying
  /\ texts' = texts + 1
  /\ reply' = TRUE /\ face' = "response" /\ speakBit' = TRUE
  /\ copying' = TRUE
  /\ UNCHANGED <<player, talk, memory, deaf, notice, notified, announcing,
                 listenOn, wakeBit, recording, stopVars>>

\* ... before the text is copied to where tts_play_task looks first.
CopyNotice ==
  /\ copying
  /\ copying' = FALSE /\ notice' = TRUE
  /\ UNCHANGED <<player, talk, memory, deaf, speakBit, reply, notified, texts,
                 outbox, stopVars>>

\* speak_announcement: skipped while one runs.
Announce ==
  /\ "ann" \in Voices /\ texts < MaxTexts
  /\ texts' = texts + 1
  /\ announcing' = TRUE
  /\ IF announcing THEN UNCHANGED talk ELSE Goto("ann", "mute")
  /\ UNCHANGED <<player, memory, deaf, speakBit, notice, copying, reply,
                 notified, listenOn, wakeBit, face, recording, stopVars>>

-----------------------------------------------------------------------------
(* tts_play_task and announce_tts_task around tts_speak.                   *)

TakeSpeakBit ==
  /\ talk["tts"] = "rest" /\ speakBit
  /\ speakBit' = FALSE
  /\ IF talking
     THEN UNCHANGED <<notified, face, talk>>
     ELSE /\ notified' = notice
          /\ IF notice \/ reply
             THEN face' = "loading" /\ Goto("tts", "mute")
             ELSE face' = "idle" /\ UNCHANGED talk
  /\ UNCHANGED <<player, memory, deaf, notice, copying, reply, texts,
                 announcing, listenOn, wakeBit, recording, stopVars>>

Mute(v) ==
  /\ talk[v] = "mute"
  /\ deaf' = TRUE /\ Goto(v, "enter")
  /\ UNCHANGED <<player, memory, inbox, outbox, stopVars>>

\* Mutant: the engine is resumed after a success only.
UnmuteSuccess(v) ==
  /\ talk[v] \in {"unmute", "failed"}
  /\ deaf' = (deaf /\ talk[v] = "failed")
  /\ IF v = "ann"
     THEN Goto(v, "rest") /\ announcing' = FALSE /\ UNCHANGED notice
     ELSE /\ Goto(v, IF talk[v] = "unmute" THEN "after" ELSE "sorry")
          /\ notice' = (notice /\ ~notified)
          /\ UNCHANGED announcing
  /\ UNCHANGED <<player, memory, speakBit, copying, reply, notified, texts,
                 listenOn, wakeBit, face, recording, stopVars>>

\* Whatever tts_speak returned, the engine listens again; then the text of a
\* notification is spent, or the announcement over.
Unmute(v) ==
  /\ talk[v] \in {"unmute", "failed"}
  /\ deaf' = FALSE
  /\ IF v = "ann"
     THEN Goto(v, "rest") /\ announcing' = FALSE /\ UNCHANGED notice
     ELSE /\ Goto(v, IF talk[v] = "unmute" THEN "after" ELSE "sorry")
          /\ notice' = (notice /\ ~notified)
          /\ UNCHANGED announcing
  /\ UNCHANGED <<player, memory, speakBit, copying, reply, notified, texts,
                 listenOn, wakeBit, face, recording, stopVars>>

\* A failure is shown for two seconds and ends the conversation.
Apologise ==
  /\ talk["tts"] = "sorry"
  /\ face' = "response" /\ listenOn' = FALSE /\ Goto("tts", "after")
  /\ UNCHANGED <<player, memory, deaf, inbox, announcing, wakeBit, recording,
                 stopVars>>

\* Back to IDLE, and on to a follow-up recording if the answer asked for one.
AfterSpeech ==
  /\ talk["tts"] = "after"
  /\ face' = "idle" /\ listenOn' = FALSE
  /\ wakeBit' = (wakeBit \/ listenOn)
  /\ Goto("tts", "rest")
  /\ UNCHANGED <<player, memory, deaf, inbox, announcing, recording, stopVars>>

-----------------------------------------------------------------------------
(* tts_speak, between any two reads or writes of the shared flags.         *)

\* Another voice plays: stop it first ...
EnterSpeak(v) ==
  /\ talk[v] = "enter"
  /\ stopReq' = (stopReq \/ talking)
  /\ Goto(v, IF talking THEN "wait" ELSE "claim")
  /\ UNCHANGED <<talking, memory, deaf, inbox, outbox, stopVars>>

\* ... and go on when it has fallen silent, or after 2.5 s in any case.
BargeIn(v) ==
  /\ talk[v] = "wait"
  /\ Goto(v, "claim")
  /\ UNCHANGED <<player, memory, deaf, inbox, outbox, stopVars>>

Claim(v) ==
  /\ talk[v] = "claim"
  /\ talking' = TRUE /\ stopReq' = FALSE
  /\ doomed' = {}
  /\ Goto(v, "prepare")
  /\ UNCHANGED <<memory, deaf, inbox, outbox, stopPc, stops>>

Starve == starved < MaxStarved /\ starved' = starved + 1

\* The text is cleaned, escaped and put into the request; a failure returns at
\* once.  When the body cannot be allocated, the cleaned text is not freed.
Prepare(v) ==
  /\ talk[v] = "prepare"
  /\ \/ /\ heap' = [heap EXCEPT ![v] = {"json"}]
        /\ Goto(v, "request")
        /\ UNCHANGED <<talking, leaked, starved>>
     \/ /\ Starve
        /\ \E lost \in {{}, {"clean"}} : leaked' = leaked \cup lost
        /\ talking' = FALSE /\ Goto(v, "failed")
        /\ UNCHANGED heap
  /\ UNCHANGED <<stopReq, deaf, inbox, outbox, stopVars>>

\* The request is sent: the server answers, or something fails.
Request(v) ==
  /\ talk[v] = "request"
  /\ \/ /\ heap' = [heap EXCEPT ![v] = @ \cup {"mp3"}]
        /\ Goto(v, "load") /\ UNCHANGED starved
     \/ Goto(v, "break") /\ UNCHANGED <<heap, starved>>
     \/ Starve /\ Goto(v, "break") /\ UNCHANGED heap
  /\ UNCHANGED <<player, leaked, deaf, inbox, outbox, stopVars>>

\* The MP3 has come, or its download was stopped: decoder, PCM and resampling
\* buffers.  The last two failures free everything but the decoder.
Load(v) ==
  /\ talk[v] = "load"
  /\ \/ /\ heap' = [heap EXCEPT ![v] = @ \cup {"dec", "pcm", "resamp"}]
        /\ Goto(v, "play")
        /\ UNCHANGED <<leaked, starved>>
     \/ /\ Starve
        /\ \E lost \in {{}, {"dec"}} : leaked' = leaked \cup lost
        /\ heap' = [heap EXCEPT ![v] = {"json"}]
        /\ Goto(v, "break")
  /\ UNCHANGED <<player, deaf, inbox, outbox, stopVars>>

\* Mutant: the loop does not look at the flag.
PlayFrameDeaf(v) ==
  /\ talk[v] = "play"
  /\ Goto(v, "sound")
  /\ UNCHANGED <<player, memory, deaf, inbox, outbox, stopVars>>

PlayFrame(v) ==
  /\ talk[v] = "play" /\ ~stopReq
  /\ Goto(v, "sound")
  /\ UNCHANGED <<player, memory, deaf, inbox, outbox, stopVars>>

FrameDone(v) ==
  /\ talk[v] = "sound"
  /\ Goto(v, "play")
  /\ UNCHANGED <<player, memory, deaf, inbox, outbox, stopVars>>

\* stop_requested, or no frame left.
EndPlay(v) ==
  /\ talk[v] = "play"
  /\ heap' = [heap EXCEPT ![v] = {"json"}]
  /\ Goto(v, "close")
  /\ UNCHANGED <<player, leaked, starved, deaf, inbox, outbox, stopVars>>

CloseHttp(v) ==
  /\ talk[v] \in {"close", "break"}
  /\ heap' = [heap EXCEPT ![v] = {}]
  /\ talking' = FALSE
  /\ Goto(v, IF talk[v] = "close" THEN "unmute" ELSE "failed")
  /\ UNCHANGED <<stopReq, leaked, starved, deaf, inbox, outbox, stopVars>>

-----------------------------------------------------------------------------
(* tts_stop by the wheel or the main loop, and a recording by the latter.  *)

InUtterance == {v \in Voices : talk[v] \in {"prepare", "request", "load",
                                           "play", "sound", "close", "break"}}

Stop(s) ==
  /\ stopPc[s] = "rest" /\ stops < MaxStops /\ face = "loading"
  /\ stops' = stops + 1
  /\ stopReq' = TRUE
  /\ stopPc' = [stopPc EXCEPT ![s] = "waiting"]
  /\ doomed' = IF talking THEN doomed \cup InUtterance ELSE doomed
  /\ UNCHANGED <<talking, talk, memory, deaf, inbox, outbox>>

\* It polls every 50 ms and gives up after 2.5 s; then its caller calls off
\* the follow-up recording, and the main loop also shows IDLE.
StopReturns(s) ==
  /\ stopPc[s] = "waiting"
  /\ stopPc' = [stopPc EXCEPT ![s] = "rest"]
  /\ listenOn' = FALSE
  /\ face' = IF s = "main" THEN "idle" ELSE face
  /\ UNCHANGED <<player, talk, memory, deaf, inbox, announcing, wakeBit,
                 recording, doomed, stops>>

\* The main loop records: the engine is paused for it and resumed after it.
RecordStart ==
  /\ ~recording /\ face # "loading"
  /\ "main" \in Stoppers => stopPc["main"] = "rest"
  /\ recording' = TRUE /\ deaf' = TRUE /\ wakeBit' = FALSE
  /\ UNCHANGED <<player, talk, memory, inbox, announcing, listenOn, face,
                 stopVars>>

RecordEnd ==
  /\ recording
  /\ recording' = FALSE /\ deaf' = FALSE
  /\ UNCHANGED <<player, talk, memory, inbox, announcing, listenOn, wakeBit,
                 face, stopVars>>

Speak(v) ==
  \/ Mute(v) \/ EnterSpeak(v) \/ BargeIn(v) \/ Claim(v) \/ Prepare(v)
  \/ Request(v) \/ Load(v) \/ FrameDone(v) \/ EndPlay(v) \/ CloseHttp(v)
  \/ Unmute(v)

SpeechNext ==
  \/ \E listens \in BOOLEAN : AnswerToSpeak(listens)
  \/ NoticeToSpeak \/ CopyNotice \/ Announce
  \/ TakeSpeakBit \/ Apologise \/ AfterSpeech
  \/ \E v \in Voices : Speak(v) \/ PlayFrame(v)
  \/ \E s \in Stoppers : Stop(s) \/ StopReturns(s)
  \/ RecordStart \/ RecordEnd

SpeechSpec == SpeechInit /\ [][SpeechNext]_speechVars

-----------------------------------------------------------------------------
(* Properties.                                                             *)

\* tts_client.c:270: a stop that finds a voice in the middle of its utterance
\* lets no further frame of it be heard (unless another voice barges in and
\* takes the flag back).
StopSilences ==
  [][\A v \in Voices : talk[v] = "play" /\ talk'[v] = "sound" =>
       v \notin doomed]_speechVars

\* Pause and resume do not nest and are called by three tasks, yet nobody
\* leaves the wake word engine paused: with no voice and no recording under
\* way it listens.
NeverLeftDeaf ==
  deaf => recording \/ \E v \in Voices : talk[v] \notin {"rest", "mute", "after", "sorry"}

\* Every way out of tts_speak frees what it allocated, except when memory ran
\* out on the way.
LeaksOnlyWhenStarved ==
  /\ leaked # {} => starved > 0
  /\ \A v \in Voices : v \notin InUtterance => heap[v] = {}

\* However a speech ended, it leaves nothing behind.
SpeechLeavesNothing == NeverLeftDeaf /\ LeaksOnlyWhenStarved
=============================================================================
