------------------------ MODULE VoiceAssistantProofs ------------------------
(***************************************************************************)
(* Proof that a cancelled recording is never sent, whatever the client,    *)
(* the gateway, the other tasks and the user do meanwhile.  The argument   *)
(* follows the CANCEL bit: a cancel sets it, only the two checks of        *)
(* voice_chat.c consume it, and both of them end the voice chat.           *)
(***************************************************************************)
EXTENDS VoiceAssistant, OpenClawClientProofs, TLAPS

PastType == past \in [cancel : BOOLEAN, touch : BOOLEAN]

(* g_recording is set during the recording loop only, so that the knob task *)
(* that reads it raises CANCEL for this recording.                          *)
RecordingLoop == recording => mpc = "record"

(* A cancel that has still to be honoured is pending as a bit.              *)
CancelPending == mpc \in Recording /\ past.cancel => "CANCEL" \in bits

CancelInv ==
  /\ ui \in UiStates /\ PastType
  /\ RecordingLoop /\ CancelPending /\ CancelHonoured

USE DEF Then, Handle, Input, Turn, Recording, MainBits, uiVars, taskVars, ttsVars,
        userVars, CancelInv, PastType, RecordingLoop, CancelPending, CancelHonoured,
        UiStates

(* Nothing was cancelled yet at the start.                                  *)
LEMMA CancelInit == AssistantInit => CancelInv
BY DEF AssistantInit

(* The user's inputs: those that record a cancel set the bit as well.       *)
LEMMA CancelUser == CancelInv /\ UserNext => CancelInv'
<1> SUFFICES ASSUME CancelInv, UserNext PROVE CancelInv'
  OBVIOUS
<1>1. CASE Click
  BY <1>1 DEF Click
<1>2. CASE CancelButton
  BY <1>2 DEF CancelButton
<1>3. CASE Touch
  BY <1>3 DEF Touch
<1>4. CASE Details
  BY <1>4 DEF Details
<1>5. CASE Play
  BY <1>5 DEF Play
<1>6. CASE WakeWord
  BY <1>6 DEF WakeWord
<1>7. CASE SpinCancels
  BY <1>7 DEF SpinCancels
<1>8. CASE SpinAborts
  BY <1>8 DEF SpinAborts
<1>9. CASE SpinStopsSpeech
  BY <1>9 DEF SpinStopsSpeech
<1>10. CASE SpinDismisses
  BY <1>10 DEF SpinDismisses
<1> QED
  BY <1>1, <1>2, <1>3, <1>4, <1>5, <1>6, <1>7, <1>8, <1>9, <1>10 DEF UserNext

(* The knob task ends an abort or a stop: no step of it touches the CANCEL  *)
(* bit or the recording.                                                    *)
LEMMA CancelKnob == CancelInv /\ KnobNext => CancelInv'
<1> SUFFICES ASSUME CancelInv, KnobNext PROVE CancelInv'
  OBVIOUS
<1>1. CASE KnobAbort
  BY <1>1 DEF KnobAbort
<1>2. CASE KnobAborted
  BY <1>2 DEF KnobAborted
<1>3. CASE KnobStopped
  BY <1>3 DEF KnobStopped
<1> QED
  BY <1>1, <1>2, <1>3 DEF KnobNext

(* The main loop: it never takes the CANCEL bit with its own, and           *)
(* voice_chat.c consumes it only to end the voice chat.                     *)
LEMMA CancelMain == CancelInv /\ MainNext => CancelInv'
<1> SUFFICES ASSUME CancelInv, MainNext PROVE CancelInv'
  OBVIOUS
<1>1. CASE MainTake
  BY <1>1 DEF MainTake
<1>2. CASE MainLoop
  BY <1>2 DEF MainLoop
<1>3. CASE MainTouch
  BY <1>3 DEF MainTouch
<1>4. CASE MainKnob
  BY <1>4 DEF MainKnob, PauseToStart
<1>5. CASE MainWake
  BY <1>5 DEF MainWake, PauseToStart
<1>6. CASE MainDetails
  BY <1>6 DEF MainDetails
<1>7. CASE MainStop
  BY <1>7 DEF MainStop
<1>8. CASE MainStopped
  BY <1>8 DEF MainStopped
<1>9. CASE MainAbort
  BY <1>9 DEF MainAbort
<1>10. CASE MainAborted
  BY <1>10 DEF MainAborted
<1>11. CASE BackToIdle
  BY <1>11 DEF BackToIdle
<1>12. CASE VoiceStart
  BY <1>12 DEF VoiceStart
<1>13. CASE VoiceRecord
  BY <1>13 DEF VoiceRecord
<1>14. CASE VoiceCancelled
  BY <1>14 DEF VoiceCancelled
<1>15. CASE VoiceRecorded
  BY <1>15 DEF VoiceRecorded
<1>16. CASE VoiceDiscard
  BY <1>16 DEF VoiceDiscard
<1>17. CASE VoiceTranscribe
  BY <1>17 DEF VoiceTranscribe
<1>18. CASE VoiceTranscribed
  BY <1>18 DEF VoiceTranscribed
<1>19. CASE VoiceSend
  BY <1>19 DEF VoiceSend, ChatSend
<1>20. CASE VoiceSent
  BY <1>20 DEF VoiceSent, Sent
<1>21. CASE VoiceResume
  BY <1>21 DEF VoiceResume
<1>22. CASE DetailsSend
  BY <1>22 DEF DetailsSend, ChatSend
<1>23. CASE DetailsSent
  BY <1>23 DEF DetailsSent, Sent
<1> QED
  BY <1>1, <1>2, <1>3, <1>4, <1>5, <1>6, <1>7, <1>8, <1>9, <1>10, <1>11, <1>12, <1>13, <1>14, <1>15, <1>16, <1>17, <1>18, <1>19, <1>20, <1>21, <1>22, <1>23 DEF MainNext

(* The TTS task takes only its own bit.                                     *)
LEMMA CancelTts == CancelInv /\ TtsNext => CancelInv'
<1> SUFFICES ASSUME CancelInv, TtsNext PROVE CancelInv'
  OBVIOUS
<1>1. CASE TtsTake
  BY <1>1 DEF TtsTake
<1>2. CASE TtsNoText
  BY <1>2 DEF TtsNoText
<1>3. CASE TtsLoad
  BY <1>3 DEF TtsLoad
<1>4. CASE TtsSpeak
  BY <1>4 DEF TtsSpeak
<1>5. CASE TtsSpoken
  BY <1>5 DEF TtsSpoken
<1>6. CASE TtsFailed
  BY <1>6 DEF TtsFailed
<1>7. CASE TtsApology
  BY <1>7 DEF TtsApology
<1>8. CASE TtsDone
  BY <1>8 DEF TtsDone
<1>9. CASE TtsFollowUp
  BY <1>9 DEF TtsFollowUp
<1>10. CASE TtsListen
  BY <1>10 DEF TtsListen
<1> QED
  BY <1>1, <1>2, <1>3, <1>4, <1>5, <1>6, <1>7, <1>8, <1>9, <1>10 DEF TtsNext

(* Every step, the callbacks and the client's own included, preserves the   *)
(* invariant.                                                               *)
LEMMA CancelNext == CancelInv /\ [AssistantNext]_allVars => CancelInv'
<1> SUFFICES ASSUME CancelInv, [AssistantNext]_allVars PROVE CancelInv'
  OBVIOUS
<1>1. CASE UserNext
  BY <1>1, CancelUser
<1>2. CASE KnobNext
  BY <1>2, CancelKnob
<1>3. CASE MainNext
  BY <1>3, CancelMain
<1>4. CASE TtsNext
  BY <1>4, CancelTts
<1>5. ASSUME NEW th \in Threads, OnState(th) PROVE CancelInv'
  <2>1. ui' \in UiStates
    BY <1>5 DEF OnState, Shows
  <2> QED
    BY <1>5, <2>1 DEF OnState
<1>6. ASSUME NEW follow \in BOOLEAN, OnChatResponse(follow) PROVE CancelInv'
  BY <1>6 DEF OnChatResponse
<1>7. CASE ResponseTimeout
  BY <1>7 DEF ResponseTimeout
<1>8. CASE ClientNext
  BY <1>8 DEF ClientNext
<1>9. CASE UNCHANGED allVars
  BY <1>9 DEF allVars
<1> QED
  BY <1>1, <1>2, <1>3, <1>4, <1>5, <1>6, <1>7, <1>8, <1>9 DEF AssistantNext, CallbackNext

(* A recording or transcription the user cancelled by the wheel or by the   *)
(* cancel button is never sent (voice_chat.c:98-108, 250-257).              *)
THEOREM CancelIsHonoured == AssistantSpec => []CancelHonoured
<1>1. CancelInv => CancelHonoured
  OBVIOUS
<1> QED
  BY CancelInit, CancelNext, <1>1, PTL DEF AssistantSpec

-----------------------------------------------------------------------------
(* Types.  AssistantTypeOK is inductive as it stands; the state of the      *)
(* client plays no part in it.  The flags, which are Boolean values, are    *)
(* kept apart from the rest.                                                *)
FlagTypes ==
  /\ recording \in BOOLEAN /\ ttsPending \in BOOLEAN /\ listen \in BOOLEAN
  /\ playing \in BOOLEAN /\ paused \in BOOLEAN /\ shown \in BOOLEAN

OtherTypes ==
  /\ ui \in UiStates /\ bits \subseteq Bits
  /\ mpc \in {"wait", "handle", "stop", "stopping", "abort", "aborting", "idle",
              "start", "beep", "record", "recorded", "stt", "send", "sending", "resume",
              "ask", "asking"}
  /\ taken \subseteq MainBits
  /\ kpc \in {"idle", "abort", "aborting", "stopping"}
  /\ tpc \in {"wait", "noText", "load", "speak", "speaking", "failed", "apology",
              "spoken", "done", "pause"}
  /\ inputs \in 0..MaxInputs
  /\ PastType

(* Together they are the type invariant.                                    *)
LEMMA TypesTogether == AssistantTypeOK <=> FlagTypes /\ OtherTypes
BY Zenon DEF AssistantTypeOK, FlagTypes, OtherTypes

(* A disjunction of flags is a flag.                                        *)
LEMMA EitherFlag == ASSUME NEW p \in BOOLEAN, NEW q \in BOOLEAN PROVE (p \/ q) \in BOOLEAN
OBVIOUS

USE DEF Bits

(* The initial state is well typed.                                         *)
LEMMA AssistantTypeInit == AssistantInit => FlagTypes /\ OtherTypes
<1>1. AssistantInit => FlagTypes
  BY Zenon DEF AssistantInit, FlagTypes
<1>2. AssistantInit => OtherTypes
  BY AssistantAssumption DEF AssistantInit, OtherTypes
<1> QED
  BY <1>1, <1>2

(* The inputs are counted up to their bound.                                *)
LEMMA AssistantTypeUser ==
  FlagTypes /\ OtherTypes /\ UserNext => FlagTypes' /\ OtherTypes'
<1> SUFFICES ASSUME FlagTypes, OtherTypes, UserNext PROVE FlagTypes' /\ OtherTypes'
  OBVIOUS
<1>1. CASE Click
  <2>2. FlagTypes'
    BY <1>1, Zenon DEF Click, FlagTypes
  <2>3. bits' \subseteq Bits
    BY <1>1 DEF Click, OtherTypes
  <2>4. PastType'
    BY <1>1 DEF Click, OtherTypes
  <2>5. OtherTypes'
    BY <1>1, <2>3, <2>4, AssistantAssumption DEF Click, OtherTypes
  <2> QED
    BY <2>2, <2>5
<1>2. CASE CancelButton
  <2>2. FlagTypes'
    BY <1>2, Zenon DEF CancelButton, FlagTypes
  <2>3. bits' \subseteq Bits
    BY <1>2 DEF CancelButton, OtherTypes
  <2>4. PastType'
    BY <1>2 DEF CancelButton, OtherTypes
  <2>5. OtherTypes'
    BY <1>2, <2>3, <2>4, AssistantAssumption DEF CancelButton, OtherTypes
  <2> QED
    BY <2>2, <2>5
<1>3. CASE Touch
  <2>2. FlagTypes'
    BY <1>3, Zenon DEF Touch, FlagTypes
  <2>3. bits' \subseteq Bits
    BY <1>3 DEF Touch, OtherTypes
  <2>4. PastType'
    BY <1>3 DEF Touch, OtherTypes
  <2>5. OtherTypes'
    BY <1>3, <2>3, <2>4, AssistantAssumption DEF Touch, OtherTypes
  <2> QED
    BY <2>2, <2>5
<1>4. CASE Details
  <2>2. FlagTypes'
    BY <1>4, Zenon DEF Details, FlagTypes
  <2>3. OtherTypes'
    BY <1>4, AssistantAssumption DEF Details, OtherTypes
  <2> QED
    BY <2>2, <2>3
<1>5. CASE Play
  <2>2. FlagTypes'
    BY <1>5, Zenon DEF Play, FlagTypes
  <2>3. OtherTypes'
    BY <1>5, AssistantAssumption DEF Play, OtherTypes
  <2> QED
    BY <2>2, <2>3
<1>6. CASE WakeWord
  <2>2. FlagTypes'
    BY <1>6, Zenon DEF WakeWord, FlagTypes
  <2>3. OtherTypes'
    BY <1>6, AssistantAssumption DEF WakeWord, OtherTypes
  <2> QED
    BY <2>2, <2>3
<1>7. CASE SpinCancels
  <2>2. FlagTypes'
    BY <1>7, Zenon DEF SpinCancels, FlagTypes
  <2>3. bits' \subseteq Bits
    BY <1>7 DEF SpinCancels, OtherTypes
  <2>4. PastType'
    BY <1>7 DEF SpinCancels, OtherTypes
  <2>5. OtherTypes'
    BY <1>7, <2>3, <2>4, AssistantAssumption DEF SpinCancels, OtherTypes
  <2> QED
    BY <2>2, <2>5
<1>8. CASE SpinAborts
  <2>2. FlagTypes'
    BY <1>8, Zenon DEF SpinAborts, FlagTypes
  <2>3. OtherTypes'
    BY <1>8, AssistantAssumption DEF SpinAborts, OtherTypes
  <2> QED
    BY <2>2, <2>3
<1>9. CASE SpinStopsSpeech
  <2>2. FlagTypes'
    BY <1>9, Zenon DEF SpinStopsSpeech, FlagTypes
  <2>3. OtherTypes'
    BY <1>9, AssistantAssumption DEF SpinStopsSpeech, OtherTypes
  <2> QED
    BY <2>2, <2>3
<1>10. CASE SpinDismisses
  <2>2. FlagTypes'
    BY <1>10, Zenon DEF SpinDismisses, FlagTypes
  <2>3. OtherTypes'
    BY <1>10, AssistantAssumption DEF SpinDismisses, OtherTypes
  <2> QED
    BY <2>2, <2>3
<1> QED
  BY <1>1, <1>2, <1>3, <1>4, <1>5, <1>6, <1>7, <1>8, <1>9, <1>10
  DEF UserNext

(* The knob task moves within its three calls.                              *)
LEMMA AssistantTypeKnob ==
  FlagTypes /\ OtherTypes /\ KnobNext => FlagTypes' /\ OtherTypes'
<1> SUFFICES ASSUME FlagTypes, OtherTypes, KnobNext PROVE FlagTypes' /\ OtherTypes'
  OBVIOUS
<1>1. CASE KnobAbort
  <2>2. FlagTypes'
    BY <1>1, Zenon DEF KnobAbort, FlagTypes
  <2>3. OtherTypes'
    BY <1>1 DEF KnobAbort, OtherTypes
  <2> QED
    BY <2>2, <2>3
<1>2. CASE KnobAborted
  <2>2. FlagTypes'
    BY <1>2, Zenon DEF KnobAborted, FlagTypes
  <2>3. OtherTypes'
    BY <1>2 DEF KnobAborted, OtherTypes
  <2> QED
    BY <2>2, <2>3
<1>3. CASE KnobStopped
  <2>2. FlagTypes'
    BY <1>3, Zenon DEF KnobStopped, FlagTypes
  <2>3. OtherTypes'
    BY <1>3 DEF KnobStopped, OtherTypes
  <2> QED
    BY <2>2, <2>3
<1> QED
  BY <1>1, <1>2, <1>3
  DEF KnobNext

(* The main loop moves through its handlers and voice_chat.c.               *)
LEMMA AssistantTypeMain ==
  FlagTypes /\ OtherTypes /\ MainNext => FlagTypes' /\ OtherTypes'
<1> SUFFICES ASSUME FlagTypes, OtherTypes, MainNext PROVE FlagTypes' /\ OtherTypes'
  OBVIOUS
<1>1. CASE MainTake
  <2>2. FlagTypes'
    BY <1>1, Zenon DEF MainTake, FlagTypes
  <2>3. OtherTypes'
    BY <1>1 DEF MainTake, OtherTypes
  <2> QED
    BY <2>2, <2>3
<1>2. CASE MainLoop
  <2>2. FlagTypes'
    BY <1>2, Zenon DEF MainLoop, FlagTypes
  <2>3. OtherTypes'
    BY <1>2 DEF MainLoop, OtherTypes
  <2> QED
    BY <2>2, <2>3
<1>3. CASE MainTouch
  <2>2. FlagTypes'
    BY <1>3, Zenon DEF MainTouch, FlagTypes
  <2>3. bits' \subseteq Bits
    BY <1>3 DEF MainTouch, OtherTypes
  <2>4. PastType'
    BY <1>3 DEF MainTouch, OtherTypes
  <2>5. OtherTypes'
    BY <1>3, <2>3, <2>4 DEF MainTouch, OtherTypes
  <2> QED
    BY <2>2, <2>5
<1>4. CASE MainKnob
  <2>1. paused' \in BOOLEAN
    <3>1. (mpc' = "start") \in BOOLEAN /\ paused \in BOOLEAN
      BY Zenon DEF FlagTypes
    <3> QED
      BY <1>4, <3>1, EitherFlag, Zenon DEF MainKnob, PauseToStart
  <2>2. FlagTypes'
    BY <1>4, <2>1, Zenon DEF MainKnob, FlagTypes
  <2>3. OtherTypes'
    BY <1>4 DEF MainKnob, OtherTypes, PauseToStart
  <2> QED
    BY <2>2, <2>3
<1>5. CASE MainWake
  <2>1. paused' \in BOOLEAN
    <3>1. (mpc' = "start") \in BOOLEAN /\ paused \in BOOLEAN
      BY Zenon DEF FlagTypes
    <3> QED
      BY <1>5, <3>1, EitherFlag, Zenon DEF MainWake, PauseToStart
  <2>2. FlagTypes'
    BY <1>5, <2>1, Zenon DEF MainWake, FlagTypes
  <2>3. OtherTypes'
    BY <1>5 DEF MainWake, OtherTypes, PauseToStart
  <2> QED
    BY <2>2, <2>3
<1>6. CASE MainDetails
  <2>2. FlagTypes'
    BY <1>6, Zenon DEF MainDetails, FlagTypes
  <2>3. OtherTypes'
    BY <1>6 DEF MainDetails, OtherTypes
  <2> QED
    BY <2>2, <2>3
<1>7. CASE MainStop
  <2>2. FlagTypes'
    BY <1>7, Zenon DEF MainStop, FlagTypes
  <2>3. OtherTypes'
    BY <1>7 DEF MainStop, OtherTypes
  <2> QED
    BY <2>2, <2>3
<1>8. CASE MainStopped
  <2>2. FlagTypes'
    BY <1>8, Zenon DEF MainStopped, FlagTypes
  <2>3. OtherTypes'
    BY <1>8 DEF MainStopped, OtherTypes
  <2> QED
    BY <2>2, <2>3
<1>9. CASE MainAbort
  <2>2. FlagTypes'
    BY <1>9, Zenon DEF MainAbort, FlagTypes
  <2>3. OtherTypes'
    BY <1>9 DEF MainAbort, OtherTypes
  <2> QED
    BY <2>2, <2>3
<1>10. CASE MainAborted
  <2>2. FlagTypes'
    BY <1>10, Zenon DEF MainAborted, FlagTypes
  <2>3. OtherTypes'
    BY <1>10 DEF MainAborted, OtherTypes
  <2> QED
    BY <2>2, <2>3
<1>11. CASE BackToIdle
  <2>2. FlagTypes'
    BY <1>11, Zenon DEF BackToIdle, FlagTypes
  <2>3. OtherTypes'
    BY <1>11 DEF BackToIdle, OtherTypes
  <2> QED
    BY <2>2, <2>3
<1>12. CASE VoiceStart
  <2>2. FlagTypes'
    BY <1>12, Zenon DEF VoiceStart, FlagTypes
  <2>3. OtherTypes'
    BY <1>12 DEF VoiceStart, OtherTypes
  <2> QED
    BY <2>2, <2>3
<1>13. CASE VoiceRecord
  <2>2. FlagTypes'
    BY <1>13, Zenon DEF VoiceRecord, FlagTypes
  <2>3. OtherTypes'
    BY <1>13 DEF VoiceRecord, OtherTypes
  <2> QED
    BY <2>2, <2>3
<1>14. CASE VoiceCancelled
  <2>2. FlagTypes'
    BY <1>14, Zenon DEF VoiceCancelled, FlagTypes
  <2>3. OtherTypes'
    BY <1>14 DEF VoiceCancelled, OtherTypes
  <2> QED
    BY <2>2, <2>3
<1>15. CASE VoiceRecorded
  <2>2. FlagTypes'
    BY <1>15, Zenon DEF VoiceRecorded, FlagTypes
  <2>3. OtherTypes'
    BY <1>15 DEF VoiceRecorded, OtherTypes
  <2> QED
    BY <2>2, <2>3
<1>16. CASE VoiceDiscard
  <2>2. FlagTypes'
    BY <1>16, Zenon DEF VoiceDiscard, FlagTypes
  <2>3. OtherTypes'
    BY <1>16 DEF VoiceDiscard, OtherTypes
  <2> QED
    BY <2>2, <2>3
<1>17. CASE VoiceTranscribe
  <2>2. FlagTypes'
    BY <1>17, Zenon DEF VoiceTranscribe, FlagTypes
  <2>3. OtherTypes'
    BY <1>17 DEF VoiceTranscribe, OtherTypes
  <2> QED
    BY <2>2, <2>3
<1>18. CASE VoiceTranscribed
  <2>2. FlagTypes'
    BY <1>18, Zenon DEF VoiceTranscribed, FlagTypes
  <2>3. OtherTypes'
    <3>1. mpc' \in {"idle", "send"} /\ bits' \subseteq bits
      BY <1>18 DEF VoiceTranscribed
    <3>2. /\ ui' = ui /\ taken' = taken /\ kpc' = kpc /\ tpc' = tpc
          /\ UNCHANGED userVars
      BY <1>18 DEF VoiceTranscribed
    <3> QED BY <3>1, <3>2 DEF OtherTypes
  <2> QED
    BY <2>2, <2>3
<1>19. CASE VoiceSend
  <2>2. FlagTypes'
    BY <1>19, Zenon DEF VoiceSend, FlagTypes, ChatSend
  <2>3. OtherTypes'
    BY <1>19 DEF VoiceSend, OtherTypes, ChatSend
  <2> QED
    BY <2>2, <2>3
<1>20. CASE VoiceSent
  <2>2. FlagTypes'
    BY <1>20, Zenon DEF VoiceSent, FlagTypes, Sent
  <2>3. OtherTypes'
    BY <1>20 DEF VoiceSent, OtherTypes, Sent
  <2> QED
    BY <2>2, <2>3
<1>21. CASE VoiceResume
  <2>2. FlagTypes'
    BY <1>21, Zenon DEF VoiceResume, FlagTypes
  <2>3. OtherTypes'
    BY <1>21 DEF VoiceResume, OtherTypes
  <2> QED
    BY <2>2, <2>3
<1>22. CASE DetailsSend
  <2>2. FlagTypes'
    BY <1>22, Zenon DEF DetailsSend, FlagTypes, ChatSend
  <2>3. OtherTypes'
    BY <1>22 DEF DetailsSend, OtherTypes, ChatSend
  <2> QED
    BY <2>2, <2>3
<1>23. CASE DetailsSent
  <2>2. FlagTypes'
    BY <1>23, Zenon DEF DetailsSent, FlagTypes, Sent
  <2>3. OtherTypes'
    BY <1>23 DEF DetailsSent, OtherTypes, Sent
  <2> QED
    BY <2>2, <2>3
<1> QED
  BY <1>1, <1>2, <1>3, <1>4, <1>5, <1>6, <1>7, <1>8, <1>9, <1>10, <1>11, <1>12, <1>13,
     <1>14, <1>15, <1>16, <1>17, <1>18, <1>19, <1>20, <1>21, <1>22, <1>23
  DEF MainNext

(* The TTS task moves through its playback.                                 *)
LEMMA AssistantTypeTts ==
  FlagTypes /\ OtherTypes /\ TtsNext => FlagTypes' /\ OtherTypes'
<1> SUFFICES ASSUME FlagTypes, OtherTypes, TtsNext PROVE FlagTypes' /\ OtherTypes'
  OBVIOUS
<1>1. CASE TtsTake
  <2>2. FlagTypes'
    BY <1>1, Zenon DEF TtsTake, FlagTypes
  <2>3. OtherTypes'
    BY <1>1 DEF TtsTake, OtherTypes
  <2> QED
    BY <2>2, <2>3
<1>2. CASE TtsNoText
  <2>2. FlagTypes'
    BY <1>2, Zenon DEF TtsNoText, FlagTypes
  <2>3. OtherTypes'
    BY <1>2 DEF TtsNoText, OtherTypes
  <2> QED
    BY <2>2, <2>3
<1>3. CASE TtsLoad
  <2>2. FlagTypes'
    BY <1>3, Zenon DEF TtsLoad, FlagTypes
  <2>3. OtherTypes'
    BY <1>3 DEF TtsLoad, OtherTypes
  <2> QED
    BY <2>2, <2>3
<1>4. CASE TtsSpeak
  <2>2. FlagTypes'
    BY <1>4, Zenon DEF TtsSpeak, FlagTypes
  <2>3. OtherTypes'
    BY <1>4 DEF TtsSpeak, OtherTypes
  <2> QED
    BY <2>2, <2>3
<1>5. CASE TtsSpoken
  <2>2. FlagTypes'
    BY <1>5, Zenon DEF TtsSpoken, FlagTypes
  <2>3. OtherTypes'
    BY <1>5 DEF TtsSpoken, OtherTypes
  <2> QED
    BY <2>2, <2>3
<1>6. CASE TtsFailed
  <2>2. FlagTypes'
    BY <1>6, Zenon DEF TtsFailed, FlagTypes
  <2>3. OtherTypes'
    BY <1>6 DEF TtsFailed, OtherTypes
  <2> QED
    BY <2>2, <2>3
<1>7. CASE TtsApology
  <2>2. FlagTypes'
    BY <1>7, Zenon DEF TtsApology, FlagTypes
  <2>3. OtherTypes'
    BY <1>7 DEF TtsApology, OtherTypes
  <2> QED
    BY <2>2, <2>3
<1>8. CASE TtsDone
  <2>2. FlagTypes'
    BY <1>8, Zenon DEF TtsDone, FlagTypes
  <2>3. OtherTypes'
    BY <1>8 DEF TtsDone, OtherTypes
  <2> QED
    BY <2>2, <2>3
<1>9. CASE TtsFollowUp
  <2>2. FlagTypes'
    BY <1>9, Zenon DEF TtsFollowUp, FlagTypes
  <2>3. OtherTypes'
    BY <1>9 DEF TtsFollowUp, OtherTypes
  <2> QED
    BY <2>2, <2>3
<1>10. CASE TtsListen
  <2>2. FlagTypes'
    BY <1>10, Zenon DEF TtsListen, FlagTypes
  <2>3. OtherTypes'
    BY <1>10 DEF TtsListen, OtherTypes
  <2> QED
    BY <2>2, <2>3
<1> QED
  BY <1>1, <1>2, <1>3, <1>4, <1>5, <1>6, <1>7, <1>8, <1>9, <1>10
  DEF TtsNext

(* The callbacks of the client show interface states only, and no other     *)
(* step touches the assistant.                                              *)
LEMMA AssistantTypeNext ==
  FlagTypes /\ OtherTypes /\ [AssistantNext]_allVars => FlagTypes' /\ OtherTypes'
<1> SUFFICES ASSUME FlagTypes, OtherTypes, [AssistantNext]_allVars
             PROVE  FlagTypes' /\ OtherTypes'
  OBVIOUS
<1>1. CASE UserNext
  BY <1>1, AssistantTypeUser
<1>2. CASE KnobNext
  BY <1>2, AssistantTypeKnob
<1>3. CASE MainNext
  BY <1>3, AssistantTypeMain
<1>4. CASE TtsNext
  BY <1>4, AssistantTypeTts
<1>5. ASSUME NEW th \in Threads, OnState(th) PROVE FlagTypes' /\ OtherTypes'
  <2>1. FlagTypes'
    BY <1>5, Zenon DEF OnState, FlagTypes
  <2>2. ui' \in UiStates
    BY <1>5 DEF OnState, Shows, OtherTypes
  <2>3. OtherTypes'
    BY <1>5, <2>2 DEF OnState, OtherTypes
  <2> QED
    BY <2>1, <2>3
<1>6. ASSUME NEW follow \in BOOLEAN, OnChatResponse(follow) PROVE FlagTypes' /\ OtherTypes'
  <2>1. ttsPending' \in BOOLEAN
    <3>1. AutoRead \in BOOLEAN /\ ttsPending \in BOOLEAN
      BY AssistantAssumption DEF FlagTypes
    <3> QED
      BY <1>6, <3>1, EitherFlag, Zenon DEF OnChatResponse
  <2>2. FlagTypes'
    BY <1>6, <2>1, Zenon DEF OnChatResponse, FlagTypes
  <2>3. OtherTypes'
    BY <1>6 DEF OnChatResponse, OtherTypes
  <2> QED
    BY <2>2, <2>3
<1>7. CASE ResponseTimeout
  <2>1. FlagTypes'
    BY <1>7, Zenon DEF ResponseTimeout, FlagTypes
  <2>2. OtherTypes'
    BY <1>7 DEF ResponseTimeout, OtherTypes
  <2> QED
    BY <2>1, <2>2
<1>8. CASE ClientNext
  BY <1>8 DEF ClientNext, FlagTypes, OtherTypes
<1>9. CASE UNCHANGED allVars
  BY <1>9 DEF allVars, FlagTypes, OtherTypes
<1> QED
  BY <1>1, <1>2, <1>3, <1>4, <1>5, <1>6, <1>7, <1>8, <1>9 DEF AssistantNext, CallbackNext

(* The assistant's state keeps its shape, whatever its tasks, the callbacks *)
(* and the user do (ui.h:25-37 and the event bits of app_state.h).          *)
THEOREM AssistantTypesHold == AssistantSpec => []AssistantTypeOK
<1>1. FlagTypes /\ OtherTypes => AssistantTypeOK
  BY TypesTogether
<1> QED
  BY AssistantTypeInit, AssistantTypeNext, <1>1, PTL DEF AssistantSpec

-----------------------------------------------------------------------------
(* The composition runs the client's own steps: whatever the tasks of main/ *)
(* do with it, openclaw_client.c behaves as OpenClawClient says, so that    *)
(* what is proved of the client holds in the assistant.                     *)
LEMMA ClientStep == TypeOK /\ [AssistantNext]_allVars => [Next]_vars
<1> SUFFICES ASSUME TypeOK, [AssistantNext]_allVars PROVE [Next]_vars
  OBVIOUS
<1>0. main \in Tasks /\ knob \in Tasks
  BY AssistantAssumption
<1>1. CASE UserNext \/ TtsNext \/ ResponseTimeout \/ UNCHANGED allVars
  BY <1>1 DEF UserNext, Click, CancelButton, Touch, Details, Play, WakeWord, SpinCancels,
              SpinAborts, SpinStopsSpeech, SpinDismisses, TtsNext, TtsTake, TtsNoText,
              TtsLoad, TtsSpeak, TtsSpoken, TtsFailed, TtsApology, TtsDone, TtsFollowUp,
              TtsListen, ResponseTimeout, allVars
<1>2. CASE KnobNext
  <2>1. AbortBegin(knob) \/ UNCHANGED vars
    BY <1>2 DEF KnobNext, KnobAbort, KnobAborted, KnobStopped
  <2> QED BY <1>0, <2>1 DEF Next, AbortNext
<1>3. CASE MainNext
  <2>1. AbortBegin(main) \/ (\E r \in fresh : SendBegin(main, r)) \/ UNCHANGED vars
    BY <1>3 DEF MainNext, MainTake, MainLoop, MainTouch, MainKnob, MainWake, MainDetails,
                MainStop, MainStopped, MainAbort, MainAborted, BackToIdle, VoiceStart,
                VoiceRecord, VoiceCancelled, VoiceRecorded, VoiceDiscard, VoiceTranscribe,
                VoiceTranscribed, VoiceSend, VoiceSent, VoiceResume, DetailsSend,
                DetailsSent, ChatSend, Sent
  <2>2. \A r \in fresh : r \in Requests
    BY DEF TypeOK
  <2> QED BY <1>0, <2>1, <2>2 DEF Next, AbortNext, SendNext
<1>4. CASE CallbackNext
  BY <1>4 DEF CallbackNext, OnState, OnChatResponse, Next, WsNext
<1>5. CASE ClientNext
  BY <1>5 DEF ClientNext, Next, WsNext, SendNext, AbortNext, GatewayNext
<1> QED
  BY <1>1, <1>2, <1>3, <1>4, <1>5 DEF AssistantNext

(* The assistant implements the client.                                     *)
THEOREM ClientRefined == AssistantSpec => Spec
<1>1. AssistantInit => Init /\ TypeOK /\ FrameHeld
  BY InitType DEF AssistantInit
<1>2. TypeOK /\ FrameHeld /\ [Next]_vars => TypeOK' /\ FrameHeld'
  BY NextType, NextFrame
<1> QED
  BY <1>1, <1>2, ClientStep, PTL DEF AssistantSpec, Spec

-----------------------------------------------------------------------------
(* Nothing is recorded over a chat, as long as nothing is harmed: the main  *)
(* loop alone sends, and its guard in voice_chat_start finds no callback.   *)
Inside == {"begun", "armed", "sending", "sent"}

OnlyMainSends ==
  \A t \in Tasks : pc[t] \in Inside => t = main /\ mpc \in {"sending", "asking"}

QuietRecording ==
  Unharmed /\ ~MayFail => (mpc \in {"beep", "record"} => chatCb \in {None} \cup crossed)

QuietInv == RecordingLoop /\ CalmInv /\ OnlyMainSends /\ QuietRecording

(* The steps of voice_chat_start and of the rest of the main loop.          *)
LEMMA QuietMain ==
  ASSUME QuietInv, CalmInv', RecordingLoop', MainNext, Unharmed' => Unharmed
  PROVE  QuietInv'
<1>1. TypeOK
  BY DEF QuietInv, CalmInv, IInv
<1>2. CASE VoiceStart
  <2>1. UNCHANGED vars /\ mpc = "start" /\ (mpc' # "beep" \/ oc = "CONNECTED")
        /\ mpc' \in {"beep", "idle"}
    BY <1>2 DEF VoiceStart
  <2>2. \A t \in Tasks : pc[t] \notin Inside
    BY <2>1 DEF QuietInv, OnlyMainSends
  <2>3. Unharmed /\ ~MayFail /\ oc = "CONNECTED" => chatCb \in {None} \cup crossed
    BY <2>2 DEF QuietInv, CalmInv, CallbackHolds, ArmedHolds, Inside
  <2>4. OnlyMainSends'
    BY <2>1, <2>2 DEF OnlyMainSends, vars
  <2>5. QuietRecording'
    BY <2>1, <2>3 DEF QuietRecording, vars
  <2> QED BY <2>4, <2>5 DEF QuietInv
<1>3. CASE VoiceRecord
  <2>1. UNCHANGED vars /\ mpc = "beep" /\ mpc' = "record"
    BY <1>3 DEF VoiceRecord
  <2> QED BY <2>1 DEF QuietInv, OnlyMainSends, QuietRecording, vars
<1>4. CASE VoiceSend \/ DetailsSend
  <2>1. mpc' \in {"sending", "asking"} /\ mpc \in {"send", "ask"}
        /\ (UNCHANGED vars \/ \E r \in fresh : SendBegin(main, r))
    BY <1>4 DEF VoiceSend, DetailsSend, ChatSend
  <2>2. \A t \in Tasks : pc[t] \notin Inside
    BY <2>1 DEF QuietInv, OnlyMainSends
  <2>3. UNCHANGED pc \/ pc' = [pc EXCEPT ![main] = "begun"]
    BY <2>1 DEF SendBegin, Goto, vars
  <2>4. \A t \in Tasks : pc'[t] \in Inside => t = main
    BY <1>1, <2>2, <2>3 DEF TypeOK
  <2> QED BY <2>1, <2>4 DEF QuietInv, OnlyMainSends, QuietRecording
<1>5. CASE VoiceSent \/ DetailsSent
  <2>1. UNCHANGED vars /\ pc[main] = "idle" /\ mpc' \in {"resume", "handle"}
    BY <1>5 DEF VoiceSent, DetailsSent, Sent, Idle
  <2>2. \A t \in Tasks : pc[t] \notin Inside
    BY <2>1 DEF QuietInv, OnlyMainSends, Inside
  <2> QED BY <2>1, <2>2 DEF QuietInv, OnlyMainSends, QuietRecording, vars
<1>6. CASE MainAbort
  <2>1. mpc = "abort" /\ mpc' = "aborting" /\ (UNCHANGED vars \/ AbortBegin(main))
    BY <1>6 DEF MainAbort
  <2>2. \A t \in Tasks : pc[t] \notin Inside
    BY <2>1 DEF QuietInv, OnlyMainSends
  <2>3. UNCHANGED pc \/ pc' = [pc EXCEPT ![main] = "aborting"]
    BY <2>1 DEF AbortBegin, Goto, vars
  <2>4. \A t \in Tasks : pc'[t] \notin Inside
    BY <1>1, <2>2, <2>3 DEF TypeOK, Inside
  <2> QED BY <2>1, <2>4 DEF QuietInv, OnlyMainSends, QuietRecording
<1>7. CASE \/ MainTake \/ MainLoop \/ MainTouch \/ MainKnob \/ MainWake \/ MainDetails
           \/ MainStop \/ MainStopped \/ MainAborted \/ BackToIdle
           \/ VoiceCancelled \/ VoiceRecorded \/ VoiceDiscard
           \/ VoiceTranscribe \/ VoiceTranscribed \/ VoiceResume
  <2>1. UNCHANGED vars /\ mpc \notin {"sending", "asking"} /\ mpc' \notin {"beep", "record"}
    BY <1>7 DEF MainTake, MainLoop, MainTouch, MainKnob, MainWake, MainDetails, MainStop,
                MainStopped, MainAborted, BackToIdle, VoiceCancelled, VoiceRecorded,
                VoiceDiscard, VoiceTranscribe, VoiceTranscribed, VoiceResume
  <2>2. \A t \in Tasks : pc[t] \notin Inside
    BY <2>1 DEF QuietInv, OnlyMainSends
  <2> QED BY <2>1, <2>2 DEF QuietInv, OnlyMainSends, QuietRecording, vars
<1> QED
  BY <1>2, <1>3, <1>4, <1>5, <1>6, <1>7 DEF MainNext

(* The other tasks neither send nor start a recording.                      *)
LEMMA QuietOthers ==
  ASSUME QuietInv, CalmInv', RecordingLoop', Unharmed' => Unharmed,
         UserNext \/ KnobNext \/ TtsNext \/ CallbackNext \/ ResponseTimeout \/ ClientNext
           \/ UNCHANGED allVars
  PROVE  QuietInv'
<1>1. TypeOK /\ knob \in Tasks
  BY AssistantAssumption DEF QuietInv, CalmInv, IInv
<1>2. mpc' = mpc
  BY DEF UserNext, Click, CancelButton, Touch, Details, Play, WakeWord, SpinCancels,
         SpinAborts, SpinStopsSpeech, SpinDismisses, KnobNext, KnobAbort, KnobAborted,
         KnobStopped, TtsNext, TtsTake, TtsNoText, TtsLoad, TtsSpeak, TtsSpoken, TtsFailed,
         TtsApology, TtsDone, TtsFollowUp, TtsListen, CallbackNext, OnState, OnChatResponse,
         ResponseTimeout, ClientNext, allVars
<1>3. CASE UNCHANGED <<pc, chatCb, crossed>>
  BY <1>2, <1>3 DEF QuietInv, OnlyMainSends, QuietRecording
<1>4. ASSUME NEW t \in Tasks, SendRegister(t)
      PROVE  QuietInv'
  <2>1. pc[t] = "begun" /\ pc' = [pc EXCEPT ![t] = "armed"]
    BY <1>4 DEF SendRegister, Goto
  <2>2. t = main /\ mpc \in {"sending", "asking"}
    BY <2>1 DEF QuietInv, OnlyMainSends, Inside
  <2>3. \A u \in Tasks : pc'[u] \in Inside => pc[u] \in Inside
    BY <1>1, <2>1 DEF TypeOK, Inside
  <2> QED BY <1>2, <2>2, <2>3 DEF QuietInv, OnlyMainSends, QuietRecording
<1>5. ASSUME NEW t \in Tasks,
             SendFails(t) \/ SendAnnounce(t) \/ Transmit(t) \/ SendDone(t) \/ AbortClear(t)
             \/ AbortDone(t) \/ AbortBegin(t)
      PROVE  QuietInv'
  <2>1. /\ \A u \in Tasks : pc'[u] \in Inside => pc[u] \in Inside
        /\ (chatCb' = chatCb \/ chatCb' = None) /\ crossed' = crossed
    BY <1>1, <1>5 DEF SendFails, SendAnnounce, Transmit, SendDone, AbortClear, AbortDone,
                      AbortBegin, Goto, TypeOK, Inside, historyVars
  <2> QED BY <1>2, <2>1 DEF QuietInv, OnlyMainSends, QuietRecording
<1>6. CASE CloseChat
  <2>1. UNCHANGED pc /\ chatCb' = None
    BY <1>6 DEF CloseChat
  <2> QED BY <1>2, <2>1 DEF QuietInv, OnlyMainSends, QuietRecording
<1>7. CASE UserNext \/ TtsNext \/ ResponseTimeout \/ UNCHANGED allVars \/ CallbackNext
  <2>1. UNCHANGED <<pc, chatCb, crossed>>
    BY <1>7 DEF UserNext, Click, CancelButton, Touch, Details, Play, WakeWord, SpinCancels,
              SpinAborts, SpinStopsSpeech, SpinDismisses, TtsNext, TtsTake, TtsNoText,
              TtsLoad, TtsSpeak, TtsSpoken, TtsFailed, TtsApology, TtsDone, TtsFollowUp,
              TtsListen, ResponseTimeout, CallbackNext, OnState, StateCallback,
              OnChatResponse, AnswerChat, allVars, historyVars, vars
  <2> QED BY <1>3, <2>1
<1>8. CASE KnobNext
  <2>1. AbortBegin(knob) \/ UNCHANGED <<pc, chatCb, crossed>>
    BY <1>8 DEF KnobNext, KnobAbort, KnobAborted, KnobStopped, vars
  <2> QED BY <1>1, <1>3, <1>5, <2>1
<1>9. CASE ClientNext
  <2>1. \/ UNCHANGED <<pc, chatCb, crossed>> \/ CloseChat
        \/ \E t \in Tasks : SendRegister(t) \/ SendFails(t) \/ SendAnnounce(t)
                            \/ Transmit(t) \/ SendDone(t) \/ AbortClear(t) \/ AbortDone(t)
    BY <1>9 DEF ClientNext, Connect, WatchdogDisconnect, WsOpened, WsLost, WsError,
                OnChallenge, OnResponse, OnChatDelta, StreamChat, OnChatFinal, LoadCallback,
                ChatClosed, historyVars, GatewayStart, GatewayDelta, GatewayFinal, clientVars
  <2> QED BY <1>3, <1>4, <1>5, <1>6, <2>1
<1> QED BY <1>7, <1>8, <1>9

(* Nothing is being sent or recorded at the start.                          *)
LEMMA QuietInit == AssistantInit => QuietInv
<1> SUFFICES ASSUME AssistantInit PROVE QuietInv
  OBVIOUS
<1>1. CalmInv /\ Init
  BY CalmInit DEF AssistantInit
<1>2. \A t \in Tasks : pc[t] = "idle"
  BY <1>1 DEF Init
<1> QED
  BY <1>1, <1>2 DEF AssistantInit, QuietInv, OnlyMainSends, QuietRecording, Inside

(* Every step keeps a recording free of a registered callback.              *)
LEMMA QuietNext == QuietInv /\ CancelInv /\ [AssistantNext]_allVars => QuietInv'
<1> SUFFICES ASSUME QuietInv, CancelInv, [AssistantNext]_allVars PROVE QuietInv'
  OBVIOUS
<1>1. CalmInv /\ IInv /\ TypeOK /\ BudgetHolds
  BY DEF QuietInv, CalmInv, IInv
<1>2. [Next]_vars
  BY <1>1, ClientStep
<1>3. CalmInv' /\ (Unharmed' => Unharmed)
  BY <1>1, <1>2, CalmNext, NextBudget
<1>4. RecordingLoop'
  BY CancelNext
<1> QED
  BY <1>3, <1>4, QuietMain, QuietOthers DEF AssistantNext

(* While the connection holds, nothing is refused and allocations succeed,  *)
(* a recording is never made over a chat still in progress, whatever the    *)
(* interface shows and however aborts, answers and inputs interleave        *)
(* (voice_chat.c:43; openclaw_client.c:1136).                               *)
THEOREM NothingTalkedOver ==
  AssistantSpec => [](Unharmed /\ ~MayFail => NoChatWhileRecording)
<1>1. QuietInv => (Unharmed /\ ~MayFail => NoChatWhileRecording)
  BY DEF QuietInv, QuietRecording, NoChatWhileRecording
<1> QED
  BY <1>1, CancelInit, CancelNext, QuietInit, QuietNext, PTL DEF AssistantSpec
=============================================================================
