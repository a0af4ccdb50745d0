------------------------- MODULE ConversationProofs -------------------------
(* Proofs about the parts that carry a conversation, for every value of the *)
(* constants: speech, the wake word, the photo that waits, the recording,   *)
(* and from the gateway frames in pieces, the tags in an answer, messages   *)
(* of cron jobs and the list of jobs.                                       *)
EXTENDS Speech, WakeWord, PendingImage, Recorder, CronNotices, TaskScreen, FragReassembly,
        AnswerTags, LineProofs, SequenceTheorems, TLAPS

-----------------------------------------------------------------------------
(* The speech, for any voices of the two there are, any number of stoppers  *)
(* and any bounds.                                                          *)

(* The types, apart: the facts, where everybody is, and the counts.         *)
Facts ==
  /\ talking \in BOOLEAN /\ stopReq \in BOOLEAN /\ deaf \in BOOLEAN
  /\ speakBit \in BOOLEAN /\ notice \in BOOLEAN /\ reply \in BOOLEAN
  /\ notified \in BOOLEAN /\ announcing \in BOOLEAN /\ copying \in BOOLEAN
  /\ listenOn \in BOOLEAN /\ wakeBit \in BOOLEAN /\ recording \in BOOLEAN
Places ==
  /\ talk \in [Voices -> {"rest", "mute", "enter", "wait", "claim", "prepare",
                          "request", "load", "play", "sound", "close",
                          "break", "unmute", "failed", "after", "sorry"}]
  /\ heap \in [Voices -> SUBSET Buffers] /\ leaked \subseteq Buffers
  /\ face \in {"idle", "response", "loading"}
  /\ stopPc \in [Stoppers -> {"rest", "waiting"}]
  /\ doomed \subseteq Voices
SpeechCounts == texts \in 0..MaxTexts /\ stops \in 0..MaxStops /\ starved \in 0..MaxStarved

LEMMA SpeechTypes == SpeechTypeOK <=> Facts /\ Places /\ SpeechCounts
  BY DEF SpeechTypeOK, Facts, Places, SpeechCounts
LEMMA SpeechTypesNext == Facts' /\ Places' /\ SpeechCounts' => SpeechTypeOK'
  BY DEF SpeechTypeOK, Facts, Places, SpeechCounts

(* A voice that is stopped keeps the request to stop until somebody claims  *)
(* the player.                                                              *)
DoomInv == doomed # {} => stopReq

(* The announcer is at rest unless it is said to run, so an announcement    *)
(* begins with a voice that holds nothing.                                  *)
DeafInv ==
  /\ NeverLeftDeaf
  /\ "ann" \in Voices /\ ~announcing => talk["ann"] = "rest"

(* A voice holds buffers only between its request and its end.              *)
HeapInv ==
  /\ leaked # {} => starved > 0
  /\ \A v \in Voices :
       talk[v] \notin {"request", "load", "play", "sound", "close", "break"} => heap[v] = {}

LEMMA SpeechInitInv == SpeechInit => SpeechTypeOK /\ DoomInv /\ DeafInv /\ HeapInv
  <1> SUFFICES ASSUME SpeechInit PROVE SpeechTypeOK /\ DoomInv /\ DeafInv /\ HeapInv
    OBVIOUS
  <1>1. Facts /\ Places
    BY DEF SpeechInit, Facts, Places
  <1>2. SpeechCounts
    BY SpeechBoundsAssumption DEF SpeechInit, SpeechCounts
  <1>3. DoomInv /\ DeafInv
    BY DEF SpeechInit, DoomInv, DeafInv, NeverLeftDeaf
  <1>4. HeapInv
    BY DEF SpeechInit, HeapInv
  <1> QED BY <1>1, <1>2, <1>3, <1>4, SpeechTypes

(* Every step keeps the types of the facts ...                              *)
LEMMA FactsStay == Facts /\ [SpeechNext]_speechVars => Facts'
  <1> SUFFICES ASSUME Facts, [SpeechNext]_speechVars PROVE Facts'
    OBVIOUS
  <1> USE DEF Facts, player, memory, inbox, outbox, stopVars, Goto, Starve
  <1>1. ASSUME NEW listens \in BOOLEAN, AnswerToSpeak(listens) PROVE Facts'
    BY <1>1 DEF AnswerToSpeak
  <1>2. CASE NoticeToSpeak
    BY <1>2 DEF NoticeToSpeak
  <1>3. CASE CopyNotice
    BY <1>3 DEF CopyNotice
  <1>4. CASE Announce
    BY <1>4 DEF Announce
  <1>5. CASE TakeSpeakBit
    BY <1>5 DEF TakeSpeakBit
  <1>6. CASE Apologise
    BY <1>6 DEF Apologise
  <1>7. CASE AfterSpeech
    BY <1>7 DEF AfterSpeech
  <1>8. ASSUME NEW v \in Voices, Mute(v) PROVE Facts'
    BY <1>8 DEF Mute
  <1>9. ASSUME NEW v \in Voices, EnterSpeak(v) PROVE Facts'
    BY <1>9 DEF EnterSpeak
  <1>10. ASSUME NEW v \in Voices, BargeIn(v) PROVE Facts'
    BY <1>10 DEF BargeIn
  <1>11. ASSUME NEW v \in Voices, Claim(v) PROVE Facts'
    BY <1>11 DEF Claim
  <1>12. ASSUME NEW v \in Voices, Prepare(v) PROVE Facts'
    <2>1. talking' = talking \/ talking' = FALSE
      BY <1>12 DEF Prepare
    <2>2. talking' \in BOOLEAN
      BY <2>1
    <2> QED BY <1>12, <2>2 DEF Prepare
  <1>13. ASSUME NEW v \in Voices, Request(v) PROVE Facts'
    BY <1>13 DEF Request
  <1>14. ASSUME NEW v \in Voices, Load(v) PROVE Facts'
    BY <1>14 DEF Load
  <1>15. ASSUME NEW v \in Voices, FrameDone(v) PROVE Facts'
    BY <1>15 DEF FrameDone
  <1>16. ASSUME NEW v \in Voices, EndPlay(v) PROVE Facts'
    BY <1>16 DEF EndPlay
  <1>17. ASSUME NEW v \in Voices, CloseHttp(v) PROVE Facts'
    BY <1>17 DEF CloseHttp
  <1>18. ASSUME NEW v \in Voices, Unmute(v) PROVE Facts'
    <2>1. /\ talking' = talking /\ stopReq' = stopReq /\ deaf' = FALSE /\ reply' = reply
          /\ speakBit' = speakBit /\ copying' = copying /\ notified' = notified
          /\ listenOn' = listenOn /\ wakeBit' = wakeBit /\ recording' = recording
      BY <1>18 DEF Unmute
    <2>2. announcing' = FALSE \/ announcing' = announcing
      BY <1>18 DEF Unmute
    <2>3. notice' = notice \/ notice' = (notice /\ ~notified)
      BY <1>18 DEF Unmute
    <2>4. notice' \in BOOLEAN /\ announcing' \in BOOLEAN
      BY <2>2, <2>3
    <2> QED BY <2>1, <2>4
  <1>19. ASSUME NEW v \in Voices, PlayFrame(v) PROVE Facts'
    BY <1>19 DEF PlayFrame
  <1>20. ASSUME NEW s \in Stoppers, Stop(s) PROVE Facts'
    BY <1>20 DEF Stop
  <1>21. ASSUME NEW s \in Stoppers, StopReturns(s) PROVE Facts'
    BY <1>21 DEF StopReturns
  <1>22. CASE RecordStart
    BY <1>22 DEF RecordStart
  <1>23. CASE RecordEnd
    BY <1>23 DEF RecordEnd
  <1>24. CASE UNCHANGED speechVars
    BY <1>24 DEF speechVars
  <1> QED BY <1>1, <1>2, <1>3, <1>4, <1>5, <1>6, <1>7, <1>8, <1>9, <1>10, <1>11, <1>12,
             <1>13, <1>14, <1>15, <1>16, <1>17, <1>18, <1>19, <1>20, <1>21, <1>22, <1>23, <1>24
      DEF SpeechNext, Speak

(* ... of the places ...                                                    *)
LEMMA PlacesStay == Places /\ [SpeechNext]_speechVars => Places'
  <1> SUFFICES ASSUME Places, [SpeechNext]_speechVars PROVE Places'
    OBVIOUS
  <1> USE VoicesAssumption, SpeechBoundsAssumption DEF Places, Buffers, InUtterance,
             player, memory, inbox, outbox, stopVars, Goto, Starve
  <1>1. ASSUME NEW listens \in BOOLEAN, AnswerToSpeak(listens) PROVE Places'
    BY <1>1 DEF AnswerToSpeak
  <1>2. CASE NoticeToSpeak
    BY <1>2 DEF NoticeToSpeak
  <1>3. CASE CopyNotice
    BY <1>3 DEF CopyNotice
  <1>4. CASE Announce
    BY <1>4 DEF Announce
  <1>5. CASE TakeSpeakBit
    BY <1>5 DEF TakeSpeakBit
  <1>6. CASE Apologise
    BY <1>6 DEF Apologise
  <1>7. CASE AfterSpeech
    BY <1>7 DEF AfterSpeech
  <1>8. ASSUME NEW v \in Voices, Mute(v) PROVE Places'
    BY <1>8 DEF Mute
  <1>9. ASSUME NEW v \in Voices, EnterSpeak(v) PROVE Places'
    BY <1>9 DEF EnterSpeak
  <1>10. ASSUME NEW v \in Voices, BargeIn(v) PROVE Places'
    BY <1>10 DEF BargeIn
  <1>11. ASSUME NEW v \in Voices, Claim(v) PROVE Places'
    BY <1>11 DEF Claim
  <1>12. ASSUME NEW v \in Voices, Prepare(v) PROVE Places'
    <2>1. leaked' \subseteq Buffers
      BY <1>12 DEF Prepare
    <2>2. heap' \in [Voices -> SUBSET Buffers]
      BY <1>12 DEF Prepare
    <2>3. talk' \in [Voices -> {"rest", "mute", "enter", "wait", "claim", "prepare",
                               "request", "load", "play", "sound", "close",
                               "break", "unmute", "failed", "after", "sorry"}]
      BY <1>12 DEF Prepare
    <2>4. face' = face /\ stopPc' = stopPc /\ doomed' = doomed
      BY <1>12 DEF Prepare
    <2> QED BY <2>1, <2>2, <2>3, <2>4
  <1>13. ASSUME NEW v \in Voices, Request(v) PROVE Places'
    BY <1>13 DEF Request
  <1>14. ASSUME NEW v \in Voices, Load(v) PROVE Places'
    <2>1. leaked' \subseteq Buffers
      BY <1>14 DEF Load
    <2>2. heap' \in [Voices -> SUBSET Buffers]
      BY <1>14 DEF Load
    <2>3. talk' \in [Voices -> {"rest", "mute", "enter", "wait", "claim", "prepare",
                               "request", "load", "play", "sound", "close",
                               "break", "unmute", "failed", "after", "sorry"}]
      BY <1>14 DEF Load
    <2>4. face' = face /\ stopPc' = stopPc /\ doomed' = doomed
      BY <1>14 DEF Load
    <2> QED BY <2>1, <2>2, <2>3, <2>4
  <1>15. ASSUME NEW v \in Voices, FrameDone(v) PROVE Places'
    BY <1>15 DEF FrameDone
  <1>16. ASSUME NEW v \in Voices, EndPlay(v) PROVE Places'
    BY <1>16 DEF EndPlay
  <1>17. ASSUME NEW v \in Voices, CloseHttp(v) PROVE Places'
    BY <1>17 DEF CloseHttp
  <1>18. ASSUME NEW v \in Voices, Unmute(v) PROVE Places'
    BY <1>18 DEF Unmute
  <1>19. ASSUME NEW v \in Voices, PlayFrame(v) PROVE Places'
    BY <1>19 DEF PlayFrame
  <1>20. ASSUME NEW s \in Stoppers, Stop(s) PROVE Places'
    BY <1>20 DEF Stop
  <1>21. ASSUME NEW s \in Stoppers, StopReturns(s) PROVE Places'
    BY <1>21 DEF StopReturns
  <1>22. CASE RecordStart
    BY <1>22 DEF RecordStart
  <1>23. CASE RecordEnd
    BY <1>23 DEF RecordEnd
  <1>24. CASE UNCHANGED speechVars
    BY <1>24 DEF speechVars
  <1> QED BY <1>1, <1>2, <1>3, <1>4, <1>5, <1>6, <1>7, <1>8, <1>9, <1>10, <1>11, <1>12,
             <1>13, <1>14, <1>15, <1>16, <1>17, <1>18, <1>19, <1>20, <1>21, <1>22, <1>23, <1>24
      DEF SpeechNext, Speak

(* ... and of the counts.                                                   *)
LEMMA CountsStay == SpeechCounts /\ [SpeechNext]_speechVars => SpeechCounts'
  <1> SUFFICES ASSUME SpeechCounts, [SpeechNext]_speechVars PROVE SpeechCounts'
    OBVIOUS
  <1> USE VoicesAssumption, SpeechBoundsAssumption DEF SpeechCounts, player, memory, inbox,
             outbox, stopVars, Goto, Starve
  <1>1. ASSUME NEW listens \in BOOLEAN, AnswerToSpeak(listens) PROVE SpeechCounts'
    BY <1>1 DEF AnswerToSpeak
  <1>2. CASE NoticeToSpeak
    BY <1>2 DEF NoticeToSpeak
  <1>3. CASE CopyNotice
    BY <1>3 DEF CopyNotice
  <1>4. CASE Announce
    BY <1>4 DEF Announce
  <1>5. CASE TakeSpeakBit
    BY <1>5 DEF TakeSpeakBit
  <1>6. CASE Apologise
    BY <1>6 DEF Apologise
  <1>7. CASE AfterSpeech
    BY <1>7 DEF AfterSpeech
  <1>8. ASSUME NEW v \in Voices, Mute(v) PROVE SpeechCounts'
    BY <1>8 DEF Mute
  <1>9. ASSUME NEW v \in Voices, EnterSpeak(v) PROVE SpeechCounts'
    BY <1>9 DEF EnterSpeak
  <1>10. ASSUME NEW v \in Voices, BargeIn(v) PROVE SpeechCounts'
    BY <1>10 DEF BargeIn
  <1>11. ASSUME NEW v \in Voices, Claim(v) PROVE SpeechCounts'
    BY <1>11 DEF Claim
  <1>12. ASSUME NEW v \in Voices, Prepare(v) PROVE SpeechCounts'
    BY <1>12 DEF Prepare
  <1>13. ASSUME NEW v \in Voices, Request(v) PROVE SpeechCounts'
    BY <1>13 DEF Request
  <1>14. ASSUME NEW v \in Voices, Load(v) PROVE SpeechCounts'
    BY <1>14 DEF Load
  <1>15. ASSUME NEW v \in Voices, FrameDone(v) PROVE SpeechCounts'
    BY <1>15 DEF FrameDone
  <1>16. ASSUME NEW v \in Voices, EndPlay(v) PROVE SpeechCounts'
    BY <1>16 DEF EndPlay
  <1>17. ASSUME NEW v \in Voices, CloseHttp(v) PROVE SpeechCounts'
    BY <1>17 DEF CloseHttp
  <1>18. ASSUME NEW v \in Voices, Unmute(v) PROVE SpeechCounts'
    BY <1>18 DEF Unmute
  <1>19. ASSUME NEW v \in Voices, PlayFrame(v) PROVE SpeechCounts'
    BY <1>19 DEF PlayFrame
  <1>20. ASSUME NEW s \in Stoppers, Stop(s) PROVE SpeechCounts'
    BY <1>20 DEF Stop
  <1>21. ASSUME NEW s \in Stoppers, StopReturns(s) PROVE SpeechCounts'
    BY <1>21 DEF StopReturns
  <1>22. CASE RecordStart
    BY <1>22 DEF RecordStart
  <1>23. CASE RecordEnd
    BY <1>23 DEF RecordEnd
  <1>24. CASE UNCHANGED speechVars
    BY <1>24 DEF speechVars
  <1> QED BY <1>1, <1>2, <1>3, <1>4, <1>5, <1>6, <1>7, <1>8, <1>9, <1>10, <1>11, <1>12,
             <1>13, <1>14, <1>15, <1>16, <1>17, <1>18, <1>19, <1>20, <1>21, <1>22, <1>23, <1>24
      DEF SpeechNext, Speak

(* Only a claim takes the request to stop back, and with it all it doomed.  *)
LEMMA DoomKept == DoomInv /\ [SpeechNext]_speechVars => DoomInv'
  <1> SUFFICES ASSUME DoomInv, [SpeechNext]_speechVars PROVE DoomInv'
    OBVIOUS
  <1> USE DEF DoomInv, player, memory, inbox, outbox, stopVars, Goto, Starve
  <1>1. ASSUME NEW listens \in BOOLEAN, AnswerToSpeak(listens) PROVE DoomInv'
    BY <1>1 DEF AnswerToSpeak
  <1>2. CASE NoticeToSpeak
    BY <1>2 DEF NoticeToSpeak
  <1>3. CASE CopyNotice
    BY <1>3 DEF CopyNotice
  <1>4. CASE Announce
    BY <1>4 DEF Announce
  <1>5. CASE TakeSpeakBit
    BY <1>5 DEF TakeSpeakBit
  <1>6. CASE Apologise
    BY <1>6 DEF Apologise
  <1>7. CASE AfterSpeech
    BY <1>7 DEF AfterSpeech
  <1>8. ASSUME NEW v \in Voices, Mute(v) PROVE DoomInv'
    BY <1>8 DEF Mute
  <1>9. ASSUME NEW v \in Voices, EnterSpeak(v) PROVE DoomInv'
    BY <1>9 DEF EnterSpeak
  <1>10. ASSUME NEW v \in Voices, BargeIn(v) PROVE DoomInv'
    BY <1>10 DEF BargeIn
  <1>11. ASSUME NEW v \in Voices, Claim(v) PROVE DoomInv'
    BY <1>11 DEF Claim
  <1>12. ASSUME NEW v \in Voices, Prepare(v) PROVE DoomInv'
    BY <1>12 DEF Prepare
  <1>13. ASSUME NEW v \in Voices, Request(v) PROVE DoomInv'
    BY <1>13 DEF Request
  <1>14. ASSUME NEW v \in Voices, Load(v) PROVE DoomInv'
    BY <1>14 DEF Load
  <1>15. ASSUME NEW v \in Voices, FrameDone(v) PROVE DoomInv'
    BY <1>15 DEF FrameDone
  <1>16. ASSUME NEW v \in Voices, EndPlay(v) PROVE DoomInv'
    BY <1>16 DEF EndPlay
  <1>17. ASSUME NEW v \in Voices, CloseHttp(v) PROVE DoomInv'
    BY <1>17 DEF CloseHttp
  <1>18. ASSUME NEW v \in Voices, Unmute(v) PROVE DoomInv'
    BY <1>18 DEF Unmute
  <1>19. ASSUME NEW v \in Voices, PlayFrame(v) PROVE DoomInv'
    BY <1>19 DEF PlayFrame
  <1>20. ASSUME NEW s \in Stoppers, Stop(s) PROVE DoomInv'
    BY <1>20 DEF Stop
  <1>21. ASSUME NEW s \in Stoppers, StopReturns(s) PROVE DoomInv'
    BY <1>21 DEF StopReturns
  <1>22. CASE RecordStart
    BY <1>22 DEF RecordStart
  <1>23. CASE RecordEnd
    BY <1>23 DEF RecordEnd
  <1>24. CASE UNCHANGED speechVars
    BY <1>24 DEF speechVars
  <1> QED BY <1>1, <1>2, <1>3, <1>4, <1>5, <1>6, <1>7, <1>8, <1>9, <1>10, <1>11, <1>12,
             <1>13, <1>14, <1>15, <1>16, <1>17, <1>18, <1>19, <1>20, <1>21, <1>22, <1>23, <1>24
      DEF SpeechNext, Speak

(* Who pauses the engine stays until it has resumed it.                     *)
LEMMA DeafKept == Places /\ DeafInv /\ [SpeechNext]_speechVars => DeafInv'
  <1> SUFFICES ASSUME Places, DeafInv, [SpeechNext]_speechVars PROVE DeafInv'
    OBVIOUS
  <1> USE VoicesAssumption, SpeechBoundsAssumption DEF Places, DeafInv, NeverLeftDeaf,
             player, memory, inbox, outbox, stopVars, Goto, Starve
  <1>1. ASSUME NEW listens \in BOOLEAN, AnswerToSpeak(listens) PROVE DeafInv'
    BY <1>1 DEF AnswerToSpeak
  <1>2. CASE NoticeToSpeak
    BY <1>2 DEF NoticeToSpeak
  <1>3. CASE CopyNotice
    BY <1>3 DEF CopyNotice
  <1>4. CASE Announce
    <2>1. deaf' = deaf /\ recording' = recording /\ announcing' = TRUE
      BY <1>4 DEF Announce
    <2>2. CASE announcing
      <3>1. talk' = talk
        BY <1>4, <2>2 DEF Announce
      <3> QED BY <2>1, <3>1
    <2>3. CASE ~announcing
      <3>1. talk["ann"] = "rest" /\ talk' = [talk EXCEPT !["ann"] = "mute"]
        BY <1>4, <2>3 DEF Announce
      <3>2. ASSUME NEW v \in Voices, talk[v] \notin {"rest", "mute", "after", "sorry"}
            PROVE talk'[v] = talk[v]
        BY <3>1, <3>2
      <3>3. NeverLeftDeaf'
        BY <2>1, <3>2
      <3> QED BY <2>1, <3>3
    <2> QED BY <2>2, <2>3
  <1>5. CASE TakeSpeakBit
    BY <1>5 DEF TakeSpeakBit
  <1>6. CASE Apologise
    BY <1>6 DEF Apologise
  <1>7. CASE AfterSpeech
    BY <1>7 DEF AfterSpeech
  <1>8. ASSUME NEW v \in Voices, Mute(v) PROVE DeafInv'
    BY <1>8 DEF Mute
  <1>9. ASSUME NEW v \in Voices, EnterSpeak(v) PROVE DeafInv'
    BY <1>9 DEF EnterSpeak
  <1>10. ASSUME NEW v \in Voices, BargeIn(v) PROVE DeafInv'
    BY <1>10 DEF BargeIn
  <1>11. ASSUME NEW v \in Voices, Claim(v) PROVE DeafInv'
    BY <1>11 DEF Claim
  <1>12. ASSUME NEW v \in Voices, Prepare(v) PROVE DeafInv'
    BY <1>12 DEF Prepare
  <1>13. ASSUME NEW v \in Voices, Request(v) PROVE DeafInv'
    BY <1>13 DEF Request
  <1>14. ASSUME NEW v \in Voices, Load(v) PROVE DeafInv'
    BY <1>14 DEF Load
  <1>15. ASSUME NEW v \in Voices, FrameDone(v) PROVE DeafInv'
    BY <1>15 DEF FrameDone
  <1>16. ASSUME NEW v \in Voices, EndPlay(v) PROVE DeafInv'
    BY <1>16 DEF EndPlay
  <1>17. ASSUME NEW v \in Voices, CloseHttp(v) PROVE DeafInv'
    BY <1>17 DEF CloseHttp
  <1>18. ASSUME NEW v \in Voices, Unmute(v) PROVE DeafInv'
    BY <1>18 DEF Unmute
  <1>19. ASSUME NEW v \in Voices, PlayFrame(v) PROVE DeafInv'
    BY <1>19 DEF PlayFrame
  <1>20. ASSUME NEW s \in Stoppers, Stop(s) PROVE DeafInv'
    BY <1>20 DEF Stop
  <1>21. ASSUME NEW s \in Stoppers, StopReturns(s) PROVE DeafInv'
    BY <1>21 DEF StopReturns
  <1>22. CASE RecordStart
    BY <1>22 DEF RecordStart
  <1>23. CASE RecordEnd
    BY <1>23 DEF RecordEnd
  <1>24. CASE UNCHANGED speechVars
    BY <1>24 DEF speechVars
  <1> QED BY <1>1, <1>2, <1>3, <1>4, <1>5, <1>6, <1>7, <1>8, <1>9, <1>10, <1>11, <1>12,
             <1>13, <1>14, <1>15, <1>16, <1>17, <1>18, <1>19, <1>20, <1>21, <1>22, <1>23, <1>24
      DEF SpeechNext, Speak

(* Whoever leaves tts_speak frees, or memory ran out.                       *)
LEMMA HeapKept == Places /\ SpeechCounts /\ DeafInv /\ HeapInv /\ [SpeechNext]_speechVars => HeapInv'
  <1> SUFFICES ASSUME Places, SpeechCounts, DeafInv, HeapInv, [SpeechNext]_speechVars PROVE HeapInv'
    OBVIOUS
  <1> USE VoicesAssumption, SpeechBoundsAssumption DEF Places, SpeechCounts, HeapInv, player,
             memory, inbox, outbox, stopVars, Goto, Starve
  <1>1. ASSUME NEW listens \in BOOLEAN, AnswerToSpeak(listens) PROVE HeapInv'
    BY <1>1 DEF AnswerToSpeak
  <1>2. CASE NoticeToSpeak
    BY <1>2 DEF NoticeToSpeak
  <1>3. CASE CopyNotice
    BY <1>3 DEF CopyNotice
  <1>4. CASE Announce
    <2>1. heap' = heap /\ leaked' = leaked /\ starved' = starved
      BY <1>4 DEF Announce
    <2>2. talk' = talk \/ (talk["ann"] = "rest" /\ talk' = [talk EXCEPT !["ann"] = "mute"])
      BY <1>4 DEF Announce, DeafInv
    <2> QED BY <2>1, <2>2
  <1>5. CASE TakeSpeakBit
    BY <1>5 DEF TakeSpeakBit
  <1>6. CASE Apologise
    BY <1>6 DEF Apologise
  <1>7. CASE AfterSpeech
    BY <1>7 DEF AfterSpeech
  <1>8. ASSUME NEW v \in Voices, Mute(v) PROVE HeapInv'
    BY <1>8 DEF Mute
  <1>9. ASSUME NEW v \in Voices, EnterSpeak(v) PROVE HeapInv'
    BY <1>9 DEF EnterSpeak
  <1>10. ASSUME NEW v \in Voices, BargeIn(v) PROVE HeapInv'
    BY <1>10 DEF BargeIn
  <1>11. ASSUME NEW v \in Voices, Claim(v) PROVE HeapInv'
    BY <1>11 DEF Claim
  <1>12. ASSUME NEW v \in Voices, Prepare(v) PROVE HeapInv'
    BY <1>12 DEF Prepare
  <1>13. ASSUME NEW v \in Voices, Request(v) PROVE HeapInv'
    <2>1. leaked' = leaked /\ (starved' = starved \/ starved' = starved + 1)
      BY <1>13 DEF Request
    <2>2. (leaked # {} => starved > 0)'
      BY <2>1
    <2>3. /\ \A o \in Voices \ {v} : talk'[o] = talk[o] /\ heap'[o] = heap[o]
          /\ talk'[v] \in {"load", "break"}
      BY <1>13 DEF Request
    <2> QED BY <2>2, <2>3
  <1>14. ASSUME NEW v \in Voices, Load(v) PROVE HeapInv'
    BY <1>14 DEF Load
  <1>15. ASSUME NEW v \in Voices, FrameDone(v) PROVE HeapInv'
    BY <1>15 DEF FrameDone
  <1>16. ASSUME NEW v \in Voices, EndPlay(v) PROVE HeapInv'
    BY <1>16 DEF EndPlay
  <1>17. ASSUME NEW v \in Voices, CloseHttp(v) PROVE HeapInv'
    BY <1>17 DEF CloseHttp
  <1>18. ASSUME NEW v \in Voices, Unmute(v) PROVE HeapInv'
    BY <1>18 DEF Unmute
  <1>19. ASSUME NEW v \in Voices, PlayFrame(v) PROVE HeapInv'
    BY <1>19 DEF PlayFrame
  <1>20. ASSUME NEW s \in Stoppers, Stop(s) PROVE HeapInv'
    BY <1>20 DEF Stop
  <1>21. ASSUME NEW s \in Stoppers, StopReturns(s) PROVE HeapInv'
    BY <1>21 DEF StopReturns
  <1>22. CASE RecordStart
    BY <1>22 DEF RecordStart
  <1>23. CASE RecordEnd
    BY <1>23 DEF RecordEnd
  <1>24. CASE UNCHANGED speechVars
    BY <1>24 DEF speechVars
  <1> QED BY <1>1, <1>2, <1>3, <1>4, <1>5, <1>6, <1>7, <1>8, <1>9, <1>10, <1>11, <1>12,
             <1>13, <1>14, <1>15, <1>16, <1>17, <1>18, <1>19, <1>20, <1>21, <1>22, <1>23, <1>24
      DEF SpeechNext, Speak

(* The parts together are inductive.                                        *)
SpeechInv == SpeechTypeOK /\ DoomInv /\ DeafInv /\ HeapInv

LEMMA SpeechInvKept == SpeechSpec => []SpeechInv
  <1>1. SpeechInit => SpeechInv
    BY SpeechInitInv DEF SpeechInv
  <1>2. SpeechInv /\ [SpeechNext]_speechVars => SpeechInv'
    <2> SUFFICES ASSUME SpeechInv, [SpeechNext]_speechVars PROVE SpeechInv'
      OBVIOUS
    <2>1. Facts /\ Places /\ SpeechCounts
      BY SpeechTypes DEF SpeechInv
    <2>2. SpeechTypeOK'
      BY <2>1, FactsStay, PlacesStay, CountsStay, SpeechTypesNext
    <2>3. DoomInv'
      BY DoomKept DEF SpeechInv
    <2>4. DeafInv'
      BY <2>1, DeafKept DEF SpeechInv
    <2>5. HeapInv'
      BY <2>1, HeapKept DEF SpeechInv
    <2> QED BY <2>2, <2>3, <2>4, <2>5 DEF SpeechInv
  <1> QED BY <1>1, <1>2, PTL DEF SpeechSpec

(* Every variable of the speech module keeps its type.                      *)
THEOREM SpeechTypesHold == SpeechSpec => []SpeechTypeOK
  <1>1. SpeechInv => SpeechTypeOK
    BY DEF SpeechInv
  <1> QED BY <1>1, SpeechInvKept, PTL

(* However a speech ends, the wake word engine listens again and the heap   *)
(* is what it was, unless memory ran out.                                   *)
THEOREM NothingLeft == SpeechSpec => []SpeechLeavesNothing
  <1>1. SpeechInv => SpeechLeavesNothing
    BY DEF SpeechInv, DeafInv, HeapInv, SpeechLeavesNothing, LeaksOnlyWhenStarved, InUtterance
  <1> QED BY <1>1, SpeechInvKept, PTL

(* A stop that finds a voice in its utterance is the last of it that is     *)
(* heard, until somebody claims the player anew.                            *)
THEOREM StopIsHeard == SpeechSpec => StopSilences
  <1> DEFINE Unspoken == \A v \in Voices : talk[v] = "play" /\ talk'[v] = "sound" => v \notin doomed
  <1>1. SpeechInv /\ [SpeechNext]_speechVars => [Unspoken]_speechVars
    <2> SUFFICES ASSUME SpeechInv, SpeechNext, NEW w \in Voices, talk[w] = "play", talk'[w] = "sound"
                 PROVE w \notin doomed
      OBVIOUS
    <2>1. Places
      BY SpeechTypes DEF SpeechInv
    <2>2. ASSUME NEW v \in Voices, PlayFrame(v) PROVE w \notin doomed
      <3>1. ~stopReq
        BY <2>2 DEF PlayFrame
      <3> QED BY <3>1 DEF SpeechInv, DoomInv
    <2> USE <2>1 DEF Places, player, memory, inbox, outbox, stopVars, Goto
    <2>3. CASE \/ \E listens \in BOOLEAN : AnswerToSpeak(listens)
               \/ NoticeToSpeak \/ CopyNotice \/ Announce
               \/ TakeSpeakBit \/ Apologise \/ AfterSpeech
               \/ \E s \in Stoppers : Stop(s) \/ StopReturns(s)
               \/ RecordStart \/ RecordEnd
      BY <2>3, VoicesAssumption DEF AnswerToSpeak, NoticeToSpeak, CopyNotice, Announce,
         TakeSpeakBit,
         Apologise, AfterSpeech, Stop, StopReturns, RecordStart, RecordEnd
    <2>4. ASSUME NEW v \in Voices, Speak(v) PROVE w \notin doomed
      BY <2>4 DEF Speak, Mute, EnterSpeak, BargeIn, Claim, Prepare, Request, Load, FrameDone,
         EndPlay, CloseHttp, Unmute
    <2> QED BY <2>2, <2>3, <2>4 DEF SpeechNext
  <1> QED BY <1>1, SpeechInvKept, PTL DEF SpeechSpec, StopSilences

-----------------------------------------------------------------------------
(* The wake word engine.                                                    *)

(* Once a word was reported in a pause no recording is being judged.        *)
EngineInv ==
  /\ sincePause \in {0, 1} /\ models \in {"none", "loaded"}
  /\ enginePaused /\ sincePause = 1 => detector # "judging"
  /\ detector # "none" => models = "loaded" /\ (taskHandle \/ starting = "created")

(* The engine is not there yet.                                             *)
LEMMA EngineInit == WakeWordInit => EngineInv
  BY DEF WakeWordInit, EngineInv

(* Each step of the engine keeps one task and what it owns.                 *)
LEMMA EngineNext == EngineInv /\ [WakeWordNext]_wakeVars => EngineInv'
  <1> SUFFICES ASSUME EngineInv, [WakeWordNext]_wakeVars PROVE EngineInv'
    OBVIOUS
  <1> USE DEF EngineInv, Flags, CallCounts
  <1>1. CASE LoadEngine
    BY <1>1 DEF LoadEngine
  <1>2. CASE StartEngine
    BY <1>2 DEF StartEngine
  <1>3. CASE HandleWritten
    BY <1>3 DEF HandleWritten
  <1>4. CASE Pause
    BY <1>4 DEF Pause
  <1>5. CASE Resume
    BY <1>5 DEF Resume
  <1>6. CASE TakeWakeBit
    BY <1>6 DEF TakeWakeBit
  <1>7. CASE DetectorBegins
    BY <1>7 DEF DetectorBegins
  <1>8. CASE DetectorRecords
    BY <1>8 DEF DetectorRecords
  <1>9. CASE DetectorJudges
    BY <1>9 DEF DetectorJudges
  <1>10. CASE DetectorWaited
    BY <1>10 DEF DetectorWaited
  <1>11. CASE UNCHANGED wakeVars
    BY <1>11 DEF wakeVars
  <1> QED BY <1>1, <1>2, <1>3, <1>4, <1>5, <1>6, <1>7, <1>8, <1>9, <1>10, <1>11 DEF WakeWordNext

(* A paused engine reports the recording it was in at most, and one task    *)
(* listens (wake_word.c:202, 300).                                          *)
THEOREM OneWord == WakeWordSpec => []OneWordAfterPause
  <1>1. EngineInv => OneWordAfterPause
    BY DEF EngineInv, OneWordAfterPause
  <1> QED BY <1>1, EngineInit, EngineNext, PTL DEF WakeWordSpec

-----------------------------------------------------------------------------
(* The pending photo.                                                       *)

(* One task at a time is at the photo.                                      *)
OneAtPhoto == \A h, o \in Holders : at[h] # "away" /\ at[o] # "away" => h = o
PhotoWaiting == live = {pendingJpeg} \ {NoImage} /\ (pendingSize = 1 <=> pendingJpeg # NoImage)

(* What the main loop has done of storing or taking it ...                  *)
MainAtPhoto ==
  /\ at["main"] \in {"away", "store", "set", "size", "preview", "take", "clear", "send", "free"}
  /\ at["main"] = "store" =>
       /\ taken # NoImage /\ pendingJpeg # taken
       /\ live = ({pendingJpeg} \ {NoImage}) \cup {taken}
  /\ at["main"] = "set" => live = {taken} /\ taken # NoImage
  /\ at["main"] \in {"size", "preview"} =>
       live = {taken} /\ taken # NoImage /\ pendingJpeg = taken
  /\ at["main"] = "preview" => pendingSize = 1
  /\ at["main"] = "take" => PhotoWaiting /\ inHand["main"] = pendingJpeg
  /\ at["main"] \in {"clear", "send", "free"} =>
       live = {inHand["main"]} \ {NoImage} /\ pendingJpeg = NoImage
  /\ at["main"] \in {"send", "free"} => pendingSize = 0
(* ... and the two others of discarding it.                                 *)
OtherAtPhoto(h) ==
  /\ at[h] \in {"away", "send", "free", "clear", "clear_size"}
  /\ at[h] \in {"send", "free"} => PhotoWaiting /\ pendingJpeg # NoImage
  /\ at[h] \in {"clear", "clear_size"} => live = {}
  /\ at[h] = "clear_size" => pendingJpeg = NoImage
PhotoInv ==
  /\ DOMAIN at = Holders /\ at = [h \in Holders |-> at[h]]
  /\ inHand = [h \in Holders |-> inHand[h]]
  /\ taken \in Nat /\ pendingJpeg \in 0..taken /\ live \subseteq 1..taken /\ pendingSize \in {0, 1}
  /\ ~imageOverlap =>
       /\ imageDamage = {} /\ OneAtPhoto
       /\ MainAtPhoto /\ OtherAtPhoto("knob") /\ OtherAtPhoto("console")
       /\ (\A h \in Holders : at[h] = "away") => PhotoWaiting

(* A move without an overlap finds the other tasks away.                    *)
LEMMA MoveAlone ==
  ASSUME PhotoInv, NEW h \in Holders, NEW from, NEW to, Move(h, from, to), ~imageOverlap'
  PROVE  /\ ~imageOverlap /\ at[h] = from /\ at'[h] = to
         /\ \A o \in Holders \ {h} : at'[o] = at[o]
         /\ to # "away" => \A o \in Holders \ {h} : at[o] = "away"
         /\ from # "away" => \A o \in Holders \ {h} : at[o] = "away"
         /\ DOMAIN at' = Holders /\ at' = [o \in Holders |-> at'[o]]
  BY DEF Move, PhotoInv, OneAtPhoto

(* Only the task that moves is elsewhere afterwards.                        *)
LEMMA MoveTyped ==
  ASSUME PhotoInv, NEW h \in Holders, NEW from, NEW to, Move(h, from, to)
  PROVE  DOMAIN at' = Holders /\ at' = [o \in Holders |-> at'[o]]
  BY DEF Move, PhotoInv

(* Every task is away from the photo.                                       *)
LEMMA PhotoInit == ImageInit => PhotoInv
  BY DEF ImageInit, PhotoInv, OneAtPhoto, PhotoWaiting, MainAtPhoto, OtherAtPhoto, Holders, NoImage

(* The main loop's steps.                                                   *)
LEMMA PhotoMain ==
  ASSUME PhotoInv, \/ Captured \/ StoreFreesOld \/ StoreSets \/ StoreSizes \/ Preview
                   \/ VoiceTakes \/ VoiceClears \/ VoiceClearsSize \/ VoiceSends \/ VoiceFrees
  PROVE  PhotoInv'
  <1> USE DEF NoImage, Holders
  <1>1. PICK from, to : Move("main", from, to)
    BY DEF Captured, StoreFreesOld, StoreSets, StoreSizes, Preview,
           VoiceTakes, VoiceClears, VoiceClearsSize, VoiceSends, VoiceFrees
  <1>2. DOMAIN at' = Holders /\ at' = [o \in Holders |-> at'[o]]
    BY <1>1, MoveTyped
  <1>3. /\ taken' \in Nat /\ pendingJpeg' \in 0..taken' /\ live' \subseteq 1..taken'
        /\ pendingSize' \in {0, 1} /\ inHand' = [h \in Holders |-> inHand'[h]]
    BY DEF PhotoInv, Captured, StoreFreesOld, StoreSets, StoreSizes, Preview, Frees,
           VoiceTakes, VoiceClears, VoiceClearsSize, VoiceSends, VoiceFrees
  <1>4. ASSUME ~imageOverlap'
        PROVE  /\ imageDamage' = {} /\ OneAtPhoto'
               /\ MainAtPhoto' /\ OtherAtPhoto("knob")' /\ OtherAtPhoto("console")'
               /\ (\A h \in Holders : at'[h] = "away") => PhotoWaiting'
    <2> USE MoveAlone
    <2>1. CASE Captured
      BY <1>4, <2>1 DEF Captured, PhotoInv, OneAtPhoto, PhotoWaiting, MainAtPhoto, OtherAtPhoto
    <2>2. CASE StoreFreesOld
      BY <1>4, <2>2 DEF StoreFreesOld, Frees, Uses, PhotoInv, OneAtPhoto, PhotoWaiting, MainAtPhoto,
                        OtherAtPhoto
    <2>3. CASE StoreSets
      BY <1>4, <2>3 DEF StoreSets, PhotoInv, OneAtPhoto, PhotoWaiting, MainAtPhoto, OtherAtPhoto
    <2>4. CASE StoreSizes
      BY <1>4, <2>4 DEF StoreSizes, PhotoInv, OneAtPhoto, PhotoWaiting, MainAtPhoto, OtherAtPhoto
    <2>5. CASE Preview
      BY <1>4, <2>5 DEF Preview, Uses, PhotoInv, OneAtPhoto, PhotoWaiting, MainAtPhoto, OtherAtPhoto
    <2>6. CASE VoiceTakes
      BY <1>4, <2>6 DEF VoiceTakes, PhotoInv, OneAtPhoto, PhotoWaiting, MainAtPhoto, OtherAtPhoto
    <2>7. CASE VoiceClears
      BY <1>4, <2>7 DEF VoiceClears, PhotoInv, OneAtPhoto, PhotoWaiting, MainAtPhoto, OtherAtPhoto
    <2>8. CASE VoiceClearsSize
      BY <1>4, <2>8 DEF VoiceClearsSize, PhotoInv, OneAtPhoto, PhotoWaiting, MainAtPhoto,
         OtherAtPhoto
    <2>9. CASE VoiceSends
      BY <1>4, <2>9 DEF VoiceSends, Uses, PhotoInv, OneAtPhoto, PhotoWaiting, MainAtPhoto,
         OtherAtPhoto
    <2>10. CASE VoiceFrees
      BY <1>4, <2>10 DEF VoiceFrees, Frees, Uses, PhotoInv, OneAtPhoto, PhotoWaiting, MainAtPhoto,
                         OtherAtPhoto
    <2> QED BY <2>1, <2>2, <2>3, <2>4, <2>5, <2>6, <2>7, <2>8, <2>9, <2>10
  <1> QED BY <1>2, <1>3, <1>4 DEF PhotoInv

(* Those of the knob task and of the console.                               *)
LEMMA PhotoOthers ==
  ASSUME PhotoInv, \/ KnobFinds \/ ConsoleFinds \/ ConsoleSends
                   \/ \E h \in Holders : DiscardFrees(h) \/ DiscardClears(h) \/ DiscardClearsSize(h)
  PROVE  PhotoInv'
  <1> USE DEF NoImage, Holders
  <1>1. PICK h \in {"knob", "console"} :
          /\ \E from, to : Move(h, from, to)
          /\ \/ KnobFinds /\ h = "knob"
             \/ (ConsoleFinds \/ ConsoleSends) /\ h = "console"
             \/ DiscardFrees(h) \/ DiscardClears(h) \/ DiscardClearsSize(h)
    <2>1. KnobFinds => Move("knob", "away", "free")
      BY DEF KnobFinds
    <2>2. /\ ConsoleFinds => Move("console", "away", "send")
          /\ ConsoleSends => Move("console", "send", "free")
      BY DEF ConsoleFinds, ConsoleSends
    <2>3. ASSUME NEW h \in Holders
          PROVE  /\ DiscardFrees(h) => h \in {"knob", "console"} /\ Move(h, "free", "clear")
                 /\ DiscardClears(h) => h \in {"knob", "console"} /\ Move(h, "clear", "clear_size")
                 /\ DiscardClearsSize(h) => h \in {"knob", "console"} /\ Move(h, "clear_size", "away")
      BY DEF DiscardFrees, DiscardClears, DiscardClearsSize
    <2>4. CASE KnobFinds
      <3>1. "knob" \in {"knob", "console"} /\ Move("knob", "away", "free")
        BY <2>1, <2>4
      <3> QED BY <3>1, <2>4
    <2>5. CASE ConsoleFinds
      BY <2>2, <2>5
    <2>6. CASE ConsoleSends
      BY <2>2, <2>6
    <2>7. CASE \E h \in Holders : DiscardFrees(h) \/ DiscardClears(h) \/ DiscardClearsSize(h)
      <3>1. PICK h \in Holders : DiscardFrees(h) \/ DiscardClears(h) \/ DiscardClearsSize(h)
        BY <2>7
      <3>2. CASE DiscardFrees(h)
        BY <2>3, <3>2
      <3>3. CASE DiscardClears(h)
        BY <2>3, <3>3
      <3>4. CASE DiscardClearsSize(h)
        BY <2>3, <3>4
      <3> QED BY <3>1, <3>2, <3>3, <3>4
    <2> QED BY <2>4, <2>5, <2>6, <2>7
  <1>2. DOMAIN at' = Holders /\ at' = [o \in Holders |-> at'[o]]
    BY <1>1, MoveTyped
  <1>3. /\ taken' \in Nat /\ pendingJpeg' \in 0..taken' /\ live' \subseteq 1..taken'
        /\ pendingSize' \in {0, 1} /\ inHand' = [o \in Holders |-> inHand'[o]]
    BY <1>1 DEF PhotoInv, KnobFinds, ConsoleFinds, ConsoleSends, DiscardFrees, DiscardClears,
                DiscardClearsSize, Frees
  <1>4. ASSUME ~imageOverlap'
        PROVE  /\ imageDamage' = {} /\ OneAtPhoto'
               /\ MainAtPhoto' /\ OtherAtPhoto("knob")' /\ OtherAtPhoto("console")'
               /\ (\A o \in Holders : at'[o] = "away") => PhotoWaiting'
    <2> USE MoveAlone
    <2>1. CASE h = "knob" /\ KnobFinds
      BY <1>4, <2>1 DEF KnobFinds, PhotoInv, OneAtPhoto, PhotoWaiting, MainAtPhoto, OtherAtPhoto
    <2>2. CASE h = "console" /\ ConsoleFinds
      BY <1>4, <2>2 DEF ConsoleFinds, PhotoInv, OneAtPhoto, PhotoWaiting, MainAtPhoto, OtherAtPhoto
    <2>3. CASE h = "console" /\ ConsoleSends
      BY <1>4, <2>3 DEF ConsoleSends, Uses, PhotoInv, OneAtPhoto, PhotoWaiting, MainAtPhoto,
                        OtherAtPhoto
    <2>4. CASE DiscardFrees(h)
      BY <1>4, <2>4 DEF DiscardFrees, Frees, Uses, PhotoInv, OneAtPhoto, PhotoWaiting, MainAtPhoto,
                        OtherAtPhoto
    <2>5. CASE DiscardClears(h)
      BY <1>4, <2>5 DEF DiscardClears, PhotoInv, OneAtPhoto, PhotoWaiting, MainAtPhoto, OtherAtPhoto
    <2>6. CASE DiscardClearsSize(h)
      BY <1>4, <2>6 DEF DiscardClearsSize, PhotoInv, OneAtPhoto, PhotoWaiting, MainAtPhoto,
                        OtherAtPhoto
    <2> QED BY <1>1, <2>1, <2>2, <2>3, <2>4, <2>5, <2>6
  <1> QED BY <1>2, <1>3, <1>4 DEF PhotoInv

(* Whoever moves, the photo stays in step.                                  *)
LEMMA PhotoStep == PhotoInv /\ [ImageNext]_imageVars => PhotoInv'
  <1>1. PhotoInv /\ UNCHANGED imageVars => PhotoInv'
    BY DEF PhotoInv, imageVars, OneAtPhoto, PhotoWaiting, MainAtPhoto, OtherAtPhoto
  <1> QED BY <1>1, PhotoMain, PhotoOthers DEF ImageNext

(* As long as no two tasks meet at it, a photo is freed once and sent at    *)
(* most once, and waits exactly when its size says so (voice_chat.c:263,    *)
(* app_main.c:525, app_tasks.c:148, serial_cmd.c:104).                      *)
THEOREM PhotoKept == ImageSpec => []ImagesKeptStraight
  <1>1. PhotoInv => ImagesKeptStraight
    BY DEF PhotoInv, ImagesKeptStraight, PhotoWaiting
  <1> QED BY <1>1, PhotoInit, PhotoStep, PTL DEF ImageSpec

-----------------------------------------------------------------------------
(* Messages of cron jobs.                                                   *)

(* How many sessions entered the ring after the one in slot i.              *)
SlotAge(i) == IF i < ringIndex THEN ringIndex - 1 - i ELSE ringIndex - 1 - i + RingSize

(* The ring holds the last sessions that entered, each in its slot.         *)
RingRecent ==
  \A i \in 0..(RingSize - 1) :
    ring[i] = IF SlotAge(i) < Len(tracked) THEN tracked[Len(tracked) - SlotAge(i)] ELSE Nobody

(* The session that entered k-th has not entered again.                     *)
LastAt(k) == \A j \in (k + 1)..Len(tracked) : tracked[j] # tracked[k]

(* The inductive invariant: the ring is the end of the history, no session  *)
(* is in it twice, every session in the history entered a last time, and    *)
(* every running job's did enter.                                           *)
NoticeInv ==
  /\ NoticeTypeOK
  /\ RingRecent
  /\ \A i, j \in 0..(RingSize - 1) : ring[i] = ring[j] /\ ring[i] # Nobody => i = j
  /\ \A k \in 1..Len(tracked) : \E m \in 1..Len(tracked) : tracked[m] = tracked[k] /\ LastAt(m)
  /\ \A s \in running : \E k \in 1..Len(tracked) : tracked[k] = s

(* The next slot, past the end the first.                                   *)
LEMMA NextSlot ==
  ASSUME NoticeTypeOK, ringIndex' = (ringIndex + 1) % RingSize
  PROVE  ringIndex' = IF ringIndex + 1 = RingSize THEN 0 ELSE ringIndex + 1
  <1>1. RingSize \in Nat \ {0} /\ ringIndex \in 0..(RingSize - 1)
    BY NoticeAssumption DEF NoticeTypeOK
  <1>2. \A a, b \in Nat : a < b => a % b = a
    OBVIOUS
  <1>3. \A b \in Nat \ {0} : b % b = 0
    OBVIOUS
  <1> QED BY <1>1, <1>2, <1>3

(* The initial state satisfies the invariant.                               *)
LEMMA NoticeStarts == NoticeInit => NoticeInv
  <1> SUFFICES ASSUME NoticeInit PROVE NoticeInv
    OBVIOUS
  <1>1. NoticeTypeOK
    BY NoticeAssumption DEF NoticeInit, NoticeTypeOK
  <1>2. ringIndex = 0 /\ RingSize \in Nat \ {0} /\ Len(tracked) = 0
    BY NoticeAssumption DEF NoticeInit
  <1>3. RingRecent
    BY <1>2 DEF NoticeInit, RingRecent, SlotAge
  <1> QED BY <1>1, <1>2, <1>3 DEF NoticeInit, NoticeInv

(* A session that enters takes the oldest slot; one that is in the ring     *)
(* changes nothing.                                                         *)
LEMMA EnteringKeeps ==
  ASSUME NoticeInv, NEW s \in Sessions, TrackCronSession(s)
  PROVE  /\ ring' \in [0..(RingSize - 1) -> Sessions \cup {Nobody}] /\ ringIndex' \in 0..(RingSize - 1)
         /\ tracked' \in Seq(Sessions)
         /\ RingRecent'
         /\ \A i, j \in 0..(RingSize - 1) : ring'[i] = ring'[j] /\ ring'[i] # Nobody => i = j
         /\ \A k \in 1..Len(tracked') : \E m \in 1..Len(tracked') : tracked'[m] = tracked'[k] /\ LastAt(m)'
         /\ \A k \in 1..Len(tracked) : \E m \in 1..Len(tracked') : tracked'[m] = tracked[k]
         /\ \E k \in 1..Len(tracked') : tracked'[k] = s
  <1>t. /\ ring \in [0..(RingSize - 1) -> Sessions \cup {Nobody}] /\ ringIndex \in 0..(RingSize - 1)
        /\ tracked \in Seq(Sessions) /\ RingSize \in Nat \ {0} /\ Len(tracked) \in Nat
    BY NoticeAssumption DEF NoticeInv, NoticeTypeOK
  <1>i. /\ RingRecent
        /\ \A i, j \in 0..(RingSize - 1) : ring[i] = ring[j] /\ ring[i] # Nobody => i = j
        /\ \A k \in 1..Len(tracked) : \E m \in 1..Len(tracked) : tracked[m] = tracked[k] /\ LastAt(m)
    BY DEF NoticeInv
  <1>1. CASE IsCronSession(s) /\ UNCHANGED <<ring, ringIndex, tracked>>
    <2>1. PICK i \in 0..(RingSize - 1) : ring[i] = s
      BY <1>1, <1>t DEF IsCronSession
    <2>2. \E k \in 1..Len(tracked) : tracked[k] = s
      <3>1. SlotAge(i) \in Nat
        BY <1>t DEF SlotAge
      <3>2. CASE SlotAge(i) < Len(tracked)
        BY <1>i, <1>t, <2>1, <3>1, <3>2 DEF RingRecent
      <3>3. CASE ~(SlotAge(i) < Len(tracked))
        <4>1. ring[i] = Nobody
          BY <1>i, <3>3 DEF RingRecent
        <4> QED BY <2>1, <4>1, NoticeAssumption
      <3> QED BY <3>2, <3>3
    <2>3. RingRecent' /\ \A m : LastAt(m)' <=> LastAt(m)
      BY <1>1, <1>i DEF RingRecent, SlotAge, LastAt
    <2> QED BY <1>1, <1>t, <1>i, <2>2, <2>3
  <1>2. CASE /\ ~IsCronSession(s)
             /\ ring' = [ring EXCEPT ![ringIndex] = s] /\ ringIndex' = (ringIndex + 1) % RingSize
             /\ tracked' = Append(tracked, s)
    <2>1. ringIndex' = IF ringIndex + 1 = RingSize THEN 0 ELSE ringIndex + 1
      BY <1>2, NextSlot DEF NoticeInv
    <2>2. /\ tracked' \in Seq(Sessions) /\ Len(tracked') = Len(tracked) + 1
          /\ tracked'[Len(tracked) + 1] = s /\ \A k \in 1..Len(tracked) : tracked'[k] = tracked[k]
      BY <1>t, <1>2
    <2>3. /\ \A i \in 0..(RingSize - 1) : ring'[i] = IF i = ringIndex THEN s ELSE ring[i]
          /\ ring' \in [0..(RingSize - 1) -> Sessions \cup {Nobody}]
      BY <1>t, <1>2
    <2>4. RingRecent'
      <3>1. ASSUME NEW i \in 0..(RingSize - 1)
            PROVE  ring'[i] = IF SlotAge(i)' < Len(tracked') THEN tracked'[Len(tracked') - SlotAge(i)'] ELSE Nobody
        <4>1. CASE i = ringIndex
          <5>1. SlotAge(i)' = 0
            BY <1>t, <2>1, <4>1 DEF SlotAge
          <5> QED BY <1>t, <2>2, <2>3, <4>1, <5>1
        <4>2. CASE i # ringIndex
          <5>1. SlotAge(i)' = SlotAge(i) + 1 /\ SlotAge(i) \in Nat
            BY <1>t, <2>1, <4>2 DEF SlotAge
          <5>2. ring'[i] = IF SlotAge(i) < Len(tracked) THEN tracked[Len(tracked) - SlotAge(i)] ELSE Nobody
            BY <1>i, <2>3, <4>2 DEF RingRecent
          <5>3. CASE SlotAge(i) < Len(tracked)
            <6>1. Len(tracked) - SlotAge(i) \in 1..Len(tracked) /\ Len(tracked') - SlotAge(i)' = Len(tracked) - SlotAge(i)
              BY <1>t, <2>2, <5>1, <5>3
            <6> QED BY <1>t, <2>2, <5>1, <5>2, <5>3, <6>1
          <5>4. CASE ~(SlotAge(i) < Len(tracked))
            BY <1>t, <2>2, <5>1, <5>2, <5>4
          <5> QED BY <5>3, <5>4
        <4> QED BY <4>1, <4>2
      <3> QED BY <3>1 DEF RingRecent
    <2>5. \A i, j \in 0..(RingSize - 1) : ring'[i] = ring'[j] /\ ring'[i] # Nobody => i = j
      <3>1. \A i \in 0..(RingSize - 1) : ring[i] # s
        BY <1>t, <1>2 DEF IsCronSession
      <3> QED BY <1>i, <2>3, <3>1
    <2>6. ASSUME NEW k \in 1..Len(tracked')
          PROVE  \E m \in 1..Len(tracked') : tracked'[m] = tracked'[k] /\ LastAt(m)'
      <3>1. CASE tracked'[k] = s
        <4>1. PICK m \in 1..Len(tracked') : m = Len(tracked) + 1
          BY <1>t, <2>2
        <4>2. \A j \in (m + 1)..Len(tracked') : tracked'[j] # tracked'[m]
          BY <1>t, <2>2, <4>1
        <4>3. tracked'[m] = tracked'[k]
          BY <2>2, <3>1, <4>1
        <4> QED BY <4>2, <4>3 DEF LastAt
      <3>2. CASE tracked'[k] # s
        <4>1. k \in 1..Len(tracked)
          BY <1>t, <2>2, <3>2
        <4>2. PICK m \in 1..Len(tracked) : tracked[m] = tracked[k] /\ LastAt(m)
          BY <1>i, <4>1
        <4>3. m \in 1..Len(tracked') /\ tracked'[m] = tracked'[k]
          BY <1>t, <2>2, <4>1, <4>2
        <4>4. ASSUME NEW j \in (m + 1)..Len(tracked') PROVE tracked'[j] # tracked'[m]
          <5>1. j \in (m + 1)..Len(tracked) \/ j = Len(tracked) + 1
            <6>1. Len(tracked) \in Nat /\ Len(tracked') = Len(tracked) + 1
              BY <1>t, <2>2
            <6>2. j \in (m + 1)..(Len(tracked) + 1) /\ m \in Int
              BY <6>1
            <6> QED BY <6>1, <6>2
          <5>2. CASE j = Len(tracked) + 1
            <6>1. tracked'[j] = s
              BY <2>2, <5>2
            <6> QED BY <3>2, <4>3, <6>1
          <5>3. CASE j \in (m + 1)..Len(tracked)
            <6>1. tracked[j] # tracked[m]
              BY <4>2, <5>3 DEF LastAt
            <6>2. j \in 1..Len(tracked) /\ m \in 1..Len(tracked)
              BY <1>t, <4>2, <5>3
            <6>3. tracked'[j] = tracked[j] /\ tracked'[m] = tracked[m]
              BY <2>2, <6>2
            <6> QED BY <6>1, <6>3
          <5> QED BY <5>1, <5>2, <5>3
        <4> QED BY <4>3, <4>4 DEF LastAt
      <3> QED BY <3>1, <3>2
    <2>7. ringIndex' \in 0..(RingSize - 1)
      BY <1>t, <2>1
    <2>8. \A k \in 1..Len(tracked) : \E m \in 1..Len(tracked') : tracked'[m] = tracked[k]
      BY <1>t, <2>2
    <2>9. \E k \in 1..Len(tracked') : tracked'[k] = s
      BY <1>t, <2>2
    <2> QED BY <2>2, <2>3, <2>4, <2>5, <2>6, <2>7, <2>8, <2>9
  <1> QED BY <1>1, <1>2 DEF TrackCronSession

(* Every step preserves the invariant.                                      *)
LEMMA NoticesStep == NoticeInv /\ [NoticeNext]_noticeVars => NoticeInv'
  <1> SUFFICES ASSUME NoticeInv, [NoticeNext]_noticeVars PROVE NoticeInv'
    OBVIOUS
  <1>t. NoticeTypeOK /\ Channels \subseteq Sessions
    BY NoticeAssumption DEF NoticeInv
  <1>1. ASSUME UNCHANGED <<ring, ringIndex, tracked>>, running' \subseteq running,
               autoNotify' = autoNotify, heardOf' \in Sessions \cup {Nobody}, cronEvents' \in 0..MaxCronEvents
        PROVE  NoticeInv'
    <2>1. NoticeTypeOK'
      BY <1>t, <1>1 DEF NoticeTypeOK
    <2>2. RingRecent' /\ \A m : LastAt(m)' <=> LastAt(m)
      BY <1>1 DEF NoticeInv, RingRecent, SlotAge, LastAt
    <2> QED BY <1>1, <2>1, <2>2 DEF NoticeInv
  <1>2. ASSUME NEW s \in Sessions \ Channels, CronStarts(s) PROVE NoticeInv'
    <2>1. /\ TrackCronSession(s) /\ running' = running \cup {s} /\ UNCHANGED <<autoNotify, heardOf>>
          /\ cronEvents' \in 0..MaxCronEvents /\ s \in Sessions
      BY <1>t, <1>2, NoticeAssumption DEF CronStarts, CronEvent, NoticeTypeOK
    <2>2. /\ ring' \in [0..(RingSize - 1) -> Sessions \cup {Nobody}] /\ ringIndex' \in 0..(RingSize - 1)
          /\ tracked' \in Seq(Sessions)
          /\ RingRecent'
          /\ \A i, j \in 0..(RingSize - 1) : ring'[i] = ring'[j] /\ ring'[i] # Nobody => i = j
          /\ \A k \in 1..Len(tracked') : \E m \in 1..Len(tracked') : tracked'[m] = tracked'[k] /\ LastAt(m)'
          /\ \A k \in 1..Len(tracked) : \E m \in 1..Len(tracked') : tracked'[m] = tracked[k]
          /\ \E k \in 1..Len(tracked') : tracked'[k] = s
      BY <2>1, EnteringKeeps
    <2>3. NoticeTypeOK'
      BY <1>t, <2>1, <2>2 DEF NoticeTypeOK
    <2>4. \A r \in running' : \E k \in 1..Len(tracked') : tracked'[k] = r
      <3> SUFFICES ASSUME NEW r \in running' PROVE \E k \in 1..Len(tracked') : tracked'[k] = r
        OBVIOUS
      <3>1. CASE r = s
        BY <2>2, <3>1
      <3>2. CASE r # s
        <4>1. r \in running
          BY <2>1, <3>2
        <4>2. PICK k \in 1..Len(tracked) : tracked[k] = r
          BY <4>1 DEF NoticeInv
        <4>3. \E m \in 1..Len(tracked') : tracked'[m] = tracked[k]
          BY <2>2
        <4> QED BY <4>2, <4>3
      <3> QED BY <3>1, <3>2
    <2> QED BY <2>2, <2>3, <2>4 DEF NoticeInv
  <1>3. ASSUME NEW s \in Sessions, CronEnds(s) PROVE NoticeInv'
    BY <1>t, <1>1, <1>3, NoticeAssumption DEF CronEnds, CronEvent, NoticeTypeOK
  <1>4. ASSUME NEW s \in Sessions, ExternalFinal(s) PROVE NoticeInv'
    BY <1>t, <1>1, <1>4 DEF ExternalFinal, NoticeTypeOK
  <1>5. CASE UNCHANGED noticeVars
    BY <1>t, <1>1, <1>5 DEF noticeVars, NoticeTypeOK
  <1> QED BY <1>2, <1>3, <1>4, <1>5 DEF NoticeNext

(* One of the last RingSize sessions that entered is in the ring.           *)
LEMMA RecentInRing ==
  ASSUME NoticeInv, NEW k \in 1..Len(tracked), Len(tracked) - k < RingSize
  PROVE  IsCronSession(tracked[k])
  <1>t. /\ ring \in [0..(RingSize - 1) -> Sessions \cup {Nobody}] /\ ringIndex \in 0..(RingSize - 1)
        /\ tracked \in Seq(Sessions) /\ RingSize \in Nat \ {0} /\ Len(tracked) \in Nat
    BY NoticeAssumption DEF NoticeInv, NoticeTypeOK
  <1> DEFINE a == Len(tracked) - k
             i == IF a < ringIndex THEN ringIndex - 1 - a ELSE ringIndex - 1 - a + RingSize
  <1>1. a \in 0..(RingSize - 1) /\ a < Len(tracked)
    BY <1>t
  <1>2. i \in 0..(RingSize - 1) /\ SlotAge(i) = a
    BY <1>t, <1>1 DEF SlotAge
  <1>3. ring[i] = tracked[Len(tracked) - a]
    BY <1>1, <1>2 DEF NoticeInv, RingRecent
  <1>4. Len(tracked) - a = k
    BY <1>t
  <1> QED BY <1>t, <1>2, <1>3, <1>4 DEF IsCronSession

(* openclaw_client.c:223: a cron job's session is forgotten only after as   *)
(* many others as the ring has slots entered since, for any number of       *)
(* sessions and slots.                                                      *)
THEOREM NoticesKept == NoticeSpec => []NoticesHold
  <1>1. NoticeInv => NoticesHold
    <2> SUFFICES ASSUME NoticeInv PROVE NoticesHold
      OBVIOUS
    <2>1. \A i, j \in DOMAIN ring : ring[i] = ring[j] /\ ring[i] # Nobody => i = j
      BY DEF NoticeInv, NoticeTypeOK
    <2>2. ASSUME NEW s \in running, ~IsCronSession(s)
          PROVE  Len(tracked) - LastEntered(s) >= RingSize
      <3>1. PICK m \in 1..Len(tracked) : tracked[m] = s /\ LastAt(m)
        BY DEF NoticeInv
      <3>2. LastEntered(s) \in 1..Len(tracked) /\ tracked[LastEntered(s)] = s
        BY <3>1 DEF LastEntered, LastAt
      <3>3. ~(Len(tracked) - LastEntered(s) < RingSize)
        BY <2>2, <3>2, RecentInRing
      <3>4. Len(tracked) \in Nat /\ RingSize \in Nat
        BY NoticeAssumption DEF NoticeInv, NoticeTypeOK
      <3> QED BY <3>2, <3>3, <3>4
    <2> QED BY <2>1, <2>2 DEF NoticesHold
  <1> QED BY <1>1, NoticeStarts, NoticesStep, PTL DEF NoticeSpec

-----------------------------------------------------------------------------
(* The list of jobs on the screen.                                          *)

(* What the gateway's list and the client's copy are made of.               *)
JobEntry == [id : Jobs \cup {""}, on : BOOLEAN]

(* The types.                                                               *)
TaskTypes ==
  /\ jobs \in Seq(JobEntry)
  /\ arriving = <<>> \/ (Len(arriving) = 1 /\ arriving[1] \in Seq(JobEntry))
  /\ nextEntry \in 1..(MaxTasks + 1) /\ taskCount \in 0..MaxTasks
  /\ tasks \in [1..MaxTasks -> JobEntry]
  /\ rows \in Seq(JobEntry) /\ Len(rows) <= MaxTasks
  /\ visible \in BOOLEAN /\ detail \in BOOLEAN /\ onScreen \in {"main", "tasks"}
  /\ panel \in BOOLEAN /\ mainAt \in {"rest", "shown", "drawing", "hiding"}
  /\ statusAt \in {"rest", "drawing"} /\ tap \in 0..MaxTasks

(* The inductive invariant: rows that were not overtaken show the client's  *)
(* copy, and the main loop alone marks the screen visible, so that the mark *)
(* stays away while it waits to hide it.                                    *)
TaskInv ==
  /\ TaskTypes
  /\ ~rowsOld => \A i \in 1..Len(rows) : rows[i] = tasks[i]
  /\ ~wrongJob
  /\ ~lockMissed /\ mainAt # "hiding" => (visible <=> onScreen = "tasks")
  /\ mainAt = "hiding" => ~visible
  /\ detail => panel

(* What moves only the gateway's list and the answer preserves it.          *)
LEMMA RowsUntouched ==
  ASSUME TaskInv, jobs' \in Seq(JobEntry),
         arriving' = <<>> \/ (Len(arriving') = 1 /\ arriving'[1] \in Seq(JobEntry)),
         nextEntry' \in 1..(MaxTasks + 1),
         UNCHANGED <<tasks, taskCount, rows, rowsOld, visible, detail, panel, onScreen,
                     tap, mainAt, statusAt, lockMissed, wrongJob>>
  PROVE  TaskInv'
  BY DEF TaskInv, TaskTypes

(* An entry that is rewritten overtakes the rows, unless it was the same.   *)
LEMMA EntryTaken ==
  ASSUME TaskInv, NEW e \in JobEntry, nextEntry \in 1..MaxTasks, EntryIs(e),
         nextEntry' \in 1..(MaxTasks + 1),
         UNCHANGED <<jobs, arriving, taskCount, rows, visible, detail, panel, onScreen,
                     tap, mainAt, statusAt, lockMissed, wrongJob>>
  PROVE  TaskInv'
  <1>1. tasks' \in [1..MaxTasks -> JobEntry]
    BY DEF TaskInv, TaskTypes, EntryIs
  <1>2. ~rowsOld' => ~rowsOld /\ tasks' = tasks
    BY DEF EntryIs
  <1> QED BY <1>1, <1>2 DEF TaskInv, TaskTypes

(* Drawing makes the rows what the copy is.                                 *)
LEMMA Drawn ==
  ASSUME TaskInv, Draw
  PROVE  /\ rows' \in Seq(JobEntry) /\ Len(rows') <= MaxTasks
         /\ \A i \in 1..Len(rows') : rows'[i] = tasks[i]
  <1>1. tasks \in Seq(JobEntry) /\ Len(tasks) = MaxTasks /\ taskCount \in 0..MaxTasks /\ MaxTasks \in Nat
    BY TaskAssumption DEF TaskInv, TaskTypes
  <1>2. 1 \in 1..(Len(tasks) + 1) /\ taskCount \in (1 - 1)..Len(tasks)
    BY <1>1
  <1>3. /\ SubSeq(tasks, 1, taskCount) \in Seq(JobEntry)
        /\ Len(SubSeq(tasks, 1, taskCount)) = taskCount - 1 + 1
        /\ \A i \in 1..(taskCount - 1 + 1) : SubSeq(tasks, 1, taskCount)[i] = tasks[1 + i - 1]
    BY <1>1, <1>2, SubSeqProperties
  <1>4. taskCount - 1 + 1 = taskCount /\ \A i \in 1..taskCount : 1 + i - 1 = i
    BY <1>1
  <1> QED BY <1>1, <1>3, <1>4 DEF Draw

(* The initial state satisfies the invariant.                               *)
LEMMA TasksStart == TaskScreenInit => TaskInv
  <1> SUFFICES ASSUME TaskScreenInit PROVE TaskInv
    OBVIOUS
  <1>1. [i \in 1..MaxTasks |-> Cleared] \in [1..MaxTasks -> JobEntry]
    BY DEF Cleared, JobEntry
  <1>2. tasks \in [1..MaxTasks -> JobEntry] /\ tap = 0 /\ MaxTasks \in Nat
    BY <1>1, TaskAssumption DEF TaskScreenInit, NoTap
  <1>3. jobs = <<>> /\ rows = <<>> /\ Len(rows) = 0 /\ jobs \in Seq(JobEntry)
    BY DEF TaskScreenInit
  <1>4. nextEntry \in 1..(MaxTasks + 1) /\ taskCount \in 0..MaxTasks /\ tap \in 0..MaxTasks
    BY <1>2 DEF TaskScreenInit
  <1>5. rows \in Seq(JobEntry) /\ Len(rows) <= MaxTasks /\ ~(\E i \in 1..Len(rows) : TRUE)
    BY <1>2, <1>3
  <1>6. arriving = <<>> /\ visible = FALSE /\ detail = FALSE /\ onScreen = "main" /\ ~wrongJob
    BY DEF TaskScreenInit
  <1>7. ~rowsOld => \A i \in 1..Len(rows) : rows[i] = tasks[i]
    BY <1>5
  <1>8. visible \in BOOLEAN /\ detail \in BOOLEAN /\ onScreen \in {"main", "tasks"}
    BY <1>6
  <1>9. (visible <=> onScreen = "tasks") /\ panel = FALSE /\ mainAt = "rest" /\ statusAt = "rest"
    BY <1>6 DEF TaskScreenInit
  <1>10. jobs \in Seq(JobEntry) /\ arriving = <<>> /\ tasks \in [1..MaxTasks -> JobEntry] /\ ~wrongJob
    BY <1>2, <1>3, <1>6
  <1>11. arriving = <<>> \/ (Len(arriving) = 1 /\ arriving[1] \in Seq(JobEntry))
    BY <1>10
  <1>12. TaskTypes
    BY <1>4, <1>5, <1>8, <1>9, <1>10, <1>11 DEF TaskTypes
  <1> QED BY <1>6, <1>7, <1>9, <1>10, <1>12 DEF TaskInv

(* Every step preserves the invariant.                                      *)
LEMMA TasksStep == TaskInv /\ [TaskScreenNext]_taskVars => TaskInv'
  <1> SUFFICES ASSUME TaskInv, [TaskScreenNext]_taskVars PROVE TaskInv'
    OBVIOUS
  <1>c. MaxTasks \in Nat
    BY TaskAssumption
  <1>1. CASE JobChanges
    <2>1. jobs \in Seq(JobEntry)
      BY DEF TaskInv, TaskTypes
    <2>2. CASE \E j \in Jobs : jobs' = <<[id |-> j, on |-> TRUE]>> \o jobs
      <3>1. PICK j \in Jobs : jobs' = <<[id |-> j, on |-> TRUE]>> \o jobs
        BY <2>2
      <3>2. [id |-> j, on |-> TRUE] \in JobEntry
        BY DEF JobEntry
      <3>3. <<[id |-> j, on |-> TRUE]>> \in Seq(JobEntry)
        BY <3>2
      <3>4. jobs' \in Seq(JobEntry)
        BY <2>1, <3>1, <3>3, ConcatProperties
      <3> QED BY <1>1, <3>4, RowsUntouched DEF JobChanges, Screen, Callers, TaskInv, TaskTypes
    <2>3. CASE \E i \in 1..Len(jobs) : jobs' = SubSeq(jobs, 1, i - 1) \o SubSeq(jobs, i + 1, Len(jobs))
      <3>1. PICK i \in 1..Len(jobs) : jobs' = SubSeq(jobs, 1, i - 1) \o SubSeq(jobs, i + 1, Len(jobs))
        BY <2>3
      <3>2. /\ Len(jobs) \in Nat /\ 1 \in 1..(Len(jobs) + 1) /\ i - 1 \in (1 - 1)..Len(jobs)
            /\ i + 1 \in 1..(Len(jobs) + 1) /\ Len(jobs) \in ((i + 1) - 1)..Len(jobs)
        BY <2>1
      <3>3. SubSeq(jobs, 1, i - 1) \in Seq(JobEntry)
        BY <2>1, <3>2, SubSeqProperties
      <3>4. SubSeq(jobs, i + 1, Len(jobs)) \in Seq(JobEntry)
        BY <2>1, <3>2, SubSeqProperties
      <3>5. jobs' \in Seq(JobEntry)
        BY <3>1, <3>3, <3>4, ConcatProperties
      <3> QED BY <1>1, <3>5, RowsUntouched DEF JobChanges, Screen, Callers, TaskInv, TaskTypes
    <2> QED BY <1>1, <2>2, <2>3 DEF JobChanges
  <1>2. CASE ListArrives
    <2>1. Len(arriving') = 1 /\ arriving'[1] \in Seq(JobEntry) /\ nextEntry' \in 1..(MaxTasks + 1)
      BY <1>c, <1>2 DEF ListArrives, TaskInv, TaskTypes
    <2> QED BY <1>2, <2>1, RowsUntouched DEF ListArrives, Screen, Callers, TaskInv, TaskTypes
  <1>k. ASSUME arriving # <<>>
        PROVE  Kept \in 0..MaxTasks /\ Kept <= Len(arriving[1]) /\ arriving[1] \in Seq(JobEntry)
    BY <1>c, <1>k DEF Kept, TaskInv, TaskTypes
  <1>3. CASE ClearEntry
    <2>1. Cleared \in JobEntry
      BY DEF Cleared, JobEntry
    <2>2. nextEntry \in 1..MaxTasks /\ nextEntry' \in 1..(MaxTasks + 1)
      BY <1>c, <1>3, <1>k DEF ClearEntry, TaskInv, TaskTypes
    <2> QED BY <1>3, <2>1, <2>2, EntryTaken DEF ClearEntry, Screen, Callers
  <1>4. CASE FillEntry
    <2>1. nextEntry \in 1..MaxTasks /\ nextEntry' \in 1..(MaxTasks + 1) /\ nextEntry \in 1..Len(arriving[1])
      BY <1>c, <1>4, <1>k DEF FillEntry, TaskInv, TaskTypes
    <2>2. arriving[1][nextEntry] \in JobEntry
      BY <1>4, <1>k, <2>1 DEF FillEntry
    <2>3. EntryIs(arriving[1][nextEntry])
      BY <1>4 DEF FillEntry
    <2>4. UNCHANGED <<jobs, arriving, taskCount, rows, visible, detail, panel, onScreen, tap,
                      mainAt, statusAt, lockMissed, wrongJob>>
      BY <1>4 DEF FillEntry, Screen, Callers
    <2> QED BY <2>1, <2>2, <2>3, <2>4, EntryTaken
  <1>5. CASE ListDone
    <2>1. taskCount' \in 0..MaxTasks /\ arriving' = <<>> /\ nextEntry' \in 1..(MaxTasks + 1)
      BY <1>c, <1>5, <1>k DEF ListDone
    <2>2. UNCHANGED <<jobs, tasks, rows, visible, detail, panel, onScreen, tap, mainAt, statusAt,
                      lockMissed, wrongJob>>
          /\ (~rowsOld' => ~rowsOld)
      BY <1>5 DEF ListDone, Screen, Callers
    <2> QED BY <2>1, <2>2 DEF TaskInv, TaskTypes
  <1>6. CASE Show
    BY <1>6 DEF Show, TaskInv, TaskTypes
  <1>7. CASE RefreshBegin
    BY <1>7 DEF RefreshBegin, Screen, TaskInv, TaskTypes
  <1>8. CASE RefreshEnd
    <2>1. UNCHANGED <<jobs, arriving, nextEntry, tasks, taskCount, visible, detail, panel,
                      onScreen, tap, lockMissed, wrongJob>>
      BY <1>8 DEF RefreshEnd
    <2>2. /\ mainAt' \in {"rest", "shown", "drawing", "hiding"} /\ statusAt' \in {"rest", "drawing"}
          /\ mainAt' = "hiding" <=> mainAt = "hiding"
      BY <1>8 DEF RefreshEnd, TaskInv, TaskTypes
    <2>3. /\ rows' \in Seq(JobEntry) /\ Len(rows') <= MaxTasks
          /\ ~rowsOld' => \A i \in 1..Len(rows') : rows'[i] = tasks[i]
      <3>1. CASE LockFree
        BY <1>8, <3>1, Drawn DEF RefreshEnd
      <3>2. CASE ~LockFree
        BY <1>8, <3>2 DEF RefreshEnd, TaskInv, TaskTypes
      <3> QED BY <3>1, <3>2
    <2> QED BY <2>1, <2>2, <2>3 DEF TaskInv, TaskTypes
  <1>9. CASE Back
    BY <1>9 DEF Back, Callers, TaskInv, TaskTypes, LockFree
  <1>13. CASE HideBegin
    BY <1>13 DEF HideBegin, TaskInv, TaskTypes
  <1>14. CASE HideEnd
    BY <1>14 DEF HideEnd, TaskInv, TaskTypes
  <1>10. CASE TapShows
    <2>1. CASE tap <= taskCount
      BY <1>c, <1>10, <2>1 DEF TapShows, Callers, TaskInv, TaskTypes, LockFree, NoTap
    <2>2. CASE ~(tap <= taskCount)
      BY <1>c, <1>10, <2>2 DEF TapShows, Callers, TaskInv, TaskTypes, LockFree, NoTap
    <2> QED BY <2>1, <2>2
  <1>11. ASSUME NEW i \in 1..MaxTasks, Tap(i) PROVE TaskInv'
    <2>1. ~wrongJob'
      BY <1>11 DEF Tap, TaskInv, TaskTypes, RowEntry
    <2>2. jobs' \in Seq(JobEntry)
      <3>1. jobs \in Seq(JobEntry)
        BY DEF TaskInv, TaskTypes
      <3>2. RowEntry(i).on \in BOOLEAN
        BY DEF TaskInv, TaskTypes, RowEntry, JobEntry
      <3>3. CASE UNCHANGED jobs
        BY <3>1, <3>3
      <3>4. CASE jobs' = [k \in 1..Len(jobs) |-> IF jobs[k].id = RowEntry(i).id
                                        THEN [jobs[k] EXCEPT !.on = ~RowEntry(i).on] ELSE jobs[k]]
        <4> DEFINE on == ~RowEntry(i).on
        <4>1. on \in BOOLEAN
          BY <3>2
        <4>2. jobs' = [k \in 1..Len(jobs) |-> IF jobs[k].id = RowEntry(i).id
                                        THEN [jobs[k] EXCEPT !.on = on] ELSE jobs[k]]
          BY <3>4
        <4> HIDE DEF on
        <4>3. ASSUME NEW k \in 1..Len(jobs) PROVE jobs'[k] \in JobEntry
          <5>1. jobs[k] \in JobEntry
            BY <3>1
          <5>2. [jobs[k] EXCEPT !.on = on] \in JobEntry
            BY <4>1, <5>1 DEF JobEntry
          <5> QED BY <4>2, <5>1, <5>2
        <4> QED BY <3>1, <4>2, <4>3, IsASeq
      <3> QED BY <1>11, <3>3, <3>4 DEF Tap
    <2>3. UNCHANGED <<arriving, nextEntry, tasks, taskCount, rows, visible, detail,
                      panel, onScreen, rowsOld, mainAt, statusAt, lockMissed>>
      BY <1>11 DEF Tap, Screen, Callers
    <2>4. tap' = i /\ onScreen = "tasks"
      BY <1>11 DEF Tap
    <2> QED BY <1>c, <2>1, <2>2, <2>3, <2>4 DEF TaskInv, TaskTypes
  <1>12. CASE UNCHANGED taskVars
    BY <1>12 DEF taskVars, TaskInv, TaskTypes
  <1> QED BY <1>1, <1>2, <1>3, <1>4, <1>5, <1>6, <1>7, <1>8, <1>9, <1>10, <1>11, <1>12, <1>13,
            <1>14 DEF TaskScreenNext

(* ui_tasks.c:230, :200: a tap switches the job its row shows unless the    *)
(* list was rewritten below it, and the screen shown is the one marked      *)
(* visible unless its hiding missed the lock or waits for it, for any       *)
(* number of jobs and rows.                                                 *)
THEOREM TapsKept == TaskScreenSpec => []TapsHold
  <1>1. TaskInv => TapsHold
    BY DEF TaskInv, TaskTypes, TapsHold
  <1> QED BY <1>1, TasksStart, TasksStep, PTL DEF TaskScreenSpec

-----------------------------------------------------------------------------
(* Frames that come in pieces.                                              *)

(* The frames of the history.                                               *)
FrameRecords == [length : FrameLengths, lost : BOOLEAN]

(* The types.                                                               *)
FragTypes ==
  /\ frames \in Seq(FrameRecords)
  /\ offset \in Nat /\ fragSet \in BOOLEAN /\ fragTotal \in Nat
  /\ fragBuf \in Seq(Nat \X Nat) /\ fragLen = Len(fragBuf)
  /\ handled \in Seq(Seq(Nat \X Nat))

(* What was handled are the frames that arrived whole, in their order.      *)
HandledWhole ==
  /\ \A k \in 1..Len(handled) :
       \E f \in 1..Len(frames) : Arrived(f) /\ handled[k] = Sent(f)
  /\ \A f \in 1..Len(frames) : Arrived(f) => \E k \in 1..Len(handled) : handled[k] = Sent(f)
  /\ \A j, k \in 1..Len(handled) : j < k => FrameOf(handled[j]) < FrameOf(handled[k])

(* Within a frame the buffer holds exactly what of it was delivered,        *)
(* whatever an earlier one left there.                                      *)
BufferExact ==
  /\ fragSet => Len(fragBuf) <= fragTotal
  /\ frames # <<>> => offset <= Payload
  /\ Arriving /\ offset > 0 => fragSet /\ fragTotal = Payload /\ fragBuf = Piece(0, offset)

(* The inductive invariant.                                                 *)
FragInv == FragTypes /\ HandledWhole /\ BufferExact

(* A frame of the history has a length and was lost or not.                 *)
LEMMA FrameFacts ==
  ASSUME FragTypes
  PROVE  /\ Len(frames) \in Nat
         /\ \A f \in 1..Len(frames) : /\ frames[f].length \in Nat \ {0} /\ frames[f].length \in FrameLengths
                                      /\ frames[f].lost \in BOOLEAN
         /\ frames # <<>> => Len(frames) \in 1..Len(frames) /\ Payload \in Nat \ {0}
  <1>0. frames \in Seq(FrameRecords)
    BY DEF FragTypes
  <1>1. Len(frames) \in Nat
    BY <1>0
  <1>2. ASSUME NEW f \in 1..Len(frames)
        PROVE  /\ frames[f].length \in Nat \ {0} /\ frames[f].length \in FrameLengths
               /\ frames[f].lost \in BOOLEAN
    <2>1. frames[f] \in FrameRecords
      BY <1>0
    <2> QED BY <2>1, FrameAssumption DEF FrameRecords
  <1>3. frames # <<>> => Len(frames) \in 1..Len(frames)
    BY <1>0, <1>1
  <1> QED BY <1>1, <1>2, <1>3 DEF Payload

(* Handing on the frame that arrives adds it at the end: what was handled   *)
(* before came from frames before it.                                       *)
LEMMA HandedOn ==
  ASSUME FragInv, Arriving, handled' = Append(handled, Sent(Len(frames))), frames' = frames,
         offset' = Payload
  PROVE  HandledWhole' /\ handled' \in Seq(Seq(Nat \X Nat))
  <1> DEFINE n == Len(handled)
             c == Len(frames)
  <1>0. FragTypes /\ HandledWhole
    BY DEF FragInv
  <1>a. frames # <<>> /\ ~frames[c].lost /\ offset < frames[c].length
    BY DEF Arriving
  <1>b. c \in 1..Len(frames) /\ c \in Nat
    BY <1>0, <1>a, FrameFacts
  <1>c. frames[c].length \in Nat \ {0}
    BY <1>0, <1>b, FrameFacts
  <1>1. c \in 1..Len(frames) /\ c \in Nat /\ frames[c].length \in Nat \ {0} /\ ~frames[c].lost /\ offset < Payload
    BY <1>a, <1>b, <1>c DEF Payload
  <1>2. Sent(c) \in Seq(Nat \X Nat) /\ Sent(c)[1] = <<c, 1>>
    <2>1. Sent(c) = [k \in 1..frames[c].length |-> <<c, k>>]
      BY DEF Sent
    <2>2. Sent(c) \in [1..frames[c].length -> Nat \X Nat]
      BY <1>1, <2>1
    <2>3. 1 \in 1..frames[c].length
      BY <1>1
    <2>4. Sent(c)[1] = <<c, 1>>
      BY <2>1, <2>3
    <2>5. \A m \in Nat : [1..m -> Nat \X Nat] \subseteq Seq(Nat \X Nat)
      OBVIOUS
    <2>6. frames[c].length \in Nat
      BY <1>1
    <2>7. Sent(c) \in Seq(Nat \X Nat)
      BY <2>2, <2>5, <2>6
    <2> QED BY <2>4, <2>7
  <1>3. FrameOf(Sent(c)) = c
    BY <1>2 DEF FrameOf
  <1>4. /\ n \in Nat /\ handled' \in Seq(Seq(Nat \X Nat)) /\ Len(handled') = n + 1 /\ handled'[n + 1] = Sent(c)
        /\ \A k \in 1..n : handled'[k] = handled[k]
    BY <1>0, <1>2 DEF FragTypes
  <1>5. \A f : Sent(f)' = Sent(f)
    BY DEF Sent
  <1>6. \A f \in 1..Len(frames) : (Arrived(f)' <=> Arrived(f) \/ f = c) /\ (Arrived(f) => f < c)
    BY <1>0, <1>1, FrameFacts DEF Arrived, Payload
  <1> HIDE DEF n, c
  <1>7. ASSUME NEW k \in 1..Len(handled')
        PROVE  \E f \in 1..Len(frames') : Arrived(f)' /\ handled'[k] = Sent(f)'
    <2>1. CASE k = n + 1
      BY <1>1, <1>4, <1>5, <1>6, <2>1
    <2>2. CASE k # n + 1
      <3>1. k \in 1..n
        BY <1>4, <2>2
      <3>2. PICK f \in 1..Len(frames) : Arrived(f) /\ handled[k] = Sent(f)
        BY <1>0, <3>1 DEF HandledWhole, n
      <3> QED BY <1>4, <1>5, <1>6, <3>1, <3>2
    <2> QED BY <2>1, <2>2
  <1>8. ASSUME NEW f \in 1..Len(frames'), Arrived(f)'
        PROVE  \E k \in 1..Len(handled') : handled'[k] = Sent(f)'
    <2>1. CASE f = c
      BY <1>4, <1>5, <2>1
    <2>2. CASE f # c
      <3>1. PICK k \in 1..n : handled[k] = Sent(f)
        BY <1>0, <1>6, <1>8, <2>2 DEF HandledWhole, n
      <3>2. k \in 1..Len(handled') /\ handled'[k] = handled[k]
        BY <1>4, <3>1
      <3> QED BY <1>5, <3>1, <3>2
    <2> QED BY <2>1, <2>2
  <1>9. ASSUME NEW k \in 1..n PROVE FrameOf(handled[k]) \in Nat /\ FrameOf(handled[k]) < c
    <2>1. PICK f \in 1..Len(frames) : Arrived(f) /\ handled[k] = Sent(f)
      BY <1>0, <1>9 DEF HandledWhole, n
    <2>2. frames[f].length \in Nat \ {0} /\ f \in Nat
      BY <1>0, FrameFacts
    <2>3. Sent(f)[1] = <<f, 1>>
      BY <2>2 DEF Sent
    <2> QED BY <1>6, <2>1, <2>2, <2>3 DEF FrameOf
  <1>10. ASSUME NEW j \in 1..Len(handled'), NEW k \in 1..Len(handled'), j < k
         PROVE  FrameOf(handled'[j]) < FrameOf(handled'[k])
    <2>1. j \in 1..n /\ handled'[j] = handled[j]
      BY <1>4, <1>10
    <2>2. CASE k = n + 1
      BY <1>3, <1>4, <1>9, <2>1, <2>2
    <2>3. CASE k # n + 1
      <3>1. k \in 1..n /\ handled'[k] = handled[k]
        BY <1>4, <2>3
      <3>2. FrameOf(handled[j]) < FrameOf(handled[k])
        BY <1>0, <1>10, <2>1, <3>1 DEF HandledWhole, n
      <3> QED BY <2>1, <3>1, <3>2
    <2> QED BY <2>2, <2>3
  <1> QED BY <1>4, <1>7, <1>8, <1>10 DEF HandledWhole

(* A step that hands on nothing and completes no frame preserves the order. *)
LEMMA NoneHandedOn ==
  ASSUME FragInv, handled' = handled, Len(frames') \in Nat, Len(frames') >= Len(frames),
         \A f \in 1..Len(frames) : frames'[f].length = frames[f].length /\ (Arrived(f)' <=> Arrived(f)),
         \A f \in 1..Len(frames') : Arrived(f)' => f \in 1..Len(frames)
  PROVE  HandledWhole'
  <1>0. FragTypes /\ HandledWhole /\ Len(frames) \in Nat
    BY DEF FragInv, FragTypes
  <1>1. \A f \in 1..Len(frames) : Sent(f)' = Sent(f)
    BY DEF Sent
  <1>2. \A f \in 1..Len(frames) : f \in 1..Len(frames')
    BY <1>0
  <1> QED BY <1>0, <1>1, <1>2 DEF HandledWhole

(* The initial state satisfies the invariant.                               *)
LEMMA FragStarts == FragInit => FragInv
  <1> SUFFICES ASSUME FragInit PROVE FragInv
    OBVIOUS
  <1>e. <<>> \in Seq(FrameRecords) /\ <<>> \in Seq(Nat \X Nat) /\ <<>> \in Seq(Seq(Nat \X Nat)) /\ Len(<<>>) = 0
    OBVIOUS
  <1>1. FragTypes
    BY <1>e DEF FragInit, FragTypes
  <1>2. HandledWhole
    BY DEF FragInit, HandledWhole
  <1>3. BufferExact
    BY DEF FragInit, BufferExact, Arriving
  <1> QED BY <1>1, <1>2, <1>3 DEF FragInv

(* Every step preserves the invariant.                                      *)
LEMMA FragStep == FragInv /\ [FragNext]_fragVars => FragInv'
  <1> SUFFICES ASSUME FragInv, [FragNext]_fragVars PROVE FragInv'
    OBVIOUS
  <1>t. FragTypes /\ HandledWhole /\ BufferExact
    BY DEF FragInv
  <1>f. /\ Len(frames) \in Nat
        /\ \A f \in 1..Len(frames) : /\ frames[f].length \in Nat \ {0} /\ frames[f].length \in FrameLengths
                                     /\ frames[f].lost \in BOOLEAN
        /\ frames # <<>> => Len(frames) \in 1..Len(frames) /\ Payload \in Nat \ {0}
    BY <1>t, FrameFacts
  <1>p. PieceSize \in Nat \ {0}
    BY FrameAssumption
  <1>1. ASSUME NEW n \in FrameLengths, GatewaySends(n) PROVE FragInv'
    <2>1. n \in Nat \ {0} /\ [length |-> n, lost |-> FALSE] \in FrameRecords
      BY FrameAssumption DEF FrameRecords
    <2>2. /\ frames' \in Seq(FrameRecords) /\ Len(frames') = Len(frames) + 1
          /\ frames'[Len(frames) + 1] = [length |-> n, lost |-> FALSE]
          /\ \A f \in 1..Len(frames) : frames'[f] = frames[f]
      BY <1>1, <1>t, <2>1 DEF GatewaySends, FragTypes
    <2>3. FragTypes'
      BY <1>1, <1>t, <2>2 DEF GatewaySends, FragTypes
    <2>4. Payload' = n /\ offset' = 0 /\ handled' = handled /\ UNCHANGED <<fragBuf, fragSet,
                                                                           fragTotal>>
      BY <1>1, <2>2 DEF GatewaySends, Payload
    <2>5. ASSUME NEW f \in 1..Len(frames)
          PROVE  frames'[f].length = frames[f].length /\ (Arrived(f)' <=> Arrived(f))
      <3>1. frames'[f] = frames[f] /\ (Arrived(f)' <=> ~frames[f].lost)
        BY <1>f, <2>2 DEF Arrived
      <3>2. CASE f = Len(frames)
        <4>1. ~frames[f].lost => offset = Payload
          BY <1>1, <1>t, <1>f, <3>2 DEF GatewaySends, Arriving, BufferExact, Payload, FragTypes
        <4> QED BY <3>1, <4>1 DEF Arrived
      <3>3. CASE f # Len(frames)
        BY <1>f, <3>1, <3>3 DEF Arrived
      <3> QED BY <3>1, <3>2, <3>3
    <2>6. ASSUME NEW f \in 1..Len(frames'), Arrived(f)' PROVE f \in 1..Len(frames)
      BY <1>f, <2>1, <2>2, <2>4, <2>6 DEF Arrived
    <2>7. HandledWhole'
      BY <1>f, <2>2, <2>4, <2>5, <2>6, NoneHandedOn
    <2>8. BufferExact'
      BY <1>t, <2>1, <2>4 DEF BufferExact
    <2> QED BY <2>3, <2>7, <2>8 DEF FragInv
  <1>L. ASSUME frames # <<>>, ~frames[Len(frames)].lost, frames' = [frames EXCEPT ![Len(frames)].lost = TRUE],
               Arriving
        PROVE  /\ frames' \in Seq(FrameRecords) /\ Len(frames') = Len(frames)
               /\ \A f \in 1..Len(frames) : frames'[f].length = frames[f].length /\ (Arrived(f)' <=> Arrived(f))
               /\ Payload' = Payload /\ ~Arriving'
    <2> DEFINE c == Len(frames)
               e == [frames[c] EXCEPT !.lost = TRUE]
    <2>1. c \in 1..Len(frames) /\ frames' = [frames EXCEPT ![c] = e]
      BY <1>L, <1>f
    <2>r. frames \in Seq(FrameRecords)
      BY <1>t DEF FragTypes
    <2>q. frames[c] \in FrameRecords
      BY <2>1, <2>r
    <2>2. e \in FrameRecords /\ e.lost = TRUE /\ e.length = frames[c].length
      BY <2>q DEF FrameRecords
    <2> HIDE DEF e
    <2>3. /\ frames' \in Seq(FrameRecords) /\ Len(frames') = Len(frames)
          /\ \A f \in 1..Len(frames) : frames'[f] = IF f = c THEN e ELSE frames[f]
      BY <1>t, <2>1, <2>2 DEF FragTypes
    <2>4. ASSUME NEW f \in 1..Len(frames)
          PROVE  frames'[f].length = frames[f].length /\ (Arrived(f)' <=> Arrived(f))
      <3>1. CASE f = c
        BY <1>L, <1>t, <1>f, <2>2, <2>3, <3>1 DEF Arrived, Arriving, Payload, FragTypes
      <3>2. CASE f # c
        BY <1>f, <2>3, <3>2 DEF Arrived
      <3> QED BY <3>1, <3>2
    <2>5. Payload' = Payload /\ frames'[Len(frames')].lost
      BY <2>1, <2>2, <2>3 DEF Payload
    <2> QED BY <2>3, <2>4, <2>5 DEF Arriving
  <1>2. CASE ConnectionBreaks
    <2>1. frames # <<>> /\ ~frames[Len(frames)].lost /\ frames' = [frames EXCEPT ![Len(frames)].lost = TRUE] /\ Arriving
      BY <1>2 DEF ConnectionBreaks, Arriving
    <2>2. UNCHANGED <<offset, fragBuf, fragSet, fragTotal, fragLen, handled>>
      BY <1>2 DEF ConnectionBreaks
    <2>3. /\ frames' \in Seq(FrameRecords) /\ Len(frames') = Len(frames)
          /\ \A f \in 1..Len(frames) : frames'[f].length = frames[f].length /\ (Arrived(f)' <=> Arrived(f))
          /\ Payload' = Payload /\ ~Arriving'
      BY <1>L, <2>1
    <2>4. FragTypes'
      BY <1>t, <2>2, <2>3 DEF FragTypes
    <2>5. HandledWhole'
      BY <1>f, <2>2, <2>3, NoneHandedOn
    <2>6. BufferExact'
      BY <1>t, <2>1, <2>2, <2>3 DEF BufferExact
    <2> QED BY <2>4, <2>5, <2>6 DEF FragInv
  <1>3. CASE WholeFrame
    <2>1. Arriving /\ frames # <<>> /\ offset' = Payload /\ handled' = Append(handled, Piece(0, Payload))
          /\ UNCHANGED <<frames, fragBuf, fragSet, fragTotal, fragLen>>
      BY <1>3 DEF WholeFrame, Arriving
    <2>2. Piece(0, Payload) = Sent(Len(frames))
      <3>1. \A i \in 1..Payload : 0 + i = i
        BY <1>f, <2>1
      <3> QED BY <3>1 DEF Piece, Sent, Payload
    <2>3. HandledWhole' /\ handled' \in Seq(Seq(Nat \X Nat))
      BY <2>1, <2>2, HandedOn
    <2>4. Payload' = Payload
      BY <2>1 DEF Payload
    <2>5. FragTypes'
      BY <1>t, <1>f, <2>1, <2>3 DEF FragTypes
    <2>6. BufferExact'
      <3>1. ~Arriving'
        BY <1>f, <2>1, <2>4 DEF Arriving, Payload
      <3> QED BY <1>t, <1>f, <2>1, <2>4, <3>1 DEF BufferExact
    <2> QED BY <2>3, <2>5, <2>6 DEF FragInv
  <1>4. CASE PieceArrives
    <2>0. Arriving /\ frames # <<>> /\ ~frames[Len(frames)].lost /\ Payload > PieceLength /\ offset' = offset + PieceLength
      BY <1>4 DEF PieceArrives, Arriving
    <2>1. /\ offset \in Nat /\ offset < Payload /\ Payload \in Nat \ {0} /\ PieceLength \in Nat \ {0}
          /\ offset + PieceLength <= Payload
      <3>1. offset \in Nat
        BY <1>t DEF FragTypes
      <3>2. offset < Payload /\ Payload \in Nat \ {0}
        BY <1>f, <2>0 DEF Arriving, Payload
      <3> QED BY <1>p, <3>1, <3>2 DEF PieceLength
    <2>2. PICK ok \in IF offset = 0 THEN BOOLEAN ELSE {TRUE} :
            LET s == Started(ok)
                fits == s.set /\ Len(s.buf) + PieceLength <= s.total
                buf == IF fits THEN s.buf \o Piece(offset, PieceLength) ELSE s.buf
                complete == s.set /\ Len(buf) >= s.total
            IN  /\ handled' = IF complete THEN Append(handled, buf) ELSE handled
                /\ fragSet' = (s.set /\ ~complete) /\ fragTotal' = s.total
                /\ fragBuf' = (IF complete \/ ~s.set THEN <<>> ELSE buf)
                /\ fragLen' = Len(fragBuf')
                /\ frames' = IF s.set THEN frames ELSE [frames EXCEPT ![Len(frames)].lost = TRUE]
      BY <1>4 DEF PieceArrives
    <2>3. Started(ok).total = Payload
      BY <1>t, <2>0, <2>1 DEF Started, BufferExact
    <2>4. CASE ~Started(ok).set
      <3>1. offset = 0
        BY <1>t, <2>0, <2>1, <2>4 DEF Started, BufferExact
      <3>2. /\ handled' = handled /\ fragSet' = FALSE /\ fragTotal' = Payload /\ fragBuf' = <<>> /\ fragLen' = Len(fragBuf')
            /\ frames' = [frames EXCEPT ![Len(frames)].lost = TRUE]
        BY <2>2, <2>3, <2>4
      <3>3. /\ frames' \in Seq(FrameRecords) /\ Len(frames') = Len(frames)
            /\ Payload' = Payload /\ ~Arriving'
        BY <1>L, <2>0, <3>2
      <3>4. \A f \in 1..Len(frames) : frames'[f].length = frames[f].length /\ (Arrived(f)' <=> Arrived(f))
        BY <1>L, <2>0, <3>2
      <3>e. <<>> \in Seq(Nat \X Nat) /\ offset' \in Nat
        BY <2>0, <2>1
      <3>5. FragTypes'
        BY <1>t, <2>1, <3>2, <3>3, <3>e DEF FragTypes
      <3>6. HandledWhole'
        BY <1>f, <3>2, <3>3, <3>4, NoneHandedOn
      <3>7. BufferExact'
        BY <2>0, <2>1, <3>2, <3>3 DEF BufferExact
      <3> QED BY <3>5, <3>6, <3>7 DEF FragInv
    <2>5. CASE Started(ok).set
      <3> DEFINE whole == Piece(0, offset + PieceLength)
      <3>1. Started(ok).buf = Piece(0, offset)
        <4>1. CASE offset = 0
          <5>1. 1..0 = {}
            OBVIOUS
          <5> QED BY <4>1, <5>1 DEF Started, Piece
        <4>2. CASE offset # 0
          BY <1>t, <2>0, <2>1, <4>2 DEF Started, BufferExact
        <4> QED BY <4>1, <4>2
      <3>2. /\ Piece(0, offset) \in Seq(Nat \X Nat) /\ Len(Piece(0, offset)) = offset
            /\ \A i \in 1..offset : Piece(0, offset)[i] = <<Len(frames), 0 + i>>
        BY <1>f, <2>1 DEF Piece
      <3>3. /\ Piece(offset, PieceLength) \in Seq(Nat \X Nat) /\ Len(Piece(offset, PieceLength)) = PieceLength
            /\ \A i \in 1..PieceLength : Piece(offset, PieceLength)[i] = <<Len(frames), offset + i>>
        BY <1>f, <2>1 DEF Piece
      <3>4. /\ whole \in Seq(Nat \X Nat) /\ Len(whole) = offset + PieceLength
            /\ \A i \in 1..(offset + PieceLength) : whole[i] = <<Len(frames), 0 + i>>
        BY <1>f, <2>1 DEF Piece
      <3> HIDE DEF whole
      <3>5. Piece(0, offset) \o Piece(offset, PieceLength) = whole
        <4> DEFINE front == Piece(0, offset)
                   back == Piece(offset, PieceLength)
                   both == front \o back
        <4>a. front \in Seq(Nat \X Nat) /\ back \in Seq(Nat \X Nat)
          BY <3>2, <3>3
        <4> HIDE DEF front, back
        <4>b. /\ both \in Seq(Nat \X Nat) /\ Len(both) = Len(front) + Len(back)
              /\ \A i \in 1..(Len(front) + Len(back)) :
                   both[i] = IF i <= Len(front) THEN front[i] ELSE back[i - Len(front)]
          BY <4>a, ConcatProperties
        <4> HIDE DEF both
        <4>c. Len(front) = offset /\ Len(back) = PieceLength
          BY <3>2, <3>3 DEF front, back
        <4>1. /\ both \in Seq(Nat \X Nat) /\ Len(both) = offset + PieceLength
              /\ \A i \in 1..(offset + PieceLength) :
                   both[i] = IF i <= offset THEN front[i] ELSE back[i - offset]
          BY <4>b, <4>c
        <4>d. /\ \A i \in 1..offset : front[i] = <<Len(frames), 0 + i>>
              /\ \A i \in 1..PieceLength : back[i] = <<Len(frames), offset + i>>
          BY <3>2, <3>3 DEF front, back
        <4>2. ASSUME NEW i \in 1..(offset + PieceLength) PROVE both[i] = whole[i]
          <5>1. CASE i <= offset
            <6>1. i \in 1..offset
              BY <2>1, <5>1
            <6> QED BY <3>4, <4>1, <4>d, <5>1, <6>1
          <5>2. CASE ~(i <= offset)
            <6>1. i - offset \in 1..PieceLength /\ offset + (i - offset) = 0 + i
              BY <2>1, <5>2
            <6> QED BY <3>4, <4>1, <4>d, <5>2, <6>1
          <5> QED BY <5>1, <5>2
        <4>3. both = whole
          BY <2>1, <3>4, <4>1, <4>2, SeqEqual
        <4> QED BY <4>3 DEF both, front, back
      <3>6. Len(Started(ok).buf) + PieceLength <= Started(ok).total
        BY <2>1, <2>3, <3>1, <3>2
      <3>7. /\ handled' = IF offset' >= Payload THEN Append(handled, whole) ELSE handled
            /\ fragSet' = ~(offset' >= Payload) /\ fragTotal' = Payload
            /\ fragBuf' = (IF offset' >= Payload THEN <<>> ELSE whole)
            /\ fragLen' = Len(fragBuf') /\ frames' = frames
        BY <2>0, <2>2, <2>3, <2>5, <3>1, <3>4, <3>5, <3>6
      <3>8. Payload' = Payload /\ offset' \in Nat
        BY <2>0, <2>1, <3>7 DEF Payload
      <3>9. CASE offset' >= Payload
        <4>0. offset' = Payload
          BY <2>0, <2>1, <3>9
        <4>1. offset' = Payload /\ handled' = Append(handled, whole) /\ fragBuf' = <<>> /\ fragSet' = FALSE
          BY <3>7, <3>9, <4>0
        <4>2. whole = Sent(Len(frames))
          <5>1. whole = Piece(0, Payload)
            BY <2>0, <4>1 DEF whole
          <5>2. \A i \in 1..Payload : 0 + i = i
            BY <2>1
          <5> QED BY <5>1, <5>2 DEF Piece, Sent, Payload
        <4>3. HandledWhole' /\ handled' \in Seq(Seq(Nat \X Nat))
          BY <2>0, <3>7, <4>1, <4>2, HandedOn
        <4>4. FragTypes'
          BY <1>t, <2>1, <3>7, <3>8, <4>1, <4>3 DEF FragTypes
        <4>5. BufferExact'
          <5>1. ~Arriving'
            BY <2>1, <3>7, <4>1 DEF Arriving, Payload
          <5> QED BY <2>1, <3>7, <3>8, <4>1, <5>1 DEF BufferExact
        <4> QED BY <4>3, <4>4, <4>5 DEF FragInv
      <3>10. CASE ~(offset' >= Payload)
        <4>1. handled' = handled /\ fragBuf' = whole /\ fragSet' = TRUE
          BY <3>7, <3>10
        <4>2. FragTypes'
          BY <1>t, <2>1, <3>4, <3>7, <3>8, <4>1 DEF FragTypes
        <4>3. \A f : Arrived(f)' <=> Arrived(f)
          BY <2>0, <2>1, <3>7, <3>8, <3>10 DEF Arrived, Arriving, Payload
        <4>4. HandledWhole'
          BY <1>f, <3>7, <4>1, <4>3, NoneHandedOn
        <4>5. whole = [i \in 1..offset' |-> <<Len(frames'), 0 + i>>]
          BY <2>0, <3>7 DEF whole, Piece
        <4>b. fragBuf' = Piece(0, offset)'
          BY <4>1, <4>5 DEF Piece
        <4>c. Len(fragBuf') = offset' /\ offset' <= Payload /\ fragTotal' = Payload /\ fragSet' = TRUE
          BY <2>0, <2>1, <3>4, <3>7, <3>10, <4>1
        <4>6. BufferExact'
          BY <3>8, <4>b, <4>c DEF BufferExact
        <4> QED BY <4>2, <4>4, <4>6 DEF FragInv
      <3> QED BY <3>9, <3>10
    <2> QED BY <2>4, <2>5
  <1>5. CASE UNCHANGED fragVars
    <2>1. UNCHANGED <<frames, offset, fragBuf, fragSet, fragTotal, fragLen, handled>>
      BY <1>5 DEF fragVars
    <2>2. FragTypes'
      BY <1>t, <2>1 DEF FragTypes
    <2>3. HandledWhole'
      BY <1>f, <2>1, NoneHandedOn DEF Arrived, Payload
    <2>4. BufferExact'
      BY <1>t, <2>1 DEF BufferExact, Arriving, Payload, Piece
    <2> QED BY <2>2, <2>3, <2>4 DEF FragInv
  <1> QED BY <1>1, <1>2, <1>3, <1>4, <1>5 DEF FragNext

(* openclaw_client.c:1016: handle_message gets the frames that arrived      *)
(* whole, each once and in order, and the buffer is never overrun, for any  *)
(* lengths of frames and pieces.                                            *)
THEOREM FramesKept == FragSpec => []OnlyWholeFrames
  <1>1. FragInv => OnlyWholeFrames
    BY DEF FragInv, HandledWhole, BufferExact, FragTypes, OnlyWholeFrames
  <1> QED BY <1>1, FragStarts, FragStep, PTL DEF FragSpec

-----------------------------------------------------------------------------
(* The tags in an answer.                                                   *)

(* A set of numbers that is not empty has a least element.                  *)
LEMMA LowestIs ==
  ASSUME NEW S, S \subseteq Nat, S # {}
  PROVE  Lowest(S) \in S /\ \A j \in S : Lowest(S) <= j
  BY LeastNumber DEF Lowest

(* One whose numbers are bounded has a greatest.                            *)
LEMMA HighestIs ==
  ASSUME NEW n \in Nat, NEW S, S \subseteq 0..n, S # {}
  PROVE  Highest(S) \in S /\ \A j \in S : j <= Highest(S)
  <1> DEFINE T == {m \in 0..n : n - m \in S}
  <1>1. T # {} /\ T \subseteq Nat
    <2>1. PICK k \in S : TRUE
      OBVIOUS
    <2>2. n - k \in 0..n /\ n - (n - k) = k
      BY <2>1
    <2>3. n - k \in T
      BY <2>1, <2>2
    <2>4. T \subseteq Nat
      OBVIOUS
    <2> QED BY <2>3, <2>4
  <1>2. Lowest(T) \in T /\ \A j \in T : Lowest(T) <= j
    BY <1>1, LowestIs
  <1>3. PICK m \in T : \A j \in T : m <= j
    BY <1>2
  <1>4. ASSUME NEW j \in S PROVE j <= n - m
    <2>1. n - j \in 0..n /\ n - (n - j) = j
      OBVIOUS
    <2>2. m <= n - j
      BY <1>3, <2>1
    <2> QED BY <1>3, <2>2
  <1>5. n - m \in S
    BY <1>3
  <1> QED BY <1>4, <1>5 DEF Highest

(* What a cut leaves: nothing of the tag, and of what is before it all but  *)
(* line ends.                                                               *)
LEMMA CutKeeps ==
  ASSUME answer \in Seq(Tokens), NEW n \in 0..Len(answer), NEW t
  PROVE  /\ CutAt(n, t) \in 0..n
         /\ \A j \in 1..CutAt(n, t) : answer[j] # t
         /\ \A i \in 1..n : CutAt(n, t) < i /\ (\A j \in 1..i : answer[j] # t) => answer[i] = "nl"
  <1>0. Len(answer) \in Nat /\ n \in Nat
    OBVIOUS
  <1>1. CASE ~Has(n, t)
    BY <1>0, <1>1 DEF CutAt, Has
  <1>2. CASE Has(n, t)
    <2> DEFINE S == {i \in 1..n : answer[i] = t}
               p == Lowest(S)
               E == {k \in 0..(p - 1) : k = 0 \/ answer[k] # "nl"}
    <2>1. S \subseteq Nat /\ S # {}
      BY <1>2 DEF Has
    <2>2. p \in S /\ \A j \in S : p <= j
      BY <2>1, LowestIs
    <2>3. p \in 1..n /\ answer[p] = t /\ \A j \in 1..(p - 1) : answer[j] # t
      <3>1. p \in 1..n /\ answer[p] = t
        BY <2>2
      <3>2. ASSUME NEW j \in 1..(p - 1), answer[j] = t PROVE FALSE
        <4>1. j \in S /\ ~(p <= j)
          BY <1>0, <3>1, <3>2
        <4> QED BY <2>2, <4>1
      <3> QED BY <3>1, <3>2
    <2> HIDE DEF S, p
    <2>4. p - 1 \in Nat /\ E \subseteq 0..(p - 1) /\ 0 \in E
      BY <1>0, <2>3
    <2>5. Highest(E) \in E /\ \A j \in E : j <= Highest(E)
      BY <2>4, HighestIs
    <2>6. CutAt(n, t) = Highest(E)
      BY <1>2 DEF CutAt, TrimEnd, Place, p, S
    <2> DEFINE g == Highest(E)
    <2>7. g \in 0..(p - 1) /\ \A j \in (g + 1)..(p - 1) : answer[j] = "nl"
      <3>1. g \in 0..(p - 1)
        BY <2>5
      <3>2. ASSUME NEW j \in (g + 1)..(p - 1), answer[j] # "nl" PROVE FALSE
        <4>1. j \in E /\ ~(j <= g)
          BY <2>4, <3>1, <3>2
        <4> QED BY <2>5, <4>1
      <3> QED BY <3>1, <3>2
    <2> HIDE DEF g, E
    <2>8. \A j \in 1..g : j \in 1..(p - 1)
      BY <1>0, <2>3, <2>7
    <2>9. ASSUME NEW i \in 1..n, g < i, \A j \in 1..i : answer[j] # t PROVE answer[i] = "nl"
      <3>1. ~(p <= i)
        BY <1>0, <2>3, <2>9
      <3>2. i \in (g + 1)..(p - 1)
        BY <1>0, <2>3, <2>7, <2>9, <3>1
      <3> QED BY <2>7, <3>2
    <2>10. g \in 0..n
      BY <1>0, <2>3, <2>7
    <2> QED BY <2>3, <2>6, <2>8, <2>9, <2>10 DEF g
  <1> QED BY <1>1, <1>2

(* What a part of a sequence holds.                                         *)
LEMMA PartHolds ==
  ASSUME NEW S, NEW s \in Seq(S), NEW a \in 1..(Len(s) + 1), NEW b \in (a - 1)..Len(s)
  PROVE  /\ SubSeq(s, a, b) \in Seq(S)
         /\ \A m \in a..b : In(SubSeq(s, a, b), s[m])
         /\ \A p : In(SubSeq(s, a, b), p) => \E m \in a..b : s[m] = p
         /\ a <= b => SubSeq(s, a, b) # <<>>
         /\ a <= b <=> Len(SubSeq(s, a, b)) # 0
  <1> DEFINE q == SubSeq(s, a, b)
  <1>1. q \in Seq(S) /\ Len(q) = b - a + 1 /\ \A i \in 1..(b - a + 1) : q[i] = s[a + i - 1]
    BY SubSeqProperties
  <1> HIDE DEF q
  <1>0. Len(s) \in Nat /\ a \in Nat /\ b \in Nat
    OBVIOUS
  <1>2. ASSUME NEW m \in a..b PROVE In(q, s[m])
    <2>1. m - a + 1 \in 1..(b - a + 1) /\ a + (m - a + 1) - 1 = m
      BY <1>0
    <2>2. q[m - a + 1] = s[m] /\ m - a + 1 \in 1..Len(q)
      BY <1>1, <2>1
    <2> QED BY <2>2 DEF In
  <1>3. ASSUME NEW p, In(q, p) PROVE \E m \in a..b : s[m] = p
    <2>1. PICK k \in 1..Len(q) : q[k] = p
      BY <1>3 DEF In
    <2>a. k \in 1..(b - a + 1)
      BY <1>1
    <2>b. a + k - 1 \in a..b
      BY <1>0, <2>a
    <2>c. s[a + k - 1] = p
      BY <1>1, <2>1, <2>a
    <2>2. a + k - 1 \in a..b /\ s[a + k - 1] = p
      BY <2>b, <2>c
    <2> QED BY <2>2
  <1>4. a <= b <=> Len(q) # 0
    BY <1>0, <1>1
  <1>5. a <= b => q # <<>>
    BY <1>4
  <1> QED BY <1>1, <1>2, <1>3, <1>4, <1>5 DEF q

(* The places before the first [LISTEN] or [END], what tags do, and whether *)
(* one was carried out.                                                     *)
Clean == {i \in Positions : \A j \in 1..i : answer[j] \notin {"[LISTEN]", "[END]"}}
Effects == {Does(t) : t \in Known}
CarriedOff(i) == \E k \in 1..Len(done) : done[k].at = i

(* The types.                                                               *)
AnswerTypes ==
  /\ answer \in Seq(Tokens)
  /\ respBuf \in Seq(Positions) /\ scanFrom \in 0..Len(respBuf)
  /\ done \in Seq([at : Positions, does : Effects]) /\ commandCount = Len(done)
  /\ answerStep \in {"tags", "commands", "split", "shown", "restarted"}
  /\ listen \in BOOLEAN /\ spoken \in BOOLEAN
  /\ shortText \in Seq(Positions) /\ longText \in Seq(Positions)

(* Behind a cut tag comes no other.                                         *)
CutLast == \A i, j \in Positions : answer[i] = "cut" /\ i < j => answer[j] \notin Device \cup {"cut"}

(* What is left of the answer: in order, with all its words and none of the *)
(* tags seen.                                                               *)
LeftOver ==
  /\ Ascending(respBuf)
  /\ \A k \in 1..Len(respBuf) : respBuf[k] \in Clean
  /\ \A i \in Clean : answer[i] = "word" => In(respBuf, i)
  /\ \A k \in 1..scanFrom : Token(k) \notin Known \cup {"unknown", "cut"}

(* What was carried out, in order: each known tag is done or still in the   *)
(* buffer, and those done come before what is still to be scanned.          *)
CarriedOut ==
  /\ \A j, k \in 1..Len(done) : j < k => done[j].at < done[k].at
  /\ \A k \in 1..Len(done) : /\ done[k].at \in Clean /\ answer[done[k].at] \in Known
                             /\ done[k].does = Does(answer[done[k].at])
  /\ \A i \in Clean : answer[i] \in Known => (In(respBuf, i) <=> ~CarriedOff(i))
  /\ \A k \in 1..Len(done), m \in (scanFrom + 1)..Len(respBuf) : done[k].at < respBuf[m]

(* A restart is the last thing carried out, and all before it was.          *)
RestartLast ==
  /\ answerStep # "restarted" => \A k \in 1..Len(done) : answer[done[k].at] # "reboot"
  /\ answerStep = "restarted" =>
       /\ Len(done) > 0
       /\ \A k \in 1..Len(done) : answer[done[k].at] = "reboot" <=> k = Len(done)
       /\ \A i \in Clean : answer[i] \in Known /\ i <= done[Len(done)].at => CarriedOff(i)

(* After the scan no tag is left, and what is shown and spoken holds every  *)
(* word.                                                                    *)
Ended ==
  /\ answerStep \in {"split", "shown"} => \A k \in 1..Len(respBuf) : Token(k) \notin Known \cup {"unknown"}
  /\ answerStep = "shown" =>
       \A i \in Positions : answer[i] = "word" =>
         /\ i \in Clean <=> In(shortText, i) \/ In(longText, i)
         /\ i \in Clean => longText # <<>>

(* The inductive invariant.                                                 *)
AnswerInv ==
  /\ AnswerTypes /\ CutLast
  /\ answerStep = "tags" => done = <<>> /\ scanFrom = 0
  /\ answerStep # "tags" => LeftOver /\ CarriedOut /\ RestartLast /\ Ended

(* The kinds of tokens exclude one another.                                 *)
LEMMA TokenKinds ==
  /\ Known \subseteq Device /\ "unknown" \in Device /\ "cut" \notin Device /\ "nl" \notin Device
  /\ "word" \notin Device /\ "word" # "cut" /\ "[LISTEN]" # "nl" /\ "[END]" # "nl" /\ "word" # "nl" /\ "nl" # "cut"
  /\ "overlong" \notin Known /\ "overlong" # "unknown" /\ "overlong" # "cut"
  /\ "reboot" \in Known /\ "unknown" \notin Known /\ "overlong" \in Device /\ "nl" \notin Known /\ "word" \notin Known
  BY DEF Known, Device

(* An answer that has not been touched satisfies it.                        *)
LEMMA AnswerStarts ==
  ASSUME answer \in Seq(Tokens), CutLast,
         respBuf = [i \in Positions |-> i], scanFrom = 0, answerStep = "tags", listen = FALSE,
         done = <<>>, commandCount = 0, shortText = <<>>, longText = <<>>, spoken = FALSE
  PROVE  AnswerInv
  <1>1. Len(answer) \in Nat /\ respBuf \in Seq(Positions) /\ Len(respBuf) \in Nat
    BY DEF Positions
  <1>2. done \in Seq([at : Positions, does : Effects]) /\ commandCount = Len(done) /\ shortText \in Seq(Positions)
    OBVIOUS
  <1>3. scanFrom \in 0..Len(respBuf)
    BY <1>1
  <1>4. AnswerTypes
    BY <1>1, <1>2, <1>3 DEF AnswerTypes
  <1> QED BY <1>4 DEF AnswerInv

(* So does every answer the gateway may send.                               *)
LEMMA AnswerBegins == AnswerInit => AnswerInv
  <1> SUFFICES ASSUME AnswerInit PROVE AnswerInv
    OBVIOUS
  <1>1. PICK n \in AnswerLengths : answer \in [1..n -> Tokens]
    BY DEF AnswerInit
  <1>2. n \in Nat /\ answer \in Seq(Tokens)
    BY <1>1, AnswerAssumption
  <1> QED BY <1>2, AnswerStarts DEF AnswerInit, CutLast

(* [LISTEN] and [END] are cut off, with what follows.                       *)
LEMMA TagsCutOff ==
  ASSUME AnswerInv, StripTags
  PROVE  AnswerInv'
  <1>0. answer \in Seq(Tokens) /\ Len(answer) \in Nat /\ CutLast /\ done = <<>> /\ scanFrom = 0 /\ AnswerTypes
    BY DEF AnswerInv, AnswerTypes, StripTags
  <1> DEFINE a == CutAt(Len(answer), "[LISTEN]")
             b == CutAt(a, "[END]")
  <1>1. /\ a \in 0..Len(answer)
        /\ \A j \in 1..a : answer[j] # "[LISTEN]"
        /\ \A i \in 1..Len(answer) : a < i /\ (\A j \in 1..i : answer[j] # "[LISTEN]") => answer[i] = "nl"
    BY <1>0, CutKeeps
  <1>2. /\ b \in 0..a
        /\ \A j \in 1..b : answer[j] # "[END]"
        /\ \A i \in 1..a : b < i /\ (\A j \in 1..i : answer[j] # "[END]") => answer[i] = "nl"
    BY <1>0, <1>1, CutKeeps
  <1>3. /\ respBuf' = [i \in 1..b |-> i] /\ answerStep' = "commands" /\ listen' \in BOOLEAN
        /\ UNCHANGED <<answer, scanFrom, done, commandCount, shortText, longText, spoken>>
    BY DEF StripTags, Has
  <1> HIDE DEF a, b
  <1>4. b \in Nat /\ b <= Len(answer) /\ \A i \in 1..b : i \in Positions
    BY <1>0, <1>1, <1>2 DEF Positions
  <1>5. respBuf' \in Seq(Positions) /\ Len(respBuf') = b /\ \A i \in 1..b : respBuf'[i] = i
    BY <1>3, <1>4
  <1>6. ASSUME NEW i \in 1..b PROVE i \in Clean
    <2>1. \A j \in 1..i : j \in 1..a /\ j \in 1..b
      BY <1>0, <1>1, <1>2
    <2> QED BY <1>1, <1>2, <1>4, <2>1 DEF Clean
  <1>7. ASSUME NEW i \in Clean, ~(i <= b) PROVE answer[i] = "nl"
    <2>1. i \in 1..Len(answer) /\ \A j \in 1..i : answer[j] # "[LISTEN]" /\ answer[j] # "[END]"
      BY DEF Clean, Positions
    <2>2. CASE i <= a
      BY <1>1, <1>2, <1>4, <1>7, <2>1, <2>2
    <2>3. CASE ~(i <= a)
      BY <1>1, <2>1, <2>3
    <2> QED BY <2>2, <2>3
  <1>8. ASSUME NEW i \in Clean, answer[i] # "nl" PROVE In(respBuf, i)'
    <2>1. i \in 1..b
      BY <1>4, <1>7, <1>8 DEF Clean, Positions
    <2> QED BY <1>5, <2>1 DEF In
  <1>9. Clean' = Clean /\ Len(done) = 0 /\ scanFrom' = 0 /\ Len(done') = 0
    BY <1>0, <1>3 DEF Clean, Positions
  <1>10. AnswerTypes'
    BY <1>0, <1>3, <1>4, <1>5, <1>9 DEF AnswerTypes, Positions
  <1>11. CutLast'
    BY <1>0, <1>3 DEF CutLast, Positions
  <1>12. LeftOver'
    <2>1. Ascending(respBuf)'
      BY <1>4, <1>5 DEF Ascending
    <2>2. \A k \in 1..Len(respBuf') : respBuf'[k] \in Clean'
      BY <1>5, <1>6, <1>9
    <2>3. \A i \in Clean' : answer'[i] = "word" => In(respBuf, i)'
      BY <1>3, <1>8, <1>9, TokenKinds
    <2>4. ~ \E k \in 1..scanFrom' : TRUE
      BY <1>9
    <2> QED BY <2>1, <2>2, <2>3, <2>4 DEF LeftOver
  <1>13. CarriedOut'
    <2>1. ~ \E k \in 1..Len(done') : TRUE
      BY <1>9
    <2>2. ASSUME NEW i \in Clean', answer'[i] \in Known PROVE In(respBuf, i)' /\ ~CarriedOff(i)'
      BY <1>3, <1>8, <1>9, <2>1, <2>2, TokenKinds DEF CarriedOff
    <2> QED BY <2>1, <2>2 DEF CarriedOut
  <1>14. RestartLast'
    BY <1>3, <1>9 DEF RestartLast
  <1>15. Ended'
    BY <1>3 DEF Ended
  <1> QED BY <1>3, <1>10, <1>11, <1>12, <1>13, <1>14, <1>15 DEF AnswerInv

(* Taking the i-th token out, with the line end behind it.                  *)
LEMMA StrippedIs ==
  ASSUME answer \in Seq(Tokens), respBuf \in Seq(Positions), Ascending(respBuf), NEW i \in 1..Len(respBuf),
         respBuf' = Stripped(i)
  PROVE  /\ respBuf' \in Seq(Positions) /\ Ascending(respBuf') /\ i - 1 \in 0..Len(respBuf')
         /\ \A k \in 1..(i - 1) : respBuf'[k] = respBuf[k]
         /\ \A k \in i..Len(respBuf') : \E m \in (i + 1)..Len(respBuf) : respBuf'[k] = respBuf[m]
         /\ \A p : In(respBuf', p) => In(respBuf, p) /\ p # respBuf[i]
         /\ \A p : In(respBuf, p) /\ p # respBuf[i] /\ answer[p] # "nl" => In(respBuf', p)
  <1> DEFINE gone == IF i < Len(respBuf) /\ Token(i + 1) = "nl" THEN 2 ELSE 1
             n == Len(respBuf)
             from(k) == IF k < i THEN k ELSE k + gone
  <1>0. n \in Nat /\ i \in 1..n /\ gone \in {1, 2} /\ (gone = 2 => i < n /\ answer[respBuf[i + 1]] = "nl")
    BY DEF Token
  <1>1. respBuf' = [k \in 1..(n - gone) |-> respBuf[from(k)]]
    BY DEF Stripped
  <1> HIDE DEF gone
  <1>2. n - gone \in Nat /\ i - 1 \in 0..(n - gone)
    BY <1>0
  <1>3. \A k \in 1..(n - gone) : from(k) \in 1..n /\ from(k) # i /\ (k < i => from(k) = k) /\ (~(k < i) => from(k) \in (i + 1)..n)
    BY <1>0
  <1>4. /\ respBuf' \in Seq(Positions) /\ Len(respBuf') = n - gone
        /\ \A k \in 1..(n - gone) : respBuf'[k] = respBuf[from(k)]
    <2>1. \A k \in 1..(n - gone) : respBuf[from(k)] \in Positions
      BY <1>3
    <2> HIDE DEF from, n
    <2> QED BY <1>1, <1>2, <2>1
  <1>5. ASSUME NEW j \in 1..n, NEW k \in 1..n, j < k PROVE respBuf[j] < respBuf[k] /\ respBuf[j] \in Nat /\ respBuf[k] \in Nat
    BY <1>5 DEF Ascending, Positions
  <1>6. Ascending(respBuf')
    <2>1. ASSUME NEW j \in 1..(n - gone), NEW k \in 1..(n - gone), j < k PROVE from(j) < from(k)
      BY <1>0, <2>1
    <2> HIDE DEF from, n
    <2> QED BY <1>3, <1>4, <1>5, <2>1 DEF Ascending
  <1>7. \A k \in 1..(i - 1) : respBuf'[k] = respBuf[k]
    <2>1. \A k \in 1..(i - 1) : k \in 1..(n - gone) /\ from(k) = k
      BY <1>0, <1>2
    <2> HIDE DEF from, n
    <2> QED BY <1>4, <2>1
  <1>8. \A k \in i..Len(respBuf') : \E m \in (i + 1)..Len(respBuf) : respBuf'[k] = respBuf[m]
    <2>1. \A k \in i..(n - gone) : k \in 1..(n - gone) /\ from(k) \in (i + 1)..n
      BY <1>0, <1>2
    <2> HIDE DEF from
    <2> QED BY <1>4, <2>1
  <1>9. ASSUME NEW p, In(respBuf', p) PROVE In(respBuf, p) /\ p # respBuf[i]
    <2>1. PICK k \in 1..(n - gone) : respBuf'[k] = p
      BY <1>4, <1>9 DEF In
    <2>2. from(k) \in 1..n /\ respBuf[from(k)] = p /\ from(k) # i
      BY <1>3, <1>4, <2>1
    <2> HIDE DEF from
    <2>3. \A m \in 1..n : m # i => respBuf[m] # respBuf[i]
      <3>1. ASSUME NEW m \in 1..n, m # i PROVE respBuf[m] # respBuf[i]
        <4>1. m < i \/ i < m
          BY <1>0, <3>1
        <4> QED BY <1>0, <1>5, <4>1
      <3> QED BY <3>1
    <2> QED BY <2>2, <2>3 DEF In
  <1>10. ASSUME NEW p, In(respBuf, p), p # respBuf[i], answer[p] # "nl" PROVE In(respBuf', p)
    <2>1. PICK m \in 1..n : respBuf[m] = p
      BY <1>10 DEF In
    <2>2. m # i /\ ~(gone = 2 /\ m = i + 1)
      BY <1>0, <1>10, <2>1
    <2>3. CASE m < i
      <3>1. m \in 1..(n - gone) /\ from(m) = m
        BY <1>0, <1>2, <2>3
      <3> HIDE DEF from, n
      <3> QED BY <1>4, <2>1, <3>1 DEF In
    <2>4. CASE ~(m < i)
      <3>1. m - gone \in 1..(n - gone) /\ ~(m - gone < i) /\ m - gone + gone = m
        BY <1>0, <1>2, <2>2, <2>4
      <3>2. from(m - gone) = m
        BY <3>1
      <3> HIDE DEF from, n
      <3>3. respBuf'[m - gone] = p
        BY <1>4, <2>1, <3>1, <3>2
      <3> QED BY <1>4, <3>1, <3>3 DEF In
    <2> QED BY <2>3, <2>4
  <1> QED BY <1>2, <1>4, <1>6, <1>7, <1>8, <1>9, <1>10

(* Before the next tag that is found there is none.                         *)
LEMMA NextTagIs ==
  ASSUME AnswerInv, answerStep = "commands", NextTags # {}
  PROVE  /\ NextTag \in (scanFrom + 1)..Len(respBuf) /\ NextTag \in 1..Len(respBuf)
         /\ Token(NextTag) \in Device \cup {"cut"}
         /\ \A k \in 1..(NextTag - 1) : Token(k) \notin Known \cup {"unknown", "cut"}
  <1>0. /\ scanFrom \in 0..Len(respBuf) /\ Len(respBuf) \in Nat /\ LeftOver
    BY DEF AnswerInv, AnswerTypes
  <1>1. NextTags \subseteq Nat
    BY <1>0 DEF NextTags
  <1>2. NextTag \in NextTags /\ \A j \in NextTags : NextTag <= j
    BY <1>1, LowestIs DEF NextTag
  <1>3. NextTag \in (scanFrom + 1)..Len(respBuf) /\ Token(NextTag) \in Device \cup {"cut"}
    BY <1>2 DEF NextTags
  <1>4. ASSUME NEW k \in 1..(NextTag - 1) PROVE Token(k) \notin Known \cup {"unknown", "cut"}
    <2>1. CASE k <= scanFrom
      <3>1. k \in 1..scanFrom
        BY <1>0, <1>3, <2>1
      <3> QED BY <1>0, <3>1 DEF LeftOver
    <2>2. CASE ~(k <= scanFrom)
      <3>1. k \in (scanFrom + 1)..Len(respBuf) /\ ~(NextTag <= k)
        BY <1>0, <1>3, <2>2
      <3>2. Token(k) \notin Device \cup {"cut"}
        BY <1>2, <3>1 DEF NextTags
      <3> QED BY <3>2, TokenKinds
    <2> QED BY <2>1, <2>2
  <1>5. NextTag \in 1..Len(respBuf)
    BY <1>0, <1>3
  <1> QED BY <1>3, <1>4, <1>5

(* Where the scan ends, no tag is left.                                     *)
LEMMA ScanFinished ==
  ASSUME AnswerInv, answerStep = "commands", answerStep' = "split",
         UNCHANGED <<answer, respBuf, scanFrom, done, commandCount, listen, shortText, longText, spoken>>,
         \A k \in 1..Len(respBuf) : Token(k) \notin Known \cup {"unknown"}
  PROVE  AnswerInv'
  <1>0. AnswerTypes /\ CutLast /\ LeftOver /\ CarriedOut /\ RestartLast
    BY DEF AnswerInv
  <1>1. AnswerTypes' /\ CutLast'
    BY <1>0 DEF AnswerTypes, CutLast, Positions
  <1>2. Clean' = Clean /\ \A k : Token(k)' = Token(k) /\ \A i : (CarriedOff(i)' <=> CarriedOff(i))
    BY DEF Clean, Positions, Token, CarriedOff
  <1>3. LeftOver'
    BY <1>0, <1>2 DEF LeftOver, Ascending, In
  <1>4. CarriedOut'
    <2>1. \A i : (CarriedOff(i)' <=> CarriedOff(i)) /\ (In(respBuf, i)' <=> In(respBuf, i))
      BY DEF CarriedOff, In
    <2> QED BY <1>0, <1>2, <2>1 DEF CarriedOut
  <1>5. RestartLast'
    BY <1>0 DEF RestartLast
  <1>6. Ended'
    BY <1>2 DEF Ended
  <1> QED BY <1>1, <1>3, <1>4, <1>5, <1>6 DEF AnswerInv

(* It ends where no tag is found,                                           *)
LEMMA ScanEnded ==
  ASSUME AnswerInv, ScanEnds
  PROVE  AnswerInv'
  <1>0. scanFrom \in 0..Len(respBuf) /\ Len(respBuf) \in Nat /\ LeftOver
    BY DEF AnswerInv, AnswerTypes, ScanEnds
  <1>1. ASSUME NEW k \in 1..Len(respBuf) PROVE Token(k) \notin Known \cup {"unknown"}
    <2>1. CASE k <= scanFrom
      <3>1. k \in 1..scanFrom
        BY <1>0, <2>1
      <3> QED BY <1>0, <3>1 DEF LeftOver
    <2>2. CASE ~(k <= scanFrom)
      <3>1. k \in (scanFrom + 1)..Len(respBuf)
        BY <1>0, <2>2
      <3>2. Token(k) \notin Device
        BY <3>1 DEF ScanEnds, NextTags
      <3> QED BY <3>2, TokenKinds
    <2> QED BY <2>1, <2>2
  <1> QED BY <1>1, ScanFinished DEF ScanEnds, Scan

(* and at an opening without its end.                                       *)
LEMMA CutMet ==
  ASSUME AnswerInv, answerStep = "commands", NextTags # {}, Token(NextTag) = "cut", answerStep' = "split",
         UNCHANGED <<answer, respBuf, scanFrom, done, commandCount, listen, shortText,
                     longText, spoken>>
  PROVE  AnswerInv'
  <1> DEFINE i == NextTag
  <1>0. respBuf \in Seq(Positions) /\ Len(respBuf) \in Nat /\ Ascending(respBuf) /\ CutLast
    BY DEF AnswerInv, AnswerTypes, LeftOver
  <1>1. i \in 1..Len(respBuf) /\ \A k \in 1..(i - 1) : Token(k) \notin Known \cup {"unknown", "cut"}
    BY NextTagIs
  <1> HIDE DEF i
  <1>2. Token(i) = "cut"
    BY DEF i
  <1>3. ASSUME NEW k \in 1..Len(respBuf) PROVE Token(k) \notin Known \cup {"unknown"}
    <2>1. CASE k < i
      <3>1. k \in 1..(i - 1)
        BY <1>0, <1>1, <2>1
      <3> QED BY <1>1, <3>1
    <2>2. CASE k = i
      BY <1>2, <2>2, TokenKinds
    <2>3. CASE i < k
      <3>1. respBuf[i] \in Positions /\ respBuf[k] \in Positions /\ respBuf[i] < respBuf[k]
        BY <1>0, <1>1, <2>3 DEF Ascending
      <3>2. Token(k) \notin Device
        BY <1>0, <1>2, <3>1 DEF CutLast, Token
      <3> QED BY <3>2, TokenKinds
    <2> QED BY <1>0, <1>1, <2>1, <2>2, <2>3
  <1> QED BY <1>3, ScanFinished

(* A tag whose text is too long is passed over.                             *)
LEMMA OverlongMet ==
  ASSUME AnswerInv, answerStep = "commands", NextTags # {}, Token(NextTag) = "overlong", scanFrom' = NextTag,
         UNCHANGED <<answer, respBuf, answerStep, done, commandCount, listen, shortText,
                     longText, spoken>>
  PROVE  AnswerInv'
  <1> DEFINE i == NextTag
  <1>0. AnswerTypes /\ CutLast /\ LeftOver /\ CarriedOut /\ RestartLast /\ scanFrom \in 0..Len(respBuf) /\ Len(respBuf) \in Nat
    BY DEF AnswerInv, AnswerTypes
  <1>1. /\ i \in (scanFrom + 1)..Len(respBuf) /\ i \in 1..Len(respBuf)
        /\ \A k \in 1..(i - 1) : Token(k) \notin Known \cup {"unknown", "cut"}
    BY NextTagIs
  <1> HIDE DEF i
  <1>2. Token(i) = "overlong" /\ scanFrom' = i
    BY DEF i
  <1>3. scanFrom' \in 0..Len(respBuf')
    BY <1>0, <1>1, <1>2
  <1>4. AnswerTypes' /\ CutLast'
    BY <1>0, <1>3 DEF AnswerTypes, CutLast, Positions
  <1>5. Clean' = Clean /\ \A k : Token(k)' = Token(k)
    BY DEF Clean, Positions, Token
  <1>6. \A k : (CarriedOff(k)' <=> CarriedOff(k)) /\ (In(respBuf, k)' <=> In(respBuf, k))
    BY DEF CarriedOff, In
  <1>7. LeftOver'
    <2>1. \A k \in 1..scanFrom' : k \in 1..(i - 1) \/ k = i
      BY <1>0, <1>1, <1>2
    <2>2. \A k \in 1..scanFrom' : Token(k)' \notin Known \cup {"unknown", "cut"}
      BY <1>1, <1>2, <1>5, <2>1, TokenKinds
    <2> QED BY <1>0, <1>5, <1>6, <2>2 DEF LeftOver, Ascending
  <1>8. CarriedOut'
    <2>1. \A m \in (scanFrom' + 1)..Len(respBuf) : m \in (scanFrom + 1)..Len(respBuf)
      BY <1>0, <1>1, <1>2
    <2> QED BY <1>0, <1>5, <1>6, <2>1 DEF CarriedOut
  <1>9. RestartLast' /\ Ended'
    BY <1>0 DEF RestartLast, Ended
  <1> QED BY <1>4, <1>7, <1>8, <1>9 DEF AnswerInv

(* Any other tag is taken out, and carried out if it is known.              *)
LEMMA TagTakenOut ==
  ASSUME AnswerInv, answerStep = "commands", NextTags # {}, NEW tag, tag = Token(NextTag),
         tag # "cut", tag # "overlong",
         respBuf' = Stripped(NextTag), scanFrom' = NextTag - 1,
         IF tag \in Known
         THEN /\ done' = Append(done, [at |-> respBuf[NextTag], does |-> Does(tag)])
              /\ commandCount' = commandCount + 1
         ELSE UNCHANGED <<done, commandCount>>,
         answerStep' = IF tag = "reboot" THEN "restarted" ELSE answerStep,
         UNCHANGED <<answer, listen, shortText, longText, spoken>>
  PROVE  AnswerInv'
  <1> DEFINE i == NextTag
             c == respBuf[i]
             n == Len(done)
             e == [at |-> c, does |-> Does(tag)]
  <1>0. /\ AnswerTypes /\ CutLast /\ LeftOver /\ CarriedOut /\ RestartLast
        /\ answer \in Seq(Tokens) /\ respBuf \in Seq(Positions) /\ Ascending(respBuf)
        /\ scanFrom \in 0..Len(respBuf) /\ Len(respBuf) \in Nat
        /\ done \in Seq([at : Positions, does : Effects]) /\ n \in Nat /\ commandCount = n
    BY DEF AnswerInv, AnswerTypes, LeftOver
  <1>1. /\ i \in (scanFrom + 1)..Len(respBuf) /\ i \in 1..Len(respBuf)
        /\ tag \in Device \cup {"cut"}
        /\ \A k \in 1..(i - 1) : Token(k) \notin Known \cup {"unknown", "cut"}
    BY NextTagIs
  <1>2. /\ respBuf' \in Seq(Positions) /\ Ascending(respBuf') /\ i - 1 \in 0..Len(respBuf')
        /\ \A k \in 1..(i - 1) : respBuf'[k] = respBuf[k]
        /\ \A k \in i..Len(respBuf') : \E m \in (i + 1)..Len(respBuf) : respBuf'[k] = respBuf[m]
        /\ \A p : In(respBuf', p) => In(respBuf, p) /\ p # respBuf[i]
        /\ \A p : In(respBuf, p) /\ p # respBuf[i] /\ answer[p] # "nl" => In(respBuf', p)
    BY <1>0, <1>1, StrippedIs
  <1>3. scanFrom' = i - 1 /\ answer[c] = tag
    BY DEF Token
  <1>4. IF tag \in Known THEN done' = Append(done, e) /\ commandCount' = commandCount + 1
        ELSE UNCHANGED <<done, commandCount>>
    OBVIOUS
  <1> HIDE DEF i
  <1>5. c \in Positions /\ c \in Clean /\ In(respBuf, c) /\ Len(respBuf') \in Nat /\ c \in Nat
    <2>1. c \in Positions
      BY <1>0, <1>1
    <2>2. c \in Clean
      BY <1>0, <1>1 DEF LeftOver
    <2>3. In(respBuf, c)
      BY <1>1 DEF In
    <2> HIDE DEF c
    <2> QED BY <1>2, <2>1, <2>2, <2>3 DEF Positions
  <1> HIDE DEF c
  <1>6. tag \in Known => e \in [at : Positions, does : Effects] /\ e.at = c /\ e.does = Does(tag)
    BY <1>5 DEF Effects
  <1> HIDE DEF e, n
  <1>7. tag \in Known => /\ done' \in Seq([at : Positions, does : Effects]) /\ Len(done') = n + 1
                         /\ done'[n + 1] = e /\ \A k \in 1..n : done'[k] = done[k]
    <2>1. ASSUME NEW S, done \in Seq(S), e \in S, done' = Append(done, e)
          PROVE  done' \in Seq(S) /\ Len(done') = n + 1 /\ done'[n + 1] = e /\ \A k \in 1..n : done'[k] = done[k]
      BY <2>1 DEF n
    <2> QED BY <1>0, <1>4, <1>6, <2>1
  <1>8. Clean' = Clean /\ Positions' = Positions
    BY DEF Clean, Positions
  <1>a. \A m \in (i + 1)..Len(respBuf) : c < respBuf[m]
    <2>1. \A m \in (i + 1)..Len(respBuf) : m \in 1..Len(respBuf) /\ i < m
      BY <1>0, <1>1
    <2> QED BY <1>0, <1>1, <2>1 DEF Ascending, c
  <1>b. \A k \in 1..n : done[k].at < c /\ done[k].at \in Nat
    <2>1. ASSUME NEW k \in 1..n PROVE done[k].at \in Nat
      <3>0. k \in 1..Len(done) /\ done \in Seq([at : Positions, does : Effects])
        BY <1>0 DEF n
      <3>1. done[k] \in [at : Positions, does : Effects]
        BY <3>0, ElementOfSeq
      <3> QED BY <3>1 DEF Positions
    <2> QED BY <1>0, <1>1, <2>1 DEF CarriedOut, c, n
  <1>9. AnswerTypes'
    <2>1. done' \in Seq([at : Positions, does : Effects]) /\ commandCount' = Len(done')
      BY <1>0, <1>4, <1>7 DEF n
    <2> QED BY <1>0, <1>2, <1>3, <1>8, <2>1 DEF AnswerTypes
  <1>10. CutLast'
    BY <1>0, <1>8 DEF CutLast
  <1>c. ASSUME NEW p, answer[p] # "nl" PROVE In(respBuf', p) <=> In(respBuf, p) /\ p # c
    BY <1>2, <1>c DEF c
  <1>11. LeftOver'
    <2>1. \A k \in 1..Len(respBuf') : respBuf'[k] \in Clean
      <3>1. ASSUME NEW k \in 1..Len(respBuf') PROVE respBuf'[k] \in Clean
        <4>1. In(respBuf', respBuf'[k])
          BY DEF In
        <4>2. In(respBuf, respBuf'[k])
          BY <1>2, <4>1
        <4> QED BY <1>0, <4>2 DEF In, LeftOver
      <3> QED BY <3>1
    <2>2. ASSUME NEW p \in Clean, answer[p] = "word" PROVE In(respBuf', p)
      <3>1. In(respBuf, p)
        BY <1>0, <2>2 DEF LeftOver
      <3>2. p # c
        BY <1>1, <1>3, <2>2, TokenKinds
      <3> QED BY <1>c, <2>2, <3>1, <3>2, TokenKinds
    <2>3. \A k \in 1..scanFrom' : Token(k)' \notin Known \cup {"unknown", "cut"}
      BY <1>1, <1>2, <1>3 DEF Token
    <2> QED BY <1>2, <1>8, <2>1, <2>2, <2>3 DEF LeftOver
  <1>12. CarriedOut'
    <2>1. ASSUME NEW k \in 1..Len(done'), NEW m \in (scanFrom' + 1)..Len(respBuf') PROVE done'[k].at < respBuf'[m]
      <3>1. m \in i..Len(respBuf')
        BY <1>1, <1>2, <1>3, <1>5
      <3>2. PICK q \in (i + 1)..Len(respBuf) : respBuf'[m] = respBuf[q]
        BY <1>2, <3>1
      <3>3. c < respBuf[q] /\ respBuf[q] \in Nat
        <4>1. q \in 1..Len(respBuf)
          BY <1>0, <1>1
        <4>2. respBuf \in Seq(Positions)
          BY <1>0
        <4>3. respBuf[q] \in Positions
          BY <4>1, <4>2
        <4> QED BY <1>a, <4>3 DEF Positions
      <3>4. done'[k].at \in Nat /\ done'[k].at <= c
        <4>1. CASE tag \in Known /\ k = n + 1
          BY <1>5, <1>6, <1>7, <4>1
        <4>2. CASE ~(tag \in Known /\ k = n + 1)
          <5>1. n \in Nat
            BY <1>0
          <5>2. k \in 1..n /\ done'[k] = done[k]
            BY <1>4, <1>7, <4>2, <5>1 DEF n
          <5>3. done[k].at < c /\ done[k].at \in Nat
            BY <1>b, <5>2
          <5> QED BY <1>5, <5>2, <5>3
        <4> QED BY <4>1, <4>2
      <3> QED BY <1>5, <3>2, <3>3, <3>4
    <2>2. ASSUME NEW j \in 1..Len(done'), NEW k \in 1..Len(done'), j < k PROVE done'[j].at < done'[k].at
      <3>1. CASE tag \in Known /\ k = n + 1
        <4>0. n \in Nat
          BY <1>0
        <4>1. j \in 1..n
          BY <1>7, <2>2, <3>1, <4>0
        <4>2. done'[j] = done[j] /\ done'[k].at = c
          BY <1>6, <1>7, <3>1, <4>1
        <4>3. done[j].at < c
          BY <1>b, <4>1
        <4> QED BY <4>2, <4>3
      <3>2. CASE ~(tag \in Known /\ k = n + 1)
        <4>1. j \in 1..n /\ k \in 1..n /\ done'[j] = done[j] /\ done'[k] = done[k]
          BY <1>0, <1>4, <1>7, <2>2, <3>2 DEF n
        <4> QED BY <1>0, <2>2, <4>1 DEF CarriedOut, n
      <3> QED BY <3>1, <3>2
    <2>3. ASSUME NEW k \in 1..Len(done')
          PROVE  done'[k].at \in Clean /\ answer[done'[k].at] \in Known /\ done'[k].does = Does(answer[done'[k].at])
      <3>1. CASE tag \in Known /\ k = n + 1
        BY <1>3, <1>5, <1>6, <1>7, <3>1
      <3>2. CASE ~(tag \in Known /\ k = n + 1)
        <4>1. k \in 1..n /\ done'[k] = done[k]
          BY <1>0, <1>4, <1>7, <3>2 DEF n
        <4> QED BY <1>0, <4>1 DEF CarriedOut, n
      <3> QED BY <3>1, <3>2
    <2>4. ASSUME NEW p \in Clean, answer[p] \in Known PROVE In(respBuf', p) <=> ~CarriedOff(p)'
      <3>1. (In(respBuf', p) <=> In(respBuf, p) /\ p # c) /\ (In(respBuf, p) <=> ~CarriedOff(p))
        BY <1>0, <1>c, <2>4, TokenKinds DEF CarriedOut
      <3>2. CarriedOff(p)' <=> CarriedOff(p) \/ p = c
        <4>1. CASE tag \in Known
          <5>1. CarriedOff(p)' => CarriedOff(p) \/ p = c
            <6> SUFFICES ASSUME CarriedOff(p)' PROVE CarriedOff(p) \/ p = c
              OBVIOUS
            <6>1. PICK k \in 1..Len(done') : done'[k].at = p
              BY DEF CarriedOff
            <6>2. k \in 1..n \/ k = n + 1
              BY <1>0, <1>7, <4>1
            <6> QED BY <1>6, <1>7, <4>1, <6>1, <6>2 DEF CarriedOff, n
          <5>2. p = c => CarriedOff(p)'
            <6>1. n + 1 \in 1..Len(done') /\ done'[n + 1].at = c
              BY <1>0, <1>6, <1>7, <4>1
            <6> QED BY <6>1 DEF CarriedOff
          <5>3. CarriedOff(p) => CarriedOff(p)'
            <6> SUFFICES ASSUME CarriedOff(p) PROVE CarriedOff(p)'
              OBVIOUS
            <6>1. PICK k \in 1..n : done[k].at = p
              BY DEF CarriedOff, n
            <6>2. k \in 1..Len(done') /\ done'[k].at = p
              BY <1>0, <1>7, <4>1, <6>1
            <6> QED BY <6>2 DEF CarriedOff
          <5> QED BY <5>1, <5>2, <5>3
        <4>2. CASE tag \notin Known
          <5>1. p # c
            BY <1>3, <2>4, <4>2
          <5>2. CarriedOff(p)' <=> CarriedOff(p)
            BY <1>4, <4>2 DEF CarriedOff
          <5> QED BY <5>1, <5>2
        <4> QED BY <4>1, <4>2
      <3> QED BY <3>1, <3>2
    <2> QED BY <1>8, <2>1, <2>2, <2>3, <2>4 DEF CarriedOut
  <1>13. RestartLast'
    <2>1. \A k \in 1..n : answer[done[k].at] # "reboot"
      BY <1>0 DEF RestartLast, n
    <2>2. CASE tag = "reboot"
      <3>1. /\ Len(done') = n + 1 /\ done'[n + 1].at = c /\ answer[c] = "reboot" /\ \A k \in 1..n : done'[k] = done[k]
        BY <1>3, <1>6, <1>7, <2>2, TokenKinds
      <3>2. \A k \in 1..Len(done') : answer[done'[k].at] = "reboot" <=> k = Len(done')
        <4>1. n \in Nat
          BY <1>0
        <4>2. ASSUME NEW k \in 1..Len(done') PROVE answer[done'[k].at] = "reboot" <=> k = n + 1
          <5>1. CASE k = n + 1
            BY <3>1, <5>1
          <5>2. CASE k # n + 1
            <6>1. k \in 1..n
              BY <3>1, <4>1, <5>2
            <6>2. done'[k] = done[k] /\ answer[done[k].at] # "reboot"
              BY <2>1, <3>1, <6>1
            <6> QED BY <5>2, <6>2
          <5> QED BY <5>1, <5>2
        <4> QED BY <3>1, <4>2
      <3>3. ASSUME NEW p \in Clean, answer[p] \in Known, p <= c PROVE CarriedOff(p)'
        <4>1. CASE In(respBuf', p)
          <5>1. In(respBuf, p) /\ p # c
            BY <1>2, <4>1 DEF c
          <5>2. PICK m \in 1..Len(respBuf) : respBuf[m] = p
            BY <5>1 DEF In
          <5>3. m # i /\ m \notin (i + 1)..Len(respBuf)
            <6>1. m # i
              BY <5>1, <5>2 DEF c
            <6>2. ASSUME m \in (i + 1)..Len(respBuf) PROVE FALSE
              <7>1. c < p
                BY <1>a, <5>2, <6>2
              <7>2. p \in Nat
                BY <3>3 DEF Clean, Positions
              <7> QED BY <1>5, <3>3, <7>1, <7>2
            <6> QED BY <6>1, <6>2
          <5>4. m \in 1..(i - 1)
            BY <1>0, <1>1, <5>3
          <5> QED BY <1>1, <3>3, <5>2, <5>4 DEF Token
        <4>2. CASE ~In(respBuf', p)
          BY <1>12, <1>8, <3>3, <4>2 DEF CarriedOut
        <4> QED BY <4>1, <4>2
      <3>4. Len(done') > 0
        BY <1>0, <3>1
      <3>5. answerStep' = "restarted"
        BY <2>2
      <3> QED BY <1>8, <3>1, <3>2, <3>3, <3>4, <3>5 DEF RestartLast
    <2>3. CASE tag # "reboot"
      <3>1. \A k \in 1..Len(done') : answer[done'[k].at] # "reboot"
        <4>1. ASSUME NEW k \in 1..Len(done') PROVE answer[done'[k].at] # "reboot"
          <5>1. CASE tag \in Known /\ k = n + 1
            BY <1>3, <1>6, <1>7, <2>3, <5>1
          <5>2. CASE ~(tag \in Known /\ k = n + 1)
            <6>1. k \in 1..n /\ done'[k] = done[k]
              BY <1>0, <1>4, <1>7, <5>2 DEF n
            <6> QED BY <2>1, <6>1
          <5> QED BY <5>1, <5>2
        <4> QED BY <4>1
      <3> QED BY <2>3, <3>1 DEF RestartLast
    <2> QED BY <2>2, <2>3
  <1>14. Ended' /\ answerStep' # "tags"
    BY DEF Ended
  <1> QED BY <1>9, <1>10, <1>11, <1>12, <1>13, <1>14 DEF AnswerInv

(* So a round of the scan preserves the invariant.                          *)
LEMMA CommandDone ==
  ASSUME AnswerInv, Command
  PROVE  AnswerInv'
  <1>1. CASE Token(NextTag) = "cut"
    <2>1. answerStep' = "split" /\ UNCHANGED Scan
      BY <1>1 DEF Command
    <2> QED BY <1>1, <2>1, CutMet DEF Command, Scan
  <1>2. CASE Token(NextTag) = "overlong"
    <2>1. scanFrom' = NextTag /\ UNCHANGED <<respBuf, answerStep, done, commandCount>>
      BY <1>2 DEF Command
    <2> QED BY <1>2, <2>1, OverlongMet DEF Command
  <1>3. CASE Token(NextTag) # "cut" /\ Token(NextTag) # "overlong"
    <2> DEFINE tag == Token(NextTag)
    <2>1. /\ respBuf' = Stripped(NextTag) /\ scanFrom' = FromTag(NextTag)
          /\ IF tag \in Known
             THEN /\ done' = Append(done, [at |-> respBuf[NextTag], does |-> Does(tag)])
                  /\ commandCount' = commandCount + 1
             ELSE UNCHANGED <<done, commandCount>>
          /\ answerStep' = IF tag = "reboot" THEN "restarted" ELSE answerStep
      BY <1>3 DEF Command
    <2>2. scanFrom' = NextTag - 1
      BY <2>1 DEF FromTag
    <2>3. answerStep = "commands" /\ NextTags # {} /\ UNCHANGED <<answer, listen, shortText,
                                                                  longText, spoken>>
      BY DEF Command
    <2> HIDE DEF tag
    <2>4. tag = Token(NextTag) /\ tag # "cut" /\ tag # "overlong"
      BY <1>3 DEF tag
    <2> QED BY <2>1, <2>2, <2>3, <2>4, TagTakenOut
  <1> QED BY <1>1, <1>2, <1>3

(* The label and what is spoken hold every word that is left.               *)
LEMMA WordsGiven ==
  ASSUME AnswerInv, Split
  PROVE  /\ shortText' \in Seq(Positions) /\ longText' \in Seq(Positions)
         /\ \A i : In(shortText', i) \/ In(longText', i) => In(respBuf, i)
         /\ \A i : In(respBuf, i) /\ answer[i] # "nl" =>
              (In(shortText', i) \/ In(longText', i)) /\ longText' # <<>>
  <1> DEFINE n == Len(respBuf)
  <1>0. respBuf \in Seq(Positions) /\ n \in Nat /\ LongLine \in Nat \ {0}
    BY AnswerAssumption DEF AnswerInv, AnswerTypes
  <1>1. CASE ~(LineEnds # {} /\ Len(FirstLine) < LongLine)
    <2>1. /\ shortText' = IF Len(respBuf) < LongLine THEN respBuf ELSE SubSeq(respBuf, 1, LongLine)
          /\ longText' = respBuf
      BY <1>1 DEF Split
    <2>2. CASE n < LongLine
      BY <1>0, <2>1, <2>2 DEF In
    <2>3. CASE ~(n < LongLine)
      <3>1. 1 \in 1..(n + 1) /\ LongLine \in (1 - 1)..n
        BY <1>0, <2>3
      <3>2. /\ SubSeq(respBuf, 1, LongLine) \in Seq(Positions)
            /\ \A p : In(SubSeq(respBuf, 1, LongLine), p) => \E m \in 1..LongLine : respBuf[m] = p
        <4>1. respBuf \in Seq(Positions) /\ 1 \in 1..(Len(respBuf) + 1) /\ LongLine \in (1 - 1)..Len(respBuf)
          BY <1>0, <3>1
        <4> QED BY <4>1, PartHolds
      <3>3. \A m \in 1..LongLine : m \in 1..n
        BY <1>0, <2>3
      <3>4. shortText' = SubSeq(respBuf, 1, LongLine)
        BY <2>1, <2>3
      <3>5. \A p : In(shortText', p) => In(respBuf, p)
        BY <3>2, <3>3, <3>4 DEF In
      <3>6. \A i : In(respBuf, i) => respBuf # <<>>
        BY DEF In
      <3> QED BY <1>0, <2>1, <3>2, <3>4, <3>5, <3>6
    <2> QED BY <2>2, <2>3
  <1>2. CASE LineEnds # {} /\ Len(FirstLine) < LongLine
    <2> DEFINE f == Lowest(LineEnds)
               K == {i \in f..(n + 1) : i = n + 1 \/ Token(i) # "nl"}
               k == Lowest(K)
               first == SubSeq(respBuf, 1, f - 1)
               rest == SubSeq(respBuf, k, n)
    <2>1. f \in 1..n
      <3>1. LineEnds \subseteq Nat /\ LineEnds # {}
        BY <1>0, <1>2 DEF LineEnds
      <3>2. f \in LineEnds
        BY <3>1, LowestIs
      <3> QED BY <3>2 DEF LineEnds
    <2> HIDE DEF f
    <2>2. k \in f..(n + 1) /\ \A m \in f..(k - 1) : Token(m) = "nl"
      <3>1. K \subseteq Nat /\ n + 1 \in K
        BY <1>0, <2>1
      <3>2. k \in K /\ \A m \in K : k <= m
        BY <3>1, LowestIs
      <3>3. k \in f..(n + 1)
        BY <3>2
      <3>4. ASSUME NEW m \in f..(k - 1), Token(m) # "nl" PROVE FALSE
        <4>1. m \in f..(n + 1) /\ ~(k <= m)
          BY <1>0, <2>1, <3>3
        <4>2. m \in K
          BY <3>4, <4>1
        <4> QED BY <3>2, <4>1, <4>2
      <3> QED BY <3>3, <3>4
    <2>3. /\ shortText' = first
          /\ longText' = IF rest = <<>> THEN first ELSE rest
      BY <1>2 DEF Split, WithoutEnds, FirstLine, f
    <2> HIDE DEF k, K
    <2>4. /\ 1 \in 1..(n + 1) /\ f - 1 \in (1 - 1)..n /\ k \in 1..(n + 1) /\ n \in (k - 1)..n
      BY <1>0, <2>1, <2>2
    <2>5. /\ first \in Seq(Positions)
          /\ \A m \in 1..(f - 1) : In(first, respBuf[m])
          /\ \A p : In(first, p) => \E m \in 1..(f - 1) : respBuf[m] = p
      <3>1. 1 \in 1..(Len(respBuf) + 1) /\ f - 1 \in (1 - 1)..Len(respBuf)
        BY <2>4
      <3>2. respBuf \in Seq(Positions)
        BY <1>0
      <3> QED BY <3>1, <3>2, PartHolds
    <2>6. /\ rest \in Seq(Positions)
          /\ \A m \in k..n : In(rest, respBuf[m])
          /\ \A p : In(rest, p) => \E m \in k..n : respBuf[m] = p
      <3>1. k \in 1..(Len(respBuf) + 1) /\ Len(respBuf) \in (k - 1)..Len(respBuf)
        BY <2>4
      <3>2. respBuf \in Seq(Positions)
        BY <1>0
      <3> QED BY <3>1, <3>2, PartHolds
    <2> HIDE DEF first, rest
    <2>8. ASSUME NEW p, In(first, p) \/ In(rest, p) PROVE In(respBuf, p)
      <3>1. PICK m \in Nat : respBuf[m] = p /\ (m \in 1..(f - 1) \/ m \in k..n)
        BY <1>0, <2>4, <2>5, <2>6, <2>8
      <3>2. m \in 1..n
        BY <1>0, <2>1, <2>4, <3>1
      <3> QED BY <3>1, <3>2 DEF In
    <2>9. \A s, p : In(s, p) /\ s \in Seq(Positions) => s # <<>>
      BY DEF In
    <2>10. ASSUME NEW p, In(respBuf, p), answer[p] # "nl"
           PROVE  (In(shortText', p) \/ In(longText', p)) /\ longText' # <<>>
      <3>1. PICK m \in 1..n : respBuf[m] = p
        BY <2>10 DEF In
      <3>2. m \notin f..(k - 1)
        BY <2>2, <2>10, <3>1 DEF Token
      <3>3. m \in 1..(f - 1) \/ m \in k..n
        BY <1>0, <2>1, <2>2, <3>1, <3>2
      <3>4. In(first, p) \/ In(rest, p)
        BY <2>5, <2>6, <3>1, <3>3
      <3>5. In(first, p) => first # <<>>
        BY <2>5, <2>9
      <3>6. In(rest, p) => rest # <<>>
        BY <2>6, <2>9
      <3> QED BY <2>3, <3>4, <3>5, <3>6
    <2> QED BY <2>3, <2>5, <2>6, <2>8, <2>10
  <1> QED BY <1>1, <1>2

(* Splitting preserves the invariant.                                       *)
LEMMA SplitDone ==
  ASSUME AnswerInv, Split
  PROVE  AnswerInv'
  <1>0. /\ AnswerTypes /\ CutLast /\ LeftOver /\ CarriedOut /\ RestartLast /\ Ended
        /\ answerStep = "split" /\ answerStep' = "shown"
        /\ spoken' \in BOOLEAN /\ UNCHANGED <<answer, respBuf, scanFrom, listen, done,
                                              commandCount>>
    <2>1. spoken' = AutoRead /\ AutoRead \in BOOLEAN
      BY AnswerAssumption DEF Split, AutoRead
    <2> QED BY <2>1 DEF AnswerInv, Split
  <1>1. /\ shortText' \in Seq(Positions) /\ longText' \in Seq(Positions)
        /\ \A i : In(shortText', i) \/ In(longText', i) => In(respBuf, i)
        /\ \A i : In(respBuf, i) /\ answer[i] # "nl" =>
             (In(shortText', i) \/ In(longText', i)) /\ longText' # <<>>
    BY WordsGiven
  <1>2. Clean' = Clean /\ Positions' = Positions /\ \A k : Token(k)' = Token(k)
    BY <1>0 DEF Clean, Positions, Token
  <1>3. \A k : (CarriedOff(k)' <=> CarriedOff(k)) /\ (In(respBuf, k)' <=> In(respBuf, k))
    BY <1>0 DEF CarriedOff, In
  <1>4. AnswerTypes' /\ CutLast'
    BY <1>0, <1>1, <1>2 DEF AnswerTypes, CutLast
  <1>5. LeftOver'
    BY <1>0, <1>2, <1>3 DEF LeftOver, Ascending
  <1>6. CarriedOut'
    BY <1>0, <1>2, <1>3 DEF CarriedOut
  <1>7. RestartLast'
    BY <1>0 DEF RestartLast
  <1>8. Ended'
    <2>1. \A k \in 1..Len(respBuf') : Token(k)' \notin Known \cup {"unknown"}
      BY <1>0, <1>2 DEF Ended
    <2>2. ASSUME NEW i \in Positions, answer[i] = "word"
          PROVE  (i \in Clean <=> In(shortText', i) \/ In(longText', i)) /\ (i \in Clean => longText' # <<>>)
      <3>1. i \in Clean => In(respBuf, i)
        BY <1>0, <2>2 DEF LeftOver
      <3>2. In(respBuf, i) => i \in Clean
        BY <1>0 DEF LeftOver, In
      <3> QED BY <1>1, <2>2, <3>1, <3>2, TokenKinds
    <2>3. \A i : (In(shortText, i)' <=> In(shortText', i)) /\ (In(longText, i)' <=> In(longText', i))
      BY DEF In
    <2> QED BY <1>0, <1>2, <2>1, <2>2, <2>3 DEF Ended
  <1> QED BY <1>0, <1>4, <1>5, <1>6, <1>7, <1>8 DEF AnswerInv

(* Every step preserves the invariant.                                      *)
LEMMA AnswerSteps == AnswerInv /\ [AnswerNext]_answerVars => AnswerInv'
  <1> SUFFICES ASSUME AnswerInv, [AnswerNext]_answerVars PROVE AnswerInv'
    OBVIOUS
  <1>1. CASE StripTags
    BY <1>1, TagsCutOff
  <1>2. CASE Command
    BY <1>2, CommandDone
  <1>3. CASE ScanEnds
    BY <1>3, ScanEnded
  <1>4. CASE Split
    BY <1>4, SplitDone
  <1>5. CASE UNCHANGED answerVars
    <2>0. UNCHANGED <<answer, respBuf, scanFrom, answerStep, listen, done, commandCount,
                      shortText, longText, spoken>>
      BY <1>5 DEF answerVars
    <2>1. Clean' = Clean /\ Positions' = Positions /\ \A k : Token(k)' = Token(k)
      BY <2>0 DEF Clean, Positions, Token
    <2>2. /\ \A k : (CarriedOff(k)' <=> CarriedOff(k)) /\ (In(respBuf, k)' <=> In(respBuf, k))
          /\ \A k : (In(shortText, k)' <=> In(shortText, k)) /\ (In(longText, k)' <=> In(longText, k))
      BY <2>0 DEF CarriedOff, In
    <2>3. AnswerTypes' /\ CutLast'
      BY <2>0, <2>1 DEF AnswerInv, AnswerTypes, CutLast
    <2>4. CASE answerStep = "tags"
      BY <2>0, <2>3, <2>4 DEF AnswerInv
    <2>5. CASE answerStep # "tags"
      <3>1. LeftOver /\ CarriedOut /\ RestartLast /\ Ended
        BY <2>5 DEF AnswerInv
      <3>2. LeftOver'
        BY <2>0, <2>1, <2>2, <3>1 DEF LeftOver, Ascending
      <3>3. CarriedOut'
        BY <2>0, <2>1, <2>2, <3>1 DEF CarriedOut
      <3>4. RestartLast'
        BY <2>0, <2>1, <2>2, <3>1 DEF RestartLast
      <3>5. Ended'
        BY <2>0, <2>1, <2>2, <3>1 DEF Ended
      <3> QED BY <2>0, <2>3, <2>5, <3>2, <3>3, <3>4, <3>5 DEF AnswerInv
    <2> QED BY <2>4, <2>5
  <1> QED BY <1>1, <1>2, <1>3, <1>4, <1>5 DEF AnswerNext

(* What is said of a finished answer follows from the invariant.            *)
LEMMA TagsFollow == AnswerInv => TagsHold
  <1> SUFFICES ASSUME AnswerInv, answerStep \in {"shown", "restarted"} PROVE TagsHold
    BY DEF TagsHold
  <1>0. AnswerTypes /\ LeftOver /\ CarriedOut /\ RestartLast /\ Ended /\ answer \in Seq(Tokens) /\ Len(done) \in Nat
    BY DEF AnswerInv, AnswerTypes
  <1>1. Meant \subseteq Clean /\ Clean \subseteq Positions
    BY DEF Meant, Clean
  <1>2. ASSUME NEW i \in Clean, NEW j \in 1..i PROVE j \in Clean
    BY DEF Clean, Positions
  <1>3. answerStep = "shown" => \A i \in Clean : answer[i] \in Known => CarriedOff(i)
    <2> SUFFICES ASSUME answerStep = "shown", NEW i \in Clean, answer[i] \in Known PROVE CarriedOff(i)
      OBVIOUS
    <2>1. ~In(respBuf, i)
      BY <1>0 DEF Ended, In, Token
    <2> QED BY <1>0, <2>1 DEF CarriedOut
  <1>4. answerStep = "shown" => Meant = Clean
    <2> SUFFICES ASSUME answerStep = "shown", NEW i \in Clean PROVE i \in Meant
      BY <1>1
    <2>1. ASSUME NEW j \in 1..(i - 1), answer[j] = "reboot" PROVE FALSE
      <3>1. i \in Nat /\ j \in 1..i
        BY DEF Clean, Positions
      <3>2. j \in Clean
        BY <1>2, <3>1
      <3>3. CarriedOff(j)
        BY <1>3, <2>1, <3>2, TokenKinds
      <3> QED BY <1>0, <2>1, <3>3 DEF CarriedOff, RestartLast
    <2> QED BY <2>1 DEF Meant, Clean
  <1>5. \A i \in Positions : (i \in Meant /\ answer[i] \in Known) <=> CarriedOff(i)
    <2>1. CASE answerStep = "shown"
      <3>1. \A i : CarriedOff(i) => i \in Clean /\ answer[i] \in Known
        BY <1>0 DEF CarriedOut, CarriedOff
      <3> QED BY <1>3, <1>4, <2>1, <3>1
    <2>2. CASE answerStep = "restarted"
      <3> DEFINE n == Len(done)
                 c == done[n].at
      <3>1. /\ n > 0 /\ n \in 1..n /\ \A k \in 1..n : answer[done[k].at] = "reboot" <=> k = n
            /\ \A i \in Clean : answer[i] \in Known /\ i <= c => CarriedOff(i)
        BY <1>0, <2>2 DEF RestartLast
      <3>2. /\ \A j, k \in 1..n : j < k => done[j].at < done[k].at
            /\ \A k \in 1..n : done[k].at \in Clean /\ answer[done[k].at] \in Known
        BY <1>0 DEF CarriedOut
      <3>3. c \in Clean /\ answer[c] = "reboot" /\ c \in Nat
        BY <3>1, <3>2 DEF Clean, Positions
      <3>4. ASSUME NEW i \in Meant, answer[i] \in Known PROVE CarriedOff(i)
        <4>1. ~(c \in 1..(i - 1))
          BY <3>3 DEF Meant
        <4>2. i <= c
          BY <3>3, <4>1 DEF Meant, Positions, Clean
        <4> QED BY <1>1, <3>1, <3>4, <4>2
      <3>5. ASSUME NEW i, CarriedOff(i) PROVE i \in Meant /\ answer[i] \in Known
        <4>1. PICK k \in 1..n : done[k].at = i
          BY <3>5 DEF CarriedOff
        <4>2. i \in Clean /\ answer[i] \in Known /\ i \in Nat
          BY <3>2, <4>1 DEF Clean, Positions
        <4>3. i <= c
          <5>1. CASE k = n
            BY <3>3, <4>1, <5>1
          <5>2. CASE k # n
            <6>1. k < n
              BY <1>0, <5>2
            <6> QED BY <3>1, <3>2, <3>3, <4>1, <4>2, <6>1
          <5> QED BY <5>1, <5>2
        <4>4. ASSUME NEW j \in 1..(i - 1), answer[j] = "reboot" PROVE FALSE
          <5>1. j \in 1..i /\ j < c /\ j \in Nat
            BY <3>3, <4>2, <4>3
          <5>2. j \in Clean
            BY <1>2, <4>2, <5>1
          <5>3. CarriedOff(j)
            BY <3>1, <3>3, <4>4, <5>1, <5>2, TokenKinds
          <5>4. PICK m \in 1..n : done[m].at = j
            BY <5>3 DEF CarriedOff
          <5>5. m = n
            BY <3>1, <4>4, <5>4
          <5> QED BY <5>1, <5>4, <5>5, <3>3
        <4> QED BY <4>2, <4>4 DEF Meant, Clean
      <3> QED BY <3>4, <3>5
    <2> QED BY <2>1, <2>2
  <1>6. /\ \A j, k \in 1..Len(done) : j < k => done[j].at < done[k].at
        /\ \A k \in 1..Len(done) : done[k].does = Does(answer[done[k].at])
        /\ commandCount = Len(done)
    BY <1>0 DEF CarriedOut, AnswerTypes
  <1>7. ASSUME answerStep = "shown"
        PROVE  /\ \A k \in 1..Len(respBuf) : Token(k) \notin Known \cup {"unknown", "[LISTEN]", "[END]"}
               /\ Ascending(respBuf)
               /\ \A i \in Positions : answer[i] = "word" =>
                    /\ i \in Meant <=> In(shortText, i) \/ In(longText, i)
                    /\ i \in Meant => longText # <<>>
    <2>1. ASSUME NEW k \in 1..Len(respBuf) PROVE Token(k) \notin {"[LISTEN]", "[END]"}
      <3>1. respBuf[k] \in Clean
        BY <1>0 DEF LeftOver
      <3>2. respBuf[k] \in 1..respBuf[k]
        BY <3>1 DEF Clean, Positions
      <3> QED BY <3>1, <3>2 DEF Clean, Token
    <2>2. \A k \in 1..Len(respBuf) : Token(k) \notin Known \cup {"unknown"}
      BY <1>0, <1>7 DEF Ended
    <2>3. \A i \in Positions : answer[i] = "word" =>
            /\ i \in Clean <=> In(shortText, i) \/ In(longText, i)
            /\ i \in Clean => longText # <<>>
      BY <1>0, <1>7 DEF Ended
    <2>4. Meant = Clean
      BY <1>4, <1>7
    <2> QED BY <1>0, <2>1, <2>2, <2>3, <2>4 DEF LeftOver
  <1> QED BY <1>5, <1>6, <1>7 DEF TagsHold, CarriedOff

(* app_state.c:132: every tag that is meant is carried out once and in      *)
(* order and no other, and every word that is meant is shown or spoken and  *)
(* no other, for answers of any length.                                     *)
THEOREM TagsKept == AnswerSpec => []TagsHold
  BY AnswerBegins, AnswerSteps, TagsFollow, PTL DEF AnswerSpec

-----------------------------------------------------------------------------
(* The recording.                                                           *)

(* What the beginnings of a sequence add up to.                             *)
IsSums(s, f) ==
  /\ f = [k \in 0..Len(s) |-> IF k = 0 THEN 0 ELSE f[k - 1] + s[k]]
  /\ \A k \in 0..Len(s) : f[k] \in Nat

(* There are such sums.                                                     *)
LEMMA SumsExist ==
  ASSUME NEW s, s \in Seq(Nat)
  PROVE  \E f : IsSums(s, f)
  <1> DEFINE Upto(n, f) == /\ f[0] = 0 /\ \A k \in 1..n : f[k] = f[k - 1] + s[k]
                           /\ \A k \in 0..n : f[k] \in Nat
             T == {n \in Nat : n <= Len(s) => \E f : Upto(n, f)}
  <1>1. 0 \in T
    <2>1. Upto(0, [k \in {0} |-> 0])
      OBVIOUS
    <2> HIDE DEF Upto
    <2> QED BY <2>1
  <1>2. ASSUME NEW n \in Nat, n \in T PROVE n + 1 \in T
    <2>1. SUFFICES ASSUME n + 1 <= Len(s) PROVE \E f : Upto(n + 1, f)
      BY DEF T
    <2>2. PICK f : Upto(n, f)
      BY <1>2, <2>1
    <2>3. s[n + 1] \in Nat
      BY <2>1
    <2> DEFINE g == [k \in 0..(n + 1) |-> IF k = n + 1 THEN f[n] + s[n + 1] ELSE f[k]]
    <2>4. \A k \in 0..n : g[k] = f[k]
      OBVIOUS
    <2>5. g[n + 1] = f[n] + s[n + 1]
      OBVIOUS
    <2> HIDE DEF g
    <2>6. Upto(n + 1, g)
      <3>1. g[0] = 0 /\ g[n + 1] \in Nat
        BY <2>2, <2>3, <2>4, <2>5
      <3>2. ASSUME NEW k \in 1..(n + 1) PROVE g[k] = g[k - 1] + s[k]
        <4>1. CASE k = n + 1
          <5>1. k - 1 = n /\ n \in 0..n
            BY <4>1
          <5> QED BY <2>4, <2>5, <4>1, <5>1
        <4>2. CASE k # n + 1
          <5>1. k \in 1..n /\ k \in 0..n /\ k - 1 \in 0..n
            BY <4>2
          <5> QED BY <2>2, <2>4, <5>1
        <4> QED BY <4>1, <4>2
      <3>3. ASSUME NEW k \in 0..(n + 1) PROVE g[k] \in Nat
        <4>1. k = n + 1 \/ k \in 0..n
          OBVIOUS
        <4> QED BY <2>2, <2>4, <3>1, <4>1
      <3> QED BY <3>1, <3>2, <3>3
    <2> HIDE DEF Upto
    <2> QED BY <2>6
  <1>3. Len(s) \in Nat /\ Len(s) \in T
    <2> HIDE DEF T
    <2>1. \A n \in Nat : n \in T => n + 1 \in T
      BY <1>2
    <2>2. Nat \subseteq T
      BY <1>1, <2>1, Upwards
    <2>3. Len(s) \in Nat
      OBVIOUS
    <2> QED BY <2>2, <2>3
  <1>4. PICK f : Upto(Len(s), f)
    BY <1>3
  <1> DEFINE g == [k \in 0..Len(s) |-> f[k]]
  <1>5. \A k \in 0..Len(s) : g[k] = f[k]
    OBVIOUS
  <1>6. ASSUME NEW k \in 0..Len(s) PROVE f[k] = IF k = 0 THEN 0 ELSE g[k - 1] + s[k]
    <2>1. CASE k = 0
      BY <1>4, <2>1
    <2>2. CASE k # 0
      <3>1. k \in 1..Len(s) /\ k - 1 \in 0..Len(s)
        BY <1>3, <2>2
      <3> QED BY <1>4, <1>5, <2>2, <3>1
    <2> QED BY <2>1, <2>2
  <1>7. g = [k \in 0..Len(s) |-> IF k = 0 THEN 0 ELSE g[k - 1] + s[k]]
    BY <1>6
  <1>8. \A k \in 0..Len(s) : g[k] \in Nat
    BY <1>4, <1>5
  <1> HIDE DEF g
  <1> QED BY <1>7, <1>8 DEF IsSums

(* The sum of a sequence is the last of them.                               *)
LEMMA SumIs ==
  ASSUME NEW s, s \in Seq(Nat), NEW f, IsSums(s, f)
  PROVE  SumOf(s) = f[Len(s)]
  <1> DEFINE h == CHOOSE g : g = [k \in 0..Len(s) |-> IF k = 0 THEN 0 ELSE g[k - 1] + s[k]]
  <1>1. SumOf(s) = h[Len(s)]
    BY DEF SumOf
  <1>2. h = [k \in 0..Len(s) |-> IF k = 0 THEN 0 ELSE h[k - 1] + s[k]]
    BY DEF IsSums
  <1> HIDE DEF h
  <1>3. \A k \in 0..Len(s) : h[k] = IF k = 0 THEN 0 ELSE h[k - 1] + s[k]
    BY <1>2
  <1>4. \A k \in 0..Len(s) : f[k] = IF k = 0 THEN 0 ELSE f[k - 1] + s[k]
    BY DEF IsSums
  <1> DEFINE T == {n \in Nat : n <= Len(s) => h[n] = f[n]}
  <1>5. 0 \in T
    BY <1>3, <1>4
  <1>6. ASSUME NEW n \in Nat, n \in T PROVE n + 1 \in T
    <2>1. SUFFICES ASSUME n + 1 <= Len(s) PROVE h[n + 1] = f[n + 1]
      OBVIOUS
    <2>2. n + 1 \in 0..Len(s) /\ n + 1 # 0 /\ n + 1 - 1 = n /\ h[n] = f[n]
      BY <1>6, <2>1
    <2> QED BY <1>3, <1>4, <2>2
  <1>7. Len(s) \in Nat /\ Len(s) \in T
    <2> HIDE DEF T
    <2>1. \A n \in Nat : n \in T => n + 1 \in T
      BY <1>6
    <2>2. Nat \subseteq T
      BY <1>5, <2>1, Upwards
    <2>3. Len(s) \in Nat
      OBVIOUS
    <2> QED BY <2>2, <2>3
  <1> QED BY <1>1, <1>7

(* Nothing adds up to 0.                                                    *)
LEMMA SumEmpty == SumOf(<<>>) = 0
  <1>1. <<>> \in Seq(Nat) /\ Len(<<>>) = 0
    OBVIOUS
  <1>2. PICK f : IsSums(<<>>, f)
    BY <1>1, SumsExist
  <1>3. f[0] = 0
    BY <1>1, <1>2 DEF IsSums
  <1> QED BY <1>1, <1>2, <1>3, SumIs

(* One level more adds itself.                                              *)
LEMMA SumAppend ==
  ASSUME NEW s, s \in Seq(Nat), NEW x \in Nat
  PROVE  SumOf(s) \in Nat /\ SumOf(Append(s, x)) = SumOf(s) + x
  <1>0. Len(s) \in Nat
    OBVIOUS
  <1>1. PICK f : IsSums(s, f)
    BY SumsExist
  <1>2. SumOf(s) = f[Len(s)] /\ f[Len(s)] \in Nat
    <2>1. SumOf(s) = f[Len(s)]
      BY <1>1, SumIs
    <2>2. Len(s) \in 0..Len(s)
      BY <1>0
    <2> QED BY <1>1, <2>1, <2>2 DEF IsSums
  <1> DEFINE t == Append(s, x)
             g == [k \in 0..Len(t) |-> IF k = Len(t) THEN f[Len(s)] + x ELSE f[k]]
  <1>3. t \in Seq(Nat) /\ Len(t) = Len(s) + 1 /\ t[Len(t)] = x /\ \A k \in 1..Len(s) : t[k] = s[k]
    OBVIOUS
  <1> HIDE DEF t
  <1>4. \A k \in 0..Len(s) : g[k] = f[k]
    BY <1>0, <1>3
  <1>5. g[Len(t)] = f[Len(s)] + x
    BY <1>0, <1>3
  <1>6. \A k \in 0..Len(s) : f[k] = (IF k = 0 THEN 0 ELSE f[k - 1] + s[k]) /\ f[k] \in Nat
    BY <1>1 DEF IsSums
  <1>7. g = [k \in 0..Len(t) |-> g[k]]
    OBVIOUS
  <1> HIDE DEF g
  <1>8. ASSUME NEW k \in 0..Len(t)
        PROVE  g[k] = (IF k = 0 THEN 0 ELSE g[k - 1] + t[k]) /\ g[k] \in Nat
    <2>1. CASE k = Len(t)
      <3>1. k # 0 /\ k - 1 = Len(s) /\ Len(s) \in 0..Len(s)
        BY <1>0, <1>3, <2>1
      <3>2. g[k] = f[Len(s)] + x /\ g[k - 1] = f[Len(s)] /\ t[k] = x
        BY <1>3, <1>4, <1>5, <2>1, <3>1
      <3> QED BY <1>2, <3>1, <3>2
    <2>2. CASE k # Len(t)
      <3>1. k \in 0..Len(s) /\ (k # 0 => k - 1 \in 0..Len(s) /\ k \in 1..Len(s))
        BY <1>0, <1>3, <2>2
      <3> QED BY <1>3, <1>4, <1>6, <3>1
    <2> QED BY <2>1, <2>2
  <1>9. g = [k \in 0..Len(t) |-> IF k = 0 THEN 0 ELSE g[k - 1] + t[k]]
    BY <1>7, <1>8
  <1>10. IsSums(t, g)
    BY <1>8, <1>9 DEF IsSums
  <1>11. SumOf(t) = g[Len(t)]
    BY <1>3, <1>10, SumIs
  <1> QED BY <1>2, <1>5, <1>11 DEF t

(* What the stage of a turn says of the microphone and the memory taken.    *)
TurnMemoryKept ==
  /\ recordingFlag <=> turn \in {"start", "loop", "stop"}
  /\ turn \in {"away", "start", "check"} => turnMemory = {}
  /\ turn \in {"loop", "stop", "judge", "wav"} => turnMemory \subseteq {"audio"}
  /\ turn = "start" => chunks = <<>>

(* The types.                                                               *)
RecorderTypes ==
  /\ turn \in {"away", "start", "loop", "stop", "judge", "wav", "body", "response", "client",
               "perform", "check"}
  /\ chunks \in Seq(Nat)
  /\ recordingFlag \in BOOLEAN /\ hadSpeech \in BOOLEAN /\ cancelBit \in BOOLEAN
  /\ threshold \in Nat /\ calibrationSum \in Nat /\ silentCount \in Nat
  /\ ending \in {"none", "silence", "no_speech", "full", "error"}
  /\ said \in {"nothing", "words", "apology", "failed"}

(* The chunks that calibrate, as far as they were read.                     *)
Calibrating ==
  SubSeq(chunks, SkipChunks + 1, IF Len(chunks) < First - 1 THEN Len(chunks) ELSE First - 1)

(* The sum is theirs, and the threshold the one that it gives.              *)
FloorKept ==
  /\ calibrationSum = SumOf(Calibrating)
  /\ threshold = IF Len(chunks) >= First - 1 THEN Adaptive(calibrationSum) ELSE Configured

(* What was heard above the threshold, and for how long nothing was: since  *)
(* the last such chunk, or since the calibration.                           *)
TalkKept ==
  /\ hadSpeech <=> \E i \in First..Len(chunks) : chunks[i] > threshold
  /\ Len(chunks) < First => silentCount = 0
  /\ Len(chunks) >= First => silentCount <= Len(chunks) - (First - 1)
  /\ \A j \in First..Len(chunks) : j > Len(chunks) - silentCount => ~(chunks[j] > threshold)
  /\ Len(chunks) >= First => \/ silentCount = Len(chunks) - (First - 1)
                             \/ chunks[Len(chunks) - silentCount] > threshold

(* A silence that follows speech, by the threshold in use.                  *)
QuietAt(i) ==
  /\ i >= First - 1 + SilenceChunks /\ ~(chunks[i] > threshold)
  /\ \A j \in (i - SilenceChunks + 1)..i : ~(chunks[j] > threshold)
  /\ \E j \in First..(i - SilenceChunks) : chunks[j] > threshold

(* The first of them ends the recording.                                    *)
SilenceEnds ==
  /\ \A i \in First..Len(chunks) : QuietAt(i) => i = Len(chunks) /\ turn # "loop"
  /\ ending = "silence" => Len(chunks) >= First /\ QuietAt(Len(chunks))

(* A turn goes on after the recording only with speech in it, and says      *)
(* nothing before its end.                                                  *)
SpeechSent ==
  /\ turn \in {"start", "loop", "stop", "judge", "wav", "body", "response", "client", "perform"}
     => said = "nothing"
  /\ turn \in {"wav", "body", "response", "client", "perform", "check"} => hadSpeech
  /\ said \in {"words", "apology", "failed"} => hadSpeech

(* The inductive invariant.                                                 *)
RecorderInv ==
  RecorderTypes /\ TurnMemoryKept /\ FloorKept /\ TalkKept /\ SilenceEnds /\ SpeechSent

(* The initial state satisfies the invariant.                               *)
LEMMA RecorderStarts == RecorderInit => RecorderInv
  <1> SUFFICES ASSUME RecorderInit PROVE RecorderInv
    OBVIOUS
  <1> USE RecorderAssumption DEF RecorderInit
  <1>1. chunks = <<>> /\ Len(chunks) = 0 /\ First \in Nat /\ 0 < First - 1
    BY DEF First
  <1>2. RecorderTypes
    <2>1. chunks \in Seq(Nat)
      BY <1>1
    <2> QED BY <2>1 DEF RecorderTypes
  <1>2a. TurnMemoryKept
    BY DEF TurnMemoryKept
  <1>2b. SpeechSent
    BY DEF SpeechSent
  <1>3. FloorKept
    <2>1. Calibrating = SubSeq(chunks, SkipChunks + 1, 0)
      BY <1>1 DEF Calibrating
    <2>2. Calibrating = <<>>
      BY <1>1, <2>1
    <2> QED BY <1>1, <2>2, SumEmpty DEF FloorKept
  <1>4. TalkKept /\ SilenceEnds
    BY <1>1 DEF TalkKept, SilenceEnds
  <1> QED BY <1>2, <1>2a, <1>2b, <1>3, <1>4 DEF RecorderInv

(* Sequences of one length with the same elements are the same.             *)
LEMMA SameSequence ==
  ASSUME NEW S, NEW s \in Seq(S), NEW t \in Seq(S), Len(t) = Len(s),
         \A k \in 1..Len(s) : t[k] = s[k]
  PROVE  t = s
  <1>1. s = [k \in 1..Len(s) |-> s[k]]
    OBVIOUS
  <1>2. t = [k \in 1..Len(t) |-> t[k]]
    OBVIOUS
  <1>3. [k \in 1..Len(s) |-> s[k]] = [k \in 1..Len(t) |-> t[k]]
    OBVIOUS
  <1> QED BY <1>1, <1>2, <1>3

(* A chunk that is read joins those that calibrate, if it is one of them.   *)
LEMMA CalibratingGrows ==
  ASSUME RecorderTypes, NEW level \in Nat, chunks' = Append(chunks, level)
  PROVE  /\ Calibrating \in Seq(Nat)
         /\ Calibrating' = IF Len(chunks') > SkipChunks /\ Len(chunks') <= SkipChunks + CalibrationChunks
                           THEN Append(Calibrating, level) ELSE Calibrating
  <1> USE RecorderAssumption
  <1> DEFINE n == Len(chunks)
             a == SkipChunks + 1
  <1>1. /\ n \in Nat /\ Len(chunks') = n + 1 /\ chunks' \in Seq(Nat) /\ chunks'[n + 1] = level
        /\ \A k \in 1..n : chunks'[k] = chunks[k]
        /\ \A k \in 1..n : chunks[k] \in Nat
    BY DEF RecorderTypes
  <1>2. a \in Nat \ {0} /\ First \in Nat /\ First - 1 = SkipChunks + CalibrationChunks /\ First - 1 >= a
    BY DEF First
  <1>3. ASSUME NEW s \in Seq(Nat), NEW b \in Nat, b <= Len(s)
        PROVE  /\ SubSeq(s, a, b) \in Seq(Nat)
               /\ Len(SubSeq(s, a, b)) = IF b < a THEN 0 ELSE b - a + 1
               /\ \A k \in 1..(b - a + 1) : SubSeq(s, a, b)[k] = s[a + k - 1]
    BY <1>2, <1>3
  <1> DEFINE b == IF n < First - 1 THEN n ELSE First - 1
             c == IF n + 1 < First - 1 THEN n + 1 ELSE First - 1
  <1>4. Calibrating = SubSeq(chunks, a, b) /\ Calibrating' = SubSeq(chunks', a, c)
    BY <1>1 DEF Calibrating, First
  <1>5. b \in Nat /\ b <= n /\ c \in Nat /\ c <= n + 1
    BY <1>1, <1>2
  <1>6. chunks \in Seq(Nat)
    BY DEF RecorderTypes
  <1> DEFINE s == SubSeq(chunks, a, b)
             t == SubSeq(chunks', a, c)
  <1>7. /\ s \in Seq(Nat) /\ Len(s) = (IF b < a THEN 0 ELSE b - a + 1)
        /\ \A k \in 1..(b - a + 1) : s[k] = chunks[a + k - 1]
    BY <1>3, <1>5, <1>6
  <1>8. /\ t \in Seq(Nat) /\ Len(t) = (IF c < a THEN 0 ELSE c - a + 1)
        /\ \A k \in 1..(c - a + 1) : t[k] = chunks'[a + k - 1]
    BY <1>1, <1>3, <1>5
  <1> HIDE DEF s, t
  <1>9. CASE n + 1 > SkipChunks /\ n + 1 <= SkipChunks + CalibrationChunks
    <2>1. b = n /\ c = n + 1
      BY <1>1, <1>2, <1>9
    <2>2. Len(t) = Len(s) + 1
      BY <1>1, <1>2, <1>7, <1>8, <1>9, <2>1
    <2>3. t[Len(t)] = level
      <3>1. Len(t) \in 1..(c - a + 1) /\ a + Len(t) - 1 = n + 1
        <4>1. ~(c < a) /\ c = n + 1 /\ a \in Nat /\ n \in Nat
          BY <1>1, <1>2, <1>9, <2>1
        <4> HIDE DEF a, b, c, n
        <4> QED BY <1>8, <4>1
      <3> QED BY <1>1, <1>8, <3>1
    <2>4. ASSUME NEW k \in 1..Len(s) PROVE t[k] = s[k]
      <3>1. k \in 1..(b - a + 1) /\ k \in 1..(c - a + 1) /\ a + k - 1 \in 1..n
        <4>1. Len(s) = IF n < a THEN 0 ELSE n - a + 1
          <5> HIDE DEF a, b, c, n
          <5> QED BY <1>7, <2>1
        <4>2. k \in 1..(n - a + 1) /\ ~(n < a) /\ k \in Int
          <5> HIDE DEF a, b, c, n
          <5> QED BY <1>1, <1>2, <4>1
        <4> HIDE DEF a, b, c, n
        <4> QED BY <1>1, <1>2, <2>1, <4>2
      <3> QED BY <1>1, <1>7, <1>8, <3>1
    <2>5. t = Append(s, level)
      <3> DEFINE u == Append(s, level)
      <3>1. /\ u \in Seq(Nat) /\ Len(u) = Len(s) + 1 /\ u[Len(s) + 1] = level
            /\ \A k \in 1..Len(s) : u[k] = s[k]
        BY <1>7
      <3> HIDE DEF u
      <3>2. t \in Seq(Nat)
        BY <1>8
      <3>3. ASSUME NEW k \in 1..Len(t) PROVE t[k] = u[k]
        <4>1. k \in 1..Len(s) \/ k = Len(s) + 1
          BY <1>7, <2>2
        <4> QED BY <2>2, <2>3, <2>4, <3>1, <4>1
      <3>4. u \in Seq(Nat) /\ Len(t) = Len(u) /\ \A k \in 1..Len(u) : t[k] = u[k]
        BY <2>2, <3>1, <3>3
      <3>5. t = u
        BY <3>2, <3>4, SameSequence
      <3> QED BY <3>5 DEF u
    <2> QED BY <1>1, <1>4, <1>7, <1>9, <2>5 DEF s, t
  <1>10. CASE ~(n + 1 > SkipChunks /\ n + 1 <= SkipChunks + CalibrationChunks)
    <2>1. b = c \/ (b < a /\ c < a)
      BY <1>1, <1>2, <1>10
    <2>2. Len(t) = Len(s)
      BY <1>7, <1>8, <2>1
    <2>3. ASSUME NEW k \in 1..Len(s) PROVE t[k] = s[k]
      <3>1. b = c /\ k \in 1..(b - a + 1) /\ a + k - 1 \in 1..n
        BY <1>1, <1>2, <1>5, <1>7, <2>1
      <3> QED BY <1>1, <1>7, <1>8, <3>1
    <2>4. t = s
      <3>1. s \in Seq(Nat) /\ t \in Seq(Nat)
        BY <1>7, <1>8
      <3> QED BY <2>2, <2>3, <3>1, SameSequence
    <2> QED BY <1>1, <1>4, <1>7, <1>10, <2>4 DEF s, t
  <1> QED BY <1>9, <1>10

(* The steps that read no chunk keep what was heard.                        *)
LEMMA HeardKept ==
  ASSUME RecorderInv, UNCHANGED Sounds
  PROVE  /\ FloorKept' /\ TalkKept' /\ hadSpeech' = hadSpeech /\ chunks' = chunks
         /\ \A i : QuietAt(i)' <=> QuietAt(i)
  <1> USE DEF Sounds
  <1>1. UNCHANGED <<chunks, calibrationSum, threshold, hadSpeech, silentCount>>
    OBVIOUS
  <1>2. FloorKept'
    BY <1>1 DEF RecorderInv, FloorKept, Calibrating
  <1>3. TalkKept'
    BY <1>1 DEF RecorderInv, TalkKept
  <1>4. ASSUME NEW i PROVE QuietAt(i)' <=> QuietAt(i)
    BY <1>1 DEF QuietAt
  <1> QED BY <1>1, <1>2, <1>3, <1>4

(* So the turn may go on to a stage that is not the loop.                   *)
LEMMA HeardSteps ==
  ASSUME RecorderInv, UNCHANGED Heard, turn' # "loop"
  PROVE  FloorKept' /\ TalkKept' /\ SilenceEnds' /\ hadSpeech' = hadSpeech /\ chunks' = chunks
  <1>1. UNCHANGED Sounds /\ ending' = ending
    BY DEF Heard
  <1>2. SilenceEnds'
    BY <1>1, HeardKept DEF RecorderInv, SilenceEnds
  <1> QED BY <1>1, <1>2, HeardKept

(* A quotient of numbers is a number.                                       *)
LEMMA QuotientIs ==
  ASSUME NEW a \in Nat, NEW b \in Nat \ {0}
  PROVE  a \div b \in Nat
  OBVIOUS

(* Reading a chunk preserves the invariant.                                 *)
LEMMA ChunkRead ==
  ASSUME RecorderInv, NEW level \in SoundLevels, ReadChunk(level)
  PROVE  RecorderInv'
  <1> USE RecorderAssumption
  <1> DEFINE n == Len(chunks)
  <1>0. RecorderTypes /\ TurnMemoryKept /\ FloorKept /\ TalkKept /\ SilenceEnds /\ SpeechSent
    BY DEF RecorderInv
  <1>1. level \in Nat /\ chunks' = Append(chunks, level) /\ turn = "loop"
    BY DEF ReadChunk
  <1>2. /\ n \in Nat /\ Len(chunks') = n + 1 /\ chunks' \in Seq(Nat) /\ chunks'[n + 1] = level
        /\ \A k \in 1..n : chunks'[k] = chunks[k]
        /\ \A k \in 1..n : chunks[k] \in Nat
    BY <1>0, <1>1 DEF RecorderTypes
  <1>3. First \in Nat /\ First - 1 = SkipChunks + CalibrationChunks /\ First - 1 > SkipChunks /\ First > 1
    BY DEF First
  <1>5. calibrationSum' = calibrationSum + (IF ~(n + 1 <= SkipChunks) /\ n + 1 < First THEN level ELSE 0)
    BY <1>2, <1>3 DEF ReadChunk
  <1>6. threshold' = IF n + 1 = First - 1 THEN Adaptive(calibrationSum') ELSE threshold
    BY <1>2, <1>3 DEF ReadChunk
  <1>7. n + 1 < First => UNCHANGED <<turn, hadSpeech, silentCount, ending>>
    BY <1>2, <1>3 DEF ReadChunk
  <1>8. n + 1 >= First =>
          /\ hadSpeech' = (hadSpeech \/ level > threshold) /\ silentCount' = QuietCount(level)
          /\ IF ~(level > threshold) /\ hadSpeech /\ QuietCount(level) >= SilenceChunks
             THEN turn' = "stop" /\ ending' = "silence"
             ELSE \/ turn' = "stop" /\ ending' = "no_speech"
                  \/ UNCHANGED <<turn, ending>>
    <2> SUFFICES ASSUME n + 1 >= First
                 PROVE  /\ hadSpeech' = (hadSpeech \/ level > threshold)
                        /\ silentCount' = QuietCount(level)
                        /\ IF ~(level > threshold) /\ hadSpeech /\ QuietCount(level) >= SilenceChunks
                           THEN turn' = "stop" /\ ending' = "silence"
                           ELSE \/ turn' = "stop" /\ ending' = "no_speech"
                                \/ UNCHANGED <<turn, ending>>
      OBVIOUS
    <2>1. ~(n + 1 <= SkipChunks) /\ ~(n + 1 <= SkipChunks + CalibrationChunks)
      BY <1>2, <1>3
    <2> QED BY <1>2, <2>1, Zenon DEF ReadChunk, EndsWith
  <1>9. UNCHANGED <<recordingFlag, turnMemory, cancelBit, said>>
    BY DEF ReadChunk
  <1> DEFINE loud == level > threshold
             silent == QuietCount(level)
  <1>10. calibrationSum' \in Nat /\ threshold' \in Nat /\ silentCount' \in Nat /\ silent \in Nat
    <2>1. calibrationSum' \in Nat
      BY <1>0, <1>1, <1>5 DEF RecorderTypes
    <2>2. threshold' \in Nat
      <3>1. Adaptive(calibrationSum') \in Nat
        <4>1. calibrationSum' \div CalibrationChunks \in Nat
          BY <2>1, QuotientIs
        <4> QED BY <4>1 DEF Adaptive, NoiseFloor
      <3> QED BY <1>0, <1>6, <3>1 DEF RecorderTypes
    <2>3. silent \in Nat
      BY <1>0 DEF QuietCount, RecorderTypes
    <2> QED BY <1>0, <1>2, <1>3, <1>7, <1>8, <2>1, <2>2, <2>3 DEF RecorderTypes
  <1>11. /\ turn' \in {"loop", "stop"} /\ ending' \in {"none", "silence", "no_speech", "full", "error"}
         /\ hadSpeech' \in BOOLEAN
    <2>1. CASE n + 1 < First
      BY <1>0, <1>1, <1>7, <2>1, Zenon DEF RecorderTypes
    <2>2. CASE n + 1 >= First
      <3>1. hadSpeech' \in BOOLEAN
        BY <1>0, <1>8, <2>2 DEF RecorderTypes
      <3>2. \/ turn' = "stop" /\ ending' \in {"silence", "no_speech"}
            \/ UNCHANGED <<turn, ending>>
        BY <1>8, <2>2
      <3> QED BY <1>0, <1>1, <3>1, <3>2 DEF RecorderTypes
    <2> QED BY <1>2, <1>3, <2>1, <2>2
  <1>12. RecorderTypes'
    BY <1>0, <1>2, <1>9, <1>10, <1>11 DEF RecorderTypes
  <1>13. TurnMemoryKept'
    <2>1. recordingFlag' = TRUE
      BY <1>0, <1>1, <1>9 DEF TurnMemoryKept, RecorderTypes
    <2>2. turnMemory' \subseteq {"audio"}
      BY <1>0, <1>1, <1>9 DEF TurnMemoryKept
    <2> QED BY <1>11, <2>1, <2>2 DEF TurnMemoryKept
  <1>14. SpeechSent'
    <2>1. said' = "nothing"
      BY <1>0, <1>1, <1>9 DEF SpeechSent
    <2> QED BY <1>11, <2>1 DEF SpeechSent
  <1>15. FloorKept'
    <2>1. /\ Calibrating \in Seq(Nat)
          /\ Calibrating' = IF n + 1 > SkipChunks /\ n + 1 < First THEN Append(Calibrating, level)
                            ELSE Calibrating
      <3>1. n + 1 <= SkipChunks + CalibrationChunks <=> n + 1 < First
        BY <1>2, <1>3
      <3> QED BY <1>0, <1>1, <1>2, <3>1, CalibratingGrows
    <2>2. calibrationSum' = SumOf(Calibrating)' 
      <3>1. SumOf(Calibrating)' = SumOf(Calibrating')
        BY DEF SumOf
      <3>2. /\ calibrationSum = SumOf(Calibrating) /\ SumOf(Calibrating) \in Nat
            /\ SumOf(Append(Calibrating, level)) = SumOf(Calibrating) + level
        BY <1>0, <1>1, <2>1, SumAppend DEF FloorKept
      <3>3. n + 1 > SkipChunks <=> ~(n + 1 <= SkipChunks)
        BY <1>2
      <3> HIDE DEF n
      <3> QED BY <1>5, <2>1, <3>1, <3>2, <3>3
    <2>3. threshold' = IF Len(chunks') >= First' - 1 THEN Adaptive(calibrationSum') ELSE Configured
      <3>0. /\ First' = First /\ First \in Nat /\ First > 1
            /\ n \in Nat /\ Len(chunks') = n + 1
        BY <1>2, <1>3 DEF First
      <3> HIDE DEF n
      <3>1. CASE n + 1 = First - 1
        BY <1>6, <3>0, <3>1
      <3>2. CASE n + 1 < First - 1
        <4>1. threshold = Configured
          BY <1>0, <3>0, <3>2 DEF FloorKept, n
        <4> QED BY <1>6, <3>0, <3>2, <4>1
      <3>3. CASE n + 1 > First - 1
        <4>1. n >= First - 1 /\ ~(n + 1 < First)
          BY <3>0, <3>3
        <4>2. threshold = Adaptive(calibrationSum)
          BY <1>0, <4>1 DEF FloorKept, n
        <4>3. calibrationSum' = calibrationSum
          BY <1>0, <1>5, <4>1 DEF RecorderTypes
        <4>4. Len(chunks') >= First' - 1
          BY <3>0, <3>3
        <4>5. threshold' = threshold
          BY <1>6, <3>0, <3>3
        <4>6. Adaptive(calibrationSum') = Adaptive(calibrationSum)
          BY <4>3, Zenon
        <4> QED BY <4>2, <4>4, <4>5, <4>6, Zenon
      <3> QED BY <3>0, <3>1, <3>2, <3>3
    <2> QED BY <2>2, <2>3 DEF FloorKept, Adaptive, NoiseFloor
  <1>16. CASE n + 1 < First
    <2>1. n < First /\ First..n = {} /\ First..(n + 1) = {} /\ First' = First
      BY <1>2, <1>3, <1>16 DEF First
    <2>2. ~hadSpeech /\ silentCount = 0 /\ ending # "silence"
      BY <1>0, <1>2, <1>3, <2>1 DEF TalkKept, SilenceEnds
    <2>3. ~hadSpeech' /\ silentCount' = 0 /\ ending' # "silence"
      BY <1>7, <1>16, <2>2
    <2>4. TalkKept'
      BY <1>2, <1>3, <1>16, <2>1, <2>3 DEF TalkKept
    <2>5. SilenceEnds'
      BY <1>2, <1>16, <2>1, <2>3 DEF SilenceEnds
    <2> QED BY <1>12, <1>13, <1>14, <1>15, <2>4, <2>5 DEF RecorderInv
  <1>17. CASE n + 1 >= First
    <2>1. First' = First /\ threshold' = threshold /\ threshold \in Nat
      BY <1>0, <1>2, <1>3, <1>6, <1>17 DEF First, RecorderTypes
    <2> DEFINE sc == silentCount
    <2>2. /\ sc \in Nat /\ sc <= n - (First - 1)
          /\ \A j \in First..n : j > n - sc => ~(chunks[j] > threshold)
          /\ sc = n - (First - 1) \/ (n >= First /\ chunks[n - sc] > threshold)
      <3>1. CASE n < First
        BY <1>0, <1>2, <1>3, <1>17, <3>1 DEF TalkKept
      <3>2. CASE n >= First
        BY <1>0, <3>2 DEF TalkKept, RecorderTypes
      <3> QED BY <1>2, <1>3, <3>1, <3>2
    <2>3. silentCount' = IF loud THEN 0 ELSE sc + 1
      BY <1>8, <1>17 DEF QuietCount
    <2>4. TalkKept'
      <3>1. hadSpeech' <=> \E i \in First..(n + 1) : chunks'[i] > threshold
        <4>1. hadSpeech <=> \E i \in First..n : chunks[i] > threshold
          BY <1>0 DEF TalkKept
        <4>2. hadSpeech' <=> hadSpeech \/ level > threshold
          BY <1>8, <1>17
        <4>3. \A i \in First..(n + 1) : (i \in First..n /\ chunks'[i] = chunks[i]) \/ (i = n + 1 /\ chunks'[i] = level)
          BY <1>2, <1>3
        <4>4. \A i \in First..n : i \in First..(n + 1) /\ chunks'[i] = chunks[i]
          BY <1>2, <1>3
        <4>5. n + 1 \in First..(n + 1) /\ chunks'[n + 1] = level
          BY <1>2, <1>3, <1>17
        <4> HIDE DEF n
        <4> QED BY <4>1, <4>2, <4>3, <4>4, <4>5
      <3>2. silentCount' <= n + 1 - (First - 1)
        BY <1>2, <1>3, <1>17, <2>2, <2>3
      <3>3. ASSUME NEW j \in First..(n + 1), j > n + 1 - silentCount' PROVE ~(chunks'[j] > threshold)
        <4>1. ~loud /\ silentCount' = sc + 1
          BY <1>2, <2>3, <3>3
        <4>2. CASE j = n + 1
          BY <1>2, <4>1, <4>2
        <4>3. CASE j # n + 1
          <5>1. j \in Int /\ First <= j /\ j <= n + 1 /\ j > n + 1 - (sc + 1)
            BY <1>2, <1>3, <3>3, <4>1
          <5>2. j \in First..n /\ j \in 1..n /\ j > n - sc
            <6> HIDE DEF n, sc
            <6> QED BY <1>2, <1>3, <2>2, <4>3, <5>1
          <5> QED BY <1>2, <2>2, <5>2
        <4> QED BY <4>2, <4>3
      <3>4. silentCount' = n + 1 - (First - 1) \/ chunks'[n + 1 - silentCount'] > threshold
        <4>1. CASE loud
          BY <1>2, <2>3, <4>1
        <4>2. CASE ~loud
          <5>1. silentCount' = sc + 1 /\ n + 1 - silentCount' = n - sc
            BY <1>2, <2>2, <2>3, <4>2
          <5>2. CASE sc = n - (First - 1)
            BY <1>2, <1>3, <5>1, <5>2
          <5>3. CASE sc # n - (First - 1)
            <6>1. chunks[n - sc] > threshold /\ n - sc \in 1..n
              BY <1>2, <1>3, <2>2, <5>3
            <6> QED BY <1>2, <5>1, <6>1
          <5> QED BY <5>2, <5>3
        <4> QED BY <4>1, <4>2
      <3>5. ~(Len(chunks') < First')
        BY <1>2, <1>3, <1>17, <2>1
      <3>6. n + 1 = Len(chunks')
        BY <1>2
      <3>7. hadSpeech' <=> \E i \in First'..Len(chunks') : chunks'[i] > threshold'
        BY <2>1, <3>1, <3>6
      <3>8. \A j \in First'..Len(chunks') : j > Len(chunks') - silentCount' => ~(chunks'[j] > threshold')
        <4>1. SUFFICES ASSUME NEW j \in First'..Len(chunks'), j > Len(chunks') - silentCount'
                       PROVE  ~(chunks'[j] > threshold')
          OBVIOUS
        <4>2. j \in First..(n + 1) /\ j > n + 1 - silentCount'
          BY <1>2, <1>3, <1>10, <2>1, <3>6, <4>1
        <4>3. ~(chunks'[j] > threshold)
          BY <3>3, <4>2
        <4> QED BY <2>1, <4>3
      <3>9. silentCount' <= Len(chunks') - (First' - 1)
        BY <1>2, <1>3, <1>10, <2>1, <3>2, <3>6
      <3>10. silentCount' = Len(chunks') - (First' - 1) \/ chunks'[Len(chunks') - silentCount'] > threshold'
        <4>1. /\ Len(chunks') - silentCount' = n + 1 - silentCount'
              /\ Len(chunks') - (First' - 1) = n + 1 - (First - 1)
          BY <1>2, <1>3, <1>10, <2>1, <3>6
        <4>2. chunks'[Len(chunks') - silentCount'] = chunks'[n + 1 - silentCount']
          BY <4>1
        <4> QED BY <2>1, <3>4, <4>1, <4>2, Zenon
      <3> QED BY <3>5, <3>7, <3>8, <3>9, <3>10 DEF TalkKept
    <2> DEFINE QuietRun(i) == /\ i >= First - 1 + SilenceChunks /\ ~(chunks'[i] > threshold)
                              /\ \A j \in (i - SilenceChunks + 1)..i : ~(chunks'[j] > threshold)
                              /\ \E j \in First..(i - SilenceChunks) : chunks'[j] > threshold
    <2>5. ASSUME NEW i \in First..n PROVE ~QuietRun(i)
      <3>1. ~QuietAt(i)
        BY <1>0, <1>1 DEF SilenceEnds
      <3>2. i \in Int /\ First <= i /\ i <= n /\ i \in 1..n
        BY <1>2, <1>3
      <3>3. ASSUME QuietRun(i) PROVE QuietAt(i)
        <4>0. /\ n \in Nat /\ First \in Nat /\ First > 1 /\ SilenceChunks \in Nat
              /\ i >= First - 1 + SilenceChunks
          BY <1>2, <1>3, <3>3
        <4>1. \A j \in (i - SilenceChunks + 1)..i : j \in 1..n
          <5> HIDE DEF n
          <5> QED BY <3>2, <4>0
        <4>2. \A j \in First..(i - SilenceChunks) : j \in 1..n
          <5> HIDE DEF n
          <5> QED BY <3>2, <4>0
        <4> USE <3>3
        <4>3. i >= First - 1 + SilenceChunks
          OBVIOUS
        <4>4. ~(chunks[i] > threshold)
          <5>1. ~(chunks'[i] > threshold)
            OBVIOUS
          <5> QED BY <1>2, <3>2, <5>1
        <4>5. \A j \in (i - SilenceChunks + 1)..i : ~(chunks[j] > threshold)
          <5>1. \A j \in (i - SilenceChunks + 1)..i : ~(chunks'[j] > threshold)
            OBVIOUS
          <5>2. \A j \in (i - SilenceChunks + 1)..i : chunks'[j] = chunks[j]
            BY <1>2, <4>1
          <5> QED BY <5>1, <5>2
        <4>6. \E j \in First..(i - SilenceChunks) : chunks[j] > threshold
          <5>1. \E j \in First..(i - SilenceChunks) : chunks'[j] > threshold
            OBVIOUS
          <5>2. \A j \in First..(i - SilenceChunks) : chunks'[j] = chunks[j]
            BY <1>2, <4>2
          <5> QED BY <5>1, <5>2
        <4> QED BY <4>3, <4>4, <4>5, <4>6 DEF QuietAt
      <3> QED BY <3>1, <3>3
    <2>6. QuietRun(n + 1) <=> ~loud /\ hadSpeech /\ silent >= SilenceChunks
      <3>0. /\ hadSpeech <=> \E i \in First..n : chunks[i] > threshold
            /\ ~loud => silent = sc + 1
        BY <1>0 DEF TalkKept, QuietCount
      <3>1. ASSUME QuietRun(n + 1) PROVE ~loud /\ hadSpeech /\ silent >= SilenceChunks
        <4>1. ~loud
          BY <1>2, <3>1
        <4>2. PICK j \in First..(n + 1 - SilenceChunks) : chunks'[j] > threshold
          BY <3>1
        <4>3. j # n + 1 /\ j \in Int /\ First <= j /\ j <= n + 1 - SilenceChunks
          BY <1>2, <1>3, <4>1, <4>2
        <4>4. j \in First..n /\ j \in 1..n
          <5> HIDE DEF n
          <5> QED BY <1>2, <1>3, <4>3
        <4>5. hadSpeech
          BY <1>2, <3>0, <4>2, <4>4
        <4>6. CASE sc = n - (First - 1)
          <5> HIDE DEF n, sc
          <5> QED BY <1>2, <1>3, <2>2, <3>0, <3>1, <4>1, <4>5, <4>6
        <4>7. CASE sc # n - (First - 1)
          <5>1. chunks[n - sc] > threshold /\ n - sc \in 1..n
            BY <1>2, <1>3, <2>2, <4>7
          <5>2. chunks'[n - sc] > threshold
            BY <1>2, <5>1
          <5>3. ~(n - sc \in (n + 1 - SilenceChunks + 1)..(n + 1))
            BY <3>1, <5>2
          <5>4. sc + 1 >= SilenceChunks
            <6> HIDE DEF n, sc
            <6> QED BY <1>2, <2>2, <5>1, <5>3
          <5> QED BY <3>0, <4>1, <4>5, <5>4
        <4> QED BY <4>6, <4>7
      <3>2. ASSUME ~loud, hadSpeech, silent >= SilenceChunks PROVE QuietRun(n + 1)
        <4>1. PICK j \in First..n : chunks[j] > threshold
          BY <3>0, <3>2
        <4>2. j \in Int /\ First <= j /\ j <= n /\ ~(j > n - sc) /\ sc + 1 >= SilenceChunks
          BY <1>2, <1>3, <2>2, <3>0, <3>2, <4>1
        <4>3. j \in First..(n + 1 - SilenceChunks) /\ j \in 1..n
          <5> HIDE DEF n, sc
          <5> QED BY <1>2, <1>3, <2>2, <4>2
        <4>4. chunks'[j] > threshold
          BY <1>2, <4>1, <4>3
        <4>5. ~(chunks'[n + 1] > threshold)
          BY <1>2, <3>2
        <4>6. n + 1 >= First - 1 + SilenceChunks
          <5> HIDE DEF n, sc
          <5> QED BY <1>2, <1>3, <4>2, <2>2
        <4>7. ASSUME NEW k \in (n + 1 - SilenceChunks + 1)..(n + 1) PROVE ~(chunks'[k] > threshold)
          <5>1. CASE k = n + 1
            BY <4>5, <5>1
          <5>2. CASE k # n + 1
            <6>1. k \in First..n /\ k > n - sc /\ k \in 1..n
              <7> HIDE DEF n, sc
              <7> QED BY <1>2, <1>3, <2>2, <4>2, <4>6, <5>2
            <6> QED BY <1>2, <2>2, <6>1
          <5> QED BY <5>1, <5>2
        <4> QED BY <4>3, <4>4, <4>5, <4>6, <4>7
      <3> QED BY <3>1, <3>2
    <2>7. SilenceEnds'
      <3>0. n + 1 = Len(chunks') /\ n + 1 \in First..(n + 1)
        BY <1>2, <1>3, <1>17
      <3>1. ending # "silence"
        <4>1. ending = "silence" => n >= First /\ QuietAt(n)
          BY <1>0 DEF SilenceEnds
        <4>2. n >= First => n \in First..n
          BY <1>2, <1>3
        <4> QED BY <1>0, <1>1, <4>1, <4>2 DEF SilenceEnds
      <3>2. QuietRun(n + 1) => turn' # "loop"
        <4> HIDE DEF QuietRun
        <4> QED BY <1>8, <1>17, <2>6
      <3>3. ending' = "silence" => QuietRun(n + 1)
        <4> HIDE DEF QuietRun
        <4> QED BY <1>8, <1>17, <2>6, <3>1
      <3>4. ASSUME NEW i \in First..(n + 1), QuietRun(i) PROVE i = n + 1 /\ turn' # "loop"
        <4>1. i \in First..n \/ i = n + 1
          BY <1>2, <1>3
        <4> HIDE DEF QuietRun
        <4> QED BY <2>5, <3>2, <3>4, <4>1
      <3>5. \A i \in First'..Len(chunks') : QuietAt(i)' => i = Len(chunks') /\ turn' # "loop"
        <4>1. SUFFICES ASSUME NEW i \in First'..Len(chunks'), QuietAt(i)'
                       PROVE  i = Len(chunks') /\ turn' # "loop"
          OBVIOUS
        <4>2. QuietRun(i)
          BY <2>1, <4>1 DEF QuietAt
        <4> HIDE DEF QuietRun, n
        <4> QED BY <2>1, <3>0, <3>4, <4>1, <4>2
      <3>6. ending' = "silence" => Len(chunks') >= First' /\ QuietAt(Len(chunks))'
        <4>1. SUFFICES ASSUME ending' = "silence" PROVE Len(chunks') >= First' /\ QuietAt(Len(chunks))'
          OBVIOUS
        <4>2. QuietRun(Len(chunks'))
          <5> HIDE DEF n
          <5> QED BY <3>0, <3>3, <4>1
        <4> QED BY <1>2, <1>17, <2>1, <4>2 DEF QuietAt
      <3> QED BY <3>5, <3>6 DEF SilenceEnds
    <2> QED BY <1>12, <1>13, <1>14, <1>15, <2>4, <2>7 DEF RecorderInv
  <1> QED BY <1>2, <1>3, <1>16, <1>17

(* Every other step of the turn preserves the invariant.                    *)
LEMMA RecorderSteps == RecorderInv /\ [RecorderNext]_recorderVars => RecorderInv'
  <1> SUFFICES ASSUME RecorderInv, [RecorderNext]_recorderVars PROVE RecorderInv'
    OBVIOUS
  <1> USE RecorderAssumption
  <1>0. RecorderTypes /\ TurnMemoryKept /\ FloorKept /\ TalkKept /\ SilenceEnds /\ SpeechSent
    BY DEF RecorderInv
  <1>h. UNCHANGED Heard => UNCHANGED <<chunks, calibrationSum, threshold, hadSpeech,
                                       silentCount, ending>>
    BY DEF Heard, Sounds
  <1>1. CASE BeginRecording
    <2>1. chunks' = <<>> /\ Len(chunks') = 0 /\ chunks' \in Seq(Nat) /\ First' = First /\ First \in Nat /\ 0 < First - 1
      BY <1>1 DEF BeginRecording, First
    <2>2. FloorKept'
      <3>1. Calibrating' = SubSeq(chunks', SkipChunks + 1, 0)
        BY <2>1 DEF Calibrating
      <3>2. Calibrating' = <<>>
        BY <2>1, <3>1
      <3>3. SumOf(Calibrating)' = SumOf(Calibrating')
        BY DEF SumOf
      <3>4. calibrationSum' = 0 /\ threshold' = Configured
        BY <1>1 DEF BeginRecording
      <3>5. ~(Len(chunks') >= First' - 1)
        BY <2>1
      <3> QED BY <3>2, <3>3, <3>4, <3>5, SumEmpty DEF FloorKept
    <2>3. TalkKept' /\ SilenceEnds'
      <3>1. ~hadSpeech' /\ silentCount' = 0 /\ ending' = "none" /\ First'..Len(chunks') = {}
        BY <1>1, <2>1 DEF BeginRecording
      <3> QED BY <2>1, <3>1 DEF TalkKept, SilenceEnds
    <2>4. RecorderTypes'
      BY <1>0, <1>1, <2>1 DEF BeginRecording, Goes, RecorderTypes
    <2>5. TurnMemoryKept'
      BY <1>0, <1>1, Zenon DEF BeginRecording, Goes, TurnMemoryKept
    <2>6. SpeechSent'
      BY <1>1 DEF BeginRecording, Goes, SpeechSent
    <2> QED BY <2>2, <2>3, <2>4, <2>5, <2>6 DEF RecorderInv
  <1>2. CASE AllocateAudio
    <2>1. UNCHANGED Heard /\ turn = "start"
      BY <1>2 DEF AllocateAudio, Goes
    <2>2. chunks = <<>> /\ First > 0 /\ First..Len(chunks) = {} /\ First' = First /\ Len(chunks) < First
      BY <1>0, <2>1 DEF TurnMemoryKept, First
    <2>3. FloorKept' /\ TalkKept'
      BY <2>1, HeardKept DEF Heard
    <2>4. ending' # "silence"
      BY <1>0, <1>h, <2>1, <2>2 DEF SilenceEnds
    <2>5. SilenceEnds'
      BY <1>h, <2>1, <2>2, <2>4 DEF SilenceEnds
    <2>6. RecorderTypes'
      BY <1>0, <1>2, <1>h DEF AllocateAudio, Goes, RecorderTypes
    <2>7. TurnMemoryKept'
      BY <1>0, <1>2, <1>h DEF AllocateAudio, Goes, TurnMemoryKept
    <2>8. SpeechSent'
      BY <1>0, <1>2, <1>h DEF AllocateAudio, Goes, SpeechSent
    <2> QED BY <2>3, <2>5, <2>6, <2>7, <2>8 DEF RecorderInv
  <1>3. CASE PressCancel \/ UNCHANGED recorderVars
    <2>1. UNCHANGED Heard /\ UNCHANGED <<turn, recordingFlag, turnMemory, said>> /\ cancelBit' \in BOOLEAN
      BY <1>0, <1>3 DEF PressCancel, recorderVars, Heard, Sounds, RecorderTypes
    <2>2. FloorKept' /\ TalkKept'
      BY <2>1, HeardKept DEF Heard
    <2>3. SilenceEnds'
      BY <1>0, <1>h, <2>1 DEF SilenceEnds, QuietAt
    <2>4. RecorderTypes'
      BY <1>0, <1>h, <2>1 DEF RecorderTypes
    <2>5. TurnMemoryKept'
      BY <1>0, <1>h, <2>1 DEF TurnMemoryKept
    <2>6. SpeechSent'
      BY <1>0, <1>h, <2>1 DEF SpeechSent
    <2> QED BY <2>2, <2>3, <2>4, <2>5, <2>6 DEF RecorderInv
  <1>4. CASE CancelRecording \/ StopRecording \/ Discard \/ GoodEnough
    <2>1. UNCHANGED Heard /\ turn' # "loop"
      BY <1>4 DEF CancelRecording, StopRecording, Discard, GoodEnough, Goes
    <2>2. FloorKept' /\ TalkKept' /\ SilenceEnds'
      BY <2>1, HeardSteps
    <2>3. RecorderTypes'
      BY <1>0, <1>4, <1>h DEF CancelRecording, StopRecording, Discard, GoodEnough, Goes,
         RecorderTypes
    <2>4. TurnMemoryKept'
      BY <1>0, <1>4, <1>h DEF CancelRecording, StopRecording, Discard, GoodEnough, Goes,
         TurnMemoryKept
    <2>5. SpeechSent'
      BY <1>0, <1>4, <1>h DEF CancelRecording, StopRecording, Discard, GoodEnough, Goes, SpeechSent
    <2> QED BY <2>2, <2>3, <2>4, <2>5 DEF RecorderInv
  <1>5. CASE ReadFails \/ BufferFull
    <2>1. /\ turn = "loop" /\ turn' = "stop" /\ ending' \in {"error", "full"}
          /\ UNCHANGED <<recordingFlag, Sounds, turnMemory, cancelBit, said>>
      BY <1>5 DEF ReadFails, BufferFull, EndsWith
    <2>2. FloorKept' /\ TalkKept' /\ hadSpeech' = hadSpeech /\ chunks' = chunks /\ \A i : QuietAt(i)' <=> QuietAt(i)
      BY <2>1, HeardKept
    <2>s. UNCHANGED <<chunks, calibrationSum, threshold, hadSpeech, silentCount>>
      BY <2>1 DEF Sounds
    <2>3. SilenceEnds'
      BY <1>0, <2>1, <2>s DEF SilenceEnds, QuietAt
    <2>4. RecorderTypes'
      BY <1>0, <2>1, <2>s DEF RecorderTypes
    <2>5. TurnMemoryKept'
      BY <1>0, <2>1, <2>s DEF TurnMemoryKept
    <2>6. SpeechSent'
      BY <1>0, <2>1, <2>s DEF SpeechSent
    <2> QED BY <2>2, <2>3, <2>4, <2>5, <2>6 DEF RecorderInv
  <1>6. CASE \E level \in SoundLevels : ReadChunk(level)
    BY <1>6, ChunkRead
  <1>7. CASE BuildWav \/ BuildBody \/ TakeResponse \/ OpenClient \/ Perform \/ CheckCancel
    <2>1. UNCHANGED Heard /\ turn' # "loop" /\ UNCHANGED recordingFlag
      BY <1>7 DEF BuildWav, BuildBody, TakeResponse, OpenClient, TranscribeStep, Fails,
         Perform, CheckCancel, Goes
    <2>2. FloorKept' /\ TalkKept' /\ SilenceEnds'
      BY <2>1, HeardSteps
    <2>m. /\ turn \in {"wav", "body", "response", "client", "perform", "check"}
          /\ turn' \in {"body", "response", "client", "perform", "check", "away"}
          /\ turn' \in {"check", "away"} => turnMemory' = {}
          /\ turn' \in {"body", "response", "client", "perform"} => said' = said /\ turn # "check"
          /\ said' \in {"nothing", "words", "failed", "apology"} /\ cancelBit' \in BOOLEAN
      BY <1>0, <1>7 DEF BuildWav, BuildBody, TakeResponse, OpenClient, TranscribeStep,
         Fails, Perform, CheckCancel, Goes, RecorderTypes, TurnMemoryKept
    <2>3. RecorderTypes'
      BY <1>0, <1>h, <2>1, <2>m DEF RecorderTypes
    <2>4. TurnMemoryKept'
      BY <1>0, <1>h, <2>1, <2>m DEF TurnMemoryKept
    <2>5. SpeechSent'
      BY <1>0, <1>h, <2>1, <2>m DEF SpeechSent
    <2> QED BY <2>2, <2>3, <2>4, <2>5 DEF RecorderInv
  <1> QED BY <1>1, <1>2, <1>3, <1>4, <1>5, <1>6, <1>7 DEF RecorderNext

(* voice_chat.c:178: a recording ends for silence exactly at the first      *)
(* silence that follows speech, only one with speech in it is sent, and     *)
(* however a turn ends its memory is freed and nothing is left recording,   *)
(* for any lengths, levels and thresholds.                                  *)
THEOREM TurnsKept == RecorderSpec => []TurnHolds
  <1>1. RecorderInv => TurnHolds
    <2> SUFFICES ASSUME RecorderInv PROVE TurnHolds
      OBVIOUS
    <2> USE RecorderAssumption
    <2>0. RecorderTypes /\ TurnMemoryKept /\ FloorKept /\ TalkKept /\ SilenceEnds /\ SpeechSent
      BY DEF RecorderInv
    <2>1. First \in Nat /\ First - 1 = SkipChunks + CalibrationChunks /\ First > 1 /\ Len(chunks) \in Nat
      BY <2>0 DEF First, RecorderTypes
    <2>2. Len(chunks) >= First => TrueThreshold = threshold
      <3>1. SUFFICES ASSUME Len(chunks) >= First PROVE TrueThreshold = threshold
        OBVIOUS
      <3>2. Len(chunks) >= First - 1 /\ ~(Len(chunks) < First - 1)
        BY <2>1, <3>1
      <3>3. Calibrating = SubSeq(chunks, SkipChunks + 1, First - 1)
        BY <3>2 DEF Calibrating
      <3>4. threshold = Adaptive(calibrationSum) /\ Mean = NoiseFloor(calibrationSum)
        BY <2>0, <3>2, <3>3 DEF FloorKept, Mean, NoiseFloor
      <3> QED BY <3>1, <3>4 DEF Adaptive, TrueThreshold
    <2>3. Len(chunks) >= First => \A i : (Loud(i) <=> chunks[i] > threshold) /\ (SilenceAt(i) <=> QuietAt(i))
      BY <2>2 DEF Loud, SilenceAt, QuietAt
    <2>4. ASSUME NEW i \in First..Len(chunks) PROVE Len(chunks) >= First
      BY <2>1
    <2>5. \A i \in First..Len(chunks) : SilenceAt(i) => i = Len(chunks) /\ turn # "loop"
      BY <2>0, <2>3, <2>4 DEF SilenceEnds
    <2>6. ending = "silence" => SilenceAt(Len(chunks))
      BY <2>0, <2>3 DEF SilenceEnds
    <2>7. said \in {"words", "apology"} => \E i \in First..Len(chunks) : Loud(i)
      BY <2>0, <2>3, <2>4 DEF SpeechSent, TalkKept
    <2>8. turn = "away" => turnMemory = {} /\ ~recordingFlag
      BY <2>0 DEF TurnMemoryKept
    <2> QED BY <2>5, <2>6, <2>7, <2>8 DEF TurnHolds
  <1> QED BY <1>1, RecorderStarts, RecorderSteps, PTL DEF RecorderSpec

(***************************************************************************)
(* Types of the wake word engine, the photo that waits, the list of jobs,   *)
(* answers, frames and the recording: what their invariants leave to say.   *)
(***************************************************************************)

(* The flags of the engine, and the counts of calls.                        *)
EngineMarks ==
  /\ detector \in {"none", "starting", "listening", "judging", "waiting"}
  /\ starting \in {"no", "created"}
  /\ startCalls \in 0..MaxStarts /\ pauseCalls \in 0..MaxPauses
EngineFlags ==
  taskHandle \in BOOLEAN /\ engineRunning \in BOOLEAN /\ enginePaused \in BOOLEAN /\ wakeEvent \in BOOLEAN

LEMMA EngineMarksStep == EngineMarks /\ [WakeWordNext]_wakeVars => EngineMarks'
  <1> SUFFICES ASSUME EngineMarks, [WakeWordNext]_wakeVars PROVE EngineMarks'
    OBVIOUS
  <1> USE DEF EngineMarks, Flags, CallCounts
  <1>1. CASE StartEngine \/ Pause
    BY <1>1, WakeWordAssumption DEF StartEngine, Pause
  <1>2. CASE LoadEngine \/ HandleWritten \/ Resume \/ TakeWakeBit
    BY <1>2 DEF LoadEngine, HandleWritten, Resume, TakeWakeBit
  <1>3. CASE DetectorBegins \/ DetectorRecords \/ DetectorJudges \/ DetectorWaited
    BY <1>3 DEF DetectorBegins, DetectorRecords, DetectorJudges, DetectorWaited
  <1>4. CASE UNCHANGED wakeVars
    BY <1>4 DEF wakeVars
  <1> QED BY <1>1, <1>2, <1>3, <1>4 DEF WakeWordNext

LEMMA EngineFlagsStep == EngineFlags /\ [WakeWordNext]_wakeVars => EngineFlags'
  <1> SUFFICES ASSUME EngineFlags, [WakeWordNext]_wakeVars PROVE EngineFlags'
    OBVIOUS
  <1> USE DEF EngineFlags, Flags, CallCounts
  <1>1. CASE StartEngine \/ Pause
    BY <1>1 DEF StartEngine, Pause
  <1>2. CASE LoadEngine \/ HandleWritten \/ Resume \/ TakeWakeBit
    BY <1>2 DEF LoadEngine, HandleWritten, Resume, TakeWakeBit
  <1>3. CASE DetectorBegins \/ DetectorRecords \/ DetectorJudges \/ DetectorWaited
    BY <1>3 DEF DetectorBegins, DetectorRecords, DetectorJudges, DetectorWaited
  <1>4. CASE UNCHANGED wakeVars
    BY <1>4 DEF wakeVars
  <1> QED BY <1>1, <1>2, <1>3, <1>4 DEF WakeWordNext

LEMMA WakeWordTyped == WakeWordSpec => []WakeWordTypeOK
  <1>1. WakeWordInit => EngineMarks /\ EngineFlags
    <2>1. WakeWordInit => EngineMarks
      BY WakeWordAssumption DEF WakeWordInit, EngineMarks
    <2>2. WakeWordInit => EngineFlags
      BY DEF WakeWordInit, EngineFlags
    <2> QED BY <2>1, <2>2
  <1>2. EngineInv /\ EngineMarks /\ EngineFlags => WakeWordTypeOK
    BY DEF EngineInv, EngineMarks, EngineFlags, WakeWordTypeOK
  <1> QED BY <1>1, <1>2, EngineInit, EngineNext, EngineMarksStep, EngineFlagsStep, PTL
          DEF WakeWordSpec

(* What a task holds of photos is one that was taken.                       *)
AtPhoto == {"away", "store", "set", "size", "preview", "take", "send", "free", "clear", "clear_size"}
PhotoMarks ==
  /\ imageDamage \subseteq Images /\ taken \in 0..MaxImages /\ uses \in 0..MaxUses
  /\ \A h \in Holders : at[h] \in AtPhoto /\ inHand[h] \in Images \cup {NoImage}
  /\ imageOverlap \in BOOLEAN

LEMMA PhotoMarksStep == PhotoInv /\ PhotoMarks /\ [ImageNext]_imageVars => PhotoMarks'
  <1> SUFFICES ASSUME PhotoInv, PhotoMarks, [ImageNext]_imageVars PROVE PhotoMarks'
    OBVIOUS
  <1>0. /\ MaxImages \in Nat /\ MaxUses \in Nat /\ taken \in 0..MaxImages /\ uses \in 0..MaxUses
        /\ pendingJpeg \in 0..taken /\ DOMAIN at = Holders
    BY ImageAssumption DEF PhotoMarks, PhotoInv
  <1>a. \A h \in Holders : at[h] \in AtPhoto
    BY DEF PhotoMarks
  <1>p. pendingJpeg \in Images \cup {NoImage}
    BY <1>0 DEF Images, NoImage
  <1>m. ASSUME NEW h \in Holders, NEW from, NEW to \in AtPhoto, Move(h, from, to)
        PROVE  (\A o \in Holders : at'[o] \in AtPhoto) /\ imageOverlap' \in BOOLEAN
    BY <1>0, <1>a, <1>m DEF Move
  <1>h. ASSUME NEW h \in Holders, NEW b \in Images \cup {NoImage},
               inHand' = [inHand EXCEPT ![h] = b]
        PROVE  \A o \in Holders : inHand'[o] \in Images \cup {NoImage}
    <2>1. \A o \in Holders : inHand[o] \in Images \cup {NoImage}
      BY DEF PhotoMarks
    <2>2. DOMAIN inHand = Holders
      BY DEF PhotoInv
    <2> QED BY <1>h, <2>1, <2>2
  <1>u. ASSUME NEW b \in Images \cup {NoImage}, Uses(b)
        PROVE  imageDamage' \subseteq Images
    BY <1>u DEF Uses, PhotoMarks
  <1>b. Begins => uses' \in 0..MaxUses
    BY <1>0 DEF Begins
  <1>n. "main" \in Holders /\ "knob" \in Holders /\ "console" \in Holders
    BY DEF Holders
  <1>s. /\ "away" \in AtPhoto /\ "store" \in AtPhoto /\ "set" \in AtPhoto /\ "size" \in AtPhoto
        /\ "preview" \in AtPhoto /\ "take" \in AtPhoto /\ "send" \in AtPhoto
        /\ "free" \in AtPhoto /\ "clear" \in AtPhoto /\ "clear_size" \in AtPhoto
    BY DEF AtPhoto
  <1>k. /\ imageDamage \subseteq Images
        /\ \A h \in Holders : inHand[h] \in Images \cup {NoImage}
    BY DEF PhotoMarks
  <1>z. NoImage \in Images \cup {NoImage}
    OBVIOUS
  <1>1. CASE Captured
    <2>1. taken' \in 0..MaxImages
      BY <1>0, <1>1 DEF Captured
    <2>2. Move("main", "away", "store")
      BY <1>1 DEF Captured
    <2> QED BY <1>0, <1>k, <1>m, <1>n, <1>s, <1>1, <2>1, <2>2 DEF Captured, PhotoMarks
  <1>2. CASE StoreFreesOld
    <2>1. Move("main", "store", "set") /\ Uses(pendingJpeg) /\ UNCHANGED <<taken, inHand, uses>>
      BY <1>2 DEF StoreFreesOld, Frees
    <2> QED BY <1>0, <1>k, <1>m, <1>n, <1>p, <1>s, <1>u, <2>1 DEF PhotoMarks
  <1>3. CASE StoreSets
    <2>1. Move("main", "set", "size") /\ UNCHANGED <<taken, inHand, imageDamage, uses>>
      BY <1>3 DEF StoreSets
    <2> QED BY <1>0, <1>k, <1>m, <1>n, <1>s, <2>1 DEF PhotoMarks
  <1>4. CASE StoreSizes
    <2>1. Move("main", "size", "preview") /\ UNCHANGED <<taken, inHand, imageDamage, uses>>
      BY <1>4 DEF StoreSizes
    <2> QED BY <1>0, <1>k, <1>m, <1>n, <1>s, <2>1 DEF PhotoMarks
  <1>5. CASE Preview
    <2>1. Move("main", "preview", "away") /\ Uses(taken) /\ UNCHANGED <<taken, inHand, uses>>
      BY <1>5 DEF Preview
    <2>2. taken \in Images \cup {NoImage}
      BY <1>0 DEF Images, NoImage
    <2> QED BY <1>0, <1>k, <1>m, <1>n, <1>s, <1>u, <2>1, <2>2 DEF PhotoMarks
  <1>6. CASE VoiceTakes
    <2>1. /\ Begins /\ Move("main", "away", "take") /\ UNCHANGED <<taken, imageDamage>>
          /\ \E b \in Images \cup {NoImage} : inHand' = [inHand EXCEPT !["main"] = b]
      BY <1>6, <1>p, <1>z DEF VoiceTakes
    <2> QED BY <1>0, <1>b, <1>h, <1>k, <1>m, <1>n, <1>s, <2>1 DEF PhotoMarks
  <1>7. CASE VoiceClears
    <2>1. Move("main", "take", "clear") /\ UNCHANGED <<taken, inHand, imageDamage, uses>>
      BY <1>7 DEF VoiceClears
    <2> QED BY <1>0, <1>k, <1>m, <1>n, <1>s, <2>1 DEF PhotoMarks
  <1>8. CASE VoiceClearsSize
    <2>1. Move("main", "clear", "send") /\ UNCHANGED <<taken, inHand, imageDamage, uses>>
      BY <1>8 DEF VoiceClearsSize
    <2> QED BY <1>0, <1>k, <1>m, <1>n, <1>s, <2>1 DEF PhotoMarks
  <1>9. CASE VoiceSends
    <2>1. Move("main", "send", "free") /\ Uses(inHand["main"]) /\ UNCHANGED <<taken, inHand, uses>>
      BY <1>9 DEF VoiceSends
    <2> QED BY <1>0, <1>k, <1>m, <1>n, <1>s, <1>u, <2>1 DEF PhotoMarks
  <1>10. CASE VoiceFrees
    <2>1. /\ Move("main", "free", "away") /\ Uses(inHand["main"]) /\ UNCHANGED <<taken, uses>>
          /\ inHand' = [inHand EXCEPT !["main"] = NoImage]
      BY <1>10 DEF VoiceFrees, Frees
    <2> QED BY <1>0, <1>h, <1>k, <1>m, <1>n, <1>s, <1>u, <1>z, <2>1 DEF PhotoMarks
  <1>11. CASE KnobFinds
    <2>1. Begins /\ Move("knob", "away", "free") /\ UNCHANGED <<taken, inHand, imageDamage>>
      BY <1>11 DEF KnobFinds
    <2> QED BY <1>0, <1>b, <1>k, <1>m, <1>n, <1>s, <2>1 DEF PhotoMarks
  <1>12. CASE ConsoleFinds
    <2>1. Begins /\ Move("console", "away", "send") /\ UNCHANGED <<taken, inHand, imageDamage>>
      BY <1>12 DEF ConsoleFinds
    <2> QED BY <1>0, <1>b, <1>k, <1>m, <1>n, <1>s, <2>1 DEF PhotoMarks
  <1>13. CASE ConsoleSends
    <2>1. Move("console", "send", "free") /\ Uses(pendingJpeg) /\ UNCHANGED <<taken, inHand, uses>>
      BY <1>13 DEF ConsoleSends
    <2> QED BY <1>0, <1>k, <1>m, <1>n, <1>p, <1>s, <1>u, <2>1 DEF PhotoMarks
  <1>14. ASSUME NEW h \in Holders, DiscardFrees(h) PROVE PhotoMarks'
    <2>1. Move(h, "free", "clear") /\ Uses(pendingJpeg) /\ UNCHANGED <<taken, inHand, uses>>
      BY <1>14 DEF DiscardFrees, Frees
    <2> QED BY <1>0, <1>k, <1>m, <1>p, <1>s, <1>u, <2>1 DEF PhotoMarks
  <1>15. ASSUME NEW h \in Holders, DiscardClears(h) PROVE PhotoMarks'
    <2>1. Move(h, "clear", "clear_size") /\ UNCHANGED <<taken, inHand, imageDamage, uses>>
      BY <1>15 DEF DiscardClears
    <2> QED BY <1>0, <1>k, <1>m, <1>s, <2>1 DEF PhotoMarks
  <1>16. ASSUME NEW h \in Holders, DiscardClearsSize(h) PROVE PhotoMarks'
    <2>1. Move(h, "clear_size", "away") /\ UNCHANGED <<taken, inHand, imageDamage, uses>>
      BY <1>16 DEF DiscardClearsSize
    <2> QED BY <1>0, <1>k, <1>m, <1>s, <2>1 DEF PhotoMarks
  <1>17. CASE UNCHANGED imageVars
    BY <1>17 DEF imageVars, PhotoMarks
  <1> QED BY <1>1, <1>2, <1>3, <1>4, <1>5, <1>6, <1>7, <1>8, <1>9, <1>10, <1>11, <1>12, <1>13,
             <1>14, <1>15, <1>16, <1>17 DEF ImageNext

LEMMA ImageTyped == ImageSpec => []ImageTypeOK
  <1>1. ImageInit => PhotoMarks
    <2> SUFFICES ASSUME ImageInit PROVE PhotoMarks
      OBVIOUS
    <2>1. taken \in 0..MaxImages /\ uses \in 0..MaxUses
      BY ImageAssumption DEF ImageInit
    <2> QED BY <2>1 DEF ImageInit, PhotoMarks, AtPhoto
  <1>2. PhotoInv /\ PhotoMarks => ImageTypeOK
    <2> SUFFICES ASSUME PhotoInv, PhotoMarks PROVE ImageTypeOK
      OBVIOUS
    <2>1. /\ pendingJpeg \in Images \cup {NoImage} /\ live \subseteq Images /\ taken \in 0..MaxImages
      BY ImageAssumption DEF PhotoInv, PhotoMarks, Images, NoImage
    <2>2. at \in [Holders -> AtPhoto] /\ inHand \in [Holders -> Images \cup {NoImage}]
      BY DEF PhotoInv, PhotoMarks
    <2> QED BY <2>1, <2>2 DEF ImageTypeOK, PhotoInv, PhotoMarks, AtPhoto
  <1> QED BY <1>1, <1>2, PhotoInit, PhotoStep, PhotoMarksStep, PTL DEF ImageSpec

(* The screen of tasks.                                                     *)
LEMMA TaskScreenTyped == TaskScreenSpec => []TaskScreenTypeOK
  <1>1. TaskInv => TaskScreenTypeOK
    <2> SUFFICES ASSUME TaskInv PROVE TaskScreenTypeOK
      OBVIOUS
    <2>1. TaskTypes
      BY DEF TaskInv
    <2>2. Len(arriving) <= 1
      <3>1. arriving = <<>> \/ Len(arriving) = 1
        BY <2>1, Zenon DEF TaskTypes
      <3>2. Len(<<>>) <= 1
        OBVIOUS
      <3>3. CASE arriving = <<>>
        BY <3>2, <3>3
      <3>4. CASE Len(arriving) = 1
        BY <3>4
      <3> QED BY <3>1, <3>3, <3>4
    <2>3. DOMAIN tasks = 1..MaxTasks
      BY <2>1 DEF TaskTypes
    <2> QED BY <2>1, <2>2, <2>3 DEF TaskTypes, TaskScreenTypeOK
  <1> QED BY <1>1, TasksStart, TasksStep, PTL DEF TaskScreenSpec

(* What is left of an answer, and what of it is shown.                      *)
LEMMA AnswerShape == AnswerInv => AnswerTypeOK
  <1> SUFFICES ASSUME AnswerInv PROVE AnswerTypeOK
    OBVIOUS
  <1>1. AnswerTypes
    BY DEF AnswerInv
  <1>2. commandCount \in Nat
    BY <1>1 DEF AnswerTypes
  <1> QED BY <1>1, <1>2 DEF AnswerTypes, AnswerTypeOK
LEMMA AnswerTyped == AnswerSpec => []AnswerTypeOK
  BY AnswerShape, AnswerBegins, AnswerSteps, PTL DEF AnswerSpec

(* The frames and the buffer they are put together in.                      *)
LEMMA FragTyped == FragSpec => []FragTypeOK
  <1>1. FragInv => FragTypeOK
    <2> SUFFICES ASSUME FragInv PROVE FragTypeOK
      OBVIOUS
    <2>1. FragTypes
      BY DEF FragInv
    <2>2. fragLen \in Nat /\ Len(fragBuf) = fragLen
      BY <2>1 DEF FragTypes
    <2>3. \A f \in 1..Len(frames) : frames[f].length \in FrameLengths /\ frames[f].lost \in BOOLEAN
      BY <2>1, FrameFacts
    <2> QED BY <2>1, <2>2, <2>3 DEF FragTypes, FragTypeOK
  <1> QED BY <1>1, FragStarts, FragStep, PTL DEF FragSpec

(* The chunks read are levels, and no more than the buffer holds.           *)
LevelsRead ==
  /\ chunks \in Seq(SoundLevels) /\ Len(chunks) <= MaxChunks
  /\ turnMemory \subseteq {"audio", "wav", "body", "response"}

LEMMA LevelsReadStep == LevelsRead /\ [RecorderNext]_recorderVars => LevelsRead'
  <1> SUFFICES ASSUME LevelsRead, [RecorderNext]_recorderVars PROVE LevelsRead'
    OBVIOUS
  <1> USE DEF LevelsRead, Heard, Sounds
  <1>1. CASE BeginRecording
    <2>1. chunks' = <<>> /\ turnMemory' = turnMemory
      BY <1>1 DEF BeginRecording
    <2> QED BY <2>1, RecorderAssumption
  <1>2. CASE AllocateAudio \/ PressCancel \/ CancelRecording
    BY <1>2 DEF AllocateAudio, PressCancel, CancelRecording
  <1>3. ASSUME NEW level \in SoundLevels, ReadChunk(level) PROVE LevelsRead'
    <2>1. /\ Len(chunks) < MaxChunks /\ chunks' = Append(chunks, level)
          /\ turnMemory' = turnMemory
      BY <1>3 DEF ReadChunk
    <2>2. Len(chunks') = Len(chunks) + 1 /\ chunks' \in Seq(SoundLevels)
      BY <2>1
    <2>3. PICK n \in Nat : n = Len(chunks)
      OBVIOUS
    <2>4. Len(chunks') <= MaxChunks
      BY <2>1, <2>2, <2>3, RecorderAssumption
    <2> QED BY <2>1, <2>2, <2>4
  <1>4. CASE ReadFails \/ BufferFull \/ StopRecording \/ Discard \/ GoodEnough
    BY <1>4 DEF ReadFails, BufferFull, StopRecording, Discard, GoodEnough
  <1>5. CASE BuildWav \/ BuildBody \/ TakeResponse \/ OpenClient
    BY <1>5 DEF BuildWav, BuildBody, TakeResponse, OpenClient, TranscribeStep
  <1>6. CASE Perform \/ CheckCancel
    BY <1>6 DEF Perform, CheckCancel
  <1>7. CASE UNCHANGED recorderVars
    BY <1>7 DEF recorderVars
  <1> QED BY <1>1, <1>2, <1>3, <1>4, <1>5, <1>6, <1>7 DEF RecorderNext

LEMMA RecorderTyped == RecorderSpec => []RecorderTypeOK
  <1>1. RecorderInit => LevelsRead
    BY RecorderAssumption DEF RecorderInit, LevelsRead
  <1>2. RecorderInv /\ LevelsRead => RecorderTypeOK
    BY DEF RecorderInv, RecorderTypes, LevelsRead, RecorderTypeOK
  <1> QED BY <1>1, <1>2, RecorderStarts, RecorderSteps, LevelsReadStep, PTL DEF RecorderSpec

(* The ring of sessions and what is being said of them.                     *)
LEMMA NoticesTyped == NoticeSpec => []NoticeTypeOK
  <1>1. NoticeInv => NoticeTypeOK
    BY DEF NoticeInv
  <1> QED BY <1>1, NoticeStarts, NoticesStep, PTL DEF NoticeSpec
=============================================================================
