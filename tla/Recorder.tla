------------------------------ MODULE Recorder ------------------------------
(***************************************************************************)
(* voice_chat_start and stt_transcribe: one recording from its first chunk *)
(* to the text that is sent, with the noise floor, the silence that ends   *)
(* it, and the memory both take. A chunk's samples are one level.          *)
(***************************************************************************)
EXTENDS Naturals, Sequences

CONSTANTS
  SkipChunks, CalibrationChunks,       \* 4 and 16 in the code
  SilenceChunks, NoSpeechChunks,       \* silence_chunks, no_speech_max_chunks
  MaxChunks, MinChunks,                \* max_samples, and a third of a second
  Configured,                          \* cfg->silence_threshold
  SoundLevels                          \* the levels a chunk may have

ASSUME RecorderAssumption ==
  /\ SkipChunks \in Nat /\ CalibrationChunks \in Nat \ {0} /\ SilenceChunks \in Nat
  /\ NoSpeechChunks \in Nat /\ MaxChunks \in Nat /\ MinChunks \in Nat
  /\ Configured \in Nat /\ SoundLevels \subseteq Nat

VARIABLES
  turn,            \* where the turn is
  recordingFlag,   \* g_recording
  chunks,          \* history: the levels of the chunks read
  calibrationSum, threshold, hadSpeech, silentCount,
  ending,          \* history: what ended the recording
  turnMemory,      \* memory allocated and not freed
  cancelBit,       \* CANCEL_BIT
  said             \* what was sent: "nothing", "words", "apology"

recorderVars == <<turn, recordingFlag, chunks, calibrationSum, threshold, hadSpeech,
                  silentCount, ending, turnMemory, cancelBit, said>>

RecorderTypeOK ==
  /\ turn \in {"away", "start", "loop", "stop", "judge", "wav", "body", "response", "client",
               "perform", "check"}
  /\ chunks \in Seq(SoundLevels) /\ Len(chunks) <= MaxChunks
  /\ recordingFlag \in BOOLEAN /\ hadSpeech \in BOOLEAN /\ cancelBit \in BOOLEAN
  /\ threshold \in Nat /\ calibrationSum \in Nat /\ silentCount \in Nat
  /\ ending \in {"none", "silence", "no_speech", "full", "error"}
  /\ turnMemory \subseteq {"audio", "wav", "body", "response"}
  /\ said \in {"nothing", "words", "apology", "failed"}

RecorderInit ==
  /\ turn = "away" /\ recordingFlag = FALSE /\ chunks = <<>> /\ calibrationSum = 0
  /\ threshold = Configured /\ hadSpeech = FALSE /\ silentCount = 0 /\ ending = "none"
  /\ turnMemory = {} /\ cancelBit = FALSE /\ said = "nothing"

Sounds == <<chunks, calibrationSum, threshold, hadSpeech, silentCount>>
Heard == <<Sounds, ending>>
Goes(from, to) == turn = from /\ turn' = to

-----------------------------------------------------------------------------
\* Connected; the start sound has been played.
BeginRecording ==
  /\ Goes("away", "start") /\ recordingFlag' = TRUE
  /\ chunks' = <<>> /\ calibrationSum' = 0 /\ threshold' = Configured
  /\ hadSpeech' = FALSE /\ silentCount' = 0 /\ ending' = "none" /\ said' = "nothing"
  /\ UNCHANGED <<turnMemory, cancelBit>>
AllocateAudio ==
  /\ \/ Goes("start", "loop") /\ turnMemory' = turnMemory \cup {"audio"} /\ UNCHANGED recordingFlag
     \/ Goes("start", "away") /\ recordingFlag' = FALSE /\ UNCHANGED turnMemory
  /\ UNCHANGED <<Heard, cancelBit, said>>

\* The user, from another task; a bit set while no turn runs waits for the next one.
PressCancel ==
  /\ ~cancelBit /\ cancelBit' = TRUE
  /\ UNCHANGED <<turn, recordingFlag, Heard, turnMemory, said>>
CancelRecording ==
  /\ Goes("loop", "away") /\ cancelBit /\ cancelBit' = FALSE /\ Len(chunks) < MaxChunks
  /\ recordingFlag' = FALSE /\ turnMemory' = turnMemory \ {"audio"}
  /\ UNCHANGED <<Heard, said>>

EndsWith(why) == turn' = "stop" /\ ending' = why

\* The mean level of the calibration chunks.
NoiseFloor(sum) == sum \div CalibrationChunks
Adaptive(sum) ==
  LET a == (NoiseFloor(sum) * 5) \div 2 IN IF a > Configured THEN a ELSE Configured

\* Mutant: a loud chunk does not begin the count of silence again.
QuietCountOn(level) == IF level > threshold THEN silentCount ELSE silentCount + 1

QuietCount(level) == IF level > threshold THEN 0 ELSE silentCount + 1

\* One round of the loop: a chunk is read, and skipped, used for the floor, or judged.
ReadChunk(level) ==
  /\ turn = "loop" /\ ~cancelBit /\ Len(chunks) < MaxChunks
  /\ chunks' = Append(chunks, level)
  /\ LET n == Len(chunks')
         skipped == n <= SkipChunks
         calibrating == ~skipped /\ n <= SkipChunks + CalibrationChunks
         last == n = SkipChunks + CalibrationChunks
         speech == level > threshold
         silent == QuietCount(level)
     IN  /\ calibrationSum' = calibrationSum + (IF calibrating THEN level ELSE 0)
         /\ threshold' = IF calibrating /\ last THEN Adaptive(calibrationSum') ELSE threshold
         /\ IF skipped \/ calibrating THEN UNCHANGED <<turn, hadSpeech, silentCount, ending>>
            ELSE /\ hadSpeech' = (hadSpeech \/ speech) /\ silentCount' = silent
                 /\ CASE ~speech /\ hadSpeech /\ silent >= SilenceChunks ->
                           EndsWith("silence")
                      [] ~speech /\ ~hadSpeech /\ silent >= NoSpeechChunks ->
                           EndsWith("no_speech")
                      [] OTHER -> UNCHANGED <<turn, ending>>
  /\ UNCHANGED <<recordingFlag, turnMemory, cancelBit, said>>
ReadFails ==
  /\ turn = "loop" /\ ~cancelBit /\ Len(chunks) < MaxChunks /\ EndsWith("error")
  /\ UNCHANGED <<recordingFlag, Sounds, turnMemory, cancelBit, said>>
BufferFull ==
  /\ turn = "loop" /\ Len(chunks) >= MaxChunks /\ EndsWith("full")
  /\ UNCHANGED <<recordingFlag, Sounds, turnMemory, cancelBit, said>>
StopRecording ==
  /\ Goes("stop", "judge") /\ recordingFlag' = FALSE
  /\ UNCHANGED <<Heard, turnMemory, cancelBit, said>>
Discard ==
  /\ Goes("judge", "away") /\ (Len(chunks) < MinChunks \/ ~hadSpeech)
  /\ turnMemory' = turnMemory \ {"audio"}
  /\ UNCHANGED <<recordingFlag, Heard, cancelBit, said>>
GoodEnough ==
  /\ Goes("judge", "wav") /\ Len(chunks) >= MinChunks /\ hadSpeech
  /\ UNCHANGED <<recordingFlag, Heard, turnMemory, cancelBit, said>>

\* stt_transcribe takes memory step by step; on its way out the audio is freed.
Fails(from) == Goes(from, "check") /\ said' = "failed"
TranscribeStep(from, to, takes, drops) ==
  /\ \/ Goes(from, to) /\ turnMemory' = (turnMemory \cup takes) \ drops /\ UNCHANGED said
     \/ Fails(from) /\ turnMemory' = {}
  /\ UNCHANGED <<recordingFlag, Heard, cancelBit>>
BuildWav == TranscribeStep("wav", "body", {"wav"}, {})
BuildBody == TranscribeStep("body", "response", {"body"}, {"wav"})
TakeResponse == TranscribeStep("response", "client", {"response"}, {})
OpenClient == TranscribeStep("client", "perform", {}, {})
\* The request: an error, a status, a broken or an empty answer, or words.
Perform ==
  /\ Goes("perform", "check") /\ turnMemory' = {} /\ said' \in {"words", "failed"}
  /\ UNCHANGED <<recordingFlag, Heard, cancelBit>>
\* A last look at the cancel bit, then the text is sent, an apology where there is none.
CheckCancel ==
  /\ Goes("check", "away") /\ cancelBit' = FALSE
  /\ said' = IF cancelBit THEN "nothing" ELSE IF said = "words" THEN "words" ELSE "apology"
  /\ UNCHANGED <<recordingFlag, Heard, turnMemory>>

RecorderNext ==
  \/ BeginRecording \/ AllocateAudio \/ PressCancel \/ CancelRecording \/ ReadFails \/ BufferFull
  \/ \E level \in SoundLevels : ReadChunk(level)
  \/ StopRecording \/ Discard \/ GoodEnough
  \/ BuildWav \/ BuildBody \/ TakeResponse \/ OpenClient \/ Perform \/ CheckCancel
RecorderSpec == RecorderInit /\ [][RecorderNext]_recorderVars

-----------------------------------------------------------------------------
(* Properties.                                                             *)

First == SkipChunks + CalibrationChunks + 1
SumOf(s) == LET sum[k \in 0..Len(s)] == IF k = 0 THEN 0 ELSE sum[k - 1] + s[k] IN sum[Len(s)]
Mean == SumOf(SubSeq(chunks, SkipChunks + 1, First - 1)) \div CalibrationChunks
TrueThreshold ==
  IF Len(chunks) >= First /\ (Mean * 5) \div 2 > Configured THEN (Mean * 5) \div 2
  ELSE Configured
Loud(i) == chunks[i] > TrueThreshold
\* SilenceChunks quiet chunks up to the i-th, and one if that is none, after speech.
SilenceAt(i) ==
  /\ i >= First - 1 + SilenceChunks /\ ~Loud(i)
  /\ \A j \in (i - SilenceChunks + 1)..i : ~Loud(j)
  /\ \E j \in First..(i - SilenceChunks) : Loud(j)

\* voice_chat.c:178: a recording ends for silence exactly at the first silence that
\* follows speech; only one with speech in it is sent; and however the turn ends,
\* its memory is freed and nothing is left recording.
TurnHolds ==
  /\ \A i \in First..Len(chunks) : SilenceAt(i) => i = Len(chunks) /\ turn # "loop"
  /\ ending = "silence" => SilenceAt(Len(chunks))
  /\ said \in {"words", "apology"} => \E i \in First..Len(chunks) : Loud(i)
  /\ turn = "away" => turnMemory = {} /\ ~recordingFlag
=============================================================================
