---------------------------- MODULE PendingImage ----------------------------
(***************************************************************************)
(* g_pending_jpeg: the photo that waits for the next message. The main     *)
(* loop stores and takes it, the knob task discards it and the console     *)
(* sends it, all without a lock; every access that changes it is a step.   *)
(***************************************************************************)
EXTENDS Naturals, FiniteSets

CONSTANTS
  MaxImages,       \* bound: photos taken
  MaxUses          \* bound: messages and wheel turns

ASSUME ImageAssumption == MaxImages \in Nat /\ MaxUses \in Nat

NoImage == 0
Images == 1..MaxImages
Holders == {"main", "knob", "console"}

VARIABLES
  pendingJpeg,     \* g_pending_jpeg
  pendingSize,     \* g_pending_jpeg_size: 0 or not
  live,            \* buffers allocated and not freed
  taken,           \* history: photos taken so far
  at,              \* where each task is
  inHand,          \* the pointer a task has read
  imageDamage,     \* history: buffers freed twice or used after they were freed
  imageOverlap,    \* history: two tasks were at it at once
  uses

imageVars ==
  <<pendingJpeg, pendingSize, live, taken, at, inHand, imageDamage, imageOverlap, uses>>

ImageTypeOK ==
  /\ pendingJpeg \in Images \cup {NoImage} /\ pendingSize \in {0, 1}
  /\ live \subseteq Images /\ imageDamage \subseteq Images /\ taken \in 0..MaxImages
  /\ at \in [Holders -> {"away", "store", "set", "size", "preview", "take", "send", "free",
                         "clear", "clear_size"}]
  /\ inHand \in [Holders -> Images \cup {NoImage}]
  /\ imageOverlap \in BOOLEAN /\ uses \in 0..MaxUses

ImageInit ==
  /\ pendingJpeg = NoImage /\ pendingSize = 0 /\ live = {} /\ taken = 0
  /\ at = [h \in Holders |-> "away"] /\ inHand = [h \in Holders |-> NoImage]
  /\ imageDamage = {} /\ imageOverlap = FALSE /\ uses = 0

Move(h, from, to) ==
  /\ at[h] = from /\ at' = [at EXCEPT ![h] = to]
  /\ imageOverlap' = (imageOverlap \/ (to # "away" /\ \E o \in Holders \ {h} : at[o] # "away"))
Uses(b) == imageDamage' = IF b = NoImage \/ b \in live THEN imageDamage ELSE imageDamage \cup {b}
Frees(b) == Uses(b) /\ live' = live \ {b}
Begins == uses < MaxUses /\ uses' = uses + 1

-----------------------------------------------------------------------------
\* camera_capture_jpeg hands a photo over; a photo that still waits is freed.
Captured ==
  /\ taken < MaxImages /\ Move("main", "away", "store")
  /\ taken' = taken + 1 /\ live' = live \cup {taken + 1}
  /\ UNCHANGED <<pendingJpeg, pendingSize, inHand, imageDamage, uses>>
StoreFreesOld ==
  /\ Move("main", "store", "set")
  /\ Frees(pendingJpeg)
  /\ UNCHANGED <<pendingJpeg, pendingSize, taken, inHand, uses>>
StoreSets ==
  /\ Move("main", "set", "size") /\ pendingJpeg' = taken
  /\ UNCHANGED <<pendingSize, live, taken, inHand, imageDamage, uses>>
StoreSizes ==
  /\ Move("main", "size", "preview") /\ pendingSize' = 1
  /\ UNCHANGED <<pendingJpeg, live, taken, inHand, imageDamage, uses>>
Preview ==
  /\ Move("main", "preview", "away") /\ Uses(taken)
  /\ UNCHANGED <<pendingJpeg, pendingSize, live, taken, inHand, uses>>

\* voice_chat_start, once there is text to send: pointer and size, then both are cleared.
VoiceTakes ==
  /\ Begins /\ Move("main", "away", "take")
  /\ inHand' = [inHand EXCEPT !["main"] = IF pendingSize > 0 THEN pendingJpeg ELSE NoImage]
  /\ UNCHANGED <<pendingJpeg, pendingSize, live, taken, imageDamage>>
VoiceClears ==
  /\ Move("main", "take", "clear") /\ pendingJpeg' = NoImage
  /\ UNCHANGED <<pendingSize, live, taken, inHand, imageDamage, uses>>
VoiceClearsSize ==
  /\ Move("main", "clear", "send") /\ pendingSize' = 0
  /\ UNCHANGED <<pendingJpeg, live, taken, inHand, imageDamage, uses>>
VoiceSends ==
  /\ Move("main", "send", "free") /\ Uses(inHand["main"])
  /\ UNCHANGED <<pendingJpeg, pendingSize, live, taken, inHand, uses>>
VoiceFrees ==
  /\ Move("main", "free", "away") /\ Frees(inHand["main"])
  /\ inHand' = [inHand EXCEPT !["main"] = NoImage]
  /\ UNCHANGED <<pendingJpeg, pendingSize, taken, uses>>

\* The wheel discards a waiting photo; the console's "say" sends it with the text. Both
\* read the pointer again for each use.
KnobFinds ==
  /\ Begins /\ pendingJpeg # NoImage /\ Move("knob", "away", "free")
  /\ UNCHANGED <<pendingJpeg, pendingSize, live, taken, inHand, imageDamage>>
ConsoleFinds ==
  /\ Begins /\ pendingJpeg # NoImage /\ pendingSize > 0 /\ Move("console", "away", "send")
  /\ UNCHANGED <<pendingJpeg, pendingSize, live, taken, inHand, imageDamage>>
ConsoleSends ==
  /\ Move("console", "send", "free") /\ Uses(pendingJpeg)
  /\ UNCHANGED <<pendingJpeg, pendingSize, live, taken, inHand, uses>>
DiscardFrees(h) ==
  /\ h \in {"knob", "console"} /\ Move(h, "free", "clear") /\ Frees(pendingJpeg)
  /\ UNCHANGED <<pendingJpeg, pendingSize, taken, inHand, uses>>
\* Mutant: the photo that was freed is still the one that waits.
DiscardKeeps(h) ==
  /\ h \in {"knob", "console"} /\ Move(h, "clear", "clear_size")
  /\ UNCHANGED <<pendingJpeg, pendingSize, live, taken, inHand, imageDamage, uses>>

DiscardClears(h) ==
  /\ h \in {"knob", "console"} /\ Move(h, "clear", "clear_size") /\ pendingJpeg' = NoImage
  /\ UNCHANGED <<pendingSize, live, taken, inHand, imageDamage, uses>>
DiscardClearsSize(h) ==
  /\ h \in {"knob", "console"} /\ Move(h, "clear_size", "away") /\ pendingSize' = 0
  /\ UNCHANGED <<pendingJpeg, live, taken, inHand, imageDamage, uses>>

ImageNext ==
  \/ Captured \/ StoreFreesOld \/ StoreSets \/ StoreSizes \/ Preview
  \/ VoiceTakes \/ VoiceClears \/ VoiceClearsSize \/ VoiceSends \/ VoiceFrees
  \/ KnobFinds \/ ConsoleFinds \/ ConsoleSends
  \/ \E h \in Holders : DiscardFrees(h) \/ DiscardClears(h) \/ DiscardClearsSize(h)

ImageSpec == ImageInit /\ [][ImageNext]_imageVars

-----------------------------------------------------------------------------
(* Properties.                                                             *)

\* voice_chat.c:263, app_main.c:525, app_tasks.c:148, serial_cmd.c:104: as long as no two
\* tasks were at the photo at once, whatever order they came in, no buffer is freed twice
\* or used after that, none is lost, and while all are away a photo waits exactly when
\* its size says so.
ImagesKeptStraight ==
  ~imageOverlap =>
    /\ imageDamage = {}
    /\ (\A h \in Holders : at[h] = "away") =>
         /\ live = {pendingJpeg} \ {NoImage}
         /\ (pendingSize = 1) <=> (pendingJpeg # NoImage)
=============================================================================
