------------------------------ MODULE WakeWord ------------------------------
(***************************************************************************)
(* wake_word.c: the engine is loaded, its task started, and paused and     *)
(* resumed by the tasks that need the microphone. The flags are plain      *)
(* variables; the task looks at them between two recordings.               *)
(***************************************************************************)
EXTENDS Naturals

CONSTANTS MaxStarts, MaxPauses        \* bounds

ASSUME WakeWordAssumption == MaxStarts \in Nat /\ MaxPauses \in Nat

VARIABLES
  models,          \* s_models and the engine's data: "none", "models", "loaded"
  taskHandle,      \* s_task_handle: NULL or not
  engineRunning,   \* s_running
  enginePaused,    \* s_paused
  detector,        \* the task: "none", "starting", "listening", "judging", "waiting"
  starting,        \* wake_word_start: "no", "created" until it has returned
  wakeEvent,         \* the event it sets
  sincePause,      \* history: detections since it was paused
  startCalls, pauseCalls

wakeVars == <<models, taskHandle, engineRunning, enginePaused, detector, starting, wakeEvent,
              sincePause, startCalls, pauseCalls>>

WakeWordTypeOK ==
  /\ models \in {"none", "loaded"}
  /\ {taskHandle, engineRunning, enginePaused, wakeEvent} \subseteq BOOLEAN
  /\ detector \in {"none", "starting", "listening", "judging", "waiting"}
  /\ starting \in {"no", "created"} /\ sincePause \in Nat
  /\ startCalls \in 0..MaxStarts /\ pauseCalls \in 0..MaxPauses

WakeWordInit ==
  /\ models = "none" /\ taskHandle = FALSE /\ engineRunning = FALSE /\ enginePaused = FALSE
  /\ detector = "none" /\ starting = "no" /\ wakeEvent = FALSE /\ sincePause = 0
  /\ startCalls = 0 /\ pauseCalls = 0

Flags == <<engineRunning, enginePaused>>
CallCounts == <<startCalls, pauseCalls>>

-----------------------------------------------------------------------------
\* wake_word_init: whatever is missing, what was loaded before it is given back.
LoadEngine ==
  /\ models' \in {models, "loaded"}
  /\ UNCHANGED <<taskHandle, Flags, detector, starting, wakeEvent, sincePause, CallCounts>>

\* wake_word_start: the flags, then the task, whose handle is written by xTaskCreate after
\* the task may have begun.
StartEngine ==
  /\ models = "loaded" /\ ~taskHandle /\ starting = "no"
  /\ startCalls < MaxStarts /\ startCalls' = startCalls + 1
  /\ enginePaused' = FALSE /\ sincePause' = 0
  /\ \/ engineRunning' = TRUE /\ detector' = "starting" /\ starting' = "created"
     \/ engineRunning' = FALSE /\ UNCHANGED <<detector, starting>>
  /\ UNCHANGED <<models, taskHandle, wakeEvent, pauseCalls>>
HandleWritten ==
  /\ starting = "created" /\ starting' = "no" /\ taskHandle' = TRUE
  /\ UNCHANGED <<models, Flags, detector, wakeEvent, sincePause, CallCounts>>

Pause ==
  /\ pauseCalls < MaxPauses /\ pauseCalls' = pauseCalls + 1
  /\ enginePaused' = TRUE /\ sincePause' = IF enginePaused THEN sincePause ELSE 0
  /\ UNCHANGED <<models, taskHandle, engineRunning, detector, starting, wakeEvent, startCalls>>
Resume ==
  /\ enginePaused /\ enginePaused' = FALSE
  /\ UNCHANGED <<models, taskHandle, engineRunning, detector, starting, wakeEvent, sincePause,
                 CallCounts>>
TakeWakeBit ==
  /\ wakeEvent /\ wakeEvent' = FALSE
  /\ UNCHANGED <<models, taskHandle, Flags, detector, starting, sincePause, CallCounts>>

\* The task: without memory it ends and leaves the handle as it is.
DetectorBegins ==
  /\ detector = "starting"
  /\ \/ detector' = "listening" /\ UNCHANGED engineRunning
     \/ detector' = "none" /\ engineRunning' = FALSE
  /\ UNCHANGED <<models, taskHandle, enginePaused, starting, wakeEvent, sincePause, CallCounts>>
\* Mutant: the task does not look at the flag.
DetectorRecordsOn ==
  /\ detector = "listening" /\ engineRunning /\ detector' = "judging"
  /\ UNCHANGED <<models, taskHandle, Flags, starting, wakeEvent, sincePause, CallCounts>>

\* A round begins when it is not paused; the recording blocks and may fail.
DetectorRecords ==
  /\ detector = "listening" /\ engineRunning /\ ~enginePaused /\ detector' = "judging"
  /\ UNCHANGED <<models, taskHandle, Flags, starting, wakeEvent, sincePause, CallCounts>>
DetectorJudges ==
  /\ detector = "judging"
  /\ \/ detector' = "listening" /\ UNCHANGED <<wakeEvent, sincePause>>
     \/ /\ detector' = "waiting" /\ wakeEvent' = TRUE
        /\ sincePause' = IF enginePaused THEN sincePause + 1 ELSE sincePause
  /\ UNCHANGED <<models, taskHandle, Flags, starting, CallCounts>>
DetectorWaited ==
  /\ detector = "waiting" /\ detector' = "listening"
  /\ UNCHANGED <<models, taskHandle, Flags, starting, wakeEvent, sincePause, CallCounts>>

WakeWordNext ==
  \/ LoadEngine \/ StartEngine \/ HandleWritten \/ Pause \/ Resume \/ TakeWakeBit
  \/ DetectorBegins \/ DetectorRecords \/ DetectorJudges \/ DetectorWaited
WakeWordSpec == WakeWordInit /\ [][WakeWordNext]_wakeVars

-----------------------------------------------------------------------------
(* Properties.                                                             *)

\* wake_word.c:202, :300: paused, the engine still finishes the recording it was in: it
\* may report one wake word, and no second one; and one task at most listens.
OneWordAfterPause ==
  /\ sincePause <= 1
  /\ detector # "none" => models = "loaded" /\ (taskHandle \/ starting = "created")
=============================================================================
