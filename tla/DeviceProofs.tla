---------------------------- MODULE DeviceProofs ----------------------------
(* Proofs about the device that MCDevice puts together: each of its         *)
(* components behaves as it does alone, so that what was proved about the   *)
(* component holds in the device.                                           *)
EXTENDS MCDevice, BoardProofs, ServiceProofs, ConversationProofs, LineProofs, TLAPS

(* Every behaviour of the device is one of each component.                  *)
LEMMA DeviceHasLights == DeviceSpec => LightsSpec
  <1>1. DeviceInit => LightsInit
    BY DEF DeviceInit
  <1>2. [DeviceNext]_deviceVars => [LightsNext]_lightVars
    BY DEF DeviceNext, deviceVars
  <1> QED BY <1>1, <1>2, PTL DEF DeviceSpec, LightsSpec
LEMMA DeviceHasWheel == DeviceSpec => EncoderSpec
  <1>1. DeviceInit => EncoderInit
    BY DEF DeviceInit
  <1>2. [DeviceNext]_deviceVars => [EncoderNext]_encoderVars
    BY DEF DeviceNext, deviceVars
  <1> QED BY <1>1, <1>2, PTL DEF DeviceSpec, EncoderSpec
LEMMA DeviceHasWifi == DeviceSpec => WifiSpec
  <1>1. DeviceInit => WifiInit
    BY DEF DeviceInit
  <1>2. [DeviceNext]_deviceVars => [WifiNext]_wifiVars
    BY DEF DeviceNext, deviceVars
  <1> QED BY <1>1, <1>2, PTL DEF DeviceSpec, WifiSpec
LEMMA DeviceHasSettings == DeviceSpec => SettingsSpec
  <1>1. DeviceInit => SettingsInit
    BY DEF DeviceInit
  <1>2. [DeviceNext]_deviceVars => [SettingsNext]_settingsVars
    BY DEF DeviceNext, deviceVars
  <1> QED BY <1>1, <1>2, PTL DEF DeviceSpec, SettingsSpec
LEMMA DeviceHasWeb == DeviceSpec => WebSpec
  <1>1. DeviceInit => WebInit
    BY DEF DeviceInit
  <1>2. [DeviceNext]_deviceVars => [WebNext]_webVars
    BY DEF DeviceNext, deviceVars
  <1> QED BY <1>1, <1>2, PTL DEF DeviceSpec, WebSpec
LEMMA DeviceHasStatus == DeviceSpec => StatusSpec
  <1>1. DeviceInit => StatusInit
    BY DEF DeviceInit
  <1>2. [DeviceNext]_deviceVars => [StatusNext]_statusVars
    BY DEF DeviceNext, deviceVars
  <1> QED BY <1>1, <1>2, PTL DEF DeviceSpec, StatusSpec
LEMMA DeviceHasVision == DeviceSpec => VisionSpec
  <1>1. DeviceInit => VisionInit
    BY DEF DeviceInit
  <1>2. [DeviceNext]_deviceVars => [VisionNext]_visionVars
    BY DEF DeviceNext, deviceVars
  <1> QED BY <1>1, <1>2, PTL DEF DeviceSpec, VisionSpec
LEMMA DeviceHasNotices == DeviceSpec => NoticeSpec
  <1>1. DeviceInit => NoticeInit
    BY DEF DeviceInit
  <1>2. [DeviceNext]_deviceVars => [NoticeNext]_noticeVars
    BY DEF DeviceNext, deviceVars
  <1> QED BY <1>1, <1>2, PTL DEF DeviceSpec, NoticeSpec
LEMMA DeviceHasTasks == DeviceSpec => TaskScreenSpec
  <1>1. DeviceInit => TaskScreenInit
    BY DEF DeviceInit
  <1>2. [DeviceNext]_deviceVars => [TaskScreenNext]_taskVars
    BY DEF DeviceNext, deviceVars
  <1> QED BY <1>1, <1>2, PTL DEF DeviceSpec, TaskScreenSpec
LEMMA DeviceHasFrames == DeviceSpec => FragSpec
  <1>1. DeviceInit => FragInit
    BY DEF DeviceInit
  <1>2. [DeviceNext]_deviceVars => [FragNext]_fragVars
    BY DEF DeviceNext, deviceVars
  <1> QED BY <1>1, <1>2, PTL DEF DeviceSpec, FragSpec
LEMMA DeviceHasImage == DeviceSpec => ImageSpec
  <1>1. DeviceInit => ImageInit
    BY DEF DeviceInit
  <1>2. [DeviceNext]_deviceVars => [ImageNext]_imageVars
    BY DEF DeviceNext, deviceVars
  <1> QED BY <1>1, <1>2, PTL DEF DeviceSpec, ImageSpec
LEMMA DeviceHasRecorder == DeviceSpec => RecorderSpec
  <1>1. DeviceInit => RecorderInit
    BY DEF DeviceInit
  <1>2. [DeviceNext]_deviceVars => [RecorderNext]_recorderVars
    BY DEF DeviceNext, deviceVars
  <1> QED BY <1>1, <1>2, PTL DEF DeviceSpec, RecorderSpec
LEMMA DeviceHasWake == DeviceSpec => WakeWordSpec
  <1>1. DeviceInit => WakeWordInit
    BY DEF DeviceInit
  <1>2. [DeviceNext]_deviceVars => [WakeWordNext]_wakeVars
    BY DEF DeviceNext, deviceVars
  <1> QED BY <1>1, <1>2, PTL DEF DeviceSpec, WakeWordSpec

LEMMA DeviceHasHash == DeviceSpec => ShaSpec
  <1>1. DeviceInit => ShaInit
    BY DEF DeviceInit
  <1>2. [DeviceNext]_deviceVars => [ShaNext]_shaVars
    BY DEF DeviceNext, deviceVars
  <1> QED BY <1>1, <1>2, PTL DEF DeviceSpec, ShaSpec
LEMMA DeviceHasKeys == DeviceSpec => SigningSpec
  <1>1. DeviceInit => SigningInit
    BY DEF DeviceInit
  <1>2. [DeviceNext]_deviceVars => [SigningNext]_signVars
    BY DEF DeviceNext, deviceVars
  <1> QED BY <1>1, <1>2, PTL DEF DeviceSpec, SigningSpec
LEMMA DeviceHasLog == DeviceSpec => Spec
  <1>1. DeviceInit => Init
    BY DEF DeviceInit
  <1>2. [DeviceNext]_deviceVars => [Next]_vars
    BY DEF DeviceNext, deviceVars
  <1> QED BY <1>1, <1>2, PTL DEF DeviceSpec, Spec
LEMMA DeviceHasSleep == DeviceSpec => SleepSpec
  <1>1. DeviceInit => SleepInit
    BY DEF DeviceInit
  <1>2. [DeviceNext]_deviceVars => [SleepNext]_sleepVars
    BY DEF DeviceNext, deviceVars
  <1> QED BY <1>1, <1>2, PTL DEF DeviceSpec, SleepSpec
LEMMA DeviceHasSpeech == DeviceSpec => SpeechSpec
  <1>1. DeviceInit => SpeechInit
    BY DEF DeviceInit
  <1>2. [DeviceNext]_deviceVars => [SpeechNext]_speechVars
    BY DEF DeviceNext, deviceVars
  <1> QED BY <1>1, <1>2, PTL DEF DeviceSpec, SpeechSpec
LEMMA DeviceHasButtons == DeviceSpec => ButtonsSpec
  <1>1. DeviceInit => ButtonsInit
    BY DEF DeviceInit
  <1>2. [DeviceNext]_deviceVars => [ButtonsNext]_buttonVars
    BY DEF DeviceNext, deviceVars
  <1> QED BY <1>1, <1>2, PTL DEF DeviceSpec, ButtonsSpec
LEMMA DeviceHasParser == DeviceSpec => ParserSpec
  <1>1. DeviceInit => ParserInit
    BY DEF DeviceInit
  <1>2. [DeviceNext]_deviceVars => [ParserNext]_parserVars
    BY DEF DeviceNext, deviceVars
  <1> QED BY <1>1, <1>2, PTL DEF DeviceSpec, ParserSpec
LEMMA DeviceHasXmodem == DeviceSpec => XmodemSpec
  <1>1. DeviceInit => XmodemInit
    BY DEF DeviceInit
  <1>2. [DeviceNext]_deviceVars => [XmodemNext]_xmodemVars
    BY DEF DeviceNext, deviceVars
  <1> QED BY <1>1, <1>2, PTL DEF DeviceSpec, XmodemSpec
LEMMA DeviceHasBoard == DeviceSpec => BoardSpec
  <1>1. DeviceInit => BoardInit
    BY DEF DeviceInit
  <1>2. [DeviceNext]_deviceVars => [BoardNext]_boardVars
    BY DEF DeviceNext, deviceVars
  <1> QED BY <1>1, <1>2, PTL DEF DeviceSpec, BoardSpec
LEMMA DeviceHasSpeaker == DeviceSpec => DsSpec
  <1>1. DeviceInit => DsInit
    BY DEF DeviceInit
  <1>2. [DeviceNext]_deviceVars => [DsNext]_dsVars
    BY DEF DeviceNext, deviceVars
  <1> QED BY <1>1, <1>2, PTL DEF DeviceSpec, DsSpec

(* An answer is scanned while it is in focus, and none at all otherwise.    *)
LEMMA DeviceAnswerBegins == DeviceInit => AnswerInv
  <1> SUFFICES ASSUME DeviceInit PROVE AnswerInv
    OBVIOUS
  <1>1. CASE focus = "answer"
    BY <1>1, AnswerBegins DEF DeviceInit
  <1>2. CASE focus # "answer"
    <2>1. RestingAnswer
      BY <1>2 DEF DeviceInit
    <2>2. /\ answer = <<>> /\ respBuf = <<>> /\ scanFrom = 0 /\ answerStep = "tags" /\ listen = FALSE
          /\ done = <<>> /\ commandCount = 0 /\ shortText = <<>> /\ longText = <<>> /\ spoken = FALSE
      BY <2>1 DEF RestingAnswer
    <2>3. answer \in Seq(Tokens) /\ Len(answer) = 0 /\ 1..0 = {}
      BY <2>2
    <2>4. respBuf = [i \in Positions |-> i]
      <3>1. Positions = {}
        BY <2>3 DEF Positions
      <3> QED BY <2>2, <3>1
    <2>5. CutLast
      BY <2>3 DEF CutLast, Positions
    <2> QED BY <2>2, <2>3, <2>4, <2>5, AnswerStarts
  <1> QED BY <1>1, <1>2
LEMMA DeviceHasAnswers == DeviceSpec => [](TagsHold /\ AnswerTypeOK)
  <1>1. [DeviceNext]_deviceVars => [AnswerNext]_answerVars
    BY DEF DeviceNext, deviceVars
  <1> QED BY <1>1, DeviceAnswerBegins, AnswerSteps, TagsFollow, AnswerShape, PTL DEF DeviceSpec

(* A conversion is tried while the board's scales are in focus.             *)
LEMMA DeviceHasScales == DeviceSpec => [](focus = "scales" => ConversionsInRange)
  <1>1. DeviceInit => (focus = "scales" => ConversionsInRange)
    BY RangesKept DEF DeviceInit
  <1>2. (focus = "scales" => ConversionsInRange) /\ [DeviceNext]_deviceVars
          => (focus = "scales" => ConversionsInRange)'
    <2> SUFFICES ASSUME focus = "scales" => ConversionsInRange, [DeviceNext]_deviceVars
                 PROVE  (focus = "scales" => ConversionsInRange)'
      OBVIOUS
    <2>1. focus' = focus /\ probe' = probe
      BY DEF DeviceNext, deviceVars, scalesVars
    <2>2. ConversionsInRange' <=> ConversionsInRange
      BY <2>1 DEF ConversionsInRange
    <2> QED BY <2>1, <2>2
  <1> QED BY <1>1, <1>2, PTL DEF DeviceSpec

(* board.c: every conversion keeps its range, the LED shows one call's      *)
(* colour once all is quiet, and each detent of the wheel is told once.     *)
THEOREM BoardAnswers == DeviceSpec => []BoardAnswersHold
  <1>1. (focus = "scales" => ConversionsInRange) /\ SettledIsOneCall /\ StepsArriveOnce
          => BoardAnswersHold
    BY Zenon DEF BoardAnswersHold
  <1> QED BY <1>1, DeviceHasScales, DeviceHasLights, DeviceHasWheel, OneCallShows, DetentsArrive, PTL

(* wifi_manager.c, settings.c, webserver.c, app_tasks.c: the link is given  *)
(* up after the last attempt, the settings survive, every request is        *)
(* answered once, and the watchdog acts in time.                            *)
THEOREM ServicesKept == DeviceSpec => []ServiceHolds
  <1>1. GivesUpLast /\ SettingsSurvive /\ RequestsHold /\ StatusHolds => ServiceHolds
    BY Zenon DEF ServiceHolds
  <1> QED BY <1>1, DeviceHasWifi, DeviceHasSettings, DeviceHasWeb, DeviceHasStatus,
             GivenUpLast, SettingsKept, RequestsKept, WatchdogActs, PTL

(* sscma_client_ops.c:300, :868: no reply is handed to a call that did not  *)
(* ask for it, and memory is only damaged by a reply that came too late.    *)
THEOREM VisionAnswers == DeviceSpec => []VisionAnswersHold
  <1>1. NoStrangers /\ DamageOnlyWhenLate => VisionAnswersHold
    BY Zenon DEF VisionAnswersHold
  <1> QED BY <1>1, DeviceHasVision, OwnAnswers, PTL

(* openclaw_client.c, ui_tasks.c, app_state.c: frames arrive whole, jobs'   *)
(* messages are told from others', a tap means the job its row shows, and   *)
(* the tags in an answer are carried out once.                              *)
THEOREM GatewayAnswers == DeviceSpec => []GatewayHolds
  <1>1. OnlyWholeFrames /\ NoticesHold /\ TapsHold /\ TagsHold => GatewayHolds
    BY Zenon DEF GatewayHolds
  <1> QED BY <1>1, DeviceHasFrames, DeviceHasNotices, DeviceHasTasks, DeviceHasAnswers,
             FramesKept, NoticesKept, TapsKept, PTL

(* voice_chat.c, wake_word.c, app_main.c: what the Device run checks of the *)
(* photo that waits, the recording and the wake word holds for every value  *)
(* of the constants.                                                        *)
THEOREM CaptureKept == DeviceSpec => []CaptureHolds
  <1>1. ImagesKeptStraight /\ TurnHolds /\ OneWordAfterPause => CaptureHolds
    BY Zenon DEF CaptureHolds
  <1> QED BY <1>1, DeviceHasImage, DeviceHasRecorder, DeviceHasWake, PhotoKept, TurnsKept, OneWord,
             PTL

(* sha512.c, keypair.c, sign.c, verify.c: in whatever pieces a message      *)
(* comes, the hash gets the blocks of the padded message; keys stay a pair  *)
(* when scalars are added, and what was signed is accepted.                 *)
THEOREM SignaturesKept == DeviceSpec => []SignaturesHold
  <1>1. BlocksWhole /\ SignedIsVerified => SignaturesHold
    BY Zenon DEF SignaturesHold
  <1> QED BY <1>1, DeviceHasHash, DeviceHasKeys, BlocksHashed, SignaturesAccepted, PTL

(* error_log.c, sleep_manager.c, board.c, settings.c and the others of the  *)
(* run Device: every counter, place, flag and number stays in its range,    *)
(* for any number of calls, requests and faults and any number typed.       *)
THEOREM DeviceTypesHold == DeviceSpec => []DeviceTypeOK
  <1>1. ( /\ TypeOK /\ SleepTypeOK /\ SpeechTypeOK /\ ButtonsTypeOK /\ VisionTypeOK /\ ParserTypeOK
          /\ XmodemTypeOK /\ BoardTypeOK /\ EncoderTypeOK /\ DsTypeOK /\ LightsTypeOK /\ ShaTypeOK
          /\ SigningTypeOK /\ ImageTypeOK /\ WifiTypeOK /\ FragTypeOK /\ SettingsTypeOK /\ WebTypeOK
          /\ RecorderTypeOK /\ NoticeTypeOK /\ TaskScreenTypeOK /\ AnswerTypeOK /\ StatusTypeOK
          /\ WakeWordTypeOK )
        => DeviceTypeOK
    BY Zenon DEF DeviceTypeOK
  <1>2. DeviceSpec => [](TypeOK /\ SleepTypeOK /\ StatusTypeOK /\ SettingsTypeOK /\ WifiTypeOK /\ WebTypeOK)
    BY DeviceHasLog, DeviceHasSleep, DeviceHasStatus, DeviceHasSettings, DeviceHasWifi, DeviceHasWeb,
       TypeCorrect, SleepTypesHold, StatusTyped, SettingsTyped, WifiTyped, WebTyped, PTL
  <1>3. DeviceSpec => [](ButtonsTypeOK /\ BoardTypeOK /\ EncoderTypeOK /\ DsTypeOK /\ LightsTypeOK)
    BY DeviceHasButtons, DeviceHasBoard, DeviceHasWheel, DeviceHasSpeaker, DeviceHasLights,
       ButtonsTyped, BoardTyped, EncoderTyped, DsTyped, LightsTyped, PTL
  <1>4. DeviceSpec => [](VisionTypeOK /\ ParserTypeOK /\ XmodemTypeOK /\ ShaTypeOK /\ SigningTypeOK)
    BY DeviceHasVision, DeviceHasParser, DeviceHasXmodem, DeviceHasHash, DeviceHasKeys,
       VisionTyped, ParserTyped, XmodemTyped, ShaTyped, SigningTyped, PTL
  <1>5. DeviceSpec => [](SpeechTypeOK /\ WakeWordTypeOK /\ ImageTypeOK /\ RecorderTypeOK)
    BY DeviceHasSpeech, DeviceHasWake, DeviceHasImage, DeviceHasRecorder,
       SpeechTypesHold, WakeWordTyped, ImageTyped, RecorderTyped, PTL
  <1>6. DeviceSpec => [](FragTypeOK /\ NoticeTypeOK /\ TaskScreenTypeOK /\ AnswerTypeOK)
    BY DeviceHasFrames, DeviceHasNotices, DeviceHasTasks, DeviceHasAnswers,
       FragTyped, NoticesTyped, TaskScreenTyped, PTL
  <1> QED BY <1>1, <1>2, <1>3, <1>4, <1>5, <1>6, PTL
=============================================================================
