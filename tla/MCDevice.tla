------------------------------ MODULE MCDevice ------------------------------
(***************************************************************************)
(* One run for the components that do not interact with one another in     *)
(* what they promise: every behaviour is a behaviour of one of them, the   *)
(* focus, and the others rest in one of their initial states.              *)
(***************************************************************************)
EXTENDS ErrorLog, SleepManager, Speech, Buttons, VisionClient, ReplyParser, Xmodem,
        Board, Encoder, DeltaSigma, Lights, Scales, GroupElement, ScalarReduction, Sha512,
        Signing, PendingImage, WifiManager, FragReassembly, Settings, WebServer, Recorder,
        CronNotices, TaskScreen, AnswerTags, StatusTask, WakeWord

CONSTANTS w1

\* A point of order 5 of the small curve.
BasePoint == CHOOSE a \in Curve : a # Neutral /\ Scalar(5, a) = Neutral

\* What secrets.h gives, and what a browser types over: numbers that do not fit among it.
BuiltValues == [f \in Texts |-> IF f = "wifi_ssid" THEN "home" ELSE "built"]
TypedValues ==
  [f \in Fields |-> CASE f = "oc_token" -> {"new"} [] f = "oc_port" -> {70000, -1} [] OTHER -> {}]

VARIABLE focus

deviceVars == <<focus, vars, sleepVars, speechVars, buttonVars, visionVars, parserVars,
                xmodemVars, boardVars, encoderVars, dsVars, lightVars, scalesVars, groupVars,
                scalarVars, shaVars, signVars, imageVars, wifiVars, fragVars, settingsVars,
                webVars, recorderVars, noticeVars, taskVars, answerVars, statusVars, wakeVars>>

Components == {"log", "sleep", "speech", "buttons", "vision", "parser", "xmodem", "board",
               "encoder", "speaker", "lights", "scales", "points", "scalars", "hash", "signing",
               "image", "wifi", "frames", "settings", "web", "recorder", "notices", "tasks",
               "answer", "status", "wake"}

\* No answer at all.
RestingAnswer ==
  /\ answer = <<>> /\ respBuf = <<>> /\ scanFrom = 0 /\ answerStep = "tags" /\ listen = FALSE
  /\ done = <<>> /\ commandCount = 0 /\ shortText = <<>> /\ longText = <<>> /\ spoken = FALSE

\* What a component starts in is pinned while another is in focus.
DeviceInit ==
  /\ focus \in Components
  /\ Init /\ SleepInit /\ SpeechInit /\ VisionInit /\ ParserInit /\ XmodemInit
  /\ EncoderInit /\ DsInit /\ ShaInit /\ ImageInit /\ WifiInit /\ FragInit /\ SettingsInit
  /\ WebInit /\ RecorderInit /\ TaskScreenInit /\ StatusInit /\ WakeWordInit
  /\ IF focus = "notices" THEN NoticeInit ELSE NoticeInit /\ autoNotify = FALSE
  /\ IF focus = "buttons" THEN ButtonsInit ELSE ButtonsInit /\ button = "A"
  /\ IF focus = "board" THEN BoardInit ELSE BoardInit /\ board = "watcher"
  /\ IF focus = "lights" THEN LightsInit ELSE LightsInit /\ animMode = "off" /\ driver = "pwm"
  /\ IF focus = "signing" THEN SigningInit ELSE SigningInit /\ scalar = Clamped(0)
  /\ IF focus = "answer" THEN AnswerInit ELSE RestingAnswer
  /\ IF focus = "scalars" THEN ScalarInit
     ELSE reduction = [s |-> ReduceInput, left |-> ReduceSteps]
  /\ IF focus = "scales" THEN ScalesInit ELSE probe = [what |-> "duty", percent |-> 0]
  /\ IF focus = "points" THEN GroupInit ELSE job = BaseStart(0)

DeviceNext ==
  /\ focus' = focus
  /\ IF focus = "log" THEN Next ELSE UNCHANGED vars
  /\ IF focus = "sleep" THEN SleepNext ELSE UNCHANGED sleepVars
  /\ IF focus = "speech" THEN SpeechNext ELSE UNCHANGED speechVars
  /\ IF focus = "buttons" THEN ButtonsNext ELSE UNCHANGED buttonVars
  /\ IF focus = "vision" THEN VisionNext ELSE UNCHANGED visionVars
  /\ IF focus = "parser" THEN ParserNext ELSE UNCHANGED parserVars
  /\ IF focus = "xmodem" THEN XmodemNext ELSE UNCHANGED xmodemVars
  /\ IF focus = "board" THEN BoardNext ELSE UNCHANGED boardVars
  /\ IF focus = "encoder" THEN EncoderNext ELSE UNCHANGED encoderVars
  /\ IF focus = "speaker" THEN DsNext ELSE UNCHANGED dsVars
  /\ IF focus = "lights" THEN LightsNext ELSE UNCHANGED lightVars
  /\ UNCHANGED scalesVars
  /\ IF focus = "points" THEN GroupNext ELSE UNCHANGED groupVars
  /\ IF focus = "scalars" THEN ScalarNext ELSE UNCHANGED scalarVars
  /\ IF focus = "hash" THEN ShaNext ELSE UNCHANGED shaVars
  /\ IF focus = "signing" THEN SigningNext ELSE UNCHANGED signVars
  /\ IF focus = "image" THEN ImageNext ELSE UNCHANGED imageVars
  /\ IF focus = "wifi" THEN WifiNext ELSE UNCHANGED wifiVars
  /\ IF focus = "frames" THEN FragNext ELSE UNCHANGED fragVars
  /\ IF focus = "settings" THEN SettingsNext ELSE UNCHANGED settingsVars
  /\ IF focus = "web" THEN WebNext ELSE UNCHANGED webVars
  /\ IF focus = "recorder" THEN RecorderNext ELSE UNCHANGED recorderVars
  /\ IF focus = "notices" THEN NoticeNext ELSE UNCHANGED noticeVars
  /\ IF focus = "tasks" THEN TaskScreenNext ELSE UNCHANGED taskVars
  /\ IF focus = "answer" THEN AnswerNext ELSE UNCHANGED answerVars
  /\ IF focus = "status" THEN StatusNext ELSE UNCHANGED statusVars
  /\ IF focus = "wake" THEN WakeWordNext ELSE UNCHANGED wakeVars

DeviceSpec == DeviceInit /\ [][DeviceNext]_deviceVars

\* Every component keeps its types.
DeviceTypeOK ==
  CASE focus = "log" -> TypeOK
    [] focus = "sleep" -> SleepTypeOK
    [] focus = "speech" -> SpeechTypeOK
    [] focus = "buttons" -> ButtonsTypeOK
    [] focus = "vision" -> VisionTypeOK
    [] focus = "parser" -> ParserTypeOK
    [] focus = "xmodem" -> XmodemTypeOK
    [] focus = "board" -> BoardTypeOK
    [] focus = "encoder" -> EncoderTypeOK
    [] focus = "speaker" -> DsTypeOK
    [] focus = "lights" -> LightsTypeOK
    [] focus = "hash" -> ShaTypeOK
    [] focus = "signing" -> SigningTypeOK
    [] focus = "image" -> ImageTypeOK
    [] focus = "wifi" -> WifiTypeOK
    [] focus = "frames" -> FragTypeOK
    [] focus = "settings" -> SettingsTypeOK
    [] focus = "web" -> WebTypeOK
    [] focus = "recorder" -> RecorderTypeOK
    [] focus = "notices" -> NoticeTypeOK
    [] focus = "tasks" -> TaskScreenTypeOK
    [] focus = "answer" -> AnswerTypeOK
    [] focus = "status" -> StatusTypeOK
    [] focus = "wake" -> WakeWordTypeOK
    [] OTHER -> TRUE

\* sscma_client_ops.c:300, :868: no reply is handed to a call that did not ask for it,
\* and memory is only damaged by a reply that came too late.
VisionAnswersHold == NoStrangers /\ DamageOnlyWhenLate

\* board.c: every conversion keeps its range, the LED shows one call's colour once all is
\* quiet, and each detent of the wheel is told once.
BoardAnswersHold ==
  CASE focus = "scales" -> ConversionsInRange
    [] focus = "lights" -> SettledIsOneCall
    [] focus = "encoder" -> StepsArriveOnce
    [] OTHER -> TRUE

\* voice_chat.c, wake_word.c, app_main.c: the photo that waits, the recording and the wake
\* word engine, which hand the microphone, memory and flags from task to task.
CaptureHolds ==
  CASE focus = "image" -> ImagesKeptStraight
    [] focus = "recorder" -> TurnHolds
    [] focus = "wake" -> OneWordAfterPause
    [] OTHER -> TRUE

\* openclaw_client.c, ui_tasks.c, app_state.c: what comes from the gateway: frames in pieces,
\* messages of cron jobs, the list of jobs, and the tags in an answer.
GatewayHolds ==
  CASE focus = "frames" -> OnlyWholeFrames
    [] focus = "notices" -> NoticesHold
    [] focus = "tasks" -> TapsHold
    [] focus = "answer" -> TagsHold
    [] OTHER -> TRUE

\* wifi_manager.c, settings.c, webserver.c, app_tasks.c: the link, the settings in flash, the
\* web server's requests and the status task's rounds.
ServiceHolds ==
  CASE focus = "wifi" -> GivesUpLast
    [] focus = "settings" -> SettingsSurvive
    [] focus = "web" -> RequestsHold
    [] focus = "status" -> StatusHolds
    [] OTHER -> TRUE

\* ed25519_lib: the group's arithmetic, and the reduction of scalars.
SigningExact ==
  CASE focus = "points" -> ArithmeticExact
    [] focus = "scalars" -> ScalarsReduced
    [] OTHER -> TRUE

\* sha512.c, keypair.c, sign.c, verify.c: the hash gets the message's blocks, whole, and
\* what was signed is accepted.
SignaturesHold ==
  CASE focus = "hash" -> BlocksWhole
    [] focus = "signing" -> SignedIsVerified
    [] OTHER -> TRUE
=============================================================================
