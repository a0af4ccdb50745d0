SPECIFICATION DeviceSpec
CONSTANTS
  w1 = w1  Writers = {w1}  Size = 3  MaxAdds = 8  MaxExports = 2
  Wakers = {"main", "knob", "gateway"}  HushInSleep = TRUE  MaxPresses = 2
  Voices = {"tts", "ann"}  Stoppers = {"main"}  MaxTexts = 2  MaxStops = 1  MaxStarved = 1
  DoubleWindow = 3  LongHold = 4  MaxGestures = 3
  Functions = {"sample", "model"}  MaxRequests = 2  QueueSize = 1
  RxSize = 8  MaxReplies = 3  MaxNoise = 2
  Ids = 4  MaxRetries = 1  MaxBlocks = 5  MaxFaults = 2  MaxTransfers = 2  MaxAsks = 1
  Boards = {"watcher", "waveshare", "box3", "m5stick"}  Inputs = {"button", "sync"}
  MaxBoardFaults = 2  MaxChanges = 2  MaxNaps = 2
  MaxSteps = 3  MaxTicks = 4
  Half = 4  Bits = 6  Players = {"tts", "main"}  MaxSamples = 3
  LightCallers = {"gateway", "status"}  Colours = {"green"}  MaxLightCalls = 2
  Hues = {0, 41, 42, 43, 59, 60, 61, 103, 104, 119, 180, 222, 223, 240, 343, 344, 360}
  Levels = {0, 1, 70, 254, 255}  Lengths = {0, 3, 4, 9, 10, 33, 34, 35, 64, 65, 3000, 3001, 4199, 4200, 65535}  MaxPoints = 5
  P = 13  D = 6  SqrtM1 = 5  Base <- BasePoint  Nibbles = 4  ScalarBits = 12
  Multipliers = {0, 7, 31, 121, 136, 511, 4088}  Zs = {5}  DoubleXs = {0, 1, 2}
  ExchangeKeys = {0, 8, 40, 63}
  Pieces = {48, 64, 111, 129}  MaxMessage = 260
  L = 5  Messages = {"m1", "m2"}  AddedScalars = {1, 7}  MaxOps = 2
  MaxImages = 3  MaxUses = 3
  MaxReconnects = 3  MaxLinks = 3
  FrameLengths = {1, 2, 3, 5}  PieceSize = 2  MaxFrames = 3
  Built <- BuiltValues  Typed <- TypedValues  Spoken = {150}
  MaxEdits = 2  MaxCuts = 1  MaxFlashFaults = 1
  MaxRequested = 2  MaxPieces = 2  MaxToggles = 2  MaxMemoryFaults = 1
  SkipChunks = 1  CalibrationChunks = 2  SilenceChunks = 2  NoSpeechChunks = 2
  MaxChunks = 7  MinChunks = 2  Configured = 1  SoundLevels = {0, 2, 4}
  Sessions = {"c1", "c2", "c3", "c4", "wa"}  Channels = {"wa"}  RingSize = 2  MaxCronEvents = 6
  Jobs = {"j1", "j2"}  MaxTasks = 2  MaxJobChanges = 2  MaxLists = 2  MaxTaps = 1
  AnswerLengths = {1, 2, 3}  HasScreen = TRUE  LongLine = 2
  AwakeLimit = 4  AsleepLimit = 2  AsleepRound = 2  FastPoll = 2  SlowPoll = 3  SleepPoll = 2
  MaxStarts = 3  MaxPauses = 3
CHECK_DEADLOCK FALSE
INVARIANT DeviceTypeOK
INVARIANT NeverOutOfRange
INVARIANT CalmExportExact
INVARIANT AsleepIsDark
INVARIANT SpeechLeavesNothing
INVARIANT NoPhantomGesture
INVARIANT VisionAnswersHold
INVARIANT CleanStreamExact
INVARIANT WrittenIsStored
INVARIANT PinsFollowPower
INVARIANT DensityTracksSample
INVARIANT LimbsNeverOverflow
INVARIANT SigningExact
INVARIANT SignaturesHold
INVARIANT BoardAnswersHold
INVARIANT CaptureHolds
INVARIANT GatewayHolds
INVARIANT ServiceHolds
PROPERTY ImplementsBoundedLog
PROPERTY WakingPressOnlyWakes
PROPERTY StopSilences
