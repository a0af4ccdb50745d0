# HeyClawy: formal models

HeyClawy is the firmware of a small voice assistant (ESP32-S3, FreeRTOS, C). It
records speech, has it transcribed, sends the text over a WebSocket to an
*OpenClaw gateway*, shows the streamed answer and speaks it. Several tasks share
global structures without locks; most of what can go wrong here is an
interleaving, a failure half-way or a boundary that a test on the bench hardly
ever meets.

This directory models the firmware's own logic. TLC checks small instances; TLAPS
proves, for every value of the constants, the safety properties of the parts where
tasks meet. Runs named as *violations* reproduce disagreements between the code
and what its comments and documents say of it.

## 1. The system

Threads: the main loop (`app_main`, which also runs `voice_chat_start` to its
end), `knob_task` (priority 5), `tts_play_task` (4), `status_update_task` (2),
`sleep_task` (1), the serial console (3), the WebSocket task of the ESP library,
the wake word task, a short-lived announce task, the LED and the wheel's timer,
two tasks of the vision chip's client, LVGL, the event task and the HTTP server.
They communicate by the event group `g_app_events` (bits WIFI, OC, KNOB, TTS, WEB,
DETAILS, CANCEL, TOUCH, TASKS, CAMERA, WAKE), by global flags (`g_recording`,
`g_tts_pending`, `g_continue_listening`, `g_response_shown_at`, `g_pending_jpeg`,
`g_tts_text`, `s_sleeping`), by the interface state of `ui.c`, and by callbacks.

| component | state | operations | what makes it correct | modules |
|---|---|---|---|---|
| gateway client: connection and chat (`openclaw_client.c`) | `s_oc.state`, `chat_cb`, `ws`, the buffer of fragments | connect, disconnect, chat_send and variants, chat_abort, event handler | one answer per request, its own, or none after an abort; reconnection; whole frames only | `OpenClawClient`, `FragReassembly` |
| gateway client: agent runs | `active_runs[8]`, count, `is_active`/`is_external` | add/remove slot, chat/agent/cron/health events, abort | table consistent; activity shown iff something runs | `ActiveRuns` |
| gateway client: cron notices | ring of sessions | enter, look up, forget | a message is missed only after the ring is overrun | `CronNotices` |
| error log | `s_entries`, `s_head`, `s_count` | add, count, get, to_json | bounded FIFO of the latest entries | `ErrorLog`, `BoundedLog` |
| assistant: main loop, knob, voice chat, callbacks (`main/*.c`) | interface state, event bits, flags, the pending photo | inputs, recording, sending, abort, response, speech | cancels honoured, no chat talked over, always ready again, photo neither lost nor freed twice | `VoiceAssistant`, `Recorder`, `PendingImage` |
| answers (`app_state.c`) | the response buffer | tags, device commands | each command once, in order; nothing of them shown or spoken | `AnswerTags` |
| buttons (`knob_task`) | presses, windows | click, double, long | no phantom gestures | `Buttons` |
| status task | counts, activity light | a round awake or asleep | watchdog bounded, light not stale | `StatusTask` |
| sleep and activity | `s_sleeping`, timers | sleep, wake, deep sleep | asleep means dark; a waking press only wakes | `SleepManager` |
| text to speech, wake word | `playing`, `stop_requested`, `s_paused` | speak, stop, pause, resume, start | a stop silences; nothing is left paused or allocated | `Speech`, `WakeWord` |
| speech to text | buffers of one request | transcribe | freed on every way out | `Recorder` |
| user interface | `s_state`, rows of the tasks screen | buttons, set_state, taps | a tap switches the job its row shows | `VoiceAssistant`, `TaskScreen` |
| Wi-Fi manager | state, retries | event handler | gives up after the last retry, not before | `WifiManager` |
| settings, web server | the struct, NVS; one request | load, save, reset, JSON; each route | what was saved survives a restart; a refused request changes nothing | `Settings`, `WebServer` |
| camera, sscma_client | request list, receive buffer, flasher | requests, replies, capture, flashing | own replies, whole stream, the written image | `VisionClient`, `ReplyParser`, `Xmodem` |
| board support | handles, expander pins, wheel, LED, speaker | bring-up, deep sleep, polling, animation, conversions | pins follow the power state; detents counted once | `Board`, `Encoder`, `DeltaSigma`, `Lights`, `Scales` |
| ed25519_lib | limbs, points, hash context, keys | field, group, scalar, hash, sign, verify | no limb overflows; what is signed is accepted | `FieldElement`, `GroupElement`, `ScalarReduction`, `Sha512`, `Signing` |
| serial console | - | chat, abort, image | - | `OpenClawClient`, `PendingImage` |
| fonts, web page, minimp3, tables | - | - | data and vendored code | none |

## 2. The modules

**`OpenClawClient`** is the client's connection and chat state machine. A step is
one access to `s_oc.state` or `s_oc.chat_cb`: `chat_send` is `SendBegin` (the
guard), `SendRegister` (the callback), `SendAnnounce` (SENDING), `Transmit`,
`SendDone` (THINKING); `chat_abort` is `AbortBegin`, `AbortClear` (`chat_cb = NULL`)
and `AbortDone` (CONNECTED); a chat event is `OnChatDelta` and `StreamChat`, or
`OnChatFinal`, `LoadCallback` (the test), `AnswerChat` (the final call), `CloseChat`
(`chat_cb = NULL`) and `ChatClosed` (CONNECTED). `set_state` stores and later calls
back (`StateCallback`), with other threads in between. `crossed` is the history of
the requests registered while another thread stood between the two stores that end
a chat. The gateway is external: runs start, stream and end; everyone connected hears
of every run.

**`ActiveRuns`** keeps the table of run slots. `handle_message` runs on one
thread, so an event is one action. `AddSlot` and `RemoveSlot` are `add_run_slot`
and `remove_run_slot` with eviction and count; `Health` is the stale check.

**`ErrorLog`** models `error_log_add` statement by statement (`s_head` and
`s_count` are loaded and stored apart) and the export entry by entry.
**`BoundedLog`** is what the header promises; `View` says when, inside
`error_log_add`, an entry is added and when the oldest one is given up.

**`VoiceAssistant`** extends `OpenClawClient` and composes it with the main loop
(`mpc`), the knob task (`kpc`), the TTS task (`tpc`), event bits, flags and the
interface state. The client's actions appear in `ClientNext`, as the effect of
`VoiceSend`, `MainAbort`, `KnobAbort`, or joined with the callback they call
(`OnState`, `OnChatResponse`). `past` records what the user did, for the
properties only.

The other modules stand for one component each and meet the rest through inputs:

- **Tasks that race.** `SleepManager`: `s_sleeping` is stored before the four
  effects of falling asleep, and each effect of falling asleep and of waking is a
  step. `Speech`: `tts_speak` from its claim of the player to its clean-up, the
  announcement, and `tts_stop`. `PendingImage`, `WakeWord`, `Encoder`: plain
  variables of two or more tasks, access by access. `Lights`: the stored animation,
  the callers who store or paint, and a frame of either driver's task: on the strip
  (`StripPaints`, `StripDarkens` for the second half of BLINK, `StripPictures` for the
  modes that ignore the caller's colour, `StripComets`) or on the M5Stick's one LED,
  whose BLINK takes two frames (`PwmPaints`). `VisionClient`: the request list, the
  queue of a request and the image buffer between the main loop, the process task and
  the monitor task. The process task reads the list's length (`Dispatch`), its first
  and next entries (`WalkFirst`, `WalkNext`), compares and sends (`Compare`,
  `Deliver`), for events as for responses, while the request may be unlisted and
  freed. `TaskScreen`: the rows drawn, the copy they were drawn from and LVGL's lock,
  which a tap holds and for which the main loop's show, hide and refresh wait.
- **Protocols and streams.** `FragReassembly`, `ReplyParser` (the receive buffer
  as memory, with what lies beyond `pos`, and a reply for which no memory is left),
  `Xmodem` (sender, line and receiver with lost, damaged and repeated blocks; the
  receiver asks again whatever the sender does), `WifiManager`, `CronNotices`, `WebServer`
  (each route from its length to its answer).
- **Failure half-way.** `Settings` (a save is one field after another, with a cut
  of power in between), `Board` (which parts are up after a failing bring-up; the
  expander's pins over deep sleep), `Recorder` (the memory of a turn).
- **Timing.** `Buttons` counts polls of 50 ms; `StatusTask` rounds; `Recorder` chunks.
- **Algorithms.** `DeltaSigma`, `Scales`, `AnswerTags`, and the signature library:
  `FieldElement` gives each operation of `fe.c` three readings (how large a limb can
  get, the same formula over a field of 13 elements, the limbs themselves),
  `GroupElement` writes the formulas of `ge.c` as sequences of those operations and
  compares the loops with the curve's addition law, `ScalarReduction` has the folds
  of `sc.c` as data, `Sha512` the buffering, `Signing` the calls above them.

`MCDevice` joins them and the log for TLC: a behaviour follows one component, the
`focus`, while the others rest. They do not interact in what they promise, so a
product of their states would add nothing. `MCOpenClawClient`, `MCActiveRuns` and
`MCVoiceAssistant` give the constants of the others.

The theorems are in modules of their own: `ActiveRunsProofs`, `OpenClawClientProofs`
and `VoiceAssistantProofs` (which builds on it); `BoardProofs` (buttons, speaker,
wheel, expander, LED, conversions, hash and signatures); `ServiceProofs` (log, sleep,
status task, Wi-Fi, settings, web server); `ConversationProofs` (speech, wake word,
photo, recording, and what comes from the gateway: notices, jobs, frames, tags);
`LineProofs` (the vision chip's three protocols, and induction on numbers, which
`ConversationProofs` uses too). `DeviceProofs` shows that a behaviour of `MCDevice`
is a behaviour of each component, so that what holds of the component holds there.

### Abstractions

- Requests, runs, images, texts and tags are identities or tokens; wording, labels
  and JSON syntax are left out. Widths are kept where they matter (`Settings`,
  `Scales`, `FieldElement`, the ids of `Xmodem`).
- Constants named `Max...` bound what the environment does: inputs, losses,
  failures, calls. Those that are limits of the code are `MaxSlots`, `Size`,
  `RingSize`, `QueueSize`, `RxSize`, `MaxRetries`, `MaxReconnects` and the limits of
  `StatusTask` and `Recorder`, taken small.
- The pointer and the size of the photo are read as one, and so are the three bytes
  of a colour. An insertion into the vision client's list, a removal, a queue's send and
  the reading of one entry are steps: FreeRTOS's primitives are not looked into. A
  request freed is not reused at its address but by a later request, or holds anything.
- A delta's test and call of `chat_cb` are `OnChatDelta`; the text of a delta is not
  part of the answers.
- `led` is what one pixel shows, at some strength: a picture's colours are one, "own".
- Colours of the LED's callers: one besides dark; the proofs are for any.
- `openclaw_disconnect` waits until the WebSocket task has left its handler, as
  stopping the library's client does. A transmission on a handle that the watchdog
  destroyed at that moment is modelled as a request not delivered.
- `app_on_chat_response` is one step, and so is a state callback.
- A playback lasts as long as it likes; the MP3 decoder is "more or not".
- `TTS_PLAYING` does not occur: no code sets that interface state.
- `MayOutrun` FALSE says that a run does not end before `chat_send` has returned.
  Only VoiceReady assumes it (section 5).
- `outOfTurn` counts the calls and refusals of the chip's boot loader while the sender
  is not waiting for one; its bound is `MaxAsks`.
- A recording's chunk has one level; the arithmetic on its samples (`s*s` in 32
  bits) is left out. Sleep, the tasks screen and notices are modelled apart from
  `VoiceAssistant`, whose state space they would multiply.

## 3. The runs

All passing runs together fire every action. Each property has a mutant (the
definitions whose comment says "Mutant of") that breaks it.

| run | question | instance and why it is enough |
|---|---|---|
| ClientFull | at most one answer per callback; silence after an abort, but for the call already being made; while the connection holds, a callback registered in CONNECTED belongs to no chat of the gateway, unless it was registered between the two stores that end another | 2 tasks, 2 requests, a foreign run, one abort, one loss, failing allocations: every pair of operations overlaps, and a second request meets what the first left |
| ClientLive | authenticated again after any failure; own answer, one in flight, every request answered as long as nothing failed | 1 task, 2 requests, 3 losses, 2 refusals (of the handshake or a request) |
| RunsFull | table distinct, count no less than the slots, oldest evicted; with others' runs alone, activity shown exactly while runs go on | 2 slots, 3 external runs (one of cron), one own, 4 starts: evictions and repeated starts meet the device's own chat |
| RunsClear | finished activity is cleared in the end | one slot; events lost, aborts, premature clearing, cron and own runs |
| Device | the properties of 27 components, listed below | per component, see below |
| VoiceFull | nothing recorded over a chat | click, spin, wake word, 3 in any order, one request: a chat is in progress, aborted or answered when a recording begins |
| VoiceFaults | a cancelled recording is not sent | a loss, a refusal, failing allocations, a foreign run |
| VoiceReady | IDLE again whatever the order of inputs, deltas, ends and speech, as long as a run outlasts its chat_send | 5 kinds of input, 3 in any order, two requests; no aborts and no failures (section 5 says what they do) |

What Device checks, and the bounds that make its cases happen:

| property | says | bounds |
|---|---|---|
| NeverOutOfRange, CalmExportExact, ImplementsBoundedLog | the log's indices stay in range, an undisturbed export is exact, the ring is a bounded FIFO | a ring of 3, 8 additions (it wraps twice), 2 exports, one writer; racing writers are the proofs' |
| AsleepIsDark, WakingPressOnlyWakes | a sleeping device at rest is dark; the press that wakes does nothing else | 3 tasks that wake, 2 presses |
| SpeechLeavesNothing, StopSilences | speech leaves no memory and no muting; a stop ends it | both voices, 2 texts, a stop, one failed allocation |
| NoPhantomGesture | no gesture without its presses | double window 3 polls, hold 4, 3 presses |
| VisionAnswersHold | until something was given up a reply belongs to its request, and the only damage is reading a freed request | 2 requests of 2 kinds, a queue of 1 |
| CleanStreamExact | replies come out once, in order, however the bytes are split, as long as there is memory for each | buffer of 8, 3 replies of 5 bytes: the buffer fills |
| WrittenIsStored | the blocks stored are in order, always; ESP_OK means that the receiver has all of them, unless it asked out of turn | 4 ids, 5 blocks (ids wrap), 2 faults, 2 transfers, asked out of turn once |
| PinsFollowPower | pins are right asleep and after bring-up | 4 boards, 2 faults, 2 naps |
| BoardAnswersHold | conversions in range, LED shows one call, each detent once | all edges of the hue, lengths to 65535; 4 ticks; 2 calls or commands of 2 tasks, 7 modes, both drivers |
| DensityTracksSample | the speaker's bits follow the sample | sample range of 4, 6 bits, 3 samples, 2 players |
| LimbsNeverOverflow, SigningExact | no limb leaves its word; loops, ladder and reduction are right | limbs at their documented limits with true widths; curve over 13 elements |
| SignaturesHold | the hash gets the blocks of the padded message; what was signed is accepted, keys stay a pair | pieces at, before and after a block's end; order 5 |
| CaptureHolds | photo, recording and wake word keep hold of what they share | 3 photos, 3 uses; up to 7 chunks of 3 levels; 3 starts, 3 pauses |
| GatewayHolds | whole frames, cron messages, taps, tags | pieces of 2, frames of 1 to 5; ring of 2, 6 events; 2 jobs, 2 changes, 2 lists, a tap that meets show, hide, refresh and back; answers of up to 3 words, ends of line and tags |
| ServiceHolds | Wi-Fi gives up last, settings survive, requests answered once, status rounds bounded | 3 reconnections, 3 links; 2 edits, a cut, a flash fault; 2 requests, 2 pieces, a failed allocation; limits 4 and 2 rounds |

Each bound is large enough for the case it is there for: a ring that is overrun, an
id that wraps, a second call that meets what the first left.

OwnAnswer, OneInFlight, Answered, CallbackMeansBusy, BusyWhileTracked,
IdleWhenAllEnded carry their conditions (`Unharmed`, `OthersOnly`) in the formula,
as do the parts of CaptureHolds, VisionAnswersHold, BoardAnswersHold and
ServiceHolds that hold only as long as two tasks did not collide; the same run
explores what lies outside them. Section 5 says what happens there.

The violations, with the line of the repository that says otherwise, are under
"findings" in PROJECT.json:

| run | what the code does |
|---|---|
| ClientLateResponse | an aborted request's answer is delivered to the next request |
| ClientAbortInError | aborting in ERROR stores CONNECTED; no reconnection any more |
| SleepAwake | a wake-up that overtakes the rest of falling asleep leaves the device awake and dark |
| VoiceTouch | touches do not cancel recordings |

### Fairness

`OpenClawClient!Fairness`: a task inside a call runs on (FreeRTOS schedules every
ready task here: all block regularly); the WebSocket task reads what has arrived;
the gateway finishes the runs it started. The watchdog polls every 500 ms, so it
acts in a state that lasts. `WsOpened` and `OnChallenge` have strong fairness: the
library reconnects by itself and a handshake takes seconds at most, while the
watchdog waits 30 s; without it the watchdog could cut off every attempt. The
gateway is assumed reachable from time to time; failures are finitely many.
`ActiveRuns!Fairness`: runs end; the gateway reports its health every 30 s, and
once all is quiet the age in it passes 30 s. `AssistantFairness`: each task runs
on, a recording, a transcription and a playback end, a response times out. No
user input is ever fair.

All configurations disable the deadlock check: the budgets of the environment run
out, and a device nobody uses rests.

## 4. The proofs

The theorems hold for any sets of tasks, requests, runs, writers, slots, voices,
wakers and expander inputs, under the named assumptions on the constants. Those say that
sets are disjoint, bounds are numbers and a mark for "nothing" is none of the values; the
ones that say more are named in the table.

| theorem | argument |
|---|---|
| `OpenClawClientProofs!TypeCorrect` | every action keeps each variable in its type; the frame being handled is the head of the queue (`FrameHeld`) |
| `OneAnswer` (AtMostOneAnswer) | `IInv`: a fresh request has neither answer nor callback; a registered one is unanswered unless the WebSocket task stands between the callback and `chat_cb = NULL`; one past the guard of chat_send but not registered belongs to one task and is untouched; an abandoned one is neither fresh nor registered. AtMostOneAnswer alone is not inductive: it does not say that the callback about to be called was never called |
| `AbortIsFinal` (AbandonedStaysSilent) | the same invariant: an answer goes to the request the WebSocket task has loaded (`called`), and one that is loaded when it is abandoned is not counted as abandoned until it has returned |
| `BusyShownAsBusy` (CallbackMeansBusy) | `CalmInv`: while nothing was lost or refused, nobody sends before the handshake is over (`PhaseHolds`), so only a chat's own end or abort leads back to CONNECTED, and both clear the callback first (`CallbackHolds`); who registers in between is in `crossed`. The condition `Unharmed` is needed: after a refused handshake an abort begun in ERROR stores CONNECTED while the reconnection goes on |
| `OwnAnswerGiven` (OwnAnswer), `OneRequestInFlight` (OneInFlight) | for one task that sends, without other clients, aborts and failures (`OneSender`): at most one run is in progress, it is that of the callback (`SoloHolds`), and the chat frames in the queue are its own, the final one last (`QueueHolds`) |
| `ActiveRunsProofs!TypeCorrect`, `RunsDistinct`, `NeverUndercounted` | the invariant joins types, distinct slots and the count; freeing a run's slot removes exactly one active slot because slots are distinct |
| `OldestGoesFirst` (EvictedAreOldest) | a first oldest slot exists by well-foundedness |
| `BusyShown` (BusyWhileTracked) | without aborts and with others' runs alone no callback is registered, so that every start sets the flag, and only an end that counts to zero clears it; zero means no active slot because the count covers them |
| `IdleShown` (IdleWhenAllEnded) | without lost events, as long as no more runs began than there are slots, none is evicted (a pigeonhole argument: an injection of slots into runs), so the count is exact and the active slots are the runs in progress |
| `ServiceProofs!TypeCorrect`, `InRange` | a stale register is compared with the size before it is incremented, so no race of writers pushes the count past the ring |
| `ExportExact` (CalmExportExact), `LogRefined` (ImplementsBoundedLog) | one writer: its registers hold what is stored, the entries behind the head are the last `count` calls except the slot being filled, and an undisturbed export is a prefix of them. `View` then maps each step to an addition (the head is stored), the loss of the oldest (a full ring is written to) or a stutter |
| `VoiceAssistantProofs!AssistantTypesHold` (AssistantTypeOK) | flags and the rest apart, action by action |
| `ClientRefined` | every step of the composition is a step of the client or leaves it alone; so the client's invariants hold in the composition |
| `NothingTalkedOver` (NoChatWhileRecording) | the main loop alone sends and it is also what records; the guard of voice_chat_start finds CONNECTED, where a callback would belong to a request not yet sent (`CalmInv`), which the main loop would be sending, or to one in `crossed`, which the property excepts. Any number of aborts, inputs and foreign runs; nothing lost, refused or failed |
| `CancelIsHonoured` (CancelHonoured) | the CANCEL bit is set with every cancel during a recording, and only the two checks of `voice_chat.c` take it, each ending the chat; `g_recording` holds in the recording loop only |
| `ServiceProofs!SleepTypesHold`, `DarkAsleep` (AsleepIsDark) | `CalmInv`: all earlier wake-ups are over before the device counts as idle, and it is idle before it sleeps; `DarkInv`: the effects come in one order, so a waker that sees the flag undoes what is done or finds it awake |
| `PressOnlyWakes` (WakingPressOnlyWakes) | a press that found the device asleep and is still on its way finds it asleep or freshly awake |
| `ConversationProofs!SpeechTypesHold`, `NothingLeft` (SpeechLeavesNothing) | who paused the engine has its resume before it; what is allocated is what the step reached says (`HeapInv`) |
| `StopIsHeard` (StopSilences) | a doomed voice means that the stop flag is set: only a new claim resets it, and a claim takes the doomed voice's player away (`DoomInv`) |
| `BoardProofs!NoPhantoms`, `DensityTracks` | gestures are charged to presses; the integrator's balance is kept bit by bit |
| `PinsFollow` (PinsFollowPower) | `PinsInv`: during bring-up the expander's pins are what the calls made so far set, part by part and call by call, unless a write was missed; asleep every input but the button is an output. No other part touches the expander |
| `DetentsArrive` (StepsArriveOnce, in BoardAnswersHold) | `WheelInv`: the pins last read are those of the shaft, so that each poll's table entry is the step turned since (half a turn counts as none); until callback and task collide, what is stored, being stored and delivered add up to what was counted |
| `WatchdogActs` (StatusHolds, in ServiceHolds) | `RoundInv`: the time the client is down is charged to the rounds counted, at the rate of a round asleep or awake |
| `GivenUpLast` (GivesUpLast, in ServiceHolds) | `LinkInv`: what waits in the event queue agrees with what the radio does, so that losses in a row and attempts stay equal until the last attempt |
| `OneWord` (OneWordAfterPause, in CaptureHolds) | `EngineInv`: a paused engine that has reported is not about to judge another recording; one that listens has its models and holds its handle, or is being started, so that no second one is |
| `PhotoKept` (ImagesKeptStraight, in CaptureHolds) | `PhotoInv`: as long as no two tasks are at the photo at once, what is allocated is what pointer, size and the step reached say |
| `OneCallShows` (SettledIsOneCall, in BoardAnswersHold) | `LightsInv`: until two calls have met, the stored values are those of the last call (`WholeCalls`) or one task is in the middle of storing them; what a frame has read is still what is stored and nobody else paints, unless it was disturbed (`FrameFollows`); driver by driver and mode by mode it then leaves what the property says (`FrameStep`) |
| `ConversionsKeepRange` (ConversionsInRange, in BoardAnswersHold) | division bounds for every hue, level and length, not only those TLC tries |
| `BlocksHashed` (BlocksWhole, in SignaturesHold) | `ShaInv`: compressed blocks, buffer and the rest of the piece are the message; at the end the padding takes one block or two |
| `SignaturesAccepted` (SignedIsVerified, in SignaturesHold) | the equations of signing, verifying and adding scalars, modulo every group order |
| `SettingsKept` (SettingsSurvive, in ServiceHolds) | `SettingsInv`: no masked value is ever stored (`NeverMasked`); until two editors have met, one task at most edits (`OneEditor`), it holds what it read (`Held`), a save has stored the fields it is past (`SavedSoFar`) and at rest all that flash holds is in force (`AllSaved`) |
| `RequestsKept` (RequestsHold, in ServiceHolds) | `WebInv`: each stage of a route says what is allocated, what has been read and whether it was answered |
| `BlocksStored` (WrittenIsStored, as long as `outOfTurn` is 0) | `XmodemInv`: the sender's own variables fit together whatever comes (`SenderShape`); until the receiver has asked out of turn the sender is in one of three positions against the receiver (`Fresh`: it waits for the next block; one block is out; a block will be sent again that may be stored). The id tells a repeated block from the next because both sides are at most one apart, for every number of ids from 3 on (`IdsAssumption`; the code's byte has 256) |
| `OwnAnswers` (NoStrangers, DamageOnlyWhenLate, in VisionAnswersHold) | `VisionInv`: requests are numbered in the order sent and the replies on their way, the one being dispatched included, are in that order; until one was given up or a reply was sent to a freed request, a queue holds the reply of the request that reads it |
| `RepliesCutOut` (CleanStreamExact), `ParserTyped` | `CleanInv`: until memory ran out, what has been read followed by what waits on the line, NULs squeezed out, is exactly the replies sent and not yet cut out, five bytes each. Squeezing distributes over joining two sequences (`CompactedConcat`, by induction on the length), so a read changes nothing; the first `}` LF and the first CR `{` are those of the next reply. It needs a buffer that a reply fits in (`RxAssumption`); with a smaller one replies are dropped |
| `NoticesKept` (NoticesHold, in GatewayHolds) | `NoticeInv`: the ring is the end of the history of cron sessions |
| `TapsKept` (TapsHold, in GatewayHolds) | `TaskInv`: rows that no later list has overtaken show the client's copy; as long as no lock was missed, the screen's flags agree with the screen shown but while the main loop waits to hide it, and details marked as shown are on the panel |
| `FramesKept` (OnlyWholeFrames, in GatewayHolds) | `FragInv`: the buffer holds exactly what was delivered of the frame being received |
| `TagsKept` (TagsHold, in GatewayHolds) | `AnswerInv`: each known tag was carried out or is still in the buffer, and those carried out stood before what is to be scanned |
| `TurnsKept` (TurnHolds, in CaptureHolds) | `RecorderInv`: the sum of the calibration is that of its chunks (`SumAppend`, by induction), the count of quiet chunks is that at the end of the recording, and memory is what the stage says |
| `DeviceProofs!BoardAnswers`, `ServicesKept`, `VisionAnswers`, `GatewayAnswers`, `CaptureKept`, `SignaturesKept` | what the run Device checks of several components at once, from the theorems above and `DeviceSpec => ` each component's specification |
| `DeviceTypesHold` (DeviceTypeOK) | one lemma per component (`BoardTyped`, `SettingsTyped`, `AnswerTyped`, ...). Some types follow from the component's invariant; others need more: the part of `board_init` and the call in it stay within the lists of the board at hand (`BoardTypesStep`), a number sent to `/api/settings` stays in its field's width because every value that reaches it was converted (`AllFit`), the counts of calls, edits and faults stay within their bounds (`EditCounts`, `EngineMarks`, ...). 24 components have a type; the three calculations are covered by their own properties |

Induction. The library's induction theorems take an operator as a parameter, which
these provers cannot instantiate. `LineProofs!Upwards` says the same of a set (it
holds 0 and with every number the next) and follows from the well-foundedness of `<`;
with it the recursive functions of `Recorder` (`SumOf`) and `ReplyParser`
(`Compacted`) are shown to exist, and to do what is meant, for sequences of any length.

Five models were changed for the proofs. `SilenceAt` in `Recorder` also says that the
chunk itself is quiet: for `SilenceChunks` = 0 the former wording was wrong, since
voice_chat.c looks at its count after a quiet chunk only. `NoticeAssumption` says that
`Nobody` is no session. `Settings` converts every number of `settings_from_json` to the
width of its field, negative ones too (`InWidth`), where the former model let a negative
number through; `NumbersAssumption` says that what is typed or spoken are integers and
that the build's numbers fit their fields. The properties of `FragReassembly` and
`AnswerTags` are stated by positions in what was delivered, so that they speak of streams
of any length.

Only model-checked:

- liveness (Answered, Reconnects, ActivityClears, ReadyAgain): fairness and ENABLED
  are beyond the prover;
- that the blocks stored are in order even if the chip's boot loader asks out of turn
  (WrittenIsStored's first part, once `outOfTurn` is not 0);
- LimbsNeverOverflow and SigningExact: they evaluate the folds of fe.c, ge.c and sc.c
  on concrete limits, points and scalars; a proof would be the evaluation again, and
  the algebra behind it (the addition law is associative) needs a prover for rings.

## 5. Disagreements met while modelling

Besides the four violations that runs reproduce, the models contain these
behaviours; the reader who changes the code finds here what a condition in a
property stands for.

Gateway and activity:

- A foreign run's final text is delivered to a waiting request, and the request's
  own answer is then dropped (openclaw_client.c:380). Hence the condition on
  OwnAnswer.
- A DISCONNECTED stored during a transmission is overwritten by THINKING (1194),
  and the watchdog, which acts in three states only, does nothing: `Reconnects`
  excepts a client left in a chat. The same line leaves THINKING when a run ends
  during the transmission (`MayOutrun`).
- A refused `chat.send` is only logged (730): the client stays in THINKING until the
  user aborts. A `chat_send` that fails on the device leaves the interface in
  SENDING (voice_chat.c:276). Answered and ReadyAgain assume neither.
- A disconnect leaves the callback registered (989): after the reconnection another
  client's events look like the device's own chat.
- `chat_cb = NULL` and the store of CONNECTED are two (473, 1703): a request registered
  in between ends up in CONNECTED with its chat going on, so that the device may record
  over it (`crossed`); between the test of `chat_cb` and its call (472) an abort is too
  late, and the callback is called once more.
- A failed allocation leaves the callback registered in CONNECTED (1172):
  CallbackMeansBusy says that it has not reached the gateway, not that there is
  none.
- A delta that passed the test of `chat_cb` before an abort stores STREAMING after
  it (430); a state callback that precedes an abort may show its state after it
  (app_main.c:133). Hence no aborts in VoiceReady, whose ReadyAgain is about what
  inputs, deltas, ends and speech do in any order, not about these two.
- The end of a cron job clears the activity of a run that goes on (645); the tail
  of the device's own run is shown as external (502); slots stay when the activity
  was cleared by other means (704). Hence `OthersOnly`. An evicted run makes the
  count exceed the slots.
- Tasks share the static buffer of `next_id` (245); ids of responses are ignored.
- `on_openclaw_notify` speaks of cron sessions only. It sets RESPONSE and the TTS bit
  before it copies the text (app_main.c:97-102), so that an old or a torn text may be
  spoken, and does not set `g_response_shown_at`, so that the notice may stay.

Assistant:

- A click in SENDING aborts the chat later (app_tasks.c:98; "(ignored)" in
  docs/wheel-state-machine.md:32); an old CANCEL bit cancels the next recording
  (voice_chat.c:99).
- Stopping the speech may be followed by the follow-up recording (app_tasks.c:425);
  speech whose pending flag was cleared is spoken, since its bit stays (136); the end
  of a speech resumes the wake word engine during a recording (407). A stop for one voice
  is lost when another claims the player and resets the flag (tts_client.c:74).
- `play_feedback_sound` (voice_chat.c:35) loops until all is written. Where the
  speaker's setup failed it never ends: `Recorder` assumes a speaker.
- Speech during the calibration raises the recording's threshold. `s*s` leaves 32
  bits for a large DC offset.
- Commands behind `[LISTEN]` or `[END]` are dropped; minutes to sleep times 60000 may
  overflow.
- The two presses of a double click may each act as a click.
- The status task neither polls nor watches in THINKING, STREAMING and
  AUTHENTICATING; its watchdog may act after about 9 s (comment: 30 s), since one
  count serves rounds of half a second and of two seconds.
- The photo is freed twice or lost when two of its three tasks meet; `imageOverlap`
  marks that.

Services, log and board:

- Two tasks that add to the error log at once may lose an entry, and an addition
  during an export may show one twice (error_log.c:27, 72).
- Wi-Fi: the state stays CONNECTED while it reconnects; FAILED never tries again.
- After a reset the stored defaults hide those of secrets.h for good. The web
  interface may store a volume above 100. PUT answers "ok" though the save failed;
  some routes take the length of a NULL text when memory runs out; the interface's
  THINKING, STREAMING, ERROR are named "unknown".
- The wake word task that finds no memory leaves a handle behind, and every later
  start says "Already running".
- A tap on the tasks screen acts on the list as it is now, and keeps LVGL's lock for
  half a second. `ui_tasks_hide` marks the screen as hidden before it waits for the lock
  (ui_tasks.c:203): if it misses it the screen stays shown, and if it gets it the tap's
  details, marked as shown meanwhile, are there when the screen is shown again. Its mark is
  then cleared but not the panel: a touch on "back" leaves the screen.
- Vision: the process task walks the request list while the main loop takes a request off
  it and frees it (sscma_client_ops.c:386-400, 868-882). Nothing need be given up for it
  to read a request already answered and freed ("freed request read" in `damage`), and a
  walk whose first entry has gone may go round without end. After a reply was sent to a
  freed request nothing is said any more.
- Vision: after a timeout, replies to the same command are off by one; a reply
  without a "code" counts as success; `data[pos] = 0` writes one past a full buffer. Where memory for a reply is missing
  (417-420) the last bytes received are dropped and the front reply is tried again: the
  reply behind it is lost, and with replies of different lengths the rest is misaligned.
- Flasher: the sender never empties its input. A refusal the receiver repeats while the
  sender is between two writes makes it send the next block twice; the second
  acknowledgement is taken for that of the block after it, and a later write returns
  ESP_OK for a block that was lost. Hence the condition `outOfTurn = 0`.
- Flasher: `xmodem_start` returns ESP_OK on most timeouts, retries are never reset,
  and after more refusals than the receiver accepts write and finish do not return.
- The LED: two calls of `board_rgb_animate` that overlap leave a mixture until the next
  call. On the M5Stick, the modes without a colour (the pictures) are dark.
- The wheel: a detent that arrives while `board_knob_get_delta` is between reading and
  clearing is lost (board.c:1331).
- `board_init`: a microphone that fails leaves the speaker unopened; writes to the
  expander are unchecked; the encoder is polled every 20 ms (comment: 5).
- ed25519: `fe_sub` and `fe_add` are given more than their documented ranges (fe.c:73;
  ge.c:270), without harm: what follows stays within what `fe_mul` accepts
  (LimbsNeverOverflow). Only key creation and signing are used.
- `tts_client.c:144` logs a buffer after it was freed; a failed allocation leaks
  what was taken before it (`starved`).

## 6. Not modelled, and what could follow

Not modelled: fonts, the web page, the precomputed points and register tables (data);
minimp3 (a vendored decoder); the SPI flasher, the transports and the OTA update of
sscma_client (bus transactions without state of their own, or without a caller);
drawing; the line editor of the console; `stt_check_health`, `error_log_clear`,
`wake_word_stop`, `camera_deinit` (no state or no caller); the order of
`app_main`'s setup, a straight line.

What could follow: sleep, notices and the photo as part of `VoiceAssistant`, with a
larger machine; `Settings` with two concurrent
savers that must not collide, once the code has a lock.

## 7. Running it

    tlc -workers 2 -config ClientFull.cfg MCOpenClawClient
    tlc -workers 2 -config Device.cfg MCDevice
    tlapm OpenClawClientProofs.tla

The module of each configuration is named in PROJECT.json. The longest run takes
about three minutes and a half.
