---------------------------- MODULE VisionClient ----------------------------
(***************************************************************************)
(* The vision chip's AT client (sscma_client_ops.c) and the camera on top  *)
(* of it (components/camera/camera.c).                                     *)
(*                                                                         *)
(* One task, the main loop, makes requests; the process task dispatches    *)
(* what the chip sends, by name to the request that waits, or to the queue *)
(* of the monitor task, whose callback stores an image and wakes the main  *)
(* loop.  No lock protects the request list, a request's queue or the      *)
(* image: whoever gives up leaves the other to find out, and the process   *)
(* task may walk the list while a request is taken off it and freed.       *)
(*                                                                         *)
(* A reply is its type, the command it names and the number of the request *)
(* it answers, which the code does not have; a buffer is the number of the *)
(* request its image came from.                                            *)
(***************************************************************************)
EXTENDS Naturals, Sequences

CONSTANTS
  Functions,       \* calls of the client's interface, "sample" included
  MaxRequests,     \* bound: requests
  QueueSize        \* event_queue_size

ASSUME FunctionsAssumption == Functions \subseteq {"info", "model", "sample", "set_info"}
ASSUME VisionAssumption == MaxRequests \in Nat /\ QueueSize \in Nat \ {0}

VARIABLES
  visionCall,      \* the function in progress and its next command, or NoCall
  request,         \* the request in request_list, or NoRequest
  requestPc,       \* where sscma_client_request is
  chipReply,       \* what that request's queue holds
  numbered,        \* requests so far
  givenUp,         \* history: requests that returned ESP_ERR_TIMEOUT
  chip,            \* commands the chip has not answered yet
  shots,           \* images it has still to send
  chipWire,        \* replies on their way
  dispatch,        \* the process task: the reply it holds, where its walk of request_list is,
                   \* the walk's first entry, and the entry it compares or sends to
  queue,           \* reply_queue
  callback,        \* sscma_on_event: the image it stores and how far it got
  capture,         \* where camera_capture_jpeg is, and for which request
  image,           \* s_captured_jpeg
  freed,           \* image buffers freed
  captureSem,      \* s_capture_sem
  handed,          \* what the last capture returned
  answered,        \* history: the last reply a request returned with
  damage           \* history: kinds of memory errors so far

requestVars == <<visionCall, request, requestPc, chipReply, numbered, givenUp, answered>>
chipVars == <<chip, shots, chipWire>>
cameraVars == <<capture, image, freed, captureSem, handed>>
visionVars == <<requestVars, chipVars, dispatch, queue, callback, cameraVars, damage>>

Script == [info |-> <<"ID?", "NAME?", "VER?">>, model |-> <<"MODEL?", "INFO?">>,
           sample |-> <<"SAMPLE">>, set_info |-> <<"INFO">>]
Commands == {"ID?", "NAME?", "VER?", "MODEL?", "INFO?", "INFO", "SAMPLE"}

\* strnstr of one command's name in the text about another.
Mentions(text, name) == text = name \/ (text = "INFO?" /\ name = "INFO")

Numbers == 1..MaxRequests
NoCall == [fn |-> "none", step |-> 0]
NoRequest == [cmd |-> "none", n |-> 0]
NoReply == [type |-> "none", cmd |-> "none", n |-> 0]
RequestIds == [cmd : Commands, n : Numbers]
Replies == [type : {"response", "log", "event"}, cmd : Commands, n : Numbers]
At(pc, n) == [pc |-> pc, n |-> n]
Resting == At("rest", 0)
Undispatched == [reply |-> NoReply, at |-> "rest", first |-> 0, to |-> 0]

VisionTypeOK ==
  /\ visionCall \in [fn : Functions, step : 1..3] \cup {NoCall}
  /\ request \in RequestIds \cup {NoRequest}
  /\ requestPc \in {"rest", "write", "wait", "unlist", "delete"}
  /\ chipReply \in Replies \cup {NoReply}
  /\ numbered \in 0..MaxRequests /\ givenUp \subseteq RequestIds
  /\ chip \in Seq(RequestIds) /\ shots \subseteq Numbers
  /\ chipWire \in Seq(Replies)
  /\ dispatch \in [reply : Replies, at : {"first", "next", "compare", "send"},
                   first : 0..MaxRequests, to : 0..MaxRequests] \cup {Undispatched}
  /\ queue \in Seq(Replies) /\ Len(queue) <= QueueSize
  /\ callback \in [pc : {"free", "store", "give"}, n : Numbers] \cup {Resting}
  /\ capture \in [pc : {"clear", "drain", "sample", "wait", "check", "take", "forget"},
                  n : 0..MaxRequests] \cup {Resting}
  /\ image \in 0..MaxRequests /\ freed \subseteq Numbers
  /\ captureSem \in BOOLEAN
  /\ handed \in [for : 0..MaxRequests, from : 0..MaxRequests]
  /\ answered \in [asked : RequestIds \cup {NoRequest}, got : Replies \cup {NoReply}]
  /\ damage \subseteq {"freed request read", "stray send", "reply leaked", "double free",
                       "freed image handed", "handed image freed", "image leaked"}

VisionInit ==
  /\ visionCall = NoCall /\ request = NoRequest /\ requestPc = "rest"
  /\ chipReply = NoReply /\ numbered = 0 /\ givenUp = {}
  /\ chip = <<>> /\ shots = {} /\ chipWire = <<>>
  /\ dispatch = Undispatched /\ queue = <<>>
  /\ callback = Resting /\ capture = Resting
  /\ image = 0 /\ freed = {} /\ captureSem = FALSE
  /\ handed = [for |-> 0, from |-> 0]
  /\ answered = [asked |-> NoRequest, got |-> NoReply]
  /\ damage = {}

-----------------------------------------------------------------------------
(* sscma_client_request, between any two of its calls.                     *)

CallBegin(fn) ==
  /\ visionCall = NoCall
  /\ fn = "sample" <=> capture.pc = "sample"
  /\ fn # "sample" => capture = Resting
  /\ visionCall' = [fn |-> fn, step |-> 1]
  /\ UNCHANGED <<request, requestPc, chipReply, numbered, givenUp, answered, chipVars,
                 dispatch, queue, callback, cameraVars, damage>>

RequestBegin ==
  /\ visionCall # NoCall /\ requestPc = "rest" /\ numbered < MaxRequests
  /\ numbered' = numbered + 1
  /\ request' = [cmd |-> Script[visionCall.fn][visionCall.step], n |-> numbered + 1]
  /\ requestPc' = "write" /\ chipReply' = NoReply
  /\ UNCHANGED <<visionCall, givenUp, answered, chipVars, dispatch, queue, callback,
                 cameraVars, damage>>

\* A failed write leaves at once.
RequestWrite ==
  /\ requestPc = "write"
  /\ \/ requestPc' = "wait" /\ chip' = Append(chip, request)
     \/ requestPc' = "unlist" /\ UNCHANGED chip
  /\ UNCHANGED <<visionCall, request, chipReply, numbered, givenUp, answered, shots,
                 chipWire, dispatch, queue, callback, cameraVars, damage>>

RequestAnswered ==
  /\ requestPc = "wait" /\ chipReply # NoReply
  /\ answered' = [asked |-> request, got |-> chipReply]
  /\ chipReply' = NoReply /\ requestPc' = "unlist"
  /\ UNCHANGED <<visionCall, request, numbered, givenUp, chipVars, dispatch, queue,
                 callback, cameraVars, damage>>

RequestTimeout ==
  /\ requestPc = "wait" /\ chipReply = NoReply
  /\ givenUp' = givenUp \cup {request}
  /\ requestPc' = "unlist"
  /\ UNCHANGED <<visionCall, request, chipReply, numbered, answered, chipVars, dispatch,
                 queue, callback, cameraVars, damage>>

RequestUnlist ==
  /\ requestPc = "unlist"
  /\ requestPc' = "delete"
  /\ UNCHANGED <<visionCall, request, chipReply, numbered, givenUp, answered, chipVars,
                 dispatch, queue, callback, cameraVars, damage>>

\* The queue is deleted with whatever it holds.  A function goes on to its
\* next command unless this one failed.
RequestDelete ==
  /\ requestPc = "delete"
  /\ requestPc' = "rest" /\ request' = NoRequest /\ chipReply' = NoReply
  /\ damage' = damage \cup (IF chipReply = NoReply THEN {} ELSE {"reply leaked"})
  /\ LET ok == answered.asked = request
         refused == ok /\ answered.got.type = "log"
         last == visionCall.step = Len(Script[visionCall.fn])
     IN  /\ visionCall' = IF ok /\ ~last THEN [visionCall EXCEPT !.step = @ + 1] ELSE NoCall
         /\ capture' =
              IF visionCall.fn # "sample" THEN capture
              ELSE IF ok /\ ~refused THEN At("wait", request.n) ELSE Resting
  /\ UNCHANGED <<numbered, givenUp, answered, chipVars, dispatch, queue, callback,
                 image, freed, captureSem, handed>>

-----------------------------------------------------------------------------
(* The chip answers in order or not at all, and follows an accepted SAMPLE *)
(* with an image in its own time.                                          *)

ChipAnswers ==
  /\ chip # <<>> /\ chip' = Tail(chip)
  /\ LET asked == Head(chip)
         Say(type) == Append(chipWire, [type |-> type, cmd |-> asked.cmd, n |-> asked.n])
     IN  \/ /\ chipWire' = Say("response")
            /\ shots' = IF asked.cmd = "SAMPLE" THEN shots \cup {asked.n} ELSE shots
         \/ chipWire' = Say("log") /\ UNCHANGED shots
         \/ UNCHANGED <<chipWire, shots>>
  /\ UNCHANGED <<requestVars, dispatch, queue, callback, cameraVars, damage>>

ChipShoots ==
  /\ \E n \in shots :
       /\ shots' = shots \ {n}
       /\ chipWire' = Append(chipWire, [type |-> "event", cmd |-> "SAMPLE", n |-> n])
  /\ UNCHANGED <<requestVars, chip, dispatch, queue, callback, cameraVars, damage>>

-----------------------------------------------------------------------------
(* sscma_client_process walks the list for the request a reply is for ...  *)

Listed == requestPc \in {"write", "wait", "unlist"}
Alive(n) == requestPc # "rest" /\ request.n = n

\* Mutant: whoever waits gets the reply.
ForAny(r) == r.type # "event"

\* An event is for a waiting AT+BREAK, which nobody sends.
For(r) ==
  CASE r.type = "response" -> request.cmd = r.cmd
    [] r.type = "log" -> Mentions(r.cmd, request.cmd)
    [] OTHER -> FALSE

\* A response nobody waits for is cleared, as on_response is not registered;
\* a log or an event goes to the monitor if its queue has room.
NotFound(r) ==
  queue' = IF r.type # "response" /\ Len(queue) < QueueSize THEN Append(queue, r) ELSE queue

Dispatch ==
  /\ chipWire # <<>> /\ dispatch = Undispatched
  /\ chipWire' = Tail(chipWire)
  /\ IF Listed
     THEN dispatch' = [Undispatched EXCEPT !.reply = Head(chipWire), !.at = "first"]
          /\ UNCHANGED queue
     ELSE NotFound(Head(chipWire)) /\ UNCHANGED dispatch
  /\ UNCHANGED <<requestVars, chip, shots, callback, cameraVars, damage>>

\* listGET_OWNER_OF_NEXT_ENTRY of a list of one, or of a list emptied since its length was
\* read: then what lies behind the list's end is taken for a request, 0.
Entry == IF Listed THEN request.n ELSE 0
WalkFirst ==
  /\ dispatch.at = "first"
  /\ dispatch' = [dispatch EXCEPT !.at = "next", !.first = Entry]
  /\ UNCHANGED <<requestVars, chipVars, queue, callback, cameraVars, damage>>
WalkNext ==
  /\ dispatch.at = "next"
  /\ dispatch' = [dispatch EXCEPT !.at = "compare", !.to = Entry]
  /\ UNCHANGED <<requestVars, chipVars, queue, callback, cameraVars, damage>>

\* The entry's command is compared; in memory that was freed anything may be found.  The
\* walk ends where it began, or at a later request that lies where the first one lay.
Compare ==
  /\ dispatch.at = "compare"
  /\ damage' = damage \cup (IF Alive(dispatch.to) THEN {} ELSE {"freed request read"})
  /\ \E found \in (IF Alive(dispatch.to) THEN {For(dispatch.reply)} ELSE BOOLEAN) :
       \/ /\ found /\ UNCHANGED queue
          /\ dispatch' = IF dispatch.reply.type = "event" THEN Undispatched
                         ELSE [dispatch EXCEPT !.at = "send"]
       \/ /\ ~found /\ (dispatch.to = dispatch.first \/ 0 \notin {dispatch.to, dispatch.first})
          /\ NotFound(dispatch.reply) /\ dispatch' = Undispatched
       \/ /\ ~found /\ dispatch.to # dispatch.first
          /\ dispatch' = [dispatch EXCEPT !.at = "next"] /\ UNCHANGED queue
  /\ UNCHANGED <<requestVars, chipVars, callback, cameraVars>>

\* ... and sends it to that request's queue of one, which may be full, or freed: the memory
\* may be the queue of the next request by now.
Deliver ==
  /\ dispatch.at = "send"
  /\ \/ /\ chipReply' = IF chipReply = NoReply THEN dispatch.reply ELSE chipReply
        /\ Alive(dispatch.to) /\ UNCHANGED damage
     \/ /\ ~Alive(dispatch.to) /\ damage' = damage \cup {"stray send"}
        /\ chipReply' \in {chipReply} \cup
             (IF requestPc # "rest" /\ chipReply = NoReply THEN {dispatch.reply} ELSE {})
  /\ dispatch' = Undispatched
  /\ UNCHANGED <<visionCall, request, requestPc, numbered, givenUp, answered, chipVars,
                 queue, callback, cameraVars>>

-----------------------------------------------------------------------------
(* sscma_client_monitor runs the callback: the previous image is freed, the *)
(* new one stored, the semaphore given.                                    *)

MonitorTakes ==
  /\ queue # <<>> /\ callback = Resting
  /\ queue' = Tail(queue)
  /\ callback' = IF Head(queue).type = "event" THEN At("free", Head(queue).n) ELSE Resting
  /\ UNCHANGED <<requestVars, chipVars, dispatch, cameraVars, damage>>

Free(buffer) ==
  /\ freed' = IF buffer = 0 THEN freed ELSE freed \cup {buffer}
  /\ damage' = damage \cup (IF buffer \in freed THEN {"double free"} ELSE {})
                      \cup (IF buffer # 0 /\ buffer = handed.from
                            THEN {"handed image freed"} ELSE {})

OnEvent ==
  /\ \/ /\ callback.pc = "free" /\ Free(image)
        /\ callback' = At("store", callback.n)
        /\ UNCHANGED <<image, captureSem>>
     \/ /\ callback.pc = "store" /\ image' \in {callback.n, 0}
        /\ callback' = At("give", callback.n)
        /\ UNCHANGED <<freed, captureSem, damage>>
     \/ /\ callback.pc = "give" /\ captureSem' = TRUE
        /\ callback' = Resting
        /\ UNCHANGED <<image, freed, damage>>
  /\ UNCHANGED <<requestVars, chipVars, dispatch, queue, capture, handed>>

-----------------------------------------------------------------------------
(* camera_capture_jpeg.                                                    *)

CaptureBegin ==
  /\ capture = Resting /\ visionCall = NoCall
  /\ capture' = At(IF image # 0 THEN "clear" ELSE "drain", 0)
  /\ Free(image)
  /\ UNCHANGED <<requestVars, chipVars, dispatch, queue, callback, image, captureSem,
                 handed>>

CaptureClear ==
  /\ capture.pc = "clear"
  /\ image' = 0 /\ capture' = At("drain", 0)
  /\ UNCHANGED <<requestVars, chipVars, dispatch, queue, callback, freed, captureSem,
                 handed, damage>>

CaptureDrain ==
  /\ capture.pc = "drain"
  /\ captureSem' = FALSE /\ capture' = At("sample", 0)
  /\ UNCHANGED <<requestVars, chipVars, dispatch, queue, callback, image, freed,
                 handed, damage>>

\* Five seconds for the image, from the answer to SAMPLE on.
CaptureWaits ==
  /\ capture.pc = "wait"
  /\ \/ captureSem /\ captureSem' = FALSE /\ capture' = At("check", capture.n)
        /\ UNCHANGED givenUp
     \/ /\ ~captureSem /\ capture' = Resting
        /\ givenUp' = givenUp \cup {[cmd |-> "SAMPLE", n |-> capture.n]}
        /\ UNCHANGED captureSem
  /\ UNCHANGED <<visionCall, request, requestPc, chipReply, numbered, answered, chipVars,
                 dispatch, queue, callback, image, freed, handed, damage>>

CaptureChecks ==
  /\ capture.pc = "check"
  /\ capture' = IF image = 0 THEN Resting ELSE At("take", capture.n)
  /\ UNCHANGED <<requestVars, chipVars, dispatch, queue, callback, image, freed,
                 captureSem, handed, damage>>

CaptureTakes ==
  /\ capture.pc = "take"
  /\ handed' = [for |-> capture.n, from |-> image]
  /\ capture' = At("forget", capture.n)
  /\ UNCHANGED <<requestVars, chipVars, dispatch, queue, callback, image, freed,
                 captureSem, damage>>

\* Mutant: the image stays with the camera, too.
CaptureKeeps ==
  /\ capture.pc = "forget"
  /\ damage' = damage
       \cup (IF handed.from \in freed THEN {"freed image handed"} ELSE {})
       \cup (IF image # 0 /\ image # handed.from THEN {"image leaked"} ELSE {})
  /\ capture' = Resting
  /\ UNCHANGED <<requestVars, chipVars, dispatch, queue, callback, image, freed, captureSem,
                 handed>>

CaptureForgets ==
  /\ capture.pc = "forget"
  /\ damage' = damage
       \cup (IF handed.from \in freed THEN {"freed image handed"} ELSE {})
       \cup (IF image # 0 /\ image # handed.from THEN {"image leaked"} ELSE {})
  /\ image' = 0 /\ capture' = Resting
  /\ UNCHANGED <<requestVars, chipVars, dispatch, queue, callback, freed, captureSem,
                 handed>>

VisionNext ==
  \/ \E fn \in Functions : CallBegin(fn)
  \/ RequestBegin \/ RequestWrite \/ RequestAnswered \/ RequestTimeout
  \/ RequestUnlist \/ RequestDelete
  \/ ChipAnswers \/ ChipShoots \/ MonitorTakes \/ OnEvent
  \/ Dispatch \/ WalkFirst \/ WalkNext \/ Compare \/ Deliver
  \/ CaptureBegin \/ CaptureClear \/ CaptureDrain \/ CaptureWaits
  \/ CaptureChecks \/ CaptureTakes \/ CaptureForgets

VisionSpec == VisionInit /\ [][VisionNext]_visionVars

-----------------------------------------------------------------------------
(* Properties.                                                             *)

\* sscma_client_ops.c:300, :350: a request returns with the reply to it, and
\* a capture with its own image, unless a request whose text names the same
\* command was given up before: from then on each may get the one before.
\* After a reply was sent to a queue already freed nothing is said.
NoStrangers ==
  "stray send" \notin damage =>
    /\ answered.asked # NoRequest => Mentions(answered.got.cmd, answered.asked.cmd)
    /\ answered.got.n # answered.asked.n =>
         \E r \in givenUp : Mentions(r.cmd, answered.asked.cmd) /\ r.n <= answered.got.n
    /\ handed.from \notin {0, handed.for} =>
         \E r \in givenUp : r.cmd = "SAMPLE" /\ r.n <= handed.from

\* sscma_client_ops.c:386, :868: no lock, and the walk that an event takes of the list may
\* read a request that was answered and freed; but as long as nothing was given up no reply
\* is sent to a freed queue or lost in one, no image is freed twice, handed out freed, or lost.
DamageOnlyWhenLate == givenUp = {} => damage \subseteq {"freed request read"}
=============================================================================
