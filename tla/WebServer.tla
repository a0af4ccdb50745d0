----------------------------- MODULE WebServer ------------------------------
(***************************************************************************)
(* webserver.c: one request at a time from its first byte to its answer,   *)
(* the memory it takes and what it changes, while the main loop starts and *)
(* stops the server.                                                       *)
(***************************************************************************)
EXTENDS Naturals, Sequences, FiniteSets

CONSTANTS MaxRequested, MaxPieces, MaxToggles, MaxMemoryFaults        \* bounds

ASSUME WebAssumption ==
  /\ MaxRequested \in Nat /\ MaxPieces \in Nat \ {0}
  /\ MaxToggles \in Nat /\ MaxMemoryFaults \in Nat

\* The routes, by what their handlers do with a body and an answer.
Bodied == {"PUT settings", "POST openclaw/test", "POST tasks/toggle"}
Lenient == {"POST stt/health"}                    \* takes what it gets
OnePiece == {"POST led/demo"}                     \* a single recv into a local buffer
Reports == {"GET status", "GET tasks"}            \* a JSON answer that is built, unchecked
Checked == {"GET settings", "GET errors"}         \* one that is checked for NULL
Plain == {"GET root", "POST settings/reset", "POST reboot", "OPTIONS"}
Routes == Bodied \cup Lenient \cup OnePiece \cup Reports \cup Checked \cup Plain

\* What a body is worth once it is all there: not JSON, JSON without what the route asks
\* for, or good.
Bodies == {"garbage", "lacking", "good"}

VARIABLES
  server,          \* s_server: "stopped", "running"
  route, body, length, received,     \* the request: length in pieces, 0 for none
  webStage,           \* where its handler is
  webHeap,            \* what the handler has allocated
  answers,         \* history: responses sent to this request
  effects,         \* history: what this request changed
  shownServer,     \* the status line on the screen
  served, toggles, memoryFaults

webVars == <<server, route, body, length, received, webStage, webHeap, answers, effects,
             shownServer, served, toggles, memoryFaults>>

WebTypeOK ==
  /\ server \in {"stopped", "running"} /\ route \in Routes \cup {"none"} /\ body \in Bodies
  /\ length \in 0..(MaxPieces + 1) /\ received \in 0..MaxPieces
  /\ webStage \in {"idle", "start", "recv", "parse", "apply", "build", "answer", "crashed"}
  /\ webHeap \subseteq {"buf", "json", "str"} /\ answers \subseteq {"ok", "not_ok", "400", "500"}
  /\ shownServer \in BOOLEAN

WebInit ==
  /\ server = "stopped" /\ route = "none" /\ body = "good" /\ length = 0 /\ received = 0
  /\ webStage = "idle" /\ webHeap = {} /\ answers = {} /\ effects = <<>> /\ shownServer = FALSE
  /\ served = 0 /\ toggles = 0 /\ memoryFaults = 0

AtStage(s) == webStage = s
TooLong == length > MaxPieces
OutOfMemory == memoryFaults < MaxMemoryFaults /\ memoryFaults' = memoryFaults + 1
ToStage(s) == webStage' = s
RequestVars == <<route, body, length>>
Still == UNCHANGED <<server, RequestVars, shownServer, served, toggles>>
Reply(r) == answers' = answers \cup {r} /\ ToStage("idle")

-----------------------------------------------------------------------------
\* handle_webserver_toggle; httpd_stop waits for the handler.
Toggle(ok) ==
  /\ toggles < MaxToggles /\ toggles' = toggles + 1 /\ AtStage("idle")
  /\ server' = IF server = "running" THEN "stopped" ELSE IF ok THEN "running" ELSE server
  /\ shownServer' = IF server' = server THEN shownServer ELSE server' = "running"
  /\ UNCHANGED <<RequestVars, received, webStage, webHeap, answers, effects, served,
                 memoryFaults>>

Arrives(r, b, n) ==
  /\ server = "running" /\ AtStage("idle") /\ served < MaxRequested /\ served' = served + 1
  /\ route' = r /\ body' = b /\ length' = n /\ received' = 0
  /\ r \notin Bodied \cup Lenient \cup OnePiece => b = "good" /\ n = 0
  /\ answers' = {} /\ effects' = <<>> /\ ToStage("start")
  /\ UNCHANGED <<server, webHeap, shownServer, toggles, memoryFaults>>

\* The length is checked and the buffer taken.
RefuseLength ==
  /\ AtStage("start") /\ route \in Bodied /\ (length = 0 \/ TooLong) /\ Reply("400")
  /\ Still /\ UNCHANGED <<received, webHeap, effects, memoryFaults>>
AllocateBuffer ==
  /\ AtStage("start") /\ length > 0 /\ ~TooLong /\ route \in Bodied \cup Lenient
  /\ \/ webHeap' = webHeap \cup {"buf"} /\ ToStage("recv") /\ UNCHANGED <<answers, memoryFaults>>
     \/ /\ OutOfMemory /\ UNCHANGED webHeap
        /\ IF route \in Bodied THEN Reply("500") ELSE ToStage("build") /\ UNCHANGED answers
  /\ Still /\ UNCHANGED <<received, effects>>
NoBuffer ==
  /\ AtStage("start")
  /\ \/ route \in Lenient /\ (length = 0 \/ TooLong) /\ ToStage("build")
     \/ route \in Reports \cup Checked /\ ToStage("build")
     \/ route \in OnePiece /\ ToStage("recv")
     \/ route \in Plain /\ ToStage("apply")
  /\ Still /\ UNCHANGED <<received, webHeap, answers, effects, memoryFaults>>

\* httpd_req_recv gives a piece, or fails: the browser went away or was too slow.
ReceivePiece ==
  /\ AtStage("recv") /\ received < length /\ ~(TooLong /\ received = MaxPieces)
  /\ received' = received + 1
  /\ ToStage(IF received' = length \/ route \in OnePiece THEN "parse" ELSE "recv")
  /\ Still /\ UNCHANGED <<webHeap, answers, effects, memoryFaults>>
ReceiveFails ==
  /\ AtStage("recv")
  /\ CASE route \in Bodied -> webHeap' = webHeap \ {"buf"} /\ Reply("500")
       [] route \in Lenient -> UNCHANGED <<webHeap, answers>> /\ ToStage("parse")
       [] OTHER -> UNCHANGED webHeap /\ Reply("not_ok")
  /\ Still /\ UNCHANGED <<received, effects, memoryFaults>>

\* Mutant: what came of the body is parsed as if it were all of it.
WorthOfWhole == body

\* cJSON_ParseWithLength of what came: half a body is no JSON.
Worth == IF received = length THEN body ELSE "garbage"

\* The buffer is freed as soon as it is parsed; settings and the test take anything JSON.
ParseBody ==
  /\ AtStage("parse")
  /\ webHeap' = (webHeap \ {"buf"}) \cup
       (IF Worth # "garbage" /\ route # "PUT settings" THEN {"json"} ELSE {})
  /\ CASE route \in Lenient -> ToStage("build") /\ UNCHANGED answers
       [] route \in Bodied /\ Worth = "garbage" -> Reply("400")
       [] route \in OnePiece /\ Worth = "garbage" -> Reply("not_ok")
       [] OTHER -> ToStage("apply") /\ UNCHANGED answers
  /\ Still /\ UNCHANGED <<received, effects, memoryFaults>>

Applied ==
  CASE route = "PUT settings" -> <<"settings", "saved", "volume", "brightness">>
    [] route = "POST tasks/toggle" /\ body = "good" -> <<"toggled">>
    [] route = "POST led/demo" /\ body = "good" -> <<"animated">>
    [] route = "POST settings/reset" -> <<"defaults", "saved">>
    [] route = "POST reboot" -> <<"restart">>
    [] OTHER -> <<>>
\* The effect and the answer; a toggle without a connection and a demo of an unknown mode
\* answer that they failed; the LED goes dark where the settings say so.
ApplyRequest ==
  /\ AtStage("apply") /\ webHeap' = webHeap \ {"json"}
  /\ CASE route \in OnePiece \cup {"POST tasks/toggle"} /\ body = "lacking" ->
            effects' = <<>> /\ Reply(IF route \in OnePiece THEN "not_ok" ELSE "400")
       [] route = "POST openclaw/test" ->
            effects' = <<>> /\ ToStage("build") /\ UNCHANGED answers
       [] route = "POST tasks/toggle" /\ body = "good" ->
            \/ effects' = Applied /\ Reply("ok")
            \/ effects' = <<>> /\ Reply("not_ok")
       [] route = "PUT settings" ->
            \E off \in BOOLEAN : effects' = Applied \o (IF off THEN <<"led_off">> ELSE <<>>)
                                 /\ Reply("ok")
       [] OTHER -> effects' = Applied /\ Reply("ok")
  /\ Still /\ UNCHANGED <<received, memoryFaults>>

\* The answer is printed; without memory, settings and errors say so and the others read
\* the length of NULL.
BuildAnswer ==
  /\ AtStage("build")
  /\ \/ webHeap' = (webHeap \ {"json"}) \cup {"str"} /\ ToStage("answer")
        /\ UNCHANGED <<answers, memoryFaults>>
     \/ /\ OutOfMemory /\ webHeap' = webHeap \ {"json"}
        /\ IF route \in Checked THEN Reply("500") ELSE ToStage("crashed") /\ UNCHANGED answers
  /\ Still /\ UNCHANGED <<received, effects>>
SendAnswer ==
  /\ AtStage("answer") /\ webHeap' = webHeap \ {"str"}
  /\ \E ok \in (IF route \in Lenient \cup {"POST openclaw/test"} THEN BOOLEAN ELSE {TRUE}) :
       Reply(IF ok THEN "ok" ELSE "not_ok")
  /\ Still /\ UNCHANGED <<received, effects, memoryFaults>>

WebNext ==
  \/ \E ok \in BOOLEAN : Toggle(ok)
  \/ \E r \in Routes, b \in Bodies, n \in 0..(MaxPieces + 1) : Arrives(r, b, n)
  \/ RefuseLength \/ AllocateBuffer \/ NoBuffer \/ ReceivePiece \/ ReceiveFails
  \/ ParseBody \/ ApplyRequest \/ BuildAnswer \/ SendAnswer
WebSpec == WebInit /\ [][WebNext]_webVars

-----------------------------------------------------------------------------
\* webserver.c:142, :208, :368, :441: a request that carries a body changes something only
\* when all of it came and was good; a request has one answer and no more, and leaves no
\* memory behind however it ended; a "no" changed nothing.
RequestsHold ==
  /\ Cardinality(answers) <= 1
  /\ (webStage = "idle" /\ route # "none") => Cardinality(answers) = 1 /\ webHeap = {}
  /\ (effects # <<>> /\ route \in Bodied \cup OnePiece) => received = length /\ body # "garbage"
  /\ answers # {} /\ answers # {"ok"} => effects = <<>>
  /\ shownServer = (server = "running")
=============================================================================
