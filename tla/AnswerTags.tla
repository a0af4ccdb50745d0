----------------------------- MODULE AnswerTags -----------------------------
(***************************************************************************)
(* app_on_chat_response and parse_device_commands: the tags in an answer,  *)
(* what they do, and what is left to show and to speak. An answer is a     *)
(* sequence of words, line ends and tags.                                  *)
(***************************************************************************)
EXTENDS Naturals, Sequences

CONSTANTS
  AnswerLengths,   \* bound: tokens of an answer
  HasScreen,       \* BOARD_HAS_DISPLAY
  LongLine         \* tokens that no longer fit in the short label

ASSUME AnswerAssumption ==
  AnswerLengths \subseteq Nat /\ HasScreen \in BOOLEAN /\ LongLine \in Nat \ {0}

\* [DEVICE:...] tags by what they do; one whose text is too long is passed over, an unknown
\* one is only taken out, and one that is cut off ends the scan.
Known == {"volume=150", "rgb=off", "auto_read=off", "webserver=on", "reboot"}
Device == Known \cup {"unknown", "overlong"}
Tokens == Device \cup {"word", "nl", "[LISTEN]", "[END]", "cut"}
Does(tag) ==
  CASE tag = "volume=150" -> <<"volume 100", "save">> [] tag = "rgb=off" -> <<"led off", "save">>
    [] tag = "auto_read=off" -> <<"auto_read off", "save">>
    [] tag = "webserver=on" -> <<"toggle web">> [] OTHER -> <<>>

VARIABLES
  answer,          \* the text as it came
  respBuf,         \* resp_buf, as the places of the answer whose tokens it still has
  scanFrom,        \* pos, as tokens behind it
  answerStep,      \* where the function is
  listen,          \* g_continue_listening
  done,            \* history: the tags carried out, where they stood and what they did
  commandCount,    \* dev_cmds
  shortText, longText, spoken     \* what the screen was given, as places; TTS_PLAY_BIT

answerVars == <<answer, respBuf, scanFrom, answerStep, listen, done, commandCount, shortText,
                longText, spoken>>

Positions == 1..Len(answer)

AnswerTypeOK ==
  /\ answerStep \in {"tags", "commands", "split", "shown", "restarted"}
  /\ respBuf \in Seq(Positions) /\ shortText \in Seq(Positions) /\ longText \in Seq(Positions)
  /\ scanFrom \in 0..Len(respBuf) /\ commandCount \in Nat
  /\ listen \in BOOLEAN /\ spoken \in BOOLEAN

\* Behind a cut tag comes no other: the end of the text did the cutting.
AnswerInit ==
  /\ answer \in UNION {[1..n -> Tokens] : n \in AnswerLengths}
  /\ \A i, j \in Positions : answer[i] = "cut" /\ i < j => answer[j] \notin Device \cup {"cut"}
  /\ respBuf = [i \in Positions |-> i] /\ scanFrom = 0 /\ answerStep = "tags" /\ listen = FALSE
  /\ done = <<>> /\ commandCount = 0 /\ shortText = <<>> /\ longText = <<>> /\ spoken = FALSE

Scan == <<respBuf, scanFrom, done, commandCount>>
Token(i) == answer[respBuf[i]]
Lowest(S) == CHOOSE i \in S : \A j \in S : i <= j
Highest(S) == CHOOSE i \in S : \A j \in S : j <= i

\* How much of the first n tokens is before a tag, without the line ends just before it.
Has(n, t) == \E i \in 1..n : answer[i] = t
Place(n, t) == Lowest({i \in 1..n : answer[i] = t})
TrimEnd(n) == Highest({k \in 0..n : k = 0 \/ answer[k] # "nl"})
CutAt(n, t) == IF Has(n, t) THEN TrimEnd(Place(n, t) - 1) ELSE n

-----------------------------------------------------------------------------
\* [LISTEN] and then [END], with all that follows them.
StripTags ==
  /\ answerStep = "tags" /\ listen' = Has(Len(answer), "[LISTEN]")
  /\ respBuf' = [i \in 1..CutAt(CutAt(Len(answer), "[LISTEN]"), "[END]") |-> i]
  /\ answerStep' = "commands"
  /\ UNCHANGED <<answer, scanFrom, done, commandCount, shortText, longText, spoken>>

\* strstr finds the next tag; an opening without its end is found too and ends the scan.
NextTags == {i \in (scanFrom + 1)..Len(respBuf) : Token(i) \in Device \cup {"cut"}}
NextTag == Lowest(NextTags)
\* Mutant: the scan goes on behind what moved into the tag's place.
BehindTag(i) == IF i < Len(respBuf) THEN i ELSE i - 1

FromTag(i) == i - 1

\* Without the tag and the line end behind it.
Stripped(i) ==
  LET gone == IF i < Len(respBuf) /\ Token(i + 1) = "nl" THEN 2 ELSE 1
  IN  [k \in 1..(Len(respBuf) - gone) |-> respBuf[IF k < i THEN k ELSE k + gone]]

Command ==
  /\ answerStep = "commands" /\ NextTags # {}
  /\ LET i == NextTag
         tag == Token(i)
     IN  CASE tag = "cut" -> answerStep' = "split" /\ UNCHANGED Scan
           [] tag = "overlong" ->
                scanFrom' = i /\ UNCHANGED <<respBuf, answerStep, done, commandCount>>
           [] OTHER ->
                /\ respBuf' = Stripped(i) /\ scanFrom' = FromTag(i)
                /\ IF tag \in Known
                   THEN /\ done' = Append(done, [at |-> respBuf[i], does |-> Does(tag)])
                        /\ commandCount' = commandCount + 1
                   ELSE UNCHANGED <<done, commandCount>>
                /\ answerStep' = IF tag = "reboot" THEN "restarted" ELSE answerStep
  /\ UNCHANGED <<answer, listen, shortText, longText, spoken>>
ScanEnds ==
  /\ answerStep = "commands" /\ NextTags = {} /\ answerStep' = "split"
  /\ UNCHANGED <<answer, Scan, listen, shortText, longText, spoken>>

\* The first line is the label, if it is short; what follows it is spoken, the label itself
\* if nothing does. RESPONSE is shown and, if it is to be read, the speech bit set.
LineEnds == {i \in 1..Len(respBuf) : Token(i) = "nl"}
WithoutEnds(p) ==
  LET k == Lowest({i \in p..(Len(respBuf) + 1) : i = Len(respBuf) + 1 \/ Token(i) # "nl"})
  IN  SubSeq(respBuf, k, Len(respBuf))
FirstLine == SubSeq(respBuf, 1, Lowest(LineEnds) - 1)
AutoRead == ~HasScreen \/ \A k \in 1..Len(done) : done[k].does # Does("auto_read=off")
Split ==
  /\ answerStep = "split" /\ answerStep' = "shown" /\ spoken' = AutoRead
  /\ IF LineEnds # {} /\ Len(FirstLine) < LongLine
     THEN LET rest == WithoutEnds(Lowest(LineEnds))
          IN  shortText' = FirstLine /\ longText' = IF rest = <<>> THEN FirstLine ELSE rest
     ELSE /\ shortText' = IF Len(respBuf) < LongLine THEN respBuf
                         ELSE SubSeq(respBuf, 1, LongLine)
          /\ longText' = respBuf
  /\ UNCHANGED <<answer, respBuf, scanFrom, listen, done, commandCount>>

AnswerNext == StripTags \/ Command \/ ScanEnds \/ Split
AnswerSpec == AnswerInit /\ [][AnswerNext]_answerVars

-----------------------------------------------------------------------------
(* Properties.                                                             *)

\* The tokens the gateway meant: those before the first [LISTEN], [END] or restart.
Meant == {i \in Positions : /\ \A j \in 1..i : answer[j] \notin {"[LISTEN]", "[END]"}
                         /\ \A j \in 1..(i - 1) : answer[j] # "reboot"}
In(s, i) == \E k \in 1..Len(s) : s[k] = i
Ascending(s) == \A j, k \in 1..Len(s) : j < k => s[j] < s[k]

\* app_state.c:132: every tag meant is carried out once and in order and none other; what
\* is shown has none of them left and its tokens in their order, and every word but those
\* behind the end of the answer is in the label or is spoken.
TagsHold ==
  answerStep \in {"shown", "restarted"} =>
    /\ \A i \in Positions : (i \in Meant /\ answer[i] \in Known)
                            <=> \E k \in 1..Len(done) : done[k].at = i
    /\ \A j, k \in 1..Len(done) : j < k => done[j].at < done[k].at
    /\ \A k \in 1..Len(done) : done[k].does = Does(answer[done[k].at])
    /\ commandCount = Len(done)
    /\ answerStep = "shown" =>
         /\ \A k \in 1..Len(respBuf) :
              Token(k) \notin Known \cup {"unknown", "[LISTEN]", "[END]"}
         /\ Ascending(respBuf)
         /\ \A i \in Positions :
              answer[i] = "word" =>
                /\ i \in Meant <=> In(shortText, i) \/ In(longText, i)
                /\ i \in Meant => longText # <<>>
=============================================================================
