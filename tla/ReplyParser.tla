---------------------------- MODULE ReplyParser ----------------------------
(***************************************************************************)
(* How sscma_client_process (sscma_client_ops.c:206) cuts the chip's bytes *)
(* into replies "\r{...}\n".                                               *)
(*                                                                         *)
(* The receive buffer is modelled as memory: what lies beyond rx_buffer.pos *)
(* stays there and comes back when pos is wrong.  A reply is five bytes    *)
(* whose middle one is its number; a junk byte is the remains of a reply   *)
(* cut short, a NUL the padding of an SPI transfer.                        *)
(***************************************************************************)
EXTENDS Naturals, Sequences, SequencesExt

CONSTANTS
  RxSize,          \* rx_buffer.len
  MaxReplies,      \* bound: replies sent
  MaxNoise         \* bound: junk bytes and NULs sent

\* The buffer has room for a reply (camera.c:146 gives it 65536 bytes).
ASSUME RxAssumption == RxSize \in Nat /\ RxSize >= 5 /\ MaxReplies \in 1..9 /\ MaxNoise \in Nat

VARIABLES
  rxLine,          \* bytes the chip holds
  rxData, rxPos,   \* rx_buffer
  parsing,         \* inside the while loop
  sentReplies,     \* history: replies sent ...
  cutReplies,      \* ... and replies cut out and parsed
  noise, junk,     \* history: noise sent so far, and whether any of it was junk
  outOfMemory      \* history: there was no memory for some reply

parserVars == <<rxLine, rxData, rxPos, parsing, sentReplies, cutReplies, noise, junk, outOfMemory>>

CR == 13  Open == 123  Close == 125  NL == 10  Nul == 0  Junk == 63
Bytes == {CR, Open, Close, NL, Nul, Junk} \cup (1..MaxReplies)   \* ASCII
Bytes5(i) == <<CR, Open, i, Close, NL>>

ParserTypeOK ==
  /\ rxData \in Seq(Bytes) /\ Len(rxData) = RxSize
  /\ rxPos \in 0..RxSize /\ parsing \in BOOLEAN
  /\ sentReplies \in Seq(1..MaxReplies) /\ cutReplies \in Seq(1..MaxReplies)
  /\ noise \in 0..MaxNoise /\ junk \in BOOLEAN /\ outOfMemory \in BOOLEAN

ParserInit ==
  /\ rxLine = <<>> /\ rxData = [k \in 1..RxSize |-> Nul] /\ rxPos = 0
  /\ parsing = FALSE /\ sentReplies = <<>> /\ cutReplies = <<>>
  /\ noise = 0 /\ junk = FALSE /\ outOfMemory = FALSE

ChipSends ==
  /\ \/ /\ Len(sentReplies) < MaxReplies
        /\ sentReplies' = Append(sentReplies, Len(sentReplies) + 1)
        /\ rxLine' = rxLine \o Bytes5(Len(sentReplies) + 1)
        /\ UNCHANGED <<noise, junk>>
     \/ /\ noise < MaxNoise
        /\ noise' = noise + 1
        /\ \E b \in {Nul, Junk} :
             rxLine' = Append(rxLine, b) /\ junk' = (junk \/ b = Junk)
        /\ UNCHANGED sentReplies
  /\ UNCHANGED <<rxData, rxPos, parsing, cutReplies, outOfMemory>>

\* The first n bytes of the memory s become t.
Overwrite(s, t) == t \o SubSeq(s, Len(t) + 1, Len(s))
\* kept[i] is data[0..new_pos) once the loop has seen i bytes of s.
Compacted(s) ==
  LET kept[i \in 0..Len(s)] ==
        IF i = 0 THEN <<>> ELSE IF s[i] = Nul THEN kept[i - 1] ELSE Append(kept[i - 1], s[i])
  IN  kept[Len(s)]

\* Mutant: NULs stay where they are.
ReadBytesRaw(k) ==
  /\ ~parsing /\ k \in 1..Len(rxLine)
  /\ IF rxPos = RxSize
     THEN rxPos' = 0 /\ UNCHANGED <<rxLine, rxData, parsing>>
     ELSE LET n == IF k > RxSize - rxPos THEN RxSize - rxPos ELSE k
              got == SubSeq(rxData, 1, rxPos) \o SubSeq(rxLine, 1, n)
          IN  /\ rxLine' = SubSeq(rxLine, n + 1, Len(rxLine))
              /\ rxPos' = Len(got)
              /\ rxData' = Overwrite(rxData, got)
              /\ parsing' = TRUE
  /\ UNCHANGED <<sentReplies, cutReplies, noise, junk, outOfMemory>>

\* What is available (k bytes of it), as far as there is room, goes behind
\* pos; then NULs are squeezed out.  A full buffer without a reply is dropped.
ReadBytes(k) ==
  /\ ~parsing /\ k \in 1..Len(rxLine)
  /\ IF rxPos = RxSize
     THEN rxPos' = 0 /\ UNCHANGED <<rxLine, rxData, parsing>>
     ELSE LET n == IF k > RxSize - rxPos THEN RxSize - rxPos ELSE k
              got == Compacted(SubSeq(rxData, 1, rxPos) \o SubSeq(rxLine, 1, n))
              raw == Overwrite(rxData, SubSeq(rxData, 1, rxPos) \o SubSeq(rxLine, 1, n))
              data == Overwrite(raw, got)
          IN  /\ rxLine' = SubSeq(rxLine, n + 1, Len(rxLine))
              /\ rxPos' = Len(got)
              /\ rxData' = IF Len(got) < RxSize
                           THEN [data EXCEPT ![Len(got) + 1] = Nul] ELSE data
              /\ parsing' = TRUE
  /\ UNCHANGED <<sentReplies, cutReplies, noise, junk, outOfMemory>>

\* strnstr: where the pair of bytes first starts within the first n, or 0; it
\* stops at a NUL.
Find(b, c, n) ==
  LET starts == {k \in 1..(n - 1) : /\ rxData[k] = b /\ rxData[k + 1] = c
                                    /\ \A i \in 1..k : rxData[i] # Nul}
  IN  IF starts = {} THEN 0 ELSE CHOOSE k \in starts : \A i \in starts : k <= i

\* memmove of what follows byte n to the front; the rest of the memory stays.
Moved(n) == Overwrite(rxData, SubSeq(rxData, n + 1, rxPos))

\* cJSON_Parse takes a number between its braces and nothing else.
Parsed(s) == IF Len(s) = 5 /\ s[3] \in 1..MaxReplies THEN <<s[3]>> ELSE <<>>

\* Without memory for the reply its length is taken off what was read, and
\* nothing moves: the reply stays in front and the last bytes are lost.
CutReply ==
  /\ parsing
  /\ LET suffix == Find(Close, NL, rxPos)
         prefix == Find(CR, Open, suffix - 1)
         end == suffix + 1
     IN  CASE suffix = 0 ->
                parsing' = FALSE /\ UNCHANGED <<rxData, rxPos, cutReplies, outOfMemory>>
           [] suffix # 0 /\ prefix # 0 ->
                /\ \/ /\ cutReplies' = cutReplies \o Parsed(SubSeq(rxData, prefix, end))
                      /\ rxData' = Moved(end)
                      /\ UNCHANGED outOfMemory
                   \/ outOfMemory' = TRUE /\ UNCHANGED <<cutReplies, rxData>>
                /\ rxPos' = rxPos - (end - prefix + 1)
                /\ UNCHANGED parsing
           [] OTHER ->
                /\ rxData' = [Moved(end) EXCEPT ![rxPos - end + 1] = Nul]
                /\ rxPos' = rxPos - end
                /\ UNCHANGED <<parsing, cutReplies, outOfMemory>>
  /\ UNCHANGED <<rxLine, sentReplies, noise, junk>>

ParserNext == ChipSends \/ (\E k \in 1..RxSize : ReadBytes(k)) \/ CutReply

ParserSpec == ParserInit /\ [][ParserNext]_parserVars

-----------------------------------------------------------------------------
(* Properties.                                                             *)

\* However the bytes are split into reads and padded with NULs, without junk
\* and with memory for every reply the replies come out once each, in order,
\* and none stays behind.
CleanStreamExact ==
  ~junk /\ ~outOfMemory =>
    /\ IsPrefix(cutReplies, sentReplies)
    /\ rxLine = <<>> /\ ~parsing => cutReplies = sentReplies
=============================================================================
