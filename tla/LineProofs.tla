---------------------------- MODULE LineProofs ------------------------------
(* Proofs about the protocols on the line to the vision chip: the transfer  *)
(* that flashes it, and the client that asks it for images, for every value *)
(* of their constants.                                                      *)
EXTENDS Xmodem, VisionClient, ReplyParser, SequenceTheorems, WellFoundedInduction, TLAPS

-----------------------------------------------------------------------------
(* Numbers.                                                                 *)

(* Numbers that are not none have a least one.                              *)
LEMMA LeastNumber ==
  ASSUME NEW T, T \subseteq Nat, T # {}
  PROVE  \E n \in T : \A m \in T : n <= m
  <1> DEFINE R == OpToRel(<, Nat)
  <1>1. IsWellFoundedOn(R, Nat)
    BY NatLessThanWellFounded
  <1>2. \A m, n \in Nat : m < n => <<m, n>> \in R
    BY DEF OpToRel
  <1> HIDE DEF R
  <1>3. PICK n \in T : \A m \in T : ~(<<m, n>> \in R)
    BY <1>1, WFMin
  <1>4. ASSUME NEW m \in T PROVE ~(m < n)
    BY <1>2, <1>3
  <1>5. ASSUME NEW m \in T PROVE n <= m
    BY <1>4
  <1> QED BY <1>5

(* A set that holds 0, and with every number the next, holds all of them.   *)
LEMMA Upwards ==
  ASSUME NEW T, 0 \in T, \A n \in Nat : n \in T => n + 1 \in T
  PROVE  Nat \subseteq T
  <1> DEFINE U == Nat \ T
  <1>1. SUFFICES ASSUME U # {} PROVE FALSE
    OBVIOUS
  <1>2. PICK n \in U : \A m \in U : n <= m
    BY <1>1, LeastNumber
  <1>3. n # 0 /\ n - 1 \in Nat /\ n - 1 \notin U
    BY <1>2
  <1> QED BY <1>2, <1>3

-----------------------------------------------------------------------------
(* The XMODEM sender and the chip's boot loader.                            *)

(* The end of a transfer on the line, block ids that wrap round, and how    *)
(* many blocks the sender has sent of its image and the chip has stored.    *)
Eot == [id |-> 0, block |-> 0]
Succ(i) == IF i = Ids - 1 THEN 0 ELSE i + 1
Pred(i) == IF i = 0 THEN Ids - 1 ELSE i - 1

SentBlocks == txBase + txPos
StoredBlocks == Len(chipBlocks)

(* The types, with what the sender's buffer holds of the image.             *)
Packets == [id : 0..(Ids - 1), block : 0..MaxBlocks]
XmodemTypes ==
  /\ XmodemTypeOK
  /\ toChip \in Seq(Packets)
  /\ txBase + txPos <= MaxBlocks /\ txBase + txLen <= MaxBlocks

(* What the sender knows by itself, whatever is on the line: the packet is  *)
(* to be built anew, or is out, or is to be sent once more.                 *)
Anew == nextId = 1 \/ packet.id # nextId
Out == txPos > 0 /\ txPos <= txLen /\ xferSize = 1 /\ nextId = Succ(packet.id)
Repeat == txPos < txLen /\ xferSize = 1 /\ packet.id = nextId
Sending == {"WAIT_FOR_C_ACK", "WRITE_BLOCK_FAILED", "C_ACK_RECEIVED"}

SenderShape ==
  /\ xState = "INITIAL" => (xCall = "rest" /\ xResult = "none") \/ (xCall = "start" /\ Anew)
  /\ xState \in {"WAIT_FOR_C", "WRITE_BLOCK", "WAIT_WRITE_BLOCK"} => xCall \in {"rest", "start", "write"}
  /\ xState = "WAIT_FOR_C" => Anew /\ (xCall = "write" => txPos < txLen)
  /\ xState = "WRITE_BLOCK" =>
       (Anew /\ (xCall = "write" => txPos < txLen)) \/ (Repeat /\ xCall = "write")
  /\ xState \in Sending => Out /\ xCall = "write"
  /\ xState = "WAIT_WRITE_BLOCK" => Anew /\ (txLen > 0 => txPos = 0)

(* What the chip stored is a beginning of the image, in order.              *)
InOrder == \A k \in 1..StoredBlocks : chipBlocks[k] = k

(* No packet is on the line, or at most the end of the transfer; nothing    *)
(* the chip says waits but its call for a transfer.                         *)
Quiet == toChip = <<>> /\ toHost \in {<<>>, <<"C">>}
Aside == toChip \in {<<>>, <<Eot>>}

(* The three positions a sender may be in: the chip waits for the block     *)
(* that comes next; one block is out and not yet acknowledged; a block was  *)
(* refused or its acknowledgement lost, and the same block will be sent     *)
(* again, which the chip may have stored already.                           *)
Fresh ==
  /\ StoredBlocks = SentBlocks /\ expected = nextId
  /\ nextId = 1 \/ packet.id # nextId

OneSent ==
  /\ StoredBlocks \in {SentBlocks - 1, SentBlocks} /\ txPos > 0 /\ txPos <= txLen /\ xferSize = 1
  /\ packet.block = SentBlocks /\ nextId = Succ(packet.id)
  /\ StoredBlocks = SentBlocks - 1 => expected = packet.id
  /\ StoredBlocks = SentBlocks => expected = nextId

Again ==
  /\ StoredBlocks \in {SentBlocks, SentBlocks + 1} /\ txPos < txLen /\ xferSize = 1
  /\ packet.block = SentBlocks + 1 /\ packet.id = nextId
  /\ StoredBlocks = SentBlocks => expected = nextId
  /\ StoredBlocks = SentBlocks + 1 => expected = Succ(nextId)

(* While the sender waits, its packet, one answer to it, or nothing is on   *)
(* the lines; an acknowledgement only of a block that was stored.           *)
PacketOut ==
  \/ toChip = <<packet>> /\ toHost \in {<<>>, <<"C">>}
  \/ toChip = <<>> /\ toHost \in {<<>>, <<"C">>, <<"NACK">>, <<"C", "NACK">>}
  \/ toChip = <<>> /\ toHost \in {<<"ACK">>, <<"C", "ACK">>} /\ StoredBlocks = SentBlocks

(* What holds at each state of the sender's machine while the chip has      *)
(* asked in turn.                                                           *)
Ends == {"WRITE_EOT", "WAIT_FOR_EOT_ACK", "COMPLETE"}
GivenUpOn == {"WAIT_FOR_C_TIMEOUT", "WRITE_BLOCK_TIMEOUT", "TIMEOUT_EOT", "ABORT_TRANSFER", "FINAL"}

CallStates ==
  /\ xState = "INITIAL" =>
       \/ xCall = "rest" /\ xResult = "none" /\ Aside
       \/ xCall = "start" /\ Fresh /\ Quiet /\ SentBlocks = 0
  /\ xState \in {"WAIT_FOR_C", "WRITE_BLOCK", "WAIT_WRITE_BLOCK"} => xCall \in {"rest", "start", "write"}
  /\ xState = "WAIT_FOR_C" => Fresh /\ Quiet /\ SentBlocks = 0 /\ (xCall = "write" => txPos < txLen)
  /\ xState = "WRITE_BLOCK" =>
       /\ Quiet
       /\ \/ Fresh /\ (xCall = "write" => txPos < txLen)
          \/ Again /\ xCall = "write"
  /\ xState = "WAIT_FOR_C_ACK" => OneSent /\ PacketOut /\ xCall = "write"
  /\ xState = "WRITE_BLOCK_FAILED" => OneSent /\ Quiet /\ xCall = "write"
  /\ xState = "C_ACK_RECEIVED" => OneSent /\ Quiet /\ StoredBlocks = SentBlocks /\ xCall = "write"
  /\ xState = "WAIT_WRITE_BLOCK" => Fresh /\ Quiet /\ (txLen > 0 => txPos = 0)
  /\ xState \in Ends => StoredBlocks = SentBlocks /\ Aside
  /\ xState = "WRITE_EOT" => toChip = <<>>
  /\ xState \in GivenUpOn => StoredBlocks <= SentBlocks /\ Aside

(* The inductive invariant.                                                 *)
Together == XmodemTypes /\ InOrder /\ CallStates
XmodemInv == XmodemTypes /\ SenderShape /\ (outOfTurn = 0 => InOrder /\ CallStates)

(* Ids go round: the next and the one before, and that they undo each       *)
(* other.                                                                   *)
LEMMA Turns ==
  ASSUME NEW i \in 0..(Ids - 1)
  PROVE  /\ (i + 1) % Ids = Succ(i) /\ (i + Ids - 1) % Ids = Pred(i)
         /\ Succ(i) \in 0..(Ids - 1) /\ Pred(i) \in 0..(Ids - 1)
         /\ Succ(i) # i /\ Pred(i) # i /\ Pred(Succ(i)) = i /\ Succ(Pred(i)) = i
  <1>0. Ids \in Nat /\ Ids > 2
    BY IdsAssumption
  <1>1. \A x \in 0..(Ids - 1) : x % Ids = x
    BY <1>0
  <1>2. \A x \in 0..(Ids - 1) : (x + Ids) % Ids = x
    BY <1>0
  <1>3. (i + 1) % Ids = Succ(i)
    <2>1. CASE i = Ids - 1
      <3>1. (0 + Ids) % Ids = 0
        BY <1>0, <1>2
      <3> QED BY <1>0, <2>1, <3>1 DEF Succ
    <2>2. CASE i # Ids - 1
      <3>1. i + 1 \in 0..(Ids - 1)
        BY <1>0, <2>2
      <3> QED BY <1>0, <1>1, <2>2, <3>1 DEF Succ
    <2> QED BY <2>1, <2>2
  <1>4. (i + Ids - 1) % Ids = Pred(i)
    <2>1. CASE i = 0
      <3>1. Ids - 1 \in 0..(Ids - 1)
        BY <1>0
      <3> QED BY <1>0, <1>1, <2>1, <3>1 DEF Pred
    <2>2. CASE i # 0
      <3>1. i - 1 \in 0..(Ids - 1)
        BY <1>0, <2>2
      <3>2. i + Ids - 1 = (i - 1) + Ids
        BY <1>0
      <3> QED BY <1>2, <2>2, <3>1, <3>2 DEF Pred
    <2> QED BY <2>1, <2>2
  <1>5. /\ Succ(i) \in 0..(Ids - 1) /\ Pred(i) \in 0..(Ids - 1)
        /\ Succ(i) # i /\ Pred(i) # i /\ Pred(Succ(i)) = i /\ Succ(Pred(i)) = i
    BY <1>0 DEF Succ, Pred
  <1> QED BY <1>3, <1>4, <1>5

(* The ends of short lines.                                                 *)
LEMMA ShortLines ==
  ASSUME NEW x, NEW y
  PROVE  /\ <<x>> # <<>> /\ <<x, y>> # <<>>
         /\ Head(<<x>>) = x /\ Tail(<<x>>) = <<>>
         /\ Head(<<x, y>>) = x /\ Tail(<<x, y>>) = <<y>>
         /\ Append(<<>>, x) = <<x>> /\ Append(<<x>>, y) = <<x, y>>
  <1>1. <<x>> # <<>> /\ <<x, y>> # <<>>
    OBVIOUS
  <1>2. Head(<<x>>) = x /\ Head(<<x, y>>) = x
    OBVIOUS
  <1>3. Tail(<<x>>) = <<>>
    OBVIOUS
  <1>4. Tail(<<x, y>>) = <<y>>
    OBVIOUS
  <1>5. Append(<<>>, x) = <<x>>
    OBVIOUS
  <1>6. Append(<<x>>, y) = <<x, y>>
    <2>1. <<x>> \in Seq({x, y}) /\ Len(<<x>>) = 1 /\ <<x>>[1] = x
      OBVIOUS
    <2>2. <<x, y>> \in Seq({x, y}) /\ Len(<<x, y>>) = 2 /\ <<x, y>>[1] = x /\ <<x, y>>[2] = y
      OBVIOUS
    <2>3. /\ Append(<<x>>, y) \in Seq({x, y}) /\ Len(Append(<<x>>, y)) = 2
          /\ Append(<<x>>, y)[1] = x /\ Append(<<x>>, y)[2] = y
      BY <2>1
    <2>4. \A i \in 1..Len(Append(<<x>>, y)) : Append(<<x>>, y)[i] = <<x, y>>[i]
      BY <2>2, <2>3
    <2>5. Len(Append(<<x>>, y)) = Len(<<x, y>>)
      BY <2>2, <2>3
    <2> QED BY <2>2, <2>3, <2>4, <2>5, SeqEqual, Zenon
  <1> QED BY <1>1, <1>2, <1>3, <1>4, <1>5, <1>6

(* The initial state satisfies the invariant.                               *)
LEMMA XmodemStarts == XmodemInit => XmodemInv
  BY IdsAssumption, XmodemAssumption DEF XmodemInit, XmodemInv, XmodemTypes, XmodemTypeOK, InOrder, CallStates,
     States, Calls4, StoredBlocks, SentBlocks, Ends, GivenUpOn, Quiet, Aside, Fresh, SenderShape, Sending

(* A block stored in its turn leaves what is stored in order.               *)
LEMMA NextStored ==
  ASSUME NEW n \in Nat, NEW s \in Seq(1..n), \A k \in 1..Len(s) : s[k] = k,
         NEW b \in 1..n, b = Len(s) + 1
  PROVE  /\ Len(Append(s, b)) = Len(s) + 1
         /\ \A k \in 1..Len(Append(s, b)) : Append(s, b)[k] = k
  OBVIOUS

(* A line of packets, one longer and one shorter.                           *)
LEMMA PacketSent ==
  ASSUME NEW s, s \in Seq(Packets), NEW p \in Packets
  PROVE  Append(s, p) \in Seq(Packets)
  OBVIOUS
LEMMA PacketTaken ==
  ASSUME NEW s, s \in Seq(Packets), s # <<>>
  PROVE  Head(s) \in Packets /\ Tail(s) \in Seq(Packets)
  OBVIOUS

(* The sender's own part: the calls and their returns, ...                  *)
LEMMA SenderCallsKeep ==
  ASSUME XmodemTypes, SenderShape, StartCall \/ StartReturns \/ (\E n \in 1..2 : WriteCall(n)) \/ WriteReturns
         \/ FinishCall \/ FinishReturns \/ AbortCall \/ AbortReturns
  PROVE  XmodemTypes' /\ SenderShape'
  <1> USE IdsAssumption, XmodemAssumption DEF XmodemTypes, XmodemTypeOK, SenderShape, Sending, States, Calls4,
     SentBlocks, Enter, Return, lineVars, receiverVars, Anew, Out, Repeat
  <1>1. StartCall => XmodemTypes' /\ SenderShape'
    BY DEF StartCall
  <1>2. StartReturns => XmodemTypes' /\ SenderShape'
    BY DEF StartReturns
  <1>3. ASSUME NEW n \in 1..2, WriteCall(n) PROVE XmodemTypes' /\ SenderShape'
    BY <1>3 DEF WriteCall
  <1>4. WriteReturns => XmodemTypes' /\ SenderShape'
    BY DEF WriteReturns
  <1>5. FinishCall => XmodemTypes' /\ SenderShape'
    BY DEF FinishCall
  <1>6. FinishReturns => XmodemTypes' /\ SenderShape'
    BY DEF FinishReturns
  <1>7. AbortCall => XmodemTypes' /\ SenderShape'
    BY DEF AbortCall
  <1>8. AbortReturns => XmodemTypes' /\ SenderShape'
    BY DEF AbortReturns
  <1> QED BY <1>1, <1>2, <1>3, <1>4, <1>5, <1>6, <1>7, <1>8

(* ... its state machine, ...                                               *)
LEMMA SenderStepsKeep ==
  ASSUME XmodemTypes, SenderShape, WaitForC \/ WriteBlock \/ WaitWriteBlock \/ WaitForAck \/ BlockFailed
         \/ AckReceived \/ EndOfTransfer \/ AbortTransfer
  PROVE  XmodemTypes' /\ SenderShape'
  <1> USE IdsAssumption, XmodemAssumption DEF XmodemTypes, XmodemTypeOK, SenderShape, Sending, States, Calls4,
     SentBlocks, Running, Leaving, lineVars, receiverVars, Anew, Out, Repeat
  <1>1. WaitForC => XmodemTypes' /\ SenderShape'
    BY DEF WaitForC
  <1>2. ASSUME WriteBlock PROVE XmodemTypes' /\ SenderShape'
    <2>1. xCall = "write" /\ txPos < txLen
      BY <1>2 DEF WriteBlock
    <2>2. nextId' = Succ(nextId) /\ nextId' \in 0..(Ids - 1)
      BY <1>2, Turns DEF WriteBlock
    <2>3. /\ packet' = [id |-> nextId, block |-> txBase + txPos + 1] \/ (packet' = packet /\ packet.id = nextId)
          /\ xferSize' = 1
      <3>1. CASE Rebuild
        BY <1>2, <2>1, <3>1 DEF WriteBlock
      <3>2. CASE ~Rebuild
        <4>1. packet.id = nextId /\ nextId # 1
          BY <3>2 DEF Rebuild
        <4>2. Repeat
          BY <1>2, <4>1 DEF WriteBlock
        <4> QED BY <1>2, <3>2, <4>1, <4>2 DEF WriteBlock
      <3> QED BY <3>1, <3>2
    <2>4. packet' \in Packets /\ packet'.id = nextId
      BY <2>1, <2>3 DEF Packets
    <2>5. toChip' \in Seq(Packets)
      <3>1. toChip' = Append(toChip, packet') /\ toChip \in Seq(Packets)
        BY <1>2 DEF WriteBlock
      <3> QED BY <2>4, <3>1, PacketSent
    <2>7. packet' \in [id : 0..(Ids - 1), block : 0..MaxBlocks]
      BY <2>4 DEF Packets
    <2>6. /\ xState' = "WAIT_FOR_C_ACK" /\ txPos' = txPos + 1
          /\ UNCHANGED <<xCall, xResult, txLen, txBase, retries, xFaults, transfers, outOfTurn, receiverVars>>
      BY <1>2, <2>3 DEF WriteBlock
    <2> QED BY <2>1, <2>2, <2>3, <2>4, <2>5, <2>6, <2>7
  <1>3. WaitWriteBlock => XmodemTypes' /\ SenderShape'
    BY DEF WaitWriteBlock
  <1>4. WaitForAck => XmodemTypes' /\ SenderShape'
    BY DEF WaitForAck
  <1>5. ASSUME BlockFailed PROVE XmodemTypes' /\ SenderShape'
    <2>1. Out /\ xCall = "write" /\ xState = "WRITE_BLOCK_FAILED" /\ packet.id \in 0..(Ids - 1)
      BY <1>5 DEF BlockFailed
    <2>2. CASE retries > MaxRetries
      BY <1>5, <2>1, <2>2 DEF BlockFailed
    <2>3. CASE ~(retries > MaxRetries)
      <3>1. /\ UNCHANGED <<xCall, xResult, txLen, txBase, packet, xferSize, lineVars, receiverVars>>
            /\ xState' = "WRITE_BLOCK" /\ txPos' = txPos - 1 /\ retries' = retries + 1
        BY <1>5, <2>1, <2>3 DEF BlockFailed
      <3>2. nextId' = Pred(nextId) /\ nextId' = packet.id
        BY <1>5, <2>1, <2>3, Turns DEF BlockFailed
      <3>3. nextId' = 1 \/ Repeat'
        BY <2>1, <3>1, <3>2
      <3> QED BY <2>1, <2>3, <3>1, <3>2, <3>3
    <2> QED BY <2>2, <2>3
  <1>6. ASSUME AckReceived PROVE XmodemTypes' /\ SenderShape'
    <2>1. Out /\ xCall = "write" /\ packet.id # nextId
      BY <1>6, Turns DEF AckReceived
    <2> QED BY <1>6, <2>1 DEF AckReceived
  <1>7. ASSUME EndOfTransfer PROVE XmodemTypes' /\ SenderShape'
    <2>1. Eot \in Packets
      BY DEF Eot, Packets
    <2>2. toChip' \in Seq(Packets)
      <3>1. toChip' = toChip \/ toChip' = Append(toChip, Eot)
        BY <1>7 DEF EndOfTransfer, Eot
      <3>2. toChip \in Seq(Packets)
        BY DEF XmodemTypes
      <3> HIDE DEF Packets, XmodemTypes, SenderShape
      <3>3. Append(toChip, Eot) \in Seq(Packets)
        BY <2>1, <3>2, PacketSent
      <3> QED BY <3>1, <3>2, <3>3, Zenon
    <2>3. xState' \in {"WAIT_FOR_EOT_ACK", "COMPLETE", "ABORT_TRANSFER", "TIMEOUT_EOT"}
      BY <1>7 DEF EndOfTransfer
    <2> QED BY <1>7, <2>2, <2>3 DEF EndOfTransfer
  <1>8. AbortTransfer => XmodemTypes' /\ SenderShape'
    BY DEF AbortTransfer
  <1> QED BY <1>1, <1>2, <1>3, <1>4, <1>5, <1>6, <1>7, <1>8

(* ... and what happens on the other side, which changes nothing of it.     *)
LEMMA ReceiverStepsKeep ==
  ASSUME XmodemTypes, SenderShape, ChipReceives \/ ChipAsksAgain \/ LineFault
  PROVE  XmodemTypes' /\ SenderShape'
  <1>1. UNCHANGED senderVars
    BY DEF ChipReceives, ChipAsksAgain, LineFault
  <1>2. SenderShape'
    BY <1>1 DEF senderVars, SenderShape, Anew, Out, Repeat, SentBlocks
  <1>3. toChip' = toChip \/ (toChip # <<>> /\ toChip' = Tail(toChip))
    BY DEF ChipReceives, ChipAsksAgain, LineFault
  <1>4. toChip' \in Seq(Packets)
    <2>1. toChip \in Seq(Packets)
      BY DEF XmodemTypes
    <2> QED BY <1>3, <2>1, PacketTaken
  <1>5. xFaults' \in 0..MaxFaults /\ transfers' \in 0..MaxTransfers /\ outOfTurn' \in 0..MaxAsks
    <2>1. xFaults \in 0..MaxFaults /\ transfers \in 0..MaxTransfers /\ outOfTurn \in 0..MaxAsks
      BY DEF XmodemTypes, XmodemTypeOK
    <2>2. xFaults' = xFaults \/ (xFaults < MaxFaults /\ xFaults' = xFaults + 1)
      BY DEF ChipReceives, ChipAsksAgain, LineFault
    <2>3. transfers' = transfers
      BY DEF ChipReceives, ChipAsksAgain, LineFault
    <2>4. outOfTurn' = outOfTurn \/ (outOfTurn < MaxAsks /\ outOfTurn' = outOfTurn + 1)
      BY DEF ChipReceives, ChipAsksAgain, LineFault
    <2> QED BY <2>1, <2>2, <2>3, <2>4, XmodemAssumption
  <1>6. /\ expected' \in 0..(Ids - 1) /\ chipMode' \in {"asks", "data", "done"}
        /\ chipBlocks' \in Seq(1..MaxBlocks)
    <2>1. CASE UNCHANGED receiverVars
      BY <2>1 DEF receiverVars, XmodemTypes, XmodemTypeOK
    <2>2. CASE ChipReceives
      <3> DEFINE p == Head(toChip)
      <3>1. p \in Packets
        <4>1. toChip \in Seq(Packets) /\ toChip # <<>>
          BY <2>2 DEF ChipReceives, XmodemTypes
        <4> QED BY <4>1, PacketTaken
      <3>2. \/ chipMode' = "done" /\ UNCHANGED <<expected, chipBlocks>>
            \/ /\ p.block # 0 /\ chipBlocks' = Append(chipBlocks, p.block)
               /\ expected' = (expected + 1) % Ids /\ chipMode' = "data"
            \/ UNCHANGED receiverVars
        BY <2>2, Zenon DEF ChipReceives
      <3> HIDE DEF p
      <3>3. p.block \in 0..MaxBlocks
        BY <3>1 DEF Packets
      <3>4. (expected + 1) % Ids \in 0..(Ids - 1)
        BY Turns DEF XmodemTypes, XmodemTypeOK
      <3>5. p.block # 0 => Append(chipBlocks, p.block) \in Seq(1..MaxBlocks)
        <4>1. p.block # 0 => p.block \in 1..MaxBlocks
          BY <3>3, XmodemAssumption
        <4> QED BY <4>1 DEF XmodemTypes, XmodemTypeOK
      <3> QED BY <3>2, <3>4, <3>5 DEF receiverVars, XmodemTypes, XmodemTypeOK
    <2> QED BY <2>1, <2>2 DEF ChipAsksAgain, LineFault
  <1> QED BY <1>1, <1>2, <1>4, <1>5, <1>6 DEF senderVars, XmodemTypes, XmodemTypeOK

(* A start brings the sender and the chip together.                         *)
LEMMA StartMeets ==
  ASSUME XmodemTypes, XmodemTypes', StartCall
  PROVE  Together'
  BY IdsAssumption, XmodemAssumption DEF StartCall, Together, XmodemTypes, XmodemTypeOK, InOrder, CallStates,
     States, Calls4, StoredBlocks, SentBlocks, Ends, GivenUpOn, Quiet, Fresh, Aside, Enter

(* The calls of the flasher, and their returns, preserve the invariant.     *)
LEMMA CallsKeep ==
  ASSUME Together, XmodemTypes', StartReturns \/ (\E n \in 1..2 : WriteCall(n)) \/ WriteReturns
         \/ FinishCall \/ FinishReturns \/ AbortCall \/ AbortReturns
  PROVE  Together'
  <1> USE IdsAssumption, XmodemAssumption DEF Together, XmodemTypes, XmodemTypeOK, InOrder, CallStates,
     States, Calls4, StoredBlocks, SentBlocks, Ends, GivenUpOn, Quiet, Fresh, Aside, Enter, Return, lineVars, receiverVars, Again, Eot
  <1>2. StartReturns => Together'
    BY DEF StartReturns
  <1>3. ASSUME NEW n \in 1..2, WriteCall(n) PROVE Together'
    BY <1>3 DEF WriteCall, OneSent, PacketOut
  <1>4. WriteReturns => Together'
    BY DEF WriteReturns
  <1>5. FinishCall => Together'
    BY DEF FinishCall
  <1>6. FinishReturns => Together'
    BY DEF FinishReturns
  <1>7. AbortCall => Together'
    BY DEF AbortCall
  <1>8. AbortReturns => Together'
    BY DEF AbortReturns
  <1> QED BY <1>2, <1>3, <1>4, <1>5, <1>6, <1>7, <1>8

(* What may stand on the line to the host, and what is left of it.          *)
LEMMA HostLine ==
  /\ <<"C">> # <<>> /\ <<"ACK">> # <<>> /\ <<"NACK">> # <<>>
  /\ <<"C", "ACK">> # <<>> /\ <<"C", "NACK">> # <<>>
  /\ Head(<<"C">>) = "C" /\ Head(<<"ACK">>) = "ACK" /\ Head(<<"NACK">>) = "NACK"
  /\ Head(<<"C", "ACK">>) = "C" /\ Head(<<"C", "NACK">>) = "C"
  /\ Tail(<<"C">>) = <<>> /\ Tail(<<"ACK">>) = <<>> /\ Tail(<<"NACK">>) = <<>>
  /\ Tail(<<"C", "ACK">>) = <<"ACK">> /\ Tail(<<"C", "NACK">>) = <<"NACK">>
  /\ Append(<<>>, "ACK") = <<"ACK">> /\ Append(<<>>, "NACK") = <<"NACK">>
  /\ Append(<<"C">>, "ACK") = <<"C", "ACK">> /\ Append(<<"C">>, "NACK") = <<"C", "NACK">>
  BY ShortLines

(* The line to the chip carries one packet.                                 *)
LEMMA ChipLine ==
  ASSUME NEW p
  PROVE  <<p>> # <<>> /\ Head(<<p>>) = p /\ Tail(<<p>>) = <<>> /\ Append(<<>>, p) = <<p>>
  BY ShortLines

(* Each step of the sender's machine preserves the invariant.               *)
LEMMA SenderKeeps ==
  ASSUME Together, XmodemTypes', WaitForC \/ WriteBlock \/ WaitWriteBlock \/ WaitForAck \/ BlockFailed
         \/ AckReceived \/ EndOfTransfer \/ AbortTransfer
  PROVE  Together'
  <1> USE IdsAssumption, XmodemAssumption DEF Together, XmodemTypes, XmodemTypeOK, InOrder, CallStates, Running, Leaving,
     States, Calls4, StoredBlocks, SentBlocks, Ends, GivenUpOn, Quiet, Fresh, Aside, lineVars, receiverVars
  <1>1. ASSUME WaitForC PROVE Together'
    <2>1. toHost \in {<<>>, <<"C">>}
      BY <1>1 DEF WaitForC
    <2>2. Quiet' /\ UNCHANGED <<xCall, xResult, txLen, txPos, txBase, nextId, packet, xferSize,
                 retries, receiverVars>>
      BY <1>1, <2>1, HostLine DEF WaitForC
    <2>3. xState \in {"INITIAL", "WAIT_FOR_C"} /\ xState' \in {"WAIT_FOR_C", "WRITE_BLOCK", "WAIT_FOR_C_TIMEOUT"} /\ xFaults' = xFaults /\ transfers' = transfers
      BY <1>1 DEF WaitForC
    <2>4. xState' = "WRITE_BLOCK" => (xCall' = "write" => txPos' < txLen')
      BY <1>1, <2>1, <2>2 DEF WaitForC
    <2>5. Fresh /\ SentBlocks = 0
      BY <1>1 DEF WaitForC
    <2>7. Fresh' /\ SentBlocks' = 0 /\ XmodemTypes' /\ InOrder'
      BY <2>2, <2>3, <2>5
    <2>6. xState' \in {"WAIT_FOR_C", "WRITE_BLOCK"} => xCall \in {"start", "write"}
      BY <1>1 DEF WaitForC
    <2> QED BY <2>2, <2>3, <2>4, <2>6, <2>7
  <1>2. ASSUME WriteBlock PROVE Together'
    <2>1. toChip' = <<packet'>> /\ toHost' = toHost /\ toHost \in {<<>>, <<"C">>}
      BY <1>2, ChipLine DEF WriteBlock
    <2>2. xCall = "write"
      BY <1>2 DEF WriteBlock
    <2>3. nextId' = Succ(nextId) /\ nextId' \in 0..(Ids - 1)
      BY <1>2, Turns DEF WriteBlock
    <2>4. packet' = [id |-> nextId, block |-> SentBlocks + 1] /\ xferSize' = 1 /\ txPos < txLen
      BY <1>2, <2>2 DEF WriteBlock, Again, Rebuild
    <2>5. xState' = "WAIT_FOR_C_ACK" /\ txPos' = txPos + 1 /\ UNCHANGED <<xCall, xResult, txLen, txBase, retries, xFaults, transfers, receiverVars>>
      BY <1>2, <2>4 DEF WriteBlock
    <2>6. OneSent'
      <3>0. SentBlocks \in Nat /\ StoredBlocks \in Nat
        <4>1. XmodemTypeOK
          BY DEF Together, XmodemTypes
        <4>2. txBase \in Nat /\ txPos \in Nat /\ chipBlocks \in Seq(1..MaxBlocks)
          BY <4>1 DEF XmodemTypeOK
        <4> HIDE DEF Together, XmodemTypes, XmodemTypeOK, InOrder, CallStates
        <4> QED BY <4>2
      <3>1. Fresh \/ Again
        BY <1>2, <2>2 DEF WriteBlock
      <3> HIDE DEF SentBlocks, StoredBlocks, Together, XmodemTypes, XmodemTypeOK, InOrder, CallStates
      <3>2. /\ StoredBlocks \in {SentBlocks, SentBlocks + 1}
            /\ StoredBlocks = SentBlocks => expected = nextId
            /\ StoredBlocks = SentBlocks + 1 => expected = Succ(nextId)
        BY <3>0, <3>1 DEF Again
      <3>3. /\ SentBlocks' = SentBlocks + 1 /\ StoredBlocks' = StoredBlocks /\ expected' = expected
            /\ txPos' > 0 /\ txPos' <= txLen'
        BY <2>4, <2>5 DEF SentBlocks, StoredBlocks, Together, XmodemTypes, XmodemTypeOK
      <3>4. packet'.block = SentBlocks + 1 /\ packet'.id = nextId
        BY <2>4
      <3>5. /\ StoredBlocks' \in {SentBlocks' - 1, SentBlocks'}
            /\ StoredBlocks' = SentBlocks' - 1 => StoredBlocks = SentBlocks
            /\ StoredBlocks' = SentBlocks' => StoredBlocks = SentBlocks + 1
        BY <3>0, <3>2, <3>3
      <3> QED BY <2>3, <2>4, <3>2, <3>3, <3>4, <3>5 DEF OneSent
    <2>7. PacketOut'
      BY <2>1 DEF PacketOut
    <2> QED BY <2>2, <2>3, <2>4, <2>5, <2>6, <2>7
  <1>3. ASSUME WaitWriteBlock PROVE Together'
    <2>1. Fresh' /\ Quiet'
      BY <1>3 DEF WaitWriteBlock
    <2> QED BY <1>3, <2>1 DEF WaitWriteBlock
  <1>4. ASSUME WaitForAck PROVE Together'
    <2>1. PacketOut /\ OneSent /\ xCall = "write" /\ xState = "WAIT_FOR_C_ACK"
      BY <1>4 DEF WaitForAck
    <2>2. UNCHANGED <<xCall, xResult, txLen, txPos, txBase, nextId, packet, xferSize, retries,
                 toChip, xFaults, transfers, receiverVars>>
      BY <1>4 DEF WaitForAck
    <2>3. OneSent'
      BY <2>1, <2>2 DEF OneSent
    <2>4. CASE xState' = "WRITE_BLOCK_TIMEOUT"
      <3>1. Aside'
        BY <1>4, <2>2, <2>4 DEF WaitForAck, Silent
      <3> QED BY <2>1, <2>2, <2>4, <3>1 DEF OneSent
    <2>5. CASE toHost # <<>> /\ Head(toHost) = "ACK" /\ toHost' = Tail(toHost) /\ xState' = "C_ACK_RECEIVED"
      <3>1. toHost = <<"ACK">> /\ toChip = <<>> /\ StoredBlocks = SentBlocks
        BY <2>1, <2>5, HostLine DEF PacketOut
      <3>2. Quiet'
        BY <2>2, <2>5, <3>1, HostLine
      <3> QED BY <2>1, <2>2, <2>3, <2>5, <3>1, <3>2
    <2>6. CASE toHost # <<>> /\ Head(toHost) = "NACK" /\ toHost' = Tail(toHost) /\ xState' = "WRITE_BLOCK_FAILED"
      <3>1. toHost = <<"NACK">> /\ toChip = <<>>
        BY <2>1, <2>6, HostLine DEF PacketOut
      <3>2. Quiet'
        BY <2>2, <2>6, <3>1, HostLine
      <3> QED BY <2>1, <2>2, <2>3, <2>6, <3>1, <3>2
    <2>7. CASE toHost # <<>> /\ Head(toHost) \notin {"ACK", "NACK"} /\ toHost' = Tail(toHost) /\ xState' = "WAIT_FOR_C_ACK"
      <3>1. PacketOut'
        BY <2>1, <2>2, <2>7, HostLine DEF PacketOut
      <3> QED BY <2>1, <2>2, <2>3, <2>7, <3>1
    <2>8. \/ xState' = "WRITE_BLOCK_TIMEOUT"
          \/ toHost # <<>> /\ Head(toHost) = "ACK" /\ toHost' = Tail(toHost) /\ xState' = "C_ACK_RECEIVED"
          \/ toHost # <<>> /\ Head(toHost) = "NACK" /\ toHost' = Tail(toHost) /\ xState' = "WRITE_BLOCK_FAILED"
          \/ toHost # <<>> /\ Head(toHost) \notin {"ACK", "NACK"} /\ toHost' = Tail(toHost) /\ xState' = "WAIT_FOR_C_ACK"
      BY <1>4 DEF WaitForAck
    <2> QED BY <2>4, <2>5, <2>6, <2>7, <2>8
  <1>5. ASSUME BlockFailed PROVE Together'
    <2>1. OneSent /\ Quiet /\ xCall = "write" /\ xState = "WRITE_BLOCK_FAILED"
      BY <1>5 DEF BlockFailed
    <2>2. CASE retries > MaxRetries
      BY <1>5, <2>1, <2>2 DEF BlockFailed, OneSent
    <2>3. CASE ~(retries > MaxRetries)
      <3>1. /\ UNCHANGED <<xCall, xResult, txLen, txBase, packet, xferSize, lineVars, receiverVars>>
            /\ xState' = "WRITE_BLOCK" /\ txPos' = txPos - 1 /\ retries' = retries + 1
        BY <1>5, <2>1, <2>3 DEF BlockFailed, OneSent
      <3>2. nextId' = Pred(nextId)
        BY <1>5, <2>3, Turns DEF BlockFailed
      <3>3. nextId' = packet.id /\ nextId = Succ(packet.id) /\ packet.id \in 0..(Ids - 1)
        BY <2>1, <3>2, Turns DEF OneSent
      <3>4. Again'
        BY <2>1, <3>1, <3>3 DEF OneSent, Again
      <3>5. XmodemTypes'
        BY <2>1, <2>3, <3>1, <3>3 DEF OneSent
      <3> QED BY <2>1, <3>1, <3>4, <3>5
    <2> QED BY <2>2, <2>3
  <1>6. ASSUME AckReceived PROVE Together'
    <2>1. OneSent /\ Quiet /\ xCall = "write" /\ xState = "C_ACK_RECEIVED" /\ StoredBlocks = SentBlocks
      BY <1>6 DEF AckReceived
    <2>2. packet.id # nextId
      BY <2>1, Turns DEF OneSent
    <2>3. UNCHANGED <<xCall, xResult, txPos, txBase, nextId, packet, xferSize, lineVars, receiverVars>>
      BY <1>6 DEF AckReceived
    <2>4. CASE txPos >= txLen
      <3>1. txLen' = 0 /\ xState' = "WAIT_WRITE_BLOCK" /\ UNCHANGED retries
        BY <1>6, <2>4 DEF AckReceived
      <3> QED BY <2>1, <2>2, <2>3, <3>1 DEF OneSent
    <2>5. CASE ~(txPos >= txLen)
      <3>1. retries' = 0 /\ xState' = "WRITE_BLOCK" /\ UNCHANGED txLen
        BY <1>6, <2>5 DEF AckReceived
      <3>2. txPos < txLen
        BY <2>1, <2>5 DEF OneSent
      <3> QED BY <2>1, <2>2, <2>3, <3>1, <3>2 DEF OneSent
    <2> QED BY <2>4, <2>5
  <1>7. ASSUME EndOfTransfer PROVE Together'
    <2>1. Aside'
      BY <1>7, ChipLine DEF EndOfTransfer, Eot
    <2>2. UNCHANGED <<xCall, xResult, txLen, txPos, txBase, nextId, packet, xferSize, retries,
                 xFaults, transfers, receiverVars>> /\ StoredBlocks = SentBlocks
      BY <1>7 DEF EndOfTransfer
    <2>3. xState' \in {"WAIT_FOR_EOT_ACK", "COMPLETE", "TIMEOUT_EOT", "ABORT_TRANSFER"}
      BY <1>7 DEF EndOfTransfer
    <2> QED BY <2>1, <2>2, <2>3
  <1>8. ASSUME AbortTransfer PROVE Together'
    BY <1>8 DEF AbortTransfer
  <1> QED BY <1>1, <1>2, <1>3, <1>4, <1>5, <1>6, <1>7, <1>8

(* The chip and the faults of the line preserve the invariant: a block that *)
(* comes twice is acknowledged and not stored again.                        *)
LEMMA ReceiverKeeps ==
  ASSUME Together, XmodemTypes', outOfTurn' = 0, ChipReceives \/ ChipAsksAgain \/ LineFault
  PROVE  Together'
  <1> USE IdsAssumption, XmodemAssumption DEF Together, XmodemTypes, XmodemTypeOK, InOrder, CallStates, senderVars,
     States, Calls4, StoredBlocks, SentBlocks, Ends, GivenUpOn, Quiet, Fresh, Again, Aside, lineVars, receiverVars
  <1>1. ASSUME ChipReceives PROVE Together'
    <2>0. UNCHANGED <<senderVars, xFaults, transfers>> /\ toChip # <<>> /\ toChip' = Tail(toChip)
      BY <1>1 DEF ChipReceives
    <2>1. CASE Head(toChip).block = 0
      <3>1. UNCHANGED <<expected, chipBlocks>> /\ chipMode' = "done" /\ toHost' = Append(toHost, "ACK")
        BY <1>1, <2>1 DEF ChipReceives
      <3>2. xState # "WAIT_FOR_C_ACK"
        <4>1. xState = "WAIT_FOR_C_ACK" => toChip = <<packet>> /\ packet.block # 0
          BY <2>0 DEF OneSent, PacketOut
        <4> QED BY <2>1, <4>1, ChipLine
      <3>3. toChip # <<>> => xState \in Ends \cup GivenUpOn \cup {"INITIAL"}
        BY <3>2
      <3>4. toChip \in {<<>>, <<Eot>>} => toChip' = <<>>
        BY <2>0, ChipLine
      <3> QED BY <2>0, <3>1, <3>2, <3>3, <3>4 DEF Eot
    <2>2. CASE Head(toChip).block # 0
      <3>1. xState = "WAIT_FOR_C_ACK" /\ toChip = <<packet>> /\ toHost \in {<<>>, <<"C">>} /\ OneSent
        <4>1. Quiet => FALSE
          BY <2>0
        <4>2. Aside => FALSE
          BY <2>0, <2>2, ChipLine DEF Eot
        <4>3. xState = "WAIT_FOR_C_ACK"
          BY <4>1, <4>2
        <4> QED BY <2>0, <4>3 DEF PacketOut
      <3>2. toChip' = <<>> /\ Head(toChip) = packet
        BY <2>0, <3>1, ChipLine
      <3>3. CASE StoredBlocks = SentBlocks - 1
        <4>1. /\ chipBlocks' = Append(chipBlocks, packet.block) /\ expected' = (expected + 1) % Ids
              /\ chipMode' = "data" /\ toHost' = Append(toHost, "ACK")
          <5>1. packet.block # 0 /\ packet.id = expected
            BY <3>1, <3>3 DEF OneSent
          <5>2. packet.id # (expected + Ids - 1) % Ids
            BY <5>1, Turns
          <5> QED BY <1>1, <3>2, <5>1, <5>2 DEF ChipReceives
        <4>2. expected' = nextId /\ packet.block = SentBlocks
          BY <3>1, <3>3, <4>1, Turns DEF OneSent
        <4>3. /\ StoredBlocks' = StoredBlocks + 1
              /\ \A k \in 1..StoredBlocks' : chipBlocks'[k] = k
          <5>1. packet.block \in 1..MaxBlocks /\ chipBlocks \in Seq(1..MaxBlocks)
            BY <3>1, <4>2 DEF OneSent
          <5>2. packet.block = Len(chipBlocks) + 1 /\ \A k \in 1..Len(chipBlocks) : chipBlocks[k] = k
            BY <3>3, <4>2
          <5> DEFINE s == Append(chipBlocks, packet.block)
          <5>3. Len(s) = Len(chipBlocks) + 1 /\ \A k \in 1..Len(s) : s[k] = k
            BY <5>1, <5>2, NextStored, XmodemAssumption
          <5>4. chipBlocks' = s
            BY <4>1
          <5> HIDE DEF s
          <5> QED BY <5>3, <5>4
        <4>4. toHost' \in {<<"ACK">>, <<"C", "ACK">>}
          BY <3>1, <4>1, HostLine
        <4>5. OneSent' /\ PacketOut'
          BY <2>0, <3>1, <3>2, <3>3, <4>2, <4>3, <4>4 DEF OneSent, PacketOut
        <4> QED BY <2>0, <3>1, <3>3, <4>1, <4>2, <4>3, <4>5
      <3>4. CASE StoredBlocks = SentBlocks
        <4>1. expected # packet.id /\ packet.id = (expected + Ids - 1) % Ids
          BY <3>1, <3>4, Turns DEF OneSent
        <4>2. toHost' = Append(toHost, "ACK") /\ UNCHANGED receiverVars
          BY <1>1, <2>2, <3>2, <4>1 DEF ChipReceives
        <4>3. toHost' \in {<<"ACK">>, <<"C", "ACK">>}
          BY <3>1, <4>2, HostLine
        <4>4. OneSent' /\ PacketOut'
          BY <2>0, <3>1, <3>2, <3>4, <4>2, <4>3 DEF OneSent, PacketOut
        <4> QED BY <2>0, <3>1, <4>2, <4>4
      <3> QED BY <3>1, <3>3, <3>4 DEF OneSent
    <2> QED BY <2>1, <2>2
  <1>2. ASSUME ChipAsksAgain PROVE Together'
    <2>1. /\ UNCHANGED <<senderVars, toChip, xFaults, transfers, receiverVars>>
          /\ toChip = <<>> /\ toHost = <<>>
          /\ toHost' \in {<<"C">>, <<"NACK">>}
          /\ xState # "WAIT_FOR_C_ACK" => toHost' = <<"C">>
      <3>1. outOfTurn \in Nat /\ outOfTurn' = 0
        BY <1>2
      <3>2. InTurn
        BY <1>2, <3>1 DEF ChipAsksAgain
      <3> QED BY <1>2, <3>2, HostLine DEF ChipAsksAgain, InTurn
    <2>2. xState = "WAIT_FOR_C_ACK" => OneSent' /\ PacketOut'
      BY <2>1 DEF OneSent, PacketOut
    <2>3. xState \in {"WRITE_BLOCK_FAILED", "C_ACK_RECEIVED"} => OneSent'
      BY <2>1 DEF OneSent
    <2> QED BY <2>1, <2>2, <2>3
  <1>3. ASSUME LineFault PROVE Together'
    <2>1. UNCHANGED <<senderVars, receiverVars, transfers>> /\ xFaults' \in 0..MaxFaults
      BY <1>3 DEF LineFault
    <2>2. toChip' = toChip \/ (toChip # <<>> /\ toChip' = Tail(toChip))
      BY <1>3 DEF LineFault
    <2>3. Aside => Aside' /\ (toChip = <<>> => toChip' = <<>>)
      BY <2>2, ChipLine
    <2>4. Quiet => Quiet'
      BY <1>3, HostLine DEF LineFault
    <2>5. xState = "WAIT_FOR_C_ACK" => PacketOut'
      <3>1. SUFFICES ASSUME xState = "WAIT_FOR_C_ACK" PROVE PacketOut'
        OBVIOUS
      <3>2. CASE toChip # <<>>
        <4>1. toChip = <<packet>> /\ toHost \in {<<>>, <<"C">>}
          BY <3>1, <3>2 DEF PacketOut
        <4>2. toChip' \in {<<packet>>, <<>>}
          BY <2>2, <4>1, ChipLine
        <4>3. \/ toChip' = <<>> /\ toHost' = toHost
              \/ toChip' = <<>> /\ toHost' = Append(toHost, "NACK")
              \/ toChip' = toChip /\ toHost # <<>> /\ toHost' = Tail(toHost)
          BY <1>3, <2>1, <4>1, ChipLine DEF LineFault
        <4> QED BY <2>1, <4>1, <4>3, HostLine DEF PacketOut
      <3>3. CASE toChip = <<>>
        <4>1. toChip' = <<>> /\ toHost # <<>> /\ toHost' = Tail(toHost)
          BY <1>3, <3>3 DEF LineFault
        <4> QED BY <2>1, <3>1, <3>3, <4>1, HostLine DEF PacketOut
      <3> QED BY <3>2, <3>3
    <2>6. OneSent => OneSent'
      BY <2>1 DEF OneSent
    <2>7. InOrder' /\ CallStates'
      BY <2>1, <2>3, <2>4, <2>5, <2>6
    <2> QED BY <2>7, Zenon
  <1> QED BY <1>1, <1>2, <1>3

(* The invariant of a transfer keeps in every step.                         *)
LEMMA XmodemKeeps == XmodemInv /\ [XmodemNext]_xmodemVars => XmodemInv'
  <1> SUFFICES ASSUME XmodemInv, [XmodemNext]_xmodemVars PROVE XmodemInv'
    OBVIOUS
  <1>1. CASE UNCHANGED xmodemVars
    BY <1>1 DEF xmodemVars, senderVars, lineVars, receiverVars, XmodemInv, XmodemTypes, XmodemTypeOK, InOrder, CallStates,
     StoredBlocks, SentBlocks, Quiet, Fresh, Again, Aside, OneSent, PacketOut, SenderShape, Anew, Out, Repeat
  <1>2. CASE XmodemNext
    <2>1. XmodemTypes' /\ SenderShape'
      BY <1>2, SenderCallsKeep, SenderStepsKeep, ReceiverStepsKeep DEF XmodemInv, XmodemNext
    <2>2. ASSUME outOfTurn' = 0 PROVE InOrder' /\ CallStates'
      <3>1. CASE StartCall
        BY <2>1, <3>1, StartMeets DEF XmodemInv, Together
      <3>2. CASE ~StartCall
        <4>1. outOfTurn = 0
          <5>1. outOfTurn \in Nat /\ 0 + 1 # 0 /\ (outOfTurn' = outOfTurn \/ outOfTurn' = outOfTurn + 1)
            <6>1. outOfTurn \in Nat
              BY XmodemAssumption DEF XmodemInv, XmodemTypes, XmodemTypeOK
            <6>2. outOfTurn' = outOfTurn \/ outOfTurn' = outOfTurn + 1
              BY <1>2, <3>2 DEF XmodemNext, StartReturns, WriteCall, WriteReturns, FinishCall,
                 FinishReturns, AbortCall, AbortReturns, WaitForC, WriteBlock, WaitWriteBlock,
                 WaitForAck, BlockFailed, AckReceived, EndOfTransfer, AbortTransfer, ChipReceives,
                 ChipAsksAgain, LineFault, lineVars
            <6> QED BY <6>1, <6>2
          <5> QED BY <2>2, <5>1
        <4>2. Together
          BY <4>1 DEF XmodemInv, Together
        <4>3. Together'
          BY <1>2, <2>1, <2>2, <3>2, <4>2, CallsKeep, SenderKeeps, ReceiverKeeps DEF XmodemNext
        <4> QED BY <4>3 DEF Together
      <3> QED BY <3>1, <3>2
    <2> QED BY <2>1, <2>2 DEF XmodemInv
  <1> QED BY <1>1, <1>2

LEMMA XmodemTyped == XmodemSpec => []XmodemTypeOK
  <1>1. XmodemInv => XmodemTypeOK
    BY DEF XmodemInv, XmodemTypes
  <1> QED BY <1>1, XmodemKeeps, XmodemStarts, PTL DEF XmodemSpec

(* sscma_client_flasher_we2_uart.c:392: as long as the chip has not asked   *)
(* out of turn, what it holds is a beginning of the image, in order, and a  *)
(* write or a finish that returns ESP_OK has stored all that was written,   *)
(* whatever packets and answers the line loses or garbles and for any size  *)
(* of the image.                                                            *)
THEOREM BlocksStored == XmodemSpec => [](outOfTurn = 0 => WrittenIsStored)
  <1>1. XmodemInv => (outOfTurn = 0 => WrittenIsStored)
    BY DEF XmodemInv, XmodemTypes, InOrder, CallStates, WrittenIsStored, Fresh, Ends, StoredBlocks, SentBlocks
  <1> QED BY <1>1, XmodemKeeps, XmodemStarts, PTL DEF XmodemSpec

-----------------------------------------------------------------------------
(* The vision chip's client and the camera.                                 *)

(* What a sequence holds, and that at most one of it is in a set.           *)
Elems(s) == {s[i] : i \in 1..Len(s)}
Once(s, M) == \A i, j \in 1..Len(s) : s[i] \in M /\ s[j] \in M => i = j

(* A reply that may be late: a request whose text names the same command    *)
(* was given up before. A reply or command is current when it belongs to    *)
(* the request that waits, and nothing else may be on its way.              *)
Late(x) == \E r \in givenUp : Mentions(r.cmd, x.cmd) /\ r.n <= x.n
Current(x) == requestPc = "wait" /\ chipReply = NoReply /\ x.n = numbered /\ x.cmd = request.cmd
Expected(x) == x.n <= numbered /\ (Current(x) \/ Late(x))

(* What belongs to the last request, and where it is.                       *)
OwnCommands == {x \in RequestIds : x.n = numbered}
OwnReplies == {x \in Replies : x.type # "event" /\ x.n = numbered}
Events == {x \in Replies : x.type = "event"}
ChipOwn == \E x \in Elems(chip) : x \in OwnCommands
WireOwn == \E x \in Elems(chipWire) : x \in OwnReplies
HeldOwn == dispatch.reply \in OwnReplies

(* The request in the list is the last one and for the function in          *)
(* progress, which the camera runs for SAMPLE alone; from the answer to     *)
(* SAMPLE on the camera waits for that request's image.                     *)
Numbering ==
  /\ requestPc = "rest" <=> request = NoRequest
  /\ request # NoRequest => request.n = numbered /\ visionCall # NoCall
       /\ (request.cmd = "SAMPLE" <=> visionCall.fn = "sample")
  /\ visionCall # NoCall =>
       /\ visionCall.step <= Len(Script[visionCall.fn])
       /\ visionCall.fn = "sample" <=> capture.pc = "sample"
       /\ visionCall.fn # "sample" => capture = Resting
  /\ capture.pc \in {"wait", "check", "take", "forget"} =>
       visionCall = NoCall /\ capture.n = numbered /\ numbered > 0
  /\ \A r \in givenUp : r.n <= numbered

(* What is on its way belongs to the request that waits or may be late, and *)
(* the process task walks from the request its reply answers to that same   *)
(* request unless the reply may be late; events are not sent to a request.  *)
Answering == dispatch.reply # NoReply /\ dispatch.reply.type # "event"
WalksOwn ==
  /\ dispatch.at \in {"next", "compare", "send"} => dispatch.first = numbered
  /\ dispatch.at \in {"compare", "send"} => dispatch.to = numbered
HandMeant ==
  /\ dispatch.to <= numbered
  /\ dispatch.at = "send" => dispatch.reply.type # "event"
  /\ Answering => Expected(dispatch.reply) /\ (Late(dispatch.reply) \/ WalksOwn)
  /\ dispatch.at = "send" /\ Alive(dispatch.to) => Mentions(dispatch.reply.cmd, request.cmd)
InFlight ==
  /\ \A x \in Elems(chip) : Expected(x)
  /\ \A x \in Elems(chipWire) : x.type # "event" => Expected(x)
  /\ HandMeant

(* Of the last request there is one thing on its way at most: its command,  *)
(* or its reply on the line, or in the process task's hand; nothing before  *)
(* it was written.                                                          *)
OwnOnce ==
  /\ Once(chip, OwnCommands) /\ Once(chipWire, OwnReplies)
  /\ ChipOwn => ~WireOwn /\ ~HeldOwn
  /\ WireOwn => ~HeldOwn
  /\ requestPc = "write" => ~ChipOwn /\ ~WireOwn /\ ~HeldOwn

(* A reply in the queue is the waiting request's own, and nothing else of   *)
(* it is on its way, or it may be late.                                     *)
ReplyHeld ==
  chipReply # NoReply =>
    /\ requestPc # "rest" /\ chipReply.n <= numbered /\ Mentions(chipReply.cmd, request.cmd)
    /\ \/ chipReply.n = numbered /\ requestPc = "wait" /\ ~ChipOwn /\ ~WireOwn /\ ~HeldOwn
       \/ Late(chipReply)

(* An image is the last request's, as long as no SAMPLE was given up;       *)
(* afterwards it may be that of any since.                                  *)
AnyLate == \E r \in givenUp : r.cmd = "SAMPLE"
LateShot(n) == \E r \in givenUp : r.cmd = "SAMPLE" /\ r.n <= n
OwnShot(n) == LateShot(n) \/ (~AnyLate /\ n = numbered)

(* So it is with every image on its way, in the process task's hand, the    *)
(* queue, the callback and the camera.                                      *)
HeldShot == dispatch.reply \in Events
ShotsMeant ==
  /\ \A n \in shots : OwnShot(n)
  /\ \A x \in Elems(chipWire) : x.type = "event" => OwnShot(x.n)
  /\ HeldShot => OwnShot(dispatch.reply.n)
  /\ \A x \in Elems(queue) : x.type = "event" => OwnShot(x.n)
  /\ callback.pc \in {"free", "store"} => OwnShot(callback.n)
  /\ image # 0 => OwnShot(image)

(* Where an image can be: on its way, or there to be seen.                  *)
WireShot == \E x \in Elems(chipWire) : x \in Events
QueueShot == \E x \in Elems(queue) : x \in Events
Landing == callback.pc \in {"free", "store"}
Flying == shots # {} \/ WireShot \/ HeldShot \/ QueueShot \/ Landing
InView == callback.pc = "give" \/ captureSem \/ image # 0

(* As long as no SAMPLE was given up: one image is on its way at most, it   *)
(* comes while the camera samples or waits, and nothing was freed.          *)
OneShot ==
  /\ Once(chipWire, Events) /\ Once(queue, Events)
  /\ \A m, n \in shots : m = n
  /\ shots # {} => ~WireShot /\ ~HeldShot /\ ~QueueShot /\ callback = Resting
  /\ WireShot => ~HeldShot /\ ~QueueShot /\ callback = Resting
  /\ HeldShot => ~QueueShot /\ callback = Resting
  /\ QueueShot => callback = Resting
  /\ Flying => ~captureSem /\ image = 0 /\ capture.pc \in {"sample", "wait"}
  /\ callback.pc = "give" => ~captureSem /\ capture.pc \in {"sample", "wait"}
  /\ captureSem => callback = Resting /\ capture.pc \in {"sample", "wait"}
  /\ image # 0 => capture.pc \in {"sample", "wait", "check", "take", "forget"}
  /\ capture.pc = "take" => image # 0
  /\ capture.pc = "forget" => handed.from = image /\ image # 0
  /\ freed = {}

(* As long as no SAMPLE was given up: an image that came before the answer  *)
(* to SAMPLE was returned belongs to a request that the chip did not        *)
(* refuse.                                                                  *)
Accepted ==
  (Flying \/ InView) /\ capture.pc = "sample" =>
    /\ requestPc \in {"wait", "unlist", "delete"} /\ ~ChipOwn
    /\ \A x \in Elems(chipWire) : x \in OwnReplies => x.type # "log"
    /\ HeldOwn => dispatch.reply.type # "log"
    /\ chipReply # NoReply /\ chipReply.n = numbered => chipReply.type # "log"
    /\ requestPc # "wait" => answered.asked = request /\ answered.got.type # "log"

(* The inductive invariant, of replies and of images: both are said until   *)
(* the first reply that was sent to a freed queue.                          *)
Sound == "stray send" \notin damage
ShotInv == ShotsMeant /\ (~AnyLate => OneShot /\ Accepted)

Replying == InFlight /\ OwnOnce /\ ReplyHeld
VisionInv ==
  /\ VisionTypeOK /\ Numbering /\ NoStrangers /\ DamageOnlyWhenLate
  /\ Sound => Replying /\ ShotInv

(* What is left of a sequence, and what is added to it.                     *)
LEMMA TailElems ==
  ASSUME NEW S, NEW s \in Seq(S), s # <<>>
  PROVE  /\ Tail(s) \in Seq(S) /\ Head(s) \in S /\ Head(s) \in Elems(s)
         /\ Elems(Tail(s)) \subseteq Elems(s) /\ Len(Tail(s)) < Len(s)
         /\ \A M : Once(s, M) => Once(Tail(s), M) /\ (Head(s) \in M => \A x \in Elems(Tail(s)) : x \notin M)
  <1>1. /\ Tail(s) \in Seq(S) /\ Head(s) \in S /\ Head(s) = s[1] /\ Len(s) \in Nat /\ Len(s) >= 1
        /\ Len(Tail(s)) = Len(s) - 1 /\ \A i \in 1..Len(Tail(s)) : Tail(s)[i] = s[i + 1]
    OBVIOUS
  <1>2. \A i \in 1..Len(Tail(s)) : i + 1 \in 1..Len(s) /\ i + 1 # 1
    BY <1>1
  <1>3. ASSUME NEW M, Once(s, M) PROVE Once(Tail(s), M) /\ (Head(s) \in M => \A x \in Elems(Tail(s)) : x \notin M)
    <2>1. Once(Tail(s), M)
      BY <1>1, <1>2, <1>3 DEF Once
    <2>2. 1 \in 1..Len(s)
      BY <1>1
    <2>3. ASSUME Head(s) \in M, NEW i \in 1..Len(Tail(s)) PROVE Tail(s)[i] \notin M
      BY <1>1, <1>2, <1>3, <2>2, <2>3 DEF Once
    <2> QED BY <2>1, <2>3 DEF Elems
  <1>4. Head(s) \in Elems(s) /\ Elems(Tail(s)) \subseteq Elems(s)
    BY <1>1, <1>2 DEF Elems
  <1> QED BY <1>1, <1>3, <1>4

(* What is left of a sequence, and what is added to it.                     *)
LEMMA AppendElems ==
  ASSUME NEW S, NEW s \in Seq(S), NEW e \in S
  PROVE  /\ Append(s, e) \in Seq(S) /\ Len(Append(s, e)) = Len(s) + 1
         /\ Elems(Append(s, e)) = Elems(s) \cup {e}
         /\ \A M : Once(s, M) /\ (e \notin M \/ \A x \in Elems(s) : x \notin M) => Once(Append(s, e), M)
  <1>1. /\ Append(s, e) \in Seq(S) /\ Len(Append(s, e)) = Len(s) + 1 /\ Len(s) \in Nat
        /\ \A i \in 1..Len(s) : Append(s, e)[i] = s[i]
        /\ Append(s, e)[Len(s) + 1] = e
    OBVIOUS
  <1>2. \A i \in 1..(Len(s) + 1) : i \in 1..Len(s) \/ i = Len(s) + 1
    BY <1>1
  <1>3. \A i \in 1..Len(s) : i \in 1..(Len(s) + 1)
    BY <1>1
  <1>4. Len(s) + 1 \in 1..(Len(s) + 1)
    BY <1>1
  <1>5. Elems(Append(s, e)) = Elems(s) \cup {e}
    BY <1>1, <1>2, <1>3, <1>4 DEF Elems
  <1>6. \A M : Once(s, M) /\ (e \notin M \/ \A x \in Elems(s) : x \notin M) => Once(Append(s, e), M)
    BY <1>1, <1>2, <1>3 DEF Once, Elems
  <1> QED BY <1>1, <1>5, <1>6

(* What is left of a sequence, and what is added to it.                     *)
LEMMA NoneOnce ==
  ASSUME NEW s, NEW M, \A x \in Elems(s) : x \notin M
  PROVE  Once(s, M)
  BY DEF Once, Elems

(* What is left of a sequence, and what is added to it.                     *)
LEMMA ElemsIn ==
  ASSUME NEW S, NEW s \in Seq(S)
  PROVE  Elems(s) \subseteq S
  BY DEF Elems

(* Naming a command goes on from text to text, and only SAMPLE names        *)
(* SAMPLE.                                                                  *)
LEMMA MentionsChain ==
  ASSUME NEW a, NEW b, NEW c
  PROVE  /\ Mentions(a, a)
         /\ Mentions(a, b) /\ Mentions(b, c) => Mentions(a, c)
         /\ Mentions(a, "SAMPLE") <=> a = "SAMPLE"
  BY DEF Mentions

(* The commands of a function, and the steps through them.                  *)
LEMMA ScriptFacts ==
  ASSUME NEW fn \in Functions, NEW step \in 1..3, step <= Len(Script[fn])
  PROVE  /\ Script[fn][step] \in Commands /\ (Script[fn][step] = "SAMPLE" <=> fn = "sample")
         /\ step # Len(Script[fn]) => step + 1 \in 1..3 /\ step + 1 <= Len(Script[fn])
         /\ 1 <= Len(Script[fn])
  <1>1. fn \in {"info", "model", "sample", "set_info"}
    BY FunctionsAssumption
  <1>2. CASE fn = "info"
    <2>1. Script[fn] = <<"ID?", "NAME?", "VER?">>
      BY <1>2 DEF Script
    <2> QED BY <1>2, <2>1 DEF Commands
  <1>3. CASE fn = "model"
    <2>1. Script[fn] = <<"MODEL?", "INFO?">>
      BY <1>3 DEF Script
    <2> QED BY <1>3, <2>1 DEF Commands
  <1>4. CASE fn = "sample"
    <2>1. Script[fn] = <<"SAMPLE">>
      BY <1>4 DEF Script
    <2> QED BY <1>4, <2>1 DEF Commands
  <1>5. CASE fn = "set_info"
    <2>1. Script[fn] = <<"INFO">>
      BY <1>5 DEF Script
    <2> QED BY <1>5, <2>1 DEF Commands
  <1> QED BY <1>1, <1>2, <1>3, <1>4, <1>5

(* The initial state satisfies the invariant.                               *)
LEMMA VisionStarts == VisionInit => VisionInv
  <1> SUFFICES ASSUME VisionInit PROVE VisionInv
    OBVIOUS
  <1>1. VisionTypeOK
    <2>1. visionCall \in [fn : Functions, step : 1..3] \cup {NoCall} /\ request \in RequestIds \cup {NoRequest}
          /\ chipReply \in Replies \cup {NoReply} /\ dispatch = Undispatched
      BY DEF VisionInit
    <2>2. answered \in [asked : RequestIds \cup {NoRequest}, got : Replies \cup {NoReply}]
      BY DEF VisionInit
    <2>3. /\ callback \in [pc : {"free", "store", "give"}, n : Numbers] \cup {Resting}
          /\ capture \in [pc : {"clear", "drain", "sample", "wait", "check", "take", "forget"},
                          n : 0..MaxRequests] \cup {Resting}
      BY DEF VisionInit
    <2>4. /\ numbered \in 0..MaxRequests /\ image \in 0..MaxRequests
          /\ dispatch \in [reply : Replies, at : {"first", "next", "compare", "send"},
                           first : 0..MaxRequests, to : 0..MaxRequests] \cup {Undispatched}
          /\ handed \in [for : 0..MaxRequests, from : 0..MaxRequests]
      BY VisionAssumption DEF VisionInit, Undispatched
    <2>5. /\ givenUp \subseteq RequestIds /\ chip \in Seq(RequestIds) /\ shots \subseteq Numbers
          /\ chipWire \in Seq(Replies) /\ queue \in Seq(Replies) /\ Len(queue) <= QueueSize
          /\ freed \subseteq Numbers
      BY VisionAssumption DEF VisionInit
    <2>6. requestPc = "rest" /\ captureSem = FALSE /\ damage = {}
      BY DEF VisionInit
    <2> QED BY <2>1, <2>2, <2>3, <2>4, <2>5, <2>6, Zenon DEF VisionTypeOK
  <1>2. Elems(<<>>) = {}
    BY DEF Elems
  <1>3. \A M : Once(<<>>, M)
    BY DEF Once
  <1>4. NoReply.type = "none" /\ NoReply \notin Replies
    BY DEF NoReply, Replies
  <1>5. Numbering
    BY DEF VisionInit, Numbering, Resting, At
  <1>6. InFlight /\ OwnOnce /\ ReplyHeld
    BY <1>2, <1>3, <1>4 DEF VisionInit, InFlight, HandMeant, Answering, Undispatched, OwnOnce, ReplyHeld,
       ChipOwn, WireOwn, HeldOwn, OwnReplies
  <1>7. ShotInv
    <2>1. ~HeldShot
      BY <1>4 DEF VisionInit, HeldShot, Events, Undispatched
    <2> QED BY <1>2, <1>3, <2>1 DEF VisionInit, ShotInv, ShotsMeant, OneShot, Accepted, Flying, InView,
               WireShot, QueueShot, Landing, Resting, At
  <1>8. NoStrangers /\ DamageOnlyWhenLate
    BY DEF VisionInit, NoStrangers, DamageOnlyWhenLate, NoReply, NoRequest
  <1> QED BY <1>1, <1>5, <1>6, <1>7, <1>8 DEF VisionInv, Replying

(* The types in groups, so that a step is asked only about what it changes. *)
CallT ==
  /\ visionCall \in [fn : Functions, step : 1..3] \cup {NoCall}
  /\ request \in RequestIds \cup {NoRequest}
  /\ requestPc \in {"rest", "write", "wait", "unlist", "delete"}
  /\ numbered \in 0..MaxRequests
GivenT ==
  /\ chipReply \in Replies \cup {NoReply} /\ givenUp \subseteq RequestIds
  /\ answered \in [asked : RequestIds \cup {NoRequest}, got : Replies \cup {NoReply}]
ChipT == chip \in Seq(RequestIds) /\ shots \subseteq Numbers /\ chipWire \in Seq(Replies)
HandT == dispatch \in [reply : Replies, at : {"first", "next", "compare", "send"},
                      first : 0..MaxRequests, to : 0..MaxRequests] \cup {Undispatched}
QueueT ==
  /\ queue \in Seq(Replies) /\ Len(queue) <= QueueSize
  /\ callback \in [pc : {"free", "store", "give"}, n : Numbers] \cup {Resting}
CaptureT ==
  capture \in [pc : {"clear", "drain", "sample", "wait", "check", "take", "forget"},
               n : 0..MaxRequests] \cup {Resting}
ImageT ==
  /\ image \in 0..MaxRequests /\ freed \subseteq Numbers /\ captureSem \in BOOLEAN
  /\ handed \in [for : 0..MaxRequests, from : 0..MaxRequests]
DamageT == damage \subseteq {"freed request read", "stray send", "reply leaked", "double free",
                       "freed image handed", "handed image freed", "image leaked"}

(* The groups together are the types, in a state and in the next.           *)
LEMMA VisionTypes ==
  VisionTypeOK <=> CallT /\ GivenT /\ ChipT /\ HandT /\ QueueT /\ CaptureT /\ ImageT /\ DamageT
  BY Zenon DEF VisionTypeOK, CallT, GivenT, ChipT, HandT, QueueT, CaptureT, ImageT, DamageT

(* The groups together are the types, in a state and in the next.           *)
LEMMA VisionTypesNext ==
  CallT' /\ GivenT' /\ ChipT' /\ HandT' /\ QueueT' /\ CaptureT' /\ ImageT' /\ DamageT' => VisionTypeOK'
  BY Zenon DEF VisionTypeOK, CallT, GivenT, ChipT, HandT, QueueT, CaptureT, ImageT, DamageT

(* What a step leaves alone keeps its type.                                 *)
LEMMA UntouchedTypes ==
  ASSUME VisionTypeOK
  PROVE  /\ UNCHANGED <<visionCall, request, requestPc, numbered>> => CallT'
         /\ UNCHANGED <<chipReply, givenUp, answered>> => GivenT'
         /\ UNCHANGED <<chip, shots, chipWire>> => ChipT'
         /\ UNCHANGED dispatch => HandT'
         /\ UNCHANGED <<queue, callback>> => QueueT'
         /\ UNCHANGED capture => CaptureT'
         /\ UNCHANGED <<image, freed, captureSem, handed>> => ImageT'
         /\ UNCHANGED damage => DamageT'
  BY VisionTypes DEF CallT, GivenT, ChipT, HandT, QueueT, CaptureT, ImageT, DamageT

(* The ranges of the records' fields.                                       *)
LEMMA VisionPlaces ==
  ASSUME VisionTypeOK, Numbering
  PROVE  /\ callback.pc \in {"free", "store", "give"} => callback.n \in Numbers
         /\ \A pc \in {"free", "store", "give"}, n \in Numbers :
              At(pc, n) \in [pc : {"free", "store", "give"}, n : Numbers]
         /\ \A pc \in {"clear", "drain", "sample", "wait", "check", "take", "forget"},
               n \in 0..MaxRequests :
              At(pc, n) \in [pc : {"clear", "drain", "sample", "wait", "check", "take", "forget"},
                             n : 0..MaxRequests]
         /\ capture.n \in 0..MaxRequests
         /\ capture.pc \in {"rest", "clear", "drain", "sample", "wait", "check", "take", "forget"}
         /\ requestPc # "rest" => request \in RequestIds /\ request.cmd \in Commands /\ request.n \in Numbers
         /\ 0 \in 0..MaxRequests /\ Numbers \subseteq 0..MaxRequests
  <1>1. CallT /\ QueueT /\ CaptureT
    BY VisionTypes
  <1>2. 0 \in 0..MaxRequests /\ Numbers \subseteq 0..MaxRequests
    BY VisionAssumption DEF Numbers
  <1>3. callback.pc \in {"free", "store", "give"} => callback.n \in Numbers
    BY <1>1 DEF QueueT, Resting, At
  <1>4. capture.n \in 0..MaxRequests
        /\ capture.pc \in {"rest", "clear", "drain", "sample", "wait", "check", "take", "forget"}
    BY <1>1, <1>2 DEF CaptureT, Resting, At
  <1>5. requestPc # "rest" => request \in RequestIds
    BY <1>1 DEF CallT, Numbering
  <1>6. \A x \in RequestIds : x.cmd \in Commands /\ x.n \in Numbers
    BY DEF RequestIds
  <1> QED BY <1>2, <1>3, <1>4, <1>5, <1>6 DEF At

(* The ranges of the records' fields.                                       *)
LEMMA ReplyParts ==
  \A x \in Replies : x.type \in {"response", "log", "event"} /\ x.cmd \in Commands /\ x.n \in Numbers
  BY DEF Replies

(* The process task's hand, field by field.                                 *)
LEMMA HandParts ==
  ASSUME VisionTypeOK
  PROVE  /\ dispatch.reply \in Replies \cup {NoReply} /\ dispatch.first \in 0..MaxRequests
         /\ dispatch.to \in 0..MaxRequests /\ 0 \in 0..MaxRequests
         /\ Undispatched.reply = NoReply /\ Undispatched.at = "rest" /\ Undispatched.to = 0
         /\ NoReply \notin Replies /\ NoReply.type = "none"
         /\ dispatch.at # "rest" =>
              /\ dispatch.reply \in Replies
              /\ dispatch \in [reply : Replies, at : {"first", "next", "compare", "send"},
                               first : 0..MaxRequests, to : 0..MaxRequests]
         /\ dispatch.at = "rest" => dispatch = Undispatched
  <1>1. HandT
    BY VisionTypes
  <1>2. NoReply \notin Replies /\ NoReply.type = "none"
    BY DEF NoReply, Replies
  <1> QED BY <1>1, <1>2, VisionAssumption DEF HandT, Undispatched

(* What nobody waits for leaves the process task's hand to the monitor's    *)
(* queue or to nobody.                                                      *)
LEMMA NotFoundTypes ==
  ASSUME VisionTypeOK, NEW r \in Replies, NotFound(r), UNCHANGED callback
  PROVE  QueueT'
  <1>t. QueueT
    BY VisionTypes
  <1>1. queue \in Seq(Replies) /\ Len(queue) <= QueueSize /\ QueueSize \in Nat
    BY <1>t, VisionAssumption DEF QueueT
  <1>2. CASE queue' = queue
    BY <1>t, <1>2 DEF QueueT
  <1>3. CASE Len(queue) < QueueSize /\ queue' = Append(queue, r)
    <2>1. queue' \in Seq(Replies) /\ Len(queue') = Len(queue) + 1 /\ Len(queue) \in Nat
      BY <1>1, <1>3
    <2>2. Len(queue') <= QueueSize
      BY <1>1, <1>3, <2>1
    <2> QED BY <1>t, <2>1, <2>2 DEF QueueT
  <1> QED BY <1>2, <1>3 DEF NotFound

(* The walk of the list, step by step: the reply stays in the hand, or it   *)
(* leaves it, to the monitor's queue or to nobody.                          *)
LEMMA WalkSteps ==
  ASSUME VisionTypeOK, WalkFirst \/ WalkNext \/ Compare
  PROVE  /\ UNCHANGED <<visionCall, request, requestPc, chipReply, numbered, givenUp, answered, chip, shots,
                        chipWire, callback, capture, image, freed, captureSem, handed>>
         /\ dispatch.at # "rest"
         /\ damage' = damage \/ damage' = damage \cup {"freed request read"}
         /\ \/ /\ dispatch'.reply = dispatch.reply /\ queue' = queue
               /\ \/ dispatch.at = "first" /\ dispatch'.at = "next" /\ dispatch'.first = Entry
                     /\ dispatch'.to = dispatch.to
                  \/ dispatch.at = "next" /\ dispatch'.at = "compare" /\ dispatch'.to = Entry
                     /\ dispatch'.first = dispatch.first
                  \/ dispatch.at = "compare" /\ dispatch'.at = "next"
                     /\ dispatch'.first = dispatch.first /\ dispatch'.to = dispatch.to
                  \/ /\ dispatch.at = "compare" /\ dispatch'.at = "send" /\ dispatch.reply.type # "event"
                     /\ Alive(dispatch.to) => For(dispatch.reply)
                     /\ dispatch'.first = dispatch.first /\ dispatch'.to = dispatch.to
            \/ /\ dispatch' = Undispatched
               /\ queue' = queue \/ NotFound(dispatch.reply)
         /\ \/ dispatch' = Undispatched
            \/ dispatch' \in [reply : {dispatch.reply}, at : {"next", "compare", "send"},
                              first : {0, dispatch.first, Entry}, to : {0, dispatch.to, Entry}]
  <1> USE DEF requestVars, chipVars, cameraVars
  <1>t. dispatch.at # "rest" =>
          dispatch \in [reply : Replies, at : {"first", "next", "compare", "send"},
                       first : 0..MaxRequests, to : 0..MaxRequests]
    BY HandParts
  <1>1. CASE WalkFirst
    BY <1>t, <1>1 DEF WalkFirst
  <1>2. CASE WalkNext
    BY <1>t, <1>2 DEF WalkNext
  <1>3. CASE Compare
    <2>1. /\ UNCHANGED <<visionCall, request, requestPc, chipReply, numbered, givenUp, answered, chip, shots,
                         chipWire, callback, capture, image, freed, captureSem, handed>>
          /\ dispatch.at = "compare"
          /\ damage' = damage \/ damage' = damage \cup {"freed request read"}
      BY <1>3 DEF Compare
    <2>2. PICK found \in BOOLEAN :
            /\ Alive(dispatch.to) => (found <=> For(dispatch.reply))
            /\ \/ /\ found /\ UNCHANGED queue
                  /\ dispatch' = IF dispatch.reply.type = "event" THEN Undispatched
                                 ELSE [dispatch EXCEPT !.at = "send"]
               \/ ~found /\ NotFound(dispatch.reply) /\ dispatch' = Undispatched
               \/ ~found /\ dispatch' = [dispatch EXCEPT !.at = "next"] /\ UNCHANGED queue
      <3>1. For(dispatch.reply) \in BOOLEAN
        <4>1. CASE dispatch.reply.type = "response"
          BY <4>1, Zenon DEF For
        <4>2. CASE dispatch.reply.type = "log"
          BY <4>2, Zenon DEF For, Mentions
        <4>3. CASE dispatch.reply.type \notin {"response", "log"}
          BY <4>3, Zenon DEF For
        <4> QED BY <4>1, <4>2, <4>3
      <3> QED BY <1>3, <3>1 DEF Compare
    <2>3. CASE dispatch' = Undispatched /\ (queue' = queue \/ NotFound(dispatch.reply))
      BY <2>1, <2>3 DEF Undispatched
    <2>4. CASE dispatch' = [dispatch EXCEPT !.at = "next"] /\ queue' = queue
      BY <1>t, <2>1, <2>4
    <2>5. CASE /\ found /\ dispatch' = [dispatch EXCEPT !.at = "send"] /\ queue' = queue
               /\ dispatch.reply.type # "event"
      BY <1>t, <2>1, <2>2, <2>5
    <2> QED BY <2>2, <2>3, <2>4, <2>5
  <1> QED BY <1>1, <1>2, <1>3

(* Every step preserves the types.                                          *)
LEMMA VisionTypesKeep == VisionTypeOK /\ Numbering /\ [VisionNext]_visionVars => VisionTypeOK'
  <1> SUFFICES ASSUME VisionTypeOK, Numbering, [VisionNext]_visionVars PROVE VisionTypeOK'
    OBVIOUS
  <1>t. CallT /\ GivenT /\ ChipT /\ HandT /\ QueueT /\ CaptureT /\ ImageT /\ DamageT
    BY VisionTypes
  <1>1. ASSUME NEW fn \in Functions, CallBegin(fn) PROVE VisionTypeOK'
    <2>1. CallT'
      BY <1>t, <1>1, VisionAssumption DEF CallBegin, CallT
    <2>2. UNCHANGED <<chipReply, givenUp, answered, chip, shots, chipWire, dispatch, queue,
                      callback, capture, image, freed, captureSem, handed, damage>>
      BY <1>1 DEF CallBegin, requestVars, chipVars, cameraVars
    <2> QED BY <2>1, <2>2, UntouchedTypes, VisionTypesNext
  <1>2. CASE RequestBegin
    <2>1. CallT'
      <3>1. visionCall \in [fn : Functions, step : 1..3] /\ visionCall.step <= Len(Script[visionCall.fn])
        BY <1>t, <1>2 DEF RequestBegin, CallT, Numbering
      <3>2. Script[visionCall.fn][visionCall.step] \in Commands
        BY <3>1, ScriptFacts
      <3>3. numbered + 1 \in 0..MaxRequests /\ numbered + 1 \in Numbers
        BY <1>t, <1>2, VisionAssumption DEF RequestBegin, CallT, Numbers
      <3>4. request' \in RequestIds
        BY <1>2, <3>2, <3>3 DEF RequestBegin, RequestIds
      <3>5. UNCHANGED visionCall /\ numbered' = numbered + 1 /\ requestPc' = "write"
        BY <1>2 DEF RequestBegin
      <3> QED BY <1>t, <3>3, <3>4, <3>5 DEF CallT
    <2>2. GivenT'
      BY <1>t, <1>2 DEF RequestBegin, GivenT
    <2>3. UNCHANGED <<chip, shots, chipWire, dispatch, queue, callback, capture, image,
                      freed, captureSem, handed, damage>>
      BY <1>2 DEF RequestBegin, requestVars, chipVars, cameraVars
    <2> QED BY <2>1, <2>2, <2>3, UntouchedTypes, VisionTypesNext
  <1>3. CASE RequestWrite
    <2>1. CallT'
      BY <1>t, <1>3, VisionAssumption DEF RequestWrite, CallT
    <2>2. ChipT'
      <3>1. request \in RequestIds /\ UNCHANGED <<shots, chipWire>> /\ chip' \in {chip, Append(chip, request)}
        BY <1>3, VisionPlaces DEF RequestWrite
      <3>2. Append(chip, request) \in Seq(RequestIds)
        BY <1>t, <3>1, AppendElems DEF ChipT
      <3> QED BY <1>t, <3>1, <3>2 DEF ChipT
    <2>3. UNCHANGED <<chipReply, givenUp, answered, dispatch, queue, callback, capture,
                      image, freed, captureSem, handed, damage>>
      BY <1>3 DEF RequestWrite, requestVars, chipVars, cameraVars
    <2> QED BY <2>1, <2>2, <2>3, UntouchedTypes, VisionTypesNext
  <1>4. CASE RequestAnswered
    <2>1. CallT'
      BY <1>t, <1>4, VisionAssumption DEF RequestAnswered, CallT
    <2>2. GivenT'
      BY <1>t, <1>4, VisionAssumption DEF RequestAnswered, CallT, GivenT
    <2>3. UNCHANGED <<chip, shots, chipWire, dispatch, queue, callback, capture, image,
                      freed, captureSem, handed, damage>>
      BY <1>4 DEF RequestAnswered, requestVars, chipVars, cameraVars
    <2> QED BY <2>1, <2>2, <2>3, UntouchedTypes, VisionTypesNext
  <1>5. CASE RequestTimeout
    <2>1. CallT'
      BY <1>t, <1>5, VisionAssumption DEF RequestTimeout, CallT
    <2>2. GivenT'
      BY <1>t, <1>5, VisionPlaces DEF RequestTimeout, GivenT
    <2>3. UNCHANGED <<chip, shots, chipWire, dispatch, queue, callback, capture, image,
                      freed, captureSem, handed, damage>>
      BY <1>5 DEF RequestTimeout, requestVars, chipVars, cameraVars
    <2> QED BY <2>1, <2>2, <2>3, UntouchedTypes, VisionTypesNext
  <1>6. CASE RequestUnlist
    <2>1. CallT'
      BY <1>t, <1>6, VisionAssumption DEF RequestUnlist, CallT
    <2>2. UNCHANGED <<chipReply, givenUp, answered, chip, shots, chipWire, dispatch, queue,
                      callback, capture, image, freed, captureSem, handed, damage>>
      BY <1>6 DEF RequestUnlist, requestVars, chipVars, cameraVars
    <2> QED BY <2>1, <2>2, UntouchedTypes, VisionTypesNext
  <1>7. CASE RequestDelete
    <2>1. CallT'
      <3>1. /\ visionCall' \in {[visionCall EXCEPT !.step = @ + 1], NoCall}
            /\ visionCall.step = Len(Script[visionCall.fn]) => visionCall' = NoCall
            /\ UNCHANGED numbered /\ requestPc' = "rest" /\ request' = NoRequest
        BY <1>7 DEF RequestDelete
      <3>2. visionCall \in [fn : Functions, step : 1..3] /\ visionCall.step <= Len(Script[visionCall.fn])
        BY <1>t, <1>7 DEF RequestDelete, CallT, Numbering
      <3>3. visionCall.step # Len(Script[visionCall.fn]) => visionCall.step + 1 \in 1..3
        BY <3>2, ScriptFacts
      <3> QED BY <1>t, <3>1, <3>2, <3>3 DEF CallT
    <2>2. GivenT'
      BY <1>t, <1>7, VisionAssumption DEF RequestDelete, CallT, GivenT
    <2>3. CaptureT'
      <3>1. capture' \in {capture, At("wait", request.n), Resting}
        BY <1>7 DEF RequestDelete
      <3>2. At("wait", request.n) \in [pc : {"clear", "drain", "sample", "wait", "check", "take", "forget"},
                                       n : 0..MaxRequests]
        BY <1>7, VisionPlaces DEF RequestDelete
      <3> QED BY <1>t, <3>1, <3>2, Zenon DEF CaptureT
    <2>4. DamageT'
      BY <1>t, <1>7, VisionAssumption DEF RequestDelete, DamageT
    <2>5. UNCHANGED <<chip, shots, chipWire, dispatch, queue, callback, image, freed,
                      captureSem, handed>>
      BY <1>7 DEF RequestDelete, requestVars, chipVars, cameraVars
    <2> QED BY <2>1, <2>2, <2>3, <2>4, <2>5, UntouchedTypes, VisionTypesNext
  <1>8. CASE ChipAnswers
    <2>1. ChipT'
      <3>1. chip # <<>> /\ chip \in Seq(RequestIds) /\ chip' = Tail(chip)
        BY <1>t, <1>8 DEF ChipAnswers, ChipT
      <3>2. chip' \in Seq(RequestIds) /\ Head(chip) \in RequestIds
        BY <3>1, TailElems
      <3>3. Head(chip).cmd \in Commands /\ Head(chip).n \in Numbers
        BY <3>2 DEF RequestIds
      <3>4. \A type \in {"response", "log"} :
              Append(chipWire, [type |-> type, cmd |-> Head(chip).cmd, n |-> Head(chip).n]) \in Seq(Replies)
        BY <1>t, <3>3 DEF Replies, ChipT
      <3>5. chipWire' \in Seq(Replies) /\ shots' \subseteq shots \cup {Head(chip).n}
        BY <1>t, <1>8, <3>4 DEF ChipAnswers, ChipT
      <3> QED BY <1>t, <3>2, <3>3, <3>5 DEF ChipT
    <2>2. UNCHANGED <<visionCall, request, requestPc, numbered, chipReply, givenUp,
                      answered, dispatch, queue, callback, capture, image, freed,
                      captureSem, handed, damage>>
      BY <1>8 DEF ChipAnswers, requestVars, chipVars, cameraVars
    <2> QED BY <2>1, <2>2, UntouchedTypes, VisionTypesNext
  <1>9. CASE ChipShoots
    <2>1. ChipT'
      <3>1. PICK n \in shots : /\ shots' = shots \ {n} /\ chip' = chip
                               /\ chipWire' = Append(chipWire, [type |-> "event", cmd |-> "SAMPLE", n |-> n])
        BY <1>9 DEF ChipShoots
      <3>2. [type |-> "event", cmd |-> "SAMPLE", n |-> n] \in Replies
        BY <1>t DEF ChipT, Replies, Commands
      <3> QED BY <1>t, <3>1, <3>2, AppendElems DEF ChipT
    <2>2. UNCHANGED <<visionCall, request, requestPc, numbered, chipReply, givenUp,
                      answered, dispatch, queue, callback, capture, image, freed,
                      captureSem, handed, damage>>
      BY <1>9 DEF ChipShoots, requestVars, chipVars, cameraVars
    <2> QED BY <2>1, <2>2, UntouchedTypes, VisionTypesNext
  <1>10. CASE Dispatch
    <2>1. /\ chipWire # <<>> /\ chipWire \in Seq(Replies) /\ chipWire' = Tail(chipWire)
          /\ UNCHANGED <<chip, shots, callback>>
      BY <1>t, <1>10 DEF Dispatch, ChipT, requestVars
    <2>2. Tail(chipWire) \in Seq(Replies) /\ Head(chipWire) \in Replies
      BY <2>1, TailElems
    <2>3. ChipT'
      BY <1>t, <2>1, <2>2 DEF ChipT
    <2>4. \/ dispatch' = [Undispatched EXCEPT !.reply = Head(chipWire), !.at = "first"] /\ queue' = queue
          \/ dispatch' = dispatch /\ NotFound(Head(chipWire))
      BY <1>10 DEF Dispatch
    <2>5. HandT'
      <3>1. 0 \in 0..MaxRequests
        BY HandParts
      <3>2. CASE dispatch' = [Undispatched EXCEPT !.reply = Head(chipWire), !.at = "first"]
        <4>1. dispatch' = [reply |-> Head(chipWire), at |-> "first", first |-> 0, to |-> 0]
          BY <3>2 DEF Undispatched
        <4> QED BY <2>2, <3>1, <4>1 DEF HandT
      <3>3. CASE dispatch' = dispatch
        BY <3>3, UntouchedTypes
      <3> QED BY <2>4, <3>2, <3>3
    <2>6. QueueT'
      <3>1. queue' = queue => QueueT'
        BY <2>1, UntouchedTypes
      <3> QED BY <2>1, <2>2, <2>4, <3>1, NotFoundTypes
    <2>7. UNCHANGED <<visionCall, request, requestPc, numbered, chipReply, givenUp, answered, capture,
                      image, freed, captureSem, handed, damage>>
      BY <1>10 DEF Dispatch, requestVars, chipVars, cameraVars
    <2> QED BY <2>3, <2>5, <2>6, <2>7, UntouchedTypes, VisionTypesNext
  <1>11. CASE Deliver
    <2>1. GivenT'
      <3>1. chipReply' \in {chipReply, dispatch.reply} /\ UNCHANGED <<givenUp, answered>>
        BY <1>11 DEF Deliver
      <3> QED BY <1>t, <3>1, HandParts DEF GivenT
    <2>2. HandT'
      <3>1. dispatch' = Undispatched
        BY <1>11 DEF Deliver
      <3> QED BY <3>1, VisionAssumption DEF HandT, Undispatched
    <2>3. DamageT'
      BY <1>t, <1>11, VisionAssumption DEF Deliver, DamageT
    <2>4. UNCHANGED <<visionCall, request, requestPc, numbered, chip, shots, chipWire,
                      queue, callback, capture, image, freed, captureSem, handed>>
      BY <1>11 DEF Deliver, requestVars, chipVars, cameraVars
    <2> QED BY <2>1, <2>2, <2>3, <2>4, UntouchedTypes, VisionTypesNext
  <1>22. CASE WalkFirst \/ WalkNext \/ Compare
    <2>1. Entry \in 0..MaxRequests
      BY VisionPlaces DEF Entry, Listed
    <2>2. HandT'
      <3>1. \/ dispatch' = Undispatched
            \/ dispatch' \in [reply : {dispatch.reply}, at : {"next", "compare", "send"},
                              first : {0, dispatch.first, Entry}, to : {0, dispatch.to, Entry}]
        BY <1>22, WalkSteps
      <3>2. dispatch.reply \in Replies /\ dispatch.first \in 0..MaxRequests /\ dispatch.to \in 0..MaxRequests
            /\ 0 \in 0..MaxRequests
        BY <1>22, WalkSteps, HandParts
      <3> QED BY <2>1, <3>1, <3>2 DEF HandT
    <2>3. QueueT'
      <3>1. queue' = queue \/ (NotFound(dispatch.reply) /\ dispatch.reply \in Replies)
        BY <1>22, WalkSteps, HandParts
      <3>2. UNCHANGED callback
        BY <1>22, WalkSteps
      <3>3. CASE queue' = queue
        BY <3>2, <3>3, UntouchedTypes
      <3>4. CASE NotFound(dispatch.reply) /\ dispatch.reply \in Replies
        BY <3>2, <3>4, NotFoundTypes
      <3> QED BY <3>1, <3>3, <3>4
    <2>4. DamageT'
      <3>1. damage' = damage \/ damage' = damage \cup {"freed request read"}
        BY <1>22, WalkSteps
      <3> QED BY <1>t, <3>1 DEF DamageT
    <2>5. UNCHANGED <<visionCall, request, requestPc, numbered, chipReply, givenUp, answered, chip, shots,
                      chipWire, capture, image, freed, captureSem, handed>>
      BY <1>22, WalkSteps
    <2> QED BY <2>2, <2>3, <2>4, <2>5, UntouchedTypes, VisionTypesNext
  <1>12. CASE MonitorTakes
    <2>1. /\ queue # <<>> /\ queue \in Seq(Replies) /\ Len(queue) <= QueueSize /\ Len(queue) \in Nat
          /\ queue' = Tail(queue) /\ callback' \in {At("free", Head(queue).n), Resting}
      BY <1>t, <1>12 DEF MonitorTakes, QueueT
    <2>2. Tail(queue) \in Seq(Replies) /\ Head(queue).n \in Numbers /\ Len(Tail(queue)) = Len(queue) - 1
      BY <2>1, TailElems, ReplyParts
    <2>3. At("free", Head(queue).n) \in [pc : {"free", "store", "give"}, n : Numbers]
      BY <2>2, VisionPlaces
    <2>4. Len(Tail(queue)) <= QueueSize
      BY <2>1, <2>2, VisionAssumption
    <2>5. QueueT'
      BY <2>1, <2>2, <2>3, <2>4, Zenon DEF QueueT
    <2>6. UNCHANGED <<visionCall, request, requestPc, numbered, chipReply, givenUp, answered, chip, shots,
                      chipWire, dispatch, capture, image, freed, captureSem, handed, damage>>
      BY <1>12 DEF MonitorTakes, requestVars, chipVars, cameraVars
    <2> QED BY <2>5, <2>6, UntouchedTypes, VisionTypesNext
  <1>13. CASE OnEvent
    <2>1. callback.n \in Numbers
      BY <1>13, VisionPlaces DEF OnEvent
    <2>2. callback' \in {At("store", callback.n), At("give", callback.n), Resting} /\ queue' = queue
      BY <1>13 DEF OnEvent
    <2>3. QueueT'
      <3>1. /\ At("store", callback.n) \in [pc : {"free", "store", "give"}, n : Numbers]
            /\ At("give", callback.n) \in [pc : {"free", "store", "give"}, n : Numbers]
        BY <2>1, VisionPlaces
      <3> QED BY <1>t, <2>2, <3>1, Zenon DEF QueueT
    <2>4. image' \in {image, callback.n, 0} /\ freed' \in {freed, freed \cup {image}} /\ (image = 0 => freed' = freed)
          /\ captureSem' \in {captureSem, TRUE} /\ handed' = handed
      BY <1>13 DEF OnEvent, Free
    <2>5. image # 0 => image \in Numbers
      BY <1>t, VisionAssumption DEF ImageT, Numbers
    <2>6. ImageT'
      <3>1. 0 \in 0..MaxRequests /\ callback.n \in 0..MaxRequests
        BY <2>1, VisionPlaces
      <3>2. image' \in 0..MaxRequests /\ captureSem' \in BOOLEAN
        BY <1>t, <2>4, <3>1, Zenon DEF ImageT
      <3>3. freed' \subseteq Numbers
        BY <1>t, <2>4, <2>5 DEF ImageT
      <3> QED BY <1>t, <2>4, <3>2, <3>3, Zenon DEF ImageT
    <2>7. DamageT'
      BY <1>t, <1>13 DEF OnEvent, Free, DamageT
    <2>8. UNCHANGED <<visionCall, request, requestPc, numbered, chipReply, givenUp, answered, chip, shots,
                      chipWire, dispatch, capture>>
      BY <1>13 DEF OnEvent, requestVars, chipVars
    <2> QED BY <2>3, <2>6, <2>7, <2>8, UntouchedTypes, VisionTypesNext
  <1>14. CASE CaptureBegin
    <2>1. capture' \in {At("clear", 0), At("drain", 0)}
      BY <1>14 DEF CaptureBegin
    <2>2. CaptureT'
      <3>1. /\ At("clear", 0) \in [pc : {"clear", "drain", "sample", "wait", "check", "take", "forget"},
                                   n : 0..MaxRequests]
            /\ At("drain", 0) \in [pc : {"clear", "drain", "sample", "wait", "check", "take", "forget"},
                                   n : 0..MaxRequests]
        BY VisionPlaces
      <3> QED BY <2>1, <3>1, Zenon DEF CaptureT
    <2>3. freed' \in {freed, freed \cup {image}} /\ (image = 0 => freed' = freed)
          /\ UNCHANGED <<image, captureSem, handed>>
      BY <1>14 DEF CaptureBegin, Free
    <2>4. image # 0 => image \in Numbers
      BY <1>t, VisionAssumption DEF ImageT, Numbers
    <2>5. ImageT'
      BY <1>t, <2>3, <2>4 DEF ImageT
    <2>6. DamageT'
      BY <1>t, <1>14 DEF CaptureBegin, Free, DamageT
    <2>7. UNCHANGED <<visionCall, request, requestPc, numbered, chipReply, givenUp, answered, chip, shots,
                      chipWire, dispatch, queue, callback>>
      BY <1>14 DEF CaptureBegin, requestVars, chipVars
    <2> QED BY <2>2, <2>5, <2>6, <2>7, UntouchedTypes, VisionTypesNext
  <1>15. CASE CaptureClear
    <2>1. CaptureT'
      BY <1>t, <1>15, VisionAssumption DEF CaptureClear, CaptureT, CallT, Resting, At
    <2>2. ImageT'
      BY <1>t, <1>15, VisionAssumption DEF CaptureClear, ImageT, QueueT, CaptureT, Resting, At
    <2>3. UNCHANGED <<visionCall, request, requestPc, numbered, chipReply, givenUp,
                      answered, chip, shots, chipWire, dispatch, queue, callback, damage>>
      BY <1>15 DEF CaptureClear, requestVars, chipVars, cameraVars
    <2> QED BY <2>1, <2>2, <2>3, UntouchedTypes, VisionTypesNext
  <1>16. CASE CaptureDrain
    <2>1. CaptureT'
      BY <1>t, <1>16, VisionAssumption DEF CaptureDrain, CaptureT, CallT, Resting, At
    <2>2. ImageT'
      BY <1>t, <1>16, VisionAssumption DEF CaptureDrain, ImageT, QueueT, CaptureT, Resting, At
    <2>3. UNCHANGED <<visionCall, request, requestPc, numbered, chipReply, givenUp,
                      answered, chip, shots, chipWire, dispatch, queue, callback, damage>>
      BY <1>16 DEF CaptureDrain, requestVars, chipVars, cameraVars
    <2> QED BY <2>1, <2>2, <2>3, UntouchedTypes, VisionTypesNext
  <1>17. CASE CaptureWaits
    <2>1. GivenT'
      <3>1. capture.n \in Numbers
        BY <1>t, <1>17, VisionAssumption DEF CaptureWaits, Numbering, CallT, Numbers
      <3>2. [cmd |-> "SAMPLE", n |-> capture.n] \in RequestIds
        BY <3>1 DEF RequestIds, Commands
      <3> QED BY <1>t, <1>17, <3>2 DEF CaptureWaits, GivenT
    <2>2. CaptureT'
      BY <1>t, <1>17, VisionAssumption DEF CaptureWaits, CaptureT, CallT, Resting, At
    <2>3. ImageT'
      BY <1>t, <1>17, VisionAssumption DEF CaptureWaits, ImageT, QueueT, CaptureT, Resting, At
    <2>4. UNCHANGED <<visionCall, request, requestPc, numbered, chip, shots, chipWire,
                      dispatch, queue, callback, damage>>
      BY <1>17 DEF CaptureWaits, requestVars, chipVars, cameraVars
    <2> QED BY <2>1, <2>2, <2>3, <2>4, UntouchedTypes, VisionTypesNext
  <1>18. CASE CaptureChecks
    <2>1. CaptureT'
      BY <1>t, <1>18, VisionAssumption DEF CaptureChecks, CaptureT, CallT, Resting, At
    <2>2. UNCHANGED <<visionCall, request, requestPc, numbered, chipReply, givenUp,
                      answered, chip, shots, chipWire, dispatch, queue, callback, image,
                      freed, captureSem, handed, damage>>
      BY <1>18 DEF CaptureChecks, requestVars, chipVars, cameraVars
    <2> QED BY <2>1, <2>2, UntouchedTypes, VisionTypesNext
  <1>19. CASE CaptureTakes
    <2>1. CaptureT'
      BY <1>t, <1>19, VisionAssumption DEF CaptureTakes, CaptureT, CallT, Resting, At
    <2>2. ImageT'
      BY <1>t, <1>19, VisionAssumption DEF CaptureTakes, ImageT, QueueT, CaptureT, Resting, At
    <2>3. UNCHANGED <<visionCall, request, requestPc, numbered, chipReply, givenUp,
                      answered, chip, shots, chipWire, dispatch, queue, callback, damage>>
      BY <1>19 DEF CaptureTakes, requestVars, chipVars, cameraVars
    <2> QED BY <2>1, <2>2, <2>3, UntouchedTypes, VisionTypesNext
  <1>20. CASE CaptureForgets
    <2>1. CaptureT'
      BY <1>t, <1>20, VisionAssumption DEF CaptureForgets, CaptureT, CallT, Resting, At
    <2>2. ImageT'
      BY <1>t, <1>20, VisionPlaces DEF CaptureForgets, ImageT
    <2>3. DamageT'
      BY <1>t, <1>20, VisionAssumption DEF CaptureForgets, DamageT
    <2>4. UNCHANGED <<visionCall, request, requestPc, numbered, chipReply, givenUp,
                      answered, chip, shots, chipWire, dispatch, queue, callback>>
      BY <1>20 DEF CaptureForgets, requestVars, chipVars, cameraVars
    <2> QED BY <2>1, <2>2, <2>3, <2>4, UntouchedTypes, VisionTypesNext
  <1>21. CASE UNCHANGED visionVars
    BY <1>21, UntouchedTypes, VisionTypesNext DEF visionVars, requestVars, chipVars, cameraVars
  <1> QED BY <1>1, <1>2, <1>3, <1>4, <1>5, <1>6, <1>7, <1>8, <1>9, <1>10, <1>11, <1>12,
             <1>13, <1>14, <1>15, <1>16, <1>17, <1>18, <1>19, <1>20, <1>21, <1>22 DEF VisionNext

(* Every step preserves the numbering of requests.                          *)
LEMMA NumberingKeeps == VisionTypeOK /\ Numbering /\ [VisionNext]_visionVars => Numbering'
  <1> SUFFICES ASSUME VisionTypeOK, Numbering, [VisionNext]_visionVars PROVE Numbering'
    OBVIOUS
  <1> USE DEF requestVars, chipVars, cameraVars
  <1>t. CallT /\ numbered \in Nat /\ (requestPc # "rest" => request \in RequestIds /\ request.n \in Nat)
        /\ (visionCall # NoCall => visionCall \in [fn : Functions, step : 1..3])
    <2>1. CallT /\ (requestPc # "rest" => request \in RequestIds)
      BY VisionTypes, VisionPlaces
    <2>2. request \in RequestIds => request.n \in Nat
      BY VisionAssumption DEF RequestIds, Numbers
    <2>3. numbered \in Nat /\ (visionCall # NoCall => visionCall \in [fn : Functions, step : 1..3])
      BY <2>1, VisionAssumption DEF CallT
    <2> QED BY <2>1, <2>2, <2>3
  <1>s. At("rest", 0) = Resting /\ Resting.pc = "rest" /\ \A p, n : At(p, n).pc = p /\ At(p, n).n = n
    BY DEF At, Resting
  <1>0. ASSUME UNCHANGED <<requestPc, request, visionCall, numbered, capture, givenUp>> PROVE Numbering'
    BY <1>0 DEF Numbering
  <1>1. ASSUME NEW fn \in Functions, CallBegin(fn) PROVE Numbering'
    <2>1. visionCall' # NoCall /\ visionCall'.step = 1 /\ visionCall'.fn = fn /\ 1 <= Len(Script[fn])
      <3>1. fn # "none"
        BY FunctionsAssumption
      <3>2. fn \in {"info", "model", "sample", "set_info"}
        BY FunctionsAssumption
      <3>3. 1 <= Len(Script[fn])
        BY <3>2 DEF Script
      <3> QED BY <1>1, <3>1, <3>3 DEF CallBegin, NoCall
    <2>2. UNCHANGED <<requestPc, request, numbered, capture, givenUp>> /\ request = NoRequest
          /\ capture.pc \notin {"wait", "check", "take", "forget"}
      BY <1>1, <1>s DEF CallBegin, Numbering
    <2> QED BY <1>1, <2>1, <2>2 DEF CallBegin, Numbering
  <1>2. CASE RequestBegin
    <2>1. visionCall \in [fn : Functions, step : 1..3] /\ visionCall.step <= Len(Script[visionCall.fn])
      BY <1>t, <1>2 DEF RequestBegin, Numbering
    <2>2. /\ request' = [cmd |-> Script[visionCall.fn][visionCall.step], n |-> numbered + 1]
          /\ requestPc' = "write" /\ numbered' = numbered + 1
          /\ UNCHANGED <<visionCall, capture, givenUp>> /\ visionCall # NoCall
      BY <1>2 DEF RequestBegin
    <2>3. numbered + 1 # 0 /\ \A r \in givenUp : r.n <= numbered + 1
      <3>1. \A r \in givenUp : r.n \in Nat /\ r.n <= numbered
        BY VisionTypes DEF GivenT, RequestIds, Numbers, Numbering
      <3>2. numbered \in Nat
        BY <1>t DEF CallT
      <3> QED BY <3>1, <3>2
    <2>4. request'.n = numbered' /\ request' # NoRequest
          /\ (request'.cmd = "SAMPLE" <=> visionCall.fn = "sample")
      BY <2>1, <2>2, <2>3, ScriptFacts DEF NoRequest
    <2> QED BY <2>2, <2>3, <2>4 DEF Numbering
  <1>3. CASE RequestWrite
    BY <1>3 DEF RequestWrite, Numbering
  <1>4. CASE RequestAnswered
    BY <1>4 DEF RequestAnswered, Numbering
  <1>5. CASE RequestTimeout
    BY <1>5, <1>t DEF RequestTimeout, Numbering
  <1>6. CASE RequestUnlist
    BY <1>6 DEF RequestUnlist, Numbering
  <1>7. CASE RequestDelete
    <2>1. /\ requestPc' = "rest" /\ request' = NoRequest /\ UNCHANGED <<numbered, givenUp>>
          /\ requestPc # "rest" /\ visionCall # NoCall /\ request.n = numbered
          /\ (request.cmd = "SAMPLE" <=> visionCall.fn = "sample")
      BY <1>7 DEF RequestDelete, Numbering
    <2>5. numbered > 0
      BY <2>1, VisionPlaces, VisionAssumption DEF Numbers
    <2>2. visionCall \in [fn : Functions, step : 1..3] /\ visionCall.step <= Len(Script[visionCall.fn])
      BY <1>t, <2>1 DEF Numbering
    <2>3. CASE visionCall.fn # "sample"
      <3>1. capture' = capture /\ capture = Resting
        <4>1. capture' = capture
          BY <1>7, <2>3 DEF RequestDelete
        <4> QED BY <2>1, <2>3, <4>1 DEF Numbering
      <3>2. \/ visionCall' = NoCall
            \/ visionCall' = [visionCall EXCEPT !.step = @ + 1] /\ visionCall.step # Len(Script[visionCall.fn])
        BY <1>7 DEF RequestDelete
      <3>3. visionCall' # NoCall => visionCall'.fn = visionCall.fn /\ visionCall'.step <= Len(Script[visionCall.fn])
        BY <2>2, <3>2, ScriptFacts
      <3> QED BY <1>s, <2>1, <2>3, <3>1, <3>3 DEF Numbering
    <2>4. CASE visionCall.fn = "sample"
      <3>1. Len(Script["sample"]) = 1
        BY DEF Script
      <3>2. visionCall.step = Len(Script[visionCall.fn])
        BY <2>2, <2>4, <3>1
      <3>3. visionCall' = NoCall /\ capture' \in {At("wait", request.n), Resting}
        BY <1>7, <2>4, <3>2 DEF RequestDelete
      <3> QED BY <1>s, <2>1, <2>5, <3>3 DEF Numbering
    <2> QED BY <2>3, <2>4
  <1>8. CASE ChipAnswers \/ ChipShoots \/ Dispatch \/ Deliver \/ MonitorTakes \/ OnEvent
    BY <1>0, <1>8 DEF ChipAnswers, ChipShoots, Dispatch, Deliver, MonitorTakes, OnEvent
  <1>15. CASE WalkFirst \/ WalkNext \/ Compare
    BY <1>0, <1>15, WalkSteps
  <1>9. ASSUME UNCHANGED <<requestPc, request, visionCall, numbered>>,
               givenUp' = givenUp \/ givenUp' = givenUp \cup {[cmd |-> "SAMPLE", n |-> numbered]},
               visionCall = NoCall,
               capture'.pc \in {"wait", "check", "take", "forget"} => capture'.n = numbered /\ numbered > 0
        PROVE  Numbering'
    BY <1>t, <1>9 DEF Numbering
  <1>10. CASE CaptureBegin
    BY <1>10, <1>s, <1>9 DEF CaptureBegin
  <1>11. CASE CaptureClear
    <2>1. capture' = At("drain", 0) /\ capture.pc = "clear" /\ UNCHANGED <<requestPc,
                                                                           request,
                                                                           visionCall,
                                                                           numbered,
                                                                           givenUp>>
      BY <1>11 DEF CaptureClear
    <2>2. visionCall = NoCall
      BY <2>1, <1>s DEF Numbering
    <2> QED BY <2>1, <2>2, <1>s, <1>9
  <1>12. CASE CaptureDrain
    <2>1. capture' = At("sample", 0) /\ capture.pc = "drain" /\ UNCHANGED <<requestPc,
                                                                            request,
                                                                            visionCall,
                                                                            numbered,
                                                                            givenUp>>
      BY <1>12 DEF CaptureDrain
    <2>2. visionCall = NoCall
      BY <2>1, <1>s DEF Numbering
    <2> QED BY <2>1, <2>2, <1>s, <1>9
  <1>13. CASE CaptureWaits \/ CaptureChecks \/ CaptureTakes \/ CaptureForgets
    <2>1. capture.pc \in {"wait", "check", "take", "forget"} /\ UNCHANGED <<requestPc,
                                                                            request,
                                                                            visionCall,
                                                                            numbered>>
          /\ (givenUp' = givenUp \/ givenUp' = givenUp \cup {[cmd |-> "SAMPLE", n |-> capture.n]})
          /\ \E pc \in {"check", "take", "forget", "rest"} : capture' = At(pc, capture.n) \/ capture' = Resting
      BY <1>13 DEF CaptureWaits, CaptureChecks, CaptureTakes, CaptureForgets
    <2>2. visionCall = NoCall /\ capture.n = numbered /\ numbered > 0
      BY <2>1 DEF Numbering
    <2>3. capture'.pc \in {"wait", "check", "take", "forget"} => capture'.n = numbered
      BY <1>s, <2>1, <2>2
    <2> QED BY <2>1, <2>2, <2>3, <1>9
  <1>14. CASE UNCHANGED visionVars
    BY <1>0, <1>14 DEF visionVars
  <1> QED BY <1>1, <1>2, <1>3, <1>4, <1>5, <1>6, <1>7, <1>8, <1>10, <1>11, <1>12, <1>13,
             <1>14, <1>15 DEF VisionNext

(* The types, element by element.                                           *)
LEMMA ReplyShapes ==
  ASSUME VisionTypeOK
  PROVE  /\ numbered \in Nat /\ chip \in Seq(RequestIds) /\ chipWire \in Seq(Replies) /\ queue \in Seq(Replies)
         /\ \A x \in Elems(chip) : x \in RequestIds
         /\ \A x \in Elems(chipWire) : x \in Replies
         /\ \A x \in Elems(queue) : x \in Replies
         /\ \A x \in RequestIds : x.cmd \in Commands /\ x.n \in Nat /\ x.n >= 1
         /\ \A x \in Replies : x.n \in Nat /\ x.n >= 1
         /\ NoReply \notin Replies /\ NoReply.n = 0
         /\ dispatch.reply # NoReply => dispatch.reply \in Replies
         /\ dispatch.at # "rest" => dispatch.reply \in Replies
         /\ chipReply # NoReply => chipReply \in Replies
         /\ \A r \in givenUp : r \in RequestIds
         /\ NoRequest.n = 0 /\ dispatch.to \in Nat
  <1>1. CallT /\ GivenT /\ ChipT /\ HandT /\ QueueT
    BY VisionTypes
  <1>2. numbered \in Nat /\ chip \in Seq(RequestIds) /\ chipWire \in Seq(Replies) /\ queue \in Seq(Replies)
        /\ dispatch.to \in Nat
    BY <1>1, HandParts, VisionAssumption DEF CallT, ChipT, QueueT
  <1>3. \A x \in RequestIds : x.cmd \in Commands /\ x.n \in Nat /\ x.n >= 1
    BY DEF RequestIds, Numbers
  <1>4. \A x \in Replies : x.n \in Nat /\ x.n >= 1
    BY DEF Replies, Numbers
  <1>5. NoReply \notin Replies /\ NoReply.n = 0 /\ NoRequest.n = 0
    BY DEF NoReply, Replies, NoRequest
  <1>6. /\ \A x \in Elems(chip) : x \in RequestIds
        /\ \A x \in Elems(chipWire) : x \in Replies
        /\ \A x \in Elems(queue) : x \in Replies
    BY <1>2, ElemsIn
  <1> QED BY <1>1, <1>2, <1>3, <1>4, <1>5, <1>6, HandParts DEF GivenT

(* What is said of the process task's hand holds until the request ends.    *)
LEMMA HandUntouched ==
  ASSUME HandMeant, givenUp \subseteq givenUp', UNCHANGED <<dispatch, numbered>>,
         requestPc' # "rest" => requestPc # "rest" /\ request' = request,
         \A x : Expected(x) => Expected(x)'
  PROVE  HandMeant'
  <1>1. \A x : Late(x) => Late(x)'
    BY DEF Late
  <1>2. Answering' = Answering /\ WalksOwn' = WalksOwn
    BY DEF Answering, WalksOwn
  <1>3. Alive(dispatch.to)' => Alive(dispatch.to) /\ request' = request
    BY DEF Alive
  <1> QED BY <1>1, <1>2, <1>3 DEF HandMeant

(* An empty hand.                                                           *)
LEMMA HandEmptied ==
  ASSUME VisionTypeOK, dispatch' = Undispatched, UNCHANGED numbered
  PROVE  HandMeant' /\ ~HeldOwn' /\ ~HeldShot'
  <1>1. dispatch'.reply = NoReply /\ dispatch'.at = "rest" /\ dispatch'.to = 0 /\ numbered' \in Nat
        /\ NoReply \notin Replies
    BY HandParts, ReplyShapes
  <1>2. 0 <= numbered'
    BY <1>1
  <1> QED BY <1>1, <1>2 DEF HandMeant, Answering, HeldOwn, OwnReplies, HeldShot, Events

(* Steps that leave request, lines and dispatcher alone preserve what is    *)
(* said of replies.                                                         *)
LEMMA RepliesUntouched ==
  ASSUME Replying, givenUp \subseteq givenUp',
         UNCHANGED <<chip, chipWire, dispatch, request, requestPc, chipReply, numbered>>
  PROVE  Replying'
  <1>1. \A x : Late(x) => Late(x)'
    BY DEF Late
  <1>2. \A x : Expected(x) => Expected(x)'
    BY <1>1 DEF Expected, Current
  <1>3. InFlight'
    BY <1>1, <1>2, HandUntouched DEF Replying, InFlight
  <1>4. OwnOnce' /\ ChipOwn' = ChipOwn /\ WireOwn' = WireOwn /\ HeldOwn' = HeldOwn
    BY DEF Replying, OwnOnce, ChipOwn, WireOwn, HeldOwn, OwnCommands, OwnReplies
  <1>5. ReplyHeld'
    BY <1>1, <1>4 DEF Replying, ReplyHeld
  <1> QED BY <1>3, <1>4, <1>5 DEF Replying

(* So does the end of a request for what is on its way, once nothing of it  *)
(* is current any more.                                                     *)
LEMMA LinesUntouched ==
  ASSUME VisionTypeOK, Replying, givenUp \subseteq givenUp', UNCHANGED <<chip, chipWire, dispatch, numbered>>,
         \A x : Current(x) => Current(x)' \/ Late(x)',
         requestPc' # "rest" => requestPc # "rest" /\ request' = request,
         requestPc' # "write", requestPc # "write" \/ requestPc' # "wait"
  PROVE  InFlight' /\ OwnOnce'
  <1>1. \A x : Late(x) => Late(x)'
    BY DEF Late
  <1>2. \A x : Expected(x) => Expected(x)'
    BY <1>1 DEF Expected
  <1>3. InFlight'
    BY <1>1, <1>2, HandUntouched DEF Replying, InFlight
  <1>4. OwnOnce'
    BY DEF Replying, OwnOnce, ChipOwn, WireOwn, HeldOwn, OwnCommands, OwnReplies
  <1> QED BY <1>3, <1>4

(* The steps of a request preserve it: a new number makes everything on its *)
(* way late.                                                                *)
LEMMA RequestsKeepReplies ==
  ASSUME VisionTypeOK, Numbering, Replying,
         RequestBegin \/ RequestWrite \/ RequestAnswered \/ RequestTimeout \/ RequestUnlist \/ RequestDelete
  PROVE  Replying'
  <1> USE DEF requestVars, chipVars, cameraVars
  <1>s. InFlight /\ OwnOnce /\ ReplyHeld
    BY DEF Replying
  <1>l. givenUp \subseteq givenUp' /\ \A x : Late(x) => Late(x)'
    <2>1. givenUp \subseteq givenUp'
      BY DEF RequestBegin, RequestWrite, RequestAnswered, RequestTimeout, RequestUnlist,
         RequestDelete
    <2> QED BY <2>1 DEF Late
  <1>1. CASE RequestBegin
    <2>1. /\ UNCHANGED <<chip, chipWire, dispatch, givenUp>> /\ numbered' = numbered + 1
          /\ requestPc = "rest" /\ requestPc' = "write" /\ chipReply' = NoReply /\ request'.n = numbered + 1
      BY <1>1 DEF RequestBegin
    <2>2. \A x : x.n \in Nat /\ Expected(x) => Late(x)' /\ Expected(x)' /\ x.n # numbered'
      BY <2>1, <1>l, ReplyShapes DEF Expected, Current
    <2>3. InFlight'
      <3>1. ~Alive(dispatch.to)' /\ dispatch.to <= numbered'
        BY <1>s, <2>1, ReplyShapes DEF InFlight, HandMeant, Alive
      <3>2. Answering => Expected(dispatch.reply)' /\ Late(dispatch.reply)'
        <4>1. Answering => dispatch.reply.n \in Nat
          BY ReplyShapes DEF Answering
        <4>2. Answering => Expected(dispatch.reply)
          BY <1>s DEF InFlight, HandMeant
        <4>3. Answering => Expected(dispatch.reply)' /\ Late(dispatch.reply)'
          BY <2>1, <2>2, <4>1, <4>2 DEF Expected, Late, Current
        <4> QED BY <4>3
      <3>4. HandMeant'
        BY <1>s, <2>1, <3>1, <3>2 DEF InFlight, HandMeant, Answering
      <3>3. (\A x \in Elems(chip) : Expected(x)') /\ (\A x \in Elems(chipWire) : x.type # "event" => Expected(x)')
        BY <1>s, <2>2, ReplyShapes DEF InFlight
      <3> QED BY <2>1, <3>3, <3>4 DEF InFlight
    <2>4. /\ \A x \in Elems(chip') : x \notin OwnCommands'
          /\ \A x \in Elems(chipWire') : x \notin OwnReplies'
          /\ dispatch'.reply \notin OwnReplies'
      <3>1. \A x \in Elems(chip) : x.n # numbered'
        BY <1>s, <2>2, ReplyShapes DEF InFlight
      <3>2. \A x \in Elems(chipWire) : x.type # "event" => x.n # numbered'
        BY <1>s, <2>2, ReplyShapes DEF InFlight
      <3>3. dispatch.reply \in Replies /\ dispatch.reply.type # "event" => dispatch.reply.n # numbered'
        <4>1. dispatch.reply \in Replies => dispatch.reply # NoReply /\ dispatch.reply.n \in Nat
          BY ReplyShapes
        <4>2. Answering => Expected(dispatch.reply)
          BY <1>s DEF InFlight, HandMeant
        <4> QED BY <2>2, <4>1, <4>2 DEF Answering
      <3> QED BY <2>1, <3>1, <3>2, <3>3 DEF OwnCommands, OwnReplies
    <2>5. OwnOnce'
      BY <2>4, NoneOnce DEF OwnOnce, ChipOwn, WireOwn, HeldOwn
    <2> QED BY <2>1, <2>3, <2>5 DEF Replying, ReplyHeld
  <1>2. CASE RequestWrite
    <2>1. /\ UNCHANGED <<chipWire, dispatch, givenUp, request, chipReply, numbered>>
          /\ requestPc = "write" /\ request.n = numbered /\ request \in RequestIds
      BY <1>2, VisionPlaces DEF RequestWrite, Numbering
    <2>2. \A x : Expected(x) => Late(x) /\ Expected(x)'
      BY <2>1, <1>l DEF Expected, Current
    <2>3. chipReply # NoReply => Late(chipReply) /\ Late(request)
      <3>1. SUFFICES ASSUME chipReply # NoReply PROVE Late(chipReply) /\ Late(request)
        OBVIOUS
      <3>2. Late(chipReply) /\ Mentions(chipReply.cmd, request.cmd) /\ chipReply.n <= numbered
        BY <1>s, <2>1, <3>1 DEF ReplyHeld
      <3>3. PICK r \in givenUp : Mentions(r.cmd, chipReply.cmd) /\ r.n <= chipReply.n
        BY <3>2 DEF Late
      <3>4. Mentions(r.cmd, request.cmd)
        BY <3>2, <3>3, MentionsChain
      <3>5. r.n <= request.n
        BY <2>1, <3>1, <3>2, <3>3, ReplyShapes
      <3> QED BY <3>2, <3>4, <3>5 DEF Late
    <2>4. OwnCommands' = OwnCommands /\ OwnReplies' = OwnReplies
      BY <2>1 DEF OwnCommands, OwnReplies
    <2>5. WireOwn' = WireOwn /\ HeldOwn' = HeldOwn /\ ~ChipOwn /\ ~WireOwn /\ ~HeldOwn
      BY <1>s, <2>1, <2>4 DEF WireOwn, HeldOwn, OwnOnce
    <2>6. ReplyHeld'
      BY <1>s, <1>l, <1>2, <2>1, <2>3 DEF ReplyHeld, RequestWrite
    <2>9. HandMeant'
      <3>1. givenUp \subseteq givenUp' /\ (requestPc' # "rest" => requestPc # "rest" /\ request' = request)
        BY <1>l, <2>1
      <3> QED BY <1>s, <2>1, <2>2, <3>1, HandUntouched DEF InFlight
    <2>7. CASE requestPc' = "wait" /\ chip' = Append(chip, request)
      <3>1. Elems(chip') = Elems(chip) \cup {request} /\ Once(chip', OwnCommands)
        <4>1. \A x \in Elems(chip) : x \notin OwnCommands
          BY <2>5 DEF ChipOwn
        <4>2. Once(chip, OwnCommands)
          BY <1>s DEF OwnOnce
        <4> QED BY <2>1, <2>7, <4>1, <4>2, AppendElems, ReplyShapes
      <3>2. Expected(request)'
        BY <1>l, <2>1, <2>3, <2>7, ReplyShapes DEF Expected, Current
      <3>3. InFlight'
        BY <1>s, <1>l, <2>1, <2>2, <2>9, <3>1, <3>2 DEF InFlight
      <3>4. OwnOnce'
        BY <1>s, <2>1, <2>4, <2>5, <2>7, <3>1 DEF OwnOnce
      <3> QED BY <2>6, <3>3, <3>4 DEF Replying
    <2>8. CASE requestPc' = "unlist" /\ chip' = chip
      <3>1. InFlight'
        BY <1>s, <1>l, <2>1, <2>2, <2>8, <2>9 DEF InFlight
      <3>2. OwnOnce'
        BY <1>s, <2>1, <2>4, <2>5, <2>8 DEF OwnOnce, ChipOwn
      <3> QED BY <2>6, <3>1, <3>2 DEF Replying
    <2> QED BY <1>2, <2>7, <2>8 DEF RequestWrite
  <1>3. CASE RequestAnswered
    <2>1. /\ UNCHANGED <<chip, chipWire, dispatch, givenUp, request, numbered>> /\ chipReply # NoReply
          /\ chipReply' = NoReply /\ requestPc' = "unlist" /\ requestPc = "wait"
      BY <1>3 DEF RequestAnswered
    <2>2. InFlight' /\ OwnOnce'
      BY <1>l, <2>1, LinesUntouched DEF Current
    <2> QED BY <2>1, <2>2 DEF Replying, ReplyHeld
  <1>4. CASE RequestTimeout
    <2>1. /\ UNCHANGED <<chip, chipWire, dispatch, request, numbered, chipReply>> /\ chipReply = NoReply
          /\ requestPc' = "unlist" /\ requestPc = "wait" /\ givenUp' = givenUp \cup {request}
          /\ request.n = numbered
      BY <1>4 DEF RequestTimeout, Numbering
    <2>2. ASSUME NEW x, Current(x) PROVE Late(x)'
      <3>1. request \in givenUp' /\ Mentions(request.cmd, x.cmd) /\ request.n <= x.n
        BY <2>1, <2>2, MentionsChain, ReplyShapes DEF Current
      <3> QED BY <3>1 DEF Late
    <2>3. InFlight' /\ OwnOnce'
      BY <1>l, <2>1, <2>2, LinesUntouched
    <2> QED BY <2>1, <2>3 DEF Replying, ReplyHeld
  <1>5. CASE RequestUnlist
    <2>1. /\ UNCHANGED <<chip, chipWire, dispatch, request, numbered, chipReply, givenUp>>
          /\ requestPc = "unlist" /\ requestPc' = "delete"
      BY <1>5 DEF RequestUnlist
    <2>2. InFlight' /\ OwnOnce'
      BY <1>l, <2>1, LinesUntouched DEF Current
    <2>3. ReplyHeld'
      BY <1>s, <1>l, <2>1 DEF ReplyHeld
    <2> QED BY <2>2, <2>3 DEF Replying
  <1>6. CASE RequestDelete
    <2>1. /\ UNCHANGED <<chip, chipWire, dispatch, numbered, givenUp>> /\ request' = NoRequest
          /\ requestPc = "delete" /\ requestPc' = "rest" /\ chipReply' = NoReply
      BY <1>6 DEF RequestDelete
    <2>2. InFlight' /\ OwnOnce'
      BY <1>l, <2>1, LinesUntouched DEF Current
    <2> QED BY <2>1, <2>2 DEF Replying, ReplyHeld
  <1> QED BY <1>1, <1>2, <1>3, <1>4, <1>5, <1>6

(* The chip's steps preserve it.                                            *)
LEMMA ChipKeepsReplies ==
  ASSUME VisionTypeOK, Numbering, Replying, ChipAnswers \/ ChipShoots
  PROVE  Replying'
  <1> USE DEF requestVars, chipVars, cameraVars
  <1>s. InFlight /\ OwnOnce /\ ReplyHeld
    BY DEF Replying
  <1>u. UNCHANGED <<givenUp, dispatch, request, requestPc, chipReply, numbered>>
    BY DEF ChipAnswers, ChipShoots
  <1>l. (\A x : Late(x) => Late(x)') /\ (\A x : Expected(x) => Expected(x)')
    BY <1>u DEF Late, Expected, Current
  <1>o. OwnCommands' = OwnCommands /\ OwnReplies' = OwnReplies /\ HeldOwn' = HeldOwn
    BY <1>u DEF OwnCommands, OwnReplies, HeldOwn
  <1>h. HandMeant'
    BY <1>s, <1>u, <1>l, HandUntouched DEF InFlight
  <1>1. CASE ChipAnswers
    <2> DEFINE asked == Head(chip)
    <2>1. chip # <<>> /\ chip' = Tail(chip)
      BY <1>1 DEF ChipAnswers
    <2>2. asked \in Elems(chip) /\ asked \in RequestIds /\ Elems(chip') \subseteq Elems(chip)
          /\ Once(chip', OwnCommands)
          /\ (asked \in OwnCommands => \A x \in Elems(chip') : x \notin OwnCommands)
      <3>1. Once(chip, OwnCommands)
        BY <1>s DEF OwnOnce
      <3> QED BY <2>1, <3>1, TailElems, ReplyShapes
    <2>3. ChipOwn' => ChipOwn /\ asked \notin OwnCommands
      BY <1>o, <2>2 DEF ChipOwn
    <2>4. CASE chipWire' = chipWire
      <3>1. WireOwn' = WireOwn
        BY <1>o, <2>4 DEF WireOwn
      <3>2. InFlight'
        BY <1>s, <1>l, <1>h, <2>2, <2>4 DEF InFlight
      <3>3. OwnOnce'
        BY <1>s, <1>o, <1>u, <2>2, <2>3, <2>4, <3>1 DEF OwnOnce
      <3>4. ReplyHeld'
        BY <1>s, <1>l, <1>o, <1>u, <2>3, <3>1 DEF ReplyHeld
      <3> QED BY <3>2, <3>3, <3>4 DEF Replying
    <2>5. ASSUME NEW type \in {"response", "log"},
                 chipWire' = Append(chipWire, [type |-> type, cmd |-> asked.cmd, n |-> asked.n])
          PROVE  Replying'
      <3> DEFINE y == [type |-> type, cmd |-> asked.cmd, n |-> asked.n]
      <3>1. y \in Replies /\ y.type # "event" /\ y.n = asked.n /\ y.cmd = asked.cmd
        BY <2>2 DEF Replies, RequestIds
      <3>2. Expected(y)
        BY <1>s, <2>2, <3>1 DEF InFlight, Expected, Current, Late
      <3>3. y \in OwnReplies <=> asked \in OwnCommands
        BY <2>2, <3>1 DEF OwnReplies, OwnCommands
      <3> HIDE DEF y, asked
      <3>4. Elems(chipWire') = Elems(chipWire) \cup {y}
            /\ (Once(chipWire, OwnReplies) /\ (y \notin OwnReplies \/ \A x \in Elems(chipWire) : x \notin OwnReplies)
                  => Once(chipWire', OwnReplies))
        BY <2>5, <3>1, AppendElems, ReplyShapes DEF y
      <3>5. asked \in OwnCommands => ChipOwn /\ ~WireOwn /\ ~HeldOwn
        BY <1>s, <2>2 DEF ChipOwn, OwnOnce
      <3>6. Once(chipWire', OwnReplies)
        BY <1>s, <3>3, <3>4, <3>5 DEF OwnOnce, WireOwn
      <3>7. WireOwn' <=> (WireOwn \/ asked \in OwnCommands)
        BY <1>o, <3>3, <3>4 DEF WireOwn
      <3>8. InFlight'
        BY <1>s, <1>l, <1>h, <2>2, <3>1, <3>2, <3>4 DEF InFlight
      <3>9. OwnOnce'
        <4>1. asked \in OwnCommands => ~ChipOwn'
          BY <2>3
        <4>2. ChipOwn' => ~WireOwn' /\ ~HeldOwn'
          BY <1>s, <1>o, <2>3, <3>7 DEF OwnOnce
        <4>3. WireOwn' => ~HeldOwn'
          BY <1>s, <1>o, <3>5, <3>7 DEF OwnOnce
        <4>4. requestPc' = "write" => ~ChipOwn' /\ ~WireOwn' /\ ~HeldOwn'
          BY <1>s, <1>o, <1>u, <2>3, <3>5, <3>7 DEF OwnOnce
        <4> QED BY <1>o, <2>2, <3>6, <4>2, <4>3, <4>4 DEF OwnOnce
      <3>10. ReplyHeld'
        BY <1>s, <1>l, <1>o, <1>u, <2>3, <3>5, <3>7 DEF ReplyHeld
      <3> QED BY <3>8, <3>9, <3>10 DEF Replying
    <2> QED BY <1>1, <2>4, <2>5 DEF ChipAnswers
  <1>2. CASE ChipShoots
    <2>1. PICK n \in shots : /\ shots' = shots \ {n} /\ chip' = chip
                             /\ chipWire' = Append(chipWire, [type |-> "event", cmd |-> "SAMPLE", n |-> n])
      BY <1>2 DEF ChipShoots
    <2> DEFINE y == [type |-> "event", cmd |-> "SAMPLE", n |-> n]
    <2>2. y \in Replies /\ y.type = "event"
      BY VisionTypes DEF ChipT, Replies, Commands
    <2>3. y \notin OwnReplies
      BY <2>2 DEF OwnReplies
    <2> HIDE DEF y
    <2>4. Elems(chipWire') = Elems(chipWire) \cup {y} /\ (Once(chipWire, OwnReplies) => Once(chipWire', OwnReplies))
      BY <2>1, <2>2, <2>3, AppendElems, ReplyShapes DEF y
    <2>5. WireOwn' = WireOwn /\ ChipOwn' = ChipOwn
      BY <1>o, <2>1, <2>3, <2>4 DEF WireOwn, ChipOwn
    <2>6. InFlight'
      BY <1>s, <1>l, <1>h, <2>1, <2>2, <2>4 DEF InFlight
    <2>7. OwnOnce'
      BY <1>s, <1>o, <1>u, <2>1, <2>4, <2>5 DEF OwnOnce
    <2>8. ReplyHeld'
      BY <1>s, <1>l, <1>o, <1>u, <2>5 DEF ReplyHeld
    <2> QED BY <2>6, <2>7, <2>8 DEF Replying
  <1> QED BY <1>1, <1>2

(* Taking the next reply in hand preserves it.                              *)
LEMMA DispatchKeepsReplies ==
  ASSUME VisionTypeOK, Numbering, Replying, Dispatch
  PROVE  Replying'
  <1> USE DEF requestVars, chipVars, cameraVars
  <1>s. InFlight /\ OwnOnce /\ ReplyHeld
    BY DEF Replying
  <1>u. UNCHANGED <<givenUp, chip, request, requestPc, chipReply, numbered>>
    BY DEF Dispatch
  <1>l. (\A x : Late(x) => Late(x)') /\ (\A x : Expected(x) => Expected(x)')
    BY <1>u DEF Late, Expected, Current
  <1>o. OwnCommands' = OwnCommands /\ OwnReplies' = OwnReplies /\ ChipOwn' = ChipOwn
    BY <1>u DEF OwnCommands, OwnReplies, ChipOwn
  <1> DEFINE r == Head(chipWire)
  <1>1. chipWire # <<>> /\ chipWire' = Tail(chipWire) /\ dispatch.reply = NoReply /\ dispatch.to = 0
    BY HandParts DEF Dispatch
  <1>2. r \in Elems(chipWire) /\ r \in Replies /\ Elems(chipWire') \subseteq Elems(chipWire)
        /\ Once(chipWire', OwnReplies)
        /\ (r \in OwnReplies => \A x \in Elems(chipWire') : x \notin OwnReplies)
    <2>1. Once(chipWire, OwnReplies)
      BY <1>s DEF OwnOnce
    <2> QED BY <1>1, <2>1, TailElems, ReplyShapes
  <1>3. WireOwn' => WireOwn /\ r \notin OwnReplies
    BY <1>o, <1>2 DEF WireOwn
  <1>4. r \in OwnReplies => WireOwn
    BY <1>2 DEF WireOwn
  <1>5. ~HeldOwn
    BY <1>1, ReplyShapes DEF HeldOwn, OwnReplies
  <1>6. CASE dispatch' = dispatch
    <2>1. HeldOwn' = HeldOwn
      BY <1>o, <1>6 DEF HeldOwn
    <2>5. HandMeant'
      BY <1>s, <1>u, <1>l, <1>6, HandUntouched DEF InFlight
    <2>2. InFlight'
      BY <1>s, <1>l, <1>u, <1>1, <1>2, <2>5 DEF InFlight
    <2>3. OwnOnce'
      BY <1>s, <1>o, <1>u, <1>2, <1>3, <2>1, <1>5 DEF OwnOnce
    <2>4. ReplyHeld'
      BY <1>s, <1>l, <1>o, <1>u, <1>3, <2>1 DEF ReplyHeld
    <2> QED BY <2>2, <2>3, <2>4 DEF Replying
  <1>7. CASE dispatch' = [Undispatched EXCEPT !.reply = r, !.at = "first"]
    <2>1. dispatch'.reply = r /\ dispatch'.at = "first" /\ dispatch'.to = 0
      BY <1>7 DEF Undispatched
    <2>2. r.type # "event" => Expected(r)
      BY <1>s, <1>2 DEF InFlight
    <2>3. 0 <= numbered'
      BY <1>u, ReplyShapes
    <2>4. HandMeant'
      BY <1>l, <2>1, <2>2, <2>3 DEF HandMeant, Answering, WalksOwn
    <2> HIDE DEF r
    <2>6. HeldOwn' <=> r \in OwnReplies
      BY <1>o, <2>1 DEF HeldOwn
    <2>7. InFlight'
      BY <1>s, <1>l, <1>u, <1>2, <2>4 DEF InFlight
    <2>8. OwnOnce'
      BY <1>s, <1>o, <1>u, <1>2, <1>3, <1>4, <2>6 DEF OwnOnce
    <2>9. ReplyHeld'
      BY <1>s, <1>l, <1>o, <1>u, <1>3, <1>4, <2>6 DEF ReplyHeld
    <2> QED BY <2>7, <2>8, <2>9 DEF Replying
  <1> QED BY <1>6, <1>7 DEF Dispatch

(* The walk preserves it: the reply of a request that waits finds that      *)
(* request, and any other whose name fits may be late.                      *)
LEMMA WalkKeepsReplies ==
  ASSUME VisionTypeOK, Numbering, Replying, WalkFirst \/ WalkNext \/ Compare
  PROVE  Replying'
  <1>s. InFlight /\ OwnOnce /\ ReplyHeld
    BY DEF Replying
  <1>u. UNCHANGED <<givenUp, chip, chipWire, request, requestPc, chipReply, numbered>>
    BY WalkSteps
  <1>l. (\A x : Late(x) => Late(x)') /\ (\A x : Expected(x) => Expected(x)')
    BY <1>u DEF Late, Expected, Current
  <1>o. OwnCommands' = OwnCommands /\ OwnReplies' = OwnReplies /\ ChipOwn' = ChipOwn /\ WireOwn' = WireOwn
    BY <1>u DEF OwnCommands, OwnReplies, ChipOwn, WireOwn
  <1>a. ASSUME HandMeant', HeldOwn' => HeldOwn PROVE Replying'
    <2>1. InFlight'
      BY <1>s, <1>u, <1>l, <1>a DEF InFlight
    <2>2. OwnOnce'
      BY <1>s, <1>o, <1>u, <1>a DEF OwnOnce
    <2>3. ReplyHeld'
      BY <1>s, <1>l, <1>o, <1>u, <1>a DEF ReplyHeld
    <2> QED BY <2>1, <2>2, <2>3 DEF Replying
  <1>1. CASE dispatch' = Undispatched
    BY <1>a, <1>u, <1>1, HandEmptied
  <1>2. ASSUME dispatch' # Undispatched PROVE Replying'
    <2>1. /\ dispatch'.reply = dispatch.reply /\ dispatch.at # "rest"
          /\ \/ dispatch.at = "first" /\ dispatch'.at = "next" /\ dispatch'.first = Entry
                /\ dispatch'.to = dispatch.to
             \/ dispatch.at = "next" /\ dispatch'.at = "compare" /\ dispatch'.to = Entry
                /\ dispatch'.first = dispatch.first
             \/ dispatch.at = "compare" /\ dispatch'.at = "next"
                /\ dispatch'.first = dispatch.first /\ dispatch'.to = dispatch.to
             \/ /\ dispatch.at = "compare" /\ dispatch'.at = "send" /\ dispatch.reply.type # "event"
                /\ Alive(dispatch.to) => For(dispatch.reply)
                /\ dispatch'.first = dispatch.first /\ dispatch'.to = dispatch.to
      BY <1>2, WalkSteps
    <2>2. Entry <= numbered /\ (requestPc = "wait" => Entry = numbered)
      BY ReplyShapes DEF Entry, Listed, Numbering
    <2>3. dispatch'.to <= numbered'
      BY <1>s, <1>u, <2>1, <2>2 DEF InFlight, HandMeant
    <2>4. Answering' = Answering
      BY <2>1 DEF Answering
    <2>5. Answering => Expected(dispatch.reply) /\ (Late(dispatch.reply) \/ WalksOwn)
      BY <1>s DEF InFlight, HandMeant
    <2>6. Answering /\ ~Late(dispatch.reply) => WalksOwn'
      <3>1. SUFFICES ASSUME Answering, ~Late(dispatch.reply) PROVE WalksOwn'
        OBVIOUS
      <3>2. Entry = numbered /\ WalksOwn
        BY <2>2, <2>5, <3>1 DEF Expected, Current
      <3> QED BY <1>u, <2>1, <3>2 DEF WalksOwn
    <2>7. dispatch'.at = "send" =>
            /\ dispatch'.reply.type # "event"
            /\ Alive(dispatch.to)' => Mentions(dispatch.reply.cmd, request.cmd)
      <3>1. SUFFICES ASSUME dispatch'.at = "send"
                     PROVE  dispatch.reply.type # "event"
                            /\ (Alive(dispatch.to)' => Mentions(dispatch.reply.cmd, request.cmd))
        BY <2>1
      <3>2. dispatch.reply.type # "event" /\ (Alive(dispatch.to) => For(dispatch.reply)) /\ dispatch'.to = dispatch.to
        BY <2>1, <3>1
      <3>3. Alive(dispatch.to)' = Alive(dispatch.to)
        BY <1>u, <3>2 DEF Alive
      <3>4. For(dispatch.reply) => Mentions(dispatch.reply.cmd, request.cmd)
        BY MentionsChain DEF For
      <3> QED BY <3>2, <3>3, <3>4
    <2>8. HandMeant'
      BY <1>u, <1>l, <2>1, <2>3, <2>4, <2>5, <2>6, <2>7 DEF HandMeant
    <2>9. HeldOwn' = HeldOwn
      BY <1>o, <2>1 DEF HeldOwn
    <2> QED BY <1>a, <2>8, <2>9
  <1> QED BY <1>1, <1>2

(* Delivering preserves it: a late reply that fills the queue makes the     *)
(* request's own one late.                                                  *)
LEMMA DeliverKeepsReplies ==
  ASSUME VisionTypeOK, Numbering, Replying, Deliver, Sound'
  PROVE  Replying'
  <1> USE DEF requestVars, chipVars, cameraVars
  <1>s. InFlight /\ OwnOnce /\ ReplyHeld
    BY DEF Replying
  <1>u. UNCHANGED <<givenUp, chip, chipWire, request, requestPc, numbered>> /\ dispatch.at = "send"
        /\ dispatch' = Undispatched
        /\ \/ chipReply' = chipReply
           \/ Alive(dispatch.to) /\ chipReply = NoReply /\ chipReply' = dispatch.reply
    BY DEF Deliver, Sound
  <1>l. \A x : Late(x) => Late(x)'
    BY <1>u DEF Late
  <1>h. HandMeant'
    BY <1>u, HandEmptied
  <1>o. OwnCommands' = OwnCommands /\ OwnReplies' = OwnReplies /\ ChipOwn' = ChipOwn /\ WireOwn' = WireOwn
    BY <1>u DEF OwnCommands, OwnReplies, ChipOwn, WireOwn
  <1>1. ~HeldOwn'
    BY <1>u, HandEmptied
  <1>2. OwnOnce'
    BY <1>s, <1>o, <1>u, <1>1 DEF OwnOnce
  <1>3. CASE chipReply' = chipReply
    <2>1. \A x : Expected(x) => Expected(x)'
      BY <1>l, <1>u, <1>3 DEF Expected, Current
    <2>2. InFlight'
      BY <1>s, <1>u, <1>h, <2>1 DEF InFlight
    <2>3. ReplyHeld'
      BY <1>s, <1>l, <1>o, <1>u, <1>1, <1>3 DEF ReplyHeld
    <2> QED BY <1>2, <2>2, <2>3 DEF Replying
  <1>4. CASE Alive(dispatch.to) /\ chipReply = NoReply /\ chipReply' = dispatch.reply
    <2> DEFINE y == dispatch.reply
    <2>1. y.type # "event" /\ Expected(y) /\ Mentions(y.cmd, request.cmd) /\ y \in Replies
      BY <1>s, <1>u, <1>4, ReplyShapes DEF InFlight, HandMeant, Answering
    <2>2. request # NoRequest /\ requestPc # "rest" /\ request.n = numbered
      BY <1>4 DEF Numbering, Alive
    <2>3. Late(y) \/ y \in OwnReplies
      BY <2>1 DEF Expected, Current, OwnReplies
    <2>4. y \in OwnReplies => ~ChipOwn /\ ~WireOwn
      BY <1>s DEF OwnOnce, HeldOwn
    <2> HIDE DEF y
    <2>5. ASSUME NEW x, x.n = numbered, x.cmd = request.cmd, Late(y) PROVE Late(x)'
      <3>1. PICK r \in givenUp : Mentions(r.cmd, y.cmd) /\ r.n <= y.n
        BY <2>5 DEF Late
      <3>2. Mentions(r.cmd, x.cmd)
        BY <2>1, <2>5, <3>1, MentionsChain
      <3>3. r.n <= x.n
        BY <2>1, <2>5, <3>1, ReplyShapes DEF Expected
      <3> QED BY <1>u, <3>1, <3>2, <3>3 DEF Late
    <2>6. \A x \in Elems(chip) : Expected(x) => Expected(x)'
      <3>1. SUFFICES ASSUME NEW x \in Elems(chip), Current(x) PROVE Late(x)'
        BY <1>l, <1>u DEF Expected
      <3>2. x \in OwnCommands
        BY <3>1, ReplyShapes DEF Current, OwnCommands
      <3>3. Late(y)
        BY <2>3, <2>4, <3>2 DEF ChipOwn
      <3> QED BY <2>5, <3>1, <3>3 DEF Current
    <2>7. \A x \in Elems(chipWire) : x.type # "event" /\ Expected(x) => Expected(x)'
      <3>1. SUFFICES ASSUME NEW x \in Elems(chipWire), x.type # "event", Current(x) PROVE Late(x)'
        BY <1>l, <1>u DEF Expected
      <3>2. x \in OwnReplies
        BY <3>1, ReplyShapes DEF Current, OwnReplies
      <3>3. Late(y)
        BY <2>3, <2>4, <3>2 DEF WireOwn
      <3> QED BY <2>5, <3>1, <3>3 DEF Current
    <2>8. InFlight'
      BY <1>s, <1>u, <1>h, <2>6, <2>7 DEF InFlight
    <2>9. ReplyHeld'
      <3>1. y.n <= numbered /\ (Late(y) \/ (y.n = numbered /\ requestPc = "wait"))
        BY <2>1 DEF Expected, Current
      <3>2. Late(y) \/ (y.n = numbered /\ requestPc = "wait" /\ ~ChipOwn /\ ~WireOwn)
        BY <2>3, <2>4, <3>1
      <3>3. chipReply' = y
        BY <1>4 DEF y
      <3> QED BY <1>l, <1>o, <1>u, <1>1, <2>1, <2>2, <3>1, <3>2, <3>3 DEF ReplyHeld
    <2> QED BY <1>2, <2>8, <2>9 DEF Replying
  <1> QED BY <1>u, <1>3, <1>4

(* Every step preserves what is said of replies, unless it sends to a freed *)
(* queue.                                                                   *)
LEMMA RepliesKeep == VisionTypeOK /\ Numbering /\ Replying /\ Sound' /\ [VisionNext]_visionVars => Replying'
  <1> SUFFICES ASSUME VisionTypeOK, Numbering, Replying, Sound', [VisionNext]_visionVars PROVE Replying'
    OBVIOUS
  <1> USE DEF requestVars, chipVars, cameraVars
  <1>1. ASSUME NEW fn \in Functions, CallBegin(fn) PROVE Replying'
    BY <1>1, RepliesUntouched DEF CallBegin
  <1>2. CASE RequestBegin \/ RequestWrite \/ RequestAnswered \/ RequestTimeout \/ RequestUnlist \/ RequestDelete
    BY <1>2, RequestsKeepReplies
  <1>3. CASE ChipAnswers \/ ChipShoots
    BY <1>3, ChipKeepsReplies
  <1>4. CASE Dispatch
    BY <1>4, DispatchKeepsReplies
  <1>5. CASE Deliver
    BY <1>5, DeliverKeepsReplies
  <1>10. CASE WalkFirst \/ WalkNext \/ Compare
    BY <1>10, WalkKeepsReplies
  <1>6. CASE MonitorTakes \/ OnEvent
    BY <1>6, RepliesUntouched DEF MonitorTakes, OnEvent
  <1>7. CASE CaptureBegin \/ CaptureClear \/ CaptureDrain \/ CaptureWaits
    <2>1. givenUp \subseteq givenUp' /\ UNCHANGED <<chip, chipWire, dispatch, request,
                                                    requestPc, chipReply, numbered>>
      BY <1>7 DEF CaptureBegin, CaptureClear, CaptureDrain, CaptureWaits
    <2> QED BY <2>1, RepliesUntouched
  <1>8. CASE CaptureChecks \/ CaptureTakes \/ CaptureForgets
    BY <1>8, RepliesUntouched DEF CaptureChecks, CaptureTakes, CaptureForgets
  <1>9. CASE UNCHANGED visionVars
    BY <1>9, RepliesUntouched DEF visionVars
  <1> QED BY <1>1, <1>2, <1>3, <1>4, <1>5, <1>6, <1>7, <1>8, <1>9, <1>10 DEF VisionNext

(* Only two steps give up.                                                  *)
LEMMA GivenUpGrows == [VisionNext]_visionVars =>
    /\ givenUp \subseteq givenUp'
    /\ givenUp' = givenUp \/ RequestTimeout \/ CaptureWaits
  BY DEF VisionNext, visionVars, requestVars, chipVars, cameraVars, CallBegin, RequestBegin,
     RequestWrite,
     RequestAnswered, RequestTimeout, RequestUnlist, RequestDelete, ChipAnswers, ChipShoots, Dispatch, WalkFirst, WalkNext,
     Compare, Deliver, MonitorTakes, OnEvent, CaptureBegin, CaptureClear, CaptureDrain, CaptureWaits, CaptureChecks,
     CaptureTakes, CaptureForgets

(* An image of the last request is always one that may be shown; so is that *)
(* of a SAMPLE the chip still has.                                          *)
LEMMA LastMeant == VisionTypeOK /\ Numbering => OwnShot(numbered) /\ (AnyLate => LateShot(numbered))
  BY DEF OwnShot, AnyLate, LateShot, Numbering

(* An image of the last request is always one that may be shown; so is that *)
(* of a SAMPLE the chip still has.                                          *)
LEMMA KnownShotMeant ==
  ASSUME VisionTypeOK, Numbering, NEW x, Expected(x), x.cmd = "SAMPLE"
  PROVE  /\ OwnShot(x.n)
         /\ ~AnyLate => Current(x)
  <1>1. Late(x) => LateShot(x.n)
    BY MentionsChain DEF Late, LateShot
  <1>2. LateShot(x.n) => AnyLate
    BY DEF LateShot, AnyLate
  <1>3. Current(x) => x.n = numbered
    BY DEF Current
  <1> QED BY <1>1, <1>2, <1>3, LastMeant DEF Expected, OwnShot

(* An image that may be shown stays one as long as no request begins.       *)
LEMMA MeantKeeps ==
  ASSUME VisionTypeOK, Numbering, [VisionNext]_visionVars, numbered' = numbered
  PROVE  \A n : OwnShot(n) => OwnShot(n)'
  <1>1. givenUp \subseteq givenUp' /\ (givenUp' = givenUp \/ RequestTimeout \/ CaptureWaits)
    BY GivenUpGrows
  <1>2. \A n : LateShot(n) => LateShot(n)'
    BY <1>1 DEF LateShot
  <1>3. ~AnyLate /\ AnyLate' => LateShot(numbered)'
    <2>1. CASE givenUp' = givenUp
      BY <2>1 DEF AnyLate
    <2>2. CASE RequestTimeout
      <3>1. givenUp' = givenUp \cup {request} /\ request.n = numbered /\ numbered \in Nat
        BY <2>2, ReplyShapes DEF RequestTimeout, Numbering
      <3> QED BY <3>1 DEF AnyLate, LateShot
    <2>3. CASE CaptureWaits
      <3>1. givenUp' = givenUp \/ givenUp' = givenUp \cup {[cmd |-> "SAMPLE", n |-> numbered]}
        BY <2>3 DEF CaptureWaits, Numbering
      <3>2. numbered \in Nat
        BY ReplyShapes
      <3> QED BY <3>1, <3>2 DEF AnyLate, LateShot
    <2> QED BY <1>1, <2>1, <2>2, <2>3
  <1>4. ASSUME NEW n, OwnShot(n) PROVE OwnShot(n)'
    <2>1. CASE LateShot(n)
      BY <1>2, <2>1 DEF OwnShot
    <2>2. CASE ~AnyLate /\ n = numbered
      <3>1. CASE AnyLate'
        <4>1. LateShot(numbered)'
          BY <1>3, <2>2, <3>1
        <4>2. LateShot(n)'
          BY <2>2, <4>1 DEF LateShot
        <4> QED BY <4>2 DEF OwnShot
      <3>2. CASE ~AnyLate'
        BY <2>2, <3>2 DEF OwnShot
      <3> QED BY <3>1, <3>2
    <2> QED BY <1>4, <2>1, <2>2 DEF OwnShot
  <1> QED BY <1>4

(* As long as no SAMPLE was given up, no image is anywhere when a request   *)
(* begins.                                                                  *)
LEMMA QuietBegin ==
  ASSUME VisionTypeOK, Numbering, OneShot, Accepted, requestPc = "rest", visionCall # NoCall
  PROVE  ~Flying /\ ~InView
  <1>1. CASE visionCall.fn = "sample"
    <2>1. capture.pc = "sample"
      BY <1>1 DEF Numbering
    <2> QED BY <2>1 DEF Accepted
  <1>2. CASE visionCall.fn # "sample"
    <2>1. capture.pc = "rest"
      BY <1>2 DEF Numbering, Resting, At
    <2>2. ~Flying /\ callback.pc # "give" /\ captureSem = FALSE /\ image = 0
      BY <2>1, VisionTypes DEF OneShot, ImageT
    <2> QED BY <2>2 DEF InView
  <1> QED BY <1>1, <1>2

(* Every step preserves it for every image.                                 *)
LEMMA ShotsMeantKeep ==
  ASSUME VisionTypeOK, Numbering, Replying, ShotInv, [VisionNext]_visionVars
  PROVE  ShotsMeant'
  <1> USE DEF requestVars, chipVars, cameraVars
  <1>s. ShotsMeant
    BY DEF ShotInv
  <1>1. CASE RequestBegin
    <2>1. numbered' = numbered + 1 /\ requestPc = "rest" /\ visionCall # NoCall
          /\ UNCHANGED <<givenUp, shots, chipWire, dispatch, queue, callback, image>>
      BY <1>1 DEF RequestBegin
    <2>5. HeldShot' = HeldShot
      BY <2>1 DEF HeldShot, Events
    <2>2. \A n : LateShot(n) => LateShot(n)'
      BY <2>1 DEF LateShot
    <2>3. CASE AnyLate
      BY <1>s, <2>1, <2>2, <2>3, <2>5 DEF ShotsMeant, OwnShot
    <2>4. CASE ~AnyLate
      <3>1. ~Flying /\ ~InView
        BY <2>1, <2>4, QuietBegin DEF ShotInv
      <3>2. /\ shots = {} /\ image = 0 /\ callback.pc \notin {"free", "store"} /\ ~HeldShot
            /\ (\A x \in Elems(chipWire) : x \notin Events) /\ (\A x \in Elems(queue) : x \notin Events)
        BY <3>1, Zenon DEF Flying, InView, WireShot, QueueShot, Landing
      <3>3. (\A x \in Elems(chipWire) : x.type # "event") /\ (\A x \in Elems(queue) : x.type # "event")
        BY <3>2, ReplyShapes DEF Events
      <3> QED BY <2>1, <2>5, <3>2, <3>3 DEF ShotsMeant
    <2> QED BY <2>3, <2>4
  <1>2. CASE ~RequestBegin
    <2>1. numbered' = numbered
      BY <1>2 DEF VisionNext, visionVars, CallBegin, RequestBegin, RequestWrite,
         RequestAnswered, RequestTimeout, RequestUnlist, RequestDelete, ChipAnswers, ChipShoots, Dispatch,
         WalkFirst, WalkNext, Compare, Deliver, MonitorTakes, OnEvent, CaptureBegin, CaptureClear, CaptureDrain, CaptureWaits, CaptureChecks,
         CaptureTakes, CaptureForgets
    <2>2. \A n : OwnShot(n) => OwnShot(n)'
      BY <2>1, MeantKeeps
    <2>h. dispatch'.reply \in {dispatch.reply, NoReply} => (HeldShot' => OwnShot(dispatch.reply.n)')
      <3>1. SUFFICES ASSUME dispatch'.reply \in {dispatch.reply, NoReply}, HeldShot'
                     PROVE  OwnShot(dispatch.reply.n)'
        OBVIOUS
      <3>2. dispatch'.reply = dispatch.reply /\ HeldShot
        BY <3>1, HandParts DEF HeldShot, Events
      <3>3. OwnShot(dispatch.reply.n)
        BY <1>s, <3>2 DEF ShotsMeant
      <3>4. \A n : dispatch'.reply.n = n /\ OwnShot(n) => OwnShot(dispatch.reply.n)'
        BY <2>2 DEF OwnShot, LateShot
      <3> QED BY <3>2, <3>3, <3>4
    <2>3. CASE ChipAnswers
      <3> DEFINE asked == Head(chip)
      <3>1. asked \in Elems(chip) /\ asked \in RequestIds
        BY <2>3, TailElems, ReplyShapes DEF ChipAnswers
      <3>2. asked.cmd = "SAMPLE" => OwnShot(asked.n)
        BY <3>1, KnownShotMeant DEF Replying, InFlight
      <3>3. UNCHANGED <<dispatch, queue, callback, image>> /\ (shots' = shots \/ (asked.cmd = "SAMPLE" /\ shots' = shots \cup {asked.n}))
        BY <2>3 DEF ChipAnswers
      <3>4. \A x \in Elems(chipWire') : x.type = "event" => x \in Elems(chipWire)
        <4>1. CASE chipWire' = chipWire
          BY <4>1
        <4>2. ASSUME NEW type \in {"response", "log"},
                     chipWire' = Append(chipWire, [type |-> type, cmd |-> asked.cmd, n |-> asked.n])
              PROVE  \A x \in Elems(chipWire') : x.type = "event" => x \in Elems(chipWire)
          <5> DEFINE y == [type |-> type, cmd |-> asked.cmd, n |-> asked.n]
          <5>1. y \in Replies /\ y.type # "event"
            BY <3>1 DEF Replies, RequestIds
          <5>2. Elems(chipWire') = Elems(chipWire) \cup {y}
            BY <4>2, <5>1, AppendElems, ReplyShapes
          <5> QED BY <5>1, <5>2
        <4> QED BY <2>3, <4>1, <4>2 DEF ChipAnswers
      <3> HIDE DEF asked
      <3>5. \A n \in shots' : OwnShot(n)'
        BY <1>s, <2>2, <3>2, <3>3 DEF ShotsMeant
      <3> QED BY <1>s, <2>2, <2>h, <3>3, <3>4, <3>5 DEF ShotsMeant
    <2>4. CASE ChipShoots
      <3>1. PICK n \in shots : /\ shots' = shots \ {n} /\ UNCHANGED <<dispatch, queue, callback, image>>
                               /\ chipWire' = Append(chipWire, [type |-> "event", cmd |-> "SAMPLE", n |-> n])
        BY <2>4 DEF ChipShoots
      <3> DEFINE y == [type |-> "event", cmd |-> "SAMPLE", n |-> n]
      <3>2. y \in Replies /\ y.n = n
        BY VisionTypes DEF ChipT, Replies, Commands
      <3>3. Elems(chipWire') = Elems(chipWire) \cup {y}
        BY <3>1, <3>2, AppendElems, ReplyShapes
      <3>4. OwnShot(n)'
        BY <1>s, <2>2 DEF ShotsMeant
      <3> HIDE DEF y
      <3>5. \A x \in Elems(chipWire') : x.type = "event" => OwnShot(x.n)'
        BY <1>s, <2>2, <3>2, <3>3, <3>4 DEF ShotsMeant
      <3> QED BY <1>s, <2>2, <2>h, <3>1, <3>5 DEF ShotsMeant
    <2>5. CASE Dispatch
      <3> DEFINE r == Head(chipWire)
      <3>1. chipWire # <<>> /\ chipWire' = Tail(chipWire) /\ queue' \in {queue, Append(queue, r)}
            /\ UNCHANGED <<shots, callback, image>> /\ (dispatch' = dispatch \/ dispatch'.reply = r)
        BY <2>5 DEF Dispatch, NotFound, Undispatched
      <3>2. r \in Elems(chipWire) /\ r \in Replies /\ Elems(chipWire') \subseteq Elems(chipWire)
        BY <3>1, TailElems, ReplyShapes
      <3>3. Elems(queue') \subseteq Elems(queue) \cup {r}
        BY <3>1, <3>2, AppendElems, ReplyShapes
      <3> HIDE DEF r
      <3>4. \A x \in Elems(queue') : x.type = "event" => OwnShot(x.n)'
        BY <1>s, <2>2, <3>2, <3>3 DEF ShotsMeant
      <3>5. HeldShot' => OwnShot(dispatch.reply.n)'
        <4>1. CASE dispatch' = dispatch
          BY <2>h, <4>1
        <4>2. CASE dispatch'.reply = r
          <5>1. HeldShot' => r.type = "event"
            BY <4>2 DEF HeldShot, Events
          <5>2. r.type = "event" => OwnShot(r.n)
            BY <1>s, <3>2 DEF ShotsMeant
          <5>3. OwnShot(r.n) => OwnShot(dispatch.reply.n)'
            BY <2>2, <4>2 DEF OwnShot, LateShot
          <5> QED BY <5>1, <5>2, <5>3
        <4> QED BY <3>1, <4>1, <4>2
      <3> QED BY <1>s, <2>2, <3>1, <3>2, <3>4, <3>5 DEF ShotsMeant
    <2>13. CASE WalkFirst \/ WalkNext \/ Compare
      <3>1. UNCHANGED <<shots, chipWire, callback, image>> /\ dispatch.at # "rest"
        BY <2>13, WalkSteps
      <3>2. dispatch'.reply \in {dispatch.reply, NoReply}
            /\ (queue' = queue \/ (NotFound(dispatch.reply) /\ dispatch.reply \in Replies))
        BY <2>13, WalkSteps, HandParts
      <3>3. \A x \in Elems(queue') : x.type = "event" => OwnShot(x.n)'
        <4>1. CASE queue' = queue
          BY <1>s, <2>2, <4>1 DEF ShotsMeant
        <4>2. CASE queue' = Append(queue, dispatch.reply) /\ dispatch.reply \in Replies
          <5>1. Elems(queue') = Elems(queue) \cup {dispatch.reply}
            BY <4>2, AppendElems, ReplyShapes
          <5>2. dispatch.reply.type = "event" => OwnShot(dispatch.reply.n)
            BY <1>s, <4>2 DEF ShotsMeant, HeldShot, Events
          <5> QED BY <1>s, <2>2, <5>1, <5>2 DEF ShotsMeant
        <4> QED BY <3>2, <4>1, <4>2 DEF NotFound
      <3> QED BY <1>s, <2>2, <2>h, <3>1, <3>2, <3>3 DEF ShotsMeant
    <2>6. CASE MonitorTakes
      <3> DEFINE r == Head(queue)
      <3>1. queue # <<>> /\ queue' = Tail(queue) /\ UNCHANGED <<shots, chipWire, dispatch, image>>
            /\ callback' = IF r.type = "event" THEN At("free", r.n) ELSE Resting
        BY <2>6 DEF MonitorTakes
      <3>2. r \in Elems(queue) /\ Elems(queue') \subseteq Elems(queue)
        BY <3>1, TailElems, ReplyShapes
      <3> HIDE DEF r
      <3>3. callback'.pc \in {"free", "store"} => OwnShot(callback.n)'
        BY <1>s, <2>2, <3>1, <3>2 DEF ShotsMeant, At, Resting
      <3> QED BY <1>s, <2>2, <2>h, <3>1, <3>2, <3>3 DEF ShotsMeant
    <2>7. CASE OnEvent
      <3>1. UNCHANGED <<shots, chipWire, dispatch, queue>>
        BY <2>7 DEF OnEvent
      <3>2. \/ callback.pc = "free" /\ callback' = At("store", callback.n) /\ UNCHANGED image
            \/ callback.pc = "store" /\ image' \in {callback.n, 0} /\ callback' = At("give", callback.n)
            \/ callback.pc = "give" /\ callback' = Resting /\ UNCHANGED image
        BY <2>7 DEF OnEvent
      <3>3. callback'.pc \in {"free", "store"} => callback.pc = "free" /\ callback'.n = callback.n
        BY <3>2 DEF At, Resting
      <3>4. callback'.pc \in {"free", "store"} => OwnShot(callback.n)'
        BY <1>s, <2>2, <3>3 DEF ShotsMeant
      <3>5. image' # 0 => OwnShot(image)'
        BY <1>s, <2>2, <3>2 DEF ShotsMeant
      <3> QED BY <1>s, <2>2, <2>h, <3>1, <3>4, <3>5 DEF ShotsMeant
    <2>8. ASSUME UNCHANGED <<shots, chipWire, queue, callback>>, image' \in {image, 0},
                 dispatch'.reply \in {dispatch.reply, NoReply}
          PROVE  ShotsMeant'
      BY <1>s, <2>2, <2>8, <2>h DEF ShotsMeant
    <2>9. ASSUME NEW fn \in Functions, CallBegin(fn) PROVE ShotsMeant'
      BY <2>8, <2>9 DEF CallBegin
    <2>10. CASE RequestWrite \/ RequestAnswered \/ RequestTimeout \/ RequestUnlist \/ RequestDelete \/ Deliver
      <3>1. CASE Deliver
        <4>1. UNCHANGED <<shots, chipWire, queue, callback, image>> /\ dispatch' = Undispatched
          BY <3>1 DEF Deliver
        <4> QED BY <2>8, <4>1, HandParts
      <3>2. CASE RequestWrite \/ RequestAnswered \/ RequestTimeout \/ RequestUnlist \/ RequestDelete
        BY <2>8, <3>2 DEF RequestWrite, RequestAnswered, RequestTimeout, RequestUnlist, RequestDelete
      <3> QED BY <2>10, <3>1, <3>2
    <2>11. CASE CaptureBegin \/ CaptureClear \/ CaptureDrain \/ CaptureWaits \/ CaptureChecks \/ CaptureTakes \/ CaptureForgets
      BY <2>8, <2>11 DEF CaptureBegin, CaptureClear, CaptureDrain, CaptureWaits,
         CaptureChecks, CaptureTakes, CaptureForgets
    <2>12. CASE UNCHANGED visionVars
      BY <2>8, <2>12 DEF visionVars
    <2> QED BY <1>2, <2>3, <2>4, <2>5, <2>6, <2>7, <2>9, <2>10, <2>11, <2>12,
               <2>13 DEF VisionNext
  <1> QED BY <1>1, <1>2

(* Steps that leave images and the camera alone preserve what is said of    *)
(* one image.                                                               *)
LEMMA SceneUntouched ==
  ASSUME OneShot, HeldShot' = HeldShot,
         UNCHANGED <<shots, chipWire, queue, callback, capture, captureSem, image, handed, freed>>
  PROVE  OneShot' /\ Flying' = Flying /\ InView' = InView
  <1>1. Events' = Events
    BY DEF Events
  <1>2. WireShot' = WireShot /\ QueueShot' = QueueShot /\ Landing' = Landing
    BY <1>1 DEF WireShot, QueueShot, Landing
  <1>3. Flying' = Flying /\ InView' = InView
    BY <1>2 DEF Flying, InView
  <1> QED BY <1>1, <1>2, <1>3 DEF OneShot

(* The hand that keeps its reply keeps what it is.                          *)
LEMMA HandKept ==
  ASSUME dispatch'.reply = dispatch.reply, UNCHANGED numbered
  PROVE  HeldShot' = HeldShot /\ HeldOwn' = HeldOwn
  BY DEF HeldShot, HeldOwn, Events, OwnReplies

(* The camera is at its SAMPLE exactly while the request is one.            *)
LEMMA SampleAsked ==
  ASSUME Numbering, request # NoRequest
  PROVE  capture.pc = "sample" <=> request.cmd = "SAMPLE"
  BY DEF Numbering, Resting, At

(* As long as no SAMPLE was given up, the steps of a request preserve it:   *)
(* the answer to SAMPLE that counts is the request's own.                   *)
LEMMA RequestsKeepShots ==
  ASSUME VisionTypeOK, Numbering, Replying, ~AnyLate, ~AnyLate', OneShot, Accepted,
         RequestBegin \/ RequestWrite \/ RequestAnswered \/ RequestTimeout \/ RequestUnlist \/ RequestDelete
  PROVE  OneShot' /\ Accepted'
  <1> USE DEF requestVars, chipVars, cameraVars
  <1>s. InFlight /\ OwnOnce /\ ReplyHeld
    BY DEF Replying
  <1>h. HeldShot' = HeldShot
    <2>1. UNCHANGED dispatch
      BY DEF RequestBegin, RequestWrite, RequestAnswered, RequestTimeout, RequestUnlist, RequestDelete
    <2> QED BY <2>1 DEF HeldShot, Events
  <1>1. CASE RequestBegin
    <2>1. UNCHANGED <<shots, chipWire, queue, callback, capture, captureSem, image, handed, freed>>
          /\ requestPc = "rest" /\ visionCall # NoCall
      BY <1>1 DEF RequestBegin
    <2>2. OneShot' /\ ~Flying' /\ ~InView'
      BY <1>h, <2>1, QuietBegin, SceneUntouched
    <2> QED BY <2>2 DEF Accepted
  <1>2. CASE RequestWrite
    <2>1. UNCHANGED <<shots, chipWire, queue, callback, capture, captureSem, image, handed, freed>>
          /\ requestPc = "write"
      BY <1>2 DEF RequestWrite
    <2>2. OneShot' /\ Flying' = Flying /\ InView' = InView
      BY <1>h, <2>1, SceneUntouched
    <2> QED BY <2>1, <2>2 DEF Accepted
  <1>3. CASE RequestAnswered
    <2>1. /\ UNCHANGED <<shots, chipWire, queue, callback, capture, captureSem, image,
                         handed, freed>>
          /\ UNCHANGED <<chip, dispatch, numbered, request>>
          /\ requestPc = "wait" /\ requestPc' = "unlist" /\ chipReply # NoReply /\ chipReply' = NoReply
          /\ answered' = [asked |-> request, got |-> chipReply]
      BY <1>3 DEF RequestAnswered
    <2>2. OneShot' /\ Flying' = Flying /\ InView' = InView
      BY <1>h, <2>1, SceneUntouched
    <2>3. SUFFICES ASSUME Flying \/ InView, capture.pc = "sample" PROVE Accepted'
      BY <2>1, <2>2 DEF Accepted
    <2>4. /\ ~ChipOwn
          /\ \A x \in Elems(chipWire) : x \in OwnReplies => x.type # "log"
          /\ HeldOwn => dispatch.reply.type # "log"
          /\ chipReply.n = numbered => chipReply.type # "log"
      BY <2>1, <2>3 DEF Accepted
    <2>5. request # NoRequest /\ request.cmd = "SAMPLE"
      BY <2>1, <2>3, SampleAsked DEF Numbering
    <2>6. ~Late(chipReply)
      <3>1. SUFFICES ASSUME NEW r \in givenUp, Mentions(r.cmd, chipReply.cmd) PROVE FALSE
        BY DEF Late
      <3>2. Mentions(chipReply.cmd, request.cmd)
        BY <1>s, <2>1 DEF ReplyHeld
      <3>3. r.cmd = "SAMPLE"
        BY <2>5, <3>1, <3>2, MentionsChain
      <3> QED BY <3>3 DEF AnyLate
    <2>7. chipReply.n = numbered
      BY <1>s, <2>1, <2>6 DEF ReplyHeld
    <2>8. answered'.asked = request' /\ answered'.got.type # "log"
      BY <2>1, <2>4, <2>7
    <2>9. OwnCommands' = OwnCommands /\ OwnReplies' = OwnReplies /\ ChipOwn' = ChipOwn /\ HeldOwn' = HeldOwn
      BY <2>1 DEF OwnCommands, OwnReplies, ChipOwn, HeldOwn
    <2> QED BY <2>1, <2>4, <2>8, <2>9 DEF Accepted
  <1>4. CASE RequestTimeout
    <2>1. UNCHANGED <<shots, chipWire, queue, callback, capture, captureSem, image, handed, freed>>
          /\ requestPc = "wait" /\ givenUp' = givenUp \cup {request}
      BY <1>4 DEF RequestTimeout
    <2>2. request.cmd # "SAMPLE"
      BY <2>1 DEF AnyLate
    <2>3. capture.pc # "sample"
      BY <2>1, <2>2, SampleAsked DEF Numbering
    <2>4. OneShot'
      BY <1>h, <2>1, SceneUntouched
    <2> QED BY <2>1, <2>3, <2>4 DEF Accepted
  <1>5. CASE RequestUnlist
    <2>1. /\ UNCHANGED <<shots, chipWire, queue, callback, capture, captureSem, image,
                         handed, freed>>
          /\ UNCHANGED <<chip, dispatch, numbered, request, chipReply, answered>>
          /\ requestPc = "unlist" /\ requestPc' = "delete"
      BY <1>5 DEF RequestUnlist
    <2>2. OneShot' /\ Flying' = Flying /\ InView' = InView
      BY <1>h, <2>1, SceneUntouched
    <2>3. OwnCommands' = OwnCommands /\ OwnReplies' = OwnReplies /\ ChipOwn' = ChipOwn /\ HeldOwn' = HeldOwn
      BY <2>1 DEF OwnCommands, OwnReplies, ChipOwn, HeldOwn
    <2> QED BY <2>1, <2>2, <2>3 DEF Accepted
  <1>6. CASE RequestDelete
    <2>1. /\ UNCHANGED <<shots, chipWire, queue, callback, captureSem, image, handed, freed>>
          /\ requestPc = "delete" /\ visionCall # NoCall
          /\ visionCall.fn # "sample" => capture' = capture /\ capture.pc # "sample"
          /\ visionCall.fn = "sample" => capture.pc = "sample"
      BY <1>6 DEF RequestDelete, Numbering
    <2>2. CASE visionCall.fn # "sample"
      BY <1>h, <2>1, <2>2, SceneUntouched DEF Accepted
    <2>3. CASE visionCall.fn = "sample"
      <3> DEFINE meets == answered.asked = request /\ answered.got.type # "log"
      <3>1. capture' = IF meets THEN At("wait", request.n) ELSE Resting
        BY <1>6, <2>3 DEF RequestDelete
      <3>2. Flying \/ InView => meets
        BY <2>1, <2>3 DEF Accepted
      <3> HIDE DEF meets
      <3>3. WireShot' = WireShot /\ QueueShot' = QueueShot /\ Landing' = Landing /\ Events' = Events
        BY <2>1 DEF WireShot, QueueShot, Landing, Events
      <3>4. Flying' = Flying /\ InView' = InView
        BY <1>h, <2>1, <3>3 DEF Flying, InView
      <3>5. capture'.pc # "sample" /\ capture'.pc \notin {"take", "forget"} /\ (Flying \/ InView => capture'.pc = "wait")
        BY <3>1, <3>2 DEF At, Resting
      <3>6. OneShot'
        <4>1. /\ Flying' => ~captureSem' /\ image' = 0 /\ capture'.pc \in {"sample", "wait"}
              /\ callback'.pc = "give" => ~captureSem' /\ capture'.pc \in {"sample", "wait"}
              /\ captureSem' => callback' = Resting /\ capture'.pc \in {"sample", "wait"}
              /\ image' # 0 => capture'.pc \in {"sample", "wait", "check", "take", "forget"}
          BY <2>1, <3>4, <3>5 DEF OneShot, InView
        <4> QED BY <1>h, <2>1, <3>3, <3>5, <4>1 DEF OneShot
      <3> QED BY <3>5, <3>6 DEF Accepted
    <2> QED BY <2>2, <2>3
  <1> QED BY <1>1, <1>2, <1>3, <1>4, <1>5, <1>6

(* The callback rests or works on an image.                                 *)
LEMMA CallbackRests ==
  ASSUME VisionTypeOK
  PROVE  /\ callback = Resting \/ callback.pc \in {"free", "store", "give"}
         /\ callback = Resting => callback.pc = "rest"
  BY VisionTypes DEF QueueT, Resting, At

(* The chip's answer preserves it: a SAMPLE it still has is the first thing *)
(* that can bring an image.                                                 *)
LEMMA AnswerKeepsShots ==
  ASSUME VisionTypeOK, Numbering, Replying, ~AnyLate, OneShot, Accepted, ChipAnswers
  PROVE  OneShot' /\ Accepted'
  <1> USE DEF requestVars, chipVars, cameraVars
  <1>s. InFlight /\ OwnOnce /\ ReplyHeld
    BY DEF Replying
  <1>u. UNCHANGED <<givenUp, dispatch, request, requestPc, chipReply, numbered, answered, queue, callback, capture,
                    captureSem, image, handed, freed>>
    BY DEF ChipAnswers
  <1>o. OwnCommands' = OwnCommands /\ OwnReplies' = OwnReplies /\ HeldOwn' = HeldOwn /\ Events' = Events
        /\ QueueShot' = QueueShot /\ Landing' = Landing /\ InView' = InView /\ HeldShot' = HeldShot
    BY <1>u DEF OwnCommands, OwnReplies, HeldOwn, Events, QueueShot, Landing, InView, HeldShot
  <1> DEFINE asked == Head(chip)
  <1>1. chip # <<>> /\ chip' = Tail(chip)
    BY DEF ChipAnswers
  <1>2. asked \in Elems(chip) /\ asked \in RequestIds /\ Elems(chip') \subseteq Elems(chip)
        /\ (asked \in OwnCommands => \A x \in Elems(chip') : x \notin OwnCommands)
    <2>1. Once(chip, OwnCommands)
      BY <1>s DEF OwnOnce
    <2> QED BY <1>1, <2>1, TailElems, ReplyShapes
  <1>3. ChipOwn' => ChipOwn /\ asked \notin OwnCommands
    BY <1>o, <1>2 DEF ChipOwn
  <1>4. asked \in OwnCommands => ChipOwn
    BY <1>2 DEF ChipOwn
  <1>5. ASSUME asked.cmd = "SAMPLE"
        PROVE  /\ ~Flying /\ ~InView /\ callback = Resting /\ capture.pc = "sample" /\ requestPc = "wait"
               /\ chipReply = NoReply /\ asked \in OwnCommands /\ ~ChipOwn' /\ ~WireOwn /\ ~HeldOwn
    <2>1. Current(asked)
      BY <1>s, <1>2, <1>5, KnownShotMeant DEF InFlight
    <2>2. requestPc = "wait" /\ chipReply = NoReply /\ asked \in OwnCommands /\ request.cmd = "SAMPLE"
      BY <1>2, <1>5, <2>1 DEF Current, OwnCommands
    <2>3. capture.pc = "sample"
      BY <2>2, SampleAsked DEF Numbering
    <2>4. ~Flying /\ ~InView
      BY <1>4, <2>2, <2>3 DEF Accepted
    <2>5. callback = Resting
      BY <2>4, CallbackRests DEF Flying, InView, Landing
    <2> QED BY <1>s, <1>3, <1>4, <2>2, <2>3, <2>4, <2>5 DEF OwnOnce
  <1>6. CASE chipWire' = chipWire /\ shots' = shots
    <2>1. OneShot' /\ Flying' = Flying
      BY <1>6, <1>u, <1>o, SceneUntouched
    <2> QED BY <1>u, <1>o, <1>3, <1>6, <2>1 DEF Accepted
  <1>7. ASSUME NEW type \in {"response", "log"},
               chipWire' = Append(chipWire, [type |-> type, cmd |-> asked.cmd, n |-> asked.n])
        PROVE  \E y \in Replies \ Events : /\ y.type = type /\ Elems(chipWire') = Elems(chipWire) \cup {y}
                 /\ (y \in OwnReplies <=> asked \in OwnCommands) /\ Once(chipWire', Events)
                 /\ WireShot' = WireShot
    <2> DEFINE y == [type |-> type, cmd |-> asked.cmd, n |-> asked.n]
    <2>1. y \in Replies /\ y.type = type /\ y.n = asked.n /\ y \notin Events
      BY <1>2 DEF Replies, RequestIds, Events
    <2>2. y \in OwnReplies <=> asked \in OwnCommands
      BY <1>2, <2>1 DEF OwnReplies, OwnCommands
    <2>3. Once(chipWire, Events)
      BY DEF OneShot
    <2>4. Elems(chipWire') = Elems(chipWire) \cup {y} /\ Once(chipWire', Events)
      BY <1>7, <2>1, <2>3, AppendElems, ReplyShapes
    <2> HIDE DEF y
    <2>5. WireShot' = WireShot
      BY <1>o, <2>1, <2>4 DEF WireShot
    <2> QED BY <2>1, <2>2, <2>4, <2>5
  <1>8. ASSUME NEW type \in {"response", "log"},
               chipWire' = Append(chipWire, [type |-> type, cmd |-> asked.cmd, n |-> asked.n]),
               shots' = shots
        PROVE  OneShot' /\ Accepted'
    <2>1. PICK y \in Replies \ Events : /\ y.type = type /\ Elems(chipWire') = Elems(chipWire) \cup {y}
                 /\ (y \in OwnReplies <=> asked \in OwnCommands) /\ Once(chipWire', Events)
                 /\ WireShot' = WireShot
      BY <1>7, <1>8
    <2>2. Flying' = Flying
      BY <1>o, <1>8, <2>1 DEF Flying
    <2>3. OneShot'
      BY <1>u, <1>o, <1>8, <2>1, <2>2 DEF OneShot
    <2> HIDE DEF asked
    <2>4. Accepted'
      <3>1. SUFFICES ASSUME Flying \/ InView, capture.pc = "sample" PROVE Accepted'
        BY <1>u, <1>o, <2>2 DEF Accepted
      <3>2. ~ChipOwn /\ asked \notin OwnCommands /\ ~ChipOwn'
        BY <1>3, <1>4, <3>1 DEF Accepted
      <3>3. \A x \in Elems(chipWire') : x \in OwnReplies => x.type # "log"
        BY <2>1, <3>1, <3>2 DEF Accepted
      <3> QED BY <1>u, <1>o, <3>1, <3>2, <3>3 DEF Accepted
    <2> QED BY <2>3, <2>4
  <1>9. CASE /\ asked.cmd = "SAMPLE" /\ shots' = shots \cup {asked.n}
             /\ chipWire' = Append(chipWire, [type |-> "response", cmd |-> asked.cmd, n |-> asked.n])
    <2>1. PICK y \in Replies \ Events : /\ y.type = "response" /\ Elems(chipWire') = Elems(chipWire) \cup {y}
                 /\ (y \in OwnReplies <=> asked \in OwnCommands) /\ Once(chipWire', Events)
                 /\ WireShot' = WireShot
      BY <1>7, <1>9
    <2>2. /\ ~Flying /\ ~InView /\ callback = Resting /\ capture.pc = "sample" /\ requestPc = "wait"
          /\ chipReply = NoReply /\ asked \in OwnCommands /\ ~ChipOwn' /\ ~WireOwn /\ ~HeldOwn
      BY <1>5, <1>9
    <2>3. shots = {} /\ ~WireShot /\ ~HeldShot /\ ~QueueShot /\ ~Landing /\ ~captureSem /\ image = 0
      BY <2>2, Zenon DEF Flying, InView
    <2> HIDE DEF asked
    <2>4. shots' = {asked.n}
      BY <1>9, <2>3
    <2>5. OneShot'
      BY <1>u, <1>o, <2>1, <2>2, <2>3, <2>4, CallbackRests DEF OneShot
    <2>6. \A x \in Elems(chipWire') : x \in OwnReplies => x.type # "log"
      BY <2>1, <2>2 DEF WireOwn
    <2>7. Accepted'
      BY <1>u, <1>o, <2>2, <2>6 DEF Accepted
    <2> QED BY <2>5, <2>7
  <1> QED BY <1>6, <1>8, <1>9 DEF ChipAnswers

(* So does the image on the line.                                           *)
LEMMA ShootKeepsShots ==
  ASSUME VisionTypeOK, Numbering, Replying, ~AnyLate, OneShot, Accepted, ChipShoots
  PROVE  OneShot' /\ Accepted'
  <1> USE DEF requestVars, chipVars, cameraVars
  <1>u. UNCHANGED <<givenUp, chip, dispatch, request, requestPc, chipReply, numbered, answered, queue, callback, capture,
                    captureSem, image, handed, freed>>
    BY DEF ChipShoots
  <1>o. OwnCommands' = OwnCommands /\ OwnReplies' = OwnReplies /\ HeldOwn' = HeldOwn /\ Events' = Events
        /\ QueueShot' = QueueShot /\ Landing' = Landing /\ InView' = InView /\ ChipOwn' = ChipOwn
        /\ HeldShot' = HeldShot
    BY <1>u DEF OwnCommands, OwnReplies, HeldOwn, Events, QueueShot, Landing, InView, ChipOwn, HeldShot
  <1>1. PICK n \in shots : /\ shots' = shots \ {n}
                           /\ chipWire' = Append(chipWire, [type |-> "event", cmd |-> "SAMPLE", n |-> n])
    BY DEF ChipShoots
  <1> DEFINE y == [type |-> "event", cmd |-> "SAMPLE", n |-> n]
  <1>2. y \in Replies /\ y \in Events /\ y \notin OwnReplies
    BY VisionTypes DEF ChipT, Replies, Commands, Events, OwnReplies
  <1>3. shots' = {} /\ ~WireShot /\ ~HeldShot /\ ~QueueShot /\ callback = Resting
    BY <1>1 DEF OneShot
  <1>4. Elems(chipWire') = Elems(chipWire) \cup {y} /\ Once(chipWire', Events)
    <2>1. Once(chipWire, Events) /\ \A x \in Elems(chipWire) : x \notin Events
      BY <1>3 DEF OneShot, WireShot
    <2> QED BY <1>1, <1>2, <2>1, AppendElems, ReplyShapes
  <1> HIDE DEF y
  <1>5. Flying /\ Flying'
    BY <1>o, <1>1, <1>2, <1>4 DEF Flying, WireShot
  <1>6. OneShot'
    BY <1>u, <1>o, <1>3, <1>4, <1>5 DEF OneShot
  <1>7. Accepted'
    BY <1>u, <1>o, <1>2, <1>4, <1>5 DEF Accepted
  <1> QED BY <1>6, <1>7

(* What is added to the monitor's queue.                                    *)
LEMMA QueueGrows ==
  ASSUME VisionTypeOK, NEW r \in Replies, queue' = queue \/ NotFound(r), Once(queue, Events),
         r \notin Events \/ \A x \in Elems(queue) : x \notin Events
  PROVE  Elems(queue') \subseteq Elems(queue) \cup {r} /\ Once(queue', Events)
  <1>1. /\ Elems(Append(queue, r)) = Elems(queue) \cup {r}
        /\ Once(Append(queue, r), Events)
    BY AppendElems, ReplyShapes
  <1>2. CASE queue' = queue
    BY <1>2
  <1>3. CASE queue' = Append(queue, r)
    BY <1>1, <1>3
  <1> QED BY <1>2, <1>3 DEF NotFound

(* So does taking the next reply in hand.                                   *)
LEMMA DispatchKeepsShots ==
  ASSUME VisionTypeOK, Numbering, Replying, ~AnyLate, OneShot, Accepted, Dispatch
  PROVE  OneShot' /\ Accepted'
  <1> USE DEF requestVars, chipVars, cameraVars
  <1>u. UNCHANGED <<givenUp, chip, shots, request, requestPc, chipReply, numbered, answered, callback, capture,
                    captureSem, image, handed, freed>>
    BY DEF Dispatch
  <1>o. OwnCommands' = OwnCommands /\ OwnReplies' = OwnReplies /\ Events' = Events
        /\ Landing' = Landing /\ InView' = InView /\ ChipOwn' = ChipOwn
    BY <1>u DEF OwnCommands, OwnReplies, Events, Landing, InView, ChipOwn
  <1> DEFINE r == Head(chipWire)
  <1>1. chipWire # <<>> /\ chipWire' = Tail(chipWire) /\ dispatch = Undispatched
        /\ \/ dispatch' = dispatch /\ NotFound(r)
           \/ dispatch'.reply = r /\ queue' = queue
    BY DEF Dispatch, Undispatched
  <1>2. r \in Elems(chipWire) /\ r \in Replies /\ Elems(chipWire') \subseteq Elems(chipWire)
        /\ Once(chipWire', Events)
        /\ (r \in Events => \A x \in Elems(chipWire') : x \notin Events)
    <2>1. Once(chipWire, Events)
      BY DEF OneShot
    <2> QED BY <1>1, <2>1, TailElems, ReplyShapes
  <1> HIDE DEF r
  <1>3. ~HeldShot /\ ~HeldOwn
    BY <1>1, HandParts DEF HeldShot, HeldOwn, Events, OwnReplies
  <1>4. (HeldShot' => r \in Events /\ queue' = queue) /\ (HeldOwn' => r \in OwnReplies /\ dispatch'.reply = r)
    <2>1. CASE dispatch' = dispatch
      BY <1>3, <1>o, <2>1 DEF HeldShot, HeldOwn
    <2>2. CASE dispatch'.reply = r /\ queue' = queue
      BY <1>o, <2>2 DEF HeldShot, HeldOwn
    <2> QED BY <1>1, <2>1, <2>2
  <1>5. r \in Events => WireShot
    BY <1>2 DEF WireShot
  <1>6. r \in Events => ~QueueShot /\ callback = Resting /\ shots = {}
    BY <1>5 DEF OneShot
  <1>7. Elems(queue') \subseteq Elems(queue) \cup {r} /\ Once(queue', Events)
    <2>1. r \notin Events \/ \A x \in Elems(queue) : x \notin Events
      BY <1>6 DEF QueueShot
    <2>2. Once(queue, Events)
      BY DEF OneShot
    <2> QED BY <1>1, <1>2, <2>1, <2>2, QueueGrows
  <1>8. (WireShot' => WireShot /\ r \notin Events) /\ (QueueShot' => QueueShot \/ r \in Events)
    BY <1>o, <1>2, <1>7 DEF WireShot, QueueShot
  <1>9. Flying' => Flying
    BY <1>u, <1>o, <1>4, <1>5, <1>8 DEF Flying
  <1>10. HeldShot' => ~QueueShot'
    <2>1. queue' = queue => QueueShot' = QueueShot
      BY <1>o DEF QueueShot
    <2> QED BY <1>4, <1>6, <2>1
  <1>11. OneShot'
    BY <1>u, <1>o, <1>2, <1>4, <1>6, <1>7, <1>8, <1>9, <1>10 DEF OneShot
  <1>12. Accepted'
    <2>1. SUFFICES ASSUME Flying \/ InView, capture.pc = "sample" PROVE Accepted'
      BY <1>u, <1>o, <1>9 DEF Accepted
    <2>2. HeldOwn' => dispatch'.reply.type # "log"
      BY <1>2, <1>4, <2>1 DEF Accepted
    <2> QED BY <1>u, <1>o, <1>2, <2>1, <2>2 DEF Accepted
  <1> QED BY <1>11, <1>12

(* So does the walk, which an image leaves for the monitor's queue.         *)
LEMMA WalkKeepsShots ==
  ASSUME VisionTypeOK, ~AnyLate, OneShot, Accepted, WalkFirst \/ WalkNext \/ Compare
  PROVE  OneShot' /\ Accepted'
  <1>u. UNCHANGED <<givenUp, chip, shots, chipWire, request, requestPc, chipReply, numbered, answered, callback,
                    capture, captureSem, image, handed, freed>>
    BY WalkSteps
  <1>o. OwnCommands' = OwnCommands /\ OwnReplies' = OwnReplies /\ Events' = Events /\ WireShot' = WireShot
        /\ Landing' = Landing /\ InView' = InView /\ ChipOwn' = ChipOwn
    BY <1>u DEF OwnCommands, OwnReplies, Events, WireShot, Landing, InView, ChipOwn
  <1>a. ASSUME OneShot', Flying' => Flying, HeldOwn' => HeldOwn /\ dispatch'.reply = dispatch.reply
        PROVE  OneShot' /\ Accepted'
    BY <1>u, <1>o, <1>a DEF Accepted
  <1>1. CASE dispatch'.reply = dispatch.reply /\ queue' = queue
    <2>1. HeldShot' = HeldShot /\ HeldOwn' = HeldOwn
      BY <1>u, <1>1, HandKept
    <2>2. OneShot' /\ Flying' = Flying
      BY <1>u, <1>1, <2>1, SceneUntouched
    <2> QED BY <1>a, <1>1, <2>1, <2>2
  <1>2. CASE dispatch' = Undispatched /\ (queue' = queue \/ NotFound(dispatch.reply))
    <2> DEFINE r == dispatch.reply
    <2>1. r \in Replies /\ (r \in Events <=> HeldShot)
      BY WalkSteps, HandParts DEF HeldShot
    <2>2. ~HeldOwn' /\ ~HeldShot'
      BY <1>u, <1>2, HandEmptied
    <2> HIDE DEF r
    <2>3. r \in Events => ~QueueShot /\ callback = Resting /\ shots = {} /\ ~WireShot
      BY <2>1 DEF OneShot
    <2>4. Elems(queue') \subseteq Elems(queue) \cup {r} /\ Once(queue', Events)
      <3>1. r \notin Events \/ \A x \in Elems(queue) : x \notin Events
        BY <2>3 DEF QueueShot
      <3>2. Once(queue, Events) /\ (queue' = queue \/ NotFound(r))
        BY <1>2 DEF OneShot, r
      <3> QED BY <2>1, <3>1, <3>2, QueueGrows
    <2>5. QueueShot' => QueueShot \/ r \in Events
      BY <1>o, <2>4 DEF QueueShot
    <2>6. Flying' => Flying
      BY <1>u, <1>o, <2>1, <2>2, <2>5 DEF Flying
    <2>7. OneShot'
      BY <1>u, <1>o, <2>2, <2>3, <2>4, <2>5, <2>6 DEF OneShot
    <2> QED BY <1>a, <2>2, <2>6, <2>7
  <1> QED BY <1>1, <1>2, WalkSteps

(* So does delivering.                                                      *)
LEMMA DeliverKeepsShots ==
  ASSUME VisionTypeOK, Numbering, Replying, ~AnyLate, OneShot, Accepted, Deliver
  PROVE  OneShot' /\ Accepted'
  <1> USE DEF requestVars, chipVars, cameraVars
  <1>u. /\ UNCHANGED <<givenUp, chip, shots, chipWire, queue, request, requestPc, numbered, answered, callback, capture,
                       captureSem, image, handed, freed>>
        /\ dispatch.at = "send" /\ dispatch' = Undispatched /\ chipReply' \in {chipReply, dispatch.reply}
    BY DEF Deliver
  <1>o. OwnCommands' = OwnCommands /\ OwnReplies' = OwnReplies /\ ChipOwn' = ChipOwn
    BY <1>u DEF OwnCommands, OwnReplies, ChipOwn
  <1>2. ~HeldOwn' /\ ~HeldShot'
    BY <1>u, HandEmptied
  <1>h. dispatch.reply \in Replies /\ dispatch.reply.type # "event"
    BY <1>u, HandParts DEF Replying, InFlight, HandMeant
  <1>1. OneShot' /\ Flying' = Flying /\ InView' = InView
    BY <1>u, <1>2, <1>h, SceneUntouched DEF HeldShot, Events
  <1>3. dispatch.reply.n = numbered => HeldOwn
    BY <1>h DEF HeldOwn, OwnReplies
  <1>4. CASE chipReply' = chipReply
    BY <1>u, <1>o, <1>1, <1>2, <1>4 DEF Accepted
  <1>5. CASE chipReply' = dispatch.reply
    BY <1>u, <1>o, <1>1, <1>2, <1>3, <1>5 DEF Accepted
  <1> QED BY <1>u, <1>4, <1>5

(* So do the monitor and its callback: it has nothing to free.              *)
LEMMA CallbackKeepsShots ==
  ASSUME VisionTypeOK, ~AnyLate, OneShot, Accepted, MonitorTakes \/ OnEvent
  PROVE  OneShot' /\ Accepted'
  <1> USE DEF requestVars, chipVars, cameraVars
  <1>u. UNCHANGED <<chip, dispatch, request, requestPc, chipReply, numbered, answered,
                    shots, chipWire, capture, handed>>
    BY DEF MonitorTakes, OnEvent
  <1>o. OwnCommands' = OwnCommands /\ OwnReplies' = OwnReplies /\ HeldOwn' = HeldOwn /\ Events' = Events
        /\ ChipOwn' = ChipOwn /\ WireShot' = WireShot /\ HeldShot' = HeldShot
    BY <1>u DEF OwnCommands, OwnReplies, HeldOwn, Events, ChipOwn, WireShot, HeldShot
  <1>a. ASSUME OneShot', Flying' \/ InView' => Flying \/ InView PROVE OneShot' /\ Accepted'
    BY <1>u, <1>o, <1>a DEF Accepted
  <1>f. /\ Once(chipWire, Events) /\ \A m, n \in shots : m = n
        /\ image # 0 => capture.pc \in {"sample", "wait", "check", "take", "forget"}
        /\ capture.pc = "take" => image # 0
        /\ capture.pc = "forget" => handed.from = image /\ image # 0
        /\ freed = {}
    BY DEF OneShot
  <1>1. CASE MonitorTakes
    <2> DEFINE r == Head(queue)
    <2>1. queue # <<>> /\ queue' = Tail(queue) /\ callback = Resting /\ UNCHANGED <<captureSem,
                    image, freed>>
          /\ callback' = IF r.type = "event" THEN At("free", r.n) ELSE Resting
      BY <1>1 DEF MonitorTakes
    <2>2. r \in Elems(queue) /\ r \in Replies /\ Elems(queue') \subseteq Elems(queue)
          /\ Once(queue', Events)
          /\ (r \in Events => \A x \in Elems(queue') : x \notin Events)
      <3>1. Once(queue, Events)
        BY DEF OneShot
      <3> QED BY <2>1, <3>1, TailElems, ReplyShapes
    <2> HIDE DEF r
    <2>3. CASE r.type = "event"
      <3>1. r \in Events /\ QueueShot
        BY <2>2, <2>3 DEF Events, QueueShot
      <3>2. ~QueueShot' /\ callback'.pc = "free"
        BY <1>o, <2>1, <2>2, <2>3, <3>1 DEF QueueShot, At
      <3>3. shots = {} /\ ~WireShot /\ ~HeldShot /\ Flying
        BY <3>1 DEF OneShot, Flying
      <3>4. OneShot'
        BY <1>u, <1>o, <1>f, <2>1, <2>2, <3>1, <3>2, <3>3 DEF OneShot
      <3> QED BY <1>a, <3>3, <3>4
    <2>4. CASE r.type # "event"
      <3>1. callback' = callback
        BY <2>1, <2>4
      <3>2. QueueShot' => QueueShot
        BY <1>o, <2>2 DEF QueueShot
      <3>3. (Flying' => Flying) /\ InView' = InView
        BY <1>u, <1>o, <2>1, <3>1, <3>2 DEF Flying, InView, Landing
      <3>4. OneShot'
        BY <1>u, <1>o, <1>f, <2>1, <2>2, <3>1, <3>2, <3>3 DEF OneShot
      <3> QED BY <1>a, <3>3, <3>4
    <2> QED BY <2>3, <2>4
  <1>2. CASE OnEvent
    <2>1. queue' = queue /\ QueueShot' = QueueShot
      BY <1>o, <1>2 DEF OnEvent, QueueShot
    <2>2. callback.pc \in {"free", "store", "give"} /\ callback # Resting
      BY <1>2, CallbackRests DEF OnEvent
    <2>3. shots = {} /\ ~WireShot /\ ~HeldShot /\ ~QueueShot /\ ~captureSem /\ capture.pc \in {"sample", "wait"} /\ (Flying \/ InView)
      BY <2>2 DEF OneShot, Flying, Landing, InView
    <2>4. CASE callback.pc = "free" /\ Free(image) /\ callback' = At("store", callback.n) /\ UNCHANGED <<image,
                                                                                                         captureSem>>
      <3>1. image = 0
        BY <2>4 DEF OneShot, Flying, Landing
      <3>2. freed' = {} /\ callback'.pc = "store"
        BY <1>f, <2>4, <3>1 DEF Free, At
      <3>3. OneShot'
        BY <1>u, <1>o, <1>f, <2>1, <2>3, <2>4, <3>1, <3>2, CallbackRests DEF OneShot
      <3> QED BY <1>a, <2>3, <3>3
    <2>5. CASE callback.pc = "store" /\ callback' = At("give", callback.n) /\ UNCHANGED <<freed,
                                                                                          captureSem>>
      <3>1. callback'.pc = "give" /\ ~Flying'
        BY <1>u, <1>o, <2>1, <2>3, <2>5 DEF Flying, Landing, At
      <3>2. OneShot'
        BY <1>u, <1>o, <1>f, <2>1, <2>3, <2>5, <3>1 DEF OneShot
      <3> QED BY <1>a, <2>3, <3>2
    <2>6. CASE callback.pc = "give" /\ callback' = Resting /\ UNCHANGED <<image, freed>>
      <3>1. callback' = Resting /\ callback'.pc = "rest" /\ ~Flying'
        BY <1>u, <1>o, <2>1, <2>3, <2>6 DEF Flying, Landing, At, Resting
      <3>2. OneShot'
        BY <1>u, <1>o, <1>f, <2>1, <2>3, <2>6, <3>1 DEF OneShot
      <3> QED BY <1>a, <2>3, <3>2
    <2> QED BY <1>2, <2>4, <2>5, <2>6 DEF OnEvent
  <1> QED BY <1>1, <1>2

(* So do the camera's own steps: nothing flies but while it samples or      *)
(* waits.                                                                   *)
LEMMA CameraKeepsShots ==
  ASSUME VisionTypeOK, ~AnyLate, ~AnyLate', OneShot, Accepted,
         \/ CaptureBegin \/ CaptureClear \/ CaptureDrain \/ CaptureWaits
         \/ CaptureChecks \/ CaptureTakes \/ CaptureForgets
  PROVE  OneShot' /\ Accepted'
  <1> USE DEF requestVars, chipVars, cameraVars
  <1>u. UNCHANGED <<chip, dispatch, request, requestPc, chipReply, numbered, answered,
                    shots, chipWire, queue, callback>>
    BY DEF CaptureBegin, CaptureClear, CaptureDrain, CaptureWaits, CaptureChecks,
       CaptureTakes, CaptureForgets
  <1>o. Events' = Events /\ WireShot' = WireShot /\ QueueShot' = QueueShot /\ Landing' = Landing /\ Flying' = Flying
        /\ HeldShot' = HeldShot
    BY <1>u DEF Events, WireShot, QueueShot, Landing, Flying, HeldShot
  <1>f. /\ Once(chipWire, Events) /\ Once(queue, Events) /\ \A m, n \in shots : m = n
        /\ image # 0 => capture.pc \in {"sample", "wait", "check", "take", "forget"}
        /\ capture.pc = "take" => image # 0
        /\ capture.pc = "forget" => handed.from = image /\ image # 0
        /\ freed = {} /\ captureSem \in BOOLEAN
    BY VisionTypes DEF OneShot, ImageT
  <1>a. ASSUME ~Flying, callback.pc # "give", captureSem' = FALSE, freed' = {},
               image' # 0 => capture'.pc \in {"check", "take", "forget"},
               capture'.pc = "take" => image' # 0,
               capture'.pc = "forget" => handed'.from = image' /\ image' # 0
        PROVE  OneShot' /\ Accepted'
    <2>1. ~Flying' /\ shots = {} /\ ~WireShot /\ ~HeldShot /\ ~QueueShot /\ ~Landing
      BY <1>o, <1>a, Zenon DEF Flying
    <2>2. OneShot'
      BY <1>u, <1>o, <1>f, <1>a, <2>1 DEF OneShot
    <2>3. capture'.pc = "sample" => ~InView'
      BY <1>u, <1>a DEF InView
    <2> QED BY <2>1, <2>2, <2>3 DEF Accepted
  <1>b. capture.pc \notin {"sample", "wait"} => ~Flying /\ callback.pc # "give" /\ captureSem = FALSE
    BY <1>f DEF OneShot
  <1>1. CASE CaptureBegin
    <2>1. image = 0 /\ capture.pc = "rest"
      BY <1>1, <1>f DEF CaptureBegin, Resting, At
    <2>2. capture'.pc = "drain" /\ freed' = {} /\ UNCHANGED <<image, captureSem>>
      BY <1>1, <1>f, <2>1 DEF CaptureBegin, Free, At
    <2> QED BY <1>a, <1>b, <2>1, <2>2
  <1>2. CASE CaptureClear
    <2>1. capture.pc = "clear" /\ capture'.pc = "drain" /\ image' = 0 /\ UNCHANGED <<freed,
                                                                                     captureSem>>
      BY <1>2 DEF CaptureClear, At
    <2> QED BY <1>a, <1>b, <1>f, <2>1
  <1>3. CASE CaptureDrain
    <2>1. capture.pc = "drain" /\ capture'.pc = "sample" /\ captureSem' = FALSE /\ UNCHANGED <<freed,
                                                                                               image>>
      BY <1>3 DEF CaptureDrain, At
    <2> QED BY <1>a, <1>b, <1>f, <2>1
  <1>4. CASE CaptureWaits
    <2>1. CASE captureSem /\ captureSem' = FALSE /\ capture' = At("check", capture.n)
      <3>1. ~Flying /\ callback.pc # "give"
        BY <2>1, CallbackRests DEF OneShot
      <3>2. capture'.pc = "check" /\ UNCHANGED <<image, freed>>
        BY <1>4, <2>1 DEF CaptureWaits, At
      <3> QED BY <1>a, <1>f, <2>1, <3>1, <3>2
    <2>2. CASE givenUp' = givenUp \cup {[cmd |-> "SAMPLE", n |-> capture.n]}
      <3>1. [cmd |-> "SAMPLE", n |-> capture.n] \in givenUp'
        BY <2>2
      <3>2. [cmd |-> "SAMPLE", n |-> capture.n].cmd = "SAMPLE"
        OBVIOUS
      <3>3. AnyLate'
        BY <3>1, <3>2, Zenon DEF AnyLate
      <3> QED BY <3>3
    <2> QED BY <1>4, <2>1, <2>2 DEF CaptureWaits
  <1>5. CASE CaptureChecks
    <2>1. capture.pc = "check" /\ UNCHANGED <<image, freed, captureSem, handed>>
          /\ capture'.pc = IF image = 0 THEN "rest" ELSE "take"
      BY <1>5 DEF CaptureChecks, At, Resting
    <2> QED BY <1>a, <1>b, <1>f, <2>1
  <1>6. CASE CaptureTakes
    <2>1. capture.pc = "take" /\ UNCHANGED <<image, freed, captureSem>>
          /\ capture'.pc = "forget" /\ handed'.from = image
      BY <1>6 DEF CaptureTakes, At
    <2> QED BY <1>a, <1>b, <1>f, <2>1
  <1>7. CASE CaptureForgets
    <2>1. capture.pc = "forget" /\ UNCHANGED <<freed, captureSem>> /\ image' = 0 /\ capture'.pc = "rest"
      BY <1>7 DEF CaptureForgets, At, Resting
    <2> QED BY <1>a, <1>b, <1>f, <2>1
  <1> QED BY <1>1, <1>2, <1>3, <1>4, <1>5, <1>6, <1>7

(* Every step preserves what is said of images.                             *)
LEMMA ShotsKeep == VisionTypeOK /\ Numbering /\ Replying /\ ShotInv /\ [VisionNext]_visionVars => ShotInv'
  <1> SUFFICES ASSUME VisionTypeOK, Numbering, Replying, ShotInv, [VisionNext]_visionVars PROVE ShotInv'
    OBVIOUS
  <1>1. ShotsMeant'
    BY ShotsMeantKeep
  <1>2. ASSUME ~AnyLate' PROVE OneShot' /\ Accepted'
    <2>1. ~AnyLate
      BY <1>2, GivenUpGrows DEF AnyLate
    <2>2. OneShot /\ Accepted
      BY <2>1 DEF ShotInv
    <2> USE DEF requestVars, chipVars, cameraVars
    <2>3. ASSUME UNCHANGED <<shots, chipWire, queue, callback, capture, captureSem, image, handed, freed>>,
                 UNCHANGED <<chip, dispatch, request, requestPc, chipReply, numbered, answered>>
          PROVE  OneShot' /\ Accepted'
      <3>3. HeldShot' = HeldShot
        BY <2>3, HandKept
      <3>1. OneShot' /\ Flying' = Flying /\ InView' = InView
        BY <2>2, <2>3, <3>3, SceneUntouched
      <3>2. OwnCommands' = OwnCommands /\ OwnReplies' = OwnReplies /\ ChipOwn' = ChipOwn /\ HeldOwn' = HeldOwn
        BY <2>3 DEF OwnCommands, OwnReplies, ChipOwn, HeldOwn
      <3> QED BY <2>2, <2>3, <3>1, <3>2 DEF Accepted
    <2>4. ASSUME NEW fn \in Functions, CallBegin(fn) PROVE OneShot' /\ Accepted'
      BY <2>3, <2>4 DEF CallBegin
    <2>5. CASE UNCHANGED visionVars
      BY <2>3, <2>5 DEF visionVars
    <2>6. CASE RequestBegin \/ RequestWrite \/ RequestAnswered \/ RequestTimeout \/ RequestUnlist \/ RequestDelete
      BY <1>2, <2>1, <2>2, <2>6, RequestsKeepShots
    <2>7. CASE ChipAnswers
      BY <2>1, <2>2, <2>7, AnswerKeepsShots
    <2>8. CASE ChipShoots
      BY <2>1, <2>2, <2>8, ShootKeepsShots
    <2>9. CASE Dispatch
      BY <2>1, <2>2, <2>9, DispatchKeepsShots
    <2>10. CASE Deliver
      BY <2>1, <2>2, <2>10, DeliverKeepsShots
    <2>13. CASE WalkFirst \/ WalkNext \/ Compare
      BY <2>1, <2>2, <2>13, WalkKeepsShots
    <2>11. CASE MonitorTakes \/ OnEvent
      BY <2>1, <2>2, <2>11, CallbackKeepsShots
    <2>12. CASE \/ CaptureBegin \/ CaptureClear \/ CaptureDrain \/ CaptureWaits
                \/ CaptureChecks \/ CaptureTakes \/ CaptureForgets
      BY <1>2, <2>1, <2>2, <2>12, CameraKeepsShots
    <2> QED BY <2>4, <2>5, <2>6, <2>7, <2>8, <2>9, <2>10, <2>11, <2>12, <2>13 DEF VisionNext
  <1> QED BY <1>1, <1>2 DEF ShotInv

(* No step takes damage back.                                               *)
LEMMA SoundBefore == [VisionNext]_visionVars => (Sound' => Sound)
  <1> SUFFICES ASSUME [VisionNext]_visionVars PROVE damage \subseteq damage'
    BY DEF Sound
  <1> USE DEF requestVars, chipVars, cameraVars
  <1>1. ASSUME NEW fn \in Functions, CallBegin(fn) PROVE damage' = damage
    BY <1>1 DEF CallBegin
  <1>2. CASE RequestBegin \/ RequestWrite \/ RequestAnswered \/ RequestTimeout \/ RequestUnlist \/ ChipAnswers
             \/ ChipShoots \/ MonitorTakes \/ Dispatch \/ WalkFirst \/ WalkNext
    BY <1>2 DEF RequestBegin, RequestWrite, RequestAnswered, RequestTimeout, RequestUnlist, ChipAnswers,
       ChipShoots, MonitorTakes, Dispatch, WalkFirst, WalkNext
  <1>3. CASE CaptureClear \/ CaptureDrain \/ CaptureWaits \/ CaptureChecks \/ CaptureTakes
             \/ UNCHANGED visionVars
    BY <1>3 DEF CaptureClear, CaptureDrain, CaptureWaits, CaptureChecks, CaptureTakes, visionVars
  <1>4. CASE RequestDelete \/ Compare \/ Deliver \/ OnEvent \/ CaptureBegin \/ CaptureForgets
    BY <1>4 DEF RequestDelete, Compare, Deliver, OnEvent, CaptureBegin, CaptureForgets, Free
  <1> QED BY <1>1, <1>2, <1>3, <1>4 DEF VisionNext

(* A request returns with its own reply and a capture with its own image,   *)
(* unless one was given up before.                                          *)
LEMMA StrangersKeptOut ==
  ASSUME VisionTypeOK, Numbering, Sound => Replying /\ ShotInv, NoStrangers, [VisionNext]_visionVars
  PROVE  NoStrangers'
  <1> USE DEF requestVars, chipVars, cameraVars
  <1>g. givenUp \subseteq givenUp' /\ (Sound' => Sound)
    BY GivenUpGrows, SoundBefore
  <1>0. SUFFICES ASSUME Sound', Sound, Replying, ShotInv PROVE NoStrangers'
    BY <1>g DEF NoStrangers, Sound
  <1>1. CASE RequestAnswered
    <2>1. /\ requestPc = "wait" /\ chipReply # NoReply /\ UNCHANGED handed
          /\ answered' = [asked |-> request, got |-> chipReply]
      BY <1>1 DEF RequestAnswered
    <2>2. Mentions(chipReply.cmd, request.cmd) /\ (chipReply.n = numbered \/ Late(chipReply)) /\ request.n = numbered
      BY <1>0, <2>1 DEF Replying, ReplyHeld, Numbering
    <2>3. Late(chipReply) => \E r \in givenUp : Mentions(r.cmd, request.cmd) /\ r.n <= chipReply.n
      <3>1. SUFFICES ASSUME NEW r \in givenUp, Mentions(r.cmd, chipReply.cmd), r.n <= chipReply.n
                     PROVE  Mentions(r.cmd, request.cmd)
        BY DEF Late
      <3> QED BY <2>2, <3>1, MentionsChain
    <2>4. answered'.asked = request /\ answered'.got = chipReply
      BY <2>1
    <2>5. NoStrangers => (handed.from \notin {0, handed.for} =>
             \E r \in givenUp : r.cmd = "SAMPLE" /\ r.n <= handed.from)
      BY <1>0 DEF NoStrangers, Sound
    <2> QED BY <1>g, <2>1, <2>2, <2>3, <2>4, <2>5 DEF NoStrangers
  <1>2. CASE CaptureTakes
    <2>1. capture.pc = "take" /\ UNCHANGED <<answered, givenUp>> /\ handed'.for = numbered /\ handed'.from = image
      BY <1>2 DEF CaptureTakes, Numbering
    <2>2. image # 0 => image = numbered \/ LateShot(image)
      BY <1>0 DEF ShotInv, ShotsMeant, OwnShot
    <2> QED BY <1>0, <2>1, <2>2 DEF NoStrangers, LateShot, Sound
  <1>3. CASE ~RequestAnswered /\ ~CaptureTakes
    <2>1. UNCHANGED <<answered, handed>>
      BY <1>3 DEF VisionNext, visionVars, CallBegin, RequestBegin, RequestWrite,
         RequestTimeout, RequestUnlist,
         RequestDelete, ChipAnswers, ChipShoots, Dispatch, WalkFirst, WalkNext, Compare, Deliver, MonitorTakes, OnEvent, CaptureBegin,
         CaptureClear, CaptureDrain, CaptureWaits, CaptureChecks, CaptureForgets
    <2> QED BY <1>0, <1>g, <2>1 DEF NoStrangers, Sound
  <1> QED BY <1>1, <1>2, <1>3

(* As long as nothing was given up a freed request is read and nothing else *)
(* is damaged.                                                              *)
LEMMA DamageStaysLate ==
  ASSUME VisionTypeOK, Numbering, Sound => Replying /\ ShotInv, DamageOnlyWhenLate, [VisionNext]_visionVars
  PROVE  DamageOnlyWhenLate'
  <1> USE DEF requestVars, chipVars, cameraVars
  <1>1. SUFFICES ASSUME givenUp' = {} PROVE damage' \subseteq {"freed request read"}
    BY DEF DamageOnlyWhenLate
  <1>2. givenUp = {} /\ damage \subseteq {"freed request read"}
    BY <1>1, GivenUpGrows DEF DamageOnlyWhenLate
  <1>s. Replying /\ ShotInv
    BY <1>2 DEF Sound
  <1>3. ~AnyLate /\ (\A x : ~Late(x)) /\ OneShot
    BY <1>2, <1>s DEF AnyLate, Late, ShotInv
  <1>4. CASE RequestDelete
    <2>1. chipReply = NoReply
      BY <1>3, <1>4, <1>s DEF RequestDelete, Replying, ReplyHeld
    <2> QED BY <1>2, <1>4, <2>1 DEF RequestDelete
  <1>5. CASE Deliver
    <2>3. dispatch.at = "send" /\ Answering
      BY <1>5, <1>s, HandParts DEF Deliver, Replying, InFlight, HandMeant, Answering
    <2>1. dispatch.to = numbered /\ Current(dispatch.reply)
      BY <1>3, <1>s, <2>3 DEF Replying, InFlight, HandMeant, Expected, WalksOwn
    <2>2. Alive(dispatch.to)
      BY <2>1 DEF Current, Numbering, Alive
    <2> QED BY <1>2, <1>5, <2>2 DEF Deliver
  <1>6. CASE OnEvent
    <2>1. callback.pc = "free" => image = 0
      BY <1>3 DEF OneShot, Flying, Landing
    <2>2. freed = {}
      BY <1>3 DEF OneShot
    <2> QED BY <1>2, <1>6, <2>1, <2>2 DEF OnEvent, Free
  <1>7. CASE CaptureBegin
    <2>1. image = 0 /\ freed = {}
      BY <1>3, <1>7 DEF OneShot, CaptureBegin, Resting, At
    <2> QED BY <1>2, <1>7, <2>1 DEF CaptureBegin, Free
  <1>8. CASE CaptureForgets
    <2>1. handed.from = image /\ freed = {}
      BY <1>3, <1>8 DEF OneShot, CaptureForgets
    <2> QED BY <1>2, <1>8, <2>1 DEF CaptureForgets
  <1>10. CASE WalkFirst \/ WalkNext \/ Compare
    <2>1. damage' = damage \/ damage' = damage \cup {"freed request read"}
      BY <1>10, WalkSteps
    <2> QED BY <1>2, <2>1
  <1>9. CASE ~RequestDelete /\ ~Deliver /\ ~OnEvent /\ ~CaptureBegin /\ ~CaptureForgets
              /\ ~(WalkFirst \/ WalkNext \/ Compare)
    <2>1. damage' = damage
      BY <1>9 DEF VisionNext, visionVars, CallBegin, RequestBegin, RequestWrite,
         RequestAnswered, RequestTimeout,
         RequestUnlist, ChipAnswers, ChipShoots, Dispatch, MonitorTakes,
         CaptureClear, CaptureDrain, CaptureWaits, CaptureChecks, CaptureTakes
    <2> QED BY <1>2, <2>1
  <1> QED BY <1>4, <1>5, <1>6, <1>7, <1>8, <1>9, <1>10

(* The invariant holds in every state.                                      *)
LEMMA VisionKept == VisionSpec => []VisionInv
  <1>1. VisionInv /\ [VisionNext]_visionVars => VisionInv'
    <2> SUFFICES ASSUME VisionInv, [VisionNext]_visionVars PROVE VisionInv'
      OBVIOUS
    <2>1. VisionTypeOK /\ Numbering /\ NoStrangers /\ DamageOnlyWhenLate /\ (Sound => Replying /\ ShotInv)
      BY DEF VisionInv
    <2>2. VisionTypeOK'
      BY <2>1, VisionTypesKeep
    <2>3. Numbering'
      BY <2>1, NumberingKeeps
    <2>4. Sound' => Replying' /\ ShotInv'
      BY <2>1, SoundBefore, RepliesKeep, ShotsKeep
    <2>5. NoStrangers' /\ DamageOnlyWhenLate'
      BY <2>1, StrangersKeptOut, DamageStaysLate
    <2> QED BY <2>2, <2>3, <2>4, <2>5 DEF VisionInv
  <1> QED BY <1>1, VisionStarts, PTL DEF VisionSpec

(* sscma_client_ops.c:300, :350, :386: a request returns with the reply to  *)
(* it and a capture with its own image, and the process task, which walks   *)
(* the list without a lock, may read a request that was freed but sends no  *)
(* reply to a freed queue and no image is freed twice, until the first      *)
(* request that is given up, for any number of requests, any queue and any  *)
(* of the client's functions.                                               *)
THEOREM OwnAnswers == VisionSpec => [](NoStrangers /\ DamageOnlyWhenLate)
  <1>1. VisionInv => NoStrangers /\ DamageOnlyWhenLate
    BY DEF VisionInv
  <1> QED BY <1>1, VisionKept, PTL

(* The requests and replies, the shots and the tasks that wait for them.    *)
LEMMA VisionTyped == VisionSpec => []VisionTypeOK
  <1>1. VisionInv => VisionTypeOK
    BY DEF VisionInv
  <1> QED BY <1>1, VisionKept, PTL

-----------------------------------------------------------------------------
(* The replies cut out of the chip's bytes.                                 *)

(* What is kept of a sequence as it grows.                                  *)
NextKept(kept, b) == IF b = Nul THEN kept ELSE Append(kept, b)
IsKept(s, f) ==
  /\ f = [i \in 0..Len(s) |-> IF i = 0 THEN <<>> ELSE NextKept(f[i - 1], s[i])]
  /\ \A i \in 0..Len(s) : f[i] \in Seq(Bytes)

(* Whatever byte comes, what is kept stays a sequence of bytes.             *)
LEMMA NextKeptType ==
  ASSUME NEW kept, kept \in Seq(Bytes), NEW b \in Bytes
  PROVE  NextKept(kept, b) \in Seq(Bytes)
  BY DEF NextKept

(* The function of the definition exists, for sequences of any length ...   *)
LEMMA KeptExist ==
  ASSUME NEW s, s \in Seq(Bytes)
  PROVE  \E f : IsKept(s, f)
  <1> DEFINE Upto(n, f) == /\ f[0] = <<>> /\ \A k \in 1..n : f[k] = NextKept(f[k - 1], s[k])
                           /\ \A k \in 0..n : f[k] \in Seq(Bytes)
             T == {n \in Nat : n <= Len(s) => \E f : Upto(n, f)}
  <1>1. 0 \in T
    <2>1. Upto(0, [k \in {0} |-> <<>>])
      OBVIOUS
    <2> HIDE DEF Upto
    <2> QED BY <2>1
  <1>2. ASSUME NEW n \in Nat, n \in T PROVE n + 1 \in T
    <2>1. SUFFICES ASSUME n + 1 <= Len(s) PROVE \E f : Upto(n + 1, f)
      BY DEF T
    <2>2. PICK f : Upto(n, f)
      <3> HIDE DEF Upto
      <3>1. n <= Len(s)
        BY <2>1
      <3>2. n <= Len(s) => \E f : Upto(n, f)
        BY <1>2 DEF T
      <3> QED BY <3>1, <3>2
    <2>3. s[n + 1] \in Bytes
      BY <2>1
    <2> DEFINE g == [k \in 0..(n + 1) |-> IF k = n + 1 THEN NextKept(f[n], s[n + 1]) ELSE f[k]]
    <2>4. \A k \in 0..n : g[k] = f[k]
      OBVIOUS
    <2>5. g[n + 1] = NextKept(f[n], s[n + 1])
      OBVIOUS
    <2> HIDE DEF g
    <2>6. Upto(n + 1, g)
      <3>1. g[0] = <<>> /\ g[n + 1] \in Seq(Bytes)
        <4>1. f[n] \in Seq(Bytes) /\ f[0] = <<>> /\ 0 \in 0..n
          BY <2>2
        <4>2. NextKept(f[n], s[n + 1]) \in Seq(Bytes)
          BY <2>3, <4>1, NextKeptType
        <4> QED BY <2>4, <2>5, <4>1, <4>2
      <3>2. ASSUME NEW k \in 1..(n + 1) PROVE g[k] = NextKept(g[k - 1], s[k])
        <4>1. CASE k = n + 1
          <5>1. k - 1 = n /\ n \in 0..n
            BY <4>1
          <5> QED BY <2>4, <2>5, <4>1, <5>1
        <4>2. CASE k # n + 1
          <5>1. k \in 1..n /\ k \in 0..n /\ k - 1 \in 0..n
            BY <4>2
          <5> QED BY <2>2, <2>4, <5>1
        <4> QED BY <4>1, <4>2
      <3>3. ASSUME NEW k \in 0..(n + 1) PROVE g[k] \in Seq(Bytes)
        <4>1. k = n + 1 \/ k \in 0..n
          OBVIOUS
        <4> QED BY <2>2, <2>4, <3>1, <4>1
      <3> QED BY <3>1, <3>2, <3>3
    <2> HIDE DEF Upto
    <2> QED BY <2>6
  <1>3. Len(s) \in Nat /\ Len(s) \in T
    <2> HIDE DEF T
    <2>1. \A n \in Nat : n \in T => n + 1 \in T
      BY <1>2
    <2>2. Nat \subseteq T
      BY <1>1, <2>1, Upwards
    <2>3. Len(s) \in Nat
      OBVIOUS
    <2> QED BY <2>2, <2>3
  <1>4. PICK f : Upto(Len(s), f)
    BY <1>3
  <1> DEFINE g == [k \in 0..Len(s) |-> f[k]]
  <1>5. \A k \in 0..Len(s) : g[k] = f[k]
    OBVIOUS
  <1>6. ASSUME NEW k \in 0..Len(s) PROVE f[k] = IF k = 0 THEN <<>> ELSE NextKept(g[k - 1], s[k])
    <2>1. CASE k = 0
      BY <1>4, <2>1
    <2>2. CASE k # 0
      <3>1. k \in 1..Len(s) /\ k - 1 \in 0..Len(s)
        BY <1>3, <2>2
      <3> QED BY <1>4, <1>5, <2>2, <3>1
    <2> QED BY <2>1, <2>2
  <1>7. g = [k \in 0..Len(s) |-> IF k = 0 THEN <<>> ELSE NextKept(g[k - 1], s[k])]
    BY <1>6
  <1>8. \A k \in 0..Len(s) : g[k] \in Seq(Bytes)
    BY <1>4, <1>5
  <1> HIDE DEF g
  <1> QED BY <1>7, <1>8 DEF IsKept

(* ... and its last value is what Compacted gives.                          *)
LEMMA KeptIs ==
  ASSUME NEW s, s \in Seq(Bytes), NEW f, IsKept(s, f)
  PROVE  Compacted(s) = f[Len(s)]
  <1> DEFINE h == CHOOSE g : g = [i \in 0..Len(s) |-> IF i = 0 THEN <<>> ELSE
                              IF s[i] = Nul THEN g[i - 1] ELSE Append(g[i - 1], s[i])]
  <1>1. Compacted(s) = h[Len(s)]
    BY DEF Compacted
  <1>2. f = [i \in 0..Len(s) |-> IF i = 0 THEN <<>> ELSE
                              IF s[i] = Nul THEN f[i - 1] ELSE Append(f[i - 1], s[i])]
    BY DEF IsKept, NextKept
  <1>9. h = [i \in 0..Len(s) |-> IF i = 0 THEN <<>> ELSE
                              IF s[i] = Nul THEN h[i - 1] ELSE Append(h[i - 1], s[i])]
    BY <1>2
  <1> HIDE DEF h
  <1>3. \A i \in 0..Len(s) : h[i] = IF i = 0 THEN <<>> ELSE NextKept(h[i - 1], s[i])
    BY <1>9 DEF NextKept
  <1>4. \A i \in 0..Len(s) : f[i] = IF i = 0 THEN <<>> ELSE NextKept(f[i - 1], s[i])
    BY DEF IsKept
  <1> DEFINE T == {n \in Nat : n <= Len(s) => h[n] = f[n]}
  <1>5. 0 \in T
    BY <1>3, <1>4
  <1>6. ASSUME NEW n \in Nat, n \in T PROVE n + 1 \in T
    <2>1. SUFFICES ASSUME n + 1 <= Len(s) PROVE h[n + 1] = f[n + 1]
      OBVIOUS
    <2>2. n + 1 \in 0..Len(s) /\ n + 1 # 0 /\ n + 1 - 1 = n /\ h[n] = f[n]
      BY <1>6, <2>1
    <2> QED BY <1>3, <1>4, <2>2
  <1>7. Len(s) \in Nat /\ Len(s) \in T
    <2> HIDE DEF T
    <2>1. \A n \in Nat : n \in T => n + 1 \in T
      BY <1>6
    <2>2. Nat \subseteq T
      BY <1>5, <2>1, Upwards
    <2>3. Len(s) \in Nat
      OBVIOUS
    <2> QED BY <2>2, <2>3
  <1> QED BY <1>1, <1>7

(* Nothing is kept of nothing.                                              *)
LEMMA CompactedEmpty == Compacted(<<>>) = <<>>
  <1>1. <<>> \in Seq(Bytes) /\ Len(<<>>) = 0
    OBVIOUS
  <1>2. PICK f : IsKept(<<>>, f)
    BY <1>1, KeptExist
  <1>3. f[0] = <<>>
    BY <1>1, <1>2 DEF IsKept
  <1> QED BY <1>1, <1>2, <1>3, KeptIs

(* One byte more is kept unless it is a NUL.                                *)
LEMMA CompactedAppend ==
  ASSUME NEW s, s \in Seq(Bytes), NEW b \in Bytes
  PROVE  Compacted(s) \in Seq(Bytes) /\ Compacted(Append(s, b)) = NextKept(Compacted(s), b)
  <1>0. Len(s) \in Nat
    OBVIOUS
  <1>1. PICK f : IsKept(s, f)
    BY KeptExist
  <1>2. Compacted(s) = f[Len(s)] /\ f[Len(s)] \in Seq(Bytes)
    <2>1. Compacted(s) = f[Len(s)]
      BY <1>1, KeptIs
    <2>2. Len(s) \in 0..Len(s)
      BY <1>0
    <2> QED BY <1>1, <2>1, <2>2 DEF IsKept
  <1> DEFINE t == Append(s, b)
             g == [i \in 0..Len(t) |-> IF i = Len(t) THEN NextKept(f[Len(s)], b) ELSE f[i]]
  <1>3. t \in Seq(Bytes) /\ Len(t) = Len(s) + 1 /\ t[Len(t)] = b /\ \A i \in 1..Len(s) : t[i] = s[i]
    OBVIOUS
  <1> HIDE DEF t
  <1>4. \A i \in 0..Len(s) : g[i] = f[i]
    BY <1>0, <1>3
  <1>5. g[Len(t)] = NextKept(f[Len(s)], b)
    BY <1>0, <1>3
  <1>6. \A i \in 0..Len(s) : f[i] = (IF i = 0 THEN <<>> ELSE NextKept(f[i - 1], s[i])) /\ f[i] \in Seq(Bytes)
    BY <1>1 DEF IsKept
  <1>7. g = [i \in 0..Len(t) |-> g[i]]
    OBVIOUS
  <1> HIDE DEF g
  <1>8. ASSUME NEW i \in 0..Len(t)
        PROVE  g[i] = (IF i = 0 THEN <<>> ELSE NextKept(g[i - 1], t[i])) /\ g[i] \in Seq(Bytes)
    <2>1. CASE i = Len(t)
      <3>1. i # 0 /\ i - 1 = Len(s) /\ Len(s) \in 0..Len(s)
        BY <1>0, <1>3, <2>1
      <3>2. g[i] = NextKept(f[Len(s)], b) /\ g[i - 1] = f[Len(s)] /\ t[i] = b
        BY <1>3, <1>4, <1>5, <2>1, <3>1
      <3> QED BY <1>2, <3>1, <3>2, NextKeptType
    <2>2. CASE i # Len(t)
      <3>1. i \in 0..Len(s) /\ (i # 0 => i - 1 \in 0..Len(s) /\ i \in 1..Len(s))
        BY <1>0, <1>3, <2>2
      <3> QED BY <1>3, <1>4, <1>6, <3>1
    <2> QED BY <2>1, <2>2
  <1>9. g = [i \in 0..Len(t) |-> IF i = 0 THEN <<>> ELSE NextKept(g[i - 1], t[i])]
    BY <1>7, <1>8
  <1>10. IsKept(t, g)
    BY <1>8, <1>9 DEF IsKept
  <1>11. Compacted(t) = g[Len(t)]
    BY <1>3, <1>10, KeptIs
  <1> QED BY <1>2, <1>5, <1>11 DEF t

(* What is kept is a sequence of bytes.                                     *)
LEMMA CompactedType ==
  ASSUME NEW s, s \in Seq(Bytes)
  PROVE  Compacted(s) \in Seq(Bytes) /\ Len(Compacted(s)) \in Nat
  <1>1. Nul \in Bytes
    BY DEF Bytes
  <1>2. Compacted(s) \in Seq(Bytes)
    BY <1>1, CompactedAppend
  <1> QED BY <1>2

(* A sequence of bytes is empty, or one byte longer than another.           *)
LEMMA LastByte ==
  ASSUME NEW t, t \in Seq(Bytes), NEW n \in Nat, Len(t) = n + 1
  PROVE  \E u \in Seq(Bytes), b \in Bytes : Len(u) = n /\ t = Append(u, b)
  <1>1. t # <<>>
    OBVIOUS
  <1>2. PICK u \in Seq(Bytes), b \in Bytes : t = Append(u, b)
    BY <1>1, SequenceEmptyOrAppend
  <1>3. Len(t) = Len(u) + 1 /\ Len(u) \in Nat
    BY <1>2
  <1>4. Len(u) = n
    BY <1>3
  <1> QED BY <1>2, <1>4

(* Joining and appending, for bytes.                                        *)
Associate(s, t, u) == (s \o t) \o u = s \o (t \o u)
AppendOnto(s, t, b) == Append(s \o t, b) = s \o Append(t, b)

LEMMA BytesJoined ==
  ASSUME NEW s, s \in Seq(Bytes), NEW t, t \in Seq(Bytes), NEW u, u \in Seq(Bytes)
  PROVE  Associate(s, t, u)
  BY ConcatAssociative DEF Associate

LEMMA AppendOver ==
  ASSUME NEW s, s \in Seq(Bytes), NEW t, t \in Seq(Bytes), NEW b \in Bytes
  PROVE  AppendOnto(s, t, b)
  <1>1. s \o t \in Seq(Bytes) /\ <<b>> \in Seq(Bytes)
    OBVIOUS
  <1>2. Append(s \o t, b) = (s \o t) \o <<b>> /\ Append(t, b) = t \o <<b>>
    BY <1>1, AppendIsConcat
  <1>3. Associate(s, t, <<b>>)
    BY <1>1, BytesJoined, Zenon
  <1> QED BY <1>2, <1>3 DEF Associate, AppendOnto

(* Compacting two parts apart is compacting the whole.                      *)
LEMMA CompactedConcat ==
  ASSUME NEW s, s \in Seq(Bytes), NEW t, t \in Seq(Bytes)
  PROVE  Compacted(s \o t) = Compacted(s) \o Compacted(t)
  <1> DEFINE Joins(u) == Compacted(s \o u) = Compacted(s) \o Compacted(u)
             T == {n \in Nat : \A u \in Seq(Bytes) : Len(u) = n => Joins(u)}
  <1>1. 0 \in T
    <2>1. SUFFICES ASSUME NEW u \in Seq(Bytes), Len(u) = 0 PROVE Joins(u)
      OBVIOUS
    <2>2. u = <<>> /\ s \o <<>> = s
      BY <2>1
    <2>3. Compacted(s) \o <<>> = Compacted(s)
      BY CompactedType
    <2> QED BY <2>2, <2>3, CompactedEmpty
  <1>2. ASSUME NEW n \in Nat, n \in T PROVE n + 1 \in T
    <2>1. SUFFICES ASSUME NEW u \in Seq(Bytes), Len(u) = n + 1 PROVE Joins(u)
      OBVIOUS
    <2>2. PICK v \in Seq(Bytes), b \in Bytes : Len(v) = n /\ u = Append(v, b)
      BY <2>1, LastByte
    <2>3. Compacted(s \o v) = Compacted(s) \o Compacted(v)
      BY <1>2, <2>2
    <2>4. s \o v \in Seq(Bytes) /\ s \o u = Append(s \o v, b)
      BY <2>2
    <2>5. /\ Compacted(s \o u) = NextKept(Compacted(s) \o Compacted(v), b)
          /\ Compacted(u) = NextKept(Compacted(v), b)
      BY <2>2, <2>3, <2>4, CompactedAppend
    <2>6. Compacted(s) \in Seq(Bytes) /\ Compacted(v) \in Seq(Bytes)
      BY <2>2, CompactedType
    <2>7. NextKept(Compacted(s) \o Compacted(v), b) = Compacted(s) \o NextKept(Compacted(v), b)
      <3>1. CASE b = Nul
        BY <3>1 DEF NextKept
      <3>2. CASE b # Nul
        <4>1. Append(Compacted(s) \o Compacted(v), b) = Compacted(s) \o Append(Compacted(v), b)
          <5>1. AppendOnto(Compacted(s), Compacted(v), b)
            BY <2>6, AppendOver, Zenon
          <5> QED BY <5>1 DEF AppendOnto
        <4> QED BY <3>2, <4>1 DEF NextKept
      <3> QED BY <3>1, <3>2
    <2> QED BY <2>5, <2>7
  <1>3. Len(t) \in Nat /\ Len(t) \in T
    <2> HIDE DEF T
    <2>1. \A n \in Nat : n \in T => n + 1 \in T
      BY <1>2
    <2>2. Nat \subseteq T
      BY <1>1, <2>1, Upwards
    <2>3. Len(t) \in Nat
      OBVIOUS
    <2> QED BY <2>2, <2>3
  <1> QED BY <1>3

(* A sequence without NULs is kept whole.                                   *)
LEMMA CompactedWhole ==
  ASSUME NEW t, t \in Seq(Bytes), \A i \in 1..Len(t) : t[i] # Nul
  PROVE  Compacted(t) = t
  <1> DEFINE Full(u) == \A i \in 1..Len(u) : u[i] # Nul
             T == {n \in Nat : \A u \in Seq(Bytes) : Len(u) = n /\ Full(u) => Compacted(u) = u}
  <1>1. 0 \in T
    <2>1. SUFFICES ASSUME NEW u \in Seq(Bytes), Len(u) = 0 PROVE Compacted(u) = u
      OBVIOUS
    <2>2. u = <<>>
      BY <2>1
    <2> QED BY <2>2, CompactedEmpty
  <1>2. ASSUME NEW n \in Nat, n \in T PROVE n + 1 \in T
    <2>1. SUFFICES ASSUME NEW u \in Seq(Bytes), Len(u) = n + 1, Full(u) PROVE Compacted(u) = u
      OBVIOUS
    <2>2. PICK v \in Seq(Bytes), b \in Bytes : Len(v) = n /\ u = Append(v, b)
      BY <2>1, LastByte
    <2>3. b # Nul /\ \A i \in 1..Len(v) : v[i] # Nul
      <3>1. u[n + 1] = b /\ \A i \in 1..n : u[i] = v[i]
        BY <2>2
      <3>2. n + 1 \in 1..Len(u) /\ \A i \in 1..n : i \in 1..Len(u)
        BY <2>1
      <3> QED BY <2>1, <2>2, <3>1, <3>2
    <2>4. Compacted(v) = v
      BY <1>2, <2>2, <2>3
    <2> QED BY <2>2, <2>3, <2>4, CompactedAppend DEF NextKept
  <1>3. Len(t) \in Nat /\ Len(t) \in T
    <2> HIDE DEF T
    <2>1. \A n \in Nat : n \in T => n + 1 \in T
      BY <1>2
    <2>2. Nat \subseteq T
      BY <1>1, <2>1, Upwards
    <2>3. Len(t) \in Nat
      OBVIOUS
    <2> QED BY <2>2, <2>3
  <1> QED BY <1>3

(* It never gets longer.                                                    *)
LEMMA CompactedShrinks ==
  ASSUME NEW t, t \in Seq(Bytes)
  PROVE  Len(Compacted(t)) <= Len(t)
  <1> DEFINE T == {n \in Nat : \A u \in Seq(Bytes) : Len(u) = n => Len(Compacted(u)) <= n}
  <1>1. 0 \in T
    <2>1. SUFFICES ASSUME NEW u \in Seq(Bytes), Len(u) = 0 PROVE Len(Compacted(u)) <= 0
      OBVIOUS
    <2>2. u = <<>>
      BY <2>1
    <2> QED BY <2>2, CompactedEmpty
  <1>2. ASSUME NEW n \in Nat, n \in T PROVE n + 1 \in T
    <2>1. SUFFICES ASSUME NEW u \in Seq(Bytes), Len(u) = n + 1 PROVE Len(Compacted(u)) <= n + 1
      OBVIOUS
    <2>2. PICK v \in Seq(Bytes), b \in Bytes : Len(v) = n /\ u = Append(v, b)
      BY <2>1, LastByte
    <2>3. Len(Compacted(v)) <= n
      BY <1>2, <2>2
    <2>4. Compacted(u) = NextKept(Compacted(v), b) /\ Compacted(v) \in Seq(Bytes)
      BY <2>2, CompactedAppend
    <2>5. Len(NextKept(Compacted(v), b)) <= Len(Compacted(v)) + 1
      BY <2>4 DEF NextKept
    <2>6. Len(Compacted(v)) \in Nat /\ Len(Compacted(u)) \in Nat
      BY <2>1, <2>2, CompactedType
    <2> QED BY <2>3, <2>4, <2>5, <2>6
  <1>3. Len(t) \in Nat /\ Len(t) \in T
    <2> HIDE DEF T
    <2>1. \A n \in Nat : n \in T => n + 1 \in T
      BY <1>2
    <2>2. Nat \subseteq T
      BY <1>1, <2>1, Upwards
    <2>3. Len(t) \in Nat
      OBVIOUS
    <2> QED BY <2>2, <2>3
  <1> QED BY <1>3

(* Memory whose beginning was overwritten.                                  *)
LEMMA Overwritten ==
  ASSUME NEW s, s \in Seq(Bytes), NEW t, t \in Seq(Bytes), Len(t) <= Len(s)
  PROVE  /\ Overwrite(s, t) \in Seq(Bytes) /\ Len(Overwrite(s, t)) = Len(s)
         /\ \A i \in 1..Len(t) : Overwrite(s, t)[i] = t[i]
  <1> DEFINE r == SubSeq(s, Len(t) + 1, Len(s))
  <1>1. Len(s) \in Nat /\ Len(t) \in Nat
    OBVIOUS
  <1>2. r \in Seq(Bytes) /\ Len(r) = Len(s) - Len(t)
    <2>1. \A i \in (Len(t) + 1)..Len(s) : s[i] \in Bytes
      BY <1>1
    <2>2. /\ r \in Seq(Bytes)
          /\ Len(r) = IF Len(t) + 1 <= Len(s) THEN Len(s) - (Len(t) + 1) + 1 ELSE 0
      BY <1>1, <2>1, SubSeqProperties
    <2> QED BY <1>1, <2>2
  <1> HIDE DEF r
  <1>3. /\ t \o r \in Seq(Bytes) /\ Len(t \o r) = Len(t) + Len(r)
        /\ \A i \in 1..Len(t) : (t \o r)[i] = t[i]
    BY <1>2
  <1> QED BY <1>1, <1>2, <1>3 DEF Overwrite, r

(* One byte of the memory is set.                                           *)
LEMMA ByteSet ==
  ASSUME NEW s, s \in Seq(Bytes), NEW j \in Nat, NEW b \in Bytes
  PROVE  [s EXCEPT ![j] = b] \in Seq(Bytes) /\ Len([s EXCEPT ![j] = b]) = Len(s)
  <1> DEFINE r == [s EXCEPT ![j] = b]
  <1>1. PICK n \in Nat : n = Len(s)
    OBVIOUS
  <1>2. DOMAIN r = 1..n /\ \A i \in 1..n : r[i] \in Bytes
    BY <1>1
  <1>3. r = [i \in 1..n |-> r[i]]
    BY <1>2
  <1> HIDE DEF r
  <1>4. r \in Seq(Bytes) /\ Len(r) = n
    BY <1>2, <1>3
  <1> QED BY <1>1, <1>4 DEF r

(* Where a pair of bytes is found.                                          *)
Starts(b, c, n) == {k \in 1..(n - 1) : /\ rxData[k] = b /\ rxData[k + 1] = c
                                       /\ \A i \in 1..k : rxData[i] # Nul}
LEMMA Found ==
  ASSUME NEW b, NEW c, NEW n \in Int
  PROVE  \/ Find(b, c, n) = 0 /\ Starts(b, c, n) = {}
         \/ /\ Find(b, c, n) \in Starts(b, c, n)
            /\ \A k \in Starts(b, c, n) : Find(b, c, n) <= k
  <1>1. CASE Starts(b, c, n) = {}
    BY <1>1 DEF Find, Starts
  <1>2. CASE Starts(b, c, n) # {}
    <2>1. Starts(b, c, n) \subseteq Nat
      BY DEF Starts
    <2>2. \E k \in Starts(b, c, n) : \A i \in Starts(b, c, n) : k <= i
      BY <1>2, <2>1, LeastNumber
    <2>3. Find(b, c, n) = CHOOSE k \in Starts(b, c, n) : \A i \in Starts(b, c, n) : k <= i
      BY <1>2 DEF Find, Starts
    <2> QED BY <2>2, <2>3
  <1> QED BY <1>1, <1>2
LEMMA FoundRange ==
  ASSUME NEW b, NEW c, NEW n \in Int
  PROVE  Find(b, c, n) = 0 \/ Find(b, c, n) \in 1..(n - 1)
  BY Found DEF Starts

(* The types.                                                               *)
ParserTypes == /\ ParserTypeOK /\ rxLine \in Seq(Bytes)
               /\ Len(sentReplies) <= MaxReplies

(* They hold at the beginning.                                              *)
LEMMA ParserBegins == ParserInit => ParserTypes
  <1> SUFFICES ASSUME ParserInit PROVE ParserTypes
    OBVIOUS
  <1>1. RxSize \in Nat /\ MaxReplies \in Nat /\ MaxNoise \in Nat
    BY RxAssumption
  <1>2. Nul \in Bytes
    BY DEF Bytes
  <1>3. rxData \in Seq(Bytes) /\ Len(rxData) = RxSize
    <2>1. rxData = [k \in 1..RxSize |-> Nul]
      BY DEF ParserInit
    <2> QED BY <1>1, <1>2, <2>1
  <1>4. sentReplies = <<>> /\ cutReplies = <<>> /\ rxLine = <<>> /\ rxPos = 0 /\ noise = 0
        /\ parsing = FALSE /\ junk = FALSE /\ outOfMemory = FALSE
    BY DEF ParserInit
  <1>5. sentReplies \in Seq(1..MaxReplies) /\ cutReplies \in Seq(1..MaxReplies)
        /\ rxLine \in Seq(Bytes) /\ Len(sentReplies) <= MaxReplies
    BY <1>1, <1>4
  <1>6. rxPos \in 0..RxSize /\ noise \in 0..MaxNoise
    BY <1>1, <1>4
  <1>7. parsing \in BOOLEAN /\ junk \in BOOLEAN /\ outOfMemory \in BOOLEAN
    BY <1>4
  <1> QED BY <1>3, <1>5, <1>6, <1>7 DEF ParserTypes, ParserTypeOK

(* The bytes of a reply.                                                    *)
LEMMA ReplyBytes ==
  ASSUME NEW i \in 1..MaxReplies
  PROVE  /\ Bytes5(i) \in Seq(Bytes) /\ Len(Bytes5(i)) = 5
         /\ Bytes5(i)[1] = CR /\ Bytes5(i)[2] = Open /\ Bytes5(i)[3] = i
         /\ Bytes5(i)[4] = Close /\ Bytes5(i)[5] = NL
  <1>1. CR \in Bytes /\ Open \in Bytes /\ i \in Bytes /\ Close \in Bytes /\ NL \in Bytes
    BY DEF Bytes
  <1> QED BY <1>1 DEF Bytes5

(* The chip keeps them.                                                     *)
LEMMA SendKeepsTypes == ParserTypes /\ ChipSends => ParserTypes'
  <1> SUFFICES ASSUME ParserTypes, ChipSends PROVE ParserTypes'
    OBVIOUS
  <1>1. /\ rxData' = rxData /\ rxPos' = rxPos /\ parsing' = parsing /\ cutReplies' = cutReplies
        /\ outOfMemory' = outOfMemory
    BY DEF ChipSends
  <1>2. /\ rxData \in Seq(Bytes) /\ Len(rxData) = RxSize
        /\ rxPos \in 0..RxSize /\ cutReplies \in Seq(1..MaxReplies)
        /\ rxLine \in Seq(Bytes) /\ sentReplies \in Seq(1..MaxReplies)
        /\ Len(sentReplies) <= MaxReplies /\ noise \in 0..MaxNoise
    BY DEF ParserTypes, ParserTypeOK
  <1>3. parsing \in BOOLEAN /\ junk \in BOOLEAN /\ outOfMemory \in BOOLEAN
    BY DEF ParserTypes, ParserTypeOK
  <1>4. CASE /\ Len(sentReplies) < MaxReplies
             /\ sentReplies' = Append(sentReplies, Len(sentReplies) + 1)
             /\ rxLine' = rxLine \o Bytes5(Len(sentReplies) + 1)
             /\ UNCHANGED <<noise, junk>>
    <2>1. PICK n \in Nat : n = Len(sentReplies)
      BY <1>2
    <2>2. MaxReplies \in Nat /\ n + 1 \in 1..MaxReplies
      BY <1>4, <2>1, RxAssumption
    <2>3. Bytes5(n + 1) \in Seq(Bytes)
      BY <2>2, ReplyBytes
    <2>4. rxLine' \in Seq(Bytes)
      BY <1>2, <1>4, <2>1, <2>3
    <2>5. sentReplies' \in Seq(1..MaxReplies) /\ Len(sentReplies') = n + 1
      BY <1>2, <1>4, <2>1, <2>2
    <2>6. Len(sentReplies') <= MaxReplies
      BY <2>2, <2>5
    <2>7. noise' = noise /\ junk' = junk
      BY <1>4
    <2> QED BY <1>1, <1>2, <1>3, <2>4, <2>5, <2>6, <2>7 DEF ParserTypes, ParserTypeOK
  <1>5. CASE /\ noise < MaxNoise
             /\ noise' = noise + 1
             /\ \E b \in {Nul, Junk} :
                  rxLine' = Append(rxLine, b) /\ junk' = (junk \/ b = Junk)
             /\ UNCHANGED sentReplies
    <2>1. PICK b \in {Nul, Junk} : rxLine' = Append(rxLine, b) /\ junk' = (junk \/ b = Junk)
      BY <1>5
    <2>2. b \in Bytes
      BY DEF Bytes
    <2>3. rxLine' \in Seq(Bytes)
      BY <1>2, <2>1, <2>2
    <2>4. noise' \in 0..MaxNoise
      BY <1>2, <1>5, RxAssumption
    <2>5. junk' \in BOOLEAN
      BY <1>3, <2>1
    <2>6. sentReplies' = sentReplies
      BY <1>5
    <2> QED BY <1>1, <1>2, <1>3, <2>3, <2>4, <2>5, <2>6 DEF ParserTypes, ParserTypeOK
  <1> QED BY <1>4, <1>5 DEF ChipSends

(* A read, in parts.                                                        *)
RoomFor(k) == IF k > RxSize - rxPos THEN RxSize - rxPos ELSE k
Raw(k) == SubSeq(rxData, 1, rxPos) \o SubSeq(rxLine, 1, RoomFor(k))
LEMMA ReadParts ==
  ASSUME ParserTypes, NEW k \in 1..RxSize, ReadBytes(k), rxPos # RxSize
  PROVE  /\ RoomFor(k) \in 1..Len(rxLine) /\ rxPos + RoomFor(k) <= RxSize
         /\ SubSeq(rxData, 1, rxPos) \in Seq(Bytes) /\ Len(SubSeq(rxData, 1, rxPos)) = rxPos
         /\ SubSeq(rxLine, 1, RoomFor(k)) \in Seq(Bytes)
         /\ rxLine' \in Seq(Bytes) /\ rxLine = SubSeq(rxLine, 1, RoomFor(k)) \o rxLine'
         /\ rxPos' = Len(Compacted(Raw(k))) /\ rxPos' \in 0..RxSize
         /\ rxData' \in Seq(Bytes) /\ Len(rxData') = RxSize
         /\ \A i \in 1..rxPos' : rxData'[i] = Compacted(Raw(k))[i]
  <1>1. /\ rxData \in Seq(Bytes) /\ Len(rxData) = RxSize
        /\ rxPos \in 0..RxSize /\ rxLine \in Seq(Bytes)
    BY DEF ParserTypes, ParserTypeOK
  <1>2. PICK l \in Nat : l = Len(rxLine)
    BY <1>1
  <1>3. k \in 1..l /\ RxSize \in Nat
    BY <1>2, RxAssumption DEF ReadBytes
  <1>4. RoomFor(k) \in 1..l /\ rxPos + RoomFor(k) <= RxSize
    BY <1>1, <1>3 DEF RoomFor
  <1>5. SubSeq(rxData, 1, rxPos) \in Seq(Bytes) /\ Len(SubSeq(rxData, 1, rxPos)) = rxPos
    BY <1>1, <1>3
  <1>6. SubSeq(rxLine, 1, RoomFor(k)) \in Seq(Bytes) /\ Len(SubSeq(rxLine, 1, RoomFor(k))) = RoomFor(k)
    BY <1>1, <1>2, <1>4
  <1>7. rxLine' = SubSeq(rxLine, RoomFor(k) + 1, Len(rxLine))
    BY DEF ReadBytes, RoomFor
  <1>8. rxLine' \in Seq(Bytes) /\ rxLine = SubSeq(rxLine, 1, RoomFor(k)) \o rxLine'
    <2>1. rxLine' \in Seq(Bytes)
      <3>1. \A i \in (RoomFor(k) + 1)..l : rxLine[i] \in Bytes
        BY <1>1, <1>2, <1>4
      <3>2. RoomFor(k) + 1 \in Int /\ l \in Int
        BY <1>2, <1>4
      <3>3. SubSeq(rxLine, RoomFor(k) + 1, l) \in Seq(Bytes)
        BY <3>1, <3>2, SubSeqProperties, Zenon
      <3> QED BY <1>2, <1>7, <3>3
    <2>2. SubSeq(rxLine, 1, RoomFor(k)) \o SubSeq(rxLine, RoomFor(k) + 1, l) = SubSeq(rxLine, 1, l)
      <3>1. 1 \in 1..(Len(rxLine) + 1) /\ RoomFor(k) \in (1 - 1)..Len(rxLine)
            /\ l \in RoomFor(k)..Len(rxLine)
        BY <1>2, <1>4
      <3> QED BY <1>1, <3>1, ConcatAdjacentSubSeq
    <2>3. SubSeq(rxLine, 1, l) = rxLine
      BY <1>1, <1>2, SubSeqFull
    <2> QED BY <1>2, <1>7, <2>1, <2>2, <2>3
  <1>9. Raw(k) \in Seq(Bytes) /\ Len(Raw(k)) = rxPos + RoomFor(k)
    BY <1>5, <1>6 DEF Raw
  <1> DEFINE got == Compacted(Raw(k))
             raw == Overwrite(rxData, Raw(k))
             data == Overwrite(raw, got)
  <1>10. got \in Seq(Bytes) /\ Len(got) \in Nat /\ Len(got) <= RxSize
    <2>1. got \in Seq(Bytes) /\ Len(got) \in Nat /\ Len(got) <= Len(Raw(k))
      BY <1>9, CompactedType, CompactedShrinks
    <2> QED BY <1>1, <1>3, <1>4, <1>9, <2>1
  <1>11. raw \in Seq(Bytes) /\ Len(raw) = RxSize
    BY <1>1, <1>4, <1>9, Overwritten
  <1>12. /\ data \in Seq(Bytes) /\ Len(data) = RxSize
         /\ \A i \in 1..Len(got) : data[i] = got[i]
    <2> HIDE DEF raw, got
    <2> QED BY <1>10, <1>11, Overwritten
  <1>13. /\ rxPos' = Len(got)
         /\ rxData' = IF Len(got) < RxSize THEN [data EXCEPT ![Len(got) + 1] = Nul] ELSE data
    BY DEF ReadBytes, Raw, RoomFor
  <1> HIDE DEF data, got
  <1>14. Nul \in Bytes
    BY DEF Bytes
  <1>15. /\ rxData' \in Seq(Bytes) /\ Len(rxData') = RxSize
         /\ \A i \in 1..Len(got) : rxData'[i] = data[i]
    <2>1. CASE Len(got) < RxSize
      <3>1. PICK g \in Nat : g = Len(got)
        BY <1>10
      <3>2. rxData' = [data EXCEPT ![g + 1] = Nul]
        BY <1>13, <2>1, <3>1
      <3>3. rxData' \in Seq(Bytes) /\ Len(rxData') = RxSize
        BY <1>12, <1>14, <3>2, ByteSet
      <3>4. \A i \in 1..g : rxData'[i] = data[i]
        <4>1. \A i \in 1..g : i \in 1..RxSize /\ i # g + 1
          BY <1>3, <2>1, <3>1
        <4> QED BY <1>12, <3>2, <4>1
      <3> QED BY <3>1, <3>3, <3>4
    <2>2. CASE ~(Len(got) < RxSize)
      BY <1>12, <1>13, <2>2
    <2> QED BY <2>1, <2>2
  <1>16. RoomFor(k) \in 1..Len(rxLine)
    BY <1>2, <1>4
  <1>17. rxPos' = Len(got) /\ Len(got) \in 0..RxSize
    BY <1>3, <1>10, <1>13
  <1>18. \A i \in 1..rxPos' : rxData'[i] = got[i]
    BY <1>12, <1>13, <1>15, Zenon
  <1> QED BY <1>4, <1>5, <1>6, <1>8, <1>15, <1>16, <1>17, <1>18, Zenon DEF got

(* A read keeps them.                                                       *)
LEMMA ReadKeepsTypes ==
  ASSUME ParserTypes, NEW k \in 1..RxSize, ReadBytes(k)
  PROVE  ParserTypes'
  <1>1. /\ sentReplies' = sentReplies /\ cutReplies' = cutReplies /\ noise' = noise
        /\ junk' = junk /\ outOfMemory' = outOfMemory
    BY DEF ReadBytes
  <1>2. CASE rxPos = RxSize
    <2>1. rxPos' = 0 /\ rxLine' = rxLine /\ rxData' = rxData /\ parsing' = parsing
      BY <1>2 DEF ReadBytes
    <2>2. 0 \in 0..RxSize
      BY RxAssumption
    <2> QED BY <1>1, <2>1, <2>2 DEF ParserTypes, ParserTypeOK
  <1>3. CASE rxPos # RxSize
    <2>1. parsing' \in BOOLEAN
      <3>1. parsing' = TRUE
        BY <1>3 DEF ReadBytes
      <3> QED BY <3>1
    <2>2. /\ rxLine' \in Seq(Bytes) /\ rxPos' \in 0..RxSize
          /\ rxData' \in Seq(Bytes) /\ Len(rxData') = RxSize
      BY <1>3, ReadParts
    <2> QED BY <1>1, <2>1, <2>2 DEF ParserTypes, ParserTypeOK
  <1> QED BY <1>2, <1>3

(* The rest of the memory moved to the front.                               *)
LEMMA MovedMemory ==
  ASSUME ParserTypes, NEW n \in Nat, n <= rxPos
  PROVE  /\ Moved(n) \in Seq(Bytes) /\ Len(Moved(n)) = RxSize
         /\ SubSeq(rxData, n + 1, rxPos) \in Seq(Bytes)
         /\ Len(SubSeq(rxData, n + 1, rxPos)) = rxPos - n
         /\ \A i \in 1..(rxPos - n) : Moved(n)[i] = rxData[n + i]
  <1>1. rxData \in Seq(Bytes) /\ Len(rxData) = RxSize /\ rxPos \in 0..RxSize /\ RxSize \in Nat
    BY RxAssumption DEF ParserTypes, ParserTypeOK
  <1> DEFINE t == SubSeq(rxData, n + 1, rxPos)
  <1>2. /\ t \in Seq(Bytes) /\ Len(t) = rxPos - n
        /\ \A i \in 1..(rxPos - n) : t[i] = rxData[n + i]
    <2>1. \A i \in (n + 1)..rxPos : rxData[i] \in Bytes
      BY <1>1
    <2>2. /\ t \in Seq(Bytes)
          /\ Len(t) = IF n + 1 <= rxPos THEN rxPos - (n + 1) + 1 ELSE 0
          /\ \A i \in 1..(rxPos - (n + 1) + 1) : t[i] = rxData[n + 1 + i - 1]
      BY <1>1, <2>1, SubSeqProperties
    <2> HIDE DEF t
    <2>3. Len(t) = rxPos - n
      BY <1>1, <2>2
    <2>4. ASSUME NEW i \in 1..(rxPos - n) PROVE t[i] = rxData[n + i]
      <3>1. i \in 1..(rxPos - (n + 1) + 1) /\ n + 1 + i - 1 = n + i
        BY <1>1
      <3> QED BY <2>2, <3>1
    <2> QED BY <2>2, <2>3, <2>4
  <1>3. Len(t) <= Len(rxData)
    BY <1>1, <1>2
  <1> HIDE DEF t
  <1>4. /\ Overwrite(rxData, t) \in Seq(Bytes) /\ Len(Overwrite(rxData, t)) = RxSize
        /\ \A i \in 1..Len(t) : Overwrite(rxData, t)[i] = t[i]
    BY <1>1, <1>2, <1>3, Overwritten
  <1> QED BY <1>2, <1>4 DEF Moved, t

(* What is parsed of a reply.                                               *)
LEMMA ParsedType ==
  ASSUME NEW s
  PROVE  Parsed(s) \in Seq(1..MaxReplies)
  <1>1. CASE Len(s) = 5 /\ s[3] \in 1..MaxReplies
    <2>1. PICK r \in 1..MaxReplies : r = s[3]
      BY <1>1
    <2>2. <<r>> \in Seq(1..MaxReplies)
      OBVIOUS
    <2>3. Parsed(s) = <<r>>
      BY <1>1, <2>1, Zenon DEF Parsed
    <2> QED BY <2>2, <2>3
  <1>2. CASE ~(Len(s) = 5 /\ s[3] \in 1..MaxReplies)
    <2>1. Parsed(s) = <<>>
      BY <1>2, Zenon DEF Parsed
    <2> QED BY <2>1
  <1> QED BY <1>1, <1>2

(* Cutting a reply out keeps them, also one with junk around it.            *)
LEMMA CutKeepsTypes == ParserTypes /\ CutReply => ParserTypes'
  <1> SUFFICES ASSUME ParserTypes, CutReply PROVE ParserTypes'
    OBVIOUS
  <1>1. /\ rxLine' = rxLine /\ sentReplies' = sentReplies /\ noise' = noise /\ junk' = junk
    BY DEF CutReply
  <1>2. /\ rxData \in Seq(Bytes) /\ Len(rxData) = RxSize /\ rxPos \in 0..RxSize
        /\ cutReplies \in Seq(1..MaxReplies) /\ RxSize \in Nat
    BY RxAssumption DEF ParserTypes, ParserTypeOK
  <1> DEFINE suffix == Find(Close, NL, rxPos)
             prefix == Find(CR, Open, suffix - 1)
             end == suffix + 1
  <1>3. suffix = 0 \/ suffix \in 1..(rxPos - 1)
    BY <1>2, FoundRange
  <1>4. prefix = 0 \/ prefix \in 1..(suffix - 1 - 1)
    <2>1. suffix - 1 \in Int
      BY <1>2, <1>3
    <2> HIDE DEF suffix
    <2> QED BY <2>1, FoundRange
  <1>5. CASE suffix = 0
    <2>1. /\ parsing' = FALSE /\ rxData' = rxData /\ rxPos' = rxPos
          /\ cutReplies' = cutReplies /\ outOfMemory' = outOfMemory
      BY <1>5 DEF CutReply
    <2>2. parsing' \in BOOLEAN
      BY <2>1
    <2> QED BY <1>1, <2>1, <2>2 DEF ParserTypes, ParserTypeOK
  <1>6. CASE suffix # 0 /\ prefix # 0
    <2>1. /\ \/ /\ cutReplies' = cutReplies \o Parsed(SubSeq(rxData, prefix, end))
                /\ rxData' = Moved(end) /\ outOfMemory' = outOfMemory
             \/ outOfMemory' = TRUE /\ cutReplies' = cutReplies /\ rxData' = rxData
          /\ rxPos' = rxPos - (end - prefix + 1)
          /\ parsing' = parsing
      BY <1>6 DEF CutReply
    <2>2. Parsed(SubSeq(rxData, prefix, end)) \in Seq(1..MaxReplies)
      BY ParsedType
    <2>3. cutReplies' \in Seq(1..MaxReplies) /\ outOfMemory' \in BOOLEAN
      <3>1. outOfMemory \in BOOLEAN
        BY DEF ParserTypes, ParserTypeOK
      <3>2. ASSUME cutReplies' = cutReplies \o Parsed(SubSeq(rxData, prefix, end))
            PROVE  cutReplies' \in Seq(1..MaxReplies)
        <4> DEFINE q == Parsed(SubSeq(rxData, prefix, end))
        <4>1. q \in Seq(1..MaxReplies) /\ cutReplies' = cutReplies \o q
          BY <2>2, <3>2
        <4> HIDE DEF q
        <4> QED BY <1>2, <4>1
      <3>3. outOfMemory' \in BOOLEAN
        <4>1. outOfMemory' = outOfMemory \/ outOfMemory' = TRUE
          BY <2>1
        <4> QED BY <3>1, <4>1
      <3>4. cutReplies' \in Seq(1..MaxReplies)
        <4> HIDE DEF suffix, prefix, end
        <4> QED BY <1>2, <2>1, <3>2
      <3> QED BY <3>3, <3>4
    <2>4. end \in Nat /\ end <= rxPos /\ rxPos - (end - prefix + 1) \in 0..RxSize
      BY <1>2, <1>3, <1>4, <1>6
    <2> HIDE DEF end, prefix, suffix
    <2>5. Moved(end) \in Seq(Bytes) /\ Len(Moved(end)) = RxSize
      BY <2>4, MovedMemory
    <2>6. rxData' \in Seq(Bytes) /\ Len(rxData') = RxSize
      BY <1>2, <2>1, <2>5
    <2>7. rxPos' \in 0..RxSize /\ parsing' = parsing
      BY <2>1, <2>4
    <2> QED BY <1>1, <2>3, <2>6, <2>7 DEF ParserTypes, ParserTypeOK
  <1>7. CASE suffix # 0 /\ prefix = 0
    <2>1. /\ rxData' = [Moved(end) EXCEPT ![rxPos - end + 1] = Nul]
          /\ rxPos' = rxPos - end
          /\ parsing' = parsing /\ cutReplies' = cutReplies /\ outOfMemory' = outOfMemory
      BY <1>7 DEF CutReply
    <2>2. /\ end \in Nat /\ end <= rxPos /\ rxPos - end \in 0..RxSize
          /\ rxPos - end + 1 \in Nat
      BY <1>2, <1>3, <1>7
    <2> HIDE DEF end, prefix, suffix
    <2>3. Moved(end) \in Seq(Bytes) /\ Len(Moved(end)) = RxSize
      BY <2>2, MovedMemory
    <2>4. Nul \in Bytes
      BY DEF Bytes
    <2>5. rxData' \in Seq(Bytes) /\ Len(rxData') = RxSize
      BY <2>1, <2>2, <2>3, <2>4, ByteSet
    <2> QED BY <1>1, <2>1, <2>2, <2>5 DEF ParserTypes, ParserTypeOK
  <1> QED BY <1>5, <1>6, <1>7

(* Every step keeps them.                                                   *)
LEMMA ParserTypesKept == ParserTypes /\ [ParserNext]_parserVars => ParserTypes'
  <1> SUFFICES ASSUME ParserTypes, [ParserNext]_parserVars PROVE ParserTypes'
    OBVIOUS
  <1>1. CASE UNCHANGED parserVars
    BY <1>1 DEF parserVars, ParserTypes, ParserTypeOK
  <1> QED BY <1>1, SendKeepsTypes, ReadKeepsTypes, CutKeepsTypes DEF ParserNext

(* A byte of the replies from the one after the c-th on, and what has been  *)
(* read or waits on the line, NULs aside: exactly the replies that were sent *)
(* and not yet cut out.                                                     *)
StreamByte(c, i) == Bytes5(c + 1 + ((i - 1) \div 5))[1 + ((i - 1) % 5)]
Stream(c, m) == [i \in 1..(5 * (m - c)) |-> StreamByte(c, i)]
Pending == SubSeq(rxData, 1, rxPos) \o Compacted(rxLine)
Numbered(s) == \A i \in 1..Len(s) : s[i] = i

CleanStream == ~junk /\ ~outOfMemory
CleanInv ==
  CleanStream =>
    /\ Pending = Stream(Len(cutReplies), Len(sentReplies))
    /\ Len(cutReplies) <= Len(sentReplies)
    /\ Numbered(cutReplies) /\ Numbered(sentReplies)
    /\ ~parsing => rxPos < 5

(* The same of the next state; and a step that changes none of it.          *)
LEMMA CleanNext == CleanStream' = (~junk' /\ ~outOfMemory')
  BY DEF CleanStream
LEMMA PendingNext == Pending' = SubSeq(rxData', 1, rxPos') \o Compacted(rxLine')
  BY DEF Pending, Compacted
LEMMA StreamNext ==
  Stream(Len(cutReplies), Len(sentReplies))' = Stream(Len(cutReplies'), Len(sentReplies'))
  BY DEF Stream, StreamByte, Bytes5
LEMMA CleanSame ==
  ASSUME CleanInv, rxData' = rxData, rxPos' = rxPos, rxLine' = rxLine, CleanStream' = CleanStream,
         cutReplies' = cutReplies, sentReplies' = sentReplies,
         CleanStream' /\ ~parsing' => rxPos' < 5
  PROVE  CleanInv'
  <1>1. Pending' = Pending
    BY PendingNext DEF Pending
  <1>2. Stream(Len(cutReplies), Len(sentReplies))' = Stream(Len(cutReplies), Len(sentReplies))
    BY StreamNext
  <1> QED BY <1>1, <1>2 DEF CleanInv, Numbered

(* The bytes of the stream.                                                 *)
LEMMA Rounds ==
  ASSUME NEW i \in Nat, i >= 1
  PROVE  /\ (i - 1) \div 5 \in Nat /\ 1 + ((i - 1) % 5) \in 1..5
         /\ (i + 5 - 1) \div 5 = (i - 1) \div 5 + 1
         /\ (i + 5 - 1) % 5 = (i - 1) % 5
         /\ \A n \in Nat : i <= 5 * n => (i - 1) \div 5 <= n - 1
         /\ \A n \in Nat : i \in (5 * n + 1)..(5 * n + 5) =>
              (i - 1) \div 5 = n /\ 1 + ((i - 1) % 5) = i - 5 * n
  OBVIOUS

(* No byte of the stream is a NUL.                                          *)
LEMMA StreamBytes ==
  ASSUME NEW c \in Nat, NEW m \in Nat, c <= m, m <= MaxReplies,
         NEW i \in 1..(5 * (m - c))
  PROVE  StreamByte(c, i) \in Bytes /\ StreamByte(c, i) # Nul
  <1> DEFINE r == c + 1 + ((i - 1) \div 5)
             j == 1 + ((i - 1) % 5)
  <1>1. i \in Nat /\ i >= 1 /\ m - c \in Nat /\ i <= 5 * (m - c)
    OBVIOUS
  <1>2. (i - 1) \div 5 \in Nat /\ (i - 1) \div 5 <= (m - c) - 1 /\ j \in 1..5
    BY <1>1, Rounds
  <1>3. r \in 1..MaxReplies
    BY <1>2, RxAssumption
  <1>4. StreamByte(c, i) = Bytes5(r)[j]
    BY DEF StreamByte
  <1> HIDE DEF r, j
  <1>5. j = 1 \/ j = 2 \/ j = 3 \/ j = 4 \/ j = 5
    BY <1>2
  <1>6. Bytes5(r)[j] \in Bytes /\ Bytes5(r)[j] # Nul
    <2>1. CR \in Bytes /\ Open \in Bytes /\ r \in Bytes /\ Close \in Bytes /\ NL \in Bytes
      BY <1>3 DEF Bytes
    <2>2. CR # Nul /\ Open # Nul /\ r # Nul /\ Close # Nul /\ NL # Nul
      BY <1>3 DEF CR, Open, Close, NL, Nul
    <2> QED BY <1>3, <1>5, <2>1, <2>2, ReplyBytes
  <1> QED BY <1>4, <1>6

(* The stream is a sequence of bytes.                                       *)
LEMMA StreamType ==
  ASSUME NEW c \in Nat, NEW m \in Nat, c <= m, m <= MaxReplies
  PROVE  /\ Stream(c, m) \in Seq(Bytes) /\ Len(Stream(c, m)) = 5 * (m - c)
         /\ \A i \in 1..(5 * (m - c)) : Stream(c, m)[i] = StreamByte(c, i)
  <1>1. 5 * (m - c) \in Nat
    OBVIOUS
  <1>2. \A i \in 1..(5 * (m - c)) : StreamByte(c, i) \in Bytes
    BY StreamBytes
  <1> QED BY <1>1, <1>2 DEF Stream

(* Nothing is pending at the beginning.                                     *)
LEMMA CleanBegins == ParserInit => CleanInv
  <1> SUFFICES ASSUME ParserInit PROVE CleanInv
    OBVIOUS
  <1>1. /\ rxPos = 0 /\ rxLine = <<>> /\ cutReplies = <<>> /\ sentReplies = <<>>
        /\ ParserTypes
    BY ParserBegins DEF ParserInit
  <1>2. SubSeq(rxData, 1, rxPos) = <<>>
    BY <1>1, SubSeqEmpty
  <1>3. Pending = <<>>
    <2>1. <<>> \in Seq(Bytes)
      OBVIOUS
    <2> QED BY <1>1, <1>2, <2>1, CompactedEmpty, ConcatEmptySeq DEF Pending
  <1>4. Len(cutReplies) = 0 /\ Len(sentReplies) = 0
    BY <1>1
  <1>5. Stream(0, 0) = <<>>
    <2>1. Stream(0, 0) \in Seq(Bytes) /\ Len(Stream(0, 0)) = 5 * (0 - 0)
      <3>1. 0 \in Nat /\ 0 <= 0 /\ 0 <= MaxReplies
        BY RxAssumption
      <3> QED BY <3>1, StreamType
    <2> QED BY <2>1
  <1> QED BY <1>1, <1>3, <1>4, <1>5 DEF CleanInv, Numbered

(* The facts on a state that the steps below use.                           *)
LEMMA ParserFacts ==
  ASSUME ParserTypes
  PROVE  /\ RxSize \in Nat /\ RxSize >= 5 /\ MaxReplies \in Nat /\ MaxReplies <= 9
         /\ rxData \in Seq(Bytes) /\ Len(rxData) = RxSize /\ rxPos \in 0..RxSize
         /\ rxLine \in Seq(Bytes)
         /\ cutReplies \in Seq(1..MaxReplies) /\ sentReplies \in Seq(1..MaxReplies)
         /\ Len(cutReplies) \in Nat /\ Len(sentReplies) \in Nat
         /\ Len(sentReplies) <= MaxReplies
         /\ SubSeq(rxData, 1, rxPos) \in Seq(Bytes) /\ Len(SubSeq(rxData, 1, rxPos)) = rxPos
         /\ Compacted(rxLine) \in Seq(Bytes) /\ Len(Compacted(rxLine)) \in Nat
         /\ \A i \in 1..rxPos : SubSeq(rxData, 1, rxPos)[i] = rxData[i]
  <1>1. /\ RxSize \in Nat /\ RxSize >= 5 /\ MaxReplies \in Nat /\ MaxReplies <= 9
    BY RxAssumption
  <1>2. /\ rxData \in Seq(Bytes) /\ Len(rxData) = RxSize /\ rxPos \in 0..RxSize
        /\ rxLine \in Seq(Bytes)
        /\ cutReplies \in Seq(1..MaxReplies) /\ sentReplies \in Seq(1..MaxReplies)
        /\ Len(sentReplies) <= MaxReplies
    BY DEF ParserTypes, ParserTypeOK
  <1>3. Len(cutReplies) \in Nat /\ Len(sentReplies) \in Nat
    BY <1>2
  <1>4. /\ SubSeq(rxData, 1, rxPos) \in Seq(Bytes) /\ Len(SubSeq(rxData, 1, rxPos)) = rxPos
        /\ \A i \in 1..rxPos : SubSeq(rxData, 1, rxPos)[i] = rxData[i]
    BY <1>1, <1>2
  <1>5. Compacted(rxLine) \in Seq(Bytes) /\ Len(Compacted(rxLine)) \in Nat
    BY <1>2, CompactedType
  <1> QED BY <1>1, <1>2, <1>3, <1>4, <1>5

(* What has been read is the beginning of what is pending.                  *)
LEMMA ReadIsStream ==
  ASSUME ParserTypes, CleanInv, CleanStream
  PROVE  /\ rxPos + Len(Compacted(rxLine)) = 5 * (Len(sentReplies) - Len(cutReplies))
         /\ \A i \in 1..rxPos : rxData[i] = StreamByte(Len(cutReplies), i) /\ rxData[i] # Nul
  <1> DEFINE d == SubSeq(rxData, 1, rxPos)
             l == Compacted(rxLine)
  <1>1. PICK c \in Nat, m \in Nat : c = Len(cutReplies) /\ m = Len(sentReplies)
    BY ParserFacts
  <1>2. c <= m /\ m <= MaxReplies /\ Pending = Stream(c, m)
    BY <1>1, ParserFacts DEF CleanInv
  <1>3. /\ Stream(c, m) \in Seq(Bytes) /\ Len(Stream(c, m)) = 5 * (m - c)
        /\ \A i \in 1..(5 * (m - c)) : Stream(c, m)[i] = StreamByte(c, i)
    BY <1>2, StreamType
  <1>4. /\ d \in Seq(Bytes) /\ Len(d) = rxPos /\ l \in Seq(Bytes)
        /\ rxPos \in Nat /\ Len(l) \in Nat /\ \A i \in 1..rxPos : d[i] = rxData[i]
    BY ParserFacts
  <1> HIDE DEF d, l
  <1>5. Len(d \o l) = rxPos + Len(l) /\ \A i \in 1..rxPos : (d \o l)[i] = d[i]
    BY <1>4
  <1>6. d \o l = Stream(c, m)
    BY <1>2 DEF Pending, d, l
  <1>7. rxPos + Len(l) = 5 * (m - c)
    BY <1>3, <1>5, <1>6
  <1>8. ASSUME NEW i \in 1..rxPos
        PROVE  rxData[i] = StreamByte(c, i) /\ rxData[i] # Nul
    <2>1. i \in 1..(5 * (m - c))
      BY <1>4, <1>7
    <2> QED BY <1>2, <1>3, <1>4, <1>5, <1>6, <2>1, StreamBytes
  <1> QED BY <1>1, <1>7, <1>8 DEF l

(* Reading moves bytes, and changes nothing about what is pending.          *)
LEMMA ReadKeepsClean ==
  ASSUME ParserTypes, CleanInv, NEW k \in 1..RxSize, ReadBytes(k)
  PROVE  CleanInv'
  <1>1. /\ sentReplies' = sentReplies /\ cutReplies' = cutReplies /\ CleanStream' = CleanStream /\ ~parsing
    BY DEF ReadBytes, CleanStream
  <1>2. SUFFICES ASSUME CleanStream PROVE CleanInv'
    BY <1>1 DEF CleanInv
  <1>3. rxPos # RxSize
    BY <1>1, <1>2, ParserFacts DEF CleanInv
  <1>4. parsing' = TRUE
    BY <1>3 DEF ReadBytes
  <1> DEFINE d == SubSeq(rxData, 1, rxPos)
             a == SubSeq(rxLine, 1, RoomFor(k))
             e == SubSeq(rxData', 1, rxPos')
  <1>5. /\ d \in Seq(Bytes) /\ Len(d) = rxPos /\ a \in Seq(Bytes)
        /\ rxLine' \in Seq(Bytes) /\ rxLine = a \o rxLine'
        /\ rxPos' = Len(Compacted(d \o a)) /\ rxPos' \in 0..RxSize
        /\ rxData' \in Seq(Bytes) /\ Len(rxData') = RxSize
        /\ \A i \in 1..rxPos' : rxData'[i] = Compacted(d \o a)[i]
    BY <1>3, ReadParts DEF Raw
  <1>6. \A i \in 1..rxPos : d[i] = rxData[i] /\ d[i] # Nul
    BY <1>2, ParserFacts, ReadIsStream
  <1> HIDE DEF d, a
  <1>7. Compacted(d) = d
    BY <1>5, <1>6, CompactedWhole
  <1>8. Compacted(d \o a) = d \o Compacted(a)
    BY <1>5, <1>7, CompactedConcat
  <1>9. e = Compacted(d \o a)
    <2> DEFINE g == Compacted(d \o a)
    <2>1. g \in Seq(Bytes) /\ Len(g) = rxPos'
      <3>1. d \o a \in Seq(Bytes)
        BY <1>5
      <3> QED BY <1>5, <3>1, CompactedType
    <2>2. e \in Seq(Bytes) /\ Len(e) = rxPos' /\ \A i \in 1..rxPos' : e[i] = rxData'[i]
      BY <1>5, RxAssumption
    <2> HIDE DEF e, g
    <2>3. \A i \in 1..rxPos' : e[i] = g[i]
      BY <1>5, <2>2 DEF g
    <2>4. PICK n \in Nat : n = rxPos'
      BY <1>5
    <2>5. e = [i \in 1..n |-> e[i]] /\ g = [i \in 1..n |-> g[i]]
      BY <2>1, <2>2, <2>4
    <2> QED BY <2>3, <2>4, <2>5 DEF g
  <1>10. Pending' = e \o Compacted(rxLine')
    BY DEF Pending, Compacted
  <1>11. Compacted(rxLine) = Compacted(a) \o Compacted(rxLine')
    BY <1>5, CompactedConcat
  <1>12. Pending = d \o Compacted(rxLine)
    BY DEF Pending, d
  <1>13. (d \o Compacted(a)) \o Compacted(rxLine') = d \o (Compacted(a) \o Compacted(rxLine'))
    <2>1. Compacted(a) \in Seq(Bytes) /\ Compacted(rxLine') \in Seq(Bytes)
      BY <1>5, CompactedType
    <2>2. d \in Seq(Bytes)
      BY <1>5
    <2> QED BY <2>1, <2>2, BytesJoined DEF Associate
  <1>14. Pending' = Pending
    BY <1>8, <1>9, <1>10, <1>11, <1>12, <1>13
  <1> QED BY <1>1, <1>2, <1>4, <1>14 DEF CleanInv, Numbered, Stream, StreamByte, Bytes5

(* Sequences of one length that agree everywhere are equal.                 *)
LEMMA SameBytes ==
  ASSUME NEW s, s \in Seq(Bytes), NEW t, t \in Seq(Bytes), Len(s) = Len(t),
         \A i \in 1..Len(s) : s[i] = t[i]
  PROVE  s = t
  <1>1. PICK n \in Nat : n = Len(s)
    OBVIOUS
  <1>2. s = [i \in 1..n |-> s[i]] /\ t = [i \in 1..n |-> t[i]]
    BY <1>1
  <1> QED BY <1>1, <1>2

(* One reply more at the end of the stream, or one fewer at its beginning.  *)
LEMMA StreamGrows ==
  ASSUME NEW c \in Nat, NEW m \in Nat, c <= m, m < MaxReplies
  PROVE  Stream(c, m) \o Bytes5(m + 1) = Stream(c, m + 1)
  <1>1. m + 1 \in Nat /\ m + 1 \in 1..MaxReplies /\ c <= m + 1 /\ m + 1 <= MaxReplies
        /\ m <= MaxReplies
    BY RxAssumption
  <1> DEFINE s == Stream(c, m)
             t == Bytes5(m + 1)
             u == Stream(c, m + 1)
  <1>2. /\ s \in Seq(Bytes) /\ Len(s) = 5 * (m - c)
        /\ \A i \in 1..(5 * (m - c)) : s[i] = StreamByte(c, i)
    BY <1>1, StreamType
  <1>3. /\ u \in Seq(Bytes) /\ Len(u) = 5 * ((m + 1) - c)
        /\ \A i \in 1..(5 * ((m + 1) - c)) : u[i] = StreamByte(c, i)
    BY <1>1, StreamType
  <1>4. t \in Seq(Bytes) /\ Len(t) = 5
    BY <1>1, ReplyBytes
  <1> HIDE DEF s, t, u
  <1>5. PICK n \in Nat : n = m - c
    OBVIOUS
  <1>6. PICK q \in Nat : q = 5 * n
    OBVIOUS
  <1>7. 5 * ((m + 1) - c) = q + 5 /\ 5 * (m - c) = q /\ c + 1 + n = m + 1
    BY <1>5, <1>6
  <1>8. Len(s) = q /\ \A i \in 1..q : s[i] = StreamByte(c, i)
    BY <1>2, <1>7
  <1>9. Len(u) = q + 5 /\ \A i \in 1..(q + 5) : u[i] = StreamByte(c, i)
    BY <1>3, <1>7
  <1>10. /\ s \o t \in Seq(Bytes) /\ Len(s \o t) = q + 5
         /\ \A i \in 1..(q + 5) : (s \o t)[i] = IF i <= q THEN s[i] ELSE t[i - q]
    <2>1. s \in Seq(Bytes) /\ t \in Seq(Bytes) /\ Len(s) = q /\ Len(t) = 5
      BY <1>2, <1>4, <1>8
    <2>2. /\ s \o t \in Seq(Bytes) /\ Len(s \o t) = Len(s) + Len(t)
          /\ \A i \in 1..(Len(s) + Len(t)) :
               (s \o t)[i] = IF i <= Len(s) THEN s[i] ELSE t[i - Len(s)]
      BY <2>1, ConcatProperties, Zenon
    <2> QED BY <2>1, <2>2
  <1>11. ASSUME NEW i \in 1..(q + 5) PROVE (s \o t)[i] = u[i]
    <2>1. CASE i <= q
      <3>1. i \in 1..q
        BY <2>1
      <3>2. (s \o t)[i] = s[i]
        BY <1>10, <3>1
      <3> QED BY <1>8, <1>9, <3>1, <3>2
    <2>2. CASE i > q
      <3>1. (s \o t)[i] = t[i - q]
        BY <1>10, <2>2
      <3>2. i \in (5 * n + 1)..(5 * n + 5) /\ i \in Nat /\ i >= 1
        BY <1>6, <2>2
      <3>3. (i - 1) \div 5 = n /\ 1 + ((i - 1) % 5) = i - q
        BY <1>6, <3>2, Rounds
      <3>4. StreamByte(c, i) = t[i - q]
        BY <1>7, <3>3 DEF StreamByte, t
      <3> QED BY <1>9, <3>1, <3>4
    <2>3. i <= q \/ i > q
      OBVIOUS
    <2> QED BY <2>1, <2>2, <2>3, Zenon
  <1>12. s \o t = u
    BY <1>3, <1>9, <1>10, <1>11, SameBytes
  <1> QED BY <1>12 DEF s, t, u

(* Five bytes further on the stream is that of the next reply.              *)
LEMMA StreamShrinks ==
  ASSUME NEW c \in Nat, NEW i \in Nat, i >= 1
  PROVE  StreamByte(c, i + 5) = StreamByte(c + 1, i)
  <1>1. (i + 5 - 1) \div 5 = (i - 1) \div 5 + 1 /\ (i + 5 - 1) % 5 = (i - 1) % 5
        /\ (i - 1) \div 5 \in Nat
    BY Rounds
  <1>2. c + 1 + ((i - 1) \div 5 + 1) = c + 1 + 1 + ((i - 1) \div 5)
    BY <1>1
  <1> QED BY <1>1, <1>2 DEF StreamByte

(* What the chip sends comes last, and a NUL not at all.                    *)
LEMMA SendKeepsClean == ParserTypes /\ CleanInv /\ ChipSends => CleanInv'
  <1> SUFFICES ASSUME ParserTypes, CleanInv, ChipSends, CleanStream' PROVE CleanInv'
    BY DEF CleanInv
  <1>1. /\ rxData' = rxData /\ rxPos' = rxPos /\ parsing' = parsing /\ cutReplies' = cutReplies
        /\ ~outOfMemory /\ ~junk'
    BY DEF ChipSends, CleanStream
  <1> DEFINE d == SubSeq(rxData, 1, rxPos)
             l == Compacted(rxLine)
  <1>2. /\ d \in Seq(Bytes) /\ l \in Seq(Bytes) /\ rxLine \in Seq(Bytes)
        /\ cutReplies \in Seq(1..MaxReplies) /\ sentReplies \in Seq(1..MaxReplies)
    BY ParserFacts
  <1>3. Pending' = d \o Compacted(rxLine')
    BY <1>1 DEF Pending, Compacted
  <1>4. Pending = d \o l
    BY DEF Pending
  <1> HIDE DEF d, l
  <1>5. PICK c \in Nat, m \in Nat : c = Len(cutReplies) /\ m = Len(sentReplies)
    BY ParserFacts
  <1>6. CASE /\ Len(sentReplies) < MaxReplies
             /\ sentReplies' = Append(sentReplies, Len(sentReplies) + 1)
             /\ rxLine' = rxLine \o Bytes5(Len(sentReplies) + 1)
             /\ UNCHANGED <<noise, junk>>
    <2>1. CleanStream
      BY <1>1, <1>6 DEF CleanStream
    <2>2. /\ d \o l = Stream(c, m) /\ c <= m /\ Numbered(cutReplies) /\ Numbered(sentReplies)
          /\ ~parsing => rxPos < 5
      BY <1>4, <1>5, <2>1 DEF CleanInv
    <2>3. m + 1 \in 1..MaxReplies /\ m < MaxReplies
      BY <1>5, <1>6, RxAssumption
    <2> DEFINE t == Bytes5(m + 1)
    <2>4. t \in Seq(Bytes) /\ Compacted(t) = t
      <3>1. /\ t \in Seq(Bytes) /\ Len(t) = 5 /\ t[1] = CR /\ t[2] = Open /\ t[3] = m + 1
            /\ t[4] = Close /\ t[5] = NL
        BY <2>3, ReplyBytes
      <3>2. CR # Nul /\ Open # Nul /\ m + 1 # Nul /\ Close # Nul /\ NL # Nul
        BY <2>3 DEF CR, Open, Close, NL, Nul
      <3> HIDE DEF t
      <3>3. ASSUME NEW i \in 1..5 PROVE t[i] # Nul
        <4>1. i = 1 \/ i = 2 \/ i = 3 \/ i = 4 \/ i = 5
          OBVIOUS
        <4> QED BY <3>1, <3>2, <4>1
      <3> QED BY <3>1, <3>3, CompactedWhole
    <2>5. Compacted(rxLine') = l \o t
      <3>1. rxLine' = rxLine \o t
        BY <1>5, <1>6
      <3> HIDE DEF t
      <3>2. Compacted(rxLine \o t) = l \o Compacted(t)
        BY <1>2, <2>4, CompactedConcat DEF l
      <3> QED BY <2>4, <3>1, <3>2
    <2>6. Pending' = (d \o l) \o t
      <3> HIDE DEF t
      <3>1. (d \o l) \o t = d \o (l \o t)
        <4>1. Associate(d, l, t)
          BY <1>2, <2>4, BytesJoined, Zenon
        <4> QED BY <4>1 DEF Associate
      <3> QED BY <1>3, <2>5, <3>1
    <2>7. Pending' = Stream(c, m + 1)
      BY <2>2, <2>3, <2>6, StreamGrows
    <2>8. Len(sentReplies') = m + 1 /\ Numbered(sentReplies')
      <3>1. sentReplies' = Append(sentReplies, m + 1)
        BY <1>5, <1>6
      <3>2. Len(sentReplies') = m + 1 /\ sentReplies'[m + 1] = m + 1
            /\ \A i \in 1..m : sentReplies'[i] = sentReplies[i]
        BY <1>2, <1>5, <3>1
      <3>3. \A i \in 1..m : sentReplies[i] = i
        BY <1>5, <2>2 DEF Numbered
      <3>4. ASSUME NEW i \in 1..(m + 1) PROVE sentReplies'[i] = i
        <4>1. i = m + 1 \/ i \in 1..m
          OBVIOUS
        <4> QED BY <3>2, <3>3, <4>1
      <3> QED BY <3>2, <3>4 DEF Numbered
    <2>9. c <= m + 1
      BY <2>2
    <2>10. Numbered(cutReplies)'
      BY <1>1, <2>2 DEF Numbered
    <2>11. Pending' = Stream(Len(cutReplies'), Len(sentReplies'))
      BY <1>1, <1>5, <2>7, <2>8
    <2>12. Stream(Len(cutReplies'), Len(sentReplies')) = Stream(Len(cutReplies), Len(sentReplies))'
      BY DEF Stream, StreamByte, Bytes5
    <2>13. Numbered(sentReplies)' = Numbered(sentReplies')
      BY DEF Numbered
    <2>14. Len(cutReplies') <= Len(sentReplies')
      BY <1>1, <1>5, <2>8, <2>9
    <2>15. ~parsing' => rxPos' < 5
      BY <1>1, <2>2
    <2> QED BY <2>8, <2>10, <2>11, <2>12, <2>13, <2>14, <2>15 DEF CleanInv
  <1>7. CASE /\ noise < MaxNoise
             /\ noise' = noise + 1
             /\ \E b \in {Nul, Junk} :
                  rxLine' = Append(rxLine, b) /\ junk' = (junk \/ b = Junk)
             /\ UNCHANGED sentReplies
    <2>1. PICK b \in {Nul, Junk} : rxLine' = Append(rxLine, b) /\ junk' = (junk \/ b = Junk)
      BY <1>7
    <2>2. CleanStream /\ b = Nul
      BY <1>1, <2>1 DEF CleanStream
    <2>3. Compacted(rxLine') = l
      <3>1. Nul \in Bytes
        BY DEF Bytes
      <3> QED BY <1>2, <2>1, <2>2, <3>1, CompactedAppend DEF NextKept, l
    <2>4. Pending' = Pending
      BY <1>3, <1>4, <2>3
    <2>5. sentReplies' = sentReplies
      BY <1>7
    <2> QED BY <1>1, <2>2, <2>4, <2>5 DEF CleanInv, Numbered, Stream, StreamByte, Bytes5
  <1> QED BY <1>6, <1>7 DEF ChipSends

(* The five bytes of the reply that comes next.                             *)
LEMMA NextBytes ==
  ASSUME NEW c \in Nat
  PROVE  /\ StreamByte(c, 1) = CR /\ StreamByte(c, 2) = Open /\ StreamByte(c, 3) = c + 1
         /\ StreamByte(c, 4) = Close /\ StreamByte(c, 5) = NL
  <1>1. \A i \in 1..5 : (i - 1) \div 5 = 0 /\ 1 + ((i - 1) % 5) = i
    OBVIOUS
  <1>2. c + 1 + 0 = c + 1
    OBVIOUS
  <1>3. \A i \in 1..5 : StreamByte(c, i) = Bytes5(c + 1)[i]
    BY <1>1, <1>2 DEF StreamByte
  <1>4. 1 \in 1..5 /\ 2 \in 1..5 /\ 3 \in 1..5 /\ 4 \in 1..5 /\ 5 \in 1..5
    OBVIOUS
  <1> QED BY <1>3, <1>4 DEF Bytes5

(* Too few bytes hold no end of a reply.                                    *)
LEMMA NothingToCut ==
  ASSUME ParserTypes, CleanInv, CleanStream, rxPos < 5
  PROVE  Find(Close, NL, rxPos) = 0
  <1>1. rxPos \in 0..RxSize /\ RxSize \in Nat /\ Len(cutReplies) \in Nat
        /\ Len(sentReplies) <= MaxReplies /\ MaxReplies <= 9 /\ MaxReplies \in Nat
        /\ Len(sentReplies) \in Nat
    BY ParserFacts, Zenon
  <1>2. PICK c \in Nat : c = Len(cutReplies)
    BY <1>1
  <1>3. \A i \in 1..rxPos : rxData[i] = StreamByte(c, i)
    BY <1>2, ReadIsStream
  <1>4. rxPos > 0 => c + 1 <= 9
    <2>1. PICK m \in Nat : m = Len(sentReplies)
      BY <1>1
    <2>2. PICK l \in Nat : l = Len(Compacted(rxLine))
      BY ParserFacts
    <2>3. rxPos + l = 5 * (m - c)
      BY <1>2, <2>1, <2>2, ReadIsStream
    <2> QED BY <1>1, <2>1, <2>3
  <1>5. ASSUME NEW k \in 1..(rxPos - 1) PROVE rxData[k] # Close
    <2>1. k = 1 \/ k = 2 \/ k = 3
      BY <1>1
    <2>2. k \in 1..rxPos /\ rxPos > 0
      BY <1>1
    <2>3. rxData[k] = CR \/ rxData[k] = Open \/ rxData[k] = c + 1
      BY <1>3, <2>1, <2>2, NextBytes
    <2> QED BY <1>2, <1>4, <2>2, <2>3 DEF CR, Open, Close
  <1>6. Starts(Close, NL, rxPos) = {}
    BY <1>5 DEF Starts
  <1> QED BY <1>1, <1>6, Found

(* Enough of them begin with the reply that comes next.                     *)
LEMMA ReplyToCut ==
  ASSUME ParserTypes, CleanInv, CleanStream, rxPos >= 5
  PROVE  /\ Find(Close, NL, rxPos) = 4 /\ Find(CR, Open, 3) = 1
         /\ Len(cutReplies) + 1 <= Len(sentReplies)
         /\ Parsed(SubSeq(rxData, 1, 5)) = <<Len(cutReplies) + 1>>
  <1>1. /\ rxPos \in Nat /\ Len(cutReplies) \in Nat /\ Len(sentReplies) \in Nat
        /\ Len(sentReplies) <= MaxReplies /\ MaxReplies <= 9 /\ MaxReplies \in Nat
        /\ rxData \in Seq(Bytes) /\ Len(rxData) = RxSize /\ rxPos <= RxSize /\ RxSize \in Nat
    BY ParserFacts
  <1>2. PICK c \in Nat, m \in Nat : c = Len(cutReplies) /\ m = Len(sentReplies)
    BY <1>1
  <1>3. \A i \in 1..rxPos : rxData[i] = StreamByte(c, i) /\ rxData[i] # Nul
    BY <1>2, ReadIsStream
  <1>4. c + 1 <= m
    <2>1. PICK l \in Nat : l = Len(Compacted(rxLine))
      BY ParserFacts
    <2>2. rxPos + l = 5 * (m - c)
      BY <1>2, <2>1, ReadIsStream
    <2> QED BY <1>1, <2>2
  <1>5. c + 1 \in 1..MaxReplies /\ c + 1 <= 9
    BY <1>1, <1>2, <1>4
  <1>6. /\ 1 \in 1..rxPos /\ 2 \in 1..rxPos /\ 3 \in 1..rxPos /\ 4 \in 1..rxPos
        /\ 5 \in 1..rxPos
    BY <1>1
  <1>7. /\ rxData[1] = CR /\ rxData[2] = Open /\ rxData[3] = c + 1 /\ rxData[4] = Close
        /\ rxData[5] = NL
    BY <1>3, <1>6, NextBytes
  <1>8. Find(Close, NL, rxPos) = 4
    <2>1. 4 \in Starts(Close, NL, rxPos)
      <3>1. 4 \in 1..(rxPos - 1) /\ 4 + 1 = 5 /\ \A i \in 1..4 : i \in 1..rxPos
        BY <1>1
      <3> QED BY <1>3, <1>7, <3>1 DEF Starts
    <2>2. ASSUME NEW k \in Starts(Close, NL, rxPos), k <= 4 PROVE k = 4
      <3>1. k \in 1..4 /\ rxData[k] = Close
        BY <2>2 DEF Starts
      <3>2. k = 1 \/ k = 2 \/ k = 3 \/ k = 4
        BY <3>1
      <3> QED BY <1>2, <1>5, <1>7, <3>1, <3>2 DEF CR, Open, Close
    <2>3. Find(Close, NL, rxPos) \in Starts(Close, NL, rxPos) /\ Find(Close, NL, rxPos) <= 4
      BY <1>1, <2>1, Found
    <2> QED BY <2>2, <2>3
  <1>9. Find(CR, Open, 3) = 1
    <2>1. 1 \in Starts(CR, Open, 3)
      <3>1. 1 \in 1..(3 - 1) /\ 1 + 1 = 2 /\ \A i \in 1..1 : i = 1
        OBVIOUS
      <3>2. rxData[1] # Nul
        BY <1>3, <1>6
      <3> QED BY <1>7, <3>1, <3>2 DEF Starts
    <2>2. Find(CR, Open, 3) \in Starts(CR, Open, 3) /\ Find(CR, Open, 3) <= 1
      BY <2>1, Found
    <2>3. Find(CR, Open, 3) \in 1..(3 - 1)
      BY <2>2 DEF Starts
    <2> QED BY <2>2, <2>3
  <1>10. Parsed(SubSeq(rxData, 1, 5)) = <<c + 1>>
    <2> DEFINE s == SubSeq(rxData, 1, 5)
    <2>1. Len(s) = 5 /\ s[3] = rxData[3]
      BY <1>1
    <2> HIDE DEF s
    <2>2. Len(s) = 5 /\ s[3] = c + 1 /\ s[3] \in 1..MaxReplies
      BY <1>5, <1>7, <2>1
    <2> QED BY <2>2, Zenon DEF Parsed, s
  <1> QED BY <1>2, <1>4, <1>8, <1>9, <1>10

(* Cutting a reply out takes exactly its five bytes.                        *)
LEMMA CutKeepsClean == ParserTypes /\ CleanInv /\ CutReply => CleanInv'
  <1> SUFFICES ASSUME ParserTypes, CleanInv, CutReply PROVE CleanInv'
    OBVIOUS
  <1> SUFFICES ASSUME CleanStream, ~outOfMemory' PROVE CleanInv'
    <2>1. junk' = junk /\ (outOfMemory' = outOfMemory \/ outOfMemory' = TRUE)
      BY DEF CutReply
    <2> QED BY <2>1 DEF CleanInv, CleanStream
  <1>1. /\ rxLine' = rxLine /\ sentReplies' = sentReplies /\ CleanStream' = CleanStream /\ parsing
    BY DEF CutReply, CleanStream
  <1>2. CASE rxPos < 5
    <2>1. Find(Close, NL, rxPos) = 0
      BY <1>2, NothingToCut
    <2>2. parsing' = FALSE /\ rxData' = rxData /\ rxPos' = rxPos /\ cutReplies' = cutReplies
      BY <2>1 DEF CutReply
    <2> QED BY <1>1, <1>2, <2>2, CleanSame
  <1>3. CASE rxPos >= 5
    <2>1. PICK c \in Nat, m \in Nat : c = Len(cutReplies) /\ m = Len(sentReplies)
      BY ParserFacts
    <2>2. /\ Find(Close, NL, rxPos) = 4 /\ Find(CR, Open, 3) = 1
          /\ c + 1 <= m /\ Parsed(SubSeq(rxData, 1, 5)) = <<c + 1>>
      BY <1>3, <2>1, ReplyToCut
    <2>3. /\ cutReplies' = cutReplies \o Parsed(SubSeq(rxData, 1, 5))
          /\ rxData' = Moved(5) /\ rxPos' = rxPos - 5 /\ parsing' = parsing
      <3> DEFINE suffix == Find(Close, NL, rxPos)
                 prefix == Find(CR, Open, suffix - 1)
                 end == suffix + 1
      <3>1. suffix = 4 /\ suffix - 1 = 3 /\ end = 5
        BY <2>2
      <3>2. prefix = 1
        BY <2>2, <3>1
      <3>3. suffix # 0 /\ prefix # 0
        BY <3>1, <3>2
      <3>4. /\ cutReplies' = cutReplies \o Parsed(SubSeq(rxData, prefix, end))
            /\ rxData' = Moved(end) /\ rxPos' = rxPos - (end - prefix + 1)
            /\ parsing' = parsing
        BY <3>3 DEF CutReply
      <3> HIDE DEF suffix, prefix, end
      <3>5. rxPos - (5 - 1 + 1) = rxPos - 5
        BY ParserFacts
      <3> QED BY <3>1, <3>2, <3>4, <3>5
    <2>4. /\ rxPos \in Nat /\ rxPos <= RxSize /\ RxSize \in Nat /\ rxPos - 5 \in Nat
          /\ m <= MaxReplies /\ cutReplies \in Seq(1..MaxReplies)
      BY <1>3, <2>1, ParserFacts
    <2>5. /\ Moved(5) \in Seq(Bytes) /\ Len(Moved(5)) = RxSize
          /\ \A i \in 1..(rxPos - 5) : Moved(5)[i] = rxData[5 + i]
      BY <1>3, <2>4, MovedMemory
    <2>6. cutReplies' = Append(cutReplies, c + 1) /\ Len(cutReplies') = c + 1
      <3>1. c + 1 \in 1..MaxReplies
        BY <2>1, <2>2, <2>4, RxAssumption
      <3>2. Append(cutReplies, c + 1) = cutReplies \o <<c + 1>>
        BY <2>4, <3>1, AppendIsConcat
      <3>3. Len(Append(cutReplies, c + 1)) = c + 1
        BY <2>1, <2>4, <3>1
      <3> QED BY <2>2, <2>3, <3>2, <3>3
    <2>7. Numbered(cutReplies')
      <3>1. \A i \in 1..c : cutReplies[i] = i
        BY <2>1 DEF CleanInv, Numbered
      <3>2. cutReplies'[c + 1] = c + 1 /\ \A i \in 1..c : cutReplies'[i] = cutReplies[i]
        <4>1. c + 1 \in 1..MaxReplies
          BY <2>1, <2>2, <2>4, RxAssumption
        <4> QED BY <2>1, <2>4, <2>6, <4>1
      <3>3. ASSUME NEW i \in 1..(c + 1) PROVE cutReplies'[i] = i
        <4>1. i = c + 1 \/ i \in 1..c
          BY <2>1
        <4> QED BY <3>1, <3>2, <4>1
      <3> QED BY <2>6, <3>3 DEF Numbered
    <2> DEFINE d == SubSeq(rxData, 1, rxPos)
               l == Compacted(rxLine)
               e == SubSeq(Moved(5), 1, rxPos - 5)
    <2>8. Pending' = e \o l
      BY <1>1, <2>3 DEF Pending, Compacted
    <2>9. d \o l = Stream(c, m) /\ c <= m
      BY <2>1 DEF CleanInv, Pending
    <2>10. /\ d \in Seq(Bytes) /\ Len(d) = rxPos /\ l \in Seq(Bytes) /\ Len(l) \in Nat
           /\ \A i \in 1..rxPos : d[i] = rxData[i]
      BY ParserFacts
    <2>11. /\ e \in Seq(Bytes) /\ Len(e) = rxPos - 5
           /\ \A i \in 1..(rxPos - 5) : e[i] = rxData[5 + i]
      <3>1. \A i \in 1..(rxPos - 5) : i \in 1..RxSize
        BY <2>4
      <3> DEFINE M == Moved(5)
      <3>2. M \in Seq(Bytes) /\ Len(M) = RxSize /\ rxPos - 5 \in 0..RxSize
        BY <2>4, <2>5
      <3>3. \A i \in 1..(rxPos - 5) : M[i] = rxData[5 + i]
        BY <2>5
      <3> HIDE DEF M
      <3>4. /\ SubSeq(M, 1, rxPos - 5) \in Seq(Bytes) /\ Len(SubSeq(M, 1, rxPos - 5)) = rxPos - 5
            /\ \A i \in 1..(rxPos - 5) : SubSeq(M, 1, rxPos - 5)[i] = M[i]
        BY <2>4, <3>1, <3>2
      <3> QED BY <3>3, <3>4 DEF M
    <2> HIDE DEF d, e, l
    <2>12. PICK n \in Nat : n = Len(l)
      BY <2>10
    <2>13. PICK p \in Nat : p = rxPos - 5
      BY <2>4
    <2>14. rxPos + n = 5 * (m - c)
      BY <2>1, <2>12, ReadIsStream DEF l
    <2>15. p + n = 5 * (m - (c + 1)) /\ 5 + p = rxPos
      BY <2>4, <2>12, <2>13, <2>14
    <2>16. e \o l = Stream(c + 1, m)
      <3> DEFINE u == Stream(c + 1, m)
                 v == Stream(c, m)
      <3>1. /\ u \in Seq(Bytes) /\ Len(u) = 5 * (m - (c + 1))
            /\ \A i \in 1..(5 * (m - (c + 1))) : u[i] = StreamByte(c + 1, i)
        <4>1. c + 1 \in Nat
          OBVIOUS
        <4> QED BY <2>2, <2>4, <4>1, StreamType
      <3>2. \A i \in 1..(5 * (m - c)) : v[i] = StreamByte(c, i)
        BY <2>4, <2>9, StreamType
      <3> HIDE DEF u, v
      <3>3. Len(u) = p + n /\ \A i \in 1..(p + n) : u[i] = StreamByte(c + 1, i)
        BY <2>15, <3>1
      <3>4. /\ e \o l \in Seq(Bytes) /\ Len(e \o l) = Len(e) + Len(l)
            /\ \A i \in 1..(Len(e) + Len(l)) :
                 (e \o l)[i] = IF i <= Len(e) THEN e[i] ELSE l[i - Len(e)]
        BY <2>10, <2>11, ConcatProperties, Zenon
      <3>5. /\ Len(d \o l) = Len(d) + Len(l)
            /\ \A i \in 1..(Len(d) + Len(l)) :
                 (d \o l)[i] = IF i <= Len(d) THEN d[i] ELSE l[i - Len(d)]
        BY <2>10, ConcatProperties, Zenon
      <3>6. d \o l = v
        BY <2>9 DEF v
      <3>7. ASSUME NEW i \in 1..(p + n) PROVE (e \o l)[i] = u[i]
        <4>1. i + 5 \in 1..(Len(d) + Len(l)) /\ i + 5 \in 1..(5 * (m - c))
              /\ i \in 1..(Len(e) + Len(l)) /\ i \in Nat /\ i >= 1
          BY <2>10, <2>11, <2>12, <2>13, <2>14, <2>15
        <4>2. v[i + 5] = StreamByte(c + 1, i)
          BY <3>2, <4>1, StreamShrinks
        <4>3. (e \o l)[i] = (d \o l)[i + 5]
          <5>1. CASE i <= p
            <6>1. i <= Len(e) /\ i + 5 <= Len(d) /\ i + 5 \in 1..rxPos
                  /\ i \in 1..(rxPos - 5) /\ 5 + i = i + 5
              BY <2>10, <2>11, <2>13, <2>15, <5>1
            <6>2. (e \o l)[i] = e[i] /\ (d \o l)[i + 5] = d[i + 5]
              BY <3>4, <3>5, <4>1, <6>1
            <6>3. e[i] = rxData[5 + i] /\ d[i + 5] = rxData[i + 5]
              BY <2>10, <2>11, <6>1
            <6> QED BY <6>1, <6>2, <6>3
          <5>2. CASE ~(i <= p)
            <6>1. ~(i <= Len(e)) /\ ~(i + 5 <= Len(d)) /\ i - Len(e) = i + 5 - Len(d)
              BY <2>10, <2>11, <2>13, <2>15, <5>2
            <6> QED BY <3>4, <3>5, <4>1, <6>1
          <5> QED BY <5>1, <5>2
        <4> QED BY <3>3, <3>6, <4>2, <4>3
      <3>8. Len(e \o l) = p + n
        BY <2>11, <2>12, <2>13, <3>4
      <3>9. e \o l = u
        BY <3>1, <3>3, <3>4, <3>7, <3>8, SameBytes
      <3> QED BY <3>9 DEF u
    <2>17. Pending' = Stream(Len(cutReplies'), Len(sentReplies'))
      BY <1>1, <2>1, <2>6, <2>8, <2>16
    <2>18. Stream(Len(cutReplies'), Len(sentReplies')) = Stream(Len(cutReplies), Len(sentReplies))'
      BY DEF Stream, StreamByte, Bytes5
    <2>19. Numbered(cutReplies)' /\ Numbered(sentReplies)'
      BY <1>1, <2>7 DEF CleanInv, Numbered
    <2>20. Len(cutReplies') <= Len(sentReplies') /\ parsing'
      BY <1>1, <2>1, <2>2, <2>3, <2>6
    <2> QED BY <2>17, <2>18, <2>19, <2>20 DEF CleanInv
  <1>4. rxPos < 5 \/ rxPos >= 5
    BY ParserFacts
  <1> QED BY <1>2, <1>3, <1>4

(* Every step keeps the pending replies.                                    *)
LEMMA CleanKept == ParserTypes /\ CleanInv /\ [ParserNext]_parserVars => CleanInv'
  <1> SUFFICES ASSUME ParserTypes, CleanInv, [ParserNext]_parserVars PROVE CleanInv'
    OBVIOUS
  <1>1. CASE UNCHANGED parserVars
    <2>1. /\ rxData' = rxData /\ rxPos' = rxPos /\ rxLine' = rxLine /\ CleanStream' = CleanStream
          /\ cutReplies' = cutReplies /\ sentReplies' = sentReplies /\ parsing' = parsing
      BY <1>1 DEF parserVars, CleanStream
    <2>2. CleanStream' /\ ~parsing' => rxPos' < 5
      BY <2>1 DEF CleanInv
    <2> QED BY <2>1, <2>2, CleanSame
  <1> QED BY <1>1, SendKeepsClean, ReadKeepsClean, CutKeepsClean DEF ParserNext

(* What is cut out is then what was sent.                                   *)
LEMMA CleanFollows == ParserTypes /\ CleanInv => CleanStreamExact
  <1> SUFFICES ASSUME ParserTypes, CleanInv, CleanStream
               PROVE  /\ IsPrefix(cutReplies, sentReplies)
                      /\ rxLine = <<>> /\ ~parsing => cutReplies = sentReplies
    BY DEF CleanStreamExact, CleanStream
  <1>1. PICK c \in Nat, m \in Nat : c = Len(cutReplies) /\ m = Len(sentReplies)
    BY ParserFacts
  <1>2. c <= m /\ (\A i \in 1..c : cutReplies[i] = i) /\ (\A i \in 1..m : sentReplies[i] = i)
    BY <1>1 DEF CleanInv, Numbered
  <1>3. cutReplies \in Seq(1..MaxReplies) /\ sentReplies \in Seq(1..MaxReplies)
    BY ParserFacts
  <1>4. cutReplies = [i \in 1..c |-> cutReplies[i]] /\ sentReplies = [i \in 1..m |-> sentReplies[i]]
    BY <1>1, <1>3
  <1>5. SubSeq(cutReplies, 1, c) = SubSeq(sentReplies, 1, c)
    <2> DEFINE s == SubSeq(cutReplies, 1, c)
               t == SubSeq(sentReplies, 1, c)
    <2>1. /\ s = [i \in 1..c |-> s[i]] /\ t = [i \in 1..c |-> t[i]]
          /\ \A i \in 1..c : s[i] = cutReplies[i] /\ t[i] = sentReplies[i]
      BY <1>1, <1>2, <1>3
    <2>2. \A i \in 1..c : s[i] = t[i]
      <3>1. \A i \in 1..c : i \in 1..m
        BY <1>1, <1>2
      <3> QED BY <1>2, <2>1, <3>1
    <2> HIDE DEF s, t
    <2> QED BY <2>1, <2>2 DEF s, t
  <1>6. IsPrefix(cutReplies, sentReplies)
    BY <1>1, <1>2, <1>5 DEF IsPrefix
  <1>7. ASSUME rxLine = <<>>, ~parsing PROVE cutReplies = sentReplies
    <2>1. rxPos < 5 /\ rxPos \in Nat
      BY <1>7, ParserFacts DEF CleanInv
    <2>2. Len(Compacted(rxLine)) = 0
      BY <1>7, CompactedEmpty
    <2>3. rxPos + 0 = 5 * (m - c)
      BY <1>1, <2>2, ReadIsStream
    <2>4. m = c
      BY <1>1, <1>2, <2>1, <2>3
    <2> QED BY <1>2, <1>4, <2>4
  <1> QED BY <1>6, <1>7

(* sscma_client_ops.c:206: however the chip's bytes are cut into reads and   *)
(* padded with NULs, as long as no junk comes and no reply lacks memory the *)
(* replies come out once each, in order, and none stays behind, for every   *)
(* buffer a reply fits in.                                                  *)
THEOREM RepliesCutOut == ParserSpec => []CleanStreamExact
  <1>1. ParserInit => ParserTypes /\ CleanInv
    BY ParserBegins, CleanBegins
  <1>2. ParserTypes /\ CleanInv /\ [ParserNext]_parserVars => ParserTypes' /\ CleanInv'
    BY ParserTypesKept, CleanKept
  <1> QED BY <1>1, <1>2, CleanFollows, PTL DEF ParserSpec

(* ... and the buffer and its position stay within its memory.              *)
THEOREM ParserTyped == ParserSpec => []ParserTypeOK
  <1>1. ParserTypes => ParserTypeOK
    BY DEF ParserTypes
  <1> QED BY <1>1, ParserBegins, ParserTypesKept, PTL DEF ParserSpec
=============================================================================
