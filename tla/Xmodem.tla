------------------------------- MODULE Xmodem -------------------------------
(***************************************************************************)
(* Flashing the vision chip over UART: the XMODEM sender of                *)
(* sscma_client_flasher_we2_uart.c and its four calls.                     *)
(*                                                                         *)
(* One step of xmodem_process is one action per state.  A block is its     *)
(* place in the image, a packet the block and the 8-bit id it is sent      *)
(* under; the receiver, its boot prompts and the line are external.  A     *)
(* damaged packet is one the receiver refuses, a lost byte one that does   *)
(* not arrive.  The receiver asks again when it has received nothing for   *)
(* seconds, whatever the sender does: also between two writes, when the    *)
(* block it asks for has not been sent yet.                                *)
(***************************************************************************)
EXTENDS Naturals, Sequences

CONSTANTS
  Ids,             \* packet ids: 2^8
  MaxRetries,      \* WRITE_BLOCK_MAX_RETRIES
  MaxBlocks,       \* bound: blocks of the image
  MaxFaults,       \* bound: bytes and packets lost or damaged
  MaxAsks,         \* bound: requests out of turn in a transfer
  MaxTransfers     \* bound: transfers; a flash at an offset takes two

ASSUME IdsAssumption == Ids \in Nat /\ Ids > 2
ASSUME XmodemAssumption == MaxRetries \in Nat /\ MaxBlocks \in Nat /\ MaxFaults \in Nat
                           /\ MaxTransfers \in Nat /\ MaxAsks \in Nat

VARIABLES
  xState,          \* flasher->state
  xCall,           \* the call in progress
  xResult,         \* what the last call returned
  txLen, txPos,    \* tx_buffer, in blocks
  txBase,          \* blocks of the image before this buffer
  nextId,          \* cur_packet_id
  packet,          \* cur_packet: id and block
  xferSize,        \* xfer_size, in blocks
  retries,         \* write_block_retries
  toChip, toHost,  \* the line
  expected,        \* the receiver: the id it waits for, ...
  chipBlocks,      \* ... the blocks it has stored
  chipMode,        \* ... and whether it asks with C, receives or is done
  xFaults,         \* faults and transfers so far, ...
  transfers,
  outOfTurn        \* ... and requests out of turn in this transfer

senderVars == <<xState, xCall, xResult, txLen, txPos, txBase, nextId, packet,
                xferSize, retries>>
lineVars == <<toChip, toHost, xFaults, transfers, outOfTurn>>
receiverVars == <<expected, chipBlocks, chipMode>>
xmodemVars == <<senderVars, lineVars, receiverVars>>

States == {"INITIAL", "WAIT_FOR_C", "WAIT_FOR_C_TIMEOUT", "WAIT_FOR_C_ACK",
           "WRITE_BLOCK_FAILED", "ABORT_TRANSFER", "WRITE_BLOCK", "C_ACK_RECEIVED",
           "COMPLETE", "WRITE_EOT", "WAIT_FOR_EOT_ACK", "TIMEOUT_EOT",
           "WRITE_BLOCK_TIMEOUT", "WAIT_WRITE_BLOCK", "FINAL"}
Calls4 == {"rest", "start", "write", "finish", "abort"}

XmodemTypeOK ==
  /\ xState \in States /\ xCall \in Calls4
  /\ xResult \in {"none", "ok", "timeout"}
  /\ txLen \in 0..MaxBlocks /\ txPos \in 0..MaxBlocks /\ txBase \in 0..MaxBlocks
  /\ nextId \in 0..(Ids - 1) /\ packet \in [id : 0..(Ids - 1), block : 0..MaxBlocks]
  /\ xferSize \in 0..1 /\ retries \in 0..(MaxRetries + 1)
  /\ expected \in 0..(Ids - 1) /\ chipMode \in {"asks", "data", "done"}
  /\ chipBlocks \in Seq(1..MaxBlocks) /\ xFaults \in 0..MaxFaults
  /\ transfers \in 0..MaxTransfers /\ outOfTurn \in 0..MaxAsks

XmodemInit ==
  /\ xState = "INITIAL" /\ xCall = "rest" /\ xResult = "none"
  /\ txLen = 0 /\ txPos = 0 /\ txBase = 0
  /\ nextId = 0 /\ packet = [id |-> 0, block |-> 0] /\ xferSize = 0 /\ retries = 0
  /\ toChip = <<>> /\ toHost = <<>> /\ xFaults = 0 /\ transfers = 0 /\ outOfTurn = 0
  /\ expected = 1 /\ chipBlocks = <<>> /\ chipMode = "asks"

-----------------------------------------------------------------------------
(* The four calls.                                                         *)

Enter(name, state) == xCall = "rest" /\ xCall' = name /\ xState' = state
Return(result) == xCall' = "rest" /\ xResult' = result

\* The first transfer, one after an abort or after a start that failed, or the
\* image after its offset: the receiver and the line start afresh, the sender
\* keeps its packet and its retries.
StartCall ==
  /\ xResult = "none" \/ xState \in {"COMPLETE", "WAIT_FOR_C_TIMEOUT"}
  /\ transfers < MaxTransfers /\ transfers' = transfers + 1
  /\ Enter("start", "INITIAL")
  /\ nextId' = 1 /\ txLen' = 0 /\ txPos' = 0 /\ txBase' = 0 /\ xferSize' = 0
  /\ toChip' = <<>> /\ toHost' = <<>> /\ outOfTurn' = 0
  /\ expected' = 1 /\ chipBlocks' = <<>> /\ chipMode' = "asks"
  /\ UNCHANGED <<xResult, packet, retries, xFaults>>

\* xmodem_start leaves its loop on the first block, or after 30 s: with the
\* timeout, or with ESP_OK when the loop's own clock is the first to expire.
StartReturns ==
  /\ xCall = "start"
  /\ \/ xState = "WRITE_BLOCK" /\ Return("ok")
     \/ xState = "WAIT_FOR_C_TIMEOUT" /\ Return("timeout")
     \/ xState = "WAIT_FOR_C" /\ Return("ok")
  /\ UNCHANGED <<xState, txLen, txPos, txBase, nextId, packet, xferSize, retries,
                 lineVars, receiverVars>>

\* After a start, until it is finished.
WriteCall(blocks) ==
  /\ xResult = "ok" /\ xState # "COMPLETE" /\ xCall = "rest"
  /\ txBase + txPos + blocks <= MaxBlocks
  /\ xCall' = "write" /\ txBase' = txBase + txPos
  /\ txLen' = blocks /\ txPos' = 0 /\ xferSize' = 0
  /\ UNCHANGED <<xState, xResult, nextId, packet, retries, lineVars, receiverVars>>

WriteReturns ==
  /\ xCall = "write"
  /\ \/ xState = "WAIT_WRITE_BLOCK" /\ txLen = 0 /\ Return("ok")
     \/ xState = "WRITE_BLOCK_TIMEOUT" /\ Return("timeout")
  /\ UNCHANGED <<xState, txLen, txPos, txBase, nextId, packet, xferSize, retries,
                 lineVars, receiverVars>>

FinishCall ==
  /\ xResult = "ok" /\ xState = "WAIT_WRITE_BLOCK" /\ Enter("finish", "WRITE_EOT")
  /\ nextId' = Ids - 1 /\ txBase' = txBase + txPos
  /\ txLen' = 0 /\ txPos' = 0 /\ xferSize' = 0
  /\ UNCHANGED <<xResult, packet, retries, lineVars, receiverVars>>

FinishReturns ==
  /\ xCall = "finish" /\ xState = "COMPLETE" /\ Return("ok")
  /\ UNCHANGED <<xState, txLen, txPos, txBase, nextId, packet, xferSize, retries,
                 lineVars, receiverVars>>

\* sscma_client_ota_write aborts what failed, and sscma_client_ota_abort what
\* the application gives up.
AbortCall ==
  /\ xResult # "none" /\ Enter("abort", "ABORT_TRANSFER")
  /\ txBase' = txBase + txPos /\ txLen' = 0 /\ txPos' = 0 /\ xferSize' = 0
  /\ UNCHANGED <<xResult, nextId, packet, retries, lineVars, receiverVars>>

AbortReturns ==
  /\ xCall = "abort" /\ xState = "FINAL" /\ Return("none")
  /\ UNCHANGED <<xState, txLen, txPos, txBase, nextId, packet, xferSize, retries,
                 lineVars, receiverVars>>

-----------------------------------------------------------------------------
(* xmodem_process, by state.  A call looks for its last state first.       *)

Leaving ==
  \/ xCall = "start" /\ xState \in {"WRITE_BLOCK", "WAIT_FOR_C_TIMEOUT"}
  \/ xCall = "write" /\ xState = "WRITE_BLOCK_TIMEOUT"
  \/ xCall = "write" /\ xState = "WAIT_WRITE_BLOCK" /\ txLen = 0
  \/ xCall = "finish" /\ xState = "COMPLETE"
  \/ xCall = "abort" /\ xState = "FINAL"
Running(state) == xCall # "rest" /\ xState = state /\ ~Leaving

WaitForC ==
  /\ \/ /\ Running("INITIAL") /\ xState' = "WAIT_FOR_C"
        /\ UNCHANGED <<toHost>>
     \/ /\ Running("WAIT_FOR_C") /\ toHost # <<>>
        /\ xState' = IF Head(toHost) = "C" THEN "WRITE_BLOCK" ELSE "WAIT_FOR_C"
        /\ toHost' = Tail(toHost)
     \/ /\ Running("WAIT_FOR_C") /\ toHost = <<>>          \* 30 s without C
        /\ xState' = "WAIT_FOR_C_TIMEOUT"
        /\ UNCHANGED toHost
  /\ UNCHANGED <<xCall, xResult, txLen, txPos, txBase, nextId, packet, xferSize,
                 retries, toChip, xFaults, transfers, outOfTurn, receiverVars>>

\* The packet is built anew unless it is the one just refused.
Rebuild == packet.id # nextId \/ nextId = 1

WriteBlock ==
  /\ Running("WRITE_BLOCK") /\ txLen > 0
  /\ packet' = IF Rebuild THEN [id |-> nextId, block |-> txBase + txPos + 1] ELSE packet
  /\ xferSize' = IF Rebuild THEN (IF txLen > txPos THEN 1 ELSE 0) ELSE xferSize
  /\ toChip' = Append(toChip, packet')
  /\ nextId' = (nextId + 1) % Ids
  /\ txPos' = txPos + xferSize'
  /\ xState' = "WAIT_FOR_C_ACK"
  /\ UNCHANGED <<xCall, xResult, txLen, txBase, retries, toHost, xFaults, transfers, outOfTurn,
                 receiverVars>>

WaitWriteBlock ==
  /\ Running("WAIT_WRITE_BLOCK") /\ txLen > 0
  /\ xState' = "WRITE_BLOCK"
  /\ UNCHANGED <<xCall, xResult, txLen, txPos, txBase, nextId, packet, xferSize, retries,
                 lineVars, receiverVars>>

\* 30 s without a byte: nothing is under way and the receiver says nothing.
Silent == toHost = <<>> /\ toChip = <<>>

WaitForAck ==
  /\ Running("WAIT_FOR_C_ACK")
  /\ \/ /\ toHost # <<>> /\ toHost' = Tail(toHost)
        /\ xState' = CASE Head(toHost) = "ACK" -> "C_ACK_RECEIVED"
                       [] Head(toHost) = "NACK" -> "WRITE_BLOCK_FAILED"
                       [] OTHER -> "WAIT_FOR_C_ACK"
     \/ Silent /\ xState' = "WRITE_BLOCK_TIMEOUT" /\ UNCHANGED toHost
  /\ UNCHANGED <<xCall, xResult, txLen, txPos, txBase, nextId, packet, xferSize, retries,
                 toChip, xFaults, transfers, outOfTurn, receiverVars>>

\* Mutant: the position in the buffer is not taken back.
BlockFailedOnward ==
  /\ Running("WRITE_BLOCK_FAILED")
  /\ IF retries > MaxRetries
     THEN xState' = "ABORT_TRANSFER" /\ UNCHANGED <<nextId, retries>>
     ELSE /\ xState' = "WRITE_BLOCK" /\ nextId' = (nextId + Ids - 1) % Ids
          /\ retries' = retries + 1
  /\ UNCHANGED <<xCall, xResult, txLen, txBase, txPos, packet, xferSize, lineVars,
                 receiverVars>>

BlockFailed ==
  /\ Running("WRITE_BLOCK_FAILED")
  /\ IF retries > MaxRetries
     THEN xState' = "ABORT_TRANSFER" /\ UNCHANGED <<nextId, txPos, retries>>
     ELSE /\ xState' = "WRITE_BLOCK" /\ nextId' = (nextId + Ids - 1) % Ids
          /\ txPos' = txPos - xferSize /\ retries' = retries + 1
  /\ UNCHANGED <<xCall, xResult, txLen, txBase, packet, xferSize, lineVars, receiverVars>>

\* The count of retries starts anew only inside a buffer.
AckReceived ==
  /\ Running("C_ACK_RECEIVED")
  /\ IF txPos >= txLen
     THEN txLen' = 0 /\ xState' = "WAIT_WRITE_BLOCK" /\ UNCHANGED retries
     ELSE retries' = 0 /\ xState' = "WRITE_BLOCK" /\ UNCHANGED txLen
  /\ UNCHANGED <<xCall, xResult, txPos, txBase, nextId, packet, xferSize, lineVars,
                 receiverVars>>

EndOfTransfer ==
  /\ \/ /\ Running("WRITE_EOT") /\ toChip' = Append(toChip, [id |-> 0, block |-> 0])
        /\ xState' = "WAIT_FOR_EOT_ACK" /\ UNCHANGED toHost
     \/ /\ Running("WAIT_FOR_EOT_ACK") /\ toHost # <<>> /\ toHost' = Tail(toHost)
        /\ xState' = CASE Head(toHost) = "ACK" -> "COMPLETE"
                       [] Head(toHost) = "NACK" -> "ABORT_TRANSFER"
                       [] OTHER -> "WAIT_FOR_EOT_ACK"
        /\ UNCHANGED toChip
     \/ /\ Running("WAIT_FOR_EOT_ACK") /\ Silent /\ xState' = "TIMEOUT_EOT"
        /\ UNCHANGED <<toChip, toHost>>
  /\ UNCHANGED <<xCall, xResult, txLen, txPos, txBase, nextId, packet, xferSize, retries,
                 xFaults, transfers, outOfTurn, receiverVars>>

\* CAN is sent; whoever does not wait for FINAL sends it again and again.
AbortTransfer ==
  /\ \/ Running("ABORT_TRANSFER") /\ xState' = "FINAL"
     \/ /\ \E s \in {"FINAL", "TIMEOUT_EOT", "WAIT_FOR_C_TIMEOUT"} : Running(s)
        /\ xState' = "ABORT_TRANSFER"
  /\ UNCHANGED <<xCall, xResult, txLen, txPos, txBase, nextId, packet, xferSize, retries,
                 lineVars, receiverVars>>

-----------------------------------------------------------------------------
(* The receiver (external), and what the line does.                        *)

ChipReceives ==
  /\ toChip # <<>> /\ toChip' = Tail(toChip)
  /\ LET p == Head(toChip) IN
       CASE p.block = 0 ->                       \* EOT
              chipMode' = "done" /\ toHost' = Append(toHost, "ACK")
              /\ UNCHANGED <<expected, chipBlocks>>
         [] p.block # 0 /\ p.id = expected ->
              /\ chipBlocks' = Append(chipBlocks, p.block) /\ expected' = (expected + 1) % Ids
              /\ chipMode' = "data" /\ toHost' = Append(toHost, "ACK")
         [] p.block # 0 /\ p.id = (expected + Ids - 1) % Ids ->
              toHost' = Append(toHost, "ACK") /\ UNCHANGED receiverVars
         [] OTHER -> toHost' = Append(toHost, "NACK") /\ UNCHANGED receiverVars
  /\ UNCHANGED <<senderVars, xFaults, transfers, outOfTurn>>

\* Its own timeouts: C until the first block, then NACK.  A request is in turn
\* when nothing it said is unread and, after the first block, the sender waits.
InTurn == toHost = <<>> /\ (chipMode = "asks" \/ xState = "WAIT_FOR_C_ACK")

ChipAsksAgain ==
  /\ toChip = <<>> /\ chipMode # "done"
  /\ InTurn \/ outOfTurn < MaxAsks
  /\ outOfTurn' = IF InTurn THEN outOfTurn ELSE outOfTurn + 1
  /\ toHost' = Append(toHost, IF chipMode = "asks" THEN "C" ELSE "NACK")
  /\ UNCHANGED <<senderVars, toChip, xFaults, transfers, receiverVars>>

LineFault ==
  /\ xFaults < MaxFaults /\ xFaults' = xFaults + 1
  /\ \/ toChip # <<>> /\ toChip' = Tail(toChip) /\ UNCHANGED toHost
     \/ /\ toChip # <<>> /\ toChip' = Tail(toChip)          \* damaged
        /\ toHost' = Append(toHost, "NACK")
     \/ toHost # <<>> /\ toHost' = Tail(toHost) /\ UNCHANGED toChip
  /\ UNCHANGED <<senderVars, receiverVars, transfers, outOfTurn>>

XmodemNext ==
  \/ StartCall \/ StartReturns \/ (\E n \in 1..2 : WriteCall(n)) \/ WriteReturns
  \/ FinishCall \/ FinishReturns \/ AbortCall \/ AbortReturns
  \/ WaitForC \/ WriteBlock \/ WaitWriteBlock \/ WaitForAck \/ BlockFailed
  \/ AckReceived \/ EndOfTransfer \/ AbortTransfer
  \/ ChipReceives \/ ChipAsksAgain \/ LineFault

XmodemSpec == XmodemInit /\ [][XmodemNext]_xmodemVars

-----------------------------------------------------------------------------
(* Properties.                                                             *)

\* What the receiver holds is a beginning of the image, in order, whatever was
\* lost, damaged, asked for again or acknowledged twice and however often the
\* ids have wrapped; and unless it asked out of turn, which leaves an
\* acknowledgement too many on the line, a write that returns ESP_OK has
\* stored every block written so far.
WrittenIsStored ==
  /\ \A k \in 1..Len(chipBlocks) : chipBlocks[k] = k
  /\ outOfTurn = 0 /\ xCall = "rest" /\ xResult = "ok"
     /\ xState \in {"WAIT_WRITE_BLOCK", "COMPLETE"} => Len(chipBlocks) = txBase + txPos
=============================================================================
