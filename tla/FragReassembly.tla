--------------------------- MODULE FragReassembly ---------------------------
(***************************************************************************)
(* WEBSOCKET_EVENT_DATA in openclaw_client.c: a frame longer than the      *)
(* client library's buffer comes in pieces and is put together again. A    *)
(* frame's bytes are pairs <<frame, place>>.                               *)
(***************************************************************************)
EXTENDS Naturals, Sequences

CONSTANTS
  FrameLengths,    \* lengths of the frames the gateway sends
  PieceSize,       \* the library's buffer
  MaxFrames        \* bound

ASSUME FrameAssumption ==
  PieceSize \in Nat \ {0} /\ FrameLengths \subseteq Nat \ {0} /\ MaxFrames \in Nat

VARIABLES
  frames,          \* history: [length, lost] of the frames sent so far
  offset,          \* bytes of the last frame the library has delivered
  fragBuf,         \* s_oc.frag_buf: its bytes; unset when NULL
  fragSet,
  fragTotal,       \* s_oc.frag_total
  fragLen,         \* s_oc.frag_len
  handled          \* what handle_message was called with

fragVars == <<frames, offset, fragBuf, fragSet, fragTotal, fragLen, handled>>

FragTypeOK ==
  /\ \A f \in 1..Len(frames) : frames[f].length \in FrameLengths /\ frames[f].lost \in BOOLEAN
  /\ offset \in Nat /\ fragSet \in BOOLEAN /\ fragTotal \in Nat /\ fragLen \in Nat
  /\ Len(fragBuf) = fragLen /\ handled \in Seq(Seq(Nat \X Nat))

FragInit ==
  /\ frames = <<>> /\ offset = 0 /\ fragBuf = <<>> /\ fragSet = FALSE
  /\ fragTotal = 0 /\ fragLen = 0 /\ handled = <<>>

Arriving == frames # <<>> /\ ~frames[Len(frames)].lost /\ offset < frames[Len(frames)].length
Payload == frames[Len(frames)].length
PieceLength == IF Payload - offset < PieceSize THEN Payload - offset ELSE PieceSize
Piece(from, n) == [i \in 1..n |-> <<Len(frames), from + i>>]

-----------------------------------------------------------------------------
GatewaySends(n) ==
  /\ ~Arriving /\ Len(frames) < MaxFrames
  /\ frames' = Append(frames, [length |-> n, lost |-> FALSE]) /\ offset' = 0
  /\ UNCHANGED <<fragBuf, fragSet, fragTotal, fragLen, handled>>
\* The connection breaks in the middle of a frame; the buffer is left as it is.
ConnectionBreaks ==
  /\ Arriving /\ offset > 0
  /\ frames' = [frames EXCEPT ![Len(frames)].lost = TRUE]
  /\ UNCHANGED <<offset, fragBuf, fragSet, fragTotal, fragLen, handled>>

\* A frame that is one piece.
WholeFrame ==
  /\ Arriving /\ Payload = PieceLength
  /\ handled' = Append(handled, Piece(0, Payload)) /\ offset' = Payload
  /\ UNCHANGED <<frames, fragBuf, fragSet, fragTotal, fragLen>>

\* Mutant: the length is not reset with the buffer.
StartedKept(ok) == [set |-> ok, total |-> Payload, buf |-> fragBuf]

\* What the buffer is before a piece is copied: new for the first one.
Started(ok) ==
  IF offset = 0 THEN [set |-> ok, total |-> Payload, buf |-> <<>>]
  ELSE [set |-> fragSet, total |-> fragTotal, buf |-> fragBuf]

\* A piece of a longer one; the allocation for the first may fail.
PieceArrives ==
  /\ Arriving /\ Payload > PieceLength /\ offset' = offset + PieceLength
  /\ \E ok \in IF offset = 0 THEN BOOLEAN ELSE {TRUE} :
       LET s == Started(ok)
           fits == s.set /\ Len(s.buf) + PieceLength <= s.total
           buf == IF fits THEN s.buf \o Piece(offset, PieceLength) ELSE s.buf
           complete == s.set /\ Len(buf) >= s.total
       IN  /\ handled' = IF complete THEN Append(handled, buf) ELSE handled
           /\ fragSet' = (s.set /\ ~complete) /\ fragTotal' = s.total
           /\ fragBuf' = (IF complete \/ ~s.set THEN <<>> ELSE buf)
           /\ fragLen' = Len(fragBuf')
           /\ frames' = IF s.set THEN frames ELSE [frames EXCEPT ![Len(frames)].lost = TRUE]

FragNext ==
  \/ \E n \in FrameLengths : GatewaySends(n)
  \/ ConnectionBreaks \/ WholeFrame \/ PieceArrives
FragSpec == FragInit /\ [][FragNext]_fragVars

-----------------------------------------------------------------------------
(* Properties.                                                             *)

Sent(f) == [i \in 1..frames[f].length |-> <<f, i>>]
Arrived(f) == ~frames[f].lost /\ (f < Len(frames) \/ offset = Payload)
FrameOf(h) == h[1][1]

\* openclaw_client.c:1016: whatever broke off before, handle_message is called with whole
\* frames only, each that arrived whole exactly once and in order, and the
\* buffer is never written past what was allocated for it.
OnlyWholeFrames ==
  /\ \A k \in 1..Len(handled) :
       \E f \in 1..Len(frames) : Arrived(f) /\ handled[k] = Sent(f)
  /\ \A f \in 1..Len(frames) : Arrived(f) => \E k \in 1..Len(handled) : handled[k] = Sent(f)
  /\ \A j, k \in 1..Len(handled) : j < k => FrameOf(handled[j]) < FrameOf(handled[k])
  /\ fragSet => fragLen <= fragTotal
=============================================================================
