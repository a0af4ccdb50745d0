------------------------------- MODULE Sha512 -------------------------------
(***************************************************************************)
(* The buffering of sha512.c: a message arrives in pieces, whole blocks go *)
(* straight to sha512_compress and the rest through a buffer, which the    *)
(* end pads. A byte of the message stands for its place in it; what        *)
(* sha512_compress does with a block is left open.                         *)
(***************************************************************************)
EXTENDS Integers, Sequences

CONSTANTS
  Pieces,          \* lengths of pieces
  MaxMessage       \* bound: bytes of a message

ASSUME ShaAssumption == Pieces \subseteq Nat /\ MaxMessage \in Nat

Block == 128
Pad == [zero |-> -1, one |-> -2]            \* 0x00 and 0x80
LengthBytes(n) == -8 - n                    \* the last byte stands for the eight

VARIABLES
  buf,             \* md->buf: bytes, and what an earlier message left there
  curlen,          \* md->curlen
  bits,            \* md->length
  blocks,          \* what was handed to sha512_compress, in order
  piece,           \* the bytes of sha512_update's piece still to take
  fed,             \* history: bytes of the message so far
  closed           \* sha512_final was called

shaVars == <<buf, curlen, bits, blocks, piece, fed, closed>>

ShaTypeOK ==
  /\ buf \in [0..(Block - 1) -> Int] /\ curlen \in 0..Block
  /\ bits \in Nat /\ blocks \in Seq(Seq(Int))
  /\ piece \in 0..MaxMessage /\ fed \in 0..MaxMessage /\ closed \in BOOLEAN

\* sha512_init leaves the buffer as it is.
ShaInit ==
  /\ buf = [i \in 0..(Block - 1) |-> Pad.zero] /\ curlen = 0 /\ bits = 0 /\ blocks = <<>>
  /\ piece = 0 /\ fed = 0 /\ closed = FALSE

Next128 == [i \in 1..Block |-> fed - piece + i - 1]
Compress(block) == blocks' = Append(blocks, block)
Buffer(b) == [i \in 1..Block |-> b[i - 1]]

-----------------------------------------------------------------------------
\* sha512_update on the next n bytes; then a round of its loop.
Update(n) ==
  /\ ~closed /\ piece = 0 /\ fed + n <= MaxMessage
  /\ piece' = n /\ fed' = fed + n
  /\ UNCHANGED <<buf, curlen, bits, blocks, closed>>

UpdateDirect ==
  /\ curlen = 0 /\ piece >= Block
  /\ Compress(Next128)
  /\ bits' = bits + Block * 8 /\ piece' = piece - Block
  /\ UNCHANGED <<buf, curlen, fed, closed>>

UpdateFill ==
  /\ piece > 0 /\ ~(curlen = 0 /\ piece >= Block)
  /\ LET n == IF piece < Block - curlen THEN piece ELSE Block - curlen
         b == [i \in 0..(Block - 1) |-> IF i \in curlen..(curlen + n - 1)
                                       THEN fed - piece + i - curlen ELSE buf[i]]
     IN  /\ buf' = b /\ piece' = piece - n
         /\ IF curlen + n = Block
            THEN Compress(Buffer(b)) /\ bits' = bits + Block * 8 /\ curlen' = 0
            ELSE curlen' = curlen + n /\ UNCHANGED <<bits, blocks>>
  /\ UNCHANGED <<fed, closed>>

\* sha512_final: the bit, zeros, and the length in the last eight bytes, in a
\* block of its own where it does not fit.
Padded(b, from, to) == [i \in 0..(Block - 1) |-> IF i \in from..to THEN Pad.zero ELSE b[i]]
WithLength(b, n) ==
  [i \in 0..(Block - 1) |-> IF i = 127 THEN LengthBytes(n) ELSE IF i >= 120 THEN Pad.zero ELSE b[i]]
Final ==
  /\ ~closed /\ piece = 0 /\ curlen < Block /\ closed' = TRUE
  /\ LET n == bits + curlen * 8
         one == [buf EXCEPT ![curlen] = Pad.one]
         last == IF curlen + 1 > 112 THEN Padded(one, 0, 119) ELSE Padded(one, curlen + 1, 119)
         first == Padded(one, curlen + 1, 127)
     IN  /\ bits' = n /\ buf' = WithLength(last, n)
         /\ blocks' = (IF curlen + 1 > 112 THEN Append(blocks, Buffer(first)) ELSE blocks)
                      \o <<Buffer(WithLength(last, n))>>
  /\ curlen' = 120
  /\ UNCHANGED <<piece, fed>>

\* Mutant: sha512_init leaves the length of the last message's rest.
InitAgainRest ==
  /\ closed /\ closed' = FALSE /\ bits' = 0 /\ blocks' = <<>> /\ fed' = 0
  /\ UNCHANGED <<buf, curlen, piece>>

\* The context is used again.
InitAgain ==
  /\ closed /\ closed' = FALSE /\ curlen' = 0 /\ bits' = 0 /\ blocks' = <<>> /\ fed' = 0
  /\ UNCHANGED <<buf, piece>>

ShaNext ==
  \/ \E n \in Pieces : Update(n)
  \/ UpdateDirect \/ UpdateFill \/ Final \/ InitAgain

ShaSpec == ShaInit /\ [][ShaNext]_shaVars

-----------------------------------------------------------------------------
(* Properties.                                                             *)

\* The padded message of n bytes, cut into blocks.
BlocksOf(n) == (n + 17 + Block - 1) \div Block
PaddedByte(n, k) ==
  CASE k < n -> k [] k = n -> Pad.one
    [] k > n /\ k < Block * BlocksOf(n) - 1 -> Pad.zero
    [] OTHER -> LengthBytes(8 * n)

\* sha512.c:174, :218: in whatever pieces a message came, and whatever the context was
\* used for before, sha512_compress gets the blocks of the padded message.
BlocksWhole ==
  /\ ~closed => \A b \in 1..Len(blocks) : blocks[b] = [i \in 1..Block |-> (b - 1) * Block + i - 1]
  /\ ~closed => Len(blocks) * Block + curlen = fed - piece
  /\ closed => blocks = [b \in 1..BlocksOf(fed) |->
                           [i \in 1..Block |-> PaddedByte(fed, (b - 1) * Block + i - 1)]]
=============================================================================
