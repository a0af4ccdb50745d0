----------------------------- MODULE DeltaSigma -----------------------------
(***************************************************************************)
(* The M5Stick's speaker (components/board/board.c:2076): board_audio_play *)
(* turns samples into a stream of bits by one-bit delta-sigma modulation,  *)
(* whose integrator carries over from call to call under the codec mutex.  *)
(* Full is 2^16; a sample is doubled, clamped and drives Bits bits.        *)
(***************************************************************************)
EXTENDS Integers

CONSTANTS
  Half,            \* 2^15
  Bits,            \* bits per sample: DS_OVERSAMPLE * 32
  Players,         \* tasks that call board_audio_play
  MaxSamples       \* bound: samples played

ASSUME HalfAssumption == Half \in Nat \ {0}
ASSUME BitsAssumption == Bits \in Nat \ {0} /\ MaxSamples \in Nat

VARIABLES
  dsAccum,         \* s_ds_accum
  dsOwner,         \* the holder of s_codec_mutex, or "none"
  acc,             \* the holder's copy of the integrator
  drive,           \* v, of the sample being played, or 1 between samples
  bitsLeft,        \* bits of it still to come
  ones,            \* history: ones among its bits so far
  started,         \* history: the integrator when the sample began
  streamed,        \* history: the integrator after the last bit of the stream
  samples

dsVars == <<dsAccum, dsOwner, acc, drive, bitsLeft, ones, started, streamed, samples>>

Full == 2 * Half
Clamp(x) == IF x > Half - 1 THEN Half - 1 ELSE IF x < -Half THEN -Half ELSE x
Drive(sample) == -Half - Clamp(2 * sample)

DsTypeOK ==
  /\ dsAccum \in 0..(Full - 1) /\ acc \in 0..(Full - 1)
  /\ started \in 0..(Full - 1) /\ streamed \in 0..(Full - 1)
  /\ dsOwner \in Players \cup {"none"}
  /\ drive \in (1 - Full)..0 \cup {1}
  /\ bitsLeft \in 0..Bits /\ ones \in 0..Bits /\ samples \in 0..MaxSamples

DsInit ==
  /\ dsAccum = Half /\ dsOwner = "none" /\ acc = Half
  /\ drive = 1 /\ bitsLeft = 0 /\ ones = 0 /\ started = Half /\ streamed = Half
  /\ samples = 0

-----------------------------------------------------------------------------
PlayBegin(p) ==
  /\ dsOwner = "none" /\ dsOwner' = p /\ acc' = dsAccum
  /\ UNCHANGED <<dsAccum, drive, bitsLeft, ones, started, streamed, samples>>

NextSample(sample) ==
  /\ dsOwner # "none" /\ bitsLeft = 0 /\ samples < MaxSamples
  /\ samples' = samples + 1
  /\ drive' = Drive(sample) /\ bitsLeft' = Bits
  /\ ones' = 0 /\ started' = acc
  /\ UNCHANGED <<dsAccum, dsOwner, acc, streamed>>

\* Mutant: the integrator is brought back one short.
NextBitShort ==
  /\ bitsLeft > 0 /\ bitsLeft' = bitsLeft - 1
  /\ IF acc + drive < 0
     THEN acc' = acc + drive + Full - 1 /\ ones' = ones + 1
     ELSE acc' = acc + drive /\ UNCHANGED ones
  /\ streamed' = acc'
  /\ UNCHANGED <<dsAccum, dsOwner, drive, started, samples>>

NextBit ==
  /\ bitsLeft > 0 /\ bitsLeft' = bitsLeft - 1
  /\ IF acc + drive < 0
     THEN acc' = acc + drive + Full /\ ones' = ones + 1
     ELSE acc' = acc + drive /\ UNCHANGED ones
  /\ streamed' = acc'
  /\ UNCHANGED <<dsAccum, dsOwner, drive, started, samples>>

PlayEnd ==
  /\ dsOwner # "none" /\ bitsLeft = 0
  /\ dsAccum' = acc /\ dsOwner' = "none" /\ drive' = 1
  /\ UNCHANGED <<acc, bitsLeft, ones, started, streamed, samples>>

DsNext ==
  \/ \E p \in Players : PlayBegin(p)
  \/ \E sample \in -Half..(Half - 1) : NextSample(sample)
  \/ NextBit \/ PlayEnd

DsSpec == DsInit /\ [][DsNext]_dsVars

-----------------------------------------------------------------------------
(* Properties.                                                             *)

\* board.c:2096: the integrator never leaves 16 bits, whatever the samples, so
\* one addition per bit brings it back: the share of ones in a sample's bits
\* is its drive to within one bit, and the stream goes on where it stopped,
\* whichever task plays next.
DensityTracksSample ==
  /\ dsAccum \in 0..(Full - 1) /\ acc \in 0..(Full - 1)
  /\ drive # 1 => acc - started = (Bits - bitsLeft) * drive + Full * ones
  /\ dsOwner = "none" => dsAccum = streamed
=============================================================================
