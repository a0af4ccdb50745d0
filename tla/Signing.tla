------------------------------ MODULE Signing ------------------------------
(***************************************************************************)
(* Keys and signatures (ed25519_lib/src/keypair.c, sign.c, verify.c,       *)
(* add_scalar.c) over a group of order L: a point stands for the multiple  *)
(* of B it is, and SHA-512 for a table filled in as it is asked. What is   *)
(* taken for granted here GroupElement, ScalarReduction and Sha512 check.  *)
(***************************************************************************)
EXTENDS Integers, Sequences, FiniteSets

CONSTANTS
  L,               \* the group's order
  Messages,
  AddedScalars,           \* scalars given to ed25519_add_scalar
  MaxOps           \* bound: signatures and additions

ASSUME SigningAssumption == L \in Nat \ {0, 1} /\ MaxOps \in Nat /\ AddedScalars \subseteq Nat

VARIABLES
  scalar,          \* private_key[0..31]
  prefix,          \* private_key[32..63]: what it was hashed from
  public,          \* the key pair's public_key
  apart,           \* a copy of it that only ever was given to add_scalar by itself
  signature,       \* the last signature: [R, S, message, key], or none
  hash,            \* SHA-512 modulo L of what was hashed so far
  ops

signVars == <<scalar, prefix, public, apart, signature, hash, ops>>

None == [R |-> -1, S |-> -1, message |-> "none", key |-> -1]

SigningTypeOK ==
  /\ scalar \in Nat /\ prefix \in Seq(Nat) /\ public \in 0..(L - 1) /\ apart \in 0..(L - 1)
  /\ signature \in [R : 0..(L - 1), S : 0..(L - 1), message : Messages, key : 0..(L - 1)]
                   \cup {None}
  /\ \A x \in DOMAIN hash : hash[x] \in 0..(L - 1)
  /\ ops \in 0..MaxOps

\* ed25519_create_keypair: the clamped scalar is a multiple of 8 with its top bit set.
Clamped(n) == 64 + 8 * n
ScalarMultBase(n) == n % L
SigningInit ==
  /\ \E n \in 0..7 : scalar = Clamped(n)
  /\ prefix = <<>> /\ public = ScalarMultBase(scalar) /\ apart = public
  /\ signature = None /\ hash = <<>> /\ ops = 0

\* The hash of x, chosen when it is first asked for.
Hashed(x, value, table) == IF x \in DOMAIN table THEN value = table[x] ELSE TRUE
Remember(x, value, table) ==
  [y \in DOMAIN table \cup {x} |-> IF y = x THEN value ELSE table[y]]

-----------------------------------------------------------------------------
ScMuladd(a, b, c) == (a * b + c) % L

Sign(message) ==
  /\ ops < MaxOps /\ ops' = ops + 1
  /\ \E r, hram \in 0..(L - 1) :
       LET nonce == <<"prefix", prefix, message>>
           R == ScalarMultBase(r)
           challenge == <<"hram", <<R, public>>, message>>
           asked == Remember(nonce, r, hash)
       IN  /\ Hashed(nonce, r, hash) /\ Hashed(challenge, hram, asked)
           /\ hash' = Remember(challenge, hram, asked)
           /\ signature' = [R |-> R, S |-> ScMuladd(hram, scalar, r), message |-> message,
                            key |-> public]
  /\ UNCHANGED <<scalar, prefix, public, apart>>

\* ed25519_verify: R is what S B - h A comes to. The challenge was hashed when signing.
Verify(sig, message, key) ==
  LET challenge == <<"hram", <<sig.R, key>>, message>>
  IN  challenge \in DOMAIN hash
      /\ (hash[challenge] * (L - key) + sig.S) % L = sig.R

\* ed25519_add_scalar on the pair; by itself on the copy.
AddScalar(n) ==
  /\ ops < MaxOps /\ ops' = ops + 1
  /\ scalar' = ScMuladd(1, n, scalar)
  /\ prefix' = Append(prefix, n)
  /\ public' = ScalarMultBase(scalar')
  /\ apart' = (ScalarMultBase(n) + apart) % L
  /\ UNCHANGED <<signature, hash>>

SigningNext ==
  \/ \E message \in Messages : Sign(message)
  \/ \E n \in AddedScalars : AddScalar(n)

SigningSpec == SigningInit /\ [][SigningNext]_signVars

-----------------------------------------------------------------------------
(* Properties.                                                             *)

\* add_scalar.c:42, :57, verify.c:50: however often a scalar was added, to both keys or
\* to the public key by itself, the keys stay a pair, the copy stays their
\* public key, and what was signed is accepted under the key it was signed with.
SignedIsVerified ==
  /\ public = ScalarMultBase(scalar) /\ apart = public
  /\ signature # None => Verify(signature, signature.message, signature.key)
=============================================================================
