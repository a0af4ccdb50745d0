-------------------------- MODULE ScalarReduction --------------------------
(***************************************************************************)
(* Scalars modulo L = 2^252 + 27742317777372353535851937790883648493       *)
(* (ed25519_lib/src/sc.c): limbs of 21 bits, folded down by the digits of  *)
(* 2^252 modulo L and carried, the steps as data.                          *)
(***************************************************************************)
EXTENDS FieldElement
LOCAL INSTANCE SequencesExt

VARIABLE reduction   \* a sum under way: its limbs' magnitudes and the steps left

scalarVars == <<reduction>>

FoldDigits == <<666643, 470296, 654183, -997805, 136657, -683901>>
\* L - 2^252 in digits of 21 bits.
OrderDigits == <<1430509, 1626855, 1442968, 997804, 1960495, 683900>>

Fold(k) == [op |-> "fold", k |-> k]
Round(k) == [op |-> "round", k |-> k]        \* carry (s_k + 2^20) >> 21
Floor(k) == [op |-> "floor", k |-> k]        \* carry s_k >> 21
Each(Op(_), from, to, by) ==
  [n \in 1..(((to - from) \div by) + 1) |-> Op(from + (n - 1) * by)]
Downwards(Op(_), from, to) == [n \in 1..(from - to + 1) |-> Op(from + 1 - n)]

ReduceSteps ==
  Downwards(Fold, 23, 18) \o Each(Round, 6, 16, 2) \o Each(Round, 7, 15, 2)
    \o Downwards(Fold, 17, 12) \o Each(Round, 0, 10, 2) \o Each(Round, 1, 11, 2)
    \o <<Fold(12)>> \o Each(Floor, 0, 11, 1) \o <<Fold(12)>> \o Each(Floor, 0, 10, 1)
\* sc_muladd carries its products once more before it goes the same way.
MuladdSteps == Each(Round, 0, 22, 2) \o Each(Round, 1, 21, 2) \o ReduceSteps

Magnitude(n) == Mag(IF n < 0 THEN -n ELSE n, 0)
ScalarStep(s, t) ==
  IF t.op = "fold"
  THEN [k \in 0..23 |->
          CASE k = t.k -> Small(0)
            [] k \in (t.k - 12)..(t.k - 7) ->
                 Plus(s[k], Times(Magnitude(FoldDigits[k - t.k + 13]), s[t.k]))
            [] OTHER -> s[k]]
  ELSE [s EXCEPT ![t.k] = IF t.op = "round" THEN <<2^14, 6>> ELSE <<2^14, 7>>,
                 ![t.k + 1] = Plus(@, Plus(<<s[t.k][1], s[t.k][2] - 21>>, Small(1)))]

\* The limbs of 64 bytes and of 32: 21 bits each, the last whatever is left.
ReduceInput == [k \in 0..23 |-> <<2^14, IF k = 23 THEN 15 ELSE 7>>]
ScalarInput == [k \in 0..11 |-> <<2^14, IF k = 11 THEN 11 ELSE 7>>]
MuladdInput(a, b, c) ==
  [k \in 0..23 |->
     FoldLeft(LAMBDA s, i : IF k - i \in 0..11 THEN Plus(s, Times(a[i], b[k - i])) ELSE s,
              IF k \in 0..11 THEN c[k] ELSE Small(0), [n \in 1..12 |-> n - 1])]

ScalarInit ==
  reduction \in {[s |-> ReduceInput, left |-> ReduceSteps],
                 [s |-> MuladdInput(ScalarInput, ScalarInput, ScalarInput),
                  left |-> MuladdSteps]}
ScalarNext ==
  /\ reduction.left # <<>>
  /\ reduction' = [s |-> ScalarStep(reduction.s, Head(reduction.left)),
                   left |-> Tail(reduction.left)]
ScalarSpec == ScalarInit /\ [][ScalarNext]_scalarVars

-----------------------------------------------------------------------------
(* Properties.                                                             *)

\* What is folded is a multiple of L: the digits of both cancel, carry by carry.
FoldExact ==
  LET up == FoldLeft(LAMBDA c, i : IF c % 2^21 = 0
                                   THEN FoldDigits[i] + OrderDigits[i] + (c \div 2^21) ELSE 1,
                     0, <<1, 2, 3, 4, 5, 6>>)
  IN  up = 0

\* sc.c:35, :362: a fold takes nothing but multiples of L away; in no order of the
\* digits does a limb leave its 64 bits; and twelve limbs remain, the lower eleven of 21
\* bits and the last of 22, which fill the 32 bytes.
ScalarsReduced ==
  /\ FoldExact
  /\ \A k \in 0..23 : Fits(reduction.s[k], 64)
  /\ reduction.left = <<>> =>
       /\ \A k \in 12..23 : reduction.s[k] = Small(0)
       /\ \A k \in 0..10 : Leq(reduction.s[k], <<2^14, 7>>)
       /\ Fits(reduction.s[11], 23)
=============================================================================
