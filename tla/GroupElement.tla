---------------------------- MODULE GroupElement ----------------------------
(***************************************************************************)
(* Points of the curve -x^2 + y^2 = 1 + d x^2 y^2 (ed25519_lib/src/ge.c):  *)
(* the formulas as the code's sequences of field operations, interpreted   *)
(* over a small field and over limb magnitudes, and the two scalar         *)
(* multiplications as machines that do one round of their loops per step.  *)
(***************************************************************************)
EXTENDS FieldElement
LOCAL INSTANCE SequencesExt
LOCAL INSTANCE FiniteSets

CONSTANTS
  D,                   \* d: not a square
  SqrtM1,              \* a square root of -1
  Base,                \* B, as <<x, y>>
  Nibbles,             \* digits of ge_scalarmult_base: 64 in the code
  ScalarBits,          \* digits of slide: 256 in the code
  Multipliers,         \* scalars given to them
  Zs,              \* Z coordinates points are given with
  DoubleXs,            \* the x coordinates of the points A in a A + b B
  ExchangeKeys         \* private keys given to the key exchange

ASSUME CurveAssumption ==
  /\ D \in 1..(P - 1) /\ \A x \in 0..(P - 1) : (x * x) % P # D
  /\ (SqrtM1 * SqrtM1) % P = P - 1
  /\ Zs \subseteq 1..(P - 1) /\ Nibbles \in Nat /\ Nibbles % 2 = 0

VARIABLE job           \* a conversion, or a multiplication under way
groupVars == <<job>>

D2 == (2 * D) % P

-----------------------------------------------------------------------------
(* Formulas: steps <<dst, op, a, b>> over registers. p and q are the       *)
(* operands, r the result; b repeats a where an operation takes one.       *)

GeAdd ==
  <<<<"rX", "add", "pY", "pX">>, <<"rY", "sub", "pY", "pX">>, <<"rZ", "mul", "rX", "qP">>,
    <<"rY", "mul", "rY", "qM">>, <<"rT", "mul", "qT", "pT">>, <<"rX", "mul", "pZ", "qZ">>,
    <<"t0", "add", "rX", "rX">>, <<"rX", "sub", "rZ", "rY">>, <<"rY", "add", "rZ", "rY">>,
    <<"rZ", "add", "t0", "rT">>, <<"rT", "sub", "t0", "rT">>>>
GeSub ==
  <<<<"rX", "add", "pY", "pX">>, <<"rY", "sub", "pY", "pX">>, <<"rZ", "mul", "rX", "qM">>,
    <<"rY", "mul", "rY", "qP">>, <<"rT", "mul", "qT", "pT">>, <<"rX", "mul", "pZ", "qZ">>,
    <<"t0", "add", "rX", "rX">>, <<"rX", "sub", "rZ", "rY">>, <<"rY", "add", "rZ", "rY">>,
    <<"rZ", "sub", "t0", "rT">>, <<"rT", "add", "t0", "rT">>>>
GeMadd ==
  <<<<"rX", "add", "pY", "pX">>, <<"rY", "sub", "pY", "pX">>, <<"rZ", "mul", "rX", "qP">>,
    <<"rY", "mul", "rY", "qM">>, <<"rT", "mul", "qT", "pT">>, <<"t0", "add", "pZ", "pZ">>,
    <<"rX", "sub", "rZ", "rY">>, <<"rY", "add", "rZ", "rY">>, <<"rZ", "add", "t0", "rT">>,
    <<"rT", "sub", "t0", "rT">>>>
GeMsub ==
  <<<<"rX", "add", "pY", "pX">>, <<"rY", "sub", "pY", "pX">>, <<"rZ", "mul", "rX", "qM">>,
    <<"rY", "mul", "rY", "qP">>, <<"rT", "mul", "qT", "pT">>, <<"t0", "add", "pZ", "pZ">>,
    <<"rX", "sub", "rZ", "rY">>, <<"rY", "add", "rZ", "rY">>, <<"rZ", "sub", "t0", "rT">>,
    <<"rT", "add", "t0", "rT">>>>
GeP2Dbl ==
  <<<<"rX", "sq", "pX", "pX">>, <<"rZ", "sq", "pY", "pY">>, <<"rT", "sq2", "pZ", "pZ">>,
    <<"rY", "add", "pX", "pY">>, <<"t0", "sq", "rY", "rY">>, <<"rY", "add", "rZ", "rX">>,
    <<"rZ", "sub", "rZ", "rX">>, <<"rX", "sub", "t0", "rY">>, <<"rT", "sub", "rT", "rZ">>>>
GeP1p1ToP2 ==
  <<<<"rX", "mul", "pX", "pT">>, <<"rY", "mul", "pY", "pZ">>, <<"rZ", "mul", "pZ", "pT">>>>
GeP1p1ToP3 == Append(GeP1p1ToP2, <<"rT", "mul", "pX", "pY">>)
GeP3ToCached ==
  <<<<"rP", "add", "pY", "pX">>, <<"rM", "sub", "pY", "pX">>, <<"rZ", "copy", "pZ", "pZ">>,
    <<"rT", "mul", "pT", "d2">>>>

\* Results are told apart by their names, r; a cached point's YplusX, YminusX and
\* T2d, and a precomputed one's yplusx, yminusx and xy2d, are P, M and T.
Run(formula, regs, Op(_, _, _)) ==
  FoldLeft(LAMBDA r, s : [r EXCEPT ![s[1]] = Op(s[2], r[s[3]], r[s[4]])], regs, formula)

Values(op, f, g) ==
  CASE op = "add" -> FeAdd(f, g) [] op = "sub" -> FeSub(f, g) [] op = "mul" -> FeMul(f, g)
    [] op = "sq" -> FeSq(f) [] op = "sq2" -> FeSq2(f) [] op = "neg" -> FeNeg(f)
    [] op = "copy" -> FeCopy(f)

\* A magnitude in thousandths of 2^26, 2^25, ... Products take what fe_mul takes.
TooLarge == 2^20
Magnitudes(op, f, g) ==
  CASE op \in {"add", "sub"} -> f + g
    [] op \in {"mul", "sq", "sq2"} -> IF f <= 1650 /\ g <= 1650 THEN 505 ELSE TooLarge
    [] op = "mul121666" -> IF f <= 1100 THEN 550 ELSE TooLarge
    [] OTHER -> f

Registers(p, q) ==
  [r \in {"pX", "pY", "pZ", "pT", "qP", "qM", "qZ", "qT", "rX", "rY", "rZ", "rT", "rP", "rM",
          "t0", "d2"} |->
     CASE r = "pX" -> p.X [] r = "pY" -> p.Y [] r = "pZ" -> p.Z [] r = "pT" -> p.T
       [] r = "qP" -> q.P [] r = "qM" -> q.M [] r = "qZ" -> q.Z [] r = "qT" -> q.T
       [] r = "d2" -> D2 [] OTHER -> 0]
Point(r) == [X |-> r["rX"], Y |-> r["rY"], Z |-> r["rZ"], T |-> r["rT"]]
CachedPoint(r) == [P |-> r["rP"], M |-> r["rM"], Z |-> r["rZ"], T |-> r["rT"]]
NoPoint == [P |-> 0, M |-> 0, Z |-> 0, T |-> 0]
Apply(formula, p, q) == Point(Run(formula, Registers(p, q), Values))

ToP2(p) == Apply(GeP1p1ToP2, p, NoPoint)
ToP3(p) == Apply(GeP1p1ToP3, p, NoPoint)
ToCached(p) == CachedPoint(Run(GeP3ToCached, Registers(p, NoPoint), Values))
Dbl(p) == Apply(GeP2Dbl, p, NoPoint)
GeP20 == [X |-> Fe0, Y |-> Fe1, Z |-> Fe1, T |-> Fe0]
GeP30 == [X |-> Fe0, Y |-> Fe1, Z |-> Fe1, T |-> Fe0]
\* ge_p3_to_p2 drops T.
GeP3Dbl(p) == Dbl([p EXCEPT !.T = 0])

-----------------------------------------------------------------------------
(* The reference: the curve's addition law on <<x, y>>.                    *)

OnCurve(a) == (a[2] * a[2] - a[1] * a[1] - 1 - (D * a[1] * a[1] * a[2] * a[2])) % P = 0
Curve == {a \in (0..(P - 1)) \X (0..(P - 1)) : OnCurve(a)}
Neutral == <<0, 1>>
Law(a, b) ==
  LET k == (D * ((a[1] * b[1] * a[2] * b[2]) % P)) % P
  IN  <<((a[1] * b[2] + b[1] * a[2]) * FeInvert((1 + k) % P)) % P,
        ((a[2] * b[2] + a[1] * b[1]) * FeInvert((1 - k) % P)) % P>>
Minus(a) == <<FeNeg(a[1]), a[2]>>
\* The multiples of each point, as many as the curve has points.
MultiplesOf ==
  [a \in Curve |-> FoldLeft(LAMBDA m, k : Append(m, Law(m[Len(m)], a)), <<Neutral>>,
                            [k \in 1..(Cardinality(Curve) - 1) |-> k])]
Scalar(n, a) == MultiplesOf[a][(n % Cardinality(Curve)) + 1]

Affine(p) == <<FeMul(p.X, FeInvert(p.Z)), FeMul(p.Y, FeInvert(p.Z))>>
Projective(a, z) ==
  [X |-> FeMul(a[1], z), Y |-> FeMul(a[2], z), Z |-> z,
   T |-> FeMul(FeMul(a[1], a[2]), z)]
\* An entry of Bi or base[pos]: (y + x, y - x, 2dxy).
Precomputed(a) ==
  [P |-> FeAdd(a[2], a[1]), M |-> FeSub(a[2], a[1]), Z |-> 0,
   T |-> FeMul(FeMul(a[1], a[2]), D2)]

-----------------------------------------------------------------------------
(* ge_frombytes_negate_vartime and the ways back to bytes. A point's bytes *)
(* are <<y, sign>>.                                                        *)

RootFormula ==
  <<<<"u", "sq", "y", "y">>, <<"v", "mul", "u", "d">>, <<"u", "sub", "u", "one">>,
    <<"v", "add", "v", "one">>, <<"v3", "sq", "v", "v">>, <<"v3", "mul", "v3", "v">>,
    <<"x", "sq", "v3", "v3">>, <<"x", "mul", "x", "v">>, <<"x", "mul", "x", "u">>,
    <<"x", "pow", "x", "x">>, <<"x", "mul", "x", "v3">>, <<"x", "mul", "x", "u">>,
    <<"vxx", "sq", "x", "x">>, <<"vxx", "mul", "vxx", "v">>, <<"minus", "sub", "vxx", "u">>,
    <<"plus", "add", "vxx", "u">>>>
RootRegisters(y, one, d) ==
  [r \in {"u", "v", "v3", "x", "vxx", "minus", "plus", "y", "one", "d"} |->
     CASE r = "y" -> y [] r = "one" -> one [] r = "d" -> d [] OTHER -> 0]
Rooted(op, f, g) == IF op = "pow" THEN FePow22523(f) ELSE Values(op, f, g)

\* No root, no point; a root whose sign is the one asked for is turned round.
FromBytesNegate(bytes) ==
  LET r == Run(RootFormula, RootRegisters(bytes[1], Fe1, D), Rooted)
      x == IF FeIsNonzero(r["minus"]) THEN FeMul(r["x"], SqrtM1) ELSE r["x"]
  IN  IF FeIsNonzero(r["minus"]) /\ FeIsNonzero(r["plus"]) THEN {}
      ELSE {<<IF FeIsNegative(x) = bytes[2] THEN FeNeg(x) ELSE x, bytes[1]>>}
GeToBytes(p) ==
  LET recip == FeInvert(p.Z)
  IN  <<FeMul(p.Y, recip), FeIsNegative(FeMul(p.X, recip))>>

-----------------------------------------------------------------------------
(* slide: digits that are 0 or odd, at most 15.                            *)

Bit(a, i) == (a \div 2^i) % 2
\* Mutant: a digit made negative carries into the next one instead of the next zero.
MergeNoBorrow(s, i, b) ==
  LET r == s.r
      v == r[i + b] * 2^b
  IN  CASE s.stop \/ i + b >= ScalarBits -> s
        [] ~s.stop /\ i + b < ScalarBits /\ v = 0 -> s
        [] ~s.stop /\ i + b < ScalarBits /\ v # 0 /\ r[i] + v <= 15 ->
             [s EXCEPT !.r = [r EXCEPT ![i] = @ + v, ![i + b] = 0]]
        [] ~s.stop /\ i + b < ScalarBits /\ v # 0 /\ r[i] + v > 15 /\ r[i] - v >= -15 ->
             [s EXCEPT !.r = [r EXCEPT ![i] = @ - v, ![i + b] = 1]]
        [] OTHER -> [s EXCEPT !.stop = TRUE]

Merge(s, i, b) ==
  LET r == s.r
      v == r[i + b] * 2^b
      free == {k \in (i + b)..(ScalarBits - 1) : r[k] = 0}
      first == IF free = {} THEN ScalarBits ELSE CHOOSE k \in free : \A n \in free : k <= n
  IN  CASE s.stop \/ i + b >= ScalarBits -> s
        [] ~s.stop /\ i + b < ScalarBits /\ v = 0 -> s
        [] ~s.stop /\ i + b < ScalarBits /\ v # 0 /\ r[i] + v <= 15 ->
             [s EXCEPT !.r = [r EXCEPT ![i] = @ + v, ![i + b] = 0]]
        [] ~s.stop /\ i + b < ScalarBits /\ v # 0 /\ r[i] + v > 15 /\ r[i] - v >= -15 ->
             [s EXCEPT !.r = [k \in DOMAIN r |->
                                CASE k = i -> r[i] - v [] k = first -> 1
                                  [] k \in (i + b)..(first - 1) -> 0 [] OTHER -> r[k]]]
        [] OTHER -> [s EXCEPT !.stop = TRUE]
Slide(a) ==
  FoldLeft(LAMBDA r, i : IF r[i] = 0 THEN r
                         ELSE FoldLeft(LAMBDA s, b : Merge(s, i, b), [r |-> r, stop |-> FALSE],
                                       <<1, 2, 3, 4, 5, 6>>).r,
           [i \in 0..(ScalarBits - 1) |-> Bit(a, i)], [n \in 1..ScalarBits |-> n - 1])

\* The radix-16 digits of ge_scalarmult_base, between -8 and 8.
Digits(a) ==
  LET nibble(i) == (a \div 16^i) % 16
      carry[i \in 0..(Nibbles - 1)] ==
        IF i = 0 THEN 0 ELSE (nibble(i - 1) + carry[i - 1] + 8) \div 16
  IN  [i \in 0..(Nibbles - 1) |->
         nibble(i) + carry[i]
           - (IF i < Nibbles - 1 THEN 16 * carry[i + 1] ELSE 0)]

-----------------------------------------------------------------------------
(* ge_double_scalarmult_vartime: a A + b B, one digit a step.              *)

OddMultiples(A) ==
  LET twice == ToP3(GeP3Dbl(A))
  IN  FoldLeft(LAMBDA m, k : Append(m, ToCached(ToP3(Apply(GeAdd, twice, m[k])))),
               <<ToCached(A)>>, <<1, 2, 3, 4, 5, 6, 7>>)
Bi(k) == Precomputed(Scalar(2 * k + 1, Base))

DoubleStart(a, b, A, z) ==
  LET as == Slide(a)
      bs == Slide(b)
      used == {i \in 0..(ScalarBits - 1) : as[i] # 0 \/ bs[i] # 0}
  IN  [what |-> "double", a |-> a, b |-> b, A |-> A, as |-> as, bs |-> bs, r |-> GeP20,
       Ai |-> OddMultiples(Projective(A, z)),
       i |-> IF used = {} THEN -1 ELSE CHOOSE i \in used : \A k \in used : k <= i]

DoubleRound ==
  /\ job.what = "double" /\ job.i >= 0
  /\ LET da == job.as[job.i]
         db == job.bs[job.i]
         t == Dbl(job.r)
         ta == CASE da > 0 -> Apply(GeAdd, ToP3(t), job.Ai[(da \div 2) + 1])
                 [] da < 0 -> Apply(GeSub, ToP3(t), job.Ai[((-da) \div 2) + 1])
                 [] da = 0 -> t
         tb == CASE db > 0 -> Apply(GeMadd, ToP3(ta), Bi(db \div 2))
                 [] db < 0 -> Apply(GeMsub, ToP3(ta), Bi((-db) \div 2))
                 [] db = 0 -> ta
     IN  job' = [job EXCEPT !.r = ToP2(tb), !.i = @ - 1]

-----------------------------------------------------------------------------
(* ge_scalarmult_base: the odd digits, times 16, the even digits.          *)

\* base[pos][k - 1] is k 256^pos B; cmov picks |b|'s, then its negative's.
Select(pos, b) ==
  LET negative == IF b < 0 THEN 1 ELSE 0
      babs == b - 2 * negative * b
      t == FoldLeft(LAMBDA u, k : IF babs = k THEN Precomputed(Scalar(k * 256^pos, Base)) ELSE u,
                    [P |-> Fe1, M |-> Fe1, Z |-> 0, T |-> Fe0], <<1, 2, 3, 4, 5, 6, 7, 8>>)
      minust == [P |-> t.M, M |-> t.P, Z |-> 0, T |-> FeNeg(t.T)]
  IN  [c \in {"P", "M", "Z", "T"} |-> FeCmov(t[c], minust[c], negative)]

BaseStart(a) == [what |-> "base", a |-> a, e |-> Digits(a), i |-> 1, h |-> GeP30]

BaseDigit ==
  /\ job.what = "base" /\ job.i < Nibbles
  /\ LET t == Select(job.i \div 2, job.e[job.i])
     IN  job' = [job EXCEPT !.h = ToP3(Apply(GeMadd, job.h, t)), !.i = @ + 2]

BaseSixteen ==
  /\ job.what = "base" /\ job.i = Nibbles + 1
  /\ job' = [job EXCEPT !.i = 0,
               !.h = ToP3(Dbl(ToP2(Dbl(ToP2(Dbl(ToP2(GeP3Dbl(job.h))))))))]

-----------------------------------------------------------------------------
(* ed25519_key_exchange: Montgomery's ladder on u = (1 + y) / (1 - y), one *)
(* bit a step; both halves are swapped when a bit differs from the last.   *)

A24 == FeInvert((1 + D) % P)           \* 121666
LadderFormula ==
  <<<<"t0", "sub", "x3", "z3">>, <<"t1", "sub", "x2", "z2">>, <<"x2", "add", "x2", "z2">>,
    <<"z2", "add", "x3", "z3">>, <<"z3", "mul", "t0", "x2">>, <<"z2", "mul", "z2", "t1">>,
    <<"t0", "sq", "t1", "t1">>, <<"t1", "sq", "x2", "x2">>, <<"x3", "add", "z3", "z2">>,
    <<"z2", "sub", "z3", "z2">>, <<"x2", "mul", "t1", "t0">>, <<"t1", "sub", "t1", "t0">>,
    <<"z2", "sq", "z2", "z2">>, <<"z3", "mul121666", "t1", "t1">>, <<"x3", "sq", "x3", "x3">>,
    <<"t0", "add", "t0", "z3">>, <<"z3", "mul", "x1", "z2">>, <<"z2", "mul", "t1", "t0">>>>
LadderRegisters == {"x1", "x2", "z2", "x3", "z3", "t0", "t1"}
LadderValues(op, f, g) == IF op = "mul121666" THEN FeMul(f, A24) ELSE Values(op, f, g)

Montgomery(y) == FeMul(FeAdd(y, Fe1), FeInvert(FeSub(Fe1, y)))
ExchangeBits == 8
Clamp8(n) == (((n \div 8) * 8) % 2^(ExchangeBits - 2)) + 2^(ExchangeBits - 2)

ExchangeStart(A, key) ==
  LET x1 == Montgomery(A[2])
  IN  [what |-> "exchange", A |-> A, e |-> Clamp8(key), i |-> ExchangeBits - 1, swap |-> 0,
       regs |-> [r \in LadderRegisters |->
                   CASE r \in {"x1", "x3"} -> x1 [] r \in {"x2", "z3"} -> Fe1
                     [] OTHER -> Fe0]]

Swapped(regs, b) ==
  LET x == FeCswap(regs["x2"], regs["x3"], b)
      z == FeCswap(regs["z2"], regs["z3"], b)
  IN  [regs EXCEPT !["x2"] = x[1], !["x3"] = x[2], !["z2"] = z[1], !["z3"] = z[2]]

LadderStep ==
  /\ job.what = "exchange" /\ job.i >= 0
  /\ LET b == Bit(job.e, job.i)
         turn == IF b = job.swap THEN 0 ELSE 1
     IN  job' = [job EXCEPT !.regs = Run(LadderFormula, Swapped(@, turn), LadderValues),
                            !.swap = b, !.i = @ - 1]

SharedSecret ==
  LET last == Swapped(job.regs, job.swap) IN FeMul(last["x2"], FeInvert(last["z2"]))

-----------------------------------------------------------------------------
(* One-step cases: an addition, a doubling, a conversion from bytes and    *)
(* fe_tobytes at the ends of its limbs.                                    *)

Extreme(a, b, c) ==
  [i \in Limbs |-> CASE i = 0 -> a [] i = 9 -> c [] OTHER -> IF Odd(i) THEN b \div 2 ELSE b]
LimbEnds ==
  {Extreme(a, b, c) : a \in {-73819750, -19, -1, 0, 18, 19, 67108844, 67108845, 73819750},
                      b \in {-73819750, -1, 0, 67108863, 73819750},
                      c \in {-36909875, -1, 0, 33554430, 33554431, 36909875}}
Formulas == [add |-> GeAdd, sub |-> GeSub, madd |-> GeMadd, msub |-> GeMsub,
             dbl |-> GeP2Dbl, top2 |-> GeP1p1ToP2, top3 |-> GeP1p1ToP3,
             cached |-> GeP3ToCached]

GroupInit ==
  \/ job \in {[what |-> "bytes", h |-> h] : h \in LimbEnds}
             \cup [what : {"formula"}, name : DOMAIN Formulas]
             \cup [what : {"law"}, a : Curve, b : Curve, z : Zs]
             \cup [what : {"root"}, y : 0..(P - 1), sign : 0..1]
             \cup [what : {"limbs"}]
  \/ \E a \in Multipliers : job = BaseStart(a)
  \/ \E a, b \in {n \in Multipliers : n < 2^(ScalarBits - 3)}, A \in Curve, z \in Zs :
       A[1] \in DoubleXs /\ job = DoubleStart(a, b, A, z)
  \/ \E A \in Curve, key \in ExchangeKeys : job = ExchangeStart(A, key)

GroupNext == DoubleRound \/ BaseDigit \/ BaseSixteen \/ LadderStep
GroupSpec == GroupInit /\ [][GroupNext]_groupVars

-----------------------------------------------------------------------------
(* Properties.                                                             *)

\* What a formula's registers start with: sums of two products at most, in p's and
\* q's coordinates for p1p1, products otherwise, and the tables' entries.
LargestRegisters(name) ==
  LET coordinate == IF name \in {"top2", "top3"} THEN 1515 ELSE 505
  IN  [r \in {"pX", "pY", "pZ", "pT", "qP", "qM", "qZ", "qT", "rX", "rY", "rZ", "rT", "rP",
              "rM", "t0", "d2"} |->
         CASE r \in {"pX", "pY", "pZ", "pT"} -> coordinate [] r \in {"qP", "qM"} -> 1010
           [] r \in {"qZ", "qT", "d2"} -> 505 [] OTHER -> 0]
InContract(regs) == \A r \in DOMAIN regs : regs[r] < TooLarge

\* fe.c:66, :540: with limbs at the ends of their documented ranges no product, sum or
\* carry leaves its word and the result is as small as documented, and no
\* sequence of operations in ge.c and key_exchange.c hands a multiplication more.
LimbsNeverOverflow ==
  /\ job.what = "limbs" =>
       /\ MulFits(Contract165, Contract165) /\ SqFits(Contract165) /\ Sq2Fits(Contract165)
       /\ Mul121666Fits(Contract110) /\ FromBytesFits
       /\ InContract(Run(LadderFormula, [r \in LadderRegisters |-> 505], Magnitudes))
       /\ InContract(Run(RootFormula, RootRegisters(550, 1, 505),
                         LAMBDA op, f, g : IF op = "pow" THEN Magnitudes("mul", f, f)
                                           ELSE Magnitudes(op, f, g)))
  /\ job.what = "formula" =>
       LET regs == Run(Formulas[job.name], LargestRegisters(job.name), Magnitudes)
       IN  InContract(regs) /\ \A r \in {"rX", "rY", "rZ", "rT"} : regs[r] <= 1515

ChainsExact ==
  /\ Exponent(InvertChain) = (0..254) \ {2, 4}        \* 2^255 - 21
  /\ Exponent(Pow22523Chain) = (0..251) \ {1}         \* 2^252 - 3
  /\ \A i, j \in Limbs :
       2^(Weight(i) + Weight(j) - Weight((i + j) % 10) - (IF i + j >= 10 THEN 255 ELSE 0))
         * (IF i + j >= 10 THEN 19 ELSE 1) = MulFactor(i, j)
BytesExact(h) ==
  LET r == ToBytes(h)
  IN  /\ Canonical(r)
      /\ \E k \in -3..3 : IsNought([i \in Limbs |-> h[i] - r[i] - k * Modulus[i]])
LawExact(a, b, z) ==
  LET p == Projective(a, z)
      q == ToCached(Projective(b, 1))
  IN  /\ Affine(ToP3(Apply(GeAdd, p, q))) = Law(a, b)
      /\ Affine(ToP3(Apply(GeSub, p, q))) = Law(a, Minus(b))
      /\ Affine(ToP3(Apply(GeMadd, p, Precomputed(b)))) = Law(a, b)
      /\ Affine(ToP3(Apply(GeMsub, p, Precomputed(b)))) = Law(a, Minus(b))
      /\ Affine(ToP2(GeP3Dbl(p))) = Law(a, a)
RootExact(y, sign) ==
  LET found == {FromBytesNegate(<<y, sign>>)}
      roots == {a \in Curve : a[2] = y}
  IN  IF roots = {} THEN found = {{}}
      ELSE \E a \in roots : found = {{Minus(a)}} /\ (a[1] # 0 => FeIsNegative(a[1]) = sign)

\* ge.c:67, :386, fe.c:1386, key_exchange.c:46: the loops over recoded digits, the
\* ladder and the conversions compute what the curve's addition law says.
ArithmeticExact ==
  /\ job.what = "limbs" => ChainsExact
  /\ job.what = "bytes" => BytesExact(job.h)
  /\ job.what = "law" => LawExact(job.a, job.b, job.z)
  /\ job.what = "root" => RootExact(job.y, job.sign)
  /\ (job.what = "double" /\ job.i = -1) =>
       Affine(job.r) = Law(Scalar(job.a, job.A), Scalar(job.b, Base))
  /\ (job.what = "base" /\ job.i = Nibbles) => Affine(job.h) = Scalar(job.a, Base)
  /\ (job.what = "exchange" /\ job.i = -1) =>
       SharedSecret = Montgomery(Scalar(job.e, job.A)[2])
=============================================================================
