---------------------------- MODULE FieldElement ----------------------------
(***************************************************************************)
(* Field arithmetic (components/ed25519_lib/src/fe.c) modulo 2^255 - 19,   *)
(* on ten limbs h0..h9 of weights 2^0, 2^26, 2^51, 2^77, ...  The same     *)
(* operations are interpreted three times: over what a limb's magnitude    *)
(* can be, over a small field with a square root of -1 and the residue of  *)
(* the real modulus, and, where no product is taken, on the limbs.         *)
(***************************************************************************)
EXTENDS Integers, Sequences
LOCAL INSTANCE SequencesExt
LOCAL INSTANCE FiniteSetsExt

CONSTANT P           \* the small field's order

ASSUME PAssumption == P \in Nat /\ P % 8 = 5

Limbs == 0..9
Odd(i) == i % 2 = 1
Width(i) == IF Odd(i) THEN 25 ELSE 26
Weight(i) == (51 * i + 1) \div 2        \* of limb i: 2^Weight(i)
Shift(x, n) == x \div 2^n               \* C's >>, rounding down

-----------------------------------------------------------------------------
(* A magnitude <<m, e>> stands for m * 2^e, rounded up to 15 bits.         *)

Halved(m, n) == IF n > 15 THEN (IF m = 0 THEN 0 ELSE 1) ELSE (m + 2^n - 1) \div 2^n
Mag(m, e) ==
  LET k == CHOOSE k \in 0..15 : m < 2^(15 + k) /\ (k = 0 \/ m >= 2^(14 + k))
  IN  <<Halved(m, k), e + k>>
Align(a, e) == Halved(a[1], e - a[2])
Plus(a, b) == LET e == Max({a[2], b[2]}) IN Mag(Align(a, e) + Align(b, e), e)
Times(a, b) == Mag(a[1] * b[1], a[2] + b[2])
Leq(a, b) ==
  IF a[2] >= b[2] THEN a[1] = 0 \/ (a[2] - b[2] <= 15 /\ a[1] * 2^(a[2] - b[2]) <= b[1])
  ELSE b[2] - a[2] > 15 \/ a[1] <= b[1] * 2^(b[2] - a[2])
Word(bits) == <<2^14, bits - 15>>       \* 2^(bits - 1), the end of a signed word
Fits(a, bits) == ~Leq(Word(bits), a)

\* Limbs at factor * 2^26 and factor * 2^25 in turn; factors in 2^-14.
Even26(factor) == [i \in Limbs |-> Mag(factor, IF Odd(i) THEN 11 ELSE 12)]
Contract165 == Even26(27034)            \* 1.65 * 2^26, 1.65 * 2^25, ...
Contract110 == Even26(18023)            \* 1.1 * 2^26, 1.1 * 2^25, ...
Reduced110 == Even26(9011)              \* 1.1 * 2^25, 1.1 * 2^24, ...
Reduced101 == Even26(8273)              \* 1.01 * 2^25, 1.01 * 2^24, ...
Within(f, contract) == \A i \in Limbs : Leq(f[i], contract[i])
Sum(S) == FoldSet(Plus, <<0, 0>>, S)

-----------------------------------------------------------------------------
(* Products: f_i g_j lands in h_k, k = i + j mod 10, doubled when both     *)
(* weights were rounded up and times 19 when it wraps past 2^255.          *)

MulFactor(i, j) == (IF Odd(i) /\ Odd(j) THEN 2 ELSE 1) * (IF i + j >= 10 THEN 19 ELSE 1)
MulTerms(k) == {<<i, (k - i) % 10>> : i \in Limbs}

\* fe_sq names each pair once, i <= j.
SqFactor(i, j) == (IF i = j THEN 1 ELSE 2) * MulFactor(i, j)
SqTerms(k) == {t \in MulTerms(k) : t[1] <= t[2]}

Small(n) == <<n, 0>>
Products(f, g, terms(_), factor(_, _)) ==
  [k \in Limbs |->
     FoldSet(LAMBDA t, s : Plus(s, Times(Small(factor(t[1], t[2])), Times(f[t[1]], g[t[2]]))),
             Small(0), terms(k))]

\* What is multiplied before the 64-bit products: 2 f_i (i odd) and 19 g_j in
\* fe_mul; 2 f_i, 19 f_j and, for odd j, 38 f_j in fe_sq.
MulOperands(f, g) == {Times(Small(2), f[i]) : i \in {i \in Limbs : Odd(i)}}
                     \cup {Times(Small(19), g[j]) : j \in 1..9}
SqOperands(f) == {Times(Small(2), f[i]) : i \in 0..7}
                 \cup {Times(Small(IF Odd(j) THEN 38 ELSE 19), f[j]) : j \in 5..9}

-----------------------------------------------------------------------------
(* Carries: limb i keeps at most half of its width and hands the rest on;  *)
(* limb 9 to limb 0, times 19.                                             *)

CarryOut(a, i) == Plus(<<a[1], a[2] - Width(i)>>, Small(1))
Carry(h, i) ==
  LET out == CarryOut(h[i], i)
      next == (i + 1) % 10
  IN  [h EXCEPT ![i] = <<2^14, Width(i) - 15>>,
                ![next] = Plus(@, IF i = 9 THEN Times(Small(19), out) ELSE out)]

\* Mutant: the second carries out of limbs 4, 9 and 0 are left out.
MulCarriesOnce == <<0, 4, 1, 5, 2, 6, 3, 7, 8, 9>>

MulCarries == <<0, 4, 1, 5, 2, 6, 3, 7, 4, 8, 9, 0>>
LoadCarries == <<9, 1, 3, 5, 7, 0, 2, 4, 6, 8>>
Carried(h, order) == FoldLeft(Carry, h, order)

\* Every sum and every carry stays inside 64 bits: two bits to spare at the start
\* leave room for what the carries add.
MulFits(f, g) ==
  LET h == Products(f, g, MulTerms, MulFactor)
  IN  /\ \A a \in MulOperands(f, g) : Fits(a, 32)
      /\ \A k \in Limbs : Fits(h[k], 62)
      /\ Within(Carried(h, MulCarries), Reduced101)
SqFits(f) ==
  LET h == Products(f, f, SqTerms, SqFactor)
  IN  /\ \A a \in SqOperands(f) : Fits(a, 32)
      /\ \A k \in Limbs : Fits(h[k], 62)
      /\ Within(Carried(h, MulCarries), Reduced101)
Sq2Fits(f) ==
  LET h == Products(f, f, SqTerms, SqFactor)
      twice == [k \in Limbs |-> Plus(h[k], h[k])]
  IN  /\ \A k \in Limbs : Fits(twice[k], 63)
      /\ Within(Carried(twice, MulCarries), Reduced101)
Mul121666Fits(f) ==
  LET h == [k \in Limbs |-> Times(Mag(121666, 0), f[k])]
  IN  /\ \A k \in Limbs : Fits(h[k], 62)
      /\ Within(Carried(h, LoadCarries), Reduced110)

-----------------------------------------------------------------------------
(* Bytes. Limb i is loaded from Bytes(i) bytes at LoadAt(i), shifted left; *)
(* the top bit of the last byte is dropped.                                *)

LoadAt == <<0, 4, 7, 10, 13, 16, 20, 23, 26, 29>>
LoadShift == <<0, 6, 5, 3, 2, 0, 7, 5, 4, 2>>
LoadBytes(i) == IF i \in {0, 5} THEN 4 ELSE 3
LoadBits(i) == IF i = 9 THEN 23 ELSE 8 * LoadBytes(i)
\* The bits of the 255-bit number that limb i holds: those of its bytes, when
\* the shift makes up for the limb's weight.
LoadedBits(i) ==
  LET first == Weight(i) + LoadShift[i + 1]
  IN  IF first = 8 * LoadAt[i + 1] THEN first..(first + LoadBits(i) - 1) ELSE {}
FromBytesFits ==
  /\ UNION {LoadedBits(i) : i \in Limbs} = 0..254
  /\ \A i, j \in Limbs : i # j => LoadedBits(i) \cap LoadedBits(j) = {}
  /\ LET h == [i \in Limbs |-> <<2^14, LoadBits(i) + LoadShift[i + 1] - 14>>]
     IN  Within(Carried(h, LoadCarries), Reduced110)

\* fe_tobytes: q = floor(h / p) from one pass of carries, then h - q p.
Quotient(h) ==
  FoldLeft(LAMBDA q, i : Shift(h[i] + q, Width(i)), Shift(19 * h[9] + 2^24, 25),
           [n \in 1..10 |-> n - 1])
PlainCarry(h, i) ==
  LET out == Shift(h[i], Width(i))
      kept == [h EXCEPT ![i] = @ - out * 2^Width(i)]
  IN  IF i = 9 THEN kept ELSE [kept EXCEPT ![i + 1] = @ + out]
ToBytes(h) ==
  FoldLeft(PlainCarry, [h EXCEPT ![0] = @ + 19 * Quotient(h)], [n \in 1..10 |-> n - 1])

\* fe_isnegative and fe_isnonzero go through the bytes.
FeIsNegativeLimbs(h) == ToBytes(h)[0] % 2
FeIsNonzeroLimbs(h) == \E i \in Limbs : ToBytes(h)[i] # 0

\* The modulus' own limbs, and what tells a number of h's limbs from another.
Modulus == [i \in Limbs |-> IF i = 0 THEN 2^26 - 19 ELSE 2^Width(i) - 1]
\* The limbs stand for 0: carrying upwards leaves nothing.
IsNought(h) ==
  LET up[i \in 0..10] == IF i = 0 THEN 0 ELSE Shift(h[i - 1] + up[i - 1], Width(i - 1))
  IN  up[10] = 0 /\ \A i \in Limbs : (h[i] + up[i]) % 2^Width(i) = 0
Canonical(h) ==
  /\ \A i \in Limbs : h[i] \in 0..(2^Width(i) - 1)
  /\ \E i \in Limbs : h[i] < Modulus[i]

-----------------------------------------------------------------------------
(* Addition chains. A step squares a register n times or multiplies two;   *)
(* an exponent is the set of its binary digits.                            *)

Sq(dst, src, n) == [dst |-> dst, op |-> "sq", a |-> src, b |-> src, n |-> n]
Mul(dst, a, b) == [dst |-> dst, op |-> "mul", a |-> a, b |-> b, n |-> 0]

InvertChain ==
  <<Sq("t0", "z", 1), Sq("t1", "t0", 2), Mul("t1", "z", "t1"), Mul("t0", "t0", "t1"),
    Sq("t2", "t0", 1), Mul("t1", "t1", "t2"), Sq("t2", "t1", 5), Mul("t1", "t2", "t1"),
    Sq("t2", "t1", 10), Mul("t2", "t2", "t1"), Sq("t3", "t2", 20), Mul("t2", "t3", "t2"),
    Sq("t2", "t2", 10), Mul("t1", "t2", "t1"), Sq("t2", "t1", 50), Mul("t2", "t2", "t1"),
    Sq("t3", "t2", 100), Mul("t2", "t3", "t2"), Sq("t2", "t2", 50), Mul("t1", "t2", "t1"),
    Sq("t1", "t1", 5), Mul("out", "t1", "t0")>>
Pow22523Chain ==
  <<Sq("t0", "z", 1), Sq("t1", "t0", 2), Mul("t1", "z", "t1"), Mul("t0", "t0", "t1"),
    Sq("t0", "t0", 1), Mul("t0", "t1", "t0"), Sq("t1", "t0", 5), Mul("t0", "t1", "t0"),
    Sq("t1", "t0", 10), Mul("t1", "t1", "t0"), Sq("t2", "t1", 20), Mul("t1", "t2", "t1"),
    Sq("t1", "t1", 10), Mul("t0", "t1", "t0"), Sq("t1", "t0", 50), Mul("t1", "t1", "t0"),
    Sq("t2", "t1", 100), Mul("t1", "t2", "t1"), Sq("t1", "t1", 50), Mul("t0", "t1", "t0"),
    Sq("t0", "t0", 2), Mul("out", "t0", "z")>>

\* Digits never meet in these chains, so a product's are the union; -1 marks
\* a product where they do.
ChainStep(e, s) ==
  IF s.op = "sq" THEN [e EXCEPT ![s.dst] = {k + s.n : k \in e[s.a]}]
  ELSE [e EXCEPT ![s.dst] = IF e[s.a] \cap e[s.b] = {} THEN e[s.a] \cup e[s.b] ELSE {-1}]
Exponent(chain) ==
  FoldLeft(ChainStep, [r \in {"t0", "t1", "t2", "t3", "out", "z"} |-> IF r = "z" THEN {0} ELSE {}],
           chain)["out"]

-----------------------------------------------------------------------------
(* The same operations on values, in the small field.                      *)

Fe0 == 0
Fe1 == 1
FeAdd(f, g) == (f + g) % P
FeSub(f, g) == (f - g) % P
FeNeg(f) == (-f) % P
FeMul(f, g) == (f * g) % P
FeSq(f) == (f * f) % P
FeSq2(f) == (2 * f * f) % P
FeCopy(f) == f
FeCmov(f, g, b) == IF b = 1 THEN g ELSE f
FeCswap(f, g, b) == IF b = 1 THEN <<g, f>> ELSE <<f, g>>
FeIsNegative(f) == f % 2
FeIsNonzero(f) == f # 0
RaisedTo(f, n) == FoldLeft(LAMBDA x, k : (x * f) % P, 1, [k \in 1..n |-> k])
InverseOf == [f \in 0..(P - 1) |-> RaisedTo(f, P - 2)]
FeInvert(f) == InverseOf[f]
FePow22523(f) == RaisedTo(f, (P - 5) \div 8)
=============================================================================
