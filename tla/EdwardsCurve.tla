---------------------------- MODULE EdwardsCurve ----------------------------
(***************************************************************************)
(* The functions of crypto-ops.c whose names begin with ge_, over a small  *)
(* field: every formula is that of the code, on the curve                  *)
(* -x^2 + y^2 = 1 + d x^2 y^2 over GF(q) with q = 5 modulo 8, as in the    *)
(* program.                                                                *)
(*                                                                         *)
(* A field element is a record: v is its value, b bounds its limbs, in     *)
(* hundredths of half their width (101 stands for the 1.01*2^25,           *)
(* 1.01*2^24, ... of the comments).  A product overflows when an operand   *)
(* is beyond 1.65*2^26; its limbs are no longer bounded by anything.       *)
(*                                                                         *)
(* A string of 32 bytes offered as a point is a number of YBits + 1 bits:  *)
(* the y-coordinate and, on top, the sign of x.                            *)
(***************************************************************************)
EXTENDS ScalarRecoding, FiniteSets

CONSTANTS q, A, YBits, Order  \* A: the Montgomery form's coefficient; Order: the prime l

Tabulated(f) == << >> @@ f    \* f, with TLC computing each value once
F == 0..(q - 1)
Neg(x) == (q - x) % q
IsSquare(x) == \E y \in F : (y * y) % q = x % q
Sqrt(x) == CHOOSE y \in F : (y * y) % q = x % q
PowerOf(x, k) == LET power[i \in 0..k] == IF i = 0 THEN 1 ELSE (power[i - 1] * x) % q
                 IN  power[k]
InverseOf == Tabulated([x \in F |-> PowerOf(x, q - 2)])          \* fe_invert: z^(q-2)
Pow22523 == Tabulated([x \in F |-> PowerOf(x, (q - 5) \div 8)])  \* inside fe_divpowm1
d == (Neg(A - 2) * InverseOf[(A + 2) % q]) % q

ASSUME CurveAssumption ==
  /\ q \in Nat /\ q % 8 = 5 /\ 2^(YBits - 1) < q /\ q < 2^YBits
  /\ \A x \in F \ {0} : (x * InverseOf[x]) % q = 1
  /\ ~IsSquare(d) /\ ~IsSquare(A * (A + 2))

(* The affine group, by its textbook law, and its points of prime order.   *)
Zero == << 0, 1 >>
OnCurve(x, y) == LET xx == (x * x) % q
                     yy == (y * y) % q
                 IN  (yy + Neg(xx)) % q = (1 + d * ((xx * yy) % q)) % q
Group == {P \in F \X F : OnCurve(P[1], P[2])}
Plus(P, R) ==
  LET dxy == (((d * P[1]) % q) * ((R[1] * P[2]) % q) * R[2]) % q
  IN  << ((P[1] * R[2] + P[2] * R[1]) * InverseOf[(1 + dxy) % q]) % q,
         ((P[2] * R[2] + P[1] * R[1]) * InverseOf[(1 + Neg(dxy)) % q]) % q >>
MultiplesOfPoint ==
  Tabulated([P \in Group |->
    LET m[k \in 0..(8 * Order - 1)] == IF k = 0 THEN Zero ELSE Plus(m[k - 1], P)
    IN  Tabulated(m)])
Times(k, P) == MultiplesOfPoint[P][k % (8 * Order)]
PrimeSubgroup == {P \in Group : Times(Order, P) = Zero}
Base == CHOOSE P \in PrimeSubgroup : P # Zero /\ P[1] % 2 = 0

ASSUME GroupAssumption ==
  /\ \A P, R \in Group : Plus(P, R) \in Group
  /\ Cardinality(Group) = 8 * Order /\ Cardinality(PrimeSubgroup) = Order

Strings == 0..(2^(YBits + 1) - 1)
Garbage == -1     \* what an overflow leaves behind
-----------------------------------------------------------------------------
(* Field elements.  The constants of crypto-ops-data.c are reduced.        *)
Const(x) == [v |-> x % q, b |-> 100]
fe_d == Const(d)
fe_d2 == Const(2 * d)
fe_sqrtm1 == Const(Sqrt(q - 1))
fe_ma == Const(q - A)
fe_ma2 == Const(Neg((A * A) % q))
AA2 == (A * (A + 2)) % q
fe_fffb1 == Const(Sqrt(2 * Neg(AA2)))
fe_fffb2 == Const(Sqrt(2 * AA2))
fe_fffb3 == Const(Sqrt(Neg((fe_sqrtm1.v * AA2) % q)))
fe_fffb4 == Const(Sqrt(fe_sqrtm1.v * AA2))

fe_0 == [v |-> 0, b |-> 0]
fe_1 == [v |-> 1, b |-> 1]
fe_add(f, g) == [v |-> (f.v + g.v) % q, b |-> f.b + g.b]
fe_sub(f, g) == [v |-> (f.v + Neg(g.v)) % q, b |-> f.b + g.b]
fe_neg(f) == [f EXCEPT !.v = Neg(@)]

MulLimit == 330        \* 1.65*2^26: beyond it a product overflows
BytesLimit == 220      \* 1.1*2^26: beyond it fe_tobytes may not reduce
Unbounded == 1000000
Product(x, ok) == [v |-> x % q, b |-> IF ok THEN 101 ELSE Unbounded]
fe_mul(f, g) == Product(f.v * g.v, f.b <= MulLimit /\ g.b <= MulLimit)
fe_sq(f) == fe_mul(f, f)
fe_sq2Sum(f) == fe_add(fe_sq(f), fe_sq(f))   \* mutant: a sum of two squares
fe_sq2(f) == Product(2 * f.v * f.v, f.b <= MulLimit)
fe_invert(f) == Product(InverseOf[f.v], f.b <= MulLimit)

fe_tobytes(f) == IF f.b <= BytesLimit THEN f.v ELSE Garbage
fe_isnonzero(f) == fe_tobytes(f) # 0
fe_isnegative(f) == fe_tobytes(f) % 2

(* u v^3 (u v^7)^((q-5)/8), a square root of u/v if there is one.          *)
fe_divpowm1(u, v) ==
  LET v3 == fe_mul(fe_sq(v), v)
      uv7 == fe_mul(fe_mul(fe_sq(v3), v), u)
  IN  fe_mul(fe_mul([uv7 EXCEPT !.v = Pow22523[uv7.v]], v3), u)
-----------------------------------------------------------------------------
(* Points: ge_p2 (X : Y : Z), ge_p3 with T = X Y / Z, ge_p1p1, ge_cached,  *)
(* ge_precomp.                                                             *)
ge_p2_0 == [X |-> fe_0, Y |-> fe_1, Z |-> fe_1]
ge_p3_0 == [X |-> fe_0, Y |-> fe_1, Z |-> fe_1, T |-> fe_0]
ge_precomp_0 == [yplusx |-> fe_1, yminusx |-> fe_1, xy2d |-> fe_0]
ge_cached_0 == [YplusX |-> fe_1, YminusX |-> fe_1, Z |-> fe_1, T2d |-> fe_0]

ge_p1p1_to_p2(p) ==
  [X |-> fe_mul(p.X, p.T), Y |-> fe_mul(p.Y, p.Z), Z |-> fe_mul(p.Z, p.T)]
ge_p1p1_to_p3(p) ==
  [X |-> fe_mul(p.X, p.T), Y |-> fe_mul(p.Y, p.Z), Z |-> fe_mul(p.Z, p.T),
   T |-> fe_mul(p.X, p.Y)]
ge_p3_to_p2(p) == [X |-> p.X, Y |-> p.Y, Z |-> p.Z]
ge_p3_to_cached(p) ==
  [YplusX |-> fe_add(p.Y, p.X), YminusX |-> fe_sub(p.Y, p.X), Z |-> p.Z,
   T2d |-> fe_mul(p.T, fe_d2)]

ge_p2_dbl(p) ==
  LET xx == fe_sq(p.X)
      yy == fe_sq(p.Y)
      sum == fe_add(yy, xx)
      dif == fe_sub(yy, xx)
  IN  [X |-> fe_sub(fe_sq(fe_add(p.X, p.Y)), sum), Y |-> sum, Z |-> dif,
       T |-> fe_sub(fe_sq2(p.Z), dif)]
ge_p3_dbl(p) == ge_p2_dbl(ge_p3_to_p2(p))

(* The sum of p and a point given by y + x, y - x, t = 2dxy T and zz = 2 Z.*)
Sum(p, yplusx, yminusx, t, zz) ==
  LET a == fe_mul(fe_add(p.Y, p.X), yplusx)
      c == fe_mul(fe_sub(p.Y, p.X), yminusx)
  IN  [X |-> fe_sub(a, c), Y |-> fe_add(a, c), Z |-> fe_add(zz, t), T |-> fe_sub(zz, t)]
Difference(p, yplusx, yminusx, t, zz) ==
  LET s == Sum(p, yminusx, yplusx, t, zz) IN [s EXCEPT !.Z = s.T, !.T = s.Z]
Double(x) == fe_add(x, x)

ge_add(p, c) ==
  Sum(p, c.YplusX, c.YminusX, fe_mul(c.T2d, p.T), Double(fe_mul(p.Z, c.Z)))
ge_subKeepsSign(p, c) ==   \* mutant: y+x and y-x swapped, 2dxy not negated
  Sum(p, c.YminusX, c.YplusX, fe_mul(c.T2d, p.T), Double(fe_mul(p.Z, c.Z)))
ge_sub(p, c) ==
  Difference(p, c.YplusX, c.YminusX, fe_mul(c.T2d, p.T), Double(fe_mul(p.Z, c.Z)))
ge_madd(p, c) == Sum(p, c.yplusx, c.yminusx, fe_mul(c.xy2d, p.T), Double(p.Z))
ge_msub(p, c) == Difference(p, c.yplusx, c.yminusx, fe_mul(c.xy2d, p.T), Double(p.Z))

ge_mul8Doubles(p) == ge_p2_dbl(p)   \* mutant: the factor is 2
ge_mul8(p) == ge_p2_dbl(ge_p1p1_to_p2(ge_p2_dbl(ge_p1p1_to_p2(ge_p2_dbl(p)))))
-----------------------------------------------------------------------------
(* Strings to points and back.  A y-coordinate that is not reduced is      *)
(* refused, and so is a negative zero.                                     *)
NoPoint == [X |-> fe_0]

UnreducedNever(ys) == FALSE     \* mutant: y-coordinates above q pass
Unreduced(ys) == ys >= q

(* x is a root of u/v, or of -u/v times a root of -1, or there is no point; *)
(* it gets the sign asked for.                                             *)
Candidate(u, v, root) ==
  LET vxx == fe_mul(fe_sq(root), v)
  IN  IF ~fe_isnonzero(fe_sub(vxx, u)) THEN [x |-> root, exists |-> TRUE]
      ELSE [x |-> fe_mul(root, fe_sqrtm1), exists |-> ~fe_isnonzero(fe_add(vxx, u))]

WithSign(y, x, sign) ==
  LET otherSign == fe_isnegative(x) # sign
      signed == IF otherSign THEN fe_neg(x) ELSE x
  IN  IF otherSign /\ ~fe_isnonzero(x) THEN NoPoint
      ELSE [X |-> signed, Y |-> y, Z |-> fe_1, T |-> fe_mul(signed, y)]

ge_frombytes_vartime(s) ==
  LET ys == s % 2^YBits
      y == [v |-> ys % q, b |-> 101]
      u == fe_sub(fe_sq(y), fe_1)
      v == fe_add(fe_mul(fe_sq(y), fe_d), fe_1)
      candidate == Candidate(u, v, fe_divpowm1(u, v))
  IN  IF Unreduced(ys) \/ ~candidate.exists THEN NoPoint
      ELSE WithSign(y, candidate.x, s \div 2^YBits)

IsPoint(p) == p # NoPoint

ge_tobytes(p) ==
  LET recip == fe_invert(p.Z)
      x == fe_mul(p.X, recip)
      y == fe_tobytes(fe_mul(p.Y, recip))
  IN  IF y = Garbage \/ fe_tobytes(x) = Garbage THEN Garbage
      ELSE y + 2^YBits * fe_isnegative(x)
ge_p3_tobytes(p) == ge_tobytes(p)
-----------------------------------------------------------------------------
(* Scalar multiplication.  Multiples 1 to 8 of P, or the odd ones to 15.   *)
ChainOf(p, first, step) ==
  FoldLeft(LAMBDA t, k : Append(t, ge_p3_to_cached(ge_p1p1_to_p3(ge_add(p, t[k])))),
           << first >>, [k \in 1..7 |-> k])
MultiplesOf(p) == ChainOf(p, ge_p3_to_cached(p), p)
ge_dsm_precomp(p) == ChainOf(ge_p1p1_to_p3(ge_p3_dbl(p)), ge_p3_to_cached(p), p)

(* The entry for digit e, chosen without a branch: none of the eight        *)
(* matches when |e| is 0, or above 8, and the entry stays the neutral one.  *)
Abs(e) == IF e < 0 THEN -e ELSE e
MinusCached(c) ==
  [c EXCEPT !.YplusX = c.YminusX, !.YminusX = c.YplusX, !.T2d = fe_neg(@)]
SelectCached(table, e) ==
  LET c == IF Abs(e) \in 1..8 THEN table[Abs(e)] ELSE ge_cached_0
  IN  IF e < 0 THEN MinusCached(c) ELSE c

(* One step per digit; after an overflow nothing more is worth computing.  *)
Chain(Step(_, _), first, digits) ==
  FoldLeft(LAMBDA r, e : IF r.Z.b = Unbounded THEN r ELSE Step(r, e), first, digits)

DoubledOnce(p) == ge_p1p1_to_p2(ge_p2_dbl(p))
Times16(p) == ge_p2_dbl(DoubledOnce(DoubledOnce(DoubledOnce(p))))

ge_scalarmult(a, p) ==
  LET table == MultiplesOf(p)
      Step(r, e) ==
        ge_p1p1_to_p2(ge_add(ge_p1p1_to_p3(Times16(r)), SelectCached(table, e)))
  IN  Chain(Step, ge_p2_0, Reverse(Radix16(a)))

(* The tables of crypto-ops-data.c, ge_base[i][j] = (j+1) 256^i B and      *)
(* ge_Bi[j] = (2j+1) B, from the multiples of the base point.              *)
Precomp(P) == [yplusx |-> Const(P[2] + P[1]), yminusx |-> Const(P[2] + Neg(P[1])),
               xy2d |-> Const(2 * ((d * P[1]) % q) * P[2])]
ge_base == Tabulated([i \in 0..(Bytes - 1) |->
                        Tabulated([j \in 1..8 |-> Precomp(Times(j * 256^i, Base))])])
ge_Bi == Tabulated([j \in 1..8 |-> Precomp(Times(2 * j - 1, Base))])

MinusPrecomp(c) ==
  [yplusx |-> c.yminusx, yminusx |-> c.yplusx, xy2d |-> fe_neg(c.xy2d)]
select(pos, e) ==
  LET c == IF Abs(e) \in 1..8 THEN ge_base[pos][Abs(e)] ELSE ge_precomp_0
  IN  IF e < 0 THEN MinusPrecomp(c) ELSE c

(* The odd digits, times 16, plus the even ones.                           *)
ge_scalarmult_base(a) ==
  LET e == Radix16Base(a)
      Add(h, i) == ge_p1p1_to_p3(ge_madd(h, select(i, e[2 * i + 1])))
      AddOdd(h, i) == ge_p1p1_to_p3(ge_madd(h, select(i, e[2 * i + 2])))
      odd == Chain(AddOdd, ge_p3_0, UpTo(Bytes))
  IN  Chain(Add, ge_p1p1_to_p3(Times16(ge_p3_to_p2(odd))), UpTo(Bytes))

(* Two scalars at once by sliding windows, from the highest digit that is  *)
(* not zero down.                                                          *)
Slid(t, e, table, up(_, _), down(_, _)) ==
  IF e > 0 THEN up(ge_p1p1_to_p3(t), table[e \div 2 + 1])
  ELSE IF e < 0 THEN down(ge_p1p1_to_p3(t), table[(-e) \div 2 + 1])
  ELSE t

Highest(r, s) ==
  LET used == {i \in Positions : r[i] # 0 \/ s[i] # 0}
  IN  IF used = {} THEN -1 ELSE CHOOSE i \in used : \A j \in used : j <= i

ge_double_scalarmult_base_vartime(a, p, c) ==
  LET aslide == slide(a)
      bslide == slide(c)
      Ai == ge_dsm_precomp(p)
      Step(r, i) ==
        ge_p1p1_to_p2(Slid(Slid(ge_p2_dbl(r), aslide[i], Ai, ge_add, ge_sub),
                           bslide[i], ge_Bi, ge_madd, ge_msub))
  IN  Chain(Step, ge_p2_0, Reverse(UpTo(Highest(aslide, bslide) + 1)))

ge_double_scalarmult_precomp_vartime(a, p, c, Bi) ==
  LET aslide == slide(a)
      bslide == slide(c)
      Ai == ge_dsm_precomp(p)
      Step(r, i) ==
        ge_p1p1_to_p2(Slid(Slid(ge_p2_dbl(r), aslide[i], Ai, ge_add, ge_sub),
                           bslide[i], Bi, ge_add, ge_sub))
  IN  Chain(Step, ge_p2_0, Reverse(UpTo(Highest(aslide, bslide) + 1)))
-----------------------------------------------------------------------------
(* ge_fromfe_frombytes_vartime: any 32 bytes to a point, in projective      *)
(* coordinates.  asserted says whether the function's assertions hold.      *)
ge_fromfe_frombytes_vartime(s) ==
  LET u == [v |-> s % q, b |-> 101]
      v == fe_sq2(u)
      w == fe_add(v, fe_1)
      x == fe_add(fe_sq(w), fe_mul(fe_ma2, v))
      root == fe_divpowm1(w, x)
      rx == fe_mul(fe_sq(root), x)
      rxi == fe_mul(rx, fe_sqrtm1)
      plus == ~fe_isnonzero(fe_sub(w, rx))
      minus == ~fe_isnonzero(fe_add(w, rx))
      positive == plus \/ minus
      iplus == ~fe_isnonzero(fe_sub(w, rxi))
      X == IF positive THEN fe_mul(fe_mul(root, IF plus THEN fe_fffb2 ELSE fe_fffb1), u)
           ELSE fe_mul(root, IF iplus THEN fe_fffb4 ELSE fe_fffb3)
      z == IF positive THEN fe_mul(fe_ma, v) ELSE fe_ma
      flip == fe_isnegative(X) # IF positive THEN 0 ELSE 1
      Z == fe_add(z, w)
  IN  [X |-> fe_mul(IF flip THEN fe_neg(X) ELSE X, Z), Y |-> fe_sub(z, w), Z |-> Z,
       asserted |-> /\ positive \/ iplus \/ ~fe_isnonzero(fe_add(w, rxi))
                    /\ flip => fe_isnonzero(X)]
=============================================================================
