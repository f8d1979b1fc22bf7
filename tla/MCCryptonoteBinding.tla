------------------------ MODULE MCCryptonoteBinding ------------------------
(***************************************************************************)
(* CryptonoteBinding over GF(61), where the curve has 8 * 7 points.        *)
(***************************************************************************)
EXTENDS CryptonoteBinding, TLC

(* A hash of small numbers to 16 bits.                                     *)
MCHash(data) == FoldLeft(LAMBDA h, v : (h * 211 + v * 1009 + 77) % 65536, 1, data)

MCPointArgs == Strings \cup {Malformed}
MCScalarArgs == {0, 1, 7, 8, 4660, 32767, 40000, Malformed}
MCFewPoints == {EncodingOf(P) : P \in {Zero, Base, Plus(Base, PointOf(6))}} \cup
                 {6, 2, 125, Malformed}     \* of order 8; no points; no digits
MCFewScalars == {0, 5, 32767, 40000, Malformed}
MCIndexArgs == {-5, -2, -1, 0, 1, 14, 15, 16, 20}
MCSecretKeys == {3, 6}
MCOutputIndices == {0, 7, 8}
MCSuffixArgs == {<< >>, << 5 >>}
=============================================================================
