----------------------------- MODULE MCHmacSha1 -----------------------------
(***************************************************************************)
(* Symbolic bytes: a masked byte and a digest byte remember what they were *)
(* made from, so two different inputs never give the same output.  Blocks  *)
(* of 2 bytes and digests of 1; a key of exactly one block, and a longer   *)
(* one whose digest is padded to a block; messages that grow and shrink    *)
(* from call to call.                                                      *)
(***************************************************************************)
EXTENDS HmacSha1, TLC

MCZero == << "zero" >>
MCXorPad(pad, byte) == << pad, byte >>
MCSha1(bytes) == << << "sha1", bytes >> >>

Byte(name) == << "byte", name >>
MCKeys == { << Byte("a"), Byte("b") >>, << Byte("a"), Byte("b"), Byte("c") >> }
MCMessages == { << Byte("y"), Byte("x") >>, << >> }

(* No thread is named anywhere.                                            *)
ThreadSymmetry == Permutations(Threads)
=============================================================================
