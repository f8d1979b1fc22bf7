---------------------------- MODULE MCNativeRandom ----------------------------
(***************************************************************************)
(* Bit and byte counts in halves: 32 and 32.5 bits, -32 bits, no bits, an  *)
(* odd count, and a double no int holds.  -64 stands for INT_MIN.          *)
(***************************************************************************)
EXTENDS NativeRandom

MCSizes == {64, 65, -64, 0, 6, NaN}
MCIntMin == -64
=============================================================================
