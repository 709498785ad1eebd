--------------------------- MODULE MC_UsbWrapper ---------------------------
(* Model-checking instance of UsbWrapper: two writer tasks.               *)
EXTENDS UsbWrapper, TLC

CONSTANTS w1, w2

MCWriters == {w1, w2}
MCSymmetry == Permutations(MCWriters)
=============================================================================
