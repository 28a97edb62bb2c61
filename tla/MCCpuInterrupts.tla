--------------------------- MODULE MCCpuInterrupts ---------------------------
EXTENDS CpuInterrupts, TLC

(* The traps are interchangeable.                                          *)
TrapSymmetry == Permutations(Traps)
=============================================================================
