---------------------------- MODULE MCInterrupt ----------------------------
EXTENDS InterruptSnapshot, TLC

(* The sources are interchangeable where all of them restore their lines.  *)
SourceSymmetry == Permutations(Sources)
=============================================================================
