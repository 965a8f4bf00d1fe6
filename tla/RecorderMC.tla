----------------------------- MODULE RecorderMC -----------------------------
(***************************************************************************)
(* Recorder for the model checker: the byte values a program writes only   *)
(* differ or not, so they are interchangeable.                             *)
(***************************************************************************)
EXTENDS Recorder, TLC

Interchangeable == Permutations(Values)
=============================================================================
