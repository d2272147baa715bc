------------------------------ MODULE MCCapture ------------------------------
(* Instances of Capture for TLC. *)
EXTENDS Capture, TLC

\* Attempts are interchangeable: they are only compared for equality.
AttemptSymmetry == Permutations(Attempts)
==============================================================================
