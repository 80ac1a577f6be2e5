------------------------- MODULE MCCaptureEvidence -------------------------
(* Small instances of CaptureEvidence.                                     *)
EXTENDS CaptureEvidence, TLC

Symmetry == Permutations(Asks)
=============================================================================
