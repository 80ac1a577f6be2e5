------------------------------ MODULE MCHotPool ------------------------------
(* A small instance of HotPool.  Fingerprints are compared and never looked  *)
(* into, so they are alike.                                                  *)
EXTENDS HotPool, TLC

PrintsAlike == Permutations(Prints)
===============================================================================
