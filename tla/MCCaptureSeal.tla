---------------------------- MODULE MCCaptureSeal ----------------------------
(* An instance of CaptureSeal: a pack index, either content of which is      *)
(* sound, under one epoch.                                                   *)
EXTENDS CaptureSeal, TLC

CONSTANTS a, x, y, c1

ScopeA == a :> 1
RightAny == a :> {x, y}
EpochOne == c1 :> 1
NthOne == c1 :> 1
NamesIndex == c1 :> {a}
==============================================================================
