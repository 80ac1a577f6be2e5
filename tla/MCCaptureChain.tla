--------------------------- MODULE MCCaptureChain ---------------------------
(* Launches of one session sa, and creators of capture 0.                  *)
EXTENDS CaptureChain, TLC

CONSTANT sa

MCSession == {sa}
MCSessionOf == [l \in Launch |-> sa]
ChainSymmetry == Permutations(Capture) \cup Permutations(Launch) \cup Permutations(Creator)

\* Bounds of one run: two launches contend over two claims, or one launch and the
\* creators over MaxEpoch.
LaunchesSeen == {l \in Launch : view[l] # None \/ planning[l] # None
                                \/ l \in ended
                                \/ \E e \in Epoch : granted[e].launch = l}
CreatorSeen == \E e \in Epoch : granted[e].executor = Mend
Bounded == IF CreatorSeen THEN Cardinality(LaunchesSeen) <= 1 ELSE lease.epoch <= 2
=============================================================================
