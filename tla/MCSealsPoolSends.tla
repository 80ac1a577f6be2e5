--------------------------- MODULE MCSealsPoolSends ---------------------------
(* Three systems, one of which acts: the deliveries of two follow-ups that    *)
(* share a comment, with two calls for the first, a project's standbys (an  *)
(* instance of HotPool), or final seals, in one of two instances: the pack    *)
(* index idx, either content of which is sound (Indexed), or the object obj,  *)
(* carried into the seal of a second epoch and read by two at once (Carried). *)
EXTENDS FollowUps, PoolState, SealState, TLC

CONSTANTS f1, f2, r1, r2, r3, m1

CONSTANTS idx, obj, b1, b2, s1, s2, s3, q1

VARIABLE part

KeyOfRequest == r1 :> f1 @@ r2 :> f1 @@ r3 :> f2
Shared == f1 :> {m1} @@ f2 :> {m1}

Pool == INSTANCE HotPool

ScopeOfKey == idx :> 1 @@ obj :> 1
RightOfKey == idx :> {b1, b2} @@ obj :> {b1}
EpochOfCapture == s1 :> 1 @@ s2 :> 1 @@ s3 :> 2
NthOfCapture == s1 :> 1 @@ s2 :> 1 @@ s3 :> 2
NamesOfCapture == s1 :> {idx} @@ s2 :> {obj} @@ s3 :> {obj}

Indexed == INSTANCE CaptureSeal WITH
  Key <- {idx}, ScopeOf <- idx :> 1, Right <- idx :> {b1, b2}, Ask <- {q1},
  Capture <- {s1}, EpochOf <- s1 :> 1, Nth <- s1 :> 1, Names <- s1 :> {idx}

Carried == INSTANCE CaptureSeal WITH
  Key <- {obj}, Index <- {}, ScopeOf <- obj :> 1, Right <- obj :> {b1},
  Capture <- {s2, s3}, EpochOf <- s2 :> 1 @@ s3 :> 2, Nth <- s2 :> 1 @@ s3 :> 2,
  Names <- s2 :> {obj} @@ s3 :> {obj}, Margin <- 0, Lag <- 0, MaxTime <- 2

ASSUME Pool!PoolAssumption /\ Indexed!ConstantsAssumption /\ Carried!ConstantsAssumption

pool == <<row, print, named, exec, token, session, owned, kept, goal, wanted, count,
          poolStage, at, todo, again, restarts>>
seals == <<now, leased, stored, urls, authority, bound, seal, proof, calls, asks, standing>>

\* A system that does not act stays at an initial state of its own.
PartInit ==
  \/ part = "sends" /\ Init /\ Pool!Init /\ Carried!Init
  \/ /\ Init /\ agent = Nobody /\ kind = "pty" /\ Pool!Init
     /\ \/ part \in {"pool", "carried"} /\ Carried!Init
        \/ part = "indexed" /\ Indexed!Init

\* The two calls of one follow-up are alike: r1 is the one that begins first.
InTurn == stage[r2] # "idle" => stage[r1] # "idle"

PartNext ==
  /\ UNCHANGED part
  /\ \/ part = "sends" /\ Next /\ InTurn' /\ UNCHANGED <<pool, seals>>
     \/ part = "pool" /\ Pool!Next /\ UNCHANGED <<vars, seals>>
     \/ part = "indexed" /\ Indexed!Next /\ UNCHANGED <<vars, pool>>
     \/ part = "carried" /\ Carried!Next /\ UNCHANGED <<vars, pool>>

PartSpec == PartInit /\ [][PartNext]_<<part, vars, pool, seals>>

\* The fingerprints are alike, and the two readers.
PartSymmetry == {p @@ q : p \in Permutations(Prints), q \in Permutations(Ask)}
===============================================================================
