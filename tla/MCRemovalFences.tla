-------------------------- MODULE MCRemovalFences --------------------------
(* Project p1 with worktree w1; session s1 works in it.                      *)
EXTENDS RemovalFences, TLC

CONSTANTS p1, w1, s1

MCProjectOf == [w \in Worktree |-> p1]
MCPlaces == [s \in Session |-> {w1}]

\* Bound of one run: two removals with two starts, or three with none.
Begun == {a \in Attempt : try[a] # None}
Bounded == Cardinality(Begun) = 3 => \A x \in Start : start[x] = None
=============================================================================
