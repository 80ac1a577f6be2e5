------------------------- MODULE MCCaptureRetention -------------------------
(* Worktrees a and b; ka0 is a handed-off delta pack of a, ka1 and kb1 objects *)
(* of epoch 1.  Same: a key of a and one of b hold equal bytes.                *)
EXTENDS CaptureRetention, TLC

CONSTANTS a, b, ka0, ka1, kb1, d0, d1

MCOwner == [k \in Key |-> IF k \in {ka0, ka1} THEN a ELSE b]
MCEpoch == [k \in Key |-> IF k = ka0 THEN 0 ELSE 1]
MCSame == [k \in Key |-> IF k = ka0 THEN d0 ELSE d1]
RegisterSymmetry == Permutations(Register) \cup Permutations(Pass)

\* Both worktrees have begun, or a is handed off during the behaviour and b never is.
Fresh == INSTANCE CaptureRetention WITH Started <- {}
MCSpec == (Init \/ Fresh!Init) /\ [][Next]_vars

\* Bounds of one run: two worktrees, one pass at a time and one epoch; or one
\* worktree, overlapping passes, two epochs and one capture after the first.
Begun == \A w \in Worktree : RowsOf(w) # {}
Bounded ==
  IF Begun
  THEN /\ Cardinality({p \in Pass : pass[p] # None}) <= 1
       /\ \A w \in Worktree : chain[w].epoch <= 1
       /\ chain[b].n <= 1
  ELSE /\ chain[b] = None
       /\ \A c \in Register : reg[c] # None => reg[c].row.n <= 1
=============================================================================
