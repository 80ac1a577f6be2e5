------------------------------- MODULE SealState -------------------------------
(* What final seals and upload URLs keep, and what is promised of it;         *)
(* CaptureSeal says what happens to it (packages/sessions/src/                *)
(* capture-seals.ts, capture-channel.ts).                                     *)
EXTENDS Integers

CONSTANTS
  Key,        \* object keys
  Index,      \* those whose name does not say their bytes: git pack indexes
  Epoch,      \* the epochs of one worktree, from 1
  Bytes,      \* what an object may hold
  Capture,    \* the captures that ask for a seal
  UrlCall,    \* upload.urls calls at once
  Ask,        \* readers of a seal at once
  ScopeOf,    \* ScopeOf[k]: the epoch k lives under
  Right,      \* Right[k]: the bytes that are what k's name says
  EpochOf,    \* EpochOf[c]: the epoch c was registered under
  Nth,        \* Nth[c]: its number on the chain
  Names,      \* Names[c]: the objects c lists
  Ttl, Margin, Lag, MaxTime

VARIABLES
  now,        \* Mend's clock
  leased,     \* the epoch whose lease is held
  stored,     \* the bucket: stored[k], the bytes under k, or None
  urls,       \* the URLs that have left Mend and may still change an object
  authority,  \* capture_put_authority.expires_at, by epoch; 0 when none
  bound,      \* capture_bound_indexes, by key; until 0 when there is no row
  seal,       \* capture_seals, by epoch; capture None when there is no row
  proof,      \* when this process last read a named key whole and right; -1 never
  calls,      \* upload.urls calls in flight
  asks,       \* reads of a seal in flight
  standing    \* seals some reader was told stand, by epoch

None == "none"

\* The seal recorded over an epoch is live: there is one, and it is not void.
Live(e) == seal[e].capture # None /\ ~seal[e].void

\* What a key would hold is what its name says.
IsRight(k) == stored[k] \in Right[k]

\* A live seal some reader was told stands.
Stood(e) == standing[e] /\ Live(e)

\* What is stored under k is what its name says, and no URL outside Mend can
\* make it anything else.
IsFixed(k) ==
  /\ IsRight(k)
  /\ \A u \in urls : u.key = k => u.writes \subseteq {stored[k]}

\* The objects of a seal that stands are what their names say (sealStandingOf:
\* "all what their names say"), and stay it: a seal is what a session's saved
\* work is read on.  First those whose name says their bytes.
NamedAreFixed ==
  \A e \in Epoch : Stood(e) => \A k \in Names[seal[e].capture] \ Index : IsFixed(k)

\* And the pack indexes, which only a binding keeps (boundIndexHold).
IndexesAreFixed ==
  \A e \in Epoch : Stood(e) => \A k \in Names[seal[e].capture] \cap Index : IsFixed(k)

\* Every URL that could replace an object is on record until it is dead: in
\* its epoch's write authority, or as the live binding of its index.
UrlsAreOnRecord ==
  \A u \in urls :
    \/ u.until <= authority[ScopeOf[u.key]]
    \/ u.key \notin Index /\ u.writes = Right[u.key]
    \/ /\ u.key \in Index /\ bound[u.key].until >= u.until
       /\ u.writes = {bound[u.key].bytes}
================================================================================
