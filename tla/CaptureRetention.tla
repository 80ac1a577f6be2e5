-------------------------- MODULE CaptureRetention --------------------------
(***************************************************************************)
(* Retention against registers: packages/jobs/src/capture-retention.ts and *)
(* the statements of packages/db/src/repos/capture-store.ts the two meet   *)
(* on (worktree_chain.guard, capture_tombstones, packs), with the register *)
(* attempt of packages/sessions/src/capture-channel.ts and the creation of *)
(* a handed-off worktree (session-repository-captured.ts).                 *)
(*                                                                         *)
(* A key stands for an object with what goes with it: a pack and its       *)
(* index, a trees/ prefix and the dir objects below it.  Manifests are     *)
(* left out: a row's own manifest has its row's id and goes with it.  The  *)
(* deletion claim paces passes and fences nothing (capture-retention.ts    *)
(* :259-266), so its lapse is a pass that stops deleting.  The project     *)
(* removal that also condemns is not modelled here.                        *)
(***************************************************************************)
EXTENDS Integers, FiniteSets

CONSTANTS
  Worktree,   \* worktrees, each with a chain once it is initialised
  Key,        \* object keys under captures/<worktree>/<epoch>/
  OwnerOf,    \* [Key -> Worktree]: captureKeyOwner
  EpochOf,    \* [Key -> Nat]: the epoch prefix of the key
  Digest,     \* the contents of packs: ids of packs rows
  DigestOf,   \* [Key -> Digest]
  Register,   \* register calls at work at the same time
  Pass,       \* retention passes, which may overlap
  Started,    \* worktrees with a chain at capture 0 and an executor from the start
  Retired,    \* objects condemned, retired and deleted before the start
  MaxEpoch,   \* bound: the epoch a claim may reach
  MaxN,       \* bound: the captures of a chain
  None

VARIABLES
  chain,    \* worktree_chain: head_n, head_epoch and guard, None before init
  rows,     \* captures
  packs,    \* packs by digest: key, state, and whether created_at is past the grace
  bucket,   \* the object store
  tombs,    \* capture_tombstones
  handoffs, \* the delta packs worktree rows name
  reg,      \* registers in progress
  pass      \* retention passes in progress

vars == <<chain, rows, packs, bucket, tombs, handoffs, reg, pass>>

-----------------------------------------------------------------------------
Chain == [n : Nat \cup {-1}, epoch : Nat, guard : Nat]
Row   == [wt : Worktree, n : Nat, epoch : Nat, names : SUBSET Key]
Pack  == [key : Key, state : {"uploaded", "retired"}, old : BOOLEAN]
Guards == [Worktree -> Nat \cup {None}]
NoGuards == [w \in Worktree |-> None]

Owners(ks) == {OwnerOf[k] : k \in ks}
RowsOf(w)  == {r \in rows : r.wt = w}
NewChain   == [n |-> -1, epoch |-> 0, guard |-> 0]

RegState == [row : Row, zero : BOOLEAN, guards : Guards,
             at : {"composed", "looked", "checked", "landed"}]

Owning == {"thin", "retire", "delete"}

PassState ==
  [at : {"rows", "thin", "doom", "sweep", "condemn", "retire", "delete", "over"},
   guards : Guards, heads : [Worktree -> Nat \cup {-1}], aged : SUBSET Digest,
   unread : SUBSET Worktree, read : SUBSET Row, live : SUBSET Key, fence : [Worktree -> Nat],
   listed : SUBSET [digest : Digest, key : Key],
   doomed : SUBSET [key : Key, digest : Digest \cup {None}],
   owner : Worktree \cup {None}, left : SUBSET Key, failed : SUBSET Key]

ASSUME ConstantsAssumption ==
  /\ OwnerOf \in [Key -> Worktree] /\ DigestOf \in [Key -> Digest]
  /\ EpochOf \in [Key -> Nat]
  /\ Started \subseteq Worktree /\ Retired \subseteq Key /\ MaxEpoch \in Nat /\ MaxN \in Nat
  /\ \A k \in Retired : OwnerOf[k] \in Started
  /\ None \notin Worktree \cup Key \cup Digest \cup Nat
  /\ None \notin Chain \cup Pack \cup RegState \cup PassState

TypeOK ==
  /\ chain \in [Worktree -> Chain \cup {None}]
  /\ rows \in SUBSET Row
  /\ packs \in [Digest -> Pack \cup {None}]
  /\ bucket \in SUBSET Key /\ tombs \in SUBSET Key /\ handoffs \in SUBSET Key
  /\ reg \in [Register -> RegState \cup {None}]
  /\ pass \in [Pass -> PassState \cup {None}]
  /\ \A p \in Pass : pass[p] # None =>
       /\ pass[p].owner # None <=> pass[p].at \in Owning
       /\ \A x \in pass[p].listed : packs[x.digest] # None
       /\ \A x \in pass[p].doomed : x.digest # None => packs[x.digest] # None

Init ==
  /\ chain = [w \in Worktree |->
                IF w \in Started THEN [n |-> 0, epoch |-> 1, guard |-> 0] ELSE None]
  /\ rows = {[wt |-> w, n |-> 0, epoch |-> 0, names |-> {}] : w \in Started}
  /\ packs = [d \in Digest |->
                LET of == {k \in Retired : DigestOf[k] = d} IN
                IF of = {} THEN None
                ELSE [key |-> CHOOSE k \in of : TRUE, state |-> "retired", old |-> TRUE]]
  /\ bucket = {} /\ tombs = Retired /\ handoffs = {}
  /\ reg = [c \in Register |-> None] /\ pass = [p \in Pass |-> None]

-----------------------------------------------------------------------------
(* Packs rows. *)

\* recordPacks: one row per digest; a retired one is live again at the new key,
\* with the created_at it had.
Recorded(ks) == [d \in Digest |->
  LET of == {k \in ks : DigestOf[k] = d} IN
  IF of = {} THEN packs[d]
  ELSE LET k == CHOOSE k \in of : TRUE IN
       IF packs[d] = None THEN [key |-> k, state |-> "uploaded", old |-> FALSE]
       ELSE IF packs[d].state = "retired"
            THEN [packs[d] EXCEPT !.state = "uploaded", !.key = k]
            ELSE packs[d]]

WithState(ds, s) ==
  [d \in Digest |-> IF d \in ds THEN [packs[d] EXCEPT !.state = s] ELSE packs[d]]

\* created_at passes the grace.  A delta pack is named by its worktree's row well
\* within it.
Age(d) ==
  /\ packs[d] # None /\ ~packs[d].old
  /\ EpochOf[packs[d].key] = 0 => packs[d].key \in handoffs
  /\ packs' = [packs EXCEPT ![d].old = TRUE]
  /\ UNCHANGED <<chain, rows, bucket, tombs, handoffs, reg, pass>>

-----------------------------------------------------------------------------
(* Worktrees and their executors. *)

\* createWorktree, handed off: the delta pack is put and recorded first...
PutDelta(k) ==
  /\ chain[OwnerOf[k]] = None /\ k \notin handoffs /\ EpochOf[k] = 0
  /\ bucket' = bucket \cup {k} /\ packs' = Recorded({k})
  /\ UNCHANGED <<chain, rows, tombs, handoffs, reg, pass>>

\* ... then the worktree's row names it...
CreateHandedOff(k) ==
  /\ k \in bucket /\ chain[OwnerOf[k]] = None /\ k \notin handoffs /\ EpochOf[k] = 0
  /\ handoffs' = handoffs \cup {k}
  /\ UNCHANGED <<chain, rows, packs, bucket, tombs, reg, pass>>

\* ... and attachWorktree initialises the chain.
InitChain(w) ==
  /\ chain[w] = None
  /\ chain' = [chain EXCEPT ![w] = NewChain]
  /\ UNCHANGED <<rows, packs, bucket, tombs, handoffs, reg, pass>>

\* claim: a new executor, whose uploads go under the new epoch's prefix.
Claim(w) ==
  /\ chain[w] # None /\ chain[w].epoch < MaxEpoch
  /\ chain' = [chain EXCEPT ![w].epoch = @ + 1]
  /\ UNCHANGED <<rows, packs, bucket, tombs, handoffs, reg, pass>>

\* A PUT under a URL of this epoch or an earlier one, whenever it arrives.
Put(k) ==
  /\ chain[OwnerOf[k]] # None /\ EpochOf[k] \in 1..chain[OwnerOf[k]].epoch
  /\ k \notin bucket
  /\ bucket' = bucket \cup {k}
  /\ UNCHANGED <<chain, rows, packs, tombs, handoffs, reg, pass>>

-----------------------------------------------------------------------------
(* Registers. *)

NewReg(c, w, ks, zero) ==
  [reg EXCEPT ![c] =
    [row |-> [wt |-> w, n |-> chain[w].n + 1, epoch |-> chain[w].epoch, names |-> ks],
     zero |-> zero, guards |-> NoGuards, at |-> IF zero THEN "checked" ELSE "composed"]]

\* An executor composes a manifest on the head: what it uploaded, and what it
\* carries from the head or from another worktree's captures.
Compose(c, w) ==
  /\ reg[c] = None
  /\ chain[w] # None /\ chain[w].epoch > 0 /\ chain[w].n \in 0..(MaxN - 1)
  /\ \E ks \in SUBSET {k \in bucket : OwnerOf[k] = w \/ \E r \in rows : k \in r.names} : reg' = NewReg(c, w, ks, FALSE)
  /\ UNCHANGED <<chain, rows, packs, bucket, tombs, handoffs, pass>>

\* Capture 0: Mend's own register, which names the worktree's delta pack or
\* nothing of any chain, and looks at no guard and no tombstone.
ComposeZero(c, w) ==
  /\ reg[c] = None /\ chain[w] # None /\ chain[w].n = -1
  /\ reg' = NewReg(c, w, {k \in handoffs : OwnerOf[k] = w}, TRUE)
  /\ UNCHANGED <<chain, rows, packs, bucket, tombs, handoffs, pass>>

\* referenceState: the guards and the tombstones, from one snapshot.
Look(c) ==
  /\ reg[c] # None /\ reg[c].at = "composed"
  /\ LET ks == reg[c].row.names
         ws == Owners(ks) \cup {reg[c].row.wt}
     IN  IF (\A w \in ws : chain[w] # None) /\ ks \cap tombs = {}
         THEN reg' = [reg EXCEPT ![c].at = "looked", ![c].guards =
                        [w \in Worktree |-> IF w \in ws THEN chain[w].guard ELSE None]]
         ELSE reg' = [reg EXCEPT ![c] = None]
  /\ UNCHANGED <<chain, rows, packs, bucket, tombs, handoffs, pass>>

\* The section of another platform that the parent already holds asks nothing of
\* the bucket; every other object is HEAD-ed.
Held(r) == UNION {q.names : q \in {q \in RowsOf(r.wt) : q.n = r.n - 1}}

Check(c) ==
  /\ reg[c] # None /\ reg[c].at = "looked"
  /\ \/ /\ reg[c].row.names \ Held(reg[c].row) \subseteq bucket
        /\ reg' = [reg EXCEPT ![c].at = "checked"]
     \/ /\ ~(reg[c].row.names \subseteq bucket)
        /\ reg' = [reg EXCEPT ![c] = None]
  /\ UNCHANGED <<chain, rows, packs, bucket, tombs, handoffs, pass>>

GuardsHold(g) == \A w \in Worktree : g[w] # None => chain[w] # None /\ chain[w].guard = g[w]

\* Mutated: the tombstones are only looked at before the bucket is.
CanLandCondemned(r, g) ==
  /\ chain[r.wt] # None /\ chain[r.wt].n = r.n - 1 /\ chain[r.wt].epoch = r.epoch

\* register's compare-and-set; capture 0's names and guards are empty.
CanLand(r, g) ==
  /\ chain[r.wt] # None /\ chain[r.wt].n = r.n - 1 /\ chain[r.wt].epoch = r.epoch
  /\ GuardsHold(g)
  /\ g # NoGuards => r.names \cap tombs = {}

\* Mutated: a register bumps its own chain's guard alone.
BumpedOwn(r, g) ==
  [chain EXCEPT ![r.wt] = [@ EXCEPT !.n = r.n, !.guard = @ + 1]]

\* Every chain the capture names an object of is bumped, and its own.
Bumped(r, g) == [w \in Worktree |->
  IF w = r.wt THEN [chain[w] EXCEPT !.n = r.n, !.guard = @ + 1]
  ELSE IF g[w] # None THEN [chain[w] EXCEPT !.guard = @ + 1]
  ELSE chain[w]]

Land(c) ==
  /\ reg[c] # None /\ reg[c].at = "checked"
  /\ CanLand(reg[c].row, reg[c].guards)
  /\ chain' = Bumped(reg[c].row, reg[c].guards)
  /\ rows' = rows \cup {reg[c].row}
  /\ reg' = [reg EXCEPT ![c].at = "landed"]
  /\ UNCHANGED <<packs, bucket, tombs, handoffs, pass>>

\* The statement bumps the other chains whose guard reads as looked, even when its own
\* chain refuses it.
Missed(r, g) == [w \in Worktree |->
  IF w # r.wt /\ g[w] # None /\ chain[w] # None /\ chain[w].guard = g[w]
  THEN [chain[w] EXCEPT !.guard = @ + 1]
  ELSE chain[w]]

\* guard_moved is tried again from the look, until the attempts are spent; head_moved
\* and stale_epoch are 409.
Miss(c) ==
  /\ reg[c] # None /\ reg[c].at = "checked"
  /\ ~CanLand(reg[c].row, reg[c].guards)
  /\ chain' = Missed(reg[c].row, reg[c].guards)
  /\ \/ LET r == reg[c].row IN
        /\ chain[r.wt] # None /\ chain[r.wt].n = r.n - 1 /\ chain[r.wt].epoch = r.epoch
        /\ ~reg[c].zero
        /\ reg' = [reg EXCEPT ![c] = [@ EXCEPT !.at = "composed", !.guards = NoGuards]]
     \/ reg' = [reg EXCEPT ![c] = None]
  /\ UNCHANGED <<rows, packs, bucket, tombs, handoffs, pass>>

\* The packs rows follow the compare-and-set; capture 0 records none of its own.
Record(c) ==
  /\ reg[c] # None /\ reg[c].at = "landed"
  /\ packs' = IF reg[c].zero THEN packs ELSE Recorded(reg[c].row.names)
  /\ reg' = [reg EXCEPT ![c] = None]
  /\ UNCHANGED <<chain, rows, bucket, tombs, handoffs, pass>>

-----------------------------------------------------------------------------
(* A retention pass. *)

Step(p, s) == pass' = [pass EXCEPT ![p] = s]

\* 1. Every chain's guard and head, in one statement, before any rows.  What is past
\* the grace is past it now: the pass reads the clock once.
Begin(p) ==
  /\ pass[p] = None
  /\ Step(p, [at |-> "rows",
              guards |-> [w \in Worktree |-> IF chain[w] = None THEN None ELSE chain[w].guard],
              heads |-> [w \in Worktree |-> IF chain[w] = None THEN -1 ELSE chain[w].n],
              aged |-> {d \in Digest : packs[d] # None /\ packs[d].old},
              unread |-> {w \in Worktree : chain[w] # None},
              read |-> {}, live |-> {}, fence |-> [w \in Worktree |-> 0],
              listed |-> {}, doomed |-> {}, owner |-> None, left |-> {}, failed |-> {}])
  /\ UNCHANGED <<chain, rows, packs, bucket, tombs, handoffs, reg>>

ReadRows(p, w) ==
  /\ pass[p] # None /\ pass[p].at = "rows" /\ w \in pass[p].unread
  /\ Step(p, [pass[p] EXCEPT !.at = "thin", !.read = RowsOf(w), !.owner = w,
                             !.unread = @ \ {w}])
  /\ UNCHANGED <<chain, rows, packs, bucket, tombs, handoffs, reg>>

\* Mutated: the head the pass read is trusted; the SQL does not refuse the head.
DroppableAny(p, w) == {r \in pass[p].read : r.n # pass[p].heads[w]}

\* thinningPlan never picks the head the pass read; deleteCaptures refuses the
\* head as it is now.
Droppable(p, w) == {r \in pass[p].read : r.n # pass[p].heads[w] /\ r.n # chain[w].n}

Thinned(q, drop) ==
  LET kept == q.read \ drop
      head == {r \in kept : r.n = q.heads[q.owner]}
  IN  [q EXCEPT !.at = "rows", !.read = {}, !.owner = None,
         !.live = @ \cup UNION {r.names : r \in kept},
         !.fence[q.owner] = IF head = {} THEN 0 ELSE (CHOOSE r \in head : TRUE).epoch]

\* The schedule's choice of rows is left open; what is kept is live.
Thin(p) ==
  /\ pass[p] # None /\ pass[p].at = "thin"
  /\ \E drop \in SUBSET Droppable(p, pass[p].owner) :
       rows' = rows \ drop /\ Step(p, Thinned(pass[p], drop))
  /\ UNCHANGED <<chain, packs, bucket, tombs, handoffs, reg>>

\* 2. The packs rows...
ListPacks(p) ==
  /\ pass[p] # None /\ pass[p].at = "rows" /\ pass[p].unread = {}
  /\ Step(p, [pass[p] EXCEPT !.at = "doom", !.listed =
       {[digest |-> d, key |-> packs[d].key] :
          d \in {d \in Digest : packs[d] # None /\ packs[d].state # "retired"}}])
  /\ UNCHANGED <<chain, rows, packs, bucket, tombs, handoffs, reg>>

\* Mutated: the packs worktree rows name are not read.
PacksDoomedUnnamed(q) ==
  [q EXCEPT !.at = "sweep", !.doomed = {[key |-> x.key, digest |-> x.digest] :
     x \in {x \in q.listed : x.digest \in q.aged /\ x.key \notin q.live}}]

PacksDoomed(q) ==
  LET live == q.live \cup handoffs
      gone == {x \in q.listed : x.digest \in q.aged /\ x.key \notin live}
  IN  [q EXCEPT !.at = "sweep", !.live = live,
                !.doomed = {[key |-> x.key, digest |-> x.digest] : x \in gone}]

\* ... then the delta packs worktree rows name; what neither a row nor a worktree
\* names retires after the grace.
DoomPacks(p) ==
  /\ pass[p] # None /\ pass[p].at = "doom"
  /\ Step(p, PacksDoomed(pass[p]))
  /\ UNCHANGED <<chain, rows, packs, bucket, tombs, handoffs, reg>>

Fenced(q) == {k \in bucket : EpochOf[k] < q.fence[OwnerOf[k]] /\ k \notin q.live
                               /\ k \notin {x.key : x \in q.listed}}

FencedDoomed(q, swept) ==
  [q EXCEPT !.at = "condemn", !.listed = {},
            !.doomed = @ \cup {[key |-> k, digest |-> None] : k \in swept}]

\* 3. Objects under a prefix below the head's epoch, which no row names and no
\* packs row tracks; a head younger than the grace sweeps nothing.
SweepFenced(p) ==
  /\ pass[p] # None /\ pass[p].at = "sweep"
  /\ \E swept \in {{}, Fenced(pass[p])} : Step(p, FencedDoomed(pass[p], swept))
  /\ UNCHANGED <<chain, rows, packs, bucket, tombs, handoffs, reg>>

Plan(p, w)  == {x \in pass[p].doomed : OwnerOf[x.key] = w}
KeysIn(xs)  == {x.key : x \in xs}

\* Mutated: the guard is not compared.
CondemnHoldsAny(p, w) == TRUE

\* condemn lands only while the chain's guard still reads what step 1 read.
CondemnHolds(p, w) == chain[w] # None /\ chain[w].guard = pass[p].guards[w]

\* 4. One owner's objects: tombstoned under its guard, kept for the next pass when
\* it moved, and needing no tombstone when the pass read no chain for it.
Condemn(p, w) ==
  /\ pass[p] # None /\ pass[p].at = "condemn" /\ Plan(p, w) # {}
  /\ LET keys == KeysIn(Plan(p, w))
         go == [pass[p] EXCEPT !.at = "retire", !.owner = w, !.left = keys]
     IN  \/ /\ pass[p].guards[w] = None
            /\ Step(p, go) /\ UNCHANGED <<chain, tombs>>
         \/ /\ pass[p].guards[w] # None /\ CondemnHolds(p, w)
            /\ chain' = [chain EXCEPT ![w].guard = @ + 1]
            /\ tombs' = tombs \cup keys
            /\ Step(p, go)
         \/ /\ pass[p].guards[w] # None /\ ~CondemnHolds(p, w)
            /\ Step(p, [pass[p] EXCEPT !.doomed = @ \ Plan(p, w)])
            /\ UNCHANGED <<chain, tombs>>
  /\ UNCHANGED <<rows, packs, bucket, handoffs, reg>>

PlanDigests(p) == {x.digest : x \in Plan(p, pass[p].owner)} \ {None}

\* Rows first, bytes second.
Retire(p) ==
  /\ pass[p] # None /\ pass[p].at = "retire"
  /\ packs' = WithState(PlanDigests(p), "retired")
  /\ Step(p, [pass[p] EXCEPT !.at = "delete"])
  /\ UNCHANGED <<chain, rows, bucket, tombs, handoffs, reg>>

\* One delete, which the store may refuse.
Delete(p, k) ==
  /\ pass[p] # None /\ pass[p].at = "delete" /\ k \in pass[p].left
  /\ \/ bucket' = bucket \ {k} /\ Step(p, [pass[p] EXCEPT !.left = @ \ {k}])
     \/ UNCHANGED bucket
        /\ Step(p, [pass[p] EXCEPT !.left = @ \ {k}, !.failed = @ \cup {k}])
  /\ UNCHANGED <<chain, rows, packs, tombs, handoffs, reg>>

\* Mutated: the owner is left set.
FinishKeepsOwner(p) ==
  /\ pass[p] # None /\ pass[p].at = "delete"
  /\ packs' = packs
  /\ Step(p, [pass[p] EXCEPT !.at = "condemn", !.left = {}, !.failed = {},
                             !.doomed = @ \ Plan(p, pass[p].owner)])
  /\ UNCHANGED <<chain, rows, bucket, tombs, handoffs, reg>>

\* The owner is done, or the claim lapsed and nothing more of it is deleted: a
\* retired row whose bytes may still be there goes back to uploaded.
Finish(p) ==
  /\ pass[p] # None /\ pass[p].at = "delete"
  /\ LET mine == Plan(p, pass[p].owner)
         unfinished == IF pass[p].left # {} THEN mine
                       ELSE {x \in mine : x.key \in pass[p].failed}
     IN  /\ packs' = WithState({x.digest : x \in unfinished} \ {None}, "uploaded")
         /\ Step(p, [pass[p] EXCEPT !.at = "condemn", !.owner = None, !.left = {},
                                    !.failed = {}, !.doomed = @ \ mine])
  /\ UNCHANGED <<chain, rows, bucket, tombs, handoffs, reg>>

\* The pass is over, or its process stopped between two steps.
Over(p) ==
  /\ pass[p] # None /\ pass[p].at # "over"
  /\ Step(p, [pass[p] EXCEPT !.at = "over", !.live = {}, !.doomed = {}, !.left = {},
       !.failed = {}, !.read = {}, !.listed = {}, !.owner = None, !.unread = {}, !.aged = {},
       !.guards = NoGuards, !.heads = [w \in Worktree |-> -1], !.fence = [w \in Worktree |-> 0]])
  /\ UNCHANGED <<chain, rows, packs, bucket, tombs, handoffs, reg>>

Next ==
  \/ \E d \in Digest : Age(d)
  \/ \E k \in Key : PutDelta(k) \/ CreateHandedOff(k) \/ Put(k)
  \/ \E w \in Worktree : InitChain(w) \/ Claim(w)
  \/ \E c \in Register :
       \/ Look(c) \/ Check(c) \/ Land(c) \/ Miss(c) \/ Record(c)
       \/ \E w \in Worktree : Compose(c, w) \/ ComposeZero(c, w)
  \/ \E p \in Pass :
       \/ Begin(p) \/ Thin(p) \/ ListPacks(p) \/ DoomPacks(p) \/ SweepFenced(p)
       \/ Retire(p) \/ Finish(p) \/ Over(p)
       \/ \E w \in Worktree : ReadRows(p, w) \/ Condemn(p, w)
       \/ \E k \in Key : Delete(p, k)

Spec == Init /\ [][Next]_vars

-----------------------------------------------------------------------------
(* Properties. *)

\* Whatever the chains name is there: every object a capture names is in the bucket
\* for as long as its row is there, and a chain's head has its row, however
\* registers, thinning and deletes interleave, stall or fail.
NamedIsThere ==
  /\ \A r \in rows : r.names \subseteq bucket
  /\ \A w \in Worktree : chain[w] # None /\ chain[w].n >= 0 =>
       \E r \in rows : r.wt = w /\ r.n = chain[w].n

\* No row names a condemned object: a register and a condemnation that raced never
\* both land.
CondemnedIsUnnamed == \A r \in rows : r.names \cap tombs = {}
=============================================================================
