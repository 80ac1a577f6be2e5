----------------------------- MODULE JobsProofs -----------------------------
(***************************************************************************)
(* Safety of two of the jobs in the background.                            *)
(*                                                                         *)
(* Retention: that a condemned object is never named, and that what        *)
(* captures name is there unless an aged packs row is revived for a        *)
(* worktree that a pass at work has not heard of, for any number of        *)
(* worktrees, keys, registers and passes.                                  *)
(*                                                                         *)
(* Review passes (R): that one job of a pass is live, that what review     *)
(* prep records as queued is read by a pass, and that no settle it could   *)
(* hear of is missed, for any sessions, askers and jobs.  Each rests on an *)
(* inductive invariant of its own: SendInv, CoverInv, HeardInv.            *)
(***************************************************************************)
EXTENDS CaptureRetention, ReviewState, TLAPS

USE ConstantsAssumption

-----------------------------------------------------------------------------
(* Types. *)

\* Recording packs leaves packs rows.
LEMMA RecordedType ==
  ASSUME TypeOK, NEW ks \in SUBSET Key
  PROVE  Recorded(ks) \in [Digest -> Pack \cup {None}]
<1> SUFFICES ASSUME NEW d \in Digest
             PROVE  Recorded(ks)[d] \in Pack \cup {None}
  BY DEF Recorded
<1> DEFINE of == {k \in ks : DigestOf[k] = d}
<1>1. CASE of = {}
  BY <1>1 DEF Recorded, TypeOK
<1>2. CASE of # {}
  <2>1. PICK k : k = CHOOSE x \in of : TRUE
    OBVIOUS
  <2>2. k \in Key
    BY <1>2, <2>1
  <2>3. packs[d] \in Pack \cup {None}
    BY DEF TypeOK
  <2>4. Recorded(ks)[d] = IF packs[d] = None THEN [key |-> k, state |-> "uploaded", old |-> FALSE]
                          ELSE IF packs[d].state = "retired"
                               THEN [packs[d] EXCEPT !.state = "uploaded", !.key = k]
                               ELSE packs[d]
    BY <1>2, <2>1 DEF Recorded
  <2>5. CASE packs[d] = None
    BY <2>2, <2>4, <2>5 DEF Pack
  <2>6. CASE packs[d] # None
    <3>1. packs[d] \in Pack
      BY <2>3, <2>6
    <3>2. [packs[d] EXCEPT !.state = "uploaded", !.key = k] \in Pack
      BY <2>2, <3>1 DEF Pack
    <3> QED
      BY <2>4, <2>6, <3>1, <3>2
  <2> QED
    BY <2>5, <2>6
<1> QED
  BY <1>1, <1>2

\* The initial state is well typed.
LEMMA TypeInit == Init => TypeOK
<1> SUFFICES ASSUME Init PROVE TypeOK
  OBVIOUS
<1>1. chain \in [Worktree -> Chain \cup {None}] /\ rows \in SUBSET Row
  BY DEF Init, Chain, Row, ConstantsAssumption
<1>2. packs \in [Digest -> Pack \cup {None}]
  <2> SUFFICES ASSUME NEW d \in Digest PROVE packs[d] \in Pack \cup {None}
    BY DEF Init
  <2> DEFINE of == {k \in Retired : DigestOf[k] = d}
  <2>1. PICK k : k = CHOOSE x \in of : TRUE
    OBVIOUS
  <2>2. of # {} => k \in Key
    BY <2>1 DEF ConstantsAssumption
  <2>3. packs[d] = IF of = {} THEN None ELSE [key |-> k, state |-> "retired", old |-> TRUE]
    BY <2>1 DEF Init
  <2> QED
    BY <2>2, <2>3 DEF Pack
<1>3. bucket \in SUBSET Key /\ tombs \in SUBSET Key /\ handoffs \in SUBSET Key
  BY DEF Init, ConstantsAssumption
<1> QED
  BY <1>1, <1>2, <1>3 DEF Init, TypeOK

\* A packs row, once there, stays there.
LEMMA RecordedKeeps ==
  ASSUME TypeOK, NEW ks \in SUBSET Key, NEW d \in Digest, packs[d] # None
  PROVE  Recorded(ks)[d] # None
<1> DEFINE of == {k \in ks : DigestOf[k] = d}
<1>1. packs[d] \in Pack
  BY DEF TypeOK
<1>2. PICK k : k = CHOOSE x \in of : TRUE
  OBVIOUS
<1>3. Recorded(ks)[d] = IF of = {} THEN packs[d]
                        ELSE IF packs[d].state = "retired"
                             THEN [packs[d] EXCEPT !.state = "uploaded", !.key = k]
                             ELSE packs[d]
  BY <1>2 DEF Recorded
<1>4. of # {} => [packs[d] EXCEPT !.state = "uploaded", !.key = k] # None
  <2>1. of # {} => k \in Key
    BY <1>2
  <2>2. of # {} => [packs[d] EXCEPT !.state = "uploaded", !.key = k] \in Pack
    BY <1>1, <2>1 DEF Pack
  <2> QED
    BY <1>1, <1>3, <2>2 DEF ConstantsAssumption
<1> QED
  BY <1>3, <1>4

PassMoves(p) ==
  \/ Begin(p) \/ Thin(p) \/ ListPacks(p) \/ DoomPacks(p) \/ SweepFenced(p)
  \/ Retire(p) \/ Finish(p) \/ Over(p)
  \/ \E w \in Worktree : ReadRows(p, w) \/ Condemn(p, w)
  \/ \E k \in Key : Delete(p, k)

\* A pass's action moves that pass alone.
LEMMA OnePassMoves ==
  ASSUME NEW p \in Pass, PassMoves(p)
  PROVE  \E x : Step(p, x)
<1>1. ASSUME NEW w \in Worktree, ReadRows(p, w) \/ Condemn(p, w) PROVE \E x : Step(p, x)
  BY <1>1 DEF ReadRows, Condemn
<1>2. ASSUME NEW k \in Key, Delete(p, k) PROVE \E x : Step(p, x)
  BY <1>2 DEF Delete
<1>3. CASE Begin(p) \/ ListPacks(p) \/ DoomPacks(p)
  BY <1>3 DEF Begin, ListPacks, DoomPacks
<1>4. CASE Thin(p) \/ SweepFenced(p)
  BY <1>4 DEF Thin, SweepFenced
<1>5. CASE Retire(p) \/ Finish(p) \/ Over(p)
  BY <1>5 DEF Retire, Finish, Over
<1> QED
  BY <1>1, <1>2, <1>3, <1>4, <1>5 DEF PassMoves

PacksKeep ==
  /\ packs' \in [Digest -> Pack \cup {None}]
  /\ \A d \in Digest : packs[d] # None => packs'[d] # None

\* Changing the state of rows that are there keeps every row.
LEMMA WithStateKeeps ==
  ASSUME TypeOK, NEW ds, NEW st \in {"uploaded", "retired"}, packs' = WithState(ds, st),
         \A d \in Digest : d \in ds => packs[d] # None
  PROVE  PacksKeep
<1> SUFFICES ASSUME NEW d \in Digest
             PROVE  /\ packs'[d] \in Pack \cup {None}
                    /\ packs[d] # None => packs'[d] # None
  BY DEF PacksKeep, WithState
<1>1. packs[d] \in Pack \cup {None}
  BY DEF TypeOK
<1>2. CASE d \in ds
  <2>1. packs'[d] = [packs[d] EXCEPT !.state = st] /\ packs[d] \in Pack
    BY <1>1, <1>2 DEF WithState
  <2>2. packs'[d] \in Pack
    BY <2>1 DEF Pack
  <2> QED
    BY <2>2 DEF ConstantsAssumption
<1>3. CASE d \notin ds
  BY <1>1, <1>3 DEF WithState
<1> QED
  BY <1>2, <1>3

\* No step loses a packs row.
LEMMA EveryStepKeepsPacks == TypeOK /\ [Next]_vars => PacksKeep
<1> SUFFICES ASSUME TypeOK, [Next]_vars PROVE PacksKeep
  OBVIOUS
<1>1. ASSUME NEW ks \in SUBSET Key, packs' = Recorded(ks) PROVE PacksKeep
  BY <1>1, RecordedType, RecordedKeeps DEF PacksKeep
<1>2. ASSUME NEW d \in Digest, Age(d) PROVE PacksKeep
  <2>1. packs[d] \in Pack /\ packs' = [packs EXCEPT ![d] = [packs[d] EXCEPT !.old = TRUE]]
    BY <1>2 DEF Age, TypeOK
  <2>2. [packs[d] EXCEPT !.old = TRUE] \in Pack
    BY <2>1 DEF Pack
  <2> QED
    BY <2>1, <2>2 DEF PacksKeep, TypeOK, ConstantsAssumption
<1>3. ASSUME NEW k \in Key, PutDelta(k) PROVE PacksKeep
  BY <1>1, <1>3 DEF PutDelta
<1>4. ASSUME NEW c \in Register, Record(c) PROVE PacksKeep
  <2>1. reg[c].row.names \in SUBSET Key
    BY <1>4 DEF Record, TypeOK, RegState, Row
  <2>2. CASE packs' = packs
    BY <2>2 DEF PacksKeep, TypeOK
  <2> QED
    BY <1>1, <1>4, <2>1, <2>2 DEF Record
<1>5. ASSUME NEW p \in Pass, Retire(p) PROVE PacksKeep
  <2>1. packs' = WithState(PlanDigests(p), "retired")
    BY <1>5 DEF Retire
  <2>2. \A d \in Digest : d \in PlanDigests(p) => packs[d] # None
    BY <1>5 DEF Retire, PlanDigests, Plan, TypeOK
  <2> QED
    BY <2>1, <2>2, WithStateKeeps
<1>6. ASSUME NEW p \in Pass, Finish(p) PROVE PacksKeep
  <2> DEFINE mine == Plan(p, pass[p].owner)
             unfinished == IF pass[p].left # {} THEN mine
                           ELSE {x \in mine : x.key \in pass[p].failed}
             ds == {x.digest : x \in unfinished}
  <2>3. packs' = WithState(ds \ {None}, "uploaded")
    BY <1>6 DEF Finish
  <2>1. packs' = WithState(ds \ {None}, "uploaded") /\ ds \subseteq {x.digest : x \in pass[p].doomed}
    BY <2>3 DEF Plan
  <2>2. \A d \in Digest : d \in ds \ {None} => packs[d] # None
    <3>1. \A x \in pass[p].doomed : x.digest # None => packs[x.digest] # None
      BY <1>6 DEF Finish, TypeOK
    <3> HIDE DEF ds
    <3> QED
      BY <2>1, <3>1
  <2> QED
    BY <2>1, <2>2, WithStateKeeps
<1>7. CASE packs' = packs
  BY <1>7 DEF PacksKeep, TypeOK
<1> QED
  BY <1>2, <1>3, <1>4, <1>5, <1>6, <1>7
  DEF Next, vars, CreateHandedOff, InitChain, Claim, Put, Look, Check, Land, Miss, Compose,
      ComposeZero, Begin, ReadRows, Thin, ListPacks, DoomPacks, SweepFenced, Condemn, Delete, Over

\* A pass keeps its shape, owns a chain's plan only while it carries it out, and
\* dooms only packs that have a row.
PassShape(q, pk) ==
  /\ q \in PassState
  /\ q.owner # None <=> q.at \in Owning
  /\ \A x \in q.listed : pk[x.digest] # None
  /\ \A x \in q.doomed : x.digest # None => pk[x.digest] # None

\* A pass's shape outlives a step that loses no packs row.
LEMMA ShapeStays ==
  ASSUME PacksKeep, NEW q, PassShape(q, packs)
  PROVE  PassShape(q, packs')
<1>1. \A x \in q.listed : x.digest \in Digest
  BY DEF PassShape, PassState
<1>2. \A x \in q.doomed : x.digest # None => x.digest \in Digest
  BY DEF PassShape, PassState
<1> QED
  BY <1>1, <1>2 DEF PassShape, PacksKeep

\* The fields of a pass.
LEMMA PassFields ==
  ASSUME NEW q \in PassState
  PROVE  /\ q = [at |-> q.at, guards |-> q.guards, heads |-> q.heads, aged |-> q.aged,
                 unread |-> q.unread, read |-> q.read, live |-> q.live, fence |-> q.fence,
                 listed |-> q.listed, doomed |-> q.doomed, owner |-> q.owner,
                 left |-> q.left, failed |-> q.failed]
         /\ q.guards \in Guards /\ q.heads \in [Worktree -> Nat \cup {-1}]
         /\ q.aged \in SUBSET Digest /\ q.unread \in SUBSET Worktree
         /\ q.read \in SUBSET Row /\ q.live \in SUBSET Key /\ q.fence \in [Worktree -> Nat]
         /\ q.listed \in SUBSET [digest : Digest, key : Key]
         /\ q.doomed \in SUBSET [key : Key, digest : Digest \cup {None}]
         /\ q.owner \in Worktree \cup {None} /\ q.left \in SUBSET Key
         /\ q.failed \in SUBSET Key
BY DEF PassState

\* A pass that moves keeps its shape.
LEMMA PassTypes ==
  ASSUME TypeOK, PacksKeep, NEW p \in Pass, PassMoves(p)
  PROVE  PassShape(pass'[p], packs')
<1> DEFINE q == pass[p]
           q2 == pass'[p]
<1>0. q # None => q \in PassState
  BY DEF TypeOK
<1>1. q # None => PassShape(q, packs')
  BY ShapeStays DEF TypeOK, PassShape
<1>2. CASE Begin(p)
  <2>1. q2 = [at |-> "rows",
              guards |-> [w \in Worktree |-> IF chain[w] = None THEN None ELSE chain[w].guard],
              heads |-> [w \in Worktree |-> IF chain[w] = None THEN -1 ELSE chain[w].n],
              aged |-> {d \in Digest : packs[d] # None /\ packs[d].old},
              unread |-> {w \in Worktree : chain[w] # None},
              read |-> {}, live |-> {}, fence |-> [w \in Worktree |-> 0],
              listed |-> {}, doomed |-> {}, owner |-> None, left |-> {}, failed |-> {}]
    BY <1>2 DEF Begin, Step, TypeOK
  <2>2. \A w \in Worktree : chain[w] # None => chain[w].guard \in Nat /\ chain[w].n \in Nat \cup {-1}
    BY DEF TypeOK, Chain
  <2>3. [w \in Worktree |-> IF chain[w] = None THEN None ELSE chain[w].guard] \in Guards
    BY <2>2 DEF Guards
  <2>4. [w \in Worktree |-> IF chain[w] = None THEN -1 ELSE chain[w].n]
          \in [Worktree -> Nat \cup {-1}]
    BY <2>2
  <2>5. q2 \in PassState
    BY <2>1, <2>3, <2>4 DEF PassState
  <2> QED
    BY <2>1, <2>5 DEF PassShape, Owning
<1>3. ASSUME NEW w \in Worktree, ReadRows(p, w) PROVE PassShape(q2, packs')
  <2>1. /\ q # None
        /\ q2 = [q EXCEPT !.at = "thin", !.read = RowsOf(w), !.owner = w, !.unread = @ \ {w}]
    BY <1>3 DEF ReadRows, Step, TypeOK
  <2>2. RowsOf(w) \in SUBSET Row
    BY DEF RowsOf, TypeOK
  <2>10. q2 \in PassState
    <3>1. q \in PassState
      BY <1>0, <2>1
    <3>2. q2 = [at |-> "thin", guards |-> q.guards, heads |-> q.heads, aged
                |-> q.aged, unread |-> q.unread \ {w}, read |-> RowsOf(w),
                live |-> q.live, fence |-> q.fence, listed |-> q.listed,
                doomed |-> q.doomed, owner |-> w, left |-> q.left, failed
                |-> q.failed]
      BY <3>1, <2>1 DEF PassState
    <3>3. RowsOf(w) \in SUBSET Row /\ q.unread \ {w} \in SUBSET Worktree
      BY <3>1, <2>2, PassFields
    <3> QED
      BY <3>1, <3>2, <3>3, PassFields DEF PassState
  <2>11. q2.at = "thin" /\ q2.owner = w /\ q2.listed = q.listed /\ q2.doomed = q.doomed
    BY <1>0, <2>1, <2>2 DEF PassState
  <2> QED
    BY <1>1, <2>1, <2>10, <2>11 DEF PassShape, Owning, ConstantsAssumption
<1>4. CASE Thin(p)
  <2>1. q # None /\ q.at = "thin"
    BY <1>4 DEF Thin
  <2>2. PICK drop : Step(p, Thinned(q, drop))
    BY <1>4 DEF Thin
  <2>3. q2 = Thinned(q, drop)
    BY <2>2 DEF Step, TypeOK
  <2>4. q \in PassState /\ q.owner \in Worktree
    BY <1>1, <2>1 DEF PassShape, PassState, Owning
  <2> DEFINE kept == q.read \ drop
             head == {r \in kept : r.n = q.heads[q.owner]}
             alive == q.live \cup UNION {r.names : r \in kept}
             epoch == IF head = {} THEN 0 ELSE (CHOOSE r \in head : TRUE).epoch
  <2>5. q2 = [q EXCEPT !.at = "rows", !.read = {}, !.owner = None, !.live = alive,
                       !.fence = [@ EXCEPT ![q.owner] = epoch]]
    BY <2>3 DEF Thinned
  <2>6. kept \subseteq Row
    BY <2>4 DEF PassState
  <2>7. alive \in SUBSET Key
    BY <2>4, <2>6 DEF PassState, Row
  <2>8. epoch \in Nat
    <3>1. PICK r : r = CHOOSE x \in head : TRUE
      OBVIOUS
    <3>2. head # {} => r \in Row
      BY <2>6, <3>1
    <3> QED
      BY <3>1, <3>2 DEF Row
  <2>9. [q.fence EXCEPT ![q.owner] = epoch] \in [Worktree -> Nat]
    BY <2>4, <2>8 DEF PassState
  <2> HIDE DEF alive, epoch
  <2>10. q2 \in PassState
    <3>1. q \in PassState
      BY <1>0, <2>1
    <3>2. q2 = [at |-> "rows", guards |-> q.guards, heads |-> q.heads, aged
                |-> q.aged, unread |-> q.unread, read |-> {}, live |->
                alive, fence |-> [q.fence EXCEPT ![q.owner] = epoch], listed
                |-> q.listed, doomed |-> q.doomed, owner |-> None, left |->
                q.left, failed |-> q.failed]
      BY <3>1, <2>5 DEF PassState
    <3>3. alive \in SUBSET Key /\ [q.fence EXCEPT ![q.owner] = epoch] \in [Worktree -> Nat]
      BY <3>1, <2>7, <2>9, PassFields
    <3> QED
      BY <3>1, <3>2, <3>3, PassFields DEF PassState
  <2>11. q2.at = "rows" /\ q2.owner = None /\ q2.listed = q.listed /\ q2.doomed = q.doomed
    BY <1>0, <2>1, <2>5, <2>7, <2>9 DEF PassState
  <2> QED
    BY <1>1, <2>1, <2>10, <2>11 DEF PassShape, Owning, ConstantsAssumption
<1>5. CASE ListPacks(p)
  <2> DEFINE ls == {[digest |-> d, key |-> packs[d].key] :
                      d \in {d \in Digest : packs[d] # None /\ packs[d].state # "retired"}}
  <2>1. q # None /\ q.at = "rows" /\ q2 = [q EXCEPT !.at = "doom", !.listed = ls] /\ packs' = packs
    BY <1>5 DEF ListPacks, Step, TypeOK
  <2>2. ls \in SUBSET [digest : Digest, key : Key]
    BY DEF TypeOK, Pack
  <2>3. \A x \in ls : packs[x.digest] # None
    OBVIOUS
  <2> HIDE DEF ls
  <2>10. q2 \in PassState
    BY <1>0, <2>1, <2>2 DEF PassState
  <2>11. q2.at = "doom" /\ q2.owner = q.owner /\ q2.listed = ls /\ q2.doomed = q.doomed
    BY <1>0, <2>1, <2>2 DEF PassState
  <2> QED
    BY <1>1, <2>1, <2>10, <2>11, <2>3 DEF PassShape, Owning, ConstantsAssumption
<1>6. CASE DoomPacks(p)
  <2> DEFINE live == q.live \cup handoffs
             gone == {x \in q.listed : x.digest \in q.aged /\ x.key \notin live}
             ds   == {[key |-> x.key, digest |-> x.digest] : x \in gone}
  <2>1. q # None /\ q.at = "doom" /\ q2 = PacksDoomed(q)
    BY <1>6 DEF DoomPacks, Step, TypeOK
  <2>2. q2 = [q EXCEPT !.at = "sweep", !.live = live, !.doomed = ds]
    BY <2>1 DEF PacksDoomed
  <2>3. live \in SUBSET Key
    BY <1>1, <2>1 DEF PassShape, PassState, TypeOK
  <2>4. gone \subseteq [digest : Digest, key : Key]
    BY <1>1, <2>1 DEF PassShape, PassState
  <2>5. ds \in SUBSET [key : Key, digest : Digest \cup {None}]
    BY <2>4
  <2>6. \A x \in ds : packs'[x.digest] # None
    BY <1>1, <2>1 DEF PassShape
  <2> HIDE DEF live, ds
  <2>10. q2 \in PassState
    BY <1>0, <2>1, <2>2, <2>3, <2>5 DEF PassState
  <2>11. q2.at = "sweep" /\ q2.owner = q.owner /\ q2.listed = q.listed /\ q2.doomed = ds
    BY <1>0, <2>1, <2>2, <2>3, <2>5 DEF PassState
  <2> QED
    BY <1>1, <2>1, <2>10, <2>11, <2>6 DEF PassShape, Owning, ConstantsAssumption
<1>7. CASE SweepFenced(p)
  <2>1. PICK swept \in {{}, Fenced(q)} : Step(p, FencedDoomed(q, swept))
    BY <1>7 DEF SweepFenced
  <2> DEFINE new == {[key |-> k, digest |-> None] : k \in swept}
             ds  == q.doomed \cup new
  <2>2. /\ q # None /\ q.at = "sweep"
        /\ q2 = [q EXCEPT !.at = "condemn", !.listed = {}, !.doomed = ds]
    BY <1>7, <2>1 DEF SweepFenced, Step, TypeOK, FencedDoomed
  <2>3. swept \subseteq Key
    BY <2>1 DEF Fenced, TypeOK
  <2>4. new \in SUBSET [key : Key, digest : Digest \cup {None}]
    BY <2>3
  <2>5. ds \in SUBSET [key : Key, digest : Digest \cup {None}]
    BY <1>1, <2>2, <2>4 DEF PassShape, PassState
  <2>6. \A x \in ds : x.digest # None => packs'[x.digest] # None
    BY <1>1, <2>2 DEF PassShape
  <2> HIDE DEF ds
  <2>10. q2 \in PassState
    BY <1>0, <2>2, <2>5 DEF PassState
  <2>11. q2.at = "condemn" /\ q2.owner = q.owner /\ q2.listed = {} /\ q2.doomed = ds
    BY <1>0, <2>2, <2>5 DEF PassState
  <2> QED
    BY <1>1, <2>2, <2>10, <2>11, <2>6 DEF PassShape, Owning, ConstantsAssumption
<1>8. ASSUME NEW w \in Worktree, Condemn(p, w) PROVE PassShape(q2, packs')
  <2> DEFINE ks == KeysIn(Plan(p, w))
  <2>1. /\ q # None /\ q.at = "condemn"
        /\ \/ q2 = [q EXCEPT !.at = "retire", !.owner = w, !.left = ks]
           \/ q2 = [q EXCEPT !.doomed = @ \ Plan(p, w)]
    BY <1>8 DEF Condemn, Step, TypeOK
  <2>2. ks \in SUBSET Key
    BY <1>1, <2>1 DEF KeysIn, Plan, PassShape, PassState
  <2> HIDE DEF ks
  <2>3. CASE q2 = [q EXCEPT !.at = "retire", !.owner = w, !.left = ks]
    <3>1. q2 \in PassState
      <4>1. q \in PassState
        BY <1>0, <2>1
      <4>2. q2 = [at |-> "retire", guards |-> q.guards, heads |-> q.heads,
                  aged |-> q.aged, unread |-> q.unread, read |-> q.read,
                  live |-> q.live, fence |-> q.fence, listed |-> q.listed,
                  doomed |-> q.doomed, owner |-> w, left |-> ks, failed |->
                  q.failed]
        BY <4>1, <2>3 DEF PassState
      <4>3. ks \in SUBSET Key
        BY <4>1, <2>2, PassFields
      <4> QED
        BY <4>1, <4>2, <4>3, PassFields DEF PassState
    <3>2. q2.at = "retire" /\ q2.owner = w /\ q2.listed = q.listed /\ q2.doomed = q.doomed
      BY <1>0, <2>1, <2>2, <2>3 DEF PassState
    <3> QED
      BY <1>1, <2>1, <3>1, <3>2 DEF PassShape, Owning, ConstantsAssumption
  <2>4. CASE q2 = [q EXCEPT !.doomed = @ \ Plan(p, w)]
    <3>1. q2 \in PassState
      BY <1>0, <2>1, <2>4 DEF PassState
    <3>2. /\ q2.at = q.at /\ q2.owner = q.owner /\ q2.listed = q.listed
          /\ q2.doomed \subseteq q.doomed
      BY <1>0, <2>1, <2>4 DEF PassState
    <3> QED
      BY <1>1, <2>1, <3>1, <3>2 DEF PassShape
  <2> QED
    BY <2>1, <2>3, <2>4
<1>9. CASE Retire(p)
  <2>1. q # None /\ q.at = "retire" /\ q2 = [q EXCEPT !.at = "delete"]
    BY <1>9 DEF Retire, Step, TypeOK
  <2>10. q2 \in PassState
    BY <1>0, <2>1 DEF PassState
  <2>11. q2.at = "delete" /\ q2.owner = q.owner /\ q2.listed = q.listed /\ q2.doomed = q.doomed
    BY <1>0, <2>1 DEF PassState
  <2> QED
    BY <1>1, <2>1, <2>10, <2>11 DEF PassShape, Owning, ConstantsAssumption
<1>10. ASSUME NEW k \in Key, Delete(p, k) PROVE PassShape(q2, packs')
  <2>1. /\ q # None
        /\ \/ q2 = [q EXCEPT !.left = @ \ {k}]
           \/ q2 = [q EXCEPT !.left = @ \ {k}, !.failed = @ \cup {k}]
    BY <1>10 DEF Delete, Step, TypeOK
  <2>2. CASE q2 = [q EXCEPT !.left = @ \ {k}]
    <3>1. q2 \in PassState
      BY <1>0, <2>1, <2>2 DEF PassState
    <3>2. q2.at = q.at /\ q2.owner = q.owner /\ q2.listed = q.listed /\ q2.doomed = q.doomed
      BY <1>0, <2>1, <2>2 DEF PassState
    <3> QED
      BY <1>1, <2>1, <3>1, <3>2 DEF PassShape
  <2>3. CASE q2 = [q EXCEPT !.left = @ \ {k}, !.failed = @ \cup {k}]
    <3>1. q2 \in PassState
      <4>1. q \in PassState
        BY <1>0, <2>1
      <4>2. q2 = [at |-> q.at, guards |-> q.guards, heads |-> q.heads, aged |-> q.aged,
                  unread |-> q.unread, read |-> q.read, live |-> q.live, fence |-> q.fence,
                  listed |-> q.listed, doomed |-> q.doomed, owner |-> q.owner,
                  left |-> q.left \ {k}, failed |-> q.failed \cup {k}]
        BY <4>1, <2>3 DEF PassState
      <4>3. q.left \ {k} \in SUBSET Key /\ q.failed \cup {k} \in SUBSET Key
        BY <4>1, PassFields
      <4> QED
        BY <4>1, <4>2, <4>3, PassFields DEF PassState
    <3>2. q2.at = q.at /\ q2.owner = q.owner /\ q2.listed = q.listed /\ q2.doomed = q.doomed
      BY <1>0, <2>1, <2>3 DEF PassState
    <3> QED
      BY <1>1, <2>1, <3>1, <3>2 DEF PassShape
  <2> QED
    BY <2>1, <2>2, <2>3
<1>11. CASE Finish(p)
  <2>1. /\ q # None /\ q.at = "delete"
        /\ q2 = [q EXCEPT !.at = "condemn", !.owner = None, !.left = {},
                          !.failed = {}, !.doomed = @ \ Plan(p, q.owner)]
    BY <1>11 DEF Finish, Step, TypeOK
  <2>10. q2 \in PassState
    <3>1. q \in PassState
      BY <1>0, <2>1
    <3>2. q2 = [at |-> "condemn", guards |-> q.guards, heads |-> q.heads,
                aged |-> q.aged, unread |-> q.unread, read |-> q.read, live
                |-> q.live, fence |-> q.fence, listed |-> q.listed, doomed
                |-> q.doomed \ Plan(p, q.owner), owner |-> None, left |->
                {}, failed |-> {}]
      BY <3>1, <2>1 DEF PassState
    <3>3. q.doomed \ Plan(p, q.owner) \in SUBSET [key : Key, digest : Digest \cup {None}]
      BY <3>1, <2>1, PassFields
    <3> QED
      BY <3>1, <3>2, <3>3, PassFields DEF PassState
  <2>11. q2.at = "condemn" /\ q2.owner = None /\ q2.listed = q.listed /\ q2.doomed \subseteq q.doomed
    BY <1>0, <2>1 DEF PassState
  <2> QED
    BY <1>1, <2>1, <2>10, <2>11 DEF PassShape, Owning, ConstantsAssumption
<1>12. CASE Over(p)
  <2>1. /\ q # None
        /\ q2 = [q EXCEPT !.at = "over", !.live = {}, !.doomed = {}, !.left = {},
             !.failed = {}, !.read = {}, !.listed = {}, !.owner = None, !.unread = {},
             !.aged = {}, !.guards = NoGuards, !.heads = [w \in Worktree |-> -1],
             !.fence = [w \in Worktree |-> 0]]
    BY <1>12 DEF Over, Step, TypeOK
  <2>2. NoGuards \in Guards
    BY DEF NoGuards, Guards
  <2>10. q2 \in PassState
    <3>1. q \in PassState
      BY <1>0, <2>1
    <3>2. q2 = [at |-> "over", guards |-> NoGuards, heads |-> [w \in
                Worktree |-> -1], aged |-> {}, unread |-> {}, read |-> {},
                live |-> {}, fence |-> [w \in Worktree |-> 0], listed |->
                {}, doomed |-> {}, owner |-> None, left |-> {}, failed |->
                {}]
      BY <3>1, <2>1 DEF PassState
    <3>3. NoGuards \in Guards
      BY <3>1, <2>2, PassFields
    <3> QED
      BY <3>1, <3>2, <3>3, PassFields DEF PassState
  <2>11. q2.at = "over" /\ q2.owner = None /\ q2.listed = {} /\ q2.doomed = {}
    BY <1>0, <2>1, <2>2 DEF PassState
  <2> QED
    BY <1>1, <2>1, <2>10, <2>11 DEF PassShape, Owning, ConstantsAssumption
<1> QED
  BY <1>2, <1>3, <1>4, <1>5, <1>6, <1>7, <1>8, <1>9, <1>10, <1>11, <1>12 DEF PassMoves

\* A register that moves on keeps its fields.
LEMMA RegTypes ==
  ASSUME NEW q \in RegState, NEW g \in Guards,
         NEW s \in {"composed", "looked", "checked", "landed"}
  PROVE  /\ [q EXCEPT !.at = s] \in RegState
         /\ [q EXCEPT !.at = s, !.guards = g] \in RegState
<1>1. [q EXCEPT !.at = s] \in RegState
  BY DEF RegState
<1>2. [[q EXCEPT !.at = s] EXCEPT !.guards = g] \in RegState
  BY <1>1 DEF RegState
<1>3. [q EXCEPT !.at = s, !.guards = g] = [[q EXCEPT !.at = s] EXCEPT !.guards = g]
  BY DEF RegState
<1> QED
  BY <1>1, <1>2, <1>3

\* A composed register is well typed.
LEMMA NewRegType ==
  ASSUME TypeOK, NEW c \in Register, NEW w \in Worktree, NEW ks \in SUBSET Key,
         NEW zero \in BOOLEAN, chain[w] # None, reg' = NewReg(c, w, ks, zero)
  PROVE  reg' \in [Register -> RegState \cup {None}]
<1>1. chain[w] \in Chain
  BY DEF TypeOK
<1>2. chain[w].n + 1 \in Nat /\ chain[w].epoch \in Nat
  BY <1>1 DEF Chain
<1>3. [wt |-> w, n |-> chain[w].n + 1, epoch |-> chain[w].epoch, names |-> ks] \in Row
  BY <1>2 DEF Row
<1>4. NoGuards \in Guards
  BY DEF NoGuards, Guards
<1> QED
  BY <1>3, <1>4 DEF NewReg, RegState, TypeOK

\* Every step leaves well typed registers.
LEMMA RegTypeStep == TypeOK /\ [Next]_vars => reg' \in [Register -> RegState \cup {None}]
<1> SUFFICES ASSUME TypeOK, [Next]_vars PROVE reg' \in [Register -> RegState \cup {None}]
  OBVIOUS
<1>1. NoGuards \in Guards
  BY DEF NoGuards, Guards
<1>2. ASSUME NEW c \in Register, NEW w \in Worktree, Compose(c, w)
      PROVE  reg' \in [Register -> RegState \cup {None}]
  <2>1. PICK ks \in SUBSET Key : reg' = NewReg(c, w, ks, FALSE)
    BY <1>2 DEF Compose, TypeOK
  <2> QED
    BY <1>2, <2>1, NewRegType DEF Compose
<1>3. ASSUME NEW c \in Register, NEW w \in Worktree, ComposeZero(c, w)
      PROVE  reg' \in [Register -> RegState \cup {None}]
  <2>1. {k \in handoffs : OwnerOf[k] = w} \in SUBSET Key
    BY DEF TypeOK
  <2> QED
    BY <1>3, <2>1, NewRegType DEF ComposeZero
<1>4. ASSUME NEW c \in Register, Look(c) PROVE reg' \in [Register -> RegState \cup {None}]
  <2> DEFINE ws == Owners(reg[c].row.names) \cup {reg[c].row.wt}
             g == [w \in Worktree |-> IF w \in ws THEN chain[w].guard ELSE None]
  <2>1. \/ reg' = [reg EXCEPT ![c] = None]
        \/ /\ \A w \in ws : chain[w] # None
           /\ reg' = [reg EXCEPT ![c] = [reg[c] EXCEPT !.at = "looked", !.guards = g]]
    BY <1>4 DEF Look
  <2>2. (\A w \in ws : chain[w] # None) => g \in Guards
    BY DEF Guards, TypeOK, Chain
  <2> HIDE DEF g
  <2>3. (\A w \in ws : chain[w] # None) =>
          [reg[c] EXCEPT !.at = "looked", !.guards = g] \in RegState
    BY <1>4, <2>2, RegTypes DEF Look, TypeOK
  <2> QED
    BY <2>1, <2>3 DEF TypeOK
<1>5. ASSUME NEW c \in Register, Check(c) PROVE reg' \in [Register -> RegState \cup {None}]
  <2>1. reg[c] \in RegState
    BY <1>5 DEF Check, TypeOK
  <2>2. [reg[c] EXCEPT !.at = "checked"] \in RegState
    BY <1>1, <2>1, RegTypes
  <2> QED
    BY <1>5, <2>2 DEF Check, TypeOK
<1>6. ASSUME NEW c \in Register, Land(c) PROVE reg' \in [Register -> RegState \cup {None}]
  BY <1>1, <1>6, RegTypes DEF Land, TypeOK
<1>7. ASSUME NEW c \in Register, Miss(c) PROVE reg' \in [Register -> RegState \cup {None}]
  <2>1. reg[c] \in RegState
    BY <1>7 DEF Miss, TypeOK
  <2>2. [reg[c] EXCEPT !.at = "composed", !.guards = NoGuards] \in RegState
    BY <1>1, <2>1, RegTypes
  <2> QED
    BY <1>7, <2>2 DEF Miss, TypeOK
<1>8. ASSUME NEW c \in Register, Record(c) PROVE reg' \in [Register -> RegState \cup {None}]
  BY <1>8 DEF Record, TypeOK
<1>9. CASE UNCHANGED reg
  BY <1>9 DEF TypeOK
<1> QED
  BY <1>2, <1>3, <1>4, <1>5, <1>6, <1>7, <1>8, <1>9
  DEF Next, vars, Age, PutDelta, CreateHandedOff, InitChain, Claim, Put, Begin, ReadRows, Thin,
      ListPacks, DoomPacks, SweepFenced, Condemn, Retire, Delete, Finish, Over

\* Bumping guards leaves chains.
LEMMA BumpedType ==
  ASSUME TypeOK, NEW r \in Row, NEW g \in Guards, GuardsHold(g), chain[r.wt] # None
  PROVE  Bumped(r, g) \in [Worktree -> Chain \cup {None}]
<1> SUFFICES ASSUME NEW w \in Worktree PROVE Bumped(r, g)[w] \in Chain \cup {None}
  BY DEF Bumped
<1>1. chain[w] \in Chain \cup {None} /\ r.n \in Nat
  BY DEF TypeOK, Row
<1>2. CASE w = r.wt
  <2>1. chain[w] \in Chain
    BY <1>1, <1>2
  <2>2. Bumped(r, g)[w] = [chain[w] EXCEPT !.n = r.n, !.guard = chain[w].guard + 1]
    BY <1>2 DEF Bumped
  <2>3. Bumped(r, g)[w] = [n |-> r.n, epoch |-> chain[w].epoch, guard |-> chain[w].guard + 1]
    BY <2>1, <2>2 DEF Chain
  <2>4. chain[w].epoch \in Nat /\ chain[w].guard + 1 \in Nat
    BY <2>1 DEF Chain
  <2> QED
    BY <1>1, <2>3, <2>4 DEF Chain
<1>3. CASE w # r.wt /\ g[w] # None
  <2>1. chain[w] \in Chain
    BY <1>1, <1>3 DEF GuardsHold
  <2>2. Bumped(r, g)[w] = [chain[w] EXCEPT !.guard = chain[w].guard + 1]
    BY <1>3 DEF Bumped
  <2> QED
    BY <2>1, <2>2 DEF Chain
<1>4. CASE w # r.wt /\ g[w] = None
  BY <1>1, <1>4 DEF Bumped
<1> QED
  BY <1>2, <1>3, <1>4

\* Every step leaves well typed chains, rows, objects and tombstones.
LEMMA StoreTypeStep ==
  TypeOK /\ [Next]_vars =>
    /\ chain' \in [Worktree -> Chain \cup {None}] /\ rows' \in SUBSET Row
    /\ bucket' \in SUBSET Key /\ tombs' \in SUBSET Key /\ handoffs' \in SUBSET Key
<1> DEFINE Goal == /\ chain' \in [Worktree -> Chain \cup {None}] /\ rows' \in SUBSET Row
                   /\ bucket' \in SUBSET Key /\ tombs' \in SUBSET Key /\ handoffs' \in SUBSET Key
<1> SUFFICES ASSUME TypeOK, [Next]_vars PROVE Goal
  OBVIOUS
<1>1. ASSUME NEW k \in Key, PutDelta(k) \/ CreateHandedOff(k) \/ Put(k) PROVE Goal
  BY <1>1 DEF PutDelta, CreateHandedOff, Put, TypeOK
<1>2. ASSUME NEW w \in Worktree, InitChain(w) PROVE Goal
  BY <1>2 DEF InitChain, NewChain, Chain, TypeOK
<1>3. ASSUME NEW w \in Worktree, Claim(w) PROVE Goal
  <2>1. chain[w] \in Chain /\ chain' = [chain EXCEPT ![w] = [chain[w] EXCEPT !.epoch = @ + 1]]
    BY <1>3 DEF Claim, TypeOK
  <2>2. [chain[w] EXCEPT !.epoch = @ + 1] \in Chain
    BY <2>1 DEF Chain
  <2> QED
    BY <1>3, <2>1, <2>2 DEF Claim, TypeOK
<1>4. ASSUME NEW c \in Register, Land(c) PROVE Goal
  <2>1. reg[c].row \in Row /\ reg[c].guards \in Guards
    BY <1>4 DEF Land, TypeOK, RegState
  <2> QED
    BY <1>4, <2>1, BumpedType DEF Land, CanLand, TypeOK
<1>5. ASSUME NEW p \in Pass, Thin(p) PROVE Goal
  BY <1>5 DEF Thin, TypeOK
<1>6. ASSUME NEW p \in Pass, NEW w \in Worktree, Condemn(p, w) PROVE Goal
  <2>1. KeysIn(Plan(p, w)) \in SUBSET Key
    BY <1>6 DEF Condemn, KeysIn, Plan, TypeOK, PassState
  <2>2. CASE chain' = [chain EXCEPT ![w].guard = @ + 1] /\ chain[w] # None
    <3>1. chain[w] \in Chain /\ chain' = [chain EXCEPT ![w] = [chain[w] EXCEPT !.guard = @ + 1]]
      BY <2>2 DEF TypeOK
    <3>2. [chain[w] EXCEPT !.guard = @ + 1] \in Chain
      BY <3>1 DEF Chain
    <3> QED
      BY <1>6, <2>1, <3>1, <3>2 DEF Condemn, TypeOK
  <2>3. CASE UNCHANGED chain
    BY <1>6, <2>1, <2>3 DEF Condemn, TypeOK
  <2> QED
    BY <1>6, <2>2, <2>3 DEF Condemn, CondemnHolds
<1>7. ASSUME NEW p \in Pass, NEW k \in Key, Delete(p, k) PROVE Goal
  BY <1>7 DEF Delete, TypeOK
<1>8. CASE UNCHANGED <<chain, rows, bucket, tombs, handoffs>>
  BY <1>8 DEF TypeOK
<1>9. ASSUME NEW c \in Register, Miss(c) PROVE Goal
  <2>1. \A w \in Worktree : chain[w] # None => [chain[w] EXCEPT !.guard = @ + 1] \in Chain
    BY DEF TypeOK, Chain
  <2>2. chain' \in [Worktree -> Chain \cup {None}]
    BY <1>9, <2>1 DEF Miss, Missed, TypeOK
  <2> QED
    BY <1>9, <2>2 DEF Miss, TypeOK
<1> QED
  BY <1>1, <1>2, <1>3, <1>4, <1>5, <1>6, <1>7, <1>8, <1>9
  DEF Next, vars, Age, Look, Check, Record, Compose, ComposeZero, Begin, ReadRows,
      ListPacks, DoomPacks, SweepFenced, Retire, Finish, Over

\* No step breaks a type.
LEMMA TypeNext == TypeOK /\ [Next]_vars => TypeOK'
<1> SUFFICES ASSUME TypeOK, [Next]_vars PROVE TypeOK'
  OBVIOUS
<1>1. PacksKeep
  BY EveryStepKeepsPacks
<1>2. pass' \in [Pass -> PassState \cup {None}]
      /\ \A p \in Pass : pass'[p] # None => PassShape(pass'[p], packs')
  <2>1. CASE pass' = pass
    BY <1>1, <2>1, ShapeStays DEF TypeOK, PassShape
  <2>2. CASE pass' # pass
    <3>1. \E p \in Pass : PassMoves(p)
      BY <2>2
      DEF PassMoves, Next, vars, Age, PutDelta, CreateHandedOff, InitChain, Claim, Put, Look,
          Check, Land, Miss, Record, Compose, ComposeZero
    <3>2. PICK p \in Pass : PassMoves(p)
      BY <3>1
    <3>3. PICK x : Step(p, x)
      BY <3>2, OnePassMoves
    <3>4. PassShape(pass'[p], packs')
      BY <1>1, <3>2, PassTypes
    <3>5. pass' = [pass EXCEPT ![p] = pass'[p]]
      BY <3>3 DEF Step, TypeOK
    <3>6. \A p2 \in Pass : p2 # p => pass'[p2] = pass[p2]
      BY <3>3 DEF Step, TypeOK
    <3>7. \A p2 \in Pass : pass[p2] # None => PassShape(pass[p2], packs')
      BY <1>1, ShapeStays DEF TypeOK, PassShape
    <3> QED
      BY <3>4, <3>5, <3>6, <3>7 DEF TypeOK, PassShape
  <2> QED
    BY <2>1, <2>2
<1> QED
  BY <1>1, <1>2, RegTypeStep, StoreTypeStep DEF TypeOK, PassShape, PacksKeep

\* Every variable keeps its type: in particular a pass owns one chain's plan exactly
\* while it carries it out, and dooms only packs that have a row.
THEOREM TypeCorrect == Spec => []TypeOK
  BY TypeInit, TypeNext, PTL DEF Spec

-----------------------------------------------------------------------------
(* The invariant. *)

\* What a register has looked at: the guard of every chain it names an object of;
\* capture 0 names nothing but its own worktree's delta packs.
RegOK(q, hs) ==
  /\ q.at \in {"looked", "checked"} /\ ~q.zero =>
       \A w \in Owners(q.row.names) \cup {q.row.wt} : q.guards[w] # None
  /\ q.zero =>
       /\ q.at \in {"checked", "landed"}
       /\ q.row.names \subseteq hs
       /\ Owners(q.row.names) \subseteq {q.row.wt}

RegInv == \A c \in Register : reg[c] # None => RegOK(reg[c], handoffs)

RowInv == \A r \in rows : chain[r.wt] # None

\* What a pass knows of a chain whose guard still reads what it read: every row that
\* names an object of it is one it has yet to read, is reading, or has counted live.
Reading(q, ch, rs) == \A w \in Worktree : q.guards[w] # None =>
  /\ ch[w] # None /\ q.guards[w] <= ch[w].guard
  /\ q.guards[w] = ch[w].guard =>
       \A r \in rs : \A k \in r.names : OwnerOf[k] = w =>
         r.wt \in q.unread \/ r \in q.read \/ k \in q.live

\* A pass dooms nothing it counted live, and the delta packs worktrees name are live.
Dooming(q, hs) ==
  /\ q.at = "rows" => q.read = {}
  /\ q.at \notin {"rows", "thin"} => q.read = {} /\ q.unread = {}
  /\ q.at \in {"rows", "thin", "doom"} => q.doomed = {}
  /\ q.at \notin {"rows", "thin", "doom"} =>
       \A k \in hs : q.guards[OwnerOf[k]] # None => k \in q.live
  /\ \A x \in q.doomed : x.key \notin q.live

PassInv == \A p \in Pass : pass[p] # None => Reading(pass[p], chain, rows) /\ Dooming(pass[p], handoffs)

TombInv ==
  /\ tombs \cap handoffs = {}
  /\ \A k \in tombs : chain[OwnerOf[k]] # None

Inv == RegInv /\ RowInv /\ PassInv /\ TombInv /\ CondemnedIsUnnamed

-----------------------------------------------------------------------------
(* What any step does to the chains, the rows and the delta packs. *)

\* Guards only rise, a row that lands raises the guard of every chain it names an
\* object of, and a worktree's delta packs are fixed once its chain is there.
Grows ==
  /\ \A w \in Worktree : chain[w] # None =>
       chain'[w] # None /\ chain[w].guard <= chain'[w].guard
  /\ \A r \in rows' : r \notin rows =>
       \A k \in r.names : /\ chain[OwnerOf[k]] # None
                          /\ chain[OwnerOf[k]].guard < chain'[OwnerOf[k]].guard
  /\ \A k \in handoffs' : k \notin handoffs => chain[OwnerOf[k]] = None

\* A step that moves no chain and adds no row raises nothing.
LEMMA StandsStill ==
  ASSUME TypeOK, UNCHANGED <<chain, handoffs>>, rows' \subseteq rows
  PROVE  Grows
BY DEF Grows, TypeOK, Chain

\* A landing raises the guard of every chain it names an object of.
LEMMA LandGrows ==
  ASSUME TypeOK, RegInv, NEW c \in Register, Land(c)
  PROVE  Grows
<1> DEFINE r == reg[c].row
           g == reg[c].guards
<1>1. r \in Row /\ g \in Guards /\ chain[r.wt] # None /\ GuardsHold(g)
  BY DEF Land, CanLand, TypeOK, RegState
<1>2. \A w \in Worktree : chain[w] # None => chain[w] \in Chain
  BY DEF TypeOK
<1>3. \A w \in Worktree : g[w] # None => chain[w] # None
  BY <1>1 DEF GuardsHold
<1>4. chain' = Bumped(r, g) /\ rows' = rows \cup {r} /\ handoffs' = handoffs
  BY DEF Land
<1>5. \A k \in r.names : OwnerOf[k] = r.wt \/ g[OwnerOf[k]] # None
  BY <1>1 DEF RegInv, RegOK, Land, Owners, Row
<1>6. ASSUME NEW w \in Worktree, chain[w] # None
      PROVE  /\ chain'[w] # None /\ chain[w].guard <= chain'[w].guard
             /\ w = r.wt \/ g[w] # None => chain[w].guard < chain'[w].guard
  <2>1. chain[w] \in Chain
    BY <1>2, <1>6
  <2>2. CASE w = r.wt
    <3>1. chain'[w] = [chain[w] EXCEPT !.n = r.n, !.guard = @ + 1]
      BY <1>4, <2>2 DEF Bumped
    <3>2. r.n \in Nat
      BY <1>1 DEF Row
    <3>3. chain'[w] = [n |-> r.n, epoch |-> chain[w].epoch, guard |-> chain[w].guard + 1]
      BY <2>1, <3>1 DEF Chain
    <3>4. chain[w].epoch \in Nat /\ chain[w].guard + 1 \in Nat
      BY <2>1 DEF Chain
    <3>5. chain'[w] \in Chain
      BY <3>2, <3>3, <3>4 DEF Chain
    <3> QED
      BY <2>1, <3>3, <3>5 DEF Chain, ConstantsAssumption
  <2>3. CASE w # r.wt /\ g[w] # None
    <3>1. chain'[w] = [chain[w] EXCEPT !.guard = @ + 1]
      BY <1>4, <2>3 DEF Bumped
    <3>2. chain'[w] \in Chain /\ chain'[w].guard = chain[w].guard + 1
      BY <2>1, <3>1 DEF Chain
    <3> QED
      BY <2>1, <3>2 DEF Chain, ConstantsAssumption
  <2>4. CASE w # r.wt /\ g[w] = None
    <3>1. chain'[w] = chain[w]
      BY <1>4, <2>4 DEF Bumped
    <3> QED
      BY <1>6, <2>1, <2>4, <3>1 DEF Chain
  <2> QED
    BY <2>2, <2>3, <2>4
<1> QED
  BY <1>1, <1>3, <1>4, <1>5, <1>6 DEF Grows, Row

\* A register that misses raises the guards of other chains at most.
LEMMA MissGrows ==
  ASSUME TypeOK, NEW c \in Register, Miss(c)
  PROVE  Grows
<1>1. chain' = Missed(reg[c].row, reg[c].guards) /\ rows' = rows /\ handoffs' = handoffs
  BY DEF Miss
<1>2. ASSUME NEW w \in Worktree, chain[w] # None
      PROVE  chain'[w] # None /\ chain[w].guard <= chain'[w].guard
  <2>1. chain[w] \in Chain
    BY <1>2 DEF TypeOK
  <2>2. chain'[w] = chain[w] \/ chain'[w] = [chain[w] EXCEPT !.guard = @ + 1]
    BY <1>1 DEF Missed
  <2>3. [chain[w] EXCEPT !.guard = @ + 1] \in Chain
    BY <2>1 DEF Chain
  <2> QED
    BY <1>2, <2>1, <2>2, <2>3 DEF Chain, ConstantsAssumption
<1> QED
  BY <1>1, <1>2 DEF Grows

\* Every step is one of these.
LEMMA EveryStepGrows == TypeOK /\ RegInv /\ [Next]_vars => Grows
<1> SUFFICES ASSUME TypeOK, RegInv, [Next]_vars PROVE Grows
  OBVIOUS
<1>1. ASSUME NEW c \in Register, Land(c) PROVE Grows
  BY <1>1, LandGrows
<1>2. ASSUME NEW k \in Key, CreateHandedOff(k) PROVE Grows
  BY <1>2 DEF CreateHandedOff, Grows, TypeOK, Chain
<1>3. ASSUME NEW w \in Worktree, InitChain(w) PROVE Grows
  BY <1>3 DEF InitChain, Grows, TypeOK, Chain
<1>4. ASSUME NEW w \in Worktree, Claim(w) PROVE Grows
  BY <1>4 DEF Claim, Grows, TypeOK, Chain
<1>5. ASSUME NEW p \in Pass, NEW w \in Worktree, Condemn(p, w) PROVE Grows
  <2>1. CASE UNCHANGED chain
    BY <1>5, <2>1, StandsStill DEF Condemn
  <2>2. CASE chain' = [chain EXCEPT ![w].guard = @ + 1] /\ chain[w] # None
    BY <1>5, <2>2 DEF Condemn, Grows, TypeOK, Chain
  <2> QED
    BY <1>5, <2>1, <2>2 DEF Condemn, CondemnHolds
<1>6. ASSUME NEW p \in Pass, Thin(p) PROVE Grows
  BY <1>6, StandsStill DEF Thin
<1>7. CASE UNCHANGED <<chain, handoffs, rows>>
  BY <1>7, StandsStill
<1>8. ASSUME NEW c \in Register, Miss(c) PROVE Grows
  BY <1>8, MissGrows
<1> QED
  BY <1>1, <1>2, <1>3, <1>4, <1>5, <1>6, <1>7, <1>8
  DEF Next, vars, Age, PutDelta, Put, Look, Check, Record, Compose, ComposeZero,
      Begin, ListPacks, DoomPacks, SweepFenced, Retire, Finish, Over, ReadRows, Delete

\* What a pass knows stays true of it while it does not move.
LEMMA KnowledgeStays ==
  ASSUME TypeOK, TypeOK', Grows, NEW q \in PassState, Reading(q, chain, rows), Dooming(q, handoffs)
  PROVE  Reading(q, chain', rows') /\ Dooming(q, handoffs')
<1>1. Reading(q, chain', rows')
  <2> SUFFICES ASSUME NEW w \in Worktree, q.guards[w] # None
               PROVE  /\ chain'[w] # None /\ q.guards[w] <= chain'[w].guard
                      /\ q.guards[w] = chain'[w].guard =>
                           \A r \in rows' : \A k \in r.names : OwnerOf[k] = w =>
                             r.wt \in q.unread \/ r \in q.read \/ k \in q.live
    BY DEF Reading
  <2>1. q.guards[w] \in Nat /\ chain[w] # None /\ chain'[w] # None
    BY DEF Reading, Grows, PassState, Guards
  <2>2. chain[w].guard \in Nat /\ chain'[w].guard \in Nat
    BY <2>1 DEF TypeOK, Chain
  <2>3. q.guards[w] <= chain[w].guard /\ chain[w].guard <= chain'[w].guard
    BY <2>1 DEF Reading, Grows
  <2>4. ASSUME q.guards[w] = chain'[w].guard, NEW r \in rows', NEW k \in r.names, OwnerOf[k] = w
        PROVE  r.wt \in q.unread \/ r \in q.read \/ k \in q.live
    <3>1. q.guards[w] = chain[w].guard
      BY <2>1, <2>2, <2>3, <2>4
    <3>2. r \in rows
      BY <2>1, <2>2, <2>3, <2>4 DEF Grows
    <3> QED
      BY <2>4, <3>1, <3>2 DEF Reading
  <2> QED
    BY <2>1, <2>2, <2>3, <2>4
<1>2. Dooming(q, handoffs')
  <2>1. ASSUME NEW k \in handoffs', q.guards[OwnerOf[k]] # None
        PROVE  k \in handoffs
    BY <2>1 DEF Grows, Reading, TypeOK
  <2> QED
    BY <2>1 DEF Dooming
<1> QED
  BY <1>1, <1>2

-----------------------------------------------------------------------------
(* The registers. *)

\* No step makes a register forget a guard it needs.
LEMMA RegStep == TypeOK /\ RegInv /\ [Next]_vars => RegInv'
<1> SUFFICES ASSUME TypeOK, RegInv, [Next]_vars PROVE RegInv'
  OBVIOUS
<1>1. handoffs \subseteq handoffs'
  BY DEF Next, vars, Age, PutDelta, CreateHandedOff, InitChain, Claim, Put, Look, Check, Land,
         Miss, Record, Compose, ComposeZero, Begin, ReadRows, Thin, ListPacks, DoomPacks,
         SweepFenced, Condemn, Retire, Delete, Finish, Over
<1>2. ASSUME NEW q, RegOK(q, handoffs) PROVE RegOK(q, handoffs')
  BY <1>1, <1>2 DEF RegOK
<1>3. ASSUME NEW c \in Register, NEW x, reg' = [reg EXCEPT ![c] = x], x # None => RegOK(x, handoffs')
      PROVE  RegInv'
  BY <1>2, <1>3 DEF RegInv, TypeOK
<1>4. ASSUME NEW c \in Register, NEW w \in Worktree, Compose(c, w) PROVE RegInv'
  <2>1. PICK ks : reg' = NewReg(c, w, ks, FALSE)
    BY <1>4 DEF Compose
  <2> QED
    BY <1>3, <2>1 DEF NewReg, RegOK
<1>5. ASSUME NEW c \in Register, NEW w \in Worktree, ComposeZero(c, w) PROVE RegInv'
  BY <1>3, <1>5 DEF ComposeZero, NewReg, RegOK, Owners
<1>6. ASSUME NEW c \in Register, Look(c) PROVE RegInv'
  <2> DEFINE ks == reg[c].row.names
             ws == Owners(ks) \cup {reg[c].row.wt}
             x  == [reg[c] EXCEPT !.at = "looked", !.guards =
                      [w \in Worktree |-> IF w \in ws THEN chain[w].guard ELSE None]]
  <2>1. reg[c] \in RegState /\ RegOK(reg[c], handoffs) /\ reg[c].at = "composed"
    BY <1>6 DEF Look, TypeOK, RegInv
  <2>2. reg' = [reg EXCEPT ![c] = None] \/
        (reg' = [reg EXCEPT ![c] = x] /\ \A w \in ws : chain[w] # None)
    BY <1>6 DEF Look
  <2>3. ASSUME \A w \in ws : chain[w] # None
        PROVE  RegOK(x, handoffs')
    <3>1. ws \subseteq Worktree
      BY <2>1 DEF RegState, Row, Owners, ConstantsAssumption
    <3>2. \A w \in ws : chain[w].guard \in Nat
      BY <2>3, <3>1 DEF TypeOK, Chain
    <3>3. x.row = reg[c].row /\ x.zero = reg[c].zero /\ x.at = "looked"
      BY <2>1 DEF RegState
    <3>4. x.guards = [w \in Worktree |-> IF w \in ws THEN chain[w].guard ELSE None]
      BY <2>1 DEF RegState
    <3>5. \A w \in ws : x.guards[w] # None
      BY <3>1, <3>2, <3>4 DEF ConstantsAssumption
    <3>6. ~x.zero
      BY <2>1, <3>3 DEF RegOK
    <3> QED
      BY <3>3, <3>5, <3>6 DEF RegOK
  <2> QED
    BY <1>3, <2>2, <2>3
<1>7. ASSUME NEW c \in Register, Check(c) PROVE RegInv'
  <2>1. reg[c] \in RegState /\ RegOK(reg[c], handoffs) /\ reg[c].at = "looked"
    BY <1>7 DEF Check, TypeOK, RegInv
  <2>2. RegOK([reg[c] EXCEPT !.at = "checked"], handoffs')
    BY <1>2, <2>1 DEF RegOK, RegState
  <2> QED
    BY <1>3, <1>7, <2>2 DEF Check
<1>8. ASSUME NEW c \in Register, Land(c) PROVE RegInv'
  <2>1. reg[c] \in RegState /\ RegOK(reg[c], handoffs)
    BY <1>8 DEF Land, TypeOK, RegInv
  <2>2. RegOK([reg[c] EXCEPT !.at = "landed"], handoffs')
    BY <1>2, <2>1 DEF RegOK, RegState
  <2> QED
    BY <1>3, <1>8, <2>2 DEF Land
<1>9. ASSUME NEW c \in Register, Miss(c) PROVE RegInv'
  <2>1. reg[c] \in RegState /\ RegOK(reg[c], handoffs)
    BY <1>9 DEF Miss, TypeOK, RegInv
  <2>2. ~reg[c].zero => RegOK([reg[c] EXCEPT !.at = "composed", !.guards = NoGuards], handoffs')
    BY <1>2, <2>1 DEF RegOK, RegState
  <2> QED
    BY <1>3, <1>9, <2>2 DEF Miss
<1>10. ASSUME NEW c \in Register, Record(c) PROVE RegInv'
  BY <1>3, <1>10 DEF Record
<1>11. CASE UNCHANGED reg
  BY <1>2, <1>11 DEF RegInv
<1> QED
  BY <1>4, <1>5, <1>6, <1>7, <1>8, <1>9, <1>10, <1>11
  DEF Next, vars, Age, PutDelta, CreateHandedOff, InitChain, Claim, Put, Begin, ReadRows, Thin,
      ListPacks, DoomPacks, SweepFenced, Condemn, Retire, Delete, Finish, Over

-----------------------------------------------------------------------------
(* The passes. *)

\* A pass that begins has every row of every chain before it.
LEMMA BeginKnows ==
  ASSUME TypeOK, RowInv, NEW p \in Pass, Begin(p)
  PROVE  Reading(pass'[p], chain', rows') /\ Dooming(pass'[p], handoffs')
<1> DEFINE q == pass'[p]
<1>1. /\ q.guards = [w \in Worktree |-> IF chain[w] = None THEN None ELSE chain[w].guard]
      /\ q.unread = {w \in Worktree : chain[w] # None}
      /\ q.read = {} /\ q.doomed = {} /\ q.at = "rows"
  BY DEF Begin, Step, TypeOK
<1>2. UNCHANGED <<chain, rows, handoffs>>
  BY DEF Begin
<1>3. \A r \in rows : r.wt \in q.unread
  BY <1>1 DEF RowInv, TypeOK, Row
<1>4. \A w \in Worktree : chain[w] # None => chain[w].guard \in Nat
  BY DEF TypeOK, Chain
<1>5. Reading(q, chain', rows')
  BY <1>1, <1>2, <1>3, <1>4 DEF Reading
<1>6. Dooming(q, handoffs')
  BY <1>1 DEF Dooming
<1> QED
  BY <1>5, <1>6

\* Counting more objects live, or moving a chain from unread to read, loses nothing.
LEMMA ReadingStays ==
  ASSUME NEW q, NEW q2, NEW ch, NEW rs, Reading(q, ch, rs), q2.guards = q.guards,
         \A r \in rs : \A k \in r.names :
           r.wt \in q.unread \/ r \in q.read \/ k \in q.live =>
             r.wt \in q2.unread \/ r \in q2.read \/ k \in q2.live
  PROVE  Reading(q2, ch, rs)
BY DEF Reading

\* A step of a pass between its own reads and deletes: what it knows stays, what it
\* doomed it may forget.
LEMMA QuietStep ==
  ASSUME TypeOK, TypeOK', Grows, PassInv, NEW p \in Pass, pass[p] # None,
         pass[p].at \notin {"rows", "thin", "doom"}, pass'[p].at \notin {"rows", "thin", "doom"},
         pass'[p].guards = pass[p].guards, pass'[p].unread = pass[p].unread,
         pass'[p].read = pass[p].read, pass'[p].live = pass[p].live,
         pass'[p].doomed \subseteq pass[p].doomed
  PROVE  Reading(pass'[p], chain', rows') /\ Dooming(pass'[p], handoffs')
<1>1. pass[p] \in PassState
  BY DEF TypeOK
<1>2. Reading(pass[p], chain', rows') /\ Dooming(pass[p], handoffs')
  BY <1>1, KnowledgeStays DEF PassInv
<1>3. Reading(pass'[p], chain', rows')
  BY <1>2, ReadingStays
<1>4. Dooming(pass'[p], handoffs')
  BY <1>2 DEF Dooming
<1> QED
  BY <1>3, <1>4

\* A pass's own steps keep what it knows.
LEMMA PassStep ==
  ASSUME TypeOK, TypeOK', Grows, RowInv, PassInv, NEW p \in Pass,
         PassMoves(p)
  PROVE  Reading(pass'[p], chain', rows') /\ Dooming(pass'[p], handoffs')
<1> DEFINE q == pass[p]
           q2 == pass'[p]
<1>1. CASE Begin(p)
  BY <1>1, BeginKnows
<1>2. q # None => q \in PassState
  BY DEF TypeOK
<1>3. q # None => Reading(q, chain', rows') /\ Dooming(q, handoffs')
  BY <1>2, KnowledgeStays DEF PassInv
<1>4. ASSUME NEW w \in Worktree, ReadRows(p, w)
      PROVE  Reading(q2, chain', rows') /\ Dooming(q2, handoffs')
  <2>1. q # None /\ q.at = "rows" /\ UNCHANGED <<chain, rows, handoffs>>
    BY <1>4 DEF ReadRows
  <2>2. /\ q2.guards = q.guards /\ q2.unread = q.unread \ {w} /\ q2.read = RowsOf(w)
        /\ q2.live = q.live /\ q2.doomed = q.doomed /\ q2.at = "thin"
    BY <1>2, <1>4, <2>1 DEF ReadRows, Step, TypeOK, PassState
  <2>3. Dooming(q, handoffs) /\ Reading(q, chain, rows)
    BY <1>3, <2>1
  <2>4. q.read = {}
    BY <2>1, <2>3 DEF Dooming
  <2>5. Reading(q2, chain, rows)
    <3>1. \A r \in rows : r.wt = w => r \in q2.read
      BY <2>2 DEF RowsOf
    <3>2. \A r \in rows : \A k \in r.names :
            r.wt \in q.unread \/ r \in q.read \/ k \in q.live =>
              r.wt \in q2.unread \/ r \in q2.read \/ k \in q2.live
      BY <2>2, <2>4, <3>1
    <3> QED
      BY <2>2, <2>3, <3>2, ReadingStays
  <2>6. Dooming(q2, handoffs)
    BY <2>1, <2>2, <2>3 DEF Dooming
  <2> QED
    BY <2>1, <2>5, <2>6
<1>5. CASE Thin(p)
  <2>1. q # None /\ q.at = "thin" /\ UNCHANGED <<chain, handoffs>>
    BY <1>5 DEF Thin
  <2>6. PICK drop \in SUBSET Droppable(p, q.owner) :
          rows' = rows \ drop /\ Step(p, Thinned(q, drop))
    BY <1>5 DEF Thin
  <2>7. q2 = Thinned(q, drop)
    BY <2>6 DEF Step, TypeOK
  <2>2. /\ rows' = rows \ drop
        /\ q2.guards = q.guards /\ q2.unread = q.unread /\ q2.read = {}
        /\ q2.live = q.live \cup UNION {r.names : r \in q.read \ drop}
        /\ q2.doomed = q.doomed /\ q2.at = "rows"
    BY <1>2, <2>1, <2>6, <2>7 DEF Thinned, PassState
  <2>3. Dooming(q, handoffs) /\ Reading(q, chain, rows')
    BY <1>3, <2>1
  <2>4. Reading(q2, chain, rows')
    <3>1. ASSUME NEW r \in rows', NEW k \in r.names, r \in q.read
          PROVE  k \in q2.live
      BY <2>2, <3>1
    <3>2. \A r \in rows' : \A k \in r.names :
            r.wt \in q.unread \/ r \in q.read \/ k \in q.live =>
              r.wt \in q2.unread \/ r \in q2.read \/ k \in q2.live
      BY <2>2, <3>1
    <3> QED
      BY <2>2, <2>3, <3>2, ReadingStays
  <2>5. Dooming(q2, handoffs)
    BY <2>1, <2>2, <2>3 DEF Dooming
  <2> QED
    BY <2>1, <2>4, <2>5
<1>6. CASE ListPacks(p)
  <2>1. q # None /\ q.at = "rows" /\ q.unread = {} /\ UNCHANGED <<chain, rows, handoffs>>
    BY <1>6 DEF ListPacks
  <2>2. /\ q2.guards = q.guards /\ q2.unread = q.unread /\ q2.read = q.read
        /\ q2.live = q.live /\ q2.doomed = q.doomed /\ q2.at = "doom"
    BY <1>2, <1>6, <2>1 DEF ListPacks, Step, TypeOK, PassState
  <2>3. Reading(q2, chain', rows')
    BY <1>3, <2>1, <2>2, ReadingStays
  <2>4. Dooming(q2, handoffs')
    BY <1>3, <2>1, <2>2 DEF Dooming
  <2> QED
    BY <2>3, <2>4
<1>7. CASE DoomPacks(p)
  <2>1. q # None /\ q.at = "doom" /\ UNCHANGED <<chain, rows, handoffs>>
    BY <1>7 DEF DoomPacks
  <2>2. /\ q2.guards = q.guards /\ q2.unread = q.unread /\ q2.read = q.read
        /\ q2.live = q.live \cup handoffs /\ q2.at = "sweep"
        /\ \A x \in q2.doomed : x.key \notin q2.live
    <3> DEFINE live == q.live \cup handoffs
               gone == {[key |-> x.key, digest |-> x.digest] :
                          x \in {x \in q.listed : x.digest \in q.aged /\ x.key \notin live}}
    <3>1. q2 = PacksDoomed(q)
      BY <1>7 DEF DoomPacks, Step, TypeOK
    <3>2. q2 = [q EXCEPT !.at = "sweep", !.live = live, !.doomed = gone]
      BY <3>1 DEF PacksDoomed
    <3>3. \A x \in gone : x.key \notin live
      OBVIOUS
    <3> HIDE DEF live, gone
    <3>4. /\ q2.guards = q.guards /\ q2.unread = q.unread /\ q2.read = q.read
          /\ q2.live = live /\ q2.doomed = gone /\ q2.at = "sweep"
      BY <1>2, <2>1, <3>2 DEF PassState
    <3> QED
      BY <3>3, <3>4 DEF live
  <2>3. Reading(q2, chain', rows')
    BY <1>3, <2>1, <2>2, ReadingStays
  <2>4. Dooming(q2, handoffs')
    BY <1>3, <2>1, <2>2 DEF Dooming
  <2> QED
    BY <2>3, <2>4
<1>8. CASE SweepFenced(p)
  <2>1. q # None /\ q.at = "sweep" /\ UNCHANGED <<chain, rows, handoffs>>
    BY <1>8 DEF SweepFenced
  <2>5. PICK swept \in {{}, Fenced(q)} : Step(p, FencedDoomed(q, swept))
    BY <1>8 DEF SweepFenced
  <2>2. /\ \A k \in swept : k \notin q.live
        /\ q2.guards = q.guards /\ q2.unread = q.unread /\ q2.read = q.read
        /\ q2.live = q.live /\ q2.at = "condemn"
        /\ q2.doomed = q.doomed \cup {[key |-> k, digest |-> None] : k \in swept}
    <3>1. q2 = FencedDoomed(q, swept)
      BY <2>5 DEF Step, TypeOK
    <3>2. \A k \in swept : k \notin q.live
      BY <2>5 DEF Fenced
    <3> QED
      BY <1>2, <2>1, <3>1, <3>2 DEF FencedDoomed, PassState
  <2>3. Reading(q2, chain', rows')
    BY <1>3, <2>1, <2>2, ReadingStays
  <2>4. Dooming(q2, handoffs')
    BY <1>3, <2>1, <2>2 DEF Dooming
  <2> QED
    BY <2>3, <2>4
<1>9. ASSUME NEW w \in Worktree, Condemn(p, w)
      PROVE  Reading(q2, chain', rows') /\ Dooming(q2, handoffs')
  <2>1. q # None /\ q.at = "condemn"
    BY <1>9 DEF Condemn
  <2>2. \/ q2 = [q EXCEPT !.at = "retire", !.owner = w, !.left = KeysIn(Plan(p, w))]
        \/ q2 = [q EXCEPT !.doomed = @ \ Plan(p, w)]
    BY <1>9, <2>1 DEF Condemn, Step, TypeOK
  <2>3. /\ q2.guards = q.guards /\ q2.unread = q.unread /\ q2.read = q.read
        /\ q2.live = q.live /\ q2.doomed \subseteq q.doomed /\ q2.at \in {"condemn", "retire"}
    <3>1. CASE q2 = [q EXCEPT !.at = "retire", !.owner = w, !.left = KeysIn(Plan(p, w))]
      BY <1>2, <2>1, <3>1 DEF PassState
    <3>2. CASE q2 = [q EXCEPT !.doomed = @ \ Plan(p, w)]
      BY <1>2, <2>1, <3>2 DEF PassState
    <3> QED
      BY <2>2, <3>1, <3>2
  <2> QED
    BY <2>1, <2>3, QuietStep
<1>10. CASE Retire(p)
  <2>1. /\ q # None /\ q.at = "retire" /\ q2.at = "delete" /\ q2.guards = q.guards
        /\ q2.unread = q.unread /\ q2.read = q.read /\ q2.live = q.live /\ q2.doomed = q.doomed
    BY <1>2, <1>10 DEF Retire, Step, TypeOK, PassState
  <2> QED
    BY <2>1, QuietStep
<1>11. ASSUME NEW k \in Key, Delete(p, k)
       PROVE  Reading(q2, chain', rows') /\ Dooming(q2, handoffs')
  <2>1. /\ q # None /\ q.at = "delete" /\ q2.at = "delete" /\ q2.guards = q.guards
        /\ q2.unread = q.unread /\ q2.read = q.read /\ q2.live = q.live /\ q2.doomed = q.doomed
    <3>1. /\ q # None /\ q.at = "delete"
          /\ \/ q2 = [q EXCEPT !.left = @ \ {k}]
             \/ q2 = [q EXCEPT !.left = @ \ {k}, !.failed = @ \cup {k}]
      BY <1>11 DEF Delete, Step, TypeOK
    <3> QED
      BY <1>2, <3>1 DEF PassState
  <2> QED
    BY <2>1, QuietStep
<1>12. CASE Finish(p)
  <2>1. /\ q # None /\ q.at = "delete" /\ q2.at = "condemn" /\ q2.guards = q.guards
        /\ q2.unread = q.unread /\ q2.read = q.read /\ q2.live = q.live
        /\ q2.doomed \subseteq q.doomed
    BY <1>2, <1>12 DEF Finish, Step, TypeOK, PassState
  <2> QED
    BY <2>1, QuietStep
<1>13. CASE Over(p)
  <2>1. /\ q2.at = "over" /\ q2.guards = NoGuards /\ q2.doomed = {}
        /\ q2.read = {} /\ q2.unread = {}
    BY <1>2, <1>13 DEF Over, Step, TypeOK, PassState
  <2>2. \A w \in Worktree : q2.guards[w] = None
    BY <2>1 DEF NoGuards
  <2>3. Reading(q2, chain', rows')
    BY <2>2 DEF Reading
  <2>4. \A k \in handoffs' : q2.guards[OwnerOf[k]] = None
    BY <2>2 DEF TypeOK, ConstantsAssumption
  <2>5. Dooming(q2, handoffs')
    BY <2>1, <2>4 DEF Dooming
  <2> QED
    BY <2>3, <2>5
<1> QED
  BY <1>1, <1>4, <1>5, <1>6, <1>7, <1>8, <1>9, <1>10, <1>11, <1>12, <1>13 DEF PassMoves

\* Another pass, or nobody, moves.
LEMMA PassNext == TypeOK /\ TypeOK' /\ Grows /\ RowInv /\ PassInv /\ [Next]_vars => PassInv'
<1> SUFFICES ASSUME TypeOK, TypeOK', Grows, RowInv, PassInv, [Next]_vars,
                    NEW p \in Pass, pass'[p] # None
             PROVE  Reading(pass'[p], chain', rows') /\ Dooming(pass'[p], handoffs')
  BY DEF PassInv
<1>1. CASE pass'[p] = pass[p]
  <2>1. pass[p] \in PassState
    BY <1>1 DEF TypeOK
  <2> QED
    BY <1>1, <2>1, KnowledgeStays DEF PassInv
<1>2. CASE pass'[p] # pass[p]
  <2>1. \E p2 \in Pass : PassMoves(p2)
    BY <1>2
    DEF PassMoves, Next, vars, Age, PutDelta, CreateHandedOff, InitChain, Claim, Put, Look,
        Check, Land, Miss, Record, Compose, ComposeZero
  <2>2. PICK p2 \in Pass : PassMoves(p2)
    BY <2>1
  <2>3. PICK x : Step(p2, x)
    BY <2>2, OnePassMoves
  <2>4. p2 = p
    BY <1>2, <2>3 DEF Step, TypeOK
  <2> QED
    BY <2>2, <2>4, PassStep
<1> QED
  BY <1>1, <1>2

-----------------------------------------------------------------------------
(* Rows and tombstones. *)

\* Every row's worktree has a chain.
LEMMA RowStep == TypeOK /\ RegInv /\ Grows /\ RowInv /\ [Next]_vars => RowInv'
<1> SUFFICES ASSUME TypeOK, Grows, RowInv, [Next]_vars, NEW r \in rows'
             PROVE  chain'[r.wt] # None
  BY DEF RowInv
<1>1. CASE r \in rows
  BY <1>1 DEF RowInv, Grows, TypeOK, Row
<1>2. CASE r \notin rows
  <2>1. PICK c \in Register : Land(c)
    BY <1>2
    DEF Next, vars, Age, PutDelta, CreateHandedOff, InitChain, Claim, Put, Look, Check,
        Miss, Record, Compose, ComposeZero, Begin, ReadRows, Thin, ListPacks, DoomPacks,
        SweepFenced, Condemn, Retire, Delete, Finish, Over
  <2>2. r = reg[c].row /\ chain[r.wt] # None
    BY <1>2, <2>1 DEF Land, CanLand
  <2>3. r.wt \in Worktree
    BY <2>1, <2>2 DEF Land, TypeOK, RegState, Row
  <2> QED
    BY <2>2, <2>3 DEF Grows
<1> QED
  BY <1>1, <1>2

\* What is condemned is doomed, counted dead, and its chain's guard reads as it did.
LEMMA CondemnTombs ==
  ASSUME TypeOK, PassInv, TombInv, CondemnedIsUnnamed,
         NEW p \in Pass, NEW w \in Worktree, Condemn(p, w)
  PROVE  /\ \A r \in rows' : r.names \cap tombs' = {}
         /\ tombs' \cap handoffs' = {}
         /\ \A k \in tombs' : k \in tombs \/ chain[OwnerOf[k]] # None
<1> DEFINE q == pass[p]
<1>1. q # None /\ q.at = "condemn" /\ UNCHANGED <<rows, handoffs>>
  BY DEF Condemn
<1>2. q \in PassState /\ Reading(q, chain, rows) /\ Dooming(q, handoffs)
  BY <1>1 DEF TypeOK, PassInv
<1>3. CASE tombs' = tombs
  BY <1>1, <1>3 DEF TombInv, CondemnedIsUnnamed
<1>4. CASE tombs' # tombs
  <2>1. /\ tombs' = tombs \cup KeysIn(Plan(p, w))
        /\ q.guards[w] # None /\ chain[w] # None /\ chain[w].guard = q.guards[w]
    BY <1>4 DEF Condemn, CondemnHolds
  <2>2. ASSUME NEW k \in KeysIn(Plan(p, w))
        PROVE  k \in Key /\ OwnerOf[k] = w /\ k \notin q.live
    BY <1>2, <2>2 DEF KeysIn, Plan, PassState, Dooming
  <2>3. q.read = {} /\ q.unread = {}
    BY <1>1, <1>2 DEF Dooming
  <2>4. ASSUME NEW r \in rows, NEW k \in KeysIn(Plan(p, w)) PROVE k \notin r.names
    BY <1>2, <2>1, <2>2, <2>3 DEF Reading
  <2>5. ASSUME NEW k \in KeysIn(Plan(p, w)) PROVE k \notin handoffs
    BY <1>1, <1>2, <2>1, <2>2 DEF Dooming
  <2> QED
    BY <1>1, <2>1, <2>2, <2>4, <2>5 DEF TombInv, CondemnedIsUnnamed
<1> QED
  BY <1>3, <1>4

\* A row that lands names nothing condemned.
LEMMA LandTombs ==
  ASSUME TypeOK, RegInv, TombInv, CondemnedIsUnnamed, NEW c \in Register, Land(c)
  PROVE  CondemnedIsUnnamed'
<1> DEFINE r == reg[c].row
           g == reg[c].guards
<1>1. reg[c] \in RegState /\ RegOK(reg[c], handoffs) /\ reg[c].at = "checked"
  BY DEF Land, TypeOK, RegInv
<1>2. rows' = rows \cup {r} /\ tombs' = tombs /\ CanLand(r, g)
  BY DEF Land
<1>3. CASE reg[c].zero
  BY <1>1, <1>2, <1>3 DEF RegOK, TombInv, CondemnedIsUnnamed
<1>4. CASE ~reg[c].zero
  <2>1. g[r.wt] # None /\ r.wt \in Worktree
    BY <1>1, <1>4 DEF RegOK, RegState, Row
  <2>2. g # NoGuards
    BY <2>1 DEF NoGuards
  <2> QED
    BY <1>2, <2>2 DEF CanLand, CondemnedIsUnnamed
<1> QED
  BY <1>1, <1>3, <1>4 DEF RegState

\* No step condemns a named object or names a condemned one.
LEMMA TombStep ==
  TypeOK /\ RegInv /\ PassInv /\ TombInv /\ CondemnedIsUnnamed /\ Grows /\ [Next]_vars
    => TombInv' /\ CondemnedIsUnnamed'
<1> SUFFICES ASSUME TypeOK, RegInv, PassInv, TombInv, CondemnedIsUnnamed, Grows, [Next]_vars
             PROVE  TombInv' /\ CondemnedIsUnnamed'
  OBVIOUS
<1>1. \A k \in tombs : chain'[OwnerOf[k]] # None
  BY DEF TombInv, Grows, TypeOK, ConstantsAssumption
<1>2. \A k \in tombs : k \notin handoffs'
  BY DEF TombInv, Grows
<1>3. ASSUME NEW p \in Pass, NEW w \in Worktree, Condemn(p, w)
      PROVE  TombInv' /\ CondemnedIsUnnamed'
  <2>1. \A k \in tombs' : chain'[OwnerOf[k]] # None
    <3>1. tombs' \subseteq Key
      BY <1>3 DEF Condemn, TypeOK, KeysIn, Plan, PassState
    <3> QED
      BY <1>1, <1>3, <3>1, CondemnTombs DEF Grows, ConstantsAssumption
  <2> QED
    BY <1>3, <2>1, CondemnTombs DEF TombInv, CondemnedIsUnnamed
<1>4. ASSUME NEW c \in Register, Land(c) PROVE TombInv' /\ CondemnedIsUnnamed'
  <2>1. tombs' = tombs
    BY <1>4 DEF Land
  <2> QED
    BY <1>1, <1>2, <1>4, <2>1, LandTombs DEF TombInv
<1>5. CASE UNCHANGED tombs /\ rows' \subseteq rows
  BY <1>1, <1>2, <1>5 DEF TombInv, CondemnedIsUnnamed
<1>6. \/ UNCHANGED tombs /\ rows' \subseteq rows
      \/ \E c \in Register : Land(c)
      \/ \E p \in Pass, w \in Worktree : Condemn(p, w)
  BY DEF Next, vars, Age, PutDelta, CreateHandedOff, InitChain, Claim, Put, Look, Check,
         Miss, Record, Compose, ComposeZero, Begin, ReadRows, Thin, ListPacks, DoomPacks,
         SweepFenced, Retire, Delete, Finish, Over
<1> QED
  BY <1>3, <1>4, <1>5, <1>6

\* The invariant holds at the start.
LEMMA InvInit == Init => Inv
<1> SUFFICES ASSUME Init PROVE Inv
  OBVIOUS
<1>1. RegInv /\ PassInv
  BY DEF Init, RegInv, PassInv
<1>4. \A w \in Started : chain[w] # None
  <2>1. \A w \in Started : chain[w] = [n |-> 0, epoch |-> 1, guard |-> 0]
    BY DEF Init, ConstantsAssumption
  <2>2. [n |-> 0, epoch |-> 1, guard |-> 0] \in Chain
    BY DEF Chain
  <2> QED
    BY <2>1, <2>2 DEF ConstantsAssumption
<1>5. RowInv
  <2>1. \A r \in rows : r.wt \in Started
    BY DEF Init
  <2> QED
    BY <1>4, <2>1 DEF RowInv
<1>2. TombInv
  <2>1. handoffs = {} /\ tombs = Retired
    BY DEF Init
  <2>2. \A k \in Retired : OwnerOf[k] \in Started
    BY DEF ConstantsAssumption
  <2> QED
    BY <1>4, <2>1, <2>2 DEF TombInv
<1>3. CondemnedIsUnnamed
  BY DEF Init, CondemnedIsUnnamed
<1> QED
  BY <1>1, <1>2, <1>3, <1>5 DEF Inv

\* A condemned object is never named: for any number of worktrees, keys, registers and
\* overlapping passes, a register and a condemnation that race never both land.
THEOREM CondemnedUnnamed == Spec => []CondemnedIsUnnamed
<1>1. TypeOK /\ TypeOK' /\ Inv /\ [Next]_vars => Inv'
  BY EveryStepGrows, RegStep, RowStep, PassNext, TombStep DEF Inv
<1>2. Inv => CondemnedIsUnnamed
  BY DEF Inv
<1> QED
  BY <1>1, <1>2, InvInit, TypeCorrect, PTL DEF Spec

-----------------------------------------------------------------------------
(* What captures name is there.  It does not follow from CondemnedIsUnnamed    *)
(* alone: of a worktree that had no chain when a pass read the chains, objects *)
(* go without a tombstone, and only their age keeps them from being doomed.  A *)
(* retired row that is revived keeps its created_at (the run                   *)
(* retention_revived): the theorem is about the behaviours without that step,  *)
(* and so shows that it is the only way there.                                 *)

\* A packs row past the grace is revived for a worktree with a chain, which every pass
\* that counted it aged has read the guard of.
RevivedKnown ==
  \A d \in Digest : packs[d] # None /\ packs[d].old /\ packs'[d].key # packs[d].key =>
    /\ chain[OwnerOf[packs'[d].key]] # None
    /\ \A p \in Pass : pass[p] # None /\ d \in pass[p].aged =>
         pass[p].guards[OwnerOf[packs'[d].key]] # None

KnownSpec == Spec /\ [][RevivedKnown]_vars

\* An object under a claimed epoch is of a worktree with a chain.
Rooted(k) == EpochOf[k] = 0 \/ chain[OwnerOf[k]] # None

\* A pack past the grace is of a worktree with a chain, or named by a worktree's row.
PackOK(d) == packs[d] # None =>
  /\ Rooted(packs[d].key)
  /\ packs[d].old => packs[d].key \in handoffs \/ chain[OwnerOf[packs[d].key]] # None

KeyInv ==
  /\ \A k \in handoffs : EpochOf[k] = 0
  /\ \A k \in bucket : Rooted(k)
  /\ \A c \in Register : reg[c] # None => \A k \in reg[c].row.names : Rooted(k)
  /\ \A d \in Digest : PackOK(d)

\* A pass reads, thins and dooms under guards it read, and what it is about to delete
\* is condemned.
Guarded(q, pk, hs, ts) ==
  /\ \A w \in q.unread : q.guards[w] # None
  /\ q.at = "thin" => q.guards[q.owner] # None /\ \A r \in q.read : r.wt = q.owner
  /\ \A w \in Worktree : q.fence[w] # 0 => q.guards[w] # None
  /\ \A d \in q.aged : pk[d] # None /\ pk[d].old /\
                       (q.guards[OwnerOf[pk[d].key]] # None \/ pk[d].key \in hs)
  /\ \A x \in q.listed : x.digest \in q.aged => q.guards[OwnerOf[x.key]] # None \/ x.key \in hs
  /\ \A x \in q.doomed : q.guards[OwnerOf[x.key]] # None
  /\ q.left \subseteq ts

GuardInv == \A p \in Pass : pass[p] # None => Guarded(pass[p], packs, handoffs, tombs)

\* A register that checked names what is there, unless it was condemned since.
ThereInv ==
  /\ NamedIsThere
  /\ handoffs \subseteq bucket
  /\ \A c \in Register : reg[c] # None /\ reg[c].at = "checked" =>
       reg[c].row.names \subseteq bucket \cup tombs

\* Nothing handed off or condemned is taken back.
LEMMA OnlyGrow == [Next]_vars => handoffs \subseteq handoffs' /\ tombs \subseteq tombs'
  BY DEF Next, vars, Age, PutDelta, CreateHandedOff, InitChain, Claim, Put, Look, Check, Land,
         Miss, Record, Compose, ComposeZero, Begin, ReadRows, Thin, ListPacks, DoomPacks,
         SweepFenced, Condemn, Retire, Delete, Finish, Over

\* A pack's row as it was but for its state; aged by a step; or as recorded for an object.
PackKept(d) ==
  /\ packs[d] # None
  /\ packs'[d].key = packs[d].key /\ packs'[d].old = packs[d].old

PackAged(d) ==
  /\ packs[d] # None /\ packs'[d].key = packs[d].key /\ packs'[d].old
  /\ EpochOf[packs[d].key] = 0 => packs[d].key \in handoffs

PackRecorded(d) ==
  /\ packs'[d].key \in Key /\ Rooted(packs'[d].key)
  /\ packs'[d].old <=> packs[d] # None /\ packs[d].old

\* Recording objects keeps a pack's row or gives it the key of one of them.
LEMMA RecordedIs ==
  ASSUME TypeOK, NEW ks \in SUBSET Key, \A k \in ks : Rooted(k), NEW d \in Digest,
         packs' = Recorded(ks), packs'[d] # None
  PROVE  PackKept(d) \/ PackRecorded(d)
<1> DEFINE of == {k \in ks : DigestOf[k] = d}
<1>1. PICK k : k = CHOOSE x \in of : TRUE
  OBVIOUS
<1>2. packs'[d] =
        IF of = {} THEN packs[d]
        ELSE IF packs[d] = None THEN [key |-> k, state |-> "uploaded", old |-> FALSE]
        ELSE IF packs[d].state = "retired"
             THEN [packs[d] EXCEPT !.state = "uploaded", !.key = k]
             ELSE packs[d]
  BY <1>1 DEF Recorded
<1>3. of # {} => k \in Key /\ Rooted(k)
  BY <1>1
<1>4. packs[d] # None => packs[d] \in Pack
  BY DEF TypeOK
<1>5. CASE of = {} \/ packs'[d] = packs[d]
  BY <1>2, <1>5 DEF PackKept
<1>6. CASE of # {} /\ packs[d] = None
  BY <1>2, <1>3, <1>6 DEF PackRecorded
<1>7. CASE of # {} /\ packs[d] # None /\ packs[d].state = "retired"
  <2>1. packs'[d].key = k /\ packs'[d].old = packs[d].old
    BY <1>2, <1>4, <1>7 DEF Pack
  <2> QED
    BY <1>3, <1>7, <2>1 DEF PackRecorded
<1> QED
  BY <1>2, <1>5, <1>6, <1>7

\* Marking packs that have a row leaves the rest of it.
LEMMA MarkedIs ==
  ASSUME TypeOK, NEW ds, NEW s, packs' = WithState(ds, s), NEW d \in Digest,
         d \in ds => packs[d] # None, packs'[d] # None
  PROVE  PackKept(d)
<1>1. CASE d \in ds
  <2>1. packs'[d] = [packs[d] EXCEPT !.state = s] /\ packs[d] \in Pack
    BY <1>1 DEF WithState, TypeOK
  <2> QED
    BY <1>1, <2>1 DEF PackKept, Pack
<1>2. CASE d \notin ds
  BY <1>2 DEF WithState, PackKept
<1> QED
  BY <1>1, <1>2

\* What any step does to a pack.
LEMMA PackMoves ==
  ASSUME TypeOK, KeyInv, [Next]_vars, NEW d \in Digest, packs'[d] # None
  PROVE  PackKept(d) \/ PackAged(d) \/ PackRecorded(d)
<1>1. ASSUME NEW e \in Digest, Age(e) PROVE PackKept(d) \/ PackAged(d)
  <2>1. /\ packs[e] \in Pack /\ packs' = [packs EXCEPT ![e] = [packs[e] EXCEPT !.old = TRUE]]
        /\ packs[e] # None /\ EpochOf[packs[e].key] = 0 => packs[e].key \in handoffs
    BY <1>1 DEF Age, TypeOK
  <2>2. CASE d = e
    <3>1. packs'[d] = [packs[d] EXCEPT !.old = TRUE]
      BY <2>1, <2>2 DEF TypeOK
    <3>2. packs'[d].key = packs[d].key /\ packs'[d].old
      BY <2>1, <2>2, <3>1 DEF Pack
    <3> QED
      BY <2>1, <2>2, <3>2, <1>1 DEF PackAged, Age
  <2>3. CASE d # e
    BY <2>1, <2>3 DEF PackKept, TypeOK
  <2> QED
    BY <2>2, <2>3
<1>2. ASSUME NEW k \in Key, PutDelta(k) PROVE PackKept(d) \/ PackRecorded(d)
  BY <1>2, RecordedIs DEF PutDelta, Rooted
<1>3. ASSUME NEW c \in Register, Record(c) PROVE PackKept(d) \/ PackRecorded(d)
  <2>1. reg[c] # None /\ reg[c].row.names \in SUBSET Key /\ \A k \in reg[c].row.names : Rooted(k)
    BY <1>3 DEF Record, TypeOK, RegState, Row, KeyInv
  <2>2. CASE packs' = packs
    BY <2>2 DEF PackKept
  <2> QED
    BY <1>3, <2>1, <2>2, RecordedIs DEF Record
<1>4. ASSUME NEW p \in Pass, Retire(p) PROVE PackKept(d)
  <2>1. packs' = WithState(PlanDigests(p), "retired")
    BY <1>4 DEF Retire
  <2>2. d \in PlanDigests(p) => packs[d] # None
    BY <1>4 DEF Retire, PlanDigests, Plan, TypeOK
  <2> QED
    BY <2>1, <2>2, MarkedIs
<1>5. ASSUME NEW p \in Pass, Finish(p) PROVE PackKept(d)
  <2> DEFINE mine == Plan(p, pass[p].owner)
             unfinished == IF pass[p].left # {} THEN mine
                           ELSE {x \in mine : x.key \in pass[p].failed}
             ds == {x.digest : x \in unfinished}
  <2>1. packs' = WithState(ds \ {None}, "uploaded")
    BY <1>5 DEF Finish
  <2>2. d \in ds \ {None} => packs[d] # None
    BY <1>5 DEF Finish, TypeOK, Plan
  <2> QED
    BY <2>1, <2>2, MarkedIs
<1>6. CASE packs' = packs
  BY <1>6 DEF PackKept
<1> QED
  BY <1>1, <1>2, <1>3, <1>4, <1>5, <1>6
  DEF Next, vars, CreateHandedOff, InitChain, Claim, Put, Look, Check, Land,
      Miss, Compose, ComposeZero, Begin, ReadRows, Thin, ListPacks, DoomPacks,
      SweepFenced, Condemn, Delete, Over

\* What is rooted stays so.
LEMMA RootedStays ==
  ASSUME TypeOK, Grows, NEW k \in Key, Rooted(k)
  PROVE  Rooted(k)'
  BY DEF Rooted, Grows

\* A step that revives nothing out of turn leaves packs in order.
LEMMA PackStep ==
  ASSUME TypeOK, TypeOK', Grows, KeyInv, RevivedKnown, [Next]_vars,
         NEW d \in Digest
  PROVE  PackOK(d)'
<1> SUFFICES ASSUME packs'[d] # None PROVE PackOK(d)'
  BY DEF PackOK
<1> DEFINE k == packs'[d].key
<1>1. k \in Key
  BY DEF TypeOK, Pack
<1>2. PackOK(d)
  BY DEF KeyInv
<1>3. Rooted(k) /\ (packs'[d].old => k \in handoffs \/ chain[OwnerOf[k]] # None)
  <2>1. CASE PackKept(d)
    BY <1>2, <2>1 DEF PackKept, PackOK
  <2>2. CASE PackAged(d)
    BY <1>2, <2>2 DEF PackAged, PackOK, Rooted
  <2>3. CASE PackRecorded(d)
    BY <1>2, <2>3 DEF PackRecorded, PackOK, RevivedKnown
  <2> QED
    BY <2>1, <2>2, <2>3, PackMoves
<1>4. k \in handoffs => k \in handoffs'
  BY OnlyGrow
<1>5. chain[OwnerOf[k]] # None => chain'[OwnerOf[k]] # None
  BY <1>1 DEF Grows
<1> QED
  BY <1>1, <1>3, <1>4, <1>5, RootedStays DEF PackOK

\* What a register names is rooted: what its executor put, what a row names, or its
\* worktree's delta packs.
LEMMA NamedStep ==
  ASSUME TypeOK, RegInv, KeyInv, [Next]_vars,
         NEW c \in Register, reg'[c] # None, NEW k \in reg'[c].row.names
  PROVE  Rooted(k)
<1>2. CASE reg[c] # None /\ reg'[c].row = reg[c].row
  BY <1>2 DEF KeyInv
<1>3. ASSUME NEW w \in Worktree, NEW e \in Register, Compose(e, w)
      PROVE  Rooted(k)
  <2>1. PICK ks \in SUBSET {x \in bucket : OwnerOf[x] = w \/ \E r \in rows : x \in r.names} :
               reg' = NewReg(e, w, ks, FALSE)
    BY <1>3 DEF Compose
  <2>2. CASE c = e
    <3>1. k \in ks
      BY <2>1, <2>2 DEF NewReg, TypeOK
    <3> QED
      BY <2>1, <3>1 DEF KeyInv
  <2>3. CASE c # e
    BY <1>2, <2>1, <2>3 DEF NewReg, TypeOK
  <2> QED
    BY <2>2, <2>3
<1>4. ASSUME NEW w \in Worktree, NEW e \in Register, ComposeZero(e, w)
      PROVE  Rooted(k)
  <2>1. reg' = NewReg(e, w, {x \in handoffs : OwnerOf[x] = w}, TRUE)
    BY <1>4 DEF ComposeZero
  <2>2. CASE c = e
    <3>1. k \in handoffs
      BY <2>1, <2>2 DEF NewReg, TypeOK
    <3> QED
      BY <3>1 DEF KeyInv, Rooted
  <2>3. CASE c # e
    BY <1>2, <2>1, <2>3 DEF NewReg, TypeOK
  <2> QED
    BY <2>2, <2>3
<1>5. ASSUME NEW e \in Register, Look(e) \/ Check(e) \/ Land(e) \/ Miss(e) \/ Record(e)
      PROVE  reg[c] # None /\ reg'[c].row = reg[c].row
  <2>1. CASE c # e
    BY <1>5, <2>1 DEF Look, Check, Land, Miss, Record, TypeOK
  <2>2. CASE c = e
    <3>1. reg[c] \in RegState /\ reg[c] # None
      BY <1>5, <2>2 DEF Look, Check, Land, Miss, Record, TypeOK
    <3>2. \/ \E g : reg'[c] = [reg[c] EXCEPT !.at = "looked", !.guards = g]
          \/ reg'[c] = [reg[c] EXCEPT !.at = "checked"]
          \/ reg'[c] = [reg[c] EXCEPT !.at = "landed"]
          \/ reg'[c] = [reg[c] EXCEPT !.at = "composed", !.guards = NoGuards]
      <4>1. CASE Look(c)
        <5> DEFINE ks == reg[c].row.names
                   ws == Owners(ks) \cup {reg[c].row.wt}
                   x  == [reg[c] EXCEPT !.at = "looked", !.guards =
                            [w \in Worktree |-> IF w \in ws THEN chain[w].guard ELSE None]]
        <5>1. reg' = [reg EXCEPT ![c] = None] \/ reg' = [reg EXCEPT ![c] = x]
          BY <4>1 DEF Look
        <5>2. reg'[c] = x
          BY <5>1, <2>2 DEF TypeOK
        <5> QED
          BY <5>2
      <4>2. CASE Check(c) \/ Land(c) \/ Record(c)
        BY <4>2, <2>2 DEF Check, Land, Record, TypeOK
      <4>3. CASE Miss(c)
        BY <4>3, <2>2 DEF Miss, TypeOK
      <4> QED
        BY <1>5, <2>2, <4>1, <4>2, <4>3
    <3> QED
      BY <3>1, <3>2 DEF RegState
  <2> QED
    BY <2>1, <2>2
<1>6. CASE reg' = reg
  BY <1>6 DEF KeyInv
<1> QED
  BY <1>2, <1>3, <1>4, <1>5, <1>6
  DEF Next, vars, Age, PutDelta, CreateHandedOff, InitChain, Claim, Put, Begin, ReadRows,
      Thin, ListPacks, DoomPacks, SweepFenced, Condemn, Retire, Delete, Finish, Over

\* Every key in use stays rooted.
LEMMA KeyStep ==
  ASSUME TypeOK, TypeOK', RegInv, Grows, KeyInv, RevivedKnown, [Next]_vars
  PROVE  KeyInv'
<1>1. ASSUME NEW k \in handoffs' PROVE EpochOf[k] = 0
  <2>1. k \notin handoffs => \E x \in Key : CreateHandedOff(x)
    BY <1>1 DEF Next, vars, Age, PutDelta, InitChain, Claim, Put, Look, Check, Land,
         Miss, Record, Compose, ComposeZero, Begin, ReadRows, Thin, ListPacks, DoomPacks,
         SweepFenced, Condemn, Retire, Delete, Finish, Over
  <2> QED
    BY <1>1, <2>1 DEF CreateHandedOff, KeyInv
<1>2. ASSUME NEW k \in bucket' PROVE Rooted(k)'
  <2>1. k \notin bucket => \E x \in Key : PutDelta(x) \/ Put(x)
    BY <1>2 DEF Next, vars, Age, CreateHandedOff, InitChain, Claim, Look, Check, Land,
         Miss, Record, Compose, ComposeZero, Begin, ReadRows, Thin, ListPacks, DoomPacks,
         SweepFenced, Condemn, Retire, Delete, Finish, Over
  <2>2. Rooted(k)
    BY <1>2, <2>1 DEF PutDelta, Put, Rooted, KeyInv
  <2> QED
    BY <1>2, <2>2, RootedStays DEF TypeOK
<1>3. ASSUME NEW c \in Register, reg'[c] # None, NEW k \in reg'[c].row.names
      PROVE  Rooted(k)'
  <2>1. k \in Key
    BY <1>3 DEF TypeOK, RegState, Row
  <2> QED
    BY <1>3, <2>1, NamedStep, RootedStays
<1>4. \A d \in Digest : PackOK(d)'
  BY PackStep
<1> QED
  BY <1>1, <1>2, <1>3, <1>4 DEF KeyInv

\* What a pass read keeps guarding it while it does not move.
LEMMA GuardStays ==
  ASSUME TypeOK, KeyInv, RevivedKnown, [Next]_vars, NEW p \in Pass, pass[p] # None,
         Guarded(pass[p], packs, handoffs, tombs)
  PROVE  Guarded(pass[p], packs', handoffs', tombs')
<1> DEFINE q == pass[p]
<1>1. handoffs \subseteq handoffs' /\ tombs \subseteq tombs'
  BY OnlyGrow
<1>2. ASSUME NEW d \in q.aged
      PROVE  /\ packs'[d] # None /\ packs'[d].old
             /\ q.guards[OwnerOf[packs'[d].key]] # None \/ packs'[d].key \in handoffs'
  <2>1. d \in Digest
    BY DEF TypeOK, PassState
  <2>2. /\ packs[d] # None /\ packs[d].old
        /\ q.guards[OwnerOf[packs[d].key]] # None \/ packs[d].key \in handoffs
    BY DEF Guarded
  <2>3. packs'[d] # None
    BY <2>1, <2>2, EveryStepKeepsPacks DEF PacksKeep
  <2>4. packs'[d].old
    BY <2>1, <2>2, <2>3, PackMoves DEF PackKept, PackAged, PackRecorded
  <2>5. CASE packs'[d].key = packs[d].key
    BY <1>1, <2>2, <2>3, <2>4, <2>5
  <2>6. CASE packs'[d].key # packs[d].key
    BY <2>1, <2>2, <2>3, <2>4, <2>6 DEF RevivedKnown
  <2> QED
    BY <2>5, <2>6
<1> QED
  BY <1>1, <1>2 DEF Guarded

\* A step of a pass that takes nothing up leaves it guarded.
LEMMA QuietGuard ==
  ASSUME NEW q, NEW q2, NEW pk, NEW hs, NEW ts, Guarded(q, pk, hs, ts),
         q2.guards = q.guards, q2.aged = q.aged, q2.fence = q.fence, q2.at # "thin",
         q2.unread \subseteq q.unread, q2.listed \subseteq q.listed,
         q2.doomed \subseteq q.doomed, q2.left \subseteq q.left
  PROVE  Guarded(q2, pk, hs, ts)
  BY DEF Guarded

\* A pass that moves stays guarded.
LEMMA GuardStep ==
  ASSUME TypeOK, TypeOK', KeyInv, RevivedKnown, GuardInv, [Next]_vars, NEW p \in Pass, PassMoves(p)
  PROVE  Guarded(pass'[p], packs', handoffs', tombs')
<1> DEFINE q == pass[p]
           q2 == pass'[p]
<1>1. q # None => q \in PassState /\ Guarded(q, packs', handoffs', tombs')
  BY GuardStays DEF TypeOK, GuardInv
<1>2. CASE Begin(p)
  <2>1. /\ q2.guards = [w \in Worktree |-> IF chain[w] = None THEN None ELSE chain[w].guard]
        /\ q2.unread = {w \in Worktree : chain[w] # None} /\ q2.at = "rows"
        /\ q2.aged = {d \in Digest : packs[d] # None /\ packs[d].old}
        /\ q2.fence = [w \in Worktree |-> 0]
        /\ q2.listed = {} /\ q2.doomed = {} /\ q2.left = {}
        /\ packs' = packs /\ handoffs' = handoffs
    BY <1>2 DEF Begin, Step, TypeOK
  <2>2. \A w \in Worktree : chain[w] # None => q2.guards[w] # None
    BY <2>1 DEF TypeOK, Chain
  <2>3. ASSUME NEW d \in q2.aged
        PROVE  /\ packs[d] # None /\ packs[d].old
               /\ q2.guards[OwnerOf[packs[d].key]] # None \/ packs[d].key \in handoffs
    <3>1. /\ d \in Digest /\ packs[d] # None /\ packs[d].old
          /\ packs[d].key \in handoffs \/ chain[OwnerOf[packs[d].key]] # None
      BY <2>1, <2>3 DEF KeyInv, PackOK
    <3>2. OwnerOf[packs[d].key] \in Worktree
      BY <3>1 DEF TypeOK, Pack
    <3> QED
      BY <2>2, <3>1, <3>2
  <2> QED
    BY <2>1, <2>2, <2>3 DEF Guarded
<1>3. ASSUME NEW w \in Worktree, ReadRows(p, w) PROVE Guarded(q2, packs', handoffs', tombs')
  <2>1. q # None /\ q.at = "rows" /\ w \in q.unread
    BY <1>3 DEF ReadRows
  <2>2. /\ q2.at = "thin" /\ q2.owner = w /\ q2.read = RowsOf(w) /\ q2.unread = q.unread \ {w}
        /\ q2.guards = q.guards /\ q2.aged = q.aged /\ q2.fence = q.fence
        /\ q2.listed = q.listed /\ q2.doomed = q.doomed /\ q2.left = q.left
    BY <1>1, <1>3, <2>1 DEF ReadRows, Step, TypeOK, PassState
  <2> QED
    BY <1>1, <2>1, <2>2 DEF Guarded, RowsOf
<1>4. CASE Thin(p)
  <2>1. q # None /\ q.at = "thin"
    BY <1>4 DEF Thin
  <2>2. PICK drop : Step(p, Thinned(q, drop))
    BY <1>4 DEF Thin
  <2>3. q2 = Thinned(q, drop)
    BY <2>2 DEF Step, TypeOK
  <2>4. PICK e : q2.fence = [q.fence EXCEPT ![q.owner] = e]
    BY <1>1, <2>1, <2>3 DEF Thinned, PassState
  <2>5. /\ q2.at = "rows" /\ q2.unread = q.unread
        /\ q2.guards = q.guards /\ q2.aged = q.aged
        /\ q2.listed = q.listed /\ q2.doomed = q.doomed /\ q2.left = q.left
    BY <1>1, <2>1, <2>3 DEF Thinned, PassState
  <2>6. \A w \in Worktree : q2.fence[w] # 0 => q.guards[w] # None
    BY <1>1, <2>1, <2>4 DEF Guarded, PassState
  <2> QED
    BY <1>1, <2>1, <2>5, <2>6 DEF Guarded
<1>5. CASE ListPacks(p)
  <2>1. q # None /\ packs' = packs
    BY <1>5 DEF ListPacks
  <2>2. /\ q2.at = "doom" /\ q2.unread = q.unread
        /\ q2.guards = q.guards /\ q2.aged = q.aged /\ q2.fence = q.fence
        /\ q2.listed = {[digest |-> d, key |-> packs[d].key] :
             d \in {d \in Digest : packs[d] # None /\ packs[d].state # "retired"}}
        /\ q2.doomed = q.doomed /\ q2.left = q.left
    BY <1>1, <1>5, <2>1 DEF ListPacks, Step, TypeOK, PassState
  <2>3. \A x \in q2.listed : x.key = packs'[x.digest].key
    BY <2>1, <2>2
  <2> QED
    BY <1>1, <2>1, <2>2, <2>3 DEF Guarded
<1>6. CASE DoomPacks(p)
  <2> DEFINE live == q.live \cup handoffs
             gone == {x \in q.listed : x.digest \in q.aged /\ x.key \notin live}
             ds   == {[key |-> x.key, digest |-> x.digest] : x \in gone}
  <2>1. q # None /\ handoffs' = handoffs
    BY <1>6 DEF DoomPacks
  <2>2. q2 = [q EXCEPT !.at = "sweep", !.live = live, !.doomed = ds]
    BY <1>6 DEF DoomPacks, Step, TypeOK, PacksDoomed
  <2>3. \A x \in ds : q.guards[OwnerOf[x.key]] # None
    BY <1>1, <2>1 DEF Guarded
  <2> HIDE DEF live, ds
  <2>4. /\ q2.at = "sweep" /\ q2.unread = q.unread
        /\ q2.guards = q.guards /\ q2.aged = q.aged /\ q2.fence = q.fence
        /\ q2.listed = q.listed /\ q2.doomed = ds /\ q2.left = q.left
    BY <1>1, <2>1, <2>2 DEF PassState
  <2> QED
    BY <1>1, <2>1, <2>3, <2>4 DEF Guarded
<1>7. CASE SweepFenced(p)
  <2>1. PICK swept \in {{}, Fenced(q)} : Step(p, FencedDoomed(q, swept))
    BY <1>7 DEF SweepFenced
  <2> DEFINE new == {[key |-> k, digest |-> None] : k \in swept}
             ds  == q.doomed \cup new
  <2>2. q # None /\ q2 = [q EXCEPT !.at = "condemn", !.listed = {}, !.doomed = ds]
    BY <1>7, <2>1 DEF SweepFenced, Step, TypeOK, FencedDoomed
  <2>3. ASSUME NEW k \in swept PROVE q.guards[OwnerOf[k]] # None
    <3>1. /\ k \in Key /\ OwnerOf[k] \in Worktree /\ EpochOf[k] \in Nat
          /\ EpochOf[k] < q.fence[OwnerOf[k]]
      BY <2>1, <2>3 DEF Fenced, TypeOK
    <3> QED
      BY <1>1, <2>2, <3>1 DEF Guarded
  <2>4. \A x \in ds : q.guards[OwnerOf[x.key]] # None
    BY <1>1, <2>2, <2>3 DEF Guarded
  <2> HIDE DEF ds
  <2>5. /\ q2.at = "condemn" /\ q2.unread = q.unread
        /\ q2.guards = q.guards /\ q2.aged = q.aged /\ q2.fence = q.fence
        /\ q2.listed = {} /\ q2.doomed = ds /\ q2.left = q.left
    BY <1>1, <2>2 DEF PassState
  <2> QED
    BY <1>1, <2>2, <2>4, <2>5 DEF Guarded
<1>8. ASSUME NEW w \in Worktree, Condemn(p, w) PROVE Guarded(q2, packs', handoffs', tombs')
  <2> DEFINE ks == KeysIn(Plan(p, w))
  <2>1. q # None
    BY <1>8 DEF Condemn
  <2>2. q.guards[w] # None
    BY <1>1, <1>8, <2>1 DEF Condemn, Plan, Guarded
  <2>3. \/ q2 = [q EXCEPT !.at = "retire", !.owner = w, !.left = ks] /\ ks \subseteq tombs'
        \/ q2 = [q EXCEPT !.doomed = @ \ Plan(p, w)] /\ q.at = "condemn"
    BY <1>8, <2>2 DEF Condemn, Step, TypeOK
  <2> HIDE DEF ks
  <2>4. CASE q2 = [q EXCEPT !.at = "retire", !.owner = w, !.left = ks] /\ ks \subseteq tombs'
    <3>1. /\ q2.at = "retire" /\ q2.unread = q.unread
          /\ q2.guards = q.guards /\ q2.aged = q.aged /\ q2.fence = q.fence
          /\ q2.listed = q.listed /\ q2.doomed = q.doomed /\ q2.left = ks
      BY <1>1, <2>1, <2>4 DEF PassState
    <3> QED
      BY <1>1, <2>1, <2>4, <3>1 DEF Guarded
  <2>5. CASE q2 = [q EXCEPT !.doomed = @ \ Plan(p, w)] /\ q.at = "condemn"
    <3>1. /\ q2.at = "condemn" /\ q2.unread = q.unread
          /\ q2.guards = q.guards /\ q2.aged = q.aged /\ q2.fence = q.fence
          /\ q2.listed = q.listed /\ q2.doomed \subseteq q.doomed /\ q2.left = q.left
      BY <1>1, <2>1, <2>5 DEF PassState
    <3> QED
      BY <1>1, <2>1, <3>1, QuietGuard
  <2> QED
    BY <2>3, <2>4, <2>5
<1>9. ASSUME Retire(p) \/ (\E k \in Key : Delete(p, k)) \/ Finish(p)
      PROVE  Guarded(q2, packs', handoffs', tombs')
  <2>1. q # None
    BY <1>9 DEF Retire, Delete, Finish
  <2>2. /\ q2.at # "thin" /\ q2.unread = q.unread
        /\ q2.guards = q.guards /\ q2.aged = q.aged /\ q2.fence = q.fence
        /\ q2.listed = q.listed /\ q2.doomed \subseteq q.doomed /\ q2.left \subseteq q.left
    <3>1. CASE Retire(p)
      BY <1>1, <2>1, <3>1 DEF Retire, Step, TypeOK, PassState
    <3>3. CASE \E k \in Key : Delete(p, k)
      <4>1. PICK k \in Key : Delete(p, k)
        BY <3>3
      <4>2. /\ q.at = "delete"
            /\ \/ q2 = [q EXCEPT !.left = @ \ {k}]
               \/ q2 = [q EXCEPT !.left = @ \ {k}, !.failed = @ \cup {k}]
        BY <4>1 DEF Delete, Step, TypeOK
      <4>3. CASE q2 = [q EXCEPT !.left = @ \ {k}]
        BY <1>1, <2>1, <4>2, <4>3 DEF PassState
      <4>4. CASE q2 = [q EXCEPT !.left = @ \ {k}, !.failed = @ \cup {k}]
        BY <1>1, <2>1, <4>2, <4>4 DEF PassState
      <4> QED
        BY <4>2, <4>3, <4>4
    <3>4. CASE Finish(p)
      BY <1>1, <2>1, <3>4 DEF Finish, Step, TypeOK, PassState
    <3> QED
      BY <1>9, <3>1, <3>3, <3>4
  <2> QED
    BY <1>1, <2>1, <2>2, QuietGuard
<1>10. CASE Over(p)
  <2>1. /\ q2.at = "over" /\ q2.unread = {} /\ q2.aged = {} /\ q2.listed = {}
        /\ q2.doomed = {} /\ q2.left = {} /\ q2.fence = [w \in Worktree |-> 0]
    BY <1>1, <1>10 DEF Over, Step, TypeOK, PassState
  <2> QED
    BY <2>1 DEF Guarded
<1> QED
  BY <1>2, <1>3, <1>4, <1>5, <1>6, <1>7, <1>8, <1>9, <1>10 DEF PassMoves

\* Every pass stays guarded.
LEMMA GuardNext ==
  ASSUME TypeOK, TypeOK', KeyInv, RevivedKnown, GuardInv, [Next]_vars
  PROVE  GuardInv'
<1> SUFFICES ASSUME NEW p \in Pass, pass'[p] # None
             PROVE  Guarded(pass'[p], packs', handoffs', tombs')
  BY DEF GuardInv
<1>1. CASE pass'[p] = pass[p]
  BY <1>1, GuardStays DEF GuardInv
<1>2. CASE pass'[p] # pass[p]
  <2>1. PICK p2 \in Pass : PassMoves(p2)
    BY <1>2
    DEF PassMoves, Next, vars, Age, PutDelta, CreateHandedOff, InitChain, Claim, Put, Look,
        Check, Land, Miss, Record, Compose, ComposeZero
  <2>2. p2 = p
    BY <1>2, <2>1, OnePassMoves DEF Step, TypeOK
  <2> QED
    BY <2>1, <2>2, GuardStep
<1> QED
  BY <1>1, <1>2

\* Objects leave the bucket by a delete of what is condemned alone.
LEMMA OnlyCondemnedGo ==
  ASSUME TypeOK, GuardInv, [Next]_vars
  PROVE  bucket \ bucket' \subseteq tombs
<1>1. ASSUME NEW p \in Pass, NEW k \in Key, Delete(p, k) PROVE bucket \ bucket' \subseteq tombs
  <2>1. pass[p] # None /\ k \in pass[p].left /\ bucket \ {k} \subseteq bucket'
    BY <1>1 DEF Delete
  <2> QED
    BY <2>1 DEF GuardInv, Guarded
<1>2. CASE bucket \subseteq bucket'
  BY <1>2
<1> QED
  BY <1>1, <1>2 DEF Next, vars, Age, PutDelta, CreateHandedOff, InitChain, Claim, Put, Look, Check,
      Land, Miss, Record, Compose, ComposeZero, Begin, ReadRows, Thin, ListPacks, DoomPacks,
      SweepFenced, Condemn, Retire, Finish, Over

\* A row that lands names what is in the bucket.
LEMMA LandThere ==
  ASSUME TypeOK, RegInv, ThereInv, NEW c \in Register, Land(c)
  PROVE  reg[c].row.names \subseteq bucket
<1> DEFINE r == reg[c].row
           g == reg[c].guards
<1>1. /\ reg[c] # None /\ reg[c] \in RegState /\ RegOK(reg[c], handoffs)
      /\ reg[c].at = "checked" /\ CanLand(r, g)
  BY DEF Land, TypeOK, RegInv
<1>2. CASE reg[c].zero
  BY <1>1, <1>2 DEF RegOK, ThereInv
<1>3. CASE ~reg[c].zero
  <2>1. g[r.wt] # None /\ r.wt \in Worktree
    BY <1>1, <1>3 DEF RegOK, RegState, Row
  <2>2. g # NoGuards
    BY <2>1 DEF NoGuards
  <2> QED
    BY <1>1, <2>2 DEF CanLand, ThereInv
<1> QED
  BY <1>2, <1>3

\* Every object a row names stays in the bucket.
LEMMA NamesStay ==
  ASSUME TypeOK, RegInv, GuardInv, ThereInv, CondemnedIsUnnamed, CondemnedIsUnnamed', [Next]_vars,
         NEW r \in rows'
  PROVE  r.names \subseteq bucket'
<1>1. CASE r \in rows
  BY <1>1, OnlyCondemnedGo DEF ThereInv, NamedIsThere, CondemnedIsUnnamed
<1>2. CASE r \notin rows
  <2>1. PICK c \in Register : Land(c)
    BY <1>2
    DEF Next, vars, Age, PutDelta, CreateHandedOff, InitChain, Claim, Put, Look, Check,
        Miss, Record, Compose, ComposeZero, Begin, ReadRows, Thin, ListPacks, DoomPacks,
        SweepFenced, Condemn, Retire, Delete, Finish, Over
  <2> QED
    BY <1>2, <2>1, LandThere DEF Land
<1> QED
  BY <1>1, <1>2

\* A step leaves a chain's head where it was, or lands the row it moves to.
LEMMA HeadMoves ==
  ASSUME TypeOK, RegInv, [Next]_vars, NEW w \in Worktree, chain'[w] # None, chain'[w].n >= 0
  PROVE  \/ chain[w] # None /\ chain[w].n = chain'[w].n
         \/ \E r \in rows' : r.wt = w /\ r.n = chain'[w].n
<1>0. chain[w] # None => chain[w] \in Chain
  BY DEF TypeOK
<1>1. ASSUME NEW c \in Register, Land(c)
      PROVE  \/ chain[w] # None /\ chain[w].n = chain'[w].n
             \/ \E r \in rows' : r.wt = w /\ r.n = chain'[w].n
  <2> DEFINE r == reg[c].row
             g == reg[c].guards
  <2>1. /\ chain' = Bumped(r, g) /\ r \in rows' /\ chain[r.wt] # None
        /\ GuardsHold(g) /\ r \in Row /\ r.n \in Nat
    BY <1>1 DEF Land, CanLand, TypeOK, RegState, Row
  <2>2. CASE w = r.wt
    <3>1. chain'[w] = [chain[w] EXCEPT !.n = r.n, !.guard = @ + 1]
      BY <2>1, <2>2 DEF Bumped
    <3>2. chain'[w].n = r.n
      BY <1>0, <2>1, <2>2, <3>1 DEF Chain
    <3> QED
      BY <2>1, <2>2, <3>2
  <2>3. CASE w # r.wt /\ g[w] # None
    <3>1. chain'[w] = [chain[w] EXCEPT !.guard = @ + 1] /\ chain[w] # None
      BY <2>1, <2>3 DEF Bumped, GuardsHold
    <3> QED
      BY <1>0, <3>1 DEF Chain
  <2>4. CASE w # r.wt /\ g[w] = None
    BY <2>1, <2>4 DEF Bumped
  <2> QED
    BY <2>2, <2>3, <2>4
<1>2. ASSUME NEW c \in Register, Miss(c) PROVE chain[w] # None /\ chain[w].n = chain'[w].n
  <2>1. chain' = Missed(reg[c].row, reg[c].guards)
    BY <1>2 DEF Miss
  <2>2. \/ chain'[w] = chain[w]
        \/ chain[w] # None /\ chain'[w] = [chain[w] EXCEPT !.guard = @ + 1]
    BY <2>1 DEF Missed
  <2> QED
    BY <1>0, <2>2 DEF Chain
<1>3. ASSUME NEW v \in Worktree, InitChain(v) PROVE chain[w] # None /\ chain[w].n = chain'[w].n
  <2>1. chain' = [chain EXCEPT ![v] = NewChain]
    BY <1>3 DEF InitChain
  <2>2. w # v
    BY <2>1 DEF NewChain, TypeOK
  <2> QED
    BY <2>1, <2>2 DEF TypeOK
<1>4. ASSUME NEW v \in Worktree, Claim(v) PROVE chain[w] # None /\ chain[w].n = chain'[w].n
  BY <1>0, <1>4 DEF Claim, TypeOK, Chain
<1>5. ASSUME NEW p \in Pass, NEW v \in Worktree, Condemn(p, v)
      PROVE  chain[w] # None /\ chain[w].n = chain'[w].n
  <2>1. chain' = chain \/ (chain' = [chain EXCEPT ![v].guard = @ + 1] /\ chain[v] # None)
    BY <1>5 DEF Condemn, CondemnHolds
  <2> QED
    BY <1>0, <2>1 DEF TypeOK, Chain
<1>6. CASE chain' = chain
  BY <1>6
<1> QED
  BY <1>1, <1>2, <1>3, <1>4, <1>5, <1>6
  DEF Next, vars, Age, PutDelta, CreateHandedOff, Put, Look, Check, Record, Compose,
      ComposeZero, Begin, ReadRows, Thin, ListPacks, DoomPacks, SweepFenced, Retire, Delete,
      Finish, Over

\* Thinning spares the head's row.
LEMMA HeadStays ==
  ASSUME TypeOK, GuardInv, [Next]_vars, NEW r \in rows, chain[r.wt] # None, r.n = chain[r.wt].n
  PROVE  r \in rows'
<1>1. ASSUME NEW p \in Pass, Thin(p) PROVE r \in rows'
  <2>1. /\ pass[p] # None /\ pass[p].at = "thin"
        /\ \E drop \in SUBSET Droppable(p, pass[p].owner) : rows' = rows \ drop
    BY <1>1 DEF Thin
  <2>2. r \in pass[p].read => r.wt = pass[p].owner
    BY <2>1 DEF GuardInv, Guarded
  <2> QED
    BY <2>1, <2>2 DEF Droppable
<1> QED
  BY <1>1 DEF Next, vars, Age, PutDelta, CreateHandedOff, InitChain, Claim, Put, Look, Check,
      Land, Miss, Record, Compose, ComposeZero, Begin, ReadRows, ListPacks, DoomPacks,
      SweepFenced, Condemn, Retire, Delete, Finish, Over

\* A register that checked names what is there or condemned.
LEMMA CheckedStays ==
  ASSUME TypeOK, RegInv, GuardInv, ThereInv, [Next]_vars,
         NEW c \in Register, reg'[c] # None, reg'[c].at = "checked"
  PROVE  reg'[c].row.names \subseteq bucket' \cup tombs'
<1>1. bucket \cup tombs \subseteq bucket' \cup tombs'
  BY OnlyCondemnedGo, OnlyGrow
<1>2. CASE reg'[c] = reg[c]
  BY <1>1, <1>2 DEF ThereInv
<1>3. ASSUME Check(c) PROVE reg'[c].row.names \subseteq bucket
  <2>1. /\ reg[c] \in RegState /\ reg'[c] = [reg[c] EXCEPT !.at = "checked"]
        /\ reg[c].row.names \ Held(reg[c].row) \subseteq bucket
    BY <1>3 DEF Check, TypeOK
  <2>2. Held(reg[c].row) \subseteq bucket
    BY DEF Held, RowsOf, ThereInv, NamedIsThere
  <2> QED
    BY <2>1, <2>2 DEF RegState
<1>4. ASSUME NEW w \in Worktree, ComposeZero(c, w) PROVE reg'[c].row.names \subseteq bucket
  <2>1. reg'[c].row.names \subseteq handoffs
    BY <1>4 DEF ComposeZero, NewReg, TypeOK
  <2> QED
    BY <2>1 DEF ThereInv
<1>5. ASSUME NEW w \in Worktree, Compose(c, w) PROVE FALSE
  BY <1>5 DEF Compose, NewReg, TypeOK
<1>6. ASSUME Look(c) PROVE FALSE
  <2> DEFINE ks == reg[c].row.names
             ws == Owners(ks) \cup {reg[c].row.wt}
             x  == [reg[c] EXCEPT !.at = "looked", !.guards =
                      [w \in Worktree |-> IF w \in ws THEN chain[w].guard ELSE None]]
  <2>1. reg' = [reg EXCEPT ![c] = None] \/ reg' = [reg EXCEPT ![c] = x]
    BY <1>6 DEF Look
  <2>2. reg'[c] = x /\ reg[c] \in RegState
    BY <1>6, <2>1 DEF Look, TypeOK
  <2> QED
    BY <2>2 DEF RegState
<1>7. ASSUME Land(c) \/ Record(c) PROVE FALSE
  BY <1>7 DEF Land, Record, TypeOK, RegState
<1>8. ASSUME Miss(c) PROVE FALSE
  <2>1. reg[c] \in RegState /\ reg'[c] = [reg[c] EXCEPT !.at = "composed", !.guards = NoGuards]
    BY <1>8 DEF Miss, TypeOK
  <2> QED
    BY <2>1 DEF RegState
<1>9. ASSUME reg' # reg, NEW e \in Register, e # c,
             Look(e) \/ Check(e) \/ Land(e) \/ Miss(e) \/ Record(e) \/
             \E w \in Worktree : Compose(e, w) \/ ComposeZero(e, w)
      PROVE  reg'[c] = reg[c]
  BY <1>9 DEF Look, Check, Land, Miss, Record, Compose, ComposeZero, NewReg, TypeOK
<1> QED
  BY <1>1, <1>2, <1>3, <1>4, <1>5, <1>6, <1>7, <1>8, <1>9
  DEF Next, vars, Age, PutDelta, CreateHandedOff, InitChain, Claim, Put, Begin, ReadRows,
      Thin, ListPacks, DoomPacks, SweepFenced, Condemn, Retire, Delete, Finish, Over

\* What is named stays there.
LEMMA ThereStep ==
  ASSUME TypeOK, TypeOK', RegInv, TombInv, GuardInv, ThereInv, CondemnedIsUnnamed,
         CondemnedIsUnnamed', [Next]_vars
  PROVE  ThereInv'
<1>1. \A r \in rows' : r.names \subseteq bucket'
  BY NamesStay
<1>2. ASSUME NEW w \in Worktree, chain'[w] # None, chain'[w].n >= 0
      PROVE  \E r \in rows' : r.wt = w /\ r.n = chain'[w].n
  <2>1. CASE chain[w] # None /\ chain[w].n = chain'[w].n
    <3>1. PICK r \in rows : r.wt = w /\ r.n = chain[w].n
      BY <1>2, <2>1 DEF ThereInv, NamedIsThere
    <3> QED
      BY <2>1, <3>1, HeadStays
  <2> QED
    BY <1>2, <2>1, HeadMoves
<1>3. handoffs' \subseteq bucket'
  <2>1. \A k \in handoffs' : k \in bucket
    BY DEF Next, vars, Age, PutDelta, CreateHandedOff, InitChain, Claim, Put, Look, Check, Land,
       Miss, Record, Compose, ComposeZero, Begin, ReadRows, Thin, ListPacks, DoomPacks,
       SweepFenced, Condemn, Retire, Delete, Finish, Over, ThereInv
  <2>2. handoffs' = handoffs \/ bucket \subseteq bucket'
    BY DEF Next, vars, Age, PutDelta, CreateHandedOff, InitChain, Claim, Put, Look, Check, Land,
       Miss, Record, Compose, ComposeZero, Begin, ReadRows, Thin, ListPacks, DoomPacks,
       SweepFenced, Condemn, Retire, Delete, Finish, Over
  <2> QED
    BY <2>1, <2>2, OnlyCondemnedGo DEF TombInv
<1>4. \A c \in Register : reg'[c] # None /\ reg'[c].at = "checked" =>
        reg'[c].row.names \subseteq bucket' \cup tombs'
  BY CheckedStays
<1> QED
  BY <1>1, <1>2, <1>3, <1>4 DEF ThereInv, NamedIsThere

\* What is named is there at the start.
LEMMA ThereInit == Init => KeyInv /\ GuardInv /\ ThereInv
<1> SUFFICES ASSUME Init PROVE KeyInv /\ GuardInv /\ ThereInv
  OBVIOUS
<1>1. TypeOK
  BY TypeInit
<1>2. \A w \in Started : chain[w] = [n |-> 0, epoch |-> 1, guard |-> 0] /\ chain[w] # None
  <2>1. [n |-> 0, epoch |-> 1, guard |-> 0] \in Chain
    BY DEF Chain
  <2> QED
    BY <2>1 DEF Init
<1>3. ASSUME NEW d \in Digest PROVE PackOK(d)
  <2> DEFINE of == {k \in Retired : DigestOf[k] = d}
  <2>1. PICK k : k = CHOOSE x \in of : TRUE
    OBVIOUS
  <2>2. packs[d] = IF of = {} THEN None ELSE [key |-> k, state |-> "retired", old |-> TRUE]
    BY <2>1 DEF Init
  <2>3. of # {} => k \in Key /\ OwnerOf[k] \in Started
    BY <2>1
  <2> QED
    BY <1>2, <2>2, <2>3 DEF PackOK, Rooted
<1>4. KeyInv /\ GuardInv
  BY <1>3 DEF Init, KeyInv, GuardInv
<1>5. \A w \in Worktree : chain[w] # None => w \in Started
  BY DEF Init
<1>6. NamedIsThere
  <2>1. \A r \in rows : r.names = {}
    BY DEF Init
  <2>2. ASSUME NEW w \in Started
        PROVE  \E r \in rows : r.wt = w /\ r.n = chain[w].n
    <3>1. [wt |-> w, n |-> 0, epoch |-> 0, names |-> {}] \in rows
      BY DEF Init
    <3> QED
      BY <1>2, <3>1
  <2> QED
    BY <1>5, <2>1, <2>2 DEF NamedIsThere
<1> QED
  BY <1>4, <1>6 DEF Init, ThereInv

\* Whatever the chains name is there, for any number of worktrees, keys, registers and
\* overlapping passes, in every behaviour that never revives a packs row past the grace
\* for a worktree a pass at work has not heard of.
THEOREM NamedThere == KnownSpec => []NamedIsThere
<1> DEFINE All == Inv /\ KeyInv /\ GuardInv /\ ThereInv
<1>1. Init => All
  BY InvInit, ThereInit
<1>2. TypeOK /\ TypeOK' /\ All /\ [Next]_vars /\ [RevivedKnown]_vars => All'
  <2> SUFFICES ASSUME TypeOK, TypeOK', All, [Next]_vars, [RevivedKnown]_vars PROVE All'
    OBVIOUS
  <2>1. RevivedKnown
    BY DEF vars, RevivedKnown
  <2>2. Grows /\ RegInv /\ RowInv /\ PassInv /\ TombInv /\ CondemnedIsUnnamed
    BY EveryStepGrows DEF Inv
  <2>3. Inv'
    BY <2>2, RegStep, RowStep, PassNext, TombStep DEF Inv
  <2>4. CondemnedIsUnnamed'
    BY <2>3 DEF Inv
  <2>5. KeyInv'
    BY <2>1, <2>2, KeyStep
  <2>6. GuardInv'
    BY <2>1, GuardNext
  <2>7. ThereInv'
    BY <2>2, <2>4, ThereStep
  <2> QED
    BY <2>3, <2>5, <2>6, <2>7
<1>3. All => NamedIsThere
  BY DEF ThereInv
<1> HIDE DEF All
<1> QED
  BY <1>1, <1>2, <1>3, TypeCorrect, PTL DEF KnownSpec, Spec

-----------------------------------------------------------------------------
(* Review passes: types. *)

R == INSTANCE ReviewPasses

\* What is assumed of the constants.
LEMMA ReviewConstants ==
  /\ Prep # Retry /\ Prep \notin Asker /\ Retry \notin Asker
  /\ Nothing \notin Session \cup Job \cup R!Caller
  /\ RetryLimit \in Nat /\ MaxTries \in Nat /\ MaxDiff \in Nat /\ MaxMark \in Nat
  /\ DOMAIN Text = 0..MaxDiff
  BY PassesAssumption DEF Caller, R!Caller

\* What ReviewState promises is what ReviewPasses does, of one state.
LEMMA SameReviews ==
  /\ OneLiveJob <=> R!OneLiveJob
  /\ RecordedIsCovered <=> R!RecordedIsCovered
  /\ EverySettleIsPrepared <=> R!EverySettleIsPrepared
  BY DEF OneLiveJob, R!OneLiveJob, LiveJobs, R!LiveJobs, RecordedIsCovered, R!RecordedIsCovered,
         Covers, R!Covers, EverySettleIsPrepared, R!EverySettleIsPrepared, SettledForReview,
         R!SettledForReview, Settles, R!Settles

\* A call is typed, and typed still wherever it stands.
LEMMA CallTypes ==
  ASSUME R!TypeOK, NEW c \in R!Caller
  PROVE  /\ call[c] \in R!Calls
         /\ R!Idle \in R!Calls
         /\ \A at \in R!Places : [R!Idle EXCEPT !.at = at] \in R!Calls
         /\ \A at \in R!Places : [call[c] EXCEPT !.at = at] \in R!Calls
<1>1. call[c] \in R!Calls
  BY DEF R!TypeOK
<1>2. R!Idle \in R!Calls
  BY ReviewConstants DEF R!Calls, R!Idle, R!Places
<1>3. \A x \in R!Calls, at \in R!Places : [x EXCEPT !.at = at] \in R!Calls
  BY DEF R!Calls
<1> QED
  BY <1>1, <1>2, <1>3

\* A call that moves on, with what it has read or without, is typed.
LEMMA GoesTyped ==
  ASSUME R!TypeOK, NEW c \in R!Caller, NEW at \in R!Places, R!Goes(c, at) \/ R!Drops(c, at)
  PROVE  call' \in [R!Caller -> R!Calls]
<1>1. /\ [R!Idle EXCEPT !.at = at] \in R!Calls
      /\ [call[c] EXCEPT !.at = at] \in R!Calls
      /\ call \in [R!Caller -> R!Calls]
  BY CallTypes DEF R!TypeOK
<1>2. \/ call' = [call EXCEPT ![c] = [call[c] EXCEPT !.at = at]]
      \/ call' = [call EXCEPT ![c] = [R!Idle EXCEPT !.at = at]]
  BY <1>1 DEF R!Goes, R!Drops
<1> QED
  BY <1>1, <1>2

\* A call that has read nothing is typed, whatever session it is of.
LEMMA IdleTyped ==
  ASSUME NEW s \in Session \cup {Nothing}, NEW at \in R!Places
  PROVE  [R!Idle EXCEPT !.at = at, !.session = s] \in R!Calls
<1>1. R!Idle \in R!Calls
  BY ReviewConstants DEF R!Idle, R!Calls, R!Places
<1>2. \A x \in R!Calls : [x EXCEPT !.at = at, !.session = s] \in R!Calls
  BY DEF R!Calls
<1> QED
  BY <1>1, <1>2

\* So is every call when one is replaced by a typed one.
LEMMA PutTyped ==
  ASSUME R!TypeOK, NEW c, NEW x \in R!Calls, call' = [call EXCEPT ![c] = x]
  PROVE  call' \in [R!Caller -> R!Calls]
<1>1. call \in [R!Caller -> R!Calls]
  BY DEF R!TypeOK
<1> QED
  BY <1>1

\* The start of the retry types its call and its tries.
LEMMA StartRetryTyped ==
  ASSUME R!TypeOK, NEW called \in [R!Caller -> R!Calls], R!StartRetry(called)
  PROVE  call' \in [R!Caller -> R!Calls] /\ tries' \in Nat
<1>1. [R!Idle EXCEPT !.at = "sleep"] \in R!Calls
  BY CallTypes DEF R!Places, R!Caller
<1>2. tries \in Nat
  BY DEF R!TypeOK
<1> QED
  BY <1>1, <1>2 DEF R!StartRetry

\* The sessions' steps keep the types.
LEMMA WorkTyped ==
  ASSUME R!TypeOK, R!Work
  PROVE  R!TypeOK'
<1> USE ReviewConstants DEF R!TypeOK
<1>1. CASE R!Edit
  BY <1>1 DEF R!Edit, R!watch, R!prep, R!pass
<1>2. ASSUME NEW s \in Session, R!GoLive(s) PROVE R!TypeOK'
  <2>1. session' \in [Session -> R!Rows] /\ owed' \in [Session -> Nat] /\ last' \in Nat
    <3>1. [session[s] EXCEPT !.status = "live", !.mark = last + 1] \in R!Rows
      <4>1. \A x \in R!Rows, m \in Nat : [x EXCEPT !.status = "live", !.mark = m] \in R!Rows
        BY DEF R!Rows, R!Statuses
      <4>2. session[s] \in R!Rows /\ last + 1 \in Nat
        OBVIOUS
      <4> HIDE DEF R!TypeOK
      <4> QED
        BY <4>1, <4>2
    <3>2. session' = [session EXCEPT ![s] =
                        [session[s] EXCEPT !.status = "live", !.mark = last + 1]]
      BY <1>2 DEF R!GoLive
    <3>3. last' \in Nat /\ owed' \in [Session -> Nat]
      BY <1>2 DEF R!GoLive
    <3> QED
      BY <3>1, <3>2, <3>3
  <2> QED
    BY <1>2, <2>1 DEF R!GoLive, R!Notify, R!prep, R!pass
<1>3. ASSUME NEW s \in Session, R!MoveAgent(s) PROVE R!TypeOK'
  <2>1. session' \in [Session -> R!Rows]
    <3>1. \A x \in R!Rows, agent \in {"live", "over"} : [x EXCEPT !.agent = agent] \in R!Rows
      BY DEF R!Rows
    <3>2. session \in [Session -> R!Rows]
      OBVIOUS
    <3> HIDE DEF R!TypeOK
    <3>3. PICK agent \in {"live", "over"} :
            session' = [session EXCEPT ![s] = [session[s] EXCEPT !.agent = agent]]
      BY <1>3 DEF R!MoveAgent
    <3> QED
      BY <3>1, <3>2, <3>3
  <2> QED
    BY <1>3, <2>1 DEF R!MoveAgent, R!Notify, R!prep, R!pass
<1>4. ASSUME NEW s \in Session, NEW status \in R!Statuses, R!LeaveLive(s, status)
      PROVE  R!TypeOK'
  <2>1. session' \in [Session -> R!Rows]
    <3>1. \A x \in R!Rows : [x EXCEPT !.status = status] \in R!Rows
      BY <1>4 DEF R!Rows
    <3>2. session \in [Session -> R!Rows]
      OBVIOUS
    <3> HIDE DEF R!TypeOK
    <3>3. session' = [session EXCEPT ![s] = [session[s] EXCEPT !.status = status]]
      BY <1>4 DEF R!LeaveLive
    <3> QED
      BY <3>1, <3>2, <3>3
  <2> QED
    BY <1>4, <2>1 DEF R!LeaveLive, R!Notify, R!prep, R!pass
<1> QED
  BY <1>1, <1>2, <1>3, <1>4 DEF R!Work

\* What is judged of a session is typed.
LEMMA JudgeTyped ==
  ASSUME R!TypeOK, NEW s \in Session, NEW was \in {"unknown", "live", "settled"},
         R!Judge(s, was)
  PROVE  look' \in [Session -> R!Looks] /\ seen' \in [Session -> R!Readings]
<1>1. R!SettledAfter(was, R!ReviewReading(s)) \in {"unknown", "live", "settled"}
  BY DEF R!SettledAfter, R!ReviewReading
<1> QED
  BY <1>1 DEF R!TypeOK, R!Judge, R!NotLooked, R!Looks, R!Readings

\* Review prep's steps keep the types,
LEMMA WatchTyped ==
  ASSUME R!TypeOK, R!Watch
  PROVE  R!TypeOK'
<1> USE ReviewConstants DEF R!TypeOK
<1>1. CASE R!Begin
  BY <1>1 DEF R!Begin, R!Unread, R!sessions, R!prep, R!pass, R!Readings
<1>2. CASE R!List
  BY <1>2 DEF R!List, R!RowOf, R!NotLooked, R!Looks, R!Rows, R!sessions, R!prep, R!pass
<1>3. CASE R!Listen
  BY <1>3 DEF R!Listen, R!Rows, R!prep, R!pass
<1>4. CASE R!Drop
  BY <1>4 DEF R!Drop, R!sessions, R!prep, R!pass
<1>5. CASE R!HearRow
  <2>1. call' \in [R!Caller -> R!Calls] /\ tries' \in Nat
    BY <1>5, StartRetryTyped DEF R!HearRow
  <2> QED
    BY <1>5, <2>1 DEF R!HearRow, R!sessions, R!watch, R!pass
<1>6. ASSUME NEW s \in Session, R!Baseline(s) PROVE R!TypeOK'
  <2>1. look' \in [Session -> R!Looks] /\ seen' \in [Session -> R!Readings]
    BY <1>6, JudgeTyped DEF R!Baseline
  <2> QED
    BY <1>6, <2>1 DEF R!Baseline, R!sessions, R!prep, R!pass
<1>7. ASSUME NEW s \in Session, R!ReadRow(s) PROVE R!TypeOK'
  <2>1. call' \in [R!Caller -> R!Calls]
    BY <1>7, GoesTyped DEF R!ReadRow, R!Caller, R!Places
  <2> QED
    BY <1>7, <2>1 DEF R!ReadRow, R!RowOf, R!Looks, R!Rows, R!sessions, R!prep, R!pass
<1>8. ASSUME NEW s \in Session, R!Observe(s) PROVE R!TypeOK'
  <2>1. R!SettledBefore(s) \in {"unknown", "live", "settled"}
    BY DEF R!SettledBefore, R!Readings
  <2>2. look' \in [Session -> R!Looks] /\ seen' \in [Session -> R!Readings]
    BY <1>8, <2>1, JudgeTyped DEF R!Observe
  <2>3. call' \in [R!Caller -> R!Calls] /\ owed' \in [Session -> Nat]
    <3>1. CASE R!Prepares(s)
      <4>1. [R!Idle EXCEPT !.at = "diff", !.session = s] \in R!Calls
        BY IdleTyped DEF R!Places
      <4>2. call' \in [R!Caller -> R!Calls]
        BY <1>8, <3>1, <4>1, PutTyped DEF R!Observe
      <4> QED
        BY <1>8, <3>1, <4>2 DEF R!Observe
    <3>2. CASE ~R!Prepares(s)
      <4>1. R!Drops(Prep, "idle")
        BY <1>8, <3>2 DEF R!Observe
      <4>2. call' \in [R!Caller -> R!Calls]
        BY <4>1, GoesTyped DEF R!Places, R!Caller
      <4> QED
        BY <1>8, <3>2, <4>2 DEF R!Observe
    <3> QED
      BY <3>1, <3>2
  <2> QED
    BY <1>8, <2>2, <2>3 DEF R!Observe, R!prep, R!pass
<1> QED
  BY <1>1, <1>2, <1>3, <1>4, <1>5, <1>6, <1>7, <1>8 DEF R!Watch


\* a caller's,
LEMMA QueueTyped ==
  ASSUME R!TypeOK, NEW c \in R!Caller, R!Queue(c)
  PROVE  R!TypeOK'
<1>t. /\ diff \in 0..MaxDiff /\ call \in [R!Caller -> R!Calls] /\ call[c] \in R!Calls
      /\ behind \in Session \cup {Nothing} /\ tries \in Nat
      /\ lock \in R!Caller \cup {Nothing} /\ jobs \in [Job -> R!Jobs]
      /\ call[c].session \in Session \cup {Nothing} /\ call[c].job \in Job \cup {Nothing}
      /\ call[c].diff \in 0..MaxDiff
  BY DEF R!TypeOK, R!Calls
<1>1. CASE R!ReadDiff(c)
  <2>1. [call[c] EXCEPT !.at = "digest", !.diff = diff] \in R!Calls
    BY <1>t DEF R!Calls, R!Places
  <2>2. call' = [call EXCEPT ![c] = [call[c] EXCEPT !.at = "digest", !.diff = diff]]
    BY <1>1, <1>t DEF R!ReadDiff
  <2>3. call' \in [R!Caller -> R!Calls]
    BY <2>1, <2>2, PutTyped
  <2> QED
    BY <1>1, <2>3 DEF R!ReadDiff, R!TypeOK, R!sessions, R!watch, R!prep, R!pass
<1>2. CASE R!PrepareNothing(c)
  <2>1. call' \in [R!Caller -> R!Calls]
    BY <1>2, GoesTyped DEF R!PrepareNothing, R!After, R!Places
  <2> QED
    BY <1>2, <2>1 DEF R!PrepareNothing, R!TypeOK, R!sessions, R!watch, R!prep, R!pass
<1>3. CASE R!ReadDigest(c)
  <2>1. call' \in [R!Caller -> R!Calls]
    BY <1>3, GoesTyped DEF R!ReadDigest, R!Places
  <2> QED
    BY <1>3, <2>1 DEF R!ReadDigest, R!TypeOK, R!sessions, R!watch, R!prep, R!pass
<1>4. CASE R!QueueRow(c)
  <2>1. call' \in [R!Caller -> R!Calls]
    BY <1>4, GoesTyped DEF R!QueueRow, R!Places
  <2> QED
    BY <1>4, <2>1 DEF R!QueueRow, R!TypeOK, R!sessions, R!watch, R!prep, R!pass
<1>5. CASE R!Find(c)
  <2>1. PICK answer \in {"queued", "waiting", "running"}, j \in Job \cup {Nothing} :
          R!Answers(c, answer, j)
    BY <1>5 DEF R!Find, R!FindsJobs, R!LiveJobs
  <2>2. [call[c] EXCEPT !.at = "send", !.answer = answer, !.job = j] \in R!Calls
    BY <1>t DEF R!Calls, R!Places
  <2>3. call' = [call EXCEPT ![c] = [call[c] EXCEPT !.at = "send", !.answer = answer, !.job = j]]
    BY <1>t, <2>1 DEF R!Answers
  <2>4. call' \in [R!Caller -> R!Calls]
    BY <2>2, <2>3, PutTyped
  <2> QED
    BY <1>5, <2>4 DEF R!Find, R!TypeOK, R!sessions, R!watch, R!prep, R!pass
<1>6. CASE R!Send(c)
  <2>1. CASE call[c].answer # "queued"
    <3>1. call' \in [R!Caller -> R!Calls] /\ jobs' = jobs
      BY <1>6, <2>1, GoesTyped DEF R!Send, R!Places
    <3> QED
      BY <1>6, <3>1 DEF R!Send, R!TypeOK, R!sessions, R!watch, R!prep, R!pass
  <2>2. CASE call[c].answer = "queued"
    <3>1. PICK j \in Job : R!Insert(j) /\ call' = [call EXCEPT ![c].at = "answered", ![c].job = j]
      BY <1>6, <2>2 DEF R!Send
    <3>2. jobs' \in [Job -> R!Jobs]
      BY <1>t, <3>1 DEF R!Insert, R!Jobs
    <3>3. [call[c] EXCEPT !.at = "answered", !.job = j] \in R!Calls
      BY <1>t DEF R!Calls, R!Places
    <3>4. call' = [call EXCEPT ![c] = [call[c] EXCEPT !.at = "answered", !.job = j]]
      BY <1>t, <3>1
    <3>5. call' \in [R!Caller -> R!Calls]
      BY <3>3, <3>4, PutTyped
    <3> QED
      BY <1>6, <3>2, <3>5 DEF R!Send, R!TypeOK, R!sessions, R!watch, R!prep, R!pass
  <2> QED
    BY <2>1, <2>2
<1>7. CASE R!EnqueueFails(c)
  <2>1. call' \in [R!Caller -> R!Calls]
    BY <1>7, GoesTyped DEF R!EnqueueFails, R!Places
  <2>2. jobs' \in [Job -> R!Jobs]
    BY <1>7, <1>t DEF R!EnqueueFails, R!Insert, R!Jobs
  <2> QED
    BY <1>7, <2>1, <2>2 DEF R!EnqueueFails, R!TypeOK, R!sessions, R!watch, R!prep, R!pass
<1>8. CASE R!FailRow(c)
  <2>1. call' \in [R!Caller -> R!Calls]
    BY <1>8, GoesTyped DEF R!FailRow, R!Places
  <2> QED
    BY <1>8, <2>1 DEF R!FailRow, R!TypeOK, R!sessions, R!watch, R!prep, R!pass
<1>9. CASE R!Asked(c)
  <2>1. call' \in [R!Caller -> R!Calls]
    BY <1>9, GoesTyped DEF R!Asked, R!Places
  <2> QED
    BY <1>9, <2>1 DEF R!Asked, R!TypeOK, R!sessions, R!watch, R!prep, R!pass
<1>10. CASE R!WaitBehind(c)
  <2>1. call' \in [R!Caller -> R!Calls]
    BY <1>10, GoesTyped DEF R!WaitBehind, R!Places
  <2> QED
    BY <1>10, <1>t, <2>1 DEF R!WaitBehind, R!TypeOK, R!sessions, R!watch, R!prep, R!pass
<1>11. CASE R!RecordPrep(c)
  <2>1. call' \in [R!Caller -> R!Calls]
    BY <1>11, GoesTyped DEF R!RecordPrep, R!Record, R!Places
  <2>2. recorded' \in R!Recorded
    BY <1>11, <1>t DEF R!RecordPrep, R!Record, R!Recorded
  <2> QED
    BY <1>11, <2>1, <2>2 DEF R!RecordPrep, R!Record, R!TypeOK, R!sessions, R!watch, R!prep,
                             R!pass
<1>12. CASE R!SettleBehind(c)
  <2>1. call' \in [R!Caller -> R!Calls]
    BY <1>12, GoesTyped DEF R!SettleBehind, R!Places
  <2> QED
    BY <1>12, <2>1 DEF R!SettleBehind, R!TypeOK, R!sessions, R!watch, R!prep, R!pass
<1>13. CASE R!Follow(c)
  <2>1. [R!Idle EXCEPT !.at = R!After(c)] \in R!Calls
    BY CallTypes DEF R!After, R!Places
  <2>2. [call EXCEPT ![c] = [R!Idle EXCEPT !.at = R!After(c)]] \in [R!Caller -> R!Calls]
    BY <1>t, <2>1
  <2>3. call' \in [R!Caller -> R!Calls] /\ tries' \in Nat
    BY <1>13, <1>t, <2>2, StartRetryTyped DEF R!Follow
  <2> QED
    BY <1>13, <2>3 DEF R!Follow, R!TypeOK, R!sessions, R!watch, R!prep, R!pass
<1> QED
  BY <1>1, <1>2, <1>3, <1>4, <1>5, <1>6, <1>7, <1>8, <1>9, <1>10, <1>11, <1>12, <1>13
     DEF R!Queue

\* the retry's,
LEMMA RetryTyped ==
  ASSUME R!TypeOK, R!Wake \/ R!LookAgain \/ R!Leave
  PROVE  R!TypeOK'
<1>1. CASE R!Wake
  <2>1. call' \in [R!Caller -> R!Calls] /\ tries' \in Nat
    <3>1. [R!Idle EXCEPT !.at = "diff", !.session = behind] \in R!Calls
      BY IdleTyped DEF R!TypeOK, R!Places
    <3>2. CASE call' = [call EXCEPT ![Retry] = [R!Idle EXCEPT !.at = "diff", !.session = behind]]
      <4>1. call' \in [R!Caller -> R!Calls]
        BY <3>1, <3>2, PutTyped
      <4> QED
        BY <1>1, <4>1 DEF R!Wake, R!TypeOK
    <3>3. CASE R!Drops(Retry, "idle")
      BY <1>1, <3>3, GoesTyped DEF R!Wake, R!TypeOK, R!Caller, R!Places
    <3> QED
      BY <1>1, <3>2, <3>3 DEF R!Wake
  <2> QED
    BY <1>1, <2>1 DEF R!Wake, R!TypeOK, R!sessions, R!watch, R!pass
<1>2. CASE R!LookAgain
  <2>1. call' \in [R!Caller -> R!Calls]
    BY <1>2, GoesTyped DEF R!LookAgain, R!Caller, R!Places
  <2> QED
    BY <1>2, <2>1 DEF R!LookAgain, R!TypeOK, R!sessions, R!watch, R!prep, R!pass
<1>3. CASE R!Leave
  <2>1. call' \in [R!Caller -> R!Calls]
    BY <1>3, GoesTyped DEF R!Leave, R!Caller, R!Places
  <2> QED
    BY <1>3, <2>1 DEF R!Leave, R!TypeOK, R!sessions, R!watch, R!prep, R!pass
<1> QED
  BY <1>1, <1>2, <1>3

\* a job's,
LEMMA RunTyped ==
  ASSUME R!TypeOK, NEW j \in Job, R!Run(j)
  PROVE  R!TypeOK'
<1>1. jobs' \in [Job -> R!Jobs]
  <2>1. jobs \in [Job -> R!Jobs] /\ diff \in Nat
    BY ReviewConstants DEF R!TypeOK
  <2>2. CASE R!Start(j) \/ R!BeginPass(j) \/ R!ReadChange(j)
    BY <2>1, <2>2 DEF R!Start, R!BeginPass, R!ReadChange, R!Jobs
  <2>3. CASE R!Complete(j) \/ R!Fail(j) \/ R!Break(j)
    BY <2>1, <2>3 DEF R!Complete, R!Fail, R!Break, R!Jobs
  <2>4. CASE R!Finish(j)
    <3>1. PICK state \in {"done", "retry", "failed"}, n \in Nat :
            jobs' = [jobs EXCEPT ![j].state = state, ![j].retries = n]
      <4> DEFINE n == IF jobs[j].at = "broken" THEN jobs[j].retries + 1 ELSE jobs[j].retries
      <4>1. n \in Nat
        BY <2>1 DEF R!Jobs
      <4> QED
        BY <2>4, <4>1 DEF R!Finish
    <3>2. [jobs[j] EXCEPT !.state = state, !.retries = n] \in R!Jobs
      <4>1. \A x \in R!Jobs : [x EXCEPT !.state = state, !.retries = n] \in R!Jobs
        BY DEF R!Jobs
      <4> QED
        BY <2>1, <4>1
    <3>3. jobs' = [jobs EXCEPT ![j] = [jobs[j] EXCEPT !.state = state, !.retries = n]]
      BY <3>1
    <3> QED
      BY <2>1, <3>2, <3>3
  <2> QED
    BY <2>2, <2>3, <2>4 DEF R!Run
<1>2. /\ UNCHANGED <<R!sessions, R!watch, R!prep, call, lock, recorded>>
      /\ outcome' \in {outcome, "running", "completed", "failed"}
  BY DEF R!Run, R!Start, R!BeginPass, R!ReadChange, R!Complete, R!Fail, R!Break, R!Finish
<1> QED
  BY <1>1, <1>2 DEF R!TypeOK, R!sessions, R!watch, R!prep

\* and the end of the process.
LEMMA RestartTyped ==
  ASSUME R!TypeOK, R!Restart
  PROVE  R!TypeOK'
<1>1. R!Idle \in R!Calls
  BY CallTypes, IdleTyped, ReviewConstants DEF R!Idle, R!Calls, R!Places
<1>2. jobs' \in [Job -> R!Jobs]
  BY DEF R!TypeOK, R!Restart, R!Jobs
<1> QED
  BY <1>1, <1>2 DEF R!Restart, R!TypeOK, R!NotLooked, R!Looks

\* The initial state is typed.
LEMMA ReviewTypeInit == R!Init => R!TypeOK
<1>1. R!Idle \in R!Calls
  BY ReviewConstants DEF R!Idle, R!Calls, R!Places
<1> QED
  BY <1>1, ReviewConstants
  DEF R!Init, R!TypeOK, R!Rows, R!Statuses, R!Looks, R!Readings, R!NotLooked, R!Unread, R!Jobs,
      R!Recorded

\* A step keeps the types.
LEMMA ReviewTypeStep == R!TypeOK /\ [R!Next]_R!vars => R!TypeOK'
<1> SUFFICES ASSUME R!TypeOK, [R!Next]_R!vars PROVE R!TypeOK'
  OBVIOUS
<1>1. CASE UNCHANGED R!vars
  BY <1>1 DEF R!vars, R!sessions, R!watch, R!prep, R!pass, R!TypeOK
<1> QED
  BY <1>1, WorkTyped, WatchTyped, RetryTyped, RestartTyped, QueueTyped, RunTyped DEF R!Next

(* Every variable of review prep, of its callers and of the pass's jobs keeps its
   type. *)
THEOREM ReviewTypes == R!Spec => []R!TypeOK
  BY ReviewTypeInit, ReviewTypeStep, PTL DEF R!Spec

-----------------------------------------------------------------------------
(* Review passes: one job is live. *)

(* The lock is held by the one caller between its look for live jobs and its
   commit, and what it found is so until then (enqueueKeyed). *)
SendInv ==
  /\ \A c \in R!Caller : call[c].at = "send" => lock = c
  /\ \A c \in R!Caller : call[c].at = "send" /\ call[c].answer = "queued" => R!LiveJobs = {}
  /\ R!OneLiveJob

\* A call stays as it is, or moves to where no property looks at it.
Aside(d) ==
  \/ call'[d] = call[d]
  \/ /\ call'[d].at \notin {"reading", "send", "answered"}
     /\ call'[d].diff \in {0, diff, call[d].diff}

\* A call that drops what it has read steps aside.
LEMMA IdleAside ==
  ASSUME R!TypeOK, NEW d \in R!Caller, NEW at \in R!Places \ {"reading", "send", "answered"},
         NEW s,
         \/ call'[d] = [R!Idle EXCEPT !.at = at]
         \/ call'[d] = [R!Idle EXCEPT !.at = at, !.session = s]
  PROVE  Aside(d)
  BY DEF Aside, R!Idle

\* So does every call when one moves on,
LEMMA MovesAside ==
  ASSUME R!TypeOK, NEW c \in R!Caller, NEW at \in R!Places \ {"reading", "send", "answered"},
         R!Goes(c, at) \/ R!Drops(c, at)
  PROVE  \A d \in R!Caller : Aside(d)
<1> SUFFICES ASSUME NEW d \in R!Caller PROVE Aside(d)
  OBVIOUS
<1>1. call \in [R!Caller -> R!Calls]
  BY DEF R!TypeOK
<1>2. CASE d # c
  BY <1>1, <1>2 DEF R!Goes, R!Drops, Aside
<1>3. CASE d = c /\ R!Goes(c, at)
  BY <1>1, <1>3 DEF R!Goes, R!Calls, Aside
<1>4. CASE d = c /\ R!Drops(c, at)
  BY <1>1, <1>4, IdleAside DEF R!Drops
<1> QED
  BY <1>2, <1>3, <1>4

\* when the retry starts,
LEMMA StartRetryAside ==
  ASSUME R!TypeOK, NEW called \in [R!Caller -> R!Calls], R!StartRetry(called),
         NEW d \in R!Caller
  PROVE  call'[d] = called[d] \/ Aside(d)
<1>1. CASE call[Retry].at = "idle" /\ d = Retry
  BY <1>1, IdleAside DEF R!StartRetry, R!Places
<1>2. CASE ~(call[Retry].at = "idle" /\ d = Retry)
  BY <1>2 DEF R!StartRetry
<1> QED
  BY <1>1, <1>2

\* and at a caller's steps other than its look for live jobs and its commit.
LEMMA QueueAside ==
  ASSUME R!TypeOK, NEW c \in R!Caller, R!Queue(c), ~R!Find(c), ~R!Send(c)
  PROVE  \A d \in R!Caller : Aside(d)
<1> DEFINE Quiet == R!Places \ {"reading", "send", "answered"}
<1>1. CASE R!ReadDiff(c)
  <2>1. call \in [R!Caller -> R!Calls]
    BY DEF R!TypeOK
  <2>2. call' = [call EXCEPT ![c] = [call[c] EXCEPT !.at = "digest", !.diff = diff]]
    BY <1>1, <2>1 DEF R!ReadDiff
  <2>3. call[c] \in R!Calls
    BY <2>1
  <2>4. call'[c].at = "digest" /\ call'[c].diff = diff
    BY <2>1, <2>2, <2>3 DEF R!Calls
  <2> QED
    BY <2>1, <2>2, <2>4 DEF Aside
<1>2. CASE R!Follow(c)
  <2> DEFINE called == [call EXCEPT ![c] = [R!Idle EXCEPT !.at = R!After(c)]]
  <2>1. call \in [R!Caller -> R!Calls] /\ R!After(c) \in Quiet
    BY DEF R!TypeOK, R!After, R!Places
  <2>2. called \in [R!Caller -> R!Calls]
    BY <2>1, CallTypes
  <2>3. \A d \in R!Caller : call'[d] = called[d] \/ Aside(d)
    BY <1>2, <2>2, StartRetryAside DEF R!Follow
  <2>4. \A d \in R!Caller :
          called[d] = call[d] \/ (d = c /\ called[d] = [R!Idle EXCEPT !.at = R!After(c)])
    BY <2>1
  <2>5. ASSUME NEW d \in R!Caller PROVE Aside(d)
    <3>1. CASE call'[d] = [R!Idle EXCEPT !.at = R!After(c)]
      BY <2>1, <3>1, IdleAside
    <3>2. CASE call'[d] = call[d]
      BY <3>2 DEF Aside
    <3> HIDE DEF called
    <3> QED
      BY <2>3, <2>4, <3>1, <3>2
  <2> QED
    BY <2>5
<1>3. CASE ~R!ReadDiff(c) /\ ~R!Follow(c)
  <2>1. PICK at \in Quiet : R!Goes(c, at) \/ R!Drops(c, at)
    BY <1>3 DEF R!Queue, R!PrepareNothing, R!ReadDigest, R!QueueRow, R!EnqueueFails, R!FailRow,
                R!Asked, R!WaitBehind,
         R!RecordPrep, R!Record, R!SettleBehind, R!After, R!Places
  <2> QED
    BY <2>1, MovesAside
<1> QED
  BY <1>1, <1>2, <1>3

\* What a step does to a call.
LEMMA StepAside ==
  ASSUME R!TypeOK, [R!Next]_R!vars,
         \A c \in R!Caller : ~R!Find(c) /\ ~R!Send(c), NEW d \in R!Caller
  PROVE  Aside(d) \/ (d = Prep /\ \E s \in Session : R!ReadRow(s))
<1> DEFINE Quiet == R!Places \ {"reading", "send", "answered"}
<1>0. Prep \in R!Caller /\ Retry \in R!Caller
  BY DEF R!Caller
<1>1. CASE call' = call
  BY <1>1 DEF Aside
<1>2. CASE R!Watch
  <2>1. CASE R!HearRow
    BY <2>1, StartRetryAside DEF R!HearRow, Aside, R!TypeOK
  <2>2. ASSUME NEW s \in Session, R!Observe(s) PROVE Aside(d)
    <3>1. CASE R!Drops(Prep, "idle")
      BY <1>0, <3>1, MovesAside DEF R!Places
    <3>2. CASE call' = [call EXCEPT ![Prep] = [R!Idle EXCEPT !.at = "diff", !.session = s]]
      <4>1. CASE d = Prep
        <5>1. call'[d] = [R!Idle EXCEPT !.at = "diff", !.session = s]
          BY <3>2, <4>1 DEF R!TypeOK
        <5> QED
          BY <5>1, IdleAside DEF R!Places
      <4>2. CASE d # Prep
        BY <3>2, <4>2 DEF R!TypeOK, Aside
      <4> QED
        BY <4>1, <4>2
    <3> QED
      BY <2>2, <3>1, <3>2 DEF R!Observe
  <2>3. ASSUME NEW s \in Session, R!ReadRow(s) PROVE Aside(d) \/ (d = Prep /\ R!ReadRow(s))
    BY <2>3 DEF R!ReadRow, R!Goes, R!TypeOK, Aside
  <2>4. CASE R!Begin \/ R!List \/ R!Listen \/ R!Drop \/ \E s \in Session : R!Baseline(s)
    BY <1>1, <2>4 DEF R!Begin, R!List, R!Listen, R!Drop, R!Baseline
  <2> QED
    BY <1>2, <2>1, <2>2, <2>3, <2>4 DEF R!Watch
<1>3. CASE R!Wake
  <2>1. CASE R!Drops(Retry, "idle")
    BY <1>0, <2>1, MovesAside DEF R!Places
  <2>2. CASE call' = [call EXCEPT ![Retry] = [R!Idle EXCEPT !.at = "diff", !.session = behind]]
    <3>1. CASE d = Retry
      <4>1. call'[d] = [R!Idle EXCEPT !.at = "diff", !.session = behind]
        BY <2>2, <3>1 DEF R!TypeOK
      <4> QED
        BY <4>1, IdleAside DEF R!Places
    <3>2. CASE d # Retry
      BY <2>2, <3>2 DEF R!TypeOK, Aside
    <3> QED
      BY <3>1, <3>2
  <2> QED
    BY <1>3, <2>1, <2>2 DEF R!Wake
<1>4. CASE R!LookAgain \/ R!Leave
  BY <1>0, <1>4, MovesAside DEF R!LookAgain, R!Leave, R!Places
<1>5. CASE R!Restart
  BY <1>5 DEF R!Restart, R!Idle, Aside
<1>6. ASSUME NEW c \in R!Caller, R!Queue(c) PROVE Aside(d)
  BY <1>6, QueueAside
<1>7. CASE UNCHANGED R!vars \/ R!Work \/ \E j \in Job : R!Run(j)
  BY <1>1, <1>7 DEF R!vars, R!Work, R!Edit, R!GoLive, R!MoveAgent, R!LeaveLive, R!Run, R!Start,
                    R!BeginPass, R!ReadChange,
       R!Complete, R!Fail, R!Break, R!Finish
<1> QED
  BY <1>2, <1>3, <1>4, <1>5, <1>6, <1>7 DEF R!Next

\* A step leaves the jobs and the lock alone, or is one of these.
LEMMA JobsStep ==
  ASSUME [R!Next]_R!vars
  PROVE  \/ jobs' = jobs /\ lock' = lock
         \/ R!Restart
         \/ \E c \in R!Caller : R!Find(c) \/ R!Send(c) \/ R!EnqueueFails(c)
         \/ lock' = lock /\ \E j \in Job : R!Run(j)
<1>1. CASE UNCHANGED R!vars
  BY <1>1 DEF R!vars, R!pass
<1>2. CASE R!Work \/ R!Watch
  BY <1>2 DEF R!Work, R!Watch, R!Edit, R!GoLive, R!MoveAgent, R!LeaveLive, R!Begin, R!List,
              R!Listen, R!Drop, R!HearRow, R!Baseline,
       R!ReadRow, R!Observe, R!pass
<1>3. CASE R!Wake \/ R!LookAgain \/ R!Leave
  BY <1>3 DEF R!Wake, R!LookAgain, R!Leave, R!pass
<1>4. ASSUME NEW c \in R!Caller, R!Queue(c)
      PROVE  (jobs' = jobs /\ lock' = lock) \/ R!Find(c) \/ R!Send(c) \/ R!EnqueueFails(c)
  BY <1>4 DEF R!Queue, R!ReadDiff, R!PrepareNothing, R!ReadDigest, R!QueueRow, R!FailRow,
              R!Asked, R!WaitBehind, R!RecordPrep,
       R!Record, R!SettleBehind, R!Follow, R!pass
<1>5. ASSUME NEW j \in Job, R!Run(j) PROVE lock' = lock
  BY <1>5 DEF R!Run, R!Start, R!BeginPass, R!ReadChange, R!Complete, R!Fail, R!Break, R!Finish
<1> QED
  BY <1>1, <1>2, <1>3, <1>4, <1>5 DEF R!Next

\* A job that runs or ends is none that comes to live.
LEMMA RunLive ==
  ASSUME R!TypeOK, NEW j \in Job, R!Run(j)
  PROVE  R!LiveJobs' \subseteq R!LiveJobs
<1>1. \A i \in Job \ {j} : jobs'[i] = jobs[i]
  BY DEF R!TypeOK, R!Run, R!Start, R!BeginPass, R!ReadChange, R!Complete, R!Fail, R!Break,
         R!Finish
<1>2. jobs[j].state \in {"created", "retry", "active"}
  BY DEF R!Run, R!Start, R!BeginPass, R!ReadChange, R!Complete, R!Fail, R!Break, R!Finish
<1> QED
  BY <1>1, <1>2 DEF R!LiveJobs

\* A step that brings no caller to its look for live jobs, and no job to live, keeps SendInv.
LEMMA SendQuiet ==
  ASSUME SendInv, R!LiveJobs' \subseteq R!LiveJobs,
         \A d \in R!Caller : call'[d].at = "send" => call'[d] = call[d] /\ lock' = lock
  PROVE  SendInv'
  BY DEF SendInv, R!OneLiveJob

\* A job that is sent where none was live is the only live one.
LEMMA InsertLive ==
  ASSUME R!TypeOK, NEW j \in Job, R!Insert(j), R!LiveJobs = {}
  PROVE  R!LiveJobs' \subseteq {j}
  BY DEF R!TypeOK, R!Insert, R!LiveJobs

\* A step keeps SendInv: only the one that holds the lock sends a job.
LEMMA SendStep == R!TypeOK /\ SendInv /\ [R!Next]_R!vars => SendInv'
<1> SUFFICES ASSUME R!TypeOK, SendInv, [R!Next]_R!vars PROVE SendInv'
  OBVIOUS
<1>0. call \in [R!Caller -> R!Calls] /\ Nothing \notin R!Caller
  BY ReviewConstants DEF R!TypeOK
<1>1. ASSUME NEW c \in R!Caller, R!Find(c) PROVE SendInv'
  <2>1. R!LiveJobs' = R!LiveJobs /\ R!OneLiveJob'
    BY <1>1 DEF R!Find, R!LiveJobs, SendInv, R!OneLiveJob
  <2>2. \A d \in R!Caller \ {c} : call'[d] = call[d]
    BY <1>0, <1>1 DEF R!Find, R!FindsJobs, R!Answers
  <2>3. \A d \in R!Caller : call[d].at # "send"
    BY <1>0, <1>1 DEF R!Find, SendInv
  <2>4. call'[c].answer = "queued" => R!LiveJobs = {}
    <3> SUFFICES ASSUME R!LiveJobs # {} PROVE call'[c].answer # "queued"
      OBVIOUS
    <3>1. PICK answer \in {"waiting", "running"}, j \in Job : R!Answers(c, answer, j)
      BY <1>1 DEF R!Find, R!FindsJobs, R!LiveJobs
    <3> QED
      BY <1>0, <3>1 DEF R!Answers, R!Calls
  <2> QED
    BY <1>1, <2>1, <2>2, <2>3, <2>4 DEF SendInv, R!Find
<1>2. ASSUME NEW c \in R!Caller, R!Send(c) \/ R!EnqueueFails(c),
             call[c].at = "send" PROVE SendInv'
  <2>1. \A d \in R!Caller \ {c} : call[d].at # "send"
    BY <1>2 DEF SendInv
  <2>2. \A d \in R!Caller : call'[d].at # "send"
    <3>1. PICK x \in R!Calls : x.at # "send" /\ call' = [call EXCEPT ![c] = x]
      <4>1. call[c] \in R!Calls
        BY <1>0
      <4>2. CASE R!Goes(c, "answered")
        <5>1. [call[c] EXCEPT !.at = "answered"] \in R!Calls
          BY <4>1 DEF R!Calls, R!Places
        <5>2. [call[c] EXCEPT !.at = "answered"].at # "send"
          BY <4>1 DEF R!Calls
        <5>3. call' = [call EXCEPT ![c] = [call[c] EXCEPT !.at = "answered"]]
          BY <4>2 DEF R!Goes
        <5> QED
          BY <5>1, <5>2, <5>3
      <4>3. CASE R!Drops(c, "failing")
        <5>1. [R!Idle EXCEPT !.at = "failing"] \in R!Calls
          BY CallTypes DEF R!Places
        <5>2. [R!Idle EXCEPT !.at = "failing"].at # "send"
          BY DEF R!Idle
        <5> QED
          BY <4>3, <5>1, <5>2 DEF R!Drops
      <4>4. ASSUME NEW j \in Job, call' = [call EXCEPT ![c].at = "answered", ![c].job = j]
            PROVE  \E x \in R!Calls : x.at # "send" /\ call' = [call EXCEPT ![c] = x]
        <5>1. [call[c] EXCEPT !.at = "answered", !.job = j] \in R!Calls
          BY <4>1 DEF R!Calls, R!Places
        <5>2. [call[c] EXCEPT !.at = "answered", !.job = j].at # "send"
          BY <4>1 DEF R!Calls
        <5>3. call' = [call EXCEPT ![c] = [call[c] EXCEPT !.at = "answered", !.job = j]]
          BY <1>0, <4>4
        <5> QED
          BY <5>1, <5>2, <5>3
      <4> QED
        BY <1>2, <4>2, <4>3, <4>4 DEF R!Send, R!EnqueueFails
    <3> QED
      BY <1>0, <2>1, <3>1
  <2>3. R!OneLiveJob'
    <3>1. CASE jobs' = jobs
      BY <3>1 DEF SendInv, R!OneLiveJob, R!LiveJobs
    <3>2. CASE jobs' # jobs
      <4>1. PICK j \in Job : R!Insert(j) /\ call[c].answer = "queued"
        BY <1>2, <3>2 DEF R!Send, R!EnqueueFails
      <4>2. R!LiveJobs' \subseteq {j}
        BY <1>2, <4>1, InsertLive DEF SendInv
      <4> QED
        BY <4>2 DEF R!OneLiveJob
    <3> QED
      BY <3>1, <3>2
  <2> QED
    BY <2>2, <2>3 DEF SendInv
<1>3. ASSUME \A c \in R!Caller :
               ~R!Find(c) /\ (R!Send(c) \/ R!EnqueueFails(c) => call[c].at # "send")
      PROVE  SendInv'
  <2>1. \A d \in R!Caller : call'[d].at = "send" => call'[d] = call[d]
    <3>1. \A c \in R!Caller : ~R!Send(c)
      BY <1>3 DEF R!Send
    <3> SUFFICES ASSUME NEW d \in R!Caller, call'[d].at = "send" PROVE call'[d] = call[d]
      OBVIOUS
    <3>2. ASSUME NEW s \in Session, R!ReadRow(s), d = Prep PROVE FALSE
      BY <1>0, <3>2 DEF R!ReadRow, R!Goes, R!Calls
    <3> QED
      BY <1>3, <3>1, <3>2, StepAside DEF Aside
  <2>2. CASE R!Restart
    <3>1. \A d \in R!Caller : call'[d].at # "send"
      BY <2>2 DEF R!Restart, R!Idle
    <3>2. R!LiveJobs' \subseteq R!LiveJobs
      BY <2>2 DEF R!Restart, R!LiveJobs, R!TypeOK, R!Jobs
    <3> QED
      BY <3>1, <3>2, SendQuiet
  <2>3. CASE jobs' = jobs /\ lock' = lock
    <3>1. R!LiveJobs' = R!LiveJobs
      BY <2>3 DEF R!LiveJobs
    <3> QED
      BY <2>1, <2>3, <3>1, SendQuiet
  <2>4. ASSUME NEW c \in R!Caller, R!EnqueueFails(c) PROVE SendInv'
    BY <1>3, <2>3, <2>4 DEF R!EnqueueFails
  <2>5. ASSUME NEW j \in Job, R!Run(j), lock' = lock PROVE SendInv'
    BY <2>1, <2>5, RunLive, SendQuiet
  <2> QED
    BY <1>3, <2>2, <2>3, <2>4, <2>5, JobsStep DEF R!Send
<1> QED
  BY <1>1, <1>2, <1>3

\* SendInv holds at the start.
LEMMA SendInit == R!Init => SendInv
  BY DEF R!Init, SendInv, R!Idle, R!OneLiveJob, R!LiveJobs

(* One job of a pass is live at a time, whoever asks and whoever is lost half-way:
   what pg-boss keeps as one job of a name and key (job-runner.ts:20-29). *)
THEOREM OneJobLives == R!Spec => []OneLiveJob
<1>1. R!Init => R!TypeOK /\ SendInv
  BY ReviewTypeInit, SendInit
<1>2. R!TypeOK /\ SendInv /\ [R!Next]_R!vars => (R!TypeOK /\ SendInv)'
  BY ReviewTypeStep, SendStep
<1>3. SendInv => OneLiveJob
  BY SameReviews DEF SendInv
<1> QED
  BY <1>1, <1>2, <1>3, PTL DEF R!Spec

-----------------------------------------------------------------------------
(* Review passes: what is recorded is read. *)

(* What a caller may go on: a job that covers the diff it has read, once the
   enqueue answered that one waits or was queued. *)
Relies(x) ==
  /\ x.diff <= diff
  /\ x.at = "send" => x.answer # "none"
  /\ x.at = "answered" \/ (x.at = "send" /\ x.answer = "waiting") =>
       x.answer = "running" \/ (x.job # Nothing /\ R!Covers(x.job, x.diff))

\* The inductive invariant behind RecordedIsCovered.
CoverInv ==
  /\ \A c \in R!Caller : Relies(call[c])
  /\ recorded.at <= diff
  /\ recorded.by # Nothing => R!Covers(recorded.by, recorded.at)

\* Covers and Relies of the next state.
CoversNext(j, n) ==
  \/ jobs'[j].state \in {"created", "retry", "failed"}
  \/ jobs'[j].state = "active" /\ jobs'[j].at \in {"begin", "read", "broken"}
  \/ jobs'[j].state \in {"active", "done"} /\ jobs'[j].read >= n

\* What a job covers, it covers at the next step of its run, or of another's:
\* it reads the diff as it is then.
LEMMA CoversRun ==
  ASSUME R!TypeOK, NEW j \in Job, NEW i \in Job, R!Run(i),
         NEW n \in Nat, n <= diff, R!Covers(j, n)
  PROVE  CoversNext(j, n)
<1>1. jobs \in [Job -> R!Jobs] /\ jobs[i] \in R!Jobs /\ diff \in Nat
  BY ReviewConstants DEF R!TypeOK
<1>2. CASE i # j
  <2>1. jobs'[j] = jobs[j]
    BY <1>1, <1>2 DEF R!Run, R!Start, R!BeginPass, R!ReadChange, R!Complete, R!Fail, R!Break,
                      R!Finish
  <2> QED
    BY <2>1 DEF R!Covers, CoversNext
<1>3. CASE i = j /\ R!Start(j)
  BY <1>1, <1>3 DEF R!Start, CoversNext, R!Jobs
<1>4. CASE i = j /\ (R!BeginPass(j) \/ R!Fail(j) \/ R!Break(j))
  BY <1>1, <1>4 DEF R!BeginPass, R!Fail, R!Break, CoversNext, R!Jobs
<1>5. CASE i = j /\ R!ReadChange(j)
  BY <1>1, <1>5 DEF R!ReadChange, CoversNext, R!Jobs
<1>6. CASE i = j /\ R!Complete(j)
  BY <1>1, <1>6 DEF R!Complete, R!Covers, CoversNext, R!Jobs
<1>7. CASE i = j /\ R!Finish(j)
  <2>1. CASE jobs[j].at = "broken"
    <3>1. jobs'[j].state \in {"retry", "failed"}
      BY <1>1, <1>7, <2>1 DEF R!Finish, R!Jobs
    <3> QED
      BY <3>1 DEF CoversNext
  <2>2. CASE jobs[j].at = "tail"
    <3>1. jobs'[j].state = "done" /\ jobs'[j].read = jobs[j].read
      BY <1>1, <1>7, <2>2 DEF R!Finish, R!Jobs
    <3>2. jobs[j].state = "active"
      BY <1>7 DEF R!Finish
    <3>3. jobs[j].read >= n
      BY <2>2, <3>2 DEF R!Covers
    <3> QED
      BY <3>1, <3>3 DEF CoversNext
  <2> QED
    BY <1>7, <2>1, <2>2 DEF R!Finish
<1> QED
  BY <1>2, <1>3, <1>4, <1>5, <1>6, <1>7 DEF R!Run

\* A job that is sent has everything to read yet.
LEMMA CoversInsert ==
  ASSUME R!TypeOK, NEW j \in Job, NEW i \in Job, R!Insert(i), NEW n \in Nat
  PROVE  (R!Covers(j, n) => CoversNext(j, n)) /\ CoversNext(i, n)
  BY DEF R!TypeOK, R!Insert, R!Covers, CoversNext, R!Jobs

\* What a job covers, it covers from then on.
LEMMA CoversStays ==
  ASSUME R!TypeOK, [R!Next]_R!vars, NEW j \in Job, NEW n \in Nat, n <= diff, R!Covers(j, n)
  PROVE  CoversNext(j, n)
<1>1. CASE jobs' = jobs
  BY <1>1 DEF R!Covers, CoversNext
<1>2. CASE R!Restart
  BY <1>2 DEF R!Restart, R!TypeOK, R!Jobs, R!Covers, CoversNext
<1>3. ASSUME NEW i \in Job, R!Insert(i) PROVE CoversNext(j, n)
  BY <1>3, CoversInsert
<1>4. ASSUME NEW i \in Job, R!Run(i) PROVE CoversNext(j, n)
  BY <1>4, CoversRun
<1>5. ASSUME NEW c \in R!Caller,
             R!Find(c) \/ R!Send(c) \/ R!EnqueueFails(c) PROVE CoversNext(j, n)
  BY <1>1, <1>3, <1>5 DEF R!Find, R!Send, R!EnqueueFails
<1> QED
  BY <1>1, <1>2, <1>4, <1>5, JobsStep

\* The diff's number grows.
LEMMA DiffGrows ==
  ASSUME R!TypeOK, [R!Next]_R!vars
  PROVE  diff \in Nat /\ diff' \in Nat /\ diff <= diff'
<1>1. diff \in Nat
  BY ReviewConstants DEF R!TypeOK
<1>2. diff' = diff \/ diff' = diff + 1
  BY DEF R!Next, R!Work, R!Watch, R!Queue, R!Run, R!Edit, R!GoLive, R!MoveAgent, R!LeaveLive,
         R!Begin, R!List, R!Listen, R!Drop, R!HearRow,
    R!Baseline, R!ReadRow, R!Observe, R!ReadDiff, R!PrepareNothing, R!ReadDigest, R!QueueRow,
    R!Find, R!Send, R!EnqueueFails,
    R!FailRow, R!Asked, R!WaitBehind, R!RecordPrep, R!Record, R!SettleBehind, R!Follow, R!Wake,
    R!LookAgain, R!Leave, R!Start,
    R!BeginPass, R!ReadChange, R!Complete, R!Fail, R!Break, R!Finish, R!Restart, R!vars,
    R!sessions
<1> QED
  BY <1>1, <1>2

ReliesNext(x) ==
  /\ x.diff <= diff'
  /\ x.at = "send" => x.answer # "none"
  /\ x.at = "answered" \/ (x.at = "send" /\ x.answer = "waiting") =>
       x.answer = "running" \/ (x.job # Nothing /\ CoversNext(x.job, x.diff))

\* A caller that relies on a job relies on it from then on.
LEMMA ReliesStays ==
  ASSUME R!TypeOK, [R!Next]_R!vars, NEW x \in R!Calls, Relies(x)
  PROVE  ReliesNext(x)
<1>1. x.diff \in Nat /\ x.diff <= diff /\ x.job \in Job \cup {Nothing}
  BY ReviewConstants DEF R!Calls, Relies
<1>2. x.diff <= diff'
  BY <1>1, DiffGrows
<1>3. x.job # Nothing /\ R!Covers(x.job, x.diff) => CoversNext(x.job, x.diff)
  BY <1>1, CoversStays
<1> QED
  BY <1>2, <1>3 DEF Relies, ReliesNext

\* A live job that is not active has the diff to read yet.
LEMMA WaitingCovers ==
  ASSUME NEW j \in R!LiveJobs, jobs[j].state # "active", NEW n
  PROVE  R!Covers(j, n)
  BY DEF R!LiveJobs, R!Covers

\* What a caller relies on after a step: a job it found waiting, or has sent.
LEMMA CallStep ==
  ASSUME R!TypeOK, CoverInv, [R!Next]_R!vars, NEW d \in R!Caller
  PROVE  ReliesNext(call'[d])
<1>0. call \in [R!Caller -> R!Calls] /\ call[d] \in R!Calls /\ Relies(call[d])
  BY DEF R!TypeOK, CoverInv
<1>1. CASE call'[d] = call[d]
  BY <1>0, <1>1, ReliesStays
<1>2. CASE Aside(d)
  <2>1. ASSUME call'[d].at \notin {"send", "answered"},
               call'[d].diff \in {0, diff, call[d].diff}
        PROVE  ReliesNext(call'[d])
    <3>1. call'[d].diff <= diff'
      BY <1>0, <2>1, DiffGrows DEF R!Calls, Relies
    <3> QED
      BY <2>1, <3>1 DEF ReliesNext
  <2> QED
    BY <1>1, <1>2, <2>1 DEF Aside
<1>3. ASSUME NEW s \in Session, R!ReadRow(s), d = Prep PROVE ReliesNext(call'[d])
  <2>1. call'[d].at = "reading" /\ call'[d].diff = call[d].diff
    BY <1>0, <1>3 DEF R!ReadRow, R!Goes, R!Calls
  <2>2. call'[d].diff <= diff'
    BY <1>0, <2>1, DiffGrows DEF R!Calls, Relies
  <2> QED
    BY <2>1, <2>2 DEF ReliesNext
<1>4. ASSUME R!Find(d) PROVE ReliesNext(call'[d])
  <2>1. PICK answer \in {"queued", "waiting", "running"}, j \in Job \cup {Nothing} :
          /\ R!Answers(d, answer, j)
          /\ answer = "waiting" => j \in R!LiveJobs /\ jobs[j].state # "active"
    BY <1>4 DEF R!Find, R!FindsJobs, R!LiveJobs
  <2> DEFINE x == [call[d] EXCEPT !.at = "send", !.answer = answer, !.job = j]
  <2>2. x \in R!Calls
    BY <1>0 DEF R!Calls, R!Places
  <2>3. call'[d] = x
    BY <1>0, <2>1 DEF R!Answers
  <2>4. /\ x.at = "send" /\ x.answer = answer /\ x.job = j
        /\ x.diff = call[d].diff
    BY <1>0 DEF R!Calls
  <2> HIDE DEF x
  <2>5. answer = "waiting" => x.job # Nothing /\ R!Covers(x.job, x.diff)
    BY <2>1, <2>4, WaitingCovers, ReviewConstants DEF R!LiveJobs
  <2>6. Relies(x)
    BY <1>0, <2>4, <2>5 DEF Relies
  <2> QED
    BY <2>2, <2>3, <2>6, ReliesStays
<1>5. ASSUME R!Send(d) PROVE ReliesNext(call'[d])
  <2>1. CASE call[d].answer = "queued"
    <3>1. PICK j \in Job : R!Insert(j) /\ call' = [call EXCEPT ![d].at = "answered", ![d].job = j]
      BY <1>5, <2>1 DEF R!Send
    <3>2. /\ call'[d].at = "answered" /\ call'[d].job = j
          /\ call'[d].diff = call[d].diff
      BY <1>0, <3>1 DEF R!Calls
    <3>3. call[d].diff \in Nat /\ call[d].diff <= diff
      BY <1>0, ReviewConstants DEF R!Calls, Relies
    <3>4. CoversNext(j, call[d].diff)
      BY <3>1, <3>3, CoversInsert
    <3> QED
      BY <3>2, <3>3, <3>4, DiffGrows, ReviewConstants DEF ReliesNext
  <2>2. CASE call[d].answer # "queued"
    <3>1. R!Goes(d, "answered") /\ call[d].at = "send"
      BY <1>5, <2>2 DEF R!Send
    <3>2. /\ call'[d].at = "answered" /\ call'[d].answer = call[d].answer
          /\ call'[d].job = call[d].job /\ call'[d].diff = call[d].diff
      BY <1>0, <3>1 DEF R!Goes, R!Calls
    <3>3. call[d].answer \in {"waiting", "running"}
      BY <1>0, <2>2, <3>1 DEF R!Calls, Relies
    <3>4. ReliesNext(call[d])
      BY <1>0, ReliesStays
    <3> QED
      BY <3>1, <3>2, <3>3, <3>4 DEF ReliesNext
  <2> QED
    BY <2>1, <2>2
<1>6. ASSUME NEW c \in R!Caller, R!Find(c) \/ R!Send(c), c # d PROVE ReliesNext(call'[d])
  <2>1. call'[d] = call[d]
    BY <1>0, <1>6 DEF R!Find, R!FindsJobs, R!Answers, R!Send, R!Goes
  <2> QED
    BY <1>1, <2>1
<1> QED
  BY <1>2, <1>3, <1>4, <1>5, <1>6, StepAside

\* Only a caller that was answered records.
LEMMA RecordedStep ==
  ASSUME [R!Next]_R!vars
  PROVE  recorded' = recorded \/ \E c \in R!Caller : R!RecordPrep(c)
  BY DEF R!Next, R!Work, R!Watch, R!Queue, R!Run, R!Edit, R!GoLive, R!MoveAgent, R!LeaveLive,
         R!Begin, R!List, R!Listen, R!Drop, R!HearRow,
      R!Baseline, R!ReadRow, R!Observe, R!ReadDiff, R!PrepareNothing, R!ReadDigest, R!QueueRow,
      R!Find, R!Send, R!EnqueueFails,
      R!FailRow, R!Asked, R!WaitBehind, R!SettleBehind, R!Follow, R!Wake, R!LookAgain, R!Leave,
      R!Start,
      R!BeginPass, R!ReadChange, R!Complete, R!Fail, R!Break, R!Finish, R!Restart, R!vars,
      R!pass

\* A step keeps CoverInv.
LEMMA CoverStep == R!TypeOK /\ CoverInv /\ [R!Next]_R!vars => CoverInv'
<1> SUFFICES ASSUME R!TypeOK, CoverInv, [R!Next]_R!vars PROVE CoverInv'
  OBVIOUS
<1>1. \A c \in R!Caller : ReliesNext(call'[c])
  BY CallStep
<1>2. /\ recorded'.at <= diff'
      /\ recorded'.by # Nothing => CoversNext(recorded'.by, recorded'.at)
  <2>1. CASE recorded' = recorded
    <3>1. recorded.at \in Nat /\ recorded.by \in Job \cup {Nothing}
      BY DEF R!TypeOK, R!Recorded
    <3> QED
      BY <2>1, <3>1, DiffGrows, CoversStays DEF CoverInv
  <2>2. ASSUME NEW c \in R!Caller, R!RecordPrep(c)
        PROVE  /\ recorded'.at <= diff'
               /\ recorded'.by # Nothing => CoversNext(recorded'.by, recorded'.at)
    <3>1. recorded'.at = call[c].diff /\ recorded'.by = call[c].job
      BY <2>2 DEF R!RecordPrep, R!Record
    <3>2. call[c] \in R!Calls /\ Relies(call[c])
      BY DEF R!TypeOK, CoverInv
    <3>3. ReliesNext(call[c])
      BY <3>2, ReliesStays
    <3> QED
      BY <2>2, <3>1, <3>3 DEF R!RecordPrep, ReliesNext
  <2> QED
    BY <2>1, <2>2, RecordedStep
<1> QED
  BY <1>1, <1>2 DEF CoverInv, Relies, ReliesNext, R!Covers, CoversNext

\* CoverInv holds at the start.
LEMMA CoverInit == R!Init => CoverInv
  BY ReviewConstants DEF R!Init, CoverInv, Relies, R!Idle

(* What review prep records as queued is read by the pass that its request queued or
   that absorbed it, as it was when it was recorded or later (review-prep.ts:48-50). *)
THEOREM RecordsAreCovered == R!Spec => []RecordedIsCovered
<1>1. R!Init => R!TypeOK /\ CoverInv
  BY ReviewTypeInit, CoverInit
<1>2. R!TypeOK /\ CoverInv /\ [R!Next]_R!vars => (R!TypeOK /\ CoverInv)'
  BY ReviewTypeStep, CoverStep
<1>3. CoverInv => RecordedIsCovered
  BY SameReviews DEF CoverInv, R!RecordedIsCovered
<1> QED
  BY <1>1, <1>2, <1>3, PTL DEF R!Spec

-----------------------------------------------------------------------------
(* Review passes: no settle is missed. *)

\* The session was written live after review prep last read it, or was then read live.
Fresh(s) == session[s].mark > seen[s].mark \/ seen[s].was = "live"

\* The marks of what was read are of the past.
Marks(s) ==
  /\ look[s].mark <= session[s].mark /\ session[s].mark <= last
  /\ seen[s].mark <= last /\ owed[s] <= session[s].mark + 1

\* Until it listens: what the baseline has not judged yet, or judged, of a live session.
Listed(s) ==
  worker = "listed" /\ session[s].status = "live" =>
    IF look[s].status = "none" THEN Fresh(s)
    ELSE look[s].status = "live" \/ session[s].mark > look[s].mark

\* While it listens: a settle that is owed shows, and a look that no event overtook is true.
Listens(s) ==
  worker = "listening" =>
    /\ owed[s] > 0 => Fresh(s)
    /\ look[s].status # "none" /\ s \notin due => look[s] = R!RowOf(s)
    /\ owed[s] > 0 /\ R!SettledForReview(s) => s \in due \/ look[s].status # "none"

Heard(s) == Marks(s) /\ Listed(s) /\ Listens(s)

\* The inductive invariant behind EverySettleIsPrepared.
HeardInv ==
  /\ call[Prep].at = "reading" => worker = "listening"
  /\ \A s \in Session : Heard(s)

\* The types of what is kept of a session.
LEMMA SessionTypes ==
  ASSUME R!TypeOK, NEW s \in Session
  PROVE  /\ session[s] \in R!Rows /\ session[s].mark \in Nat
         /\ look[s] \in R!Looks /\ look[s].mark \in Nat
         /\ seen[s] \in R!Readings /\ seen[s].mark \in Nat /\ owed[s] \in Nat /\ last \in Nat
         /\ session[s].status \in R!Statuses
  BY DEF R!TypeOK, R!Rows, R!Looks, R!Readings

\* What is kept of a session has not changed.
LEMMA HeardStays ==
  ASSUME NEW s \in Session, Heard(s), worker' = worker, session'[s] = session[s],
         look'[s] = look[s],
         seen'[s] = seen[s], owed'[s] = owed[s], last' = last, s \in due' <=> s \in due
  PROVE  Heard(s)'
  BY DEF Heard, Marks, Listed, Listens, Fresh, R!RowOf, R!SettledForReview, R!Settles

\* A session that is written live takes a mark past all that was read of it.
LEMMA GoLiveHeard ==
  ASSUME R!TypeOK, NEW s \in Session, R!GoLive(s), NEW t \in Session, Heard(t)
  PROVE  Heard(t)'
<1>1. session \in [Session -> R!Rows] /\ owed \in [Session -> Nat]
  BY DEF R!TypeOK
<1>2. CASE t = s
  <2>1. session'[t].status = "live" /\ session'[t].mark = last + 1
    BY <1>1, <1>2 DEF R!GoLive, R!Rows
  <2>2. /\ worker' = worker /\ look'[t] = look[t] /\ seen'[t] = seen[t] /\ last' = last + 1
        /\ owed'[t] = IF worker = "listening" THEN last + 2 ELSE owed[t]
        /\ worker = "listening" => t \in due'
    BY <1>1, <1>2 DEF R!GoLive, R!Notify
  <2>3. /\ session[t].mark \in Nat /\ look[t].mark \in Nat /\ seen[t].mark \in Nat
        /\ owed[t] \in Nat /\ last \in Nat
    BY SessionTypes
  <2>4. Marks(t)'
    BY <2>1, <2>2, <2>3 DEF Heard, Marks
  <2>5. session'[t].mark > seen'[t].mark /\ session'[t].mark > look'[t].mark
    BY <2>1, <2>2, <2>3 DEF Heard, Marks
  <2> QED
    BY <2>2, <2>4, <2>5 DEF Heard, Listed, Listens, Fresh
<1>3. CASE t # s
  <2>1. session'[t] = session[t] /\ owed'[t] = owed[t] /\ (t \in due' <=> t \in due)
    BY <1>1, <1>3 DEF R!GoLive, R!Notify
  <2>2. /\ session[t].mark \in Nat /\ look[t].mark \in Nat /\ seen[t].mark \in Nat
        /\ owed[t] \in Nat /\ last \in Nat
    BY SessionTypes
  <2>3. worker' = worker /\ look' = look /\ seen' = seen /\ last' = last + 1
    BY DEF R!GoLive
  <2>4. Marks(t)'
    BY <2>1, <2>2, <2>3 DEF Heard, Marks
  <2> QED
    BY <2>1, <2>3, <2>4 DEF Heard, Listed, Listens, Fresh, R!RowOf, R!SettledForReview,
                            R!Settles
<1> QED
  BY <1>2, <1>3

\* A session that leaves live, or whose agent moves, is heard of.
LEMMA MoveHeard ==
  ASSUME R!TypeOK, NEW s \in Session, NEW t \in Session, Heard(t),
         R!MoveAgent(s) \/ \E status \in R!Statuses : R!LeaveLive(s, status)
  PROVE  Heard(t)'
<1>1. session \in [Session -> R!Rows]
  BY DEF R!TypeOK
<1>2. /\ worker' = worker /\ look' = look /\ seen' = seen /\ owed' = owed /\ last' = last
      /\ R!Notify(s)
  BY DEF R!MoveAgent, R!LeaveLive
<1>3. CASE t # s
  <2>1. session'[t] = session[t]
    BY <1>1, <1>3 DEF R!MoveAgent, R!LeaveLive
  <2> QED
    BY <1>2, <1>3, <2>1, HeardStays DEF R!Notify
<1>4. CASE t = s
  <2>1. /\ session'[t].mark = session[t].mark
        /\ session'[t].status = "live" => session[t].status = "live"
    BY <1>1, <1>4 DEF R!MoveAgent, R!LeaveLive, R!Rows
  <2>2. worker = "listening" => t \in due'
    BY <1>2, <1>4 DEF R!Notify
  <2> QED
    BY <1>2, <2>1, <2>2 DEF Heard, Marks, Listed, Listens, Fresh
<1> QED
  BY <1>3, <1>4

\* The baseline's read of the rows leaves out no live session.
LEMMA ListHeard ==
  ASSUME R!TypeOK, NEW t \in Session, Heard(t), R!List
  PROVE  Heard(t)'
<1>1. /\ session[t].mark \in Nat
      /\ look'[t] = IF session[t].status \in {"live", "idle"} THEN R!RowOf(t) ELSE R!NotLooked
  BY SessionTypes DEF R!List
<1>2. /\ session' = session /\ seen' = seen /\ owed' = owed /\ last' = last
      /\ worker' = "listed"
  BY DEF R!List, R!sessions
<1>3. Marks(t)'
  BY <1>1, <1>2 DEF Heard, Marks, R!RowOf, R!NotLooked
<1>4. Listed(t)'
  BY <1>1, <1>2 DEF Listed, R!RowOf
<1> QED
  BY <1>2, <1>3, <1>4 DEF Heard, Listens

\* A session that the baseline judges as not live has been written live since.
LEMMA BaselineHeard ==
  ASSUME R!TypeOK, NEW s \in Session, NEW t \in Session, Heard(t), R!Baseline(s)
  PROVE  Heard(t)'
<1>1. look \in [Session -> R!Looks] /\ seen \in [Session -> R!Readings]
  BY DEF R!TypeOK
<1>2. /\ session' = session /\ owed' = owed /\ last' = last
      /\ worker' = worker /\ due' = due /\ worker = "listed"
  BY DEF R!Baseline, R!sessions
<1>3. CASE t # s
  <2>1. look'[t] = look[t] /\ seen'[t] = seen[t]
    BY <1>1, <1>3 DEF R!Baseline, R!Judge
  <2> QED
    BY <1>2, <2>1, HeardStays
<1>4. CASE t = s
  <2>1. /\ look'[t] = R!NotLooked /\ look[t].status # "none"
        /\ seen'[t] =
             [was |-> R!SettledAfter("unknown", R!ReviewReading(t)), mark |-> look[t].mark]
    BY <1>1, <1>4 DEF R!Baseline, R!Judge
  <2>2. /\ session[t].mark \in Nat /\ look[t].mark \in Nat /\ last \in Nat
    BY SessionTypes
  <2>3. Marks(t)'
    BY <1>2, <2>1, <2>2 DEF Heard, Marks, R!NotLooked
  <2>4. ASSUME session[t].status = "live"
        PROVE  session[t].mark > look[t].mark \/ seen'[t].was = "live"
    <3>1. CASE look[t].status = "live"
      BY <2>1, <3>1 DEF R!SettledAfter, R!ReviewReading, R!Settles
    <3> QED
      BY <1>2, <2>1, <2>4, <3>1 DEF Heard, Listed
  <2>5. Listed(t)'
    BY <1>2, <2>1, <2>4 DEF Listed, Fresh, R!NotLooked
  <2> QED
    BY <1>2, <2>3, <2>5 DEF Heard, Listens
<1> QED
  BY <1>3, <1>4

\* What is owed when review prep starts to listen was live at its baseline, or since.
LEMMA ListenHeard ==
  ASSUME R!TypeOK, NEW t \in Session, Heard(t), R!Listen
  PROVE  Heard(t)'
<1>1. /\ session[t].mark \in Nat
      /\ owed'[t] = IF session[t].status = "live" THEN session[t].mark + 1 ELSE 0
  BY SessionTypes DEF R!Listen
<1>2. /\ session' = session /\ last' = last /\ look' = look /\ seen' = seen
      /\ look[t].status = "none"
      /\ worker = "listed" /\ worker' = "listening"
  BY DEF R!Listen
<1>3. Marks(t)'
  BY <1>1, <1>2 DEF Heard, Marks
<1>4. session[t].status = "live" => Fresh(t)
  BY <1>2 DEF Heard, Listed
<1> QED
  BY <1>1, <1>2, <1>3, <1>4 DEF Heard, Listed, Listens, Fresh, R!SettledForReview, R!Settles

\* A row that is read is the row as it is.
LEMMA ReadRowHeard ==
  ASSUME R!TypeOK, NEW s \in Session, NEW t \in Session, Heard(t), R!ReadRow(s)
  PROVE  Heard(t)'
<1>1. /\ session' = session /\ owed' = owed /\ last' = last /\ worker' = worker /\ seen' = seen
      /\ worker = "listening"
  BY DEF R!ReadRow, R!sessions
<1>2. CASE t # s
  BY <1>1, <1>2, HeardStays DEF R!ReadRow, R!TypeOK
<1>3. CASE t = s
  <2>1. look'[t] = R!RowOf(t)
    BY <1>3 DEF R!ReadRow, R!TypeOK
  <2>2. look'[t].status # "none" /\ look'[t].mark = session[t].mark
    BY <2>1, SessionTypes DEF R!RowOf, R!Statuses
  <2>3. session[t].mark \in Nat
    BY SessionTypes
  <2>4. Marks(t)'
    BY <1>1, <2>2, <2>3 DEF Heard, Marks
  <2> QED
    BY <1>1, <2>1, <2>2, <2>4 DEF Heard, Listed, Listens, Fresh, R!RowOf
<1> QED
  BY <1>2, <1>3

\* What it judges to be no settle, and not live, was written live again since it was read.
LEMMA ObserveHeard ==
  ASSUME R!TypeOK, NEW s \in Session, NEW t \in Session, Heard(t), R!Observe(s),
         worker = "listening"
  PROVE  Heard(t)'
<1>1. look \in [Session -> R!Looks] /\ seen \in [Session -> R!Readings] /\ owed \in [Session -> Nat]
  BY DEF R!TypeOK
<1>2. session' = session /\ last' = last /\ worker' = worker /\ due' = due
  BY DEF R!Observe
<1>3. CASE t # s
  BY <1>1, <1>2, <1>3, HeardStays DEF R!Observe, R!Judge
<1>4. CASE t = s
  <2> DEFINE before == R!SettledBefore(t)
             after == R!SettledAfter(before, R!ReviewReading(t))
  <2>1. /\ look'[t] = R!NotLooked /\ look[t].status # "none"
        /\ seen'[t] = [was |-> after, mark |-> look[t].mark]
    BY <1>1, <1>4 DEF R!Observe, R!Judge
  <2>2. /\ session[t].mark \in Nat /\ look[t].mark \in Nat /\ seen[t].mark \in Nat /\ last \in Nat
        /\ owed[t] \in Nat
    BY SessionTypes
  <2>3. owed'[t] = IF R!Prepares(t) /\ owed[t] <= look[t].mark + 1 THEN 0 ELSE owed[t]
    BY <1>1, <1>4 DEF R!Observe
  <2>4. Marks(t)'
    BY <1>2, <2>1, <2>2, <2>3 DEF Heard, Marks, R!NotLooked
  <2>5. R!Prepares(t) <=> before = "live" /\ after = "settled"
    BY DEF R!Prepares
  <2>6. after \in {"live", "settled"}
    BY DEF R!SettledAfter, R!ReviewReading
  <2>7. before # "live" => look[t].mark <= seen[t].mark /\ seen[t].was # "live"
    BY <2>2 DEF R!SettledBefore
  <2> HIDE DEF before, after
  <2>8. owed'[t] > 0 => after = "live" \/ session[t].mark > look[t].mark
    <3> SUFFICES ASSUME owed'[t] > 0, after # "live" PROVE session[t].mark > look[t].mark
      OBVIOUS
    <3>1. CASE R!Prepares(t)
      BY <2>2, <2>3, <3>1 DEF Heard, Marks
    <3>2. CASE ~R!Prepares(t)
      <4>1. look[t].mark <= seen[t].mark /\ seen[t].was # "live"
        BY <2>5, <2>6, <2>7, <3>2
      <4>2. Fresh(t)
        BY <2>3, <3>2 DEF Heard, Listens
      <4> QED
        BY <2>2, <4>1, <4>2 DEF Fresh
    <3> QED
      BY <3>1, <3>2
  <2>9. owed'[t] > 0 /\ R!SettledForReview(t) => t \in due
    <3> SUFFICES ASSUME owed'[t] > 0, R!SettledForReview(t), t \notin due PROVE FALSE
      OBVIOUS
    <3>1. look[t] = R!RowOf(t)
      BY <2>1 DEF Heard, Listens
    <3>2. look[t].mark = session[t].mark /\ look[t].status = session[t].status
      BY <3>1 DEF R!RowOf
    <3>3. after = "settled"
      BY <3>2 DEF after, R!SettledAfter, R!ReviewReading, R!SettledForReview, R!Settles
    <3> QED
      BY <2>2, <2>8, <3>2, <3>3
  <2> QED
    BY <1>2, <2>1, <2>4, <2>8, <2>9
    DEF Heard, Listed, Listens, Fresh, R!NotLooked, R!SettledForReview, R!Settles
<1> QED
  BY <1>3, <1>4

\* A step of another leaves what is kept of the sessions alone.
LEMMA HeardStep ==
  ASSUME R!TypeOK, HeardInv, [R!Next]_R!vars, NEW t \in Session
  PROVE  Heard(t)'
<1>0. Heard(t)
  BY DEF HeardInv
<1>1. CASE UNCHANGED <<R!sessions, R!watch>>
  BY <1>0, <1>1, HeardStays DEF R!sessions, R!watch
<1>2. CASE R!Work
  <2>1. CASE R!Edit
    BY <1>0, <2>1, HeardStays DEF R!Edit, R!watch
  <2> QED
    BY <1>0, <1>2, <2>1, GoLiveHeard, MoveHeard DEF R!Work
<1>3. CASE R!Begin
  <2>1. last \in Nat /\ session[t].mark \in Nat /\ look[t].mark \in Nat
    BY SessionTypes
  <2>2. seen'[t].mark = last
    BY <1>3 DEF R!Begin, R!Unread
  <2> QED
    BY <1>0, <1>3, <2>1, <2>2 DEF R!Begin, R!sessions, Heard, Marks, Listed, Listens
<1>4. CASE R!Drop
  BY <1>0, <1>4 DEF R!Drop, R!sessions, Heard, Marks, Listed, Listens
<1>5. ASSUME NEW s \in Session, R!Observe(s) PROVE Heard(t)'
  BY <1>0, <1>5, ObserveHeard DEF HeardInv, R!Observe
<1>6. CASE R!Watch
  BY <1>0, <1>1, <1>3, <1>4, <1>5, <1>6, ListHeard, ListenHeard, BaselineHeard, ReadRowHeard
  DEF R!Watch, R!HearRow
<1>7. CASE R!Restart
  <2>1. session[t].mark \in Nat /\ last \in Nat
    BY SessionTypes
  <2> QED
    BY <1>0, <1>7, <2>1 DEF R!Restart, R!NotLooked, Heard, Marks, Listed, Listens
<1>8. CASE UNCHANGED R!vars \/ R!Wake \/ R!LookAgain \/ R!Leave
  BY <1>1, <1>8 DEF R!vars, R!Wake, R!LookAgain, R!Leave
<1>9. ASSUME NEW c \in R!Caller, R!Queue(c) PROVE Heard(t)'
  BY <1>1, <1>9 DEF R!Queue, R!ReadDiff, R!PrepareNothing, R!ReadDigest, R!QueueRow, R!Find,
                    R!Send, R!EnqueueFails,
    R!FailRow, R!Asked, R!WaitBehind, R!RecordPrep, R!Record, R!SettleBehind, R!Follow
<1>10. ASSUME NEW j \in Job, R!Run(j) PROVE Heard(t)'
  BY <1>1, <1>10 DEF R!Run, R!Start, R!BeginPass, R!ReadChange, R!Complete, R!Fail, R!Break,
                     R!Finish
<1> QED
  BY <1>2, <1>6, <1>7, <1>8, <1>9, <1>10 DEF R!Next

\* Prep reads a session's processes only while it listens.
LEMMA ReadingStep ==
  ASSUME R!TypeOK, HeardInv, [R!Next]_R!vars, call'[Prep].at = "reading"
  PROVE  worker' = "listening"
<1>0. Prep \in R!Caller
  BY DEF R!Caller
<1>1. ASSUME NEW s \in Session, R!ReadRow(s) PROVE worker' = "listening"
  BY <1>1 DEF R!ReadRow
<1>2. ASSUME NEW c \in R!Caller, R!Find(c) \/ R!Send(c) PROVE worker' = "listening"
  <2>1. call \in [R!Caller -> R!Calls] /\ call[c] \in R!Calls
    BY DEF R!TypeOK
  <2>2. c # Prep
    <3> SUFFICES ASSUME c = Prep PROVE FALSE
      OBVIOUS
    <3>1. call'[c].at \in {"send", "answered"}
      BY <1>2, <2>1 DEF R!Find, R!FindsJobs, R!Answers, R!Send, R!Goes, R!Calls
    <3> QED
      BY <3>1
  <2>3. call'[Prep] = call[Prep] /\ worker' = worker
    BY <1>0, <1>2, <2>1, <2>2 DEF R!Find, R!FindsJobs, R!Answers, R!Send, R!Goes, R!watch
  <2> QED
    BY <2>3 DEF HeardInv
<1>3. CASE Aside(Prep)
  <2>1. call'[Prep] = call[Prep] /\ call[Prep].at = "reading" /\ worker = "listening"
    BY <1>3 DEF Aside, HeardInv
  <2>2. ~(R!Begin \/ R!List \/ R!Listen \/ R!Drop \/ R!Restart)
    <3>1. ~R!Restart
      BY <1>0, <2>1 DEF R!Restart, R!Idle
    <3> QED
      BY <2>1, <3>1 DEF R!Begin, R!List, R!Listen, R!Drop
  <2>3. worker' = worker
    BY <2>2 DEF R!Next, R!Work, R!Watch, R!Queue, R!Run, R!Edit, R!GoLive, R!MoveAgent,
                R!LeaveLive, R!HearRow,
      R!Baseline, R!ReadRow, R!Observe, R!ReadDiff, R!PrepareNothing, R!ReadDigest, R!QueueRow,
      R!Find, R!Send, R!EnqueueFails,
      R!FailRow, R!Asked, R!WaitBehind, R!RecordPrep, R!Record, R!SettleBehind, R!Follow,
      R!Wake, R!LookAgain, R!Leave, R!Start,
      R!BeginPass, R!ReadChange, R!Complete, R!Fail, R!Break, R!Finish, R!vars, R!watch
  <2> QED
    BY <2>1, <2>3
<1> QED
  BY <1>0, <1>1, <1>2, <1>3, StepAside

\* HeardInv holds at the start.
LEMMA HeardInit == R!Init => HeardInv
  BY ReviewConstants DEF R!Init, HeardInv, Heard, Marks, Listed, Listens, R!NotLooked,
                         R!Unread, R!Idle, R!Caller

(* No settle of a session that was written live while review prep listened is missed:
   it is prepared, or is being judged, or an event of it is on its way
   (review-prep.ts:113-130). *)
THEOREM SettlesArePrepared == R!Spec => []EverySettleIsPrepared
<1>1. R!Init => R!TypeOK /\ HeardInv
  BY ReviewTypeInit, HeardInit
<1>2. R!TypeOK /\ HeardInv /\ [R!Next]_R!vars => (R!TypeOK /\ HeardInv)'
  BY ReviewTypeStep, HeardStep, ReadingStep DEF HeardInv
<1>3. HeardInv => EverySettleIsPrepared
  BY SameReviews DEF HeardInv, Heard, Listens, R!EverySettleIsPrepared
<1> QED
  BY <1>1, <1>2, <1>3, PTL DEF R!Spec
=============================================================================
