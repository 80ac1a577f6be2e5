---------------------------- MODULE CaptureChain ----------------------------
(***************************************************************************)
(* One worktree's lease and its chain of captures: the rows                *)
(* worktree_leases, worktree_chain, captures and capture_seals of          *)
(* packages/db/src/repos/capture-store.ts, with the callers that move      *)
(* them: the capture channel's plan.get, register and heartbeat            *)
(* (packages/sessions/src/capture-channel.ts), the creators of capture 0   *)
(* (session-repository-captured.ts) and the session engine's launch and    *)
(* release of leases (engine.ts).                                          *)
(*                                                                         *)
(* A statement or transaction of the store is one step; what a caller read *)
(* before it is kept in a variable of its own and used, possibly stale, by *)
(* the later step.  Time is the Lapse step: a lease that is not renewed    *)
(* may lapse at any moment, and a heartbeat revives a lapsed one.  A claim *)
(* a removal mark or a rollback refuses writes nothing, and is the claim   *)
(* not taken.                                                              *)
(***************************************************************************)
EXTENDS Integers, Sequences, FiniteSets

CONSTANTS
  Launch,       \* physical launches: executors with a create key of their own
  Creator,      \* concurrent Mend callers that register capture 0
  Session,      \* the sessions launches belong to (executor ids of leases)
  SessionOf,    \* [Launch -> Session]
  Capture,      \* capture ids: digests of manifests as stored
  Mend,         \* the executor id of Mend's own claims (mend:<worktree>)
  None,         \* SQL NULL
  MaxEpoch      \* bound: the claims of a behaviour

ASSUME ConstantsAssumption ==
  /\ SessionOf \in [Launch -> Session]
  /\ Launch \cap Creator = {}
  /\ Mend \notin Session /\ None \notin Session /\ Mend # None
  /\ None \notin Launch /\ None \notin Creator /\ None \notin Capture
  /\ MaxEpoch \in Nat

VARIABLES
  lease,      \* worktree_leases: executor, launch, epoch, and whether it is live
  chain,      \* worktree_chain: head_n, head_capture, head_epoch
  landed,     \* every captures row ever inserted, in order (history)
  thinned,    \* ids of the rows deleteCaptures dropped
  seals,      \* capture_seals by epoch: None, or the launch, capture and n sealed
  granted,    \* history: the executor and launch each epoch was claimed for
  released,   \* history: the epochs a release ended
  view,       \* what each launch knows: its epoch and the head it builds on
  planning,   \* plan.get in progress: the head it read before it claims
  creating,   \* the epoch of each creator's claim, 0 when it holds none
  wire,       \* every register request composed; one may be sent again at any time
  admitted,   \* register requests the store is working on, past requireLease
  acked,      \* register requests answered as on the chain
  recording,  \* sealing requests whose checks run on after the answer
  ended,      \* launches whose executor the platform observed ended
  judged      \* epochs the engine read on the lease and decided to release

storeVars == <<lease, granted, released, chain, landed, thinned, seals>>
callVars  == <<view, planning, creating, wire, admitted, acked, recording>>
vars == <<storeVars, callVars, ended, judged>>

-----------------------------------------------------------------------------
Party == Launch \cup Creator
Epoch == 1..MaxEpoch
CaptureOrNone == Capture \cup {None}

\* The executor id and launch id a party's calls carry: a launch's token is
\* scoped to its session, a creator claims as mend:<worktree> and names none.
ExecutorOf(p) == IF p \in Launch THEN SessionOf[p] ELSE Mend
LaunchOf(p)   == IF p \in Launch THEN p ELSE None

Grant   == [executor : Session \cup {Mend, None}, launch : Launch \cup {None}]
\* Capture 0's creators ask for no seal.
Request == {r \in [by : Party, id : Capture, n : Nat, parent : CaptureOrNone,
                   epoch : Epoch, final : BOOLEAN] : r.final => r.by \in Launch}
Seal    == [launch : Launch, capture : Capture, n : Nat]

TypeOK ==
  /\ lease \in [executor : Session \cup {Mend, None}, launch : Launch \cup {None},
                epoch : 0..MaxEpoch, live : BOOLEAN]
  /\ lease.executor # None => lease.epoch \in Epoch
  /\ chain \in [n : Nat \cup {-1}, head : CaptureOrNone, epoch : 0..MaxEpoch]
  /\ landed \in Seq(Request)
  /\ thinned \in SUBSET Capture
  /\ seals \in [Epoch -> Seal \cup {None}]
  /\ granted \in [Epoch -> Grant]
  /\ released \in SUBSET Epoch
  /\ view \in [Launch -> [epoch : Epoch, n : Nat \cup {-1}, head : CaptureOrNone] \cup {None}]
  /\ planning \in [Launch -> [n : Nat \cup {-1}, head : CaptureOrNone] \cup {None}]
  /\ creating \in [Creator -> 0..MaxEpoch]
  /\ wire \in SUBSET Request
  /\ admitted \in SUBSET wire /\ acked \in SUBSET wire
  /\ recording \in SUBSET {r \in wire : r.final}
  /\ ended \in SUBSET Launch
  /\ judged \in SUBSET Epoch

Free == [executor |-> None, launch |-> None]

Init ==
  /\ lease = [executor |-> None, launch |-> None, epoch |-> 0, live |-> FALSE]
  /\ chain = [n |-> -1, head |-> None, epoch |-> 0]
  /\ landed = <<>> /\ thinned = {}
  /\ seals = [e \in Epoch |-> None]
  /\ granted = [e \in Epoch |-> Free] /\ released = {}
  /\ view = [l \in Launch |-> None]
  /\ planning = [l \in Launch |-> None]
  /\ creating = [c \in Creator |-> 0]
  /\ wire = {} /\ admitted = {} /\ acked = {} /\ recording = {}
  /\ ended = {} /\ judged = {}

\* A lease row made before leases named launches: its holder's, whichever
\* launch asks, until the next claim binds it.
InitUnbound ==
  /\ MaxEpoch > 0
  /\ \E l \in Launch, live \in BOOLEAN : LET s == SessionOf[l] IN
       /\ lease = [executor |-> s, launch |-> None, epoch |-> 1, live |-> live]
       /\ granted = [e \in Epoch |->
                       IF e = 1 THEN [executor |-> s, launch |-> None] ELSE Free]
  /\ chain = [n |-> -1, head |-> None, epoch |-> 1]
  /\ landed = <<>> /\ thinned = {}
  /\ seals = [e \in Epoch |-> None] /\ released = {}
  /\ view = [l \in Launch |-> None]
  /\ planning = [l \in Launch |-> None]
  /\ creating = [c \in Creator |-> 0]
  /\ wire = {} /\ admitted = {} /\ acked = {} /\ recording = {}
  /\ ended = {} /\ judged = {}

-----------------------------------------------------------------------------
(* The store's statements. *)

\* Mutated: the launch bound to the lease is not compared.
HoldsAnyLaunch(g, p) == g.executor = ExecutorOf(p)

\* The lease, or an epoch's grant, names this party and its launch (or none).
Holds(g, p) ==
  /\ g.executor = ExecutorOf(p)
  /\ g.launch = None \/ g.launch = LaunchOf(p)

\* Mutated: a lapsed lease is anyone's.
ClaimableLapsed(p) == ~lease.live

\* claim's WHERE: not live, and free, the claimer's own, or Mend's.
Claimable(p) ==
  /\ ~lease.live
  /\ \/ lease.executor = None
     \/ /\ lease.executor = ExecutorOf(p)
        /\ lease.launch = None \/ LaunchOf(p) = None \/ lease.launch = LaunchOf(p)
     \/ lease.executor = Mend

\* claim: the epoch and the chain's head_epoch move in one statement.
Claim(p) ==
  LET e == lease.epoch + 1 IN
  /\ Claimable(p)
  /\ lease.epoch < MaxEpoch
  /\ lease' = [executor |-> ExecutorOf(p), launch |-> LaunchOf(p), epoch |-> e, live |-> TRUE]
  /\ granted' = [granted EXCEPT ![e] = [executor |-> ExecutorOf(p), launch |-> LaunchOf(p)]]
  /\ chain' = [chain EXCEPT !.epoch = e]
  /\ UNCHANGED <<released, landed, thinned, seals>>

\* heartbeat: renews by epoch and holder, whether or not the lease lapsed.
Renew(l, e) ==
  /\ lease.epoch = e /\ Holds(lease, l)
  /\ lease' = [lease EXCEPT !.live = TRUE]
  /\ UNCHANGED <<granted, released, chain, landed, thinned, seals>>

\* Mutated: the lease as it stands is freed, whichever epoch was read.
ReleaseAny(e) ==
  /\ lease' = [lease EXCEPT !.executor = None, !.launch = None, !.live = FALSE]
  /\ released' = released \cup ({lease.epoch} \ {0})
  /\ UNCHANGED <<granted, chain, landed, thinned, seals>>

\* release: by epoch alone.
Release(e) ==
  /\ lease' = IF lease.epoch = e
              THEN [executor |-> None, launch |-> None, epoch |-> e, live |-> FALSE]
              ELSE lease
  /\ released' = IF lease.epoch = e THEN released \cup {e} ELSE released
  /\ UNCHANGED <<granted, chain, landed, thinned, seals>>

\* Mutated: any capture at n answers a retry.
RowAtAny(n, id) == \E i \in 1..Len(landed) : landed[i].n = n

\* The row of n, when deleteCaptures has not dropped it.
RowAt(n, id) == \E i \in 1..Len(landed) :
  landed[i].n = n /\ landed[i].id = id /\ id \notin thinned

\* Mutated: the chain's head is not compared.
CanLandAnyHead(r) ==
  /\ chain.epoch = r.epoch
  /\ lease.epoch = r.epoch /\ lease.live
  /\ r.by \in Launch => Holds(lease, r.by)

\* Mutated: the epochs are not compared, only the holder.
CanLandAnyEpoch(r) ==
  /\ chain.n = r.n - 1 /\ chain.head = r.parent
  /\ lease.live
  /\ r.by \in Launch => Holds(lease, r.by)

\* register's compare-and-set: the chain at the parent, under the live lease's epoch,
\* held by the registering launch (capture 0's register names no holder).
CanLand(r) ==
  /\ chain.n = r.n - 1 /\ chain.head = r.parent /\ chain.epoch = r.epoch
  /\ lease.epoch = r.epoch /\ lease.live
  /\ r.by \in Launch => Holds(lease, r.by)

\* Mutated: a replaced seal keeps its capture_id.
SealedKeepsCapture(r) ==
  IF seals[r.epoch] = None
  THEN [seals EXCEPT ![r.epoch] = [launch |-> r.by, capture |-> r.id, n |-> r.n]]
  ELSE [seals EXCEPT ![r.epoch].n = r.n]

\* ON CONFLICT (worktree_id, epoch): only a later capture replaces a seal.
Sealed(r) ==
  IF seals[r.epoch] = None \/ seals[r.epoch].n < r.n
  THEN [seals EXCEPT ![r.epoch] = [launch |-> r.by, capture |-> r.id, n |-> r.n]]
  ELSE seals

-----------------------------------------------------------------------------
(* Executors: what a launch does with its lease (sealantd through the channel). *)

\* The engine claims for a launch before its executor exists; the launch
\* learns the epoch from its first plan.
LaunchClaim(l) ==
  /\ l \notin ended /\ view[l] = None
  /\ Claim(l)
  /\ UNCHANGED <<callVars, ended, judged>>

\* The same create asked again renews its own lapsed claim.
RenewReserved(l) ==
  /\ l \notin ended /\ view[l] = None /\ ~lease.live
  /\ Renew(l, lease.epoch)
  /\ UNCHANGED <<callVars, ended, judged>>

\* plan.get of the live lease's own launch: the epoch and the head as they are.
PlanHeld(l) ==
  /\ l \notin ended
  /\ lease.live /\ Holds(lease, l)
  /\ view' = [view EXCEPT ![l] =
       [epoch |-> lease.epoch, n |-> chain.n, head |-> chain.head]]
  /\ UNCHANGED <<storeVars, planning, creating, wire, admitted, acked, recording, ended, judged>>

\* plan.get of a lease that is not live: the head is read, and checked, first...
PlanRead(l) ==
  /\ l \notin ended /\ planning[l] = None /\ ~lease.live
  /\ planning' = [planning EXCEPT ![l] = [n |-> chain.n, head |-> chain.head]]
  /\ UNCHANGED <<storeVars, view, creating, wire, admitted, acked, recording, ended, judged>>

\* ... and then the plan is the claim.
PlanClaim(l) ==
  /\ planning[l] # None
  /\ Claim(l)
  /\ view' = [view EXCEPT ![l] =
       [epoch |-> lease.epoch + 1, n |-> planning[l].n, head |-> planning[l].head]]
  /\ planning' = [planning EXCEPT ![l] = None]
  /\ UNCHANGED <<creating, wire, admitted, acked, recording, ended, judged>>

PlanRefused(l) ==
  /\ planning[l] # None /\ ~Claimable(l)
  /\ planning' = [planning EXCEPT ![l] = None]
  /\ UNCHANGED <<storeVars, view, creating, wire, admitted, acked, recording, ended, judged>>

Heartbeat(l) ==
  /\ l \notin ended /\ view[l] # None
  /\ Renew(l, view[l].epoch)
  /\ UNCHANGED <<callVars, ended, judged>>

\* A manifest on the head the launch knows; `final` asks for a seal with it.
Compose(l) ==
  /\ l \notin ended /\ view[l] # None
  /\ \E id \in Capture \ {r.id : r \in wire}, final \in BOOLEAN :
       wire' = wire \cup {[by |-> l, id |-> id, n |-> view[l].n + 1, parent |-> view[l].head,
                           epoch |-> view[l].epoch, final |-> final]}
  /\ UNCHANGED <<storeVars, view, planning, creating, admitted, acked, recording, ended, judged>>

\* requireLease: the first read of a register; a request may arrive late or again.
Admit(r) ==
  /\ r.by \in Launch /\ r \notin admitted
  /\ lease.live /\ lease.epoch = r.epoch /\ Holds(lease, r.by)
  /\ admitted' = admitted \cup {r}
  /\ UNCHANGED <<storeVars, view, planning, creating, wire, acked, recording, ended, judged>>

\* The compare-and-set lands the row.  A sealing capture is sealed with it, left
\* to its checks (recordWhenChecked), or found not to hold and not sealed.
Land(r) ==
  /\ r \in admitted /\ CanLand(r)
  /\ chain' = [n |-> r.n, head |-> r.id, epoch |-> r.epoch]
  /\ landed' = Append(landed, r)
  /\ \/ /\ r.final /\ Holds(lease, r.by)
        /\ seals' = Sealed(r) /\ UNCHANGED recording
     \/ /\ r.final
        /\ recording' = recording \cup {r} /\ UNCHANGED seals
     \/ UNCHANGED <<seals, recording>>
  /\ admitted' = admitted \ {r}
  /\ acked' = acked \cup {r}
  /\ UNCHANGED <<lease, granted, released, thinned, view, planning, creating, wire, ended, judged>>

\* The compare-and-set missed and the row of n is this very capture: a retry
\* after a lost answer.  A sealing one may have its checks run again (reAsked).
LostAck(r) ==
  /\ r \in admitted /\ ~CanLand(r) /\ RowAt(r.n, r.id)
  /\ admitted' = admitted \ {r}
  /\ acked' = acked \cup {r}
  /\ \/ UNCHANGED recording
     \/ r.final /\ recording' = recording \cup {r}
  /\ UNCHANGED <<storeVars, view, planning, creating, wire, ended, judged>>

\* It missed for another capture, epoch or holder: 409, and nothing landed.
Conflict(r) ==
  /\ r \in admitted /\ ~CanLand(r) /\ ~RowAt(r.n, r.id)
  /\ admitted' = admitted \ {r}
  /\ UNCHANGED <<storeVars, view, planning, creating, wire, acked, recording, ended, judged>>

\* Mutated: the capture need not be the chain's head any more.
RecordSealBehind(r) ==
  /\ r \in recording
  /\ recording' = recording \ {r}
  /\ \/ /\ RowAt(r.n, r.id)
        /\ lease.epoch = r.epoch /\ lease.live /\ Holds(lease, r.by)
        /\ seals' = Sealed(r)
     \/ UNCHANGED seals
  /\ UNCHANGED <<lease, granted, released, chain, landed, thinned, view, planning, creating,
                 wire, admitted, acked, ended, judged>>

\* recordSeal, once the checks of a registered capture end; checks that found a
\* problem, or concluded nothing, record none.
RecordSeal(r) ==
  /\ r \in recording
  /\ recording' = recording \ {r}
  /\ \/ /\ RowAt(r.n, r.id)
        /\ chain.head = r.id /\ chain.n = r.n /\ chain.epoch = r.epoch
        /\ lease.epoch = r.epoch /\ lease.live /\ Holds(lease, r.by)
        /\ seals' = Sealed(r)
     \/ UNCHANGED seals
  /\ UNCHANGED <<lease, granted, released, chain, landed, thinned, view, planning, creating,
                 wire, admitted, acked, ended, judged>>

\* The answer reaches the launch, which builds on it.
Learn(r) ==
  /\ r \in acked /\ r.by \in Launch /\ r.by \notin ended
  /\ view[r.by] # None /\ view[r.by].epoch = r.epoch /\ view[r.by].n = r.n - 1
  /\ view' = [view EXCEPT ![r.by] = [epoch |-> r.epoch, n |-> r.n, head |-> r.id]]
  /\ UNCHANGED <<storeVars, planning, creating, wire, admitted, acked, recording, ended, judged>>

-----------------------------------------------------------------------------
(* Mend's creators of capture 0: claim, register n = 0, release. *)

CreatorClaim(c) ==
  /\ creating[c] = 0
  /\ Claim(c)
  /\ creating' = [creating EXCEPT ![c] = lease.epoch + 1]
  /\ UNCHANGED <<view, planning, wire, admitted, acked, recording, ended, judged>>

CreatorRegister(c) ==
  /\ creating[c] # 0 /\ chain.head = None
  /\ ~\E r \in wire : r.by = c /\ r.epoch = creating[c]
  /\ \E id \in Capture \ {r.id : r \in wire} :
       LET r == [by |-> c, id |-> id, n |-> 0, parent |-> None,
                 epoch |-> creating[c], final |-> FALSE]
       IN  wire' = wire \cup {r} /\ admitted' = admitted \cup {r}
  /\ UNCHANGED <<storeVars, view, planning, creating, acked, recording, ended, judged>>

\* Released whatever the register did (Effect.ensuring); a claim that found a
\* registered capture 0 is given back the same way.
CreatorRelease(c) ==
  /\ creating[c] # 0 /\ ~\E r \in admitted : r.by = c
  /\ Release(creating[c])
  /\ creating' = [creating EXCEPT ![c] = 0]
  /\ UNCHANGED <<view, planning, wire, admitted, acked, recording, ended, judged>>

\* The Mend process stops between two steps: its claim is left to lapse.
CreatorCrash(c) ==
  /\ creating[c] # 0
  /\ creating' = [creating EXCEPT ![c] = 0]
  /\ UNCHANGED <<storeVars, view, planning, wire, admitted, acked, recording, ended, judged>>

-----------------------------------------------------------------------------
(* The platform, the engine and retention. *)

Lapse ==
  /\ lease.live
  /\ lease' = [lease EXCEPT !.live = FALSE]
  /\ UNCHANGED <<granted, released, chain, landed, thinned, seals, callVars, ended, judged>>

\* The executor's end is observed, or its create is fenced and none was made.
End(l) ==
  /\ ended' = ended \cup {l}
  /\ UNCHANGED <<storeVars, callVars, judged>>

\* The lease read names an ended executor; of an unbound lease, the executor is
\* whichever launch its session's row names.
HolderEnded ==
  \E l \in ended : SessionOf[l] = lease.executor /\ lease.launch \in {None, l}

\* The engine reads the lease and decides; the release is a later statement.
Judge ==
  /\ HolderEnded
  /\ judged' = judged \cup {lease.epoch}
  /\ UNCHANGED <<storeVars, callVars, ended>>

EngineRelease(e) ==
  /\ judged' = judged \ {e}
  /\ Release(e)
  /\ UNCHANGED <<callVars, ended>>

\* deleteCaptures: any row but the head's.
Thin(id) ==
  /\ id # chain.head /\ id \notin thinned
  /\ \E i \in 1..Len(landed) : landed[i].id = id
  /\ thinned' = thinned \cup {id}
  /\ UNCHANGED <<lease, granted, released, chain, landed, seals, callVars, ended, judged>>

Next ==
  \/ \E l \in Launch :
       \/ LaunchClaim(l) \/ RenewReserved(l) \/ PlanHeld(l) \/ PlanRead(l)
       \/ PlanClaim(l) \/ PlanRefused(l) \/ Heartbeat(l) \/ Compose(l) \/ End(l)
  \/ \E r \in wire :
       Admit(r) \/ Land(r) \/ LostAck(r) \/ Conflict(r) \/ RecordSeal(r) \/ Learn(r)
  \/ \E c \in Creator :
       CreatorClaim(c) \/ CreatorRegister(c) \/ CreatorRelease(c) \/ CreatorCrash(c)
  \/ Lapse \/ Judge
  \/ \E e \in judged : EngineRelease(e)
  \/ \E id \in Capture : Thin(id)

Spec == Init /\ [][Next]_vars
SpecUnbound == InitUnbound /\ [][Next]_vars

-----------------------------------------------------------------------------
(* Properties. *)

\* The chain is one line: the i-th row landed is capture i - 1, on the row before
\* it, its epoch never lower than that row's, and head_n and head_capture are the
\* last one, whatever registers raced, were retried, or outlived their lease.
ChainIsLinear ==
  /\ chain.n = Len(landed) - 1
  /\ chain.head = IF landed = <<>> THEN None ELSE landed[Len(landed)].id
  /\ \A i \in 1..Len(landed) :
       /\ landed[i].n = i - 1
       /\ landed[i].parent = IF i = 1 THEN None ELSE landed[i - 1].id
       /\ i > 1 => landed[i - 1].epoch <= landed[i].epoch

\* No launch's capture lands under an epoch claimed for another launch or session,
\* whatever it learnt of that epoch (an older launch of the same session included).
LandedByGrantee ==
  \A i \in 1..Len(landed) : LET g == granted[landed[i].epoch] IN
    /\ g.executor = ExecutorOf(landed[i].by)
    /\ g.launch \in {None, LaunchOf(landed[i].by)}

\* A register answered as on the chain is on it, under its own n and epoch: the
\* answer to a retry (lost ack) never speaks for another capture.
AckedIsLanded ==
  \A r \in acked : \E i \in 1..Len(landed) : landed[i] = r

\* The lease passes to another launch or session only when the earlier holder's
\* epoch was released: a lapsed lease is a partition, not an end.
HandedOverOnlyReleased ==
  \A e \in 1..(lease.epoch - 1) :
    \/ e \in released
    \/ granted[e].executor = Mend
    \/ /\ granted[e].executor = granted[e + 1].executor
       /\ granted[e].launch \in {None, granted[e + 1].launch}

\* A release ends only the lease that was read: no epoch of a launch still
\* running is released.
ReleasedHadEnded ==
  \A e \in released : granted[e].executor # Mend =>
    \E l \in ended : SessionOf[l] = granted[e].executor /\ granted[e].launch \in {None, l}

\* A seal stands for a capture its own launch asked to seal, on the chain, under
\* the epoch it is recorded for, and that launch was granted that epoch.
SealsNameTheirCapture ==
  \A e \in Epoch : seals[e] # None =>
    /\ granted[e].launch \in {None, seals[e].launch}
    /\ \E i \in 1..Len(landed) :
         /\ landed[i].id = seals[e].capture /\ landed[i].n = seals[e].n
         /\ landed[i].epoch = e /\ landed[i].final /\ landed[i].by = seals[e].launch

\* A seal is only ever replaced by one of a later capture, and none is recorded
\* once its epoch is no longer the lease's.
SealsMoveForward ==
  [][\A e \in Epoch : seals'[e] # seals[e] =>
       /\ e = lease.epoch /\ lease.live
       /\ seals[e] # None => seals[e].n < seals'[e].n
       /\ seals'[e].capture = chain'.head]_vars

\* The store implements a fenced log: the rows landed, in order, each under the
\* newest epoch claimed when it landed.
Log == INSTANCE FencedLog WITH
  Value <- Capture,
  log <- [i \in 1..Len(landed) |-> [value |-> landed[i].id, epoch |-> landed[i].epoch]],
  fence <- lease.epoch
IsFencedLog == Log!Spec
=============================================================================
