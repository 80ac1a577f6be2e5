------------------------------ MODULE FollowUps ------------------------------
(***************************************************************************)
(* The delivery of review comments to a session's agent as one bundle, a   *)
(* follow-up (packages/sessions/src/follow-up-delivery.ts, with            *)
(* packages/db/src/repos/follow-ups.ts and the launch of                   *)
(* packages/sessions/src/engine.ts).                                       *)
(*                                                                         *)
(* A call claims its follow-up's row under the session's lock, launches    *)
(* outside it with a lease it renews, and takes the lock again to record   *)
(* what the launch left.  A follow-up's correlation marks the process row  *)
(* of the agent started for it, or the turn a live agent accepted.  Calls  *)
(* of one idempotency key are calls of one follow-up.  One session; Mend   *)
(* may stop anywhere, and its agents run on.  No launch here finds an      *)
(* executor to replace first, so none leaves a plan a restart takes up.    *)
(***************************************************************************)
EXTENDS Integers

CONSTANTS
  FollowUp,   \* idempotency keys
  Call,       \* requests to deliver
  KeyOf,      \* the follow-up a call asks for
  Comment,
  Of,         \* the comments of a follow-up
  Kinds,      \* the kinds of agent: "pty", "protocol"
  MaxCrashes,
  Nobody

ASSUME FollowUpsAssumption ==
  /\ KeyOf \in [Call -> FollowUp]
  /\ Of \in [FollowUp -> SUBSET Comment]
  /\ Kinds \subseteq {"pty", "protocol"}
  /\ MaxCrashes \in Nat
  /\ Nobody \notin Call \cup FollowUp /\ "other" \notin FollowUp

VARIABLES
  bundle,   \* a follow-up's row: its status and the call that claims it
  lease,    \* follow-ups whose lease has not expired
  sent,     \* comments marked sent
  proc,     \* the process row with a follow-up's correlation
  turn,     \* follow-ups a turn carries the correlation of
  agent,    \* the follow-up the live agent was started for, "other" or Nobody
  kind,     \* what a launch without words of its own makes: the last agent's kind
  stage,    \* how far a call is
  outcome,  \* how a call's launch ended
  given,    \* times an agent was left with a follow-up's words
  look,     \* the claim the call under the lock has read, and its lease as read
  lapsed,   \* calls whose claim's lease ran out, as it was or as read
  broken,   \* follow-ups with a process row whose launch broke off before its turn
  crashes

engine == <<proc, turn, agent, kind, given, broken>>
vars == <<bundle, lease, sent, engine, stage, outcome, look, lapsed, crashes>>

Waiting == {"pending", "delivery_failed"}
InGate == {"launching", "opened", "rowed"}
Launching == InGate \cup {"claimed"}
Locked == {"locked", "looking", "unproven"}

Row(s) == [status |-> s, by |-> Nobody]
NoLook == [by |-> Nobody, lease |-> "none"]

Init ==
  /\ bundle = [f \in FollowUp |-> Row("none")]
  /\ lease = {}
  /\ sent = {}
  /\ proc = [f \in FollowUp |-> "none"]
  /\ turn = {}
  /\ agent \in {Nobody, "other"}
  /\ kind \in Kinds
  /\ stage = [c \in Call |-> "idle"]
  /\ outcome = [c \in Call |-> "none"]
  /\ given = [f \in FollowUp |-> 0]
  /\ look = NoLook
  /\ lapsed = {}
  /\ broken = {}
  /\ crashes = 0

Goes(c, s) == stage' = [stage EXCEPT ![c] = s]

LockFree == \A c \in Call : stage[c] \notin Locked
GateFree == \A c \in Call : stage[c] \notin InGate

Correlated(f) == proc[f] # "none"

LiveProtocol == agent # Nobody /\ kind = "protocol"

(* What withSessionLock's body changes beside the follow-ups' rows.        *)
Marks(fs) == sent' = sent \cup UNION {Of[f] : f \in fs}

-----------------------------------------------------------------------------
(* A call's first stay under the lock (prepare): what it reads first is    *)
(* the process row, which a launch writes without the lock.  Its writes    *)
(* are one transaction, committed as the lock is let go.                   *)

Recover(c) ==
  /\ stage[c] = "idle" /\ LockFree
  /\ Correlated(KeyOf[c])
  /\ bundle' = [bundle EXCEPT ![KeyOf[c]] = Row("delivered")]
  /\ lease' = lease \ {KeyOf[c]}
  /\ Marks({KeyOf[c]})
  /\ Goes(c, "over")
  /\ UNCHANGED <<engine, outcome, look, lapsed, crashes>>

Lock(c) ==
  /\ stage[c] = "idle" /\ LockFree
  /\ ~ Correlated(KeyOf[c])
  /\ Goes(c, "locked")
  /\ UNCHANGED <<bundle, lease, sent, engine, outcome, look, lapsed, crashes>>

(* Delivered, superseded, or with a comment sent meanwhile: the call       *)
(* returns or is refused.                                                  *)
Answer(c) ==
  LET f == KeyOf[c] IN
  /\ stage[c] = "locked"
  /\ \/ bundle[f].status \in {"delivered", "superseded"}
     \/ bundle[f].status \in Waiting \cup {"none"} /\ Of[f] \cap sent # {}
  /\ Marks(IF bundle[f].status = "delivered" THEN {f} ELSE {})
  /\ Goes(c, "over")
  /\ UNCHANGED <<bundle, lease, engine, outcome, look, lapsed, crashes>>

\* Mutated: a claim is taken over whatever the row says of another.
SelectableClaimed(c) ==
  /\ stage[c] = "locked"
  /\ bundle[KeyOf[c]].status \in Waiting \cup {"none", "delivering"}
  /\ Of[KeyOf[c]] \cap sent = {}

Selectable(c) ==
  /\ stage[c] = "locked"
  /\ bundle[KeyOf[c]].status \in Waiting \cup {"none"}
  /\ Of[KeyOf[c]] \cap sent = {}

(* createOrGet: a new row, pending, supersedes those that wait.            *)
Created(f) ==
  IF bundle[f].status # "none" THEN bundle
  ELSE [g \in FollowUp |->
         IF g = f THEN Row("pending")
         ELSE IF bundle[g].status \in Waiting THEN Row("superseded")
         ELSE bundle[g]]

Waits(f) == bundle' = [Created(f) EXCEPT ![f] = Row("pending")]

(* The follow-up waits for the agent that runs; the session's own row may  *)
(* say one does when none is left.                                         *)
Wait(c) ==
  /\ Selectable(c)
  /\ ~ LiveProtocol
  /\ Waits(KeyOf[c])
  /\ Goes(c, "over")
  /\ UNCHANGED <<lease, sent, engine, outcome, look, lapsed, crashes>>

\* Mutated: a delivery in progress is not looked for.
NoneInProgress(f) == {}

InProgress(f) == {g \in FollowUp \ {f} : bundle[g].status = "delivering"}

Reading(g) == [by |-> bundle[g].by, lease |-> IF g \in lease THEN "running" ELSE "past"]

(* The call reads its own follow-up's claim, the process row read before,  *)
(* or that of another delivery in progress, the process row read next.     *)
LookOwn(c) ==
  /\ stage[c] = "locked"
  /\ bundle[KeyOf[c]].status = "delivering"
  /\ look' = Reading(KeyOf[c])
  /\ Goes(c, "unproven")
  /\ UNCHANGED <<bundle, lease, sent, engine, outcome, lapsed, crashes>>

LookAround(c) ==
  /\ Selectable(c)
  /\ agent = Nobody \/ LiveProtocol
  /\ \/ InProgress(KeyOf[c]) = {} /\ look' = NoLook
     \/ \E g \in InProgress(KeyOf[c]) : look' = Reading(g)
  /\ Goes(c, "looking")
  /\ UNCHANGED <<bundle, lease, sent, engine, outcome, lapsed, crashes>>

(* The claim read is of the call's own follow-up.                          *)
OfOwn(c) == KeyOf[look.by] = KeyOf[c]

Looked(c, s) == look' = NoLook /\ Goes(c, s)

Claimed(c) == [status |-> "delivering", by |-> c]

Claim(c) ==
  LET f == KeyOf[c] IN
  /\ stage[c] = "looking" /\ look.by = Nobody
  /\ bundle' = [Created(f) EXCEPT ![f] = Claimed(c)]
  /\ lease' = lease \cup {f}
  /\ Looked(c, "claimed")
  /\ UNCHANGED <<sent, engine, outcome, lapsed, crashes>>

(* The delivery found in progress is over: its process row says delivered. *)
ClaimAfterProof(c) ==
  LET f == KeyOf[c]
      g == KeyOf[look.by] IN
  /\ stage[c] = "looking" /\ look.by # Nobody
  /\ Correlated(g)
  /\ bundle' = [Created(f) EXCEPT ![f] = Claimed(c), ![g] = Row("delivered")]
  /\ lease' = (lease \ {g}) \cup {f}
  /\ Marks({g})
  /\ Looked(c, "claimed")
  /\ UNCHANGED <<engine, outcome, lapsed, crashes>>

FindUnproven(c) ==
  /\ stage[c] = "looking" /\ look.by # Nobody
  /\ ~ Correlated(KeyOf[look.by])
  /\ Goes(c, "unproven")
  /\ UNCHANGED <<bundle, lease, sent, engine, outcome, look, lapsed, crashes>>

(* While the lease read runs, a call of the same follow-up returns, and    *)
(* another follow-up waits.                                                *)
StandBack(c) ==
  /\ stage[c] = "unproven" /\ look.lease # "past"
  /\ IF OfOwn(c) THEN UNCHANGED bundle ELSE Waits(KeyOf[c])
  /\ Looked(c, "over")
  /\ UNCHANGED <<lease, sent, engine, outcome, lapsed, crashes>>

(* releaseClaim finds the row by its status and the attempt read, whatever *)
(* its lease is by now.                                                    *)
Found(d) == IF bundle[KeyOf[d]] = Claimed(d) THEN {KeyOf[d]} ELSE {}

Released(rows, d) ==
  [g \in FollowUp |-> IF g \in Found(d) THEN Row("delivery_failed") ELSE rows[g]]

(* A claim whose lease, as read, ran out is given up; the call launches    *)
(* nothing.                                                                *)
GiveUp(c) ==
  /\ stage[c] = "unproven" /\ look.lease = "past" /\ OfOwn(c)
  /\ bundle' = Released(bundle, look.by)
  /\ lease' = lease \ Found(look.by)
  /\ Looked(c, "over")
  /\ UNCHANGED <<sent, engine, outcome, lapsed, crashes>>

ClaimAfter(c) ==
  LET f == KeyOf[c] IN
  /\ stage[c] = "unproven" /\ look.lease = "past" /\ ~ OfOwn(c)
  /\ bundle' = [Released(Created(f), look.by) EXCEPT ![f] = Claimed(c)]
  /\ lease' = (lease \ Found(look.by)) \cup {f}
  /\ Looked(c, "claimed")
  /\ UNCHANGED <<sent, engine, outcome, lapsed, crashes>>

-----------------------------------------------------------------------------
(* The claim's lease (renewClaim), by a heartbeat beside the launch and    *)
(* outside the lock: what was read of it may be older.                     *)

\* Mutated: a claim is known by its status alone.
OwnsByStatus(c) == bundle[KeyOf[c]].status = "delivering"

Owns(c) == bundle[KeyOf[c]] = Claimed(c)

Renew(c) ==
  /\ stage[c] \in Launching
  /\ Owns(c)
  /\ lease' = lease \cup {KeyOf[c]}
  /\ look' = IF look = [by |-> c, lease |-> "running"]
               THEN [look EXCEPT !.lease = "renewed"] ELSE look
  /\ UNCHANGED <<bundle, sent, engine, stage, outcome, lapsed, crashes>>

(* The lease runs out, and with it any read of it.                         *)
Lapse(f) ==
  /\ f \in lease
  /\ lease' = lease \ {f}
  /\ lapsed' = lapsed \cup {bundle[f].by}
  /\ look' = IF look.by = bundle[f].by THEN [look EXCEPT !.lease = "past"] ELSE look
  /\ UNCHANGED <<bundle, sent, engine, stage, outcome, crashes>>

(* The lease as read runs out, and was renewed since.                      *)
LapseAsRead ==
  /\ look.lease = "renewed"
  /\ look' = [look EXCEPT !.lease = "past"]
  /\ lapsed' = lapsed \cup {look.by}
  /\ UNCHANGED <<bundle, lease, sent, engine, stage, outcome, crashes>>

-----------------------------------------------------------------------------
(* The launch (launchFollowUp): one verb of a session at a time.           *)

Enter(c) ==
  /\ stage[c] = "claimed" /\ GateFree
  /\ Goes(c, "launching")
  /\ UNCHANGED <<bundle, lease, sent, engine, outcome, look, lapsed, crashes>>

Ends(c, how) ==
  /\ Goes(c, "answered")
  /\ outcome' = [outcome EXCEPT ![c] = how]

(* Refused or failed before an agent is opened, or by a Stop; an agent     *)
(* that is opened and whose run is not recorded is closed again.           *)
Fail(c) ==
  /\ stage[c] \in {"claimed", "launching", "opened"}
  /\ Ends(c, "failed")
  /\ UNCHANGED <<bundle, lease, sent, engine, look, lapsed, crashes>>

(* An agent runs, or the session's row says so, and takes no turn here.    *)
FindActive(c) ==
  /\ stage[c] = "launching"
  /\ Ends(c, "active")
  /\ UNCHANGED <<bundle, lease, sent, engine, look, lapsed, crashes>>

(* A turn of a correlation is accepted once.                               *)
Accept(f, correlated) ==
  /\ given' = IF correlated /\ f \in turn THEN given ELSE [given EXCEPT ![f] = @ + 1]
  /\ turn' = IF correlated THEN turn \cup {f} ELSE turn

Submit(c) ==
  /\ stage[c] = "launching" /\ LiveProtocol
  /\ Accept(KeyOf[c], TRUE)
  /\ Ends(c, "ok")
  /\ UNCHANGED <<bundle, lease, sent, proc, agent, kind, broken, look, lapsed, crashes>>

Open(c) ==
  /\ stage[c] = "launching" /\ agent = Nobody
  /\ Goes(c, "opened")
  /\ UNCHANGED <<bundle, lease, sent, engine, outcome, look, lapsed, crashes>>

(* An agent in a terminal has its words from the start.                    *)
Left(fs) ==
  given' = [f \in FollowUp |-> IF kind = "pty" /\ f \in fs THEN given[f] + 1 ELSE given[f]]

Record(c) ==
  LET f == KeyOf[c] IN
  /\ stage[c] = "opened" /\ ~ Correlated(f)
  /\ proc' = [proc EXCEPT ![f] = "live"]
  /\ agent' = f
  /\ Left({f})
  /\ IF kind = "pty" THEN Ends(c, "ok") ELSE Goes(c, "rowed") /\ UNCHANGED outcome
  /\ UNCHANGED <<bundle, lease, sent, turn, kind, broken, look, lapsed, crashes>>

(* The correlation is another process row's: the call dies, and leaves its *)
(* agent and its claim.                                                    *)
RecordTaken(c) ==
  /\ stage[c] = "opened" /\ Correlated(KeyOf[c])
  /\ Left({KeyOf[c]})
  /\ Goes(c, "over")
  /\ UNCHANGED <<bundle, lease, sent, proc, turn, agent, kind, broken, outcome, look, lapsed, crashes>>

(* The opening turn; in a workspace that was kept it has no correlation.   *)
OpeningTurn(c, retained) ==
  /\ stage[c] = "rowed" /\ agent = KeyOf[c]
  /\ Accept(KeyOf[c], ~ retained)
  /\ Ends(c, "ok")
  /\ UNCHANGED <<bundle, lease, sent, proc, agent, kind, broken, look, lapsed, crashes>>

EndsAgent ==
  /\ agent' = Nobody
  /\ proc' = [f \in FollowUp |-> IF f = agent THEN "ended" ELSE proc[f]]

(* The agent did not initialise, and is closed; or its opening turn was    *)
(* not accepted.                                                           *)
BreakOff(c) ==
  /\ stage[c] = "rowed"
  /\ \/ agent = KeyOf[c] /\ EndsAgent
     \/ UNCHANGED <<agent, proc>>
  /\ broken' = broken \cup {KeyOf[c]}
  /\ Ends(c, "failed")
  /\ UNCHANGED <<bundle, lease, sent, turn, kind, given, look, lapsed, crashes>>

-----------------------------------------------------------------------------
(* A call's second stay under the lock (finishLaunch).                     *)

\* Mutated: a launch that failed counts as made.
ProvenByAnswer(c) == outcome[c] # "active"

Proven(c) ==
  Correlated(KeyOf[c]) \/ (outcome[c] = "ok" /\ KeyOf[c] \in turn)

FinishDelivered(c) ==
  /\ stage[c] = "answered" /\ LockFree
  /\ Proven(c)
  /\ bundle' = [bundle EXCEPT ![KeyOf[c]] = Row("delivered")]
  /\ lease' = lease \ {KeyOf[c]}
  /\ Marks({KeyOf[c]})
  /\ Goes(c, "over")
  /\ UNCHANGED <<engine, outcome, look, lapsed, crashes>>

Finish(c) ==
  LET f == KeyOf[c] IN
  /\ stage[c] = "answered" /\ LockFree
  /\ ~ Proven(c)
  /\ IF Owns(c)
       THEN /\ bundle' = [bundle EXCEPT
                 ![f] = Row(IF outcome[c] = "active" THEN "pending" ELSE "delivery_failed")]
            /\ lease' = lease \ {f}
       ELSE UNCHANGED <<bundle, lease>>
  /\ Goes(c, "over")
  /\ UNCHANGED <<sent, engine, outcome, look, lapsed, crashes>>

-----------------------------------------------------------------------------
(* Around the deliveries: other starts of the session, the end of its      *)
(* agent, and the end of the server process.                               *)

StartOther(k) ==
  /\ GateFree /\ agent = Nobody
  /\ agent' = "other"
  /\ kind' = k
  /\ UNCHANGED <<bundle, lease, sent, proc, turn, given, broken, stage, outcome, look, lapsed, crashes>>

EndAgent ==
  /\ agent # Nobody
  /\ EndsAgent
  /\ UNCHANGED <<bundle, lease, sent, turn, kind, given, broken, stage, outcome, look, lapsed, crashes>>

Crash ==
  /\ crashes < MaxCrashes
  /\ crashes' = crashes + 1
  /\ Left({KeyOf[c] : c \in {d \in Call : stage[d] = "opened"}})
  /\ broken' = broken \cup {KeyOf[c] : c \in {d \in Call : stage[d] = "rowed"}}
  /\ stage' = [c \in Call |-> IF stage[c] = "idle" THEN "idle" ELSE "over"]
  /\ look' = NoLook
  /\ UNCHANGED <<bundle, lease, sent, proc, turn, agent, kind, outcome, lapsed>>

Next ==
  \/ \E c \in Call :
       \/ Recover(c) \/ Lock(c) \/ Answer(c) \/ Wait(c)
       \/ LookOwn(c) \/ LookAround(c) \/ FindUnproven(c) \/ StandBack(c)
       \/ GiveUp(c) \/ Claim(c) \/ ClaimAfterProof(c) \/ ClaimAfter(c)
       \/ Renew(c)
       \/ Enter(c) \/ Fail(c) \/ FindActive(c) \/ Submit(c)
       \/ Open(c) \/ Record(c) \/ RecordTaken(c)
       \/ \E retained \in BOOLEAN : OpeningTurn(c, retained)
       \/ BreakOff(c)
       \/ FinishDelivered(c) \/ Finish(c)
  \/ \E f \in FollowUp : Lapse(f)
  \/ LapseAsRead
  \/ \E k \in Kinds : StartOther(k)
  \/ EndAgent
  \/ Crash

Spec == Init /\ [][Next]_vars

-----------------------------------------------------------------------------
Statuses == Waiting \cup {"none", "delivering", "delivered", "superseded"}

\* Every variable keeps its type, and a row names the call that claims it
\* exactly while it is being delivered.
TypeOK ==
  /\ bundle \in [FollowUp -> [status : Statuses, by : Call \cup {Nobody}]]
  /\ \A f \in FollowUp : bundle[f].status = "delivering" <=> bundle[f].by # Nobody
  /\ lease \subseteq FollowUp /\ turn \subseteq FollowUp
  /\ lapsed \subseteq Call /\ broken \subseteq FollowUp
  /\ look \in [by : Call, lease : {"running", "renewed", "past"}] \cup {NoLook}
  /\ sent \subseteq Comment
  /\ proc \in [FollowUp -> {"none", "live", "ended"}]
  /\ agent \in FollowUp \cup {Nobody, "other"}
  /\ kind \in Kinds
  /\ stage \in [Call -> Launching \cup Locked \cup {"idle", "answered", "over"}]
  /\ outcome \in [Call -> {"none", "ok", "failed", "active"}]
  /\ given \in [FollowUp -> Nat]
  /\ crashes \in 0..MaxCrashes

\* One follow-up of a session is being delivered at a time, whatever calls,
\* retries and crashes met in between (prepare under withSessionLock).
OneDelivering ==
  \A f, g \in FollowUp :
    bundle[f].status = "delivering" /\ bundle[g].status = "delivering" => f = g

\* A follow-up's words are left with an agent once: again only when the lease
\* of a claim of its own ran out, its launch late or its server gone (prepare,
\* claimDelivery, launchFollowUp, submitTurn).
GivenOnce ==
  \A f \in FollowUp : given[f] > 1 => \E c \in lapsed : KeyOf[c] = f

\* A follow-up said delivered has its words with an agent, or with one of its
\* launches about to give them - but for a launch that broke off after it
\* recorded its process: finalizeCorrelated takes the row for a delivery.
DeliveredWasGiven ==
  \A f \in FollowUp : bundle[f].status = "delivered" =>
    \/ given[f] > 0
    \/ f \in broken
    \/ \E c \in Call : KeyOf[c] = f /\ stage[c] = "rowed"

\* A claim is ended by its own call's finish, by proof of delivery, or by the
\* one call under the lock that had read this very claim and whose reading of
\* its lease ran out - though it be renewed since: never by another call, an
\* earlier call's late answer or a restart (finishLaunch, releaseClaim,
\* claimDelivery).
ClaimHolds ==
  [][\A f \in FollowUp : bundle[f].status = "delivering" =>
       \/ bundle'[f] = bundle[f]
       \/ bundle'[f].status = "delivered"
       \/ LET c == bundle[f].by IN stage[c] = "answered" /\ stage'[c] = "over"
       \/ bundle[f].by \in lapsed /\ look = [by |-> bundle[f].by, lease |-> "past"]]_vars
==============================================================================
