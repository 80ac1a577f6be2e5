--------------------------- MODULE FollowUpsProofs ---------------------------
(* Proofs about FollowUps, for any follow-ups, calls, comments and crashes. *)
EXTENDS FollowUps, TLAPS

(* The words of a follow-up are with an agent, or its launch broke off, or is
   about to give them. *)
Reached(f) ==
  \/ given[f] # 0
  \/ f \in broken
  \/ \E c \in Call : KeyOf[c] = f /\ stage[c] = "rowed"

EvidenceInv ==
  /\ \A f \in turn : given[f] # 0
  /\ \A f \in FollowUp : Correlated(f) \/ bundle[f].status = "delivered" => Reached(f)
  /\ \A c \in Call : stage[c] = "rowed" => Correlated(KeyOf[c])
  /\ agent \in FollowUp => Correlated(agent)

Working(c) == stage[c] \in Launching \cup {"answered"}

(* Nothing claims the row of the call's follow-up, nor has said it over. *)
Free(c) == bundle[KeyOf[c]].status \in Waiting \cup {"none"}

(* What the one call under the lock has read still stands, but for the lease. *)
LookInv ==
  /\ \A c, d \in Call : stage[c] \in Locked /\ stage[d] \in Locked => c = d
  /\ look.by # Nobody =>
       /\ bundle[KeyOf[look.by]] = Claimed(look.by)
       /\ look.lease = "past" => look.by \in lapsed
       /\ \E c \in Call : stage[c] \in {"looking", "unproven"}
  /\ \A c \in Call : stage[c] = "looking" =>
       Free(c) /\ (look.by = Nobody => InProgress(KeyOf[c]) = {})
  /\ \A c \in Call : stage[c] = "unproven" => look.by # Nobody /\ (OfOwn(c) \/ Free(c))

(* A row is claimed by a call of its own follow-up, whose lease runs or lapsed. *)
ClaimInv ==
  /\ \A f \in FollowUp : bundle[f].status = "delivering" =>
       KeyOf[bundle[f].by] = f /\ (f \in lease \/ bundle[f].by \in lapsed)
  /\ \A f \in lease : bundle[f].status = "delivering"

(* Follow-ups one of whose claims had a lease that ran out. *)
Lapsed == {KeyOf[c] : c \in lapsed}

(* While no lease of a follow-up ran out, one call at most launches for it, and
   it is the one that claims the row, or the row is delivered. *)
OwnerInv ==
  /\ \A c \in Call : Working(c) /\ KeyOf[c] \notin Lapsed =>
       Owns(c) \/ bundle[KeyOf[c]].status = "delivered"
  /\ \A c, d \in Call :
       Working(c) /\ Working(d) /\ KeyOf[c] = KeyOf[d] /\ KeyOf[c] \notin Lapsed => c = d

(* Until then its words are given once, at the end of a launch that is proven
   or whose claim nobody gives up. *)
GivenInv ==
  /\ \A f \in FollowUp \ Lapsed : given[f] \in {0, 1}
  /\ \A f \in FollowUp \ Lapsed : given[f] # 0 =>
       \/ bundle[f].status = "delivered"
       \/ /\ bundle[f].status = "delivering"
          /\ stage[bundle[f].by] \in {"answered", "over"}
  /\ \A c \in Call : stage[c] \in Launching /\ KeyOf[c] \notin Lapsed => given[KeyOf[c]] = 0
  /\ \A c \in Call : stage[c] = "answered" /\ KeyOf[c] \notin Lapsed /\ given[KeyOf[c]] # 0
                       => Proven(c)

Inv == /\ TypeOK /\ LookInv /\ ClaimInv /\ OneDelivering
       /\ EvidenceInv /\ OwnerInv /\ GivenInv

-----------------------------------------------------------------------------
(* How a step changes a follow-up's row, whoever takes it. *)
LEMMA CreatedRow ==
  ASSUME FollowUpsAssumption, TypeOK, NEW c \in Call, Free(c)
  PROVE  /\ KeyOf[c] \in FollowUp
         /\ Created(KeyOf[c]) \in [FollowUp -> [status : Statuses, by : Call \cup {Nobody}]]
         /\ \A f \in FollowUp :
              Created(KeyOf[c])[f].status = "delivering" <=> Created(KeyOf[c])[f].by # Nobody
         /\ \A f \in FollowUp \ {KeyOf[c]} :
              \/ Created(KeyOf[c])[f] = bundle[f]
              \/ bundle[f].status \in Waiting /\ Created(KeyOf[c])[f] = Row("superseded")
BY DEF FollowUpsAssumption, TypeOK, Created, Free, Row, Waiting, Statuses

Rows == [FollowUp -> [status : Statuses, by : Call \cup {Nobody}]]

LEMMA TypeStep ==
  ASSUME FollowUpsAssumption, TypeOK, LookInv, ClaimInv, [Next]_vars PROVE TypeOK'
<1> USE FollowUpsAssumption
        DEF TypeOK, Launching, InGate, Waiting, Statuses, Row, Goes, engine, Locked
<1>1. ASSUME NEW c \in Call, Recover(c) \/ Lock(c) \/ Answer(c) PROVE TypeOK'
  <2>1. CASE Recover(c)
    BY <2>1 DEF Recover, Marks
  <2>2. CASE Lock(c)
    BY <2>2 DEF Lock
  <2>3. CASE Answer(c)
    BY <2>3 DEF Answer, Marks
  <2>4. QED
    BY <1>1, <2>1, <2>2, <2>3
<1>2. NoLook \in [by : Call, lease : {"running", "renewed", "past"}] \cup {NoLook}
  OBVIOUS
<1>3. ASSUME NEW c \in Call, Free(c), Waits(KeyOf[c])
      PROVE  /\ bundle' \in Rows
             /\ \A f \in FollowUp : bundle'[f].status = "delivering" <=> bundle'[f].by # Nobody
  <2>1. bundle' = [Created(KeyOf[c]) EXCEPT ![KeyOf[c]] = Row("pending")]
    BY <1>3 DEF Waits
  <2>2. QED
    BY <1>3, <2>1, CreatedRow DEF Rows
<1>4. ASSUME NEW c \in Call, Wait(c) \/ StandBack(c) PROVE TypeOK'
  <2>1. /\ bundle' \in Rows
        /\ \A f \in FollowUp : bundle'[f].status = "delivering" <=> bundle'[f].by # Nobody
    <3>1. bundle' = bundle \/ (Free(c) /\ Waits(KeyOf[c]))
      BY <1>4 DEF Wait, StandBack, Selectable, Free, LookInv
    <3>2. QED
      BY <1>3, <3>1 DEF Rows
  <2>2. CASE Wait(c)
    BY <2>1, <2>2 DEF Wait, Rows
  <2>3. CASE StandBack(c)
    BY <1>2, <2>1, <2>3 DEF StandBack, Looked, Rows
  <2>4. QED
    BY <1>4, <2>2, <2>3
<1>5. ASSUME NEW c \in Call, LookOwn(c) \/ LookAround(c) \/ FindUnproven(c) PROVE TypeOK'
  <2>1. ASSUME NEW g \in FollowUp, bundle[g].status = "delivering"
        PROVE  Reading(g) \in [by : Call, lease : {"running", "renewed", "past"}]
    BY <2>1 DEF Reading
  <2>2. look' \in [by : Call, lease : {"running", "renewed", "past"}] \cup {NoLook}
    <3>1. CASE LookOwn(c)
      BY <2>1, <3>1 DEF LookOwn, FollowUpsAssumption
    <3>2. CASE LookAround(c)
      BY <1>2, <2>1, <3>2 DEF LookAround, InProgress
    <3>3. CASE FindUnproven(c)
      BY <3>3 DEF FindUnproven
    <3>4. QED
      BY <1>5, <3>1, <3>2, <3>3
  <2>3. stage' \in [Call -> Launching \cup Locked \cup {"idle", "answered", "over"}]
    BY <1>5 DEF LookOwn, LookAround, FindUnproven
  <2>4. QED
    BY <1>5, <2>2, <2>3 DEF LookOwn, LookAround, FindUnproven
<1>15. ASSUME NEW c \in Call, GiveUp(c) PROVE TypeOK'
  <2>1. /\ bundle' \in Rows
        /\ \A f \in FollowUp : bundle'[f].status = "delivering" <=> bundle'[f].by # Nobody
    BY <1>15 DEF GiveUp, Released, Rows
  <2>2. lease' \subseteq FollowUp
    BY <1>15 DEF GiveUp
  <2>3. QED
    BY <1>2, <1>15, <2>1, <2>2 DEF GiveUp, Looked, Rows
<1>16. ASSUME NEW c \in Call, NEW g \in FollowUp, NEW rows \in Rows,
              \A f \in FollowUp : rows[f].status = "delivering" <=> rows[f].by # Nobody,
              NEW s \in {"delivered", "delivery_failed"},
              \/ bundle' = [rows EXCEPT ![KeyOf[c]] = Claimed(c)]
              \/ bundle' = [rows EXCEPT ![KeyOf[c]] = Claimed(c), ![g] = Row(s)]
       PROVE  /\ bundle' \in Rows
              /\ \A f \in FollowUp : bundle'[f].status = "delivering" <=> bundle'[f].by # Nobody
  <2>1. KeyOf[c] \in FollowUp /\ c # Nobody
    BY DEF FollowUpsAssumption
  <2>2. CASE bundle' = [rows EXCEPT ![KeyOf[c]] = Claimed(c)]
    BY <1>16, <2>1, <2>2 DEF Claimed, Rows
  <2>3. CASE bundle' = [rows EXCEPT ![KeyOf[c]] = Claimed(c), ![g] = Row(s)]
    <3>1. bundle' \in Rows
      BY <2>1, <2>3 DEF Claimed, Rows
    <3>2. ASSUME NEW f \in FollowUp
          PROVE  bundle'[f].status = "delivering" <=> bundle'[f].by # Nobody
      <4>1. CASE f = g
        BY <2>1, <2>3, <4>1 DEF Claimed, Rows
      <4>2. CASE f # g /\ f = KeyOf[c]
        BY <2>1, <2>3, <4>2 DEF Claimed, Rows
      <4>3. CASE f # g /\ f # KeyOf[c]
        BY <1>16, <2>1, <2>3, <4>3 DEF Claimed, Rows
      <4>4. QED
        BY <4>1, <4>2, <4>3
    <3>3. QED
      BY <3>1, <3>2
  <2>4. QED
    BY <1>16, <2>2, <2>3
<1>17. ASSUME NEW c \in Call, Claim(c) \/ ClaimAfterProof(c) \/ ClaimAfter(c) PROVE TypeOK'
  <2>1. /\ Created(KeyOf[c]) \in Rows
        /\ \A f \in FollowUp :
             Created(KeyOf[c])[f].status = "delivering" <=> Created(KeyOf[c])[f].by # Nobody
    BY <1>17, CreatedRow DEF Rows, Claim, ClaimAfterProof, ClaimAfter, LookInv
  <2>2. /\ Released(Created(KeyOf[c]), look.by) \in Rows
        /\ \A f \in FollowUp :
             Released(Created(KeyOf[c]), look.by)[f].status = "delivering"
               <=> Released(Created(KeyOf[c]), look.by)[f].by # Nobody
    BY <2>1 DEF Released, Rows
  <2>3. /\ bundle' \in Rows
        /\ \A f \in FollowUp : bundle'[f].status = "delivering" <=> bundle'[f].by # Nobody
    <3>1. CASE Claim(c)
      BY <1>16, <2>1, <3>1 DEF Claim, FollowUpsAssumption
    <3>2. CASE ClaimAfterProof(c)
      <4>1. KeyOf[look.by] \in FollowUp
        BY <3>2 DEF ClaimAfterProof, NoLook, FollowUpsAssumption
      <4>2. QED
        BY <1>16, <2>1, <3>2, <4>1 DEF ClaimAfterProof
    <3>3. CASE ClaimAfter(c)
      BY <1>16, <2>2, <3>3 DEF ClaimAfter, FollowUpsAssumption
    <3>4. QED
      BY <1>17, <3>1, <3>2, <3>3
  <2>4. lease' \subseteq FollowUp /\ sent' \subseteq Comment
    <3>1. KeyOf[c] \in FollowUp /\ (look.by # Nobody => KeyOf[look.by] \in FollowUp)
      BY DEF NoLook, FollowUpsAssumption
    <3>2. \A g \in FollowUp : Of[g] \subseteq Comment
      BY DEF FollowUpsAssumption
    <3>3. QED
      BY <1>17, <3>1, <3>2 DEF Claim, ClaimAfterProof, ClaimAfter, Marks
  <2>5. look' = NoLook /\ stage' \in [Call -> Launching \cup Locked \cup {"idle", "answered", "over"}]
    BY <1>17 DEF Claim, ClaimAfterProof, ClaimAfter, Looked
  <2>6. QED
    BY <1>17, <2>3, <2>4, <2>5 DEF Claim, ClaimAfterProof, ClaimAfter, Rows
<1>6. ASSUME NEW c \in Call, Renew(c) \/ Enter(c) \/ Fail(c) \/ FindActive(c) PROVE TypeOK'
  <2>1. CASE Renew(c)
    BY <2>1 DEF Renew, FollowUpsAssumption
  <2>2. CASE Enter(c) \/ Fail(c) \/ FindActive(c)
    BY <2>2 DEF Enter, Fail, FindActive, Ends
  <2>3. QED
    BY <1>6, <2>1, <2>2
<1>7. ASSUME NEW c \in Call,
             \/ Submit(c) \/ Open(c) \/ Record(c) \/ RecordTaken(c)
             \/ (\E retained \in BOOLEAN : OpeningTurn(c, retained)) \/ BreakOff(c)
      PROVE  TypeOK'
  <2>1. CASE Submit(c)
    BY <2>1 DEF Submit, Accept, Ends
  <2>2. CASE Open(c)
    BY <2>2 DEF Open
  <2>3. CASE Record(c)
    <3>1. /\ agent' \in FollowUp \cup {Nobody, "other"}
          /\ proc' \in [FollowUp -> {"none", "live", "ended"}]
          /\ given' \in [FollowUp -> Nat]
      BY <2>3 DEF Record, Left
    <3>2. /\ stage' \in [Call -> Launching \cup Locked \cup {"idle", "answered", "over"}]
          /\ outcome' \in [Call -> {"none", "ok", "failed", "active"}]
      BY <2>3 DEF Record, Ends
    <3>3. QED
      BY <2>3, <3>1, <3>2 DEF Record
  <2>4. CASE RecordTaken(c)
    BY <2>4 DEF RecordTaken, Left
  <2>5. CASE \E retained \in BOOLEAN : OpeningTurn(c, retained)
    BY <2>5 DEF OpeningTurn, Accept, Ends
  <2>6. CASE BreakOff(c)
    BY <2>6 DEF BreakOff, EndsAgent, Ends
  <2>7. QED
    BY <1>7, <2>1, <2>2, <2>3, <2>4, <2>5, <2>6
<1>8. ASSUME NEW c \in Call, FinishDelivered(c) \/ Finish(c) PROVE TypeOK'
  <2>1. CASE FinishDelivered(c)
    BY <2>1 DEF FinishDelivered, Marks
  <2>2. CASE Finish(c)
    <3>1. CASE Owns(c)
      <4>1. PICK w \in Waiting : bundle' = [bundle EXCEPT ![KeyOf[c]] = Row(w)]
        BY <2>2, <3>1 DEF Finish
      <4>2. /\ bundle' \in [FollowUp -> [status : Statuses, by : Call \cup {Nobody}]]
            /\ \A f \in FollowUp : bundle'[f].status = "delivering" <=> bundle'[f].by # Nobody
        BY <4>1
      <4>3. QED
        BY <2>2, <3>1, <4>2 DEF Finish
    <3>2. CASE ~ Owns(c)
      BY <2>2, <3>2 DEF Finish
    <3>3. QED
      BY <3>1, <3>2
  <2>3. QED
    BY <1>8, <2>1, <2>2
<1>9. ASSUME NEW f \in FollowUp, Lapse(f) PROVE TypeOK'
  <2>1. bundle[f].by \in Call
    BY <1>9 DEF Lapse, ClaimInv
  <2>2. look' \in [by : Call, lease : {"running", "renewed", "past"}] \cup {NoLook}
    <3>1. CASE look.by = bundle[f].by
      <4>1. look \in [by : Call, lease : {"running", "renewed", "past"}]
        BY <2>1, <3>1 DEF NoLook, FollowUpsAssumption
      <4>2. look' = [look EXCEPT !.lease = "past"]
        BY <1>9, <3>1 DEF Lapse
      <4>3. QED
        BY <4>1, <4>2
    <3>2. CASE look.by # bundle[f].by
      BY <1>9, <3>2 DEF Lapse
    <3>3. QED
      BY <3>1, <3>2
  <2>3. QED
    BY <1>9, <2>1, <2>2 DEF Lapse
<1>18. CASE LapseAsRead
  <2>1. look \in [by : Call, lease : {"running", "renewed", "past"}]
    BY <1>18 DEF LapseAsRead, NoLook
  <2>2. look' \in [by : Call, lease : {"running", "renewed", "past"}] /\ look.by \in Call
    BY <1>18, <2>1 DEF LapseAsRead
  <2>3. QED
    BY <1>18, <2>2 DEF LapseAsRead
<1>10. ASSUME NEW k \in Kinds, StartOther(k) PROVE TypeOK'
  BY <1>10 DEF StartOther
<1>11. CASE EndAgent
  BY <1>11 DEF EndAgent, EndsAgent
<1>12. CASE Crash
  BY <1>12 DEF Crash, Left
<1>13. CASE UNCHANGED vars
  BY <1>13 DEF vars
<1>14. QED
  BY <1>1, <1>4, <1>5, <1>6, <1>7, <1>8, <1>9, <1>10, <1>11, <1>12, <1>13, <1>15, <1>17, <1>18 DEF Next

-----------------------------------------------------------------------------
(* The steps of the call under the lock, by what they do to the rows. *)
Reads(c) ==
  /\ stage[c] \in Locked \cup {"idle"}
  /\ \E s \in Locked \cup {"over"} : Goes(c, s)
  /\ UNCHANGED <<bundle, lease, engine, outcome, lapsed>>

Queues(c) ==
  /\ stage[c] \in Locked /\ Free(c)
  /\ bundle' = [Created(KeyOf[c]) EXCEPT ![KeyOf[c]] = Row("pending")]
  /\ Goes(c, "over")
  /\ UNCHANGED <<lease, engine, outcome, lapsed>>

GivesUp(c) ==
  /\ stage[c] \in Locked /\ KeyOf[c] \in Lapsed
  /\ bundle' = [bundle EXCEPT ![KeyOf[c]] = Row("delivery_failed")]
  /\ lease' = lease \ {KeyOf[c]}
  /\ Goes(c, "over")
  /\ UNCHANGED <<engine, outcome, lapsed>>

Claims(c) ==
  /\ stage[c] \in Locked /\ Free(c) /\ InProgress(KeyOf[c]) = {}
  /\ bundle' = [Created(KeyOf[c]) EXCEPT ![KeyOf[c]] = Claimed(c)]
  /\ lease' = lease \cup {KeyOf[c]}
  /\ Goes(c, "claimed")
  /\ UNCHANGED <<engine, outcome, lapsed>>

ClaimsAfter(c, g, s) ==
  /\ stage[c] \in Locked /\ Free(c) /\ g \in InProgress(KeyOf[c])
  /\ IF s = "delivered" THEN Correlated(g) ELSE g \in Lapsed
  /\ bundle' = [Created(KeyOf[c]) EXCEPT ![KeyOf[c]] = Claimed(c), ![g] = Row(s)]
  /\ lease' = (lease \ {g}) \cup {KeyOf[c]}
  /\ Goes(c, "claimed")
  /\ UNCHANGED <<engine, outcome, lapsed>>

Over == {"delivered", "delivery_failed"}

(* What a call read under the lock decides what it does. *)
LEMMA UnderLock ==
  ASSUME FollowUpsAssumption, TypeOK, LookInv, ClaimInv, NEW c \in Call,
         \/ Lock(c) \/ Answer(c) \/ Wait(c) \/ LookOwn(c) \/ LookAround(c) \/ FindUnproven(c)
         \/ StandBack(c) \/ GiveUp(c) \/ Claim(c) \/ ClaimAfterProof(c) \/ ClaimAfter(c)
  PROVE  \/ Reads(c) \/ Queues(c) \/ GivesUp(c) \/ Claims(c)
         \/ \E g \in FollowUp, s \in Over : ClaimsAfter(c, g, s)
<1> USE FollowUpsAssumption DEF Locked
<1>1. CASE \/ Lock(c) \/ Answer(c) \/ LookOwn(c) \/ LookAround(c) \/ FindUnproven(c)
           \/ (StandBack(c) /\ OfOwn(c))
  BY <1>1 DEF Lock, Answer, LookOwn, LookAround, FindUnproven, StandBack, Looked, Selectable, Reads
<1>2. CASE Wait(c) \/ (StandBack(c) /\ ~ OfOwn(c))
  BY <1>2 DEF Wait, StandBack, Looked, Selectable, Free, Waits, Queues, LookInv
<1>3. look.by # Nobody =>
        /\ look.by \in Call /\ KeyOf[look.by] \in FollowUp
        /\ bundle[KeyOf[look.by]] = Claimed(look.by)
        /\ look.lease = "past" => KeyOf[look.by] \in Lapsed
  BY DEF TypeOK, NoLook, LookInv, Lapsed, FollowUpsAssumption
<1>4. KeyOf[c] \in FollowUp
  BY DEF FollowUpsAssumption
<1>5. CASE GiveUp(c)
  <2>1. /\ stage[c] = "unproven" /\ look.by # Nobody /\ look.lease = "past"
        /\ KeyOf[look.by] = KeyOf[c]
    BY <1>5 DEF GiveUp, OfOwn, LookInv
  <2>2. Found(look.by) = {KeyOf[c]}
    BY <1>3, <2>1 DEF Found
  <2>3. bundle' = [bundle EXCEPT ![KeyOf[c]] = Row("delivery_failed")]
    BY <1>5, <2>2 DEF GiveUp, Released, TypeOK
  <2>4. QED
    BY <1>3, <1>5, <2>1, <2>2, <2>3 DEF GiveUp, Looked, GivesUp
<1>6. CASE Claim(c)
  BY <1>6 DEF Claim, Looked, Claims, LookInv
<1>7. ASSUME look.by # Nobody, Free(c)
      PROVE  KeyOf[look.by] \in InProgress(KeyOf[c])
  BY <1>3, <1>7 DEF Free, Waiting, Claimed, InProgress
<1>8. CASE ClaimAfterProof(c)
  <2>1. look.by # Nobody /\ Free(c)
    BY <1>8 DEF ClaimAfterProof, LookInv
  <2>2. ClaimsAfter(c, KeyOf[look.by], "delivered")
    BY <1>7, <1>8, <2>1 DEF ClaimAfterProof, Looked, ClaimsAfter
  <2>3. QED
    BY <1>3, <2>1, <2>2 DEF Over
<1>9. CASE ClaimAfter(c)
  <2>1. look.by # Nobody /\ Free(c) /\ look.lease = "past"
    BY <1>9 DEF ClaimAfter, LookInv
  <2> DEFINE g == KeyOf[look.by]
  <2>2. g \in InProgress(KeyOf[c]) /\ g \in FollowUp \ {KeyOf[c]} /\ Found(look.by) = {g}
    BY <1>3, <1>7, <2>1 DEF Found, InProgress
  <2>3. Created(KeyOf[c]) \in Rows
    BY <2>1, CreatedRow DEF Rows
  <2>4. bundle' = [Created(KeyOf[c]) EXCEPT ![KeyOf[c]] = Claimed(c), ![g] = Row("delivery_failed")]
    <3>1. bundle' = [Released(Created(KeyOf[c]), look.by) EXCEPT ![KeyOf[c]] = Claimed(c)]
      BY <1>9 DEF ClaimAfter
    <3>2. Released(Created(KeyOf[c]), look.by) =
            [Created(KeyOf[c]) EXCEPT ![g] = Row("delivery_failed")]
      BY <2>2, <2>3 DEF Released, Rows
    <3> HIDE DEF g
    <3>3. QED
      BY <1>4, <2>2, <2>3, <3>1, <3>2 DEF Rows
  <2>5. lease' = (lease \ {g}) \cup {KeyOf[c]}
    BY <1>9, <2>2 DEF ClaimAfter
  <2>6. stage[c] = "unproven" /\ Goes(c, "claimed") /\ UNCHANGED <<engine, outcome, lapsed>>
    BY <1>9 DEF ClaimAfter, Looked, engine
  <2>7. ClaimsAfter(c, g, "delivery_failed")
    BY <1>3, <2>1, <2>2, <2>4, <2>5, <2>6 DEF ClaimsAfter
  <2>8. QED
    BY <2>2, <2>7 DEF Over
<1>10. QED
  BY <1>1, <1>2, <1>5, <1>6, <1>8, <1>9

-----------------------------------------------------------------------------
(* A call that looks finds nobody else under the lock, and what it found stays
   until it lets the lock go. *)
LEMMA LookStep ==
  ASSUME FollowUpsAssumption, TypeOK, LookInv, ClaimInv, [Next]_vars PROVE LookInv'
<1> USE FollowUpsAssumption
<1>1. ASSUME NEW c \in Call, stage[c] \in Locked, look' = NoLook,
             NEW s \in {"over", "claimed"}, Goes(c, s)
      PROVE  LookInv'
  <2>1. \A d \in Call : stage'[d] \notin Locked
    BY <1>1 DEF LookInv, Goes, Locked, TypeOK
  <2>2. QED
    BY <1>1, <2>1 DEF LookInv, NoLook, Locked
<1>2. ASSUME \A d \in Call : stage[d] \notin Locked /\ stage'[d] \notin Locked, UNCHANGED look
      PROVE  LookInv'
  BY <1>2 DEF LookInv, Locked
<1>3. ASSUME UNCHANGED bundle,
             \A d \in Call : stage[d] \in Locked \/ stage'[d] \in Locked => stage'[d] = stage[d],
             lapsed \subseteq lapsed', look'.by = look.by,
             look'.lease = "past" => look.lease = "past" \/ look.by \in lapsed'
      PROVE  LookInv'
  <2>1. \A d \in Call : Free(d)' <=> Free(d)
    BY <1>3 DEF Free
  <2>2. \A f \in FollowUp : InProgress(f)' = InProgress(f)
    BY <1>3 DEF InProgress
  <2>3. \A d \in Call : OfOwn(d)' <=> OfOwn(d)
    BY <1>3 DEF OfOwn
  <2>4. QED
    BY <1>3, <2>1, <2>2, <2>3 DEF LookInv, Locked, FollowUpsAssumption
<1>4. ASSUME NEW c \in Call, stage[c] = "locked" PROVE look = NoLook
  BY <1>4 DEF LookInv, Locked, TypeOK, NoLook, FollowUpsAssumption
<1>5. ASSUME NEW c \in Call,
             Answer(c) \/ Wait(c) \/ StandBack(c) \/ GiveUp(c)
             \/ Claim(c) \/ ClaimAfterProof(c) \/ ClaimAfter(c)
      PROVE  LookInv'
  <2>1. stage[c] \in Locked /\ \E s \in {"over", "claimed"} : Goes(c, s)
    BY <1>5 DEF Answer, Wait, StandBack, GiveUp, Claim, ClaimAfterProof, ClaimAfter, Looked,
                Selectable, Locked
  <2>2. look' = NoLook
    BY <1>4, <1>5 DEF Answer, Wait, StandBack, GiveUp, Claim, ClaimAfterProof, ClaimAfter, Looked,
                      Selectable
  <2>3. QED
    BY <1>1, <2>1, <2>2
<1>6. ASSUME NEW c \in Call, Recover(c) \/ FinishDelivered(c) \/ Finish(c) PROVE LookInv'
  BY <1>2, <1>6 DEF Recover, FinishDelivered, Finish, LockFree, Goes, Locked, TypeOK
<1>7. ASSUME NEW c \in Call, Lock(c) PROVE LookInv'
  <2>1. /\ look.by = Nobody /\ look' = look /\ stage'[c] = "locked"
        /\ \A d \in Call \ {c} : stage'[d] = stage[d] /\ stage[d] \notin Locked
    BY <1>7 DEF Lock, LockFree, Goes, LookInv, Locked, TypeOK
  <2>2. QED
    BY <2>1 DEF LookInv, Locked
<1>8. ASSUME NEW c \in Call, LookOwn(c) \/ LookAround(c) \/ FindUnproven(c) PROVE LookInv'
  <2>1. /\ stage[c] \in Locked /\ UNCHANGED <<bundle, lease, lapsed>>
        /\ \A d \in Call \ {c} : stage'[d] = stage[d] /\ stage'[d] \notin Locked
    BY <1>8 DEF LookOwn, LookAround, FindUnproven, Selectable, Goes, LookInv, Locked, TypeOK
  <2>2. Free(c)' <=> Free(c)
    BY <2>1 DEF Free
  <2>3. ASSUME NEW g \in FollowUp, bundle[g].status = "delivering", look' = Reading(g)
        PROVE  /\ look'.by \in Call /\ look'.by # Nobody /\ KeyOf[look'.by] = g
               /\ bundle[g] = Claimed(look'.by)
               /\ look'.lease = "past" => look'.by \in lapsed
    <3>1. look'.by = bundle[g].by /\ (look'.lease = "past" => g \notin lease)
      BY <2>3 DEF Reading
    <3>2. bundle[g].by \in Call /\ bundle[g].by # Nobody /\ bundle[g] = Claimed(bundle[g].by)
      BY <2>3 DEF TypeOK, Claimed
    <3>3. KeyOf[bundle[g].by] = g /\ (g \in lease \/ bundle[g].by \in lapsed)
      BY <2>3 DEF ClaimInv
    <3>4. QED
      BY <3>1, <3>2, <3>3
  <2>4. CASE LookOwn(c)
    <3>1. /\ KeyOf[c] \in FollowUp /\ bundle[KeyOf[c]].status = "delivering"
          /\ look' = Reading(KeyOf[c]) /\ stage'[c] = "unproven"
      BY <2>4 DEF LookOwn, Goes, TypeOK, FollowUpsAssumption
    <3>2. OfOwn(c)'
      BY <2>3, <3>1 DEF OfOwn
    <3>3. QED
      BY <2>1, <2>3, <3>1, <3>2 DEF LookInv, Locked
  <2>5. CASE LookAround(c)
    <3>1. Free(c) /\ stage'[c] = "looking"
      BY <2>5 DEF LookAround, Selectable, Free, Goes, TypeOK
    <3>2. CASE InProgress(KeyOf[c]) = {} /\ look' = NoLook
      <4>1. InProgress(KeyOf[c])' = {}
        BY <2>1, <3>2 DEF InProgress
      <4>2. QED
        BY <2>1, <2>2, <3>1, <3>2, <4>1 DEF LookInv, Locked, NoLook
    <3>3. CASE \E g \in InProgress(KeyOf[c]) : look' = Reading(g)
      <4>1. PICK g \in FollowUp : bundle[g].status = "delivering" /\ look' = Reading(g)
        BY <3>3 DEF InProgress
      <4>2. QED
        BY <2>1, <2>2, <2>3, <3>1, <4>1 DEF LookInv, Locked
    <3>4. QED
      BY <2>5, <3>2, <3>3 DEF LookAround
  <2>6. CASE FindUnproven(c)
    <3>1. stage[c] = "looking" /\ look.by # Nobody /\ look' = look /\ stage'[c] = "unproven"
      BY <2>6 DEF FindUnproven, Goes, TypeOK
    <3>2. Free(c)'
      BY <2>2, <3>1 DEF LookInv
    <3>3. QED
      BY <2>1, <3>1, <3>2 DEF LookInv, Locked
  <2>7. QED
    BY <1>8, <2>4, <2>5, <2>6
<1>9. ASSUME NEW c \in Call,
             \/ Renew(c) \/ Enter(c) \/ Fail(c) \/ FindActive(c) \/ Submit(c)
             \/ Open(c) \/ Record(c) \/ RecordTaken(c)
             \/ (\E retained \in BOOLEAN : OpeningTurn(c, retained)) \/ BreakOff(c)
      PROVE  LookInv'
  <2>1. /\ UNCHANGED <<bundle, lapsed>>
        /\ \/ UNCHANGED stage
           \/ stage[c] \notin Locked /\ \E s \in InGate \cup {"answered", "over"} : Goes(c, s)
    BY <1>9 DEF Renew, Enter, Fail, FindActive, Submit, Open, Record, RecordTaken, OpeningTurn,
                BreakOff, Ends, Locked, InGate
  <2>2. \A d \in Call : stage[d] \in Locked \/ stage'[d] \in Locked => stage'[d] = stage[d]
    BY <2>1 DEF Goes, Locked, InGate, TypeOK
  <2>3. look'.by = look.by /\ (look'.lease = "past" => look.lease = "past")
    <3>1. CASE Renew(c)
      BY <3>1 DEF Renew
    <3>2. CASE ~ Renew(c)
      BY <1>9, <3>2 DEF Enter, Fail, FindActive, Submit, Open, Record, RecordTaken, OpeningTurn,
                        BreakOff
    <3>3. QED
      BY <3>1, <3>2
  <2>4. QED
    BY <1>3, <2>1, <2>2, <2>3
<1>10. ASSUME NEW f \in FollowUp, Lapse(f) PROVE LookInv'
  <2>1. look'.by = look.by /\ (look'.lease = "past" => look.lease = "past" \/ look.by \in lapsed')
    BY <1>10 DEF Lapse, TypeOK, NoLook
  <2>2. QED
    BY <1>3, <1>10, <2>1 DEF Lapse
<1>11. CASE LapseAsRead
  <2>1. look'.by = look.by /\ look.by \in lapsed'
    BY <1>11 DEF LapseAsRead, TypeOK, NoLook
  <2>2. QED
    BY <1>3, <1>11, <2>1 DEF LapseAsRead
<1>12. CASE (\E k \in Kinds : StartOther(k)) \/ EndAgent \/ UNCHANGED vars
  BY <1>3, <1>12 DEF StartOther, EndAgent, vars
<1>13. CASE Crash
  BY <1>13 DEF Crash, LookInv, Locked, NoLook
<1>14. QED
  BY <1>5, <1>6, <1>7, <1>8, <1>9, <1>10, <1>11, <1>12, <1>13 DEF Next

(* Rows are claimed with a lease, and let go with their claim. *)
LEMMA ClaimStep ==
  ASSUME FollowUpsAssumption, TypeOK, LookInv, ClaimInv, [Next]_vars PROVE ClaimInv'
<1> USE FollowUpsAssumption
<1>1. ASSUME UNCHANGED <<bundle, lease>>, lapsed \subseteq lapsed' PROVE ClaimInv'
  BY <1>1 DEF ClaimInv
<1>2. ASSUME NEW f \in FollowUp, NEW s \in {"delivered", "pending", "delivery_failed"},
             bundle' = [bundle EXCEPT ![f] = Row(s)], lease' = lease \ {f}, UNCHANGED lapsed
      PROVE  ClaimInv'
  <2>1. bundle'[f] = Row(s) /\ \A g \in FollowUp \ {f} : bundle'[g] = bundle[g]
    BY <1>2 DEF TypeOK
  <2>2. lease \subseteq FollowUp
    BY DEF TypeOK
  <2>3. QED
    BY <1>2, <2>1, <2>2 DEF ClaimInv, Row
<1>3. ASSUME NEW c \in Call, Free(c), lease' \subseteq lease \cup {KeyOf[c]}, UNCHANGED lapsed,
             KeyOf[c] \in lease' => bundle'[KeyOf[c]] = Claimed(c),
             bundle'[KeyOf[c]].status = "delivering" =>
               bundle'[KeyOf[c]].by = c /\ KeyOf[c] \in lease',
             \A f \in FollowUp \ {KeyOf[c]} :
               \/ bundle'[f] = Created(KeyOf[c])[f] /\ (f \in lease => f \in lease')
               \/ bundle'[f].status # "delivering" /\ f \notin lease'
      PROVE  ClaimInv'
  <2>1. lease \subseteq FollowUp /\ KeyOf[c] \in FollowUp
    BY DEF TypeOK, FollowUpsAssumption
  <2>2. ASSUME NEW f \in FollowUp, bundle'[f].status = "delivering"
        PROVE  KeyOf[bundle'[f].by] = f /\ (f \in lease' \/ bundle'[f].by \in lapsed')
    <3>1. CASE f = KeyOf[c]
      BY <1>3, <2>2, <3>1
    <3>2. CASE f # KeyOf[c]
      <4>1. bundle'[f] = bundle[f] /\ (f \in lease => f \in lease')
        BY <1>3, <2>2, <3>2, CreatedRow DEF Row
      <4>2. QED
        BY <1>3, <2>2, <4>1 DEF ClaimInv
    <3>3. QED
      BY <3>1, <3>2
  <2>3. ASSUME NEW f \in lease' PROVE bundle'[f].status = "delivering"
    <3>1. CASE f = KeyOf[c]
      BY <1>3, <2>3, <3>1 DEF Claimed
    <3>2. CASE f # KeyOf[c]
      <4>1. f \in lease /\ f \in FollowUp /\ bundle[f].status = "delivering"
        BY <1>3, <2>1, <2>3, <3>2 DEF ClaimInv
      <4>2. bundle'[f] = Created(KeyOf[c])[f] /\ Created(KeyOf[c])[f] = bundle[f]
        BY <1>3, <2>3, <3>2, <4>1, CreatedRow DEF Waiting
      <4>3. QED
        BY <4>1, <4>2
    <3>3. QED
      BY <3>1, <3>2
  <2>4. QED
    BY <2>2, <2>3 DEF ClaimInv
<1>4. ASSUME NEW c \in Call,
             \/ Lock(c) \/ Answer(c) \/ Wait(c) \/ LookOwn(c) \/ LookAround(c) \/ FindUnproven(c)
             \/ StandBack(c) \/ GiveUp(c) \/ Claim(c) \/ ClaimAfterProof(c) \/ ClaimAfter(c)
      PROVE  ClaimInv'
  <2>1. KeyOf[c] \in FollowUp
    BY DEF FollowUpsAssumption
  <2>2. CASE Reads(c)
    BY <1>1, <2>2 DEF Reads
  <2>3. CASE Queues(c)
    <3>1. KeyOf[c] \notin lease
      BY <2>3 DEF Queues, Free, Waiting, ClaimInv
    <3>2. /\ bundle'[KeyOf[c]].status = "pending"
          /\ \A f \in FollowUp \ {KeyOf[c]} : bundle'[f] = Created(KeyOf[c])[f]
      BY <2>3, CreatedRow DEF Queues, Row
    <3>3. QED
      BY <1>3, <2>3, <3>1, <3>2 DEF Queues
  <2>4. CASE GivesUp(c)
    BY <1>2, <2>1, <2>4 DEF GivesUp
  <2>5. CASE Claims(c)
    <3>1. /\ bundle'[KeyOf[c]] = Claimed(c)
          /\ \A f \in FollowUp \ {KeyOf[c]} : bundle'[f] = Created(KeyOf[c])[f]
      BY <2>5, CreatedRow DEF Claims
    <3>2. QED
      BY <1>3, <2>5, <3>1 DEF Claims, Claimed
  <2>6. ASSUME NEW g \in FollowUp, NEW s \in Over, ClaimsAfter(c, g, s) PROVE ClaimInv'
    <3>1. /\ bundle'[KeyOf[c]] = Claimed(c) /\ bundle'[g] = Row(s)
          /\ \A f \in FollowUp \ {KeyOf[c], g} : bundle'[f] = Created(KeyOf[c])[f]
      BY <2>6, CreatedRow DEF ClaimsAfter, InProgress
    <3>2. Free(c) /\ UNCHANGED lapsed /\ lease' = (lease \ {g}) \cup {KeyOf[c]} /\ g # KeyOf[c]
      BY <2>6 DEF ClaimsAfter, InProgress
    <3>3. bundle'[g].status # "delivering" /\ g \notin lease'
      BY <3>1, <3>2 DEF Row, Over
    <3>4. QED
      BY <1>3, <3>1, <3>2, <3>3 DEF Claimed
  <2>7. QED
    BY <1>4, <2>2, <2>3, <2>4, <2>5, <2>6, UnderLock
<1>5. ASSUME NEW c \in Call, Recover(c) \/ FinishDelivered(c) \/ Finish(c) PROVE ClaimInv'
  <2>1. KeyOf[c] \in FollowUp
    BY DEF FollowUpsAssumption
  <2>2. \/ UNCHANGED <<bundle, lease, lapsed>>
        \/ /\ \E s \in {"delivered", "pending", "delivery_failed"} :
                 bundle' = [bundle EXCEPT ![KeyOf[c]] = Row(s)]
           /\ lease' = lease \ {KeyOf[c]} /\ UNCHANGED lapsed
    BY <1>5 DEF Recover, FinishDelivered, Finish
  <2>3. QED
    BY <1>1, <1>2, <2>1, <2>2
<1>6. ASSUME NEW c \in Call, Renew(c) PROVE ClaimInv'
  <2>1. /\ UNCHANGED <<bundle, lapsed>> /\ lease' = lease \cup {KeyOf[c]}
        /\ bundle[KeyOf[c]].status = "delivering"
    BY <1>6 DEF Renew, Owns, Claimed
  <2>2. QED
    BY <2>1 DEF ClaimInv
<1>7. ASSUME NEW f \in FollowUp, Lapse(f) PROVE ClaimInv'
  <2>1. /\ UNCHANGED bundle /\ lease' = lease \ {f} /\ lapsed' = lapsed \cup {bundle[f].by}
    BY <1>7 DEF Lapse
  <2>2. QED
    BY <2>1 DEF ClaimInv
<1>8. QED
  BY <1>1, <1>4, <1>5, <1>6, <1>7
     DEF Next, Enter, Fail, FindActive, Submit, Open, Record, RecordTaken, OpeningTurn, BreakOff,
         LapseAsRead, StartOther, EndAgent, Crash, vars

LEMMA DeliveringStep ==
  ASSUME FollowUpsAssumption, TypeOK, LookInv, ClaimInv, OneDelivering, [Next]_vars PROVE OneDelivering'
<1> USE FollowUpsAssumption
<1> DEFINE Delivering(f) == bundle[f].status = "delivering"
<1>1. ASSUME \A f \in FollowUp : Delivering(f)' => Delivering(f) PROVE OneDelivering'
  BY <1>1 DEF OneDelivering
<1>2. ASSUME NEW c \in Call, NEW s \in Statuses \ {"delivering"},
             bundle' = [bundle EXCEPT ![KeyOf[c]] = Row(s)] \/ bundle' = bundle
      PROVE  OneDelivering'
  BY <1>1, <1>2 DEF TypeOK, FollowUpsAssumption, Row
<1>3. ASSUME NEW c \in Call,
             Recover(c) \/ GivesUp(c) \/ FinishDelivered(c) \/ Finish(c)
      PROVE  OneDelivering'
  <2>1. \E s \in {"delivered", "pending", "delivery_failed"} :
          bundle' = [bundle EXCEPT ![KeyOf[c]] = Row(s)] \/ bundle' = bundle
    BY <1>3 DEF Recover, GivesUp, FinishDelivered, Finish
  <2>2. QED
    BY <1>2, <2>1 DEF Statuses, Waiting
<1>4. ASSUME NEW c \in Call, Queues(c) PROVE OneDelivering'
  <2>1. Free(c) /\ bundle' = [Created(KeyOf[c]) EXCEPT ![KeyOf[c]] = Row("pending")]
    BY <1>4 DEF Queues
  <2>2. \A f \in FollowUp : Delivering(f)' => Delivering(f)
    <3>1. ASSUME NEW f \in FollowUp, f # KeyOf[c] PROVE Delivering(f)' => Delivering(f)
      BY <2>1, <3>1, CreatedRow DEF Row
    <3>2. ~ Delivering(KeyOf[c])'
      BY <2>1, CreatedRow DEF Row
    <3>3. QED
      BY <3>1, <3>2
  <2>3. QED
    BY <1>1, <2>2
<1>5. ASSUME NEW c \in Call, Claims(c) PROVE OneDelivering'
  <2>1. /\ Free(c) /\ bundle' = [Created(KeyOf[c]) EXCEPT ![KeyOf[c]] = Claimed(c)]
        /\ \A f \in FollowUp \ {KeyOf[c]} : ~ Delivering(f)
    BY <1>5 DEF Claims, InProgress
  <2>2. \A f \in FollowUp \ {KeyOf[c]} : ~ Delivering(f)'
    BY <2>1, CreatedRow DEF Row, Waiting, Statuses
  <2>3. QED
    BY <2>2 DEF OneDelivering
<1>6. ASSUME NEW c \in Call, NEW g \in FollowUp, NEW s \in Over, ClaimsAfter(c, g, s)
      PROVE  OneDelivering'
  <2>1. /\ Free(c) /\ g \in FollowUp \ {KeyOf[c]} /\ Delivering(g) /\ s # "delivering"
        /\ bundle' = [Created(KeyOf[c]) EXCEPT ![KeyOf[c]] = Claimed(c), ![g] = Row(s)]
    BY <1>6 DEF ClaimsAfter, InProgress, Over
  <2>2. \A f \in FollowUp \ {KeyOf[c], g} : ~ Delivering(f)
    BY <2>1 DEF OneDelivering
  <2>3. \A f \in FollowUp \ {KeyOf[c], g} : ~ Delivering(f)'
    BY <2>1, <2>2, CreatedRow DEF Row, Waiting, Statuses
  <2>4. ~ Delivering(g)'
    BY <2>1, CreatedRow DEF Row
  <2>5. QED
    BY <2>3, <2>4 DEF OneDelivering
<1>7. ASSUME bundle' = bundle PROVE OneDelivering'
  BY <1>7 DEF OneDelivering
<1>8. ASSUME NEW c \in Call,
             \/ Lock(c) \/ Answer(c) \/ Wait(c) \/ LookOwn(c) \/ LookAround(c) \/ FindUnproven(c)
             \/ StandBack(c) \/ GiveUp(c) \/ Claim(c) \/ ClaimAfterProof(c) \/ ClaimAfter(c)
      PROVE  OneDelivering'
  BY <1>8, <1>3, <1>4, <1>5, <1>6, <1>7, UnderLock DEF Reads
<1>9. QED
  BY <1>3, <1>7, <1>8
     DEF Next, Renew, Enter, Fail, FindActive, Submit, Open, Record, RecordTaken,
         OpeningTurn, BreakOff, Lapse, LapseAsRead, StartOther, EndAgent, Crash, vars

LEMMA EvidenceStep ==
  ASSUME FollowUpsAssumption, TypeOK, LookInv, ClaimInv, EvidenceInv, [Next]_vars PROVE EvidenceInv'
<1> USE FollowUpsAssumption
<1> DEFINE Delivered(f) == bundle[f].status = "delivered"
(* What is reached stays so, so a step only has to account for what it adds. *)
<1>1. ASSUME turn' = turn, proc' = proc, given' = given, broken' = broken,
             \A c \in Call : stage'[c] = "rowed" <=> stage[c] = "rowed",
             agent' = agent \/ agent' \notin FollowUp,
             \A f \in FollowUp : Delivered(f)' => Delivered(f) \/ Reached(f)
      PROVE  EvidenceInv'
  BY <1>1 DEF EvidenceInv, Reached, Correlated
<1>2. ASSUME NEW c \in Call, Recover(c) \/ FinishDelivered(c) PROVE EvidenceInv'
  <2>1. Reached(KeyOf[c])
    BY <1>2 DEF Recover, FinishDelivered, Proven, EvidenceInv, Reached, FollowUpsAssumption
  <2>2. QED
    BY <1>1, <1>2, <2>1 DEF Recover, FinishDelivered, Goes, TypeOK, engine, FollowUpsAssumption
<1>3. ASSUME NEW c \in Call, Queues(c) PROVE EvidenceInv'
  <2>1. Free(c) /\ bundle' = [Created(KeyOf[c]) EXCEPT ![KeyOf[c]] = Row("pending")]
    BY <1>3 DEF Queues
  <2>2. \A f \in FollowUp : Delivered(f)' => Delivered(f)
    <3>1. ASSUME NEW f \in FollowUp, f # KeyOf[c] PROVE Delivered(f)' => Delivered(f)
      BY <2>1, <3>1, CreatedRow DEF Row
    <3>2. ~ Delivered(KeyOf[c])'
      BY <2>1, CreatedRow DEF Row
    <3>3. QED
      BY <3>1, <3>2
  <2>3. QED
    BY <1>1, <1>3, <2>2 DEF Queues, Locked, Goes, TypeOK, engine
<1>4. ASSUME NEW c \in Call, Claims(c) PROVE EvidenceInv'
  <2>1. Free(c) /\ bundle' = [Created(KeyOf[c]) EXCEPT ![KeyOf[c]] = Claimed(c)]
    BY <1>4 DEF Claims
  <2>2. \A f \in FollowUp : Delivered(f)' => Delivered(f)
    <3>1. ASSUME NEW f \in FollowUp, f # KeyOf[c] PROVE Delivered(f)' => Delivered(f)
      BY <2>1, <3>1, CreatedRow DEF Row
    <3>2. ~ Delivered(KeyOf[c])'
      BY <2>1, CreatedRow DEF Row, Claimed
    <3>3. QED
      BY <3>1, <3>2
  <2>3. QED
    BY <1>1, <1>4, <2>2 DEF Claims, Locked, Goes, TypeOK, engine
<1>5. ASSUME NEW c \in Call, NEW g \in FollowUp, NEW s \in Over, ClaimsAfter(c, g, s)
      PROVE  EvidenceInv'
  <2>1. /\ Free(c) /\ g \in FollowUp \ {KeyOf[c]} /\ (s = "delivered" => Correlated(g))
        /\ bundle' = [Created(KeyOf[c]) EXCEPT ![KeyOf[c]] = Claimed(c), ![g] = Row(s)]
    BY <1>5 DEF ClaimsAfter, InProgress
  <2>2. \A f \in FollowUp \ {g} : Delivered(f)' => Delivered(f)
    BY <2>1, CreatedRow DEF Row, Claimed
  <2>3. Delivered(g)' => Correlated(g)
    BY <2>1, CreatedRow DEF Row
  <2>4. QED
    BY <1>1, <1>5, <2>2, <2>3 DEF ClaimsAfter, Locked, Goes, TypeOK, engine, EvidenceInv
<1>6. ASSUME NEW c \in Call,
             \/ GivesUp(c) \/ Reads(c)
             \/ Renew(c) \/ Enter(c) \/ Fail(c) \/ FindActive(c) \/ Open(c)
      PROVE  EvidenceInv'
  BY <1>1, <1>6 DEF GivesUp, Reads, Renew, Enter, Fail, FindActive, Open, Ends, Goes, Row,
                    Locked, TypeOK, engine, FollowUpsAssumption
<1>7. ASSUME NEW c \in Call, Finish(c) PROVE EvidenceInv'
  <2>1. bundle' = bundle \/ \E w \in Waiting : bundle' = [bundle EXCEPT ![KeyOf[c]] = Row(w)]
    BY <1>7 DEF Finish, Waiting
  <2>2. \A f \in FollowUp : Delivered(f)' => Delivered(f)
    BY <2>1 DEF Row, Waiting, TypeOK, FollowUpsAssumption
  <2>3. QED
    BY <1>1, <1>7, <2>2 DEF Finish, Goes, TypeOK, engine
<1>8. ASSUME NEW c \in Call, Submit(c) PROVE EvidenceInv'
  <2>1. KeyOf[c] \in FollowUp /\ turn' = turn \cup {KeyOf[c]}
    BY <1>8 DEF Submit, Accept, FollowUpsAssumption
  <2>2. \A f \in FollowUp : given[f] # 0 => given'[f] # 0
    BY <1>8, <2>1 DEF Submit, Accept, TypeOK
  <2>3. given'[KeyOf[c]] # 0
    BY <1>8, <2>1 DEF Submit, Accept, TypeOK, EvidenceInv
  <2>4. UNCHANGED <<bundle, proc, agent, broken>> /\ \A d \in Call : stage'[d] = "rowed" <=> stage[d] = "rowed"
    BY <1>8 DEF Submit, Ends, Goes, TypeOK
  <2>5. QED
    BY <2>1, <2>2, <2>3, <2>4 DEF EvidenceInv, Reached, Correlated, TypeOK
<1>9. ASSUME NEW c \in Call, Record(c) \/ RecordTaken(c) PROVE EvidenceInv'
  <2>1. /\ KeyOf[c] \in FollowUp /\ UNCHANGED <<bundle, turn, broken>>
        /\ agent' = agent \/ agent' = KeyOf[c]
    BY <1>9 DEF Record, RecordTaken, FollowUpsAssumption
  <2>2. \A f \in FollowUp : given[f] # 0 => given'[f] # 0
    BY <1>9, <2>1 DEF Record, RecordTaken, Left, TypeOK
  <2>3. \A d \in Call \ {c} : stage'[d] = "rowed" <=> stage[d] = "rowed"
    BY <1>9 DEF Record, RecordTaken, Ends, Goes, TypeOK
  <2>4. stage[c] # "rowed"
    BY <1>9 DEF Record, RecordTaken
  <2>5. CASE Record(c)
    <3>1. \A f \in FollowUp \ {KeyOf[c]} : proc'[f] = proc[f]
      BY <2>5, <2>1 DEF Record, TypeOK
    <3>2. proc'[KeyOf[c]] = "live"
      BY <2>5, <2>1 DEF Record, TypeOK
    <3>3. given'[KeyOf[c]] # 0 \/ stage'[c] = "rowed"
      BY <2>5, <2>1 DEF Record, Left, Goes, TypeOK
    <3>4. \A f \in FollowUp : Reached(f) => Reached(f)'
      BY <2>1, <2>2, <2>3, <2>4 DEF Reached
    <3>5. \A d \in Call : stage'[d] = "rowed" => Correlated(KeyOf[d])'
      BY <2>3, <3>1, <3>2 DEF EvidenceInv, Correlated, FollowUpsAssumption
    <3>6. \A f \in FollowUp : Correlated(f)' \/ Delivered(f)' => Reached(f)'
      BY <2>1, <3>1, <3>3, <3>4 DEF EvidenceInv, Correlated, Reached
    <3>7. QED
      BY <2>1, <2>2, <3>1, <3>2, <3>5, <3>6 DEF EvidenceInv, Correlated, TypeOK
  <2>6. CASE RecordTaken(c)
    BY <2>1, <2>2, <2>3, <2>4, <2>6 DEF RecordTaken, Goes, EvidenceInv, Reached, Correlated, TypeOK
  <2>7. QED
    BY <1>9, <2>5, <2>6
<1>10. ASSUME NEW c \in Call, NEW retained \in BOOLEAN, OpeningTurn(c, retained) PROVE EvidenceInv'
  <2>1. KeyOf[c] \in FollowUp /\ turn' \subseteq turn \cup {KeyOf[c]}
    BY <1>10 DEF OpeningTurn, Accept, FollowUpsAssumption
  <2>2. \A f \in FollowUp : given[f] # 0 => given'[f] # 0
    BY <1>10, <2>1 DEF OpeningTurn, Accept, TypeOK
  <2>3. given'[KeyOf[c]] # 0
    BY <1>10, <2>1 DEF OpeningTurn, Accept, TypeOK, EvidenceInv
  <2>4. /\ UNCHANGED <<bundle, proc, broken>> /\ stage'[c] # "rowed"
        /\ \A d \in Call \ {c} : stage'[d] = stage[d]
    BY <1>10 DEF OpeningTurn, Ends, Goes, TypeOK
  <2>5. \A f \in FollowUp : Reached(f) => Reached(f)'
    BY <2>1, <2>2, <2>3, <2>4 DEF Reached
  <2>6. agent' = agent
    BY <1>10 DEF OpeningTurn
  <2>7. QED
    BY <2>1, <2>2, <2>3, <2>4, <2>5, <2>6 DEF EvidenceInv, Correlated, TypeOK
<1>11. ASSUME NEW c \in Call, BreakOff(c) PROVE EvidenceInv'
  <2>1. /\ UNCHANGED <<bundle, turn, given>> /\ broken' = broken \cup {KeyOf[c]}
        /\ stage'[c] # "rowed" /\ \A d \in Call \ {c} : stage'[d] = stage[d]
    BY <1>11 DEF BreakOff, Ends, Goes, TypeOK
  <2>2. \A f \in FollowUp : proc'[f] # "none" <=> proc[f] # "none"
    BY <1>11 DEF BreakOff, EndsAgent, EvidenceInv, Correlated, TypeOK, FollowUpsAssumption
  <2>3. agent' = agent \/ agent' \notin FollowUp
    BY <1>11 DEF BreakOff, EndsAgent, FollowUpsAssumption
  <2>4. QED
    BY <2>1, <2>2, <2>3 DEF EvidenceInv, Reached, Correlated, TypeOK
<1>12. CASE (\E f \in FollowUp : Lapse(f)) \/ LapseAsRead \/ (\E k \in Kinds : StartOther(k)) \/ UNCHANGED vars
  BY <1>1, <1>12 DEF Lapse, LapseAsRead, StartOther, vars, engine
<1>13. CASE Crash
  <2>1. \A f \in FollowUp : given[f] # 0 => given'[f] # 0
    BY <1>13 DEF Crash, Left, TypeOK
  <2>2. /\ UNCHANGED <<bundle, turn, proc, agent>> /\ broken \subseteq broken'
        /\ \A d \in Call : stage'[d] # "rowed"
        /\ \A d \in Call : stage[d] = "rowed" => KeyOf[d] \in broken'
    BY <1>13 DEF Crash
  <2>3. QED
    BY <2>1, <2>2 DEF EvidenceInv, Reached, Correlated, TypeOK
<1>14. CASE EndAgent
  <2>1. \A f \in FollowUp : proc'[f] # "none" <=> proc[f] # "none"
    BY <1>14 DEF EndAgent, EndsAgent, EvidenceInv, Correlated, TypeOK
  <2>2. UNCHANGED <<bundle, turn, given, broken, stage>> /\ agent' \notin FollowUp
    BY <1>14 DEF EndAgent, EndsAgent, FollowUpsAssumption
  <2>3. QED
    BY <2>1, <2>2 DEF EvidenceInv, Reached, Correlated
<1>15. ASSUME NEW c \in Call,
             \/ Lock(c) \/ Answer(c) \/ Wait(c) \/ LookOwn(c) \/ LookAround(c) \/ FindUnproven(c)
             \/ StandBack(c) \/ GiveUp(c) \/ Claim(c) \/ ClaimAfterProof(c) \/ ClaimAfter(c)
      PROVE  EvidenceInv'
  BY <1>15, <1>3, <1>4, <1>5, <1>6, UnderLock
<1>16. QED
  BY <1>2, <1>6, <1>7, <1>8, <1>9, <1>10, <1>11, <1>12, <1>13, <1>14, <1>15 DEF Next

(* A call that claims meets nobody who launches for its follow-up, and a claim
   is taken from a call only when its lease expired. *)
LEMMA OwnerStep ==
  ASSUME FollowUpsAssumption, TypeOK, LookInv, ClaimInv, OwnerInv, [Next]_vars PROVE OwnerInv'
<1> USE FollowUpsAssumption
<1> DEFINE Delivered(f) == bundle[f].status = "delivered"
<1>1. ASSUME UNCHANGED bundle, Lapsed \subseteq Lapsed',
             \A d \in Call : Working(d)' => Working(d)
      PROVE  OwnerInv'
  BY <1>1 DEF OwnerInv, Owns, Claimed, FollowUpsAssumption
<1>2. ASSUME NEW c \in Call, NEW s \in {"delivered", "pending", "delivery_failed"},
             bundle' = [bundle EXCEPT ![KeyOf[c]] = Row(s)],
             UNCHANGED Lapsed,
             \A d \in Call : Working(d)' => Working(d),
             s = "delivered" \/ KeyOf[c] \in Lapsed \/ (Working(c) /\ ~ Working(c)')
      PROVE  OwnerInv'
  <2>1. /\ KeyOf[c] \in FollowUp /\ bundle'[KeyOf[c]].status = s
        /\ \A f \in FollowUp \ {KeyOf[c]} : bundle'[f] = bundle[f]
    BY <1>2 DEF FollowUpsAssumption, TypeOK, Row
  <2>3. ASSUME NEW d \in Call, Working(d)', KeyOf[d] \notin Lapsed'
        PROVE  Owns(d)' \/ Delivered(KeyOf[d])'
    <3>1. CASE KeyOf[d] # KeyOf[c]
      BY <1>2, <2>1, <2>3, <3>1 DEF OwnerInv, Owns, Claimed, FollowUpsAssumption
    <3>2. CASE KeyOf[d] = KeyOf[c]
      BY <1>2, <2>1, <2>3, <3>2 DEF OwnerInv
    <3>3. QED
      BY <3>1, <3>2
  <2>4. QED
    BY <1>2, <2>3 DEF OwnerInv
<1>3. ASSUME NEW c \in Call, Free(c)
      PROVE  \A d \in Call : KeyOf[d] = KeyOf[c] /\ KeyOf[c] \notin Lapsed => ~ Working(d)
  <2>1. bundle[KeyOf[c]].status \notin {"delivering", "delivered"}
    BY <1>3 DEF Free, Waiting
  <2>2. ASSUME NEW d \in Call, KeyOf[d] = KeyOf[c], KeyOf[c] \notin Lapsed, Working(d) PROVE FALSE
    <3>1. Owns(d) \/ bundle[KeyOf[d]].status = "delivered"
      BY <2>2 DEF OwnerInv
    <3>2. QED
      BY <2>1, <2>2, <3>1 DEF Owns, Claimed
  <2>3. QED
    BY <2>2
<1>4. ASSUME NEW c \in Call, NEW f \in FollowUp \ {KeyOf[c]}, Free(c),
             bundle[f].status \in {"delivering", "delivered"}
      PROVE  Created(KeyOf[c])[f] = bundle[f]
  BY <1>4, CreatedRow DEF Waiting
<1>5. ASSUME NEW c \in Call, Recover(c) \/ FinishDelivered(c) PROVE OwnerInv'
  <2>1. \A d \in Call : Working(d)' => Working(d)
    BY <1>5 DEF Recover, FinishDelivered, Goes, Working, Launching, InGate, TypeOK
  <2>2. QED
    BY <1>2, <1>5, <2>1 DEF Recover, FinishDelivered, Lapsed
<1>6. ASSUME NEW c \in Call, GivesUp(c) PROVE OwnerInv'
  <2>1. \A d \in Call : Working(d)' => Working(d)
    BY <1>6 DEF GivesUp, Goes, Working, Launching, InGate, TypeOK
  <2>2. QED
    BY <1>2, <1>6, <2>1 DEF GivesUp, Lapsed
<1>7. ASSUME NEW c \in Call, Finish(c) PROVE OwnerInv'
  <2>1. \A d \in Call : Working(d)' => Working(d)
    BY <1>7 DEF Finish, Goes, Working, Launching, InGate, TypeOK
  <2>2. Working(c) /\ ~ Working(c)'
    BY <1>7 DEF Finish, Goes, Working, Launching, InGate, TypeOK
  <2>3. CASE Owns(c)
    <3>1. PICK s \in {"pending", "delivery_failed"} : bundle' = [bundle EXCEPT ![KeyOf[c]] = Row(s)]
      BY <1>7, <2>3 DEF Finish
    <3>2. UNCHANGED Lapsed
      BY <1>7 DEF Finish, Lapsed
    <3>3. QED
      BY <1>2, <2>1, <2>2, <3>1, <3>2
  <2>4. CASE ~ Owns(c)
    BY <1>1, <1>7, <2>1, <2>4 DEF Finish, Lapsed
  <2>5. QED
    BY <2>3, <2>4
<1>8. ASSUME NEW c \in Call, Queues(c) PROVE OwnerInv'
  <2>1. /\ Free(c) /\ bundle' = [Created(KeyOf[c]) EXCEPT ![KeyOf[c]] = Row("pending")]
        /\ UNCHANGED Lapsed
    BY <1>8 DEF Queues, Lapsed
  <2>2. \A d \in Call : Working(d)' => Working(d)
    BY <1>8 DEF Queues, Goes, Working, Launching, InGate, TypeOK
  <2>3. bundle'[KeyOf[c]] = Row("pending") /\ \A f \in FollowUp \ {KeyOf[c]} : bundle'[f] = Created(KeyOf[c])[f]
    BY <2>1, CreatedRow
  <2>5. ASSUME NEW d \in Call, Working(d)', KeyOf[d] \notin Lapsed'
        PROVE  Owns(d)' \/ Delivered(KeyOf[d])'
    <3>1. Owns(d) \/ Delivered(KeyOf[d])
      BY <2>1, <2>2, <2>5 DEF OwnerInv
    <3>2. KeyOf[d] \in FollowUp \ {KeyOf[c]}
      BY <1>3, <2>1, <2>2, <2>5 DEF FollowUpsAssumption
    <3>3. bundle'[KeyOf[d]] = bundle[KeyOf[d]]
      BY <1>4, <2>1, <2>3, <3>1, <3>2 DEF Owns, Claimed
    <3>4. QED
      BY <3>1, <3>3 DEF Owns, Claimed
  <2>6. QED
    BY <2>1, <2>2, <2>5 DEF OwnerInv
<1>9. ASSUME NEW c \in Call, Free(c), UNCHANGED Lapsed,
             bundle'[KeyOf[c]] = Claimed(c), Goes(c, "claimed"),
             \A f \in FollowUp \ {KeyOf[c]} :
               \/ bundle'[f] = Created(KeyOf[c])[f]
               \/ Delivered(f)'
               \/ f \in Lapsed
      PROVE  OwnerInv'
  <2>1. \A d \in Call : Working(d)' => d = c \/ Working(d)
    BY <1>9 DEF Goes, Working, Launching, InGate, TypeOK
  <2>3. ASSUME NEW d \in Call, Working(d)', KeyOf[d] \notin Lapsed', d # c
        PROVE  KeyOf[d] # KeyOf[c] /\ (Owns(d)' \/ Delivered(KeyOf[d])')
    <3>1. Working(d) /\ (Owns(d) \/ Delivered(KeyOf[d]))
      BY <1>9, <2>1, <2>3 DEF OwnerInv
    <3>2. KeyOf[d] \in FollowUp \ {KeyOf[c]}
      BY <1>3, <1>9, <2>3, <3>1 DEF FollowUpsAssumption
    <3>3. Delivered(KeyOf[d])' \/ bundle'[KeyOf[d]] = bundle[KeyOf[d]]
      BY <1>4, <1>9, <2>3, <3>1, <3>2 DEF Owns, Claimed
    <3>4. QED
      BY <3>1, <3>2, <3>3 DEF Owns, Claimed
  <2>4. Owns(c)'
    BY <1>9 DEF Owns, Claimed
  <2>5. ASSUME NEW d \in Call, NEW e \in Call, Working(d)', Working(e)', KeyOf[d] = KeyOf[e],
               KeyOf[d] \notin Lapsed'
        PROVE  d = e
    BY <1>9, <2>1, <2>3, <2>5 DEF OwnerInv
  <2>6. QED
    BY <2>3, <2>4, <2>5 DEF OwnerInv
<1>10. ASSUME NEW c \in Call, Claims(c) PROVE OwnerInv'
  <2>1. bundle'[KeyOf[c]] = Claimed(c) /\ \A f \in FollowUp \ {KeyOf[c]} : bundle'[f] = Created(KeyOf[c])[f]
    BY <1>10, CreatedRow DEF Claims
  <2>2. QED
    BY <1>9, <1>10, <2>1 DEF Claims, Lapsed
<1>11. ASSUME NEW c \in Call, NEW g \in FollowUp, NEW s \in Over, ClaimsAfter(c, g, s)
       PROVE  OwnerInv'
  <2>1. /\ bundle'[KeyOf[c]] = Claimed(c) /\ bundle'[g] = Row(s)
        /\ \A f \in FollowUp \ {KeyOf[c], g} : bundle'[f] = Created(KeyOf[c])[f]
    BY <1>11, CreatedRow DEF ClaimsAfter, InProgress
  <2>2. Delivered(g)' \/ g \in Lapsed
    BY <1>11, <2>1 DEF ClaimsAfter, Over, Row
  <2>3. QED
    BY <1>9, <1>11, <2>1, <2>2 DEF ClaimsAfter, Lapsed
<1>12. ASSUME NEW c \in Call,
              \/ Reads(c) \/ Renew(c) \/ Enter(c) \/ Fail(c) \/ FindActive(c) \/ Submit(c)
              \/ Open(c) \/ Record(c) \/ RecordTaken(c)
              \/ (\E retained \in BOOLEAN : OpeningTurn(c, retained)) \/ BreakOff(c)
       PROVE  OwnerInv'
  <2>1. /\ UNCHANGED <<bundle, Lapsed>>
        /\ \/ UNCHANGED stage
           \/ \E s \in Locked \cup {"over"} : Goes(c, s)
           \/ stage[c] \in Launching /\ \E s \in InGate \cup {"answered"} : Goes(c, s)
    BY <1>12 DEF Lapsed, Reads, Renew, Enter, Fail, FindActive, Submit, Open, Record, RecordTaken,
                 OpeningTurn, BreakOff, Ends, Launching, InGate
  <2>2. \A d \in Call : Working(d)' => Working(d)
    BY <2>1 DEF Goes, Working, Launching, InGate, Locked, TypeOK
  <2>3. QED
    BY <1>1, <2>1, <2>2
<1>13. CASE (\E f \in FollowUp : Lapse(f)) \/ LapseAsRead
  BY <1>1, <1>13 DEF Lapse, LapseAsRead, Working, Lapsed
<1>14. CASE (\E k \in Kinds : StartOther(k)) \/ EndAgent \/ UNCHANGED vars
  BY <1>1, <1>14 DEF StartOther, EndAgent, vars, Working, Lapsed
<1>15. CASE Crash
  <2>1. \A d \in Call : Working(d)' => Working(d)
    BY <1>15 DEF Crash, Working, Launching, InGate
  <2>2. QED
    BY <1>1, <1>15, <2>1 DEF Crash, Lapsed
<1>16. ASSUME NEW c \in Call,
             \/ Lock(c) \/ Answer(c) \/ Wait(c) \/ LookOwn(c) \/ LookAround(c) \/ FindUnproven(c)
             \/ StandBack(c) \/ GiveUp(c) \/ Claim(c) \/ ClaimAfterProof(c) \/ ClaimAfter(c)
      PROVE  OwnerInv'
  BY <1>16, <1>6, <1>8, <1>10, <1>11, <1>12, UnderLock
<1>17. QED
  BY <1>5, <1>7, <1>12, <1>13, <1>14, <1>15, <1>16 DEF Next

(* Words are left by a call that launches, once: its launch is over then, and
   proven when it comes to record what it left. *)
LEMMA GivenStep ==
  ASSUME FollowUpsAssumption, TypeOK, LookInv, ClaimInv, EvidenceInv, OwnerInv, GivenInv,
         [Next]_vars
  PROVE  GivenInv'
<1> USE FollowUpsAssumption
<1> DEFINE Done(s) == s \in {"answered", "over"}
           Delivered(f) == bundle[f].status = "delivered"
(* What a launch did is not undone. *)
           Grows == turn \subseteq turn' /\ \A f \in FollowUp : Correlated(f) => Correlated(f)'
<1>1. ASSUME UNCHANGED <<bundle, given>>, Lapsed \subseteq Lapsed', Grows,
             \A d \in Call : Done(stage[d]) => Done(stage'[d]),
             \A d \in Call : stage'[d] \in Launching => stage[d] \in Launching,
             \A d \in Call : stage'[d] = "answered" =>
               stage[d] \in Launching \/ (stage[d] = "answered" /\ outcome'[d] = outcome[d])
      PROVE  GivenInv'
  <2>1. ASSUME NEW f \in FollowUp \ Lapsed', given'[f] # 0
        PROVE  \/ Delivered(f)'
               \/ bundle'[f].status = "delivering" /\ Done(stage'[bundle'[f].by])
    BY <1>1, <2>1 DEF GivenInv, TypeOK
  <2>2. ASSUME NEW d \in Call, stage'[d] = "answered", KeyOf[d] \notin Lapsed', given'[KeyOf[d]] # 0
        PROVE  Proven(d)'
    BY <1>1, <2>2 DEF GivenInv, Proven, FollowUpsAssumption
  <2>3. QED
    BY <1>1, <2>1, <2>2 DEF GivenInv
<1>2. ASSUME NEW c \in Call, stage[c] \in Launching, UNCHANGED <<bundle, Lapsed>>, Grows,
             given' = [given EXCEPT ![KeyOf[c]] = @ + 1],
             Done(stage'[c]), stage'[c] = "answered" => Proven(c)',
             \A d \in Call \ {c} : stage'[d] = stage[d] /\ outcome'[d] = outcome[d]
      PROVE  GivenInv'
  <2>1. /\ KeyOf[c] \in FollowUp /\ given'[KeyOf[c]] = given[KeyOf[c]] + 1
        /\ \A f \in FollowUp \ {KeyOf[c]} : given'[f] = given[f]
    BY <1>2 DEF FollowUpsAssumption, TypeOK
  <2>2. Working(c)
    BY <1>2 DEF Working
  <2>3. KeyOf[c] \notin Lapsed =>
          /\ given[KeyOf[c]] = 0
          /\ Owns(c) \/ Delivered(KeyOf[c])
          /\ \A d \in Call \ {c} : KeyOf[d] = KeyOf[c] => ~ Working(d)
    BY <1>2, <2>2 DEF GivenInv, OwnerInv
  <2>4. \A f \in FollowUp \ Lapsed' : given'[f] \in {0, 1}
    BY <1>2, <2>1, <2>3 DEF GivenInv
  <2>5. ASSUME NEW f \in FollowUp \ Lapsed', given'[f] # 0
        PROVE  \/ Delivered(f)'
               \/ bundle'[f].status = "delivering" /\ Done(stage'[bundle'[f].by])
    <3>1. CASE f = KeyOf[c]
      BY <1>2, <2>3, <2>5, <3>1 DEF Owns, Claimed
    <3>2. CASE f # KeyOf[c]
      <4>1. \/ Delivered(f)
            \/ bundle[f].status = "delivering" /\ Done(stage[bundle[f].by]) /\ bundle[f].by \in Call
        BY <1>2, <2>1, <2>5, <3>2 DEF GivenInv, TypeOK
      <4>2. QED
        BY <1>2, <4>1
    <3>3. QED
      BY <3>1, <3>2
  <2>6. ASSUME NEW d \in Call, stage'[d] \in Launching, KeyOf[d] \notin Lapsed'
        PROVE  given'[KeyOf[d]] = 0
    <3>1. d # c
      BY <1>2, <2>6 DEF Launching, InGate
    <3>2. KeyOf[d] # KeyOf[c]
      BY <1>2, <2>3, <2>6, <3>1 DEF Working
    <3>3. QED
      BY <1>2, <2>1, <2>6, <3>1, <3>2 DEF GivenInv, FollowUpsAssumption
  <2>7. ASSUME NEW d \in Call, stage'[d] = "answered", KeyOf[d] \notin Lapsed', given'[KeyOf[d]] # 0
        PROVE  Proven(d)'
    <3>1. CASE d = c
      BY <1>2, <2>7, <3>1
    <3>2. CASE d # c
      <4>1. KeyOf[d] # KeyOf[c]
        BY <1>2, <2>3, <2>7, <3>2 DEF Working
      <4>2. Proven(d)
        BY <1>2, <2>1, <2>7, <3>2, <4>1 DEF GivenInv, FollowUpsAssumption
      <4>3. QED
        BY <1>2, <3>2, <4>2 DEF Proven, FollowUpsAssumption
    <3>3. QED
      BY <3>1, <3>2
  <2>8. QED
    BY <2>4, <2>5, <2>6, <2>7 DEF GivenInv
<1>3. ASSUME UNCHANGED <<given, Lapsed, proc, turn, outcome>>,
             \A d \in Call : Done(stage[d]) => Done(stage'[d]),
             \A d \in Call : stage'[d] = "answered" => stage[d] = "answered",
             \A d \in Call : stage'[d] \in Launching =>
               stage[d] \in Launching \/ KeyOf[d] \in Lapsed \/ given[KeyOf[d]] = 0,
             \A f \in FollowUp \ Lapsed : given[f] # 0 =>
               bundle'[f] = bundle[f] \/ Delivered(f)'
      PROVE  GivenInv'
  <2>1. ASSUME NEW f \in FollowUp \ Lapsed', given'[f] # 0
        PROVE  \/ Delivered(f)'
               \/ bundle'[f].status = "delivering" /\ Done(stage'[bundle'[f].by])
    <3>1. \/ Delivered(f)
          \/ bundle[f].status = "delivering" /\ Done(stage[bundle[f].by]) /\ bundle[f].by \in Call
      BY <1>3, <2>1 DEF GivenInv, TypeOK
    <3>2. QED
      BY <1>3, <2>1, <3>1
  <2>2. ASSUME NEW d \in Call, stage'[d] = "answered", KeyOf[d] \notin Lapsed', given'[KeyOf[d]] # 0
        PROVE  Proven(d)'
    BY <1>3, <2>2 DEF GivenInv, Proven, Correlated
  <2>3. QED
    BY <1>3, <2>1, <2>2 DEF GivenInv
<1>4. ASSUME NEW c \in Call, Free(c)
      PROVE  \A f \in FollowUp \ Lapsed : given[f] # 0 =>
               f # KeyOf[c] /\ Created(KeyOf[c])[f] = bundle[f]
  BY <1>4, CreatedRow DEF GivenInv, Free, Waiting
<1>5. ASSUME NEW c \in Call, Recover(c) \/ FinishDelivered(c) PROVE GivenInv'
  <2>1. /\ \A d \in Call : Done(stage[d]) => Done(stage'[d])
        /\ \A d \in Call : stage'[d] = "answered" => stage[d] = "answered"
        /\ \A d \in Call : stage'[d] \in Launching => stage[d] \in Launching
    BY <1>5 DEF Recover, FinishDelivered, Goes, Launching, InGate, TypeOK
  <2>2. \A f \in FollowUp : bundle'[f] = bundle[f] \/ Delivered(f)'
    BY <1>5 DEF Recover, FinishDelivered, Row, TypeOK, FollowUpsAssumption
  <2>3. QED
    BY <1>3, <1>5, <2>1, <2>2 DEF Recover, FinishDelivered, engine, Lapsed
<1>6. ASSUME NEW c \in Call, GivesUp(c) PROVE GivenInv'
  <2>1. /\ \A d \in Call : Done(stage[d]) => Done(stage'[d])
        /\ \A d \in Call : stage'[d] = "answered" => stage[d] = "answered"
        /\ \A d \in Call : stage'[d] \in Launching => stage[d] \in Launching
    BY <1>6 DEF GivesUp, Goes, Launching, InGate, TypeOK
  <2>2. KeyOf[c] \in Lapsed /\ \A f \in FollowUp \ {KeyOf[c]} : bundle'[f] = bundle[f]
    BY <1>6 DEF GivesUp, TypeOK
  <2>3. QED
    BY <1>3, <1>6, <2>1, <2>2 DEF GivesUp, engine, Lapsed
<1>7. ASSUME NEW c \in Call, Finish(c) PROVE GivenInv'
  <2>1. /\ \A d \in Call : Done(stage[d]) => Done(stage'[d])
        /\ \A d \in Call : stage'[d] = "answered" => stage[d] = "answered"
        /\ \A d \in Call : stage'[d] \in Launching => stage[d] \in Launching
    BY <1>7 DEF Finish, Goes, Launching, InGate, TypeOK
  <2>2. KeyOf[c] \notin Lapsed => given[KeyOf[c]] = 0
    BY <1>7 DEF Finish, GivenInv
  <2>3. \A f \in FollowUp \ {KeyOf[c]} : bundle'[f] = bundle[f]
    BY <1>7 DEF Finish, TypeOK
  <2>4. QED
    BY <1>3, <1>7, <2>1, <2>2, <2>3 DEF Finish, engine, Lapsed
<1>8. ASSUME NEW c \in Call, Queues(c) PROVE GivenInv'
  <2>1. /\ Free(c) /\ stage[c] \in Locked /\ Goes(c, "over")
        /\ bundle' = [Created(KeyOf[c]) EXCEPT ![KeyOf[c]] = Row("pending")]
        /\ UNCHANGED <<engine, outcome, Lapsed>>
    BY <1>8 DEF Queues, Lapsed
  <2>2. /\ \A d \in Call : Done(stage[d]) => Done(stage'[d])
        /\ \A d \in Call : stage'[d] = "answered" => stage[d] = "answered"
        /\ \A d \in Call : stage'[d] \in Launching => stage[d] \in Launching
    BY <2>1 DEF Goes, Launching, InGate, TypeOK
  <2>3. \A f \in FollowUp \ Lapsed : given[f] # 0 => bundle'[f] = bundle[f]
    BY <1>4, <2>1, CreatedRow
  <2>4. QED
    BY <1>3, <2>1, <2>2, <2>3 DEF engine
<1>9. ASSUME NEW c \in Call, Free(c), stage[c] \in Locked, Goes(c, "claimed"),
             UNCHANGED <<engine, outcome, Lapsed>>,
             \A f \in FollowUp \ {KeyOf[c]} :
               bundle'[f] = Created(KeyOf[c])[f] \/ Delivered(f)' \/ f \in Lapsed
      PROVE  GivenInv'
  <2>1. /\ \A d \in Call : Done(stage[d]) => Done(stage'[d])
        /\ \A d \in Call : stage'[d] = "answered" => stage[d] = "answered"
        /\ \A d \in Call : stage'[d] \in Launching => stage[d] \in Launching \/ d = c
    BY <1>9 DEF Goes, Locked, Launching, InGate, TypeOK
  <2>2. KeyOf[c] \in Lapsed \/ given[KeyOf[c]] = 0
    BY <1>4, <1>9, CreatedRow
  <2>3. \A f \in FollowUp \ Lapsed : given[f] # 0 => bundle'[f] = bundle[f] \/ Delivered(f)'
    BY <1>4, <1>9
  <2>4. QED
    BY <1>3, <1>9, <2>1, <2>2, <2>3 DEF engine
<1>10. ASSUME NEW c \in Call, Claims(c) PROVE GivenInv'
  <2>1. \A f \in FollowUp \ {KeyOf[c]} : bundle'[f] = Created(KeyOf[c])[f]
    BY <1>10, CreatedRow DEF Claims
  <2>2. QED
    BY <1>9, <1>10, <2>1 DEF Claims, Lapsed
<1>11. ASSUME NEW c \in Call, NEW g \in FollowUp, NEW s \in Over, ClaimsAfter(c, g, s)
       PROVE  GivenInv'
  <2>1. /\ bundle'[g] = Row(s)
        /\ \A f \in FollowUp \ {KeyOf[c], g} : bundle'[f] = Created(KeyOf[c])[f]
    BY <1>11, CreatedRow DEF ClaimsAfter, InProgress
  <2>2. Delivered(g)' \/ g \in Lapsed
    BY <1>11, <2>1 DEF ClaimsAfter, Over, Row
  <2>3. QED
    BY <1>9, <1>11, <2>1, <2>2 DEF ClaimsAfter, Lapsed
<1>12. ASSUME NEW c \in Call,
              \/ Reads(c) \/ Renew(c) \/ Enter(c) \/ Fail(c) \/ FindActive(c)
              \/ Open(c) \/ BreakOff(c)
       PROVE  GivenInv'
  <2>1. /\ UNCHANGED <<bundle, given, Lapsed, turn>>
        /\ \A f \in FollowUp : Correlated(f) => Correlated(f)'
    BY <1>12 DEF Reads, Renew, Enter, Fail, FindActive, Open, BreakOff, EndsAgent, engine,
                 Correlated, Lapsed
  <2>2. /\ \A d \in Call : Done(stage[d]) => Done(stage'[d])
        /\ \A d \in Call : stage'[d] \in Launching => stage[d] \in Launching
        /\ \A d \in Call : stage'[d] = "answered" =>
             stage[d] \in Launching \/ (stage[d] = "answered" /\ outcome'[d] = outcome[d])
    BY <1>12 DEF Reads, Renew, Enter, Fail, FindActive, Open, BreakOff, Ends, Goes,
                 Locked, Launching, InGate, engine, TypeOK
  <2>3. QED
    BY <1>1, <2>1, <2>2
<1>13. ASSUME NEW c \in Call, Submit(c) PROVE GivenInv'
  <2>1. /\ KeyOf[c] \in FollowUp /\ stage[c] \in Launching
        /\ turn' = turn \cup {KeyOf[c]}
        /\ UNCHANGED <<bundle, Lapsed, proc>>
    BY <1>13 DEF Submit, Accept, Launching, InGate, FollowUpsAssumption, Lapsed
  <2>2. /\ stage'[c] = "answered" /\ outcome'[c] = "ok"
        /\ \A d \in Call \ {c} : stage'[d] = stage[d] /\ outcome'[d] = outcome[d]
    BY <1>13 DEF Submit, Ends, Goes, TypeOK
  <2>3. Proven(c)' /\ Grows
    BY <2>1, <2>2 DEF Proven, Correlated
  <2>4. CASE KeyOf[c] \in turn
    BY <1>1, <1>13, <2>1, <2>2, <2>3, <2>4 DEF Submit, Accept
  <2>5. CASE KeyOf[c] \notin turn
    BY <1>2, <1>13, <2>1, <2>2, <2>3, <2>5 DEF Submit, Accept
  <2>6. QED
    BY <2>4, <2>5
<1>14. ASSUME NEW c \in Call, Record(c) PROVE GivenInv'
  <2>1. /\ KeyOf[c] \in FollowUp /\ stage[c] \in Launching
        /\ UNCHANGED <<bundle, Lapsed, turn>>
    BY <1>14 DEF Record, Launching, InGate, FollowUpsAssumption, Lapsed
  <2>2. proc'[KeyOf[c]] = "live" /\ \A f \in FollowUp \ {KeyOf[c]} : proc'[f] = proc[f]
    BY <1>14, <2>1 DEF Record, TypeOK
  <2>3. Grows /\ Proven(c)'
    BY <2>1, <2>2 DEF Correlated, Proven
  <2>4. CASE kind = "pty"
    <3>1. /\ stage'[c] = "answered"
          /\ \A d \in Call \ {c} : stage'[d] = stage[d] /\ outcome'[d] = outcome[d]
      BY <1>14, <2>4 DEF Record, Ends, Goes, TypeOK
    <3>2. given' = [given EXCEPT ![KeyOf[c]] = @ + 1]
      BY <1>14, <2>1, <2>4 DEF Record, Left, TypeOK
    <3>3. QED
      BY <1>2, <2>1, <2>3, <3>1, <3>2
  <2>5. CASE kind # "pty"
    <3>1. given' = given
      BY <1>14, <2>5 DEF Record, Left, TypeOK
    <3>2. stage' = [stage EXCEPT ![c] = "rowed"] /\ outcome' = outcome
      BY <1>14, <2>5 DEF Record, Goes
    <3>3. QED
      BY <1>1, <2>1, <2>3, <3>1, <3>2 DEF TypeOK, Launching, InGate
  <2>6. QED
    BY <2>4, <2>5
<1>15. ASSUME NEW c \in Call, RecordTaken(c) PROVE GivenInv'
  <2>1. /\ KeyOf[c] \in FollowUp /\ stage[c] \in Launching /\ Grows
        /\ UNCHANGED <<bundle, Lapsed>>
    BY <1>15 DEF RecordTaken, Launching, InGate, Correlated, FollowUpsAssumption, Lapsed
  <2>2. /\ stage'[c] = "over"
        /\ \A d \in Call \ {c} : stage'[d] = stage[d] /\ outcome'[d] = outcome[d]
    BY <1>15 DEF RecordTaken, Goes, TypeOK
  <2>3. given' = given \/ given' = [given EXCEPT ![KeyOf[c]] = @ + 1]
    BY <1>15, <2>1 DEF RecordTaken, Left, TypeOK
  <2>4. CASE given' = given
    BY <1>1, <2>1, <2>2, <2>4 DEF Launching, InGate
  <2>5. CASE given' = [given EXCEPT ![KeyOf[c]] = @ + 1]
    BY <1>2, <2>1, <2>2, <2>5
  <2>6. QED
    BY <2>3, <2>4, <2>5
<1>16. ASSUME NEW c \in Call, NEW retained \in BOOLEAN, OpeningTurn(c, retained) PROVE GivenInv'
  <2>1. /\ KeyOf[c] \in FollowUp /\ stage[c] \in Launching
        /\ UNCHANGED <<bundle, Lapsed, proc>> /\ turn \subseteq turn' /\ Correlated(KeyOf[c])
    BY <1>16 DEF OpeningTurn, Accept, Launching, InGate, EvidenceInv, FollowUpsAssumption, Lapsed
  <2>2. /\ stage'[c] = "answered"
        /\ \A d \in Call \ {c} : stage'[d] = stage[d] /\ outcome'[d] = outcome[d]
    BY <1>16 DEF OpeningTurn, Ends, Goes, TypeOK
  <2>3. Grows /\ Proven(c)'
    BY <2>1 DEF Correlated, Proven
  <2>4. given' = given \/ given' = [given EXCEPT ![KeyOf[c]] = @ + 1]
    BY <1>16 DEF OpeningTurn, Accept
  <2>5. CASE given' = given
    BY <1>1, <2>1, <2>2, <2>3, <2>5
  <2>6. CASE given' = [given EXCEPT ![KeyOf[c]] = @ + 1]
    BY <1>2, <2>1, <2>2, <2>3, <2>6
  <2>7. QED
    BY <2>4, <2>5, <2>6
<1>17. CASE \/ (\E f \in FollowUp : Lapse(f)) \/ LapseAsRead
            \/ (\E k \in Kinds : StartOther(k)) \/ EndAgent \/ UNCHANGED vars
  <2>1. UNCHANGED <<bundle, given, turn, stage, outcome>> /\ Lapsed \subseteq Lapsed'
    BY <1>17 DEF Lapse, LapseAsRead, StartOther, EndAgent, vars, engine, Lapsed
  <2>2. \A f \in FollowUp : Correlated(f) => Correlated(f)'
    BY <1>17 DEF Lapse, LapseAsRead, StartOther, EndAgent, EndsAgent, vars, engine, Correlated
  <2>3. QED
    BY <1>1, <2>1, <2>2
<1>18. CASE Crash
  <2>1. UNCHANGED <<bundle, Lapsed>> /\ \A d \in Call : stage'[d] \in {"idle", "over"}
    BY <1>18 DEF Crash, Lapsed
  <2>2. \A d \in Call : stage[d] # "idle" => stage'[d] = "over"
    BY <1>18 DEF Crash
  <2>3. ASSUME NEW f \in FollowUp \ Lapsed
        PROVE  \/ given'[f] = given[f]
               \/ /\ given[f] = 0 /\ given'[f] = 1
                  /\ \E c \in Call : KeyOf[c] = f /\ stage[c] = "opened"
    <3>1. CASE \E c \in Call : KeyOf[c] = f /\ stage[c] = "opened"
      <4>1. given[f] = 0
        BY <2>3, <3>1 DEF GivenInv, Launching, InGate
      <4>2. given'[f] \in {given[f], given[f] + 1}
        BY <1>18, <2>3 DEF Crash, Left
      <4>3. QED
        BY <3>1, <4>1, <4>2
    <3>2. CASE ~ \E c \in Call : KeyOf[c] = f /\ stage[c] = "opened"
      BY <1>18, <2>3, <3>2 DEF Crash, Left
    <3>3. QED
      BY <3>1, <3>2
  <2>4. \A f \in FollowUp \ Lapsed' : given'[f] \in {0, 1}
    BY <2>1, <2>3 DEF GivenInv
  <2>5. ASSUME NEW f \in FollowUp \ Lapsed', given'[f] # 0
        PROVE  \/ Delivered(f)'
               \/ bundle'[f].status = "delivering" /\ Done(stage'[bundle'[f].by])
    <3>1. CASE given[f] # 0
      <4>1. \/ Delivered(f)
            \/ bundle[f].status = "delivering" /\ Done(stage[bundle[f].by]) /\ bundle[f].by \in Call
        BY <2>1, <2>5, <3>1 DEF GivenInv, TypeOK
      <4>2. QED
        BY <2>1, <2>2, <4>1
    <3>2. CASE given[f] = 0
      <4>1. PICK c \in Call : KeyOf[c] = f /\ stage[c] = "opened"
        BY <2>1, <2>3, <2>5, <3>2
      <4>2. Owns(c) \/ Delivered(f)
        BY <2>1, <2>5, <4>1 DEF OwnerInv, Working, Launching, InGate
      <4>3. QED
        BY <2>1, <2>2, <4>1, <4>2 DEF Owns, Claimed
    <3>3. QED
      BY <3>1, <3>2
  <2>6. QED
    BY <2>1, <2>4, <2>5 DEF GivenInv, Launching, InGate
<1>19. ASSUME NEW c \in Call,
             \/ Lock(c) \/ Answer(c) \/ Wait(c) \/ LookOwn(c) \/ LookAround(c) \/ FindUnproven(c)
             \/ StandBack(c) \/ GiveUp(c) \/ Claim(c) \/ ClaimAfterProof(c) \/ ClaimAfter(c)
      PROVE  GivenInv'
  BY <1>19, <1>6, <1>8, <1>10, <1>11, <1>12, UnderLock
<1>20. QED
  BY <1>5, <1>7, <1>12, <1>13, <1>14, <1>15, <1>16, <1>17, <1>18, <1>19 DEF Next

-----------------------------------------------------------------------------
LEMMA InitInv == FollowUpsAssumption /\ Init => Inv
<1> SUFFICES ASSUME FollowUpsAssumption, Init PROVE Inv
  OBVIOUS
<1> USE DEF Init, Row
<1>1. TypeOK
  BY DEF TypeOK, FollowUpsAssumption, Statuses, Waiting, Launching, InGate, Locked
<1>2. OneDelivering
  BY DEF OneDelivering
<1>3. EvidenceInv
  BY DEF EvidenceInv, Correlated, FollowUpsAssumption
<1>4. OwnerInv /\ GivenInv
  BY DEF OwnerInv, GivenInv, Working, Launching, InGate, FollowUpsAssumption
<1>5. LookInv /\ ClaimInv
  BY DEF LookInv, ClaimInv, NoLook, Locked, FollowUpsAssumption
<1>6. QED
  BY <1>1, <1>2, <1>3, <1>4, <1>5 DEF Inv

(* The whole invariant. *)
LEMMA Invariance == Spec => []Inv
<1>1. Init => Inv
  BY InitInv, FollowUpsAssumption
<1>2. Inv /\ [Next]_vars => Inv'
  BY FollowUpsAssumption, TypeStep, LookStep, ClaimStep, DeliveringStep, EvidenceStep, OwnerStep,
     GivenStep
     DEF Inv
<1>3. QED
  BY <1>1, <1>2, PTL DEF Spec

(* Every variable keeps its type, and a row names the call that claims it
   exactly while it is being delivered. *)
THEOREM TypeCorrect == Spec => []TypeOK
<1>1. Inv => TypeOK
  BY DEF Inv
<1>2. QED
  BY <1>1, Invariance, PTL

(* One follow-up of a session is being delivered at a time (prepare under
   withSessionLock). *)
THEOREM OneIsDelivered == Spec => []OneDelivering
<1>1. Inv => OneDelivering
  BY DEF Inv
<1>2. QED
  BY <1>1, Invariance, PTL

(* A follow-up's words are left with an agent once, unless the lease of a claim
   of its own ran out (launchFollowUp, submitTurn, finishLaunch). *)
THEOREM WordsAreGivenOnce == Spec => []GivenOnce
<1>1. Inv => GivenOnce
  BY DEF Inv, GivenInv, GivenOnce, Lapsed
<1>2. QED
  BY <1>1, Invariance, PTL

(* A follow-up said delivered was given, or is about to be, or its launch broke
   off after it recorded its process (finalizeCorrelated, finishLaunch). *)
THEOREM DeliveredIsGiven == Spec => []DeliveredWasGiven
<1>1. Inv => DeliveredWasGiven
  <2> SUFFICES ASSUME Inv, NEW f \in FollowUp, bundle[f].status = "delivered"
               PROVE  \/ given[f] > 0
                      \/ f \in broken
                      \/ \E c \in Call : KeyOf[c] = f /\ stage[c] = "rowed"
    BY DEF DeliveredWasGiven
  <2>1. Reached(f) /\ given[f] \in Nat
    BY DEF Inv, EvidenceInv, TypeOK
  <2>2. QED
    BY <2>1 DEF Reached
<1>2. QED
  BY <1>1, Invariance, PTL

(* A claim is ended by its own call's finish, by proof of delivery, or by the
   call under the lock that had read it and whose reading of its lease ran out
   (finishLaunch, releaseClaim, claimDelivery). *)
THEOREM ClaimsHold == Spec => ClaimHolds
<1> DEFINE A == \A f \in FollowUp : bundle[f].status = "delivering" =>
                  \/ bundle'[f] = bundle[f]
                  \/ bundle'[f].status = "delivered"
                  \/ LET c == bundle[f].by IN stage[c] = "answered" /\ stage'[c] = "over"
                  \/ bundle[f].by \in lapsed /\ look = [by |-> bundle[f].by, lease |-> "past"]
<1>1. Inv /\ [Next]_vars => [A]_vars
  <2> SUFFICES ASSUME Inv, [Next]_vars, NEW f \in FollowUp,
                      bundle[f].status = "delivering", bundle'[f] # bundle[f],
                      bundle'[f].status # "delivered"
               PROVE  \/ stage[bundle[f].by] = "answered" /\ stage'[bundle[f].by] = "over"
                      \/ bundle[f].by \in lapsed /\ look = [by |-> bundle[f].by, lease |-> "past"]
    OBVIOUS
  <2> DEFINE Outrun == bundle[f].by \in lapsed /\ look = [by |-> bundle[f].by, lease |-> "past"]
  <2> USE FollowUpsAssumption DEF Inv
  <2>1. ASSUME NEW c \in Call, Recover(c) \/ FinishDelivered(c) PROVE FALSE
    BY <2>1 DEF Recover, FinishDelivered, Row, TypeOK, FollowUpsAssumption
  <2>2. ASSUME NEW c \in Call, Free(c)
        PROVE  f # KeyOf[c] /\ Created(KeyOf[c])[f] = bundle[f]
    BY <2>2, CreatedRow DEF Free, Waiting
  <2>3. /\ \A c \in Call : stage[c] = "looking" => Free(c)
        /\ \A c \in Call : stage[c] = "unproven" => OfOwn(c) \/ Free(c)
        /\ \A c \in Call : Selectable(c) => Free(c)
    BY DEF LookInv, Selectable, Free
  <2>4. ASSUME look.lease = "past", f = KeyOf[look.by], look.by # Nobody PROVE Outrun
    <3>1. bundle[f].by = look.by /\ look.by \in lapsed
      BY <2>4 DEF LookInv, Claimed
    <3>2. look = [by |-> look.by, lease |-> "past"]
      BY <2>4 DEF TypeOK, NoLook
    <3>3. QED
      BY <3>1, <3>2
  <2>5. ASSUME NEW c \in Call, Wait(c) \/ StandBack(c) PROVE FALSE
    <3>1. Free(c) /\ bundle' = [Created(KeyOf[c]) EXCEPT ![KeyOf[c]] = Row("pending")]
      BY <2>3, <2>5 DEF Wait, StandBack, Waits
    <3>2. QED
      BY <2>2, <3>1, CreatedRow
  <2>6. ASSUME NEW c \in Call, GiveUp(c) PROVE Outrun
    <3>1. stage[c] = "unproven" /\ look.by # Nobody /\ look.lease = "past"
      BY <2>6 DEF GiveUp, LookInv
    <3>2. f \in Found(look.by)
      BY <2>6 DEF GiveUp, Released, TypeOK
    <3>3. QED
      BY <2>4, <3>1, <3>2 DEF Found
  <2>7. ASSUME NEW c \in Call, Claim(c) \/ ClaimAfterProof(c) PROVE FALSE
    <3>1. Free(c) /\ Created(KeyOf[c]) \in Rows /\ KeyOf[c] \in FollowUp
      BY <2>3, <2>7, CreatedRow DEF Claim, ClaimAfterProof, Rows
    <3>2. CASE Claim(c)
      BY <2>2, <3>1, <3>2 DEF Claim, Rows
    <3>3. CASE ClaimAfterProof(c)
      BY <2>2, <3>1, <3>3 DEF ClaimAfterProof, Rows, Row
    <3>4. QED
      BY <2>7, <3>2, <3>3
  <2>8. ASSUME NEW c \in Call, ClaimAfter(c) PROVE Outrun
    <3>1. Free(c) /\ look.by # Nobody /\ look.lease = "past"
      BY <2>3, <2>8 DEF ClaimAfter, LookInv
    <3>2. f # KeyOf[c] /\ Created(KeyOf[c])[f] = bundle[f]
      BY <2>2, <3>1
    <3>3. f \in Found(look.by)
      BY <2>8, <3>2 DEF ClaimAfter, Released
    <3>4. QED
      BY <2>4, <3>1, <3>3 DEF Found
  <2>9. ASSUME NEW c \in Call, Finish(c)
        PROVE  stage[bundle[f].by] = "answered" /\ stage'[bundle[f].by] = "over"
    <3>1. f = KeyOf[c] /\ Owns(c)
      BY <2>9 DEF Finish, TypeOK
    <3>2. bundle[f].by = c
      BY <3>1 DEF Owns, Claimed
    <3>3. QED
      BY <2>9, <3>2 DEF Finish, Goes, TypeOK
  <2>10. QED
    BY <2>1, <2>5, <2>6, <2>7, <2>8, <2>9
       DEF Next, Lock, Answer, LookOwn, LookAround, FindUnproven, Renew, Enter, Fail, FindActive,
           Submit, Open, Record, RecordTaken, OpeningTurn, BreakOff, Lapse, LapseAsRead, StartOther,
           EndAgent, Crash, vars
<1>2. QED
  BY <1>1, Invariance, PTL DEF Spec, ClaimHolds
==============================================================================
