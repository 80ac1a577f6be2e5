------------------------- MODULE CaptureChainProofs -------------------------
(***************************************************************************)
(* Proofs about CaptureChain, for every set of launches, creators and      *)
(* captures and every number of claims.                                    *)
(***************************************************************************)
EXTENDS CaptureChain, TLAPS

\* Every variable keeps its type: no claim, register, seal, release or loss of a
\* process leaves the rows or the callers in a state the code has no reading for.
LEMMA TypeInit == Init => TypeOK
  BY ConstantsAssumption DEF Init, TypeOK, Grant, Free, Request, CaptureOrNone

\* A claim's row, its grant and the chain's head_epoch.
LEMMA ClaimTypes ==
  ASSUME TypeOK, NEW p \in Party, Claim(p)
  PROVE  /\ lease.epoch + 1 \in Epoch
         /\ lease'.epoch = lease.epoch + 1
         /\ lease' \in [executor : Session \cup {Mend, None}, launch : Launch \cup {None},
                       epoch : 0..MaxEpoch, live : BOOLEAN]
         /\ chain' \in [n : Nat \cup {-1}, head : CaptureOrNone, epoch : 0..MaxEpoch]
         /\ granted' \in [Epoch -> Grant]
<1>1. lease.epoch + 1 \in Epoch
  BY ConstantsAssumption DEF TypeOK, Claim, Epoch
<1>2. ExecutorOf(p) \in Session \cup {Mend, None} /\ LaunchOf(p) \in Launch \cup {None}
  BY ConstantsAssumption DEF ExecutorOf, LaunchOf
<1>3. lease' = [executor |-> ExecutorOf(p), launch |-> LaunchOf(p),
                epoch |-> lease.epoch + 1, live |-> TRUE]
  BY DEF Claim
<1>4. chain' = [chain EXCEPT !.epoch = lease.epoch + 1]
  BY DEF Claim
<1>5. granted' = [granted EXCEPT ![lease.epoch + 1] =
                    [executor |-> ExecutorOf(p), launch |-> LaunchOf(p)]]
  BY DEF Claim
<1>6. [executor |-> ExecutorOf(p), launch |-> LaunchOf(p)] \in Grant
  BY <1>2 DEF Grant
<1>7. granted' \in [Epoch -> Grant]
  BY <1>5, <1>6 DEF TypeOK
<1>8. chain' \in [n : Nat \cup {-1}, head : CaptureOrNone, epoch : 0..MaxEpoch]
  <2>1. chain \in [n : Nat \cup {-1}, head : CaptureOrNone, epoch : 0..MaxEpoch]
    BY DEF TypeOK
  <2>2. lease.epoch + 1 \in 0..MaxEpoch
    BY <1>1, ConstantsAssumption DEF Epoch
  <2> QED
    BY <1>4, <2>1, <2>2
<1>9. lease' \in [executor : Session \cup {Mend, None}, launch : Launch \cup {None},
                   epoch : 0..MaxEpoch, live : BOOLEAN]
  BY <1>1, <1>2, <1>3, ConstantsAssumption DEF Epoch
<1> QED
  BY <1>1, <1>3, <1>7, <1>8, <1>9

\* A release's row: the epoch stays, and a freed lease's epoch may be any.
LEMMA ReleaseTypes ==
  ASSUME TypeOK, NEW e \in 0..MaxEpoch, e # 0, Release(e)
  PROVE  /\ lease' \in [executor : Session \cup {Mend, None}, launch : Launch \cup {None},
                        epoch : 0..MaxEpoch, live : BOOLEAN]
         /\ lease'.executor # None => lease'.epoch \in Epoch
         /\ released' \in SUBSET Epoch
<1>1. CASE lease.epoch = e
  <2>1. lease' = [executor |-> None, launch |-> None, epoch |-> e, live |-> FALSE]
    BY <1>1 DEF Release
  <2>2. released' = released \cup {e} /\ e \in Epoch
    BY <1>1, ConstantsAssumption DEF Release, Epoch
  <2> QED
    BY <2>1, <2>2 DEF TypeOK
<1>2. CASE lease.epoch # e
  BY <1>2 DEF TypeOK, Release
<1> QED
  BY <1>1, <1>2

\* A step keeps the types.
LEMMA TypeNext == TypeOK /\ [Next]_vars => TypeOK'
<1> SUFFICES ASSUME TypeOK, [Next]_vars PROVE TypeOK'
  OBVIOUS
<1> USE ConstantsAssumption DEF TypeOK, storeVars, callVars
<1>1. ASSUME NEW l \in Launch, LaunchClaim(l) PROVE TypeOK'
  <2>1. l \in Party /\ Claim(l)
    BY <1>1 DEF LaunchClaim, Party
  <2>2. UNCHANGED <<released, landed, thinned, seals, callVars, ended, judged>>
    BY <1>1 DEF LaunchClaim, Claim
  <2> QED
    BY <2>1, <2>2, ClaimTypes
<1>2. ASSUME NEW l \in Launch, RenewReserved(l) PROVE TypeOK'
  BY <1>2 DEF RenewReserved, Renew
<1>3. ASSUME NEW l \in Launch, PlanHeld(l) PROVE TypeOK'
  BY <1>3 DEF PlanHeld, Holds, ExecutorOf, Epoch
<1>4. ASSUME NEW l \in Launch, PlanRead(l) PROVE TypeOK'
  BY <1>4 DEF PlanRead
<1>5. ASSUME NEW l \in Launch, PlanClaim(l) PROVE TypeOK'
  <2>1. l \in Party /\ Claim(l)
    BY <1>5 DEF PlanClaim, Party
  <2>2. UNCHANGED <<released, landed, thinned, seals, creating, wire, admitted, acked,
                    recording, ended, judged>>
    BY <1>5 DEF PlanClaim, Claim
  <2>3. planning[l] \in [n : Nat \cup {-1}, head : CaptureOrNone]
    BY <1>5 DEF PlanClaim
  <2>4. [epoch |-> lease.epoch + 1, n |-> planning[l].n, head |-> planning[l].head]
          \in [epoch : Epoch, n : Nat \cup {-1}, head : CaptureOrNone]
    BY <2>1, <2>3, ClaimTypes
  <2> QED
    BY <1>5, <2>1, <2>2, <2>4, ClaimTypes DEF PlanClaim
<1>6. ASSUME NEW l \in Launch, PlanRefused(l) PROVE TypeOK'
  BY <1>6 DEF PlanRefused
<1>7. ASSUME NEW l \in Launch, Heartbeat(l) PROVE TypeOK'
  BY <1>7 DEF Heartbeat, Renew
<1>8. ASSUME NEW l \in Launch, Compose(l) PROVE TypeOK'
  <2>1. view[l] \in [epoch : Epoch, n : Nat \cup {-1}, head : CaptureOrNone]
    BY <1>8 DEF Compose
  <2>2. PICK id \in Capture, final \in BOOLEAN :
          wire' = wire \cup {[by |-> l, id |-> id, n |-> view[l].n + 1, parent |-> view[l].head,
                             epoch |-> view[l].epoch, final |-> final]}
    BY <1>8 DEF Compose
  <2>3. view[l].n + 1 \in Nat
    BY <2>1
  <2>4. wire' \in SUBSET Request
    BY <2>1, <2>2, <2>3 DEF Request, Party
  <2> QED
    BY <1>8, <2>2, <2>4 DEF Compose
<1>9. ASSUME NEW l \in Launch, End(l) PROVE TypeOK'
  BY <1>9 DEF End
<1>10. ASSUME NEW r \in wire, Admit(r) PROVE TypeOK'
  BY <1>10 DEF Admit
<1>11. ASSUME NEW r \in wire, Land(r) PROVE TypeOK'
  <2>1. r \in Request /\ r.n \in Nat /\ r.epoch \in Epoch /\ r.id \in Capture
    BY DEF Request
  <2>2. chain' \in [n : Nat \cup {-1}, head : CaptureOrNone, epoch : 0..MaxEpoch]
    BY <1>11, <2>1 DEF Land, CaptureOrNone, Epoch
  <2>3. landed' \in Seq(Request)
    BY <1>11, <2>1 DEF Land
  <2>4. seals' \in [Epoch -> Seal \cup {None}]
    <3>1. CASE UNCHANGED seals
      BY <3>1
    <3>2. CASE Holds(lease, r.by) /\ r.final /\ seals' = Sealed(r)
      <4>1. r.by \in Launch
        BY <2>1, <3>2 DEF Request
      <4> QED
        BY <2>1, <3>2, <4>1 DEF Sealed, Seal
    <3> QED
      BY <1>11, <3>1, <3>2 DEF Land
  <2> QED
    BY <1>11, <2>2, <2>3, <2>4 DEF Land
<1>12. ASSUME NEW r \in wire, LostAck(r) PROVE TypeOK'
  BY <1>12 DEF LostAck
<1>13. ASSUME NEW r \in wire, Conflict(r) PROVE TypeOK'
  BY <1>13 DEF Conflict
<1>14. ASSUME NEW r \in wire, RecordSeal(r) PROVE TypeOK'
  <2>1. r \in Request /\ r.n \in Nat /\ r.epoch \in Epoch /\ r.id \in Capture
    BY DEF Request
  <2>2. r.by \in Launch
    BY <1>14, <2>1 DEF RecordSeal, Request
  <2>3. seals' \in [Epoch -> Seal \cup {None}]
    BY <1>14, <2>1, <2>2 DEF RecordSeal, Sealed, Seal
  <2> QED
    BY <1>14, <2>3 DEF RecordSeal
<1>15. ASSUME NEW r \in wire, Learn(r) PROVE TypeOK'
  <2>1. r \in Request
    OBVIOUS
  <2>2. [epoch |-> r.epoch, n |-> r.n, head |-> r.id]
          \in [epoch : Epoch, n : Nat \cup {-1}, head : CaptureOrNone]
    BY <2>1 DEF Request, CaptureOrNone
  <2> QED
    BY <1>15, <2>2 DEF Learn
<1>16. ASSUME NEW c \in Creator, CreatorClaim(c) PROVE TypeOK'
  <2>1. c \in Party /\ Claim(c)
    BY <1>16 DEF CreatorClaim, Party
  <2>2. UNCHANGED <<released, landed, thinned, seals, view, planning, wire, admitted, acked,
                    recording, ended, judged>>
    BY <1>16 DEF CreatorClaim, Claim
  <2>3. creating' \in [Creator -> 0..MaxEpoch]
    BY <1>16, <2>1, ClaimTypes DEF CreatorClaim, Epoch
  <2> QED
    BY <2>1, <2>2, <2>3, ClaimTypes
<1>17. ASSUME NEW c \in Creator, CreatorRegister(c) PROVE TypeOK'
  <2>1. PICK id \in Capture :
          LET r == [by |-> c, id |-> id, n |-> 0, parent |-> None,
                    epoch |-> creating[c], final |-> FALSE]
          IN  wire' = wire \cup {r} /\ admitted' = admitted \cup {r}
    BY <1>17 DEF CreatorRegister
  <2>2. creating[c] \in Epoch
    BY <1>17 DEF CreatorRegister, Epoch
  <2>3. [by |-> c, id |-> id, n |-> 0, parent |-> None, epoch |-> creating[c], final |-> FALSE]
          \in Request
    BY <2>2 DEF Request, Party, CaptureOrNone
  <2> QED
    BY <1>17, <2>1, <2>3 DEF CreatorRegister
<1>18. ASSUME NEW c \in Creator, CreatorRelease(c) PROVE TypeOK'
  <2>1. creating[c] \in 0..MaxEpoch /\ creating[c] # 0 /\ Release(creating[c])
    BY <1>18 DEF CreatorRelease
  <2>2. creating' \in [Creator -> 0..MaxEpoch]
    BY <1>18 DEF CreatorRelease
  <2>3. UNCHANGED <<granted, chain, landed, thinned, seals, view, planning, wire, admitted,
                    acked, recording, ended, judged>>
    BY <1>18, <2>1 DEF CreatorRelease, Release
  <2> QED
    BY <2>1, <2>2, <2>3, ReleaseTypes
<1>19. ASSUME NEW c \in Creator, CreatorCrash(c) PROVE TypeOK'
  BY <1>19 DEF CreatorCrash
<1>20. CASE Lapse
  BY <1>20 DEF Lapse
<1>21. CASE Judge
  <2>1. lease.epoch \in Epoch
    BY <1>21 DEF Judge, HolderEnded
  <2> QED
    BY <1>21, <2>1 DEF Judge
<1>22. ASSUME NEW e \in judged, EngineRelease(e) PROVE TypeOK'
  BY <1>22 DEF EngineRelease, Release, Epoch
<1>23. ASSUME NEW id \in Capture, Thin(id) PROVE TypeOK'
  BY <1>23 DEF Thin
<1>24. CASE UNCHANGED vars
  BY <1>24 DEF vars
<1> QED
  BY <1>1, <1>2, <1>3, <1>4, <1>5, <1>6, <1>7, <1>8, <1>9, <1>10, <1>11, <1>12, <1>13,
     <1>14, <1>15, <1>16, <1>17, <1>18, <1>19, <1>20, <1>21, <1>22, <1>23, <1>24 DEF Next

THEOREM TypeCorrect == Spec => []TypeOK
<1>1. Init => TypeOK
  BY TypeInit
<1>2. TypeOK /\ [Next]_vars => TypeOK'
  BY TypeNext
<1> QED
  BY <1>1, <1>2, PTL DEF Spec

-----------------------------------------------------------------------------
(* What a step can do to the rows: five kinds, one of which every step is. *)

Claims ==
  \E p \in Party :
    /\ Claim(p) /\ UNCHANGED <<wire, acked>>
    /\ \/ p \in Launch /\ UNCHANGED creating
       \/ p \in Creator /\ creating' = [creating EXCEPT ![p] = lease.epoch + 1]

Lands == \E r \in wire : Land(r)

Repeats == \E r \in wire : LostAck(r)

Sends ==
  \E q \in Request :
    /\ q.id \notin {r.id : r \in wire} /\ wire' = wire \cup {q}
    /\ q.by \in Creator => creating[q.by] # 0 /\ q.epoch = creating[q.by]
    /\ UNCHANGED <<lease, chain, landed, granted, released, creating, acked>>

\* The epoch stays, its holder stays or is released, and a creator's claim stays
\* or is given up.
Keeps ==
  /\ lease'.epoch = lease.epoch
  /\ \/ lease'.executor = lease.executor /\ lease'.launch = lease.launch
     \/ lease'.executor = None /\ lease.epoch \in released'
  /\ released \subseteq released'
  /\ \A c \in Creator : creating'[c] \in {creating[c], 0}
  /\ UNCHANGED <<chain, landed, granted, wire, acked>>

\* Which steps change the leases, the chain and the seals.
LEMMA StepKinds ==
  ASSUME TypeOK, [Next]_vars
  PROVE  Claims \/ Lands \/ Repeats \/ Sends \/ Keeps
<1> USE ConstantsAssumption DEF storeVars, callVars
<1>1. ASSUME NEW l \in Launch, LaunchClaim(l) \/ PlanClaim(l) PROVE Claims
  BY <1>1 DEF LaunchClaim, PlanClaim, Claims, Party
<1>2. ASSUME NEW l \in Launch, RenewReserved(l) \/ Heartbeat(l) PROVE Keeps
  BY <1>2 DEF RenewReserved, Heartbeat, Renew, Keeps, TypeOK
<1>3. ASSUME NEW l \in Launch, PlanHeld(l) \/ PlanRead(l) \/ PlanRefused(l) \/ End(l)
      PROVE  Keeps
  BY <1>3 DEF PlanHeld, PlanRead, PlanRefused, End, Keeps
<1>4. ASSUME NEW l \in Launch, Compose(l) PROVE Sends
  <2>1. PICK id \in Capture \ {r.id : r \in wire}, final \in BOOLEAN :
          wire' = wire \cup {[by |-> l, id |-> id, n |-> view[l].n + 1, parent |-> view[l].head,
                             epoch |-> view[l].epoch, final |-> final]}
    BY <1>4 DEF Compose
  <2> DEFINE q == [by |-> l, id |-> id, n |-> view[l].n + 1, parent |-> view[l].head,
                   epoch |-> view[l].epoch, final |-> final]
  <2>2. view[l] \in [epoch : Epoch, n : Nat \cup {-1}, head : CaptureOrNone]
    BY <1>4 DEF Compose, TypeOK
  <2>3. view[l].n + 1 \in Nat
    BY <2>2
  <2>4. q \in Request
    BY <2>2, <2>3 DEF Request, Party
  <2>5. q.id \notin {r.id : r \in wire} /\ q.by \notin Creator /\ wire' = wire \cup {q}
    BY <2>1
  <2>6. UNCHANGED <<lease, chain, landed, granted, released, creating, acked>>
    BY <1>4 DEF Compose
  <2> QED
    BY <2>4, <2>5, <2>6 DEF Sends
<1>5. ASSUME NEW r \in wire, Admit(r) \/ Conflict(r) \/ RecordSeal(r) \/ Learn(r) PROVE Keeps
  BY <1>5 DEF Admit, Conflict, RecordSeal, Learn, Keeps
<1>6. ASSUME NEW c \in Creator, CreatorClaim(c) PROVE Claims
  BY <1>6 DEF CreatorClaim, Claims, Party
<1>7. ASSUME NEW c \in Creator, CreatorRegister(c) PROVE Sends
  <2>1. PICK id \in Capture \ {r.id : r \in wire} :
          wire' = wire \cup {[by |-> c, id |-> id, n |-> 0, parent |-> None,
                             epoch |-> creating[c], final |-> FALSE]}
    BY <1>7 DEF CreatorRegister
  <2> DEFINE q == [by |-> c, id |-> id, n |-> 0, parent |-> None,
                   epoch |-> creating[c], final |-> FALSE]
  <2>2. creating[c] # 0 /\ creating[c] \in Epoch
    BY <1>7 DEF CreatorRegister, TypeOK, Epoch
  <2>3. q \in Request
    BY <2>2 DEF Request, Party, CaptureOrNone
  <2>4. UNCHANGED <<lease, chain, landed, granted, released, creating, acked>>
    BY <1>7 DEF CreatorRegister
  <2> QED
    BY <2>1, <2>2, <2>3, <2>4 DEF Sends
<1>8. ASSUME NEW c \in Creator, CreatorRelease(c) PROVE Keeps
  BY <1>8 DEF CreatorRelease, Release, Keeps, TypeOK
<1>9. ASSUME NEW c \in Creator, CreatorCrash(c) PROVE Keeps
  BY <1>9 DEF CreatorCrash, Keeps, TypeOK
<1>10. ASSUME Lapse \/ Judge PROVE Keeps
  BY <1>10 DEF Lapse, Judge, Keeps, TypeOK
<1>11. ASSUME NEW e \in judged, EngineRelease(e) PROVE Keeps
  BY <1>11 DEF EngineRelease, Release, Keeps
<1>12. ASSUME NEW id \in Capture, Thin(id) PROVE Keeps
  BY <1>12 DEF Thin, Keeps
<1>13. CASE UNCHANGED vars
  BY <1>13 DEF vars, Keeps
<1> QED
  BY <1>1, <1>2, <1>3, <1>4, <1>5, <1>6, <1>7, <1>8, <1>9, <1>10, <1>11, <1>12, <1>13
  DEF Next, Lands, Repeats

-----------------------------------------------------------------------------
(* The chain.  ChainIsLinear is not inductive: that a landing's epoch is not   *)
(* lower than the row before it follows from the claim moving the lease's and  *)
(* the chain's epoch together, and no row being ahead of them.                 *)

ChainInv ==
  /\ ChainIsLinear
  /\ chain.epoch = lease.epoch
  /\ \A i \in 1..Len(landed) : landed[i].epoch <= lease.epoch

\* The chain part of the invariant holds at the start.
LEMMA ChainInit == (Init \/ InitUnbound) => ChainInv
  BY DEF Init, InitUnbound, ChainInv, ChainIsLinear

\* A landing puts the next row on the last one, at the lease's epoch.
LEMMA LandExtends ==
  ASSUME TypeOK, ChainInv, NEW r \in wire, Land(r)
  PROVE  /\ landed' = Append(landed, r) /\ Len(landed') = Len(landed) + 1
         /\ landed'[Len(landed) + 1] = r
         /\ \A i \in 1..Len(landed) : landed'[i] = landed[i]
         /\ r.n = Len(landed) /\ r.parent = chain.head
         /\ r.epoch = lease.epoch /\ r.epoch \in Epoch
         /\ chain' = [n |-> r.n, head |-> r.id, epoch |-> r.epoch]
         /\ UNCHANGED lease
<1>1. r \in Request /\ landed \in Seq(Request)
  BY DEF TypeOK
<1>2. landed' = Append(landed, r)
  BY DEF Land
<1>3. /\ Len(landed') = Len(landed) + 1
      /\ landed'[Len(landed) + 1] = r
      /\ \A i \in 1..Len(landed) : landed'[i] = landed[i]
  BY <1>1, <1>2
<1>4. r.n \in Nat /\ r.epoch \in Epoch
  BY <1>1 DEF Request
<1>5. r.n = Len(landed) /\ r.parent = chain.head /\ r.epoch = lease.epoch
  BY <1>1, <1>4 DEF Land, CanLand, ChainInv, ChainIsLinear
<1> QED
  BY <1>2, <1>3, <1>4, <1>5 DEF Land

\* A step keeps the chain one line.
LEMMA ChainNext ==
  ASSUME TypeOK, ChainInv, [Next]_vars
  PROVE  ChainInv'
<1>1. CASE Claims
  <2>1. PICK p \in Party : Claim(p)
    BY <1>1 DEF Claims
  <2>2. /\ lease'.epoch = lease.epoch + 1
        /\ chain' = [chain EXCEPT !.epoch = lease.epoch + 1] /\ UNCHANGED landed
    BY <2>1 DEF Claim
  <2>3. chain'.n = chain.n /\ chain'.head = chain.head /\ chain'.epoch = lease'.epoch
    BY <2>2 DEF TypeOK
  <2>4. \A i \in 1..Len(landed) : landed[i].epoch \in Int
    BY DEF TypeOK, Request, Epoch
  <2> QED
    BY <2>2, <2>3, <2>4 DEF ChainInv, ChainIsLinear, TypeOK
<1>2. CASE Lands
  <2>1. PICK r \in wire : Land(r)
    BY <1>2 DEF Lands
  <2> DEFINE m == Len(landed)
  <2>3. /\ landed' = Append(landed, r) /\ Len(landed') = m + 1
        /\ landed'[m + 1] = r
        /\ \A i \in 1..m : landed'[i] = landed[i]
        /\ r.n = m /\ r.parent = chain.head
        /\ r.epoch = lease.epoch /\ r.epoch \in Epoch
        /\ chain' = [n |-> r.n, head |-> r.id, epoch |-> r.epoch]
        /\ UNCHANGED lease
    BY <2>1, LandExtends
  <2>4. m \in Nat
    BY DEF TypeOK
  <2>5. chain.head = IF m = 0 THEN None ELSE landed[m].id
    BY DEF ChainInv, ChainIsLinear, TypeOK
  <2>6. ASSUME NEW i \in 1..(m + 1)
        PROVE  /\ landed'[i].n = i - 1
               /\ landed'[i].parent = IF i = 1 THEN None ELSE landed'[i - 1].id
               /\ i > 1 => landed'[i - 1].epoch <= landed'[i].epoch
               /\ landed'[i].epoch <= lease'.epoch
    <3>1. CASE i = m + 1
      <4>1. landed'[i] = r
        BY <3>1, <2>3
      <4>2. i # 1 => m \in 1..m /\ landed'[i - 1] = landed[m] /\ landed[m].epoch <= lease.epoch
        BY <3>1, <2>3, <2>4 DEF ChainInv
      <4> QED
        BY <3>1, <4>1, <4>2, <2>3, <2>4, <2>5 DEF Epoch
    <3>2. CASE i \in 1..m
      <4>1. landed'[i] = landed[i] /\ (i # 1 => landed'[i - 1] = landed[i - 1])
        BY <3>2, <2>3, <2>4
      <4> QED
        BY <3>2, <4>1, <2>3 DEF ChainInv, ChainIsLinear
    <3> QED
      BY <3>1, <3>2, <2>4
  <2>7. landed' # <<>> /\ chain'.n = Len(landed') - 1 /\ chain'.head = landed'[Len(landed')].id
        /\ chain'.epoch = lease'.epoch
    BY <2>3, <2>4
  <2> QED
    BY <2>3, <2>6, <2>7 DEF ChainInv, ChainIsLinear
<1>3. CASE Repeats
  BY <1>3 DEF Repeats, LostAck, storeVars, ChainInv, ChainIsLinear
<1>4. CASE Sends
  BY <1>4 DEF Sends, ChainInv, ChainIsLinear
<1>5. CASE Keeps
  BY <1>5 DEF Keeps, ChainInv, ChainIsLinear
<1> QED
  BY <1>1, <1>2, <1>3, <1>4, <1>5, StepKinds

\* The chain stays one line for any number of launches, creators and claims.
THEOREM ChainLinear == Spec => []ChainIsLinear
<1>1. Init => ChainInv
  BY ChainInit
<1>2. TypeOK /\ ChainInv /\ [Next]_vars => ChainInv'
  BY ChainNext
<1>3. ChainInv => ChainIsLinear
  BY DEF ChainInv
<1> QED
  BY <1>1, <1>2, <1>3, TypeCorrect, PTL DEF Spec

-----------------------------------------------------------------------------
(* Requests.  An id names one manifest, so an answered retry speaks of the     *)
(* very request that landed.                                                   *)

WireInv ==
  /\ \A r, q \in wire : r.id = q.id => r = q
  /\ \A i \in 1..Len(landed) : landed[i] \in wire
  /\ AckedIsLanded

\* What is on the wire is sound at the start.
LEMMA WireInit == (Init \/ InitUnbound) => WireInv
  BY DEF Init, InitUnbound, WireInv, AckedIsLanded

\* A step keeps what is on the wire sound.
LEMMA WireNext ==
  ASSUME TypeOK, ChainInv, WireInv, [Next]_vars
  PROVE  WireInv'
<1>1. CASE Claims
  BY <1>1 DEF Claims, Claim, WireInv, AckedIsLanded
<1>2. CASE Lands
  <2>1. PICK r \in wire : Land(r)
    BY <1>2 DEF Lands
  <2>2. wire' = wire /\ acked' = acked \cup {r}
    BY <2>1 DEF Land
  <2>3. Len(landed) \in Nat
    BY DEF TypeOK
  <2>4. /\ Len(landed') = Len(landed) + 1 /\ landed'[Len(landed) + 1] = r
        /\ \A i \in 1..Len(landed) : landed'[i] = landed[i]
    BY <2>1, LandExtends
  <2>5. \A i \in 1..Len(landed') : landed'[i] \in wire'
    BY <2>2, <2>3, <2>4 DEF WireInv
  <2>6. ASSUME NEW q \in acked' PROVE \E i \in 1..Len(landed') : landed'[i] = q
    <3>1. CASE q = r
      BY <3>1, <2>3, <2>4
    <3>2. CASE q \in acked
      <4>1. PICK i \in 1..Len(landed) : landed[i] = q
        BY <3>2 DEF WireInv, AckedIsLanded
      <4> QED
        BY <4>1, <2>3, <2>4
    <3> QED
      BY <3>1, <3>2, <2>2
  <2> QED
    BY <2>2, <2>5, <2>6 DEF WireInv, AckedIsLanded
<1>3. CASE Repeats
  <2>1. PICK r \in wire : LostAck(r)
    BY <1>3 DEF Repeats
  <2>2. UNCHANGED <<wire, landed>> /\ acked' = acked \cup {r}
    BY <2>1 DEF LostAck, storeVars
  <2>3. PICK i \in 1..Len(landed) : landed[i].id = r.id
    BY <2>1 DEF LostAck, RowAt
  <2>4. landed[i] = r
    BY <2>3 DEF WireInv
  <2> QED
    BY <2>2, <2>4 DEF WireInv, AckedIsLanded
<1>4. CASE Sends
  <2>1. PICK q \in Request : /\ q.id \notin {r.id : r \in wire} /\ wire' = wire \cup {q}
                            /\ UNCHANGED <<landed, acked>>
    BY <1>4 DEF Sends
  <2> QED
    BY <2>1 DEF WireInv, AckedIsLanded
<1>5. CASE Keeps
  BY <1>5 DEF Keeps, WireInv, AckedIsLanded
<1> QED
  BY <1>1, <1>2, <1>3, <1>4, <1>5, StepKinds

\* Every register answered as on the chain is on it.
THEOREM AckedLanded == Spec => []AckedIsLanded
<1>1. Init => ChainInv /\ WireInv
  BY ChainInit, WireInit
<1>2. TypeOK /\ (ChainInv /\ WireInv) /\ [Next]_vars => (ChainInv /\ WireInv)'
  BY ChainNext, WireNext
<1>3. ChainInv /\ WireInv => AckedIsLanded
  BY DEF WireInv
<1> QED
  BY <1>1, <1>2, <1>3, TypeCorrect, PTL DEF Spec

-----------------------------------------------------------------------------
(* Grants.  The lease names the holder its epoch was claimed for until it is   *)
(* freed, and a creator's epochs were claimed for Mend.                        *)

MendGrant == [executor |-> Mend, launch |-> None]

GrantInv ==
  /\ lease.executor # None =>
       granted[lease.epoch] = [executor |-> lease.executor, launch |-> lease.launch]
  /\ \A c \in Creator : creating[c] # 0 =>
       creating[c] <= lease.epoch /\ granted[creating[c]] = MendGrant
  /\ \A r \in wire : r.by \in Creator =>
       r.epoch <= lease.epoch /\ granted[r.epoch] = MendGrant
  /\ LandedByGrantee

\* The grants are sound at the start.
LEMMA GrantInit ==
  ASSUME Init \/ InitUnbound
  PROVE  GrantInv
<1>1. CASE Init
  BY <1>1, ConstantsAssumption DEF Init, GrantInv, LandedByGrantee
<1>2. CASE InitUnbound
  <2>1. PICK l \in Launch, live \in BOOLEAN :
          /\ lease = [executor |-> SessionOf[l], launch |-> None, epoch |-> 1, live |-> live]
          /\ granted = [e \in Epoch |->
               IF e = 1 THEN [executor |-> SessionOf[l], launch |-> None] ELSE Free]
    BY <1>2 DEF InitUnbound
  <2>2. 1 \in Epoch
    BY <1>2, ConstantsAssumption DEF InitUnbound, Epoch
  <2>3. wire = {} /\ landed = <<>> /\ creating = [c \in Creator |-> 0]
    BY <1>2 DEF InitUnbound
  <2> QED
    BY <2>1, <2>2, <2>3 DEF GrantInv, LandedByGrantee
<1> QED
  BY <1>1, <1>2

\* Grants of epochs claimed so far never change.
LEMMA GrantsStay ==
  ASSUME TypeOK, NEW p \in Party, Claim(p)
  PROVE  /\ \A e \in Epoch : e <= lease.epoch => granted'[e] = granted[e]
         /\ granted'[lease.epoch + 1] = [executor |-> ExecutorOf(p), launch |-> LaunchOf(p)]
         /\ lease' = [executor |-> ExecutorOf(p), launch |-> LaunchOf(p),
                      epoch |-> lease.epoch + 1, live |-> TRUE]
<1>1. lease.epoch \in Int /\ lease.epoch + 1 \in Epoch
  BY ClaimTypes DEF TypeOK, Epoch
<1>2. granted' = [granted EXCEPT ![lease.epoch + 1] =
                    [executor |-> ExecutorOf(p), launch |-> LaunchOf(p)]]
  BY DEF Claim
<1>3. \A e \in Epoch : e <= lease.epoch => e # lease.epoch + 1
  BY <1>1 DEF Epoch
<1>4. granted \in [Epoch -> Grant]
  BY DEF TypeOK
<1>5. \A e \in Epoch : e <= lease.epoch => granted'[e] = granted[e]
  BY <1>2, <1>3, <1>4
<1>6. granted'[lease.epoch + 1] = [executor |-> ExecutorOf(p), launch |-> LaunchOf(p)]
  BY <1>1, <1>2, <1>4
<1> QED
  BY <1>5, <1>6 DEF Claim

\* A step keeps every landed epoch granted to its launch.
LEMMA GrantNext ==
  ASSUME TypeOK, ChainInv, GrantInv, [Next]_vars
  PROVE  GrantInv'
<1>1. CASE Claims
  <2>1. PICK p \in Party :
          /\ Claim(p) /\ UNCHANGED wire
          /\ \/ p \in Launch /\ UNCHANGED creating
             \/ p \in Creator /\ creating' = [creating EXCEPT ![p] = lease.epoch + 1]
    BY <1>1 DEF Claims
  <2>2. /\ \A e \in Epoch : e <= lease.epoch => granted'[e] = granted[e]
        /\ granted'[lease.epoch + 1] = [executor |-> ExecutorOf(p), launch |-> LaunchOf(p)]
        /\ lease' = [executor |-> ExecutorOf(p), launch |-> LaunchOf(p),
                     epoch |-> lease.epoch + 1, live |-> TRUE]
    BY <2>1, GrantsStay
  <2>3. lease.epoch \in Int /\ UNCHANGED landed
    BY <2>1 DEF TypeOK, Claim
  <2>4. ASSUME NEW c \in Creator, creating'[c] # 0
        PROVE  creating'[c] <= lease'.epoch /\ granted'[creating'[c]] = MendGrant
    <3>1. CASE creating'[c] = creating[c]
      <4>1. creating[c] \in Epoch /\ creating[c] <= lease.epoch
        BY <2>4, <3>1 DEF TypeOK, GrantInv, Epoch
      <4> QED
        BY <2>2, <2>3, <2>4, <3>1, <4>1 DEF GrantInv, Epoch
    <3>2. CASE creating'[c] # creating[c]
      <4>1. p = c /\ creating'[c] = lease.epoch + 1
        BY <2>1, <3>2 DEF TypeOK
      <4>2. ExecutorOf(p) = Mend /\ LaunchOf(p) = None
        BY <4>1, ConstantsAssumption DEF ExecutorOf, LaunchOf
      <4> QED
        BY <2>2, <2>3, <4>1, <4>2 DEF MendGrant
    <3> QED
      BY <3>1, <3>2
  <2>5. ASSUME NEW r \in wire, r.by \in Creator
        PROVE  r.epoch <= lease'.epoch /\ granted'[r.epoch] = MendGrant
    <3>1. r.epoch \in Epoch
      BY DEF TypeOK, Request
    <3> QED
      BY <2>2, <2>3, <2>5, <3>1 DEF GrantInv, Epoch
  <2>6. LandedByGrantee'
    <3>1. \A i \in 1..Len(landed) : landed[i].epoch \in Epoch /\ landed[i].epoch <= lease.epoch
      BY DEF TypeOK, Request, ChainInv
    <3> QED
      BY <2>2, <2>3, <3>1 DEF GrantInv, LandedByGrantee
  <2> QED
    BY <2>1, <2>2, <2>4, <2>5, <2>6 DEF GrantInv
<1>2. CASE Lands
  <2>1. PICK r \in wire : Land(r)
    BY <1>2 DEF Lands
  <2>2. Len(landed) \in Nat /\ r \in Request
    BY DEF TypeOK
  <2>3. UNCHANGED <<lease, granted, wire, creating>>
    BY <2>1 DEF Land
  <2>4. /\ Len(landed') = Len(landed) + 1 /\ landed'[Len(landed) + 1] = r
        /\ \A i \in 1..Len(landed) : landed'[i] = landed[i]
        /\ r.epoch = lease.epoch
    BY <2>1, LandExtends
  <2>5. granted[r.epoch].executor = ExecutorOf(r.by)
        /\ granted[r.epoch].launch \in {None, LaunchOf(r.by)}
    <3>1. CASE r.by \in Launch
      <4>1. Holds(lease, r.by) /\ ExecutorOf(r.by) # None
        BY <2>1, <3>1, ConstantsAssumption DEF Land, CanLand, ExecutorOf
      <4> QED
        BY <2>4, <4>1 DEF GrantInv, Holds
    <3>2. CASE r.by \in Creator
      <4>1. ExecutorOf(r.by) = Mend
        BY <3>2, ConstantsAssumption DEF ExecutorOf
      <4> QED
        BY <3>2, <4>1 DEF GrantInv, MendGrant
    <3> QED
      BY <2>2, <3>1, <3>2 DEF Request, Party
  <2>6. ASSUME NEW i \in 1..Len(landed')
        PROVE  /\ granted'[landed'[i].epoch].executor = ExecutorOf(landed'[i].by)
               /\ granted'[landed'[i].epoch].launch \in {None, LaunchOf(landed'[i].by)}
    <3>1. CASE i \in 1..Len(landed)
      BY <2>3, <2>4, <3>1 DEF GrantInv, LandedByGrantee
    <3>2. CASE i = Len(landed) + 1
      BY <2>3, <2>4, <2>5, <3>2
    <3> QED
      BY <2>2, <2>4, <3>1, <3>2
  <2> QED
    BY <2>3, <2>6 DEF GrantInv, LandedByGrantee
<1>3. CASE Repeats
  BY <1>3 DEF Repeats, LostAck, storeVars, GrantInv, LandedByGrantee
<1>4. CASE Sends
  <2>1. PICK q \in Request :
          /\ wire' = wire \cup {q}
          /\ q.by \in Creator => creating[q.by] # 0 /\ q.epoch = creating[q.by]
          /\ UNCHANGED <<lease, landed, granted, creating>>
    BY <1>4 DEF Sends
  <2> QED
    BY <2>1 DEF GrantInv, LandedByGrantee
<1>5. CASE Keeps
  <2>1. LandedByGrantee'
    BY <1>5 DEF Keeps, GrantInv, LandedByGrantee
  <2>2. \A c \in Creator : creating'[c] # 0 => creating'[c] = creating[c]
    BY <1>5 DEF Keeps
  <2> QED
    BY <1>5, <2>1, <2>2 DEF Keeps, GrantInv
<1> QED
  BY <1>1, <1>2, <1>3, <1>4, <1>5, StepKinds

\* No launch's capture lands under an epoch claimed for another one, for any
\* number of launches of any number of sessions...
THEOREM LandedGranted == Spec => []LandedByGrantee
<1>1. Init => ChainInv /\ GrantInv
  BY ChainInit, GrantInit
<1>2. TypeOK /\ (ChainInv /\ GrantInv) /\ [Next]_vars => (ChainInv /\ GrantInv)'
  BY ChainNext, GrantNext
<1>3. ChainInv /\ GrantInv => LandedByGrantee
  BY DEF GrantInv
<1> QED
  BY <1>1, <1>2, <1>3, TypeCorrect, PTL DEF Spec

\* The types hold from a lease that names no launch.
LEMMA TypeInitUnbound == InitUnbound => TypeOK
<1> SUFFICES ASSUME InitUnbound PROVE TypeOK
  OBVIOUS
<1> USE ConstantsAssumption
<1>1. PICK l \in Launch, live \in BOOLEAN :
        /\ lease = [executor |-> SessionOf[l], launch |-> None, epoch |-> 1, live |-> live]
        /\ granted = [e \in Epoch |->
             IF e = 1 THEN [executor |-> SessionOf[l], launch |-> None] ELSE Free]
  BY DEF InitUnbound
<1>2. 1 \in Epoch /\ 1 \in 0..MaxEpoch
  BY DEF InitUnbound, Epoch
<1>3. granted \in [Epoch -> Grant]
  BY <1>1 DEF Grant, Free
<1>4. chain \in [n : Nat \cup {-1}, head : CaptureOrNone, epoch : 0..MaxEpoch]
  BY <1>2 DEF InitUnbound, CaptureOrNone
<1>5. lease \in [executor : Session \cup {Mend, None}, launch : Launch \cup {None},
                 epoch : 0..MaxEpoch, live : BOOLEAN]
  BY <1>1, <1>2
<1>6. lease.executor # None => lease.epoch \in Epoch
  BY <1>1, <1>2
<1> QED
  BY <1>3, <1>4, <1>5, <1>6 DEF InitUnbound, TypeOK

\* ... and from a lease made before leases named launches.
THEOREM LandedGrantedUnbound == SpecUnbound => []LandedByGrantee
<1>1. InitUnbound => TypeOK /\ ChainInv /\ GrantInv
  BY TypeInitUnbound, ChainInit, GrantInit
<1>2. TypeOK /\ ChainInv /\ GrantInv /\ [Next]_vars => (TypeOK /\ ChainInv /\ GrantInv)'
  BY TypeNext, ChainNext, GrantNext
<1>3. TypeOK /\ ChainInv /\ GrantInv => LandedByGrantee
  BY DEF GrantInv
<1> QED
  BY <1>1, <1>2, <1>3, PTL DEF SpecUnbound

-----------------------------------------------------------------------------
(* The refinement: a claim advances the fence, a landing appends, and every    *)
(* other step stutters.                                                        *)

\* A step of the store is a step of the fenced log, or a stutter.
LEMMA LogNext ==
  ASSUME TypeOK, ChainInv, WireInv, [Next]_vars
  PROVE  [Log!Next]_(Log!vars)
<1> DEFINE logOf == [i \in 1..Len(landed) |->
                       [value |-> landed[i].id, epoch |-> landed[i].epoch]]
<1>1. ASSUME UNCHANGED landed PROVE UNCHANGED logOf
  BY <1>1
<1>2. CASE Claims
  <2>1. lease'.epoch = lease.epoch + 1 /\ UNCHANGED landed
    BY <1>2 DEF Claims, Claim
  <2> QED
    BY <1>1, <2>1 DEF Log!Next, Log!Advance
<1>3. CASE Lands
  <2>1. PICK r \in wire : Land(r)
    BY <1>3 DEF Lands
  <2> DEFINE m == Len(landed)
             entry == [value |-> r.id, epoch |-> lease.epoch]
  <2>2. m \in Nat /\ r.id \in Capture
    BY DEF TypeOK, Request
  <2>3. /\ Len(landed') = m + 1 /\ landed'[m + 1] = r
        /\ \A i \in 1..m : landed'[i] = landed[i]
        /\ r.n = m /\ r.epoch = lease.epoch /\ UNCHANGED lease
    BY <2>1, LandExtends
  <2>4. \A i \in 1..m : landed[i].id # r.id
    <3> SUFFICES ASSUME NEW i \in 1..m, landed[i].id = r.id PROVE FALSE
      OBVIOUS
    <3>1. landed[i] = r
      BY DEF WireInv
    <3>2. landed[i].n = i - 1
      BY DEF ChainInv, ChainIsLinear
    <3> QED
      BY <2>2, <2>3, <3>1, <3>2
  <2>5. Len(logOf) = m /\ \A i \in 1..m : logOf[i].value = landed[i].id
    BY <2>2
  <2>6. logOf' = Append(logOf, entry)
    <3>1. logOf' = [i \in 1..(m + 1) |-> [value |-> landed'[i].id, epoch |-> landed'[i].epoch]]
      BY <2>3
    <3>2. \A i \in 1..(m + 1) : [value |-> landed'[i].id, epoch |-> landed'[i].epoch] =
            IF i = m + 1 THEN entry ELSE logOf[i]
      BY <2>2, <2>3
    <3>3. logOf \in Seq([value : Capture, epoch : Epoch])
      BY <2>2 DEF TypeOK, Request
    <3>4. Append(logOf, entry) =
            [i \in 1..(m + 1) |-> IF i = m + 1 THEN entry ELSE logOf[i]]
      BY <2>2, <2>5, <3>3
    <3> QED
      BY <3>1, <3>2, <3>4
  <2>7. Log!Append1(r.id)
    BY <2>3, <2>4, <2>5, <2>6 DEF Log!Append1
  <2> QED
    BY <2>2, <2>7 DEF Log!Next
<1>4. CASE Repeats
  BY <1>1, <1>4 DEF Repeats, LostAck, storeVars, Log!vars
<1>5. CASE Sends
  BY <1>1, <1>5 DEF Sends, Log!vars
<1>6. CASE Keeps
  BY <1>1, <1>6 DEF Keeps, Log!vars
<1> QED
  BY <1>2, <1>3, <1>4, <1>5, <1>6, StepKinds

\* The lease and the chain implement the fenced log.
THEOREM ImplementsFencedLog == Spec => IsFencedLog
<1>1. Init => Log!Init
  BY DEF Init, Log!Init
<1>2. Init => ChainInv /\ WireInv
  BY ChainInit, WireInit
<1>3. TypeOK /\ (ChainInv /\ WireInv) /\ [Next]_vars => (ChainInv /\ WireInv)'
  BY ChainNext, WireNext
<1>4. TypeOK /\ (ChainInv /\ WireInv) /\ [Next]_vars => [Log!Next]_(Log!vars)
  BY LogNext
<1> QED
  BY <1>1, <1>2, <1>3, <1>4, TypeCorrect, PTL DEF Spec, IsFencedLog, Log!Spec

-----------------------------------------------------------------------------
(* Handing over.  A lease without a holder is one a release ended.             *)

HandInv ==
  /\ lease.executor = None /\ lease.epoch # 0 => lease.epoch \in released
  /\ HandedOverOnlyReleased

\* A step hands a lease over only after its release.
LEMMA HandNext ==
  ASSUME TypeOK, ChainInv, GrantInv, HandInv, [Next]_vars
  PROVE  HandInv'
<1>1. CASE Claims
  <2>1. PICK p \in Party : Claim(p)
    BY <1>1 DEF Claims
  <2>2. /\ \A e \in Epoch : e <= lease.epoch => granted'[e] = granted[e]
        /\ granted'[lease.epoch + 1] = [executor |-> ExecutorOf(p), launch |-> LaunchOf(p)]
        /\ lease' = [executor |-> ExecutorOf(p), launch |-> LaunchOf(p),
                     epoch |-> lease.epoch + 1, live |-> TRUE]
    BY <2>1, GrantsStay
  <2>3. UNCHANGED released /\ Claimable(p) /\ lease.epoch < MaxEpoch
    BY <2>1 DEF Claim
  <2>4. lease.epoch \in Nat
    BY ConstantsAssumption DEF TypeOK
  <2>5. ExecutorOf(p) # None
    BY ConstantsAssumption DEF ExecutorOf
  <2>6. ASSUME NEW e \in 1..lease.epoch
        PROVE  \/ e \in released'
               \/ granted'[e].executor = Mend
               \/ /\ granted'[e].executor = granted'[e + 1].executor
                  /\ granted'[e].launch \in {None, granted'[e + 1].launch}
    <3>1. e \in Epoch /\ granted'[e] = granted[e]
      BY <2>2, <2>3, <2>4, ConstantsAssumption DEF Epoch
    <3>2. CASE e < lease.epoch
      <4>1. granted'[e + 1] = granted[e + 1] /\ e \in 1..(lease.epoch - 1)
        BY <2>2, <2>3, <2>4, <3>2, ConstantsAssumption DEF Epoch
      <4> QED
        BY <2>3, <3>1, <4>1 DEF HandInv, HandedOverOnlyReleased
    <3>3. CASE e = lease.epoch /\ lease.executor = None
      BY <2>3, <2>4, <3>3 DEF HandInv
    <3>4. CASE e = lease.epoch /\ lease.executor # None
      <4>1. granted'[e] = [executor |-> lease.executor, launch |-> lease.launch]
        BY <3>1, <3>4 DEF GrantInv
      <4>2. granted'[e + 1] = [executor |-> ExecutorOf(p), launch |-> LaunchOf(p)]
        BY <2>2, <3>4
      <4>3. CASE lease.executor = Mend
        BY <4>1, <4>3
      <4>4. CASE lease.executor # Mend
        <5>1. /\ lease.executor = ExecutorOf(p)
              /\ lease.launch = None \/ LaunchOf(p) = None \/ lease.launch = LaunchOf(p)
          BY <2>3, <3>4, <4>4 DEF Claimable
        <5>2. p \in Launch /\ LaunchOf(p) # None
          BY <4>4, <5>1, ConstantsAssumption DEF ExecutorOf, LaunchOf
        <5> QED
          BY <4>1, <4>2, <5>1, <5>2
      <4> QED
        BY <4>3, <4>4
    <3> QED
      BY <2>4, <3>2, <3>3, <3>4
  <2> QED
    BY <2>2, <2>4, <2>5, <2>6 DEF HandInv, HandedOverOnlyReleased
<1>2. CASE Lands
  BY <1>2 DEF Lands, Land, HandInv, HandedOverOnlyReleased
<1>3. CASE Repeats
  BY <1>3 DEF Repeats, LostAck, storeVars, HandInv, HandedOverOnlyReleased
<1>4. CASE Sends
  BY <1>4 DEF Sends, HandInv, HandedOverOnlyReleased
<1>5. CASE Keeps
  BY <1>5 DEF Keeps, HandInv, HandedOverOnlyReleased
<1> QED
  BY <1>1, <1>2, <1>3, <1>4, <1>5, StepKinds

\* A lapsed lease is never handed to another launch or session: only the release
\* of that epoch is.
THEOREM HandedOver == Spec => []HandedOverOnlyReleased
<1>1. Init => ChainInv /\ GrantInv
  BY ChainInit, GrantInit
<1>2. Init => HandInv
  BY DEF Init, HandInv, HandedOverOnlyReleased
<1>3. TypeOK /\ (ChainInv /\ GrantInv /\ HandInv) /\ [Next]_vars
        => (ChainInv /\ GrantInv /\ HandInv)'
  BY ChainNext, GrantNext, HandNext
<1>4. ChainInv /\ GrantInv /\ HandInv => HandedOverOnlyReleased
  BY DEF HandInv
<1> QED
  BY <1>1, <1>2, <1>3, <1>4, TypeCorrect, PTL DEF Spec

-----------------------------------------------------------------------------
(* Seals and releases.  Both speak of an epoch's grant, which is settled once  *)
(* the epoch is claimed, and of rows that only grow in number.                 *)

\* What was granted and what landed stays so.
LEMMA Settled ==
  ASSUME TypeOK, ChainInv, [Next]_vars
  PROVE  /\ lease'.epoch >= lease.epoch
         /\ \A e \in Epoch : e <= lease.epoch => granted'[e] = granted[e]
         /\ \A i \in 1..Len(landed) : i \in 1..Len(landed') /\ landed'[i] = landed[i]
<1>0. lease.epoch \in Int /\ Len(landed) \in Nat
  BY DEF TypeOK
<1>1. CASE Claims
  <2>1. PICK p \in Party : Claim(p)
    BY <1>1 DEF Claims
  <2>2. UNCHANGED landed
    BY <2>1 DEF Claim
  <2>3. lease'.epoch = lease.epoch + 1
    BY <2>1, ClaimTypes
  <2>4. \A e \in Epoch : e <= lease.epoch => granted'[e] = granted[e]
    BY <2>1, GrantsStay
  <2> QED
    BY <1>0, <2>2, <2>3, <2>4
<1>2. CASE Lands
  <2>1. PICK r \in wire : Land(r)
    BY <1>2 DEF Lands
  <2>2. UNCHANGED granted
    BY <2>1 DEF Land
  <2> QED
    BY <1>0, <2>1, <2>2, LandExtends
<1>3. CASE Repeats
  BY <1>0, <1>3 DEF Repeats, LostAck, storeVars
<1>4. CASE Sends \/ Keeps
  BY <1>0, <1>4 DEF Sends, Keeps
<1> QED
  BY <1>1, <1>2, <1>3, <1>4, StepKinds

\* A seal of a request that landed, by its launch, under the live lease, as the head.
Seals(r) ==
  /\ r.final /\ r.by \in Launch /\ r.epoch \in Epoch /\ r.n \in Nat
  /\ lease.epoch = r.epoch /\ lease.live /\ Holds(lease, r.by)
  /\ chain'.head = r.id
  /\ \E i \in 1..Len(landed') : landed'[i] = r
  /\ seals' = Sealed(r)

\* Seals are recorded so, or stay.
LEMMA SealSteps ==
  ASSUME TypeOK, ChainInv, WireInv, [Next]_vars, seals' # seals
  PROVE  \E r \in wire : Seals(r)
<1>1. PICK r \in wire : Land(r) \/ RecordSeal(r)
  BY DEF Next, vars, storeVars, callVars, LaunchClaim, PlanClaim, CreatorClaim, Claim,
     RenewReserved, Heartbeat, Renew, PlanHeld, PlanRead, PlanRefused, End, Compose, Admit,
     LostAck, Conflict, Learn, CreatorRegister, CreatorRelease, CreatorCrash, Lapse, Judge,
     EngineRelease, Release, Thin
<1>2. r \in Request /\ Len(landed) \in Nat
  BY DEF TypeOK
<1>3. CASE Land(r)
  <2>1. r.final /\ Holds(lease, r.by) /\ seals' = Sealed(r)
    BY <1>3 DEF Land
  <2>2. lease.epoch = r.epoch /\ lease.live /\ chain'.head = r.id
    BY <1>3 DEF Land, CanLand
  <2>3. \E i \in 1..Len(landed') : landed'[i] = r
    BY <1>2, <1>3, LandExtends
  <2> QED
    BY <1>2, <2>1, <2>2, <2>3 DEF Seals, Request
<1>4. CASE RecordSeal(r)
  <2>1. /\ RowAt(r.n, r.id) /\ chain.head = r.id
        /\ lease.epoch = r.epoch /\ lease.live /\ Holds(lease, r.by)
        /\ seals' = Sealed(r) /\ UNCHANGED <<chain, landed>>
    BY <1>4 DEF RecordSeal
  <2>2. r.final
    BY <1>4 DEF RecordSeal, TypeOK
  <2>3. \E i \in 1..Len(landed') : landed'[i] = r
    BY <2>1 DEF RowAt, WireInv
  <2> QED
    BY <1>2, <2>1, <2>2, <2>3 DEF Seals, Request
<1> QED
  BY <1>1, <1>3, <1>4

\* A recorded seal is of its own epoch, and replaces only one of a smaller number.
LEMMA SealedIs ==
  ASSUME TypeOK, NEW r, Seals(r), NEW e \in Epoch
  PROVE  \/ seals'[e] = seals[e]
         \/ /\ e = r.epoch
            /\ seals[e] # None => seals[e].n < r.n
            /\ seals'[e] = [launch |-> r.by, capture |-> r.id, n |-> r.n]
  BY DEF TypeOK, Seals, Sealed

\* A step keeps every seal of a capture of its own launch, landed in its epoch.
LEMMA SealNext ==
  ASSUME TypeOK, ChainInv, WireInv, GrantInv, SealsNameTheirCapture, [Next]_vars
  PROVE  SealsNameTheirCapture'
<1> SUFFICES ASSUME NEW e \in Epoch, seals'[e] # None
             PROVE  /\ granted'[e].launch \in {None, seals'[e].launch}
                    /\ \E i \in 1..Len(landed') :
                         /\ landed'[i].id = seals'[e].capture /\ landed'[i].n = seals'[e].n
                         /\ landed'[i].epoch = e /\ landed'[i].final
                         /\ landed'[i].by = seals'[e].launch
  BY DEF SealsNameTheirCapture
<1>1. CASE seals'[e] = seals[e]
  <2>1. PICK i \in 1..Len(landed) :
          /\ landed[i].id = seals[e].capture /\ landed[i].n = seals[e].n
          /\ landed[i].epoch = e /\ landed[i].final /\ landed[i].by = seals[e].launch
    BY <1>1 DEF SealsNameTheirCapture
  <2>2. e <= lease.epoch
    BY <2>1 DEF ChainInv
  <2>3. granted'[e] = granted[e] /\ i \in 1..Len(landed') /\ landed'[i] = landed[i]
    BY <2>2, Settled
  <2> QED
    BY <1>1, <2>1, <2>3 DEF SealsNameTheirCapture
<1>2. CASE seals'[e] # seals[e]
  <2>1. PICK r \in wire : Seals(r)
    BY <1>2, SealSteps
  <2>2. e = r.epoch /\ seals'[e] = [launch |-> r.by, capture |-> r.id, n |-> r.n]
    BY <1>2, <2>1, SealedIs
  <2>3. granted[e] = [executor |-> lease.executor, launch |-> lease.launch]
    BY <2>1, <2>2, ConstantsAssumption DEF Seals, Holds, ExecutorOf, GrantInv
  <2>4. lease.launch \in {None, r.by}
    BY <2>1 DEF Seals, Holds, LaunchOf
  <2>5. granted'[e] = granted[e]
    BY <2>1, <2>2, Settled DEF Seals, TypeOK
  <2>6. PICK i \in 1..Len(landed') : landed'[i] = r
    BY <2>1 DEF Seals
  <2> QED
    BY <2>1, <2>2, <2>3, <2>4, <2>5, <2>6 DEF Seals
<1> QED
  BY <1>1, <1>2

\* A seal stands for a final capture of its own launch that landed in the epoch it
\* is recorded for, however late the checks that let it be recorded ended.
THEOREM SealsNamed == Spec => []SealsNameTheirCapture
<1>1. Init => ChainInv /\ WireInv /\ GrantInv /\ SealsNameTheirCapture
  BY ChainInit, WireInit, GrantInit DEF Init, SealsNameTheirCapture
<1>2. TypeOK /\ (ChainInv /\ WireInv /\ GrantInv /\ SealsNameTheirCapture) /\ [Next]_vars
        => (ChainInv /\ WireInv /\ GrantInv /\ SealsNameTheirCapture)'
  BY ChainNext, WireNext, GrantNext, SealNext
<1> QED
  BY <1>1, <1>2, TypeCorrect, PTL DEF Spec

\* A seal is replaced only by one of a later capture, the chain's head, and only
\* while its epoch is the live lease's.
THEOREM SealsForward == Spec => SealsMoveForward
<1> DEFINE Forward ==
  \A e \in Epoch : seals'[e] # seals[e] =>
    /\ e = lease.epoch /\ lease.live
    /\ seals[e] # None => seals[e].n < seals'[e].n
    /\ seals'[e].capture = chain'.head
<1>1. Init => ChainInv /\ WireInv
  BY ChainInit, WireInit
<1>2. TypeOK /\ (ChainInv /\ WireInv) /\ [Next]_vars => (ChainInv /\ WireInv)'
  BY ChainNext, WireNext
<1>3. TypeOK /\ (ChainInv /\ WireInv) /\ [Next]_vars => [Forward]_vars
  <2> SUFFICES ASSUME TypeOK, ChainInv, WireInv, [Next]_vars, NEW e \in Epoch,
                      seals'[e] # seals[e]
               PROVE  /\ e = lease.epoch /\ lease.live
                      /\ seals[e] # None => seals[e].n < seals'[e].n
                      /\ seals'[e].capture = chain'.head
    OBVIOUS
  <2>1. PICK r \in wire : Seals(r)
    BY SealSteps
  <2>2. /\ e = r.epoch
        /\ seals[e] # None => seals[e].n < r.n
        /\ seals'[e] = [launch |-> r.by, capture |-> r.id, n |-> r.n]
    BY <2>1, SealedIs
  <2> QED
    BY <2>1, <2>2 DEF Seals
<1> QED
  BY <1>1, <1>2, <1>3, TypeCorrect, PTL DEF Spec, SealsMoveForward

\* The epoch's holder ended.
GranteeEnded(e) ==
  granted[e].executor # Mend =>
    \E l \in ended : SessionOf[l] = granted[e].executor /\ granted[e].launch \in {None, l}

\* ReleasedHadEnded rests on what the engine read before it decided.
EndedInv == \A e \in judged \cup released : e <= lease.epoch /\ GranteeEnded(e)

\* What a step adds to the epochs released or to be released.
LEMMA ReleaseSteps ==
  ASSUME TypeOK, [Next]_vars, NEW e \in (judged \cup released)', e \notin judged \cup released
  PROVE  \/ Judge /\ e = lease.epoch
         \/ \E c \in Creator : creating[c] = e /\ e # 0
<1> USE DEF vars, storeVars, callVars
<1>1. CASE Judge
  BY <1>1 DEF Judge
<1>2. ASSUME NEW d \in judged, EngineRelease(d) PROVE FALSE
  BY <1>2 DEF EngineRelease, Release
<1>3. ASSUME NEW c \in Creator, CreatorRelease(c) PROVE creating[c] = e /\ e # 0
  BY <1>3 DEF CreatorRelease, Release
<1> QED
  BY <1>1, <1>2, <1>3
  DEF Next, LaunchClaim, PlanClaim, CreatorClaim, Claim, RenewReserved, Heartbeat, Renew,
      PlanHeld, PlanRead, PlanRefused, End, Compose, Admit, Land, LostAck, Conflict,
      RecordSeal, Learn, CreatorRegister, CreatorCrash, Lapse, Thin

\* No step takes an observed end back.
LEMMA EndsStay ==
  ASSUME [Next]_vars PROVE ended \subseteq ended'
  BY DEF Next, vars, storeVars, callVars, LaunchClaim, PlanClaim, CreatorClaim, Claim,
     RenewReserved, Heartbeat, Renew, PlanHeld, PlanRead, PlanRefused, End, Compose, Admit,
     Land, LostAck, Conflict, RecordSeal, Learn, CreatorRegister, CreatorRelease,
     CreatorCrash, Lapse, Judge, EngineRelease, Thin

\* A step releases only what had ended, whatever was claimed since the engine read.
LEMMA EndedNext ==
  ASSUME TypeOK, ChainInv, GrantInv, EndedInv, [Next]_vars
  PROVE  EndedInv'
<1> SUFFICES ASSUME NEW e \in (judged \cup released)'
             PROVE  (e <= lease.epoch /\ GranteeEnded(e))'
  BY DEF EndedInv
<1>0. e \in Epoch /\ lease.epoch \in Int /\ lease'.epoch \in Int
  BY TypeNext DEF TypeOK
<1>1. e <= lease.epoch /\ GranteeEnded(e)
  <2>1. CASE e \in judged \cup released
    BY <2>1 DEF EndedInv
  <2>2. CASE Judge /\ e = lease.epoch
    <3>1. PICK l \in ended : SessionOf[l] = lease.executor /\ lease.launch \in {None, l}
      BY <2>2 DEF Judge, HolderEnded
    <3>2. granted[e] = [executor |-> lease.executor, launch |-> lease.launch]
      BY <2>2, <3>1, ConstantsAssumption DEF GrantInv, TypeOK
    <3> QED
      BY <1>0, <2>2, <3>1, <3>2 DEF GranteeEnded
  <2>3. ASSUME NEW c \in Creator, creating[c] = e, e # 0 PROVE e <= lease.epoch /\ GranteeEnded(e)
    BY <2>3 DEF GrantInv, MendGrant, GranteeEnded
  <2> QED
    BY <2>1, <2>2, <2>3, ReleaseSteps
<1>2. granted'[e] = granted[e] /\ lease'.epoch >= lease.epoch
  BY <1>0, <1>1, Settled
<1> QED
  BY <1>0, <1>1, <1>2, EndsStay DEF GranteeEnded, Epoch

\* No epoch of a launch still running is released, however long the engine's
\* decision is from the read it rests on.
THEOREM ReleasedEnded == Spec => []ReleasedHadEnded
<1>1. Init => ChainInv /\ GrantInv /\ EndedInv
  BY ChainInit, GrantInit DEF Init, EndedInv
<1>2. TypeOK /\ (ChainInv /\ GrantInv /\ EndedInv) /\ [Next]_vars
        => (ChainInv /\ GrantInv /\ EndedInv)'
  BY ChainNext, GrantNext, EndedNext
<1>3. ChainInv /\ GrantInv /\ EndedInv => ReleasedHadEnded
  BY DEF EndedInv, GranteeEnded, ReleasedHadEnded
<1> QED
  BY <1>1, <1>2, <1>3, TypeCorrect, PTL DEF Spec
=============================================================================
