---------------------------- MODULE HandedOutProofs ----------------------------
(***************************************************************************)
(* Safety of what Mend hands out to executors.                             *)
(*                                                                         *)
(* Pickup tickets, for any tickets, requests and channels: one redemption  *)
(* and one answer each, and tokens that end with what they were for.       *)
(*                                                                         *)
(* Upload URLs and the seals over what they upload (Seals), for any keys,  *)
(* epochs, captures, calls and readers, and any times: that every URL is   *)
(* on record while it lives, and that an object whose name says its bytes  *)
(* keeps them once a seal that lists it was told standing.  It rests on    *)
(* one inductive invariant, SealsInv.  The last part of the module adds    *)
(* IndexInv: what of that pack indexes keep, whose names do not say their  *)
(* bytes, as long as no call signs when its own binding may be gone.       *)
(***************************************************************************)
EXTENDS PickupTickets, SealState, FiniteSetTheorems, TLAPS

Seals == INSTANCE CaptureSeal

(* The request that has a ticket's one redemption: it took the ticket and was
   answered, or may be. *)
Owner(r) == req[r].at \in {"asking", "issuing", "revoking"} \/ req[r].got = r

(* Requests name a ticket and a channel once they are asked, and nothing is
   got before the end. *)
Well(x) ==
  /\ x.at = "idle" <=> x.ticket = Nobody
  /\ x.at = "idle" => x.on = Nobody
  /\ x.at = "waiting" => x.channel \in Channel
  /\ x.at \in {"idle", "asking", "issuing", "waiting", "failed", "revoking"} => x.got = Nobody
  /\ x.at \in {"answered", "failed"} => x.ticket \in Identity
  /\ x.at = "issuing" => x.ticket \in Identity \cup Write
  /\ x.at = "revoking" => x.ticket \in Write

ReqInv == \A r \in Request : Well(req[r])

(* A ticket is held, or one request at most has its redemption. *)
OwnInv ==
  /\ \A r \in Request : Owner(r) => req[r].ticket \in minted \ held
  /\ \A r, q \in Request : Owner(r) /\ Owner(q) /\ req[r].ticket = req[q].ticket => r = q

(* What a request waits for, what is being made, kept or got is of its ticket,
   and got through its channel. *)
Alike(r, q) == req[r].ticket = req[q].ticket /\ req[r].channel = req[q].channel

LinkInv ==
  \A r \in Request :
    /\ req[r].at = "waiting" => req[r].on \in Request /\ Alike(req[r].on, r)
    /\ req[r].got # Nobody =>
         /\ req[r].got \in Request /\ Alike(req[r].got, r)
         /\ req[req[r].got].got = req[r].got

TableInv ==
  \A t \in Identity :
    /\ making[t] # Nobody => making[t] \in Request /\ req[making[t]].ticket = t
    /\ answers[t] # Nobody => /\ answers[t] \in Request /\ req[answers[t]].ticket = t
                         /\ req[answers[t]].got = answers[t]

(* Tickets whose exec ended are not held, nor will a failed answer put one back. *)
EndInv == held \cap over = {} /\ spent \cap over \subseteq dropped

(* A write's entry and the request its mint is in flight in. *)
WriteInv ==
  \A w \in Write :
    /\ w \in over => writes[w] \in {"none", "doomed"}
    /\ writes[w] = "doomed" => w \in over
    /\ w \notin minted => writes[w] = "none"
    /\ writes[w] \in {"minting", "doomed"} =>
         \E r \in Request : req[r].at = "issuing" /\ req[r].ticket = w
    /\ handed[w] # Nobody => writes[w] = "handed"

MintInv ==
  \A r \in Request :
    req[r].at = "issuing" /\ req[r].ticket \in Write =>
      writes[req[r].ticket] \in {"minting", "doomed"}

(* Tokens: where each one the store accepts is remembered. *)
Remembered(r) == r \in revoking \/ (sweeping /\ r \in pending) \/ r \in strayed

TokenInv ==
  /\ lapsed \cap valid = {}
  /\ \A r \in Request : req[r].at \in {"idle", "asking", "issuing", "waiting"}
                          => r \notin valid \cup lapsed
  /\ \A r \in valid : req[r].ticket \in Write =>
       handed[req[r].ticket] = r \/ Remembered(r)

PendInv == IsFiniteSet(pending) /\ Cardinality(pending) <= MaxPending

Inv == /\ TypeOK /\ ReqInv /\ OwnInv /\ LinkInv /\ TableInv /\ EndInv /\ WriteInv
       /\ MintInv /\ TokenInv /\ PendInv

-----------------------------------------------------------------------------
LEMMA InitInv ==
  ASSUME TicketsAssumption PROVE Init => Inv
<1> SUFFICES ASSUME Init PROVE Inv
  OBVIOUS
<1> USE TicketsAssumption DEF Init
<1>1. TypeOK
  BY DEF TypeOK, Requests, Stages
<1>2. ReqInv /\ OwnInv /\ LinkInv /\ TableInv /\ EndInv /\ WriteInv /\ MintInv /\ TokenInv
  <2>1. ReqInv /\ LinkInv /\ MintInv /\ TokenInv
    BY DEF ReqInv, Well, LinkInv, MintInv, TokenInv
  <2>2. OwnInv
    BY DEF OwnInv, Owner, TicketsAssumption
  <2>3. TableInv /\ EndInv /\ WriteInv
    BY DEF TableInv, EndInv, WriteInv
  <2>4. QED
    BY <2>1, <2>2, <2>3
<1>3. PendInv
  BY FS_EmptySet DEF PendInv, TicketsAssumption
<1>4. QED
  BY <1>1, <1>2, <1>3 DEF Inv

(* How one request changes: what it is at, presents, waits for and got. *)
Becomes(r, a, t, c, o, g) ==
  /\ req' \in [Request -> Requests]
  /\ req'[r] = [at |-> a, ticket |-> t, channel |-> c, on |-> o, got |-> g]
  /\ \A q \in Request \ {r} : req'[q] = req[q]

(* One who presents ticket t through channel c, for the first time or again. *)
Presenting(r, t, c, a) ==
  /\ r \in Request /\ t \in Ticket /\ c \in Channel
  /\ req[r].at = a /\ a \in {"idle", "waiting"}
  /\ a = "waiting" => req[r].ticket = t /\ req[r].channel = c

Shown(t, c, a) == [at |-> a, ticket |-> t, channel |-> c, on |-> Nobody, got |-> Nobody]

(* The outcomes of taking a ticket held, and of one not held. *)
Took(r, t, c) ==
  /\ t \in held /\ held' = held \ {t} /\ spent' = spent \cup {t}
  /\ \/ t \in Plain /\ Becomes(r, "over", t, c, Nobody, r) /\ UNCHANGED <<making, writes>>
     \/ /\ t \in Identity /\ Becomes(r, "issuing", t, c, Nobody, Nobody)
        /\ making' = [making EXCEPT ![t] = r] /\ UNCHANGED writes
     \/ /\ t \in Write /\ Becomes(r, "issuing", t, c, Nobody, Nobody) /\ BeginMint(t)
        /\ writes' = [writes EXCEPT ![t] = "minting"] /\ UNCHANGED making
     \/ \E a \in {"asking", "over"} :
          Becomes(r, a, t, c, Nobody, Nobody) /\ UNCHANGED <<making, writes>>

Missed(r, t, c) ==
  /\ UNCHANGED <<held, spent, making, writes>>
  /\ \/ \E m \in Request : /\ t \in Identity /\ m = making[t] /\ req[m].channel = c
                            /\ Becomes(r, "waiting", t, c, m, Nobody)
     \/ \E k \in Request : /\ t \in Identity /\ k = answers[t] /\ req[k].channel = c
                            /\ Becomes(r, "over", t, c, Nobody, k)
     \/ Becomes(r, "over", t, c, Nobody, Nobody)

LEMMA Becoming ==
  ASSUME TypeOK, NEW r \in Request, NEW t \in Ticket \cup {Nobody},
         NEW c \in Channel \cup {Nobody}, NEW a \in Stages, NEW o \in Request \cup {Nobody}, NEW g \in Request \cup {Nobody},
         req' = [req EXCEPT ![r] =
                   [at |-> a, ticket |-> t, channel |-> c, on |-> o, got |-> g]]
  PROVE  Becomes(r, a, t, c, o, g)
BY DEF TypeOK, Becomes, Requests

LEMMA RedeemCases ==
  ASSUME TypeOK, NEW r, NEW t, NEW c, NEW a, Presenting(r, t, c, a), Redeem(r, Shown(t, c, a))
  PROVE  /\ Took(r, t, c) \/ Missed(r, t, c)
         /\ UNCHANGED <<minted, dropped, over, answers, handed, valid, lapsed, revoking, pending,
                        sweeping, strayed>>
<1> DEFINE p == Shown(t, c, a)
<1>01. p.ticket = t /\ p.channel = c
  BY DEF Shown
<1>02. \A b : [p EXCEPT !.at = b]
               = [at |-> b, ticket |-> t, channel |-> c, on |-> Nobody, got |-> Nobody]
  BY DEF Shown
<1>03. ASSUME NEW g
       PROVE  [p EXCEPT !.at = "over", !.got = g]
                = [at |-> "over", ticket |-> t, channel |-> c, on |-> Nobody, got |-> g]
  <2>1. [p EXCEPT !.at = "over", !.got = g] = [[p EXCEPT !.at = "over"] EXCEPT !.got = g]
    OBVIOUS
  <2>2. [p EXCEPT !.at = "over"]
          = [at |-> "over", ticket |-> t, channel |-> c, on |-> Nobody, got |-> Nobody]
    BY <1>02
  <2>3. [[at |-> "over", ticket |-> t, channel |-> c, on |-> Nobody, got |-> Nobody] EXCEPT !.got = g]
          = [at |-> "over", ticket |-> t, channel |-> c, on |-> Nobody, got |-> g]
    OBVIOUS
  <2>4. QED
    BY <2>1, <2>2, <2>3
<1>04. ASSUME NEW m
       PROVE  [p EXCEPT !.at = "waiting", !.on = m]
                = [at |-> "waiting", ticket |-> t, channel |-> c, on |-> m, got |-> Nobody]
  <2>1. [p EXCEPT !.at = "waiting", !.on = m] = [[p EXCEPT !.at = "waiting"] EXCEPT !.on = m]
    OBVIOUS
  <2>2. [p EXCEPT !.at = "waiting"]
          = [at |-> "waiting", ticket |-> t, channel |-> c, on |-> Nobody, got |-> Nobody]
    BY <1>02
  <2>3. [[at |-> "waiting", ticket |-> t, channel |-> c, on |-> Nobody, got |-> Nobody] EXCEPT !.on = m]
          = [at |-> "waiting", ticket |-> t, channel |-> c, on |-> m, got |-> Nobody]
    OBVIOUS
  <2>4. QED
    BY <2>1, <2>2, <2>3
<1>1. UNCHANGED <<minted, dropped, over, answers, handed, valid, lapsed, revoking, pending,
                  sweeping, strayed>>
  BY DEF Redeem
<1>2. r \in Request /\ t \in Ticket /\ c \in Channel
  BY DEF Presenting
<1>3. \A b \in Stages : req' = [req EXCEPT ![r] = [p EXCEPT !.at = b]]
        => Becomes(r, b, t, c, Nobody, Nobody)
  BY <1>02, <1>2, Becoming
<1>4. \A g \in Request : req' = [req EXCEPT ![r] = [p EXCEPT !.at = "over", !.got = g]]
        => Becomes(r, "over", t, c, Nobody, g)
  BY <1>03, <1>2, Becoming DEF Stages
<1>5. \A m \in Request : req' = [req EXCEPT ![r] = [p EXCEPT !.at = "waiting", !.on = m]]
        => Becomes(r, "waiting", t, c, m, Nobody)
  BY <1>04, <1>2, Becoming DEF Stages
<1>6. CASE t \in held
  <2>1. held' = held \ {t} /\ spent' = spent \cup {t}
    BY <1>6, <1>01, p.ticket \notin spent DEF Redeem, Take, TypeOK
  <2>2. \/ Fulfil(r, p)
        \/ /\ \E b \in {"asking", "over"} : req' = [req EXCEPT ![r] = [p EXCEPT !.at = b]]
           /\ UNCHANGED <<making, writes>>
    BY <1>6, <1>01 DEF Redeem, TypeOK
  <2>3. Took(r, t, c)
    BY <1>01, <1>2, <1>3, <1>4, <1>6, <2>1, <2>2 DEF Took, Fulfil, Stages
  <2>4. QED
    BY <1>1, <2>3
<1>7. CASE t \notin held
  <2>1. UNCHANGED <<held, spent, making, writes>>
    BY <1>7, <1>01 DEF Redeem
  <2>2. \/ \E m \in MakingFor(p) :
              req' = [req EXCEPT ![r] = [p EXCEPT !.at = "waiting", !.on = m]]
        \/ \E k \in KeptFor(p) :
              req' = [req EXCEPT ![r] = [p EXCEPT !.at = "over", !.got = k]]
        \/ req' = [req EXCEPT ![r] = [p EXCEPT !.at = "over"]]
    BY <1>7, <1>01 DEF Redeem
  <2>3. Missed(r, t, c)
    BY <1>01, <1>3, <1>4, <1>5, <2>1, <2>2 DEF Missed, MakingFor, KeptFor, Stages
  <2>4. QED
    BY <1>1, <2>3
<1>8. QED
  BY <1>6, <1>7

-----------------------------------------------------------------------------
(* What a redemption leaves of the invariant. *)
LEMMA RedeemTypes ==
  ASSUME TicketsAssumption, Inv, NEW r, NEW t, NEW c, NEW a, Presenting(r, t, c, a),
         Redeem(r, Shown(t, c, a))
  PROVE  TypeOK' /\ ReqInv' /\ EndInv' /\ PendInv'
<1>1. /\ Took(r, t, c) \/ Missed(r, t, c)
      /\ UNCHANGED <<minted, dropped, over, answers, handed, valid, lapsed, revoking, pending,
                     sweeping, strayed>>
  BY RedeemCases DEF Inv
<1>2. TypeOK'
  <2>1. CASE Took(r, t, c)
    BY <1>1, <2>1 DEF Inv, TypeOK, Presenting, Took, Becomes
  <2>2. CASE Missed(r, t, c)
    BY <1>1, <2>2 DEF Inv, TypeOK, Presenting, Missed, Becomes
  <2>3. QED
    BY <1>1, <2>1, <2>2
<1>3. ReqInv'
  <2>1. Well(req'[r])
    <3>1. CASE Took(r, t, c)
      BY <3>1 DEF Took, Becomes, Well, Presenting, TicketsAssumption
    <3>2. CASE Missed(r, t, c)
      <4>1. ASSUME NEW o \in Request, Becomes(r, "waiting", t, c, o, Nobody) PROVE Well(req'[r])
        BY <4>1 DEF Becomes, Well, Presenting, TicketsAssumption
      <4>2. ASSUME NEW g, Becomes(r, "over", t, c, Nobody, g) PROVE Well(req'[r])
        BY <4>2 DEF Becomes, Well, Presenting, TicketsAssumption
      <4>3. QED
        BY <3>2, <4>1, <4>2 DEF Missed
    <3>3. QED
      BY <1>1, <3>1, <3>2
  <2>2. \A q \in Request \ {r} : req'[q] = req[q]
    BY <1>1 DEF Took, Missed, Becomes
  <2>3. QED
    BY <2>1, <2>2 DEF Inv, ReqInv, Well
<1>4. EndInv' /\ PendInv'
  BY <1>1 DEF Inv, EndInv, PendInv, Took, Missed
<1>5. QED
  BY <1>2, <1>3, <1>4

LEMMA RedeemOwn ==
  ASSUME TicketsAssumption, Inv, NEW r, NEW t, NEW c, NEW a, Presenting(r, t, c, a),
         Redeem(r, Shown(t, c, a))
  PROVE  OwnInv' /\ LinkInv' /\ TableInv'
<1>1. /\ Took(r, t, c) \/ Missed(r, t, c)
      /\ UNCHANGED <<minted, dropped, over, answers, handed, valid, lapsed, revoking, pending,
                     sweeping, strayed>>
  BY RedeemCases DEF Inv
<1>2. \A q \in Request \ {r} : req'[q] = req[q]
  BY <1>1 DEF Took, Missed, Becomes
<1>3. req[r].got = Nobody /\ ~Owner(r)
  BY DEF Presenting, Inv, ReqInv, Well, Owner, TicketsAssumption
<1>4. OwnInv'
  <2>1. CASE Took(r, t, c)
    <3>1. t \in held /\ held' = held \ {t} /\ req'[r].ticket = t
      BY <2>1 DEF Took, Becomes
    <3>2. \A q \in Request \ {r} : Owner(q)' => Owner(q) /\ req[q].ticket # t
      BY <1>2, <3>1 DEF Owner, OwnInv, Inv
    <3>3. t \in minted'
      BY <1>1, <3>1 DEF Inv, TypeOK
    <3>4. QED
      BY <1>1, <1>2, <3>1, <3>2, <3>3 DEF OwnInv, Inv, Presenting
  <2>2. CASE Missed(r, t, c)
    <3>1. ~Owner(r)'
      <4>1. CASE \E k \in Request : /\ t \in Identity /\ k = answers[t] /\ req[k].channel = c
                                    /\ Becomes(r, "over", t, c, Nobody, k)
        BY <4>1, <1>3 DEF Owner, Becomes, Inv, TableInv, TicketsAssumption
      <4>2. CASE Becomes(r, "over", t, c, Nobody, Nobody)
        BY <4>2, <1>3 DEF Owner, Becomes, Presenting, TicketsAssumption
      <4>3. ASSUME NEW m \in Request, Becomes(r, "waiting", t, c, m, Nobody) PROVE ~Owner(r)'
        BY <4>3, <1>3 DEF Owner, Becomes, Presenting, TicketsAssumption
      <4>4. QED
        BY <4>1, <4>2, <4>3, <2>2 DEF Missed
    <3>2. \A q \in Request \ {r} : Owner(q)' = Owner(q)
      BY <1>2 DEF Owner
    <3>3. QED
      BY <1>1, <1>2, <2>2, <3>1, <3>2 DEF OwnInv, Inv, Missed
  <2>3. QED
    BY <1>1, <2>1, <2>2
<1>5. req[r].ticket # Nobody => req'[r].ticket = req[r].ticket /\ req'[r].channel = req[r].channel
  <2>1. req[r].ticket # Nobody => req[r].ticket = t /\ req[r].channel = c
    BY DEF Presenting, Inv, ReqInv, Well
  <2>2. \E b, o, g : Becomes(r, b, t, c, o, g)
    BY <1>1 DEF Took, Missed
  <2>3. req'[r].ticket = t /\ req'[r].channel = c
    BY <2>2 DEF Becomes
  <2>4. QED
    BY <2>1, <2>3
<1>6. LinkInv'
  <2>1. ASSUME NEW q \in Request \ {r}
        PROVE  /\ req'[q].at = "waiting" => req'[q].on \in Request /\ Alike(req[q].on, q)'
               /\ req'[q].got # Nobody => /\ req'[q].got \in Request /\ Alike(req[q].got, q)'
                                        /\ req'[req'[q].got].got = req'[q].got
    <3>1. req[q].at = "waiting" =>
            /\ req[q].on \in Request /\ Alike(req[q].on, q) /\ req[req[q].on].ticket # Nobody
      BY DEF Inv, LinkInv, Alike, ReqInv, Well
    <3>2. req[q].got # Nobody =>
            /\ req[q].got \in Request /\ Alike(req[q].got, q) /\ req[req[q].got].ticket # Nobody
            /\ req[req[q].got].got = req[q].got /\ req[q].got # r
      BY <1>3 DEF Inv, LinkInv, Alike, ReqInv, Well
    <3>3. QED
      BY <1>2, <1>5, <3>1, <3>2 DEF Alike
  <2>2. /\ req'[r].at = "waiting" => req'[r].on \in Request /\ Alike(req[r].on, r)'
        /\ req'[r].got # Nobody => /\ req'[r].got \in Request /\ Alike(req[r].got, r)'
                                 /\ req'[req'[r].got].got = req'[r].got
    <3>1. CASE Took(r, t, c)
      BY <3>1 DEF Took, Becomes, Alike, Presenting
    <3>2. CASE Missed(r, t, c)
      <4>1. ASSUME NEW m \in Request, t \in Identity, m = making[t], req[m].channel = c,
                   Becomes(r, "waiting", t, c, m, Nobody)
            PROVE  req'[r].on \in Request /\ Alike(req[r].on, r)' /\ req'[r].got = Nobody
        <5>1. req[m].ticket = t /\ req[m].ticket # Nobody
          BY <4>1 DEF Inv, TableInv, TicketsAssumption, Ticket
        <5>2. QED
          BY <4>1, <1>2, <5>1 DEF Becomes, Alike
      <4>2. ASSUME NEW k \in Request, t \in Identity, k = answers[t], req[k].channel = c,
                   Becomes(r, "over", t, c, Nobody, k)
            PROVE  /\ req'[r].at # "waiting" /\ req'[r].got \in Request
                   /\ Alike(req[r].got, r)' /\ req'[req'[r].got].got = req'[r].got
        <5>1. req[k].ticket = t /\ req[k].got = k /\ k # r
          BY <4>2, <1>3 DEF Inv, TableInv, TicketsAssumption
        <5>2. QED
          BY <4>2, <1>2, <5>1 DEF Becomes, Alike
      <4>3. ASSUME Becomes(r, "over", t, c, Nobody, Nobody)
            PROVE  req'[r].at # "waiting" /\ req'[r].got = Nobody
        BY <4>3 DEF Becomes
      <4>4. QED
        BY <3>2, <4>1, <4>2, <4>3 DEF Missed
    <3>3. QED
      BY <1>1, <3>1, <3>2
  <2>3. QED
    BY <2>1, <2>2 DEF LinkInv
<1>7. TableInv'
  <2>1. ASSUME NEW s \in Identity, answers'[s] # Nobody
        PROVE  /\ answers'[s] \in Request /\ req'[answers'[s]].ticket = s
               /\ req'[answers'[s]].got = answers'[s]
    BY <1>1, <1>2, <1>3, <2>1 DEF Inv, TableInv
  <2>2. ASSUME NEW s \in Identity, making'[s] # Nobody
        PROVE  making'[s] \in Request /\ req'[making'[s]].ticket = s
    <3>1. CASE making'[s] = making[s]
      BY <1>2, <1>5, <2>2, <3>1 DEF Inv, TableInv, TicketsAssumption, Ticket
    <3>2. CASE making'[s] # making[s]
      BY <1>1, <3>2 DEF Took, Missed, Becomes, Presenting, Inv, TypeOK
    <3>3. QED
      BY <3>1, <3>2
  <2>3. QED
    BY <2>1, <2>2 DEF TableInv
<1>8. QED
  BY <1>4, <1>6, <1>7

LEMMA RedeemWrites ==
  ASSUME TicketsAssumption, Inv, NEW r, NEW t, NEW c, NEW a, Presenting(r, t, c, a),
         Redeem(r, Shown(t, c, a))
  PROVE  WriteInv' /\ MintInv' /\ TokenInv'
<1>1. /\ Took(r, t, c) \/ Missed(r, t, c)
      /\ UNCHANGED <<minted, dropped, over, answers, handed, valid, lapsed, revoking, pending,
                     sweeping, strayed>>
  BY RedeemCases DEF Inv
<1>2. \A q \in Request \ {r} : req'[q] = req[q]
  BY <1>1 DEF Took, Missed, Becomes
<1>3. req[r].at \in {"idle", "waiting"} /\ r \in Request /\ r \notin valid \cup lapsed
  BY DEF Presenting, Inv, TokenInv
<1>4. TokenInv'
  <2>1. \A q \in Request : q \in valid \cup lapsed => q # r /\ req'[q] = req[q]
    BY <1>2, <1>3
  <2>2. valid \subseteq Request
    BY DEF Inv, TypeOK
  <2>3. QED
    BY <1>1, <1>2, <1>3, <2>1, <2>2 DEF Inv, TokenInv, Remembered
<1>5. CASE writes' = writes
  <2>1. req'[r].at = "issuing" => req'[r].ticket \notin Write
    <3>1. CASE Took(r, t, c)
      <4>1. CASE t \in Write /\ BeginMint(t) /\ writes' = [writes EXCEPT ![t] = "minting"]
        BY <4>1, <1>5 DEF BeginMint, Inv, TypeOK
      <4>2. CASE t \in Identity /\ Becomes(r, "issuing", t, c, Nobody, Nobody)
        BY <4>2 DEF Becomes, TicketsAssumption
      <4>3. QED
        BY <3>1, <4>1, <4>2 DEF Took, Becomes
    <3>2. CASE Missed(r, t, c)
      <4>1. \E b \in {"waiting", "over"} : \E o, g : Becomes(r, b, t, c, o, g)
        BY <3>2 DEF Missed
      <4>2. QED
        BY <4>1 DEF Becomes
    <3>3. QED
      BY <1>1, <3>1, <3>2
  <2>2. WriteInv'
    BY <1>1, <1>2, <1>3, <1>5 DEF Inv, WriteInv
  <2>3. MintInv'
    BY <1>2, <1>5, <2>1 DEF Inv, MintInv
  <2>4. QED
    BY <1>4, <2>2, <2>3
<1>6. CASE writes' # writes
  <2>1. /\ t \in Write /\ writes[t] = "open" /\ writes' = [writes EXCEPT ![t] = "minting"]
        /\ req'[r].at = "issuing" /\ req'[r].ticket = t
    BY <1>1, <1>6 DEF Took, Missed, Becomes, BeginMint
  <2>2. t \in minted /\ t \notin over /\ handed[t] = Nobody
    BY <2>1 DEF Inv, WriteInv
  <2>3. WriteInv'
    BY <1>1, <1>2, <1>3, <2>1, <2>2 DEF Inv, WriteInv, TypeOK
  <2>4. MintInv'
    BY <1>2, <2>1 DEF Inv, MintInv, TypeOK
  <2>5. QED
    BY <1>4, <2>3, <2>4
<1>7. QED
  BY <1>5, <1>6

LEMMA RedeemInv ==
  ASSUME TicketsAssumption, Inv, NEW r, NEW t, NEW c, NEW a, Presenting(r, t, c, a),
         Redeem(r, Shown(t, c, a))
  PROVE  Inv'
BY RedeemTypes, RedeemOwn, RedeemWrites DEF Inv

LEMMA PresentInv ==
  ASSUME TicketsAssumption, Inv, NEW r \in Request, NEW t \in Ticket, NEW c \in Channel,
         Present(r, t, c)
  PROVE  Inv'
<1>1. [req[r] EXCEPT !.ticket = t, !.channel = c] = Shown(t, c, "idle")
  <2>1. /\ req[r] \in Requests /\ req[r].at = "idle" /\ req[r].on = Nobody
        /\ req[r].got = Nobody
    BY DEF Present, Inv, ReqInv, Well, TypeOK
  <2>2. ASSUME NEW x \in Requests, x.at = "idle", x.on = Nobody, x.got = Nobody
        PROVE  [x EXCEPT !.ticket = t, !.channel = c] = Shown(t, c, "idle")
    <3>1. x = [at |-> "idle", ticket |-> x.ticket, channel |-> x.channel, on |-> Nobody,
               got |-> Nobody]
      BY <2>2 DEF Requests
    <3>2. [x EXCEPT !.ticket = t, !.channel = c] = [[x EXCEPT !.ticket = t] EXCEPT !.channel = c]
      OBVIOUS
    <3>3. [x EXCEPT !.ticket = t]
            = [at |-> "idle", ticket |-> t, channel |-> x.channel, on |-> Nobody, got |-> Nobody]
      BY <3>1
    <3>4. [[at |-> "idle", ticket |-> t, channel |-> x.channel, on |-> Nobody, got |-> Nobody]
             EXCEPT !.channel = c]
            = [at |-> "idle", ticket |-> t, channel |-> c, on |-> Nobody, got |-> Nobody]
      OBVIOUS
    <3>5. QED
      BY <3>2, <3>3, <3>4 DEF Shown
  <2>3. QED
    BY <2>1, <2>2
<1>2. QED
  BY <1>1, RedeemInv DEF Present, Presenting

-----------------------------------------------------------------------------
(* A request that goes on with what it presented. *)
Moves(r, a, g) == Becomes(r, a, req[r].ticket, req[r].channel, req[r].on, g)

LEMMA Moving ==
  ASSUME TypeOK, NEW r \in Request, NEW a \in Stages
  PROVE  /\ req' = [req EXCEPT ![r].at = a] => Moves(r, a, req[r].got)
         /\ \A g \in Request : req' = [req EXCEPT ![r].at = a, ![r].got = g] => Moves(r, a, g)
<1> DEFINE x == req[r]
<1>1. /\ x \in Requests
      /\ x = [at |-> x.at, ticket |-> x.ticket, channel |-> x.channel, on |-> x.on, got |-> x.got]
  BY DEF TypeOK, Requests
<1>2. [x EXCEPT !.at = a]
        = [at |-> a, ticket |-> x.ticket, channel |-> x.channel, on |-> x.on, got |-> x.got]
  BY <1>1
<1>3. ASSUME req' = [req EXCEPT ![r].at = a] PROVE Moves(r, a, x.got)
  <2>1. req' = [req EXCEPT ![r] = [x EXCEPT !.at = a]]
    BY <1>3
  <2>2. QED
    BY <1>1, <1>2, <2>1, Becoming DEF Moves, Requests
<1>4. ASSUME NEW g \in Request, req' = [req EXCEPT ![r].at = a, ![r].got = g]
      PROVE  Moves(r, a, g)
  <2>1. /\ req' \in [Request -> Requests]
        /\ \A q \in Request \ {r} : req'[q] = req[q]
        /\ req'[r] = [[x EXCEPT !.at = a] EXCEPT !.got = g]
    BY <1>1, <1>4 DEF TypeOK, Requests
  <2>2. [[at |-> a, ticket |-> x.ticket, channel |-> x.channel, on |-> x.on, got |-> x.got]
           EXCEPT !.got = g]
          = [at |-> a, ticket |-> x.ticket, channel |-> x.channel, on |-> x.on, got |-> g]
    OBVIOUS
  <2>3. QED
    BY <1>2, <2>1, <2>2 DEF Moves, Becomes
<1>5. QED
  BY <1>3, <1>4

LEMMA Stays ==
  ASSUME TicketsAssumption, Inv, NEW r \in Request, NEW a, NEW g, Moves(r, a, g),
         a \notin {"idle", "waiting"}, req[r].at # "idle",
         g = req[r].got \/ (req[r].got = Nobody /\ g = r)
  PROVE  /\ LinkInv'
         /\ \A q \in Request : req'[q].ticket = req[q].ticket /\ req'[q].channel = req[q].channel
         /\ \A q \in Request : req[q].got = q => req'[q].got = q
         /\ \A q \in Request \ {r} : req'[q] = req[q] /\ Owner(q)' = Owner(q)
         /\ req'[r].at = a /\ req'[r].got = g /\ req'[r].on = req[r].on
<1>1. /\ req'[r].at = a /\ req'[r].got = g /\ req'[r].on = req[r].on
      /\ req'[r].ticket = req[r].ticket /\ req'[r].channel = req[r].channel
  BY DEF Moves, Becomes
<1>2. \A q \in Request \ {r} : req'[q] = req[q]
  BY DEF Moves, Becomes
<1>3. \A q \in Request : req'[q].ticket = req[q].ticket /\ req'[q].channel = req[q].channel
  BY <1>1, <1>2
<1>4. \A q \in Request : req[q].got = q => req'[q].got = q
  BY <1>1, <1>2, Nobody \notin Request DEF TicketsAssumption
<1>5. \A q \in Request \ {r} : Owner(q)' = Owner(q)
  BY <1>2 DEF Owner
<1>6. \A q, m \in Request : Alike(m, q)' = Alike(m, q)
  BY <1>3 DEF Alike
<1>7. \A q, m \in Request : req[m].got = m => req'[m].got = m
  BY <1>4
<1>8. ASSUME NEW q \in Request
      PROVE  /\ req'[q].at = "waiting" => req'[q].on \in Request /\ Alike(req[q].on, q)'
             /\ req'[q].got # Nobody => /\ req'[q].got \in Request /\ Alike(req[q].got, q)'
                                      /\ req'[req'[q].got].got = req'[q].got
  <2>1. CASE q # r
    <3>1. req'[q] = req[q]
      BY <1>2, <2>1
    <3>2. req[q].at = "waiting" => req[q].on \in Request /\ Alike(req[q].on, q)
      BY DEF Inv, LinkInv
    <3>3. req[q].got # Nobody => /\ req[q].got \in Request /\ Alike(req[q].got, q)
                              /\ req[req[q].got].got = req[q].got
      BY DEF Inv, LinkInv
    <3>4. QED
      BY <1>3, <1>7, <3>1, <3>2, <3>3 DEF Alike
  <2>2. CASE q = r /\ g = req[r].got
    <3>1. req[q].got # Nobody => /\ req[q].got \in Request /\ Alike(req[q].got, q)
                              /\ req[req[q].got].got = req[q].got
      BY DEF Inv, LinkInv
    <3>2. QED
      BY <1>1, <1>3, <1>7, <2>2, <3>1 DEF Alike
  <2>3. CASE q = r /\ g = r
    BY <1>1, <1>3, <2>3 DEF Alike
  <2>4. QED
    BY <2>1, <2>2, <2>3
<1>9. LinkInv'
  BY <1>8 DEF LinkInv
<1>10. QED
  BY <1>1, <1>2, <1>3, <1>4, <1>5, <1>9

(* A ticket minted. *)
LEMMA MintKeeps ==
  ASSUME TicketsAssumption, Inv, NEW t \in Ticket, Mint(t) PROVE Inv'
<1>1. /\ UNCHANGED <<spent, dropped, over, making, answers, handed, valid, lapsed, revoking,
                     pending, sweeping, strayed, req>>
      /\ t \notin minted /\ minted' = minted \cup {t} /\ held' = held \cup {t}
  BY DEF Mint
<1>2. \A w \in Write : writes'[w] = IF w = t THEN "open" ELSE writes[w]
  BY DEF Mint, Inv, TypeOK
<1>3. writes' \in [Write -> {"none", "open", "minting", "handed", "doomed"}]
  BY DEF Mint, Inv, TypeOK
<1>4. TypeOK'
  BY <1>1, <1>3 DEF Inv, TypeOK
<1>5. t \notin over
  BY <1>1 DEF Inv, TypeOK
<1>6. OwnInv'
  BY <1>1 DEF Inv, OwnInv, Owner
<1>7. ReqInv' /\ LinkInv' /\ TableInv'
  BY <1>1 DEF Inv, ReqInv, Well, LinkInv, Alike, TableInv
<1>8. EndInv' /\ TokenInv' /\ PendInv'
  BY <1>1, <1>5 DEF Inv, EndInv, TokenInv, Remembered, PendInv
<1>9. \A r \in Request : req[r].at = "issuing" => req[r].ticket # t
  BY <1>1 DEF Inv, OwnInv, Owner
<1>10. WriteInv' /\ MintInv'
  BY <1>1, <1>2, <1>5, <1>9 DEF Inv, WriteInv, MintInv
<1>11. QED
  BY <1>4, <1>6, <1>7, <1>8, <1>10 DEF Inv

(* The sibling was read. *)
LEMMA AskedKeeps ==
  ASSUME TicketsAssumption, Inv, NEW r \in Request, Asked(r) PROVE Inv'
<1> DEFINE t == req[r].ticket
<1>1. /\ UNCHANGED <<minted, held, spent, dropped, over, answers, handed, valid, lapsed, revoking,
                     pending, sweeping, strayed>>
      /\ req[r].at = "asking" /\ req[r].got = Nobody
  BY DEF Asked, Inv, ReqInv, Well
<1>2. t \in Ticket /\ t \in minted \ held
  BY <1>1 DEF Inv, OwnInv, Owner, TypeOK
<1>3. \/ t \in Plain /\ Moves(r, "over", r) /\ UNCHANGED <<making, writes>>
      \/ /\ t \in Identity /\ Moves(r, "issuing", Nobody)
         /\ making' = [making EXCEPT ![t] = r] /\ UNCHANGED writes
      \/ /\ t \in Write /\ Moves(r, "issuing", Nobody) /\ writes[t] = "open"
         /\ writes' = [writes EXCEPT ![t] = "minting"] /\ UNCHANGED making
      \/ Moves(r, "over", Nobody) /\ UNCHANGED <<making, writes>>
  <2>1. /\ req' = [req EXCEPT ![r] = [req[r] EXCEPT !.at = "issuing"]] => Moves(r, "issuing", Nobody)
        /\ req' = [req EXCEPT ![r] = [req[r] EXCEPT !.at = "over"]] => Moves(r, "over", Nobody)
        /\ req' = [req EXCEPT ![r].at = "over"] => Moves(r, "over", Nobody)
    BY <1>1, Moving DEF Inv, Stages
  <2>2. req' = [req EXCEPT ![r] = [req[r] EXCEPT !.at = "over", !.got = r]] => Moves(r, "over", r)
    BY Moving DEF Inv, Stages
  <2>3. QED
    BY <2>1, <2>2 DEF Asked, Fulfil, BeginMint
<1>4. \E a \in {"issuing", "over"}, g \in {Nobody, r} : Moves(r, a, g)
  BY <1>3
<1>5. /\ LinkInv'
      /\ \A q \in Request : req'[q].ticket = req[q].ticket /\ req'[q].channel = req[q].channel
      /\ \A q \in Request : req[q].got = q => req'[q].got = q
      /\ \A q \in Request \ {r} : req'[q] = req[q] /\ Owner(q)' = Owner(q)
  BY <1>1, <1>4, Stays
<1>6. req'[r].at \in {"issuing", "over"} /\ req'[r].ticket = t /\ req'[r].on = req[r].on
  BY <1>4 DEF Moves, Becomes
<1>7. TypeOK'
  <2>1. req' \in [Request -> Requests]
    BY <1>4 DEF Moves, Becomes
  <2>2. making' \in [Identity -> Request \cup {Nobody}]
    BY <1>3 DEF Inv, TypeOK
  <2>3. writes' \in [Write -> {"none", "open", "minting", "handed", "doomed"}]
    BY <1>3 DEF Inv, TypeOK
  <2>4. QED
    BY <1>1, <2>1, <2>2, <2>3 DEF Inv, TypeOK
<1>8. ReqInv'
  <2>1. Well(req'[r])
    <3>1. CASE req'[r].at = "issuing"
      <4>1. t \in Identity \cup Write /\ Moves(r, "issuing", Nobody)
        BY <1>3, <3>1 DEF Moves, Becomes
      <4>2. QED
        BY <1>2, <3>1, <4>1 DEF Moves, Becomes, Well, TicketsAssumption
    <3>2. CASE req'[r].at = "over"
      BY <1>2, <1>6, <3>2 DEF Well, TicketsAssumption
    <3>3. QED
      BY <1>6, <3>1, <3>2
  <2>2. QED
    BY <1>5, <2>1 DEF Inv, ReqInv
<1>9. OwnInv'
  <2>1. Owner(r)
    BY <1>1 DEF Owner
  <2>2. QED
    BY <1>1, <1>5, <2>1 DEF Inv, OwnInv
<1>10. TableInv'
  BY <1>1, <1>3, <1>5, <1>6 DEF Inv, TableInv, TypeOK
<1>11. EndInv' /\ PendInv'
  BY <1>1 DEF Inv, EndInv, PendInv
<1>12. TokenInv'
  BY <1>1, <1>5 DEF Inv, TokenInv, TypeOK, Remembered
<1>13. WriteInv' /\ MintInv'
  <2>1. CASE writes' = writes
    <3>1. req'[r].at = "issuing" => t \notin Write
      <4>1. CASE t \in Write /\ writes[t] = "open" /\ writes' = [writes EXCEPT ![t] = "minting"]
        BY <4>1, <2>1 DEF Inv, TypeOK
      <4>2. QED
        BY <1>3, <4>1 DEF Moves, Becomes, TicketsAssumption
    <3>2. QED
      BY <1>1, <1>5, <1>6, <2>1, <3>1 DEF Inv, WriteInv, MintInv
  <2>2. CASE writes' # writes
    <3>1. /\ t \in Write /\ writes[t] = "open" /\ writes' = [writes EXCEPT ![t] = "minting"]
          /\ req'[r].at = "issuing"
      BY <1>3, <2>2 DEF Moves, Becomes
    <3>2. \A w \in Write : writes'[w] = IF w = t THEN "minting" ELSE writes[w]
      BY <3>1 DEF Inv, TypeOK
    <3>3. t \in minted /\ t \notin over /\ handed[t] = Nobody
      BY <1>2, <3>1 DEF Inv, WriteInv
    <3>4. QED
      BY <1>1, <1>5, <1>6, <3>1, <3>2, <3>3 DEF Inv, WriteInv, MintInv
  <2>3. QED
    BY <2>1, <2>2
<1>14. QED
  BY <1>5, <1>7, <1>8, <1>9, <1>10, <1>11, <1>12, <1>13 DEF Inv

(* The token was inserted, and answered. *)
LEMMA IssuedKeeps ==
  ASSUME TicketsAssumption, Inv, NEW r \in Request, Issued(r) PROVE Inv'
<1> DEFINE t == req[r].ticket
<1>1. /\ UNCHANGED <<minted, held, spent, dropped, over, making, lapsed, pending, sweeping,
                     strayed>>
      /\ req[r].at = "issuing" /\ req[r].got = Nobody /\ valid' = valid \cup {r}
  BY DEF Issued, Inv, ReqInv, Well
<1>2. /\ t \in Identity \cup Write /\ t \in minted \ held /\ Owner(r)
      /\ r \notin valid \cup lapsed
      /\ t \in Write => writes[t] \in {"minting", "doomed"} /\ handed[t] = Nobody
  <2>1. Owner(r)
    BY <1>1 DEF Owner
  <2>2. t \in Write => writes[t] \in {"minting", "doomed"}
    BY <1>1 DEF Inv, MintInv
  <2>3. QED
    BY <1>1, <2>1, <2>2 DEF Inv, ReqInv, Well, OwnInv, TokenInv, WriteInv
<1>3. \/ /\ t \in Identity /\ Moves(r, "answered", r) /\ answers' = [answers EXCEPT ![t] = r]
         /\ UNCHANGED <<writes, handed, revoking>>
      \/ /\ t \in Write /\ writes[t] = "minting" /\ Moves(r, "over", r)
         /\ writes' = [writes EXCEPT ![t] = "handed"] /\ handed' = [handed EXCEPT ![t] = r]
         /\ UNCHANGED <<answers, revoking>>
      \/ /\ t \in Write /\ writes[t] = "doomed" /\ Moves(r, "revoking", Nobody)
         /\ writes' = [writes EXCEPT ![t] = "none"] /\ revoking' = revoking \cup {r}
         /\ UNCHANGED <<answers, handed>>
  <2>1. /\ req' = [req EXCEPT ![r].at = "answered", ![r].got = r] => Moves(r, "answered", r)
        /\ req' = [req EXCEPT ![r].at = "over", ![r].got = r] => Moves(r, "over", r)
        /\ req' = [req EXCEPT ![r].at = "revoking"] => Moves(r, "revoking", Nobody)
    BY <1>1, Moving DEF Inv, Stages
  <2>2. QED
    BY <1>2, <2>1 DEF Issued, StillOpen
<1>4. \E a \in {"answered", "over", "revoking"}, g \in {Nobody, r} : Moves(r, a, g)
  BY <1>3
<1>5. /\ LinkInv'
      /\ \A q \in Request : req'[q].ticket = req[q].ticket /\ req'[q].channel = req[q].channel
      /\ \A q \in Request : req[q].got = q => req'[q].got = q
      /\ \A q \in Request \ {r} : req'[q] = req[q] /\ Owner(q)' = Owner(q)
  BY <1>1, <1>4, Stays
<1>6. req'[r].at \in {"answered", "over", "revoking"} /\ req'[r].ticket = t
  BY <1>4 DEF Moves, Becomes
<1>7. TypeOK'
  <2>1. req' \in [Request -> Requests]
    BY <1>4 DEF Moves, Becomes
  <2>2. answers' \in [Identity -> Request \cup {Nobody}]
    BY <1>3 DEF Inv, TypeOK
  <2>3. writes' \in [Write -> {"none", "open", "minting", "handed", "doomed"}]
    BY <1>3 DEF Inv, TypeOK
  <2>4. handed' \in [Write -> Request \cup {Nobody}] /\ revoking' \in SUBSET Request
    BY <1>3 DEF Inv, TypeOK
  <2>5. QED
    BY <1>1, <2>1, <2>2, <2>3, <2>4 DEF Inv, TypeOK
<1>8. ReqInv'
  <2>1. Well(req'[r])
    <3>1. t # Nobody
      BY <1>2 DEF TicketsAssumption, Ticket
    <3>2. CASE t \in Identity /\ Moves(r, "answered", r)
      BY <3>1, <3>2 DEF Moves, Becomes, Well
    <3>3. CASE Moves(r, "over", r)
      BY <3>1, <3>3 DEF Moves, Becomes, Well
    <3>4. CASE t \in Write /\ Moves(r, "revoking", Nobody)
      BY <3>1, <3>4 DEF Moves, Becomes, Well
    <3>5. QED
      BY <1>3, <3>2, <3>3, <3>4
  <2>2. QED
    BY <1>5, <2>1 DEF Inv, ReqInv
<1>9. OwnInv'
  BY <1>1, <1>2, <1>5 DEF Inv, OwnInv
<1>10. TableInv'
  <2>1. ASSUME NEW s \in Identity, answers'[s] # Nobody
        PROVE  /\ answers'[s] \in Request /\ req'[answers'[s]].ticket = s
               /\ req'[answers'[s]].got = answers'[s]
    <3>1. CASE answers'[s] = answers[s]
      BY <1>5, <2>1, <3>1 DEF Inv, TableInv
    <3>2. CASE answers'[s] # answers[s]
      <4>1. s = t /\ answers'[s] = r /\ Moves(r, "answered", r)
        BY <1>3, <3>2 DEF Inv, TypeOK
      <4>2. QED
        BY <1>6, <4>1 DEF Moves, Becomes
    <3>3. QED
      BY <3>1, <3>2
  <2>2. QED
    BY <1>1, <1>5, <2>1 DEF Inv, TableInv
<1>11. EndInv' /\ PendInv'
  BY <1>1 DEF Inv, EndInv, PendInv
<1>12. TokenInv'
  <2>1. lapsed' \cap valid' = {}
    BY <1>1, <1>2 DEF Inv, TokenInv
  <2>2. \A q \in Request : req'[q].at \in {"idle", "asking", "issuing", "waiting"}
                           => q \notin valid' \cup lapsed'
    BY <1>1, <1>5, <1>6 DEF Inv, TokenInv
  <2>3. ASSUME NEW q \in valid', req'[q].ticket \in Write
        PROVE  handed'[req'[q].ticket] = q \/ Remembered(q)'
    <3>1. q \in Request /\ req'[q].ticket = req[q].ticket
      BY <1>1, <1>5 DEF Inv, TypeOK
    <3>2. CASE q = r
      <4>1. CASE /\ t \in Write /\ handed' = [handed EXCEPT ![t] = r]
        BY <3>1, <3>2, <4>1 DEF Inv, TypeOK
      <4>2. CASE revoking' = revoking \cup {r}
        BY <3>2, <4>2 DEF Remembered
      <4>3. QED
        BY <1>3, <2>3, <3>1, <3>2, <4>1, <4>2 DEF TicketsAssumption
    <3>3. CASE q # r
      <4>1. q \in valid /\ (handed[req[q].ticket] = q \/ Remembered(q))
        BY <1>1, <2>3, <3>1, <3>3 DEF Inv, TokenInv
      <4>2. Remembered(q) => Remembered(q)'
        BY <1>1, <1>3 DEF Remembered
      <4>3. ASSUME handed[req[q].ticket] = q PROVE handed'[req[q].ticket] = q
        <5>1. req[q].ticket = t => t \notin Write
          BY <1>2, <3>1, <4>3, Nobody \notin Request DEF TicketsAssumption
        <5>2. QED
          BY <1>3, <2>3, <3>1, <4>3, <5>1 DEF Inv, TypeOK
      <4>4. QED
        BY <3>1, <4>1, <4>2, <4>3
    <3>4. QED
      BY <3>2, <3>3
  <2>4. QED
    BY <2>1, <2>2, <2>3 DEF TokenInv
<1>13. WriteInv' /\ MintInv'
  <2>1. \A q \in Request : req'[q].at = "issuing" => q # r /\ req[q].at = "issuing" /\ req[q].ticket # t
    BY <1>2, <1>5, <1>6 DEF Inv, OwnInv, Owner
  <2>2. CASE t \in Write
    <3>1. \A w \in Write \ {t} : writes'[w] = writes[w] /\ handed'[w] = handed[w]
      BY <1>3, <2>2 DEF Inv, TypeOK, TicketsAssumption
    <3>2. \/ writes[t] = "minting" /\ writes'[t] = "handed"
          \/ writes[t] = "doomed" /\ writes'[t] = "none" /\ handed'[t] = Nobody
      BY <1>2, <1>3, <2>2 DEF Inv, TypeOK, TicketsAssumption
    <3>3. \A q \in Request : req[q].at = "issuing" /\ req[q].ticket # t => req'[q] = req[q]
      BY <1>5
    <3>4. WriteInv'
      BY <1>1, <1>2, <3>1, <3>2, <3>3 DEF Inv, WriteInv
    <3>5. MintInv'
      BY <1>5, <2>1, <3>1 DEF Inv, MintInv
    <3>6. QED
      BY <3>4, <3>5
  <2>3. CASE t \notin Write
    <3>1. UNCHANGED <<writes, handed>>
      BY <1>3, <2>3
    <3>2. QED
      BY <1>1, <1>5, <2>1, <2>3, <3>1 DEF Inv, WriteInv, MintInv
  <2>4. QED
    BY <2>2, <2>3
<1>14. QED
  BY <1>5, <1>7, <1>8, <1>9, <1>10, <1>11, <1>12, <1>13 DEF Inv

(* The store failed: a ticket goes back, or the write's mint is over. *)
LEMMA IssueFailedKeeps ==
  ASSUME TicketsAssumption, Inv, NEW r \in Request, IssueFailed(r) PROVE Inv'
<1> DEFINE t == req[r].ticket
<1>1. /\ UNCHANGED <<minted, dropped, over, making, answers, handed, lapsed, revoking, pending,
                     sweeping>>
      /\ req[r].at = "issuing" /\ req[r].got = Nobody
      /\ \/ UNCHANGED <<valid, strayed>>
         \/ valid' = valid \cup {r} /\ strayed' = strayed \cup {r}
  <2>1. dropped' = dropped
    <3>1. CASE ~(t \in Identity /\ CanRestore(t))
      BY <3>1 DEF IssueFailed
    <3>2. CASE t \in Identity /\ CanRestore(t) /\ dropped' = dropped \ {t}
      BY <3>2 DEF CanRestore
    <3>3. t \notin Identity \cap Write
      BY DEF TicketsAssumption
    <3>4. QED
      BY <3>1, <3>2, <3>3 DEF IssueFailed
  <2>2. QED
    BY <2>1 DEF IssueFailed, Inv, ReqInv, Well
<1>2. /\ t \in Identity \cup Write /\ t \in minted \ held /\ Owner(r)
      /\ r \notin valid \cup lapsed
      /\ t \in Write => writes[t] \in {"minting", "doomed"} /\ handed[t] = Nobody
  <2>1. Owner(r)
    BY <1>1 DEF Owner
  <2>2. t \in Write => writes[t] \in {"minting", "doomed"}
    BY <1>1 DEF Inv, MintInv
  <2>3. QED
    BY <1>1, <2>1, <2>2 DEF Inv, ReqInv, Well, OwnInv, TokenInv, WriteInv
<1>3. \/ /\ t \in Identity /\ Moves(r, "failed", Nobody) /\ UNCHANGED writes
         /\ \/ UNCHANGED <<held, spent>>
            \/ t \in spent \ dropped /\ held' = held \cup {t} /\ spent' = spent \ {t}
      \/ /\ t \in Write /\ Moves(r, "over", Nobody) /\ UNCHANGED <<held, spent>>
         /\ writes' = [writes EXCEPT ![t] = IF @ = "doomed" THEN "none" ELSE "open"]
  <2>1. /\ req' = [req EXCEPT ![r].at = "failed"] => Moves(r, "failed", Nobody)
        /\ req' = [req EXCEPT ![r].at = "over"] => Moves(r, "over", Nobody)
    BY <1>1, Moving DEF Inv, Stages
  <2>2. QED
    BY <1>2, <2>1 DEF IssueFailed, CanRestore
<1>4. \E a \in {"failed", "over"} : Moves(r, a, Nobody)
  BY <1>3
<1>5. /\ LinkInv'
      /\ \A q \in Request : req'[q].ticket = req[q].ticket /\ req'[q].channel = req[q].channel
      /\ \A q \in Request : req[q].got = q => req'[q].got = q
      /\ \A q \in Request \ {r} : req'[q] = req[q] /\ Owner(q)' = Owner(q)
  BY <1>1, <1>4, Stays
<1>6. req'[r].at \in {"failed", "over"} /\ req'[r].ticket = t /\ req'[r].got = Nobody
  BY <1>4 DEF Moves, Becomes
<1>7. TypeOK'
  <2>1. req' \in [Request -> Requests]
    BY <1>4 DEF Moves, Becomes
  <2>2. held' \in SUBSET minted' /\ spent' \in SUBSET (minted' \ held') /\ dropped' \in SUBSET spent'
    BY <1>1, <1>2, <1>3 DEF Inv, TypeOK
  <2>3. writes' \in [Write -> {"none", "open", "minting", "handed", "doomed"}]
    BY <1>3 DEF Inv, TypeOK
  <2>4. valid' \in SUBSET Request /\ strayed' \in SUBSET Request
    BY <1>1 DEF Inv, TypeOK
  <2>5. QED
    BY <1>1, <2>1, <2>2, <2>3, <2>4 DEF Inv, TypeOK
<1>8. ReqInv'
  <2>1. Well(req'[r])
    <3>1. t # Nobody
      BY <1>2 DEF TicketsAssumption, Ticket
    <3>2. CASE t \in Identity /\ Moves(r, "failed", Nobody)
      BY <3>1, <3>2 DEF Moves, Becomes, Well
    <3>3. CASE Moves(r, "over", Nobody)
      BY <3>1, <3>3 DEF Moves, Becomes, Well
    <3>4. QED
      BY <1>3, <3>2, <3>3
  <2>2. QED
    BY <1>5, <2>1 DEF Inv, ReqInv
<1>9. OwnInv'
  <2>1. ~Owner(r)'
    BY <1>6 DEF Owner, TicketsAssumption
  <2>2. \A q \in Request \ {r} : Owner(q) => req[q].ticket # t
    BY <1>2 DEF Inv, OwnInv
  <2>3. held' \subseteq held \cup {t}
    BY <1>3
  <2>4. QED
    BY <1>1, <1>5, <2>1, <2>2, <2>3 DEF Inv, OwnInv
<1>10. TableInv'
  BY <1>1, <1>5 DEF Inv, TableInv
<1>11. EndInv' /\ PendInv'
  BY <1>1, <1>3 DEF Inv, EndInv, PendInv
<1>12. TokenInv'
  <2>1. valid \subseteq Request /\ valid' \subseteq Request
    BY <1>1 DEF Inv, TypeOK
  <2>2. lapsed' \cap valid' = {}
    BY <1>1, <1>2 DEF Inv, TokenInv
  <2>3. \A q \in Request : req'[q].at \in {"idle", "asking", "issuing", "waiting"}
                           => q \notin valid' \cup lapsed'
    BY <1>1, <1>5, <1>6 DEF Inv, TokenInv
  <2>4. ASSUME NEW q \in valid', req'[q].ticket \in Write
        PROVE  handed'[req'[q].ticket] = q \/ Remembered(q)'
    <3>1. CASE q \in valid
      BY <1>1, <1>5, <2>1, <2>4, <3>1 DEF Inv, TokenInv, Remembered
    <3>2. CASE q \notin valid
      BY <1>1, <3>2 DEF Remembered
    <3>3. QED
      BY <3>1, <3>2
  <2>5. QED
    BY <2>2, <2>3, <2>4 DEF TokenInv
<1>13. WriteInv' /\ MintInv'
  <2>1. \A q \in Request : req'[q].at = "issuing" => q # r /\ req[q].at = "issuing" /\ req[q].ticket # t
    BY <1>2, <1>5, <1>6 DEF Inv, OwnInv, Owner
  <2>2. CASE t \in Write
    <3>1. \A w \in Write \ {t} : writes'[w] = writes[w]
      BY <1>3, <2>2 DEF Inv, TypeOK, TicketsAssumption
    <3>2. \/ writes[t] = "minting" /\ writes'[t] = "open"
          \/ writes[t] = "doomed" /\ writes'[t] = "none"
      BY <1>2, <1>3, <2>2 DEF Inv, TypeOK, TicketsAssumption
    <3>3. \A q \in Request : req[q].at = "issuing" /\ req[q].ticket # t => req'[q] = req[q]
      BY <1>5
    <3>4. WriteInv'
      BY <1>1, <1>2, <3>1, <3>2, <3>3 DEF Inv, WriteInv
    <3>5. MintInv'
      BY <1>5, <2>1, <3>1 DEF Inv, MintInv
    <3>6. QED
      BY <3>4, <3>5
  <2>3. CASE t \notin Write
    <3>1. UNCHANGED <<writes, handed>>
      BY <1>1, <1>3, <2>3
    <3>2. QED
      BY <1>1, <1>5, <2>1, <2>3, <3>1 DEF Inv, WriteInv, MintInv
  <2>4. QED
    BY <2>2, <2>3
<1>14. QED
  BY <1>5, <1>7, <1>8, <1>9, <1>10, <1>11, <1>12, <1>13 DEF Inv

(* Those who waited were told. *)
LEMMA ClearedKeeps ==
  ASSUME TicketsAssumption, Inv, NEW r \in Request, Cleared(r) PROVE Inv'
<1> DEFINE t == req[r].ticket
<1>1. /\ UNCHANGED <<minted, held, spent, dropped, over, answers, store>>
      /\ req[r].at \in {"answered", "failed"} /\ t \in Identity
      /\ making' = [making EXCEPT ![t] = Nobody]
  BY DEF Cleared, Inv, ReqInv, Well
<1>2. Moves(r, "over", req[r].got)
  BY Moving DEF Cleared, Inv, Stages
<1>3. /\ LinkInv'
      /\ \A q \in Request : req'[q].ticket = req[q].ticket /\ req'[q].channel = req[q].channel
      /\ \A q \in Request : req[q].got = q => req'[q].got = q
      /\ \A q \in Request \ {r} : req'[q] = req[q] /\ Owner(q)' = Owner(q)
      /\ req'[r].at = "over" /\ req'[r].got = req[r].got
  BY <1>1, <1>2, Stays
<1>4. TypeOK'
  <2>1. req' \in [Request -> Requests]
    BY <1>2 DEF Moves, Becomes
  <2>2. making' \in [Identity -> Request \cup {Nobody}]
    BY <1>1 DEF Inv, TypeOK
  <2>3. QED
    BY <1>1, <2>1, <2>2 DEF Inv, TypeOK, store
<1>5. ReqInv'
  <2>1. Well(req'[r])
    BY <1>1, <1>3 DEF Well, TicketsAssumption, Ticket
  <2>2. QED
    BY <1>3, <2>1 DEF Inv, ReqInv
<1>6. OwnInv'
  <2>1. Owner(r)' => Owner(r)
    BY <1>3 DEF Owner
  <2>2. QED
    BY <1>1, <1>3, <2>1 DEF Inv, OwnInv
<1>7. TableInv'
  <2>1. \A s \in Identity : making'[s] = IF s = t THEN Nobody ELSE making[s]
    BY <1>1 DEF Inv, TypeOK
  <2>2. QED
    BY <1>1, <1>3, <2>1 DEF Inv, TableInv
<1>8. EndInv' /\ PendInv'
  BY <1>1 DEF Inv, EndInv, PendInv, store
<1>9. TokenInv'
  BY <1>1, <1>3 DEF Inv, TokenInv, TypeOK, Remembered, store
<1>10. WriteInv' /\ MintInv'
  <2>1. req[r].at # "issuing" /\ req'[r].at # "issuing"
    BY <1>1, <1>3
  <2>2. QED
    BY <1>1, <1>3, <2>1 DEF Inv, WriteInv, MintInv, store
<1>11. QED
  BY <1>3, <1>4, <1>5, <1>6, <1>7, <1>8, <1>9, <1>10 DEF Inv

(* One who waited got the answer, or redeems the ticket anew. *)
LEMMA WokenKeeps ==
  ASSUME TicketsAssumption, Inv, NEW r \in Request, Woken(r) PROVE Inv'
<1> DEFINE m == req[r].on
           t == req[r].ticket
<1>1. /\ req[r].at = "waiting" /\ req[r].got = Nobody /\ m \in Request /\ Alike(m, r)
      /\ t \in Ticket /\ req[r].channel \in Channel \cup {Nobody}
  BY DEF Woken, Inv, ReqInv, Well, LinkInv, TypeOK, Requests
<1>2. CASE Redeem(r, [req[r] EXCEPT !.on = Nobody])
  <2>1. ASSUME NEW x \in Requests, x.at = "waiting", x.got = Nobody
        PROVE  [x EXCEPT !.on = Nobody] = Shown(x.ticket, x.channel, "waiting")
    <3>1. x = [at |-> "waiting", ticket |-> x.ticket, channel |-> x.channel, on |-> x.on,
               got |-> Nobody]
      BY <2>1 DEF Requests
    <3>2. QED
      BY <3>1 DEF Shown
  <2>2. [req[r] EXCEPT !.on = Nobody] = Shown(t, req[r].channel, "waiting")
    BY <1>1, <2>1 DEF Inv, TypeOK
  <2>3. Presenting(r, t, req[r].channel, "waiting")
    BY <1>1 DEF Presenting, Inv, ReqInv, Well
  <2>4. QED
    BY <1>2, <2>2, <2>3, RedeemInv
<1>3. CASE /\ req[m].at \in {"answered", "over"} /\ req[m].got # Nobody
           /\ req' = [req EXCEPT ![r].at = "over", ![r].got = req[m].got]
           /\ UNCHANGED <<memory, store>>
  <2> DEFINE g == req[m].got
  <2>1. /\ g \in Request /\ Alike(g, m) /\ req[g].got = g /\ g # r
    BY <1>1, <1>3 DEF Inv, LinkInv, TicketsAssumption
  <2>2. Moves(r, "over", g)
    BY <1>3, <2>1, Moving DEF Inv, Stages
  <2>3. /\ req'[r].at = "over" /\ req'[r].got = g /\ req'[r].on = m
        /\ req'[r].ticket = t /\ req'[r].channel = req[r].channel
        /\ \A q \in Request \ {r} : req'[q] = req[q]
    BY <2>2 DEF Moves, Becomes
  <2>4. ~Owner(r) /\ ~Owner(r)'
    BY <1>1, <2>1, <2>3 DEF Owner, TicketsAssumption
  <2>5. \A q \in Request \ {r} : Owner(q)' = Owner(q)
    BY <2>3 DEF Owner
  <2>6. \A q \in Request : req'[q].ticket = req[q].ticket /\ req'[q].channel = req[q].channel
    BY <2>3
  <2>7. \A q \in Request : req[q].got = q => req'[q].got = q
    BY <1>1, <2>3, Nobody \notin Request DEF TicketsAssumption
  <2>8. TypeOK'
    BY <1>3, <2>2 DEF Inv, TypeOK, Moves, Becomes, memory, store
  <2>9. ReqInv'
    <3>1. Well(req'[r])
      BY <1>1, <2>3 DEF Well, TicketsAssumption
    <3>2. QED
      BY <2>3, <3>1 DEF Inv, ReqInv
  <2>10. OwnInv'
    BY <1>3, <2>4, <2>5, <2>6 DEF Inv, OwnInv, memory
  <2>11. LinkInv'
    <3>1. \A q, n \in Request : Alike(n, q)' = Alike(n, q)
      BY <2>6 DEF Alike
    <3>2. ASSUME NEW q \in Request
          PROVE  /\ req'[q].at = "waiting" => req'[q].on \in Request /\ Alike(req[q].on, q)'
                 /\ req'[q].got # Nobody => /\ req'[q].got \in Request /\ Alike(req[q].got, q)'
                                          /\ req'[req'[q].got].got = req'[q].got
      <4>1. CASE q = r
        <5>1. Alike(g, r)
          BY <1>1, <2>1 DEF Alike
        <5>2. QED
          BY <2>1, <2>3, <2>6, <2>7, <4>1, <5>1 DEF Alike
      <4>2. CASE q # r
        <5>1. req'[q] = req[q]
          BY <2>3, <4>2
        <5>2. req[q].at = "waiting" => req[q].on \in Request /\ Alike(req[q].on, q)
          BY DEF Inv, LinkInv
        <5>3. req[q].got # Nobody => /\ req[q].got \in Request /\ Alike(req[q].got, q)
                                  /\ req[req[q].got].got = req[q].got
          BY DEF Inv, LinkInv
        <5>4. QED
          BY <2>6, <2>7, <5>1, <5>2, <5>3 DEF Alike
      <4>3. QED
        BY <4>1, <4>2
    <3>3. QED
      BY <3>2 DEF LinkInv
  <2>12. TableInv'
    BY <1>3, <2>6, <2>7 DEF Inv, TableInv, memory
  <2>13. EndInv' /\ PendInv'
    BY <1>3 DEF Inv, EndInv, PendInv, memory, store
  <2>14. TokenInv'
    BY <1>3, <2>3, <2>6 DEF Inv, TokenInv, TypeOK, Remembered, store
  <2>15. WriteInv' /\ MintInv'
    <3>1. req[r].at # "issuing" /\ req'[r].at # "issuing"
      BY <1>1, <2>3
    <3>2. UNCHANGED <<minted, over, writes, handed>>
      BY <1>3 DEF memory, store
    <3>3. \A q \in Request : req[q].at = "issuing" => req'[q] = req[q]
      BY <2>3, <3>1
    <3>4. \A q \in Request : req'[q].at = "issuing" => req'[q] = req[q]
      BY <2>3, <3>1
    <3>5. WriteInv'
      BY <3>2, <3>3 DEF Inv, WriteInv
    <3>6. MintInv'
      BY <3>2, <3>4 DEF Inv, MintInv
    <3>7. QED
      BY <3>5, <3>6
  <2>16. QED
    BY <2>8, <2>9, <2>10, <2>11, <2>12, <2>13, <2>14, <2>15 DEF Inv
<1>4. QED
  BY <1>2, <1>3 DEF Woken

(* The redemption of a write that had ended is answered. *)
LEMMA RepliedKeeps ==
  ASSUME TicketsAssumption, Inv, NEW r \in Request, Replied(r) PROVE Inv'
<1>1. /\ UNCHANGED <<memory, store>> /\ req[r].at = "revoking" /\ req[r].got = Nobody
      /\ req[r].ticket \in Write
  BY DEF Replied, Inv, ReqInv, Well
<1>2. Moves(r, "over", r)
  BY Moving DEF Replied, Inv, Stages
<1>3. /\ LinkInv'
      /\ \A q \in Request : req'[q].ticket = req[q].ticket /\ req'[q].channel = req[q].channel
      /\ \A q \in Request : req[q].got = q => req'[q].got = q
      /\ \A q \in Request \ {r} : req'[q] = req[q] /\ Owner(q)' = Owner(q)
      /\ req'[r].at = "over" /\ req'[r].got = r
  BY <1>1, <1>2, Stays
<1>4. TypeOK'
  BY <1>1, <1>2 DEF Inv, TypeOK, Moves, Becomes, memory, store
<1>5. ReqInv'
  <2>1. Well(req'[r])
    BY <1>1, <1>3 DEF Well, TicketsAssumption, Ticket
  <2>2. QED
    BY <1>3, <2>1 DEF Inv, ReqInv
<1>6. OwnInv'
  <2>1. Owner(r)
    BY <1>1 DEF Owner
  <2>2. QED
    BY <1>1, <1>3, <2>1 DEF Inv, OwnInv, memory
<1>7. TableInv' /\ EndInv' /\ PendInv'
  BY <1>1, <1>3 DEF Inv, TableInv, EndInv, PendInv, memory, store
<1>8. TokenInv'
  BY <1>1, <1>3 DEF Inv, TokenInv, TypeOK, Remembered, store
<1>9. WriteInv' /\ MintInv'
  <2>1. req[r].at # "issuing" /\ req'[r].at # "issuing"
    BY <1>1, <1>3
  <2>2. QED
    BY <1>1, <1>3, <2>1 DEF Inv, WriteInv, MintInv, memory, store
<1>10. QED
  BY <1>3, <1>4, <1>5, <1>6, <1>7, <1>8, <1>9 DEF Inv

(* An exec, or a write, ended. *)
LEMMA EndKeeps ==
  ASSUME TicketsAssumption, Inv, NEW t \in Ticket, End(t) PROVE Inv'
<1>1. /\ UNCHANGED <<minted, spent, making, valid, lapsed, pending, sweeping, strayed, req>>
      /\ t \in minted \ over /\ over' = over \cup {t} /\ held' = held \ {t}
      /\ dropped' = dropped \cup ({t} \cap spent)
  BY DEF End
<1>2. \A s \in Identity : answers'[s] = answers[s] \/ answers'[s] = Nobody
  BY DEF End, Inv, TypeOK
<1>3. \A w \in Write :
        /\ w # t => writes'[w] = writes[w] /\ handed'[w] = handed[w]
        /\ w = t => /\ writes'[w] = IF writes[w] = "minting" THEN "doomed" ELSE "none"
                    /\ handed'[w] = Nobody
                    /\ handed[w] # Nobody => handed[w] \in revoking'
  BY DEF End, Inv, TypeOK
<1>4. revoking \subseteq revoking'
  BY DEF End
<1>5. TypeOK'
  <2>1. answers' \in [Identity -> Request \cup {Nobody}]
    BY DEF End, Inv, TypeOK
  <2>2. writes' \in [Write -> {"none", "open", "minting", "handed", "doomed"}]
    BY DEF End, Inv, TypeOK
  <2>3. handed' \in [Write -> Request \cup {Nobody}] /\ revoking' \in SUBSET Request
    BY DEF End, Inv, TypeOK
  <2>4. QED
    BY <1>1, <2>1, <2>2, <2>3 DEF Inv, TypeOK
<1>6. ReqInv' /\ LinkInv' /\ OwnInv' /\ PendInv'
  BY <1>1 DEF Inv, ReqInv, Well, LinkInv, Alike, OwnInv, Owner, PendInv
<1>7. TableInv' /\ EndInv'
  BY <1>1, <1>2 DEF Inv, TableInv, EndInv
<1>8. WriteInv' /\ MintInv'
  BY <1>1, <1>3 DEF Inv, WriteInv, MintInv
<1>9. TokenInv'
  <2>1. valid \subseteq Request
    BY DEF Inv, TypeOK
  <2>2. ASSUME NEW q \in valid, req[q].ticket \in Write
        PROVE  handed'[req[q].ticket] = q \/ Remembered(q)'
    <3>1. handed[req[q].ticket] = q \/ Remembered(q)
      BY <2>2 DEF Inv, TokenInv
    <3>2. Remembered(q) => Remembered(q)'
      BY <1>1, <1>4 DEF Remembered
    <3>3. handed[req[q].ticket] = q => handed'[req[q].ticket] = q \/ q \in revoking'
      BY <1>3, <2>1, <2>2 DEF TicketsAssumption
    <3>4. QED
      BY <3>1, <3>2, <3>3 DEF Remembered
  <2>3. QED
    BY <1>1, <2>2 DEF Inv, TokenInv
<1>10. QED
  BY <1>5, <1>6, <1>7, <1>8, <1>9 DEF Inv

(* What a step of the revocations, of time and of the tables leaves. *)
LEMMA TokensKeep ==
  ASSUME Inv, UNCHANGED <<memory, writes, handed, req>>,
         valid' \subseteq valid, lapsed' \subseteq lapsed \cup (valid \ valid'),
         lapsed' \subseteq Request, revoking' \subseteq Request, pending' \subseteq Request,
         strayed' \subseteq Request, sweeping' \in BOOLEAN,
         \A q \in valid' : Remembered(q) => Remembered(q)',
         PendInv'
  PROVE  Inv'
<1>1. TypeOK'
  BY DEF Inv, TypeOK, memory
<1>2. ReqInv' /\ OwnInv' /\ LinkInv' /\ TableInv' /\ EndInv'
  BY DEF Inv, ReqInv, Well, OwnInv, Owner, LinkInv, Alike, TableInv, EndInv, memory
<1>3. WriteInv' /\ MintInv'
  BY DEF Inv, WriteInv, MintInv, memory
<1>4. TokenInv'
  <2>1. lapsed' \cap valid' = {}
    BY DEF Inv, TokenInv
  <2>2. QED
    BY <2>1 DEF Inv, TokenInv
<1>5. QED
  BY <1>1, <1>2, <1>3, <1>4 DEF Inv

LEMMA PrunedBound ==
  ASSUME TicketsAssumption, NEW tokens, IsFiniteSet(tokens), NEW p \in Pruned(tokens)
  PROVE  /\ p \subseteq tokens /\ IsFiniteSet(p) /\ Cardinality(p) <= MaxPending
         /\ Cardinality(tokens) <= MaxPending => p = tokens \ lapsed
<1> DEFINE left == tokens \ lapsed
<1>1. IsFiniteSet(left) /\ Cardinality(left) <= Cardinality(tokens)
  BY FS_Subset
<1>2. Cardinality(left) \in Nat /\ Cardinality(tokens) \in Nat
  BY <1>1, FS_CardinalityType
<1>3. CASE Cardinality(left) <= MaxPending
  BY <1>1, <1>3 DEF Pruned
<1>4. CASE ~(Cardinality(left) <= MaxPending)
  <2>1. p \subseteq left /\ Cardinality(p) = MaxPending
    BY <1>4 DEF Pruned
  <2>2. IsFiniteSet(p)
    BY <1>1, <2>1, FS_Subset
  <2>3. ~(Cardinality(tokens) <= MaxPending)
    BY <1>1, <1>2, <1>4 DEF TicketsAssumption
  <2>4. QED
    BY <2>1, <2>2, <2>3 DEF TicketsAssumption
<1>5. QED
  BY <1>3, <1>4

LEMMA RevokedKeeps ==
  ASSUME Inv, NEW r \in Request, Revoked(r) PROVE Inv'
<1>1. PendInv'
  BY DEF Revoked, Inv, PendInv
<1>2. \A q \in valid' : Remembered(q) => Remembered(q)'
  BY DEF Revoked, Remembered
<1>3. QED
  BY <1>1, <1>2, TokensKeep DEF Revoked, Inv, TypeOK

LEMMA GaveUpKeeps ==
  ASSUME TicketsAssumption, Inv, NEW r \in Request, GaveUp(r) PROVE Inv'
<1>1. IsFiniteSet(pending \cup {r})
  BY FS_AddElement DEF Inv, PendInv
<1>2. pending' \subseteq pending \cup {r} /\ PendInv'
  BY <1>1, PrunedBound DEF GaveUp, PendInv
<1>3. \A q \in valid' : Remembered(q) => Remembered(q)'
  <2>1. ASSUME NEW q \in valid', q \in revoking \/ (sweeping /\ q \in pending) \/ q \in strayed
        PROVE  q \in revoking' \/ (sweeping' /\ q \in pending') \/ q \in strayed'
    <3>1. q \notin lapsed
      BY DEF GaveUp, Inv, TokenInv
    <3>2. CASE q \in pending \cup {r}
      BY <3>1, <3>2 DEF GaveUp
    <3>3. CASE q \notin pending \cup {r}
      BY <2>1, <3>3 DEF GaveUp
    <3>4. QED
      BY <3>2, <3>3
  <2>2. QED
    BY <2>1 DEF Remembered
<1>4. QED
  BY <1>2, <1>3, TokensKeep DEF GaveUp, Inv, TypeOK

LEMMA PruningKeeps ==
  ASSUME TicketsAssumption, Inv, Pruning PROVE Inv'
<1>1. pending' = pending \ lapsed /\ PendInv'
  BY PrunedBound DEF Pruning, Inv, PendInv
<1>2. \A q \in valid' : Remembered(q) => Remembered(q)'
  BY <1>1 DEF Pruning, SweepsOn, Remembered, Inv, TokenInv
<1>3. QED
  BY <1>1, <1>2, TokensKeep DEF Pruning, SweepsOn, Inv, TypeOK

LEMMA SweptKeeps ==
  ASSUME TicketsAssumption, Inv, NEW r \in Request, Swept(r) PROVE Inv'
<1>1. PendInv'
  <2>1. IsFiniteSet(pending \ {r}) /\ Cardinality(pending \ {r}) <= Cardinality(pending)
    BY FS_Subset DEF Inv, PendInv
  <2>2. /\ Cardinality(pending \ {r}) \in Nat /\ Cardinality(pending) \in Nat
    BY <2>1, FS_CardinalityType DEF Inv, PendInv
  <2>3. pending' = pending \/ pending' = pending \ {r}
    BY DEF Swept
  <2>4. /\ IsFiniteSet(pending) /\ Cardinality(pending) <= MaxPending /\ MaxPending \in Nat
    BY DEF Inv, PendInv, TicketsAssumption
  <2>5. CASE pending' = pending
    BY <2>4, <2>5 DEF PendInv
  <2>6. CASE pending' = pending \ {r}
    <3>1. Cardinality(pending \ {r}) <= MaxPending
      BY <2>1, <2>2, <2>4
    <3>2. QED
      BY <2>1, <2>6, <3>1 DEF PendInv
  <2>7. QED
    BY <2>3, <2>5, <2>6
<1>2. \A q \in valid' : Remembered(q) => Remembered(q)'
  BY DEF Swept, SweepsOn, Remembered
<1>3. QED
  BY <1>1, <1>2, TokensKeep DEF Swept, SweepsOn, Inv, TypeOK

LEMMA LapseKeeps ==
  ASSUME Inv, NEW r \in Request, Lapse(r) PROVE Inv'
<1>1. PendInv'
  BY DEF Lapse, Inv, PendInv
<1>2. \A q \in valid' : Remembered(q) => Remembered(q)'
  BY DEF Lapse, Remembered
<1>3. QED
  BY <1>1, <1>2, TokensKeep DEF Lapse, Inv, TypeOK

LEMMA ExpireKeeps ==
  ASSUME Inv, NEW t \in Ticket, Expire(t) PROVE Inv'
<1>1. TypeOK'
  BY DEF Expire, Inv, TypeOK, store
<1>2. OwnInv' /\ EndInv'
  BY DEF Expire, Inv, OwnInv, Owner, EndInv
<1>3. ReqInv' /\ LinkInv' /\ TableInv' /\ PendInv'
  BY DEF Expire, Inv, ReqInv, Well, LinkInv, Alike, TableInv, PendInv, store
<1>4. WriteInv' /\ MintInv' /\ TokenInv'
  BY DEF Expire, Inv, WriteInv, MintInv, TokenInv, Remembered, store
<1>5. QED
  BY <1>1, <1>2, <1>3, <1>4 DEF Inv

LEMMA ForgetKeeps ==
  ASSUME Inv, NEW t \in Identity, Forget(t) PROVE Inv'
<1>1. TypeOK'
  BY DEF Forget, Inv, TypeOK, store
<1>2. OwnInv' /\ EndInv'
  BY DEF Forget, Inv, OwnInv, Owner, EndInv
<1>3. TableInv'
  BY DEF Forget, Inv, TableInv, TypeOK
<1>4. ReqInv' /\ LinkInv' /\ PendInv'
  BY DEF Forget, Inv, ReqInv, Well, LinkInv, Alike, PendInv, store
<1>5. WriteInv' /\ MintInv' /\ TokenInv'
  BY DEF Forget, Inv, WriteInv, MintInv, TokenInv, Remembered, store
<1>6. QED
  BY <1>1, <1>2, <1>3, <1>4, <1>5 DEF Inv

LEMMA StutterKeeps ==
  ASSUME Inv, UNCHANGED vars PROVE Inv'
<1>1. TypeOK' /\ PendInv' /\ EndInv' /\ MintInv' /\ WriteInv'
  BY DEF Inv, TypeOK, PendInv, EndInv, MintInv, WriteInv, vars, memory, store
<1>2. ReqInv' /\ LinkInv' /\ TableInv' /\ OwnInv' /\ TokenInv'
  BY DEF Inv, ReqInv, Well, LinkInv, Alike, TableInv, OwnInv, Owner, TokenInv, Remembered,
         vars, memory, store
<1>3. QED
  BY <1>1, <1>2 DEF Inv

LEMMA NextKeeps ==
  ASSUME TicketsAssumption, Inv, [Next]_vars PROVE Inv'
<1>1. ASSUME NEW t \in Ticket, Mint(t) \/ End(t) \/ Expire(t) PROVE Inv'
  BY <1>1, MintKeeps, EndKeeps, ExpireKeeps
<1>2. ASSUME NEW t \in Identity, Forget(t) PROVE Inv'
  BY <1>2, ForgetKeeps
<1>3. ASSUME NEW r \in Request, NEW t \in Ticket, NEW c \in Channel, Present(r, t, c) PROVE Inv'
  BY <1>3, PresentInv
<1>4. ASSUME NEW r \in Request,
             \/ Asked(r) \/ Issued(r) \/ IssueFailed(r) \/ Cleared(r) \/ Woken(r)
             \/ Replied(r) \/ Revoked(r) \/ GaveUp(r) \/ Swept(r) \/ Lapse(r)
      PROVE  Inv'
  BY <1>4, AskedKeeps, IssuedKeeps, IssueFailedKeeps, ClearedKeeps, WokenKeeps, RepliedKeeps,
     RevokedKeeps, GaveUpKeeps, SweptKeeps, LapseKeeps
<1>5. QED
  BY <1>1, <1>2, <1>3, <1>4, PruningKeeps, StutterKeeps DEF Next

(* The invariant is inductive: it holds in every state that tickets, requests,
   channels and writes can reach. *)
THEOREM Invariance ==
  ASSUME TicketsAssumption PROVE Spec => []Inv
<1>1. Init => Inv
  BY InitInv
<1>2. Inv /\ [Next]_vars => Inv'
  BY NextKeeps
<1>3. QED
  BY <1>1, <1>2, PTL DEF Spec

(* Every variable keeps its type. *)
THEOREM TypeCorrect ==
  ASSUME TicketsAssumption PROVE Spec => []TypeOK
<1>1. Inv => TypeOK
  BY DEF Inv
<1>2. QED
  BY <1>1, Invariance, PTL

(* A ticket is answered once, for any number of requests through any channels:
   whoever got something got what its ticket's one owner did (redeemPickup). *)
THEOREM OneAnswer ==
  ASSUME TicketsAssumption PROVE Spec => []AnsweredOnce
<1>1. Inv => AnsweredOnce
  <2>1. ASSUME Inv, NEW r \in Request, NEW q \in Request, req[r].got # Nobody, req[q].got # Nobody,
               req[r].ticket = req[q].ticket
        PROVE  req[r].got = req[q].got /\ req[r].channel = req[q].channel
    <3>1. /\ req[r].got \in Request /\ Alike(req[r].got, r) /\ Owner(req[r].got)
          /\ req[q].got \in Request /\ Alike(req[q].got, q) /\ Owner(req[q].got)
      BY <2>1 DEF Inv, LinkInv, Owner
    <3>2. req[r].got = req[q].got
      BY <2>1, <3>1 DEF Inv, OwnInv, Alike
    <3>3. QED
      BY <3>1, <3>2 DEF Alike
  <2>2. QED
    BY <2>1 DEF AnsweredOnce
<1>2. QED
  BY <1>1, Invariance, PTL

(* Once its exec ended a ticket is not to be redeemed, and its write leaves no
   entry that no mint in flight will settle (restore, discard; end). *)
THEOREM EndedGone ==
  ASSUME TicketsAssumption PROVE Spec => []EndedIsGone
<1>1. Inv => EndedIsGone
  BY DEF Inv, EndInv, WriteInv, EndedIsGone
<1>2. QED
  BY <1>1, Invariance, PTL

(* A token of a write that ended is being revoked, or waits for a sweep that
   runs, while the store accepts it (minted, end, revokeReliably, sweep). *)
THEOREM TokenEnds ==
  ASSUME TicketsAssumption PROVE Spec => []TokenEndsWithWrite
<1>1. Inv => TokenEndsWithWrite
  <2>1. ASSUME Inv, NEW r \in valid, req[r].ticket \in Write \cap over
        PROVE  Remembered(r)
    <3>1. r \in Request
      BY <2>1 DEF Inv, TypeOK
    <3>2. handed[req[r].ticket] # r
      BY <2>1, <3>1 DEF Inv, WriteInv, TicketsAssumption
    <3>3. QED
      BY <2>1, <3>2 DEF Inv, TokenInv
  <2>2. QED
    BY <2>1 DEF TokenEndsWithWrite, Remembered
<1>2. QED
  BY <1>1, Invariance, PTL

------------------------------------------------------------------------------
(* Upload URLs and final seals.                                             *)

InFlight(c) == calls[c].at # "idle"

\* What a call asks for: a key of its epoch, bound where nothing unbound is asked.
CallFits(c) ==
  InFlight(c) =>
    /\ ScopeOf[calls[c].key] = calls[c].epoch
    /\ calls[c].said = Seals!None => calls[c].unbound
    /\ calls[c].said # Seals!None /\ calls[c].key \notin Index => calls[c].said \in Right[calls[c].key]

CallInv == \A c \in UrlCall : CallFits(c)

TypeInv == Seals!TypeOK /\ CallInv

\* What the record says of a call about to sign, and about to publish.
SignRecorded(c) ==
  calls[c].at = "sign" /\ calls[c].unbound =>
    calls[c].recorded + Ttl + Margin <= authority[calls[c].epoch]

PublishRecorded(c) ==
  calls[c].at = "publish" /\ calls[c].unbound =>
    calls[c].expires <= authority[calls[c].epoch]

PublishBound(c) ==
  calls[c].at = "publish" /\ Seals!Reserves(c) /\ calls[c].expires > now =>
    /\ bound[calls[c].key].bytes = calls[c].said
    /\ bound[calls[c].key].until >= calls[c].expires

RecordInv ==
  /\ Seals!UrlsAreOnRecord
  /\ \A c \in UrlCall : SignRecorded(c) /\ PublishRecorded(c) /\ PublishBound(c)

AllStored(c) == \A k \in Names[c] : stored[k] # Seals!None

\* The seals a call was checked against do not name its key, and those it has
\* yet to be checked against name stored objects only.
Checks(c) ==
  /\ calls[c].at = "again" => \A s \in calls[c].seen : AllStored(s)
  /\ calls[c].at \in {"head", "reserve", "rehead", "record"} =>
       \A s \in calls[c].checked : calls[c].key \notin Names[s]

SealedInv ==
  /\ \A e \in Epoch : seal[e].capture # Seals!None => AllStored(seal[e].capture)
  /\ \A c \in UrlCall : Checks(c)

\* No URL a call may still hand out can make other bytes of k: none, or one
\* that would be dead.
Harmless(c, k) ==
  InFlight(c) /\ calls[c].said = Seals!None /\ calls[c].key = k =>
    /\ calls[c].at = "sign" => calls[c].recorded + Ttl + Margin <= now
    /\ calls[c].at = "publish" => calls[c].expires <= now

\* Nor can any URL that is out.
Settled(k) ==
  /\ \A u \in urls : u.key = k => u.writes = Right[k]
  /\ \A c \in UrlCall : Harmless(c, k)

Kept(k) == Seals!IsRight(k) /\ Settled(k)

\* k is kept, or was replaceable after t.
KeptSince(k, t) == Kept(k) \/ authority[ScopeOf[k]] > t

ProofInv == \A k \in Key \ Index : KeptSince(k, proof[k])

Named(c) == Names[c] \ Index

SealInv ==
  \A e \in Epoch : Seals!Live(e) => \A k \in Named(seal[e].capture) :
    /\ KeptSince(k, seal[e].reverified)
    /\ standing[e] => Kept(k)

Current(a) == Seals!Live(asks[a].epoch) /\ seal[asks[a].epoch].capture = asks[a].capture

\* Past the hold.
Waited(a) == asks[a].at \in {"wait", "read", "void", "again", "mark"}

AskOver(a) ==
  /\ asks[a].at = "wait" => asks[a].left = Names[asks[a].capture]
  /\ asks[a].at \in {"again", "mark"} => asks[a].left = {}
  /\ Waited(a) => asks[a].until <= asks[a].when
  /\ seal[asks[a].epoch].capture # Seals!None
  /\ seal[asks[a].epoch].capture = asks[a].capture
       \/ Nth[asks[a].capture] < Nth[seal[asks[a].epoch].capture]

\* ... or at it, and through.
Past(a) == Waited(a) \/ (asks[a].at = "hold" /\ asks[a].until <= asks[a].when)

(* What a read rests on for one object: settled since its hold, and kept if it
   was re-verified, or read, since no URL could replace it, or in this read. *)
RestsOn(a, k) ==
  /\ Settled(k)
  /\ (asks[a].reverified >= asks[a].until \/ proof[k] >= asks[a].until) => Kept(k)

AskKeeps(a) ==
  Current(a) => \A k \in Named(asks[a].capture) :
    /\ asks[a].at = "until" => KeptSince(k, asks[a].reverified)
    /\ Past(a) => RestsOn(a, k)
    /\ asks[a].at \in {"read", "again", "mark"} /\ k \notin asks[a].left => Kept(k)

AskInv == \A a \in Ask : asks[a].at # "idle" => AskOver(a) /\ AskKeeps(a)

SealsInv == TypeInv /\ RecordInv /\ SealedInv /\ ProofInv /\ SealInv /\ AskInv

-----------------------------------------------------------------------------
(* Types. *)

LEMMA CallRecord ==
  ASSUME Seals!TypeOK, NEW c \in UrlCall, InFlight(c)
  PROVE  /\ calls[c] \in Seals!CallInFlight
         /\ calls[c] = [at |-> calls[c].at, key |-> calls[c].key, epoch |-> calls[c].epoch,
              present |-> calls[c].present, said |-> calls[c].said, unbound |-> calls[c].unbound,
              legacy |-> calls[c].legacy, checked |-> calls[c].checked, seen |-> calls[c].seen,
              started |-> calls[c].started, recorded |-> calls[c].recorded,
              expires |-> calls[c].expires]
<1>1. calls[c] \in Seals!CallInFlight \cup {Seals!IdleCall}
  BY DEF Seals!TypeOK
<1>2. calls[c] # Seals!IdleCall
  BY DEF InFlight, Seals!IdleCall
<1>3. QED BY <1>1, <1>2 DEF Seals!CallInFlight

LEMMA CallMoves ==
  ASSUME Seals!TypeOK, NEW c \in UrlCall, InFlight(c),
         NEW to \in {"head", "reserve", "rehead", "record", "again", "sign", "publish"}
  PROVE  [calls[c] EXCEPT !.at = to] \in Seals!CallInFlight
BY CallRecord DEF Seals!CallInFlight


-----------------------------------------------------------------------------
(* Steps, by what they change. *)

CallNext(c) ==
  \/ Seals!Request(c) \/ Seals!Head(c) \/ Seals!Reserve(c) \/ Seals!ReHead(c)
  \/ Seals!Record(c) \/ Seals!Again(c) \/ Seals!Sign(c) \/ Seals!Publish(c)

AskNext(a) ==
  \/ \E e \in Epoch : Seals!AskSeal(a, e)
  \/ \E k \in Key : Seals!AskRead(a, k)
  \/ Seals!AskUntil(a) \/ Seals!AskHold(a) \/ Seals!Permit(a) \/ Seals!AskFails(a)
  \/ Seals!AskHoldAgain(a) \/ Seals!Void(a) \/ Seals!Mark(a)

LEMMA StoredStep ==
  ASSUME [Seals!Next]_Seals!vars
  PROVE  stored' = stored \/ Seals!Upload
BY DEF Seals!Next, Seals!vars, Seals!db, Seals!Request, Seals!Head, Seals!Reserve, Seals!ReHead,
   Seals!Record, Seals!Again, Seals!Sign, Seals!Publish,
       Seals!RecordSeal, Seals!ReadWhole, Seals!AskSeal, Seals!AskRead, Seals!AskUntil,
          Seals!AskHold, Seals!Permit, Seals!AskFails, Seals!AskHoldAgain,
       Seals!Void, Seals!Mark, Seals!Claim, Seals!Tick, Seals!Restart

LEMMA UrlStep ==
  ASSUME [Seals!Next]_Seals!vars
  PROVE  urls' = urls \/ (\E c \in UrlCall : Seals!Publish(c)) \/ Seals!Tick
BY DEF Seals!Next, Seals!vars, Seals!db, Seals!Request, Seals!Head, Seals!Reserve, Seals!ReHead,
   Seals!Record, Seals!Again, Seals!Sign, 
       Seals!RecordSeal, Seals!ReadWhole, Seals!AskSeal, Seals!AskRead, Seals!AskUntil,
          Seals!AskHold, Seals!Permit, Seals!AskFails, Seals!AskHoldAgain,
       Seals!Void, Seals!Mark, Seals!Claim, Seals!Restart, Seals!Upload

LEMMA SealStep ==
  ASSUME [Seals!Next]_Seals!vars
  PROVE  \/ seal' = seal
         \/ \E c \in Capture : Seals!RecordSeal(c)
         \/ \E a \in Ask : Seals!Void(a) \/ Seals!Mark(a)
BY DEF Seals!Next, Seals!vars, Seals!db, Seals!Request, Seals!Head, Seals!Reserve, Seals!ReHead,
   Seals!Record, Seals!Again, Seals!Sign, Seals!Publish,
       Seals!ReadWhole, Seals!AskSeal, Seals!AskRead, Seals!AskUntil, Seals!AskHold, Seals!Permit,
          Seals!AskFails, Seals!AskHoldAgain,
       Seals!Claim, Seals!Tick, Seals!Restart, Seals!Upload

LEMMA NowStep ==
  ASSUME [Seals!Next]_Seals!vars
  PROVE  (now' = now /\ urls \subseteq urls') \/ Seals!Tick
BY DEF Seals!Next, Seals!vars, Seals!db, Seals!Request, Seals!Head, Seals!Reserve, Seals!ReHead,
   Seals!Record, Seals!Again, Seals!Sign, Seals!Publish,
       Seals!RecordSeal, Seals!ReadWhole, Seals!AskSeal, Seals!AskRead, Seals!AskUntil,
          Seals!AskHold, Seals!Permit, Seals!AskFails, Seals!AskHoldAgain,
       Seals!Void, Seals!Mark, Seals!Claim, Seals!Restart, Seals!Upload

LEMMA LeaseStep ==
  ASSUME [Seals!Next]_Seals!vars, leased \in Epoch
  PROVE  leased' \in Epoch /\ (leased' = leased \/ Seals!Claim)
BY DEF Seals!Next, Seals!vars, Seals!db, Seals!Request, Seals!Head, Seals!Reserve, Seals!ReHead,
   Seals!Record, Seals!Again, Seals!Sign, Seals!Publish,
       Seals!RecordSeal, Seals!ReadWhole, Seals!AskSeal, Seals!AskRead, Seals!AskUntil,
          Seals!AskHold, Seals!Permit, Seals!AskFails, Seals!AskHoldAgain,
       Seals!Void, Seals!Mark, Seals!Claim, Seals!Tick, Seals!Restart, Seals!Upload

LEMMA AuthorityStep ==
  ASSUME [Seals!Next]_Seals!vars
  PROVE  authority' = authority \/ \E c \in UrlCall : Seals!Record(c)
BY DEF Seals!Next, Seals!vars, Seals!db, Seals!Request, Seals!Head, Seals!Reserve, Seals!ReHead,
   Seals!Again, Seals!Sign, Seals!Publish,
       Seals!RecordSeal, Seals!ReadWhole, Seals!AskSeal, Seals!AskRead, Seals!AskUntil,
          Seals!AskHold, Seals!Permit, Seals!AskFails, Seals!AskHoldAgain,
       Seals!Void, Seals!Mark, Seals!Claim, Seals!Tick, Seals!Restart, Seals!Upload

LEMMA BoundStep ==
  ASSUME [Seals!Next]_Seals!vars
  PROVE  bound' = bound \/ \E c \in UrlCall : Seals!Reserve(c) \/ Seals!Sign(c)
BY DEF Seals!Next, Seals!vars, Seals!db, Seals!Request, Seals!Head, Seals!ReHead, Seals!Record,
   Seals!Again, Seals!Publish,
       Seals!RecordSeal, Seals!ReadWhole, Seals!AskSeal, Seals!AskRead, Seals!AskUntil,
          Seals!AskHold, Seals!Permit, Seals!AskFails, Seals!AskHoldAgain,
       Seals!Void, Seals!Mark, Seals!Claim, Seals!Tick, Seals!Restart, Seals!Upload

LEMMA StandingStep ==
  ASSUME [Seals!Next]_Seals!vars
  PROVE  \/ standing' = standing
         \/ \E c \in Capture : Seals!RecordSeal(c)
         \/ \E a \in Ask : (Seals!AskHold(a) \/ Seals!Mark(a)) /\ Seals!Stands(a)
BY DEF Seals!Next, Seals!vars, Seals!db, Seals!Request, Seals!Head, Seals!Reserve, Seals!ReHead,
   Seals!Record, Seals!Again, Seals!Sign, Seals!Publish,
       Seals!ReadWhole, Seals!AskSeal, Seals!AskRead, Seals!AskUntil, Seals!AskHold, Seals!Permit,
          Seals!AskFails, Seals!AskHoldAgain,
       Seals!Void, Seals!Mark, Seals!Claim, Seals!Tick, Seals!Restart, Seals!Upload

(* A named key is read as right, now, or all that was read is forgotten. *)
ReadRight(k) == Seals!IsRight(k) /\ stored' = stored /\ now' = now /\ proof' = [proof EXCEPT ![k] = now]

LEMMA VerifiedReads ==
  ASSUME NEW k \in Key, Seals!Verified(k), stored' = stored, now' = now
  PROVE  proof' = proof \/ \E j \in Key \ Index : ReadRight(j)
<1>1. CASE Seals!IsRight(k) /\ k \notin Index
  BY <1>1 DEF Seals!Verified, ReadRight
<1>2. CASE ~(Seals!IsRight(k) /\ k \notin Index)
  BY <1>2 DEF Seals!Verified
<1>3. QED BY <1>1, <1>2

LEMMA ProofStep ==
  ASSUME Seals!TypeOK, [Seals!Next]_Seals!vars
  PROVE  \/ proof' = proof
         \/ \E k \in Key \ Index : ReadRight(k)
         \/ Seals!Restart
<1>1. ASSUME NEW c \in UrlCall, Seals!Head(c) \/ Seals!ReHead(c) \/ Seals!Again(c)
      PROVE  proof' = proof \/ \E k \in Key \ Index : ReadRight(k)
  <2>1. calls[c].key \in Key
    BY <1>1, CallRecord DEF Seals!Head, Seals!ReHead, Seals!Again, InFlight, Seals!CallInFlight
  <2>2. proof' = proof \/ Seals!Verified(calls[c].key)
    BY <1>1 DEF Seals!Head, Seals!ReHead, Seals!Again
  <2>3. stored' = stored /\ now' = now
    BY <1>1 DEF Seals!Head, Seals!ReHead, Seals!Again
  <2>4. QED BY <2>1, <2>2, <2>3, VerifiedReads
<1>2. ASSUME NEW a \in Ask, NEW k \in Key, Seals!AskRead(a, k)
      PROVE  proof' = proof \/ \E j \in Key \ Index : ReadRight(j)
  <2>1. proof' = proof \/ Seals!Verified(k)
    BY <1>2 DEF Seals!AskRead
  <2>2. stored' = stored /\ now' = now
    BY <1>2 DEF Seals!AskRead
  <2>3. QED BY <2>1, <2>2, VerifiedReads
<1>3. ASSUME NEW k \in Key, Seals!ReadWhole(k)
      PROVE  \E j \in Key \ Index : ReadRight(j)
  BY <1>3 DEF Seals!ReadWhole, ReadRight
<1>4. QED
  BY <1>1, <1>2, <1>3
  DEF Seals!Next, Seals!vars, Seals!db, Seals!Request, Seals!Reserve, Seals!Record, Seals!Sign,
     Seals!Publish, Seals!RecordSeal, Seals!AskSeal, Seals!AskUntil,
      Seals!AskHold, Seals!Permit, Seals!AskFails, Seals!AskHoldAgain, Seals!Void, Seals!Mark,
         Seals!Claim, Seals!Tick, Seals!Upload

LEMMA CallsFunction ==
  ASSUME Seals!TypeOK, [Seals!Next]_Seals!vars
  PROVE  calls' = [c \in UrlCall |-> calls'[c]]
<1>1. calls = [c \in UrlCall |-> calls[c]]
  BY DEF Seals!TypeOK
<1>2. ASSUME NEW c \in UrlCall, CallNext(c)
      PROVE  calls' = [d \in UrlCall |-> calls'[d]]
  BY <1>1, <1>2 DEF CallNext, Seals!Request, Seals!Head, Seals!Reserve, Seals!ReHead,
     Seals!Record, Seals!Again, Seals!Sign, Seals!Publish, Seals!Goes, Seals!Ended
<1>3. CASE ~\E c \in UrlCall : CallNext(c)
  <2>1. calls' = calls \/ Seals!Restart
    BY <1>3 DEF Seals!Next, Seals!vars, Seals!db, Seals!RecordSeal, Seals!ReadWhole,
       Seals!AskSeal, Seals!AskRead, Seals!AskUntil, Seals!AskHold, Seals!Permit, Seals!AskFails,
         Seals!AskHoldAgain, Seals!Void, Seals!Mark, Seals!Claim, Seals!Tick, CallNext, Seals!Upload
  <2>2. QED BY <1>1, <2>1 DEF Seals!Restart
<1>4. QED BY <1>2, <1>3

LEMMA AsksFunction ==
  ASSUME Seals!TypeOK, [Seals!Next]_Seals!vars
  PROVE  asks' = [a \in Ask |-> asks'[a]]
<1>1. asks = [a \in Ask |-> asks[a]]
  BY DEF Seals!TypeOK
<1>2. ASSUME NEW a \in Ask, AskNext(a)
      PROVE  asks' = [b \in Ask |-> asks'[b]]
  BY <1>1, <1>2 DEF AskNext, Seals!AskSeal, Seals!AskRead, Seals!AskUntil, Seals!AskHold,
     Seals!Permit, Seals!AskFails, Seals!AskHoldAgain, Seals!Void,
       Seals!Mark, Seals!AskEnds
<1>3. CASE ~\E a \in Ask : AskNext(a)
  <2>1. asks' = asks \/ Seals!Restart
    BY <1>3 DEF Seals!Next, Seals!vars, Seals!db, Seals!Request, Seals!Head, Seals!Reserve,
       Seals!ReHead, Seals!Record, Seals!Again, Seals!Sign, Seals!Publish, Seals!RecordSeal,
         Seals!ReadWhole, Seals!Claim, Seals!Tick, AskNext, Seals!Upload
  <2>2. QED BY <1>1, <2>1 DEF Seals!Restart
<1>4. QED BY <1>2, <1>3

(* A call moves only by its own steps, or is forgotten. *)
LEMMA CallStep ==
  ASSUME Seals!TypeOK, [Seals!Next]_Seals!vars, NEW c \in UrlCall
  PROVE  calls'[c] = calls[c] \/ calls'[c] = Seals!IdleCall \/ CallNext(c)
<1>1. ASSUME NEW d \in UrlCall, CallNext(d), d # c
      PROVE  calls'[c] = calls[c]
  BY <1>1 DEF CallNext, Seals!Request, Seals!Head, Seals!Reserve, Seals!ReHead, Seals!Record,
     Seals!Again, Seals!Sign, Seals!Publish, Seals!Goes, Seals!Ended, Seals!TypeOK
<1>2. CASE ~\E d \in UrlCall : CallNext(d)
  <2>1. calls' = calls \/ Seals!Restart
    BY <1>2 DEF Seals!Next, Seals!vars, Seals!db, Seals!RecordSeal, Seals!ReadWhole,
       Seals!AskSeal, Seals!AskRead, Seals!AskUntil, Seals!AskHold, Seals!Permit, Seals!AskFails,
         Seals!AskHoldAgain, Seals!Void, Seals!Mark, Seals!Claim, Seals!Tick, CallNext, Seals!Upload
  <2>2. QED BY <2>1 DEF Seals!Restart
<1>3. QED BY <1>1, <1>2

(* So does a read of a seal. *)
LEMMA AskStep ==
  ASSUME Seals!TypeOK, [Seals!Next]_Seals!vars, NEW a \in Ask
  PROVE  asks'[a] = asks[a] \/ asks'[a] = Seals!IdleAsk \/ AskNext(a)
<1>1. ASSUME NEW b \in Ask, AskNext(b), b # a
      PROVE  asks'[a] = asks[a]
  BY <1>1 DEF AskNext, Seals!AskSeal, Seals!AskRead, Seals!AskUntil, Seals!AskHold, Seals!Permit,
     Seals!AskFails, Seals!AskHoldAgain, Seals!Void,
       Seals!Mark, Seals!AskEnds, Seals!TypeOK
<1>2. CASE ~\E b \in Ask : AskNext(b)
  <2>1. asks' = asks \/ Seals!Restart
    BY <1>2 DEF Seals!Next, Seals!vars, Seals!db, Seals!Request, Seals!Head, Seals!Reserve,
       Seals!ReHead, Seals!Record, Seals!Again, Seals!Sign, Seals!Publish, Seals!RecordSeal,
         Seals!ReadWhole, Seals!Claim, Seals!Tick, AskNext, Seals!Upload
  <2>2. QED BY <2>1 DEF Seals!Restart
<1>3. QED BY <1>1, <1>2

-----------------------------------------------------------------------------
(* Types. *)

(* What a call in flight may be next, its fields but a few kept. *)
LEMMA CallOn ==
  ASSUME Seals!TypeOK, NEW c \in UrlCall, InFlight(c)
  PROVE  /\ calls[c].key \in Key /\ calls[c].epoch \in Epoch /\ calls[c].said \in Bytes \cup {Seals!None}
         /\ calls[c].started \in 0..now /\ calls[c].recorded \in 0..now
         /\ calls[c].expires \in 0..(now + Ttl + Lag)
         /\ calls[c].checked \subseteq Capture /\ calls[c].seen \subseteq Capture
         /\ calls[c].unbound \in BOOLEAN
BY CallRecord DEF Seals!CallInFlight

(* A call in flight keeps what it was asked for. *)
SameAsked(c) ==
  /\ calls'[c].key = calls[c].key /\ calls'[c].epoch = calls[c].epoch
  /\ calls'[c].said = calls[c].said /\ calls'[c].unbound = calls[c].unbound

LEMMA CallKeeps ==
  ASSUME Seals!ConstantsAssumption, Seals!TypeOK, NEW c \in UrlCall, CallNext(c), ~Seals!Request(c)
  PROVE  /\ now' = now
         /\ InFlight(c)
         /\ calls'[c] = Seals!IdleCall \/ (calls'[c] \in Seals!CallInFlight' /\ SameAsked(c))
<1>1. InFlight(c)
  BY DEF CallNext, InFlight, Seals!Head, Seals!Reserve, Seals!ReHead, Seals!Record, Seals!Again,
     Seals!Sign, Seals!Publish
<1>2. calls[c] \in Seals!CallInFlight
  BY <1>1, CallRecord
<1>3. now' = now /\ now \in Nat
  BY DEF CallNext, Seals!Head, Seals!Reserve, Seals!ReHead, Seals!Record, Seals!Again, Seals!Sign,
     Seals!Publish, Seals!TypeOK, Seals!Request
<1>4. Seals!CallInFlight' = Seals!CallInFlight
  BY <1>3 DEF Seals!CallInFlight
<1>5. DOMAIN calls = UrlCall
  BY DEF Seals!TypeOK
<1>a. SUFFICES calls'[c] = Seals!IdleCall \/ (calls'[c] \in Seals!CallInFlight /\ SameAsked(c))
  BY <1>1, <1>3, <1>4
<1>6. CASE Seals!Head(c)
  BY <1>2, <1>5, <1>6 DEF Seals!Head, Seals!CallInFlight, Seals!Goes, Seals!Ended, SameAsked
<1>7. CASE Seals!Reserve(c)
  BY <1>2, <1>5, <1>7 DEF Seals!Reserve, Seals!CallInFlight, Seals!Goes, Seals!Ended, SameAsked
<1>8. CASE Seals!ReHead(c)
  BY <1>2, <1>5, <1>8 DEF Seals!ReHead, Seals!CallInFlight, Seals!Goes, Seals!Ended, SameAsked
<1>9. CASE Seals!Record(c)
  <2>1. Seals!SealedOver(calls[c].epoch) \subseteq Capture
    BY DEF Seals!SealedOver, Seals!Live, Seals!TypeOK
  <2>2. now \in 0..now
    BY <1>3
  <2>3. QED BY <1>2, <1>5, <1>9, <2>1, <2>2 DEF Seals!Record, Seals!CallInFlight, Seals!Ended,
     SameAsked
<1>10. CASE Seals!Again(c)
  BY <1>2, <1>5, <1>10 DEF Seals!Again, Seals!CallInFlight, Seals!Ended, SameAsked
<1>11. CASE Seals!Sign(c)
  <2>1. now + Ttl + Lag \in 0..(now + Ttl + Lag)
    BY <1>3 DEF Seals!ConstantsAssumption
  <2>2. QED BY <1>2, <1>5, <1>11, <2>1 DEF Seals!Sign, Seals!CallInFlight, Seals!Ended, SameAsked
<1>12. CASE Seals!Publish(c)
  BY <1>5, <1>12 DEF Seals!Publish, Seals!Ended
<1>13. QED
  BY <1>6, <1>7, <1>8, <1>9, <1>10, <1>11, <1>12 DEF CallNext

LEMMA CallAsked ==
  ASSUME NEW k \in Key, NEW e \in Epoch, NEW present \in BOOLEAN,
         NEW said \in Bytes \cup {Seals!None}, NEW unbound \in BOOLEAN,
         0 \in 0..now, now \in 0..now, 0 \in 0..(now + Ttl + Lag)
  PROVE  [at |-> "head", key |-> k, epoch |-> e, present |-> present, said |-> said,
          unbound |-> unbound, legacy |-> FALSE, checked |-> {}, seen |-> {},
          started |-> now, recorded |-> 0, expires |-> 0] \in Seals!CallInFlight
BY DEF Seals!CallInFlight

LEMMA CallType ==
  ASSUME Seals!ConstantsAssumption, TypeInv, NEW c \in UrlCall, CallNext(c)
  PROVE  calls'[c] \in (Seals!CallInFlight \cup {Seals!IdleCall})' /\ CallFits(c)'
<1>1. CASE Seals!Request(c)
  <2>1. 0 \in 0..now /\ now \in 0..now /\ 0 \in 0..(now + Ttl + Lag)
    BY DEF TypeInv, Seals!TypeOK, Seals!ConstantsAssumption
  <2>2. PICK k \in Key, present \in BOOLEAN, said \in Bytes \cup {Seals!None}, unbound \in BOOLEAN :
          /\ ScopeOf[k] = leased
          /\ said # Seals!None => (k \notin Index => said \in Right[k])
          /\ said = Seals!None => unbound
          /\ calls' = [calls EXCEPT ![c] =
               [at |-> "head", key |-> k, epoch |-> leased, present |-> present, said |-> said,
                unbound |-> unbound, legacy |-> FALSE, checked |-> {}, seen |-> {},
                started |-> now, recorded |-> 0, expires |-> 0]]
    BY <1>1 DEF Seals!Request
  <2>3. calls'[c] = [at |-> "head", key |-> k, epoch |-> leased, present |-> present, said |-> said,
                     unbound |-> unbound, legacy |-> FALSE, checked |-> {}, seen |-> {},
                     started |-> now, recorded |-> 0, expires |-> 0]
    BY <2>2 DEF TypeInv, Seals!TypeOK
  <2>4. now' = now /\ leased \in Epoch
    BY <1>1 DEF Seals!Request, TypeInv, Seals!TypeOK
  <2>5. calls'[c] \in Seals!CallInFlight
    BY <2>1, <2>2, <2>3, <2>4, CallAsked
  <2>6. Seals!CallInFlight' = Seals!CallInFlight
    BY <2>4 DEF Seals!CallInFlight
  <2>7. CallFits(c)'
    BY <2>2, <2>3 DEF CallFits, InFlight
  <2>8. QED BY <2>5, <2>6, <2>7
<1>2. CASE ~Seals!Request(c)
  <2>1. CallFits(c)
    BY DEF TypeInv, CallInv
  <2>2. Seals!IdleCall.at = "idle"
    BY DEF Seals!IdleCall
  <2>3. QED BY <1>2, <2>1, <2>2, CallKeeps DEF TypeInv, CallFits, InFlight, SameAsked
<1>3. QED BY <1>1, <1>2

Reading(a) == asks[a].at # "idle"

LEMMA AskRecord ==
  ASSUME Seals!TypeOK, NEW a \in Ask, Reading(a)
  PROVE  /\ asks[a] \in Seals!AskInFlight
         /\ asks[a].epoch \in Epoch /\ asks[a].capture \in Capture
         /\ asks[a].reverified \in (-1)..now /\ asks[a].when \in 0..now
         /\ asks[a].until \in 0..(now + Ttl + Margin) /\ asks[a].left \subseteq Key
<1>1. asks[a] \in Seals!AskInFlight \cup {Seals!IdleAsk}
  BY DEF Seals!TypeOK
<1>2. asks[a] # Seals!IdleAsk
  BY DEF Reading, Seals!IdleAsk
<1>3. asks[a] \in Seals!AskInFlight
  BY <1>1, <1>2
<1>4. QED BY <1>3 DEF Seals!AskInFlight

(* A read of a seal stays one of the same seal. *)
SameSeal(a) ==
  /\ asks'[a].epoch = asks[a].epoch /\ asks'[a].capture = asks[a].capture
  /\ asks'[a].reverified = asks[a].reverified

LEMMA ScopesAreEpochs ==
  ASSUME Seals!ConstantsAssumption, NEW c \in Capture
  PROVE  Seals!Scopes(c) \subseteq Epoch /\ \A k \in Names[c] : k \in Key /\ ScopeOf[k] \in Seals!Scopes(c)
<1>1. EpochOf[c] \in Epoch /\ Names[c] \subseteq Key
  BY DEF Seals!ConstantsAssumption
<1>2. \A k \in Names[c] : ScopeOf[k] \in Epoch
  BY <1>1 DEF Seals!ConstantsAssumption
<1>3. QED BY <1>1, <1>2 DEF Seals!Scopes

LEMMA AskGoes ==
  ASSUME Seals!ConstantsAssumption, Seals!TypeOK, NEW a \in Ask, AskNext(a),
     ~\E e \in Epoch : Seals!AskSeal(a, e)
  PROVE  /\ now' = now
         /\ Reading(a)
         /\ asks'[a] = Seals!IdleAsk \/ (asks'[a] \in Seals!AskInFlight' /\ SameSeal(a))
<1>1. Reading(a)
  BY DEF AskNext, Reading, Seals!AskRead, Seals!AskUntil, Seals!AskHold, Seals!Permit,
     Seals!AskFails, Seals!AskHoldAgain, Seals!Void, Seals!Mark
<1>2. asks[a] \in Seals!AskInFlight /\ asks[a].capture \in Capture
  BY <1>1, AskRecord
<1>3. now' = now /\ now \in Nat
  BY DEF AskNext, Seals!AskRead, Seals!AskUntil, Seals!AskHold, Seals!Permit, Seals!AskFails,
     Seals!AskHoldAgain, Seals!Void, Seals!Mark, Seals!TypeOK
<1>4. Seals!AskInFlight' = Seals!AskInFlight
  BY <1>3 DEF Seals!AskInFlight
<1>5. DOMAIN asks = Ask
  BY DEF Seals!TypeOK
<1>6. SUFFICES asks'[a] = Seals!IdleAsk \/ (asks'[a] \in Seals!AskInFlight /\ SameSeal(a))
  BY <1>1, <1>3, <1>4
<1>7. CASE Seals!AskUntil(a)
  <2>1. PICK t \in Seals!AuthorityOver(asks[a].capture) :
          asks' = [asks EXCEPT ![a].at = "hold", ![a].when = now, ![a].until = t]
    BY <1>7 DEF Seals!AskUntil
  <2>2. t \in 0..(now + Ttl + Margin)
    BY <1>2, ScopesAreEpochs DEF Seals!AuthorityOver, Seals!TypeOK
  <2>3. now \in 0..now
    BY <1>3
  <2>4. QED BY <1>2, <1>5, <2>1, <2>2, <2>3 DEF Seals!AskInFlight, SameSeal
<1>8. CASE Seals!AskHold(a)
  <2>1. Names[asks[a].capture] \in SUBSET Key
    BY <1>2 DEF Seals!ConstantsAssumption
  <2>2. asks' \in {[asks EXCEPT ![a] = Seals!IdleAsk],
                  [asks EXCEPT ![a].at = "wait", ![a].left = Names[asks[a].capture]]}
    BY <1>8 DEF Seals!AskHold, Seals!AskEnds
  <2>3. QED BY <1>2, <1>5, <2>1, <2>2 DEF Seals!AskInFlight, SameSeal
<1>9. CASE Seals!Permit(a)
  BY <1>2, <1>5, <1>9 DEF Seals!Permit, Seals!AskInFlight, SameSeal
<1>10. CASE Seals!AskFails(a) \/ Seals!Void(a) \/ Seals!Mark(a)
  BY <1>5, <1>10 DEF Seals!AskFails, Seals!Void, Seals!Mark, Seals!AskEnds
<1>11. CASE Seals!AskHoldAgain(a)
  BY <1>2, <1>5, <1>11 DEF Seals!AskHoldAgain, Seals!AskEnds, Seals!AskInFlight, SameSeal
<1>12. ASSUME NEW k \in Key, Seals!AskRead(a, k)
       PROVE  asks'[a] \in Seals!AskInFlight /\ SameSeal(a)
  <2>1. CASE asks' = [asks EXCEPT ![a].at = "void"]
    BY <1>2, <1>5, <2>1 DEF Seals!AskInFlight, SameSeal
  <2>2. CASE \E t \in 0..now : asks' = [asks EXCEPT ![a] = Seals!ReadOn(a, k, t)]
    <3>1. PICK t \in 0..now : asks'[a] = Seals!ReadOn(a, k, t)
      BY <1>5, <2>2
    <3>2. asks[a].left \ {k} \in SUBSET Key
      BY <1>2 DEF Seals!AskInFlight
    <3>3. QED BY <1>2, <3>1, <3>2 DEF Seals!ReadOn, Seals!AskInFlight, SameSeal
  <2>3. asks[a].when \in 0..now
    BY <1>1, AskRecord
  <2>4. Seals!Reuses(a, k) => Seals!MinOf(asks[a].when, proof[k]) \in 0..now
    <3>1. asks[a].until \in Nat
      BY <1>1, <1>3, AskRecord DEF Seals!ConstantsAssumption
    <3>2. Seals!Reuses(a, k) => proof[k] \in (-1)..now
      BY DEF Seals!Reuses, Seals!TypeOK
    <3>3. QED BY <2>3, <3>1, <3>2 DEF Seals!Reuses, Seals!MinOf
  <2>5. QED BY <1>12, <2>1, <2>2, <2>3, <2>4 DEF Seals!AskRead
<1>13. QED
  BY <1>7, <1>8, <1>9, <1>10, <1>11, <1>12 DEF AskNext

LEMMA AskType ==
  ASSUME Seals!ConstantsAssumption, Seals!TypeOK, NEW a \in Ask, AskNext(a)
  PROVE  asks'[a] \in (Seals!AskInFlight \cup {Seals!IdleAsk})'
<1>1. ASSUME NEW e \in Epoch, Seals!AskSeal(a, e)
      PROVE  asks'[a] \in (Seals!AskInFlight \cup {Seals!IdleAsk})'
  <2>1. asks'[a] = [at |-> "until", epoch |-> e, capture |-> seal[e].capture,
                    reverified |-> seal[e].reverified, until |-> 0, when |-> 0, left |-> {}]
    BY <1>1 DEF Seals!AskSeal, Seals!TypeOK
  <2>2. seal[e].capture \in Capture /\ seal[e].reverified \in (-1)..now
    BY <1>1 DEF Seals!AskSeal, Seals!Live, Seals!TypeOK
  <2>3. now' = now /\ 0 \in 0..now /\ 0 \in 0..(now + Ttl + Margin)
    BY <1>1 DEF Seals!AskSeal, Seals!TypeOK, Seals!ConstantsAssumption
  <2>4. QED BY <2>1, <2>2, <2>3 DEF Seals!AskInFlight
<1>2. CASE ~\E e \in Epoch : Seals!AskSeal(a, e)
  BY <1>2, AskGoes
<1>3. QED BY <1>1, <1>2

(* A field in flight keeps its type as the clock goes on. *)
LEMMA InFlightLater ==
  ASSUME Seals!ConstantsAssumption, Seals!TypeOK, [Seals!Next]_Seals!vars
  PROVE  Seals!CallInFlight \subseteq Seals!CallInFlight' /\ Seals!AskInFlight \subseteq Seals!AskInFlight'
<1>1. now' = now \/ now' = now + 1
  BY NowStep DEF Seals!Tick
<1>2. now \in Nat
  BY DEF Seals!TypeOK
<1>3. /\ 0..now \subseteq 0..now' /\ (-1)..now \subseteq (-1)..now'
      /\ 0..(now + Ttl + Lag) \subseteq 0..(now' + Ttl + Lag)
      /\ 0..(now + Ttl + Margin) \subseteq 0..(now' + Ttl + Margin)
  BY <1>1, <1>2 DEF Seals!ConstantsAssumption
<1>4. Seals!CallInFlight \subseteq Seals!CallInFlight'
  BY <1>3 DEF Seals!CallInFlight
<1>5. Seals!AskInFlight \subseteq Seals!AskInFlight'
  BY <1>3 DEF Seals!AskInFlight
<1>6. QED BY <1>4, <1>5

LEMMA AuthorityRises ==
  ASSUME Seals!ConstantsAssumption, Seals!TypeOK, [Seals!Next]_Seals!vars
  PROVE  /\ authority' \in [Epoch -> 0..(now + Ttl + Margin)]
         /\ \A e \in Epoch : authority[e] <= authority'[e]
<1>1. authority \in [Epoch -> 0..(now + Ttl + Margin)] /\ now + Ttl + Margin \in Nat
  BY DEF Seals!TypeOK, Seals!ConstantsAssumption
<1>2. CASE authority' = authority
  BY <1>1, <1>2
<1>3. ASSUME NEW c \in UrlCall, Seals!Record(c)
      PROVE  /\ authority' \in [Epoch -> 0..(now + Ttl + Margin)]
             /\ \A e \in Epoch : authority[e] <= authority'[e]
  <2>1. \/ authority' = authority
        \/ authority' = [authority EXCEPT ![calls[c].epoch] = Seals!MaxOf(@, now + Ttl + Margin)]
    BY <1>3 DEF Seals!Record
  <2>2. QED BY <1>1, <2>1 DEF Seals!MaxOf
<1>4. QED BY <1>2, <1>3, AuthorityStep

LEMMA BoundType ==
  ASSUME Seals!ConstantsAssumption, Seals!TypeOK, [Seals!Next]_Seals!vars
  PROVE  bound' \in [Index -> [bytes : Bytes \cup {Seals!None}, until : 0..(now + Seals!BoundLife)]]
<1>1. now + Seals!BoundLife \in 0..(now + Seals!BoundLife)
  BY DEF Seals!TypeOK, Seals!ConstantsAssumption, Seals!BoundLife
<1>2. bound \in [Index -> [bytes : Bytes \cup {Seals!None}, until : 0..(now + Seals!BoundLife)]]
  BY DEF Seals!TypeOK
<1>3. ASSUME NEW c \in UrlCall, Seals!Reserve(c)
      PROVE  bound' \in [Index -> [bytes : Bytes \cup {Seals!None},
         until : 0..(now + Seals!BoundLife)]]
  <2>1. calls[c].said \in Bytes \cup {Seals!None}
    BY <1>3, CallOn DEF Seals!Reserve, InFlight
  <2>2. bound' = bound \/ bound' = [bound EXCEPT ![calls[c].key] =
            Seals!Bound(bound[calls[c].key], calls[c].said, now + Seals!BoundLife)]
    BY <1>3 DEF Seals!Reserve
  <2>3. \A row \in [bytes : Bytes \cup {Seals!None}, until : 0..(now + Seals!BoundLife)] :
          Seals!Bound(row, calls[c].said, now + Seals!BoundLife)
            \in [bytes : Bytes \cup {Seals!None}, until : 0..(now + Seals!BoundLife)]
    BY <1>1, <2>1 DEF Seals!Bound, Seals!MaxOf
  <2>4. QED BY <1>2, <2>2, <2>3
<1>4. ASSUME NEW c \in UrlCall, Seals!Sign(c)
      PROVE  bound' \in [Index -> [bytes : Bytes \cup {Seals!None},
         until : 0..(now + Seals!BoundLife)]]
  <2>1. \/ bound' = bound
        \/ bound' = [bound EXCEPT ![calls[c].key].until = Seals!MaxOf(@, now + Seals!BoundLife)]
    BY <1>4 DEF Seals!Sign
  <2>2. QED BY <1>1, <1>2, <2>1 DEF Seals!MaxOf
<1>5. QED BY <1>2, <1>3, <1>4, BoundStep

LEMMA SealType ==
  ASSUME Seals!TypeOK, [Seals!Next]_Seals!vars
  PROVE  seal' \in [Epoch -> [capture : Capture \cup {Seals!None}, reverified : (-1)..now,
     void : BOOLEAN]]
<1>1. now \in Nat
  BY DEF Seals!TypeOK
<1>2. ASSUME NEW c \in Capture, Seals!RecordSeal(c)
      PROVE  seal' \in [Epoch -> [capture : Capture \cup {Seals!None}, reverified : (-1)..now,
         void : BOOLEAN]]
  BY <1>1, <1>2 DEF Seals!RecordSeal, Seals!TypeOK
<1>3. ASSUME NEW a \in Ask, Seals!Void(a)
      PROVE  seal' \in [Epoch -> [capture : Capture \cup {Seals!None}, reverified : (-1)..now,
         void : BOOLEAN]]
  BY <1>3 DEF Seals!Void, Seals!Voided, Seals!TypeOK
<1>4. ASSUME NEW a \in Ask, Seals!Mark(a)
      PROVE  seal' \in [Epoch -> [capture : Capture \cup {Seals!None}, reverified : (-1)..now,
         void : BOOLEAN]]
  <2>1. asks[a].when \in 0..now
    BY <1>4, AskRecord DEF Seals!Mark, Reading
  <2>2. \/ seal' = seal
        \/ seal' = [seal EXCEPT ![asks[a].epoch].reverified = Seals!MaxOf(@, asks[a].when)]
    BY <1>4 DEF Seals!Mark
  <2>3. \A t \in (-1)..now : Seals!MaxOf(t, asks[a].when) \in (-1)..now
    BY <1>1, <2>1 DEF Seals!MaxOf
  <2>4. QED BY <2>2, <2>3 DEF Seals!TypeOK
<1>5. QED BY <1>2, <1>3, <1>4, SealStep DEF Seals!TypeOK

LEMMA StoredType ==
  ASSUME Seals!ConstantsAssumption, Seals!TypeOK, [Seals!Next]_Seals!vars
  PROVE  /\ stored' \in [Key -> Bytes \cup {Seals!None}]
         /\ \A k \in Key : stored[k] # Seals!None => stored'[k] # Seals!None
<1>1. CASE Seals!Upload
  <2>1. PICK u \in urls : \E b \in u.writes : stored' = [stored EXCEPT ![u.key] = b]
    BY <1>1 DEF Seals!Upload
  <2>2. PICK b \in Bytes : stored' = [stored EXCEPT ![u.key] = b]
    BY <2>1 DEF Seals!TypeOK
  <2>3. b # Seals!None
    BY DEF Seals!ConstantsAssumption
  <2>4. QED BY <2>2, <2>3 DEF Seals!TypeOK
<1>2. QED BY <1>1, StoredStep DEF Seals!TypeOK

LEMMA UrlType ==
  ASSUME Seals!ConstantsAssumption, Seals!TypeOK, [Seals!Next]_Seals!vars
  PROVE  urls' \subseteq [key : Key, writes : SUBSET Bytes, until : (now' + 1)..(now' + Ttl + Lag)]
<1>1. ASSUME NEW c \in UrlCall, Seals!Publish(c)
      PROVE  urls' \subseteq [key : Key, writes : SUBSET Bytes,
         until : (now' + 1)..(now' + Ttl + Lag)]
  <2>1. InFlight(c)
    BY <1>1 DEF Seals!Publish, InFlight
  <2>2. calls[c].key \in Key /\ Seals!Writes(c) \in SUBSET Bytes /\ calls[c].expires \in 0..(now + Ttl + Lag)
    BY <2>1, CallOn DEF Seals!Writes
  <2>3. calls[c].expires > now => calls[c].expires \in (now + 1)..(now + Ttl + Lag)
    BY <2>2 DEF Seals!TypeOK, Seals!ConstantsAssumption
  <2>4. now' = now
    BY <1>1 DEF Seals!Publish
  <2>5. QED BY <1>1, <2>2, <2>3, <2>4 DEF Seals!Publish, Seals!TypeOK
<1>2. CASE Seals!Tick
  <2>1. now' = now + 1 /\ urls' = {u \in urls : u.until > now'} /\ now \in Nat
    BY <1>2 DEF Seals!Tick, Seals!TypeOK
  <2>2. \A t \in (now + 1)..(now + Ttl + Lag) : t > now' => t \in (now' + 1)..(now' + Ttl + Lag)
    BY <2>1 DEF Seals!ConstantsAssumption
  <2>3. QED BY <2>1, <2>2 DEF Seals!TypeOK
<1>3. CASE urls' = urls /\ ~Seals!Tick
  BY <1>3, NowStep DEF Seals!TypeOK
<1>4. QED BY <1>1, <1>2, <1>3, UrlStep

LEMMA ProofType ==
  ASSUME Seals!TypeOK, [Seals!Next]_Seals!vars
  PROVE  proof' \in [Key \ Index -> (-1)..now]
<1>1. now \in Nat
  BY DEF Seals!TypeOK
<1>2. CASE Seals!Restart
  BY <1>1, <1>2 DEF Seals!Restart
<1>3. ASSUME NEW k \in Key \ Index, ReadRight(k)
      PROVE  proof' \in [Key \ Index -> (-1)..now]
  BY <1>1, <1>3 DEF ReadRight, Seals!TypeOK
<1>4. QED BY <1>2, <1>3, ProofStep DEF Seals!TypeOK

LEMMA StandingType ==
  ASSUME Seals!TypeOK, [Seals!Next]_Seals!vars
  PROVE  standing' \in [Epoch -> BOOLEAN]
<1>1. ASSUME NEW c \in Capture, Seals!RecordSeal(c)
      PROVE  standing' \in [Epoch -> BOOLEAN]
  BY <1>1 DEF Seals!RecordSeal, Seals!TypeOK
<1>2. ASSUME NEW a \in Ask, Seals!Stands(a)
      PROVE  standing' \in [Epoch -> BOOLEAN]
  BY <1>2 DEF Seals!Stands, Seals!TypeOK
<1>3. QED BY <1>1, <1>2, StandingStep DEF Seals!TypeOK

LEMMA TypeInductive ==
  ASSUME Seals!ConstantsAssumption, TypeInv, [Seals!Next]_Seals!vars
  PROVE  TypeInv'
<1>1. Seals!TypeOK
  BY DEF TypeInv
<1>2. now' \in 0..MaxTime /\ now \in Nat /\ (now' = now \/ now' = now + 1) /\ leased' \in Epoch
  BY <1>1, NowStep, LeaseStep DEF Seals!Tick, Seals!TypeOK, Seals!ConstantsAssumption
<1>3. /\ 0..(now + Ttl + Margin) \subseteq 0..(now' + Ttl + Margin)
      /\ 0..(now + Seals!BoundLife) \subseteq 0..(now' + Seals!BoundLife)
      /\ (-1)..now \subseteq (-1)..now'
  <2>1. now' = now \/ now' = now + 1
    BY <1>2
  <2>2. now \in Nat /\ Ttl \in Nat /\ Margin \in Nat
    BY <1>2 DEF Seals!ConstantsAssumption
  <2>3. 0..(now + Ttl + Margin) \subseteq 0..(now' + Ttl + Margin) /\ (-1)..now \subseteq (-1)..now'
    BY <2>1, <2>2
  <2>4. 0..(now + Seals!BoundLife) \subseteq 0..(now' + Seals!BoundLife)
    BY <2>1, <2>2 DEF Seals!BoundLife
  <2>5. QED BY <2>3, <2>4
<1>4. authority' \in [Epoch -> 0..(now' + Ttl + Margin)]
  BY <1>1, <1>3, AuthorityRises
<1>5. bound' \in [Index -> [bytes : Bytes \cup {Seals!None}, until : 0..(now' + Seals!BoundLife)]]
  BY <1>1, <1>3, BoundType
<1>6. seal' \in [Epoch -> [capture : Capture \cup {Seals!None}, reverified : (-1)..now',
   void : BOOLEAN]]
  BY <1>1, <1>3, SealType
<1>7. proof' \in [Key \ Index -> (-1)..now']
  BY <1>1, <1>3, ProofType
<1>8. ASSUME NEW c \in UrlCall
      PROVE  calls'[c] \in (Seals!CallInFlight \cup {Seals!IdleCall})' /\ CallFits(c)'
  <2>1. calls[c] \in Seals!CallInFlight \cup {Seals!IdleCall} /\ CallFits(c)
    BY DEF TypeInv, Seals!TypeOK, CallInv
  <2>2. CASE calls'[c] = calls[c]
    BY <1>1, <2>1, <2>2, InFlightLater DEF CallFits, InFlight
  <2>3. CASE calls'[c] = Seals!IdleCall
    BY <2>3 DEF CallFits, InFlight, Seals!IdleCall
  <2>4. QED BY <1>1, <2>2, <2>3, CallType, CallStep
<1>9. ASSUME NEW a \in Ask
      PROVE  asks'[a] \in (Seals!AskInFlight \cup {Seals!IdleAsk})'
  <2>1. asks[a] \in Seals!AskInFlight \cup {Seals!IdleAsk}
    BY DEF TypeInv, Seals!TypeOK
  <2>2. QED BY <1>1, <2>1, AskType, AskStep, InFlightLater
<1>10. calls' \in [UrlCall -> (Seals!CallInFlight \cup {Seals!IdleCall})']
  BY <1>1, <1>8, CallsFunction
<1>11. asks' \in [Ask -> (Seals!AskInFlight \cup {Seals!IdleAsk})']
  BY <1>1, <1>9, AsksFunction
<1>12. QED
  BY <1>1, <1>2, <1>4, <1>5, <1>6, <1>7, <1>8, <1>10, <1>11, StoredType, UrlType, StandingType
  DEF TypeInv, Seals!TypeOK, CallInv

-----------------------------------------------------------------------------
(* URLs on record. *)

(* A binding that is not over stays, as long at least. *)
LEMMA BoundStays ==
  ASSUME Seals!ConstantsAssumption, TypeInv, [Seals!Next]_Seals!vars, NEW k \in Index,
     NEW t \in Int,
         t > now, bound[k].until >= t
  PROVE  bound'[k].bytes = bound[k].bytes /\ bound'[k].until >= t
<1>1. /\ bound \in [Index -> [bytes : Bytes \cup {Seals!None}, until : 0..(now + Seals!BoundLife)]]
      /\ now \in Nat /\ now + Seals!BoundLife \in Nat /\ bound[k].until \in Nat
  BY DEF TypeInv, Seals!TypeOK, Seals!ConstantsAssumption, Seals!BoundLife
<1>2. ASSUME NEW c \in UrlCall, Seals!Reserve(c)
      PROVE  bound'[k].bytes = bound[k].bytes /\ bound'[k].until >= t
  <2>1. calls[c].started \in 0..now
    BY <1>2, CallOn DEF Seals!Reserve, InFlight, TypeInv
  <2>2. CASE bound' = bound \/ calls[c].key # k
    BY <1>1, <1>2, <2>2 DEF Seals!Reserve
  <2>3. CASE bound' # bound /\ calls[c].key = k
    <3>1. bound[k].bytes = calls[c].said
      BY <1>1, <1>2, <2>1, <2>3 DEF Seals!Reserve
    <3>2. bound'[k] = Seals!Bound(bound[k], calls[c].said, now + Seals!BoundLife)
      BY <1>1, <1>2, <2>3 DEF Seals!Reserve
    <3>3. QED BY <1>1, <3>1, <3>2 DEF Seals!Bound, Seals!MaxOf
  <2>4. QED BY <2>2, <2>3
<1>3. ASSUME NEW c \in UrlCall, Seals!Sign(c)
      PROVE  bound'[k].bytes = bound[k].bytes /\ bound'[k].until >= t
  <2>1. \/ bound' = bound
        \/ bound' = [bound EXCEPT ![calls[c].key].until = Seals!MaxOf(@, now + Seals!BoundLife)]
    BY <1>3 DEF Seals!Sign
  <2>2. QED BY <1>1, <2>1 DEF Seals!MaxOf
<1>4. QED BY <1>2, <1>3, BoundStep

(* Where a call comes to sign, and to publish, from. *)
LEMMA ToSign ==
  ASSUME TypeInv, NEW c \in UrlCall, CallNext(c), calls'[c].at = "sign"
  PROVE  /\ Seals!Record(c)
         /\ leased = calls[c].epoch
         /\ ~calls[c].unbound \/ Seals!Unchecked(c) = {}
         /\ calls'[c] = [calls[c] EXCEPT !.at = "sign", !.recorded = now]
         /\ authority' = IF calls[c].unbound
                         THEN [authority EXCEPT ![calls[c].epoch] = Seals!MaxOf(@,
                            now + Ttl + Margin)]
                         ELSE authority
<1>1. DOMAIN calls = UrlCall
  BY DEF TypeInv, Seals!TypeOK
<1>2. Seals!IdleCall.at # "sign"
  BY DEF Seals!IdleCall
<1>3. CASE Seals!Request(c)
  BY <1>1, <1>3 DEF Seals!Request
<1>4. ASSUME InFlight(c), ~Seals!Record(c) PROVE FALSE
  BY <1>1, <1>2, <1>3, <1>4, CallRecord
  DEF CallNext, Seals!Head, Seals!Reserve, Seals!ReHead, Seals!Again, Seals!Sign, Seals!Publish,
     Seals!Goes, Seals!Ended, TypeInv
<1>5. InFlight(c)
  BY <1>3 DEF CallNext, InFlight, Seals!Head, Seals!Reserve, Seals!ReHead, Seals!Record,
     Seals!Again, Seals!Sign, Seals!Publish
<1>6. Seals!Record(c)
  BY <1>4, <1>5
<1>7. calls[c] \in Seals!CallInFlight
  BY <1>5, CallRecord DEF TypeInv
<1>8. calls' # [calls EXCEPT ![c] = Seals!IdleCall]
  BY <1>1, <1>2
<1>9. calls' # [calls EXCEPT ![c].at = "again", ![c].seen = Seals!SealedOver(calls[c].epoch)]
  BY <1>1, <1>7 DEF Seals!CallInFlight
<1>10. calls' = [calls EXCEPT ![c].at = "sign", ![c].recorded = now]
  BY <1>6, <1>8, <1>9 DEF Seals!Record, Seals!Ended
<1>11. calls'[c] = [calls[c] EXCEPT !.at = "sign", !.recorded = now]
  BY <1>1, <1>10
<1>12. QED
  BY <1>6, <1>8, <1>9, <1>11 DEF Seals!Record, Seals!Ended

LEMMA ToPublish ==
  ASSUME TypeInv, NEW c \in UrlCall, CallNext(c), calls'[c].at = "publish"
  PROVE  /\ Seals!Sign(c) /\ ~Seals!SignedLate(c) /\ (Seals!Reserves(c) => Seals!Extends(c))
         /\ calls'[c] = [calls[c] EXCEPT !.at = "publish", !.expires = now + Ttl + Lag]
         /\ bound' = IF Seals!Reserves(c)
                    THEN [bound EXCEPT ![calls[c].key].until = Seals!MaxOf(@,
                       now + Seals!BoundLife)]
                    ELSE bound
<1>1. DOMAIN calls = UrlCall
  BY DEF TypeInv, Seals!TypeOK
<1>2. Seals!IdleCall.at # "publish"
  BY DEF Seals!IdleCall
<1>3. CASE Seals!Request(c)
  BY <1>1, <1>3 DEF Seals!Request
<1>4. ASSUME InFlight(c), ~Seals!Sign(c) PROVE FALSE
  BY <1>1, <1>2, <1>3, <1>4, CallRecord
  DEF CallNext, Seals!Head, Seals!Reserve, Seals!ReHead, Seals!Record, Seals!Again, Seals!Publish,
     Seals!Goes, Seals!Ended, TypeInv
<1>5. InFlight(c)
  BY <1>3 DEF CallNext, InFlight, Seals!Head, Seals!Reserve, Seals!ReHead, Seals!Record,
     Seals!Again, Seals!Sign, Seals!Publish
<1>6. Seals!Sign(c)
  BY <1>4, <1>5
<1>7. QED
  BY <1>1, <1>2, <1>5, <1>6, CallRecord DEF Seals!Sign, Seals!Ended, TypeInv

(* A URL signed in time is on record: the margin covers the lateness and the lag. *)
LEMMA SignedInTime ==
  ASSUME Seals!ConstantsAssumption, TypeInv, NEW c \in UrlCall, calls[c].at = "sign",
     ~Seals!SignedLate(c),
         NEW t \in Int, calls[c].recorded + Ttl + Margin <= t
  PROVE  now + Ttl + Lag <= t
<1>1. calls[c].recorded \in Nat /\ now \in Nat
  BY CallOn DEF TypeInv, Seals!TypeOK, InFlight
<1>2. 2 * (now - calls[c].recorded) <= Margin /\ 2 * Lag <= Margin
  BY <1>1 DEF Seals!SignedLate, Seals!ConstantsAssumption
<1>3. QED BY <1>1, <1>2 DEF Seals!ConstantsAssumption

LEMMA CallRecordedStep ==
  ASSUME Seals!ConstantsAssumption, TypeInv, [Seals!Next]_Seals!vars, NEW c \in UrlCall,
         SignRecorded(c), PublishRecorded(c), PublishBound(c)
  PROVE  SignRecorded(c)' /\ PublishRecorded(c)' /\ PublishBound(c)'
<1>1. Seals!TypeOK /\ TypeInv' /\ Seals!TypeOK'
  BY TypeInductive DEF TypeInv
<1>2. /\ \A e \in Epoch : authority[e] \in Nat /\ authority'[e] \in Nat /\ authority[e] <= authority'[e]
      /\ now \in Nat /\ now' \in Nat /\ now <= now'
  BY <1>1, AuthorityRises, NowStep DEF Seals!TypeOK, Seals!ConstantsAssumption, Seals!Tick
<1>3. CASE calls'[c] = calls[c]
  <2>1. SignRecorded(c)'
    <3>1. SUFFICES ASSUME calls[c].at = "sign", calls[c].unbound
                   PROVE  calls[c].recorded + Ttl + Margin <= authority'[calls[c].epoch]
      BY <1>3 DEF SignRecorded
    <3>2. calls[c].recorded \in Nat /\ calls[c].epoch \in Epoch
      BY <1>1, <1>2, <3>1, CallOn DEF InFlight
    <3>3. calls[c].recorded + Ttl + Margin <= authority[calls[c].epoch]
      BY <3>1 DEF SignRecorded
    <3>4. /\ authority[calls[c].epoch] \in Nat /\ authority'[calls[c].epoch] \in Nat
          /\ authority[calls[c].epoch] <= authority'[calls[c].epoch]
      BY <1>2, <3>2
    <3>5. Ttl \in Nat /\ Margin \in Nat
      BY DEF Seals!ConstantsAssumption
    <3>6. QED BY <3>2, <3>3, <3>4, <3>5
  <2>2. PublishRecorded(c)'
    BY <1>1, <1>2, <1>3, CallOn DEF PublishRecorded, InFlight
  <2>3. PublishBound(c)'
    <3>1. SUFFICES ASSUME calls[c].at = "publish", Seals!Reserves(c), calls[c].expires > now'
                   PROVE  /\ bound'[calls[c].key].bytes = calls[c].said
                          /\ bound'[calls[c].key].until >= calls[c].expires
      BY <1>3 DEF PublishBound, Seals!Reserves
    <3>2. calls[c].expires \in Int
      BY <1>1, <3>1, CallOn DEF InFlight
    <3>3. QED BY <1>2, <3>1, <3>2, BoundStays DEF PublishBound, Seals!Reserves
  <2>4. QED BY <2>1, <2>2, <2>3
<1>4. CASE calls'[c] = Seals!IdleCall
  BY <1>4 DEF SignRecorded, PublishRecorded, PublishBound, Seals!IdleCall
<1>5. CASE CallNext(c) /\ calls'[c].at = "sign"
  <2>1. InFlight(c) /\ calls[c].epoch \in Epoch
    BY <1>1, <1>5, ToSign, CallOn DEF Seals!Record, InFlight
  <2>2. /\ calls'[c].recorded = now /\ calls'[c].unbound = calls[c].unbound
        /\ calls'[c].epoch = calls[c].epoch
    BY <1>1, <1>5, <2>1, ToSign, CallRecord
  <2>3. calls[c].unbound => authority'[calls[c].epoch] = Seals!MaxOf(authority[calls[c].epoch],
     now + Ttl + Margin)
    <3>1. authority' = IF calls[c].unbound
                      THEN [authority EXCEPT ![calls[c].epoch] = Seals!MaxOf(@, now + Ttl + Margin)]
                      ELSE authority
      BY <1>5, ToSign
    <3>2. DOMAIN authority = Epoch
      BY <1>1 DEF Seals!TypeOK
    <3>3. QED BY <2>1, <3>1, <3>2
  <2>4. QED
    BY <1>2, <1>5, <2>1, <2>2, <2>3 DEF SignRecorded, PublishRecorded, PublishBound, Seals!MaxOf,
       Seals!ConstantsAssumption
<1>6. CASE CallNext(c) /\ calls'[c].at = "publish"
  <2>1. InFlight(c) /\ calls[c].epoch \in Epoch /\ calls[c].at = "sign"
    BY <1>1, <1>6, ToPublish, CallOn DEF Seals!Sign, InFlight
  <2>2. /\ calls'[c].expires = now + Ttl + Lag /\ calls'[c].unbound = calls[c].unbound
        /\ calls'[c].epoch = calls[c].epoch /\ calls'[c].key = calls[c].key /\ calls'[c].said = calls[c].said
    BY <1>1, <1>6, <2>1, ToPublish, CallRecord
  <2>3. PublishRecorded(c)'
    <3>1. SUFFICES ASSUME calls[c].unbound
                   PROVE  now + Ttl + Lag <= authority'[calls[c].epoch]
      BY <2>2 DEF PublishRecorded
    <3>2. calls[c].recorded + Ttl + Margin <= authority[calls[c].epoch]
      BY <2>1, <3>1 DEF SignRecorded
    <3>3. authority[calls[c].epoch] \in Int /\ authority'[calls[c].epoch] \in Int
          /\ authority[calls[c].epoch] <= authority'[calls[c].epoch]
      BY <1>2, <2>1
    <3>4. ~Seals!SignedLate(c)
      BY <1>6, ToPublish
    <3>5. now + Ttl + Lag <= authority[calls[c].epoch]
      BY <2>1, <3>2, <3>3, <3>4, SignedInTime
    <3>6. QED BY <1>2, <3>3, <3>5 DEF Seals!ConstantsAssumption
  <2>4. PublishBound(c)'
    <3>1. SUFFICES ASSUME Seals!Reserves(c)
                   PROVE  /\ bound'[calls[c].key].bytes = calls[c].said
                          /\ bound'[calls[c].key].until >= now + Ttl + Lag
      BY <2>2 DEF PublishBound, Seals!Reserves
    <3>2. calls[c].key \in Index /\ bound[calls[c].key].bytes = calls[c].said
      BY <1>6, <3>1, ToPublish DEF Seals!Extends, Seals!Reserves
    <3>3. bound'[calls[c].key] = [bound[calls[c].key] EXCEPT !.until = Seals!MaxOf(@,
       now + Seals!BoundLife)]
      BY <1>1, <1>6, <3>1, <3>2, ToPublish DEF Seals!TypeOK
    <3>4. bound[calls[c].key] \in [bytes : Bytes \cup {Seals!None},
       until : 0..(now + Seals!BoundLife)]
      BY <1>1, <3>2 DEF Seals!TypeOK
    <3>5. now + Seals!BoundLife >= now + Ttl + Lag
      BY <1>2 DEF Seals!BoundLife, Seals!ConstantsAssumption
    <3>6. QED BY <1>2, <3>2, <3>3, <3>4, <3>5 DEF Seals!MaxOf, Seals!BoundLife,
       Seals!ConstantsAssumption
  <2>5. QED BY <1>6, <2>3, <2>4 DEF SignRecorded
<1>7. CASE CallNext(c) /\ calls'[c].at \notin {"sign", "publish"}
  BY <1>7 DEF SignRecorded, PublishRecorded, PublishBound
<1>8. QED BY <1>1, <1>3, <1>4, <1>5, <1>6, <1>7, CallStep

OnRecord(u) ==
  \/ u.until <= authority[ScopeOf[u.key]]
  \/ u.key \notin Index /\ u.writes = Right[u.key]
  \/ /\ u.key \in Index /\ bound[u.key].until >= u.until
     /\ u.writes = {bound[u.key].bytes}

LEMMA RecordInductive ==
  ASSUME Seals!ConstantsAssumption, TypeInv, RecordInv, [Seals!Next]_Seals!vars
  PROVE  RecordInv'
<1>1. Seals!TypeOK /\ TypeInv' /\ Seals!TypeOK'
  BY TypeInductive DEF TypeInv
<1>2. \A e \in Epoch : authority[e] \in Nat /\ authority'[e] \in Nat /\ authority[e] <= authority'[e]
  BY <1>1, AuthorityRises DEF Seals!TypeOK, Seals!ConstantsAssumption
<1>3. ASSUME NEW u \in urls
      PROVE  OnRecord(u)'
  <2>1. /\ u.key \in Key /\ ScopeOf[u.key] \in Epoch /\ u.until \in Int /\ u.until > now
    BY <1>1 DEF Seals!TypeOK, Seals!ConstantsAssumption
  <2>2. OnRecord(u)
    BY DEF RecordInv, Seals!UrlsAreOnRecord, OnRecord
  <2>3. u.until <= authority[ScopeOf[u.key]] => u.until <= authority'[ScopeOf[u.key]]
    BY <1>2, <2>1
  <2>4. u.key \in Index /\ bound[u.key].until >= u.until =>
          bound'[u.key].bytes = bound[u.key].bytes /\ bound'[u.key].until >= u.until
    BY <2>1, BoundStays
  <2>5. QED BY <2>2, <2>3, <2>4 DEF OnRecord
<1>4. ASSUME NEW c \in UrlCall, Seals!Publish(c), leased = calls[c].epoch, calls[c].expires > now,
             NEW u, u = [key |-> calls[c].key, writes |-> Seals!Writes(c),
                until |-> calls[c].expires]
      PROVE  OnRecord(u)'
  <2>1. calls[c].at = "publish" /\ InFlight(c) /\ authority' = authority /\ bound' = bound
    BY <1>4 DEF Seals!Publish, InFlight, Seals!db
  <2>2. CallFits(c) /\ PublishRecorded(c) /\ PublishBound(c)
    BY DEF TypeInv, CallInv, RecordInv
  <2>3. calls[c].key \in Key /\ calls[c].epoch \in Epoch
    BY <1>1, <2>1, CallOn
  <2>4. CASE calls[c].said = Seals!None
    BY <1>4, <2>1, <2>2, <2>4 DEF OnRecord, CallFits, PublishRecorded
  <2>5. CASE calls[c].said # Seals!None /\ calls[c].key \notin Index
    <3>1. PICK b \in Bytes : Right[calls[c].key] = {b}
      BY <2>3, <2>5 DEF Seals!ConstantsAssumption
    <3>2. QED BY <1>4, <2>1, <2>2, <2>5, <3>1 DEF OnRecord, CallFits, Seals!Writes
  <2>6. CASE calls[c].said # Seals!None /\ calls[c].key \in Index
    BY <1>4, <2>1, <2>2, <2>6 DEF OnRecord, PublishBound, Seals!Reserves, Seals!Writes
  <2>7. QED BY <2>4, <2>5, <2>6
<1>5. \A u \in urls' : OnRecord(u)'
  <2>1. CASE urls' \subseteq urls
    BY <1>3, <2>1
  <2>2. ASSUME NEW c \in UrlCall, Seals!Publish(c), ~(urls' \subseteq urls)
        PROVE  \A u \in urls' : OnRecord(u)'
    BY <1>3, <1>4, <2>2 DEF Seals!Publish
  <2>3. QED BY <2>1, <2>2, UrlStep DEF Seals!Tick
<1>6. Seals!UrlsAreOnRecord'
  BY <1>5 DEF Seals!UrlsAreOnRecord, OnRecord
<1>7. QED BY <1>6, CallRecordedStep DEF RecordInv

-----------------------------------------------------------------------------
(* Recorded seals. *)

(* A seal is replaced by a later one, or stays one of the same capture: void
   once void, and re-verified by a mark. *)
Replaced(e, c) ==
  /\ Seals!RecordSeal(c) /\ EpochOf[c] = e
  /\ seal'[e] = [capture |-> c, reverified |-> -1, void |-> FALSE]
  /\ standing'[e] = FALSE

MarkedBy(a, e) ==
  /\ asks[a].at = "mark" /\ asks[a].epoch = e /\ Seals!MarkHolds(a)
  /\ seal'[e].reverified = Seals!MaxOf(seal[e].reverified, asks[a].when)

LEMMA SealKeeps ==
  ASSUME Seals!TypeOK, [Seals!Next]_Seals!vars, NEW e \in Epoch
  PROVE  \/ \E c \in Capture : Replaced(e, c)
         \/ /\ seal'[e].capture = seal[e].capture
            /\ seal[e].void => seal'[e].void
            /\ \/ seal'[e].reverified = seal[e].reverified
               \/ \E a \in Ask : MarkedBy(a, e)
<1>1. ASSUME NEW c \in Capture, Seals!RecordSeal(c)
      PROVE  seal'[e] = seal[e] \/ Replaced(e, c)
  BY <1>1 DEF Seals!RecordSeal, Replaced, Seals!TypeOK
<1>2. ASSUME NEW a \in Ask, Seals!Void(a)
      PROVE  /\ seal'[e].capture = seal[e].capture
             /\ seal[e].void => seal'[e].void
             /\ seal'[e].reverified = seal[e].reverified
  BY <1>2 DEF Seals!Void, Seals!Voided, Seals!TypeOK
<1>3. ASSUME NEW a \in Ask, Seals!Mark(a)
      PROVE  /\ seal'[e].capture = seal[e].capture
             /\ seal[e].void => seal'[e].void
             /\ seal'[e].reverified = seal[e].reverified \/ MarkedBy(a, e)
  <2>1. CASE Seals!MarkHolds(a) /\ asks[a].epoch = e
    <3>1. seal' = [seal EXCEPT ![e].reverified = Seals!MaxOf(@, asks[a].when)]
      BY <1>3, <2>1 DEF Seals!Mark
    <3>2. seal'[e] = [seal[e] EXCEPT !.reverified = Seals!MaxOf(@, asks[a].when)]
      BY <3>1 DEF Seals!TypeOK
    <3>3. seal[e] \in [capture : Capture \cup {Seals!None}, reverified : (-1)..now, void : BOOLEAN]
      BY DEF Seals!TypeOK
    <3>4. QED BY <1>3, <2>1, <3>2, <3>3 DEF MarkedBy, Seals!Mark
  <2>2. CASE ~(Seals!MarkHolds(a) /\ asks[a].epoch = e)
    BY <1>3, <2>2 DEF Seals!Mark, Seals!TypeOK
  <2>3. QED BY <2>1, <2>2
<1>4. QED BY <1>1, <1>2, <1>3, SealStep

LEMMA ChecksStep ==
  ASSUME Seals!ConstantsAssumption, TypeInv, SealedInv, [Seals!Next]_Seals!vars, NEW c \in UrlCall
  PROVE  Checks(c)'
<1>1. Seals!TypeOK /\ Checks(c)
  BY DEF TypeInv, SealedInv
<1>2. \A s \in Capture : AllStored(s) => AllStored(s)'
  BY <1>1, StoredType DEF AllStored, Seals!ConstantsAssumption
<1>3. DOMAIN calls = UrlCall
  BY <1>1 DEF Seals!TypeOK
<1>4. CASE calls'[c] = calls[c]
  <2>1. calls[c].at = "again" => calls[c].seen \subseteq Capture
    BY <1>1, CallOn DEF InFlight
  <2>2. QED BY <1>1, <1>2, <1>4, <2>1 DEF Checks
<1>5. CASE calls'[c] = Seals!IdleCall
  BY <1>5 DEF Checks, Seals!IdleCall
<1>6. CASE Seals!Request(c)
  <2>1. calls'[c].at = "head" /\ calls'[c].checked = {}
    BY <1>3, <1>6 DEF Seals!Request
  <2>2. QED BY <1>3, <2>1 DEF Checks
<1>7. CASE CallNext(c) /\ ~Seals!Request(c) /\ calls'[c] # Seals!IdleCall
  <2>1. calls[c] \in Seals!CallInFlight /\ InFlight(c)
    BY <1>1, <1>7, CallKeeps, CallRecord
  <2>2. CASE Seals!Record(c)
    <3>1. SUFFICES ASSUME calls'[c].at = "again"
                   PROVE  \A s \in calls'[c].seen : AllStored(s)'
      BY <1>3, <1>7, <2>1, <2>2 DEF Checks, Seals!Record, Seals!Ended, Seals!CallInFlight
    <3>2. calls'[c].seen = Seals!SealedOver(calls[c].epoch)
      BY <1>3, <1>7, <2>1, <2>2, <3>1 DEF Seals!Record, Seals!Ended, Seals!CallInFlight
    <3>3. \A s \in Seals!SealedOver(calls[c].epoch) : s \in Capture /\ AllStored(s)
      BY <1>1 DEF Seals!SealedOver, Seals!Live, SealedInv, Seals!TypeOK
    <3>4. QED BY <1>2, <3>2, <3>3
  <2>3. CASE Seals!Again(c)
    <3>1. stored[calls[c].key] = Seals!None /\ calls[c].at = "again"
      BY <1>3, <1>7, <2>1, <2>3 DEF Seals!Again, Seals!Ended
    <3>2. /\ calls'[c].checked = calls[c].seen /\ calls'[c].key = calls[c].key
          /\ calls'[c].at = "record"
      BY <1>3, <2>1, <2>3, <3>1 DEF Seals!Again, Seals!CallInFlight
    <3>3. \A s \in calls[c].seen : calls[c].key \notin Names[s]
      BY <1>1, <3>1 DEF Checks, AllStored
    <3>4. QED BY <3>2, <3>3 DEF Checks
  <2>4. CASE Seals!Head(c) \/ Seals!Reserve(c) \/ Seals!ReHead(c)
    <3>1. /\ calls[c].at \in {"head", "reserve", "rehead", "record"}
          /\ calls'[c].checked = calls[c].checked /\ calls'[c].key = calls[c].key
          /\ calls'[c].at # "again"
      BY <1>3, <1>7, <2>1, <2>4 DEF Seals!Head, Seals!Reserve, Seals!ReHead, Seals!Goes,
         Seals!Ended, Seals!CallInFlight
    <3>2. QED BY <1>1, <3>1 DEF Checks
  <2>5. CASE Seals!Sign(c) \/ Seals!Publish(c)
    BY <1>3, <1>7, <2>1, <2>5 DEF Seals!Sign, Seals!Publish, Seals!Ended, Checks, Seals!CallInFlight
  <2>6. QED BY <1>7, <2>2, <2>3, <2>4, <2>5 DEF CallNext
<1>8. QED BY <1>1, <1>4, <1>5, <1>6, <1>7, CallStep

LEMMA SealedInductive ==
  ASSUME Seals!ConstantsAssumption, TypeInv, SealedInv, [Seals!Next]_Seals!vars
  PROVE  SealedInv'
<1>1. Seals!TypeOK
  BY DEF TypeInv
<1>2. ASSUME NEW e \in Epoch, seal'[e].capture # Seals!None
      PROVE  \A k \in Names[seal'[e].capture] : stored'[k] # Seals!None
  <2>1. CASE seal'[e].capture = seal[e].capture
    <3>1. seal[e].capture \in Capture /\ AllStored(seal[e].capture)
      BY <1>1, <1>2, <2>1 DEF SealedInv, Seals!TypeOK
    <3>2. QED BY <1>1, <2>1, <3>1, StoredType DEF AllStored, Seals!ConstantsAssumption
  <2>2. ASSUME NEW c \in Capture, Replaced(e, c)
        PROVE  \A k \in Names[seal'[e].capture] : stored'[k] # Seals!None
    BY <2>2 DEF Replaced, Seals!RecordSeal, AllStored
  <2>3. QED BY <1>1, <2>1, <2>2, SealKeeps
<1>3. QED BY <1>2, ChecksStep DEF SealedInv, AllStored

-----------------------------------------------------------------------------
(* What keeps an object what its name says. *)

(* A call records the authority of a URL that could replace k. *)
Granted(c, k) ==
  CallNext(c) /\ calls'[c].at = "sign" /\ calls[c].said = Seals!None /\ calls[c].key = k

LEMMA HarmlessStep ==
  ASSUME Seals!ConstantsAssumption, TypeInv, [Seals!Next]_Seals!vars, NEW k \in Key,
         NEW c \in UrlCall, Harmless(c, k), ~Granted(c, k)
  PROVE  Harmless(c, k)'
<1>1. Seals!TypeOK
  BY DEF TypeInv
<1>2. now \in Nat /\ now' \in Nat /\ now <= now'
  BY <1>1, NowStep DEF Seals!TypeOK, Seals!Tick
<1>3. CASE calls'[c] = calls[c]
  BY <1>1, <1>2, <1>3, CallOn DEF Harmless, InFlight, Seals!ConstantsAssumption
<1>4. CASE calls'[c] = Seals!IdleCall \/ calls'[c].at \notin {"sign", "publish"}
  BY <1>4 DEF Harmless, InFlight, Seals!IdleCall
<1>5. CASE CallNext(c) /\ calls'[c].at = "sign"
  <2>1. InFlight(c)
    BY <1>5, ToSign DEF Seals!Record, InFlight
  <2>2. calls'[c].said = calls[c].said /\ calls'[c].key = calls[c].key
    BY <1>1, <1>5, <2>1, ToSign, CallRecord
  <2>3. QED BY <1>5, <2>2 DEF Harmless, Granted
<1>6. CASE CallNext(c) /\ calls'[c].at = "publish"
  <2>1. InFlight(c) /\ calls[c].at = "sign" /\ ~Seals!SignedLate(c)
    BY <1>6, ToPublish DEF Seals!Sign, InFlight
  <2>2. calls'[c].said = calls[c].said /\ calls'[c].key = calls[c].key
    BY <1>1, <1>6, <2>1, ToPublish, CallRecord
  <2>3. calls[c].recorded \in Nat
    BY <1>1, <2>1, CallOn DEF Seals!TypeOK
  <2>4. ~(calls[c].recorded + Ttl + Margin <= now)
    BY <1>2, <2>1, <2>3 DEF Seals!SignedLate, Seals!ConstantsAssumption
  <2>5. QED BY <1>6, <2>1, <2>2, <2>4 DEF Harmless
<1>7. QED BY <1>1, <1>3, <1>4, <1>5, <1>6, CallStep

LEMMA SettledStep ==
  ASSUME Seals!ConstantsAssumption, TypeInv, [Seals!Next]_Seals!vars, NEW k \in Key \ Index,
     Settled(k),
         \A c \in UrlCall : ~Granted(c, k)
  PROVE  Settled(k)'
<1>1. ASSUME NEW u \in urls', u.key = k
      PROVE  u.writes = Right[k]
  <2>1. CASE u \in urls
    BY <1>1, <2>1 DEF Settled
  <2>2. ASSUME NEW c \in UrlCall, Seals!Publish(c), u \notin urls
        PROVE  u.writes = Right[k]
    <3>1. InFlight(c) /\ calls[c].at = "publish"
      BY <2>2 DEF Seals!Publish, InFlight
    <3>2. /\ calls[c].key = k /\ calls[c].expires > now
          /\ u.writes = Seals!Writes(c)
      BY <1>1, <2>2 DEF Seals!Publish
    <3>3. calls[c].said # Seals!None
      <4>1. SUFFICES ASSUME calls[c].said = Seals!None PROVE FALSE
        OBVIOUS
      <4>2. calls[c].expires <= now
        BY <3>1, <3>2, <4>1 DEF Settled, Harmless
      <4>3. calls[c].expires \in Int /\ now \in Int
        BY <3>1, CallOn DEF TypeInv, Seals!TypeOK
      <4>4. QED BY <3>2, <4>2, <4>3
    <3>4. calls[c].said \in Right[k]
      BY <3>1, <3>2, <3>3 DEF TypeInv, CallInv, CallFits
    <3>5. PICK b \in Bytes : Right[k] = {b}
      BY DEF Seals!ConstantsAssumption
    <3>6. QED BY <3>2, <3>3, <3>4, <3>5 DEF Seals!Writes
  <2>3. QED BY <2>1, <2>2, UrlStep DEF Seals!Tick
<1>2. \A c \in UrlCall : Harmless(c, k)'
  BY HarmlessStep DEF Settled
<1>3. QED BY <1>1, <1>2 DEF Settled

LEMMA RightStep ==
  ASSUME TypeInv, [Seals!Next]_Seals!vars, NEW k \in Key, Kept(k)
  PROVE  Seals!IsRight(k)'
<1>1. CASE Seals!Upload
  <2>1. PICK u \in urls : \E b \in u.writes : stored' = [stored EXCEPT ![u.key] = b]
    BY <1>1 DEF Seals!Upload
  <2>2. PICK b \in u.writes : stored' = [stored EXCEPT ![u.key] = b]
    BY <2>1
  <2>3. u.key = k => b \in Right[k]
    BY <2>2 DEF Kept, Settled
  <2>4. DOMAIN stored = Key
    BY DEF TypeInv, Seals!TypeOK
  <2>5. QED BY <2>2, <2>3, <2>4 DEF Kept, Seals!IsRight
<1>2. QED BY <1>1, StoredStep DEF Kept, Seals!IsRight

LEMMA KeptStep ==
  ASSUME Seals!ConstantsAssumption, TypeInv, [Seals!Next]_Seals!vars, NEW k \in Key \ Index,
     Kept(k),
         \A c \in UrlCall : ~Granted(c, k)
  PROVE  Kept(k)'
BY SettledStep, RightStep DEF Kept

LEMMA AuthorityNat ==
  ASSUME Seals!ConstantsAssumption, Seals!TypeOK
  PROVE  /\ now \in Nat
         /\ \A e \in Epoch : authority[e] \in Nat
         /\ \A k \in Key : ScopeOf[k] \in Epoch /\ authority[ScopeOf[k]] \in Nat
<1>1. now \in Nat
  BY DEF Seals!TypeOK
<1>2. \A e \in Epoch : authority[e] \in Nat
  BY <1>1 DEF Seals!TypeOK, Seals!ConstantsAssumption
<1>3. \A k \in Key : ScopeOf[k] \in Epoch
  BY DEF Seals!ConstantsAssumption
<1>4. QED BY <1>1, <1>2, <1>3

(* A grant is on record beyond now, and never for what a live seal names. *)
LEMMA GrantRaises ==
  ASSUME Seals!ConstantsAssumption, TypeInv, NEW k \in Key, NEW c \in UrlCall, Granted(c, k)
  PROVE  authority'[ScopeOf[k]] > now
<1>1. InFlight(c)
  BY ToSign DEF Granted, Seals!Record, InFlight
<1>2. calls[c].unbound /\ ScopeOf[k] = calls[c].epoch /\ calls[c].epoch \in Epoch
  BY <1>1, CallOn DEF Granted, TypeInv, CallInv, CallFits
<1>3. authority' = [authority EXCEPT ![calls[c].epoch] = Seals!MaxOf(@, now + Ttl + Margin)]
  BY <1>2, ToSign DEF Granted
<1>4. authority'[ScopeOf[k]] = Seals!MaxOf(authority[ScopeOf[k]], now + Ttl + Margin)
  BY <1>2, <1>3 DEF TypeInv, Seals!TypeOK
<1>5. authority[ScopeOf[k]] \in Nat /\ now \in Nat
  BY AuthorityNat DEF TypeInv
<1>6. QED BY <1>4, <1>5 DEF Seals!MaxOf, Seals!ConstantsAssumption

LEMMA GrantUnsealed ==
  ASSUME Seals!ConstantsAssumption, TypeInv, SealedInv, NEW e \in Epoch, Seals!Live(e),
         NEW k \in Names[seal[e].capture], NEW c \in UrlCall
  PROVE  ~Granted(c, k)
<1>1. SUFFICES ASSUME Granted(c, k) PROVE FALSE
  OBVIOUS
<1>2. InFlight(c) /\ calls[c].at = "record"
  BY <1>1, ToSign DEF Granted, Seals!Record, InFlight
<1>3. calls[c].unbound /\ ScopeOf[k] = calls[c].epoch
  BY <1>1, <1>2 DEF Granted, TypeInv, CallInv, CallFits
<1>4. Seals!Unchecked(c) = {}
  BY <1>1, <1>3, ToSign DEF Granted
<1>5. seal[e].capture \in Seals!SealedOver(calls[c].epoch)
  <2>1. seal[e].capture \in Capture
    BY DEF Seals!Live, TypeInv, Seals!TypeOK
  <2>2. ScopeOf[k] \in Seals!Scopes(seal[e].capture)
    BY DEF Seals!Scopes
  <2>3. QED BY <1>3, <2>2 DEF Seals!SealedOver
<1>6. seal[e].capture \in calls[c].checked
  BY <1>4, <1>5 DEF Seals!Unchecked
<1>7. calls[c].key \notin Names[seal[e].capture]
  BY <1>2, <1>6 DEF SealedInv, Checks
<1>8. QED BY <1>1, <1>7 DEF Granted

(* Once the write authority over k is past, k is settled. *)
LEMMA SettledNow ==
  ASSUME Seals!ConstantsAssumption, TypeInv, RecordInv, NEW k \in Key \ Index,
     authority[ScopeOf[k]] <= now
  PROVE  Settled(k)
<1>1. ScopeOf[k] \in Epoch /\ authority[ScopeOf[k]] \in Nat /\ now \in Nat
  BY AuthorityNat DEF TypeInv
<1>2. ASSUME NEW u \in urls, u.key = k
      PROVE  u.writes = Right[k]
  <2>1. u.until \in Int /\ u.until > now
    BY <1>1 DEF TypeInv, Seals!TypeOK, Seals!ConstantsAssumption
  <2>2. QED BY <1>1, <1>2, <2>1 DEF RecordInv, Seals!UrlsAreOnRecord
<1>3. ASSUME NEW c \in UrlCall, InFlight(c), calls[c].said = Seals!None, calls[c].key = k
      PROVE  /\ calls[c].at = "sign" => calls[c].recorded + Ttl + Margin <= now
             /\ calls[c].at = "publish" => calls[c].expires <= now
  <2>1. calls[c].unbound /\ calls[c].epoch = ScopeOf[k]
    BY <1>3 DEF TypeInv, CallInv, CallFits
  <2>2. calls[c].recorded \in Nat /\ calls[c].expires \in Nat
    BY <1>1, <1>3, CallOn DEF TypeInv, Seals!ConstantsAssumption
  <2>3. SignRecorded(c) /\ PublishRecorded(c)
    BY DEF RecordInv
  <2>4. QED BY <1>1, <2>1, <2>2, <2>3 DEF SignRecorded, PublishRecorded, Seals!ConstantsAssumption
<1>4. QED BY <1>2, <1>3 DEF Settled, Harmless

LEMMA KeptSinceStep ==
  ASSUME Seals!ConstantsAssumption, TypeInv, [Seals!Next]_Seals!vars, NEW k \in Key \ Index,
     NEW t \in Int,
         t <= now, KeptSince(k, t)
  PROVE  KeptSince(k, t)'
<1>1. ScopeOf[k] \in Epoch /\ Seals!TypeOK
  BY DEF Seals!ConstantsAssumption, TypeInv
<1>2. /\ authority[ScopeOf[k]] \in Int /\ authority'[ScopeOf[k]] \in Int
      /\ authority[ScopeOf[k]] <= authority'[ScopeOf[k]] /\ now \in Int
  BY <1>1, AuthorityRises DEF Seals!TypeOK
<1>3. CASE \E c \in UrlCall : Granted(c, k)
  BY <1>2, <1>3, GrantRaises DEF KeptSince
<1>4. CASE ~\E c \in UrlCall : Granted(c, k)
  BY <1>2, <1>4, KeptStep DEF KeptSince
<1>5. QED BY <1>3, <1>4

(* The same of a time read before the step. *)
LEMMA KeptSinceLater ==
  ASSUME Seals!ConstantsAssumption, TypeInv, [Seals!Next]_Seals!vars, NEW k \in Key \ Index,
     NEW t \in Int,
         t <= now, KeptSince(k, t)
  PROVE  Kept(k)' \/ authority'[ScopeOf[k]] > t
BY KeptSinceStep DEF KeptSince

LEMMA SealedStep ==
  ASSUME Seals!ConstantsAssumption, TypeInv, SealedInv, [Seals!Next]_Seals!vars, NEW e \in Epoch,
     Seals!Live(e),
         NEW k \in Named(seal[e].capture)
  PROVE  /\ k \in Key \ Index
         /\ Settled(k) => Settled(k)'
         /\ Kept(k) => Kept(k)'
<1>1. seal[e].capture \in Capture
  BY DEF Seals!Live, TypeInv, Seals!TypeOK
<1>2. k \in Key \ Index
  BY <1>1 DEF Named, Seals!ConstantsAssumption
<1>3. \A c \in UrlCall : ~Granted(c, k)
  BY GrantUnsealed DEF Named
<1>4. QED BY <1>2, <1>3, SettledStep, KeptStep

LEMMA ProofInductive ==
  ASSUME Seals!ConstantsAssumption, TypeInv, RecordInv, ProofInv, [Seals!Next]_Seals!vars
  PROVE  ProofInv'
<1>1. SUFFICES ASSUME NEW k \in Key \ Index
               PROVE  Kept(k)' \/ authority'[ScopeOf[k]] > proof'[k]
  BY DEF ProofInv, KeptSince
<1>2. Seals!TypeOK /\ Seals!TypeOK'
  BY TypeInductive DEF TypeInv
<1>3. ScopeOf[k] \in Epoch /\ proof[k] \in Int /\ proof[k] <= now /\ now \in Int
  BY <1>2 DEF Seals!TypeOK, Seals!ConstantsAssumption
<1>4. CASE proof'[k] = proof[k]
  BY <1>3, <1>4, KeptSinceStep DEF ProofInv, KeptSince
<1>5. CASE ReadRight(k)
  <2>1. KeptSince(k, now)
    <3>1. CASE authority[ScopeOf[k]] <= now
      BY <1>5, <3>1, SettledNow DEF ReadRight, Kept, KeptSince
    <3>2. CASE authority[ScopeOf[k]] > now
      BY <3>2 DEF KeptSince
    <3>3. authority[ScopeOf[k]] \in Int
      BY <1>2, <1>3 DEF Seals!TypeOK
    <3>4. QED BY <1>3, <3>1, <3>2, <3>3
  <2>2. proof'[k] = now
    BY <1>2, <1>5 DEF ReadRight, Seals!TypeOK
  <2>3. QED BY <1>3, <2>1, <2>2, KeptSinceStep DEF KeptSince
<1>6. CASE Seals!Restart
  <2>1. proof'[k] = -1
    BY <1>6 DEF Seals!Restart
  <2>2. authority'[ScopeOf[k]] \in Int /\ authority[ScopeOf[k]] \in Nat
        /\ authority[ScopeOf[k]] <= authority'[ScopeOf[k]]
    BY <1>2, <1>3, AuthorityRises, AuthorityNat DEF Seals!TypeOK
  <2>3. QED BY <2>1, <2>2
<1>7. ASSUME NEW j \in Key \ Index, j # k, ReadRight(j)
      PROVE  proof'[k] = proof[k]
  BY <1>2, <1>7 DEF ReadRight, Seals!TypeOK
<1>8. QED BY <1>2, <1>4, <1>5, <1>6, <1>7, ProofStep

-----------------------------------------------------------------------------
(* What stands. *)

(* A reader whose seal is current at its hold, or at its mark, finds it kept. *)
StandsBy(a, e) ==
  /\ asks[a].epoch = e /\ Reading(a) /\ Current(a)
  /\ \/ asks[a].at = "hold" /\ asks[a].until <= asks[a].when /\ asks[a].reverified >= asks[a].until
     \/ asks[a].at = "mark"

LEMMA StandsKept ==
  ASSUME AskInv, NEW a \in Ask, NEW e \in Epoch, StandsBy(a, e)
  PROVE  \A k \in Named(seal[e].capture) : Kept(k)
<1>1. AskOver(a) /\ AskKeeps(a) /\ Current(a)
  BY DEF AskInv, StandsBy, Reading
<1>2. seal[e].capture = asks[a].capture
  BY DEF StandsBy, Current
<1>3. CASE asks[a].at = "mark"
  BY <1>1, <1>2, <1>3 DEF AskOver, AskKeeps
<1>4. CASE asks[a].at = "hold"
  BY <1>1, <1>2, <1>4 DEF AskKeeps, StandsBy, Past, RestsOn
<1>5. QED BY <1>3, <1>4 DEF StandsBy

LEMMA StandingKeeps ==
  ASSUME Seals!TypeOK, [Seals!Next]_Seals!vars, NEW e \in Epoch, standing'[e],
     ~\E c \in Capture : Replaced(e, c)
  PROVE  standing[e] \/ \E a \in Ask : StandsBy(a, e)
<1>1. ASSUME NEW c \in Capture, Seals!RecordSeal(c)
      PROVE  standing[e]
  BY <1>1 DEF Seals!RecordSeal, Replaced, Seals!TypeOK
<1>2. ASSUME NEW a \in Ask, Seals!AskHold(a) \/ Seals!Mark(a), Seals!Stands(a), ~standing[e]
      PROVE  StandsBy(a, e)
  <2>1. asks[a].epoch = e /\ Seals!Live(e) /\ seal[e].capture = asks[a].capture
    BY <1>2 DEF Seals!Stands, Seals!TypeOK
  <2>2. standing' # standing
    BY <1>2
  <2>3. CASE Seals!AskHold(a)
    <3>1. asks[a].when \in Int /\ asks[a].until \in Int
      <4>1. Reading(a)
        BY <2>3 DEF Seals!AskHold, Reading
      <4>2. asks[a].when \in 0..now /\ asks[a].until \in 0..(now + Ttl + Margin)
        BY <4>1, AskRecord
      <4>3. QED BY <4>2
    <3>2. asks[a].at = "hold" /\ asks[a].when >= asks[a].until /\ asks[a].reverified >= asks[a].until
      BY <2>2, <2>3 DEF Seals!AskHold
    <3>3. QED BY <2>1, <3>1, <3>2 DEF StandsBy, Current, Reading
  <2>4. CASE Seals!Mark(a)
    BY <2>1, <2>4 DEF StandsBy, Seals!Mark, Current, Reading
  <2>5. QED BY <1>2, <2>3, <2>4
<1>3. QED BY <1>1, <1>2, StandingStep

LEMMA SealInductive ==
  ASSUME Seals!ConstantsAssumption, TypeInv, SealedInv, SealInv, AskInv, [Seals!Next]_Seals!vars
  PROVE  SealInv'
<1>1. Seals!TypeOK /\ Seals!TypeOK'
  BY TypeInductive DEF TypeInv
<1>2. SUFFICES ASSUME NEW e \in Epoch, Seals!Live(e)', NEW k \in Named(seal[e].capture)'
               PROVE  /\ Kept(k)' \/ authority'[ScopeOf[k]] > seal'[e].reverified
                      /\ standing'[e] => Kept(k)'
  BY DEF SealInv, KeptSince
<1>3. ASSUME NEW c \in Capture, Replaced(e, c)
      PROVE  /\ authority'[ScopeOf[k]] > seal'[e].reverified
             /\ ~standing'[e]
  <2>1. seal'[e].capture = c /\ seal'[e].reverified = -1 /\ ~standing'[e]
    BY <1>3 DEF Replaced
  <2>2. k \in Key
    BY <2>1 DEF Named, Seals!ConstantsAssumption
  <2>3. authority[ScopeOf[k]] \in Nat /\ authority[ScopeOf[k]] <= authority'[ScopeOf[k]]
        /\ authority'[ScopeOf[k]] \in Int
    BY <1>1, <2>2, AuthorityNat, AuthorityRises DEF Seals!TypeOK
  <2>4. QED BY <2>1, <2>3
<1>4. ASSUME ~\E c \in Capture : Replaced(e, c)
      PROVE  /\ Kept(k)' \/ authority'[ScopeOf[k]] > seal'[e].reverified
             /\ standing'[e] => Kept(k)'
  <2>1. /\ seal'[e].capture = seal[e].capture
        /\ seal[e].void => seal'[e].void
        /\ seal'[e].reverified = seal[e].reverified \/ \E a \in Ask : MarkedBy(a, e)
    BY <1>1, <1>4, SealKeeps
  <2>2. Seals!Live(e) /\ k \in Named(seal[e].capture)
    BY <1>2, <2>1 DEF Seals!Live, Named
  <2>3. k \in Key \ Index /\ (Kept(k) => Kept(k)')
    BY <2>2, SealedStep
  <2>4. KeptSince(k, seal[e].reverified) /\ (standing[e] => Kept(k))
    BY <2>2 DEF SealInv
  <2>5. standing'[e] => Kept(k)'
    BY <1>1, <1>4, <2>2, <2>3, <2>4, StandingKeeps, StandsKept
  <2>6. CASE seal'[e].reverified = seal[e].reverified
    <3>1. seal[e].reverified \in Int /\ seal[e].reverified <= now
      BY <1>1 DEF Seals!TypeOK
    <3>2. Kept(k)' \/ authority'[ScopeOf[k]] > seal[e].reverified
      BY <2>3, <2>4, <3>1, KeptSinceLater
    <3>3. QED BY <2>5, <2>6, <3>2
  <2>7. ASSUME NEW a \in Ask, MarkedBy(a, e)
        PROVE  Kept(k)'
    <3>1. StandsBy(a, e)
      BY <2>7 DEF MarkedBy, Seals!MarkHolds, StandsBy, Current, Reading
    <3>2. QED BY <2>2, <2>3, <3>1, StandsKept
  <2>8. QED BY <2>1, <2>5, <2>6, <2>7
<1>5. QED BY <1>3, <1>4

-----------------------------------------------------------------------------
(* Reads of a seal. *)

(* A capture once replaced is not sealed again: a seal current after a step,
   of a read that goes on, was current before it. *)
LEMMA CurrentBefore ==
  ASSUME Seals!ConstantsAssumption, TypeInv, [Seals!Next]_Seals!vars, NEW a \in Ask, Reading(a),
     AskOver(a)
  PROVE  LET e == asks[a].epoch
             c == asks[a].capture
         IN  /\ seal'[e].capture # Seals!None
             /\ seal'[e].capture = c \/ Nth[c] < Nth[seal'[e].capture]
             /\ ~seal'[e].void /\ seal'[e].capture = c => Current(a)
<1> DEFINE e == asks[a].epoch
           c == asks[a].capture
<1>1. Seals!TypeOK /\ e \in Epoch /\ c \in Capture
  BY AskRecord DEF TypeInv
<1>2. seal[e].capture \in Capture \cup {Seals!None}
  BY <1>1 DEF Seals!TypeOK
<1>3. seal[e].capture # Seals!None /\ (seal[e].capture = c \/ Nth[c] < Nth[seal[e].capture])
  BY DEF AskOver
<1>4. CASE seal'[e].capture = seal[e].capture /\ (seal[e].void => seal'[e].void)
  BY <1>3, <1>4 DEF Current, Seals!Live
<1>5. ASSUME NEW d \in Capture, Replaced(e, d)
      PROVE  /\ seal'[e].capture = d /\ d # Seals!None /\ Nth[c] < Nth[d] /\ d # c
  <2>1. seal'[e].capture = d /\ Nth[seal[e].capture] < Nth[d]
    BY <1>3, <1>5 DEF Replaced, Seals!RecordSeal
  <2>2. Nth[c] \in Nat /\ Nth[d] \in Nat /\ Nth[seal[e].capture] \in Nat
    BY <1>1, <1>2, <1>3 DEF Seals!ConstantsAssumption
  <2>3. d # Seals!None
    BY DEF Seals!ConstantsAssumption
  <2>4. QED BY <1>3, <2>1, <2>2, <2>3
<1>6. QED BY <1>1, <1>3, <1>4, <1>5, SealKeeps

LEMMA RestsStep ==
  ASSUME Seals!ConstantsAssumption, TypeInv, SealedInv, [Seals!Next]_Seals!vars, NEW a \in Ask,
     Reading(a), Current(a),
         NEW k \in Named(asks[a].capture), RestsOn(a, k),
         NEW until \in Nat, until = asks[a].until
  PROVE  /\ Settled(k)'
         /\ (asks[a].reverified >= until \/ proof'[k] >= until) => Kept(k)'
<1>1. Seals!TypeOK /\ asks[a].epoch \in Epoch /\ asks[a].reverified \in Int
  BY AskRecord DEF TypeInv
<1>2. k \in Key \ Index /\ Settled(k)' /\ (Kept(k) => Kept(k)')
  BY <1>1, SealedStep DEF Current, RestsOn
<1>3. CASE proof'[k] = proof[k]
  BY <1>2, <1>3 DEF RestsOn
<1>4. CASE ReadRight(k)
  BY <1>2, <1>4 DEF ReadRight, RestsOn, Kept
<1>5. CASE Seals!Restart
  <2>1. proof'[k] = -1
    BY <1>2, <1>5 DEF Seals!Restart
  <2>2. QED BY <1>2, <2>1 DEF RestsOn
<1>6. ASSUME NEW j \in Key \ Index, j # k, ReadRight(j)
      PROVE  proof'[k] = proof[k]
  BY <1>1, <1>2, <1>6 DEF ReadRight, Seals!TypeOK
<1>7. QED BY <1>1, <1>3, <1>4, <1>5, <1>6, ProofStep

(* A read that goes on: what it keeps need be shown of a current seal alone. *)
LEMMA GoesOn ==
  ASSUME Seals!ConstantsAssumption, TypeInv, [Seals!Next]_Seals!vars, NEW a \in Ask, Reading(a),
     AskOver(a),
         SameSeal(a)
  PROVE  /\ seal'[asks'[a].epoch].capture # Seals!None
         /\ \/ seal'[asks'[a].epoch].capture = asks'[a].capture
            \/ Nth[asks'[a].capture] < Nth[seal'[asks'[a].epoch].capture]
         /\ Current(a)' => Current(a)
<1>1. asks'[a].epoch = asks[a].epoch /\ asks'[a].capture = asks[a].capture
  BY DEF SameSeal
<1>2. Current(a)' => ~seal'[asks[a].epoch].void /\ seal'[asks[a].epoch].capture = asks[a].capture
  BY <1>1 DEF Current, Seals!Live
<1>3. QED BY <1>1, <1>2, CurrentBefore

LEMMA AskStays ==
  ASSUME Seals!ConstantsAssumption, TypeInv, SealedInv, [Seals!Next]_Seals!vars, NEW a \in Ask,
     Reading(a),
         AskOver(a), AskKeeps(a), asks'[a] = asks[a]
  PROVE  AskOver(a)' /\ AskKeeps(a)'
<1>1. SameSeal(a)
  BY DEF SameSeal
<1>2. AskOver(a)'
  BY <1>1, GoesOn DEF AskOver, Waited
<1>3. ASSUME Current(a), NEW k \in Named(asks[a].capture)
      PROVE  /\ asks[a].at = "until" => Kept(k)' \/ authority'[ScopeOf[k]] > asks[a].reverified
             /\ Past(a) => /\ Settled(k)'
                           /\ (asks[a].reverified >= asks[a].until \/ proof'[k] >= asks[a].until) => Kept(k)'
             /\ asks[a].at \in {"read", "again", "mark"} /\ k \notin asks[a].left => Kept(k)'
  <2>1. asks[a].epoch \in Epoch /\ asks[a].until \in Nat /\ asks[a].reverified \in Int
        /\ asks[a].reverified <= now
    <3>1. asks[a].epoch \in Epoch /\ asks[a].until \in 0..(now + Ttl + Margin)
          /\ asks[a].reverified \in (-1)..now
      BY AskRecord DEF TypeInv
    <3>2. now \in Nat
      BY DEF TypeInv, Seals!TypeOK
    <3>3. QED BY <3>1, <3>2
  <2>2. k \in Key \ Index /\ (Kept(k) => Kept(k)')
    BY <1>3, <2>1, SealedStep DEF Current
  <2>3. asks[a].at = "until" => Kept(k)' \/ authority'[ScopeOf[k]] > asks[a].reverified
    BY <1>3, <2>1, <2>2, KeptSinceLater DEF AskKeeps
  <2>4. Past(a) => /\ Settled(k)'
                   /\ (asks[a].reverified >= asks[a].until \/ proof'[k] >= asks[a].until) => Kept(k)'
    BY <1>3, <2>1, RestsStep DEF AskKeeps
  <2>5. QED BY <1>3, <2>2, <2>3, <2>4 DEF AskKeeps
<1>4. AskKeeps(a)'
  <2>1. SUFFICES ASSUME Current(a)', NEW k \in Named(asks[a].capture)
                 PROVE  /\ asks[a].at = "until" => KeptSince(k, asks[a].reverified)'
                        /\ Past(a)' => RestsOn(a, k)'
                        /\ asks[a].at \in {"read", "again", "mark"} /\ k \notin asks[a].left => Kept(k)'
    BY DEF AskKeeps, Named
  <2>2. Current(a)
    BY <1>1, <2>1, GoesOn
  <2>3. Past(a)' <=> Past(a)
    BY DEF Past, Waited
  <2>4. asks'[a].reverified = asks[a].reverified /\ asks'[a].until = asks[a].until
    OBVIOUS
  <2>5. asks[a].at = "until" => KeptSince(k, asks[a].reverified)'
    BY <1>3, <2>1, <2>2, <2>4 DEF KeptSince
  <2>6. Past(a) => RestsOn(a, k)'
    <3>1. RestsOn(a, k)' <=>
            /\ Settled(k)'
            /\ (asks[a].reverified >= asks[a].until \/ proof'[k] >= asks[a].until) => Kept(k)'
      BY <2>4 DEF RestsOn
    <3>2. QED BY <1>3, <2>1, <2>2, <3>1
  <2>7. asks[a].at \in {"read", "again", "mark"} /\ k \notin asks[a].left => Kept(k)'
    BY <1>3, <2>1, <2>2
  <2>8. QED BY <2>3, <2>5, <2>6, <2>7
<1>5. QED BY <1>2, <1>4

LEMMA AskSealStarts ==
  ASSUME Seals!ConstantsAssumption, TypeInv, SealInv, [Seals!Next]_Seals!vars, NEW a \in Ask,
     NEW e \in Epoch,
         Seals!AskSeal(a, e)
  PROVE  AskOver(a)' /\ AskKeeps(a)'
<1>1. /\ asks'[a].at = "until" /\ asks'[a].epoch = e /\ asks'[a].capture = seal[e].capture
      /\ asks'[a].reverified = seal[e].reverified
  BY DEF Seals!AskSeal, TypeInv, Seals!TypeOK
<1>2. Seals!Live(e) /\ seal' = seal
  BY DEF Seals!AskSeal, Seals!db
<1>3. AskOver(a)'
  BY <1>1, <1>2 DEF AskOver, Waited, Seals!Live
<1>4. ASSUME NEW k \in Named(seal[e].capture)
      PROVE  Kept(k)' \/ authority'[ScopeOf[k]] > seal[e].reverified
  <2>1. seal[e].capture \in Capture /\ seal[e].reverified \in Int /\ seal[e].reverified <= now
    BY <1>2 DEF Seals!Live, TypeInv, Seals!TypeOK
  <2>2. k \in Key \ Index
    BY <2>1 DEF Named, Seals!ConstantsAssumption
  <2>3. QED BY <1>2, <2>1, <2>2, KeptSinceLater DEF SealInv
<1>5. AskKeeps(a)'
  BY <1>1, <1>4 DEF AskKeeps, Named, Past, Waited, KeptSince
<1>6. QED BY <1>3, <1>5

LEMMA AskUntilGoes ==
  ASSUME Seals!ConstantsAssumption, TypeInv, RecordInv, SealedInv, ProofInv,
     [Seals!Next]_Seals!vars, NEW a \in Ask,
         AskOver(a), AskKeeps(a), Seals!AskUntil(a)
  PROVE  AskOver(a)' /\ AskKeeps(a)'
<1>1. Reading(a) /\ Seals!TypeOK
  BY DEF Seals!AskUntil, Reading, TypeInv
<1>2. PICK t \in Seals!AuthorityOver(asks[a].capture) :
        /\ \A u \in Seals!AuthorityOver(asks[a].capture) : u <= t
        /\ asks' = [asks EXCEPT ![a].at = "hold", ![a].when = now, ![a].until = t]
  BY DEF Seals!AskUntil
<1>3. asks[a] \in Seals!AskInFlight
  BY <1>1, AskRecord
<1>4. /\ asks'[a].at = "hold" /\ asks'[a].when = now /\ asks'[a].until = t
      /\ asks'[a].left = asks[a].left /\ SameSeal(a)
  BY <1>1, <1>2, <1>3 DEF SameSeal, Seals!AskInFlight, Seals!TypeOK
<1>5. AskOver(a)'
  BY <1>1, <1>4, GoesOn DEF AskOver, Waited
<1>6. ASSUME Current(a), t <= now, NEW k \in Named(asks[a].capture)
      PROVE  /\ Settled(k)'
             /\ (asks[a].reverified >= t \/ proof[k] >= t) => Kept(k)'
  <2>1. asks[a].epoch \in Epoch /\ asks[a].capture \in Capture
    BY <1>1, AskRecord
  <2>2. k \in Key \ Index /\ (Settled(k) => Settled(k)') /\ (Kept(k) => Kept(k)')
    BY <1>6, <2>1, SealedStep DEF Current
  <2>3. authority[ScopeOf[k]] <= t
    BY <1>2, <2>1, ScopesAreEpochs DEF Seals!AuthorityOver, Named
  <2>4. authority[ScopeOf[k]] \in Nat /\ t \in Nat /\ now \in Nat
    BY <1>1, <1>2, <2>1, <2>2, AuthorityNat, ScopesAreEpochs DEF Seals!AuthorityOver
  <2>5. Settled(k)
    BY <1>6, <2>2, <2>3, <2>4, SettledNow
  <2>6. KeptSince(k, asks[a].reverified) /\ KeptSince(k, proof[k])
    BY <1>6, <2>2 DEF AskKeeps, Seals!AskUntil, ProofInv
  <2>7. asks[a].reverified \in Int /\ proof[k] \in Int
    BY <1>1, <2>2, AskRecord DEF Seals!TypeOK
  <2>8. (asks[a].reverified >= t \/ proof[k] >= t) => Kept(k)
    BY <2>3, <2>4, <2>6, <2>7 DEF KeptSince
  <2>9. QED BY <2>2, <2>5, <2>8
<1>7. AskKeeps(a)'
  <2>1. SUFFICES ASSUME Current(a)', NEW k \in Named(asks[a].capture), t <= now
                 PROVE  RestsOn(a, k)'
    BY <1>4 DEF AskKeeps, Past, Waited, SameSeal, Named
  <2>2. Current(a) /\ now' = now /\ proof' = proof
    BY <1>1, <1>4, <2>1, GoesOn DEF Seals!AskUntil
  <2>3. asks'[a].reverified = asks[a].reverified
    BY <1>4 DEF SameSeal
  <2>4. QED BY <1>4, <1>6, <2>1, <2>2, <2>3 DEF RestsOn
<1>8. QED BY <1>5, <1>7

(* The rest of a read, on what it rested on. *)
LEMMA RestsOnGoes ==
  ASSUME Seals!ConstantsAssumption, TypeInv, SealedInv, [Seals!Next]_Seals!vars, NEW a \in Ask,
     Reading(a),
         AskKeeps(a), Past(a), Current(a), NEW k \in Named(asks[a].capture),
         SameSeal(a), asks'[a].until = asks[a].until
  PROVE  RestsOn(a, k)'
<1>1. asks[a].until \in 0..(now + Ttl + Margin) /\ now \in Nat
  BY AskRecord DEF TypeInv, Seals!TypeOK
<1>2. asks[a].until \in Nat /\ RestsOn(a, k)
  BY <1>1 DEF AskKeeps
<1>3. /\ Settled(k)'
      /\ (asks[a].reverified >= asks[a].until \/ proof'[k] >= asks[a].until) => Kept(k)'
  BY <1>2, RestsStep
<1>4. asks'[a].reverified = asks[a].reverified
  BY DEF SameSeal
<1>5. QED BY <1>3, <1>4 DEF RestsOn

LEMMA AskHoldGoes ==
  ASSUME Seals!ConstantsAssumption, TypeInv, SealedInv, [Seals!Next]_Seals!vars, NEW a \in Ask,
         AskOver(a), AskKeeps(a), Seals!AskHold(a), asks'[a] # Seals!IdleAsk
  PROVE  AskOver(a)' /\ AskKeeps(a)'
<1>1. Reading(a) /\ Seals!TypeOK /\ asks[a].at = "hold"
  BY DEF Seals!AskHold, Reading, TypeInv
<1>2. asks[a] \in Seals!AskInFlight /\ asks[a].when \in 0..now /\ asks[a].until \in 0..(now + Ttl + Margin)
  BY <1>1, AskRecord
<1>3. /\ asks' = [asks EXCEPT ![a].at = "wait", ![a].left = Names[asks[a].capture]]
      /\ asks[a].when >= asks[a].until
  BY <1>1 DEF Seals!AskHold, Seals!AskEnds, Seals!TypeOK
<1>4. /\ asks'[a].at = "wait" /\ asks'[a].left = Names[asks[a].capture] /\ SameSeal(a)
      /\ asks'[a].until = asks[a].until /\ asks'[a].when = asks[a].when
  BY <1>1, <1>2, <1>3 DEF SameSeal, Seals!AskInFlight, Seals!TypeOK
<1>5. asks[a].until <= asks[a].when
  BY <1>2, <1>3
<1>6. AskOver(a)'
  BY <1>1, <1>4, <1>5, GoesOn DEF AskOver, SameSeal
<1>7. AskKeeps(a)'
  <2>1. SUFFICES ASSUME Current(a)', NEW k \in Named(asks[a].capture)
                 PROVE  RestsOn(a, k)'
    BY <1>4 DEF AskKeeps, SameSeal, Named
  <2>2. Current(a) /\ Past(a)
    BY <1>1, <1>4, <1>5, <2>1, GoesOn DEF Past
  <2>3. QED BY <1>1, <1>4, <2>2, RestsOnGoes
<1>8. QED BY <1>6, <1>7

LEMMA PermitGoes ==
  ASSUME Seals!ConstantsAssumption, TypeInv, SealedInv, [Seals!Next]_Seals!vars, NEW a \in Ask,
         AskOver(a), AskKeeps(a), Seals!Permit(a)
  PROVE  AskOver(a)' /\ AskKeeps(a)'
<1>1. Reading(a) /\ Seals!TypeOK /\ asks[a].at = "wait"
  BY DEF Seals!Permit, Reading, TypeInv
<1>2. asks[a] \in Seals!AskInFlight
  BY <1>1, AskRecord
<1>3. /\ asks'[a].at = IF asks[a].left = {} THEN "again" ELSE "read"
      /\ asks'[a].left = asks[a].left /\ SameSeal(a)
      /\ asks'[a].until = asks[a].until /\ asks'[a].when = asks[a].when
  BY <1>1, <1>2 DEF Seals!Permit, SameSeal, Seals!AskInFlight, Seals!TypeOK
<1>4. asks[a].left = Names[asks[a].capture] /\ asks[a].until <= asks[a].when
  BY <1>1 DEF AskOver, Waited
<1>5. AskOver(a)'
  BY <1>1, <1>3, <1>4, GoesOn DEF AskOver, SameSeal
<1>6. AskKeeps(a)'
  <2>1. SUFFICES ASSUME Current(a)', NEW k \in Named(asks[a].capture)
                 PROVE  RestsOn(a, k)' /\ k \in asks[a].left
    BY <1>3 DEF AskKeeps, SameSeal, Named
  <2>2. Current(a) /\ Past(a)
    BY <1>1, <1>3, <2>1, GoesOn DEF Past, Waited
  <2>3. QED BY <1>1, <1>3, <1>4, <2>1, <2>2, RestsOnGoes DEF Named
<1>7. QED BY <1>5, <1>6

LEMMA AskReadGoes ==
  ASSUME Seals!ConstantsAssumption, TypeInv, SealedInv, [Seals!Next]_Seals!vars, NEW a \in Ask,
     NEW j \in Key,
         AskOver(a), AskKeeps(a), Seals!AskRead(a, j)
  PROVE  AskOver(a)' /\ AskKeeps(a)'
<1>1. Reading(a) /\ Seals!TypeOK /\ asks[a].at = "read" /\ j \in asks[a].left
  BY DEF Seals!AskRead, Reading, TypeInv
<1>2. asks[a] \in Seals!AskInFlight /\ asks[a].when \in 0..now /\ asks[a].until \in 0..(now + Ttl + Margin)
  BY <1>1, AskRecord
<1>3. asks[a].until <= asks[a].when /\ asks[a].until \in Int /\ asks[a].when \in Int
  BY <1>1, <1>2 DEF AskOver, Waited
<1>4. CASE asks' = [asks EXCEPT ![a].at = "void"]
  <2>1. /\ asks'[a].at = "void" /\ SameSeal(a)
        /\ asks'[a].until = asks[a].until /\ asks'[a].when = asks[a].when
    BY <1>1, <1>2, <1>4 DEF SameSeal, Seals!AskInFlight, Seals!TypeOK
  <2>2. AskOver(a)'
    BY <1>1, <1>3, <2>1, GoesOn DEF AskOver, SameSeal
  <2>3. AskKeeps(a)'
    <3>1. SUFFICES ASSUME Current(a)', NEW k \in Named(asks[a].capture)
                   PROVE  RestsOn(a, k)'
      BY <2>1 DEF AskKeeps, SameSeal, Named
    <3>2. Current(a) /\ Past(a)
      BY <1>1, <2>1, <3>1, GoesOn DEF Past, Waited
    <3>3. QED BY <1>1, <2>1, <3>2, RestsOnGoes
  <2>4. QED BY <2>2, <2>3
<1>5. CASE asks' # [asks EXCEPT ![a].at = "void"]
  <2>1. PICK t \in Int : /\ asks' = [asks EXCEPT ![a] = Seals!ReadOn(a, j, t)] /\ asks[a].until <= t
                         /\ Seals!Reuses(a, j) \/ Seals!IsRight(j)
    <3>1. CASE Seals!Reuses(a, j) /\ asks' = [asks EXCEPT ![a] = Seals!ReadOn(a, j,
       Seals!MinOf(asks[a].when, proof[j]))]
      <4>1. proof[j] \in Int /\ proof[j] >= asks[a].until
        BY <3>1 DEF Seals!Reuses, TypeInv, Seals!TypeOK
      <4>2. Seals!MinOf(asks[a].when,
         proof[j]) \in Int /\ asks[a].until <= Seals!MinOf(asks[a].when, proof[j])
        BY <1>3, <4>1 DEF Seals!MinOf
      <4>3. QED BY <3>1, <4>2
    <3>2. CASE Seals!IsRight(j) /\ asks' = [asks EXCEPT ![a] = Seals!ReadOn(a, j, asks[a].when)]
      BY <1>3, <3>2
    <3>3. QED BY <1>5, <3>1, <3>2 DEF Seals!AskRead
  <2>2. /\ asks'[a].left = asks[a].left \ {j} /\ SameSeal(a) /\ asks'[a].until = asks[a].until
        /\ asks'[a].when = t /\ asks'[a].at = IF asks[a].left = {j} THEN "again" ELSE "read"
    BY <1>1, <1>2, <2>1 DEF Seals!ReadOn, SameSeal, Seals!AskInFlight, Seals!TypeOK
  <2>3. AskOver(a)'
    BY <1>1, <2>1, <2>2, GoesOn DEF AskOver, SameSeal
  <2>4. AskKeeps(a)'
    <3>1. SUFFICES ASSUME Current(a)', NEW k \in Named(asks[a].capture)
                   PROVE  RestsOn(a, k)' /\ (k \notin asks[a].left \ {j} => Kept(k)')
      BY <2>2 DEF AskKeeps, SameSeal, Named
    <3>2. Current(a) /\ Past(a)
      BY <1>1, <2>2, <3>1, GoesOn DEF Past, Waited
    <3>3. RestsOn(a, k)'
      BY <1>1, <2>2, <3>2, RestsOnGoes
    <3>4. ASSUME k \notin asks[a].left \ {j}
          PROVE  Kept(k)
      <4>1. CASE k # j
        BY <1>1, <3>2, <3>4, <4>1 DEF AskKeeps
      <4>2. CASE k = j
        BY <2>1, <3>2, <4>2 DEF AskKeeps, RestsOn, Seals!Reuses, Kept
      <4>3. QED BY <4>1, <4>2
    <3>5. asks[a].epoch \in Epoch
      BY <1>1, AskRecord
    <3>6. Kept(k) => Kept(k)'
      BY <3>2, <3>5, SealedStep DEF Current
    <3>7. QED BY <3>3, <3>4, <3>6
  <2>5. QED BY <2>3, <2>4
<1>6. QED BY <1>4, <1>5

LEMMA AskHoldAgainGoes ==
  ASSUME Seals!ConstantsAssumption, TypeInv, SealedInv, [Seals!Next]_Seals!vars, NEW a \in Ask,
         AskOver(a), AskKeeps(a), Seals!AskHoldAgain(a), asks'[a] # Seals!IdleAsk
  PROVE  AskOver(a)' /\ AskKeeps(a)'
<1>1. Reading(a) /\ Seals!TypeOK /\ asks[a].at = "again"
  BY DEF Seals!AskHoldAgain, Reading, TypeInv
<1>2. asks[a] \in Seals!AskInFlight
  BY <1>1, AskRecord
<1>3. /\ asks'[a].at = "mark" /\ asks'[a].left = asks[a].left /\ SameSeal(a)
      /\ asks'[a].until = asks[a].until /\ asks'[a].when = asks[a].when
  BY <1>1, <1>2 DEF Seals!AskHoldAgain, Seals!AskEnds, SameSeal, Seals!AskInFlight, Seals!TypeOK
<1>4. asks[a].left = {} /\ asks[a].until <= asks[a].when
  BY <1>1 DEF AskOver, Waited
<1>5. AskOver(a)'
  BY <1>1, <1>3, <1>4, GoesOn DEF AskOver, SameSeal
<1>6. AskKeeps(a)'
  <2>1. SUFFICES ASSUME Current(a)', NEW k \in Named(asks[a].capture)
                 PROVE  RestsOn(a, k)' /\ Kept(k)'
    BY <1>3 DEF AskKeeps, SameSeal, Named
  <2>2. Current(a) /\ Past(a)
    BY <1>1, <1>3, <2>1, GoesOn DEF Past, Waited
  <2>3. Kept(k)
    BY <1>1, <1>4, <2>2 DEF AskKeeps
  <2>4. asks[a].epoch \in Epoch
    BY <1>1, AskRecord
  <2>5. Kept(k)'
    BY <2>2, <2>3, <2>4, SealedStep DEF Current
  <2>6. QED BY <1>1, <1>3, <2>2, <2>5, RestsOnGoes
<1>7. QED BY <1>5, <1>6

LEMMA AskInductive ==
  ASSUME Seals!ConstantsAssumption, TypeInv, RecordInv, SealedInv, ProofInv, SealInv, AskInv,
     [Seals!Next]_Seals!vars
  PROVE  AskInv'
<1>1. SUFFICES ASSUME NEW a \in Ask, asks'[a].at # "idle"
               PROVE  AskOver(a)' /\ AskKeeps(a)'
  BY DEF AskInv
<1>2. asks'[a] # Seals!IdleAsk /\ DOMAIN asks = Ask /\ Seals!TypeOK
  BY <1>1 DEF Seals!IdleAsk, TypeInv, Seals!TypeOK
<1>3. ASSUME NEW e \in Epoch, Seals!AskSeal(a, e)
      PROVE  AskOver(a)' /\ AskKeeps(a)'
  BY <1>3, AskSealStarts
<1>4. CASE Reading(a)
  <2>1. AskOver(a) /\ AskKeeps(a)
    BY <1>4 DEF AskInv, Reading
  <2>2. CASE asks'[a] = asks[a]
    BY <1>4, <2>1, <2>2, AskStays
  <2>3. CASE Seals!AskFails(a) \/ Seals!Void(a) \/ Seals!Mark(a)
    BY <1>2, <2>3 DEF Seals!AskFails, Seals!Void, Seals!Mark, Seals!AskEnds
  <2>4. ASSUME NEW k \in Key, Seals!AskRead(a, k)
        PROVE  AskOver(a)' /\ AskKeeps(a)'
    BY <2>1, <2>4, AskReadGoes
  <2>5. CASE Seals!AskUntil(a)
    BY <2>1, <2>5, AskUntilGoes
  <2>6. CASE Seals!AskHold(a)
    BY <1>2, <2>1, <2>6, AskHoldGoes
  <2>7. CASE Seals!Permit(a)
    BY <2>1, <2>7, PermitGoes
  <2>8. CASE Seals!AskHoldAgain(a)
    BY <1>2, <2>1, <2>8, AskHoldAgainGoes
  <2>9. QED
    BY <1>2, <1>3, <2>2, <2>3, <2>4, <2>5, <2>6, <2>7, <2>8, AskStep DEF AskNext
<1>5. CASE ~Reading(a)
  <2>1. AskNext(a) => \E e \in Epoch : Seals!AskSeal(a, e)
    BY <1>2, <1>5, AskGoes
  <2>2. QED BY <1>1, <1>2, <1>3, <1>5, <2>1, AskStep DEF Reading
<1>6. QED BY <1>4, <1>5
-----------------------------------------------------------------------------
(* The theorems. *)

LEMMA SealsInitially ==
  ASSUME Seals!ConstantsAssumption, Seals!Init
  PROVE  SealsInv
<1>1. Seals!TypeOK
  <2>1. 0 \in 0..MaxTime /\ 0 \in 0..(0 + Ttl + Margin) /\ 0 \in 0..(0 + Seals!BoundLife)
    BY DEF Seals!ConstantsAssumption, Seals!BoundLife
  <2>2. QED BY <2>1 DEF Seals!Init, Seals!TypeOK
<1>2. TypeInv
  BY <1>1 DEF TypeInv, CallInv, CallFits, InFlight, Seals!Init, Seals!IdleCall
<1>3. RecordInv
  BY DEF RecordInv, Seals!UrlsAreOnRecord, SignRecorded, PublishRecorded, PublishBound,
     Seals!Init, Seals!IdleCall
<1>4. SealedInv
  BY DEF SealedInv, Checks, Seals!Init, Seals!IdleCall
<1>5. ProofInv
  <2>1. \A k \in Key : ScopeOf[k] \in Epoch
    BY DEF Seals!ConstantsAssumption
  <2>2. QED BY <2>1 DEF ProofInv, KeptSince, Seals!Init
<1>6. SealInv
  BY DEF SealInv, Seals!Live, Seals!Init
<1>7. AskInv
  BY DEF AskInv, Seals!Init, Seals!IdleAsk
<1>8. QED BY <1>2, <1>3, <1>4, <1>5, <1>6, <1>7 DEF SealsInv

(* Every state of the specification satisfies the inductive invariant. *)
THEOREM SealsInvariance ==
  ASSUME Seals!ConstantsAssumption PROVE Seals!Spec => []SealsInv
<1>1. Seals!Init => SealsInv
  BY SealsInitially
<1>2. SealsInv /\ [Seals!Next]_Seals!vars => SealsInv'
  BY TypeInductive, RecordInductive, SealedInductive, ProofInductive, SealInductive, AskInductive
  DEF SealsInv
<1>3. QED BY <1>1, <1>2, PTL DEF Seals!Spec

(* What SealState promises is what CaptureSeal does, of one state. *)
LEMMA SameSeals ==
  /\ NamedAreFixed <=> Seals!NamedAreFixed
  /\ UrlsAreOnRecord <=> Seals!UrlsAreOnRecord
  /\ IndexesAreFixed <=> Seals!IndexesAreFixed
  BY DEF NamedAreFixed, Seals!NamedAreFixed, IndexesAreFixed, Seals!IndexesAreFixed,
         Stood, Seals!Stood, Live, Seals!Live, None, Seals!None, IsFixed, Seals!IsFixed, IsRight, Seals!IsRight, UrlsAreOnRecord, Seals!UrlsAreOnRecord

(* Every variable of final seals and upload URLs keeps its type. *)
THEOREM SealTypes ==
  ASSUME Seals!ConstantsAssumption PROVE Seals!Spec => []Seals!TypeOK
<1>1. SealsInv => Seals!TypeOK
  BY DEF SealsInv, TypeInv
<1>2. QED BY <1>1, SealsInvariance, PTL

(* Every URL that could still replace an object is on record until it is dead,
   in write authority or in a binding (recordPutAuthority, reserveBoundIndex,
   extendBoundIndex). *)
THEOREM UrlsRecorded ==
  ASSUME Seals!ConstantsAssumption PROVE Seals!Spec => []UrlsAreOnRecord
<1>1. SealsInv => UrlsAreOnRecord
  BY SameSeals DEF SealsInv, RecordInv
<1>2. QED BY <1>1, SealsInvariance, PTL

(* An object whose name says its bytes and that a standing seal lists holds
   them, and no URL outside Mend can make it anything else (sealStandingOf). *)
THEOREM NamedStand ==
  ASSUME Seals!ConstantsAssumption PROVE Seals!Spec => []NamedAreFixed
<1>1. SealsInv => NamedAreFixed
  <2>1. SUFFICES ASSUME SealsInv, NEW e \in Epoch, Seals!Stood(e),
                        NEW k \in Names[seal[e].capture] \ Index
                 PROVE  Seals!IsFixed(k)
    BY SameSeals DEF Seals!NamedAreFixed
  <2>2. Kept(k) /\ seal[e].capture \in Capture
    BY <2>1 DEF SealsInv, SealInv, Seals!Stood, Named, Seals!Live, TypeInv, Seals!TypeOK
  <2>3. k \in Key \ Index
    BY <2>2 DEF Seals!ConstantsAssumption
  <2>4. PICK b \in Bytes : Right[k] = {b}
    BY <2>3 DEF Seals!ConstantsAssumption
  <2>5. QED BY <2>2, <2>4 DEF Kept, Seals!IsRight, Settled, Seals!IsFixed
<1>2. QED BY <1>1, SealsInvariance, PTL

-----------------------------------------------------------------------------
\* A URL bound to its bytes is signed within a binding's life of the start of its
\* call, so under the binding it reserved and not one another call made since.
SignsInTime ==
  \A c \in UrlCall : calls[c].at = "sign" /\ calls'[c].at = "publish" /\ Seals!Reserves(c) =>
    now < calls[c].started + Seals!BoundLife

\* Until a binding's life after its start, what a call reserved is still bound
\* to its bytes, and only a launch that reads "present" declares bytes.
OwnBinding(c) ==
  /\ InFlight(c) /\ calls[c].said # Seals!None => calls[c].present
  /\ /\ calls[c].at \in {"rehead", "record", "again", "sign"} /\ Seals!Reserves(c)
     /\ now < calls[c].started + Seals!BoundLife
     => /\ bound[calls[c].key].bytes = calls[c].said
        /\ bound[calls[c].key].until >= calls[c].started + Seals!BoundLife

OwnBindingInv == \A c \in UrlCall : OwnBinding(c)

\* An index only bound URLs can change, those that are out to what it is bound to.
BoundOnly(k) ==
  /\ \A u \in urls : u.key = k => u.writes = {bound[k].bytes} /\ u.until <= bound[k].until
  /\ \A c \in UrlCall : Harmless(c, k)

\* No URL a call that declared other bytes may still hand out would live.
Outlived(c, k) ==
  InFlight(c) /\ calls[c].said \notin {Seals!None, stored[k]} /\ calls[c].key = k =>
    /\ calls[c].at \in {"record", "again", "sign"} => calls[c].started + Seals!BoundLife <= now
    /\ calls[c].at = "publish" => calls[c].expires <= now

\* No URL, out or to come, can make other bytes of an index than it holds.
SettledIndex(k) ==
  /\ \A u \in urls : u.key = k => u.writes \subseteq {stored[k]}
  /\ \A c \in UrlCall : Harmless(c, k) /\ Outlived(c, k)

KeptIndex(k) == Seals!IsRight(k) /\ SettledIndex(k)

KeptIndexSince(k, t) == KeptIndex(k) \/ authority[ScopeOf[k]] > t

Indexes(c) == Names[c] \cap Index

SealIndexInv ==
  \A e \in Epoch : Seals!Live(e) => \A k \in Indexes(seal[e].capture) :
    /\ KeptIndexSince(k, seal[e].reverified)
    /\ standing[e] => KeptIndex(k)

AskIndexes(a) ==
  Current(a) => \A k \in Indexes(asks[a].capture) :
    /\ asks[a].at = "until" => KeptIndexSince(k, asks[a].reverified)
    /\ Past(a) => /\ BoundOnly(k)
                  /\ asks[a].reverified >= asks[a].until => KeptIndex(k)
    /\ Waited(a) => SettledIndex(k)
    /\ asks[a].at \in {"read", "again", "mark"} /\ k \notin asks[a].left => KeptIndex(k)

AskIndexInv == \A a \in Ask : asks[a].at # "idle" => AskIndexes(a)

IndexInv == OwnBindingInv /\ SealIndexInv /\ AskIndexInv

-----------------------------------------------------------------------------
(* Calls that declare bytes. *)

LEMMA CallStarted ==
  ASSUME Seals!TypeOK, NEW c \in UrlCall, CallNext(c), ~Seals!Request(c), calls'[c] # Seals!IdleCall
  PROVE  calls'[c].started = calls[c].started /\ calls'[c].present = calls[c].present
<1>1. InFlight(c)
  BY DEF CallNext, InFlight, Seals!Head, Seals!Reserve, Seals!ReHead, Seals!Record, Seals!Again,
     Seals!Sign, Seals!Publish
<1>2. calls[c] \in Seals!CallInFlight /\ DOMAIN calls = UrlCall
  BY <1>1, CallRecord DEF Seals!TypeOK
<1>3. CASE Seals!Head(c) \/ Seals!Reserve(c) \/ Seals!ReHead(c)
  BY <1>2, <1>3 DEF Seals!Head, Seals!Reserve, Seals!ReHead, Seals!CallInFlight, Seals!Goes,
     Seals!Ended
<1>4. CASE Seals!Record(c) \/ Seals!Again(c) \/ Seals!Sign(c)
  BY <1>2, <1>4 DEF Seals!Record, Seals!Again, Seals!Sign, Seals!CallInFlight, Seals!Ended
<1>5. CASE Seals!Publish(c)
  BY <1>2, <1>5 DEF Seals!Publish, Seals!Ended
<1>6. QED BY <1>3, <1>4, <1>5 DEF CallNext

(* Where a call that declared bytes comes from, once it is past its second HEAD. *)
LEMMA FromWhere ==
  ASSUME Seals!TypeOK, NEW c \in UrlCall, CallNext(c), InFlight(c), OwnBinding(c),
         calls[c].said # Seals!None,
         calls[c].key \in Index, calls'[c].at \in {"rehead", "record", "again", "sign"}
  PROVE  \/ Seals!Reserve(c) /\ bound' = [bound EXCEPT ![calls[c].key] =
                            Seals!Bound(bound[calls[c].key], calls[c].said, now + Seals!BoundLife)]
         \/ calls[c].at = "rehead" /\ stored[calls[c].key] = Seals!None
         \/ calls[c].at = "record"
         \/ calls[c].at = "again" /\ stored[calls[c].key] = Seals!None
<1>1. DOMAIN calls = UrlCall /\ Seals!IdleCall.at = "idle"
  BY DEF Seals!TypeOK, Seals!IdleCall
<1>2. CASE Seals!Request(c)
  BY <1>2 DEF Seals!Request, InFlight
<1>3. CASE Seals!Head(c)
  <2>1. calls[c].present
    BY DEF OwnBinding
  <2>2. calls' = [calls EXCEPT ![c] = Seals!IdleCall] \/ calls' = [calls EXCEPT ![c].at = "reserve"]
    BY <1>3, <2>1 DEF Seals!Head, Seals!Reserves, Seals!Goes, Seals!Ended
  <2>3. calls'[c].at \in {"idle", "reserve"}
    BY <1>1, <2>2, CallRecord
  <2>4. QED BY <2>3
<1>4. CASE Seals!Reserve(c)
  BY <1>1, <1>4 DEF Seals!Reserve, Seals!Ended
<1>5. CASE Seals!ReHead(c)
  BY <1>1, <1>5 DEF Seals!ReHead, Seals!Ended
<1>6. CASE Seals!Again(c)
  BY <1>1, <1>6 DEF Seals!Again, Seals!Ended
<1>7. CASE Seals!Record(c)
  BY <1>7 DEF Seals!Record
<1>8. CASE Seals!Sign(c)
  BY <1>1, <1>8, CallRecord DEF Seals!Sign, Seals!Ended
<1>9. CASE Seals!Publish(c)
  BY <1>1, <1>9 DEF Seals!Publish, Seals!Ended
<1>10. QED BY <1>2, <1>3, <1>4, <1>5, <1>6, <1>7, <1>8, <1>9 DEF CallNext

LEMMA OwnBindingStep ==
  ASSUME Seals!ConstantsAssumption, TypeInv, [Seals!Next]_Seals!vars, NEW c \in UrlCall,
         OwnBinding(c)
  PROVE  OwnBinding(c)'
<1>1. Seals!TypeOK /\ now \in Nat /\ now' \in Nat /\ now <= now' /\ Seals!BoundLife \in Nat
  BY NowStep DEF TypeInv, Seals!TypeOK, Seals!Tick, Seals!BoundLife, Seals!ConstantsAssumption
<1>2. ASSUME InFlight(c), OwnBinding(c), Seals!Reserves(c),
             calls[c].at \in {"rehead", "record", "again", "sign"},
             now < calls[c].started + Seals!BoundLife
      PROVE  /\ bound'[calls[c].key].bytes = calls[c].said
             /\ bound'[calls[c].key].until >= calls[c].started + Seals!BoundLife
  <2>1. calls[c].started \in Int /\ calls[c].key \in Index
    BY <1>1, <1>2, CallOn DEF Seals!Reserves
  <2>2. QED BY <1>1, <1>2, <2>1, BoundStays DEF OwnBinding
<1>3. CASE calls'[c] = calls[c]
  <2>1. InFlight(c)' <=> InFlight(c)
    BY <1>3 DEF InFlight
  <2>2. Seals!Reserves(c)' <=> Seals!Reserves(c)
    BY <1>3 DEF Seals!Reserves
  <2>3. ASSUME InFlight(c), now' < calls[c].started + Seals!BoundLife
        PROVE  now < calls[c].started + Seals!BoundLife
    BY <1>1, <2>3, CallOn
  <2>4. calls[c].at \in {"rehead", "record", "again", "sign"} => InFlight(c)
    BY DEF InFlight
  <2>5. QED BY <1>2, <1>3, <2>1, <2>2, <2>3, <2>4 DEF OwnBinding
<1>4. CASE calls'[c] = Seals!IdleCall
  BY <1>4 DEF OwnBinding, InFlight, Seals!IdleCall
<1>5. CASE Seals!Request(c)
  <2>1. calls'[c].at = "head" /\ (calls'[c].said # Seals!None => calls'[c].present)
    BY <1>1, <1>5 DEF Seals!Request, Seals!TypeOK
  <2>2. QED BY <2>1 DEF OwnBinding
<1>6. CASE CallNext(c) /\ ~Seals!Request(c) /\ calls'[c] # Seals!IdleCall
  <2>1. /\ now' = now /\ InFlight(c) /\ SameAsked(c)
        /\ calls'[c].started = calls[c].started /\ calls'[c].present = calls[c].present
    BY <1>1, <1>6, CallKeeps, CallStarted
  <2>2. SUFFICES ASSUME Seals!Reserves(c), calls'[c].at \in {"rehead", "record", "again", "sign"},
                        now < calls[c].started + Seals!BoundLife
                 PROVE  /\ bound'[calls[c].key].bytes = calls[c].said
                        /\ bound'[calls[c].key].until >= calls[c].started + Seals!BoundLife
    BY <2>1 DEF OwnBinding, SameAsked, Seals!Reserves
  <2>3. CASE bound' = [bound EXCEPT ![calls[c].key] =
                         Seals!Bound(bound[calls[c].key], calls[c].said, now + Seals!BoundLife)]
    <3>1. calls[c].key \in Index /\ DOMAIN bound = Index
      BY <1>1, <2>2 DEF Seals!Reserves, Seals!TypeOK
    <3>2. bound[calls[c].key].until \in 0..(now + Seals!BoundLife)
      BY <1>1, <3>1 DEF Seals!TypeOK
    <3>3. calls[c].started \in 0..now
      BY <1>1, <2>1, CallOn
    <3>4. bound'[calls[c].key] =
            Seals!Bound(bound[calls[c].key], calls[c].said, now + Seals!BoundLife)
      BY <2>3, <3>1
    <3>5. QED BY <1>1, <3>2, <3>3, <3>4 DEF Seals!Bound, Seals!MaxOf
  <2>4. CASE calls[c].at \in {"rehead", "record", "again", "sign"}
    BY <1>2, <2>1, <2>2, <2>4
  <2>5. QED BY <1>1, <1>6, <2>1, <2>2, <2>3, <2>4, FromWhere DEF Seals!Reserves
<1>7. QED BY <1>1, <1>3, <1>4, <1>5, <1>6, CallStep

-----------------------------------------------------------------------------
(* Indexes that stay what they are. *)

LEMMA BoundOnlyStep ==
  ASSUME Seals!ConstantsAssumption, TypeInv, RecordInv, [Seals!Next]_Seals!vars, NEW k \in Index,
         BoundOnly(k),
         \A c \in UrlCall : ~Granted(c, k)
  PROVE  BoundOnly(k)'
<1>1. Seals!TypeOK /\ k \in Key /\ now \in Nat
  BY DEF TypeInv, Seals!TypeOK, Seals!ConstantsAssumption
<1>2. ASSUME NEW u \in urls', u.key = k
      PROVE  u.writes = {bound'[k].bytes} /\ u.until <= bound'[k].until
  <2>1. CASE u \in urls
    <3>1. u.until \in Int /\ u.until > now /\ bound[k].until \in Int
      BY <1>1, <2>1 DEF Seals!TypeOK, Seals!ConstantsAssumption
    <3>2. u.writes = {bound[k].bytes} /\ u.until <= bound[k].until
      BY <1>2, <2>1 DEF BoundOnly
    <3>3. bound'[k].bytes = bound[k].bytes /\ bound'[k].until >= u.until
      BY <3>1, <3>2, BoundStays
    <3>4. bound'[k].until \in Int
      <4>1. bound'[k].until \in 0..(now + Seals!BoundLife)
        BY <1>1, BoundType
      <4>2. QED BY <4>1
    <3>5. QED BY <3>1, <3>2, <3>3, <3>4
  <2>2. ASSUME NEW c \in UrlCall, Seals!Publish(c), u \notin urls
        PROVE  u.writes = {bound'[k].bytes} /\ u.until <= bound'[k].until
    <3>1. InFlight(c) /\ calls[c].at = "publish" /\ bound' = bound
      BY <2>2 DEF Seals!Publish, InFlight, Seals!db
    <3>2. /\ calls[c].key = k /\ calls[c].expires > now
          /\ u.writes = Seals!Writes(c) /\ u.until = calls[c].expires
      BY <1>2, <2>2 DEF Seals!Publish
    <3>3. calls[c].expires \in Int /\ bound[k].until \in Int
      BY <1>1, <3>1, CallOn DEF Seals!TypeOK
    <3>4. calls[c].said # Seals!None
      BY <1>1, <3>1, <3>2, <3>3 DEF BoundOnly, Harmless
    <3>5. bound[k].bytes = calls[c].said /\ bound[k].until >= calls[c].expires
      BY <3>1, <3>2, <3>4 DEF RecordInv, PublishBound, Seals!Reserves
    <3>6. QED BY <3>1, <3>2, <3>3, <3>4, <3>5 DEF Seals!Writes
  <2>3. QED BY <2>1, <2>2, UrlStep DEF Seals!Tick
<1>3. \A c \in UrlCall : Harmless(c, k)'
  BY <1>1, HarmlessStep DEF BoundOnly
<1>4. QED BY <1>2, <1>3 DEF BoundOnly

LEMMA OutlivedStep ==
  ASSUME Seals!ConstantsAssumption, TypeInv, OwnBindingInv, [Seals!Next]_Seals!vars, SignsInTime,
         NEW k \in Index,
         NEW c \in UrlCall, Outlived(c, k), stored[k] # Seals!None, stored'[k] = stored[k]
  PROVE  Outlived(c, k)'
<1>1. Seals!TypeOK /\ now \in Nat /\ now' \in Nat /\ now <= now' /\ Seals!BoundLife \in Nat
  BY NowStep DEF TypeInv, Seals!TypeOK, Seals!Tick, Seals!BoundLife, Seals!ConstantsAssumption
<1>2. CASE calls'[c] = calls[c]
  <2>1. InFlight(c)' <=> InFlight(c)
    BY <1>2 DEF InFlight
  <2>2. InFlight(c) => calls[c].started \in Int /\ calls[c].expires \in Int
    BY <1>1, CallOn
  <2>3. QED BY <1>1, <1>2, <2>1, <2>2 DEF Outlived
<1>3. CASE calls'[c] = Seals!IdleCall \/ Seals!Request(c)
  <2>1. calls'[c].at \in {"idle", "head"}
    BY <1>1, <1>3 DEF Seals!Request, Seals!IdleCall, Seals!TypeOK
  <2>2. QED BY <2>1 DEF Outlived
<1>4. CASE CallNext(c) /\ ~Seals!Request(c) /\ calls'[c] # Seals!IdleCall
  <2>1. /\ now' = now /\ InFlight(c) /\ SameAsked(c)
        /\ calls'[c].started = calls[c].started
    BY <1>1, <1>4, CallKeeps, CallStarted
  <2>2. SUFFICES ASSUME calls[c].said \notin {Seals!None, stored[k]}, calls[c].key = k
                 PROVE  /\ calls'[c].at \in {"record", "again", "sign"} =>
                             calls[c].started + Seals!BoundLife <= now
                        /\ calls'[c].at = "publish" => FALSE
    BY <2>1 DEF Outlived, SameAsked
  <2>3. ASSUME calls'[c].at \in {"record", "again", "sign"}
        PROVE  calls[c].started + Seals!BoundLife <= now
    <3>1. OwnBinding(c)
      BY DEF OwnBindingInv
    <3>2. ~Seals!Reserve(c)
      BY <1>1, <2>1, <2>3, CallRecord DEF Seals!Reserve, Seals!Goes, Seals!Ended, Seals!IdleCall,
         Seals!TypeOK
    <3>3. calls[c].at = "record"
      BY <1>1, <1>4, <2>1, <2>2, <2>3, <3>1, <3>2, FromWhere
    <3>4. QED BY <2>1, <2>2, <3>3 DEF Outlived
  <2>4. ASSUME calls'[c].at = "publish"
        PROVE  FALSE
    <3>1. calls[c].at = "sign"
      BY <1>4, <2>4, ToPublish DEF Seals!Sign
    <3>2. now < calls[c].started + Seals!BoundLife
      BY <2>2, <2>4, <3>1 DEF SignsInTime, Seals!Reserves
    <3>3. calls[c].started + Seals!BoundLife <= now
      BY <2>1, <2>2, <3>1 DEF Outlived
    <3>4. calls[c].started \in Int
      BY <1>1, <2>1, CallOn
    <3>5. QED BY <1>1, <3>2, <3>3, <3>4
  <2>5. QED BY <2>3, <2>4
<1>5. QED BY <1>1, <1>2, <1>3, <1>4, CallStep

LEMMA SettledIndexStep ==
  ASSUME Seals!ConstantsAssumption, TypeInv, OwnBindingInv, [Seals!Next]_Seals!vars, SignsInTime,
         NEW k \in Index,
         SettledIndex(k), stored[k] # Seals!None, \A c \in UrlCall : ~Granted(c, k)
  PROVE  stored'[k] = stored[k] /\ SettledIndex(k)'
<1>1. Seals!TypeOK /\ k \in Key /\ now \in Nat
  BY DEF TypeInv, Seals!TypeOK, Seals!ConstantsAssumption
<1>2. stored'[k] = stored[k]
  <2>1. CASE Seals!Upload
    <3>1. PICK u \in urls : \E b \in u.writes : stored' = [stored EXCEPT ![u.key] = b]
      BY <2>1 DEF Seals!Upload
    <3>2. PICK b \in u.writes : stored' = [stored EXCEPT ![u.key] = b]
      BY <3>1
    <3>3. u.key = k => b = stored[k]
      BY <3>2 DEF SettledIndex
    <3>4. DOMAIN stored = Key
      BY <1>1 DEF Seals!TypeOK
    <3>5. QED BY <1>1, <3>2, <3>3, <3>4
  <2>2. QED BY <2>1, StoredStep
<1>3. ASSUME NEW u \in urls', u.key = k
      PROVE  u.writes \subseteq {stored[k]}
  <2>1. CASE u \in urls
    BY <1>3, <2>1 DEF SettledIndex
  <2>2. ASSUME NEW c \in UrlCall, Seals!Publish(c), u \notin urls
        PROVE  u.writes \subseteq {stored[k]}
    <3>1. InFlight(c) /\ calls[c].at = "publish"
      BY <2>2 DEF Seals!Publish, InFlight
    <3>2. /\ calls[c].key = k /\ calls[c].expires > now /\ u.writes = Seals!Writes(c)
      BY <1>3, <2>2 DEF Seals!Publish
    <3>3. calls[c].expires \in Int
      BY <1>1, <3>1, CallOn
    <3>4. Harmless(c, k) /\ Outlived(c, k)
      BY DEF SettledIndex
    <3>5. calls[c].said = stored[k] /\ calls[c].said # Seals!None
      BY <1>1, <3>1, <3>2, <3>3, <3>4 DEF Harmless, Outlived
    <3>6. QED BY <3>2, <3>5 DEF Seals!Writes
  <2>3. QED BY <2>1, <2>2, UrlStep DEF Seals!Tick
<1>4. \A c \in UrlCall : Harmless(c, k)'
  BY <1>1, HarmlessStep DEF SettledIndex
<1>5. \A c \in UrlCall : Outlived(c, k)'
  BY <1>2, OutlivedStep DEF SettledIndex
<1>6. QED BY <1>2, <1>3, <1>4, <1>5 DEF SettledIndex

(* Once the write authority over an index is past, only bound URLs are left. *)
LEMMA BoundOnlyNow ==
  ASSUME Seals!ConstantsAssumption, TypeInv, RecordInv, NEW k \in Index,
         authority[ScopeOf[k]] <= now
  PROVE  BoundOnly(k)
<1>1. k \in Key /\ ScopeOf[k] \in Epoch /\ authority[ScopeOf[k]] \in Nat /\ now \in Nat
  BY AuthorityNat DEF TypeInv, Seals!ConstantsAssumption
<1>2. ASSUME NEW u \in urls, u.key = k
      PROVE  u.writes = {bound[k].bytes} /\ u.until <= bound[k].until
  <2>1. u.until \in Int /\ u.until > now /\ bound[k].until \in Int
    BY <1>1 DEF TypeInv, Seals!TypeOK, Seals!ConstantsAssumption
  <2>2. QED BY <1>1, <1>2, <2>1 DEF RecordInv, Seals!UrlsAreOnRecord
<1>3. ASSUME NEW c \in UrlCall, InFlight(c), calls[c].said = Seals!None, calls[c].key = k
      PROVE  /\ calls[c].at = "sign" => calls[c].recorded + Ttl + Margin <= now
             /\ calls[c].at = "publish" => calls[c].expires <= now
  <2>1. calls[c].unbound /\ calls[c].epoch = ScopeOf[k]
    BY <1>3 DEF TypeInv, CallInv, CallFits
  <2>2. calls[c].recorded \in Nat /\ calls[c].expires \in Nat
    BY <1>1, <1>3, CallOn DEF TypeInv, Seals!ConstantsAssumption
  <2>3. SignRecorded(c) /\ PublishRecorded(c)
    BY DEF RecordInv
  <2>4. QED BY <1>1, <2>1, <2>2, <2>3 DEF SignRecorded, PublishRecorded, Seals!ConstantsAssumption
<1>4. QED BY <1>2, <1>3 DEF BoundOnly, Harmless

(* And where no binding to other bytes holds, nothing can change it. *)
LEMMA SettledIndexNow ==
  ASSUME Seals!ConstantsAssumption, TypeInv, RecordInv, OwnBindingInv, NEW k \in Index,
         BoundOnly(k),
         bound[k].until <= now \/ bound[k].bytes = stored[k]
  PROVE  SettledIndex(k)
<1>1. /\ Seals!TypeOK /\ k \in Key /\ now \in Nat
      /\ bound[k].until \in Int /\ Seals!BoundLife \in Nat
  BY DEF TypeInv, Seals!TypeOK, Seals!ConstantsAssumption, Seals!BoundLife
<1>2. ASSUME NEW u \in urls, u.key = k
      PROVE  u.writes \subseteq {stored[k]}
  <2>1. u.until \in Int /\ u.until > now
    BY <1>1 DEF Seals!TypeOK, Seals!ConstantsAssumption
  <2>2. QED BY <1>1, <1>2, <2>1 DEF BoundOnly
<1>3. ASSUME NEW c \in UrlCall, InFlight(c), calls[c].said \notin {Seals!None, stored[k]},
             calls[c].key = k
      PROVE  /\ calls[c].at \in {"record", "again", "sign"} =>
                  calls[c].started + Seals!BoundLife <= now
             /\ calls[c].at = "publish" => calls[c].expires <= now
  <2>1. Seals!Reserves(c) /\ calls[c].started \in Int /\ calls[c].expires \in Int
    BY <1>1, <1>3, CallOn DEF Seals!Reserves
  <2>2. OwnBinding(c) /\ PublishBound(c)
    BY DEF OwnBindingInv, RecordInv
  <2>3. QED BY <1>1, <1>3, <2>1, <2>2 DEF OwnBinding, PublishBound
<1>4. QED BY <1>2, <1>3 DEF SettledIndex, Outlived, BoundOnly

LEMMA SealedIndexStep ==
  ASSUME Seals!ConstantsAssumption, TypeInv, RecordInv, SealedInv, OwnBindingInv,
         [Seals!Next]_Seals!vars, SignsInTime,
         NEW e \in Epoch, Seals!Live(e), NEW k \in Indexes(seal[e].capture)
  PROVE  /\ k \in Index /\ k \in Key
         /\ BoundOnly(k) => BoundOnly(k)'
         /\ SettledIndex(k) => SettledIndex(k)'
         /\ KeptIndex(k) => KeptIndex(k)'
<1>1. seal[e].capture \in Capture /\ k \in Index /\ k \in Key
  BY DEF Seals!Live, TypeInv, Seals!TypeOK, Indexes, Seals!ConstantsAssumption
<1>2. \A c \in UrlCall : ~Granted(c, k)
  BY GrantUnsealed DEF Indexes
<1>3. stored[k] # Seals!None
  BY <1>1 DEF SealedInv, AllStored, Seals!Live, Indexes
<1>4. BoundOnly(k) => BoundOnly(k)'
  BY <1>1, <1>2, BoundOnlyStep
<1>5. SettledIndex(k) => stored'[k] = stored[k] /\ SettledIndex(k)'
  BY <1>1, <1>2, <1>3, SettledIndexStep
<1>6. KeptIndex(k) => KeptIndex(k)'
  BY <1>5 DEF KeptIndex, Seals!IsRight
<1>7. QED BY <1>1, <1>4, <1>5, <1>6

LEMMA KeptIndexLater ==
  ASSUME Seals!ConstantsAssumption, TypeInv, RecordInv, SealedInv, OwnBindingInv,
         [Seals!Next]_Seals!vars, SignsInTime,
         NEW e \in Epoch, Seals!Live(e), NEW k \in Indexes(seal[e].capture), NEW t \in Int,
         KeptIndexSince(k, t)
  PROVE  KeptIndex(k)' \/ authority'[ScopeOf[k]] > t
<1>1. k \in Key /\ ScopeOf[k] \in Epoch /\ Seals!TypeOK
  BY SealedIndexStep DEF Seals!ConstantsAssumption, TypeInv
<1>2. /\ authority[ScopeOf[k]] \in Int /\ authority'[ScopeOf[k]] \in Int
      /\ authority[ScopeOf[k]] <= authority'[ScopeOf[k]]
  BY <1>1, AuthorityRises DEF Seals!TypeOK
<1>3. QED BY <1>2, SealedIndexStep DEF KeptIndexSince

-----------------------------------------------------------------------------
(* What stands, of indexes. *)

LEMMA StandsKeptIndex ==
  ASSUME AskInv, AskIndexInv, NEW a \in Ask, NEW e \in Epoch, StandsBy(a, e)
  PROVE  \A k \in Indexes(seal[e].capture) : KeptIndex(k)
<1>1. AskOver(a) /\ AskIndexes(a) /\ Current(a)
  BY DEF AskInv, AskIndexInv, StandsBy, Reading
<1>2. seal[e].capture = asks[a].capture
  BY DEF StandsBy, Current
<1>3. CASE asks[a].at = "mark"
  BY <1>1, <1>2, <1>3 DEF AskOver, AskIndexes
<1>4. CASE asks[a].at = "hold"
  BY <1>1, <1>2, <1>4 DEF AskIndexes, StandsBy, Past
<1>5. QED BY <1>3, <1>4 DEF StandsBy

LEMMA SealIndexInductive ==
  ASSUME Seals!ConstantsAssumption, SealsInv, IndexInv, [Seals!Next]_Seals!vars, SignsInTime
  PROVE  SealIndexInv'
<1>1. Seals!TypeOK /\ Seals!TypeOK' /\ TypeInv /\ RecordInv /\ SealedInv /\ OwnBindingInv
  BY TypeInductive DEF SealsInv, TypeInv, IndexInv
<1>2. SUFFICES ASSUME NEW e \in Epoch, Seals!Live(e)', NEW k \in Indexes(seal[e].capture)'
               PROVE  /\ KeptIndex(k)' \/ authority'[ScopeOf[k]] > seal'[e].reverified
                      /\ standing'[e] => KeptIndex(k)'
  BY DEF SealIndexInv, KeptIndexSince
<1>3. ASSUME NEW c \in Capture, Replaced(e, c)
      PROVE  /\ authority'[ScopeOf[k]] > seal'[e].reverified
             /\ ~standing'[e]
  <2>1. seal'[e].capture = c /\ seal'[e].reverified = -1 /\ ~standing'[e]
    BY <1>3 DEF Replaced
  <2>2. k \in Key
    BY <2>1 DEF Indexes, Seals!ConstantsAssumption
  <2>3. authority[ScopeOf[k]] \in Nat /\ authority[ScopeOf[k]] <= authority'[ScopeOf[k]]
        /\ authority'[ScopeOf[k]] \in Int
    BY <1>1, <2>2, AuthorityNat, AuthorityRises DEF Seals!TypeOK
  <2>4. QED BY <2>1, <2>3
<1>4. ASSUME ~\E c \in Capture : Replaced(e, c)
      PROVE  /\ KeptIndex(k)' \/ authority'[ScopeOf[k]] > seal'[e].reverified
             /\ standing'[e] => KeptIndex(k)'
  <2>1. /\ seal'[e].capture = seal[e].capture
        /\ seal[e].void => seal'[e].void
        /\ seal'[e].reverified = seal[e].reverified \/ \E a \in Ask : MarkedBy(a, e)
    BY <1>1, <1>4, SealKeeps
  <2>2. Seals!Live(e) /\ k \in Indexes(seal[e].capture)
    BY <1>2, <2>1 DEF Seals!Live, Indexes
  <2>3. KeptIndex(k) => KeptIndex(k)'
    BY <1>1, <2>2, SealedIndexStep
  <2>4. KeptIndexSince(k, seal[e].reverified) /\ (standing[e] => KeptIndex(k))
    BY <2>2 DEF IndexInv, SealIndexInv
  <2>5. \A a \in Ask : StandsBy(a, e) => KeptIndex(k)
    BY <2>2, StandsKeptIndex DEF SealsInv, IndexInv
  <2>6. standing'[e] => KeptIndex(k)'
    BY <1>1, <1>4, <2>3, <2>4, <2>5, StandingKeeps
  <2>7. CASE seal'[e].reverified = seal[e].reverified
    <3>1. seal[e].reverified \in Int
      BY <1>1 DEF Seals!TypeOK
    <3>2. KeptIndex(k)' \/ authority'[ScopeOf[k]] > seal[e].reverified
      BY <1>1, <2>2, <2>4, <3>1, KeptIndexLater
    <3>3. QED BY <2>6, <2>7, <3>2
  <2>8. ASSUME NEW a \in Ask, MarkedBy(a, e)
        PROVE  KeptIndex(k)'
    <3>1. StandsBy(a, e)
      BY <2>8 DEF MarkedBy, Seals!MarkHolds, StandsBy, Current, Reading
    <3>2. QED BY <2>3, <2>5, <3>1
  <2>9. QED BY <2>1, <2>6, <2>7, <2>8
<1>5. QED BY <1>3, <1>4

-----------------------------------------------------------------------------
(* Reads of a seal, of indexes. *)

\* What a read has of an index once past its hold, after a step.
IndexRests(a, k) ==
  /\ BoundOnly(k)
  /\ asks[a].reverified >= asks[a].until => KeptIndex(k)

LEMMA IndexRestsGoes ==
  ASSUME Seals!ConstantsAssumption, SealsInv, IndexInv, [Seals!Next]_Seals!vars, SignsInTime,
         NEW a \in Ask,
         Reading(a), Past(a), Current(a), NEW k \in Indexes(asks[a].capture),
         SameSeal(a), asks'[a].until = asks[a].until
  PROVE  /\ IndexRests(a, k)'
         /\ SettledIndex(k) => SettledIndex(k)'
         /\ KeptIndex(k) => KeptIndex(k)'
         /\ Waited(a) => SettledIndex(k)'
<1>1. TypeInv /\ Seals!TypeOK /\ RecordInv /\ SealedInv /\ OwnBindingInv /\ AskIndexes(a)
  BY DEF SealsInv, TypeInv, IndexInv, AskIndexInv, Reading
<1>2. asks[a].epoch \in Epoch
  BY <1>1, AskRecord
<1>3. /\ BoundOnly(k) => BoundOnly(k)'
      /\ SettledIndex(k) => SettledIndex(k)'
      /\ KeptIndex(k) => KeptIndex(k)'
  BY <1>1, <1>2, SealedIndexStep DEF Current
<1>4. /\ BoundOnly(k) /\ (asks[a].reverified >= asks[a].until => KeptIndex(k))
      /\ Waited(a) => SettledIndex(k)
  BY <1>1 DEF AskIndexes
<1>5. asks'[a].reverified = asks[a].reverified
  BY DEF SameSeal
<1>6. QED BY <1>3, <1>4, <1>5 DEF IndexRests

(* A read past its hold that goes on from there. *)
LEMMA AskIndexGoes ==
  ASSUME Seals!ConstantsAssumption, SealsInv, IndexInv, [Seals!Next]_Seals!vars, SignsInTime,
         NEW a \in Ask,
         Reading(a), Past(a), SameSeal(a), asks'[a].until = asks[a].until,
         asks'[a].at \notin {"idle", "until"},
         \A k \in Indexes(asks[a].capture) : Current(a) =>
           /\ Waited(a)' => Waited(a) \/ SettledIndex(k)
           /\ asks'[a].at \in {"read", "again", "mark"} /\ k \notin asks'[a].left => KeptIndex(k)
  PROVE  AskIndexes(a)'
<1>1. SUFFICES ASSUME Current(a)', NEW k \in Indexes(asks[a].capture)
               PROVE  /\ IndexRests(a, k)'
                      /\ Waited(a)' => SettledIndex(k)'
                      /\ asks'[a].at \in {"read", "again", "mark"} /\ k \notin asks'[a].left =>
                              KeptIndex(k)'
  BY DEF AskIndexes, SameSeal, IndexRests, Indexes
<1>2. AskOver(a) /\ TypeInv
  BY DEF SealsInv, AskInv, Reading
<1>3. Current(a)
  BY <1>1, <1>2, GoesOn
<1>4. QED BY <1>1, <1>3, IndexRestsGoes

LEMMA AskIndexStays ==
  ASSUME Seals!ConstantsAssumption, SealsInv, IndexInv, [Seals!Next]_Seals!vars, SignsInTime,
         NEW a \in Ask,
         Reading(a), asks'[a] = asks[a]
  PROVE  AskIndexes(a)'
<1>1. /\ TypeInv /\ Seals!TypeOK /\ RecordInv /\ SealedInv /\ OwnBindingInv
      /\ AskOver(a) /\ AskIndexes(a)
  BY DEF SealsInv, TypeInv, IndexInv, AskInv, AskIndexInv, Reading
<1>2. SameSeal(a)
  BY DEF SameSeal
<1>3. CASE Past(a)
  <2>1. asks[a].at \notin {"idle", "until"}
    BY <1>3 DEF Past, Waited
  <2>2. Waited(a)' <=> Waited(a)
    BY DEF Waited
  <2>3. \A k \in Indexes(asks[a].capture) : Current(a) =>
          (asks'[a].at \in {"read", "again", "mark"} /\ k \notin asks'[a].left => KeptIndex(k))
    BY <1>1 DEF AskIndexes
  <2>4. QED BY <1>2, <1>3, <2>1, <2>2, <2>3, AskIndexGoes
<1>4. CASE ~Past(a)
  <2>1. ~Past(a)' /\ ~Waited(a)'
    BY <1>4 DEF Past, Waited
  <2>2. SUFFICES ASSUME Current(a)', NEW k \in Indexes(asks[a].capture), asks[a].at = "until"
                 PROVE  KeptIndex(k)' \/ authority'[ScopeOf[k]] > asks[a].reverified
    BY <2>1 DEF AskIndexes, Waited, KeptIndexSince, Indexes
  <2>3. Current(a)
    BY <1>1, <1>2, <2>2, GoesOn
  <2>4. /\ asks[a].epoch \in Epoch /\ asks[a].reverified \in Int
        /\ KeptIndexSince(k, asks[a].reverified)
    BY <1>1, <2>2, <2>3, AskRecord DEF AskIndexes
  <2>5. QED BY <1>1, <2>2, <2>3, <2>4, KeptIndexLater DEF Current
<1>5. QED BY <1>3, <1>4

LEMMA AskIndexStarts ==
  ASSUME Seals!ConstantsAssumption, SealsInv, IndexInv, [Seals!Next]_Seals!vars, SignsInTime,
         NEW a \in Ask,
         NEW e \in Epoch, Seals!AskSeal(a, e)
  PROVE  AskIndexes(a)'
<1>1. TypeInv /\ Seals!TypeOK /\ RecordInv /\ SealedInv /\ OwnBindingInv
  BY DEF SealsInv, TypeInv, IndexInv
<1>2. /\ asks'[a].at = "until" /\ asks'[a].epoch = e /\ asks'[a].capture = seal[e].capture
      /\ asks'[a].reverified = seal[e].reverified
  BY <1>1 DEF Seals!AskSeal, Seals!TypeOK
<1>3. Seals!Live(e) /\ seal[e].reverified \in Int
  BY <1>1 DEF Seals!AskSeal, Seals!TypeOK
<1>4. ASSUME NEW k \in Indexes(seal[e].capture)
      PROVE  KeptIndex(k)' \/ authority'[ScopeOf[k]] > seal[e].reverified
  BY <1>1, <1>3, KeptIndexLater DEF IndexInv, SealIndexInv
<1>5. QED BY <1>2, <1>4 DEF AskIndexes, Indexes, Past, Waited, KeptIndexSince

LEMMA AskIndexUntil ==
  ASSUME Seals!ConstantsAssumption, SealsInv, IndexInv, [Seals!Next]_Seals!vars, SignsInTime,
         NEW a \in Ask,
         Seals!AskUntil(a)
  PROVE  AskIndexes(a)'
<1>1. /\ TypeInv /\ Seals!TypeOK /\ RecordInv /\ SealedInv /\ OwnBindingInv /\ Reading(a)
      /\ AskOver(a) /\ AskIndexes(a)
  BY DEF SealsInv, TypeInv, IndexInv, AskInv, AskIndexInv, Reading, Seals!AskUntil
<1>2. PICK t \in Seals!AuthorityOver(asks[a].capture) :
        /\ \A u \in Seals!AuthorityOver(asks[a].capture) : u <= t
        /\ asks' = [asks EXCEPT ![a].at = "hold", ![a].when = now, ![a].until = t]
  BY DEF Seals!AskUntil
<1>3. asks[a] \in Seals!AskInFlight /\ asks[a].epoch \in Epoch /\ asks[a].capture \in Capture
      /\ asks[a].reverified \in Int
  BY <1>1, AskRecord
<1>4. asks'[a].at = "hold" /\ asks'[a].when = now /\ asks'[a].until = t /\ SameSeal(a)
  BY <1>1, <1>2, <1>3 DEF SameSeal, Seals!AskInFlight, Seals!TypeOK
<1>5. SUFFICES ASSUME Current(a)', NEW k \in Indexes(asks[a].capture), t <= now
               PROVE  BoundOnly(k)' /\ (asks[a].reverified >= t => KeptIndex(k)')
  BY <1>4 DEF AskIndexes, Past, Waited, SameSeal, Indexes
<1>6. Current(a) /\ now' = now
  BY <1>1, <1>4, <1>5, GoesOn DEF Seals!AskUntil
<1>7. k \in Index /\ k \in Key /\ (BoundOnly(k) => BoundOnly(k)') /\ (KeptIndex(k) => KeptIndex(k)')
  BY <1>1, <1>3, <1>5, <1>6, SealedIndexStep DEF Current
<1>8. authority[ScopeOf[k]] <= t
  BY <1>2, <1>3, <1>5, ScopesAreEpochs DEF Seals!AuthorityOver, Indexes
<1>9. authority[ScopeOf[k]] \in Nat /\ t \in Nat /\ now \in Nat
  BY <1>1, <1>2, <1>3, <1>7, AuthorityNat, ScopesAreEpochs DEF Seals!AuthorityOver
<1>10. BoundOnly(k)
  BY <1>1, <1>5, <1>7, <1>8, <1>9, BoundOnlyNow
<1>11. KeptIndexSince(k, asks[a].reverified)
  BY <1>1, <1>5, <1>6 DEF AskIndexes, Seals!AskUntil
<1>12. asks[a].reverified >= t => KeptIndex(k)
  BY <1>3, <1>8, <1>9, <1>11 DEF KeptIndexSince
<1>13. QED BY <1>7, <1>10, <1>12

LEMMA AskIndexHold ==
  ASSUME Seals!ConstantsAssumption, SealsInv, IndexInv, [Seals!Next]_Seals!vars, SignsInTime,
         NEW a \in Ask,
         Seals!AskHold(a), asks'[a] # Seals!IdleAsk
  PROVE  AskIndexes(a)'
<1>1. /\ TypeInv /\ Seals!TypeOK /\ RecordInv /\ SealedInv /\ OwnBindingInv /\ Reading(a)
      /\ AskOver(a) /\ AskIndexes(a) /\ asks[a].at = "hold"
  BY DEF SealsInv, TypeInv, IndexInv, AskInv, AskIndexInv, Reading, Seals!AskHold
<1>2. /\ asks[a] \in Seals!AskInFlight /\ asks[a].when \in 0..now /\ asks[a].epoch \in Epoch
      /\ asks[a].until \in 0..(now + Ttl + Margin) /\ now \in Nat
  BY <1>1, AskRecord DEF Seals!TypeOK
<1>3. /\ asks' = [asks EXCEPT ![a].at = "wait", ![a].left = Names[asks[a].capture]]
      /\ asks[a].when >= asks[a].until /\ ~Seals!BoundHold(asks[a].capture, asks[a].when)
  BY <1>1 DEF Seals!AskHold, Seals!AskEnds, Seals!TypeOK
<1>4. asks'[a].at = "wait" /\ SameSeal(a) /\ asks'[a].until = asks[a].until
  BY <1>1, <1>2, <1>3 DEF SameSeal, Seals!AskInFlight, Seals!TypeOK
<1>5. Past(a)
  BY <1>1, <1>2, <1>3 DEF Past
<1>6. ASSUME Current(a), NEW k \in Indexes(asks[a].capture)
      PROVE  SettledIndex(k)
  <2>1. k \in Index /\ bound[k].until \in Int
    BY <1>1, <1>6 DEF Indexes, Seals!TypeOK
  <2>2. ~(bound[k].until > asks[a].when /\ bound[k].bytes # stored[k])
    BY <1>3, <1>6 DEF Seals!BoundHold, Indexes
  <2>3. bound[k].until <= now \/ bound[k].bytes = stored[k]
    BY <1>2, <2>1, <2>2
  <2>4. BoundOnly(k)
    BY <1>1, <1>5, <1>6 DEF AskIndexes
  <2>5. QED BY <1>1, <2>1, <2>3, <2>4, SettledIndexNow
<1>7. QED BY <1>1, <1>4, <1>5, <1>6, AskIndexGoes

LEMMA AskIndexPermit ==
  ASSUME Seals!ConstantsAssumption, SealsInv, IndexInv, [Seals!Next]_Seals!vars, SignsInTime,
         NEW a \in Ask,
         Seals!Permit(a)
  PROVE  AskIndexes(a)'
<1>1. Seals!TypeOK /\ Reading(a) /\ AskOver(a) /\ asks[a].at = "wait"
  BY DEF SealsInv, TypeInv, AskInv, Reading, Seals!Permit
<1>2. asks[a] \in Seals!AskInFlight
  BY <1>1, AskRecord
<1>3. /\ asks'[a].at \in {"again", "read"} /\ asks'[a].left = asks[a].left /\ SameSeal(a)
      /\ asks'[a].until = asks[a].until
  BY <1>1, <1>2 DEF Seals!Permit, SameSeal, Seals!AskInFlight, Seals!TypeOK
<1>4. Past(a) /\ Waited(a) /\ \A k \in Indexes(asks[a].capture) : k \in asks'[a].left
  BY <1>1, <1>3 DEF Past, Waited, AskOver, Indexes
<1>5. QED BY <1>1, <1>3, <1>4, AskIndexGoes

LEMMA AskIndexRead ==
  ASSUME Seals!ConstantsAssumption, SealsInv, IndexInv, [Seals!Next]_Seals!vars, SignsInTime,
         NEW a \in Ask,
         NEW j \in Key, Seals!AskRead(a, j)
  PROVE  AskIndexes(a)'
<1>1. /\ Seals!TypeOK /\ Reading(a) /\ asks[a].at = "read" /\ AskIndexes(a) /\ j \in asks[a].left
  BY DEF SealsInv, TypeInv, IndexInv, AskIndexInv, Reading, Seals!AskRead
<1>2. asks[a] \in Seals!AskInFlight /\ Past(a) /\ Waited(a)
  BY <1>1, AskRecord DEF Past, Waited
<1>3. CASE asks' = [asks EXCEPT ![a].at = "void"]
  <2>1. asks'[a].at = "void" /\ SameSeal(a) /\ asks'[a].until = asks[a].until
    BY <1>1, <1>2, <1>3 DEF SameSeal, Seals!AskInFlight, Seals!TypeOK
  <2>2. QED BY <1>1, <1>2, <2>1, AskIndexGoes
<1>4. CASE asks' # [asks EXCEPT ![a].at = "void"]
  <2>1. PICK t : /\ asks' = [asks EXCEPT ![a] = Seals!ReadOn(a, j, t)]
                 /\ j \in Index => Seals!IsRight(j)
    BY <1>4 DEF Seals!AskRead, Seals!Reuses
  <2>2. /\ asks'[a].left = asks[a].left \ {j} /\ SameSeal(a) /\ asks'[a].until = asks[a].until
        /\ asks'[a].at \in {"again", "read"}
    BY <1>1, <1>2, <2>1 DEF Seals!ReadOn, SameSeal, Seals!AskInFlight, Seals!TypeOK
  <2>3. ASSUME Current(a), NEW k \in Indexes(asks[a].capture), k \notin asks'[a].left
        PROVE  KeptIndex(k)
    <3>1. CASE k # j
      BY <1>1, <2>2, <2>3, <3>1 DEF AskIndexes
    <3>2. CASE k = j
      BY <1>1, <1>2, <2>1, <2>3, <3>2 DEF AskIndexes, KeptIndex, Indexes
    <3>3. QED BY <3>1, <3>2
  <2>4. QED BY <1>1, <1>2, <2>2, <2>3, AskIndexGoes
<1>5. QED BY <1>3, <1>4

LEMMA AskIndexHoldAgain ==
  ASSUME Seals!ConstantsAssumption, SealsInv, IndexInv, [Seals!Next]_Seals!vars, SignsInTime,
         NEW a \in Ask,
         Seals!AskHoldAgain(a), asks'[a] # Seals!IdleAsk
  PROVE  AskIndexes(a)'
<1>1. Seals!TypeOK /\ Reading(a) /\ AskIndexes(a) /\ asks[a].at = "again"
  BY DEF SealsInv, TypeInv, IndexInv, AskIndexInv, Reading, Seals!AskHoldAgain
<1>2. asks[a] \in Seals!AskInFlight
  BY <1>1, AskRecord
<1>3. /\ asks'[a].at = "mark" /\ asks'[a].left = asks[a].left /\ SameSeal(a)
      /\ asks'[a].until = asks[a].until
  BY <1>1, <1>2 DEF Seals!AskHoldAgain, Seals!AskEnds, SameSeal, Seals!AskInFlight, Seals!TypeOK
<1>4. Past(a) /\ Waited(a)
  BY <1>1 DEF Past, Waited
<1>5. \A k \in Indexes(asks[a].capture) : Current(a) /\ k \notin asks'[a].left => KeptIndex(k)
  BY <1>1, <1>3 DEF AskIndexes
<1>6. QED BY <1>1, <1>3, <1>4, <1>5, AskIndexGoes

LEMMA AskIndexInductive ==
  ASSUME Seals!ConstantsAssumption, SealsInv, IndexInv, [Seals!Next]_Seals!vars, SignsInTime
  PROVE  AskIndexInv'
<1>1. SUFFICES ASSUME NEW a \in Ask, asks'[a].at # "idle"
               PROVE  AskIndexes(a)'
  BY DEF AskIndexInv
<1>2. asks'[a] # Seals!IdleAsk /\ DOMAIN asks = Ask /\ Seals!TypeOK
  BY <1>1 DEF Seals!IdleAsk, SealsInv, TypeInv, Seals!TypeOK
<1>3. CASE asks'[a] = asks[a]
  BY <1>1, <1>3, AskIndexStays DEF Reading
<1>4. ASSUME NEW e \in Epoch, Seals!AskSeal(a, e)
      PROVE  AskIndexes(a)'
  BY <1>4, AskIndexStarts
<1>5. CASE Seals!AskFails(a) \/ Seals!Void(a) \/ Seals!Mark(a)
  BY <1>2, <1>5 DEF Seals!AskFails, Seals!Void, Seals!Mark, Seals!AskEnds
<1>6. ASSUME NEW k \in Key, Seals!AskRead(a, k)
      PROVE  AskIndexes(a)'
  BY <1>6, AskIndexRead
<1>7. CASE Seals!AskUntil(a)
  BY <1>7, AskIndexUntil
<1>8. CASE Seals!AskHold(a)
  BY <1>2, <1>8, AskIndexHold
<1>9. CASE Seals!Permit(a)
  BY <1>9, AskIndexPermit
<1>10. CASE Seals!AskHoldAgain(a)
  BY <1>2, <1>10, AskIndexHoldAgain
<1>11. QED
  BY <1>2, <1>3, <1>4, <1>5, <1>6, <1>7, <1>8, <1>9, <1>10, AskStep DEF AskNext

(* A pack index that a standing seal lists is sound, and no URL outside Mend can
   make it anything else, as long as no call signs later than a binding's life
   after it started: SealRebound.cfg shows what such a step does (boundIndexHold,
   extendBoundIndex). *)
THEOREM IndexesStand ==
  ASSUME Seals!ConstantsAssumption
  PROVE  Seals!Spec /\ [][SignsInTime]_Seals!vars => []IndexesAreFixed
<1>1. Seals!Init => IndexInv
  <2>1. ASSUME Seals!Init PROVE OwnBindingInv
    BY <2>1 DEF Seals!Init, OwnBindingInv, OwnBinding, InFlight, Seals!IdleCall
  <2>2. ASSUME Seals!Init PROVE SealIndexInv
    BY <2>2 DEF Seals!Init, SealIndexInv, Seals!Live
  <2>3. ASSUME Seals!Init PROVE AskIndexInv
    BY <2>3 DEF Seals!Init, AskIndexInv, Seals!IdleAsk
  <2>4. QED BY <2>1, <2>2, <2>3 DEF IndexInv
<1>2. SealsInv /\ IndexInv /\ [Seals!Next]_Seals!vars /\ [SignsInTime]_Seals!vars => IndexInv'
  <2>1. SUFFICES ASSUME SealsInv, IndexInv, [Seals!Next]_Seals!vars, SignsInTime
                 PROVE  IndexInv'
    BY DEF SignsInTime, Seals!vars
  <2>2. OwnBindingInv'
    BY <2>1, OwnBindingStep DEF SealsInv, IndexInv, OwnBindingInv
  <2>3. QED BY <2>1, <2>2, SealIndexInductive, AskIndexInductive DEF IndexInv
<1>3. IndexInv /\ SealsInv => IndexesAreFixed
  <2>1. SUFFICES ASSUME IndexInv, NEW e \in Epoch, Seals!Stood(e),
                        NEW k \in Names[seal[e].capture] \cap Index
                 PROVE  Seals!IsFixed(k)
    BY SameSeals DEF Seals!IndexesAreFixed
  <2>2. KeptIndex(k)
    BY <2>1 DEF IndexInv, SealIndexInv, Seals!Stood, Indexes
  <2>3. QED BY <2>2 DEF KeptIndex, SettledIndex, Seals!IsFixed
<1>4. QED BY <1>1, <1>2, <1>3, SealsInvariance, PTL DEF Seals!Spec
================================================================================
