---------------------------- MODULE PickupTickets ----------------------------
(***************************************************************************)
(* How a secret reaches a workspace: a ticket in an exec's arguments, which *)
(* the exec redeems over its channel (packages/sessions/src/                *)
(* pickup-tickets.ts, write-tokens.ts; mintIdentityTicket, endWriteToken,   *)
(* discardPickup and redeemPickup of packages/sessions/src/engine.ts).      *)
(*                                                                          *)
(* A Plain ticket carries files; an Identity ticket makes a person's token  *)
(* when it is redeemed, and answers a retry of the same channel alike; a    *)
(* Write ticket makes a token of its own that ends with its write.  Requests*)
(* present tickets, in any number and through any channel: an exec retries  *)
(* what timed out, and a ticket in an argument may be read by others.  Each *)
(* asks once, and a token is named by the request it was issued in.         *)
(*                                                                          *)
(* A step runs until the next answer of the store.  Time passes freely:     *)
(* tickets and answers expire, and tokens of writes lapse in the store.     *)
(***************************************************************************)
EXTENDS PickupState

memory == <<minted, held, spent, dropped, over, making, answers>>
store == <<writes, handed, valid, lapsed, revoking, pending, sweeping, strayed>>
vars == <<memory, store, req>>

Stages == {"idle", "asking", "issuing", "waiting", "answered", "failed", "revoking", "over"}

Requests == [at : Stages, ticket : Ticket \cup {Nobody}, channel : Channel \cup {Nobody},
             on : Request \cup {Nobody}, got : Request \cup {Nobody}]

TypeOK ==
  /\ minted \in SUBSET Ticket /\ held \in SUBSET minted /\ over \in SUBSET minted
  /\ spent \in SUBSET (minted \ held) /\ dropped \in SUBSET spent
  /\ making \in [Identity -> Request \cup {Nobody}]
  /\ answers \in [Identity -> Request \cup {Nobody}]
  /\ writes \in [Write -> {"none", "open", "minting", "handed", "doomed"}]
  /\ handed \in [Write -> Request \cup {Nobody}]
  /\ valid \in SUBSET Request /\ lapsed \in SUBSET Request /\ revoking \in SUBSET Request
  /\ pending \in SUBSET Request /\ sweeping \in BOOLEAN /\ strayed \in SUBSET Request
  /\ req \in [Request -> Requests]

Init ==
  /\ minted = {} /\ held = {} /\ spent = {} /\ dropped = {} /\ over = {}
  /\ making = [t \in Identity |-> Nobody] /\ answers = [t \in Identity |-> Nobody]
  /\ writes = [w \in Write |-> "none"] /\ handed = [w \in Write |-> Nobody]
  /\ valid = {} /\ lapsed = {} /\ revoking = {} /\ pending = {} /\ sweeping = FALSE
  /\ strayed = {}
  /\ req = [r \in Request |->
              [at |-> "idle", ticket |-> Nobody, channel |-> Nobody, on |-> Nobody, got |-> Nobody]]

-----------------------------------------------------------------------------
(* Minting a ticket; a write's is tracked at once (mint, mintWriteTokenTicket). *)
Mint(t) ==
  /\ t \notin minted
  /\ minted' = minted \cup {t} /\ held' = held \cup {t}
  /\ writes' = IF t \in Write THEN [writes EXCEPT ![t] = "open"] ELSE writes
  /\ UNCHANGED <<spent, dropped, over, making, answers, handed, valid, lapsed, revoking, pending,
                 sweeping, strayed, req>>

(* What follows a ticket taken through a channel that may redeem it: the files
   are answered, an identity or a write's token is asked of the store. *)
BeginMint(w) == writes[w] = "open"

Fulfil(r, p) ==
  \/ /\ p.ticket \in Plain
     /\ req' = [req EXCEPT ![r] = [p EXCEPT !.at = "over", !.got = r]]
     /\ UNCHANGED <<making, writes>>
  \/ /\ p.ticket \in Identity
     /\ making' = [making EXCEPT ![p.ticket] = r]
     /\ req' = [req EXCEPT ![r] = [p EXCEPT !.at = "issuing"]]
     /\ UNCHANGED writes
  \/ /\ p.ticket \in Write /\ BeginMint(p.ticket)
     /\ writes' = [writes EXCEPT ![p.ticket] = "minting"]
     /\ req' = [req EXCEPT ![r] = [p EXCEPT !.at = "issuing"]]
     /\ UNCHANGED making
  \/ /\ p.ticket \in Write /\ ~BeginMint(p.ticket)
     /\ req' = [req EXCEPT ![r] = [p EXCEPT !.at = "over"]]
     /\ UNCHANGED <<making, writes>>

(* take: the entry of a ticket held, once.  A variant that leaves it. *)
TakeLeaves(t) == UNCHANGED held /\ spent' = spent \cup {t}

Take(t) == held' = held \ {t} /\ spent' = spent \cup {t}

(* The request a spent ticket's answer is being made in, and the one it was
   answered in, for those who ask through the same channel; and a variant that
   answers anyone. *)
MakingFor(p) ==
  {m \in Request : p.ticket \in Identity /\ m = making[p.ticket] /\ req[m].channel = p.channel}
KeptForAny(p) == {k \in Request : p.ticket \in Identity /\ k = answers[p.ticket]}

KeptFor(p) ==
  {k \in Request : p.ticket \in Identity /\ k = answers[p.ticket] /\ req[k].channel = p.channel}

(* redeemPickup, to its first wait; p is what request r presents. *)
Redeem(r, p) ==
  /\ \/ /\ p.ticket \in held /\ Take(p.ticket)
        /\ \/ Fits[p.ticket][p.channel] = "yes" /\ Fulfil(r, p)
           \/ /\ Fits[p.ticket][p.channel] = "ask"
              /\ req' = [req EXCEPT ![r] = [p EXCEPT !.at = "asking"]]
              /\ UNCHANGED <<making, writes>>
           \/ /\ Fits[p.ticket][p.channel] = "no"
              /\ req' = [req EXCEPT ![r] = [p EXCEPT !.at = "over"]]
              /\ UNCHANGED <<making, writes>>
     \/ /\ p.ticket \in spent /\ UNCHANGED <<held, spent, making, writes>>
        /\ \/ \E m \in MakingFor(p) :
                req' = [req EXCEPT ![r] = [p EXCEPT !.at = "waiting", !.on = m]]
           \/ /\ MakingFor(p) = {}
              /\ \E k \in KeptFor(p) :
                   req' = [req EXCEPT ![r] = [p EXCEPT !.at = "over", !.got = k]]
           \/ /\ MakingFor(p) = {} /\ KeptFor(p) = {}
              /\ req' = [req EXCEPT ![r] = [p EXCEPT !.at = "over"]]
     \/ /\ p.ticket \notin held \cup spent
        /\ req' = [req EXCEPT ![r] = [p EXCEPT !.at = "over"]]
        /\ UNCHANGED <<held, spent, making, writes>>
  /\ UNCHANGED <<minted, dropped, over, answers, handed, valid, lapsed, revoking, pending,
                 sweeping, strayed>>

Present(r, t, c) ==
  /\ req[r].at = "idle"
  /\ Redeem(r, [req[r] EXCEPT !.ticket = t, !.channel = c])

(* The session of a channel that names no launch was read: it is of the
   ticket's worktree and owner, or not, or could not be read. *)
Asked(r) ==
  /\ req[r].at = "asking"
  /\ \/ Fulfil(r, req[r])
     \/ /\ req' = [req EXCEPT ![r].at = "over"]
        /\ UNCHANGED <<making, writes>>
  /\ UNCHANGED <<minted, held, spent, dropped, over, answers, handed, valid, lapsed, revoking,
                 pending, sweeping, strayed>>

-----------------------------------------------------------------------------
(* Whether a write is still open when its token is there; a variant that does
   not look. *)
StillOpenAlways(w) == writes[w] \in {"minting", "doomed"}

StillOpen(w) == writes[w] = "minting"

(* The store inserted the token: the answer of an identity is kept for a minute;
   a write's token is the write's, or revoked now if the write ended (minted). *)
Issued(r) ==
  /\ req[r].at = "issuing"
  /\ valid' = valid \cup {r}
  /\ LET t == req[r].ticket IN
     \/ /\ t \in Identity
        /\ answers' = [answers EXCEPT ![t] = r]
        /\ req' = [req EXCEPT ![r].at = "answered", ![r].got = r]
        /\ UNCHANGED <<writes, handed, revoking>>
     \/ /\ t \in Write /\ StillOpen(t)
        /\ writes' = [writes EXCEPT ![t] = "handed"] /\ handed' = [handed EXCEPT ![t] = r]
        /\ req' = [req EXCEPT ![r].at = "over", ![r].got = r]
        /\ UNCHANGED <<answers, revoking>>
     \/ /\ t \in Write /\ ~StillOpen(t)
        /\ writes' = [writes EXCEPT ![t] = "none"] /\ revoking' = revoking \cup {r}
        /\ req' = [req EXCEPT ![r].at = "revoking"]
        /\ UNCHANGED <<answers, handed>>
  /\ UNCHANGED <<minted, held, spent, dropped, over, making, lapsed, pending, sweeping, strayed>>

(* restore: a ticket whose answer could not be made goes back, while its
   tombstone stands and nobody discarded it; a variant that does not ask. *)
CanRestoreAny(t) == t \in spent

CanRestore(t) == t \in spent \ dropped

(* The store failed, before or after the insert was made. *)
IssueFailed(r) ==
  /\ req[r].at = "issuing"
  /\ \/ UNCHANGED <<valid, strayed>>
     \/ valid' = valid \cup {r} /\ strayed' = strayed \cup {r}
  /\ LET t == req[r].ticket IN
     \/ /\ t \in Identity
        /\ IF CanRestore(t)
           THEN held' = held \cup {t} /\ spent' = spent \ {t} /\ dropped' = dropped \ {t}
           ELSE UNCHANGED <<held, spent, dropped>>
        /\ req' = [req EXCEPT ![r].at = "failed"]
        /\ UNCHANGED writes
     \/ /\ t \in Write
        /\ writes' = [writes EXCEPT ![t] = IF @ = "doomed" THEN "none" ELSE "open"]
        /\ req' = [req EXCEPT ![r].at = "over"]
        /\ UNCHANGED <<held, spent, dropped>>
  /\ UNCHANGED <<minted, over, making, answers, handed, lapsed, revoking, pending, sweeping>>

(* An identity's answer, or its failure, was told to those who wait for it: its
   entry goes, whoever's it is by then. *)
Cleared(r) ==
  /\ req[r].at \in {"answered", "failed"}
  /\ making' = [making EXCEPT ![req[r].ticket] = Nobody]
  /\ req' = [req EXCEPT ![r].at = "over"]
  /\ UNCHANGED <<minted, held, spent, dropped, over, answers, store>>

(* One who waits gets the answer, or redeems the ticket anew. *)
Woken(r) ==
  /\ req[r].at = "waiting"
  /\ LET m == req[r].on IN
     \/ /\ req[m].at \in {"answered", "over"} /\ req[m].got # Nobody
        /\ req' = [req EXCEPT ![r].at = "over", ![r].got = req[m].got]
        /\ UNCHANGED <<memory, store>>
     \/ /\ req[m].at \in {"failed", "over"} /\ req[m].got = Nobody
        /\ Redeem(r, [req[r] EXCEPT !.on = Nobody])

(* The redemption of a write that ended meanwhile is answered once the tries to
   revoke its token are over. *)
Replied(r) ==
  /\ req[r].at = "revoking" /\ r \notin revoking
  /\ req' = [req EXCEPT ![r].at = "over", ![r].got = r]
  /\ UNCHANGED <<memory, store>>

-----------------------------------------------------------------------------
(* The exec that carried a ticket ended (discardPickup), and a write its
   (endWriteToken): its entry goes unless its mint is in flight. *)
End(t) ==
  /\ t \in minted \ over
  /\ over' = over \cup {t}
  /\ held' = held \ {t}
  /\ dropped' = dropped \cup ({t} \cap spent)
  /\ answers' = IF t \in Identity THEN [answers EXCEPT ![t] = Nobody] ELSE answers
  /\ IF t \in Write
     THEN /\ writes' = [writes EXCEPT ![t] = IF @ = "minting" THEN "doomed" ELSE "none"]
          /\ revoking' = revoking \cup ({handed[t]} \ {Nobody})
          /\ handed' = [handed EXCEPT ![t] = Nobody]
     ELSE UNCHANGED <<writes, revoking, handed>>
  /\ UNCHANGED <<minted, spent, making, valid, lapsed, pending, sweeping, strayed, req>>

(* prune: what is kept for the sweep, lapsed tokens gone and no more than
   maxPending; which of the rest go is left open. *)
Pruned(tokens) ==
  LET left == tokens \ lapsed IN
  IF Cardinality(left) <= MaxPending
  THEN {left} ELSE {p \in SUBSET left : Cardinality(p) = MaxPending}

(* revokeReliably: a try that the store answers, one whose answer is lost, or
   the last of them: the token is kept for the sweep. *)
Revoked(r) ==
  /\ r \in revoking
  /\ valid' = valid \ {r} /\ revoking' = revoking \ {r}
  /\ UNCHANGED <<memory, writes, handed, lapsed, pending, sweeping, strayed, req>>

GaveUp(r) ==
  /\ r \in revoking /\ revoking' = revoking \ {r}
  /\ valid' \in {valid, valid \ {r}}
  /\ pending' \in Pruned(pending \cup {r})
  /\ strayed' = strayed \cup ((pending \cup {r}) \ (pending' \cup lapsed))
  /\ sweeping' = (sweeping \/ pending' # {})
  /\ UNCHANGED <<memory, writes, handed, lapsed, req>>

(* The sweep: what lapsed is forgotten, and each of the others tried; it ends
   when nothing is left, and in a variant after one of them. *)
SweepsOnce(p) == FALSE

SweepsOn(p) == p # {}

Pruning ==
  /\ sweeping /\ pending' \in Pruned(pending)
  /\ sweeping' = SweepsOn(pending')
  /\ UNCHANGED <<memory, writes, handed, valid, lapsed, revoking, strayed, req>>

Swept(r) ==
  /\ sweeping /\ r \in pending
  /\ valid' = valid \ {r}
  /\ pending' \in {pending, pending \ {r}}
  /\ sweeping' = SweepsOn(pending')
  /\ UNCHANGED <<memory, writes, handed, lapsed, revoking, strayed, req>>

(* A write's token passes its age, ten minutes pass over a ticket or its
   tombstone, and a minute over an identity's answer. *)
Lapse(r) ==
  /\ r \in valid /\ req[r].ticket \in Write
  /\ valid' = valid \ {r} /\ lapsed' = lapsed \cup {r}
  /\ UNCHANGED <<memory, writes, handed, revoking, pending, sweeping, strayed, req>>

Expire(t) ==
  /\ t \in held \cup spent
  /\ held' = held \ {t} /\ spent' = spent \ {t} /\ dropped' = dropped \ {t}
  /\ UNCHANGED <<minted, over, making, answers, store, req>>

Forget(t) ==
  /\ answers[t] # Nobody /\ answers' = [answers EXCEPT ![t] = Nobody]
  /\ UNCHANGED <<minted, held, spent, dropped, over, making, store, req>>

Next ==
  \/ \E t \in Ticket : Mint(t) \/ End(t) \/ Expire(t)
  \/ \E t \in Identity : Forget(t)
  \/ \E r \in Request, t \in Ticket, c \in Channel : Present(r, t, c)
  \/ \E r \in Request : \/ Asked(r) \/ Issued(r) \/ IssueFailed(r) \/ Cleared(r) \/ Woken(r)
                        \/ Replied(r) \/ Revoked(r) \/ GaveUp(r) \/ Swept(r) \/ Lapse(r)
  \/ Pruning

Spec == Init /\ [][Next]_vars
=============================================================================
