------------------------------ MODULE CaptureSeal ------------------------------
(***************************************************************************)
(* When a final seal stands, on a bucket that replaces an object under a   *)
(* conditional PUT (Garage): an upload URL handed out under any epoch the  *)
(* seal's objects live under could replace them until it expires.          *)
(*                                                                         *)
(* Callers ask for upload URLs (capture-channel.ts, uploadUrls), sealing   *)
(* registers record seals (capture-store.ts, recordSeal), readers ask      *)
(* whether a seal stands (capture-seals.ts, sealStandingOf); executors use *)
(* their URLs at any moment of their life.  What the three share is the    *)
(* database: authority, bound, seal, leased.  A call is for one key; that  *)
(* other keys of the same call may make it record write authority is its   *)
(* "unbound" field.                                                        *)
(*                                                                         *)
(* Time is in whole units, up to MaxTime.  A URL signed at t can still     *)
(* change the object until t + Ttl + Lag: Lag is how far the bucket's      *)
(* clock runs behind and how long a body that arrived in time takes.  The  *)
(* margin is for it, less the half that signing late may take.             *)
(***************************************************************************)
EXTENDS SealState, Integers, FiniteSets

ConstantsAssumption ==
  /\ Index \subseteq Key
  /\ Epoch \subseteq Nat \ {0}
  /\ None \notin Bytes /\ None \notin Capture
  /\ ScopeOf \in [Key -> Epoch]
  /\ Right \in [Key -> SUBSET Bytes]
  /\ \A k \in Key \ Index : \E b \in Bytes : Right[k] = {b}
  /\ EpochOf \in [Capture -> Epoch]
  /\ Nth \in [Capture -> Nat]
  /\ Names \in [Capture -> SUBSET Key]
  /\ Ttl \in Nat \ {0} /\ Margin \in Nat /\ Lag \in Nat /\ MaxTime \in Nat
  /\ 2 * Lag <= Margin

db == <<leased, authority, bound, seal>>
vars == <<now, leased, stored, urls, authority, bound, seal, proof, calls, asks, standing>>

MaxOf(a, b) == IF a >= b THEN a ELSE b
MinOf(a, b) == IF a <= b THEN a ELSE b

\* MUTANT of Scopes: the seal's own epoch alone, not those of inherited objects.
ScopesOwn(c) == {EpochOf[c]}

\* Every epoch a capture's objects live under (captureScopesOf).
Scopes(c) == {EpochOf[c]} \cup {ScopeOf[k] : k \in Names[c]}

\* The captures of live seals whose objects live under epoch e.
SealedOver(e) == {seal[f].capture : f \in {f \in Epoch : Live(f) /\ e \in Scopes(seal[f].capture)}}

\* The write authority recorded over the epochs a capture's objects live under.
AuthorityOver(c) == {authority[e] : e \in Scopes(c)}

\* The longest a URL bound to its bytes could be used.
BoundLife == Ttl + Margin

IdleCall == [at |-> "idle"]
IdleAsk == [at |-> "idle"]

Init ==
  /\ now = 0
  /\ leased \in Epoch /\ \A e \in Epoch : leased <= e
  /\ stored = [k \in Key |-> None]
  /\ urls = {}
  /\ authority = [e \in Epoch |-> 0]
  /\ bound = [k \in Index |-> [bytes |-> None, until |-> 0]]
  /\ seal = [e \in Epoch |-> [capture |-> None, reverified |-> -1, void |-> FALSE]]
  /\ proof = [k \in Key \ Index |-> -1]
  /\ calls = [c \in UrlCall |-> IdleCall]
  /\ asks = [a \in Ask |-> IdleAsk]
  /\ standing = [e \in Epoch |-> FALSE]

------------------------------------------------------------------------------
(* Upload URLs.                                                             *)

\* A call for one key of the held epoch.  A launch that reads "present" may
\* also send the checksum its bytes will have: the URL is then bound to it.
\* A named key's checksum is in its name; an index's is the one declared.
Request(c) ==
  /\ calls[c].at = "idle"
  /\ \E k \in {k \in Key : ScopeOf[k] = leased}, present \in BOOLEAN,
        said \in Bytes \cup {None}, unbound \in BOOLEAN :
       /\ said # None => present /\ (k \notin Index => said \in Right[k])
       /\ said = None => unbound
       /\ calls' = [calls EXCEPT ![c] =
            [at |-> "head", key |-> k, epoch |-> leased, present |-> present, said |-> said,
             unbound |-> unbound, legacy |-> FALSE, checked |-> {}, seen |-> {},
             started |-> now, recorded |-> 0, expires |-> 0]]
  /\ UNCHANGED <<now, stored, urls, proof, asks, standing>> /\ UNCHANGED db

\* A call ends: answered present, refused, or failed; no URL leaves.
Ended(c) == calls' = [calls EXCEPT ![c] = IdleCall]

Goes(c, to) == calls' = [calls EXCEPT ![c].at = to]

\* An object is read against its name; of an index no proof is kept.
Verified(k) ==
  proof' = IF IsRight(k) /\ k \notin Index THEN [proof EXCEPT ![k] = now] ELSE proof

\* A call that declared the bytes of an index reserves the binding first.
Reserves(c) == calls[c].said # None /\ calls[c].key \in Index

\* The first HEAD.  A stored key is verified, then answered present, or (a
\* launch that does not read that) given the legacy write-once URL.
Head(c) ==
  /\ calls[c].at = "head"
  /\ LET k == calls[c].key
     IN  IF stored[k] = None
         THEN /\ Goes(c, IF Reserves(c) THEN "reserve" ELSE "record")
              /\ UNCHANGED proof
         ELSE /\ Verified(k)
              /\ IF IsRight(k) /\ ~calls[c].present
                 THEN calls' = [calls EXCEPT ![c].at = "record", ![c].legacy = TRUE]
                 ELSE Ended(c)
  /\ UNCHANGED <<now, stored, urls, asks, standing>> /\ UNCHANGED db

\* The row a reservation writes: never shortened for the same bytes.
Bound(row, b, until) ==
  [bytes |-> b, until |-> IF row.bytes = b THEN MaxOf(row.until, until) ELSE until]

\* reserveBoundIndex: refused while a binding to other bytes lives, judged by
\* when the call started.
Reserve(c) ==
  /\ calls[c].at = "reserve"
  /\ LET k == calls[c].key
         row == bound[k]
     IN  IF row.until > calls[c].started /\ row.bytes # calls[c].said
         THEN Ended(c) /\ UNCHANGED bound
         ELSE /\ bound' = [bound EXCEPT ![k] = Bound(row, calls[c].said, now + BoundLife)]
              /\ Goes(c, "rehead")
  /\ UNCHANGED <<now, leased, stored, urls, authority, seal, proof, asks, standing>>

\* MUTANT of ReHead: the bucket is not asked again.
ReHeadNever(c) ==
  /\ calls[c].at = "rehead"
  /\ Goes(c, "record") /\ UNCHANGED proof
  /\ UNCHANGED <<now, stored, urls, asks, standing>> /\ UNCHANGED db

\* The bucket asked again once the binding is in place: an index stored
\* meanwhile gets no URL, and its binding stays.
ReHead(c) ==
  /\ calls[c].at = "rehead"
  /\ LET k == calls[c].key
     IN  IF stored[k] # None
         THEN Ended(c) /\ Verified(k)
         ELSE Goes(c, "record") /\ UNCHANGED proof
  /\ UNCHANGED <<now, stored, urls, asks, standing>> /\ UNCHANGED db

\* The seals a call has not checked its keys against.
Unchecked(c) == SealedOver(calls[c].epoch) \ calls[c].checked

\* recordPutAuthority, or recordUploadWindow for a call with nothing unbound:
\* only under the call's own lease, and against no seal it has not checked.
Record(c) ==
  /\ calls[c].at = "record"
  /\ LET e == calls[c].epoch
     IN  \/ /\ leased # e
            /\ Ended(c)
            /\ UNCHANGED authority
         \/ /\ leased = e
            /\ calls[c].unbound /\ Unchecked(c) # {}
            /\ calls' = [calls EXCEPT ![c].at = "again", ![c].seen = SealedOver(e)]
            /\ UNCHANGED authority
         \/ /\ leased = e
            /\ ~calls[c].unbound \/ Unchecked(c) = {}
            /\ calls' = [calls EXCEPT ![c].at = "sign", ![c].recorded = now]
            /\ authority' = IF calls[c].unbound
                            THEN [authority EXCEPT ![e] = MaxOf(@, now + Ttl + Margin)]
                            ELSE authority
  /\ UNCHANGED <<now, leased, stored, urls, bound, seal, proof, asks, standing>>

\* The HEAD after the seals were seen: a stored key gets no URL, whoever asks.
Again(c) ==
  /\ calls[c].at = "again"
  /\ IF stored[calls[c].key] # None
     THEN Ended(c) /\ Verified(calls[c].key)
     ELSE /\ calls' = [calls EXCEPT ![c].at = "record", ![c].checked = calls[c].seen,
                                   ![c].seen = {}]
          /\ UNCHANGED proof
  /\ UNCHANGED <<now, stored, urls, asks, standing>> /\ UNCHANGED db

\* MUTANT of SignedLate: however long signing took, the URL leaves.
SignedLateNever(c) == FALSE

\* Signing took too long since the record: no URL leaves.
SignedLate(c) == 2 * (now - calls[c].recorded) > Margin

\* extendBoundIndex: the binding an index URL was signed under is still there.
Extends(c) ==
  /\ bound[calls[c].key].bytes = calls[c].said
  /\ bound[calls[c].key].until > now

\* The URL is signed; the binding of an index lasts at least as long.
Sign(c) ==
  /\ calls[c].at = "sign"
  /\ \/ /\ SignedLate(c) \/ (Reserves(c) /\ ~Extends(c))
        /\ Ended(c)
        /\ UNCHANGED bound
     \/ /\ ~SignedLate(c) /\ (Reserves(c) => Extends(c))
        /\ calls' = [calls EXCEPT ![c].at = "publish", ![c].expires = now + Ttl + Lag]
        /\ bound' = IF Reserves(c)
                    THEN [bound EXCEPT ![calls[c].key].until = MaxOf(@, now + BoundLife)]
                    ELSE bound
  /\ UNCHANGED <<now, leased, stored, urls, authority, seal, proof, asks, standing>>

\* What a call's URL may write: the bytes it is bound to, or anything.
Writes(c) == IF calls[c].said # None THEN {calls[c].said} ELSE Bytes

\* withCurrentLease: the URL leaves only under the call's own lease.
Publish(c) ==
  /\ calls[c].at = "publish"
  /\ urls' = IF leased = calls[c].epoch /\ calls[c].expires > now
             THEN urls \cup {[key |-> calls[c].key, writes |-> Writes(c),
                              until |-> calls[c].expires]}
             ELSE urls
  /\ Ended(c)
  /\ UNCHANGED <<now, stored, proof, asks, standing>> /\ UNCHANGED db

\* An executor, or whoever holds the URL, uses it.  The bucket replaces.
Upload ==
  /\ \E u \in urls : \E b \in u.writes : stored' = [stored EXCEPT ![u.key] = b]
  /\ UNCHANGED <<now, urls, proof, calls, asks, standing>> /\ UNCHANGED db

------------------------------------------------------------------------------
(* Seals.                                                                   *)

\* recordSeal.  Every object was stored when the capture registered; what it
\* holds is read back when the seal is asked for.
RecordSeal(c) ==
  LET e == EpochOf[c]
  IN  /\ leased = e
      /\ \A k \in Names[c] : stored[k] # None
      /\ seal[e].capture # None => Nth[seal[e].capture] < Nth[c]
      /\ seal' = [seal EXCEPT ![e] = [capture |-> c, reverified |-> -1, void |-> FALSE]]
      /\ standing' = [standing EXCEPT ![e] = FALSE]
      /\ UNCHANGED <<now, leased, stored, urls, authority, bound, proof, calls, asks>>

\* A key read whole by a register's checks, or any other reader here.
ReadWhole(k) ==
  /\ IsRight(k) /\ k \notin Index
  /\ proof' = [proof EXCEPT ![k] = now]
  /\ UNCHANGED <<now, stored, urls, calls, asks, standing>> /\ UNCHANGED db

\* sealStandingOf begins with the row it was given.
AskSeal(a, e) ==
  /\ asks[a].at = "idle" /\ Live(e)
  /\ asks' = [asks EXCEPT ![a] =
       [at |-> "until", epoch |-> e, capture |-> seal[e].capture,
        reverified |-> seal[e].reverified, until |-> 0, when |-> 0, left |-> {}]]
  /\ UNCHANGED <<now, stored, urls, proof, calls, standing>> /\ UNCHANGED db

\* The latest of sealAuthorityOver, then the clock.
AskUntil(a) ==
  /\ asks[a].at = "until"
  /\ \E t \in AuthorityOver(asks[a].capture) :
       /\ \A u \in AuthorityOver(asks[a].capture) : u <= t
       /\ asks' = [asks EXCEPT ![a].at = "hold", ![a].when = now, ![a].until = t]
  /\ UNCHANGED <<now, stored, urls, proof, calls, standing>> /\ UNCHANGED db

\* boundIndexHold: a binding live at t names other bytes for a listed index.
BoundHold(c, t) ==
  \E k \in Names[c] \cap Index : bound[k].until > t /\ bound[k].bytes # stored[k]

AskEnds(a) == asks' = [asks EXCEPT ![a] = IdleAsk]

\* The reader is told the seal stands; what it says is of this capture's seal.
Stands(a) ==
  standing' = [standing EXCEPT ![asks[a].epoch] =
                 @ \/ (Live(asks[a].epoch) /\ seal[asks[a].epoch].capture = asks[a].capture)]

\* One read-back per seal and the authority it waited out (readBacks): a later
\* reader of the same takes its answer.
Joined(a) ==
  \E r \in Ask : /\ asks[r].at \in {"wait", "read", "void", "again", "mark"}
                 /\ asks[r].epoch = asks[a].epoch
                 /\ asks[r].capture = asks[a].capture /\ asks[r].until = asks[a].until

\* Withheld while a URL could be used; standing when re-verified since; else
\* every object is read back.
AskHold(a) ==
  /\ asks[a].at = "hold"
  /\ LET s == asks[a]
     IN  \/ /\ BoundHold(s.capture, s.when) \/ s.when < s.until
            /\ AskEnds(a) /\ UNCHANGED standing
         \/ /\ ~BoundHold(s.capture, s.when) /\ s.when >= s.until
            /\ IF s.reverified >= s.until
               THEN AskEnds(a) /\ Stands(a)
               ELSE /\ IF Joined(a)
                       THEN AskEnds(a)
                       ELSE asks' = [asks EXCEPT ![a].at = "wait", ![a].left = Names[s.capture]]
                    /\ UNCHANGED standing
  /\ UNCHANGED <<now, stored, urls, proof, calls>> /\ UNCHANGED db

\* One read-back at a time in this process (sealVerifications).
Permit(a) ==
  /\ asks[a].at = "wait"
  /\ \A r \in Ask : asks[r].at # "read"
  /\ asks' = [asks EXCEPT ![a].at = IF asks[a].left = {} THEN "again" ELSE "read"]
  /\ UNCHANGED <<now, stored, urls, proof, calls, standing>> /\ UNCHANGED db

\* voidSeal, when the row is still this capture's.
Voided(a) ==
  seal' = IF seal[asks[a].epoch].capture = asks[a].capture
          THEN [seal EXCEPT ![asks[a].epoch].void = TRUE] ELSE seal

Void(a) ==
  /\ asks[a].at = "void"
  /\ Voided(a) /\ AskEnds(a)
  /\ UNCHANGED <<now, leased, stored, urls, authority, bound, proof, calls, standing>>

\* What a named key was read as since nothing could replace it is not read
\* again; the answer then rests on that earlier read.
Reuses(a, k) == k \notin Index /\ proof[k] >= asks[a].until

\* A read-back goes on to its next object, or is through with them.
ReadOn(a, k, when) ==
  [asks[a] EXCEPT !.left = @ \ {k}, !.when = when,
                  !.at = IF asks[a].left = {k} THEN "again" ELSE "read"]

\* storedCaptureProblem, one object: other bytes void the seal for good.
AskRead(a, k) ==
  /\ asks[a].at = "read" /\ k \in asks[a].left
  /\ \/ /\ Reuses(a, k)
        /\ asks' = [asks EXCEPT ![a] = ReadOn(a, k, MinOf(asks[a].when, proof[k]))]
        /\ UNCHANGED proof
     \/ /\ ~Reuses(a, k)
        /\ Verified(k)
        /\ asks' = IF IsRight(k)
                   THEN [asks EXCEPT ![a] = ReadOn(a, k, asks[a].when)]
                   ELSE [asks EXCEPT ![a].at = "void"]
  /\ UNCHANGED <<now, stored, urls, calls, standing>> /\ UNCHANGED db

\* The store did not answer, or not in time: nothing is concluded.
AskFails(a) ==
  /\ asks[a].at = "read" /\ AskEnds(a)
  /\ UNCHANGED <<now, stored, urls, proof, calls, standing>> /\ UNCHANGED db

\* The bindings once more, after the reads.
AskHoldAgain(a) ==
  /\ asks[a].at = "again"
  /\ IF BoundHold(asks[a].capture, now)
     THEN AskEnds(a)
     ELSE asks' = [asks EXCEPT ![a].at = "mark"]
  /\ UNCHANGED <<now, stored, urls, proof, calls, standing>> /\ UNCHANGED db

\* What the mark is refused over: authority past the earliest read it rests on.
MarkHolds(a) ==
  LET s == asks[a]
  IN  /\ Live(s.epoch) /\ seal[s.epoch].capture = s.capture
      /\ \A u \in AuthorityOver(s.capture) : u <= s.when

\* markSealReverified.
Mark(a) ==
  /\ asks[a].at = "mark"
  /\ IF MarkHolds(a)
     THEN /\ seal' = [seal EXCEPT ![asks[a].epoch].reverified = MaxOf(@, asks[a].when)]
          /\ Stands(a)
     ELSE UNCHANGED <<seal, standing>>
  /\ AskEnds(a)
  /\ UNCHANGED <<now, leased, stored, urls, authority, bound, proof, calls>>

------------------------------------------------------------------------------
\* Another launch claims the lease: the next epoch.
Claim ==
  /\ \E e \in Epoch : e = leased + 1 /\ leased' = e
  /\ UNCHANGED <<now, stored, urls, authority, bound, seal, proof, calls, asks, standing>>

\* A unit of time passes; the URLs it ends can change nothing any more.
Tick ==
  /\ now < MaxTime
  /\ now' = now + 1
  /\ urls' = {u \in urls : u.until > now'}
  /\ UNCHANGED <<stored, proof, calls, asks, standing>> /\ UNCHANGED db

\* The server restarts: what it knew in memory is gone, the rows stay.
Restart ==
  /\ calls' = [c \in UrlCall |-> IdleCall]
  /\ asks' = [a \in Ask |-> IdleAsk]
  /\ proof' = [k \in Key \ Index |-> -1]
  /\ UNCHANGED <<now, stored, urls, standing>> /\ UNCHANGED db

Next ==
  \/ \E c \in UrlCall : \/ Request(c) \/ Head(c) \/ Reserve(c) \/ ReHead(c) \/ Record(c)
                     \/ Again(c) \/ Sign(c) \/ Publish(c)
  \/ Upload
  \/ \E c \in Capture : RecordSeal(c)
  \/ \E k \in Key : ReadWhole(k)
  \/ \E a \in Ask : \/ \E e \in Epoch : AskSeal(a, e)
                    \/ \E k \in Key : AskRead(a, k)
                    \/ AskUntil(a) \/ AskHold(a) \/ Permit(a) \/ AskFails(a)
                    \/ AskHoldAgain(a) \/ Void(a) \/ Mark(a)
  \/ Claim \/ Tick \/ Restart

Spec == Init /\ [][Next]_vars

------------------------------------------------------------------------------
(* Properties.                                                              *)

\* A call, and a read of a seal, in flight.
CallInFlight ==
  [at : {"head", "reserve", "rehead", "record", "again", "sign", "publish"},
   key : Key, epoch : Epoch, present : BOOLEAN, said : Bytes \cup {None},
   unbound : BOOLEAN, legacy : BOOLEAN, checked : SUBSET Capture, seen : SUBSET Capture,
   started : 0..now, recorded : 0..now, expires : 0..(now + Ttl + Lag)]

AskInFlight ==
  [at : {"until", "hold", "wait", "read", "void", "again", "mark"},
   epoch : Epoch, capture : Capture, reverified : (-1)..now,
   until : 0..(now + Ttl + Margin), when : 0..now, left : SUBSET Key]

\* Every variable keeps its type; no record of a URL outlives what it can be.
TypeOK ==
  /\ now \in 0..MaxTime /\ leased \in Epoch
  /\ stored \in [Key -> Bytes \cup {None}]
  /\ urls \subseteq [key : Key, writes : SUBSET Bytes, until : (now + 1)..(now + Ttl + Lag)]
  /\ authority \in [Epoch -> 0..(now + Ttl + Margin)]
  /\ bound \in [Index -> [bytes : Bytes \cup {None}, until : 0..(now + BoundLife)]]
  /\ seal \in [Epoch -> [capture : Capture \cup {None}, reverified : (-1)..now,
                         void : BOOLEAN]]
  /\ proof \in [Key \ Index -> (-1)..now]
  /\ calls \in [UrlCall -> CallInFlight \cup {IdleCall}]
  /\ asks \in [Ask -> AskInFlight \cup {IdleAsk}]
  /\ standing \in [Epoch -> BOOLEAN]
==============================================================================
