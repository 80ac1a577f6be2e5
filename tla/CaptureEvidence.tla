-------------------------- MODULE CaptureEvidence --------------------------
(***************************************************************************)
(* What an executor said of its unsaved work, and what Mend reads of it    *)
(* when the executor ends (packages/domain/src/workbench/capture-drain.ts, *)
(* the evidence of packages/db/src/repos/agent-sessions.ts, and the asks   *)
(* and decisions of packages/sessions/src/engine.ts).                      *)
(*                                                                         *)
(* Any session of an executor asks it for its capture status or a flush,   *)
(* several at once.  Each ask is fenced by a durable row, is answered late *)
(* or never, and its answer is published in one transaction that folds it  *)
(* into the executor's evidence and clears fences.  The daemon may restart *)
(* between answers, and so may the engine between any two steps.  A        *)
(* decision reads the evidence in several steps and says whether the       *)
(* executor's work was saved.                                              *)
(*                                                                         *)
(* An answer is known by its place in `made`, the executor's own history:  *)
(* that is its observation number within a boot, and the truth the code    *)
(* never sees beyond what `Before` compares.  One epoch and one launch:    *)
(* answers of another are ordered against nothing, as unstamped ones are.  *)
(***************************************************************************)
EXTENDS EvidenceState

vars == <<made, boot, asks, saved, kept, latest, seal, judge, end>>

Ask == [stage : {"idle", "asked", "answered", "published", "unpublished",
                 "unanswered"},
        answer : Nat, ticket : Nat,
        fence : {"none", "open", "unpublished"},
        ours : BOOLEAN]         \* whether the engine that opened it still runs

(* Steps of a decision, after the last of which it commits.                *)
Judge == [at : {"idle", "row", "answers", "settled", "judged", "decided"},
          latest : Nat, saved : Nat, kept : SUBSET (Nat \cup {Folded}),
          version : Nat, settled : BOOLEAN,
          kind : {"none", "unsaved", "saved", "unconfirmed", "lost"},
          over : SUBSET Nat]

Idle == [at |-> "idle", latest |-> NoAnswer, saved |-> NoAnswer, kept |-> {},
         version |-> 0, settled |-> FALSE, kind |-> "none", over |-> {}]

(* saveCoversUnsaved.                                                      *)
Covers(s, u) == Before(u, s)

(***************************************************************************)
(* The evidence: what publishing answer i makes of it (mergedEvidence).    *)
(***************************************************************************)
(* A variant that keeps the latest one alone.                              *)
WithUnsavedLatest(i) ==
  IF \E k \in kept : Before(i, k) THEN kept ELSE {i}

WithUnsaved(i) ==
  IF \E k \in kept : Before(i, k) THEN kept
  ELSE LET standing == {k \in kept : /\ ~Before(k, i) /\ k # i
                                     /\ Orderable(i) \/ Orderable(k)}
       IN IF Cardinality(standing) < UnsavedKept THEN standing \cup {i}
          ELSE {Folded}

Replaces(i) == saved = NoAnswer \/ ~Before(i, saved)

Version == Cardinality(Published)       \* every publication moves it by one
Settled == \A a \in Asks : asks[a].fence = "none"

(* Fences a publication of ask a deletes: its own, and every earlier one   *)
(* that is unpublished or another engine process opened.                   *)
Clears(a, b) ==
  \/ b = a
  \/ /\ asks[b].ticket < asks[a].ticket
     /\ asks[b].fence = "unpublished" \/ ~asks[b].ours

Init ==
  /\ made = <<>>
  /\ boot \in [number : {1}, generation : {IF p THEN 1 ELSE 0 : p \in Persisted}]
  /\ asks = [a \in Asks |-> [stage |-> "idle", answer |-> NoAnswer, ticket |-> 0,
                             fence |-> "none", ours |-> TRUE]]
  /\ saved = NoAnswer /\ kept = {} /\ latest = NoAnswer /\ seal = NoAnswer
  /\ judge = Idle
  /\ end = [kind |-> "none", save |-> NoAnswer, over |-> {}]

(* A decision changes nothing it reads, so a behaviour is followed up to   *)
(* the first that is committed.                                            *)
Open == end.kind = "none"

Make(kind) ==
  \E s \in Stamped :
    made' = Append(made, [kind |-> kind, boot |-> boot.number,
                          generation |-> boot.generation, stamped |-> s])

(***************************************************************************)
(* One ask (fencedObservation).                                            *)
(***************************************************************************)
OpenFence(a) ==
  /\ Open /\ asks[a].stage = "idle"
  /\ asks' = [asks EXCEPT ![a].stage = "asked", ![a].fence = "open",
                ![a].ticket = Cardinality({b \in Asks : asks[b].stage # "idle"}) + 1]
  /\ UNCHANGED <<made, boot, saved, kept, latest, seal, judge, end>>

Answer(a) ==
  /\ Open /\ asks[a].stage = "asked"
  /\ \E k \in Kinds : Make(k)
  /\ asks' = [asks EXCEPT ![a].stage = "answered", ![a].answer = Len(made) + 1]
  /\ UNCHANGED <<boot, saved, kept, latest, seal, judge, end>>

Publish(a) ==
  /\ Open /\ asks[a].stage = "answered"
  /\ LET i == asks[a].answer
     IN /\ saved' = IF made[i].kind = "saved" /\ Replaces(i) THEN i ELSE saved
        /\ kept' = IF Unsaved(i) THEN WithUnsaved(i) ELSE kept
        /\ latest' = i
  /\ asks' = [b \in Asks |->
       [asks[b] EXCEPT !.stage = IF b = a THEN "published" ELSE @,
                       !.fence = IF Clears(a, b) THEN "none" ELSE @]]
  /\ UNCHANGED <<made, boot, seal, judge, end>>

(* The publication failed; its fence is marked, or even that fails.        *)
Unpublished(a) ==
  /\ Open /\ asks[a].stage = "answered"
  /\ \E f \in {"open", "unpublished"} :
       asks' = [asks EXCEPT ![a].stage = "unpublished", ![a].fence = f]
  /\ UNCHANGED <<made, boot, saved, kept, latest, seal, judge, end>>

(* Refused, or timed out: nothing arrived, whatever the executor made.     *)
Unanswered(a) ==
  /\ Open /\ asks[a].stage = "asked"
  /\ \E f \in {"open", "none"} :
       asks' = [asks EXCEPT ![a].stage = "unanswered", ![a].fence = f]
  /\ UNCHANGED <<made, boot, saved, kept, latest, seal, judge, end>>

(* The engine process stops: its asks go, their fences stay.               *)
Restart ==
  /\ Open
  /\ \E a \in Asks : asks[a].fence # "none" /\ asks[a].ours
  /\ asks' = [a \in Asks |->
       [asks[a] EXCEPT
          !.stage = CASE @ = "asked" -> "unanswered"
                      [] @ = "answered" -> "unpublished"
                      [] OTHER -> @,
          !.ours = @ /\ asks[a].stage = "idle"]]
  /\ judge' = Idle
  /\ UNCHANGED <<made, boot, saved, kept, latest, seal, end>>

(***************************************************************************)
(* The executor.                                                           *)
(***************************************************************************)
Reboot ==
  /\ Open /\ boot.number < MaxBoots
  /\ \E p \in Persisted :
       boot' = [number |-> boot.number + 1,
                generation |-> IF p THEN boot.number + 1 ELSE 0]
  /\ UNCHANGED <<made, asks, saved, kept, latest, seal, judge, end>>

(* The executor seals its completed final flush, once, and the store       *)
(* records it.  Until then a decision sees no seal, as if none was made.   *)
RecordSeal ==
  /\ Open /\ seal = NoAnswer
  /\ Make("seal")
  /\ seal' = Len(made) + 1
  /\ UNCHANGED <<boot, asks, saved, kept, latest, judge, end>>

(***************************************************************************)
(* How an end reads (executorEndOf) from the answers kept, the seal, the   *)
(* session's reading and whether the evidence is settled.  The reading's   *)
(* queue is that of answer `was`, its position that of the answer on the   *)
(* row now: two reads.  Which of several saves is named is left open.      *)
(***************************************************************************)
Saves(kv) == {kv, seal} \ {NoAnswer}

Stated(us, was) ==
  us \cup (IF was # NoAnswer /\ made[was].kind = "pending" THEN {latest} ELSE {})

Covering(kv, us) == {s \in Saves(kv) : \A u \in us : Covers(s, u)}

Undecided(kv, us) == {s \in Saves(kv) : ~\E u \in us : Before(s, u)}

EndOf(kv, us, settled) ==
  IF Saves(kv) = {} THEN {[kind |-> "unsaved", save |-> NoAnswer]}
  ELSE IF ~settled THEN [kind : {"unconfirmed"}, save : Saves(kv)]
  ELSE IF Covering(kv, us) # {} THEN [kind : {"saved"}, save : Covering(kv, us)]
  ELSE IF Undecided(kv, us) # {}
    THEN [kind : {"unconfirmed"}, save : Undecided(kv, us)]
  ELSE [kind : {"lost"}, save : Saves(kv)]

(***************************************************************************)
(* A decision (executorEndOfSession, confirmedExecutorEnd): four reads;    *)
(* then only an end that reads saved is confirmed, under the permit that   *)
(* publications take; the commit comes after the permit is let go.         *)
(***************************************************************************)
(* What it came to, and what was published when it was weighed last.       *)
Decided(e, over) ==
  [Idle EXCEPT !.at = "decided", !.kind = e.kind, !.saved = e.save, !.over = over]

ReadRow ==
  /\ Open /\ judge.at = "idle"
  /\ judge' = [judge EXCEPT !.at = "row", !.latest = latest]
  /\ UNCHANGED <<made, boot, asks, saved, kept, latest, seal, end>>

ReadAnswers ==
  /\ Open /\ judge.at = "row"
  /\ judge' = [judge EXCEPT !.at = "answers", !.saved = saved, !.kept = kept,
                            !.version = Version]
  /\ UNCHANGED <<made, boot, asks, saved, kept, latest, seal, end>>

ReadSettled ==
  /\ Open /\ judge.at = "answers"
  /\ judge' = [judge EXCEPT !.at = "settled", !.settled = Settled]
  /\ UNCHANGED <<made, boot, asks, saved, kept, latest, seal, end>>

Read ==
  /\ Open /\ judge.at = "settled"
  /\ \E e \in EndOf(judge.saved, Stated(judge.kept, judge.latest), judge.settled) :
       judge' = IF e.kind = "saved"
                  THEN [judge EXCEPT !.at = "judged", !.saved = e.save]
                  ELSE Decided(e, {})
  /\ UNCHANGED <<made, boot, asks, saved, kept, latest, seal, end>>

(* The row is read again before the confirmation, where an agent's end is  *)
(* recorded (recordAgentEnd).                                              *)
Reread ==
  /\ Open /\ judge.at = "judged" /\ judge.latest # latest
  /\ judge' = [judge EXCEPT !.latest = latest]
  /\ UNCHANGED <<made, boot, asks, saved, kept, latest, seal, end>>

(* A variant that looks at the fences and not at the version.              *)
StillSettled == Settled

StillCurrent == Settled /\ Version = judge.version

Confirm ==
  /\ Open /\ judge.at = "judged"
  /\ \E e \in IF StillCurrent
             THEN {[kind |-> "saved", save |-> judge.saved]}
             ELSE EndOf(saved, Stated(kept, judge.latest), Settled) :
       judge' = Decided(e, Heard)
  /\ UNCHANGED <<made, boot, asks, saved, kept, latest, seal, end>>

(* The writes that say how the executor ended, which look at the evidence  *)
(* no more: the run's outcome, then the session's status and summary.      *)
Commit ==
  /\ Open /\ judge.at = "decided"
  /\ end' = [kind |-> judge.kind, save |-> judge.saved, over |-> judge.over]
  /\ judge' = Idle
  /\ UNCHANGED <<made, boot, asks, saved, kept, latest, seal>>

(* The attestation a stop carries (stopOptionsFor, executorSealOf): read,  *)
(* checked and sent under the permit.                                      *)
SealStands == Settled /\ \A u \in kept : Covers(seal, u)

Attest ==
  /\ Open /\ seal # NoAnswer
  /\ SealStands
  /\ end' = [kind |-> "attested", save |-> seal, over |-> Heard]
  /\ UNCHANGED <<made, boot, asks, saved, kept, latest, seal, judge>>

Next ==
  \/ \E a \in Asks : \/ OpenFence(a) \/ Answer(a) \/ Publish(a)
                     \/ Unpublished(a) \/ Unanswered(a)
  \/ Restart \/ Reboot \/ RecordSeal
  \/ ReadRow \/ ReadAnswers \/ ReadSettled \/ Read \/ Reread \/ Confirm \/ Commit
  \/ Attest

Spec == Init /\ [][Next]_vars

TypeOK ==
  /\ made \in Seq([kind : Kinds \cup {"seal"}, boot : Nat, generation : Nat,
                   stamped : BOOLEAN])
  /\ boot \in [number : Nat, generation : Nat]
  /\ asks \in [Asks -> Ask]
  /\ \A a \in Asks : asks[a].answer \in DOMAIN made \cup {NoAnswer}
  /\ saved \in DOMAIN made \cup {NoAnswer}
  /\ kept \subseteq DOMAIN made \cup {Folded}
  /\ latest \in DOMAIN made \cup {NoAnswer}
  /\ seal \in DOMAIN made \cup {NoAnswer}
  /\ judge \in Judge
  /\ end \in [kind : {"none", "unsaved"}, save : {NoAnswer}, over : SUBSET DOMAIN made]
       \cup [kind : {"saved", "attested", "unconfirmed", "lost"}, save : DOMAIN made,
             over : SUBSET DOMAIN made]
=============================================================================
