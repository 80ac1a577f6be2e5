--------------------------- MODULE EvidenceState ---------------------------
(* The state of what an executor said of its unsaved work, the order over its  *)
(* answers, and what is promised of them; CaptureEvidence says what happens to *)
(* it (packages/domain/src/workbench/capture-drain.ts).                        *)
EXTENDS Integers, Sequences, FiniteSets

CONSTANTS
  Asks,         \* the times Mend asks the executor, by whichever session
  Kinds,        \* what an answer may say: "saved", "pending", "changed", "clean"
  Persisted,    \* whether a boot may persist its generation: a set of Booleans
  Stamped,      \* whether an answer may carry its position: a set of Booleans
  MaxBoots,     \* a bound on the daemon's boots
  UnsavedKept   \* CAPTURE_UNSAVED_ANSWERS_KEPT: unsaved answers kept apart

ASSUME EvidenceAssumption ==
  /\ Kinds \subseteq {"saved", "pending", "changed", "clean"}
  /\ Persisted \subseteq BOOLEAN
  /\ Stamped \subseteq BOOLEAN
  /\ MaxBoots \in Nat
  /\ UnsavedKept \in Nat \ {0}
  /\ IsFiniteSet(Asks)

NoAnswer == 0   \* no answer
Folded == -1    \* the unsaved answers folded into one nothing orders

VARIABLES
  made,     \* the executor's answers and seals, in the order it made them
  boot,     \* the daemon that runs: its number, and the generation it reports
  asks,     \* each ask: how far it got, its answer, its ticket and its fence
  saved,    \* evidence: the completed final flush kept
  kept,     \* evidence: the unsaved answers kept
  latest,   \* the session's reading: the answer last published on it
  seal,     \* the seal the store recorded
  judge,    \* a decision: what it has read, and what it came to
  end       \* the decision committed: its kind, the save it names, and (a
            \* history) the answers published when it was last weighed

(***************************************************************************)
(* The executor's order over answers and seals, as far as it is told.      *)
(***************************************************************************)
Orderable(i) == i # Folded /\ made[i].stamped

(* A variant that orders boots whose generation is unknown.                *)
BeforeAnyGeneration(i, j) ==
  /\ Orderable(i) /\ Orderable(j)
  /\ IF made[i].boot = made[j].boot THEN i < j
       ELSE made[i].generation < made[j].generation

Before(i, j) ==
  /\ Orderable(i) /\ Orderable(j)
  /\ IF made[i].boot = made[j].boot
       THEN i < j
       ELSE /\ made[i].generation > 0 /\ made[j].generation > 0
            /\ made[i].generation < made[j].generation

(* captureUnsavedWordsOf: an answer that says work is not saved.           *)
Unsaved(i) == made[i].kind \in {"pending", "changed"}

Published == {a \in Asks : asks[a].stage = "published"}

Heard == {asks[a].answer : a \in Published}

Received == {asks[a].answer : a \in {b \in Asks :
               asks[b].stage \in {"answered", "published", "unpublished"}}}

-----------------------------------------------------------------------------
(* The answers kept stand for every unsaved answer published: it is kept,  *)
(* or one the executor truly made after it is, or one nothing is ordered   *)
(* against is, which no save stands over (withUnsavedAnswer, and the cap). *)
StoodFor(i) == \E k \in kept : k = i \/ ~Orderable(k) \/ i < k

KeptStandsForHeard == \A i \in Heard : Unsaved(i) => StoodFor(i)

(* An end that reads saved, and a seal attested to the platform, name a    *)
(* save the executor made after every unsaved answer that was published    *)
(* when the permit it was weighed under was let go: however answers        *)
(* overtook each other, the daemon restarted, or the evidence moved while  *)
(* it was read (confirmedExecutorEnd, stopOptionsFor).                     *)
SavedOverWeighed ==
  end.kind \in {"saved", "attested"} =>
    \A i \in end.over : Unsaved(i) => i < end.save

(* The same over every answer published by the time the end is committed:  *)
(* "a decision commits only while the evidence version it read is still    *)
(* the current one" (engine.ts:4213-4215).                                 *)
SavedOverHeard ==
  end.kind \in {"saved", "attested"} =>
    \A i \in Heard : Unsaved(i) => i < end.save

(* A seal attested, which is read, checked and sent under one permit, was  *)
(* made after every unsaved answer Mend had received, published or not,    *)
(* unless one the executor made later was published: no seal stands for    *)
(* an executor one of whose answers could not be published.                *)
SavedOverReceived ==
  end.kind = "attested" =>
    \A i \in Received : Unsaved(i) => i < end.save \/ \E j \in Heard : i < j

(* An end reads lost only when the executor itself said, after the save    *)
(* the end names, that it held unsaved work (executorEndOf's last case).   *)
LostIsSaid ==
  end.kind = "lost" => \E u \in Heard : Unsaved(u) /\ end.save < u
=============================================================================
