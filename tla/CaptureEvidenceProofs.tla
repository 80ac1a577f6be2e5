----------------------- MODULE CaptureEvidenceProofs -----------------------
(***************************************************************************)
(* Proofs about CaptureEvidence, for any number of asks and boots and any  *)
(* cap on the unsaved answers kept apart.                                  *)
(*                                                                         *)
(* SavedOverWeighed is not inductive.  What carries it: the order the code   *)
(* reads off two positions never contradicts the executor's own history    *)
(* (BootInv); the answers kept stand for all that were published           *)
(* (KeptStandsForHeard); and what a decision holds is the evidence itself  *)
(* as long as the version it read is the current one, and stays what it    *)
(* was weighed to be until it is committed (JudgeInv).                     *)
(***************************************************************************)
EXTENDS CaptureEvidence, FiniteSetTheorems, TLAPS

Item == [kind : Kinds \cup {"seal"}, boot : Nat, generation : Nat,
         stamped : BOOLEAN]

(* Boots follow each other in the history, and a generation is its boot's. *)
BootInv ==
  /\ boot.generation \in {0, boot.number}
  /\ \A i \in DOMAIN made : /\ made[i].boot <= boot.number
                            /\ made[i].generation \in {0, made[i].boot}
  /\ \A i, j \in DOMAIN made : i < j => made[i].boot <= made[j].boot

AnswerInv ==
  \A a \in Asks : asks[a].stage \in {"answered", "published", "unpublished"} =>
    asks[a].answer \in DOMAIN made

(* A decision weighed, and not committed yet.                              *)
WeighedInv ==
  /\ \/ judge.kind = "unsaved" /\ judge.saved = NoAnswer
     \/ judge.kind \in {"saved", "unconfirmed", "lost"} /\ judge.saved \in DOMAIN made
  /\ judge.kind = "saved" =>
       \A h \in judge.over : Unsaved(h) => h < judge.saved

(* What a decision holds is the evidence while its version is current.     *)
JudgeInv ==
  /\ judge.over \subseteq DOMAIN made
  /\ judge.at = "decided" => WeighedInv
  /\ judge.latest \in DOMAIN made \cup {NoAnswer}
  /\ judge.saved \in DOMAIN made \cup {NoAnswer}
  /\ judge.kept \subseteq DOMAIN made \cup {Folded}
  /\ judge.version <= Version
  /\ judge.at \in {"answers", "settled"} /\ judge.version = Version =>
       judge.saved = saved /\ judge.kept = kept
  /\ judge.at = "judged" =>
       /\ judge.saved \in DOMAIN made
       /\ judge.version = Version =>
            \A h \in Heard : Unsaved(h) => h < judge.saved

IInv == /\ TypeOK /\ BootInv /\ AnswerInv
        /\ KeptStandsForHeard /\ JudgeInv /\ SavedOverWeighed

(***************************************************************************)
(* Lemmas.                                                                 *)
(***************************************************************************)

(* The version is a number, and does not move unless an ask is published.  *)
LEMMA VersionType == Version \in Nat
<1>1. IsFiniteSet(Published)
  BY EvidenceAssumption, FS_Subset DEF EvidenceAssumption, Published
<1> QED BY <1>1, FS_CardinalityType DEF Version

(* A publication moves the version by one.                                 *)
LEMMA VersionMoves ==
  ASSUME NEW a \in Asks, a \notin Published, Published' = Published \cup {a}
  PROVE  Version' = Version + 1
<1>1. IsFiniteSet(Published)
  BY EvidenceAssumption, FS_Subset DEF EvidenceAssumption, Published
<1>2. Cardinality(Published \cup {a}) = Cardinality(Published) + 1
  BY <1>1, FS_AddElement
<1> QED BY <1>2 DEF Version

(* An executor's history only grows.                                       *)
LEMMA MadeGrows ==
  ASSUME made \in Seq(Item), NEW x \in Item, made' = Append(made, x)
  PROVE  /\ made' \in Seq(Item)
         /\ Len(made) \in Nat
         /\ DOMAIN made = 1 .. Len(made)
         /\ DOMAIN made' = 1 .. (Len(made) + 1)
         /\ made'[Len(made) + 1] = x
         /\ \A i \in DOMAIN made : made'[i] = made[i]
OBVIOUS

(* The places of a history are numbers, and hold answers and seals.        *)
LEMMA MadeType ==
  ASSUME made \in Seq(Item)
  PROVE  /\ DOMAIN made \subseteq Nat
         /\ NoAnswer \notin DOMAIN made /\ Folded \notin DOMAIN made
         /\ \A i \in DOMAIN made : made[i] \in Item
<1>1. DOMAIN made = 1 .. Len(made) /\ Len(made) \in Nat
  OBVIOUS
<1>2. \A i \in DOMAIN made : made[i] \in Item
  OBVIOUS
<1> QED BY <1>1, <1>2 DEF NoAnswer, Folded

(* The order the code reads off two positions is the executor's own.       *)
LEMMA BeforeIsTrue ==
  ASSUME TypeOK, BootInv,
         NEW i \in DOMAIN made \cup {Folded}, NEW j \in DOMAIN made \cup {Folded},
         Before(i, j)
  PROVE  i \in DOMAIN made /\ j \in DOMAIN made /\ i < j
<1>1. i \in DOMAIN made /\ j \in DOMAIN made
  BY DEF Before, Orderable
<1>2. i \in Nat /\ j \in Nat /\ made[i] \in Item /\ made[j] \in Item
  <2>1. made \in Seq(Item)
    BY DEF TypeOK, Item
  <2> QED BY <1>1, <2>1, MadeType
<1>3. CASE made[i].boot = made[j].boot
  BY <1>1, <1>3 DEF Before
<1>4. CASE made[i].boot # made[j].boot
  <2>1. made[i].boot < made[j].boot
    BY <1>1, <1>2, <1>4 DEF Before, BootInv, Item
  <2>2. ~(j < i)
    BY <1>1, <1>2, <2>1 DEF BootInv, Item
  <2> QED BY <1>1, <1>2, <1>4, <2>2
<1> QED BY <1>3, <1>4

(* A save that covers all that is kept was made after all that was heard.  *)
LEMMA CoveringIsAfter ==
  ASSUME TypeOK, BootInv, KeptStandsForHeard,
         Heard \subseteq DOMAIN made,
         NEW s \in DOMAIN made, \A u \in kept : Covers(s, u),
         NEW h \in Heard, Unsaved(h)
  PROVE  h < s
<1>1. PICK k \in kept : k = h \/ ~Orderable(k) \/ h < k
  BY DEF KeptStandsForHeard, StoodFor
<1>2. k \in DOMAIN made \cup {Folded} /\ Before(k, s)
  BY DEF TypeOK, Covers
<1>3. k \in DOMAIN made /\ k < s
  BY <1>2, BeforeIsTrue
<1>4. Orderable(k)
  BY <1>2 DEF Before
<1>5. h \in Nat /\ k \in Nat /\ s \in Nat
  <2>1. made \in Seq(Item)
    BY DEF TypeOK, Item
  <2> QED BY <1>3, <2>1, MadeType
<1> QED BY <1>1, <1>3, <1>4, <1>5

(* Published asks have answers the executor made.                          *)
LEMMA HeardIsMade ==
  ASSUME AnswerInv
  PROVE  Heard \subseteq DOMAIN made
BY DEF AnswerInv, Heard, Published

(* An end that reads saved names one of the saves, which covers all stated.*)
LEMMA EndIsOf ==
  ASSUME TypeOK, NEW kv \in DOMAIN made \cup {NoAnswer}, NEW us,
         NEW b \in BOOLEAN, NEW e \in EndOf(kv, us, b)
  PROVE  /\ e \in [kind : {"unsaved"}, save : {NoAnswer}]
              \cup [kind : {"saved", "unconfirmed", "lost"}, save : DOMAIN made]
         /\ e.kind = "saved" => \A u \in us : Covers(e.save, u)
<1>1. Saves(kv) \subseteq DOMAIN made
  BY DEF Saves, TypeOK
<1> QED BY <1>1 DEF EndOf, Covering, Undecided

(***************************************************************************)
(* What a step that publishes nothing leaves alone.                        *)
(***************************************************************************)
Grows == /\ made' \in Seq(Item)
         /\ DOMAIN made \subseteq DOMAIN made'
         /\ \A i \in DOMAIN made : made'[i] = made[i]

(* Without a publication, what was heard and the version stay.             *)
LEMMA NothingPublished ==
  ASSUME Published' = Published,
         \A a \in Published : asks'[a].answer = asks[a].answer
  PROVE  Heard' = Heard /\ Version' = Version
<1>1. Heard' = Heard
  BY DEF Heard
<1>2. Version' = Version
  BY DEF Version
<1> QED BY <1>1, <1>2

(* What is kept still stands for what was heard.                           *)
LEMMA KeptStays ==
  ASSUME IInv, Grows, kept' = kept, Heard' = Heard
  PROVE  KeptStandsForHeard'
<1>1. Heard \subseteq DOMAIN made
  BY HeardIsMade DEF IInv
<1>2. kept \subseteq DOMAIN made \cup {Folded}
  BY DEF IInv, TypeOK
<1> SUFFICES ASSUME NEW i \in Heard, Unsaved(i)'
             PROVE  StoodFor(i)'
  BY DEF KeptStandsForHeard
<1>3. Unsaved(i)
  BY <1>1 DEF Unsaved, Grows
<1>4. PICK k \in kept : k = i \/ ~Orderable(k) \/ i < k
  BY <1>3 DEF IInv, KeptStandsForHeard, StoodFor
<1>5. Orderable(k)' <=> Orderable(k)
  BY <1>2, <1>4 DEF Orderable, Grows
<1> QED BY <1>4, <1>5 DEF StoodFor

(* A decision under way still holds what it held.                          *)
LEMMA JudgeStays ==
  ASSUME IInv, Grows, UNCHANGED <<kept, saved, judge>>,
         Heard' = Heard, Version' = Version
  PROVE  JudgeInv'
<1>1. Heard \subseteq DOMAIN made
  BY HeardIsMade DEF IInv
<1>2. \A i \in Heard : Unsaved(i)' <=> Unsaved(i)
  BY <1>1 DEF Unsaved, Grows
<1>3. DOMAIN made \subseteq DOMAIN made'
  BY DEF Grows
<1>4. judge.at = "decided" => WeighedInv'
  <2>1. \A i \in judge.over : Unsaved(i)' <=> Unsaved(i)
    BY DEF Unsaved, Grows, IInv, JudgeInv
  <2> QED BY <1>3, <2>1 DEF IInv, JudgeInv, WeighedInv
<1> QED BY <1>2, <1>3, <1>4 DEF IInv, JudgeInv

(* A decision that is idle holds nothing.                                  *)
LEMMA IdleHolds ==
  ASSUME judge' = Idle, Version' \in Nat
  PROVE  JudgeInv'
BY DEF JudgeInv, Idle

(* The history's order survives one more answer or seal of the boot that   *)
(* runs.                                                                   *)
LEMMA MakeKeepsBoots ==
  ASSUME TypeOK, BootInv, NEW kind \in Kinds \cup {"seal"}, Make(kind),
         boot' = boot
  PROVE  /\ BootInv' /\ Grows
         /\ Len(made) + 1 \in DOMAIN made'
<1>1. PICK x \in Item : /\ made' = Append(made, x)
                        /\ x.boot = boot.number /\ x.generation = boot.generation
  <2>1. PICK s \in Stamped :
          made' = Append(made, [kind |-> kind, boot |-> boot.number,
                                generation |-> boot.generation, stamped |-> s])
    BY DEF Make
  <2>2. s \in BOOLEAN
    BY EvidenceAssumption DEF EvidenceAssumption
  <2> DEFINE x == [kind |-> kind, boot |-> boot.number,
                   generation |-> boot.generation, stamped |-> s]
  <2>3. x \in Item
    BY <2>2 DEF TypeOK, Item
  <2> QED BY <2>1, <2>3
<1>2. made \in Seq(Item)
  BY DEF TypeOK, Item
<1>3. /\ made' \in Seq(Item) /\ Len(made) \in Nat
      /\ DOMAIN made = 1 .. Len(made)
      /\ DOMAIN made' = 1 .. (Len(made) + 1)
      /\ made'[Len(made) + 1] = x
      /\ \A i \in DOMAIN made : made'[i] = made[i]
  BY <1>1, <1>2, MadeGrows
<1>4. Grows /\ Len(made) + 1 \in DOMAIN made'
  BY <1>3 DEF Grows
<1>5. \A i \in DOMAIN made' : i \in DOMAIN made \/ i = Len(made) + 1
  BY <1>3
<1>6. \A i \in DOMAIN made' : /\ made'[i].boot <= boot'.number
                             /\ made'[i].generation \in {0, made'[i].boot}
  <2> SUFFICES ASSUME NEW i \in DOMAIN made'
               PROVE  /\ made'[i].boot <= boot.number
                      /\ made'[i].generation \in {0, made'[i].boot}
    OBVIOUS
  <2>1. CASE i \in DOMAIN made
    BY <2>1, <1>3 DEF BootInv
  <2>2. CASE i = Len(made) + 1
    BY <2>2, <1>1, <1>3 DEF BootInv, TypeOK
  <2> QED BY <1>5, <2>1, <2>2
<1>7. \A i, j \in DOMAIN made' : i < j => made'[i].boot <= made'[j].boot
  <2> SUFFICES ASSUME NEW i \in DOMAIN made', NEW j \in DOMAIN made', i < j
               PROVE  made'[i].boot <= made'[j].boot
    OBVIOUS
  <2>1. i \in DOMAIN made
    BY <1>3
  <2>2. CASE j \in DOMAIN made
    BY <2>1, <2>2, <1>3 DEF BootInv
  <2>3. CASE j = Len(made) + 1
    BY <2>1, <2>3, <1>1, <1>3 DEF BootInv
  <2> QED BY <1>5, <2>2, <2>3
<1> QED BY <1>4, <1>6, <1>7 DEF BootInv

(***************************************************************************)
(* The initial states, and one lemma per action.                           *)
(***************************************************************************)

(* Nothing made, asked, kept or decided.                                   *)
LEMMA InitInv == Init => IInv
<1> SUFFICES ASSUME Init PROVE IInv
  OBVIOUS
<1>1. DOMAIN made = {}
  BY DEF Init
<1>2. boot \in [number : Nat, generation : Nat] /\ boot.generation \in {0, boot.number}
  <2>1. PICK g \in {IF p THEN 1 ELSE 0 : p \in Persisted} :
          boot = [number |-> 1, generation |-> g]
    BY DEF Init
  <2>2. g \in {0, 1}
    BY <2>1
  <2> QED BY <2>1, <2>2
<1>3. TypeOK
  <2>1. made \in Seq([kind : Kinds \cup {"seal"}, boot : Nat, generation : Nat,
                     stamped : BOOLEAN])
    BY DEF Init
  <2>2. asks \in [Asks -> Ask]
    BY DEF Init, Ask, NoAnswer
  <2>3. judge \in Judge
    BY DEF Init, Judge, Idle, NoAnswer
  <2> QED BY <1>2, <2>1, <2>2, <2>3 DEF TypeOK, Init
<1>4. Heard = {}
  BY DEF Init, Heard, Published
<1>5. JudgeInv
  BY VersionType DEF JudgeInv, Init, Idle
<1> QED
  BY <1>1, <1>2, <1>3, <1>4, <1>5
     DEF IInv, BootInv, AnswerInv, KeptStandsForHeard, SavedOverWeighed, Init

(* What the asks' steps have in common that publish and answer nothing.    *)
AsksOnly ==
  /\ Open
  /\ asks' \in [Asks -> Ask]
  /\ \A a \in Asks :
       /\ asks'[a].answer = asks[a].answer
       /\ asks'[a].stage = "published" <=> asks[a].stage = "published"
       /\ asks'[a].stage \in {"answered", "published", "unpublished"} =>
            asks[a].stage \in {"answered", "published", "unpublished"}
  /\ judge' = judge \/ judge' = Idle
  /\ UNCHANGED <<made, boot, saved, kept, latest, seal, end>>

(* They preserve the invariant.                                            *)
LEMMA AsksOnlyInv ==
  ASSUME IInv, AsksOnly
  PROVE  IInv'
<1>1. Published' = Published
  BY DEF Published, AsksOnly
<1>2. Heard' = Heard /\ Version' = Version
  BY <1>1, NothingPublished DEF AsksOnly, Published
<1>3. Grows
  BY DEF Grows, AsksOnly, IInv, TypeOK, Item
<1>4. judge' \in Judge
  <2>1. Idle \in Judge
    BY DEF Idle, Judge, NoAnswer
  <2> QED BY <2>1 DEF IInv, TypeOK, AsksOnly
<1>5. TypeOK'
  BY <1>4 DEF IInv, TypeOK, AsksOnly
<1>6. BootInv'
  BY DEF IInv, BootInv, AsksOnly
<1>7. AnswerInv'
  BY DEF IInv, AnswerInv, AsksOnly
<1>8. KeptStandsForHeard'
  BY <1>2, <1>3, KeptStays DEF AsksOnly
<1>9. JudgeInv'
  <2>1. CASE judge' = judge
    BY <2>1, <1>2, <1>3, JudgeStays DEF AsksOnly
  <2>2. CASE judge' = Idle
    BY <2>2, <1>2, VersionType, IdleHolds
  <2> QED BY <2>1, <2>2 DEF AsksOnly
<1>10. SavedOverWeighed'
  BY DEF SavedOverWeighed, AsksOnly, Open
<1> QED BY <1>5, <1>6, <1>7, <1>8, <1>9, <1>10 DEF IInv

(* A fence opens.                                                          *)
LEMMA OpenFenceInv ==
  ASSUME IInv, NEW a \in Asks, OpenFence(a)
  PROVE  IInv'
<1>1. Cardinality({b \in Asks : asks[b].stage # "idle"}) \in Nat
  BY EvidenceAssumption, FS_Subset, FS_CardinalityType DEF EvidenceAssumption
<1>2. asks \in [Asks -> Ask]
  BY DEF IInv, TypeOK
<1>3. asks' \in [Asks -> Ask]
  <2> DEFINE n == Cardinality({b \in Asks : asks[b].stage # "idle"}) + 1
  <2>1. [asks[a] EXCEPT !.stage = "asked", !.fence = "open", !.ticket = n] \in Ask
    <3>1. n \in Nat /\ asks[a] \in Ask
      BY <1>1, <1>2
    <3> HIDE DEF n
    <3> QED BY <3>1 DEF Ask
  <2>2. asks' = [asks EXCEPT ![a] =
          [asks[a] EXCEPT !.stage = "asked", !.fence = "open", !.ticket = n]]
    BY <1>2 DEF OpenFence
  <2> QED BY <1>2, <2>1, <2>2
<1>4. AsksOnly
  BY <1>2, <1>3 DEF AsksOnly, OpenFence, Ask
<1> QED BY <1>4, AsksOnlyInv

(* An answer is not published.                                             *)
LEMMA UnpublishedInv ==
  ASSUME IInv, NEW a \in Asks, Unpublished(a)
  PROVE  IInv'
<1>1. asks \in [Asks -> Ask]
  BY DEF IInv, TypeOK
<1>2. asks' \in [Asks -> Ask]
  <2>1. PICK f \in {"open", "unpublished"} :
          asks' = [asks EXCEPT ![a].stage = "unpublished", ![a].fence = f]
    BY DEF Unpublished
  <2>2. [asks[a] EXCEPT !.stage = "unpublished", !.fence = f] \in Ask
    <3>1. asks[a] \in Ask
      BY <1>1
    <3> QED BY <3>1 DEF Ask
  <2>3. asks' = [asks EXCEPT ![a] = [asks[a] EXCEPT !.stage = "unpublished", !.fence = f]]
    BY <1>1, <2>1
  <2> QED BY <1>1, <2>2, <2>3
<1>3. AsksOnly
  BY <1>1, <1>2 DEF AsksOnly, Unpublished, Ask
<1> QED BY <1>3, AsksOnlyInv

(* An ask is not answered.                                                 *)
LEMMA UnansweredInv ==
  ASSUME IInv, NEW a \in Asks, Unanswered(a)
  PROVE  IInv'
<1>1. asks \in [Asks -> Ask]
  BY DEF IInv, TypeOK
<1>2. asks' \in [Asks -> Ask]
  <2>1. PICK f \in {"open", "none"} :
          asks' = [asks EXCEPT ![a].stage = "unanswered", ![a].fence = f]
    BY DEF Unanswered
  <2>2. [asks[a] EXCEPT !.stage = "unanswered", !.fence = f] \in Ask
    <3>1. asks[a] \in Ask
      BY <1>1
    <3> QED BY <3>1 DEF Ask
  <2>3. asks' = [asks EXCEPT ![a] = [asks[a] EXCEPT !.stage = "unanswered", !.fence = f]]
    BY <1>1, <2>1
  <2> QED BY <1>1, <2>2, <2>3
<1>3. AsksOnly
  BY <1>1, <1>2 DEF AsksOnly, Unanswered, Ask
<1> QED BY <1>3, AsksOnlyInv

(* The engine restarts.                                                    *)
LEMMA RestartInv ==
  ASSUME IInv, Restart
  PROVE  IInv'
<1>1. asks \in [Asks -> Ask]
  BY DEF IInv, TypeOK
<1>2. asks' \in [Asks -> Ask]
  <2> SUFFICES ASSUME NEW a \in Asks PROVE asks'[a] \in Ask
    BY DEF Restart
  <2>1. asks[a] \in Ask
    BY <1>1
  <2> QED BY <2>1 DEF Restart, Ask
<1>3. \A a \in Asks :
        /\ asks'[a].answer = asks[a].answer
        /\ asks'[a].stage = CASE asks[a].stage = "asked" -> "unanswered"
                             [] asks[a].stage = "answered" -> "unpublished"
                             [] OTHER -> asks[a].stage
  BY <1>1 DEF Restart, Ask
<1>4. \A a \in Asks :
        /\ asks'[a].stage = "published" <=> asks[a].stage = "published"
        /\ asks'[a].stage \in {"answered", "published", "unpublished"} =>
             asks[a].stage \in {"answered", "published", "unpublished"}
  <2> SUFFICES ASSUME NEW a \in Asks
               PROVE  /\ asks'[a].stage = "published" <=> asks[a].stage = "published"
                      /\ asks'[a].stage \in {"answered", "published", "unpublished"} =>
                           asks[a].stage \in {"answered", "published", "unpublished"}
    OBVIOUS
  <2>1. CASE asks[a].stage \in {"asked", "answered"}
    BY <1>3, <2>1
  <2>2. CASE asks[a].stage \notin {"asked", "answered"}
    BY <1>3, <2>2
  <2> QED BY <2>1, <2>2
<1>5. AsksOnly
  BY <1>2, <1>3, <1>4 DEF AsksOnly, Restart
<1> QED BY <1>5, AsksOnlyInv

(* The executor answers an ask.                                            *)
LEMMA AnswerInvariant ==
  ASSUME IInv, NEW a \in Asks, Answer(a)
  PROVE  IInv'
<1> DEFINE n == Len(made) + 1
<1>1. PICK k \in Kinds : Make(k)
  BY DEF Answer
<1>2. BootInv' /\ Grows /\ n \in DOMAIN made'
  BY <1>1, MakeKeepsBoots DEF Answer, IInv
<1>3. asks \in [Asks -> Ask]
  BY DEF IInv, TypeOK
<1>4. n \in Nat
  BY <1>2, MadeType DEF Grows
<1>5. asks' = [asks EXCEPT ![a] = [asks[a] EXCEPT !.stage = "answered", !.answer = n]]
  BY <1>3 DEF Answer
<1>6. [asks[a] EXCEPT !.stage = "answered", !.answer = n] \in Ask
  <2>1. asks[a] \in Ask
    BY <1>3
  <2> HIDE DEF n
  <2> QED BY <2>1, <1>4 DEF Ask
<1>7. asks' \in [Asks -> Ask]
  BY <1>3, <1>5, <1>6
<1>8. asks'[a].stage = "answered" /\ asks'[a].answer = n
  <2>1. asks[a] \in Ask
    BY <1>3
  <2> HIDE DEF n
  <2> QED BY <2>1, <1>3, <1>5 DEF Ask
<1>9. \A b \in Asks : b # a => asks'[b] = asks[b]
  BY <1>3, <1>5
<1> HIDE DEF n
<1>10. Published' = Published
  BY <1>8, <1>9 DEF Published, Answer
<1>11. a \notin Published
  BY DEF Published, Answer
<1>12. Heard' = Heard /\ Version' = Version
  BY <1>9, <1>10, <1>11, NothingPublished DEF Published
<1>13. DOMAIN made \subseteq DOMAIN made'
  BY <1>2 DEF Grows
<1>14. TypeOK'
  <2>1. \A b \in Asks : asks'[b].answer \in DOMAIN made' \cup {NoAnswer}
    BY <1>2, <1>8, <1>9, <1>13 DEF IInv, TypeOK
  <2>2. made' \in Seq([kind : Kinds \cup {"seal"}, boot : Nat, generation : Nat,
                      stamped : BOOLEAN])
    BY <1>2 DEF Grows, Item
  <2> QED BY <1>7, <1>13, <2>1, <2>2 DEF IInv, TypeOK, Answer
<1>15. AnswerInv'
  BY <1>2, <1>8, <1>9, <1>13 DEF IInv, AnswerInv
<1>16. KeptStandsForHeard'
  BY <1>2, <1>12, KeptStays DEF Answer
<1>17. JudgeInv'
  BY <1>2, <1>12, JudgeStays DEF Answer
<1>18. SavedOverWeighed'
  BY DEF SavedOverWeighed, Answer, Open
<1> QED BY <1>2, <1>14, <1>15, <1>16, <1>17, <1>18 DEF IInv

(* The daemon restarts.                                                    *)
LEMMA RebootInv ==
  ASSUME IInv, Reboot
  PROVE  IInv'
<1>1. PICK p \in Persisted :
        boot' = [number |-> boot.number + 1,
                 generation |-> IF p THEN boot.number + 1 ELSE 0]
  BY DEF Reboot
<1>2. boot.number \in Nat
  BY DEF IInv, TypeOK
<1>3. boot' \in [number : Nat, generation : Nat] /\ boot'.number = boot.number + 1
      /\ boot'.generation \in {0, boot'.number}
  BY <1>1, <1>2
<1>4. TypeOK'
  BY <1>3 DEF IInv, TypeOK, Reboot
<1>5. BootInv'
  <2>1. \A i \in DOMAIN made : made[i].boot \in Nat
    <3>1. made \in Seq(Item)
      BY DEF IInv, TypeOK, Item
    <3> QED BY <3>1, MadeType DEF Item
  <2>2. \A i \in DOMAIN made : made[i].boot <= boot'.number
    BY <1>2, <1>3, <2>1 DEF IInv, BootInv
  <2> QED BY <1>3, <2>2 DEF IInv, BootInv, Reboot
<1>6. Grows
  BY DEF Grows, Reboot, IInv, TypeOK, Item
<1>7. Heard' = Heard /\ Version' = Version /\ AnswerInv'
  BY DEF Heard, Version, Published, Reboot, IInv, AnswerInv
<1>8. KeptStandsForHeard'
  BY <1>6, <1>7, KeptStays DEF Reboot
<1>9. JudgeInv'
  BY <1>6, <1>7, JudgeStays DEF Reboot
<1>10. SavedOverWeighed'
  BY DEF SavedOverWeighed, Reboot, Open
<1> QED BY <1>4, <1>5, <1>7, <1>8, <1>9, <1>10 DEF IInv

(* The executor seals, and the store records it.                           *)
LEMMA RecordSealInv ==
  ASSUME IInv, RecordSeal
  PROVE  IInv'
<1> DEFINE n == Len(made) + 1
<1>1. BootInv' /\ Grows /\ n \in DOMAIN made'
  BY MakeKeepsBoots DEF RecordSeal, IInv
<1>2. DOMAIN made \subseteq DOMAIN made'
  BY <1>1 DEF Grows
<1>3. seal' \in DOMAIN made'
  BY <1>1 DEF RecordSeal
<1>4. TypeOK'
  <2>1. made' \in Seq([kind : Kinds \cup {"seal"}, boot : Nat, generation : Nat,
                      stamped : BOOLEAN])
    BY <1>1 DEF Grows, Item
  <2> QED BY <1>2, <1>3, <2>1 DEF IInv, TypeOK, RecordSeal
<1>5. Heard' = Heard /\ Version' = Version
  BY DEF Heard, Version, Published, RecordSeal
<1>6. AnswerInv'
  BY <1>2 DEF IInv, AnswerInv, RecordSeal
<1>7. KeptStandsForHeard'
  BY <1>1, <1>5, KeptStays DEF RecordSeal
<1>8. JudgeInv'
  BY <1>1, <1>5, JudgeStays DEF RecordSeal
<1>9. SavedOverWeighed'
  BY DEF SavedOverWeighed, RecordSeal, Open
<1> QED BY <1>1, <1>4, <1>6, <1>7, <1>8, <1>9 DEF IInv

(* What an unsaved answer makes of the answers kept stands for it, and for *)
(* all that the answers kept stood for.                                    *)
LEMMA WithUnsavedStandsFor ==
  ASSUME TypeOK, BootInv, NEW i \in DOMAIN made, kept' = WithUnsaved(i),
         made' = made,
         NEW h \in DOMAIN made, h = i \/ StoodFor(h)
  PROVE  StoodFor(h)'
<1>1. made \in Seq(Item)
  BY DEF TypeOK, Item
<1>2. i \in Nat /\ h \in Nat /\ i # Folded /\ h # Folded
  BY <1>1, MadeType
<1>3. kept \subseteq DOMAIN made \cup {Folded}
  BY DEF TypeOK
<1>4. \A k : Orderable(k)' <=> Orderable(k)
  BY DEF Orderable
<1>5. CASE \E k \in kept : Before(i, k)
  <2>1. kept' = kept
    BY <1>5 DEF WithUnsaved
  <2>2. PICK k \in kept : Before(i, k)
    BY <1>5
  <2>3. i < k
    BY <1>3, <2>2, BeforeIsTrue
  <2>4. CASE h = i
    BY <2>1, <2>2, <2>3, <2>4 DEF StoodFor
  <2>5. CASE StoodFor(h)
    BY <1>4, <2>1, <2>5 DEF StoodFor
  <2> QED BY <2>4, <2>5
<1>6. CASE ~\E k \in kept : Before(i, k)
  <2> DEFINE standing == {k \in kept : /\ ~Before(k, i) /\ k # i
                                       /\ Orderable(i) \/ Orderable(k)}
  <2>1. kept' = IF Cardinality(standing) < UnsavedKept THEN standing \cup {i}
               ELSE {Folded}
    BY <1>6 DEF WithUnsaved
  <2>2. CASE kept' = {Folded}
    BY <1>4, <2>2 DEF StoodFor, Orderable
  <2>3. CASE kept' = standing \cup {i}
    <3>1. CASE h = i
      BY <2>3, <3>1 DEF StoodFor
    <3>2. CASE StoodFor(h)
      <4>1. PICK k \in kept : k = h \/ ~Orderable(k) \/ h < k
        BY <3>2 DEF StoodFor
      <4>2. CASE k \in standing
        BY <1>4, <2>3, <4>1, <4>2 DEF StoodFor
      <4>3. CASE k = i
        BY <1>4, <2>3, <4>1, <4>3 DEF StoodFor
      <4>4. CASE Before(k, i)
        <5>1. k \in DOMAIN made /\ k < i /\ Orderable(k)
          BY <1>3, <4>4, BeforeIsTrue DEF Before
        <5>2. k \in Nat
          BY <1>1, <5>1, MadeType
        <5>3. h < i
          BY <1>2, <4>1, <5>1, <5>2
        <5> QED BY <2>3, <5>3 DEF StoodFor
      <4>5. CASE ~Orderable(i)
        BY <1>4, <2>3, <4>5 DEF StoodFor
      <4> QED BY <4>2, <4>3, <4>4, <4>5
    <3> QED BY <3>1, <3>2
  <2> QED BY <2>1, <2>2, <2>3
<1> QED BY <1>5, <1>6

(* An answer is published.                                                 *)
LEMMA PublishInv ==
  ASSUME IInv, NEW a \in Asks, Publish(a)
  PROVE  IInv'
<1> DEFINE i == asks[a].answer
<1>1. asks \in [Asks -> Ask]
  BY DEF IInv, TypeOK
<1>2. i \in DOMAIN made
  BY DEF Publish, IInv, AnswerInv
<1>3. \A b \in Asks : /\ asks'[b] \in Ask
                      /\ asks'[b].answer = asks[b].answer
                      /\ asks'[b].stage = IF b = a THEN "published" ELSE asks[b].stage
  <2> SUFFICES ASSUME NEW b \in Asks
               PROVE  /\ asks'[b] \in Ask
                      /\ asks'[b].answer = asks[b].answer
                      /\ asks'[b].stage = IF b = a THEN "published" ELSE asks[b].stage
    OBVIOUS
  <2>1. asks[b] \in Ask
    BY <1>1
  <2>2. asks'[b] = [asks[b] EXCEPT !.stage = IF b = a THEN "published" ELSE @,
                                   !.fence = IF Clears(a, b) THEN "none" ELSE @]
    BY DEF Publish
  <2> QED BY <2>1, <2>2 DEF Ask
<1>4. asks' \in [Asks -> Ask]
  <2>1. asks' = [b \in Asks |-> asks'[b]]
    BY DEF Publish
  <2> QED BY <1>3, <2>1
<1>5. a \notin Published /\ Published' = Published \cup {a}
  BY <1>3 DEF Published, Publish
<1>6. Version \in Nat /\ Version' = Version + 1
  BY <1>5, VersionMoves, VersionType
<1>7. Heard' = Heard \cup {i}
  BY <1>3, <1>5 DEF Heard, Published
<1>8. Heard \subseteq DOMAIN made
  BY HeardIsMade DEF IInv
<1>9. made \in Seq(Item)
  BY DEF IInv, TypeOK, Item
<1> HIDE DEF i
<1>10. /\ made' = made /\ boot' = boot /\ seal' = seal /\ judge' = judge
       /\ end' = end /\ end.kind = "none" /\ latest' = i
       /\ saved' = IF made[i].kind = "saved" /\ Replaces(i) THEN i ELSE saved
       /\ kept' = IF Unsaved(i) THEN WithUnsaved(i) ELSE kept
  BY DEF Publish, Open, i
<1>11. TypeOK'
  <2>1. kept' \subseteq DOMAIN made \cup {Folded}
    BY <1>2, <1>10 DEF IInv, TypeOK, WithUnsaved
  <2>2. saved' \in DOMAIN made \cup {NoAnswer}
    BY <1>2, <1>10 DEF IInv, TypeOK
  <2>3. \A b \in Asks : asks'[b].answer \in DOMAIN made \cup {NoAnswer}
    BY <1>3 DEF IInv, TypeOK
  <2> QED BY <1>2, <1>4, <1>10, <2>1, <2>2, <2>3 DEF IInv, TypeOK
<1>12. BootInv'
  BY <1>10 DEF IInv, BootInv
<1>13. AnswerInv'
  <2> SUFFICES ASSUME NEW b \in Asks,
                      asks'[b].stage \in {"answered", "published", "unpublished"}
               PROVE  asks'[b].answer \in DOMAIN made
    BY <1>10 DEF AnswerInv
  <2>1. CASE b = a
    BY <1>2, <1>3, <2>1 DEF i
  <2>2. CASE b # a
    BY <1>3, <2>2 DEF IInv, AnswerInv
  <2> QED BY <2>1, <2>2
<1>14. KeptStandsForHeard'
  <2> SUFFICES ASSUME NEW h \in Heard', Unsaved(h)'
               PROVE  StoodFor(h)'
    BY DEF KeptStandsForHeard
  <2>1. h \in DOMAIN made /\ Unsaved(h)
    BY <1>2, <1>7, <1>8, <1>10 DEF Unsaved
  <2>2. h = i \/ StoodFor(h)
    BY <1>7, <2>1 DEF IInv, KeptStandsForHeard
  <2>3. CASE Unsaved(i)
    BY <1>2, <1>10, <2>1, <2>2, <2>3, WithUnsavedStandsFor DEF IInv
  <2>4. CASE ~Unsaved(i)
    <3>1. h # i /\ kept' = kept
      BY <1>10, <2>1, <2>4
    <3> QED BY <1>10, <2>2, <3>1 DEF StoodFor, Orderable
  <2> QED BY <2>3, <2>4
<1>15. JudgeInv'
  <2>1. judge.version \in Nat /\ judge.version <= Version
    BY DEF IInv, TypeOK, Judge, JudgeInv
  <2>2. judge.version <= Version' /\ judge.version # Version'
    BY <1>6, <2>1
  <2>3. \A h : Unsaved(h)' <=> Unsaved(h)
    BY <1>10 DEF Unsaved
  <2>4. judge.at = "decided" => WeighedInv'
    BY <1>10, <2>3 DEF IInv, JudgeInv, WeighedInv
  <2> QED BY <1>10, <2>2, <2>4 DEF IInv, JudgeInv
<1>16. SavedOverWeighed'
  BY <1>10 DEF SavedOverWeighed
<1> QED BY <1>11, <1>12, <1>13, <1>14, <1>15, <1>16 DEF IInv

(***************************************************************************)
(* The steps of a decision.                                                *)
(***************************************************************************)

(* A decision's step changes neither the history nor the evidence.         *)
LEMMA DecisionKeeps ==
  ASSUME IInv, UNCHANGED <<made, boot, asks, saved, kept, latest, seal>>
  PROVE  /\ BootInv' /\ AnswerInv' /\ KeptStandsForHeard'
         /\ Heard' = Heard /\ Version' = Version
         /\ \A i : Unsaved(i)' <=> Unsaved(i)
BY DEF IInv, BootInv, AnswerInv, KeptStandsForHeard, StoodFor, Orderable, Unsaved,
       Heard, Published, Version

(* The first three reads.                                                  *)
LEMMA ReadsInv ==
  ASSUME IInv, ReadRow \/ ReadAnswers \/ ReadSettled
  PROVE  IInv'
<1>1. UNCHANGED <<made, boot, asks, saved, kept, latest, seal, end>> /\ Open
  BY DEF ReadRow, ReadAnswers, ReadSettled
<1>2. /\ BootInv' /\ AnswerInv' /\ KeptStandsForHeard'
      /\ Heard' = Heard /\ Version' = Version
  BY <1>1, DecisionKeeps
<1>3. made \in Seq(Item)
  BY DEF IInv, TypeOK, Item
<1>4. DOMAIN made \subseteq Nat /\ Version \in Nat /\ Settled \in BOOLEAN
  BY <1>3, MadeType, VersionType DEF Settled
<1>5. judge \in Judge
  BY DEF IInv, TypeOK
<1>6. CASE ReadRow
  <2>1. judge' = [judge EXCEPT !.at = "row", !.latest = latest]
    BY <1>6 DEF ReadRow
  <2>2. latest \in DOMAIN made \cup {NoAnswer} /\ latest \in Nat
    BY <1>4 DEF IInv, TypeOK, NoAnswer
  <2>3. judge' \in Judge
    BY <1>5, <2>1, <2>2 DEF Judge
  <2>4. JudgeInv'
    BY <1>1, <1>2, <1>5, <2>1, <2>2 DEF IInv, JudgeInv, Judge
  <2> QED BY <1>1, <1>2, <2>3, <2>4 DEF IInv, TypeOK, SavedOverWeighed, Open
<1>7. CASE ReadAnswers
  <2>1. judge' = [judge EXCEPT !.at = "answers", !.saved = saved, !.kept = kept,
                               !.version = Version]
    BY <1>7 DEF ReadAnswers
  <2>2. /\ saved \in DOMAIN made \cup {NoAnswer} /\ saved \in Nat
        /\ kept \subseteq DOMAIN made \cup {Folded}
        /\ kept \in SUBSET (Nat \cup {Folded})
    BY <1>4 DEF IInv, TypeOK, NoAnswer
  <2>3. judge' \in Judge
    BY <1>4, <1>5, <2>1, <2>2 DEF Judge
  <2>4. JudgeInv'
    BY <1>1, <1>2, <1>4, <1>5, <2>1, <2>2 DEF IInv, JudgeInv, Judge
  <2> QED BY <1>1, <1>2, <2>3, <2>4 DEF IInv, TypeOK, SavedOverWeighed, Open
<1>8. CASE ReadSettled
  <2>1. judge.at = "answers" /\ judge' = [judge EXCEPT !.at = "settled", !.settled = Settled]
    BY <1>8 DEF ReadSettled
  <2>2. judge' \in Judge
    BY <1>4, <1>5, <2>1 DEF Judge
  <2>3. JudgeInv'
    BY <1>1, <1>2, <1>5, <2>1 DEF IInv, JudgeInv, Judge
  <2> QED BY <1>1, <1>2, <2>2, <2>3 DEF IInv, TypeOK, SavedOverWeighed, Open
<1> QED BY <1>6, <1>7, <1>8

(* A decision weighed as e, over answers the executor made, holds.         *)
LEMMA DecidedHolds ==
  ASSUME IInv, UNCHANGED <<made, boot, asks, saved, kept, latest, seal, end>>,
         NEW e \in [kind : {"unsaved"}, save : {NoAnswer}]
                \cup [kind : {"saved", "unconfirmed", "lost"}, save : DOMAIN made],
         NEW over \in SUBSET DOMAIN made,
         e.kind = "saved" => \A h \in over : Unsaved(h) => h < e.save,
         Open, judge' = Decided(e, over)
  PROVE  IInv'
<1>1. /\ BootInv' /\ AnswerInv' /\ KeptStandsForHeard'
      /\ Heard' = Heard /\ Version' = Version
      /\ \A i : Unsaved(i)' <=> Unsaved(i)
  BY DecisionKeeps
<1>2. DOMAIN made \subseteq Nat
  <2>1. made \in Seq(Item)
    BY DEF IInv, TypeOK, Item
  <2> QED BY <2>1, MadeType
<1>3. /\ judge'.at = "decided" /\ judge'.kind = e.kind /\ judge'.saved = e.save
      /\ judge'.over = over /\ judge'.latest = NoAnswer /\ judge'.kept = {}
      /\ judge'.version = 0 /\ judge'.settled = FALSE
      /\ judge' = [at |-> "decided", latest |-> NoAnswer, saved |-> e.save, kept |-> {},
                   version |-> 0, settled |-> FALSE, kind |-> e.kind, over |-> over]
  BY DEF Decided, Idle
<1>4. e.save \in Nat /\ e.save \in DOMAIN made \cup {NoAnswer}
      /\ e.kind \in {"unsaved", "saved", "unconfirmed", "lost"}
      /\ (\/ e.kind = "unsaved" /\ e.save = NoAnswer
          \/ e.kind \in {"saved", "unconfirmed", "lost"} /\ e.save \in DOMAIN made)
  BY <1>2 DEF NoAnswer
<1>5. judge' \in Judge
  <2>1. over \in SUBSET Nat /\ {} \in SUBSET (Nat \cup {Folded}) /\ 0 \in Nat
    BY <1>2
  <2> QED BY <1>3, <1>4, <2>1 DEF Judge, NoAnswer
<1>6. WeighedInv'
  BY <1>1, <1>3, <1>4 DEF WeighedInv
<1>7. JudgeInv'
  BY <1>1, <1>3, <1>4, <1>6, VersionType DEF JudgeInv
<1> QED BY <1>1, <1>5, <1>7 DEF IInv, TypeOK, SavedOverWeighed, Open

(* The last read: an end that reads saved waits for its confirmation.      *)
LEMMA ReadInv ==
  ASSUME IInv, Read
  PROVE  IInv'
<1>1. UNCHANGED <<made, boot, asks, saved, kept, latest, seal, end>>
      /\ Open /\ judge.at = "settled"
  BY DEF Read
<1>2. /\ BootInv' /\ AnswerInv' /\ KeptStandsForHeard'
      /\ Heard' = Heard /\ Version' = Version
      /\ \A i : Unsaved(i)' <=> Unsaved(i)
  BY <1>1, DecisionKeeps
<1> DEFINE us == Stated(judge.kept, judge.latest)
<1>3. judge \in Judge /\ judge.saved \in DOMAIN made \cup {NoAnswer}
      /\ judge.settled \in BOOLEAN
  BY DEF IInv, TypeOK, JudgeInv, Judge
<1>4. PICK e \in EndOf(judge.saved, us, judge.settled) :
        judge' = IF e.kind = "saved"
                   THEN [judge EXCEPT !.at = "judged", !.saved = e.save]
                   ELSE Decided(e, {})
  BY DEF Read
<1>5. /\ e \in [kind : {"unsaved"}, save : {NoAnswer}]
              \cup [kind : {"saved", "unconfirmed", "lost"}, save : DOMAIN made]
      /\ e.kind = "saved" => \A u \in us : Covers(e.save, u)
  <2> HIDE DEF us
  <2> QED BY <1>3, <1>4, EndIsOf DEF IInv
<1>6. CASE e.kind = "saved"
  <2>1. judge' = [judge EXCEPT !.at = "judged", !.saved = e.save]
    BY <1>4, <1>6
  <2>2. made \in Seq(Item)
    BY DEF IInv, TypeOK, Item
  <2>3. e.save \in DOMAIN made /\ e.save \in Nat
    BY <1>5, <1>6, <2>2, MadeType
  <2>4. judge' \in Judge
    BY <1>3, <2>1, <2>3 DEF Judge
  <2>5. /\ judge'.at = "judged" /\ judge'.saved = e.save
        /\ judge'.version = judge.version /\ judge'.kept = judge.kept
        /\ judge'.latest = judge.latest /\ judge'.over = judge.over
    BY <1>3, <2>1 DEF Judge
  <2>6. ASSUME judge.version = Version, NEW h \in Heard, Unsaved(h)
        PROVE  h < e.save
    <3>1. judge.kept = kept
      BY <1>1, <2>6 DEF IInv, JudgeInv
    <3>2. \A u \in kept : Covers(e.save, u)
      BY <1>5, <1>6, <3>1 DEF Stated
    <3>3. Heard \subseteq DOMAIN made
      BY HeardIsMade DEF IInv
    <3> QED BY <2>3, <2>6, <3>2, <3>3, CoveringIsAfter DEF IInv
  <2>7. JudgeInv'
    BY <1>1, <1>2, <2>3, <2>5, <2>6 DEF IInv, JudgeInv
  <2> QED BY <1>1, <1>2, <2>4, <2>7 DEF IInv, TypeOK, SavedOverWeighed, Open
<1>7. CASE e.kind # "saved"
  <2>1. judge' = Decided(e, {})
    BY <1>4, <1>7
  <2> QED BY <1>1, <1>5, <1>7, <2>1, DecidedHolds
<1> QED BY <1>6, <1>7

(* The row read again: a decision's queue is then another answer's.        *)
LEMMA RereadInv ==
  ASSUME IInv, Reread
  PROVE  IInv'
<1>1. UNCHANGED <<made, boot, asks, saved, kept, latest, seal, end>>
      /\ Open /\ judge.at = "judged" /\ judge' = [judge EXCEPT !.latest = latest]
  BY DEF Reread
<1>2. /\ BootInv' /\ AnswerInv' /\ KeptStandsForHeard'
      /\ Heard' = Heard /\ Version' = Version
      /\ \A i : Unsaved(i)' <=> Unsaved(i)
  BY <1>1, DecisionKeeps
<1>3. latest \in DOMAIN made \cup {NoAnswer} /\ latest \in Nat
  <2>1. made \in Seq(Item)
    BY DEF IInv, TypeOK, Item
  <2>2. DOMAIN made \subseteq Nat
    BY <2>1, MadeType
  <2> QED BY <2>2 DEF IInv, TypeOK, NoAnswer
<1>4. judge \in Judge
  BY DEF IInv, TypeOK
<1>5. judge' \in Judge
  BY <1>1, <1>3, <1>4 DEF Judge
<1>6. /\ judge'.at = "judged" /\ judge'.saved = judge.saved
      /\ judge'.version = judge.version /\ judge'.kept = judge.kept
      /\ judge'.latest = latest /\ judge'.over = judge.over
  BY <1>1, <1>4 DEF Judge
<1>7. JudgeInv'
  BY <1>1, <1>2, <1>3, <1>6 DEF IInv, JudgeInv
<1> QED BY <1>1, <1>2, <1>5, <1>7 DEF IInv, TypeOK, SavedOverWeighed, Open

(* The confirmation of an end that reads saved.                            *)
LEMMA ConfirmInv ==
  ASSUME IInv, Confirm
  PROVE  IInv'
<1>1. UNCHANGED <<made, boot, asks, saved, kept, latest, seal, end>>
      /\ Open /\ judge.at = "judged"
  BY DEF Confirm
<1>2. Heard \subseteq DOMAIN made
  BY HeardIsMade DEF IInv
<1> DEFINE us == Stated(kept, judge.latest)
           ends == IF StillCurrent THEN {[kind |-> "saved", save |-> judge.saved]}
                     ELSE EndOf(saved, us, Settled)
<1>3. PICK e \in ends : judge' = Decided(e, Heard)
  BY DEF Confirm
<1>4. /\ e \in [kind : {"unsaved"}, save : {NoAnswer}]
              \cup [kind : {"saved", "unconfirmed", "lost"}, save : DOMAIN made]
      /\ e.kind = "saved" => \A h \in Heard : Unsaved(h) => h < e.save
  <2>1. CASE StillCurrent
    <3>1. e = [kind |-> "saved", save |-> judge.saved]
      BY <1>3, <2>1
    <3>2. /\ judge.saved \in DOMAIN made
          /\ \A h \in Heard : Unsaved(h) => h < judge.saved
      BY <1>1, <2>1 DEF StillCurrent, IInv, JudgeInv
    <3> QED BY <3>1, <3>2
  <2>2. CASE ~StillCurrent
    <3>1. e \in EndOf(saved, us, Settled)
      BY <1>3, <2>2
    <3>2. saved \in DOMAIN made \cup {NoAnswer} /\ Settled \in BOOLEAN
      BY DEF IInv, TypeOK, Settled
    <3>3. /\ e \in [kind : {"unsaved"}, save : {NoAnswer}]
                  \cup [kind : {"saved", "unconfirmed", "lost"}, save : DOMAIN made]
          /\ e.kind = "saved" => \A u \in us : Covers(e.save, u)
      <4> HIDE DEF us
      <4> QED BY <3>1, <3>2, EndIsOf DEF IInv
    <3>4. ASSUME e.kind = "saved", NEW h \in Heard, Unsaved(h)
          PROVE  h < e.save
      <4>1. e.save \in DOMAIN made
        BY <3>3, <3>4
      <4>2. \A u \in kept : Covers(e.save, u)
        BY <3>3, <3>4 DEF Stated
      <4> QED BY <1>2, <3>4, <4>1, <4>2, CoveringIsAfter DEF IInv
    <3> QED BY <3>3, <3>4
  <2> QED BY <2>1, <2>2
<1> HIDE DEF ends
<1> QED BY <1>1, <1>2, <1>3, <1>4, DecidedHolds

(* The commit of what was decided.                                         *)
LEMMA CommitInv ==
  ASSUME IInv, Commit
  PROVE  IInv'
<1>1. UNCHANGED <<made, boot, asks, saved, kept, latest, seal>>
      /\ judge.at = "decided" /\ judge' = Idle
      /\ end' = [kind |-> judge.kind, save |-> judge.saved, over |-> judge.over]
  BY DEF Commit
<1>2. /\ BootInv' /\ AnswerInv' /\ KeptStandsForHeard'
      /\ Heard' = Heard /\ Version' = Version
      /\ \A i : Unsaved(i)' <=> Unsaved(i)
  BY <1>1, DecisionKeeps
<1>3. JudgeInv' /\ judge' \in Judge
  <2>1. Idle \in Judge
    BY DEF Idle, Judge, NoAnswer
  <2> QED BY <1>1, <1>2, <2>1, VersionType, IdleHolds
<1>4. WeighedInv /\ judge.over \subseteq DOMAIN made
  BY <1>1 DEF IInv, JudgeInv
<1>5. TypeOK'
  BY <1>1, <1>3, <1>4 DEF IInv, TypeOK, WeighedInv
<1>6. SavedOverWeighed'
  BY <1>1, <1>2, <1>4 DEF SavedOverWeighed, WeighedInv
<1> QED BY <1>2, <1>3, <1>5, <1>6 DEF IInv

(* The attestation of a seal.                                              *)
LEMMA AttestInv ==
  ASSUME IInv, Attest
  PROVE  IInv'
<1>1. UNCHANGED <<made, boot, asks, saved, kept, latest, seal, judge>>
      /\ end' = [kind |-> "attested", save |-> seal, over |-> Heard]
  BY DEF Attest
<1>2. seal \in DOMAIN made
  BY DEF Attest, IInv, TypeOK
<1>3. /\ BootInv' /\ AnswerInv' /\ KeptStandsForHeard'
      /\ Heard' = Heard /\ Version' = Version
      /\ \A i : Unsaved(i)' <=> Unsaved(i)
  BY <1>1, DecisionKeeps
<1>4. Grows
  BY <1>1 DEF Grows, IInv, TypeOK, Item
<1>5. JudgeInv'
  BY <1>1, <1>3, <1>4, JudgeStays
<1>6. TypeOK'
  BY <1>1, <1>2, HeardIsMade DEF IInv, TypeOK
<1>7. ASSUME NEW h \in Heard, Unsaved(h)
      PROVE  h < seal
  <2>1. \A u \in kept : Covers(seal, u)
    BY DEF Attest, SealStands
  <2>2. Heard \subseteq DOMAIN made
    BY HeardIsMade DEF IInv
  <2> QED BY <1>2, <1>7, <2>1, <2>2, CoveringIsAfter DEF IInv
<1>8. SavedOverWeighed'
  BY <1>1, <1>3, <1>7 DEF SavedOverWeighed
<1> QED BY <1>3, <1>5, <1>6, <1>8 DEF IInv

(***************************************************************************)
(* The theorems.                                                           *)
(***************************************************************************)

(* The invariant is inductive.                                             *)
LEMMA NextInv == IInv /\ [Next]_vars => IInv'
<1> SUFFICES ASSUME IInv, [Next]_vars PROVE IInv'
  OBVIOUS
<1>1. ASSUME NEW a \in Asks,
             OpenFence(a) \/ Answer(a) \/ Publish(a) \/ Unpublished(a) \/ Unanswered(a)
      PROVE  IInv'
  BY <1>1, OpenFenceInv, AnswerInvariant, PublishInv, UnpublishedInv, UnansweredInv
<1>2. CASE Restart \/ Reboot \/ RecordSeal
  BY <1>2, RestartInv, RebootInv, RecordSealInv
<1>3. CASE \/ ReadRow \/ ReadAnswers \/ ReadSettled \/ Read
           \/ Reread \/ Confirm \/ Commit \/ Attest
  BY <1>3, ReadsInv, ReadInv, RereadInv, ConfirmInv, CommitInv, AttestInv
<1>4. CASE UNCHANGED vars
  <2>1. UNCHANGED <<made, boot, asks, saved, kept, latest, seal>> /\ judge' = judge /\ end' = end
    BY <1>4 DEF vars
  <2>2. /\ BootInv' /\ AnswerInv' /\ KeptStandsForHeard'
        /\ Heard' = Heard /\ Version' = Version
        /\ \A i : Unsaved(i)' <=> Unsaved(i)
    BY <2>1, DecisionKeeps
  <2>3. Grows
    BY <2>1 DEF Grows, IInv, TypeOK, Item
  <2>4. JudgeInv'
    BY <2>1, <2>2, <2>3, JudgeStays
  <2> QED BY <2>1, <2>2, <2>4 DEF IInv, TypeOK, SavedOverWeighed
<1> QED BY <1>1, <1>2, <1>3, <1>4 DEF Next

(* Every variable keeps its type.                                          *)
THEOREM TypeCorrect == Spec => []TypeOK
<1>1. IInv => TypeOK
  BY DEF IInv
<1> QED BY <1>1, InitInv, NextInv, PTL DEF Spec

(* For any number of concurrent asks, boots and kept answers: the unsaved  *)
(* answers kept stand for every one published.                             *)
THEOREM KeptStands == Spec => []KeptStandsForHeard
<1>1. IInv => KeptStandsForHeard
  BY DEF IInv
<1> QED BY <1>1, InitInv, NextInv, PTL DEF Spec

(* An end that reads saved, or a seal attested, names a save the executor  *)
(* made after every unsaved answer that was published when the permit it   *)
(* was weighed under was let go, however the evidence moved meanwhile.     *)
THEOREM SavedIsLast == Spec => []SavedOverWeighed
<1>1. IInv => SavedOverWeighed
  BY DEF IInv
<1> QED BY <1>1, InitInv, NextInv, PTL DEF Spec
=============================================================================
