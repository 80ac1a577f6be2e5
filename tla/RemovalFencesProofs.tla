------------------------ MODULE RemovalFencesProofs ------------------------
(***************************************************************************)
(* That a deletion has the place to itself, for any number of projects,    *)
(* worktrees, sessions, starts and removals.                               *)
(***************************************************************************)
EXTENDS RemovalFences, TLAPS

USE ConstantsAssumption

-----------------------------------------------------------------------------
(* The invariant. *)

At(a, ats) == try[a] # None /\ try[a].at \in ats

\* Marks stand on rows that are there; what a mark or an attempt names was begun.
RowInv ==
  /\ \A r \in Row : row[r] # "there" => mark[r] = NoMark
  /\ \A r \in ruined : row[r] # "none"
  /\ \A r \in Row : mark[r].id # None => try[mark[r].id] # None /\ try[mark[r].id].row = r
  /\ \A a \in Attempt : try[a] # None => row[try[a].row] # "none"

\* Where attempt a stands, its row's mark agrees.
TryOf(a) ==
  /\ At(a, {"confirmed"}) => try[a].row \in Project
  /\ At(a, {"reading"}) /\ Own(a) => mark[try[a].row].phase = "checking"
  /\ At(a, {"ask", "act"}) /\ row[try[a].row] = "there" => mark[try[a].row].phase = "deleting"
  /\ At(a, {"ask", "act"}) /\ try[a].row \in Project => try[a].era = era[try[a].row]
  /\ At(a, {"act"}) /\ a \notin slept /\ row[try[a].row] = "there" =>
       Own(a) /\ mark[try[a].row].fresh

TryInv == \A a \in Attempt : TryOf(a)

\* A deleting mark that is given back is one nobody deleted under.
BackInv ==
  \A b \in Attempt : At(b, {"giveBack"}) /\ Own(b) /\ mark[try[b].row].phase = "deleting" =>
    /\ try[b].row \notin ruined
    /\ \A a \in Attempt : At(a, {"ask", "act"}) => try[a].row # try[b].row

\* A sound admission is of a start, and has not lapsed.
SoundInv == \A x \in sound : start[x] # None /\ start[x].admission # "stale"

\* Of session s no sound admission is left; nothing soundly let in is live, or runs.
NoSound(s) == Admissions(s) \cap sound = {}
NoLive(s) == status[s] = "live" => s \in stray
NoRuns(s) == Running(s) \subseteq stray

\* What attempt a has read of worktree w is so.
Seen(a, w) ==
  LET l == try[a].look[w] IN
  \A s \in SessionsIn(w) :
    /\ l.at # "starts" /\ (l.at = "sessions" => s \notin l.starting) => NoSound(s)
    /\ (l.at = "sessions" /\ s \notin l.left) \/ l.at \in {"processes", "read"} =>
         NoSound(s) /\ NoLive(s)
    /\ (l.at = "processes" /\ s \notin l.left) \/ l.at = "read" => NoRuns(s)

\* What a standing check has read stays so.
ReadInv ==
  \A a \in Attempt : At(a, {"reading"}) /\ StillChecking(a) =>
    \A w \in ToRead(try[a].row) : Seen(a, w)

DoomInv == \A w \in Worktree : row[w] = "there" /\ Doomed(w) =>
  \A s \in SessionsIn(w) : NoSound(s) /\ NoLive(s) /\ NoRuns(s)

Inv ==
  /\ RowInv /\ TryInv /\ BackInv /\ SoundInv /\ ReadInv /\ DoomInv
  /\ MarksApart /\ RuinedStaysMarked /\ OneDeletes

-----------------------------------------------------------------------------
(* Types. *)

Ats == {"reading", "confirmed", "ask", "act", "giveBack", "over"}

\* Attempt a alone moves, to row r and place p.
Moved(a, r, p) ==
  /\ try' \in [Attempt -> Try \cup {None}]
  /\ try'[a] \in Try /\ try'[a] # None
  /\ try'[a].row = r /\ try'[a].at = p
  /\ \A b \in Attempt \ {a} : try'[b] = try[b]

\* An attempt that begins is well typed.
LEMMA Begins ==
  ASSUME TypeOK, NEW a \in Attempt, NEW x \in Try, try' = [try EXCEPT ![a] = x]
  PROVE  Moved(a, x.row, x.at) /\ try'[a] = x
<1>1. try \in [Attempt -> Try \cup {None}]
  BY DEF TypeOK
<1> QED
  BY <1>1 DEF Moved

\* An attempt that goes on keeps its row and the removal it is for.
LEMMA GoesOn ==
  ASSUME TypeOK, NEW a \in Attempt, try[a] # None, NEW to \in Ats, Goes(a, to)
  PROVE  Moved(a, try[a].row, to) /\ try'[a].era = try[a].era
<1>1. try \in [Attempt -> Try \cup {None}] /\ try[a] \in Try
  BY DEF TypeOK
<1>2. [w \in Worktree |-> Read] \in [Worktree -> Look]
  BY DEF Read, Look
<1> DEFINE n == IF to = "over" THEN 0 ELSE try[a].left
<1> DEFINE x == [try[a] EXCEPT !.at = to, !.look = [w \in Worktree |-> Read], !.left = n]
<1>3. n \in 0..Steps
  BY <1>1 DEF Try
<1>4. x \in Try
  <2> HIDE DEF n
  <2> QED
    BY <1>1, <1>2, <1>3 DEF Try, Ats
<1>5. x.at = to /\ x.row = try[a].row /\ x.era = try[a].era
  BY <1>1 DEF Try
<1>6. try' = [try EXCEPT ![a] = x]
  BY <1>1 DEF Goes
<1> HIDE DEF x
<1> QED
  BY <1>4, <1>5, <1>6, Begins

\* An attempt that looks on stays where it is.
LEMMA LooksOn ==
  ASSUME TypeOK, NEW a \in Attempt, try[a] # None, NEW w \in Worktree, NEW l \in Look,
         Looks(a, w, l)
  PROVE  /\ Moved(a, try[a].row, try[a].at) /\ try'[a].era = try[a].era
         /\ try'[a].look = [try[a].look EXCEPT ![w] = l]
<1>1. try \in [Attempt -> Try \cup {None}] /\ try[a] \in Try
  BY DEF TypeOK
<1> DEFINE x == [try[a] EXCEPT !.look = [try[a].look EXCEPT ![w] = l]]
<1>3. x \in Try /\ x.at = try[a].at /\ x.row = try[a].row /\ x.era = try[a].era
      /\ x.look = [try[a].look EXCEPT ![w] = l]
  BY <1>1 DEF Try
<1>4. try' = [try EXCEPT ![a] = x]
  BY <1>1 DEF Looks
<1> QED
  BY <1>1, <1>3, <1>4, Begins

\* What an attempt's own row and marks are.
LEMMA TryTypes ==
  ASSUME TypeOK, NEW a \in Attempt, try[a] # None
  PROVE  /\ try[a] \in Try /\ try[a].row \in Row /\ try[a].at \in Ats /\ try[a].era \in Nat
         /\ try[a].left \in 0..Steps /\ try[a].look \in [Worktree -> Look]
<1>1. try[a] \in Try
  BY DEF TypeOK
<1> QED
  BY <1>1 DEF Try, Ats

Mark == [phase : Phase, id : Attempt \cup {None}, fresh : BOOLEAN]

\* The part of the types that speaks of marks.
MarkType ==
  /\ mark \in [Row -> Mark]
  /\ \A r \in Row : mark[r].phase = "none" <=> mark[r].id = None
  /\ \A w \in Worktree : mark[w].phase # "removed"
  /\ \A p \in Project : row[p] = "there" =>
       (p \notin listed <=> mark[p].phase \in {"removed", "deleting"})

\* The part that speaks of work.
WorkType ==
  /\ status \in [Session -> {"live", "settled"}]
  /\ start \in [Start -> StartState \cup {None}]
  /\ sound \subseteq Start /\ stray \subseteq Session \cup Start

TypeParts ==
  /\ row \in [Row -> {"none", "there", "gone"}]
  /\ era \in [Project -> Nat] /\ listed \subseteq Project
  /\ try \in [Attempt -> Try \cup {None}]
  /\ ruined \subseteq Row /\ slept \subseteq Attempt

LEMMA TypeIsParts == TypeOK <=> MarkType /\ WorkType /\ TypeParts
BY DEF TypeOK, MarkType, WorkType, TypeParts, Mark

LEMMA TypePartsNext == TypeOK' <=> MarkType' /\ WorkType' /\ TypeParts'
BY DEF TypeOK, MarkType, WorkType, TypeParts, Mark

\* A start's record that changes keeps its type.
LEMMA StartType ==
  ASSUME TypeOK, NEW x \in Start, start[x] # None
  PROVE  /\ start[x] \in StartState /\ start[x].session \in Session
         /\ \A l \in {"fresh", "stale", "none"} :
              /\ [start[x] EXCEPT !.admission = l] \in StartState
              /\ [start[x] EXCEPT !.at = "over", !.admission = l] \in StartState
         /\ \A b \in BOOLEAN : [start[x] EXCEPT !.process = b] \in StartState
<1>1. start[x] \in StartState
  BY DEF TypeOK
<1> QED
  BY <1>1 DEF StartState

\* Work keeps its types.
LEMMA WorkTypes == ASSUME TypeOK, Works PROVE TypeOK'
<1> DEFINE Quieter == UNCHANGED <<try, mark, era, listed, ruined, slept>>
<1>1. ASSUME NEW x \in Start, NEW s \in Session, Admit(x, s) PROVE TypeOK'
  <2>1. [session |-> s, at |-> "admitted", admission |-> "fresh", process |-> FALSE] \in StartState
    BY DEF StartState
  <2> QED
    BY <1>1, <2>1 DEF Admit, TypeOK, tables
<1>2. ASSUME NEW x \in Start, RenewAdmission(x) PROVE TypeOK'
  BY <1>2, StartType DEF RenewAdmission, TypeOK, tables
<1>3. ASSUME NEW x \in Start, EndStart(x) PROVE TypeOK'
  <2>1. PICK l \in {"none", start[x].admission} :
          start' = [start EXCEPT ![x].at = "over", ![x].admission = l]
    BY <1>3 DEF EndStart
  <2>2. start[x] # None /\ start[x] \in StartState
    BY <1>3, StartType DEF EndStart
  <2>3. l \in {"fresh", "stale", "none"}
    BY <2>2 DEF StartState
  <2>4. start' = [start EXCEPT ![x] = [start[x] EXCEPT !.at = "over", !.admission = l]]
    BY <2>1, <2>2 DEF TypeOK
  <2>5. [start[x] EXCEPT !.at = "over", !.admission = l] \in StartState
    BY <2>2, <2>3, StartType
  <2> QED
    BY <1>3, <2>4, <2>5 DEF EndStart, TypeOK, tables
<1>4. ASSUME NEW x \in Start, LapseAdmission(x) PROVE TypeOK'
  BY <1>4, StartType DEF LapseAdmission, TypeOK, tables
<1>5. ASSUME NEW x \in Start, GoLive(x) PROVE TypeOK'
  <2>1. start[x].session \in Session
    BY <1>5, StartType DEF GoLive
  <2> QED
    BY <1>5, <2>1 DEF GoLive, TypeOK, tables
<1>6. ASSUME NEW x \in Start, OpenProcess(x) PROVE TypeOK'
  BY <1>6, StartType DEF OpenProcess, TypeOK, tables
<1>7. ASSUME NEW x \in Start, ExitProcess(x) PROVE TypeOK'
  BY <1>7, StartType DEF ExitProcess, TypeOK, tables
<1>8. ASSUME NEW s \in Session, Settle(s) PROVE TypeOK'
  BY <1>8 DEF Settle, TypeOK, tables
<1>9. ASSUME NEW w \in Worktree, CreateWorktree(w) PROVE TypeOK'
  BY <1>9 DEF CreateWorktree, TypeOK, work, Row
<1> QED
  BY <1>1, <1>2, <1>3, <1>4, <1>5, <1>6, <1>7, <1>8, <1>9 DEF Works

\* A removal that takes its mark begins to read, or goes to finish.
LEMMA TakeMoves ==
  ASSUME TypeOK, NEW a \in Attempt, NEW r \in Row, Take(a, r)
  PROVE  /\ Moved(a, r, IF Marked(r) THEN "ask" ELSE "reading")
         /\ ~Marked(r) => try'[a].look = [w \in Worktree |-> IF w \in ToRead(r) THEN Unread ELSE Read]
<1> DEFINE l == [w \in Worktree |-> IF w \in ToRead(r) /\ ~Marked(r) THEN Unread ELSE Read]
           x == [row |-> r, era |-> 0, left |-> Steps,
                 at |-> IF Marked(r) THEN "ask" ELSE "reading", look |-> l]
<1>1. l \in [Worktree -> Look]
  BY DEF Unread, Read, Look
<1>2. x \in Try
  <2> HIDE DEF l
  <2> QED
    BY <1>1 DEF Try
<1>3. try' = [try EXCEPT ![a] = x]
  BY DEF Take
<1>4. Moved(a, x.row, x.at) /\ try'[a] = x
  <2> HIDE DEF x
  <2> QED
    BY <1>2, <1>3, Begins
<1> QED
  BY <1>4

\* A person who confirms a purge begins it.
LEMMA ConfirmMoves ==
  ASSUME TypeOK, NEW a \in Attempt, NEW p \in Project, Confirm(a, p)
  PROVE  Moved(a, p, "confirmed") /\ try'[a].era = era[p]
<1> DEFINE x == [row |-> p, era |-> era[p], left |-> Steps, at |-> "confirmed",
                 look |-> [w \in Worktree |-> Read]]
<1>1. [w \in Worktree |-> Read] \in [Worktree -> Look]
  BY DEF Read, Look
<1>2. x \in Try
  BY <1>1 DEF Try, TypeOK, Row
<1>3. try' = [try EXCEPT ![a] = x]
  BY DEF Confirm
<1> HIDE DEF x
<1>4. Moved(a, x.row, x.at) /\ try'[a] = x
  BY <1>2, <1>3, Begins
<1> QED
  BY <1>4 DEF x

\* What is read of a worktree is a look.
LEMMA LookTypes ==
  ASSUME TypeOK, NEW a \in Attempt, try[a] # None, NEW w \in Worktree
  PROVE  /\ try[a].look[w] \in Look
         /\ try[a].look[w].left \subseteq Session /\ try[a].look[w].starting \subseteq Session
<1>1. try[a].look[w] \in Look
  BY TryTypes
<1> QED
  BY <1>1 DEF Look

\* Reading moves the look at one worktree, or ends the reading.
LEMMA ReadMoves ==
  ASSUME TypeOK, NEW a \in Attempt, NEW w \in Worktree, NEW s,
         ReadStarts(a, w) \/ ReadSession(a, w, s) \/ ReadProcesses(a, w, s)
  PROVE  /\ try[a] # None /\ try[a].at = "reading" /\ UNCHANGED <<tables, work, ruined, slept>>
         /\ \/ Moved(a, try[a].row, "giveBack")
            \/ /\ Moved(a, try[a].row, "reading")
               /\ \E l \in Look : try'[a].look = [try[a].look EXCEPT ![w] = l] /\ Looks(a, w, l)
<1>1. try[a] # None /\ try[a].at = "reading" /\ UNCHANGED <<tables, work, ruined, slept>>
  BY DEF ReadStarts, ReadSession, ReadProcesses, Reading
<1>2. ASSUME NEW l \in Look, Looks(a, w, l)
      PROVE  Moved(a, try[a].row, "reading") /\ try'[a].look = [try[a].look EXCEPT ![w] = l]
  BY <1>1, <1>2, LooksOn
<1>3. CASE ReadStarts(a, w)
  <2> DEFINE l == IF SessionsIn(w) = {} THEN Read
                  ELSE [at |-> "sessions", starting |-> StartingIn(w), left |-> SessionsIn(w)]
  <2>1. l \in Look
    BY DEF Look, Read, StartingIn, SessionsIn
  <2>2. Looks(a, w, l)
    BY <1>3 DEF ReadStarts
  <2> HIDE DEF l
  <2> QED
    BY <1>1, <1>2, <2>1, <2>2
<1>4. CASE ReadSession(a, w, s)
  <2> DEFINE k == try[a].look[w]
             l == IF k.left = {s} THEN [k EXCEPT !.at = "processes", !.left = SessionsIn(w)]
                  ELSE [k EXCEPT !.left = k.left \ {s}]
  <2>1. l \in Look
    BY <1>1, LookTypes DEF Look, SessionsIn
  <2>2. Goes(a, "giveBack") \/ Looks(a, w, l)
    BY <1>4 DEF ReadSession
  <2> HIDE DEF l
  <2> QED
    BY <1>1, <1>2, <2>1, <2>2, GoesOn DEF Ats
<1>5. CASE ReadProcesses(a, w, s)
  <2> DEFINE k == try[a].look[w]
             l == IF k.left = {s} THEN Read ELSE [k EXCEPT !.left = k.left \ {s}]
  <2>1. l \in Look
    BY <1>1, LookTypes DEF Look, Read
  <2>2. Goes(a, "giveBack") \/ Looks(a, w, l)
    BY <1>5 DEF ReadProcesses
  <2> HIDE DEF l
  <2> QED
    BY <1>1, <1>2, <2>1, <2>2, GoesOn DEF Ats
<1> QED
  BY <1>3, <1>4, <1>5

\* Handing over takes only the freshness of a deleting mark of a's own.
LEMMA HandsOver ==
  ASSUME TypeOK, NEW a \in Attempt, try[a] # None
  PROVE  /\ HandedOver(a) \in [Row -> Mark]
         /\ \A q \in Row :
              /\ HandedOver(a)[q].phase = mark[q].phase /\ HandedOver(a)[q].id = mark[q].id
              /\ HandedOver(a)[q].fresh => mark[q].fresh
              /\ \/ HandedOver(a)[q] = mark[q]
                 \/ q = try[a].row /\ Own(a) /\ mark[q].phase = "deleting"
<1>1. mark \in [Row -> Mark] /\ try[a].row \in Row
  BY TryTypes DEF TypeOK, Mark
<1>2. [mark[try[a].row] EXCEPT !.fresh = FALSE] \in Mark
  BY <1>1 DEF Mark
<1> QED
  BY <1>1, <1>2 DEF HandedOver, Mark

\* Giving back clears a mark of a's own, of a project only while it is checked.
LEMMA Gives ==
  ASSUME TypeOK, NEW a \in Attempt, try[a] # None
  PROVE  /\ Released(a) \in [Row -> Mark]
         /\ \A q \in Row :
              \/ Released(a)[q] = mark[q]
              \/ /\ q = try[a].row /\ Own(a) /\ Released(a)[q] = NoMark
                 /\ q \in Project => mark[q].phase = "checking"
<1>1. mark \in [Row -> Mark] /\ try[a].row \in Row
  BY TryTypes DEF TypeOK, Mark
<1>2. NoMark \in Mark
  BY DEF NoMark, Mark, Phase
<1> QED
  BY <1>1, <1>2 DEF Released

\* A mark that is set.
LEMMA Sets ==
  ASSUME TypeOK, NEW a \in Attempt, NEW r \in Row, NEW ph \in Phase, WithMark(r, ph, a)
  PROVE  /\ mark' \in [Row -> Mark]
         /\ mark'[r].phase = ph /\ mark'[r].id = a /\ mark'[r].fresh = TRUE
         /\ \A q \in Row \ {r} : mark'[q] = mark[q]
<1>1. mark \in [Row -> Mark]
  BY DEF TypeOK, Mark
<1>2. [phase |-> ph, id |-> a, fresh |-> TRUE] \in Mark
  BY DEF Mark
<1> QED
  BY <1>1, <1>2 DEF WithMark

\* The same for the row an attempt is about.
LEMMA SetsOwn ==
  ASSUME TypeOK, NEW a \in Attempt, try[a].row \in Row, WithMark(try[a].row, "deleting", a)
  PROVE  /\ mark' \in [Row -> Mark]
         /\ mark'[try[a].row].phase = "deleting" /\ mark'[try[a].row].id = a
         /\ mark'[try[a].row].fresh = TRUE
         /\ \A q \in Row \ {try[a].row} : mark'[q] = mark[q]
<1>1. mark \in [Row -> Mark]
  BY DEF TypeOK, Mark
<1>2. [phase |-> "deleting", id |-> a, fresh |-> TRUE] \in Mark
  BY DEF Mark, Phase
<1> QED
  BY <1>1, <1>2 DEF WithMark

\* Projects and worktrees are rows, and only one of them.
LEMMA RowFacts ==
  /\ Project \subseteq Row /\ Worktree \subseteq Row
  /\ \A w \in Worktree : w \notin Project /\ ProjectOf[w] \in Project
BY DEF Row

\* The last step of a deletion takes its rows and their marks.
LEMMA ActMoves ==
  ASSUME TypeOK, NEW a \in Attempt, Act(a)
  PROVE  /\ try[a] # None /\ try[a].at = "act" /\ try[a].row \in Row
         /\ Moved(a, try[a].row, "ask") \/ Moved(a, try[a].row, "over")
         /\ try'[a].era = try[a].era
         /\ UNCHANGED <<era, listed, work, slept>>
         /\ ruined' = IF row[try[a].row] = "there" THEN ruined \cup {try[a].row} ELSE ruined
         /\ mark' \in [Row -> Mark]
         /\ row' \in [Row -> {"none", "there", "gone"}]
         /\ \A q \in Row :
              \/ /\ row'[q] = row[q]
                 /\ mark'[q].phase = mark[q].phase /\ mark'[q].id = mark[q].id
                 /\ mark'[q].fresh => mark[q].fresh
                 /\ \/ mark'[q] = mark[q]
                    \/ q = try[a].row /\ Own(a) /\ mark[q].phase = "deleting" /\ try'[a].at = "over"
              \/ row'[q] = "gone" /\ mark'[q] = NoMark
<1>0. try[a] # None /\ try[a].at = "act" /\ try[a].row \in Row
      /\ UNCHANGED <<era, listed, work, slept>>
      /\ ruined' = IF row[try[a].row] = "there" THEN ruined \cup {try[a].row} ELSE ruined
  BY TryTypes DEF Act
<1> DEFINE r == try[a].row
           gone == {r} \cup IF r \in Project THEN WorktreesOf(r) ELSE {}
<1>1. mark \in [Row -> Mark] /\ row \in [Row -> {"none", "there", "gone"}] /\ NoMark \in Mark
  BY DEF TypeOK, Mark, NoMark, Phase
<1>2. CASE try[a].left > 1
  <2>1. try' = [try EXCEPT ![a].at = "ask", ![a].left = try[a].left - 1]
        /\ row' = row /\ mark' = mark
    BY <1>2 DEF Act
  <2> DEFINE x == [try[a] EXCEPT !.at = "ask", !.left = try[a].left - 1]
  <2>2. try[a].left - 1 \in 0..Steps
    BY <1>0, <1>2, TryTypes
  <2>3. x \in Try /\ x.row = r /\ x.era = try[a].era /\ x.at = "ask"
    BY <1>0, <2>2, TryTypes DEF Try
  <2>4. try' = [try EXCEPT ![a] = x]
    BY <2>1 DEF TypeOK
  <2>5. Moved(a, r, "ask") /\ try'[a].era = try[a].era
    <3> HIDE DEF x
    <3>1. Moved(a, x.row, x.at) /\ try'[a] = x
      BY <2>3, <2>4, Begins
    <3> QED
      BY <2>3, <3>1
  <2> QED
    BY <1>0, <1>1, <2>1, <2>5
<1>3. CASE ~(try[a].left > 1)
  <2>1. Goes(a, "over")
    BY <1>3 DEF Act
  <2>2. Moved(a, r, "over") /\ try'[a].era = try[a].era /\ try'[a].at = "over"
    BY <1>0, <2>1, GoesOn DEF Ats, Moved
  <2>3. CASE mark' = HandedOver(a) /\ row' = row
    BY <1>0, <1>1, <2>2, <2>3, HandsOver
  <2>4. CASE /\ row' = [q \in Row |-> IF q \in gone THEN "gone" ELSE row[q]]
             /\ mark' = [q \in Row |-> IF q \in gone THEN NoMark ELSE mark[q]]
    <3> HIDE DEF gone
    <3>1. mark' \in [Row -> Mark] /\ row' \in [Row -> {"none", "there", "gone"}]
      BY <1>1, <2>4
    <3>2. \A q \in Row : (row'[q] = row[q] /\ mark'[q] = mark[q]) \/ (row'[q] = "gone" /\ mark'[q] = NoMark)
      BY <1>1, <2>4
    <3> QED
      BY <1>0, <2>2, <3>1, <3>2
  <2> QED
    BY <1>3, <2>3, <2>4 DEF Act
<1> QED
  BY <1>2, <1>3

\* What the last step of a deletion leaves is not what it deleted.
LEMMA ActTakes ==
  ASSUME TypeOK, NEW a \in Attempt, Act(a), try'[a].at = "over",
         NEW q \in Row, row'[q] = row[q], row[q] = "there"
  PROVE  q = try[a].row => q \in Project
<1>1. try[a] # None /\ try[a].at = "act"
  BY DEF Act
<1>2. ~(try[a].left > 1)
  <2> SUFFICES ASSUME try[a].left > 1 PROVE FALSE
    OBVIOUS
  <2>1. try' = [try EXCEPT ![a].at = "ask", ![a].left = try[a].left - 1]
    BY DEF Act
  <2> QED
    BY <1>1, <2>1, TryTypes DEF TypeOK, Try
<1> QED
  BY <1>2, RowFacts DEF Act, Row

\* Marks that neither name nobody nor change a listed project's phase keep their types.
LEMMA MarkKept ==
  ASSUME TypeOK, UNCHANGED <<row, listed>>, mark' \in [Row -> Mark],
         \A q \in Row :
           /\ mark'[q].phase = "none" <=> mark'[q].id = None
           /\ mark'[q].phase = "removed" => mark[q].phase = "removed"
           /\ q \in Project /\ row[q] = "there" =>
                (mark'[q].phase \in {"removed", "deleting"} <=> mark[q].phase \in {"removed", "deleting"})
  PROVE  MarkType'
BY TypeIsParts, RowFacts DEF MarkType

\* A mark that is renewed or lapses is otherwise as it was.
LEMMA Freshens ==
  ASSUME TypeOK, NEW r \in Row, NEW b \in BOOLEAN, mark' = [mark EXCEPT ![r].fresh = b]
  PROVE  /\ mark' \in [Row -> Mark] /\ mark'[r].fresh = b
         /\ \A q \in Row : mark'[q].phase = mark[q].phase /\ mark'[q].id = mark[q].id
         /\ \A q \in Row \ {r} : mark'[q] = mark[q]
<1>1. mark \in [Row -> Mark] /\ mark[r] \in Mark
  BY TypeIsParts DEF MarkType
<1>2. mark' = [mark EXCEPT ![r] = [mark[r] EXCEPT !.fresh = b]]
  BY <1>1
<1>3. [mark[r] EXCEPT !.fresh = b] \in Mark
  BY <1>1 DEF Mark
<1> QED
  BY <1>1, <1>2, <1>3 DEF Mark

\* Renewing and lapsing keep the marks' types.
LEMMA FreshType ==
  ASSUME TypeOK, UNCHANGED <<row, listed>>, NEW r \in Row, NEW b \in BOOLEAN,
         mark' = [mark EXCEPT ![r].fresh = b]
  PROVE  MarkType'
<1>1. mark' \in [Row -> Mark]
      /\ \A q \in Row : mark'[q].phase = mark[q].phase /\ mark'[q].id = mark[q].id
  BY Freshens
<1> QED
  BY <1>1, MarkKept, TypeIsParts DEF MarkType

\* So does setting a mark, if a listed project's phase is checking or as it was.
LEMMA SetType ==
  ASSUME TypeOK, UNCHANGED <<row, listed>>, NEW a \in Attempt, NEW r \in Row,
         NEW ph \in {"checking", "deleting"}, WithMark(r, ph, a),
         r \in Project /\ row[r] = "there" =>
           (ph = "deleting" <=> mark[r].phase \in {"removed", "deleting"})
  PROVE  MarkType'
<1>1. ph \in Phase
  BY DEF Phase
<1>2. mark' \in [Row -> Mark] /\ mark'[r].phase = ph /\ mark'[r].id = a /\ mark'[r].fresh = TRUE
      /\ \A q \in Row \ {r} : mark'[q] = mark[q]
  BY <1>1, Sets
<1>3. ASSUME NEW q \in Row
      PROVE  /\ mark'[q].phase = "none" <=> mark'[q].id = None
             /\ mark'[q].phase = "removed" => mark[q].phase = "removed"
             /\ q \in Project /\ row[q] = "there" =>
                  (mark'[q].phase \in {"removed", "deleting"}
                     <=> mark[q].phase \in {"removed", "deleting"})
  BY <1>2, TypeIsParts DEF MarkType
<1> QED
  BY <1>2, <1>3, MarkKept

\* Only its attempt moves: the other types are those of marks.
LEMMA MovedType ==
  ASSUME TypeOK, NEW a \in Attempt, NEW r, NEW p, Moved(a, r, p), UNCHANGED <<row, era, listed, work, ruined>>,
         slept' \subseteq Attempt, MarkType'
  PROVE  TypeOK'
BY TypeIsParts, TypePartsNext DEF TypeParts, WorkType, Moved, work

\* Removals keep the types.
LEMMA RemoveTypes == ASSUME TypeOK, NEW a \in Attempt, Removes(a) PROVE TypeOK'
<1> USE TypeIsParts, RowFacts DEF Ats
<1>1. ASSUME NEW r \in Row, Take(a, r) PROVE TypeOK'
  <2>1. WithMark(r, IF Marked(r) THEN "deleting" ELSE "checking", a)
    BY <1>1 DEF Take
  <2>2. (IF Marked(r) THEN "deleting" ELSE "checking") \in {"checking", "deleting"}
    OBVIOUS
  <2>3. r \in Project => r \in listed /\ row[r] = "there"
    BY <1>1 DEF Take
  <2>4. r \in Project => ~Marked(r)
    BY <1>1, <2>3 DEF Take, Marked, MarkType
  <2>5. MarkType'
    <3>1. r \in Project => mark[r].phase \notin {"removed", "deleting"}
      BY <2>3, <2>4 DEF Marked
    <3> QED
      BY <1>1, <2>1, <2>2, <2>4, <3>1, SetType DEF Take
  <2> QED
    BY <1>1, <2>5, TakeMoves, MovedType DEF Take, TypeParts
<1>2. CASE Renew(a)
  <2>1. try[a].row \in Row
    BY <1>2, TryTypes DEF Renew
  <2>2. MarkType'
    BY <1>2, <2>1, FreshType DEF Renew
  <2>3. TypeParts' /\ WorkType'
    BY <1>2 DEF Renew, TypeParts, WorkType, work
  <2> QED
    BY <2>2, <2>3, TypePartsNext
<1>3. ASSUME NEW w \in Worktree, NEW s,
             ReadStarts(a, w) \/ ReadSession(a, w, s) \/ ReadProcesses(a, w, s)
      PROVE  TypeOK'
  <2>1. /\ UNCHANGED <<tables, work, ruined, slept>>
        /\ Moved(a, try[a].row, "giveBack") \/ Moved(a, try[a].row, "reading")
    BY <1>3, ReadMoves
  <2> QED
    BY <2>1, MovedType DEF tables, MarkType, TypeParts
<1>4. CASE Refuse(a) \/ Crash(a)
  BY <1>4, GoesOn, MovedType DEF Refuse, Crash, tables, MarkType, TypeParts
<1>5. CASE GiveBack(a)
  <2>1. MarkType'
    BY <1>5, Gives DEF GiveBack, MarkType, NoMark
  <2> QED
    BY <1>5, <2>1, GoesOn, MovedType DEF GiveBack, TypeParts
<1>6. CASE Commit(a)
  <2>1. try[a] # None /\ try[a].row \in Row \ Project
    BY <1>6, RowFacts DEF Commit
  <2>2. MarkType'
    BY <1>6, <2>1, SetType DEF Commit, MarkType
  <2> QED
    BY <1>6, <2>2, GoesOn, MovedType DEF Commit, TypeParts
<1>7. CASE Keep(a)
  <2> DEFINE p == try[a].row
  <2>1. try[a] # None /\ p \in Project /\ p \in Row
    BY <1>7, RowFacts DEF Keep
  <2>2. Moved(a, p, "over") \/ Moved(a, p, "giveBack")
    BY <1>7, <2>1, GoesOn DEF Keep
  <2>3. CASE UNCHANGED <<mark, listed, era>>
    BY <1>7, <2>2, <2>3, MovedType DEF Keep, MarkType, TypeParts
  <2>4. CASE /\ mark' = [mark EXCEPT ![p].phase = "removed"] /\ StillChecking(a)
             /\ listed' = listed \ {p} /\ era' = [era EXCEPT ![p] = @ + 1]
    <3>1. MarkType'
      BY <1>7, <2>1, <2>4 DEF Keep, MarkType, Mark, Phase, StillChecking, Own
    <3>2. TypeParts' /\ WorkType'
      BY <1>7, <2>2, <2>4 DEF Keep, TypeParts, Moved, WorkType, work
    <3> QED
      BY <3>1, <3>2, TypePartsNext
  <2> QED
    BY <1>7, <2>3, <2>4 DEF Keep
<1>8. ASSUME NEW p \in Project, Confirm(a, p) PROVE TypeOK'
  <2>1. Moved(a, p, "confirmed") /\ UNCHANGED <<tables, work, ruined, slept>>
    BY <1>8, ConfirmMoves DEF Confirm
  <2> QED
    BY <2>1, MovedType DEF tables, MarkType, TypeParts
<1>9. CASE TakePurge(a)
  <2>1. try[a] # None /\ try[a].row \in Row
    BY <1>9, TryTypes DEF TakePurge
  <2>2. MarkType'
    <3>1. CASE UNCHANGED mark
      BY <1>9, <3>1 DEF TakePurge, MarkType
    <3>2. CASE WithMark(try[a].row, "deleting", a) /\ StillConfirmed(a)
      <4>1. try[a].row \in Project /\ row[try[a].row] = "there" =>
              mark[try[a].row].phase \in {"removed", "deleting"}
        BY <3>2 DEF StillConfirmed, MarkType
      <4> QED
        BY <1>9, <2>1, <3>2, <4>1, SetType DEF TakePurge
    <3> QED
      BY <1>9, <3>1, <3>2 DEF TakePurge
  <2> QED
    BY <1>9, <2>2, GoesOn, MovedType DEF TakePurge, TypeParts
<1>10. CASE Ask(a)
  <2>1. try[a] # None /\ try[a].row \in Row
    BY <1>10, TryTypes DEF Ask
  <2>2. MarkType'
    <3>1. CASE mark' = HandedOver(a)
      BY <1>10, <2>1, <3>1, HandsOver DEF Ask, MarkType
    <3>2. CASE mark' = [mark EXCEPT ![try[a].row].fresh = TRUE]
      BY <1>10, <2>1, <3>2, FreshType DEF Ask
    <3> QED
      BY <1>10, <3>1, <3>2 DEF Ask
  <2> QED
    BY <1>10, <2>2, GoesOn, MovedType DEF Ask, TypeParts
<1>11. CASE Act(a)
  <2>1. MarkType'
    BY <1>11, ActMoves DEF MarkType, NoMark
  <2>2. TypeParts' /\ WorkType'
    BY <1>11, ActMoves DEF TypeParts, Moved, WorkType, work
  <2> QED
    BY <2>1, <2>2, TypePartsNext
<1>12. CASE Fail(a)
  <2>1. MarkType'
    BY <1>12, HandsOver DEF Fail, MarkType
  <2> QED
    BY <1>12, <2>1, GoesOn, MovedType DEF Fail, TypeParts
<1> QED
  BY <1>1, <1>2, <1>3, <1>4, <1>5, <1>6, <1>7, <1>8, <1>9, <1>10, <1>11, <1>12 DEF Removes

\* The types hold at the start.
LEMMA TypeInit == Init => TypeOK
BY DEF Init, TypeOK, NoMark, Phase, Row

LEMMA TypeStep == TypeOK /\ [Next]_vars => TypeOK'
<1> SUFFICES ASSUME TypeOK, [Next]_vars PROVE TypeOK'
  OBVIOUS
<1>1. ASSUME NEW r \in Row, Lapse(r) PROVE TypeOK'
  <2>1. MarkType'
    BY <1>1, FreshType DEF Lapse
  <2>2. TypeParts' /\ WorkType'
    BY <1>1, TypeIsParts DEF Lapse, TypeParts, WorkType, work
  <2> QED
    BY <2>1, <2>2, TypePartsNext
<1>2. ASSUME NEW p \in Project, Restore(p) PROVE TypeOK'
  BY <1>2, RowFacts DEF Restore, TypeOK, work, NoMark, Phase
<1>3. CASE UNCHANGED vars
  BY <1>3 DEF vars, TypeOK
<1> QED
  BY <1>1, <1>2, <1>3, WorkTypes, RemoveTypes DEF Next

\* Every variable keeps its type; a project is listed exactly while it is not removed.
THEOREM TypeCorrect == Spec => []TypeOK
BY TypeInit, TypeStep, PTL DEF Spec

-----------------------------------------------------------------------------
(* Rows, marks and attempts. *)

\* Reading, refusing and crashing: the attempt alone moves, back, on or away.
Looking(a) ==
  /\ try[a] # None /\ UNCHANGED <<row, mark, era, listed, work, ruined, slept>>
  /\ \/ Moved(a, try[a].row, "reading") /\ try[a].at = "reading"
     \/ Moved(a, try[a].row, "giveBack") /\ try[a].at = "reading"
     \/ Moved(a, try[a].row, "over")

\* A step of an attempt that is not one of those.
Marking(a) ==
  \/ \E r \in Row : Take(a, r)
  \/ Renew(a) \/ GiveBack(a) \/ Commit(a) \/ Keep(a)
  \/ \E p \in Project : Confirm(a, p)
  \/ TakePurge(a) \/ Ask(a) \/ Act(a) \/ Fail(a)

LEMMA RemovesSplit ==
  ASSUME TypeOK, NEW a \in Attempt, Removes(a)
  PROVE  Looking(a) \/ Marking(a)
<1>1. ASSUME NEW w \in Worktree, NEW s, ReadStarts(a, w) \/ ReadSession(a, w, s) \/ ReadProcesses(a, w, s)
      PROVE  Looking(a)
  <2>1. /\ try[a] # None /\ try[a].at = "reading" /\ UNCHANGED <<tables, work, ruined, slept>>
        /\ Moved(a, try[a].row, "giveBack") \/ Moved(a, try[a].row, "reading")
    BY <1>1, ReadMoves
  <2> QED
    BY <2>1 DEF Looking, tables
<1>2. CASE Refuse(a) \/ Crash(a)
  BY <1>2, GoesOn DEF Looking, Refuse, Crash, tables, Ats
<1> QED
  BY <1>1, <1>2 DEF Removes, Marking

\* Work moves no mark, row or attempt; only a worktree's insert moves a row.
Working == Works /\ UNCHANGED <<row, mark, era, listed, try, ruined, slept>>

LEMMA NextSplit ==
  ASSUME TypeOK, [Next]_vars
  PROVE  \/ UNCHANGED vars \/ Working
         \/ \E w \in Worktree : CreateWorktree(w)
         \/ \E a \in Attempt : Looking(a) \/ Marking(a)
         \/ \E r \in Row : Lapse(r)
         \/ \E p \in Project : Restore(p)
<1>1. ASSUME Works, ~\E w \in Worktree : CreateWorktree(w) PROVE Working
  BY <1>1 DEF Works, Working, tables, Admit, RenewAdmission, EndStart, LapseAdmission, GoLive,
              OpenProcess, ExitProcess, Settle
<1> QED
  BY <1>1, RemovesSplit DEF Next

\* What a step of one attempt must leave for rows, marks and attempts to agree.
LEMMA RowKept ==
  ASSUME TypeOK, RowInv, NEW a \in Attempt, NEW r \in Row, NEW p, Moved(a, r, p),
         try[a] # None => r = try[a].row,
         row[r] # "none",
         \A q \in Row : (row'[q] = "none" => row[q] = "none"),
         \A q \in Row : row'[q] # "there" => mark'[q] = NoMark,
         \A q \in Row : mark'[q].id \in {None, mark[q].id} \/ (q = r /\ mark'[q].id = a),
         ruined' \subseteq Row, \A q \in ruined' : q \in ruined \/ row'[q] # "none"
  PROVE  RowInv'
<1>1. mark \in [Row -> Mark] /\ ruined \subseteq Row
  BY TypeIsParts DEF MarkType, TypeParts
<1>2. ASSUME NEW q \in ruined' PROVE row'[q] # "none"
  BY <1>1, <1>2 DEF RowInv
<1>3. ASSUME NEW q \in Row, mark'[q].id # None
      PROVE  try'[mark'[q].id] # None /\ try'[mark'[q].id].row = q
  <2>1. CASE q = r /\ mark'[q].id = a
    BY <2>1 DEF Moved
  <2>2. CASE mark'[q].id = mark[q].id
    <3>1. mark[q].id \in Attempt /\ try[mark[q].id] # None /\ try[mark[q].id].row = q
      BY <1>1, <1>3, <2>2 DEF RowInv, Mark
    <3> QED
      BY <2>2, <3>1 DEF Moved
  <2> QED
    BY <1>3, <2>1, <2>2
<1>4. ASSUME NEW b \in Attempt, try'[b] # None PROVE row'[try'[b].row] # "none"
  <2>1. CASE b = a
    BY <2>1 DEF Moved
  <2>2. CASE b # a
    <3>1. try[b] # None /\ try'[b] = try[b] /\ try[b].row \in Row
      BY <1>4, <2>2, TryTypes DEF Moved
    <3> QED
      BY <3>1 DEF RowInv
  <2> QED
    BY <2>1, <2>2
<1> QED
  BY <1>2, <1>3, <1>4 DEF RowInv

\* What the row of an attempt is.
LEMMA RowOf ==
  ASSUME TypeOK, RowInv, NEW a \in Attempt, try[a] # None
  PROVE  /\ try[a].row \in Row /\ row[try[a].row] # "none"
         /\ Own(a) => row[try[a].row] = "there"
<1>1. a # None /\ try[a].row \in Row
  BY TryTypes
<1> QED
  BY <1>1 DEF RowInv, Own, NoMark

LEMMA MarkingRow == ASSUME TypeOK, RowInv, NEW a \in Attempt, Marking(a) PROVE RowInv'
<1>0. /\ \A q \in Row : row[q] # "there" => mark[q] = NoMark
      /\ ruined \subseteq Row /\ NoMark.id = None /\ NoMark.phase # "deleting"
  BY TypeIsParts DEF RowInv, TypeParts, NoMark
<1>1. ASSUME NEW r \in Row, Take(a, r) PROVE RowInv'
  <2>1. WithMark(r, IF Marked(r) THEN "deleting" ELSE "checking", a)
        /\ try[a] = None /\ row[r] = "there" /\ UNCHANGED <<row, ruined>>
    BY <1>1 DEF Take
  <2>2. (IF Marked(r) THEN "deleting" ELSE "checking") \in Phase
    BY DEF Phase
  <2>3. mark'[r].id = a /\ \A q \in Row \ {r} : mark'[q] = mark[q]
    <3>1. PICK ph \in Phase : WithMark(r, ph, a)
      BY <2>1, <2>2
    <3> QED
      BY <3>1, Sets
  <2>4. Moved(a, r, IF Marked(r) THEN "ask" ELSE "reading")
    BY <1>1, TakeMoves
  <2>5. \A q \in Row : row'[q] # "there" => mark'[q] = NoMark
    BY <1>0, <2>1, <2>3
  <2> QED
    BY <1>0, <2>1, <2>3, <2>4, <2>5, RowKept
<1>2. CASE Renew(a)
  <2>1. try[a].row \in Row /\ row[try[a].row] = "there"
    BY <1>2, RowOf DEF Renew, Holds
  <2> QED
    BY <1>2, <2>1, Freshens DEF Renew, RowInv
<1>3. CASE GiveBack(a)
  <2>1. Moved(a, try[a].row, "over") /\ try[a] # None /\ UNCHANGED <<row, ruined>>
    BY <1>3, GoesOn DEF GiveBack, Ats
  <2>2. \A q \in Row : mark'[q] = mark[q] \/ mark'[q] = NoMark
    BY <1>3, <2>1, Gives DEF GiveBack
  <2> QED
    BY <1>0, <2>1, <2>2, RowOf, RowKept
<1>4. CASE Commit(a)
  <2>1. /\ Moved(a, try[a].row, "ask") \/ Moved(a, try[a].row, "giveBack")
        /\ try[a] # None /\ UNCHANGED <<row, ruined>>
    BY <1>4, GoesOn DEF Commit, Ats
  <2>2. \A q \in Row : mark'[q] = mark[q] \/ (q = try[a].row /\ mark'[q].id = a /\ Own(a))
    <3>1. CASE mark' = mark
      BY <3>1
    <3>2. CASE WithMark(try[a].row, "deleting", a) /\ Own(a)
      <4>1. try[a].row \in Row
        BY <2>1, RowOf
      <4>2. WithMark(try[a].row, "deleting", a)
        BY <3>2
      <4> QED
        BY <3>2, <4>1, <4>2, SetsOwn
    <3> QED
      BY <1>4, <3>1, <3>2 DEF Commit, StillChecking
  <2> QED
    BY <1>0, <2>1, <2>2, RowOf, RowKept
<1>5. CASE Keep(a)
  <2>1. /\ Moved(a, try[a].row, "over") \/ Moved(a, try[a].row, "giveBack")
        /\ try[a] # None /\ UNCHANGED <<row, ruined>>
    BY <1>5, GoesOn DEF Keep, Ats
  <2>2. \A q \in Row : mark'[q] = mark[q] \/ (q = try[a].row /\ mark'[q].id = a /\ Own(a))
    <3>1. CASE mark' = mark
      BY <3>1
    <3>2. CASE mark' = [mark EXCEPT ![try[a].row].phase = "removed"] /\ Own(a)
      BY <2>1, <3>2, RowOf, TypeIsParts DEF Own, MarkType, Mark
    <3> QED
      BY <1>5, <3>1, <3>2 DEF Keep, StillChecking
  <2> QED
    BY <1>0, <2>1, <2>2, RowOf, RowKept
<1>6. ASSUME NEW p \in Project, Confirm(a, p) PROVE RowInv'
  <2>1. Moved(a, p, "confirmed") /\ try[a] = None /\ row[p] = "there" /\ UNCHANGED <<row, mark, ruined>>
    BY <1>6, ConfirmMoves DEF Confirm, tables
  <2> QED
    BY <1>0, <2>1, RowFacts, RowKept
<1>7. CASE TakePurge(a)
  <2>1. /\ Moved(a, try[a].row, "ask") \/ Moved(a, try[a].row, "over")
        /\ try[a] # None /\ UNCHANGED <<row, ruined>>
    BY <1>7, GoesOn DEF TakePurge, Ats
  <2>2. \A q \in Row : mark'[q] = mark[q] \/ (q = try[a].row /\ mark'[q].id = a /\ row[q] = "there")
    <3>1. CASE mark' = mark
      BY <3>1
    <3>2. CASE WithMark(try[a].row, "deleting", a) /\ row[try[a].row] = "there"
      <4>1. try[a].row \in Row
        BY <2>1, RowOf
      <4>2. WithMark(try[a].row, "deleting", a)
        BY <3>2
      <4>3. mark'[try[a].row].id = a /\ \A q \in Row \ {try[a].row} : mark'[q] = mark[q]
        BY <4>1, <4>2, SetsOwn
      <4> QED
        BY <3>2, <4>3
    <3> QED
      BY <1>7, <3>1, <3>2 DEF TakePurge
  <2> QED
    BY <1>0, <2>1, <2>2, RowOf, RowKept
<1>8. CASE Ask(a)
  <2>1. /\ Moved(a, try[a].row, "act") \/ Moved(a, try[a].row, "over")
        /\ try[a] # None /\ UNCHANGED <<row, ruined>>
    BY <1>8, GoesOn DEF Ask, Ats
  <2>2. \A q \in Row : mark'[q].id = mark[q].id /\ (row[q] # "there" => mark'[q] = mark[q])
    <3>1. CASE mark' = HandedOver(a)
      BY <2>1, <3>1, HandsOver, RowOf
    <3>2. CASE mark' = [mark EXCEPT ![try[a].row].fresh = TRUE] /\ Own(a)
      BY <2>1, <3>2, Freshens, RowOf
    <3> QED
      BY <1>8, <3>1, <3>2 DEF Ask, Holds
  <2> QED
    BY <1>0, <2>1, <2>2, RowOf, RowKept
<1>9. CASE Act(a)
  <2>1. /\ Moved(a, try[a].row, "ask") \/ Moved(a, try[a].row, "over")
        /\ try[a] # None
        /\ \A q \in Row : \/ row'[q] = row[q] /\ mark'[q].id = mark[q].id
                             /\ (mark'[q] = mark[q] \/ mark[q].phase = "deleting")
                          \/ row'[q] = "gone" /\ mark'[q] = NoMark
        /\ ruined' = IF row[try[a].row] = "there" THEN ruined \cup {try[a].row} ELSE ruined
    BY <1>9, ActMoves
  <2>2. ASSUME NEW q \in Row, row'[q] # "there" PROVE mark'[q] = NoMark
    BY <1>0, <2>1, <2>2
  <2>3. \A q \in Row : mark'[q].id \in {None, mark[q].id}
    BY <1>0, <2>1
  <2>4. \A q \in Row : row'[q] = "none" => row[q] = "none"
    BY <2>1
  <2>5. ruined' \subseteq Row /\ \A q \in ruined' : q \in ruined \/ row'[q] # "none"
    BY <1>0, <2>1, <2>4, RowOf
  <2> QED
    BY <2>1, <2>2, <2>3, <2>4, <2>5, RowOf, RowKept
<1>10. CASE Fail(a)
  <2>1. Moved(a, try[a].row, "over") /\ try[a] # None /\ UNCHANGED <<row, ruined>>
    BY <1>10, GoesOn DEF Fail, Ats
  <2>2. \A q \in Row : mark'[q].id = mark[q].id /\ (row[q] # "there" => mark'[q] = mark[q])
    BY <1>10, <2>1, HandsOver, RowOf DEF Fail
  <2> QED
    BY <1>0, <2>1, <2>2, RowOf, RowKept
<1> QED
  BY <1>1, <1>2, <1>3, <1>4, <1>5, <1>6, <1>7, <1>8, <1>9, <1>10 DEF Marking

LEMMA RowStep == ASSUME TypeOK, RowInv, [Next]_vars PROVE RowInv'
<1> USE TypeIsParts, RowFacts
<1>1. CASE UNCHANGED vars \/ Working
  BY <1>1 DEF RowInv, Working, vars
<1>2. ASSUME NEW w \in Worktree, CreateWorktree(w) PROVE RowInv'
  BY <1>2 DEF RowInv, CreateWorktree, TypeParts
<1>3. ASSUME NEW a \in Attempt, Looking(a) PROVE RowInv'
  <2>1. \E p : Moved(a, try[a].row, p)
    BY <1>3 DEF Looking
  <2>2. try[a] # None /\ UNCHANGED <<row, mark, ruined>> /\ ruined \subseteq Row
    BY <1>3 DEF Looking, TypeParts
  <2>3. \A q \in Row : row[q] # "there" => mark[q] = NoMark
    BY DEF RowInv
  <2> QED
    BY <2>1, <2>2, <2>3, RowOf, RowKept
<1>4. ASSUME NEW r \in Row, Lapse(r) PROVE RowInv'
  <2>1. row[r] = "there"
    BY <1>4 DEF Lapse, RowInv, NoMark
  <2> QED
    BY <1>4, <2>1, Freshens DEF Lapse, RowInv
<1>5. ASSUME NEW p \in Project, Restore(p) PROVE RowInv'
  <2>1. mark'[p] = NoMark /\ \A q \in Row \ {p} : mark'[q] = mark[q]
    BY <1>5 DEF Restore, MarkType
  <2>2. UNCHANGED <<row, try, ruined>>
    BY <1>5 DEF Restore
  <2>3. NoMark.id = None
    BY DEF NoMark
  <2> QED
    BY <2>1, <2>2, <2>3 DEF RowInv
<1> QED
  BY <1>1, <1>2, <1>3, <1>4, <1>5, MarkingRow, NextSplit

-----------------------------------------------------------------------------
(* What each step does, in terms of marks and places. *)

\* Row r gets a fresh mark of a's, and no other mark moves.
SetTo(a, r, ph) ==
  /\ mark' \in [Row -> Mark]
  /\ mark'[r].phase = ph /\ mark'[r].id = a /\ mark'[r].fresh
  /\ \A q \in Row \ {r} : mark'[q] = mark[q]

\* Row r's mark keeps its phase and its owner, and no other mark moves.
Kept(r) ==
  /\ mark' \in [Row -> Mark]
  /\ mark'[r].phase = mark[r].phase /\ mark'[r].id = mark[r].id
  /\ \A q \in Row \ {r} : mark'[q] = mark[q]

Rest == UNCHANGED <<row, era, listed, work, ruined>>

LEMMA TakeDoes ==
  ASSUME TypeOK, NEW a \in Attempt, NEW r \in Row, Take(a, r)
  PROVE  /\ try[a] = None /\ row[r] = "there" /\ ~mark[r].fresh /\ Apart(r)
         /\ Rest /\ UNCHANGED slept
         /\ r \in Project => ~Marked(r)
         /\ \/ Marked(r) /\ SetTo(a, r, "deleting") /\ Moved(a, r, "ask")
               /\ mark[r].phase = "deleting"
            \/ ~Marked(r) /\ SetTo(a, r, "checking") /\ Moved(a, r, "reading")
<1>1. /\ try[a] = None /\ row[r] = "there" /\ ~mark[r].fresh /\ Apart(r)
      /\ Rest /\ UNCHANGED slept
      /\ WithMark(r, IF Marked(r) THEN "deleting" ELSE "checking", a)
      /\ r \in Project => r \in listed
  BY DEF Take, Rest
<1>2. r \in Project => ~Marked(r)
  BY <1>1, TypeIsParts DEF Marked, MarkType
<1>3. Moved(a, r, IF Marked(r) THEN "ask" ELSE "reading")
  BY TakeMoves
<1>4. "deleting" \in Phase /\ "checking" \in Phase
  BY DEF Phase
<1>5. CASE Marked(r)
  <2>1. WithMark(r, "deleting", a) /\ Moved(a, r, "ask")
    BY <1>1, <1>3, <1>5
  <2>2. SetTo(a, r, "deleting")
    <3>1. PICK ph \in Phase : ph = "deleting" /\ WithMark(r, ph, a)
      BY <1>4, <2>1
    <3> QED
      BY <3>1, Sets DEF SetTo
  <2>3. mark[r].phase \in {"removed", "deleting"}
    BY <1>1, <1>5 DEF Marked
  <2>4. mark[r].phase = "deleting"
    BY <1>2, <1>5, <2>3, TypeIsParts DEF Row, MarkType
  <2> QED
    BY <1>1, <1>2, <1>5, <2>1, <2>2, <2>4
<1>6. CASE ~Marked(r)
  <2>1. WithMark(r, "checking", a) /\ Moved(a, r, "reading")
    BY <1>1, <1>3, <1>6
  <2>2. SetTo(a, r, "checking")
    <3>1. PICK ph \in Phase : ph = "checking" /\ WithMark(r, ph, a)
      BY <1>4, <2>1
    <3> QED
      BY <3>1, Sets DEF SetTo
  <2> QED
    BY <1>1, <1>2, <1>6, <2>1, <2>2
<1> QED
  BY <1>5, <1>6

LEMMA CommitDoes ==
  ASSUME TypeOK, NEW a \in Attempt, Commit(a)
  PROVE  /\ try[a] # None /\ try[a].at = "reading" /\ try[a].row \in Worktree
         /\ Rest /\ UNCHANGED slept /\ Decided(a)
         /\ \/ UNCHANGED mark /\ Moved(a, try[a].row, "giveBack")
            \/ /\ StillChecking(a) /\ SetTo(a, try[a].row, "deleting")
               /\ try'[a].era = try[a].era
               /\ Moved(a, try[a].row, "ask") \/ Moved(a, try[a].row, "giveBack")
<1>1. /\ try[a] # None /\ try[a].at = "reading" /\ try[a].row \in Worktree /\ try[a].row \in Row
      /\ Rest /\ UNCHANGED slept /\ Decided(a)
      /\ \/ UNCHANGED mark /\ Goes(a, "giveBack")
         \/ /\ StillChecking(a) /\ WithMark(try[a].row, "deleting", a)
            /\ Goes(a, "ask") \/ Goes(a, "giveBack")
  BY TryTypes DEF Commit, Rest, Decided
<1>2. CASE UNCHANGED mark /\ Goes(a, "giveBack")
  BY <1>1, <1>2, GoesOn DEF Ats
<1>3. CASE StillChecking(a) /\ WithMark(try[a].row, "deleting", a)
           /\ (Goes(a, "ask") \/ Goes(a, "giveBack"))
  <2>1. SetTo(a, try[a].row, "deleting")
    BY <1>1, <1>3, SetsOwn DEF SetTo
  <2>2. Moved(a, try[a].row, "ask") \/ Moved(a, try[a].row, "giveBack")
    BY <1>1, <1>3, GoesOn DEF Ats
  <2>3. try'[a].era = try[a].era
    BY <1>1, <1>3, GoesOn DEF Ats
  <2> QED
    BY <1>1, <1>3, <2>1, <2>2, <2>3
<1> QED
  BY <1>1, <1>2, <1>3

LEMMA KeepDoes ==
  ASSUME TypeOK, NEW a \in Attempt, Keep(a)
  PROVE  /\ try[a] # None /\ try[a].at = "reading" /\ try[a].row \in Project /\ Decided(a)
         /\ UNCHANGED <<row, work, ruined, slept>>
         /\ \/ UNCHANGED <<mark, era, listed>> /\ Moved(a, try[a].row, "giveBack")
            \/ /\ StillChecking(a) /\ SetTo(a, try[a].row, "removed")
               /\ \A p \in Project \ {try[a].row} : era'[p] = era[p]
               /\ Moved(a, try[a].row, "over") \/ Moved(a, try[a].row, "giveBack")
<1>1. /\ try[a] # None /\ try[a].at = "reading" /\ try[a].row \in Project /\ Decided(a)
      /\ UNCHANGED <<row, work, ruined, slept>>
      /\ \/ UNCHANGED <<mark, era, listed>> /\ Goes(a, "giveBack")
         \/ /\ StillChecking(a) /\ mark' = [mark EXCEPT ![try[a].row].phase = "removed"]
            /\ era' = [era EXCEPT ![try[a].row] = @ + 1]
            /\ Goes(a, "over") \/ Goes(a, "giveBack")
  BY DEF Keep, Decided
<1>2. CASE UNCHANGED <<mark, era, listed>> /\ Goes(a, "giveBack")
  BY <1>1, <1>2, GoesOn DEF Ats
<1>3. CASE /\ StillChecking(a) /\ mark' = [mark EXCEPT ![try[a].row].phase = "removed"]
           /\ era' = [era EXCEPT ![try[a].row] = @ + 1]
           /\ Goes(a, "over") \/ Goes(a, "giveBack")
  <2>1. mark \in [Row -> Mark] /\ era \in [Project -> Nat] /\ try[a].row \in Row
    BY <1>1, TypeIsParts, RowFacts DEF MarkType, TypeParts
  <2>2. SetTo(a, try[a].row, "removed")
    BY <1>3, <2>1 DEF SetTo, Mark, Phase, StillChecking, Own
  <2>3. Moved(a, try[a].row, "over") \/ Moved(a, try[a].row, "giveBack")
    BY <1>1, <1>3, GoesOn DEF Ats
  <2> QED
    BY <1>1, <1>3, <2>1, <2>2, <2>3
<1> QED
  BY <1>1, <1>2, <1>3

LEMMA PurgeDoes ==
  ASSUME TypeOK, NEW a \in Attempt, TakePurge(a)
  PROVE  /\ try[a] # None /\ try[a].at = "confirmed" /\ try'[a].era = try[a].era
         /\ Rest /\ UNCHANGED slept
         /\ \/ UNCHANGED mark /\ Moved(a, try[a].row, "over")
            \/ /\ row[try[a].row] = "there" /\ StillConfirmed(a)
               /\ ~(mark[try[a].row].phase = "deleting" /\ mark[try[a].row].fresh)
               /\ SetTo(a, try[a].row, "deleting") /\ Moved(a, try[a].row, "ask")
<1>1. /\ try[a] # None /\ try[a].at = "confirmed" /\ try[a].row \in Row /\ Rest /\ UNCHANGED slept
      /\ \/ UNCHANGED mark /\ Goes(a, "over")
         \/ /\ row[try[a].row] = "there" /\ StillConfirmed(a)
            /\ ~(mark[try[a].row].phase = "deleting" /\ mark[try[a].row].fresh)
            /\ WithMark(try[a].row, "deleting", a) /\ Goes(a, "ask")
  BY TryTypes DEF TakePurge, Rest
<1>2. CASE UNCHANGED mark /\ Goes(a, "over")
  BY <1>1, <1>2, GoesOn DEF Ats
<1>3. CASE /\ row[try[a].row] = "there" /\ StillConfirmed(a)
           /\ ~(mark[try[a].row].phase = "deleting" /\ mark[try[a].row].fresh)
           /\ WithMark(try[a].row, "deleting", a) /\ Goes(a, "ask")
  <2>1. SetTo(a, try[a].row, "deleting")
    BY <1>1, <1>3, SetsOwn DEF SetTo
  <2>2. Moved(a, try[a].row, "ask") /\ try'[a].era = try[a].era
    BY <1>1, <1>3, GoesOn DEF Ats
  <2> QED
    BY <1>1, <1>3, <2>1, <2>2
<1> QED
  BY <1>1, <1>2, <1>3

\* Asking for a mark, and renewing it.
LEMMA AskDoes ==
  ASSUME TypeOK, NEW a \in Attempt, Ask(a), Holds(a)
  PROVE  /\ try[a] # None /\ try[a].at = "ask" /\ Holds(a) /\ Rest /\ slept' = slept \ {a}
         /\ Kept(try[a].row) /\ mark'[try[a].row].fresh
         /\ Moved(a, try[a].row, "act") /\ try'[a].era = try[a].era
<1>1. /\ try[a] # None /\ try[a].at = "ask" /\ Holds(a) /\ Rest /\ slept' = slept \ {a}
      /\ mark' = [mark EXCEPT ![try[a].row].fresh = TRUE] /\ Goes(a, "act") /\ try[a].row \in Row
  BY TryTypes DEF Ask, Rest
<1>2. Kept(try[a].row) /\ mark'[try[a].row].fresh
  BY <1>1, Freshens DEF Kept
<1>3. Moved(a, try[a].row, "act") /\ try'[a].era = try[a].era
  BY <1>1, GoesOn DEF Ats
<1> QED
  BY <1>1, <1>2, <1>3

LEMMA RenewDoes ==
  ASSUME TypeOK, NEW a \in Attempt, Renew(a)
  PROVE  /\ try[a] # None /\ Holds(a) /\ Rest /\ UNCHANGED <<try, slept>> /\ try[a].row \in Row
         /\ Kept(try[a].row) /\ ~mark[try[a].row].fresh
<1>1. /\ try[a] # None /\ Holds(a) /\ Rest /\ UNCHANGED <<try, slept>> /\ try[a].row \in Row
      /\ mark' = [mark EXCEPT ![try[a].row].fresh = TRUE] /\ ~mark[try[a].row].fresh
  BY TryTypes DEF Renew, Rest
<1>2. Kept(try[a].row)
  BY <1>1, Freshens DEF Kept
<1> QED
  BY <1>1, <1>2

\* A deletion that stops - asked in vain, or failed - hands its mark over.
Stops(a) ==
  /\ try[a] # None /\ try[a].at \in {"ask", "act"} /\ Rest /\ UNCHANGED slept
  /\ Moved(a, try[a].row, "over")
  /\ Kept(try[a].row)
  /\ \A q \in Row : mark'[q].fresh => mark[q].fresh
  /\ \A q \in Row : mark'[q] = mark[q] \/ (Own(a) /\ mark[q].phase = "deleting")

LEMMA StopDoes ==
  ASSUME TypeOK, NEW a \in Attempt,
         Fail(a) \/ (Ask(a) /\ ~Holds(a))
  PROVE  Stops(a)
<1>1. /\ try[a] # None /\ try[a].at \in {"ask", "act"} /\ try[a].row \in Row /\ Rest /\ UNCHANGED slept
      /\ mark' = HandedOver(a) /\ Goes(a, "over")
  BY TryTypes DEF Fail, Ask, Rest
<1>2. Moved(a, try[a].row, "over")
  BY <1>1, GoesOn DEF Ats
<1>3. mark' \in [Row -> Mark] /\ \A q \in Row :
              /\ mark'[q].phase = mark[q].phase /\ mark'[q].id = mark[q].id
              /\ mark'[q].fresh => mark[q].fresh
              /\ \/ mark'[q] = mark[q]
                 \/ q = try[a].row /\ Own(a) /\ mark[q].phase = "deleting"
  BY <1>1, HandsOver
<1>4. Kept(try[a].row)
  BY <1>1, <1>3 DEF Kept
<1> QED
  BY <1>1, <1>2, <1>3, <1>4 DEF Stops

LEMMA GiveDoes ==
  ASSUME TypeOK, NEW a \in Attempt, GiveBack(a)
  PROVE  /\ try[a] # None /\ try[a].at = "giveBack" /\ Rest /\ UNCHANGED slept
         /\ Moved(a, try[a].row, "over") /\ mark' \in [Row -> Mark]
         /\ \A q \in Row :
              \/ mark'[q] = mark[q]
              \/ /\ q = try[a].row /\ Own(a) /\ mark'[q] = NoMark
                 /\ q \in Project => mark[q].phase = "checking"
<1>1. /\ try[a] # None /\ try[a].at = "giveBack" /\ Rest /\ UNCHANGED slept
      /\ mark' = Released(a) /\ Goes(a, "over")
  BY DEF GiveBack, Rest
<1> QED
  BY <1>1, Gives, GoesOn DEF Ats

\* The kinds of steps that move marks, each by its lemma above.
LEMMA MarkingSplit ==
  ASSUME NEW a \in Attempt, Marking(a)
  PROVE  \/ \E r \in Row : Take(a, r)
         \/ Renew(a) \/ GiveBack(a) \/ Commit(a) \/ Keep(a)
         \/ \E p \in Project : Confirm(a, p)
         \/ TakePurge(a) \/ (Ask(a) /\ Holds(a)) \/ Fail(a) \/ (Ask(a) /\ ~Holds(a))
         \/ Act(a)
BY DEF Marking
-----------------------------------------------------------------------------
(* Where an attempt stands, its mark agrees. *)

\* An attempt that does not move, while marks change around it.
LEMMA TryStays ==
  ASSUME TypeOK, NEW b \in Attempt, TryOf(b), try'[b] = try[b], try[b] # None,
         row'[try[b].row] = "there" => row[try[b].row] = "there",
         At(b, {"ask", "act"}) /\ row'[try[b].row] = "there" /\ mark[try[b].row].phase = "deleting"
           => mark'[try[b].row].phase = "deleting",
         mark'[try[b].row].id = b =>
           mark[try[b].row].id = b /\ mark'[try[b].row].phase = mark[try[b].row].phase,
         \/ era'[try[b].row] = era[try[b].row]
         \/ row[try[b].row] = "there" /\ mark[try[b].row].phase = "checking",
         b \in slept => b \in slept',
         mark[try[b].row].id = b /\ mark[try[b].row].fresh
           /\ mark[try[b].row].phase = "deleting" /\ row'[try[b].row] = "there" =>
           b \in slept' \/ (mark'[try[b].row].id = b /\ mark'[try[b].row].fresh)
  PROVE  TryOf(b)'
BY DEF TryOf, At, Own

\* An attempt that is over, or gives back, has nothing more to agree with.
LEMMA TryDone ==
  ASSUME NEW a \in Attempt, NEW r, NEW p \in {"over", "giveBack"}, Moved(a, r, p)
  PROVE  TryOf(a)'
BY DEF TryOf, At, Moved

LEMMA TryMarking ==
  ASSUME TypeOK, RowInv, TryInv, BackInv, NEW a \in Attempt, Marking(a), NEW b \in Attempt
  PROVE  TryOf(b)'
<1>0. TryOf(b) /\ TryOf(a) /\ a # None /\ b # None
  BY DEF TryInv
<1>1. ASSUME NEW r \in Row, Take(a, r) PROVE TryOf(b)'
  <2>0. /\ row[r] = "there" /\ ~mark[r].fresh /\ Rest /\ UNCHANGED slept
        /\ r \in Project => ~Marked(r)
        /\ \/ Marked(r) /\ SetTo(a, r, "deleting") /\ Moved(a, r, "ask")
           \/ ~Marked(r) /\ SetTo(a, r, "checking") /\ Moved(a, r, "reading")
    BY <1>1, TakeDoes
  <2>1. CASE b = a
    BY <2>0, <2>1, RowFacts DEF TryOf, At, Moved, SetTo, Own
  <2>2. CASE b # a
    <3>1. try'[b] = try[b] /\ mark'[r].id = a /\ \A q \in Row \ {r} : mark'[q] = mark[q]
      BY <2>0, <2>2 DEF Moved, SetTo
    <3>2. mark[r].phase = "deleting" => mark'[r].phase = "deleting"
      BY <2>0 DEF Marked, SetTo
    <3>3. CASE try[b] = None
      BY <3>1, <3>3 DEF TryOf, At
    <3>4. CASE try[b] # None
      BY <1>0, <2>0, <2>2, <3>1, <3>2, <3>4, RowOf, TryStays DEF Rest
    <3> QED
      BY <3>3, <3>4
  <2> QED
    BY <2>1, <2>2
<1>2. CASE Renew(a)
  <2>1. /\ Kept(try[a].row) /\ ~mark[try[a].row].fresh /\ Rest /\ UNCHANGED <<try, slept>>
    BY <1>2, RenewDoes
  <2>2. CASE try[b] = None
    BY <2>1, <2>2 DEF TryOf, At
  <2>3. CASE try[b] # None
    BY <1>0, <2>1, <2>3, RowOf, TryStays DEF Rest, Kept
  <2> QED
    BY <2>2, <2>3
<1>3. CASE GiveBack(a)
  <2>0. /\ try[a] # None /\ try[a].at = "giveBack" /\ Rest /\ UNCHANGED slept
        /\ Moved(a, try[a].row, "over")
        /\ \A q \in Row :
              \/ mark'[q] = mark[q]
              \/ /\ q = try[a].row /\ Own(a) /\ mark'[q] = NoMark
                 /\ q \in Project => mark[q].phase = "checking"
    BY <1>3, GiveDoes
  <2>1. CASE b = a
    BY <2>0, <2>1, TryDone
  <2>2. CASE b # a
    <3>1. try'[b] = try[b] /\ NoMark.id = None
      BY <2>0, <2>2 DEF Moved, NoMark
    <3>3. CASE try[b] = None
      BY <3>1, <3>3 DEF TryOf, At
    <3>4. CASE try[b] # None
      <4> DEFINE q == try[b].row
      <4>1. q \in Row
        BY <3>4, RowOf
      <4>2. CASE mark'[q] = mark[q]
        BY <1>0, <2>0, <3>1, <3>4, <4>2, RowOf, TryStays DEF Rest
      <4>3. CASE q = try[a].row /\ Own(a) /\ mark'[q] = NoMark
        <5>1. ~(At(b, {"ask", "act"}) /\ mark[q].phase = "deleting")
          BY <2>0, <4>3 DEF BackInv, At
        <5>2. mark[q].id = a
          BY <4>3 DEF Own
        <5> QED
          BY <1>0, <2>0, <2>2, <3>1, <3>4, <4>3, <5>1, <5>2, RowOf, TryStays DEF Rest
      <4> QED
        BY <2>0, <4>1, <4>2, <4>3
    <3> QED
      BY <3>3, <3>4
  <2> QED
    BY <2>1, <2>2
<1>4. CASE Commit(a)
  <2>0. /\ try[a] # None /\ try[a].row \in Worktree /\ Rest /\ UNCHANGED slept
         /\ \/ UNCHANGED mark /\ Moved(a, try[a].row, "giveBack")
            \/ /\ StillChecking(a) /\ SetTo(a, try[a].row, "deleting")
               /\ Moved(a, try[a].row, "ask") \/ Moved(a, try[a].row, "giveBack")
    BY <1>4, CommitDoes
  <2>1. CASE b = a
    BY <2>0, <2>1, TryDone, RowFacts DEF TryOf, At, Moved, SetTo
  <2>2. CASE b # a
    <3>1. try'[b] = try[b]
      BY <2>0, <2>2 DEF Moved
    <3>3. CASE try[b] = None
      BY <3>1, <3>3 DEF TryOf, At
    <3>4. CASE try[b] # None
      <4>1. \A q \in Row : \/ mark'[q] = mark[q]
                           \/ mark[q].id = a /\ mark'[q].id = a /\ mark[q].phase = "checking"
        BY <2>0 DEF SetTo, StillChecking, Own
      <4> QED
        BY <1>0, <2>0, <2>2, <3>1, <3>4, <4>1, RowOf, TryStays DEF Rest
    <3> QED
      BY <3>3, <3>4
  <2> QED
    BY <2>1, <2>2
<1>5. CASE Keep(a)
  <2>0. /\ try[a] # None /\ try[a].row \in Project /\ UNCHANGED <<row, slept>>
         /\ \/ UNCHANGED <<mark, era, listed>> /\ Moved(a, try[a].row, "giveBack")
            \/ /\ StillChecking(a) /\ SetTo(a, try[a].row, "removed")
               /\ \A p \in Project \ {try[a].row} : era'[p] = era[p]
               /\ Moved(a, try[a].row, "over") \/ Moved(a, try[a].row, "giveBack")
    BY <1>5, KeepDoes
  <2>1. CASE b = a
    BY <2>0, <2>1, TryDone
  <2>2. CASE b # a
    <3>1. try'[b] = try[b]
      BY <2>0, <2>2 DEF Moved
    <3>3. CASE try[b] = None
      BY <3>1, <3>3 DEF TryOf, At
    <3>4. CASE try[b] # None
      <4>1. CASE UNCHANGED <<mark, era, listed>>
        BY <1>0, <2>0, <3>1, <3>4, <4>1, TryStays
      <4>2. CASE /\ StillChecking(a) /\ SetTo(a, try[a].row, "removed")
                 /\ \A p \in Project \ {try[a].row} : era'[p] = era[p]
        <5>1. \A q \in Row : \/ mark'[q] = mark[q] /\ q # try[a].row
                             \/ /\ q = try[a].row /\ row[q] = "there"
                                /\ mark[q].id = a /\ mark'[q].id = a /\ mark[q].phase = "checking"
          BY <2>0, <4>2, RowOf DEF SetTo, StillChecking, Own
        <5>2. try[b].row \in Row
          BY <3>4, RowOf
        <5>3. CASE try[b].row = try[a].row
          BY <1>0, <2>0, <2>2, <3>1, <3>4, <5>1, <5>2, <5>3, TryStays
        <5>4. CASE try[b].row # try[a].row /\ try[b].row \in Project
          BY <1>0, <2>0, <2>2, <3>1, <3>4, <4>2, <5>1, <5>2, <5>4, TryStays
        <5>5. CASE try[b].row # try[a].row /\ try[b].row \notin Project
          BY <1>0, <2>0, <2>2, <3>1, <3>4, <5>1, <5>2, <5>5 DEF TryOf, At, Own
        <5> QED
          BY <5>3, <5>4, <5>5
      <4> QED
        BY <2>0, <4>1, <4>2
    <3> QED
      BY <3>3, <3>4
  <2> QED
    BY <2>1, <2>2
<1>6. ASSUME NEW p \in Project, Confirm(a, p) PROVE TryOf(b)'
  <2>0. Moved(a, p, "confirmed") /\ UNCHANGED <<tables, slept>>
    BY <1>6, ConfirmMoves DEF Confirm
  <2> QED
    BY <1>0, <2>0 DEF TryOf, At, Moved, tables, Own
<1>7. CASE TakePurge(a)
  <2>0. /\ try[a] # None /\ try[a].at = "confirmed" /\ Rest /\ UNCHANGED slept
        /\ try'[a].era = try[a].era
        /\ \/ UNCHANGED mark /\ Moved(a, try[a].row, "over")
           \/ /\ row[try[a].row] = "there" /\ StillConfirmed(a)
              /\ ~(mark[try[a].row].phase = "deleting" /\ mark[try[a].row].fresh)
              /\ SetTo(a, try[a].row, "deleting") /\ Moved(a, try[a].row, "ask")
    BY <1>7, PurgeDoes
  <2>1. CASE b = a
    <3>1. CASE Moved(a, try[a].row, "over")
      BY <2>1, <3>1, TryDone
    <3>2. CASE SetTo(a, try[a].row, "deleting") /\ Moved(a, try[a].row, "ask") /\ StillConfirmed(a)
      BY <2>0, <2>1, <3>2 DEF TryOf, At, Moved, SetTo, StillConfirmed, Rest
    <3> QED
      BY <2>0, <3>1, <3>2
  <2>2. CASE b # a
    <3>1. try'[b] = try[b]
      BY <2>0, <2>2 DEF Moved
    <3>3. CASE try[b] = None
      BY <3>1, <3>3 DEF TryOf, At
    <3>4. CASE try[b] # None
      <4>1. \A q \in Row : \/ mark'[q] = mark[q]
                           \/ /\ mark'[q].id = a /\ mark'[q].phase = "deleting"
                              /\ ~(mark[q].phase = "deleting" /\ mark[q].fresh)
        BY <2>0 DEF SetTo
      <4> QED
        BY <1>0, <2>0, <2>2, <3>1, <3>4, <4>1, RowOf, TryStays DEF Rest
    <3> QED
      BY <3>3, <3>4
  <2> QED
    BY <2>1, <2>2
<1>8. CASE Ask(a) /\ Holds(a)
  <2>0. /\ try[a] # None /\ try[a].at = "ask" /\ Holds(a) /\ Rest /\ slept' = slept \ {a}
        /\ Kept(try[a].row) /\ mark'[try[a].row].fresh
        /\ Moved(a, try[a].row, "act") /\ try'[a].era = try[a].era
    BY <1>8, AskDoes
  <2>1. CASE b = a
    BY <1>0, <2>0, <2>1 DEF TryOf, At, Moved, Rest, Kept, Holds, Own
  <2>2. CASE b # a
    <3>1. try'[b] = try[b]
      BY <2>0, <2>2 DEF Moved
    <3>3. CASE try[b] = None
      BY <3>1, <3>3 DEF TryOf, At
    <3>4. CASE try[b] # None
      <4>1. \A q \in Row : /\ mark'[q].id = mark[q].id /\ mark'[q].phase = mark[q].phase
                           /\ mark[q].fresh => mark'[q].fresh
        BY <2>0 DEF Kept
      <4> QED
        BY <1>0, <2>0, <2>2, <3>1, <3>4, <4>1, RowOf, TryStays DEF Rest
    <3> QED
      BY <3>3, <3>4
  <2> QED
    BY <2>1, <2>2
<1>9. CASE Stops(a)
  <2>1. CASE b = a
    BY <1>9, <2>1, TryDone DEF Stops
  <2>2. CASE b # a
    <3>1. try'[b] = try[b]
      BY <1>9, <2>2 DEF Moved, Stops
    <3>3. CASE try[b] = None
      BY <3>1, <3>3 DEF TryOf, At
    <3>4. CASE try[b] # None
      <4>1. \A q \in Row : mark'[q].id = mark[q].id /\ mark'[q].phase = mark[q].phase
        BY <1>9 DEF Kept, Stops
      <4>2. try[b].row \in Row
        BY <3>4, RowOf
      <4>3. mark[try[b].row].id = b => mark'[try[b].row] = mark[try[b].row]
        <5>1. CASE try[b].row # try[a].row
          BY <1>9, <4>2, <5>1 DEF Stops, Kept
        <5>2. CASE try[b].row = try[a].row
          BY <1>9, <2>2, <4>2, <5>2 DEF Stops, Own
        <5> QED
          BY <5>1, <5>2
      <4> QED
        BY <1>0, <1>9, <2>2, <3>1, <3>4, <4>1, <4>2, <4>3, TryStays DEF Rest, Stops
    <3> QED
      BY <3>3, <3>4
  <2> QED
    BY <2>1, <2>2
<1>10. CASE Act(a)
  <2>0. /\ try[a] # None /\ try[a].at = "act"
        /\ Moved(a, try[a].row, "ask") \/ Moved(a, try[a].row, "over")
        /\ try'[a].era = try[a].era /\ UNCHANGED <<era, slept>>
        /\ \A q \in Row :
              \/ /\ row'[q] = row[q]
                 /\ mark'[q].phase = mark[q].phase /\ mark'[q].id = mark[q].id
                 /\ mark'[q] = mark[q] \/ (q = try[a].row /\ mark[q].id = a)
              \/ row'[q] = "gone" /\ mark'[q] = NoMark
    BY <1>10, ActMoves DEF Own
  <2>1. CASE b = a
    <3>1. CASE Moved(a, try[a].row, "over")
      BY <2>1, <3>1, TryDone
    <3>2. CASE Moved(a, try[a].row, "ask")
      BY <1>0, <2>0, <2>1, <3>2, RowOf DEF TryOf, At, Moved
    <3> QED
      BY <2>0, <3>1, <3>2
  <2>2. CASE b # a
    <3>1. try'[b] = try[b] /\ NoMark.id = None
      BY <2>0, <2>2 DEF Moved, NoMark
    <3>3. CASE try[b] = None
      BY <3>1, <3>3 DEF TryOf, At
    <3>4. CASE try[b] # None
      <4> DEFINE q == try[b].row
      <4>1. q \in Row
        BY <3>4, RowOf
      <4>2. CASE row'[q] = "gone" /\ mark'[q] = NoMark
        BY <1>0, <2>0, <3>1, <3>4, <4>2, TryStays
      <4>3. CASE /\ row'[q] = row[q]
                 /\ mark'[q].phase = mark[q].phase /\ mark'[q].id = mark[q].id
                 /\ mark'[q] = mark[q] \/ (q = try[a].row /\ mark[q].id = a)
        BY <1>0, <2>0, <2>2, <3>1, <3>4, <4>3, TryStays
      <4> QED
        BY <2>0, <4>1, <4>2, <4>3
    <3> QED
      BY <3>3, <3>4
  <2> QED
    BY <2>1, <2>2
<1> QED
  BY <1>1, <1>2, <1>3, <1>4, <1>5, <1>6, <1>7, <1>8, <1>9, <1>10, StopDoes, MarkingSplit

LEMMA TryStep == ASSUME TypeOK, RowInv, TryInv, BackInv, [Next]_vars PROVE TryInv'
<1> SUFFICES ASSUME NEW b \in Attempt PROVE TryOf(b)'
  BY DEF TryInv
<1>0. TryOf(b)
  BY DEF TryInv
<1>1. CASE UNCHANGED vars \/ Working
  BY <1>0, <1>1 DEF TryOf, At, Own, Working, vars
<1>2. ASSUME NEW w \in Worktree, CreateWorktree(w) PROVE TryOf(b)'
  <2>1. CASE try[b] = None
    BY <1>2, <2>1 DEF TryOf, At, CreateWorktree
  <2>2. CASE try[b] # None
    <3>1. try[b].row \in Row /\ row[try[b].row] # "none"
      BY <2>2, RowOf
    <3>2. row'[try[b].row] = row[try[b].row] /\ UNCHANGED <<mark, era, try, slept>>
      BY <1>2, <3>1, TypeIsParts DEF CreateWorktree, TypeParts
    <3> QED
      BY <1>0, <2>2, <3>2, TryStays
  <2> QED
    BY <2>1, <2>2
<1>3. ASSUME NEW a \in Attempt, Looking(a) PROVE TryOf(b)'
  BY <1>0, <1>3 DEF TryOf, At, Own, Looking, Moved
<1>4. ASSUME NEW r \in Row, Lapse(r) PROVE TryOf(b)'
  <2>1. CASE try[b] = None
    BY <1>4, <2>1 DEF TryOf, At, Lapse
  <2>2. CASE try[b] # None
    <3>1. UNCHANGED <<row, era, try>> /\ slept' = slept \cup {a \in Attempt : mark[r].id = a}
          /\ try[b].row \in Row
      BY <1>4, <2>2, RowOf DEF Lapse
    <3>2. \A q \in Row : /\ mark'[q].phase = mark[q].phase /\ mark'[q].id = mark[q].id
                         /\ mark'[q] = mark[q] \/ q = r
      BY <1>4, Freshens DEF Lapse
    <3>3. b \in slept => b \in slept'
      BY <3>1
    <3>4. mark[try[b].row].id = b =>
            b \in slept' \/ mark'[try[b].row] = mark[try[b].row]
      BY <3>1, <3>2
    <3> QED
      BY <1>0, <2>2, <3>1, <3>2, <3>3, <3>4, TryStays
  <2> QED
    BY <2>1, <2>2
<1>5. ASSUME NEW p \in Project, Restore(p) PROVE TryOf(b)'
  <2>1. CASE try[b] = None
    BY <1>5, <2>1 DEF TryOf, At, Restore
  <2>2. CASE try[b] # None
    <3>1. UNCHANGED <<row, era, try, slept>> /\ mark[p].phase = "removed" /\ NoMark.id = None
          /\ b # None /\ try[b].row \in Row
      BY <1>5, <2>2, RowOf DEF Restore, NoMark
    <3>2. \A q \in Row : mark'[q] = mark[q] \/ (q = p /\ mark'[q] = NoMark)
      BY <1>5, RowFacts, TypeIsParts DEF Restore, MarkType
    <3> QED
      BY <1>0, <2>2, <3>1, <3>2, TryStays
  <2> QED
    BY <2>1, <2>2
<1> QED
  BY <1>1, <1>2, <1>3, <1>4, <1>5, TryMarking, NextSplit
-----------------------------------------------------------------------------
(* What is given back was never begun. *)

\* An attempt that deletes was at it, or has just set its mark.
LEMMA Enters ==
  ASSUME TypeOK, RowInv, [Next]_vars, NEW x \in Attempt, At(x, {"ask", "act"})'
  PROVE  \/ At(x, {"ask", "act"}) /\ try'[x].row = try[x].row
         \/ mark'[try'[x].row].id = x
<1>1. CASE try' = try
  BY <1>1 DEF At
<1>2. ASSUME NEW a \in Attempt, Looking(a)
      PROVE  At(x, {"ask", "act"}) /\ try'[x].row = try[x].row
  BY <1>2 DEF Looking, Moved, At
<1>3. ASSUME NEW a \in Attempt, a # x, NEW r, NEW p, Moved(a, r, p)
      PROVE  At(x, {"ask", "act"}) /\ try'[x].row = try[x].row
  BY <1>3 DEF Moved, At
<1>4. ASSUME NEW r \in Row, Take(x, r) PROVE mark'[try'[x].row].id = x
  BY <1>4, TakeDoes DEF SetTo, Moved
<1>5. ASSUME Commit(x) PROVE mark'[try'[x].row].id = x
  BY <1>5, CommitDoes DEF SetTo, Moved, At
<1>6. ASSUME TakePurge(x) PROVE mark'[try'[x].row].id = x
  BY <1>6, PurgeDoes DEF SetTo, Moved, At
<1>7. ASSUME (Ask(x) /\ Holds(x)) \/ Act(x)
      PROVE  At(x, {"ask", "act"}) /\ try'[x].row = try[x].row
  BY <1>7, AskDoes, ActMoves DEF Moved, At
<1>8. ASSUME NEW r, NEW p \in {"over", "giveBack", "confirmed"}, Moved(x, r, p) PROVE FALSE
  BY <1>8 DEF Moved, At
<1>9. ASSUME GiveBack(x) \/ Keep(x) \/ Stops(x) \/ (\E p \in Project : Confirm(x, p)) PROVE FALSE
  <2>1. ASSUME NEW p \in Project, Confirm(x, p) PROVE FALSE
    BY <2>1, <1>8, ConfirmMoves
  <2>2. CASE Keep(x)
    <3>1. Moved(x, try[x].row, "giveBack") \/ Moved(x, try[x].row, "over")
      BY <2>2, KeepDoes
    <3> QED
      BY <1>8, <3>1
  <2> QED
    BY <1>8, <1>9, <2>1, <2>2, GiveDoes DEF Stops
<1>10. ASSUME NEW a \in Attempt, Marking(a), a # x, try' # try
       PROVE  \E r, p : Moved(a, r, p)
  BY <1>10, TakeDoes, GiveDoes, CommitDoes, KeepDoes, ConfirmMoves, PurgeDoes, AskDoes, StopDoes,
     ActMoves, RenewDoes, MarkingSplit DEF Stops
<1>11. CASE Marking(x)
  <2>1. CASE Renew(x)
    BY <1>1, <2>1, RenewDoes
  <2> QED
    BY <1>4, <1>5, <1>6, <1>7, <1>9, <1>11, <2>1, StopDoes, MarkingSplit
<1>12. ASSUME try' # try PROVE \E a \in Attempt : Looking(a) \/ Marking(a)
  BY <1>12, NextSplit DEF vars, Working, CreateWorktree, Lapse, Restore
<1> QED
  BY <1>1, <1>2, <1>3, <1>10, <1>11, <1>12

\* Only a step of a deletion destroys anything.
LEMMA Ruins ==
  ASSUME TypeOK, RowInv, [Next]_vars, NEW q \in ruined', q \notin ruined
  PROVE  \E x \in Attempt : At(x, {"act"}) /\ try[x].row = q /\ row[q] = "there" /\ Act(x)
<1>1. ruined' # ruined
  OBVIOUS
<1>2. PICK a \in Attempt : Marking(a)
  BY <1>1, NextSplit DEF vars, Working, CreateWorktree, Looking, Lapse, Restore
<1>3. Act(a)
  BY <1>1, <1>2 DEF Marking, Take, Renew, GiveBack, Commit, Keep, Confirm, TakePurge, Ask, Fail
<1> QED
  BY <1>3, ActMoves DEF At

\* Nobody sets a mark for another.
LEMMA NoTheft ==
  ASSUME TypeOK, NEW a \in Attempt, Marking(a), NEW b \in Attempt \ {a}
  PROVE  \A q \in Row : mark'[q].id = b =>
           mark[q].id = b /\ mark'[q].phase = mark[q].phase /\ (mark'[q].fresh => mark[q].fresh)
<1>0. b # None /\ NoMark.id = None
  BY DEF NoMark
<1>1. ASSUME NEW r \in Row, Take(a, r)
      PROVE  \A q \in Row : mark'[q].id = b =>
               mark[q].id = b /\ mark'[q].phase = mark[q].phase /\ (mark'[q].fresh => mark[q].fresh)
  BY <1>1, TakeDoes DEF SetTo
<1>2. CASE Renew(a) \/ (Ask(a) /\ Holds(a)) \/ Stops(a)
  BY <1>2, RenewDoes, AskDoes DEF Kept, Stops, Holds, Own
<1>3. CASE GiveBack(a)
  BY <1>0, <1>3, GiveDoes
<1>4. CASE Commit(a)
  BY <1>4, CommitDoes DEF SetTo
<1>5. CASE Keep(a)
  BY <1>5, KeepDoes DEF SetTo
<1>6. ASSUME NEW p \in Project, Confirm(a, p)
      PROVE  \A q \in Row : mark'[q].id = b =>
               mark[q].id = b /\ mark'[q].phase = mark[q].phase /\ (mark'[q].fresh => mark[q].fresh)
  BY <1>6 DEF Confirm, tables
<1>7. CASE TakePurge(a)
  BY <1>7, PurgeDoes DEF SetTo
<1>8. CASE Act(a)
  BY <1>0, <1>8, ActMoves
<1> QED
  BY <1>1, <1>2, <1>3, <1>4, <1>5, <1>6, <1>7, <1>8, StopDoes, MarkingSplit

\* Who gives back did so before, or just read something in its way.
LEMMA BacksOut ==
  ASSUME TypeOK, RowInv, TryInv, [Next]_vars, NEW b \in Attempt, At(b, {"giveBack"})', Own(b)',
         (mark[try[b].row].phase = "deleting")'
  PROVE  \/ /\ At(b, {"giveBack"}) /\ Own(b) /\ mark[try[b].row].phase = "deleting"
            /\ try'[b].row = try[b].row
         \/ /\ At(b, {"reading"}) /\ StillChecking(b) /\ UNCHANGED ruined
            /\ try'[b].row = try[b].row
<1>0. b # None /\ NoMark.id = None
  BY DEF NoMark
<1>1. ASSUME try'[b] = try[b],
             \A q \in Row : mark'[q].id = b => mark[q].id = b /\ mark'[q].phase = mark[q].phase
      PROVE  At(b, {"giveBack"}) /\ Own(b) /\ mark[try[b].row].phase = "deleting"
  <2>1. try[b] # None /\ try[b].at = "giveBack" /\ try[b].row \in Row
    BY <1>1, TryTypes DEF At
  <2> QED
    BY <1>1, <2>1 DEF At, Own
<1>2. ASSUME NEW a \in Attempt, Marking(a), a # b PROVE try'[b] = try[b]
  <2>1. try' = try \/ \E r, p : Moved(a, r, p)
    BY <1>2, TakeDoes, GiveDoes, CommitDoes, KeepDoes, ConfirmMoves, PurgeDoes, AskDoes, StopDoes,
       ActMoves, RenewDoes, MarkingSplit DEF Stops
  <2> QED
    BY <1>2, <2>1 DEF Moved
<1>3. CASE Looking(b)
  <2>1. /\ try[b] # None /\ try'[b].row = try[b].row /\ mark' = mark /\ try'[b].at = "giveBack"
        /\ try[b].at = "reading"
    BY <1>3 DEF Looking, Moved, At
  <2>2. mark[try[b].row].phase = "checking"
    BY <2>1 DEF TryInv, TryOf, At, Own
  <2> QED
    BY <2>1, <2>2
<1>4. ASSUME NEW a \in Attempt, Looking(a), a # b PROVE try'[b] = try[b] /\ mark' = mark
  BY <1>4 DEF Looking, Moved
<1>5. CASE Commit(b)
  <2>1. /\ try[b] # None /\ try'[b].row = try[b].row /\ try[b].at = "reading" /\ UNCHANGED ruined
        /\ mark' = mark \/ StillChecking(b)
    BY <1>5, CommitDoes DEF Moved, Rest
  <2>2. mark' # mark
    BY <2>1 DEF TryInv, TryOf, At, Own
  <2> QED
    BY <2>1, <2>2 DEF At
<1>6. ASSUME Keep(b) PROVE FALSE
  <2>1. /\ try[b] # None /\ try'[b].row = try[b].row /\ try[b].at = "reading"
        /\ mark' = mark \/ mark'[try[b].row].phase = "removed"
    BY <1>6, KeepDoes DEF Moved, SetTo
  <2> QED
    BY <2>1 DEF TryInv, TryOf, At, Own
<1>7. ASSUME NEW r, NEW p \in {"over", "confirmed", "ask", "act", "reading"}, Moved(b, r, p) PROVE FALSE
  BY <1>7 DEF Moved, At
<1>8. CASE Marking(b)
  <2>1. CASE Renew(b)
    BY <1>1, <2>1, RenewDoes DEF Kept
  <2>2. ASSUME NEW r \in Row, Take(b, r) PROVE FALSE
    <3>1. Moved(b, r, "ask") \/ Moved(b, r, "reading")
      BY <2>2, TakeDoes
    <3> QED
      BY <1>7, <3>1
  <2>3. ASSUME NEW p \in Project, Confirm(b, p) PROVE FALSE
    BY <1>7, <2>3, ConfirmMoves
  <2>4. ASSUME GiveBack(b) \/ TakePurge(b) \/ (Ask(b) /\ Holds(b)) \/ Stops(b) \/ Act(b) PROVE FALSE
    <3>1. \E p \in {"over", "ask", "act"} : Moved(b, try[b].row, p)
      BY <2>4, GiveDoes, PurgeDoes, AskDoes, ActMoves DEF Stops
    <3> QED
      BY <1>7, <3>1
  <2> QED
    BY <1>5, <1>6, <1>8, <2>1, <2>2, <2>3, <2>4, StopDoes, MarkingSplit
<1>9. CASE UNCHANGED <<mark, try>>
  BY <1>1, <1>9
<1>10. ASSUME NEW r \in Row, Lapse(r) PROVE try' = try /\
              \A q \in Row : mark'[q].id = b => mark[q].id = b /\ mark'[q].phase = mark[q].phase
  BY <1>10, Freshens DEF Lapse
<1>11. ASSUME NEW p \in Project, Restore(p) PROVE try' = try /\
              \A q \in Row : mark'[q].id = b => mark[q].id = b /\ mark'[q].phase = mark[q].phase
  <2>1. \A q \in Row : mark'[q] = mark[q] \/ mark'[q] = NoMark
    BY <1>11, RowFacts, TypeIsParts DEF Restore, MarkType
  <2> QED
    BY <1>0, <1>11, <2>1 DEF Restore
<1>12. ASSUME At(b, {"giveBack"}) /\ Own(b) /\ mark[try[b].row].phase = "deleting" /\ try'[b] = try[b]
       PROVE  /\ At(b, {"giveBack"}) /\ Own(b) /\ mark[try[b].row].phase = "deleting"
              /\ try'[b].row = try[b].row
  BY <1>12
<1>13. CASE \E a \in Attempt \ {b} : Looking(a) \/ Marking(a)
  <2>1. PICK a \in Attempt \ {b} : Looking(a) \/ Marking(a)
    BY <1>13
  <2>2. try'[b] = try[b] /\
              \A q \in Row : mark'[q].id = b => mark[q].id = b /\ mark'[q].phase = mark[q].phase
    BY <1>2, <1>4, <2>1, NoTheft
  <2> QED
    BY <1>1, <2>2
<1>14. CASE Working \/ UNCHANGED vars \/ \E w \in Worktree : CreateWorktree(w)
  BY <1>9, <1>14 DEF Working, vars, CreateWorktree
<1>15. CASE (\E r \in Row : Lapse(r)) \/ \E p \in Project : Restore(p)
  <2>1. try' = try /\
              \A q \in Row : mark'[q].id = b => mark[q].id = b /\ mark'[q].phase = mark[q].phase
    BY <1>10, <1>11, <1>15
  <2> QED
    BY <1>1, <2>1
<1>16. CASE \E a \in Attempt : Looking(a) \/ Marking(a)
  BY <1>3, <1>8, <1>13, <1>16
<1> QED
  BY <1>14, <1>15, <1>16, NextSplit

LEMMA BackStep ==
  ASSUME TypeOK, RowInv, TryInv, BackInv, RuinedStaysMarked, [Next]_vars PROVE BackInv'
<1> SUFFICES ASSUME NEW b \in Attempt, At(b, {"giveBack"})', Own(b)',
                    (mark[try[b].row].phase = "deleting")'
             PROVE  /\ (try[b].row \notin ruined)'
                    /\ \A a \in Attempt : At(a, {"ask", "act"})' => (try[a].row # try[b].row)'
  BY DEF BackInv
<1>1. /\ try'[b].row = try[b].row /\ try[b].row \notin ruined
      /\ \A a \in Attempt : At(a, {"ask", "act"}) => try[a].row # try[b].row
  <2>1. CASE At(b, {"giveBack"}) /\ Own(b) /\ mark[try[b].row].phase = "deleting"
             /\ try'[b].row = try[b].row
    BY <2>1 DEF BackInv
  <2>2. CASE At(b, {"reading"}) /\ StillChecking(b) /\ try'[b].row = try[b].row
    <3>1. row[try[b].row] = "there" /\ mark[try[b].row].phase = "checking"
      BY <2>2, RowOf DEF At, StillChecking
    <3> QED
      BY <2>2, <3>1 DEF RuinedStaysMarked, TryInv, TryOf
  <2> QED
    BY <2>1, <2>2, BacksOut
<1>2. (try[b].row \notin ruined)'
  BY <1>1, Ruins DEF At
<1>3. ASSUME NEW a \in Attempt, At(a, {"ask", "act"})', try'[a].row = try'[b].row PROVE FALSE
  <2>1. mark'[try'[a].row].id = a
    BY <1>1, <1>3, Enters
  <2>2. a = b
    BY <1>3, <2>1 DEF Own
  <2> QED
    BY <1>3, <2>2 DEF At
<1> QED
  BY <1>2, <1>3
-----------------------------------------------------------------------------
(* Marks stand apart, and stay where something was begun. *)

\* Only taking it marks a row that was free.
LEMMA NewlyMarked ==
  ASSUME TypeOK, RowInv, TryInv, [Next]_vars, NEW q \in Row, row'[q] = "there",
         Marked(q)', ~Marked(q)
  PROVE  \E a \in Attempt : Take(a, q)
<1>0. ~(NoMark.phase \in {"removed", "deleting"}) /\ ~NoMark.fresh
  BY DEF NoMark
<1>1. mark'[q] # mark[q]
  BY DEF Marked
<1>2. ASSUME NEW a \in Attempt, Looking(a) PROVE FALSE
  BY <1>1, <1>2 DEF Looking
<1>3. ASSUME NEW a \in Attempt, NEW r \in Row, Take(a, r), r # q PROVE FALSE
  BY <1>1, <1>3, TakeDoes DEF SetTo
<1>4. ASSUME NEW a \in Attempt, Renew(a) \/ (Ask(a) /\ Holds(a)) PROVE FALSE
  <2>1. Kept(try[a].row) /\ Holds(a)
    BY <1>4, RenewDoes, AskDoes
  <2> QED
    BY <1>1, <2>1 DEF Kept, Holds
<1>5. ASSUME NEW a \in Attempt, GiveBack(a) PROVE FALSE
  BY <1>0, <1>1, <1>5, GiveDoes DEF Marked
<1>6. ASSUME NEW a \in Attempt, Commit(a) \/ Keep(a) PROVE FALSE
  <2>1. StillChecking(a) /\ (\E ph : SetTo(a, try[a].row, ph))
    BY <1>1, <1>6, CommitDoes, KeepDoes
  <2> QED
    BY <1>1, <2>1 DEF SetTo, StillChecking, Marked
<1>7. ASSUME NEW a \in Attempt, NEW p \in Project, Confirm(a, p) PROVE FALSE
  BY <1>1, <1>7 DEF Confirm, tables
<1>8. ASSUME NEW a \in Attempt, TakePurge(a) PROVE FALSE
  <2>1. /\ StillConfirmed(a) /\ SetTo(a, try[a].row, "deleting") /\ row[try[a].row] = "there"
        /\ try[a] # None /\ try[a].at = "confirmed"
    BY <1>1, <1>8, PurgeDoes
  <2>2. try[a].row \in Project
    BY <2>1 DEF TryInv, TryOf, At
  <2>3. mark[try[a].row].phase \in {"removed", "deleting"}
    BY <2>1, <2>2, TypeIsParts DEF StillConfirmed, MarkType
  <2> QED
    BY <1>1, <2>1, <2>3 DEF SetTo, Marked
<1>9. ASSUME NEW a \in Attempt, Stops(a) PROVE FALSE
  BY <1>9 DEF Stops, Kept, Marked
<1>10. ASSUME NEW a \in Attempt, Act(a) PROVE FALSE
  BY <1>0, <1>10, ActMoves DEF Marked
<1>11. ASSUME NEW r \in Row, Lapse(r) PROVE FALSE
  <2>1. /\ mark'[r].fresh = FALSE /\ \A p \in Row : mark'[p].phase = mark[p].phase
        /\ \A p \in Row \ {r} : mark'[p] = mark[p]
    BY <1>11, Freshens DEF Lapse
  <2> QED
    BY <2>1 DEF Marked
<1>12. ASSUME NEW p \in Project, Restore(p) PROVE FALSE
  <2>1. \A r \in Row : mark'[r] = mark[r] \/ mark'[r] = NoMark
    BY <1>12, RowFacts, TypeIsParts DEF Restore, MarkType
  <2> QED
    BY <1>0, <1>1, <2>1 DEF Marked
<1>13. ~(UNCHANGED vars \/ Working \/ \E w \in Worktree : CreateWorktree(w))
  BY <1>1 DEF vars, Working, CreateWorktree
<1>14. \E a \in Attempt : Marking(a)
  BY <1>2, <1>11, <1>12, <1>13, NextSplit
<1> QED
  BY <1>3, <1>4, <1>5, <1>6, <1>7, <1>8, <1>9, <1>10, <1>14, StopDoes, MarkingSplit

\* A row that is there was there, or is a worktree's insert and unmarked.
LEMMA RowsBefore ==
  ASSUME TypeOK, RowInv, [Next]_vars, NEW q \in Row, row'[q] = "there"
  PROVE  \/ row[q] = "there"
         \/ q \in Worktree /\ CreateWorktree(q) /\ row[q] = "none" /\ mark[q] = NoMark /\ mark' = mark
<1>1. CASE row' = row
  BY <1>1
<1>2. ASSUME NEW w \in Worktree, CreateWorktree(w)
      PROVE  \/ row[q] = "there"
             \/ q \in Worktree /\ CreateWorktree(q) /\ row[q] = "none" /\ mark[q] = NoMark /\ mark' = mark
  <2>1. CASE q = w
    BY <1>2, <2>1 DEF CreateWorktree, RowInv
  <2>2. CASE q # w
    BY <1>2, <2>2, TypeIsParts DEF CreateWorktree, TypeParts
  <2> QED
    BY <2>1, <2>2
<1>3. ASSUME NEW a \in Attempt, Act(a) PROVE row[q] = "there"
  BY <1>3, ActMoves
<1>4. ASSUME NEW a \in Attempt, Marking(a), ~Act(a) PROVE row' = row
  BY <1>4 DEF Marking, Take, Renew, GiveBack, Commit, Keep, Confirm, TakePurge, Ask, Fail, tables
<1> QED
  BY <1>1, <1>2, <1>3, <1>4, NextSplit DEF vars, Working, Looking, Lapse, Restore

LEMMA ApartStep ==
  ASSUME TypeOK, RowInv, TryInv, MarksApart, [Next]_vars PROVE MarksApart'
<1> SUFFICES ASSUME NEW w \in Worktree, row'[w] = "there", Marked(w)', Marked(ProjectOf[w])'
             PROVE  FALSE
  BY DEF MarksApart
<1> DEFINE p == ProjectOf[w]
<1>1. w \in Row /\ p \in Row /\ p \in Project /\ w # p /\ w \notin Project
  BY RowFacts
<1>2. row[w] = "there"
  BY <1>1, RowsBefore DEF Marked, NoMark
<1>3. CASE \E a \in Attempt : Take(a, w)
  <2>1. PICK a \in Attempt : Take(a, w)
    BY <1>3
  <2>2. Apart(w) /\ mark'[p] = mark[p]
    BY <1>1, <2>1, TakeDoes DEF SetTo
  <2> QED
    BY <1>1, <2>2 DEF Apart, Relatives, Marked
<1>4. CASE \E a \in Attempt : Take(a, p)
  <2>1. PICK a \in Attempt : Take(a, p)
    BY <1>4
  <2>2. Apart(p) /\ mark'[w] = mark[w]
    BY <1>1, <2>1, TakeDoes DEF SetTo
  <2> QED
    BY <1>1, <1>2, <2>2 DEF Apart, Relatives, WorktreesOf, Marked
<1>5. CASE ~(\E a \in Attempt : Take(a, w)) /\ ~(\E a \in Attempt : Take(a, p))
  <2>1. Marked(w)
    BY <1>1, <1>5, NewlyMarked
  <2>2. ~Marked(p)
    BY <1>2, <2>1 DEF MarksApart
  <2>3. mark'[p] # mark[p]
    BY <2>2 DEF Marked
  <2>4. row'[p] = "there"
    <3>1. mark'[p] # NoMark
      BY DEF Marked, NoMark
    <3> QED
      BY <1>1, <3>1, RowStep DEF RowInv
  <2> QED
    BY <1>1, <1>5, <2>2, <2>4, NewlyMarked
<1> QED
  BY <1>3, <1>4, <1>5

\* A deleting mark on a row that stays is only taken by who gives it back.
LEMMA StaysDeleting ==
  ASSUME TypeOK, RowInv, TryInv, [Next]_vars, NEW q \in Row, row'[q] = "there",
         mark[q].phase = "deleting"
  PROVE  \/ mark'[q].phase = "deleting"
         \/ \E a \in Attempt : At(a, {"giveBack"}) /\ Own(a) /\ try[a].row = q
<1>1. ASSUME NEW a \in Attempt, Looking(a) PROVE mark'[q].phase = "deleting"
  BY <1>1 DEF Looking
<1>2. ASSUME NEW a \in Attempt, NEW r \in Row, Take(a, r) PROVE mark'[q].phase = "deleting"
  BY <1>2, TakeDoes DEF SetTo, Marked
<1>3. ASSUME NEW a \in Attempt, Renew(a) \/ (Ask(a) /\ Holds(a)) \/ Stops(a)
      PROVE  mark'[q].phase = "deleting"
  BY <1>3, RenewDoes, AskDoes DEF Kept, Stops
<1>4. ASSUME NEW a \in Attempt, GiveBack(a)
      PROVE  \/ mark'[q].phase = "deleting" \/ (At(a, {"giveBack"}) /\ Own(a) /\ try[a].row = q)
  BY <1>4, GiveDoes DEF At
<1>5. ASSUME NEW a \in Attempt, Commit(a) \/ Keep(a) PROVE mark'[q].phase = "deleting"
  <2>1. mark' = mark \/ (StillChecking(a) /\ \E ph : SetTo(a, try[a].row, ph))
    BY <1>5, CommitDoes, KeepDoes
  <2> QED
    BY <2>1 DEF SetTo, StillChecking
<1>6. ASSUME NEW a \in Attempt, NEW p \in Project, Confirm(a, p) PROVE mark'[q].phase = "deleting"
  BY <1>6 DEF Confirm, tables
<1>7. ASSUME NEW a \in Attempt, TakePurge(a) PROVE mark'[q].phase = "deleting"
  BY <1>7, PurgeDoes DEF SetTo
<1>8. ASSUME NEW a \in Attempt, Act(a) PROVE mark'[q].phase = "deleting"
  BY <1>8, ActMoves
<1>9. ASSUME NEW r \in Row, Lapse(r) PROVE mark'[q].phase = "deleting"
  BY <1>9, Freshens DEF Lapse
<1>10. ASSUME NEW p \in Project, Restore(p) PROVE mark'[q].phase = "deleting"
  BY <1>10, RowFacts, TypeIsParts DEF Restore, MarkType
<1>11. CASE UNCHANGED vars \/ Working \/ \E w \in Worktree : CreateWorktree(w)
  BY <1>11 DEF vars, Working, CreateWorktree
<1>12. ASSUME NEW a \in Attempt, Marking(a)
       PROVE  \/ mark'[q].phase = "deleting" \/ (At(a, {"giveBack"}) /\ Own(a) /\ try[a].row = q)
  BY <1>2, <1>3, <1>4, <1>5, <1>6, <1>7, <1>8, <1>12, StopDoes, MarkingSplit
<1> QED
  BY <1>1, <1>9, <1>10, <1>11, <1>12, NextSplit

LEMMA RuinedStep ==
  ASSUME TypeOK, RowInv, TryInv, BackInv, RuinedStaysMarked, [Next]_vars PROVE RuinedStaysMarked'
<1> SUFFICES ASSUME NEW q \in ruined', row'[q] = "there" PROVE mark'[q].phase = "deleting"
  BY DEF RuinedStaysMarked
<1>1. CASE q \in ruined
  <2>1. q \in Row /\ row[q] = "there"
    <3>1. q \in Row /\ row[q] # "none"
      BY <1>1, TypeIsParts DEF RowInv, TypeParts
    <3> QED
      BY <3>1, RowsBefore
  <2>2. mark[q].phase = "deleting"
    BY <1>1, <2>1 DEF RuinedStaysMarked
  <2>3. ~\E a \in Attempt : At(a, {"giveBack"}) /\ Own(a) /\ try[a].row = q
    BY <1>1, <2>2 DEF BackInv
  <2> QED
    BY <2>1, <2>2, <2>3, StaysDeleting
<1>2. CASE q \notin ruined
  <2>1. PICK x \in Attempt : At(x, {"act"}) /\ try[x].row = q /\ row[q] = "there" /\ Act(x)
    BY <1>2, Ruins
  <2>2. q \in Row /\ mark[q].phase = "deleting"
    BY <2>1, RowOf DEF TryInv, TryOf, At
  <2> QED
    BY <2>1, <2>2, ActMoves
<1> QED
  BY <1>1, <1>2

-----------------------------------------------------------------------------
(* One deletes. *)

\* An attempt comes to act by asking for its mark.
LEMMA ComesToAct ==
  ASSUME TypeOK, RowInv, [Next]_vars, NEW x \in Attempt, At(x, {"act"})'
  PROVE  \/ At(x, {"act"}) /\ try'[x].row = try[x].row /\ (x \in slept => x \in slept')
         \/ /\ At(x, {"ask"}) /\ Holds(x) /\ try'[x].row = try[x].row /\ Own(x)
            /\ slept' = slept \ {x} /\ \A y \in Attempt \ {x} : try'[y] = try[y]
<1>1. ASSUME ~\E a \in Attempt : Ask(a) PROVE \A y \in Attempt : y \in slept => y \in slept'
  BY <1>1, NextSplit DEF Working, vars, CreateWorktree, Looking, Lapse, Restore, Marking, Take,
     Renew, GiveBack, Commit, Keep, Confirm, TakePurge, Act, Fail
<1>2. ASSUME NEW a \in Attempt, Ask(a), Holds(a), a # x
      PROVE  At(x, {"act"}) /\ try'[x].row = try[x].row /\ (x \in slept => x \in slept')
  BY <1>2, AskDoes DEF Moved, At
<1>3. ASSUME Ask(x), Holds(x)
      PROVE  /\ At(x, {"ask"}) /\ Holds(x) /\ try'[x].row = try[x].row /\ Own(x)
             /\ slept' = slept \ {x} /\ \A y \in Attempt \ {x} : try'[y] = try[y]
  BY <1>3, AskDoes DEF Moved, At, Holds
<1>4. ASSUME NEW a \in Attempt, Ask(a), ~Holds(a)
      PROVE  At(x, {"act"}) /\ try'[x].row = try[x].row /\ (x \in slept => x \in slept')
  <2>1. Stops(a)
    BY <1>4, StopDoes
  <2> QED
    BY <2>1 DEF Stops, Moved, At
<1>5. ASSUME ~\E a \in Attempt : Ask(a) PROVE At(x, {"act"}) /\ try'[x].row = try[x].row
  <2>1. CASE try' = try
    BY <2>1 DEF At
  <2>2. ASSUME NEW a \in Attempt, NEW r, NEW p \in Ats \ {"act"}, Moved(a, r, p)
        PROVE  At(x, {"act"}) /\ try'[x].row = try[x].row
    BY <2>2 DEF At, Moved
  <2>3. ASSUME NEW a \in Attempt, Looking(a) PROVE At(x, {"act"}) /\ try'[x].row = try[x].row
    <3>1. \E p \in Ats \ {"act"} : Moved(a, try[a].row, p)
      BY <2>3 DEF Looking, Ats
    <3> QED
      BY <2>2, <3>1
  <2>4. ASSUME NEW a \in Attempt, Marking(a)
        PROVE  try' = try \/ \E r : \E p \in Ats \ {"act"} : Moved(a, r, p)
    <3>1. {"reading", "confirmed", "ask", "giveBack", "over"} \subseteq Ats \ {"act"}
      BY DEF Ats
    <3>2. ASSUME NEW r, NEW p \in {"reading", "confirmed", "ask", "giveBack", "over"}, Moved(a, r, p)
          PROVE  \E u : \E v \in Ats \ {"act"} : Moved(a, u, v)
      BY <3>1, <3>2
    <3>3. CASE Renew(a)
      BY <3>3, RenewDoes
    <3>4. ASSUME NEW r \in Row, Take(a, r) PROVE \E u : \E v \in Ats \ {"act"} : Moved(a, u, v)
      <4>1. Moved(a, r, "ask") \/ Moved(a, r, "reading")
        BY <3>4, TakeDoes
      <4> QED
        BY <3>2, <4>1
    <3>5. ASSUME NEW p \in Project, Confirm(a, p)
          PROVE  \E u : \E v \in Ats \ {"act"} : Moved(a, u, v)
      BY <3>2, <3>5, ConfirmMoves
    <3>6. CASE GiveBack(a) \/ Commit(a) \/ Keep(a) \/ TakePurge(a) \/ Act(a) \/ Fail(a)
      <4>1. \E p \in {"over", "ask", "giveBack"} : Moved(a, try[a].row, p)
        BY <3>6, GiveDoes, CommitDoes, KeepDoes, PurgeDoes, ActMoves, StopDoes DEF Stops
      <4> QED
        BY <3>2, <4>1
    <3> QED
      BY <1>5, <2>4, <3>3, <3>4, <3>5, <3>6, MarkingSplit
  <2>5. CASE \E a \in Attempt : Marking(a)
    BY <2>1, <2>2, <2>4, <2>5
  <2> QED
    BY <2>1, <2>3, <2>5, NextSplit DEF Working, vars, CreateWorktree, Lapse, Restore
<1> QED
  BY <1>1, <1>2, <1>3, <1>4, <1>5

\* Two rows that are related are marked together by nobody.
LEMMA Excludes ==
  ASSUME TypeOK, RowInv, TryInv, MarksApart, NEW a \in Attempt, NEW b \in Attempt, a # b,
         At(a, {"ask"}), Holds(a), At(b, {"act"}), row[try[b].row] = "there", b \notin slept,
         \/ try[b].row \in {try[a].row} \cup Relatives(try[a].row)
         \/ try[a].row \in {try[b].row} \cup Relatives(try[b].row)
  PROVE  FALSE
<1>1. /\ try[a].row \in Row /\ try[b].row \in Row /\ row[try[a].row] = "there"
      /\ mark[try[a].row].id = a /\ Marked(try[a].row)
  BY RowOf DEF At, Holds, Own
<1>2. mark[try[b].row].id = b /\ Marked(try[b].row)
  BY DEF TryInv, TryOf, Own, Marked
<1>3. \/ try[a].row \in Worktree /\ try[b].row = ProjectOf[try[a].row]
      \/ try[b].row \in Worktree /\ try[a].row = ProjectOf[try[b].row]
  BY <1>1, <1>2 DEF Relatives, WorktreesOf, Row
<1> QED
  BY <1>1, <1>2, <1>3 DEF MarksApart

LEMMA OneStep ==
  ASSUME TypeOK, RowInv, TryInv, MarksApart, OneDeletes, [Next]_vars PROVE OneDeletes'
<1> SUFFICES ASSUME NEW a \in Attempt, NEW b \in Attempt, a # b, At(a, {"act"})', At(b, {"act"})',
                    row'[try'[a].row] = "there", row'[try'[b].row] = "there",
                    (try[b].row \in {try[a].row} \cup Relatives(try[a].row))',
                    a \notin slept', b \notin slept'
             PROVE  FALSE
  BY DEF OneDeletes, At
<1>1. /\ At(a, {"ask", "act"}) /\ At(b, {"ask", "act"})
      /\ try'[a].row = try[a].row /\ try'[b].row = try[b].row
  <2>1. At(a, {"ask", "act"}) /\ try'[a].row = try[a].row
    BY ComesToAct DEF At
  <2>2. At(b, {"ask", "act"}) /\ try'[b].row = try[b].row
    BY ComesToAct DEF At
  <2> QED
    BY <2>1, <2>2
<1>2. /\ try[a].row \in Row /\ row[try[a].row] = "there"
      /\ try[b].row \in Row /\ row[try[b].row] = "there"
  BY <1>1, RowOf, RowsBefore DEF At
<1>3. try[b].row \in {try[a].row} \cup Relatives(try[a].row)
  BY <1>1, <1>2 DEF Relatives, WorktreesOf
<1>4. CASE At(a, {"act"}) /\ At(b, {"act"}) /\ (a \in slept => a \in slept') /\ (b \in slept => b \in slept')
  BY <1>2, <1>3, <1>4 DEF OneDeletes, At
<1>5. CASE At(a, {"ask"}) /\ Holds(a) /\ slept' = slept \ {a} /\ try'[b] = try[b]
  <2>1. At(b, {"act"}) /\ b \notin slept
    BY <1>5 DEF At
  <2> QED
    BY <1>2, <1>3, <1>5, <2>1, Excludes
<1>6. CASE At(b, {"ask"}) /\ Holds(b) /\ slept' = slept \ {b} /\ try'[a] = try[a]
  <2>1. At(a, {"act"}) /\ a \notin slept
    BY <1>6 DEF At
  <2> QED
    BY <1>2, <1>3, <1>6, <2>1, Excludes
<1> QED
  BY <1>4, <1>5, <1>6, ComesToAct
-----------------------------------------------------------------------------
(* What was read stays so while the check stands, and after it. *)

\* Where a mark stands, no step of the work lets anything in soundly.
LEMMA WorkQuiet ==
  ASSUME TypeOK, SoundInv, Works, NEW s \in Session, ~Unmarked(s), NoSound(s)
  PROVE  NoSound(s)' /\ (NoLive(s) => NoLive(s)') /\ (NoRuns(s) => NoRuns(s)')
<1>0. ~Soundly(s)
  BY DEF Soundly, NoSound
<1>1. ASSUME NEW x \in Start, NEW u \in Session, Admit(x, u)
      PROVE  NoSound(s)' /\ (NoLive(s) => NoLive(s)') /\ (NoRuns(s) => NoRuns(s)')
  <2> DEFINE n == [session |-> u, at |-> "admitted", admission |-> "fresh", process |-> FALSE]
  <2>1. start' = [start EXCEPT ![x] = n] /\ start[x] = None /\ UNCHANGED <<status, stray>>
        /\ sound' = IF Soundly(u) THEN sound \cup {x} ELSE sound
    BY <1>1 DEF Admit
  <2>2. x \notin sound /\ (u = s => sound' = sound)
    BY <1>0, <2>1 DEF SoundInv
  <2>3. start'[x] = n /\ \A y \in Start \ {x} : start'[y] = start[y]
    BY <2>1 DEF TypeOK
  <2>4. NoSound(s)'
    BY <2>1, <2>2, <2>3 DEF NoSound, Admissions
  <2>5. NoRuns(s) => NoRuns(s)'
    BY <2>1, <2>3 DEF NoRuns, Running
  <2> QED
    BY <2>1, <2>4, <2>5 DEF NoLive
<1>2. ASSUME NEW x \in Start, RenewAdmission(x)
      PROVE  NoSound(s)' /\ (NoLive(s) => NoLive(s)') /\ (NoRuns(s) => NoRuns(s)')
  <2>1. start' = [start EXCEPT ![x].admission = "fresh"] /\ UNCHANGED <<status, stray, sound>>
        /\ start[x] # None /\ start[x].admission = "stale" /\ start[x] \in StartState
    BY <1>2, StartType DEF RenewAdmission
  <2>2. x \notin sound
    BY <2>1 DEF SoundInv
  <2>3. /\ \A y \in Start \ {x} : start'[y] = start[y]
        /\ start'[x] = [start[x] EXCEPT !.admission = "fresh"]
    BY <2>1 DEF TypeOK
  <2>4. start'[x].session = start[x].session /\ start'[x].process = start[x].process
    BY <2>1, <2>3 DEF StartState
  <2>5. NoSound(s)'
    BY <2>1, <2>2, <2>3 DEF NoSound, Admissions
  <2>6. NoRuns(s) => NoRuns(s)'
    BY <2>1, <2>3, <2>4 DEF NoRuns, Running
  <2> QED
    BY <2>1, <2>5, <2>6 DEF NoLive
<1>3. ASSUME NEW x \in Start, EndStart(x) \/ LapseAdmission(x)
      PROVE  NoSound(s)' /\ (NoLive(s) => NoLive(s)') /\ (NoRuns(s) => NoRuns(s)')
  <2>1. /\ UNCHANGED <<status, stray>> /\ sound' \subseteq sound
        /\ start[x] # None /\ start[x] \in StartState
    BY <1>3, StartType DEF EndStart, LapseAdmission
  <2>2. \/ \E l \in {"none", start[x].admission} :
             start' = [start EXCEPT ![x].at = "over", ![x].admission = l]
        \/ start' = [start EXCEPT ![x].admission = "stale"]
    BY <1>3 DEF EndStart, LapseAdmission
  <2>3. /\ \A y \in Start \ {x} : start'[y] = start[y]
        /\ start'[x].session = start[x].session /\ start'[x].process = start[x].process
        /\ start'[x].admission = "fresh" => start[x].admission = "fresh"
    BY <2>1, <2>2 DEF TypeOK, StartState
  <2>4. NoSound(s)'
    BY <2>1, <2>3 DEF NoSound, Admissions
  <2>5. NoRuns(s) => NoRuns(s)'
    BY <2>1, <2>3 DEF NoRuns, Running
  <2> QED
    BY <2>1, <2>4, <2>5 DEF NoLive
<1>4. ASSUME NEW x \in Start, GoLive(x)
      PROVE  NoSound(s)' /\ (NoLive(s) => NoLive(s)') /\ (NoRuns(s) => NoRuns(s)')
  <2> DEFINE u == start[x].session
  <2>1. /\ UNCHANGED <<start, sound>> /\ status' = [status EXCEPT ![u] = "live"]
        /\ stray' = IF Soundly(u) THEN stray \ {u} ELSE stray \cup {u}
        /\ u \in Session
    BY <1>4, StartType DEF GoLive
  <2>2. NoLive(s) => NoLive(s)'
    BY <1>0, <2>1 DEF NoLive, TypeOK
  <2>3. NoRuns(s) => NoRuns(s)'
    BY <2>1 DEF NoRuns, Running
  <2> QED
    BY <2>1, <2>2, <2>3 DEF NoSound, Admissions
<1>5. ASSUME NEW x \in Start, OpenProcess(x)
      PROVE  NoSound(s)' /\ (NoLive(s) => NoLive(s)') /\ (NoRuns(s) => NoRuns(s)')
  <2> DEFINE u == start[x].session
  <2>1. /\ UNCHANGED <<status, sound>> /\ start' = [start EXCEPT ![x].process = TRUE]
        /\ stray' = IF Soundly(u) THEN stray \ {x} ELSE stray \cup {x}
        /\ start[x] # None /\ start[x] \in StartState
    BY <1>5, StartType DEF OpenProcess
  <2>2. /\ \A y \in Start \ {x} : start'[y] = start[y]
        /\ start'[x].session = u /\ start'[x].admission = start[x].admission
    BY <2>1 DEF TypeOK, StartState
  <2>3. NoSound(s)'
    BY <2>1, <2>2 DEF NoSound, Admissions
  <2>4. NoRuns(s) => NoRuns(s)'
    BY <1>0, <2>1, <2>2 DEF NoRuns, Running
  <2>5. NoLive(s) => NoLive(s)'
    BY <2>1 DEF NoLive
  <2> QED
    BY <2>3, <2>4, <2>5
<1>6. ASSUME NEW x \in Start, ExitProcess(x)
      PROVE  NoSound(s)' /\ (NoLive(s) => NoLive(s)') /\ (NoRuns(s) => NoRuns(s)')
  <2>1. /\ UNCHANGED <<status, sound>> /\ start' = [start EXCEPT ![x].process = FALSE]
        /\ stray' = stray \ {x}
        /\ start[x] # None /\ start[x] \in StartState
    BY <1>6, StartType DEF ExitProcess
  <2>2. /\ \A y \in Start \ {x} : start'[y] = start[y]
        /\ start'[x].session = start[x].session /\ start'[x].admission = start[x].admission
        /\ start'[x].process = FALSE
    BY <2>1 DEF TypeOK, StartState
  <2>3. NoSound(s)'
    BY <2>1, <2>2 DEF NoSound, Admissions
  <2>4. NoRuns(s) => NoRuns(s)'
    BY <2>1, <2>2 DEF NoRuns, Running
  <2>5. NoLive(s) => NoLive(s)'
    BY <2>1 DEF NoLive
  <2> QED
    BY <2>3, <2>4, <2>5
<1>7. ASSUME NEW u \in Session, Settle(u)
      PROVE  NoSound(s)' /\ (NoLive(s) => NoLive(s)') /\ (NoRuns(s) => NoRuns(s)')
  <2>1. /\ UNCHANGED <<start, sound>> /\ status' = [status EXCEPT ![u] = "settled"]
        /\ stray' = stray \ {u}
    BY <1>7 DEF Settle
  <2>2. NoLive(s) => NoLive(s)'
    BY <2>1 DEF NoLive, TypeOK
  <2>3. NoRuns(s) => NoRuns(s)'
    BY <2>1 DEF NoRuns, Running
  <2> QED
    BY <2>1, <2>2, <2>3 DEF NoSound, Admissions
<1>8. ASSUME NEW w \in Worktree, CreateWorktree(w)
      PROVE  NoSound(s)' /\ (NoLive(s) => NoLive(s)') /\ (NoRuns(s) => NoRuns(s)')
  BY <1>8 DEF CreateWorktree, work, NoSound, NoLive, NoRuns, Admissions, Running
<1> QED
  BY <1>1, <1>2, <1>3, <1>4, <1>5, <1>6, <1>7, <1>8 DEF Works

\* A step that is not of the work leaves it alone.
LEMMA WorkOrNot ==
  ASSUME TypeOK, [Next]_vars
  PROVE  Works \/ UNCHANGED work
<1>1. ASSUME NEW a \in Attempt, Marking(a) PROVE UNCHANGED work
  BY <1>1 DEF Marking, Take, Renew, GiveBack, Commit, Keep, Confirm, TakePurge, Ask, Act, Fail
<1> QED
  BY <1>1, NextSplit DEF Working, CreateWorktree, Works, vars, work, Looking, Lapse, Restore

\* A sound admission is of a start and never lapsed.
LEMMA SoundStep == ASSUME TypeOK, SoundInv, [Next]_vars PROVE SoundInv'
<1>1. CASE UNCHANGED work
  BY <1>1 DEF work, SoundInv
<1>2. CASE Works
  <2>1. ASSUME NEW x \in Start, NEW u \in Session, Admit(x, u) PROVE SoundInv'
    <3> DEFINE n == [session |-> u, at |-> "admitted", admission |-> "fresh", process |-> FALSE]
    <3>1. start' = [start EXCEPT ![x] = n] /\ sound' \subseteq sound \cup {x}
      BY <2>1 DEF Admit
    <3>2. n \in StartState
      BY DEF StartState
    <3>4. n # None
      <4> HIDE DEF n
      <4> QED
        BY <3>2
    <3>3. start'[x] = n /\ \A y \in Start \ {x} : start'[y] = start[y]
      BY <3>1 DEF TypeOK
    <3> QED
      BY <3>1, <3>3, <3>4 DEF SoundInv, TypeOK
  <2>2. ASSUME NEW x \in Start, RenewAdmission(x) \/ EndStart(x) PROVE SoundInv'
    <3>1. /\ start[x] # None /\ start[x] \in StartState /\ sound' = sound
          /\ \E l \in {"none", "fresh", start[x].admission} :
               \/ start' = [start EXCEPT ![x].at = "over", ![x].admission = l]
               \/ start' = [start EXCEPT ![x].admission = l]
      BY <2>2, StartType DEF RenewAdmission, EndStart
    <3>2. /\ \A y \in Start \ {x} : start'[y] = start[y]
          /\ start'[x] \in StartState
          /\ start'[x].admission = "stale" => start[x].admission = "stale"
      <4>1. PICK l \in {"none", "fresh", start[x].admission} :
               \/ start' = [start EXCEPT ![x].at = "over", ![x].admission = l]
               \/ start' = [start EXCEPT ![x].admission = l]
        BY <3>1
      <4>2. \/ start' = [start EXCEPT ![x] = [start[x] EXCEPT !.at = "over", !.admission = l]]
            \/ start' = [start EXCEPT ![x] = [start[x] EXCEPT !.admission = l]]
        BY <4>1 DEF TypeOK
      <4>3. l \in {"fresh", "stale", "none"}
        BY <3>1 DEF StartState
      <4>4. /\ [start[x] EXCEPT !.at = "over", !.admission = l] \in StartState
            /\ [start[x] EXCEPT !.admission = l] \in StartState
        BY <3>1, <4>3 DEF StartState
      <4>5. /\ [start[x] EXCEPT !.at = "over", !.admission = l].admission = l
            /\ [start[x] EXCEPT !.admission = l].admission = l
        BY <3>1 DEF StartState
      <4> QED
        BY <4>2, <4>4, <4>5 DEF TypeOK
    <3> QED
      BY <3>1, <3>2 DEF SoundInv, TypeOK
  <2>3. ASSUME NEW x \in Start, LapseAdmission(x) PROVE SoundInv'
    BY <2>3 DEF LapseAdmission, SoundInv, TypeOK
  <2>4. ASSUME NEW x \in Start, OpenProcess(x) \/ ExitProcess(x) PROVE SoundInv'
    <3>1. /\ start[x] # None /\ start[x] \in StartState /\ sound' = sound
          /\ \E l \in BOOLEAN : start' = [start EXCEPT ![x].process = l]
      BY <2>4, StartType DEF OpenProcess, ExitProcess
    <3>2. /\ \A y \in Start \ {x} : start'[y] = start[y]
          /\ start'[x] \in StartState
          /\ start'[x].admission = start[x].admission
      BY <3>1 DEF TypeOK, StartState
    <3> QED
      BY <3>1, <3>2 DEF SoundInv, TypeOK
  <2>5. ASSUME UNCHANGED <<start, sound>> PROVE SoundInv'
    BY <2>5 DEF SoundInv
  <2> QED
    BY <1>2, <2>1, <2>2, <2>3, <2>4, <2>5 DEF Works, GoLive, Settle, CreateWorktree, work
<1> QED
  BY <1>1, <1>2, WorkOrNot

\* A doomed worktree's mark stands in the way of its sessions.
LEMMA DoomBars ==
  ASSUME TypeOK, NEW w \in Worktree, row[w] = "there", NEW s \in SessionsIn(w),
         Doomed(w) \/ Marked(w) \/ Marked(ProjectOf[w])
  PROVE  s \in Session /\ ~Unmarked(s)
BY DEF Doomed, SessionsIn, Unmarked, PlacesOf, ProjectsOf, Marked

\* What was read of a worktree stays so through the work, where a mark stands.
LEMMA SeenWorks ==
  ASSUME TypeOK, SoundInv, Works \/ UNCHANGED work, NEW a \in Attempt, NEW w \in Worktree,
         row[w] = "there", Marked(w) \/ Marked(ProjectOf[w]), Seen(a, w),
         try'[a].look[w] = try[a].look[w]
  PROVE  Seen(a, w)'
<1>1. ASSUME NEW s \in SessionsIn(w)
      PROVE  /\ NoSound(s) => NoSound(s)'
             /\ NoSound(s) /\ NoLive(s) => NoLive(s)'
             /\ NoSound(s) /\ NoRuns(s) => NoRuns(s)'
  <2>1. s \in Session /\ ~Unmarked(s)
    BY DoomBars
  <2>2. CASE Works
    BY <2>1, <2>2, WorkQuiet
  <2>3. CASE UNCHANGED work
    BY <2>3 DEF work, NoSound, NoLive, NoRuns, Admissions, Running
  <2> QED
    BY <2>2, <2>3
<1> QED
  BY <1>1 DEF Seen

\* What a removal reads next, it has seen.
LEMMA SeenReads ==
  ASSUME TypeOK, NEW a \in Attempt, NEW w \in Worktree, NEW s, Seen(a, w),
         ReadStarts(a, w) \/ ReadSession(a, w, s) \/ ReadProcesses(a, w, s),
         try'[a] # None, try'[a].at = "reading"
  PROVE  Seen(a, w)'
<1>1. try[a] # None /\ try[a].at = "reading" /\ UNCHANGED work
      /\ try[a].look \in [Worktree -> Look]
  <2>1. try[a] # None /\ try[a].at = "reading" /\ UNCHANGED work
    BY ReadMoves
  <2> QED
    BY <2>1, TryTypes
<1>2. ASSUME NEW u \in Session
      PROVE  (NoSound(u)' <=> NoSound(u)) /\ (NoLive(u)' <=> NoLive(u)) /\ (NoRuns(u)' <=> NoRuns(u))
  BY <1>1 DEF work, NoSound, NoLive, NoRuns, Admissions, Running
<1> DEFINE k == try[a].look[w]
<1>3. k \in Look /\ SessionsIn(w) \subseteq Session
  BY <1>1 DEF SessionsIn
<1>4. ASSUME NEW l \in Look, Looks(a, w, l) PROVE try'[a].look[w] = l
  <2>1. try'[a].look = [try[a].look EXCEPT ![w] = l]
    BY <1>1, <1>4, LooksOn
  <2> QED
    BY <1>1, <2>1
<1>5. ~Goes(a, "giveBack")
  <2>1. ASSUME Goes(a, "giveBack") PROVE FALSE
    BY <1>1, <2>1, GoesOn DEF Ats, Moved
  <2> QED
    BY <2>1
<1>6. CASE ReadStarts(a, w)
  <2> DEFINE l == IF SessionsIn(w) = {} THEN Read
                  ELSE [at |-> "sessions", starting |-> StartingIn(w), left |-> SessionsIn(w)]
  <2>1. l \in Look
    BY <1>3 DEF Look, Read, StartingIn
  <2>2. Looks(a, w, l)
    BY <1>6 DEF ReadStarts
  <2>3. try'[a].look[w] = l
    <3> HIDE DEF l
    <3> QED
      BY <1>4, <2>1, <2>2
  <2>4. CASE SessionsIn(w) = {}
    BY <2>4 DEF Seen
  <2>5. CASE SessionsIn(w) # {}
    <3>1. try'[a].look[w] = [at |-> "sessions", starting |-> StartingIn(w), left |-> SessionsIn(w)]
      BY <2>3, <2>5
    <3>2. ASSUME NEW u \in SessionsIn(w), u \notin StartingIn(w) PROVE NoSound(u)'
      BY <1>2, <1>3, <3>2 DEF StartingIn, NoSound
    <3> QED
      BY <3>1, <3>2 DEF Seen
  <2> QED
    BY <2>4, <2>5
<1>7. CASE ReadSession(a, w, s)
  <2> DEFINE l == IF k.left = {s} THEN [k EXCEPT !.at = "processes", !.left = SessionsIn(w)]
                  ELSE [k EXCEPT !.left = k.left \ {s}]
  <2>1. l \in Look
    BY <1>3 DEF Look
  <2>2. /\ Looks(a, w, l) /\ k.at = "sessions" /\ s \in k.left
        /\ status[s] # "live" /\ s \notin k.starting
    BY <1>5, <1>7 DEF ReadSession, Reading
  <2>3. try'[a].look[w] = l
    <3> HIDE DEF l
    <3> QED
      BY <1>4, <2>1, <2>2
  <2>4. ASSUME NEW u \in SessionsIn(w), u = s \/ u \notin k.left PROVE NoSound(u)' /\ NoLive(u)'
    BY <1>2, <1>3, <2>2, <2>4 DEF Seen, NoLive
  <2>5. ASSUME NEW u \in SessionsIn(w), u \notin k.starting PROVE NoSound(u)'
    BY <1>2, <1>3, <2>2, <2>5 DEF Seen
  <2>6. CASE k.left = {s}
    <3>1. try'[a].look[w].at = "processes" /\ try'[a].look[w].left = SessionsIn(w)
      BY <1>3, <2>3, <2>6 DEF Look
    <3> QED
      BY <2>4, <2>6, <3>1 DEF Seen
  <2>7. CASE k.left # {s}
    <3>1. /\ try'[a].look[w].at = "sessions" /\ try'[a].look[w].left = k.left \ {s}
          /\ try'[a].look[w].starting = k.starting
      BY <1>3, <2>2, <2>3, <2>7 DEF Look
    <3> QED
      BY <2>4, <2>5, <3>1 DEF Seen
  <2> QED
    BY <2>6, <2>7
<1>8. CASE ReadProcesses(a, w, s)
  <2> DEFINE l == IF k.left = {s} THEN Read ELSE [k EXCEPT !.left = k.left \ {s}]
  <2>1. l \in Look
    BY <1>3 DEF Look, Read
  <2>2. Looks(a, w, l) /\ k.at = "processes" /\ s \in k.left /\ Running(s) = {}
    BY <1>5, <1>8 DEF ReadProcesses, Reading
  <2>3. try'[a].look[w] = l
    <3> HIDE DEF l
    <3> QED
      BY <1>4, <2>1, <2>2
  <2>4. ASSUME NEW u \in SessionsIn(w) PROVE NoSound(u)' /\ NoLive(u)'
    BY <1>2, <1>3, <2>2 DEF Seen
  <2>5. ASSUME NEW u \in SessionsIn(w), u = s \/ u \notin k.left PROVE NoRuns(u)'
    BY <1>2, <1>3, <2>2, <2>5 DEF Seen, NoRuns
  <2>6. CASE k.left = {s}
    <3>1. try'[a].look[w].at = "read"
      BY <2>3, <2>6 DEF Read
    <3> QED
      BY <2>4, <2>5, <2>6, <3>1 DEF Seen
  <2>7. CASE k.left # {s}
    <3>1. try'[a].look[w].at = "processes" /\ try'[a].look[w].left = k.left \ {s}
      BY <1>3, <2>2, <2>3, <2>7 DEF Look
    <3> QED
      BY <2>4, <2>5, <3>1 DEF Seen
  <2> QED
    BY <2>6, <2>7
<1> QED
  BY <1>6, <1>7, <1>8

\* A check that stands was just taken, or stood before and its attempt read on.
LEMMA ReadsOn ==
  ASSUME TypeOK, RowInv, [Next]_vars, NEW a \in Attempt, At(a, {"reading"})', StillChecking(a)'
  PROVE  \/ \E r \in Row : Take(a, r)
         \/ /\ At(a, {"reading"}) /\ StillChecking(a) /\ try'[a].row = try[a].row
            /\ \/ try'[a] = try[a]
               \/ \E w \in Worktree : \E s :
                    ReadStarts(a, w) \/ ReadSession(a, w, s) \/ ReadProcesses(a, w, s)
<1>0. a # None /\ NoMark.id = None
  BY DEF NoMark
<1>1. ASSUME try'[a] = try[a],
             \A q \in Row : mark'[q].id = a =>
               /\ mark[q].id = a /\ mark'[q].phase = mark[q].phase
               /\ mark'[q].fresh => mark[q].fresh
      PROVE  At(a, {"reading"}) /\ StillChecking(a)
  <2>1. try[a] # None /\ try[a].at = "reading" /\ try[a].row \in Row
    BY <1>1, TryTypes DEF At
  <2> QED
    BY <1>1, <2>1 DEF At, StillChecking, Own
<1>2. ASSUME NEW r, NEW p \in {"over", "confirmed", "ask", "act", "giveBack"}, Moved(a, r, p) PROVE FALSE
  BY <1>2 DEF Moved, At
<1>3. ASSUME NEW b \in Attempt, b # a, Looking(b) \/ Marking(b)
      PROVE  At(a, {"reading"}) /\ StillChecking(a) /\ try'[a] = try[a]
  <2>1. CASE Looking(b)
    BY <1>1, <1>3, <2>1 DEF Looking, Moved
  <2>2. CASE Marking(b)
    <3>1. try' = try \/ \E r, p : Moved(b, r, p)
      BY <2>2, TakeDoes, GiveDoes, CommitDoes, KeepDoes, ConfirmMoves, PurgeDoes, AskDoes, StopDoes,
         ActMoves, RenewDoes, MarkingSplit DEF Stops
    <3>2. try'[a] = try[a]
      BY <1>3, <3>1 DEF Moved
    <3> QED
      BY <1>1, <1>3, <2>2, <3>2, NoTheft
  <2> QED
    BY <1>3, <2>1, <2>2
<1>4. CASE Refuse(a) \/ Crash(a)
  BY <1>2, <1>4, GoesOn DEF Refuse, Crash, Ats
<1>5. ASSUME NEW w \in Worktree, NEW s,
             ReadStarts(a, w) \/ ReadSession(a, w, s) \/ ReadProcesses(a, w, s)
      PROVE  At(a, {"reading"}) /\ StillChecking(a) /\ try'[a].row = try[a].row
  <2>1. /\ try[a] # None /\ try[a].at = "reading" /\ UNCHANGED mark
        /\ Moved(a, try[a].row, "giveBack") \/ Moved(a, try[a].row, "reading")
    BY <1>5, ReadMoves DEF tables
  <2> QED
    BY <2>1 DEF At, StillChecking, Own, Moved
<1>6. CASE Marking(a) /\ ~\E r \in Row : Take(a, r)
  <2>1. CASE Renew(a)
    <3>1. /\ try' = try /\ Kept(try[a].row) /\ Holds(a) /\ ~mark[try[a].row].fresh
      BY <2>1, RenewDoes
    <3> QED
      BY <3>1 DEF Kept, Holds, Marked, StillChecking, Own
  <2>2. ASSUME NEW p \in Project, Confirm(a, p) PROVE FALSE
    BY <1>2, <2>2, ConfirmMoves
  <2>3. ASSUME GiveBack(a) \/ Commit(a) \/ Keep(a) \/ TakePurge(a) \/ (Ask(a) /\ Holds(a))
                 \/ Stops(a) \/ Act(a)
        PROVE  FALSE
    <3>1. \E p \in {"over", "ask", "act", "giveBack"} : Moved(a, try[a].row, p)
      BY <2>3, GiveDoes, CommitDoes, KeepDoes, PurgeDoes, AskDoes, ActMoves DEF Stops
    <3> QED
      BY <1>2, <3>1
  <2> QED
    BY <1>6, <2>1, <2>2, <2>3, StopDoes, MarkingSplit
<1>7. ASSUME NEW r \in Row, Lapse(r)
      PROVE  At(a, {"reading"}) /\ StillChecking(a) /\ try'[a] = try[a]
  <2>1. /\ try' = try /\ mark'[r].fresh = FALSE
        /\ \A q \in Row : mark'[q].phase = mark[q].phase /\ mark'[q].id = mark[q].id
        /\ \A q \in Row \ {r} : mark'[q] = mark[q]
    BY <1>7, Freshens DEF Lapse
  <2> QED
    BY <1>1, <2>1
<1>8. ASSUME NEW p \in Project, Restore(p)
      PROVE  At(a, {"reading"}) /\ StillChecking(a) /\ try'[a] = try[a]
  <2>1. try' = try /\ \A q \in Row : mark'[q] = mark[q] \/ mark'[q] = NoMark
    BY <1>8, RowFacts, TypeIsParts DEF Restore, MarkType
  <2> QED
    BY <1>0, <1>1, <2>1
<1>9. CASE UNCHANGED <<mark, try>>
  BY <1>1, <1>9
<1>10. CASE Works \/ UNCHANGED vars
  BY <1>9, <1>10, NextSplit DEF vars, Works, Admit, RenewAdmission, EndStart, LapseAdmission, GoLive,
              OpenProcess, ExitProcess, Settle, CreateWorktree, tables
<1>11. CASE Removes(a)
  <2>1. CASE Marking(a)
    BY <1>6, <2>1
  <2>2. CASE ~Marking(a)
    BY <1>4, <1>5, <1>11, <2>2 DEF Removes, Marking
  <2> QED
    BY <2>1, <2>2
<1>12. ASSUME NEW b \in Attempt, Removes(b), b # a
       PROVE  At(a, {"reading"}) /\ StillChecking(a) /\ try'[a] = try[a]
  BY <1>3, <1>12, RemovesSplit
<1> QED
  BY <1>7, <1>8, <1>10, <1>11, <1>12 DEF Next

\* Only a check that stood, and read all it had to, dooms what was not.
LEMMA NewlyDoomed ==
  ASSUME TypeOK, RowInv, TryInv, [Next]_vars, NEW q \in Row, row'[q] = "there",
         mark'[q].phase \in {"removed", "deleting"}, mark[q].phase \notin {"removed", "deleting"}
  PROVE  /\ UNCHANGED work
         /\ \E a \in Attempt : At(a, {"reading"}) /\ Decided(a) /\ StillChecking(a) /\ try[a].row = q
<1>0. NoMark.phase = "none"
  BY DEF NoMark
<1>1. mark'[q] # mark[q]
  OBVIOUS
<1>2. PICK a \in Attempt : Marking(a)
  <2>1. ASSUME NEW r \in Row, Lapse(r) PROVE FALSE
    BY <2>1, Freshens DEF Lapse
  <2>2. ASSUME NEW p \in Project, Restore(p) PROVE FALSE
    BY <1>0, <1>1, <2>2, RowFacts, TypeIsParts DEF Restore, MarkType
  <2> QED
    BY <1>1, <2>1, <2>2, NextSplit DEF vars, Working, CreateWorktree, Looking
<1>3. ASSUME NEW r \in Row, Take(a, r) PROVE FALSE
  BY <1>1, <1>3, TakeDoes DEF SetTo
<1>4. ASSUME Renew(a) \/ (Ask(a) /\ Holds(a)) \/ Stops(a) PROVE FALSE
  BY <1>1, <1>4, RenewDoes, AskDoes DEF Kept, Stops
<1>5. ASSUME GiveBack(a) PROVE FALSE
  BY <1>0, <1>1, <1>5, GiveDoes
<1>6. CASE Commit(a) \/ Keep(a)
  <2>1. /\ StillChecking(a) /\ (\E ph : SetTo(a, try[a].row, ph)) /\ Decided(a)
        /\ try[a] # None /\ try[a].at = "reading" /\ UNCHANGED work
    BY <1>1, <1>6, CommitDoes, KeepDoes DEF Rest
  <2> QED
    BY <1>1, <2>1 DEF SetTo, At
<1>7. ASSUME NEW p \in Project, Confirm(a, p) PROVE FALSE
  BY <1>1, <1>7 DEF Confirm, tables
<1>8. ASSUME TakePurge(a) PROVE FALSE
  <2>1. /\ StillConfirmed(a) /\ SetTo(a, try[a].row, "deleting") /\ row[try[a].row] = "there"
        /\ try[a] # None /\ try[a].at = "confirmed"
    BY <1>1, <1>8, PurgeDoes
  <2>2. try[a].row \in Project
    BY <2>1 DEF TryInv, TryOf, At
  <2>3. mark[try[a].row].phase \in {"removed", "deleting"}
    BY <2>1, <2>2, TypeIsParts DEF StillConfirmed, MarkType
  <2> QED
    BY <1>1, <2>1, <2>3 DEF SetTo
<1>9. ASSUME Act(a) PROVE FALSE
  BY <1>0, <1>1, <1>9, ActMoves
<1> QED
  BY <1>2, <1>3, <1>4, <1>5, <1>6, <1>7, <1>8, <1>9, StopDoes, MarkingSplit

LEMMA ReadStep ==
  ASSUME TypeOK, RowInv, SoundInv, ReadInv, [Next]_vars PROVE ReadInv'
<1> SUFFICES ASSUME NEW a \in Attempt, At(a, {"reading"})', StillChecking(a)',
                    NEW w \in ToRead(try[a].row)'
             PROVE  Seen(a, w)'
  BY DEF ReadInv
<1>1. CASE \E r \in Row : Take(a, r)
  <2>1. PICK r \in Row : Take(a, r)
    BY <1>1
  <2>2. /\ ~Marked(r) /\ try'[a].row = r /\ row' = row
    BY <2>1, TakeDoes DEF Moved, At, Rest
  <2>3. w \in ToRead(r) /\ w \in Worktree
    BY <2>2, RowFacts DEF ToRead, WorktreesOf, Row
  <2>4. try'[a].look[w] = Unread
    <3>1. try'[a].look = [v \in Worktree |-> IF v \in ToRead(r) THEN Unread ELSE Read]
      BY <2>1, <2>2, TakeMoves
    <3> QED
      BY <2>3, <3>1
  <2> QED
    BY <2>4 DEF Seen, Unread
<1>2. CASE /\ At(a, {"reading"}) /\ StillChecking(a) /\ try'[a].row = try[a].row
           /\ \/ try'[a] = try[a]
              \/ \E u \in Worktree : \E s :
                    ReadStarts(a, u) \/ ReadSession(a, u, s) \/ ReadProcesses(a, u, s)
  <2> DEFINE r == try[a].row
  <2>1. r \in Row /\ row[r] = "there" /\ Marked(r)
    BY <1>2, RowOf DEF At, StillChecking, Marked
  <2>2. /\ w \in ToRead(r) /\ w \in Worktree /\ row[w] = "there"
        /\ Marked(w) \/ Marked(ProjectOf[w])
    <3>1. CASE r \in Project
      <4>1. w \in Worktree /\ ProjectOf[w] = r /\ row'[w] = "there"
        BY <1>2, <3>1 DEF ToRead, WorktreesOf
      <4>2. row[w] = "there"
        BY <2>1, <4>1, RowFacts, RowsBefore DEF CreateWorktree
      <4> QED
        BY <2>1, <3>1, <4>1, <4>2 DEF ToRead, WorktreesOf
    <3>2. CASE r \notin Project
      BY <1>2, <2>1, <3>2 DEF ToRead, Row
    <3> QED
      BY <3>1, <3>2
  <2>3. Seen(a, w)
    BY <1>2, <2>2 DEF ReadInv
  <2>4. CASE try'[a].look[w] = try[a].look[w]
    BY <2>2, <2>3, <2>4, SeenWorks, WorkOrNot
  <2>5. CASE try'[a].look[w] # try[a].look[w]
    <3>1. PICK u \in Worktree : \E s :
                    ReadStarts(a, u) \/ ReadSession(a, u, s) \/ ReadProcesses(a, u, s)
      BY <1>2, <2>5
    <3>2. PICK s : ReadStarts(a, u) \/ ReadSession(a, u, s) \/ ReadProcesses(a, u, s)
      BY <3>1
    <3>3. try'[a] # None /\ try'[a].at = "reading"
      BY DEF At
    <3>4. PICK l \in Look : try'[a].look = [try[a].look EXCEPT ![u] = l]
      <4>1. ~Moved(a, try[a].row, "giveBack")
        BY <3>3 DEF Moved
      <4> QED
        BY <3>2, <4>1, ReadMoves
    <3>5. u = w
      BY <1>2, <2>2, <2>5, <3>4, TryTypes DEF At
    <3> QED
      BY <2>2, <2>3, <3>2, <3>3, <3>5, SeenReads
  <2> QED
    BY <2>4, <2>5
<1> QED
  BY <1>1, <1>2, ReadsOn

LEMMA DoomStep ==
  ASSUME TypeOK, RowInv, TryInv, SoundInv, ReadInv, DoomInv, [Next]_vars PROVE DoomInv'
<1> SUFFICES ASSUME NEW w \in Worktree, row'[w] = "there", Doomed(w)', NEW s \in SessionsIn(w)
             PROVE  NoSound(s)' /\ NoLive(s)' /\ NoRuns(s)'
  BY DEF DoomInv, SessionsIn
<1> DEFINE p == ProjectOf[w]
<1>1. w \in Row /\ p \in Row /\ p \in Project /\ s \in Session
  BY RowFacts DEF SessionsIn
<1>2. row[w] = "there"
  <2>1. CASE CreateWorktree(w) /\ mark[w] = NoMark /\ mark' = mark
    BY <2>1 DEF CreateWorktree, Doomed, Marked, NoMark
  <2> QED
    BY <1>1, <2>1, RowsBefore
<1>3. CASE Doomed(w)
  <2>1. NoSound(s) /\ NoLive(s) /\ NoRuns(s) /\ ~Unmarked(s)
    BY <1>2, <1>3, DoomBars DEF DoomInv
  <2>2. CASE Works
    BY <1>1, <2>1, <2>2, WorkQuiet
  <2>3. CASE UNCHANGED work
    BY <2>1, <2>3 DEF work, NoSound, NoLive, NoRuns, Admissions, Running
  <2> QED
    BY <2>2, <2>3, WorkOrNot
<1>4. CASE ~Doomed(w)
  <2>1. /\ UNCHANGED work
        /\ \E a \in Attempt : /\ At(a, {"reading"}) /\ Decided(a) /\ StillChecking(a)
                              /\ w \in ToRead(try[a].row)
    <3>1. CASE mark'[w].phase = "deleting"
      <4>1. mark[w].phase \notin {"removed", "deleting"}
        BY <1>1, <1>4, TypeIsParts DEF Doomed, MarkType
      <4>2. /\ UNCHANGED work
            /\ \E a \in Attempt : At(a, {"reading"}) /\ Decided(a) /\ StillChecking(a) /\ try[a].row = w
        BY <1>1, <3>1, <4>1, NewlyDoomed
      <4> QED
        BY <4>2, RowFacts DEF ToRead
    <3>2. CASE mark'[p].phase \in {"removed", "deleting"}
      <4>1. mark[p].phase \notin {"removed", "deleting"}
        BY <1>4 DEF Doomed
      <4>2. row'[p] = "there"
        <5>1. RowInv'
          BY RowStep
        <5>2. mark'[p] # NoMark
          BY <3>2 DEF NoMark
        <5> QED
          BY <1>1, <5>1, <5>2 DEF RowInv
      <4>3. /\ UNCHANGED work
            /\ \E a \in Attempt : At(a, {"reading"}) /\ Decided(a) /\ StillChecking(a) /\ try[a].row = p
        BY <1>1, <3>2, <4>1, <4>2, NewlyDoomed
      <4> QED
        BY <1>1, <1>2, <4>3 DEF ToRead, WorktreesOf
    <3> QED
      BY <3>1, <3>2 DEF Doomed
  <2>2. NoSound(s) /\ NoLive(s) /\ NoRuns(s)
    BY <2>1 DEF ReadInv, Seen, Decided
  <2> QED
    BY <2>1, <2>2 DEF work, NoSound, NoLive, NoRuns, Admissions, Running
<1> QED
  BY <1>3, <1>4

-----------------------------------------------------------------------------
(* The theorems. *)

LEMMA InvInit == Init => Inv
<1> SUFFICES ASSUME Init PROVE Inv
  OBVIOUS
<1>1. /\ mark = [r \in Row |-> NoMark] /\ try = [a \in Attempt |-> None]
      /\ ruined = {} /\ sound = {} /\ NoMark.phase = "none" /\ NoMark.id = None /\ ~NoMark.fresh
  BY DEF Init, NoMark
<1>2. RowInv /\ TryInv /\ BackInv /\ SoundInv /\ ReadInv
  BY <1>1 DEF RowInv, TryInv, TryOf, BackInv, SoundInv, ReadInv, At
<1>3. DoomInv /\ MarksApart
  BY <1>1, RowFacts DEF DoomInv, Doomed, MarksApart, Marked
<1>4. RuinedStaysMarked /\ OneDeletes
  BY <1>1 DEF RuinedStaysMarked, OneDeletes
<1> QED
  BY <1>2, <1>3, <1>4 DEF Inv

LEMMA InvStep == TypeOK /\ Inv /\ [Next]_vars => Inv'
BY RowStep, TryStep, BackStep, SoundStep, ReadStep, DoomStep, ApartStep, RuinedStep, OneStep DEF Inv

\* The inductive invariant: rows, marks and attempts agree, and what a standing check has
\* read, or a deletion relied on, is still so.
THEOREM Invariant == Spec => []Inv
BY TypeInit, TypeStep, InvInit, InvStep, PTL DEF Spec

\* A worktree's removal and its project's never stand together, for any number of both.
THEOREM StandApart == Spec => []MarksApart
<1>1. Inv => MarksApart
  BY DEF Inv
<1> QED
  BY <1>1, Invariant, PTL

\* What a deletion began stays marked until its row is gone, whatever stops it.
THEOREM BegunStaysMarked == Spec => []RuinedStaysMarked
<1>1. Inv => RuinedStaysMarked
  BY DEF Inv
<1> QED
  BY <1>1, Invariant, PTL

\* Two removals that renewed their marks in time never destroy at once what is there.
THEOREM OneAtATime == Spec => []OneDeletes
<1>1. Inv => OneDeletes
  BY DEF Inv
<1> QED
  BY <1>1, Invariant, PTL

\* A purge destroys the removal its person confirmed.
THEOREM PurgesWhatWasConfirmed == Spec => []PurgesTheConfirmed
<1>1. Inv => PurgesTheConfirmed
  BY DEF Inv, TryInv, TryOf, At, PurgesTheConfirmed
<1> QED
  BY <1>1, Invariant, PTL

\* Under a deletion nothing is live, and nothing runs, that a mark or an admission that
\* lapsed should have kept out: however reads, starts and marks interleave.
THEOREM NothingSoundStarts == Spec => []SettledUnderDeletion
<1>1. Inv => SettledUnderDeletion
  BY DEF Inv, DoomInv, NoLive, NoRuns, SettledUnderDeletion
<1> QED
  BY <1>1, Invariant, PTL
=============================================================================
