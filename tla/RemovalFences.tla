---------------------------- MODULE RemovalFences ----------------------------
(***************************************************************************)
(* Removal of worktrees and projects against work that starts in them:     *)
(* packages/db/src/repos/removal-fences.ts, the triggers of migrations     *)
(* 0166 and 0167 (packages/db/src/migrations.ts) and their only caller,    *)
(* apps/api/src/removal.ts.                                                *)
(*                                                                         *)
(* A statement or transaction of the database is one step; what a removal  *)
(* or a start does between two of them is where the others act.  Time is   *)
(* the Lapse and LapseAdmission steps: a mark or an admission that is not  *)
(* renewed in 120 s may be stale at any moment, its holder's renewals      *)
(* being late, failed, or gone with its process.                           *)
(*                                                                         *)
(* Whatever else may refuse a removal (who asks, saves under way, setups,  *)
(* a change not on origin) is a refusal at any moment of its reading.      *)
(* Left out: a rollback's hold on a worktree, and linked projects.         *)
(***************************************************************************)
EXTENDS Integers, FiniteSets

CONSTANTS
  Project, Worktree,
  ProjectOf,   \* [Worktree -> Project]
  Session,
  Places,      \* [Session -> SUBSET Worktree]: its own, and those held as repositories
  Start,       \* admitted starts: launches, shells, Services
  Attempt,     \* requests to remove or purge; an attempt's mark is its own
  Steps,       \* how often a deletion asks for its mark: each asks, then destroys
  MaxEra,      \* bound: how often a project is removed and restored
  None

VARIABLES
  row,     \* worktrees and projects: "none" before its insert, "there", "gone"
  mark,    \* removal_phase, removal_id and whether removal_since is fresh
  era,     \* [Project -> Nat]: which removal removed_at dates; 0 before the first
  listed,  \* the projects whose removed_at is NULL
  status,  \* agent_sessions.status: live (LIVE_STATES) or settled
  start,   \* starts: their admission row and the process row they made
  try,     \* the removals and purges under way
  ruined,  \* rows something was destroyed of
  sound,   \* history: admissions no standing mark would have refused, kept fresh since
  stray,   \* history: live sessions and starts' processes let in by no sound admission
  slept    \* history: attempts whose mark was stale since they last asked for it

vars == <<row, mark, era, listed, status, start, try, ruined, sound, stray, slept>>
tables == <<row, mark, era, listed>>
work == <<status, start, sound, stray>>

-----------------------------------------------------------------------------
Row == Project \cup Worktree
Phase == {"none", "checking", "deleting", "removed"}
NoMark == [phase |-> "none", id |-> None, fresh |-> FALSE]

\* How far a removal has read one worktree: its admitted starts, then the sessions
\* left to read, then the sessions whose processes are left to read.
Look == [at : {"starts", "sessions", "processes", "read"},
         starting : SUBSET Session, left : SUBSET Session]
Read == [at |-> "read", starting |-> {}, left |-> {}]

Try == [row : Row, at : {"reading", "confirmed", "ask", "act", "giveBack", "over"},
        look : [Worktree -> Look], era : Nat, left : 0..Steps]

StartState == [session : Session, at : {"admitted", "over"},
               admission : {"fresh", "stale", "none"}, process : BOOLEAN]

ASSUME ConstantsAssumption ==
  /\ ProjectOf \in [Worktree -> Project]
  /\ Places \in [Session -> SUBSET Worktree]
  /\ Project \cap Worktree = {} /\ Session \cap Start = {}
  /\ None \notin Attempt \cup Try \cup StartState
  /\ Steps \in Nat \ {0} /\ MaxEra \in Nat

TypeOK ==
  /\ row \in [Row -> {"none", "there", "gone"}]
  /\ mark \in [Row -> [phase : Phase, id : Attempt \cup {None}, fresh : BOOLEAN]]
  /\ \A r \in Row : mark[r].phase = "none" <=> mark[r].id = None
  /\ \A w \in Worktree : mark[w].phase # "removed"
  /\ era \in [Project -> Nat] /\ listed \subseteq Project
  /\ \A p \in Project : row[p] = "there" =>
       (p \notin listed <=> mark[p].phase \in {"removed", "deleting"})
  /\ status \in [Session -> {"live", "settled"}]
  /\ start \in [Start -> StartState \cup {None}]
  /\ try \in [Attempt -> Try \cup {None}]
  /\ ruined \subseteq Row
  /\ sound \subseteq Start /\ stray \subseteq Session \cup Start /\ slept \subseteq Attempt

Init ==
  /\ \E made \in SUBSET Worktree :
       row = [r \in Row |-> IF r \in Project \cup made THEN "there" ELSE "none"]
  /\ mark = [r \in Row |-> NoMark]
  /\ era = [p \in Project |-> 0] /\ listed = Project
  /\ status = [s \in Session |-> "settled"]
  /\ start = [x \in Start |-> None]
  /\ try = [a \in Attempt |-> None]
  /\ ruined = {} /\ sound = {} /\ stray = {} /\ slept = {}

-----------------------------------------------------------------------------
(* What a mark refuses. *)

\* removal_fence_marked
Marked(r) == mark[r].phase \in {"removed", "deleting"} \/ mark[r].fresh

WorktreesOf(p) == {w \in Worktree : ProjectOf[w] = p /\ row[w] = "there"}
Relatives(r) == IF r \in Project THEN WorktreesOf(r) ELSE {ProjectOf[r]}

PlacesOf(s) == {w \in Places[s] : row[w] = "there"}
ProjectsOf(s) == {ProjectOf[w] : w \in Places[s]}

\* removal_fence_admit, for every place of a session
Unmarked(s) == \A r \in PlacesOf(s) \cup ProjectsOf(s) : ~Marked(r)

\* removal_fence_admitted
Admissions(s) == {x \in Start : start[x] # None /\ start[x].session = s
                                /\ start[x].admission = "fresh"}
Admitted(s) == Admissions(s) # {} /\ ProjectsOf(s) \subseteq listed

\* removal_fence_admit_session_work
LetIn(s) == Admitted(s) \/ Unmarked(s)
Soundly(s) == Unmarked(s) \/ Admissions(s) \cap sound # {}

SessionsIn(w) == {s \in Session : w \in Places[s]}

\* Mutated: admitted starts are not read.
StartingInNone(w) == {}

\* startingIn
StartingIn(w) == {s \in SessionsIn(w) : Admissions(s) # {}}

Running(s) == {x \in Start : start[x] # None /\ start[x].session = s /\ start[x].process}

-----------------------------------------------------------------------------
(* Work. *)

\* removal_fence_admit_admission: a live session's starts are admitted unread.
AdmitStart(s) == (status[s] = "live" /\ ProjectsOf(s) \subseteq listed) \/ LetIn(s)

\* whileAdmitted: the admission comes before anything runs...
Admit(x, s) ==
  /\ start[x] = None /\ Places[s] = PlacesOf(s) /\ AdmitStart(s)
  /\ start' = [start EXCEPT ![x] = [session |-> s, at |-> "admitted",
                                     admission |-> "fresh", process |-> FALSE]]
  /\ sound' = IF Soundly(s) THEN sound \cup {x} ELSE sound
  /\ UNCHANGED <<tables, status, stray, try, ruined, slept>>

\* ... is renewed, whatever its age, while the start runs...
RenewAdmission(x) ==
  /\ start[x] # None /\ start[x].at = "admitted" /\ start[x].admission = "stale"
  /\ start' = [start EXCEPT ![x].admission = "fresh"]
  /\ UNCHANGED <<tables, status, sound, stray, try, ruined, slept>>

\* ... and ends with it.  An engine that stops leaves the row to go stale.
EndStart(x) ==
  /\ start[x] # None /\ start[x].at = "admitted"
  /\ \E left \in {"none", start[x].admission} :
       start' = [start EXCEPT ![x].at = "over", ![x].admission = left]
  /\ UNCHANGED <<tables, status, sound, stray, try, ruined, slept>>

LapseAdmission(x) ==
  /\ start[x] # None /\ start[x].admission = "fresh"
  /\ start' = [start EXCEPT ![x].admission = "stale"]
  /\ sound' = sound \ {x}
  /\ UNCHANGED <<tables, status, stray, try, ruined, slept>>

\* A session's status becomes live (removal_fence_admit_session)...
GoLive(x) ==
  LET s == start[x].session IN
  /\ start[x] # None /\ start[x].at = "admitted"
  /\ status[s] = "settled" /\ LetIn(s)
  /\ status' = [status EXCEPT ![s] = "live"]
  /\ stray' = IF Soundly(s) THEN stray \ {s} ELSE stray \cup {s}
  /\ UNCHANGED <<tables, start, sound, try, ruined, slept>>

\* ... and a shell, Service or screen process is inserted (removal_fence_admit_child).
OpenProcess(x) ==
  LET s == start[x].session IN
  /\ start[x] # None /\ start[x].at = "admitted"
  /\ ~start[x].process /\ LetIn(s)
  /\ start' = [start EXCEPT ![x].process = TRUE]
  /\ stray' = IF Soundly(s) THEN stray \ {x} ELSE stray \cup {x}
  /\ UNCHANGED <<tables, status, sound, try, ruined, slept>>

Settle(s) ==
  /\ status[s] = "live"
  /\ status' = [status EXCEPT ![s] = "settled"]
  /\ stray' = stray \ {s}
  /\ UNCHANGED <<tables, start, sound, try, ruined, slept>>

ExitProcess(x) ==
  /\ start[x] # None /\ start[x].process
  /\ start' = [start EXCEPT ![x].process = FALSE]
  /\ stray' = stray \ {x}
  /\ UNCHANGED <<tables, status, sound, try, ruined, slept>>

\* A worktree's insert (removal_fence_admit_project_row).
CreateWorktree(w) ==
  /\ row[w] = "none" /\ row[ProjectOf[w]] = "there" /\ ~Marked(ProjectOf[w])
  /\ row' = [row EXCEPT ![w] = "there"]
  /\ UNCHANGED <<mark, era, listed, work, try, ruined, slept>>

-----------------------------------------------------------------------------
(* Marks. *)

\* Mutated: only a removal at work stands in a relative's way.
ApartFresh(r) == \A q \in Relatives(r) : ~mark[q].fresh

Apart(r) == \A q \in Relatives(r) : ~Marked(q)

Own(a) == mark[try[a].row].id = a

\* Mutated: whose the mark is, is not asked.
HoldsAny(a) == Marked(try[a].row)

\* renew's WHERE
Holds(a) == Own(a) /\ Marked(try[a].row)

\* Mutated: a check's mark that lapsed is still committed.
StillCheckingAged(a) == Own(a) /\ mark[try[a].row].phase = "checking"

\* commit's and keep's WHERE
StillChecking(a) ==
  /\ Own(a) /\ mark[try[a].row].phase = "checking" /\ mark[try[a].row].fresh

\* Mutated: a deletion that fails gives its mark back.
HandedOverCleared(a) == IF Own(a) THEN [mark EXCEPT ![try[a].row] = NoMark] ELSE mark

\* handOver
HandedOver(a) ==
  IF Own(a) /\ mark[try[a].row].phase = "deleting"
  THEN [mark EXCEPT ![try[a].row].fresh = FALSE] ELSE mark

\* Mutated: a project's mark is given back in any phase.
ReleasedAny(a) == IF Own(a) THEN [mark EXCEPT ![try[a].row] = NoMark] ELSE mark

\* release: a project's only while it is checked.
Released(a) ==
  LET r == try[a].row IN
  IF Own(a) /\ (r \in Project => mark[r].phase = "checking")
  THEN [mark EXCEPT ![r] = NoMark] ELSE mark

WithMark(r, phase, a) == mark' = [mark EXCEPT ![r] = [phase |-> phase, id |-> a, fresh |-> TRUE]]

Lapse(r) ==
  /\ mark[r].fresh
  /\ mark' = [mark EXCEPT ![r].fresh = FALSE]
  /\ slept' = slept \cup {a \in Attempt : mark[r].id = a}
  /\ UNCHANGED <<row, era, listed, work, try, ruined>>

\* What an attempt has read is forgotten once it reads no more.
Goes(a, to) ==
  try' = [try EXCEPT ![a].at = to, ![a].look = [w \in Worktree |-> Read],
                     ![a].left = IF to = "over" THEN 0 ELSE @]

\* The holder's renewals while it checks and deletes.
Renew(a) ==
  /\ try[a] # None /\ try[a].at \in {"reading", "ask", "act"}
  /\ Holds(a) /\ ~mark[try[a].row].fresh
  /\ mark' = [mark EXCEPT ![try[a].row].fresh = TRUE]
  /\ UNCHANGED <<row, era, listed, work, try, ruined, slept>>

-----------------------------------------------------------------------------
(* Removals. *)

ToRead(r) == IF r \in Project THEN WorktreesOf(r) ELSE {r}
Unread == [at |-> "starts", starting |-> {}, left |-> {}]

\* take.  One that meets another under way, or a removed project, writes nothing
\* and refuses.  A mark that stands stale is a deletion that stopped: only the
\* deletion is left.
Take(a, r) ==
  /\ try[a] = None /\ row[r] = "there" /\ ~mark[r].fresh /\ Apart(r)
  /\ r \in Project => r \in listed
  /\ WithMark(r, IF Marked(r) THEN "deleting" ELSE "checking", a)
  /\ try' = [try EXCEPT ![a] =
       [row |-> r, era |-> 0, left |-> Steps,
        at |-> IF Marked(r) THEN "ask" ELSE "reading",
        look |-> [w \in Worktree |->
                    IF w \in ToRead(r) /\ ~Marked(r) THEN Unread ELSE Read]]]
  /\ UNCHANGED <<row, era, listed, work, ruined, slept>>

Reading(a, w, what) == try[a] # None /\ try[a].at = "reading" /\ try[a].look[w].at = what
Looks(a, w, look) == try' = [try EXCEPT ![a].look[w] = look]

\* worktreeHolds reads the admitted starts first...
ReadStarts(a, w) ==
  /\ Reading(a, w, "starts")
  /\ Looks(a, w, IF SessionsIn(w) = {} THEN Read
                 ELSE [at |-> "sessions", starting |-> StartingIn(w), left |-> SessionsIn(w)])
  /\ UNCHANGED <<tables, work, ruined, slept>>

\* ... then each session: one that is live or starting refuses the removal...
ReadSession(a, w, s) ==
  LET l == try[a].look[w] IN
  /\ Reading(a, w, "sessions") /\ s \in l.left
  /\ IF status[s] = "live" \/ s \in l.starting THEN Goes(a, "giveBack")
     ELSE Looks(a, w, IF l.left = {s}
                      THEN [l EXCEPT !.at = "processes", !.left = SessionsIn(w)]
                      ELSE [l EXCEPT !.left = @ \ {s}])
  /\ UNCHANGED <<tables, work, ruined, slept>>

\* ... then the processes of each: one that runs refuses it.
ReadProcesses(a, w, s) ==
  LET l == try[a].look[w] IN
  /\ Reading(a, w, "processes") /\ s \in l.left
  /\ IF Running(s) # {} THEN Goes(a, "giveBack")
     ELSE Looks(a, w, IF l.left = {s} THEN Read ELSE [l EXCEPT !.left = @ \ {s}])
  /\ UNCHANGED <<tables, work, ruined, slept>>

\* Anything else that stands in the way, or a read that fails.
Refuse(a) ==
  /\ try[a] # None /\ try[a].at = "reading"
  /\ Goes(a, "giveBack")
  /\ UNCHANGED <<tables, work, ruined, slept>>

GiveBack(a) ==
  /\ try[a] # None /\ try[a].at = "giveBack"
  /\ mark' = Released(a) /\ Goes(a, "over")
  /\ UNCHANGED <<row, era, listed, work, ruined, slept>>

Decided(a) == try[a].at = "reading" /\ \A w \in Worktree : try[a].look[w].at = "read"

\* commit.  Refused, or its answer lost: the mark is given back.
Commit(a) ==
  /\ try[a] # None /\ try[a].row \in Worktree /\ Decided(a)
  /\ IF StillChecking(a)
     THEN WithMark(try[a].row, "deleting", a) /\ (Goes(a, "ask") \/ Goes(a, "giveBack"))
     ELSE Goes(a, "giveBack") /\ UNCHANGED mark
  /\ UNCHANGED <<row, era, listed, work, ruined, slept>>

\* keep: the project is removed and nothing of it is destroyed.
Keep(a) ==
  LET p == try[a].row IN
  /\ try[a] # None /\ p \in Project /\ Decided(a) /\ era[p] < MaxEra
  /\ IF StillChecking(a)
     THEN /\ mark' = [mark EXCEPT ![p].phase = "removed"]
          /\ listed' = listed \ {p} /\ era' = [era EXCEPT ![p] = @ + 1]
          /\ Goes(a, "over") \/ Goes(a, "giveBack")
     ELSE Goes(a, "giveBack") /\ UNCHANGED <<mark, listed, era>>
  /\ UNCHANGED <<row, work, ruined, slept>>

Restore(p) ==
  /\ row[p] = "there" /\ mark[p].phase = "removed"
  /\ mark' = [mark EXCEPT ![p] = NoMark] /\ listed' = listed \cup {p}
  /\ UNCHANGED <<row, era, work, try, ruined, slept>>

-----------------------------------------------------------------------------
(* Purges and deletions. *)

\* A person confirms the purge of the removal they read...
Confirm(a, p) ==
  /\ try[a] = None /\ row[p] = "there" /\ p \notin listed
  /\ try' = [try EXCEPT ![a] = [row |-> p, era |-> era[p], left |-> Steps, at |-> "confirmed",
                                look |-> [w \in Worktree |-> Read]]]
  /\ UNCHANGED <<tables, work, ruined, slept>>

\* Mutated: what was confirmed is not compared.
StillConfirmedAny(a) == try[a].row \notin listed

StillConfirmed(a) == try[a].row \notin listed /\ era[try[a].row] = try[a].era

\* ... and takePurge marks it, unless another purge is at work.
TakePurge(a) ==
  LET p == try[a].row IN
  /\ try[a] # None /\ try[a].at = "confirmed"
  /\ IF row[p] = "there" /\ StillConfirmed(a) /\ ~(mark[p].phase = "deleting" /\ mark[p].fresh)
     THEN WithMark(p, "deleting", a) /\ Goes(a, "ask")
     ELSE Goes(a, "over") /\ UNCHANGED mark
  /\ UNCHANGED <<row, era, listed, work, ruined, slept>>

\* Before each destructive step the mark is asked for, and renewed.
Ask(a) ==
  /\ try[a] # None /\ try[a].at = "ask"
  /\ IF Holds(a)
     THEN /\ mark' = [mark EXCEPT ![try[a].row].fresh = TRUE]
          /\ slept' = slept \ {a} /\ Goes(a, "act")
     ELSE mark' = HandedOver(a) /\ Goes(a, "over") /\ UNCHANGED slept
  /\ UNCHANGED <<row, era, listed, work, ruined>>

\* A step destroys something; the last one of a worktree also deletes its row.
\* That of a project goes only while the mark is still fresh (finishPurge).
Act(a) ==
  LET r == try[a].row IN
  /\ try[a] # None /\ try[a].at = "act"
  /\ ruined' = IF row[r] = "there" THEN ruined \cup {r} ELSE ruined
  /\ IF try[a].left > 1
     THEN /\ try' = [try EXCEPT ![a].at = "ask", ![a].left = @ - 1]
          /\ UNCHANGED <<row, mark>>
     ELSE /\ Goes(a, "over")
          /\ IF r \in Project /\ ~(Own(a) /\ mark[r].phase = "deleting" /\ mark[r].fresh)
             THEN mark' = HandedOver(a) /\ UNCHANGED row
             ELSE LET gone == {r} \cup IF r \in Project THEN WorktreesOf(r) ELSE {} IN
                  /\ row' = [q \in Row |-> IF q \in gone THEN "gone" ELSE row[q]]
                  /\ mark' = [q \in Row |-> IF q \in gone THEN NoMark ELSE mark[q]]
  /\ UNCHANGED <<era, listed, work, slept>>

\* A step that fails: the deletion stops and is handed over.
Fail(a) ==
  /\ try[a] # None /\ try[a].at \in {"ask", "act"}
  /\ mark' = HandedOver(a) /\ Goes(a, "over")
  /\ UNCHANGED <<row, era, listed, work, ruined, slept>>

\* The process of a removal stops anywhere.
Crash(a) ==
  /\ try[a] # None /\ try[a].at # "over"
  /\ Goes(a, "over")
  /\ UNCHANGED <<tables, work, ruined, slept>>

-----------------------------------------------------------------------------
Works ==
  \/ \E x \in Start, s \in Session : Admit(x, s)
  \/ \E x \in Start : RenewAdmission(x) \/ EndStart(x) \/ LapseAdmission(x)
                      \/ GoLive(x) \/ OpenProcess(x) \/ ExitProcess(x)
  \/ \E s \in Session : Settle(s)
  \/ \E w \in Worktree : CreateWorktree(w)

Removes(a) ==
  \/ \E r \in Row : Take(a, r)
  \/ Renew(a) \/ Refuse(a) \/ GiveBack(a) \/ Commit(a) \/ Keep(a)
  \/ \E w \in Worktree : ReadStarts(a, w)
  \/ \E w \in Worktree, s \in Session : ReadSession(a, w, s) \/ ReadProcesses(a, w, s)
  \/ \E p \in Project : Confirm(a, p)
  \/ TakePurge(a) \/ Ask(a) \/ Act(a) \/ Fail(a) \/ Crash(a)

Next ==
  \/ Works
  \/ \E a \in Attempt : Removes(a)
  \/ \E r \in Row : Lapse(r)
  \/ \E p \in Project : Restore(p)

Spec == Init /\ [][Next]_vars

-----------------------------------------------------------------------------
(* Properties. *)

Doomed(w) == mark[w].phase = "deleting" \/ mark[ProjectOf[w]].phase \in {"removed", "deleting"}

\* Between a removal's checks and its deletion nothing starts: in a worktree being
\* deleted, or of a removed project, no session is live and no process runs, but for
\* what an admission let in that a standing mark should have refused or that had lapsed.
SettledUnderDeletion ==
  \A w \in Worktree : row[w] = "there" /\ Doomed(w) =>
    \A s \in SessionsIn(w) :
      (status[s] = "live" => s \in stray) /\ Running(s) \subseteq stray

\* The mark makes the triggers refuse new work, so nothing starts between a removal's
\* checks and its deletion (removal-fences.ts:80-83).
NothingStartsUnderDeletion ==
  \A w \in Worktree : row[w] = "there" /\ Doomed(w) =>
    \A s \in SessionsIn(w) : status[s] = "settled" /\ Running(s) = {}

\* A worktree's removal and its project's never stand together: each sees the other's
\* mark, a deletion that stopped at any age.
MarksApart == \A w \in Worktree : row[w] = "there" => ~(Marked(w) /\ Marked(ProjectOf[w]))

\* What a deletion began to destroy is never given back as whole: until its row is gone
\* its mark stands, whoever failed, stalled or crashed.
RuinedStaysMarked == \A r \in ruined : row[r] = "there" => mark[r].phase = "deleting"

\* No two delete at once what is still there, unless one of them let its mark lapse since
\* it asked for it.
OneDeletes ==
  \A a, b \in Attempt :
    /\ a # b /\ try[a] # None /\ try[b] # None
    /\ try[a].at = "act" /\ try[b].at = "act"
    /\ row[try[a].row] = "there" /\ row[try[b].row] = "there"
    /\ try[b].row \in {try[a].row} \cup Relatives(try[a].row)
    => a \in slept \/ b \in slept

\* A purge destroys only what its person confirmed: that removal of the project, not
\* one made after a restore.
PurgesTheConfirmed ==
  \A a \in Attempt :
    try[a] # None /\ try[a].row \in Project /\ try[a].at = "act" =>
      try[a].era = era[try[a].row]
=============================================================================
