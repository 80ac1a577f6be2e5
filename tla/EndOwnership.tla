----------------------------- MODULE EndOwnership -----------------------------
(***************************************************************************)
(* Who records that an agent's process ended                               *)
(* (packages/sessions/src/end-ownership.ts, and the observers,             *)
(* continuations and Stops of packages/sessions/src/engine.ts).            *)
(*                                                                         *)
(* An observer saw a process end (its watcher, its run's supervisor, a     *)
(* transcript that went quiet).  A continuation ends the agents it found   *)
(* and starts the next one: a mode switch (Switch) or a hand-over.  A Stop *)
(* ends every agent it found and waits for nobody.  One process of one     *)
(* event loop runs them all: a step is what runs between two answers of    *)
(* the database, the platform or another of them.  One workspace; the      *)
(* launch gate is not assumed to keep two continuations apart.             *)
(***************************************************************************)
EXTENDS Integers, FiniteSets

CONSTANTS
  Process,       \* agent processes of one session
  First,         \* those running at the start
  Observer,
  Of,            \* Of[o]: the process an observer looks at
  Patient,       \* observers that wait for a continuation; others give up
  Continuation,
  Switch,        \* the continuations that are mode switches
  Stop,
  Casts,         \* which of them act: a set of sets of actors
  None

Actor == Observer \cup Continuation \cup Stop

OwnershipAssumption ==
  /\ First \subseteq Process
  /\ Of \in [Observer -> Process] /\ Patient \subseteq Observer
  /\ Switch \subseteq Continuation /\ IsFiniteSet(Continuation)
  /\ Observer \cap Continuation = {} /\ Observer \cap Stop = {}
  /\ Continuation \cap Stop = {}
  /\ Casts \subseteq SUBSET Actor
  /\ None \notin Actor /\ None \notin Process

ASSUME OwnershipAssumption

VARIABLES
  row,       \* a process's row: none yet, live, or exited
  gone,      \* the processes that do not run any more
  owner,     \* owners, by process
  state,     \* a continuation's entry
  holds,     \* the workspace holds entered and not left
  at, on,    \* how far an actor is, and with which process
  seen,      \* the rows a continuation or a Stop read
  left,      \* of those, the live ones it has not turned to
  awaited,   \* the claims an actor waits for: <<owner, process>>
  waited,    \* the observers that waited for a continuation
  recorded,  \* who recorded a process's end
  over       \* the Stops that were let record over a continuation

tables == <<owner, state, holds>>
vars == <<row, gone, owner, state, holds, at, on, seen, left, awaited, waited, recorded, over>>

Init ==
  /\ row = [p \in Process |-> IF p \in First THEN "live" ELSE "none"]
  /\ gone = {}
  /\ owner = [p \in Process |-> None]
  /\ state = [c \in Continuation |-> "none"]
  /\ holds = 0
  /\ \E cast \in Casts : at = [x \in Actor |-> IF x \in cast THEN "idle" ELSE "over"]
  /\ on = [x \in Actor |-> IF x \in Observer THEN Of[x] ELSE None]
  /\ seen = [x \in Actor |-> {}]
  /\ left = [x \in Actor |-> {}]
  /\ awaited = [x \in Actor |-> {}]
  /\ waited = {}
  /\ recorded = [p \in Process |-> {}]
  /\ over = [p \in Process |-> {}]

Live == {p \in Process : row[p] = "live"}
Rows == {p \in Process : row[p] # "none"}

Goes(x, stage) == at' = [at EXCEPT ![x] = stage]

------------------------------------------------------------------------------
(* The table.                                                              *)

(* Continuations that hold the workspace in use, and that own a process.   *)
Holding == {c \in Continuation : state[c] = "active" /\ \E p \in Process : owner[p] = c}

(* A variant that stops an entry and keeps its hold.                       *)
StopEntriesHeld(C) ==
  /\ state' = [c \in Continuation |->
                 IF c \in C /\ state[c] = "active" THEN "stopped" ELSE state[c]]
  /\ holds' = holds

(* stopEntry, of the active ones among C.                                  *)
StopEntries(C) ==
  /\ state' = [c \in Continuation |->
                 IF c \in C /\ state[c] = "active" THEN "stopped" ELSE state[c]]
  /\ holds' = holds - Cardinality(C \cap Holding)

(* The continuations that own one of these processes.                      *)
OwnersAmong(P) == {owner[p] : p \in P} \cap Continuation

(* A variant in which only active entries are released.                    *)
ReleasedActive(c) == IF state[c] = "active" THEN "released" ELSE state[c]

Released(c) == "released"

(* releaseEntry: the entry's processes have no owner, and whoever waits for*)
(* it goes on.                                                             *)
ReleaseEntry(c) ==
  /\ state[c] \in {"active", "stopped"}
  /\ holds' = holds - Cardinality({c} \cap Holding)
  /\ state' = [state EXCEPT ![c] = Released(c)]
  /\ owner' = [p \in Process |-> IF owner[p] = c THEN None ELSE owner[p]]

(* grant.                                                                  *)
Grant(x, p) ==
  IF owner[p] = None THEN "unowned"
  ELSE IF owner[p] \in Continuation
    THEN IF x \in Stop \/ (owner[p] = x /\ state[x] = "active") THEN "granted" ELSE "refused"
    ELSE IF owner[p] = x THEN "granted" ELSE "refused"

------------------------------------------------------------------------------
(* Recording an end (endAgentProcess, recordAgentEnd).                     *)

(* What comes after an end that was recorded, or not: an observer runs the *)
(* tail, a Stop and a continuation turn to the next agent.                 *)
After(x) == IF x \in Observer THEN "tail" ELSE "next"

(* A Stop's own claim lasts while it records.                              *)
LetGo(x) ==
  owner' = IF x \in Stop /\ owner[on[x]] = x THEN [owner EXCEPT ![on[x]] = None] ELSE owner

End(x) ==
  /\ at[x] = "grant"
  /\ LET p == on[x]
         answer == Grant(x, p)
     IN  \/ /\ answer = "granted"
            /\ Goes(x, "read")
            /\ IF x \in Stop /\ owner[p] \in Continuation
                 THEN StopEntries({owner[p]}) /\ over' = [over EXCEPT ![p] = @ \cup {x}]
                 ELSE UNCHANGED <<state, holds, over>>
            /\ UNCHANGED owner
         \/ /\ answer = "unowned" /\ x \in Stop
            /\ owner' = [owner EXCEPT ![p] = x]
            /\ Goes(x, "read")
            /\ UNCHANGED <<state, holds, over>>
         \/ /\ answer = "refused" \/ (answer = "unowned" /\ x \notin Stop)
            /\ Goes(x, After(x))
            /\ UNCHANGED tables /\ UNCHANGED over
  /\ UNCHANGED <<row, gone, on, seen, left, awaited, waited, recorded>>

(* A variant that records whatever the row says.                           *)
EndedNever(p) == FALSE

Ended(p) == row[p] # "live"

ReadRow(x) ==
  /\ at[x] = "read"
  /\ IF Ended(on[x])
       THEN /\ Goes(x, After(x))
            /\ LetGo(x)
       ELSE /\ Goes(x, "mark")
            /\ UNCHANGED owner
  /\ UNCHANGED <<row, gone, state, holds, on, seen, left, awaited, waited, recorded, over>>

(* markExited, then the run, the fold and the session's words: the end is  *)
(* recorded, whether or not the row was exited meanwhile.                  *)
Mark(x) ==
  /\ at[x] = "mark"
  /\ row' = [row EXCEPT ![on[x]] = "exited"]
  /\ recorded' = [recorded EXCEPT ![on[x]] = @ \cup {x}]
  /\ Goes(x, After(x))
  /\ LetGo(x)
  /\ UNCHANGED <<gone, state, holds, on, seen, left, awaited, waited, over>>

------------------------------------------------------------------------------
(* Observers (observeAgentEnd).                                            *)

(* A quiet transcript is no exit: who looks again later may be wrong.      *)
Notice(o) ==
  /\ at[o] = "idle"
  /\ IF o \in Patient THEN Of[o] \in gone ELSE Of[o] \in Live
  /\ Goes(o, "observe")
  /\ UNCHANGED <<row, gone, on, seen, left, awaited, waited, recorded, over>> /\ UNCHANGED tables

(* A variant that claims over another observer.                            *)
FreeOfContinuation(p) == owner[p] \notin Continuation

Free(p) == owner[p] = None

Observe(o) ==
  /\ at[o] = "observe"
  /\ LET p == on[o]
     IN  \/ /\ Free(p)
            /\ owner' = [owner EXCEPT ![p] = o]
            /\ Goes(o, IF o \in waited THEN "reread" ELSE "grant")
            /\ UNCHANGED <<awaited, waited>>
         \/ /\ ~Free(p) /\ owner[p] \in Continuation /\ o \in Patient
            /\ Goes(o, "wait")
            /\ awaited' = [awaited EXCEPT ![o] = {<<owner[p], p>>}]
            /\ waited' = waited \cup {o}
            /\ UNCHANGED owner
         \/ /\ ~Free(p) /\ ~(owner[p] \in Continuation /\ o \in Patient)
            /\ Goes(o, "over")
            /\ UNCHANGED <<owner, awaited, waited>>
  /\ UNCHANGED <<row, gone, state, holds, on, seen, left, recorded, over>>

(* The continuation's entry was released.                                  *)
Woken(o) ==
  /\ o \in Observer /\ at[o] = "wait"
  /\ \A claim \in awaited[o] : state[claim[1]] = "released"
  /\ Goes(o, "observe")
  /\ awaited' = [awaited EXCEPT ![o] = {}]
  /\ UNCHANGED <<row, gone, on, seen, left, waited, recorded, over>> /\ UNCHANGED tables

(* Who waited looks first whether the end is recorded.                     *)
Reread(o) ==
  /\ at[o] = "reread"
  /\ Goes(o, IF row[on[o]] = "exited" THEN "tail" ELSE "grant")
  /\ UNCHANGED <<row, gone, on, seen, left, awaited, waited, recorded, over>>
  /\ UNCHANGED tables

(* Harvest and sweep are over: the observer lets go of the end.            *)
Tail(o) ==
  /\ at[o] = "tail"
  /\ owner' = [p \in Process |-> IF p = on[o] /\ owner[p] = o THEN None ELSE owner[p]]
  /\ Goes(o, "over")
  /\ UNCHANGED <<row, gone, state, holds, on, seen, left, awaited, waited, recorded, over>>

ObserverStep(o) == Observe(o) \/ Woken(o) \/ Reread(o) \/ End(o) \/ ReadRow(o) \/ Mark(o) \/ Tail(o)

------------------------------------------------------------------------------
(* Continuations and Stops turn to each agent they found.                  *)

(* A switch and a Stop read every row of the session; a hand-over has the  *)
(* one agent whose conversation it hands over.                             *)
Found(x) ==
  IF x \in Continuation \ Switch THEN {<<{}, {p}>> : p \in Live} ELSE {<<Rows, Live>>}

Begin(x) ==
  /\ x \in Continuation \cup Stop /\ at[x] = "idle"
  /\ \E found \in Found(x) :
       /\ seen' = [seen EXCEPT ![x] = found[1]]
       /\ left' = [left EXCEPT ![x] = found[2]]
  /\ Goes(x, "begun")
  /\ UNCHANGED <<row, gone, on, awaited, waited, recorded, over>> /\ UNCHANGED tables

(* stopContinuations, of every row the Stop read.                          *)
StopContinuations(s) ==
  /\ s \in Stop /\ at[s] = "begun"
  /\ StopEntries(OwnersAmong(seen[s]))
  /\ seen' = [seen EXCEPT ![s] = {}]
  /\ Goes(s, "next")
  /\ UNCHANGED <<row, gone, owner, on, left, awaited, waited, recorded, over>>

(* continueFrom: refused under another continuation; while one of the ends *)
(* is observed, a switch waits for those observers and reads again, and a  *)
(* hand-over gives up; else every agent found is its own.                  *)
Continue(c) ==
  /\ c \in Continuation /\ at[c] = "begun"
  /\ LET looked == seen[c] \cup left[c]
         claims == {<<owner[p], p>> : p \in {p \in looked : owner[p] # None}}
     IN  \/ /\ OwnersAmong(looked) # {} \/ (claims # {} /\ c \notin Switch)
            /\ Goes(c, "over")
            /\ UNCHANGED tables /\ UNCHANGED awaited
         \/ /\ OwnersAmong(looked) = {} /\ claims # {} /\ c \in Switch
            /\ Goes(c, "wait")
            /\ awaited' = [awaited EXCEPT ![c] = claims]
            /\ UNCHANGED tables
         \/ /\ claims = {}
            /\ owner' = [p \in Process |-> IF p \in left[c] THEN c ELSE owner[p]]
            /\ state' = [state EXCEPT ![c] = "active"]
            /\ holds' = IF left[c] = {} THEN holds ELSE holds + 1
            /\ Goes(c, "next")
            /\ UNCHANGED awaited
  /\ seen' = [seen EXCEPT ![c] = {}]
  /\ UNCHANGED <<row, gone, on, left, waited, recorded, over>>

(* The ends a switch waited for have run: it reads the session again.      *)
ReadAgain(c) ==
  /\ c \in Continuation /\ at[c] = "wait"
  /\ \A claim \in awaited[c] : owner[claim[2]] # claim[1]
  /\ Goes(c, "begun")
  /\ awaited' = [awaited EXCEPT ![c] = {}]
  /\ seen' = [seen EXCEPT ![c] = Rows]
  /\ left' = [left EXCEPT ![c] = Live]
  /\ UNCHANGED <<row, gone, on, waited, recorded, over>> /\ UNCHANGED tables

TurnTo(x) ==
  /\ at[x] = "next"
  /\ \/ \E p \in left[x] : /\ on' = [on EXCEPT ![x] = p]
                           /\ left' = [left EXCEPT ![x] = @ \ {p}]
                           /\ Goes(x, "close")
     \/ /\ left[x] = {}
        /\ Goes(x, IF x \in Stop THEN "over" ELSE "start")
        /\ on' = [on EXCEPT ![x] = None]
        /\ UNCHANGED left
  /\ UNCHANGED <<row, gone, seen, awaited, waited, recorded, over>> /\ UNCHANGED tables

(* The platform closes the agent's process, or does not: a Stop and a      *)
(* switch go on to the next agent, a hand-over has failed.                 *)
Close(x) ==
  /\ at[x] = "close"
  /\ \/ gone' = gone \cup {on[x]} /\ Goes(x, "grant")
     \/ gone' = gone /\ Goes(x, IF x \in Continuation \ Switch THEN "done" ELSE "next")
  /\ UNCHANGED <<row, on, seen, left, awaited, waited, recorded, over>> /\ UNCHANGED tables

(* The continuation's next process is there, or did not start.             *)
Start(c) ==
  /\ at[c] = "start"
  /\ \/ \E p \in Process : row[p] = "none" /\ row' = [row EXCEPT ![p] = "live"]
     \/ UNCHANGED row
  /\ Goes(c, "done")
  /\ UNCHANGED <<gone, on, seen, left, awaited, waited, recorded, over>> /\ UNCHANGED tables

(* A continuation is over, fails or is interrupted, wherever it is; one    *)
(* that could start nothing lets go before it settles the session.         *)
Release(c) ==
  /\ c \in Continuation
  /\ ReleaseEntry(c)
  /\ Goes(c, "over")
  /\ on' = [on EXCEPT ![c] = None]
  /\ left' = [left EXCEPT ![c] = {}]
  /\ UNCHANGED <<row, gone, seen, awaited, waited, recorded, over>>

TakerStep(x) ==
  \/ StopContinuations(x) \/ Continue(x) \/ ReadAgain(x) \/ TurnTo(x) \/ Close(x)
  \/ End(x) \/ ReadRow(x) \/ Mark(x) \/ Start(x) \/ Release(x)

------------------------------------------------------------------------------
(* An agent's process ends of itself.                                      *)
Exit(p) ==
  /\ p \in Live \ gone
  /\ gone' = gone \cup {p}
  /\ UNCHANGED <<row, at, on, seen, left, awaited, waited, recorded, over>> /\ UNCHANGED tables

(* Its workspace is gone: its row is exited with the others, by nobody's   *)
(* authority (the reap of a workspace).                                    *)
Reap(p) ==
  /\ p \in Live \cap gone
  /\ row' = [row EXCEPT ![p] = "exited"]
  /\ UNCHANGED <<gone, at, on, seen, left, awaited, waited, recorded, over>>
  /\ UNCHANGED tables

Next ==
  \/ \E p \in Process : Exit(p) \/ Reap(p)
  \/ \E o \in Observer : Notice(o) \/ ObserverStep(o)
  \/ \E x \in Continuation \cup Stop : Begin(x) \/ TakerStep(x)

(* The database and the platform answer within their timeouts, every exit  *)
(* is seen by who watches for it, and the event loop runs what can run.    *)
Fairness ==
  WF_vars(\/ \E o \in Patient : Notice(o)
          \/ \E o \in Observer : ObserverStep(o)
          \/ \E x \in Continuation \cup Stop : TakerStep(x))

Spec == Init /\ [][Next]_vars /\ Fairness

------------------------------------------------------------------------------
(* Properties.                                                             *)

Stages == {"idle", "observe", "wait", "reread", "grant", "read", "mark", "tail",
           "begun", "next", "close", "start", "done", "over"}

(* Every variable keeps its type, and the workspace is held once for each  *)
(* continuation that is active: never left twice, nor left held.           *)
TypeOK ==
  /\ row \in [Process -> {"none", "live", "exited"}]
  /\ gone \subseteq Process
  /\ owner \in [Process -> Actor \cup {None}]
  /\ state \in [Continuation -> {"none", "active", "stopped", "released"}]
  /\ holds = Cardinality(Holding)
  /\ at \in [Actor -> Stages]
  /\ on \in [Actor -> Process \cup {None}]
  /\ seen \in [Actor -> SUBSET Process]
  /\ left \in [Actor -> SUBSET Process]
  /\ awaited \in [Actor -> SUBSET (Actor \X Process)]
  /\ waited \subseteq Observer
  /\ recorded \in [Process -> SUBSET Actor]
  /\ over \in [Process -> SUBSET Stop]

(* An end is recorded once, with one run outcome and one harvest, whoever  *)
(* saw the process end: only a Stop let record over a continuation records *)
(* beside another.                                                         *)
RecordedOnce == \A p \in Process : Cardinality(recorded[p] \ over[p]) <= 1

(* Every end someone waits to record is recorded.                          *)
EndsRecorded == \A o \in Patient : Of[o] \in gone => row[Of[o]] = "exited"

(* A process that runs no more is recorded as ended, however continuations,*)
(* Stops and observers met over it: nobody leaves it to one that gave up.  *)
EndIsRecorded == <>[]EndsRecorded
===============================================================================
