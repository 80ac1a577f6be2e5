----------------------------- MODULE LaunchGate -----------------------------
(***************************************************************************)
(* One session's launch gate and the Stops that meet it                    *)
(* (packages/sessions/src/launch-gate.ts, and gatedLaunch, stoppedLaunch   *)
(* and stop of packages/sessions/src/engine.ts).                           *)
(*                                                                         *)
(* Callers are launches (gatedLaunch: refused while another is under way,  *)
(* waiting for one its owner stopped), recoveries (queuedLaunch: waiting   *)
(* for any holder), work between launches (runBetween), and the owner's    *)
(* Stops.  Each asks once.  A Stop marks the session when it finds a launch*)
(* under way; the launch stands down before its agent starts, or is stopped*)
(* again as it ends.                                                       *)
(*                                                                         *)
(* Everything here is one process of one event loop.  A step is what runs  *)
(* between two answers of the database or the platform, and the callers a  *)
(* release wakes run before the next answer is taken (`Quiet`); those that *)
(* race a cancellation need more turns, and may run later.                 *)
(***************************************************************************)
EXTENDS GateState

vars == <<capture, gateAt, gateOn, held, admitted, marked, agent, out, found, past>>

Stages == UnderGate \cup {"idle", "forked", "waiting", "queued", "awaiting", "retrying",
                          "asked", "looked", "tail", "over"}
Outs == {"none", "refused", "cancelled", "ended"}

InFlight == {s \in Stops : gateAt[s] \notin {"idle", "over"}}

UnderWay == held \in Launchers \/ \E c \in Launches : gateAt[c] = "waiting"

(* Callers a release woke, and work forked: they run before anything else. *)
Ready(c) ==
  \/ gateAt[c] \in {"forked", "retrying"}
  \/ gateAt[c] \in {"waiting", "queued"} /\ gateAt[gateOn[c]] = "over"

Quiet == \A c \in Callers : ~Ready(c)

Init ==
  /\ capture \in Modes
  /\ gateAt = [c \in All |-> "idle"]
  /\ gateOn = [c \in All |-> Nobody]
  /\ held = Nobody
  /\ admitted = [c \in Callers |-> {}]
  /\ marked = FALSE
  /\ agent = Nobody
  /\ out = [c \in Callers |-> "none"]
  /\ found = {}
  /\ past = [c \in Launchers |-> {}]

(***************************************************************************)
(* The gate.                                                               *)
(***************************************************************************)
Take(c) ==
  /\ held' = c
  /\ gateAt' = [gateAt EXCEPT ![c] = "held"]
  /\ UNCHANGED <<gateOn, out>>

WaitFor(c, how) ==
  /\ gateAt' = [gateAt EXCEPT ![c] = how]
  /\ gateOn' = [gateOn EXCEPT ![c] = held]
  /\ UNCHANGED <<held, out>>

Refused(c) ==
  /\ gateAt' = [gateAt EXCEPT ![c] = "over"]
  /\ out' = [out EXCEPT ![c] = "refused"]
  /\ UNCHANGED <<gateOn, held>>

RunOr(c) ==
  IF held = Nobody THEN Take(c)
  ELSE IF held \in Launchers THEN Refused(c)
  ELSE WaitFor(c, "waiting")

(* A variant that takes the gate when woken, without looking again.        *)
WhenFreeAtOnce(c) == IF gateOn[c] # Nobody \/ held = Nobody THEN Take(c) ELSE WaitFor(c, "queued")

WhenFree(c) == IF held = Nobody THEN Take(c) ELSE WaitFor(c, "queued")

(* gatedLaunch.  awaitCurrent answers at once while nothing holds the gate,*)
(* and the launch looks again until a woken launch took it.                *)
Attempt(c) ==
  IF ~UnderWay THEN RunOr(c)
  ELSE IF ~marked THEN Refused(c)
  ELSE IF held = Nobody
    THEN /\ gateAt' = [gateAt EXCEPT ![c] = "retrying"]
         /\ UNCHANGED <<gateOn, held, out>>
  ELSE WaitFor(c, "awaiting")

(* Callers of a kind are alike until they ask: which one does is no choice.*)
Asks(c, kind) == c \in kind /\ gateAt[c] = "idle" /\ c = CHOOSE x \in kind : gateAt[x] = "idle"

Ask(c) ==
  /\ Quiet
  /\ Asks(c, Launches) \/ Asks(c, Recoveries) \/ Asks(c, Betweens)
  /\ IF c \in Launches THEN Attempt(c) ELSE WhenFree(c)
  /\ past' = IF c \in Launchers
               THEN [past EXCEPT ![c] = {s \in Stops : gateAt[s] = "over"}] ELSE past
  /\ UNCHANGED <<capture, admitted, marked, agent, found>>

Wake(c) ==
  /\ Ready(c)
  /\ CASE gateAt[c] = "waiting" -> RunOr(c)
       [] gateAt[c] \in {"queued", "forked"} -> WhenFree(c)
       [] gateAt[c] = "retrying" -> ~(held = Nobody /\ UnderWay /\ marked) /\ Attempt(c)
  /\ UNCHANGED <<capture, admitted, marked, agent, found, past>>

Heir(c) == admitted[gateOn[c]] = {}

WakeAwaiting(c) ==
  /\ gateAt[c] = "awaiting" /\ gateAt[gateOn[c]] = "over"
  /\ IF Heir(c)
       THEN Attempt(c) /\ admitted' = [admitted EXCEPT ![gateOn[c]] = @ \cup {c}]
       ELSE Refused(c) /\ admitted' = admitted
  /\ UNCHANGED <<capture, marked, agent, found, past>>

Release(c) ==
  /\ held' = Nobody
  /\ gateAt' = [gateAt EXCEPT ![c] = "over"]

BetweenDone(b) ==
  /\ Quiet /\ b \in Betweens /\ gateAt[b] = "held"
  /\ Release(b)
  /\ out' = [out EXCEPT ![b] = "ended"]
  /\ UNCHANGED <<capture, gateOn, admitted, marked, agent, found, past>>

(***************************************************************************)
(* A launch that holds the gate.                                           *)
(***************************************************************************)
(* A variant without stopAfterStoppedLaunch's second Stop.                 *)
StopsAgainNever == FALSE

StopsAgain == marked

(* stoppedLaunch: however the launch ended, it reads cancelled when a Stop *)
(* marked it, and is stopped again before the gate opens.                  *)
Finish(c) ==
  /\ out' = [out EXCEPT ![c] = IF marked THEN "cancelled" ELSE "ended"]
  /\ IF StopsAgain
       THEN gateAt' = [gateAt EXCEPT ![c] = "stopping"] /\ held' = held
       ELSE Release(c)

(* A variant of betweenLaunches that waits in place.                       *)
ForksInPlace(b) == b

Forks(b) == Nobody

(* settleSession gives the display back between launches (betweenLaunches):*)
(* at once when nothing holds the gate, else forked and not waited for.    *)
Settle(x) ==
  \E b \in Betweens :
    /\ Asks(b, Betweens)
    /\ gateAt' = [gateAt EXCEPT ![x] = "settling",
                                ![b] = IF held = Nobody THEN "held" ELSE "forked"]
    /\ gateOn' = [gateOn EXCEPT ![x] = IF held = Nobody THEN b ELSE Forks(b)]
    /\ held' = IF held = Nobody THEN b ELSE held

SettleDone(x) ==
  /\ gateAt[x] = "settling"
  /\ gateOn[x] \in {Nobody} \cup {b \in Betweens : gateAt[b] = "over"}

Settled(c) ==
  /\ Quiet /\ SettleDone(c)
  /\ Finish(c)
  /\ UNCHANGED <<capture, gateOn, admitted, marked, agent, found, past>>

(* A launch that fails settles its session, unless something else does.    *)
Fail(c) ==
  \/ Finish(c) /\ gateOn' = gateOn
  \/ Settle(c) /\ out' = out

(* Without captures, the session's Stops run out first (holdingLaunch).    *)
(* The last look is just before the agent starts                           *)
(* (refuseIfStoppedDuringLaunch).                                          *)
Look(c) ==
  /\ Quiet /\ c \in Launchers /\ gateAt[c] = "held"
  /\ capture \/ InFlight = {}
  /\ IF marked THEN Fail(c)
       ELSE gateAt' = [gateAt EXCEPT ![c] = "opening"] /\ UNCHANGED <<gateOn, held, out>>
  /\ UNCHANGED <<capture, admitted, marked, agent, found, past>>

(* The platform opened the agent's process and its row is recorded, or it  *)
(* did not.                                                                *)
Opened(c) ==
  /\ Quiet /\ gateAt[c] = "opening"
  /\ \/ /\ agent' = c
        /\ gateAt' = [gateAt EXCEPT ![c] = "started"]
        /\ UNCHANGED <<gateOn, held, out>>
     \/ agent' = agent /\ Fail(c)
  /\ UNCHANGED <<capture, admitted, marked, found, past>>

(* The rest of the launch: done, or its protocol did not initialize and its*)
(* process is closed.                                                      *)
Started(c) ==
  /\ Quiet /\ gateAt[c] = "started"
  /\ \/ Finish(c) /\ UNCHANGED <<gateOn, agent>>
     \/ agent' = (IF agent = c THEN Nobody ELSE agent) /\ Fail(c)
  /\ UNCHANGED <<capture, admitted, marked, found, past>>

(* stopAfterStoppedLaunch: a Stop, then every Stop of the session in flight*)
(* to its tail's end, and the mark goes as the gate opens.                 *)
StopAgain(c) ==
  /\ Quiet /\ gateAt[c] = "stopping"
  /\ agent' = Nobody
  /\ gateAt' = [gateAt EXCEPT ![c] = "clearing"]
  /\ UNCHANGED <<capture, gateOn, held, admitted, marked, out, found, past>>

(* A variant that leaves the mark.                                         *)
ClearedNot == marked

Cleared == FALSE

(* That Stop failed, before or after it ended the agent: it is logged, no  *)
(* Stop is waited for, and the mark goes all the same.                     *)
StopAgainFails(c) ==
  /\ Quiet /\ gateAt[c] = "stopping"
  /\ \/ agent' = Nobody /\ found' = found
     \/ agent' = agent /\ found' = found \ {c}
  /\ marked' = Cleared
  /\ Release(c)
  /\ UNCHANGED <<capture, gateOn, admitted, out, past>>

Clear(c) ==
  /\ Quiet /\ gateAt[c] = "clearing" /\ InFlight = {}
  /\ marked' = Cleared
  /\ Release(c)
  /\ UNCHANGED <<capture, gateOn, admitted, agent, out, found, past>>

(***************************************************************************)
(* The owner's Stop: cancelWaiting, then stop.                             *)
(***************************************************************************)
AskStop(s) ==
  /\ Quiet /\ Asks(s, Stops)
  /\ LET waiters == {c \in Launches : gateAt[c] = "awaiting" /\ gateOn[c] = held}
     IN /\ gateAt' = [c \in All |-> IF c = s THEN "asked"
                                ELSE IF c \in waiters THEN "over" ELSE gateAt[c]]
        /\ out' = [c \in Callers |-> IF c \in waiters THEN "cancelled" ELSE out[c]]
  /\ UNCHANGED <<capture, gateOn, held, admitted, marked, agent, found, past>>

LookForLaunch(s) ==
  /\ Quiet /\ gateAt[s] = "asked"
  /\ gateAt' = [gateAt EXCEPT ![s] = "looked"]
  /\ marked' = (marked \/ UnderWay)
  /\ found' = found \cup {c \in Launchers : gateAt[c] \in UnderGate \cup {"waiting"}}
  /\ UNCHANGED <<capture, gateOn, held, admitted, agent, out, past>>

EndAgents(s) ==
  /\ Quiet /\ gateAt[s] = "looked"
  /\ agent' = Nobody
  /\ gateAt' = [gateAt EXCEPT ![s] = "tail"]
  /\ UNCHANGED <<capture, gateOn, held, admitted, marked, out, found, past>>

(* The tail harvests and sweeps, and settles the session unless something  *)
(* else does.                                                              *)
Tail(s) ==
  /\ Quiet /\ gateAt[s] = "tail"
  /\ \/ gateAt' = [gateAt EXCEPT ![s] = "over"] /\ UNCHANGED <<gateOn, held>>
     \/ Settle(s)
  /\ UNCHANGED <<capture, admitted, marked, agent, out, found, past>>

TailSettled(s) ==
  /\ Quiet /\ SettleDone(s)
  /\ gateAt' = [gateAt EXCEPT ![s] = "over"]
  /\ UNCHANGED <<capture, gateOn, held, admitted, marked, agent, out, found, past>>

(* A caller's own steps, once it asked.                                    *)
Step(c) ==
  \/ Wake(c) \/ WakeAwaiting(c) \/ BetweenDone(c)
  \/ Look(c) \/ Opened(c) \/ Started(c) \/ Settled(c)
  \/ StopAgain(c) \/ StopAgainFails(c) \/ Clear(c)

StopStep(s) == LookForLaunch(s) \/ EndAgents(s) \/ Tail(s) \/ TailSettled(s)

Next ==
  \/ \E c \in Callers : Ask(c) \/ Step(c)
  \/ \E s \in Stops : AskStop(s) \/ StopStep(s)

(* The database and the platform answer, one way or the other, within their*)
(* timeouts, and the event loop runs what can run.  Asks may never come.   *)
Fairness == WF_vars((\E c \in Callers : Step(c)) \/ \E s \in Stops : StopStep(s))

Spec == Init /\ [][Next]_vars /\ Fairness

(***************************************************************************)
(* Properties.                                                             *)
(***************************************************************************)
TypeOK ==
  /\ capture \in Modes
  /\ gateAt \in [All -> Stages]
  /\ gateOn \in [All -> Callers \cup {Nobody}]
  /\ \A c \in Callers : gateAt[c] \in {"waiting", "queued", "awaiting"} => gateOn[c] # Nobody
  /\ held \in Callers \cup {Nobody}
  /\ admitted \in [Callers -> SUBSET Launches]
  /\ marked \in BOOLEAN
  /\ agent \in Launchers \cup {Nobody}
  /\ out \in [Callers -> Outs]
  /\ found \subseteq Launchers
  /\ past \in [Launchers -> SUBSET Stops]

AsksOver == \A x \in All : gateAt[x] \in {"idle", "over"}

(* Every launch, recovery, work between launches and Stop that is asked is *)
(* over in the end: none waits for another that waits for it.              *)
EveryAskEnds == <>[]AsksOver
=============================================================================
