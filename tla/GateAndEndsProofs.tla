------------------------- MODULE GateAndEndsProofs -------------------------
(***************************************************************************)
(* Safety of what two parts of a session promise.                          *)
(*                                                                         *)
(* The launch gate (Gate), for any number of launches, recoveries, work    *)
(* between launches and Stops, captures on or off.  It rests on one        *)
(* inductive invariant, GateInv: who holds the gate and who waits for whom,*)
(* that a mark stands only while a launch is under way, that a launch a    *)
(* Stop found stays marked until it is over, and that a marked launch is   *)
(* marked by a Stop that was not over when it was asked.                   *)
(*                                                                         *)
(* The ends of its agents: that an end is recorded once and the workspace  *)
(* held once, for any number of agents, observers, continuations and Stops.*)
(***************************************************************************)
EXTENDS EndOwnership, GateState, TLAPS, FiniteSetTheorems

Gate == INSTANCE LaunchGate

-----------------------------------------------------------------------------
(* The launch gate.                                                        *)

(* A launch under the gate or about to be: what a Stop finds.              *)
InLaunch(c) == gateAt[c] \in Gate!UnderGate \cup {"waiting"}

(* Where a caller of each kind can be.                                     *)
PlaceInv ==
  /\ \A c \in Launches :
       gateAt[c] \in Gate!UnderGate \cup {"idle", "waiting", "awaiting", "retrying", "over"}
  /\ \A c \in Recoveries : gateAt[c] \in Gate!UnderGate \cup {"idle", "queued", "over"}
  /\ \A c \in Betweens : gateAt[c] \in {"idle", "forked", "queued", "held", "over"}

(* Who runs under the gate holds it, and its holder runs.                  *)
HolderInv ==
  /\ \A c \in Gate!Callers : gateAt[c] \in Gate!UnderGate => held = c
  /\ held # Nobody => gateAt[held] \in Gate!UnderGate

(* One heir was admitted for each holder.                                  *)
HeirInv == \A h \in Gate!Callers : admitted[h] = {} \/ \E c \in Launches : admitted[h] = {c}

(* A launch waits in runOr for work between launches, which holds the gate *)
(* or has just left it.                                                    *)
WaitInv ==
  \A c \in Gate!Callers : gateAt[c] = "waiting" =>
    gateOn[c] \in Betweens /\ (held = gateOn[c] \/ gateAt[gateOn[c]] = "over")

(* The mark goes with the launch it was for.                               *)
MarkInv == marked => Gate!UnderWay

AgentInv == agent # Nobody => gateAt[agent] \in {"started", "stopping", "over"}

(* A launch a Stop found stays marked until it is over, and its agent ended. *)
FoundInv ==
  \A c \in found :
    /\ (InLaunch(c) /\ marked) \/ gateAt[c] = "over"
    /\ gateAt[c] = "over" => agent # c

(* A marked launch was marked by a Stop that was not over when it asked.   *)
SpareInv ==
  /\ \A c \in Gate!Launchers : past[c] \subseteq {s \in Stops : gateAt[s] = "over"}
  /\ \A c \in Launches :
       (InLaunch(c) /\ marked) \/ out[c] = "cancelled"
         => gateAt[c] # "idle" /\ \E s \in Stops \ past[c] : gateAt[s] # "idle"

GateInv ==
  /\ Gate!TypeOK
  /\ PlaceInv /\ HolderInv /\ HeirInv /\ WaitInv
  /\ MarkInv /\ AgentInv /\ FoundInv /\ SpareInv

(* A caller asks: its place is new, and the Stops over before it are noted. *)
LEMMA AskKeeps ==
  ASSUME Gate!GateAssumption, GateInv,
         NEW c \in Gate!Callers, Gate!Ask(c)
  PROVE  GateInv'
<1> USE Gate!GateAssumption DEF Gate!GateAssumption, GateInv, Gate!All, Gate!Callers,
   Gate!Launchers,
   Gate!UnderGate, Gate!Ask, Gate!Asks, Gate!Attempt, Gate!RunOr, Gate!WhenFree, Gate!WaitFor,
   Gate!Take, Gate!Refused
<1>1. Gate!TypeOK'
  BY DEF Gate!TypeOK, Gate!Stages, Gate!Outs, Gate!UnderWay
<1>2. (PlaceInv /\ HolderInv)'
  BY DEF Gate!TypeOK, PlaceInv, HolderInv, Gate!UnderWay
<1>3. (HeirInv /\ WaitInv /\ MarkInv)'
  BY DEF Gate!TypeOK, HeirInv, WaitInv, MarkInv, Gate!UnderWay
<1>4. (AgentInv /\ FoundInv)'
  BY DEF Gate!TypeOK, AgentInv, FoundInv, Gate!UnderWay, InLaunch
<1>5. SpareInv'
  BY DEF Gate!TypeOK, PlaceInv, HolderInv, MarkInv, SpareInv, Gate!UnderWay, InLaunch
<1>6. QED
  BY <1>1, <1>2, <1>3, <1>4, <1>5

(* A launch that waited for work between launches looks at the gate again. *)
LEMMA WakeWaitingKeeps ==
  ASSUME Gate!GateAssumption, GateInv,
         NEW c \in Gate!Callers, Gate!Ready(c), gateAt[c] = "waiting", Gate!RunOr(c),
         UNCHANGED <<capture, admitted, marked, agent, found, past>>
  PROVE  GateInv'
<1> USE Gate!GateAssumption DEF Gate!GateAssumption, GateInv, Gate!All, Gate!Callers,
   Gate!Launchers,
   Gate!UnderGate, Gate!Ready, Gate!RunOr, Gate!WaitFor, Gate!Take, Gate!Refused
<1>1. Gate!TypeOK'
  BY DEF Gate!TypeOK, Gate!Stages, Gate!Outs, Gate!UnderWay
<1>2. (PlaceInv /\ HolderInv)'
  BY DEF Gate!TypeOK, PlaceInv, HolderInv, Gate!UnderWay
<1>3. (HeirInv /\ WaitInv /\ MarkInv)'
  BY DEF Gate!TypeOK, HeirInv, WaitInv, MarkInv, Gate!UnderWay
<1>4. (AgentInv /\ FoundInv)'
  BY DEF Gate!TypeOK, AgentInv, FoundInv, Gate!UnderWay, InLaunch
<1>5. SpareInv'
  BY DEF Gate!TypeOK, SpareInv, Gate!UnderWay, InLaunch
<1>6. QED
  BY <1>1, <1>2, <1>3, <1>4, <1>5

(* A recovery, or forked work between launches, looks again. *)
LEMMA WakeQueuedKeeps ==
  ASSUME Gate!GateAssumption, GateInv,
         NEW c \in Gate!Callers, Gate!Ready(c), gateAt[c] \in {"queued", "forked"},
         Gate!WhenFree(c),
         UNCHANGED <<capture, admitted, marked, agent, found, past>>
  PROVE  GateInv'
<1> USE Gate!GateAssumption DEF Gate!GateAssumption, GateInv, Gate!All, Gate!Callers,
   Gate!Launchers,
   Gate!UnderGate, Gate!Ready, Gate!WhenFree, Gate!WaitFor, Gate!Take
<1>1. Gate!TypeOK'
  BY DEF Gate!TypeOK, Gate!Stages, Gate!Outs
<1>2. (PlaceInv /\ HolderInv)'
  BY DEF Gate!TypeOK, PlaceInv, HolderInv
<1>3. (HeirInv /\ WaitInv /\ MarkInv)'
  BY DEF Gate!TypeOK, HeirInv, WaitInv, MarkInv, Gate!UnderWay
<1>4. (AgentInv /\ FoundInv)'
  BY DEF Gate!TypeOK, AgentInv, FoundInv, InLaunch
<1>5. SpareInv'
  BY DEF Gate!TypeOK, PlaceInv, SpareInv, InLaunch
<1>6. QED
  BY <1>1, <1>2, <1>3, <1>4, <1>5

(* A launch that found nobody to wait for asks again. *)
LEMMA WakeRetryingKeeps ==
  ASSUME Gate!GateAssumption, GateInv,
         NEW c \in Gate!Callers, Gate!Ready(c), gateAt[c] = "retrying", Gate!Attempt(c),
         UNCHANGED <<capture, admitted, marked, agent, found, past>>
  PROVE  GateInv'
<1> USE Gate!GateAssumption DEF Gate!GateAssumption, GateInv, Gate!All, Gate!Callers,
   Gate!Launchers,
   Gate!UnderGate, Gate!Ready, Gate!Attempt, Gate!RunOr, Gate!WaitFor, Gate!Take, Gate!Refused
<1>1. Gate!TypeOK'
  BY DEF Gate!TypeOK, Gate!Stages, Gate!Outs, Gate!UnderWay
<1>2. (PlaceInv /\ HolderInv)'
  BY DEF Gate!TypeOK, PlaceInv, HolderInv, Gate!UnderWay
<1>3. (HeirInv /\ WaitInv /\ MarkInv)'
  BY DEF Gate!TypeOK, HeirInv, WaitInv, MarkInv, Gate!UnderWay
<1>4. (AgentInv /\ FoundInv)'
  BY DEF Gate!TypeOK, AgentInv, FoundInv, Gate!UnderWay, InLaunch
<1>5. SpareInv'
  BY DEF Gate!TypeOK, PlaceInv, HolderInv, MarkInv, SpareInv, Gate!UnderWay, InLaunch
<1>6. QED
  BY <1>1, <1>2, <1>3, <1>4, <1>5

(* The first launch woken by a stopped launch's end goes on, the others are refused. *)
LEMMA WakeAwaitingKeeps ==
  ASSUME Gate!GateAssumption, GateInv,
         NEW c \in Gate!Callers, Gate!WakeAwaiting(c)
  PROVE  GateInv'
<1> USE Gate!GateAssumption DEF Gate!GateAssumption, GateInv, Gate!All, Gate!Callers,
   Gate!Launchers,
   Gate!UnderGate, Gate!WakeAwaiting, Gate!Heir, Gate!Attempt, Gate!RunOr, Gate!WaitFor,
   Gate!Take, Gate!Refused
<1>1. Gate!TypeOK'
  BY DEF Gate!TypeOK, PlaceInv, Gate!Stages, Gate!Outs, Gate!UnderWay
<1>2. (PlaceInv /\ HolderInv)'
  BY DEF Gate!TypeOK, PlaceInv, HolderInv, Gate!UnderWay
<1>3. (HeirInv /\ WaitInv /\ MarkInv)'
  BY DEF Gate!TypeOK, PlaceInv, HeirInv, WaitInv, MarkInv, Gate!UnderWay
<1>4. (AgentInv /\ FoundInv)'
  BY DEF Gate!TypeOK, AgentInv, FoundInv, Gate!UnderWay, InLaunch
<1>5. SpareInv'
  BY DEF Gate!TypeOK, PlaceInv, HolderInv, MarkInv, SpareInv, Gate!UnderWay, InLaunch
<1>6. QED
  BY <1>1, <1>2, <1>3, <1>4, <1>5

(* Work between launches leaves the gate. *)
LEMMA BetweenDoneKeeps ==
  ASSUME Gate!GateAssumption, GateInv,
         NEW c \in Gate!Callers, Gate!BetweenDone(c)
  PROVE  GateInv'
<1> USE Gate!GateAssumption DEF Gate!GateAssumption, GateInv, Gate!All, Gate!Callers,
   Gate!Launchers,
   Gate!UnderGate, Gate!BetweenDone, Gate!Release
<1>1. Gate!TypeOK'
  BY DEF Gate!TypeOK, Gate!Stages, Gate!Outs
<1>2. (PlaceInv /\ HolderInv)'
  BY DEF Gate!TypeOK, PlaceInv, HolderInv
<1>3. (HeirInv /\ WaitInv /\ MarkInv)'
  BY DEF Gate!TypeOK, PlaceInv, HolderInv, HeirInv, WaitInv, MarkInv, Gate!UnderWay
<1>4. (AgentInv /\ FoundInv)'
  BY DEF AgentInv, FoundInv, InLaunch
<1>5. SpareInv'
  BY DEF SpareInv, InLaunch
<1>6. QED
  BY <1>1, <1>2, <1>3, <1>4, <1>5

(* The last look for a mark before the agent starts. *)
LEMMA LookKeeps ==
  ASSUME Gate!GateAssumption, GateInv,
         NEW c \in Gate!Callers, Gate!Look(c)
  PROVE  GateInv'
<1> USE Gate!GateAssumption DEF Gate!GateAssumption, GateInv, Gate!All, Gate!Callers,
   Gate!Launchers,
   Gate!UnderGate, Gate!Look, Gate!Fail, Gate!Finish, Gate!Settle, Gate!Asks, Gate!Forks,
   Gate!Release, Gate!StopsAgain
<1>1. Gate!TypeOK'
  BY DEF Gate!TypeOK, Gate!Stages, Gate!Outs
<1>2. (PlaceInv /\ HolderInv)'
  BY DEF Gate!TypeOK, PlaceInv, HolderInv
<1>3. (HeirInv /\ WaitInv /\ MarkInv)'
  BY DEF Gate!TypeOK, HeirInv, WaitInv, MarkInv, Gate!UnderWay
<1>4. (AgentInv /\ FoundInv)'
  BY DEF Gate!TypeOK, AgentInv, FoundInv, InLaunch
<1>5. SpareInv'
  BY DEF Gate!TypeOK, SpareInv, InLaunch
<1>6. QED
  BY <1>1, <1>2, <1>3, <1>4, <1>5

(* An agent runs from here on, of the gate's holder. *)
LEMMA OpenedKeeps ==
  ASSUME Gate!GateAssumption, GateInv,
         NEW c \in Gate!Callers, Gate!Opened(c)
  PROVE  GateInv'
<1> USE Gate!GateAssumption DEF Gate!GateAssumption, GateInv, Gate!All, Gate!Callers,
   Gate!Launchers,
   Gate!UnderGate, Gate!Opened, Gate!Fail, Gate!Finish, Gate!Settle, Gate!Asks, Gate!Forks,
   Gate!Release, Gate!StopsAgain
<1>1. Gate!TypeOK'
  BY DEF Gate!TypeOK, PlaceInv, Gate!Stages, Gate!Outs
<1>2. (PlaceInv /\ HolderInv)'
  BY DEF Gate!TypeOK, PlaceInv, HolderInv
<1>3. (HeirInv /\ WaitInv /\ MarkInv)'
  BY DEF Gate!TypeOK, PlaceInv, HolderInv, HeirInv, WaitInv, MarkInv, Gate!UnderWay
<1>4. (AgentInv /\ FoundInv)'
  BY DEF Gate!TypeOK, AgentInv, FoundInv, InLaunch
<1>5. SpareInv'
  BY DEF Gate!TypeOK, SpareInv, InLaunch
<1>6. QED
  BY <1>1, <1>2, <1>3, <1>4, <1>5

(* The launch is done, or closes its own agent. *)
LEMMA StartedKeeps ==
  ASSUME Gate!GateAssumption, GateInv,
         NEW c \in Gate!Callers, Gate!Started(c)
  PROVE  GateInv'
<1> USE Gate!GateAssumption DEF Gate!GateAssumption, GateInv, Gate!All, Gate!Callers,
   Gate!Launchers,
   Gate!UnderGate, Gate!Started, Gate!Fail, Gate!Finish, Gate!Settle, Gate!Asks, Gate!Forks,
   Gate!Release, Gate!StopsAgain
<1>1. Gate!TypeOK'
  BY DEF Gate!TypeOK, Gate!Stages, Gate!Outs
<1>2. (PlaceInv /\ HolderInv)'
  BY DEF Gate!TypeOK, PlaceInv, HolderInv
<1>3. (HeirInv /\ WaitInv /\ MarkInv)'
  BY DEF Gate!TypeOK, PlaceInv, HolderInv, HeirInv, WaitInv, MarkInv, Gate!UnderWay
<1>4. (AgentInv /\ FoundInv)'
  BY DEF Gate!TypeOK, AgentInv, FoundInv, InLaunch
<1>5. SpareInv'
  BY DEF Gate!TypeOK, SpareInv, InLaunch
<1>6. QED
  BY <1>1, <1>2, <1>3, <1>4, <1>5

(* A failed launch's session is settled. *)
LEMMA SettledKeeps ==
  ASSUME Gate!GateAssumption, GateInv,
         NEW c \in Gate!Callers, Gate!Settled(c)
  PROVE  GateInv'
<1> USE Gate!GateAssumption DEF Gate!GateAssumption, GateInv, Gate!All, Gate!Callers,
   Gate!Launchers,
   Gate!UnderGate, Gate!Settled, Gate!SettleDone, Gate!Finish, Gate!Release, Gate!StopsAgain
<1>1. Gate!TypeOK'
  BY DEF Gate!TypeOK, Gate!Stages, Gate!Outs
<1>2. (PlaceInv /\ HolderInv)'
  BY DEF Gate!TypeOK, PlaceInv, HolderInv
<1>3. (HeirInv /\ WaitInv /\ MarkInv)'
  BY DEF Gate!TypeOK, PlaceInv, HolderInv, HeirInv, WaitInv, MarkInv, Gate!UnderWay
<1>4. (AgentInv /\ FoundInv)'
  BY DEF Gate!TypeOK, AgentInv, FoundInv, InLaunch
<1>5. SpareInv'
  BY DEF Gate!TypeOK, SpareInv, InLaunch
<1>6. QED
  BY <1>1, <1>2, <1>3, <1>4, <1>5

(* A marked launch is stopped again: no agent is left. *)
LEMMA StopAgainKeeps ==
  ASSUME Gate!GateAssumption, GateInv,
         NEW c \in Gate!Callers, Gate!StopAgain(c)
  PROVE  GateInv'
<1> USE Gate!GateAssumption DEF Gate!GateAssumption, GateInv, Gate!All, Gate!Callers,
   Gate!Launchers,
   Gate!UnderGate, Gate!StopAgain
<1>1. Gate!TypeOK'
  BY DEF Gate!TypeOK, Gate!Stages, Gate!Outs
<1>2. (PlaceInv /\ HolderInv)'
  BY DEF PlaceInv, HolderInv
<1>3. (HeirInv /\ WaitInv /\ MarkInv)'
  BY DEF HeirInv, WaitInv, MarkInv, Gate!UnderWay
<1>4. (AgentInv /\ FoundInv)'
  BY DEF Gate!TypeOK, AgentInv, FoundInv, InLaunch
<1>5. SpareInv'
  BY DEF SpareInv, InLaunch
<1>6. QED
  BY <1>1, <1>2, <1>3, <1>4, <1>5

(* A second Stop that failed: its launch is found no more, and the mark goes. *)
LEMMA StopAgainFailsKeeps ==
  ASSUME Gate!GateAssumption, GateInv,
         NEW c \in Gate!Callers, Gate!StopAgainFails(c)
  PROVE  GateInv'
<1> USE Gate!GateAssumption DEF Gate!GateAssumption, GateInv, Gate!All, Gate!Callers,
   Gate!Launchers,
   Gate!UnderGate, Gate!StopAgainFails, Gate!Release, Gate!Cleared
<1>1. Gate!TypeOK'
  BY DEF Gate!TypeOK, Gate!Stages, Gate!Outs
<1>2. (PlaceInv /\ HolderInv)'
  BY DEF Gate!TypeOK, PlaceInv, HolderInv
<1>3. (HeirInv /\ WaitInv /\ MarkInv)'
  BY DEF Gate!TypeOK, PlaceInv, HolderInv, HeirInv, WaitInv, MarkInv, Gate!UnderWay
<1>4. (AgentInv /\ FoundInv)'
  BY DEF Gate!TypeOK, PlaceInv, HolderInv, WaitInv, AgentInv, FoundInv, InLaunch, Gate!Quiet,
     Gate!Ready
<1>5. SpareInv'
  BY DEF SpareInv, InLaunch
<1>6. QED
  BY <1>1, <1>2, <1>3, <1>4, <1>5

(* The mark goes with the launch it was for: of those found, none is left. *)
LEMMA ClearKeeps ==
  ASSUME Gate!GateAssumption, GateInv,
         NEW c \in Gate!Callers, Gate!Clear(c)
  PROVE  GateInv'
<1> USE Gate!GateAssumption DEF Gate!GateAssumption, GateInv, Gate!All, Gate!Callers,
   Gate!Launchers,
   Gate!UnderGate, Gate!Clear, Gate!Release, Gate!Cleared
<1>1. Gate!TypeOK'
  BY DEF Gate!TypeOK, Gate!Stages, Gate!Outs
<1>2. (PlaceInv /\ HolderInv)'
  BY DEF Gate!TypeOK, PlaceInv, HolderInv
<1>3. (HeirInv /\ WaitInv /\ MarkInv)'
  BY DEF Gate!TypeOK, PlaceInv, HolderInv, HeirInv, WaitInv, MarkInv, Gate!UnderWay
<1>4. (AgentInv /\ FoundInv)'
  BY DEF Gate!TypeOK, PlaceInv, HolderInv, WaitInv, AgentInv, FoundInv, InLaunch, Gate!Quiet,
     Gate!Ready
<1>5. SpareInv'
  BY DEF SpareInv, InLaunch
<1>6. QED
  BY <1>1, <1>2, <1>3, <1>4, <1>5

(* A Stop cancels the launches that wait for the holder; none of them is live. *)
LEMMA AskStopKeeps ==
  ASSUME Gate!GateAssumption, GateInv,
         NEW s \in Stops, Gate!AskStop(s)
  PROVE  GateInv'
<1> USE Gate!GateAssumption DEF Gate!GateAssumption, GateInv, Gate!All, Gate!Callers,
   Gate!Launchers,
   Gate!UnderGate, Gate!AskStop, Gate!Asks
<1>1. Gate!TypeOK'
  BY DEF Gate!TypeOK, Gate!Stages, Gate!Outs
<1>2. (PlaceInv /\ HolderInv)'
  BY DEF Gate!TypeOK, PlaceInv, HolderInv
<1>3. (HeirInv /\ WaitInv /\ MarkInv)'
  BY DEF HeirInv, WaitInv, MarkInv, Gate!UnderWay
<1>4. (AgentInv /\ FoundInv)'
  BY DEF Gate!TypeOK, AgentInv, FoundInv, InLaunch
<1>5. SpareInv'
  BY DEF SpareInv, InLaunch
<1>6. QED
  BY <1>1, <1>2, <1>3, <1>4, <1>5

(* A Stop marks the session if a launch is under way, and so whatever it found. *)
LEMMA LookForLaunchKeeps ==
  ASSUME Gate!GateAssumption, GateInv,
         NEW s \in Stops, Gate!LookForLaunch(s)
  PROVE  GateInv'
<1> USE Gate!GateAssumption DEF Gate!GateAssumption, GateInv, Gate!All, Gate!Callers,
   Gate!Launchers,
   Gate!UnderGate, Gate!LookForLaunch
<1>0. \A c \in Gate!Launchers : InLaunch(c) => Gate!UnderWay
  BY DEF InLaunch, Gate!UnderWay, Gate!TypeOK, PlaceInv, HolderInv
<1>1. Gate!TypeOK'
  BY DEF Gate!TypeOK, Gate!Stages, Gate!Outs, Gate!UnderWay
<1>2. (PlaceInv /\ HolderInv)'
  BY DEF PlaceInv, HolderInv, Gate!UnderWay
<1>3. (HeirInv /\ WaitInv /\ MarkInv)'
  BY DEF Gate!TypeOK, HeirInv, WaitInv, MarkInv, Gate!UnderWay
<1>4. (AgentInv /\ FoundInv)'
  BY <1>0 DEF Gate!UnderWay, Gate!TypeOK, AgentInv, FoundInv, InLaunch
<1>5. SpareInv'
  BY DEF SpareInv, Gate!UnderWay, InLaunch
<1>6. QED
  BY <1>1, <1>2, <1>3, <1>4, <1>5

(* A Stop ends the agent. *)
LEMMA EndAgentsKeeps ==
  ASSUME Gate!GateAssumption, GateInv,
         NEW s \in Stops, Gate!EndAgents(s)
  PROVE  GateInv'
<1> USE Gate!GateAssumption DEF Gate!GateAssumption, GateInv, Gate!All, Gate!Callers,
   Gate!Launchers,
   Gate!UnderGate, Gate!EndAgents
<1>1. Gate!TypeOK'
  BY DEF Gate!TypeOK, Gate!Stages, Gate!Outs
<1>2. (PlaceInv /\ HolderInv)'
  BY DEF PlaceInv, HolderInv
<1>3. (HeirInv /\ WaitInv /\ MarkInv)'
  BY DEF HeirInv, WaitInv, MarkInv, Gate!UnderWay
<1>4. (AgentInv /\ FoundInv)'
  BY DEF Gate!TypeOK, AgentInv, FoundInv, InLaunch
<1>5. SpareInv'
  BY DEF SpareInv, InLaunch
<1>6. QED
  BY <1>1, <1>2, <1>3, <1>4, <1>5

(* A Stop's tail settles the session, or not. *)
LEMMA GateTailKeeps ==
  ASSUME Gate!GateAssumption, GateInv,
         NEW s \in Stops, Gate!Tail(s)
  PROVE  GateInv'
<1> USE Gate!GateAssumption DEF Gate!GateAssumption, GateInv, Gate!All, Gate!Callers,
   Gate!Launchers,
   Gate!UnderGate, Gate!Tail, Gate!Settle, Gate!Asks, Gate!Forks
<1>1. Gate!TypeOK'
  BY DEF Gate!TypeOK, Gate!Stages, Gate!Outs
<1>2. (PlaceInv /\ HolderInv)'
  BY DEF Gate!TypeOK, PlaceInv, HolderInv
<1>3. (HeirInv /\ WaitInv /\ MarkInv)'
  BY DEF Gate!TypeOK, HeirInv, WaitInv, MarkInv, Gate!UnderWay
<1>4. (AgentInv /\ FoundInv)'
  BY DEF Gate!TypeOK, AgentInv, FoundInv, InLaunch
<1>5. SpareInv'
  BY DEF Gate!TypeOK, SpareInv, InLaunch
<1>6. QED
  BY <1>1, <1>2, <1>3, <1>4, <1>5

(* A Stop is over. *)
LEMMA TailSettledKeeps ==
  ASSUME Gate!GateAssumption, GateInv,
         NEW s \in Stops, Gate!TailSettled(s)
  PROVE  GateInv'
<1> USE Gate!GateAssumption DEF Gate!GateAssumption, GateInv, Gate!All, Gate!Callers,
   Gate!Launchers,
   Gate!UnderGate, Gate!TailSettled, Gate!SettleDone
<1>1. Gate!TypeOK'
  BY DEF Gate!TypeOK, Gate!Stages, Gate!Outs
<1>2. (PlaceInv /\ HolderInv)'
  BY DEF Gate!TypeOK, PlaceInv, HolderInv
<1>3. (HeirInv /\ WaitInv /\ MarkInv)'
  BY DEF HeirInv, WaitInv, MarkInv, Gate!UnderWay
<1>4. (AgentInv /\ FoundInv)'
  BY DEF AgentInv, FoundInv, InLaunch
<1>5. SpareInv'
  BY DEF SpareInv, InLaunch
<1>6. QED
  BY <1>1, <1>2, <1>3, <1>4, <1>5

LEMMA GateStutters ==
  ASSUME GateInv, UNCHANGED Gate!vars PROVE GateInv'
  BY DEF GateInv, Gate!vars, Gate!TypeOK, PlaceInv, HolderInv, HeirInv, WaitInv, MarkInv,
     AgentInv, FoundInv,
         SpareInv, InLaunch, Gate!UnderWay

LEMMA GateStarts ==
  ASSUME Gate!GateAssumption, Gate!Init PROVE GateInv
<1> USE Gate!GateAssumption DEF Gate!GateAssumption, Gate!Init, Gate!All, Gate!Callers,
   Gate!Launchers, Gate!UnderGate
<1>1. Gate!TypeOK
  BY DEF Gate!TypeOK, Gate!Stages, Gate!Outs
<1>2. PlaceInv /\ HolderInv /\ HeirInv /\ WaitInv /\ MarkInv
  BY DEF PlaceInv, HolderInv, HeirInv, WaitInv, MarkInv
<1>3. AgentInv /\ FoundInv /\ SpareInv
  BY DEF AgentInv, FoundInv, SpareInv, InLaunch
<1>4. QED
  BY <1>1, <1>2, <1>3 DEF GateInv

(* Every step of a caller or a Stop keeps the invariant. *)
LEMMA GateNext ==
  ASSUME Gate!GateAssumption, GateInv, [Gate!Next]_Gate!vars PROVE GateInv'
<1>1. ASSUME NEW c \in Gate!Callers, Gate!Wake(c) PROVE GateInv'
  <2>1. CASE gateAt[c] = "waiting"
    BY <1>1, <2>1, WakeWaitingKeeps DEF Gate!Wake
  <2>2. CASE gateAt[c] \in {"queued", "forked"}
    BY <1>1, <2>2, WakeQueuedKeeps DEF Gate!Wake
  <2>3. CASE gateAt[c] = "retrying"
    BY <1>1, <2>3, WakeRetryingKeeps DEF Gate!Wake
  <2>4. QED
    BY <1>1, <2>1, <2>2, <2>3 DEF Gate!Wake, Gate!Ready
<1>2. ASSUME NEW c \in Gate!Callers, Gate!Step(c) PROVE GateInv'
  BY <1>1, <1>2, WakeAwaitingKeeps, BetweenDoneKeeps, LookKeeps, OpenedKeeps, StartedKeeps,
     SettledKeeps, StopAgainKeeps, StopAgainFailsKeeps, ClearKeeps DEF Gate!Step
<1>3. ASSUME NEW s \in Stops, Gate!AskStop(s) \/ Gate!StopStep(s) PROVE GateInv'
  BY <1>3, AskStopKeeps, LookForLaunchKeeps, EndAgentsKeeps, GateTailKeeps, TailSettledKeeps
     DEF Gate!StopStep
<1>4. QED
  BY <1>2, <1>3, AskKeeps, GateStutters DEF Gate!Next

(* The gate's sets are those its state is made of. *)
LEMMA SameGate ==
  /\ Gate!GateAssumption <=> GateAssumption
  /\ Gate!Callers = Callers /\ Gate!UnderGate = UnderGate
  BY DEF Gate!GateAssumption, GateAssumption, Gate!All, All, Gate!Callers, Callers, Gate!Launchers,
         Launchers, Gate!UnderGate, UnderGate

(* The invariant is inductive: it holds of every state a session's gate, its
   launches, recoveries, work between launches and Stops can be in. *)
THEOREM GateInvariance ==
  ASSUME GateAssumption PROVE Gate!Spec => []GateInv
<1>1. Gate!Init => GateInv
  BY GateStarts, SameGate
<1>2. GateInv /\ [Gate!Next]_Gate!vars => GateInv'
  BY GateNext, SameGate
<1>3. QED
  BY <1>1, <1>2, PTL DEF Gate!Spec

(* Every variable keeps its type. *)
THEOREM GateTypes ==
  ASSUME GateAssumption PROVE Gate!Spec => []Gate!TypeOK
<1>1. GateInv => Gate!TypeOK
  BY DEF GateInv
<1>2. QED
  BY <1>1, GateInvariance, PTL

(* One verb of a session runs at a time, and of the launches that wait for a
   stopped launch's end one goes on (runOr, awaitCurrent). *)
THEOREM OneVerb ==
  ASSUME GateAssumption PROVE Gate!Spec => []OneAtATime
<1>1. GateInv => OneAtATime
  <2>1. ASSUME GateInv, NEW h \in Callers PROVE Cardinality(admitted[h]) <= 1
    <3>1. admitted[h] = {} \/ \E c \in Launches : admitted[h] = {c}
      BY <2>1, SameGate DEF GateInv, HeirInv
    <3>2. CASE admitted[h] = {}
      BY <3>2, FS_EmptySet
    <3>3. CASE \E c \in Launches : admitted[h] = {c}
      BY <3>3, FS_Singleton
    <3>4. QED
      BY <3>1, <3>2, <3>3
  <2>2. QED
    BY <2>1, SameGate DEF GateInv, HolderInv, OneAtATime
<1>2. QED
  BY <1>1, GateInvariance, PTL

(* A launch a Stop found under way, wherever in it the Stop came, leaves no agent
   running once it is over, unless its second Stop failed (stop,
   stopAfterStoppedLaunch). *)
THEOREM StopReaches ==
  ASSUME GateAssumption PROVE Gate!Spec => []StopReachesLaunch
<1>1. GateInv => StopReachesLaunch
  BY DEF GateInv, FoundInv, StopReachesLaunch
<1>2. QED
  BY <1>1, GateInvariance, PTL

(* A launch is cancelled only by a Stop that was not over when the launch was
   asked: a mark never outlives what it was for (stoppedDuringLaunch). *)
THEOREM LaterSpared ==
  ASSUME GateAssumption PROVE Gate!Spec => []SparesLater
<1>1. GateInv => SparesLater
  BY DEF GateInv, SpareInv, SparesLater
<1>2. QED
  BY <1>1, GateInvariance, PTL

-----------------------------------------------------------------------------
(* The ends of agents.                                                     *)

USE OwnershipAssumption DEF OwnershipAssumption

-----------------------------------------------------------------------------
(* The invariant. *)

\* What an actor does, it does to a process; an observer to its own.
OnInv ==
  /\ \A x \in Actor : at[x] \in {"close", "grant", "read", "mark"} => on[x] \in Process
  /\ \A o \in Observer : on[o] = Of[o]

\* A continuation that has not begun has no entry, and owns nothing.
EarlyInv ==
  \A c \in Continuation : at[c] \in {"idle", "begun", "wait"} =>
    state[c] = "none" /\ \A p \in Process : owner[p] # c

\* Who looks into an end, or records it by its own authority, owns it.
OwnInv ==
  /\ \A o \in Observer : at[o] \in {"reread", "grant", "read", "mark", "tail"} => owner[Of[o]] = o
  /\ \A x \in Actor : at[x] \in {"read", "mark"} /\ x \notin over[on[x]] => owner[on[x]] = x

\* Those who recorded p's end by their own authority.
Owners(p) == recorded[p] \ over[p]

\* A recorded end is in the row.
RecInv == \A p \in Process : recorded[p] # {} => row[p] = "exited"

\* Who is about to record by its own authority finds nobody who did.
FreshInv == \A x \in Actor : at[x] = "mark" /\ x \notin over[on[x]] => Owners(on[x]) = {}

OnceInv == \A p \in Process : \A x, y \in Owners(p) : x = y

Inv == OnInv /\ EarlyInv /\ OwnInv /\ RecInv /\ FreshInv /\ OnceInv

-----------------------------------------------------------------------------
(* Types. *)

\* All of TypeOK but the count of the holds.
Types ==
  /\ row \in [Process -> {"none", "live", "exited"}]
  /\ gone \subseteq Process
  /\ owner \in [Process -> Actor \cup {None}]
  /\ state \in [Continuation -> {"none", "active", "stopped", "released"}]
  /\ at \in [Actor -> Stages]
  /\ on \in [Actor -> Process \cup {None}]
  /\ seen \in [Actor -> SUBSET Process]
  /\ left \in [Actor -> SUBSET Process]
  /\ awaited \in [Actor -> SUBSET (Actor \X Process)]
  /\ waited \subseteq Observer
  /\ recorded \in [Process -> SUBSET Actor]
  /\ over \in [Process -> SUBSET Stop]

-----------------------------------------------------------------------------
(* The steps. *)

\* A continuation claims every agent it found when nobody owns any, or none.
LEMMA ContinueClaims ==
  ASSUME Types, NEW c \in Continuation, Continue(c)
  PROVE  \/ UNCHANGED tables
         \/ /\ owner' = [p \in Process |-> IF p \in left[c] THEN c ELSE owner[p]]
            /\ state' = [state EXCEPT ![c] = "active"]
            /\ holds' = (IF left[c] = {} THEN holds ELSE holds + 1)
            /\ \A p \in left[c] : owner[p] = None
<1> DEFINE looked == seen[c] \cup left[c]
           claims == {<<owner[p], p>> : p \in {p \in looked : owner[p] # None}}
<1>1. CASE claims = {}
  <2>1. \A p \in left[c] : owner[p] = None
    <3> SUFFICES ASSUME NEW p \in left[c], owner[p] # None PROVE FALSE
      OBVIOUS
    <3>1. <<owner[p], p>> \in claims
      OBVIOUS
    <3> QED
      BY <1>1, <3>1
  <2> QED
    BY <1>1, <2>1 DEF Continue
<1>2. CASE claims # {}
  BY <1>2 DEF Continue
<1> QED
  BY <1>1, <1>2

\* Noticing an end changes no owner, and nothing that is recorded.
LEMMA NoticeKeeps ==
  ASSUME Types, Inv, NEW o \in Observer, Notice(o)
  PROVE  Types' /\ Inv'
<1>1. Types'
  BY DEF Types, Stages, Inv, OnInv, Actor, Notice, Goes, tables, Live
<1>2. OnInv'
  BY DEF Types, Inv, OnInv, Actor, Notice, Goes, tables, Live
<1>3. EarlyInv'
  BY DEF Types, Inv, OnInv, EarlyInv, Actor, Notice, Goes, tables, Live
<1>4. OwnInv'
  BY DEF Types, Inv, OnInv, OwnInv, EarlyInv, Actor, Notice, Goes, tables, Live
<1>5. RecInv'
  BY DEF Types, Inv, RecInv, Actor, Notice, Goes, tables, Live
<1>6. FreshInv'
  BY DEF Types, Inv, OnInv, OwnInv, RecInv, FreshInv, Owners, Actor, Notice, Goes, tables, Live
<1>7. OnceInv'
  BY DEF Types, Inv, OnceInv, FreshInv, Owners, Actor, Notice, Goes, tables, Live
<1> QED
  BY <1>1, <1>2, <1>3, <1>4, <1>5, <1>6, <1>7 DEF Inv

\* An observer claims only an end nobody owns: those who own theirs keep it.
LEMMA ObserveKeeps ==
  ASSUME Types, Inv, NEW o \in Observer, Observe(o)
  PROVE  Types' /\ Inv'
<1>1. Types'
  BY DEF Types, Stages, Inv, OnInv, Actor, Observe, Goes, Free
<1>2. OnInv'
  BY DEF Types, Inv, OnInv, Actor, Observe, Goes, Free
<1>3. EarlyInv'
  BY DEF Types, Inv, OnInv, EarlyInv, Actor, Observe, Goes, Free
<1>4. OwnInv'
  BY DEF Types, Inv, OnInv, OwnInv, EarlyInv, Actor, Observe, Goes, Free
<1>5. RecInv'
  BY DEF Types, Inv, RecInv, Actor, Observe, Goes, Free
<1>6. FreshInv'
  BY DEF Types, Inv, OnInv, OwnInv, RecInv, FreshInv, Owners, Actor, Observe, Goes, Free
<1>7. OnceInv'
  BY DEF Types, Inv, OnceInv, FreshInv, Owners, Actor, Observe, Goes, Free
<1> QED
  BY <1>1, <1>2, <1>3, <1>4, <1>5, <1>6, <1>7 DEF Inv

\* Going to look again changes nothing else.
LEMMA WokenKeeps ==
  ASSUME Types, Inv, NEW o \in Observer, Woken(o)
  PROVE  Types' /\ Inv'
<1>1. Types'
  BY DEF Types, Stages, Inv, OnInv, Actor, Woken, Goes, tables
<1>2. OnInv'
  BY DEF Types, Inv, OnInv, Actor, Woken, Goes, tables
<1>3. EarlyInv'
  BY DEF Types, Inv, OnInv, EarlyInv, Actor, Woken, Goes, tables
<1>4. OwnInv'
  BY DEF Types, Inv, OnInv, OwnInv, EarlyInv, Actor, Woken, Goes, tables
<1>5. RecInv'
  BY DEF Types, Inv, RecInv, Actor, Woken, Goes, tables
<1>6. FreshInv'
  BY DEF Types, Inv, OnInv, OwnInv, RecInv, FreshInv, Owners, Actor, Woken, Goes, tables
<1>7. OnceInv'
  BY DEF Types, Inv, OnceInv, FreshInv, Owners, Actor, Woken, Goes, tables
<1> QED
  BY <1>1, <1>2, <1>3, <1>4, <1>5, <1>6, <1>7 DEF Inv

\* Looking at the row first changes nothing else.
LEMMA RereadKeeps ==
  ASSUME Types, Inv, NEW o \in Observer, Reread(o)
  PROVE  Types' /\ Inv'
<1>1. Types'
  BY DEF Types, Stages, Inv, OnInv, Actor, Reread, Goes, tables
<1>2. OnInv'
  BY DEF Types, Inv, OnInv, Actor, Reread, Goes, tables
<1>3. EarlyInv'
  BY DEF Types, Inv, OnInv, EarlyInv, Actor, Reread, Goes, tables
<1>4. OwnInv'
  BY DEF Types, Inv, OnInv, OwnInv, EarlyInv, Actor, Reread, Goes, tables
<1>5. RecInv'
  BY DEF Types, Inv, RecInv, Actor, Reread, Goes, tables
<1>6. FreshInv'
  BY DEF Types, Inv, OnInv, OwnInv, RecInv, FreshInv, Owners, Actor, Reread, Goes, tables
<1>7. OnceInv'
  BY DEF Types, Inv, OnceInv, FreshInv, Owners, Actor, Reread, Goes, tables
<1> QED
  BY <1>1, <1>2, <1>3, <1>4, <1>5, <1>6, <1>7 DEF Inv

\* An observer lets go of its own end only, and is about to record nothing.
LEMMA TailKeeps ==
  ASSUME Types, Inv, NEW o \in Observer, Tail(o)
  PROVE  Types' /\ Inv'
<1>1. Types'
  BY DEF Types, Stages, Inv, OnInv, Actor, Tail, Goes
<1>2. OnInv'
  BY DEF Types, Inv, OnInv, Actor, Tail, Goes
<1>3. EarlyInv'
  BY DEF Types, Inv, OnInv, EarlyInv, Actor, Tail, Goes
<1>4. OwnInv'
  BY DEF Types, Inv, OnInv, OwnInv, EarlyInv, Actor, Tail, Goes
<1>5. RecInv'
  BY DEF Types, Inv, RecInv, Actor, Tail, Goes
<1>6. FreshInv'
  BY DEF Types, Inv, OnInv, OwnInv, RecInv, FreshInv, Owners, Actor, Tail, Goes
<1>7. OnceInv'
  BY DEF Types, Inv, OnceInv, FreshInv, Owners, Actor, Tail, Goes
<1> QED
  BY <1>1, <1>2, <1>3, <1>4, <1>5, <1>6, <1>7 DEF Inv

\* Reading the session's rows changes nothing else.
LEMMA BeginKeeps ==
  ASSUME Types, Inv, NEW x \in Continuation \cup Stop, Begin(x)
  PROVE  Types' /\ Inv'
<1>1. Types'
  BY DEF Types, Stages, Inv, OnInv, Actor, Begin, Goes, tables, Found, Rows, Live
<1>2. OnInv'
  BY DEF Types, Inv, OnInv, Actor, Begin, Goes, tables, Found, Rows, Live
<1>3. EarlyInv'
  BY DEF Types, Inv, OnInv, EarlyInv, Actor, Begin, Goes, tables, Found, Rows, Live
<1>4. OwnInv'
  BY DEF Types, Inv, OnInv, OwnInv, EarlyInv, Actor, Begin, Goes, tables, Found, Rows, Live
<1>5. RecInv'
  BY DEF Types, Inv, RecInv, Actor, Begin, Goes, tables, Found, Rows, Live
<1>6. FreshInv'
  BY DEF Types, Inv, OnInv, OwnInv, RecInv, FreshInv, Owners, Actor, Begin, Goes, tables, Found, Rows, Live
<1>7. OnceInv'
  BY DEF Types, Inv, OnceInv, FreshInv, Owners, Actor, Begin, Goes, tables, Found, Rows, Live
<1> QED
  BY <1>1, <1>2, <1>3, <1>4, <1>5, <1>6, <1>7 DEF Inv

\* A stopped entry still owns its processes.
LEMMA StopContinuationsKeeps ==
  ASSUME Types, Inv, NEW s \in Stop, StopContinuations(s)
  PROVE  Types' /\ Inv'
<1>1. Types'
  BY DEF Types, Stages, Inv, OnInv, Actor, StopContinuations, Goes, StopEntries, OwnersAmong
<1>2. OnInv'
  BY DEF Types, Inv, OnInv, Actor, StopContinuations, Goes, StopEntries, OwnersAmong
<1>3. EarlyInv'
  BY DEF Types, Inv, OnInv, EarlyInv, Actor, StopContinuations, Goes, StopEntries, OwnersAmong
<1>4. OwnInv'
  BY DEF Types, Inv, OnInv, OwnInv, EarlyInv, Actor, StopContinuations, Goes, StopEntries, OwnersAmong
<1>5. RecInv'
  BY DEF Types, Inv, RecInv, Actor, StopContinuations, Goes, StopEntries, OwnersAmong
<1>6. FreshInv'
  BY DEF Types, Inv, OnInv, OwnInv, RecInv, FreshInv, Owners, Actor, StopContinuations, Goes, StopEntries, OwnersAmong
<1>7. OnceInv'
  BY DEF Types, Inv, OnceInv, FreshInv, Owners, Actor, StopContinuations, Goes, StopEntries, OwnersAmong
<1> QED
  BY <1>1, <1>2, <1>3, <1>4, <1>5, <1>6, <1>7 DEF Inv

\* A continuation claims what nobody owns, so it takes no end from anybody.
LEMMA ContinueKeeps ==
  ASSUME Types, Inv, NEW c \in Continuation, Continue(c)
  PROVE  Types' /\ Inv'
<1>1. Types'
  BY DEF Types, Stages, Inv, OnInv, Actor, Continue, Goes, tables, OwnersAmong
<1>2. OnInv'
  BY DEF Types, Inv, OnInv, Actor, Continue, Goes, tables, OwnersAmong
<1>3. EarlyInv'
  BY DEF Types, Inv, OnInv, EarlyInv, Actor, Continue, Goes, tables, OwnersAmong
<1>4. OwnInv'
  <2>1. \A p \in Process : owner'[p] = owner[p] \/ (owner[p] = None /\ owner'[p] = c)
    BY ContinueClaims DEF Types, tables, Actor
  <2>2. \A x \in Actor \ {c} : at'[x] = at[x]
    BY DEF Types, Continue, Goes
  <2>3. at'[c] \in {"over", "wait", "next"}
    BY DEF Types, Continue, Goes, Actor
  <2>4. UNCHANGED <<on, over>>
    BY DEF Continue
  <2>5. \A o \in Observer : o \in Actor \ {c} /\ Of[o] \in Process /\ o # None
    BY DEF Actor
  <2> QED
    BY <2>1, <2>2, <2>3, <2>4, <2>5 DEF Inv, OnInv, OwnInv
<1>5. RecInv'
  BY DEF Types, Inv, RecInv, Actor, Continue, Goes, tables, OwnersAmong
<1>6. FreshInv'
  BY DEF Types, Inv, OnInv, OwnInv, RecInv, FreshInv, Owners, Actor, Continue, Goes, tables, OwnersAmong
<1>7. OnceInv'
  BY DEF Types, Inv, OnceInv, FreshInv, Owners, Actor, Continue, Goes, tables, OwnersAmong
<1> QED
  BY <1>1, <1>2, <1>3, <1>4, <1>5, <1>6, <1>7 DEF Inv

\* Reading the session again changes nothing else.
LEMMA ReadAgainKeeps ==
  ASSUME Types, Inv, NEW c \in Continuation, ReadAgain(c)
  PROVE  Types' /\ Inv'
<1>1. Types'
  BY DEF Types, Stages, Inv, OnInv, Actor, ReadAgain, Goes, tables, Rows, Live
<1>2. OnInv'
  BY DEF Types, Inv, OnInv, Actor, ReadAgain, Goes, tables, Rows, Live
<1>3. EarlyInv'
  BY DEF Types, Inv, OnInv, EarlyInv, Actor, ReadAgain, Goes, tables, Rows, Live
<1>4. OwnInv'
  BY DEF Types, Inv, OnInv, OwnInv, EarlyInv, Actor, ReadAgain, Goes, tables, Rows, Live
<1>5. RecInv'
  BY DEF Types, Inv, RecInv, Actor, ReadAgain, Goes, tables, Rows, Live
<1>6. FreshInv'
  BY DEF Types, Inv, OnInv, OwnInv, RecInv, FreshInv, Owners, Actor, ReadAgain, Goes, tables, Rows, Live
<1>7. OnceInv'
  BY DEF Types, Inv, OnceInv, FreshInv, Owners, Actor, ReadAgain, Goes, tables, Rows, Live
<1> QED
  BY <1>1, <1>2, <1>3, <1>4, <1>5, <1>6, <1>7 DEF Inv

\* Whom an actor turns to is a process.
LEMMA TurnToKeeps ==
  ASSUME Types, Inv, NEW x \in Continuation \cup Stop, TurnTo(x)
  PROVE  Types' /\ Inv'
<1>1. Types'
  BY DEF Types, Stages, Inv, OnInv, Actor, TurnTo, Goes, tables
<1>2. OnInv'
  BY DEF Types, Inv, OnInv, Actor, TurnTo, Goes, tables
<1>3. EarlyInv'
  BY DEF Types, Inv, OnInv, EarlyInv, Actor, TurnTo, Goes, tables
<1>4. OwnInv'
  BY DEF Types, Inv, OnInv, OwnInv, EarlyInv, Actor, TurnTo, Goes, tables
<1>5. RecInv'
  BY DEF Types, Inv, RecInv, Actor, TurnTo, Goes, tables
<1>6. FreshInv'
  BY DEF Types, Inv, OnInv, OwnInv, RecInv, FreshInv, Owners, Actor, TurnTo, Goes, tables
<1>7. OnceInv'
  BY DEF Types, Inv, OnceInv, FreshInv, Owners, Actor, TurnTo, Goes, tables
<1> QED
  BY <1>1, <1>2, <1>3, <1>4, <1>5, <1>6, <1>7 DEF Inv

\* Closing a process records nothing: the actor goes on with the same one.
LEMMA CloseKeeps ==
  ASSUME Types, Inv, NEW x \in Continuation \cup Stop, Close(x)
  PROVE  Types' /\ Inv'
<1>1. Types'
  BY DEF Types, Stages, Inv, OnInv, Actor, Close, Goes, tables
<1>2. OnInv'
  BY DEF Types, Inv, OnInv, Actor, Close, Goes, tables
<1>3. EarlyInv'
  BY DEF Types, Inv, OnInv, EarlyInv, Actor, Close, Goes, tables
<1>4. OwnInv'
  BY DEF Types, Inv, OnInv, OwnInv, EarlyInv, Actor, Close, Goes, tables
<1>5. RecInv'
  BY DEF Types, Inv, RecInv, Actor, Close, Goes, tables
<1>6. FreshInv'
  BY DEF Types, Inv, OnInv, OwnInv, RecInv, FreshInv, Owners, Actor, Close, Goes, tables
<1>7. OnceInv'
  BY DEF Types, Inv, OnceInv, FreshInv, Owners, Actor, Close, Goes, tables
<1> QED
  BY <1>1, <1>2, <1>3, <1>4, <1>5, <1>6, <1>7 DEF Inv

\* A process that starts has no owner and no recorded end.
LEMMA StartKeeps ==
  ASSUME Types, Inv, NEW c \in Continuation \cup Stop, Start(c)
  PROVE  Types' /\ Inv'
<1>1. Types'
  BY DEF Types, Stages, Inv, OnInv, Actor, Start, Goes, tables
<1>2. OnInv'
  BY DEF Types, Inv, OnInv, Actor, Start, Goes, tables
<1>3. EarlyInv'
  BY DEF Types, Inv, OnInv, EarlyInv, Actor, Start, Goes, tables
<1>4. OwnInv'
  BY DEF Types, Inv, OnInv, OwnInv, EarlyInv, Actor, Start, Goes, tables
<1>5. RecInv'
  BY DEF Types, Inv, RecInv, Actor, Start, Goes, tables
<1>6. FreshInv'
  BY DEF Types, Inv, OnInv, OwnInv, RecInv, FreshInv, Owners, Actor, Start, Goes, tables
<1>7. OnceInv'
  BY DEF Types, Inv, OnceInv, FreshInv, Owners, Actor, Start, Goes, tables
<1> QED
  BY <1>1, <1>2, <1>3, <1>4, <1>5, <1>6, <1>7 DEF Inv

\* A released continuation owns nothing, and is about to record nothing.
LEMMA ReleaseKeeps ==
  ASSUME Types, Inv, NEW c \in Continuation, Release(c)
  PROVE  Types' /\ Inv'
<1>1. Types'
  BY DEF Types, Stages, Inv, OnInv, Actor, Release, Goes, ReleaseEntry, Released
<1>2. OnInv'
  BY DEF Types, Inv, OnInv, Actor, Release, Goes, ReleaseEntry, Released
<1>3. EarlyInv'
  BY DEF Types, Inv, OnInv, EarlyInv, Actor, Release, Goes, ReleaseEntry, Released
<1>4. OwnInv'
  BY DEF Types, Inv, OnInv, OwnInv, EarlyInv, Actor, Release, Goes, ReleaseEntry, Released
<1>5. RecInv'
  BY DEF Types, Inv, RecInv, Actor, Release, Goes, ReleaseEntry, Released
<1>6. FreshInv'
  BY DEF Types, Inv, OnInv, OwnInv, RecInv, FreshInv, Owners, Actor, Release, Goes, ReleaseEntry, Released
<1>7. OnceInv'
  BY DEF Types, Inv, OnceInv, FreshInv, Owners, Actor, Release, Goes, ReleaseEntry, Released
<1> QED
  BY <1>1, <1>2, <1>3, <1>4, <1>5, <1>6, <1>7 DEF Inv

\* Who is let record owns the end, or is a Stop let record over a continuation.
LEMMA EndKeeps ==
  ASSUME Types, Inv, NEW x \in Actor, End(x)
  PROVE  Types' /\ Inv'
<1>1. Types'
  BY DEF Types, Stages, Inv, OnInv, Actor, End, Goes, tables, StopEntries, Grant, After
<1>2. OnInv'
  BY DEF Types, Inv, OnInv, Actor, End, Goes, tables, StopEntries, Grant, After
<1>3. EarlyInv'
  BY DEF Types, Inv, OnInv, EarlyInv, Actor, End, Goes, tables, StopEntries, Grant, After
<1>4. OwnInv'
  BY DEF Types, Inv, OnInv, OwnInv, EarlyInv, Actor, End, Goes, tables, StopEntries, Grant, After
<1>5. RecInv'
  BY DEF Types, Inv, RecInv, Actor, End, Goes, tables, StopEntries, Grant, After
<1>6. FreshInv'
  BY DEF Types, Inv, OnInv, OwnInv, RecInv, FreshInv, Owners, Actor, End, Goes, tables, StopEntries, Grant, After
<1>7. OnceInv'
  BY DEF Types, Inv, OnceInv, FreshInv, Owners, Actor, End, Goes, tables, StopEntries, Grant, After
<1> QED
  BY <1>1, <1>2, <1>3, <1>4, <1>5, <1>6, <1>7 DEF Inv

\* A row that is still live has no recorded end: who is about to record it is
\* the first, and stays the only owner.
LEMMA ReadRowKeeps ==
  ASSUME Types, Inv, NEW x \in Actor, ReadRow(x)
  PROVE  Types' /\ Inv'
<1>1. Types'
  BY DEF Types, Stages, Inv, OnInv, Actor, ReadRow, Goes, LetGo, After, Ended
<1>2. OnInv'
  BY DEF Types, Inv, OnInv, Actor, ReadRow, Goes, LetGo, After, Ended
<1>3. EarlyInv'
  BY DEF Types, Inv, OnInv, EarlyInv, Actor, ReadRow, Goes, LetGo, After, Ended
<1>4. OwnInv'
  BY DEF Types, Inv, OnInv, OwnInv, EarlyInv, Actor, ReadRow, Goes, LetGo, After, Ended
<1>5. RecInv'
  BY DEF Types, Inv, RecInv, Actor, ReadRow, Goes, LetGo, After, Ended
<1>6. FreshInv'
  BY DEF Types, Inv, OnInv, OwnInv, RecInv, FreshInv, Owners, Actor, ReadRow, Goes, LetGo, After, Ended
<1>7. OnceInv'
  BY DEF Types, Inv, OnceInv, FreshInv, Owners, Actor, ReadRow, Goes, LetGo, After, Ended
<1> QED
  BY <1>1, <1>2, <1>3, <1>4, <1>5, <1>6, <1>7 DEF Inv

\* Who records an end by its own authority is the first to, and any other that
\* was about to would have owned the same end.
LEMMA MarkKeeps ==
  ASSUME Types, Inv, NEW x \in Actor, Mark(x)
  PROVE  Types' /\ Inv'
<1>1. Types'
  BY DEF Types, Stages, Inv, OnInv, Actor, Mark, Goes, LetGo, After
<1>2. OnInv'
  BY DEF Types, Inv, OnInv, Actor, Mark, Goes, LetGo, After
<1>3. EarlyInv'
  BY DEF Types, Inv, OnInv, EarlyInv, Actor, Mark, Goes, LetGo, After
<1>4. OwnInv'
  BY DEF Types, Inv, OnInv, OwnInv, EarlyInv, Actor, Mark, Goes, LetGo, After
<1>5. RecInv'
  BY DEF Types, Inv, RecInv, Actor, Mark, Goes, LetGo, After
<1>6. FreshInv'
  BY DEF Types, Inv, OnInv, OwnInv, RecInv, FreshInv, Owners, Actor, Mark, Goes, LetGo, After
<1>7. OnceInv'
  BY DEF Types, Inv, OnceInv, FreshInv, Owners, Actor, Mark, Goes, LetGo, After
<1> QED
  BY <1>1, <1>2, <1>3, <1>4, <1>5, <1>6, <1>7 DEF Inv

\* A process that ends of itself changes nobody's authority.
LEMMA ExitKeeps ==
  ASSUME Types, Inv, NEW p \in Process, Exit(p)
  PROVE  Types' /\ Inv'
<1>1. Types'
  BY DEF Types, Stages, Inv, OnInv, Actor, Exit, tables, Live
<1>2. OnInv'
  BY DEF Types, Inv, OnInv, Actor, Exit, tables, Live
<1>3. EarlyInv'
  BY DEF Types, Inv, OnInv, EarlyInv, Actor, Exit, tables, Live
<1>4. OwnInv'
  BY DEF Types, Inv, OnInv, OwnInv, EarlyInv, Actor, Exit, tables, Live
<1>5. RecInv'
  BY DEF Types, Inv, RecInv, Actor, Exit, tables, Live
<1>6. FreshInv'
  BY DEF Types, Inv, OnInv, OwnInv, RecInv, FreshInv, Owners, Actor, Exit, tables, Live
<1>7. OnceInv'
  BY DEF Types, Inv, OnceInv, FreshInv, Owners, Actor, Exit, tables, Live
<1> QED
  BY <1>1, <1>2, <1>3, <1>4, <1>5, <1>6, <1>7 DEF Inv

\* An exited row is never live again, whoever exited it.
LEMMA ReapKeeps ==
  ASSUME Types, Inv, NEW p \in Process, Reap(p)
  PROVE  Types' /\ Inv'
<1>1. Types'
  BY DEF Types, Stages, Inv, OnInv, Actor, Reap, tables, Live
<1>2. OnInv'
  BY DEF Types, Inv, OnInv, Actor, Reap, tables, Live
<1>3. EarlyInv'
  BY DEF Types, Inv, OnInv, EarlyInv, Actor, Reap, tables, Live
<1>4. OwnInv'
  BY DEF Types, Inv, OnInv, OwnInv, EarlyInv, Actor, Reap, tables, Live
<1>5. RecInv'
  BY DEF Types, Inv, RecInv, Actor, Reap, tables, Live
<1>6. FreshInv'
  BY DEF Types, Inv, OnInv, OwnInv, RecInv, FreshInv, Owners, Actor, Reap, tables, Live
<1>7. OnceInv'
  BY DEF Types, Inv, OnceInv, FreshInv, Owners, Actor, Reap, tables, Live
<1> QED
  BY <1>1, <1>2, <1>3, <1>4, <1>5, <1>6, <1>7 DEF Inv

-----------------------------------------------------------------------------
(* The workspace's holds. *)

HoldInv == holds = Cardinality(Holding)

\* There are finitely many continuations, so finitely many hold the workspace.
LEMMA HoldingFinite == IsFiniteSet(Holding) /\ Cardinality(Holding) \in Nat
<1>1. IsFiniteSet(Holding)
  BY FS_Subset DEF Holding
<1> QED
  BY <1>1, FS_CardinalityType

\* Claims that continuations have no part in change none of their holds.
LEMMA SameHolds ==
  ASSUME HoldInv, UNCHANGED <<state, holds>>,
         \A p \in Process : \/ owner'[p] = owner[p]
                            \/ owner[p] \notin Continuation /\ owner'[p] \notin Continuation
  PROVE  HoldInv'
<1>1. Holding' = Holding
  BY DEF Holding
<1> QED
  BY <1>1 DEF HoldInv

\* A stopped entry's hold is left, once.
LEMMA StopHolds ==
  ASSUME Types, HoldInv, NEW C, StopEntries(C), UNCHANGED owner
  PROVE  HoldInv'
<1>1. Holding' = Holding \ C
  BY DEF Types, Holding, StopEntries
<1>2. C \cap Holding = Holding \cap C
  OBVIOUS
<1> QED
  BY <1>1, <1>2, HoldingFinite, FS_Difference DEF HoldInv, StopEntries

\* A released entry's hold is left, if it still had one.
LEMMA ReleaseHolds ==
  ASSUME Types, HoldInv, NEW c \in Continuation, ReleaseEntry(c)
  PROVE  HoldInv'
<1>1. Holding' = Holding \ {c}
  BY DEF Types, Holding, ReleaseEntry, Released, Actor
<1>2. {c} \cap Holding = Holding \cap {c}
  OBVIOUS
<1> QED
  BY <1>1, <1>2, HoldingFinite, FS_Difference DEF HoldInv, ReleaseEntry

\* A continuation enters the hold of the agents it claims, if there are any.
LEMMA ContinueHolds ==
  ASSUME Types, Inv, HoldInv, NEW c \in Continuation, Continue(c)
  PROVE  HoldInv'
<1>1. CASE UNCHANGED tables
  BY <1>1, SameHolds DEF tables
<1>2. CASE /\ owner' = [p \in Process |-> IF p \in left[c] THEN c ELSE owner[p]]
           /\ state' = [state EXCEPT ![c] = "active"]
           /\ holds' = (IF left[c] = {} THEN holds ELSE holds + 1)
           /\ \A p \in left[c] : owner[p] = None
  <2>1. state[c] = "none" /\ \A p \in Process : owner[p] # c
    BY DEF Inv, EarlyInv, Continue
  <2>2. left[c] \subseteq Process
    BY DEF Types, Actor
  <2>3. CASE left[c] = {}
    <3>1. Holding' = Holding
      BY <1>2, <2>1, <2>3 DEF Types, Holding
    <3> QED
      BY <1>2, <2>3, <3>1 DEF HoldInv
  <2>4. CASE left[c] # {}
    <3>1. Holding' = Holding \cup {c}
      BY <1>2, <2>1, <2>2, <2>4 DEF Types, Holding, Actor
    <3>2. c \notin Holding
      BY <2>1 DEF Holding
    <3> QED
      BY <1>2, <2>4, <3>1, <3>2, HoldingFinite, FS_AddElement DEF HoldInv
  <2> QED
    BY <2>3, <2>4
<1> QED
  BY <1>1, <1>2, ContinueClaims

\* No step leaves a hold twice, or keeps one.
LEMMA HoldsKept ==
  ASSUME Types, Inv, HoldInv, [Next]_vars
  PROVE  HoldInv'
<1>1. ASSUME NEW o \in Observer, Observe(o) \/ Tail(o) PROVE HoldInv'
  <2>1. UNCHANGED <<state, holds>>
    BY <1>1 DEF Observe, Tail
  <2>2. \A p \in Process : \/ owner'[p] = owner[p]
                           \/ owner[p] \notin Continuation /\ owner'[p] \notin Continuation
    BY <1>1 DEF Observe, Tail, Free, Types, Actor
  <2> QED
    BY <2>1, <2>2, SameHolds
<1>2. ASSUME NEW x \in Actor, ReadRow(x) \/ Mark(x) PROVE HoldInv'
  <2>1. UNCHANGED <<state, holds>>
    BY <1>2 DEF ReadRow, Mark
  <2>2. \A p \in Process : \/ owner'[p] = owner[p]
                           \/ owner[p] \notin Continuation /\ owner'[p] \notin Continuation
    BY <1>2 DEF ReadRow, Mark, LetGo, Types, Actor
  <2> QED
    BY <2>1, <2>2, SameHolds
<1>3. ASSUME NEW x \in Actor, End(x) PROVE HoldInv'
  <2>1. CASE UNCHANGED <<owner, state, holds>>
    BY <2>1, SameHolds
  <2>2. CASE StopEntries({owner[on[x]]}) /\ UNCHANGED owner
    BY <2>2, StopHolds
  <2>3. CASE /\ x \in Stop /\ owner[on[x]] = None /\ owner' = [owner EXCEPT ![on[x]] = x]
             /\ UNCHANGED <<state, holds>>
    BY <2>3, SameHolds DEF Types, Actor
  <2> QED
    BY <1>3, <2>1, <2>2, <2>3 DEF End, Grant, tables
<1>4. ASSUME NEW s \in Stop, StopContinuations(s) PROVE HoldInv'
  BY <1>4, StopHolds DEF StopContinuations
<1>5. ASSUME NEW c \in Continuation, Release(c) PROVE HoldInv'
  BY <1>5, ReleaseHolds DEF Release
<1>6. ASSUME NEW c \in Continuation, Continue(c) PROVE HoldInv'
  BY <1>6, ContinueHolds
<1>7. CASE UNCHANGED tables
  BY <1>7, SameHolds DEF tables
<1>8. CASE \E p \in Process : Exit(p) \/ Reap(p)
  BY <1>7, <1>8 DEF Exit, Reap
<1>9. CASE \E o \in Observer : Notice(o) \/ ObserverStep(o)
  BY <1>1, <1>2, <1>3, <1>7, <1>9 DEF Notice, ObserverStep, Woken, Reread, Actor
<1>10. CASE \E x \in Continuation \cup Stop : Begin(x) \/ TakerStep(x)
  BY <1>2, <1>3, <1>4, <1>5, <1>6, <1>7, <1>10
     DEF TakerStep, Begin, StopContinuations, Continue, ReadAgain, TurnTo, Close, Start, Release,
         Actor
<1> QED
  BY <1>7, <1>8, <1>9, <1>10 DEF Next, vars, tables

-----------------------------------------------------------------------------
(* The theorems. *)

\* At the start nobody owns, holds or has recorded anything.
LEMMA Begun == Init => Types /\ Inv /\ HoldInv
<1> SUFFICES ASSUME Init PROVE Types /\ Inv /\ HoldInv
  OBVIOUS
<1>1. Types
  BY DEF Init, Types, Stages, Actor
<1>2. Inv
  BY DEF Init, Inv, OnInv, EarlyInv, OwnInv, RecInv, FreshInv, OnceInv, Owners, Actor
<1>3. Holding = {}
  BY DEF Init, Holding
<1>4. HoldInv
  BY <1>3, FS_EmptySet DEF Init, HoldInv
<1> QED
  BY <1>1, <1>2, <1>4

\* Every step keeps the invariant.
LEMMA Kept == Types /\ Inv /\ HoldInv /\ [Next]_vars => Types' /\ Inv' /\ HoldInv'
<1> SUFFICES ASSUME Types, Inv, HoldInv, [Next]_vars PROVE Types' /\ Inv' /\ HoldInv'
  OBVIOUS
<1>1. Types' /\ Inv'
  <2>1. CASE \E p \in Process : Exit(p) \/ Reap(p)
    BY <2>1, ExitKeeps, ReapKeeps
  <2>2. CASE \E o \in Observer : Notice(o) \/ ObserverStep(o)
    BY <2>2, NoticeKeeps, ObserveKeeps, WokenKeeps, RereadKeeps, TailKeeps, EndKeeps,
       ReadRowKeeps, MarkKeeps DEF ObserverStep, Actor
  <2>3. CASE \E x \in Continuation \cup Stop : Begin(x) \/ TakerStep(x)
    BY <2>3, BeginKeeps, StopContinuationsKeeps, ContinueKeeps, ReadAgainKeeps, TurnToKeeps,
       CloseKeeps, StartKeeps, ReleaseKeeps, EndKeeps, ReadRowKeeps, MarkKeeps
       DEF TakerStep, StopContinuations, Continue, ReadAgain, Release, Actor
  <2>4. CASE UNCHANGED vars
    <3>1. Types'
      BY <2>4 DEF Types, vars
    <3>2. Inv'
      BY <2>4 DEF Inv, OnInv, EarlyInv, OwnInv, RecInv, FreshInv, OnceInv, Owners, vars
    <3> QED
      BY <3>1, <3>2
  <2> QED
    BY <2>1, <2>2, <2>3, <2>4 DEF Next
<1> QED
  BY <1>1, HoldsKept

\* Every variable keeps its type, and the workspace is held once for each
\* active continuation, for any number of them.
THEOREM TypeCorrect == Spec => []TypeOK
<1>1. Types /\ HoldInv => TypeOK
  BY DEF Types, HoldInv, TypeOK
<1> QED
  BY <1>1, Begun, Kept, PTL DEF Spec

\* Each end is recorded once, whoever saw it: only a Stop let record over a
\* continuation records beside another.
THEOREM RecordedOnceAlways == Spec => []RecordedOnce
<1>1. Types /\ OnceInv => RecordedOnce
  <2> SUFFICES ASSUME Types, OnceInv, NEW p \in Process PROVE Cardinality(recorded[p] \ over[p]) <= 1
    BY DEF RecordedOnce
  <2>1. CASE recorded[p] \ over[p] = {}
    <3>1. Cardinality(recorded[p] \ over[p]) = 0
      BY <2>1, FS_EmptySet, Zenon
    <3> QED
      BY <3>1
  <2>2. CASE recorded[p] \ over[p] # {}
    <3>1. PICK x : x \in recorded[p] \ over[p]
      BY <2>2
    <3>2. recorded[p] \ over[p] = {x}
      BY <3>1 DEF OnceInv, Owners
    <3>3. Cardinality({x}) = 1
      BY FS_Singleton, Zenon
    <3>4. Cardinality(recorded[p] \ over[p]) = 1
      BY <3>2, <3>3, Zenon
    <3> QED
      BY <3>4
  <2> QED
    BY <2>1, <2>2
<1>2. Inv => OnceInv
  BY DEF Inv
<1> QED
  BY <1>1, <1>2, Begun, Kept, PTL DEF Spec
=============================================================================
