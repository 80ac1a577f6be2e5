------------------------------ MODULE GateState ------------------------------
(***************************************************************************)
(* The state of a session's launch gate and of the Stops that meet it, and *)
(* what is promised of it; LaunchGate says what happens to it              *)
(* (packages/sessions/src/launch-gate.ts, engine.ts).                      *)
(***************************************************************************)
EXTENDS Naturals, FiniteSets

CONSTANTS
  Launches,     \* gatedLaunch: a launch verb
  Recoveries,   \* queuedLaunch: a recovery of Mend's own
  Betweens,     \* runBetween: work between launches
  Stops,        \* the owner's Stops
  Modes,        \* whether captures are on: a set of Booleans
  Nobody

Launchers == Launches \cup Recoveries
Callers == Launchers \cup Betweens
All == Callers \cup Stops

GateAssumption ==
  /\ Modes \subseteq BOOLEAN
  /\ Nobody \notin All
  /\ Launches \cap Recoveries = {} /\ Launchers \cap Betweens = {}
  /\ Callers \cap Stops = {}

VARIABLES
  capture,   \* whether captures are on
  gateAt,    \* how far each caller and Stop got
  gateOn,    \* the holder a caller last waited for; the work a settle forked
  held,      \* who holds the gate
  admitted,  \* holder |-> the waiters awaitCurrent released for it
  marked,    \* stoppedDuringLaunch
  agent,     \* the launch whose agent runs
  out,       \* how a caller's ask ended
  found,     \* the launches a Stop found under way, less those whose second Stop failed
  past       \* the Stops over when a launch was asked

(* Where a caller is that runs under the gate. *)
UnderGate == {"held", "opening", "started", "settling", "stopping", "clearing"}

-----------------------------------------------------------------------------
(* One verb of a session at a time: whoever runs under the gate holds it,  *)
(* and of the launches waiting for a stopped launch's teardown one goes on:*)
(* the others are superseded, even when it is over before they wake.       *)
OneAtATime ==
  /\ \A c \in Callers : gateAt[c] \in UnderGate => held = c
  /\ \A h \in Callers : Cardinality(admitted[h]) <= 1

(* A launch the owner's Stop found under way leaves no agent running once  *)
(* it is over, wherever in it the Stop came (3c4e991b), unless the Stop    *)
(* that follows the launch failed: that one is only logged.                *)
StopReachesLaunch == \A c \in found : gateAt[c] = "over" => agent # c

(* A launch sent after a Stop was over is not cancelled by that Stop.      *)
SparesLater ==
  \A c \in Launches :
    out[c] = "cancelled" => \E s \in Stops \ past[c] : gateAt[s] # "idle"
=============================================================================
