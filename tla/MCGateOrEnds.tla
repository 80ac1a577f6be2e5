----------------------------- MODULE MCGateOrEnds -----------------------------
(* Two parts of a session, one of which acts: the launch gate and its Stops  *)
(* (Gate), or the ends of its agents (the instance of MCEndOwnership).       *)
EXTENDS MCEndOwnership, GateState

VARIABLE part

Gate == INSTANCE LaunchGate
Idle == INSTANCE EndOwnership WITH Casts <- {{}}

ASSUME GateAssumption

gate == <<capture, gateAt, gateOn, held, admitted, marked, agent, out, found, past>>

\* The part that does not act stays at an initial state of its own.
PartInit ==
  \/ part = "gate" /\ Gate!Init /\ Idle!Init
  \/ part = "ends" /\ Init /\ capture = TRUE /\ Gate!Init

\* Bound: of the Stops that follow a launch, a recovery's alone fails, with captures.
FailsOnce ==
  \A c \in Launchers : gateAt[c] = "stopping" /\ gateAt'[c] = "over" => c \in Recoveries /\ capture

PartNext ==
  /\ UNCHANGED part
  /\ \/ part = "gate" /\ Gate!Next /\ UNCHANGED vars /\ FailsOnce
     \/ part = "ends" /\ Next /\ UNCHANGED gate

\* What may not be put off for ever, as in LaunchGate and in EndOwnership.
Due ==
  /\ UNCHANGED part
  /\ \/ /\ part = "gate" /\ UNCHANGED vars
        /\ (\E c \in Callers : Gate!Step(c)) \/ (\E s \in Stops : Gate!StopStep(s))
     \/ /\ part = "ends" /\ UNCHANGED gate
        /\ \/ \E o \in Patient : Notice(o)
           \/ \E o \in Observer : ObserverStep(o)
           \/ \E x \in Continuation \cup Stop : TakerStep(x)

PartSpec == PartInit /\ [][PartNext]_<<part, vars, gate>> /\ WF_<<part, vars, gate>>(Due)

\* Every launch, recovery, work between launches and Stop that is asked is
\* over in the end, and a process that runs no more is recorded as ended: none
\* waits for another that waits for it, and none leaves an end to one that gave
\* up (launch-gate.ts, settleSession; end-ownership.ts).
EverythingEnds == <>[](Gate!AsksOver /\ EndsRecorded)
===============================================================================
