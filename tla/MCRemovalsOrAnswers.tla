-------------------------- MODULE MCRemovalsOrAnswers --------------------------
(* Three systems, one of which acts: removals and starts (the instance of     *)
(* MCRemovalFences), the evidence of an executor's unsaved work, or pickup    *)
(* tickets, of one kind at a time, since tickets of different kinds share no  *)
(* state.                                                                     *)
EXTENDS MCRemovalFences, EvidenceState, PickupState

CONSTANTS x1, a1, a2, q1, exec, socket, r3

VARIABLE part

Evidence == INSTANCE CaptureEvidence
Tickets == INSTANCE PickupTickets

ASSUME TicketsAssumption

evidence == <<made, boot, asks, saved, kept, latest, seal, judge, end>>
tickets == <<minted, held, spent, dropped, over, making, answers, writes, handed, valid,
             lapsed, revoking, pending, sweeping, strayed, req>>

AllKinds == {"saved", "pending", "changed"}

\* Starts, attempts and asks are interchangeable: they come in one order.
InOrder ==
  /\ start'[x1] = None => start' = start
  /\ try'[a1] = None => try' = try
  /\ try'[a2] = None => \A a \in Attempt \ {a1} : try'[a] = try[a]
  /\ asks'[q1].stage = "idle" => asks' = asks

\* An exec's channel names its launch, a socket only a session, which has to be
\* read; a plain ticket is redeemed through its own channel alone.
FitsTable ==
  [t \in Ticket |-> [c \in Channel |->
     IF c = exec THEN "yes" ELSE IF t \in Plain THEN "no" ELSE "ask"]]

\* The tickets of each kind, and the requests that present them.
KindOf == [plain |-> Plain, identity |-> Identity, write |-> Write]
AskedBy == [plain |-> Request \ {r3}, identity |-> Request, write |-> Request \ {r3}]

PartInit ==
  /\ part \in {"removals", "evidence"} \cup DOMAIN KindOf
  /\ Init /\ Evidence!Init /\ Tickets!Init
  /\ part # "removals" => row = [r \in Row |-> "there"]
  /\ part # "evidence" => boot.generation = 0

\* The systems that do not act stay at an initial state of their own.
PartNext ==
  /\ UNCHANGED part
  /\ \/ part = "removals" /\ UNCHANGED <<evidence, tickets>> /\ Next /\ InOrder
     \/ part = "evidence" /\ UNCHANGED <<vars, tickets>> /\ Evidence!Next /\ InOrder
     \/ /\ part \in DOMAIN KindOf /\ UNCHANGED <<vars, evidence>>
        /\ Tickets!Next /\ minted' \subseteq KindOf[part]
        /\ \A r \in Request \ AskedBy[part] : UNCHANGED req[r]

PartSpec == PartInit /\ [][PartNext]_<<part, vars, evidence, tickets>>
===============================================================================
