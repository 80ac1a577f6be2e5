----------------------------- MODULE PickupState -----------------------------
(* The state of pickup tickets and of the tokens of one-off writes, and what  *)
(* is promised of it; PickupTickets says what happens to it                   *)
(* (packages/sessions/src/pickup-tickets.ts, write-tokens.ts).                *)
EXTENDS Naturals, FiniteSets

CONSTANTS
  Plain, Identity, Write,  \* tickets, by what they carry
  Request,                 \* presentations of a ticket
  Channel,                 \* channels they arrive through
  Fits,                    \* ticket |-> channel |-> whether it may redeem it
  MaxPending,              \* maxPending: 1000 in the code
  Nobody

Ticket == Plain \cup Identity \cup Write

TicketsAssumption ==
  /\ Nobody \notin Request \cup Ticket
  /\ Plain \cap (Identity \cup Write) = {} /\ Identity \cap Write = {}
  /\ Fits \in [Ticket -> [Channel -> {"yes", "ask", "no"}]]
  /\ MaxPending \in Nat

VARIABLES
  minted,    \* tickets minted so far
  held,      \* held: tickets to be redeemed
  spent,     \* spent: the tombstones of those redeemed
  dropped,   \* ... discarded since
  over,      \* tickets whose exec, or write, ended
  making,    \* identityInFlight: ticket |-> the request its answer is made in
  answers,   \* identityAnswers: ticket |-> the request it was answered in
  writes,    \* write |-> where its entry in `writes` is
  handed,    \* write |-> the token it holds
  valid,     \* tokens the store accepts
  lapsed,    \* tokens of writes it accepts no more, by their age
  revoking,  \* tokens whose revocation is tried
  pending,   \* pending: tokens that wait for the sweep
  sweeping,  \* sweeping
  strayed,   \* tokens whose insert was not answered, or dropped past maxPending
  req        \* what each request presented, where it is and what it got

-----------------------------------------------------------------------------
(* A ticket is answered once: all who are answered for it hold one answer, and
   asked for it through one channel (pickup-tickets.ts; engine.ts, redeemPickup:
   the same answer, so no second token). *)
AnsweredOnce ==
  \A r, q \in Request :
    (req[r].got # Nobody /\ req[q].got # Nobody /\ req[r].ticket = req[q].ticket)
      => (req[r].got = req[q].got /\ req[r].channel = req[q].channel)

(* Once its exec ended, a ticket is not to be redeemed, a failed answer puts
   nothing back, and a write leaves no entry unless its mint is under way
   (pickup-tickets.ts, restore and discard; write-tokens.ts, end). *)
EndedIsGone ==
  \A t \in over :
    /\ t \notin held
    /\ t \in Write /\ writes[t] # "none" =>
         writes[t] = "doomed" /\ \E r \in Request : req[r].at = "issuing" /\ req[r].ticket = t

(* A token of a write that ended is being revoked, or kept for a sweep that
   runs, for as long as the store accepts it: none is forgotten but the one
   whose insert was not answered, and those past maxPending (write-tokens.ts). *)
TokenEndsWithWrite ==
  \A r \in valid : req[r].ticket \in Write \cap over =>
    r \in revoking \/ (sweeping /\ r \in pending) \/ r \in strayed
=============================================================================
