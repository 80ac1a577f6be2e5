------------------------------- MODULE HotPool -------------------------------
(***************************************************************************)
(* A project's pool of standbys: executors made before a session needs them*)
(* (packages/db/src/repos/hot-workspaces.ts; the reconcile pass, the sweep,*)
(* the claims and the launches of packages/sessions/src/engine.ts, with    *)
(* captures on).                                                           *)
(*                                                                         *)
(* One pass runs at a time: it reads the rows, drains those it would not   *)
(* keep, probes the others and makes what is missing.  The sweep drains    *)
(* claims whose session is over.  A start claims a ready standby, creates  *)
(* its session under the standby's id and launches in it.  They meet only  *)
(* in the rows; a step is what runs between two answers of the database or *)
(* of the platform.  One project, one owner; Mend may stop and start again *)
(* anywhere.                                                               *)
(***************************************************************************)
EXTENDS PoolState

CONSTANTS
  MaxCrashes,
  Nobody

PoolAssumption ==
  /\ Standbys \in Nat /\ MaxCrashes \in Nat
  /\ Targets \subseteq Nat /\ IsFiniteSet(Targets) /\ Targets # {}
  /\ Starter \cap {"pass", "sweep"} = {} /\ Nobody \notin Standby

rows == <<row, print, named>>
world == <<exec, token, session, owned>>
passing == <<kept, goal, wanted, count>>
vars == <<rows, world, passing, poolStage, at, todo, again, restarts>>

Init ==
  /\ row = [e \in Standby |-> "none"]
  /\ print = [e \in Standby |-> Nobody]
  /\ named = {}
  /\ exec = [e \in Standby |-> "none"]
  /\ token = {}
  /\ session = [e \in Standby |-> "none"]
  /\ owned = {}
  /\ poolStage = [x \in Agent |-> "idle"]
  /\ at = [x \in Agent |-> Nobody]
  /\ todo = [x \in {"pass", "sweep"} |-> {}]
  /\ kept = {}
  /\ goal = 0
  /\ wanted = Nobody
  /\ count = 0
  /\ again = FALSE
  /\ restarts = 0

Goes(x, s) == poolStage' = [poolStage EXCEPT ![x] = s]

Over(x) == Goes(x, "over") /\ at' = [at EXCEPT ![x] = Nobody]

(* x goes on at s and asks for a pass (requestHotReconcile): a request     *)
(* during a pass is one more pass after it.                                *)
RequestAndGo(x, s) ==
  IF poolStage["pass"] = "idle"
    THEN poolStage' = [poolStage EXCEPT ![x] = s, !["pass"] = "list"] /\ UNCHANGED again
    ELSE Goes(x, s) /\ again' = TRUE

------------------------------------------------------------------------------
(* Draining a standby (drainHotWorkspace), by the row the agent read.      *)

(* The stop is asked, when the row names an executor: refused or kept, or  *)
(* begun.                                                                  *)
AskStop(x) ==
  /\ poolStage[x] = "stop"
  /\ LET e == at[x]
     IN  \/ /\ e \notin named
            /\ Goes(x, "forget") /\ UNCHANGED exec
         \/ /\ e \in named
            /\ Goes(x, "confirm")
            /\ \/ UNCHANGED exec
               \/ exec[e] = "runs" /\ exec' = [exec EXCEPT ![e] = "stopping"]
  /\ UNCHANGED <<rows, token, session, owned, passing, at, todo, again, restarts>>

(* Where an agent goes on once the drain answered: a pass and the sweep    *)
(* turn to the next; a claim that could not be leased asks for a pass; a   *)
(* launch goes on cold.                                                    *)
Drained(x) ==
  /\ at' = [at EXCEPT ![x] = Nobody]
  /\ IF x \notin Starter THEN Goes(x, "turn") /\ UNCHANGED again
     ELSE IF session[at[x]] = "none" THEN RequestAndGo(x, "over")
     ELSE Goes(x, "over") /\ UNCHANGED again

(* A variant that takes any answer for the end.                            *)
EndedAnyway(e) == TRUE

Ended(e) == exec[e] = "ended"

(* The row is deleted.                                                     *)
Delete(e) ==
  /\ row' = [row EXCEPT ![e] = "gone"]
  /\ print' = [print EXCEPT ![e] = Nobody]

(* Its status is written, if it is still there.                            *)
Mark(e, status) == row' = [row EXCEPT ![e] = IF @ = "gone" THEN @ ELSE status]

(* Only a confirmed end takes the token and the row.                       *)
Confirm(x) ==
  /\ poolStage[x] = "confirm"
  /\ \/ /\ Ended(at[x])
        /\ Goes(x, "forget") /\ UNCHANGED <<row, at, again>>
     \/ Mark(at[x], "failed") /\ Drained(x)
  /\ UNCHANGED <<print, named, world, passing, todo, restarts>>

(* Its token is revoked and its row deleted.                               *)
Forget(x) ==
  /\ poolStage[x] = "forget"
  /\ token' = token \ {at[x]}
  /\ Delete(at[x])
  /\ Drained(x)
  /\ UNCHANGED <<named, exec, session, owned, passing, todo, restarts>>

Drain(x) == AskStop(x) \/ Confirm(x) \/ Forget(x)

(* x turns to e to drain it.                                               *)
DrainOf(x, e) ==
  /\ Goes(x, "stop")
  /\ at' = [at EXCEPT ![x] = e]

------------------------------------------------------------------------------
(* A pass (reconcileHotPoolOnce).                                          *)

(* A pass is over: another if one was asked for meanwhile.                 *)
EndPass ==
  /\ Goes("pass", IF again THEN "list" ELSE "idle")
  /\ again' = FALSE
  /\ kept' = {} /\ goal' = 0 /\ wanted' = Nobody /\ count' = 0

First(S, n) == {e \in S : Cardinality({d \in S : d < e}) < n}

(* The target, the rows and the fingerprint are read, and every row is     *)
(* judged by what was read: ready ones that match are kept, as many as the *)
(* target, oldest first; claimed ones are left to their launches and the   *)
(* sweep; all others are drained.  A fingerprint that cannot be told       *)
(* decides nothing.                                                        *)
List ==
  /\ poolStage["pass"] = "list"
  /\ \/ \E n \in Targets, f \in Prints :
          LET keep == First({e \in Standby : row[e] = "ready" /\ print[e] = f}, n)
          IN /\ kept' = keep
             /\ todo' = [todo EXCEPT !["pass"] =
                           {e \in Standby : row[e] \in {"warming", "ready", "failed"}} \ keep]
             /\ goal' = n /\ wanted' = f
             /\ Goes("pass", "turn")
             /\ UNCHANGED <<count, again>>
     \/ EndPass /\ UNCHANGED todo
  /\ UNCHANGED <<rows, world, at, restarts>>

DrainNext ==
  /\ poolStage["pass"] = "turn" /\ todo["pass"] # {}
  /\ DrainOf("pass", Min(todo["pass"]))
  /\ todo' = [todo EXCEPT !["pass"] = @ \ {Min(@)}]
  /\ UNCHANGED <<rows, world, passing, again, restarts>>

(* A variant that counts what it makes alone.                              *)
CountedNot == count

Counted == count + 1

(* A kept one is drained too when it is dead, or the platform does not say.*)
Probe ==
  /\ poolStage["pass"] = "turn" /\ todo["pass"] = {} /\ kept # {}
  /\ kept' = kept \ {Min(kept)}
  /\ \/ exec[Min(kept)] = "runs" /\ count' = Counted /\ UNCHANGED <<poolStage, at>>
     \/ DrainOf("pass", Min(kept)) /\ UNCHANGED count
  /\ UNCHANGED <<rows, world, goal, wanted, todo, again, restarts>>

Unmade == {e \in Standby : row[e] = "none"}

(* provisionHotWorkspace, while there are too few: the row comes first.  The*)
(* pass is over once there are enough, or when none can be made.           *)
Make ==
  /\ poolStage["pass"] = "turn" /\ todo["pass"] = {} /\ kept = {}
  /\ \/ /\ count < goal /\ Unmade # {}
        /\ row' = [row EXCEPT ![Min(Unmade)] = "warming"]
        /\ print' = [print EXCEPT ![Min(Unmade)] = wanted]
        /\ at' = [at EXCEPT !["pass"] = Min(Unmade)]
        /\ Goes("pass", "create")
        /\ UNCHANGED <<passing, again>>
     \/ EndPass /\ UNCHANGED <<row, print, at>>
  /\ UNCHANGED <<named, world, todo, restarts>>

(* No plan, a refused create, or one whose answer is lost: the row reads   *)
(* failed and names nothing, and the pass is over.                         *)
Create ==
  /\ poolStage["pass"] = "create"
  /\ LET e == at["pass"]
     IN  \/ /\ exec' = [exec EXCEPT ![e] = "runs"]
            /\ token' = token \cup {e}
            /\ Goes("pass", "stamp")
            /\ UNCHANGED <<row, at, passing, again>>
         \/ /\ \/ UNCHANGED <<exec, token>>
               \/ exec' = [exec EXCEPT ![e] = "astray"] /\ token' = token \cup {e}
            /\ Mark(e, "failed")
            /\ at' = [at EXCEPT !["pass"] = Nobody]
            /\ EndPass
  /\ UNCHANGED <<print, named, session, owned, todo, restarts>>

Stamp ==
  /\ poolStage["pass"] = "stamp"
  /\ Mark(at["pass"], "ready")
  /\ named' = named \cup {at["pass"]}
  /\ count' = count + 1
  /\ at' = [at EXCEPT !["pass"] = Nobody]
  /\ Goes("pass", "turn")
  /\ UNCHANGED <<print, world, kept, goal, wanted, todo, again, restarts>>

Pass == List \/ DrainNext \/ Probe \/ Make \/ Create \/ Stamp \/ Drain("pass")

------------------------------------------------------------------------------
(* The sweep (hotPoolSweep), at boot and every ten minutes.                *)
Sweep ==
  /\ poolStage["sweep"] = "idle"
  /\ todo' = [todo EXCEPT !["sweep"] = {e \in Standby : row[e] = "claimed"}]
  /\ Goes("sweep", "turn")
  /\ UNCHANGED <<rows, world, passing, at, again, restarts>>

(* No session, or one that is over, tells an abandoned claim.              *)
Abandoned(e) == session[e] \in {"none", "settled"}

SweepTurn ==
  /\ poolStage["sweep"] = "turn"
  /\ \/ /\ todo["sweep"] # {}
        /\ todo' = [todo EXCEPT !["sweep"] = @ \ {Min(@)}]
        /\ IF Abandoned(Min(todo["sweep"])) THEN DrainOf("sweep", Min(todo["sweep"]))
                                            ELSE UNCHANGED <<poolStage, at>>
        /\ UNCHANGED again
     \/ /\ todo["sweep"] = {}
        /\ RequestAndGo("sweep", "idle")
        /\ UNCHANGED <<todo, at>>
  /\ UNCHANGED <<rows, world, passing, restarts>>

Sweeping == Sweep \/ SweepTurn \/ Drain("sweep")

------------------------------------------------------------------------------
(* A start (provisionInWorktree, claimHotSession), and its launch.         *)

(* While the project wants standbys, the fingerprint is read and the oldest*)
(* ready standby that has it is claimed in one statement; none is a cold   *)
(* start, and a pass.                                                      *)
Claim(x) ==
  /\ x \in Starter /\ poolStage[x] = "idle"
  /\ \E f \in Prints :
       LET fit == {e \in Standby : row[e] = "ready" /\ print[e] = f}
       IN IF fit # {}
            THEN /\ row' = [row EXCEPT ![Min(fit)] = "claimed"]
                 /\ at' = [at EXCEPT ![x] = Min(fit)]
                 /\ Goes(x, "lease") /\ UNCHANGED again
            ELSE RequestAndGo(x, "over") /\ UNCHANGED <<row, at>>
  /\ UNCHANGED <<print, named, world, passing, todo, restarts>>

(* Capture 0 and the lease: refused, the standby is drained.               *)
Lease(x) ==
  /\ poolStage[x] = "lease"
  /\ RequestAndGo(x, "session") \/ (Goes(x, "stop") /\ UNCHANGED again)
  /\ UNCHANGED <<rows, world, passing, at, todo, restarts>>

CreateSession(x) ==
  /\ poolStage[x] = "session"
  /\ session' = [session EXCEPT ![at[x]] = "live"]
  /\ Goes(x, "launch")
  /\ UNCHANGED <<rows, exec, token, owned, passing, at, todo, again, restarts>>

(* The launch looks for a row still claimed; else it goes on cold.         *)
Launch(x) ==
  /\ poolStage[x] = "launch"
  /\ IF row[at[x]] = "claimed" THEN Goes(x, "adopt") /\ UNCHANGED at ELSE Over(x)
  /\ UNCHANGED <<rows, world, passing, todo, again, restarts>>

(* It may fail and settle its session, or find the standby dead or unfit:  *)
(* drained, and the launch goes on cold.                                   *)
Adopt(x) ==
  /\ poolStage[x] = "adopt"
  /\ \/ exec[at[x]] = "runs" /\ Goes(x, "accept") /\ UNCHANGED <<session, at>>
     \/ Goes(x, "stop") /\ UNCHANGED <<session, at>>
     \/ Over(x) /\ session' = [session EXCEPT ![at[x]] = "settled"]
  /\ UNCHANGED <<rows, exec, token, owned, passing, todo, again, restarts>>

(* acceptExecutor: the session's row names the executor ...                *)
Own(e) == owned' = owned \cup {e} /\ UNCHANGED <<row, print>>

Accept(x) ==
  /\ poolStage[x] = "accept"
  /\ Own(at[x])
  /\ Goes(x, "consume")
  /\ UNCHANGED <<named, exec, token, session, passing, at, todo, again, restarts>>

(* ... and then the pool's row goes.                                       *)
Consume(x) ==
  /\ poolStage[x] = "consume"
  /\ Delete(at[x])
  /\ Over(x)
  /\ UNCHANGED <<named, world, passing, todo, again, restarts>>

Starting(x) ==
  \/ Claim(x) \/ Lease(x) \/ CreateSession(x) \/ Launch(x) \/ Adopt(x)
  \/ Accept(x) \/ Consume(x) \/ (x \in Starter /\ Drain(x))

------------------------------------------------------------------------------
(* The rest of the world.                                                  *)

(* An executor ends, as it was asked to, by its time to live or by a fault.*)
End(e) ==
  /\ exec[e] \in {"runs", "stopping", "astray"}
  /\ exec' = [exec EXCEPT ![e] = "ended"]
  /\ UNCHANGED <<rows, token, session, owned, passing, poolStage, at, todo, again, restarts>>

(* A session settles (settleSession), its executor ended or kept.          *)
Settle(e) ==
  /\ e \in owned /\ session[e] = "live"
  /\ session' = [session EXCEPT ![e] = "settled"]
  /\ UNCHANGED <<rows, exec, token, owned, passing, poolStage, at, todo, again, restarts>>

(* A session's executor was observed ended: its token goes.                *)
Revoke(e) ==
  /\ e \in owned /\ exec[e] = "ended"
  /\ token' = token \ {e}
  /\ UNCHANGED <<rows, exec, session, owned, passing, poolStage, at, todo, again, restarts>>

(* Mend stops and starts again: what it was doing is forgotten, a create   *)
(* under way goes on unheard, and sessions stranded before they had an     *)
(* executor are settled.                                                   *)
Crash ==
  /\ restarts < MaxCrashes
  /\ restarts' = restarts + 1
  /\ poolStage' = [x \in Agent |-> IF x \in Starter /\ poolStage[x] # "idle" THEN "over" ELSE "idle"]
  /\ at' = [x \in Agent |-> Nobody]
  /\ todo' = [x \in {"pass", "sweep"} |-> {}]
  /\ kept' = {} /\ goal' = 0 /\ wanted' = Nobody /\ count' = 0 /\ again' = FALSE
  /\ session' = [e \in Standby |->
                   IF session[e] = "live" /\ e \notin owned THEN "settled" ELSE session[e]]
  /\ \/ /\ poolStage["pass"] = "create"
        /\ exec' = [exec EXCEPT ![at["pass"]] = "astray"]
        /\ token' = token \cup {at["pass"]}
     \/ /\ exec' = [e \in Standby |->
                      IF poolStage["pass"] = "stamp" /\ e = at["pass"] /\ exec[e] = "runs"
                        THEN "astray" ELSE exec[e]]
        /\ UNCHANGED token
  /\ UNCHANGED <<rows, owned>>

Next ==
  \/ Crash \/ Pass \/ Sweeping
  \/ \E x \in Starter : Starting(x)
  \/ \E e \in Standby : End(e) \/ Settle(e) \/ Revoke(e)

Spec == Init /\ [][Next]_vars

------------------------------------------------------------------------------
(* Properties.                                                             *)
TypeOK ==
  /\ row \in [Standby -> {"none", "warming", "ready", "claimed", "failed", "gone"}]
  /\ print \in [Standby -> Prints \cup {Nobody}]
  /\ named \subseteq {e \in Standby : row[e] \notin {"none", "warming"}}
  /\ exec \in [Standby -> {"none", "runs", "stopping", "astray", "ended"}]
  /\ token \subseteq Standby /\ owned \subseteq Standby
  /\ session \in [Standby -> {"none", "live", "settled"}]
  /\ poolStage \in [Agent -> {"idle", "list", "turn", "create", "stamp", "stop", "confirm", "forget",
                          "lease", "session", "launch", "adopt", "accept", "consume", "over"}]
  /\ at \in [Agent -> Standby \cup {Nobody}]
  /\ todo \in [{"pass", "sweep"} -> SUBSET Standby]
  /\ kept \subseteq Standby
  /\ goal \in Targets \cup {0} /\ count \in 0..Max(Targets \cup {0})
  /\ wanted \in Prints \cup {Nobody}
  /\ again \in BOOLEAN /\ restarts \in 0..MaxCrashes

(* What a pass is going to drain is not what a live session runs in        *)
(* (reconcileHotPoolOnce: "Claimed entries belong to a launch in flight"). *)
SessionsAreSpared ==
  \A e \in todo["pass"] \cap owned : session[e] # "live"
===============================================================================
