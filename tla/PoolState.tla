------------------------------ MODULE PoolState ------------------------------
(***************************************************************************)
(* The state of a project's pool of standbys, and what is promised of it;  *)
(* HotPool says what happens to it                                         *)
(* (packages/db/src/repos/hot-workspaces.ts, packages/sessions/src/        *)
(* engine.ts).                                                             *)
(***************************************************************************)
EXTENDS Integers, FiniteSets, FiniteSetsExt

CONSTANTS
  Standbys,   \* how many standbys are ever made; their ids, oldest first
  Starter,    \* starts of sessions
  Targets,    \* how many standbys the project may ask for: hotSessions
  Prints      \* fingerprints the project may resolve to

Standby == 1..Standbys
Agent == {"pass", "sweep"} \cup Starter

VARIABLES
  row,        \* a standby's row
  print,      \* the fingerprint it was made for
  named,      \* rows that name their executor
  exec,       \* executors, as the platform has them
  token,      \* standbys whose launch token is valid
  session,    \* the session under a standby's id
  owned,      \* sessions whose row names the standby's executor
  poolStage,  \* how far an agent is
  at,         \* ... and with which standby
  todo,       \* what a pass or the sweep has yet to turn to
  kept,       \* what the pass keeps, not yet probed
  goal, wanted,  \* the target and the fingerprint the pass read
  count,      \* standbys the pass found alive or made
  again,      \* a request came during the pass
  restarts    \* how often Mend stopped and started again

-----------------------------------------------------------------------------
(* An executor whose create was answered is on a row until it has ended -  *)
(* the pool's, or its session's, or the pass has yet to write it - and its *)
(* token stands as long: whatever stopped halfway, somebody can still reach*)
(* it, and what it saves last is let in.                                   *)
Remembered ==
  \A e \in Standby :
    exec[e] \in {"runs", "stopping"} =>
      /\ e \in token
      /\ \/ e \in owned
         \/ e \in named /\ row[e] \in {"ready", "claimed", "failed"}
         \/ poolStage["pass"] = "stamp" /\ at["pass"] = e

(* There are never more standbys, ready or being made, than the project    *)
(* asked for at most: claims, requests, drains that were refused and       *)
(* restarts make no extra one.                                             *)
PoolWithinTarget ==
  Cardinality({e \in Standby : row[e] = "ready" \/ (row[e] = "warming" /\ at["pass"] = e)})
    <= Max(Targets)
=============================================================================
