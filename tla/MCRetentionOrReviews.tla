------------------------- MODULE MCRetentionOrReviews -------------------------
(* Two of the jobs in the background, one of which acts: capture retention (the  *)
(* instances of MCCaptureRetention), or review prep and the passes it queues.    *)
(* Of the passes, one of three parts: how settles are heard of; how review prep  *)
(* queues a pass while the change moves, and how its one job fails and is        *)
(* retried; or how several ask at once (an asker, two jobs, one diff).           *)
EXTENDS MCCaptureRetention, ReviewState

CONSTANT j1

VARIABLE part

Reviews == INSTANCE ReviewPasses

\* The change goes back to the text it had.
MCText == [n \in 0..MaxDiff |-> n % 2]

sessions == <<diff, session, last, owed>>
passes == <<lock, jobs, outcome, recorded>>
reviews == <<sessions, worker, due, look, seen, behind, tries, call, passes>>

PartInit ==
  /\ Reviews!Init
  /\ \/ part = "retention" /\ (Init \/ Fresh!Init)
     \/ part \in {"settles", "passes", "asks"} /\ Init

\* Nothing is prepared, and review prep comes up once.
Settling ==
  /\ UNCHANGED <<passes, diff, behind, tries>>
  /\ call'[Prep].at \in {"idle", "reading", "diff"}
  /\ \A c \in Caller \ {Prep} : UNCHANGED call[c]
  /\ worker' # "down"

\* The session, which has no agent, is written live once more, and ends.
OneSettles ==
  /\ last' <= 1
  /\ \A s \in Session : session'[s].agent = "none" /\ session'[s].status \in {"live", "ended"}

\* Others ask only before review prep comes up, of the first diff.
Running ==
  /\ OneSettles
  /\ \A j \in Job \ {j1} : jobs'[j].state = "none"
  /\ \A c \in Asker : call'[c].at # "idle" => worker' = "down" /\ diff' = 0

\* The change and its jobs are whole, and the process ends only before the first settle.
Asking ==
  /\ OneSettles /\ UNCHANGED diff
  /\ \A j \in Job : jobs'[j].at # "broken"
  /\ worker' = "down" => last = 0

PartNext ==
  /\ UNCHANGED part
  /\ \/ part = "retention" /\ Next /\ UNCHANGED reviews
     \/ /\ part # "retention" /\ Reviews!Next /\ UNCHANGED vars
        /\ part = "settles" => Settling
        /\ part = "passes" => Running
        /\ part = "asks" => Asking

PartSpec == PartInit /\ [][PartNext]_<<part, vars, reviews>>
===============================================================================
