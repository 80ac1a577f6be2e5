------------------------------ MODULE ReviewState ---------------------------
(* The state of one machine pass over one change, of the sessions that work on *)
(* the change and of the review prep that watches them, and what is promised   *)
(* of it; ReviewPasses says what happens to it (packages/jobs/src/             *)
(* review-prep.ts, review-passes.ts, job-runner.ts).                           *)
EXTENDS Naturals

CONSTANTS
  Session,     \* the sessions of the change's worktree
  Prep, Retry, \* review prep's callers: the fiber that hears events, the retry's
  Asker,       \* the others: the review page, a landing that finds no tour
  Job,         \* the jobs there may ever be
  MaxDiff,     \* bound: how often the diff changes
  Text,        \* [0..MaxDiff -> texts]: what it reads each time; a text may come back
  RetryLimit,  \* retryLimit: 3 in the code
  MaxTries,    \* the length of RETRY_DELAYS: 10 in the code
  MaxMark,     \* bound: how often a live status is written
  Nothing

Caller == {Prep, Retry} \cup Asker

ASSUME PassesAssumption ==
  /\ Prep # Retry /\ Prep \notin Asker /\ Retry \notin Asker
  /\ Nothing \notin Session \cup Job \cup Caller
  /\ RetryLimit \in Nat /\ MaxTries \in Nat /\ MaxDiff \in Nat /\ MaxMark \in Nat
  /\ DOMAIN Text = 0..MaxDiff

VARIABLES
  \* what the executors and the session engine write
  diff,      \* how often the change's diff has changed
  session,   \* each session: its row's status and live mark, and its agent process
  last,      \* session_live_marks: the mark last taken
  \* what review prep keeps
  worker,    \* how far it has come up
  due,       \* sessions with a notification it has not handled
  look,      \* session rows it has read and not yet judged
  seen,      \* seen: what it last read of each session
  behind,    \* behind: the session whose prep waits for a running pass
  tries,     \* how often the retry has tried
  call,      \* each caller: where it is in queuePasses and enqueue, and what it has read
  \* what the database keeps of the pass
  lock,      \* the caller that holds the advisory lock of the pass's key
  jobs,      \* the pass's jobs
  outcome,   \* the status of its change_passes row
  recorded,  \* its change_review_preps row; history: the diff's number, and the job
  \* history
  owed       \* of a session whose settle is to be prepared, its live mark plus one; or 0

\* settledForReview
Settles(status, agent) == status = "ended" \/ (status = "idle" /\ agent = "over")
SettledForReview(s) == Settles(session[s].status, session[s].agent)

\* LIVE_JOB_STATES
LiveJobs == {j \in Job : jobs[j].state \in {"created", "retry", "active"}}

\* A job that has read the diff since its n-th change, or reads it yet, or has used up
\* its retries.
Covers(j, n) ==
  \/ jobs[j].state \in {"created", "retry", "failed"}
  \/ jobs[j].state = "active" /\ jobs[j].at \in {"begin", "read", "broken"}
  \/ jobs[j].state \in {"active", "done"} /\ jobs[j].read >= n

-----------------------------------------------------------------------------
(* What review prep records as queued is read by a pass: the job that its request
   queued, or that absorbed it, reads the diff as it was then or later, unless it
   fails until its retries are used up (review-prep.ts:48-50, job-runner.ts:52-56). *)
RecordedIsCovered == recorded.by # Nothing => Covers(recorded.by, recorded.at)

(* One job of a name and key is live at a time, whoever asks and whoever is lost
   half-way (job-runner.ts:20-29, enqueueKeyed). *)
OneLiveJob == \A i, j \in LiveJobs : i = j

(* No settle is missed: a session that was written live while review prep listened,
   and has settled, has a notification on its way, or is being judged, until it is
   prepared - though an event names a session, not its state, and is read late
   (review-prep.ts:113-130). *)
EverySettleIsPrepared ==
  \A s \in Session :
    worker = "listening" /\ owed[s] > 0 /\ SettledForReview(s) =>
      s \in due \/ look[s].status # "none"

(* A pass whose row reads queued has a job that will run it, or a caller about to
   queue one, or review prep waiting to (change-passes.ts:22-25,
   review-passes.ts:19-22). *)
QueuedPassHasJob ==
  outcome = "queued" =>
    \/ LiveJobs # {} \/ behind # Nothing
    \/ \E c \in Caller : call[c].at \in {"enqueue", "send", "answered", "failing"}
=============================================================================
