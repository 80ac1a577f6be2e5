---------------------------- MODULE ReviewPasses ----------------------------
(***************************************************************************)
(* How a machine pass over a change is asked for and run: review prep,     *)
(* which queues it when a session settles (packages/jobs/src/              *)
(* review-prep.ts), the one key all who ask share (review-passes.ts, the   *)
(* enqueue of job-runner.ts), its row (packages/db/src/repos/              *)
(* change-passes.ts), and the job (apps/api/src/review-pass-worker.ts and  *)
(* main.ts).                                                               *)
(*                                                                         *)
(* One change and one kind of pass: others share neither key nor row.  A   *)
(* statement of the database is one step, and so is what a fiber does      *)
(* until it waits again.  A status is live (starting, running, waiting),   *)
(* idle, stopping, or ended.  An event of a session may come at any time,  *)
(* for more than its status is written; one comes after each write of its  *)
(* status and of its agent's process.                                      *)
(*                                                                         *)
(* Whatever else keeps a settle from queueing (a change without a diff, or *)
(* one git cannot read, a removed project, a switch that is off, a session *)
(* of no owner) is one refusal.  Left out: capture summaries, sessions     *)
(* created while review prep runs, and jobs of before the asker was        *)
(* recorded.                                                               *)
(***************************************************************************)
EXTENDS ReviewState

sessions == <<diff, session, last, owed>>
watch == <<worker, due, look, seen>>
prep == <<behind, tries>>
pass == <<lock, jobs, outcome, recorded>>
vars == <<sessions, watch, prep, call, pass>>

Statuses == {"live", "idle", "stopping", "ended"}
Rows == [status : Statuses, agent : {"none", "live", "over"}, mark : Nat]
Looks == [status : Statuses \cup {"none"}, mark : Nat]
Readings == [was : {"unknown", "live", "settled"}, mark : Nat]

Places == {"idle", "reading", "sleep", "diff", "digest", "queue", "enqueue", "send", "answered",
           "failing", "settle", "follow", "look", "leave"}
Calls == [at : Places, session : Session \cup {Nothing}, diff : 0..MaxDiff,
          answer : {"none", "queued", "waiting", "running"}, job : Job \cup {Nothing}]
Idle == [at |-> "idle", session |-> Nothing, diff |-> 0, answer |-> "none", job |-> Nothing]

Jobs == [state : {"none", "created", "active", "retry", "done", "failed"},
         at : {"begin", "read", "pass", "tail", "broken"}, read : Nat, retries : Nat]
Recorded == [text : {Text[n] : n \in 0..MaxDiff}, at : Nat, by : Job \cup {Nothing}]

TypeOK ==
  /\ diff \in 0..MaxDiff /\ last \in Nat
  /\ session \in [Session -> Rows] /\ owed \in [Session -> Nat]
  /\ worker \in {"down", "begun", "listed", "listening", "deaf"}
  /\ due \in SUBSET Session /\ look \in [Session -> Looks] /\ seen \in [Session -> Readings]
  /\ behind \in Session \cup {Nothing} /\ tries \in Nat
  /\ call \in [Caller -> Calls]
  /\ lock \in Caller \cup {Nothing} /\ jobs \in [Job -> Jobs]
  /\ outcome \in {"none", "queued", "running", "completed", "failed"}
  /\ recorded \in Recorded

NotLooked == [status |-> "none", mark |-> 0]
Unread == [was |-> "unknown", mark |-> last]

Init ==
  /\ diff = 0 /\ last = 0
  /\ session = [s \in Session |-> [status |-> "live", agent |-> "none", mark |-> 0]]
  /\ owed = [s \in Session |-> 0]
  /\ worker = "down" /\ due = {}
  /\ look = [s \in Session |-> NotLooked] /\ seen = [s \in Session |-> Unread]
  /\ behind = Nothing /\ tries = 0 /\ call = [c \in Caller |-> Idle]
  /\ lock = Nothing /\ outcome = "none"
  /\ jobs = [j \in Job |-> [state |-> "none", at |-> "begin", read |-> 0, retries |-> 0]]
  /\ recorded = [text |-> Text[0], at |-> 0, by |-> Nothing]

-----------------------------------------------------------------------------
(* The sessions. *)

Edit ==
  /\ diff < MaxDiff
  /\ diff' = diff + 1
  /\ UNCHANGED <<session, last, owed, watch, prep, call, pass>>

\* Review prep hears of a session while it listens.
Notify(s) == due' = IF worker = "listening" THEN due \cup {s} ELSE due

\* setStatus and reopen: a write of a live status takes the next mark.
GoLive(s) ==
  /\ last < MaxMark
  /\ last' = last + 1
  /\ session' = [session EXCEPT ![s].status = "live", ![s].mark = last + 1]
  /\ owed' = IF worker = "listening" THEN [owed EXCEPT ![s] = last + 2] ELSE owed
  /\ Notify(s)
  /\ UNCHANGED <<diff, worker, look, seen, prep, call, pass>>

\* setStatus, reopen and settle, to a status that is not live.
LeaveLive(s, status) ==
  /\ status \in Statuses \ {"live", session[s].status}
  /\ status = "ended" => session[s].agent # "live"
  /\ session' = [session EXCEPT ![s].status = status]
  /\ Notify(s)
  /\ UNCHANGED <<diff, last, owed, worker, look, seen, prep, call, pass>>

\* An agent's process row is written, before or after the fold of the session's status.
MoveAgent(s) ==
  /\ session' = [session EXCEPT ![s].agent = IF @ = "live" THEN "over" ELSE "live"]
  /\ Notify(s)
  /\ UNCHANGED <<diff, last, owed, worker, look, seen, prep, call, pass>>

-----------------------------------------------------------------------------
(* Review prep comes up: the mark (since), then the baseline, then LISTEN. *)

Begin ==
  /\ worker = "down"
  /\ worker' = "begun" /\ seen' = [s \in Session |-> Unread]
  /\ UNCHANGED <<sessions, due, look, prep, call, pass>>

RowOf(s) == [status |-> session[s].status, mark |-> session[s].mark]

\* listActive
List ==
  /\ worker = "begun"
  /\ worker' = "listed"
  /\ look' = [s \in Session |-> IF session[s].status \in {"live", "idle"} THEN RowOf(s) ELSE NotLooked]
  /\ UNCHANGED <<sessions, due, seen, prep, call, pass>>

ReviewReading(s) ==
  IF look[s].status = "stopping" THEN "stopping"
  ELSE IF Settles(look[s].status, session[s].agent) THEN "settled" ELSE "live"

SettledAfter(was, reading) ==
  IF reading = "stopping" THEN IF was = "settled" THEN "settled" ELSE "live" ELSE reading

\* A session's processes are read, after its row.
Judge(s, was) ==
  /\ look[s].status # "none"
  /\ look' = [look EXCEPT ![s] = NotLooked]
  /\ seen' = [seen EXCEPT ![s] =
                [was |-> SettledAfter(was, ReviewReading(s)), mark |-> look[s].mark]]

Baseline(s) ==
  /\ worker = "listed"
  /\ Judge(s, "unknown")
  /\ UNCHANGED <<sessions, worker, due, prep, call, pass>>

Listen ==
  /\ worker = "listed" /\ \A s \in Session : look[s].status = "none"
  /\ worker' = "listening"
  /\ owed' = [s \in Session |-> IF session[s].status = "live" THEN session[s].mark + 1 ELSE 0]
  /\ UNCHANGED <<diff, session, last, due, look, seen, prep, call, pass>>

\* The connection of the LISTEN drops: the stream ends, and nothing opens it again.
Drop ==
  /\ worker = "listening" /\ call[Prep].at = "idle"
  /\ worker' = "deaf" /\ due' = {}
  /\ UNCHANGED <<sessions, look, seen, prep, call, pass>>

-----------------------------------------------------------------------------
(* Review prep handles an event of a session (observe). *)

Goes(c, at) == call' = [call EXCEPT ![c].at = at]

\* It needs no more of what it has read.
Drops(c, at) == call' = [call EXCEPT ![c] = [Idle EXCEPT !.at = at]]

ReadRow(s) ==
  /\ worker = "listening" /\ call[Prep].at = "idle"
  /\ due' = due \ {s}
  /\ look' = [look EXCEPT ![s] = RowOf(s)]
  /\ Goes(Prep, "reading")
  /\ UNCHANGED <<sessions, worker, seen, prep, pass>>

\* A variant that does not look at the live mark.
SettledBeforeUnmarked(s) == seen[s].was
SettledBefore(s) == IF look[s].mark > seen[s].mark THEN "live" ELSE seen[s].was

Prepares(s) ==
  /\ SettledBefore(s) = "live"
  /\ SettledAfter(SettledBefore(s), ReviewReading(s)) = "settled"

Observe(s) ==
  /\ call[Prep].at = "reading"
  /\ Judge(s, SettledBefore(s))
  /\ IF Prepares(s)
     THEN /\ call' = [call EXCEPT ![Prep] = [Idle EXCEPT !.at = "diff", !.session = s]]
          /\ owed' = IF owed[s] <= look[s].mark + 1 THEN [owed EXCEPT ![s] = 0] ELSE owed
     ELSE Drops(Prep, "idle") /\ owed' = owed
  /\ UNCHANGED <<diff, session, last, worker, due, prep, pass>>

-----------------------------------------------------------------------------
(* A prep, by the fiber that heard the settle or by the retry (queuePasses). *)

Preps(c) == c \in {Prep, Retry}

\* Where a fiber goes on when queuePasses is over.
After(c) == IF c = Prep THEN "idle" ELSE "look"

ReadDiff(c) ==
  /\ Preps(c) /\ call[c].at = "diff"
  /\ call' = [call EXCEPT ![c].at = "digest", ![c].diff = diff]
  /\ UNCHANGED <<sessions, watch, prep, pass>>

PrepareNothing(c) ==
  /\ Preps(c) /\ call[c].at = "diff"
  /\ behind' = Nothing
  /\ Drops(c, After(c))
  /\ UNCHANGED <<sessions, watch, tries, pass>>

ReadDigest(c) ==
  /\ Preps(c) /\ call[c].at = "digest"
  /\ IF recorded.by # Nothing /\ recorded.text = Text[call[c].diff]
     THEN Drops(c, "settle") ELSE Goes(c, "queue")
  /\ UNCHANGED <<sessions, watch, prep, pass>>

\* queueReviewPass, by anyone: the row reads queued, unless it is queued or running.
QueueRow(c) ==
  /\ call[c].at = IF Preps(c) THEN "queue" ELSE "idle"
  /\ outcome' = IF outcome \in {"none", "completed", "failed"} THEN "queued" ELSE outcome
  /\ Goes(c, "enqueue")
  /\ UNCHANGED <<sessions, watch, prep, lock, jobs, recorded>>

\* enqueueKeyed: under the key's lock, which jobs are live.
Answers(c, answer, j) ==
  call' = [call EXCEPT ![c].at = "send", ![c].answer = answer, ![c].job = j]

FindsJobs(c) ==
  \/ LiveJobs = {} /\ Answers(c, "queued", Nothing)
  \/ \E j \in LiveJobs : jobs[j].state # "active" /\ Answers(c, "waiting", j)
  \/ /\ \A j \in LiveJobs : jobs[j].state = "active"
     /\ \E j \in LiveJobs : Answers(c, "running", j)

\* A variant without the lock.
FindUnlocked(c) ==
  /\ call[c].at = "enqueue" /\ FindsJobs(c)
  /\ lock' = c
  /\ UNCHANGED <<sessions, watch, prep, jobs, outcome, recorded>>

Find(c) ==
  /\ call[c].at = "enqueue" /\ lock = Nothing /\ FindsJobs(c)
  /\ lock' = c
  /\ UNCHANGED <<sessions, watch, prep, jobs, outcome, recorded>>

Insert(j) ==
  /\ jobs[j].state = "none"
  /\ jobs' = [jobs EXCEPT ![j].state = "created"]

\* The job is sent, if none was live, and the transaction commits.
Send(c) ==
  /\ call[c].at = "send"
  /\ \/ call[c].answer # "queued" /\ Goes(c, "answered") /\ jobs' = jobs
     \/ /\ call[c].answer = "queued"
        /\ \E j \in Job : Insert(j) /\ call' = [call EXCEPT ![c].at = "answered", ![c].job = j]
  /\ lock' = Nothing
  /\ UNCHANGED <<sessions, watch, prep, outcome, recorded>>

\* It waits too long for the lock, is rolled back, or its commit is not answered.
EnqueueFails(c) ==
  /\ call[c].at \in {"enqueue", "send"}
  /\ \/ jobs' = jobs
     \/ call[c].at = "send" /\ call[c].answer = "queued" /\ \E j \in Job : Insert(j)
  /\ lock' = IF call[c].at = "send" THEN Nothing ELSE lock
  /\ Drops(c, "failing")
  /\ UNCHANGED <<sessions, watch, prep, outcome, recorded>>

FailRow(c) ==
  /\ call[c].at = "failing"
  /\ outcome' = "failed"
  /\ Drops(c, IF Preps(c) THEN "settle" ELSE "idle")
  /\ UNCHANGED <<sessions, watch, prep, lock, jobs, recorded>>

\* Others do nothing with what became of their request.
Asked(c) ==
  /\ ~Preps(c) /\ call[c].at = "answered"
  /\ Drops(c, "idle")
  /\ UNCHANGED <<sessions, watch, prep, pass>>

WaitBehind(c) ==
  /\ Preps(c) /\ call[c].at = "answered" /\ call[c].answer = "running"
  /\ behind' = call[c].session
  /\ Drops(c, "follow")
  /\ UNCHANGED <<sessions, watch, tries, pass>>

Record(c) ==
  /\ recorded' = [text |-> Text[call[c].diff], at |-> call[c].diff, by |-> call[c].job]
  /\ Drops(c, "settle")
  /\ UNCHANGED <<sessions, watch, prep, lock, jobs, outcome>>

\* A variant that takes a running pass for one that reads the diff yet.
RecordAnyPrep(c) == Preps(c) /\ call[c].at = "answered" /\ Record(c)
RecordPrep(c) ==
  Preps(c) /\ call[c].at = "answered" /\ call[c].answer # "running" /\ Record(c)

SettleBehind(c) ==
  /\ Preps(c) /\ call[c].at = "settle"
  /\ behind' = Nothing
  /\ Drops(c, "follow")
  /\ UNCHANGED <<sessions, watch, tries, pass>>

\* The retry starts, where none runs.
StartRetry(called) ==
  IF call[Retry].at = "idle"
  THEN call' = [called EXCEPT ![Retry] = [Idle EXCEPT !.at = "sleep"]] /\ tries' = 0
  ELSE call' = called /\ tries' = tries

Follow(c) ==
  /\ Preps(c) /\ call[c].at = "follow"
  /\ LET called == [call EXCEPT ![c] = [Idle EXCEPT !.at = After(c)]] IN
     IF behind # Nothing /\ outcome # "running" THEN StartRetry(called)
     ELSE call' = called /\ tries' = tries
  /\ UNCHANGED <<sessions, watch, behind, pass>>

\* An event of the change: the pass that a prep waits behind has ended.
HearRow ==
  /\ worker = "listening" /\ call[Prep].at = "idle"
  /\ behind # Nothing /\ outcome \in {"completed", "failed"}
  /\ StartRetry(call)
  /\ UNCHANGED <<sessions, watch, behind, pass>>

-----------------------------------------------------------------------------
(* The retry, after each delay. *)

Wake ==
  /\ call[Retry].at = "sleep"
  /\ IF behind # Nothing /\ seen[behind].was = "settled"
     THEN /\ call' = [call EXCEPT ![Retry] = [Idle EXCEPT !.at = "diff", !.session = behind]]
          /\ tries' = tries + 1 /\ behind' = behind
     ELSE Drops(Retry, "idle") /\ behind' = Nothing /\ tries' = tries
  /\ UNCHANGED <<sessions, watch, pass>>

\* The row is read again (allRunning); the fiber ends a moment later.
LookAgain ==
  /\ call[Retry].at = "look"
  /\ Goes(Retry, IF behind # Nothing /\ outcome # "running" /\ tries < MaxTries
                 THEN "sleep" ELSE "leave")
  /\ UNCHANGED <<sessions, watch, prep, pass>>

Leave ==
  /\ call[Retry].at = "leave"
  /\ Drops(Retry, "idle")
  /\ UNCHANGED <<sessions, watch, prep, pass>>

-----------------------------------------------------------------------------
(* The job of the pass: runReviewPass, and what the engine makes of a job. *)

Start(j) ==
  /\ jobs[j].state \in {"created", "retry"}
  /\ jobs' = [jobs EXCEPT ![j].state = "active", ![j].at = "begin", ![j].read = 0]
  /\ UNCHANGED <<sessions, watch, prep, call, lock, outcome, recorded>>

BeginPass(j) ==
  /\ jobs[j].state = "active" /\ jobs[j].at = "begin"
  /\ outcome' = "running"
  /\ jobs' = [jobs EXCEPT ![j].at = "read"]
  /\ UNCHANGED <<sessions, watch, prep, call, lock, recorded>>

ReadChange(j) ==
  /\ jobs[j].state = "active" /\ jobs[j].at = "read"
  /\ jobs' = [jobs EXCEPT ![j].at = "pass", ![j].read = diff]
  /\ UNCHANGED <<sessions, watch, prep, call, lock, outcome, recorded>>

\* The row is written before the job leaves active; a tour still reaches its pull request.
Complete(j) ==
  /\ jobs[j].state = "active" /\ jobs[j].at = "pass"
  /\ outcome' = "completed"
  /\ jobs' = [jobs EXCEPT ![j].at = "tail"]
  /\ UNCHANGED <<sessions, watch, prep, call, lock, recorded>>

\* The pass fails and says so; or it, or its process, ends without a word.
Fail(j) ==
  /\ jobs[j].state = "active" /\ jobs[j].at \in {"read", "pass"}
  /\ outcome' = "failed"
  /\ jobs' = [jobs EXCEPT ![j].at = "broken"]
  /\ UNCHANGED <<sessions, watch, prep, call, lock, recorded>>

Break(j) ==
  /\ jobs[j].state = "active" /\ jobs[j].at # "broken"
  /\ jobs' = [jobs EXCEPT ![j].at = "broken"]
  /\ UNCHANGED <<sessions, watch, prep, call, lock, outcome, recorded>>

\* The engine hears of the end, or no more of the job, and marks it.
Finish(j) ==
  /\ jobs[j].state = "active" /\ jobs[j].at \in {"tail", "broken"}
  /\ jobs' = [jobs EXCEPT
       ![j].state = IF jobs[j].at = "tail" THEN "done"
                    ELSE IF jobs[j].retries < RetryLimit THEN "retry" ELSE "failed",
       ![j].retries = IF jobs[j].at = "broken" THEN @ + 1 ELSE @]
  /\ UNCHANGED <<sessions, watch, prep, call, lock, outcome, recorded>>

\* The process of the API ends, its connections and the jobs it ran with it.
Restart ==
  /\ worker' = "down" /\ due' = {} /\ look' = [s \in Session |-> NotLooked] /\ seen' = seen
  /\ owed' = [s \in Session |-> 0]
  /\ behind' = Nothing /\ tries' = 0 /\ call' = [c \in Caller |-> Idle]
  /\ lock' = Nothing
  /\ jobs' = [j \in Job |-> IF jobs[j].state = "active" THEN [jobs[j] EXCEPT !.at = "broken"]
                            ELSE jobs[j]]
  /\ UNCHANGED <<diff, session, last, outcome, recorded>>

-----------------------------------------------------------------------------
Work ==
  \/ Edit
  \/ \E s \in Session : \/ GoLive(s) \/ MoveAgent(s)
                        \/ \E status \in Statuses : LeaveLive(s, status)

Watch ==
  \/ Begin \/ List \/ Listen \/ Drop \/ HearRow
  \/ \E s \in Session : Baseline(s) \/ ReadRow(s) \/ Observe(s)

Queue(c) ==
  \/ ReadDiff(c) \/ PrepareNothing(c) \/ ReadDigest(c) \/ QueueRow(c) \/ Find(c) \/ Send(c)
  \/ EnqueueFails(c) \/ FailRow(c) \/ Asked(c) \/ WaitBehind(c) \/ RecordPrep(c)
  \/ SettleBehind(c) \/ Follow(c)

Run(j) ==
  Start(j) \/ BeginPass(j) \/ ReadChange(j) \/ Complete(j) \/ Fail(j) \/ Break(j) \/ Finish(j)

Next ==
  \/ Work \/ Watch \/ Wake \/ LookAgain \/ Leave \/ Restart
  \/ \E c \in Caller : Queue(c)
  \/ \E j \in Job : Run(j)

Spec == Init /\ [][Next]_vars
=============================================================================
