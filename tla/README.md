# Mend: the verification project

Mend runs coding agents (Claude Code, Codex, a shell) in workspaces of the Sealant platform, keeps
what each agent did to its worktree in a *capture store* of its own, and lets several people watch,
steer, review and land that work.  The parts of it that are hard to get right are the ones where a
Mend server, an executor it cannot see, a platform that answers late, and a person at a keyboard
all act on the same rows.  This directory models those parts in TLA+, checks small instances of
them with TLC, and proves what matters most about them, for every instance, with TLAPS.

## Inventory

| Component | State it keeps | Operations | Interacts with | Hard behaviours | What makes it correct |
|---|---|---|---|---|---|
| Capture lease and chain (`packages/db/src/repos/capture-store.ts`) | `worktree_leases`, `worktree_chain`, `captures`, `capture_seals` | claim, heartbeat, register, release, recordSeal, deleteCaptures | the capture channel, the engine, capture-0 creators, retention | fencing of executors that outlive their lease; retries after a lost answer; statements that wait on row locks | one line of captures; nothing lands under another's epoch; acknowledged is landed; a lease passes on only when released |
| Capture channel (`packages/sessions/src/capture-channel.ts`) | none of its own but in-process single flights and seal jobs | plan.get, upload.urls, upload.complete, register, heartbeat | sealantd in the executor, the store, the object store | reads before the claim; checks that run on after the answer | plan, upload and seal decisions hold when they are used |
| Capture retention (`packages/jobs/src/capture-retention.ts`) | `capture_tombstones`, `capture_deletion_claims`, `capture_packs` | thinning, condemn, renew claim, delete, finish | registers that name the same objects | deletion in several steps against registers in flight; a stalled sweep | no registered capture names a deleted object |
| Final seals and upload URLs (`packages/sessions/src/capture-seals.ts`, `capture-channel.ts`) | `capture_seals`, put-authority times | seal standing, re-verification | upload URLs already signed | a signed URL outlives the row that allowed it | a standing seal's objects cannot be replaced |
| Unsaved-work evidence (`packages/domain/src/workbench/capture-drain.ts`) | the drain record of a session row | ordering of answers, drain steps, judging an executor's end | heartbeats and status answers out of order | incomparable answers, daemon restarts | work is never reported saved when an answer said it was not |
| Session engine (`packages/sessions/src/engine.ts`) | session rows, live handles | launch, attach, stop, resume, settle, release leases | everything above, the Sealant SDK | processes that end while being launched, stopped, or replaced | one executor per session; no lost stop |
| Launch gate (`packages/sessions/src/launch-gate.ts`) | who holds a session's gate, and who waits, in memory | runOr, runWhenFree, runBetween, runBetweenOr, awaitCurrent, cancelWaiting | the engine's launches, recoveries and Stops | a Stop inside a launch; waiters of a stopped launch; everyone waiting on everyone | one verb at a time; a Stop reaches the launch it met and no other; everything asked ends |
| Launch admission (`launch-admission.ts`) | - | decides on rows | engine | - | its table of cases |
| Hot pool (`hot-pool.ts`, `hot-workspaces.ts`) | `hot_workspaces`, launch tokens, whether a pass runs | reconcile, drain, sweep, claim, adopt, consume | engine, platform | a pass that works from rows read minutes ago; executors made or ended while an answer is lost; restarts | an executor somebody was told of stays reachable until it ended; never more than asked for |
| End ownership (`end-ownership.ts`) | who owns the end of a process, and the workspace holds of continuations | observe, continueFrom, grant, stopContinuations, released | the engine's watchers, mode switches, hand-overs, Stops | a Stop racing a continuation, observers waiting for either | one end is recorded, and always; each hold is left once |
| Pickup tickets (`pickup-tickets.ts`) | tickets and tombstones, identity answers made and kept | mint, take, restore, discard, expire | execs, their channels, the token store | retries that arrive before the first answer; a store that fails after the ticket was taken | one answer per ticket, to one channel; nothing after its exec ended |
| Write tokens (`write-tokens.ts`) | writes under way, tokens to revoke | track, beginMint, minted, mintFailed, end, sweep | pickup tickets, the token store | a token minted after its write ended; a revocation that fails | a token ends with its write |
| Single flight (`single-flight.ts`) | flights in memory | run, join | seals, channel routes | a reader that joins a flight begun too early | readers joined agree |
| Follow-ups and steering (`follow-up-delivery.ts`, `follow-ups.ts`, `steering.ts`, `protocol-steer.ts`) | follow-ups' rows, claims and leases, comments marked sent; the queue of turns | deliver a bundle, claim, renew, finish, recover; queue, withdraw | engine launches, agent conversations, people | a launch outside the lock; answers that come late or not at all; restarts between a launch and its record | one delivery at a time; words given once; delivered is given |
| Removal fences (`removal-fences.ts`, migrations 0166 and 0167, `apps/api/src/removal.ts`) | marks on projects and worktrees, `session_admissions` | take, renew, commit, hand over, release, keep, restore, purge; admit, renewAdmission; triggers | every start of work, people | marks and admissions that lapse while their holders go on; a deletion that stopped halfway | nothing runs where a deletion passed its checks; one deletion at a time; what was begun is finished |
| History rollback (`history-fence.ts`, `session-history-rollback.ts`) | a fence and a journal of a rollback | fence, roll back, resume | claims, registers, launches | a crash inside a rollback | history and files agree |
| Jobs (`packages/jobs/src/job-runner.ts`, `review-prep.ts`, `review-passes.ts`, `change-passes.ts`) | pg-boss's jobs, a pass's row, what review prep last prepared and saw | enqueue under a key, absorb; hear a settle, prepare, wait behind a running pass, retry; run a pass | pg-boss, session rows and their events, the review page, landings | requests absorbed by a job that has read past them; events that name a session and not its state; a row and a job in two writes | one live job of a key; no settle is missed; what is recorded as prepared is read; a queued row has a job |
| Landing (`packages/landing/src`) | `change_landings` | push, open, update a pull request | GitHub | partial failure between remote steps | what is recorded is what was pushed |
| Slack (`packages/slack`, `slack-reporter.ts`) | event claims, threads, deliveries | receive, answer, report | Slack | redelivered events | each event answered once |
| Previews (`apps/api/src/preview-gateway.ts`, `preview-preparation.ts`) | previews, preparations | open, prepare, relay | engine, services | many requests for one stopped preview | prepared once |
| Tenancy, auth, API (`packages/auth`, `apps/api`) | organizations, members, tokens | request handlers | all repos | - | authorisation decisions |
| Clients (`apps/cli`, `apps/web`, `apps/desktop`, `apps/mobile`, `apps/vscode`, `apps/t3-gateway`) | view state | rendering, terminals | API | reconnects | - |
| Store of projects (`packages/store`, `packages/local-git`) | bare repositories, worktrees | git commands | git | locks held by a git that died | - |
| The rest (`packages/inference`, `packages/network`, `packages/ui`, `packages/workspace-ssh`, `deploy`, `scripts`) | - | I/O, packaging | - | - | - |

`PROJECT.json` lists every component with its files, and under `hazards` what in this code is hard
to test, each at its line, with the properties that watch it.

## What is modelled, checked and proved

| Module | Component | Runs | Proved in |
|---|---|---|---|
| `CaptureChain`, implements `FencedLog` | a worktree's lease, chain and record of seals, and all who move them | `capture_claims` | `CaptureChainProofs` |
| `CaptureRetention` | retention passes against registers | `retention_or_reviews`, `retention_revived` | `JobsProofs` |
| `ReviewState`, `ReviewPasses` | settles heard by review prep, and the machine passes it and others queue | `retention_or_reviews`, `review_queued` | `JobsProofs` |
| `SealState`, `CaptureSeal` | upload URLs against final seals | `seals_pool_or_sends`, `seal_rebound` | `HandedOutProofs` |
| `EvidenceState`, `CaptureEvidence` | what Mend knows of an executor's unsaved work | `removals_or_answers`, `evidence_received`, `evidence_lost`; by hand `EvidenceCommitted.cfg` | `CaptureEvidenceProofs` |
| `GateState`, `LaunchGate` | launches, recoveries, work between launches and Stops of a session | `gate_or_ends` | `GateAndEndsProofs` |
| `EndOwnership` | who records an agent's end: observers, continuations, Stops | `gate_or_ends` | `GateAndEndsProofs` |
| `RemovalFences` | removals and purges of worktrees and projects against starts of work | `removals_or_answers`, `removal_starts` | `RemovalFencesProofs` |
| `PoolState`, `HotPool` | standbys: passes, drains, claims, restarts | `seals_pool_or_sends`, `pool_spares` | `HotPoolProofs` |
| `FollowUps` | deliveries of review follow-ups: claims, leases, launches, restarts | `seals_pool_or_sends` | `FollowUpsProofs` |
| `PickupState`, `PickupTickets` | tickets an exec redeems, and the tokens of one-off writes | `removals_or_answers` | `HandedOutProofs` |

Each `MC` module gives its component's constants for TLC.  The modules meet at named facts and not
in one product, which TLC could not explore: `CaptureChain` says what lands and under whose epoch,
and `CaptureRetention` and `CaptureSeal` take a landing as one step; `CaptureEvidence` takes the
seal of a final flush as recorded in one step, which `CaptureChain` takes apart and `CaptureSeal`
judges; `HotPool` takes what an adopted standby's lease does as one step of `CaptureChain`.

Four modules put systems that share nothing under one run, in which one of them acts and the
others stay at an initial state: `MCGateOrEnds` (`LaunchGate`, `EndOwnership`), `MCSealsPoolSends`
(`FollowUps`, `HotPool`, and two instances of `CaptureSeal`), `MCRetentionOrReviews`
(`CaptureRetention`, `ReviewPasses`) and `MCRemovalsOrAnswers` (`RemovalFences`, `CaptureEvidence`,
`PickupTickets`).  The behaviours are those of the systems alone, and a property named there is the
component's own.  One run is one state space per system, side by side; it finds what separate runs
would.

In all of them a step is what the code does between two answers of somebody else: one SQL statement
or transaction, one call to the bucket, or the synchronous run of the event loop between two awaits.
What a caller has read is a variable of its own, used in a later step and possibly stale.  A server
that stops is a caller that takes no further step, or a restart action where memory is lost.

An operator named for a variant of a definition (`CanLandAnyHead`, `ReHeadNever`, `ApartFresh`, ...)
is the same definition with a plausible bug; the component never uses it.  For each property there
is one that breaks it, so that no property holds whatever the code does.

### CaptureChain

State: `lease` (`worktree_leases`), `chain` (`worktree_chain`), `landed` (every `captures` row ever
inserted), `kept` of them, `seal` (`capture_seals`), the requests in flight, and what each party
knows.  `Claim`, `Renew`, `Release`, `CanLand`, `Sealed`, `Thin` are the statements of
`capture-store.ts`; `LaunchClaim`, `PlanHeld`/`PlanRead`/`PlanClaim`/`PlanRefused`, `Heartbeat`,
`Admit`/`Land`/`LostAck`/`Conflict`/`RecordSeal` are what the channel and the engine do with them;
`Creator*` is capture 0; `Judge`/`EngineRelease` is the engine's release of an executor it found
ended.  Requests stay in flight, so a register is delivered late, twice, or never; `Lapse` may
happen at any time, as a lease not renewed in time does.

- `ChainIsLinear`: each capture landed on the one before it, numbered without gaps, in epochs that
  never fall, and the chain's head is the last.
- `LandedByGrantee`: nothing lands under an epoch claimed for another launch or session.
- `AckedIsLanded`: a register answered as on the chain is on it, under its own number and epoch.
- `HandedOverOnlyReleased`: a launch's lease passes to another launch or session only after a
  release of that epoch - never by the clock, which hands on only the leases Mend itself took to
  register capture 0.  `ReleasedHadEnded`: a released epoch's launch had ended.
- `SealsNameTheirCapture`, `SealsMoveForward`: a seal names a final capture of its own launch that
  landed in its epoch, is replaced only by a later one, and only while its epoch is the live lease's.
- `IsFencedLog`: with `log <- landed` and `fence <- lease.epoch`, the store implements `FencedLog`:
  a claim advances the fence, a landing appends one value of the current fence, and every other step
  is a stutter.

`capture_claims`: two launches of one session, two captures and two claims; or, once a creator of
capture 0 claimed, two creators and one launch over three claims.  Two launches are enough for every pair (older, newer); two
captures for a fork and for a retry overtaken by a successor.  The store never compares more than
two epochs or two captures in one statement.  Theorems cover any number.

### CaptureRetention

State: `bucket`, `packs`, `rows` (captures and what each names), `chain` with its guard, tombstones,
deletion claims, and where each register and pass is.  A pass (`Begin` ... `Finish`) is the code's
sequence, one statement per step; a register reads the chains its names belong to (`Look`), checks
objects (`Check`) and lands (`Land`) if no guard moved and nothing it names is condemned, or tries
again (`Miss`).

- `NamedIsThere`: what a capture names is in the bucket, and a chain's head among the captures.
- `CondemnedIsUnnamed`: nothing named is condemned.

`retention_or_reviews`, its half about retention: two chains whose captures may name each other's objects and one pass at a time;
or one worktree, two passes that overlap, two epochs and a handed-off delta pack.  Of the two chains
one grows by two captures and the other by one.  One register at a time
is in flight in these runs (the passes' interleavings are the state space); `CondemnedUnnamed` is
proved for any number, and so is `NamedThere`, of all but one step.  `retention_revived` is a violation: see Findings.

### ReviewPasses

One change and one kind of machine pass over it (the tour, say): others share neither key nor row.
State: `diff`, how often the change has changed; each `session`'s status, live mark and agent; of
review prep the `worker`, the sessions `due` (an event not yet handled), the row it is looking at and
what it has `seen`, `behind` (the prep that waits for a running pass) and its retry; each caller's
place in `queuePasses` and `enqueue`; the key's `lock`, the `jobs`, the pass's row (`outcome`) and the
`recorded` digest.  `Begin`, `List`, `Baseline`, `Listen` bring review prep up; `ReadRow` and `Observe`
handle an event, the processes being read after the row; `ReadDiff`, `ReadDigest`, `QueueRow`, `Find`,
`Send`, `RecordPrep`, `WaitBehind`, `Follow` are a prep, by the fiber that heard the settle or by the
retry (`Wake`, `LookAgain`, `Leave`); `Start`, `BeginPass`, `ReadChange`, `Complete`, `Fail`, `Break`,
`Finish` are the job and what pg-boss makes of it.  A caller may be lost anywhere: `EnqueueFails` with
or without its commit, `Restart` with all that is in memory.

- `EverySettleIsPrepared`: a session that was written live while review prep listened, and has
  settled, is prepared, being judged, or has an event on its way.  The live mark is what makes it so:
  a turn that began and ended between two readings is settled before and settled after.
- `RecordedIsCovered`: the diff recorded as prepared is read, as it then was or later, by the job that
  the record counts on, unless that job fails until its retries are used up.
- `OneLiveJob`: one job of the key is live at a time.
- `QueuedPassHasJob`: a row that reads queued has a job, or somebody about to queue one; it fails,
  see finding 7.

`owed` and the number and job in `recorded` are history variables.  `retention_or_reviews` takes three
parts of it: the events of a session that settles and is resumed (`Settling`); the preps of one
session over a change that moves and comes back to the text it had, and the failures of the one job
(`Running`); an asker beside review prep, with two jobs (`Asking`).  `MaxTries` and `RetryLimit` are 1
there: a second retry repeats the first.  The theorems are of the whole, for every value.

### CaptureSeal

State: what is stored at each key, the URLs out and until when they work, `authority` (the put
authority of an epoch), bindings of pack indexes, the record of seals with void and re-verified
marks, and where each upload call and each reader of a seal is, over a clock `now`.

- `NamedAreFixed`: while a live seal was told standing, the objects it lists whose names say their
  bytes hold them, and no URL that still works can make them anything else.
- `IndexesAreFixed`: so are its pack indexes, whose names do not say their bytes and which a binding
  alone keeps.  It is false in general (`seal_rebound`); it holds where calls sign
  in time (`IndexesStand`), and where one call is in flight.
- `UrlsAreOnRecord`: a URL that could replace an object is on record for as long as the bucket
  honours it: in its epoch's write authority, or as the live binding of its index.

`seals_pool_or_sends` has two instances, under two epochs: `Indexed`, a pack index, which two
different contents may both serve, with bound and unbound URLs; and `Carried`, an object carried into
the next epoch's seal.  `Ttl`, `Margin`, `MaxTime` are a
few ticks: the code compares times only by sums of these, and the instances hold each order of the
instants that matter (a URL's death, the margin's, the binding's).  `Lag` joins the lag of the
bucket's clock and the time an upload begun in time may take to arrive.  The bucket replaces an
object even under If-None-Match (as Garage does); a call carries one key; verifying an object and
its HEAD are one step.  `ConstantsAssumption` asks that twice the lag be within the margin: a call may
sign when half of the margin is gone (`SignedLate`), and what is left has to cover the bucket's clock.

### CaptureEvidence

State: the answers an executor made, in order, with boot and kind; for each ask its fence, answer
and publication; what the session row keeps (`saved`, `kept` unsaved answers, the latest answer);
the seal; and the reading of an end in progress (`judge`).  A decision is `ReadRow`, `ReadAnswers`,
`ReadSettled` and `Read`; an end that reads saved is then checked again under the executor's permit
(`Confirm`, which is `confirmedExecutorEnd`), and read again there if the evidence moved.  `Commit` is
a later step: `recordAgentEnd` writes the end after the permit is let go (`engine.ts:12048-12062`), and
an answer may be published in between.  `Attest` is one step, since a stop's attestation is read and
sent under the permit.

- `KeptStandsForHeard`: each unsaved answer published is kept, or stands behind one kept that is at
  least as late or that nothing orders.
- `SavedOverWeighed`: an end that reads saved, or a seal attested to the platform, was made after
  every unsaved answer published when it was weighed last, under the permit.
- `SavedOverHeard` (until the commit), `SavedOverReceived`, `LostIsSaid`: what the comments promise
  beyond it; all three fail, see Findings.

`removals_or_answers`, its part about evidence: two asks, two boots, cap of one kept answer, boots that persist their generation
or not, answers stamped or not, that say saved, pending or changed (one that says nothing of the three
is neither kept nor a save; the theorems have it).  Two answers and a save are what every comparison of the code
relates; the cap of one makes the folding of answers happen.  A behaviour is followed to its first
decision.

### LaunchGate

State: `held` and `admitted` of the gate, `gateOn` (whom a waiter waits for), where each caller and Stop
is, `agent` (the running agent), `marked` (`stoppedDuringLaunch`), and the launches a Stop met.  A
caller's step runs to its next await; callers that were woken run before anything new happens
(`Quiet`), save those in `awaitCurrent`, who may run later.

- `OneAtATime`: one verb of a session at a time, and of those waiting out a stopped launch one takes
  its place.
- `StopReachesLaunch`: nothing of a launch a Stop met runs once that launch is over.
  `SparesLater`: a Stop does not touch a launch sent after it.  The Stop that follows a launch may fail
  (`StopAgainFails`): the code logs it and clears the mark (`engine.ts:29449-29454`), and an agent it
  did not end runs on, so the property leaves that launch out.
- `EverythingEnds` (its half about the gate): everything asked ends.

`gate_or_ends` has two launches, a recovery, one piece of work between launches and two Stops, both
with captures and without (`Modes`), and each caller may fail; of the Stops that follow a launch the
recovery's alone does, with captures (`FailsOnce`).  It is enough for a waiter behind a
waiter, a Stop during another's tail, and a cycle launch - tail - between - gate, which a wrong
order of the tail's wait produces in this instance.

### EndOwnership

State: a process's `row`, whether it runs (`gone`), its `owner`, each continuation's entry (`state`)
and the workspace `holds` entered and not left; where each actor is, what it read and whom it waits
for; who recorded an end, and which Stops were let record `over` a continuation.  `Observe`,
`Continue`, `StopContinuations`, `Grant`, `Woken`, `ReleaseEntry` are the table's operations; an
observer is `Notice` ... `Reread`, `Tail`; `ReadRow` and `Mark` are `recordAgentEnd`, which whoever
owns an end runs; a continuation is `Begin`, `ReadAgain`, `TurnTo`/`Close`, `Start`, `Release`;
`Reap` finds processes that ended unseen.

- `RecordedOnce`: an end is recorded once; only a Stop granted over a continuation records beside
  another.
- `TypeOK` counts: the workspace is held once for each active continuation that owns an agent,
  through stops, second stops and releases.
- `EverythingEnds` (its half about ends): a process that runs no more is recorded as ended.

`RecordedOnce` excepts the Stops in `over` because the code lets them go on: `grant` answers a Stop
at once though a continuation owns the end, and the row is read once before it is written
(`end-ownership.ts:26-27`, and the test at `end-ownership.test.ts:117`), so an observer woken by that
continuation's release may claim and investigate while the Stop still records.

The run lets three or four of a watcher, a look at a quiet transcript, a mode switch, a hand-over and
two Stops act (`Parties`), over an agent and its successor.  Every two of them meet, but for two
Stops with a mode switch.

### RemovalFences

State: `row`, `mark` (phase, whose, fresh) and `listed`/`era` of projects, `status` of sessions,
`start` (an admission and the process it made), `try` (a removal: how far it read, asked, acted),
and `ruined`, what something was destroyed of.  `LetIn` and `AdmitStart` are the triggers.  A removal
is `Take`, `ReadStarts`/`ReadSession`/`ReadProcesses` per worktree, `Commit` or `Keep`, then `Ask` and
`Act` in turn (renew the mark, destroy one thing), and `Fail`/`GiveBack`; a purge is
`Confirm`/`TakePurge`; a start is `Admit`, `GoLive`, `OpenProcess`, `EndStart`.  `Lapse` and
`LapseAdmission` are the 120 seconds in which nobody renewed: they may happen at any moment, and
whoever slept goes on.

- `SettledUnderDeletion`: where a deletion passed its checks (or a project is removed) nothing is
  live and no process runs, save what `stray` names: work an unsound admission let in.
- `MarksApart`: a worktree's removal and its project's never stand together.
- `RuinedStaysMarked`: what a deletion began keeps a deleting mark until its row is gone.
- `OneDeletes`: no two destroy what is still there at once, unless one slept since it asked.
- `PurgesTheConfirmed`: a purge destroys the removal its person read, not one after a restore.

`stray` and `sound` are history variables: an admission is sound if no standing mark should have
refused it and it never lapsed.  The code does not tell the two apart, which is finding 5.
`OneDeletes` needs its exception (`slept`): a removal asks and then destroys, as
`docs/adr/0007-landing.md:418` accepts; and it speaks of rows that are there, since a finished
deletion may find its files gone already.  Two more things the model shows to a reader of the code: a
renewal fiber that meets a database error dies, so a mark may lapse under a healthy removal; and a
shell's start reads nothing again between its admission and its insert, which the trigger alone
guards.

`removals_or_answers`, its part about removals: one project, one worktree, one session, and two removals with two
starts, or three removals with none (`Bounded`).  Two steps of destruction (`Steps`) put a failure
between them; two eras put a restore before a purge.

### HotPool

State: a standby's `row`, `print` and whether it names its executor; `exec`, `token`, `session` and
`owned` (the session's row names the executor); where the pass, the sweep and each start are, what
they have `todo`; `again`, the request that came during a pass.  A pass is `List`, drains
(`AskStop`, `Confirm`, `Forget`), `Probe`, `Make`/`Create`/`Stamp`; a start is `Claim`, `Lease`,
`CreateSession`, `Launch`, `Adopt`, `Accept`, `Consume`.  `Settle` is a session's, whether its executor
runs on or not, and `Revoke` takes the token of an executor that ended.  `Crash` restarts Mend anywhere.

- `Remembered`: an executor whose create was answered is on a row until it ended, and its launch
  token stands as long, so that it can be reached and its last save is let in.
- `PoolWithinTarget`: no more standbys, ready or being made, than were asked for.
- `SessionsAreSpared`: a pass drains no live session's executor; it fails, see finding 6.

`exec = "astray"` is a create whose answer was lost or whose process stopped before its row was
written: `Remembered` does not speak of it.  The comment "Insert a `warming` row before any
provisioning side effect, so recovery can drain it" is true of the row and not of such an executor,
which no row names: it runs until the platform's own limit (12 hours).  The sweep also drains a claim
in flight whose session is not created yet (`engine.ts:29149-29154`); a launch that then finds no
entry leaves the standby's lease unreleased (`engine.ts:18979-18990` asks for the claimed entry), and
waits for it to lapse.

`seals_pool_or_sends`: two standbys ever made, one start, targets 0 and 1, two fingerprints, one crash.

### PickupTickets

State: `held` tickets, tombstones (`spent`, and `dropped` of them), `making` (`identityInFlight`) and
`answers` (`identityAnswers`), `writes` and the token each was `handed`; tokens `valid` in the store,
`lapsed`, being revoked, or `pending` for the sweep; and `req`, presentations of a ticket.  `Redeem` is
`redeemPickup` up to its first wait, `Issued` and `IssueFailed` what it does with the store's answer,
`Woken` a retry that waited, `End` is `discardPickup` with `endWriteToken`, and `GaveUp`, `Pruning`,
`Swept` are `revokeReliably` and its sweep.

- `AnsweredOnce`: all who are answered for one ticket hold one answer, and asked through one channel.
- `EndedIsGone`: once its exec ended a ticket is not to be redeemed, a failed answer does not put it
  back, and a write keeps no entry unless its mint is in flight.
- `TokenEndsWithWrite`: a token of an ended write that the store accepts is being revoked, or waits
  for a sweep that runs.  `strayed` excepts an insert whose answer was lost, and a token dropped past
  `maxPending` (which pending ones go is left open; the code takes the oldest).

Kinds of tickets share no state, so `removals_or_answers` takes one kind at a time: a plain and an identity
ticket, or two writes; two or three requests; two channels, one of which must be looked up.  Three
behaviours differ from what the comments lead one to expect, and break no property: an answer made
after `discardPickup` is still kept for a minute, though a discarded ticket's identity is said to be
forgotten (`engine.ts:8493`); a retry that arrives during the reading of a sibling session is
refused, because `identityInFlight` is set after it (`engine.ts:8725-8767`, against 8476-8478); and a
failed answer's cleanup may delete the entry that a woken retry has just made (`engine.ts:8788-8789`).

### FollowUps

State: each follow-up's row (`bundle`: status and the call that claims it), `lease`s that have not
run out, comments `sent`; `proc`, the process row with a follow-up's correlation, `turn`s with it, the
live `agent` and the `kind` a launch makes; where each call is (`stage`) and how its launch ended.
A call's first stay under the session's lock is `prepare`: `Recover`, or `Lock` and then one of
`Answer`, `Wait`, or a look at the claim in the way: its own follow-up's (`LookOwn`) or another's
(`LookAround`).  The look keeps in `look` the attempt and the lease as read; the process row of the
other is read next (`ClaimAfterProof`, `FindUnproven`), and then the call stands back while the lease
it read runs (`StandBack`), or releases the attempt it read: `GiveUp`, and `ClaimAfter`, which claims
its own.  `releaseClaim` asks for the status and the attempt and not for the lease
(`follow-ups.ts:323-329`), and `Renew` runs outside the lock, so a lease renewed between the look and
the release is released all the same; `look.lease` goes from running to renewed to past.  `Enter` takes the launch gate; the launch is `Submit` to a live agent, or
`Open`, `Record` and `OpeningTurn`; `FinishDelivered` and `Finish` are `finishLaunch`, the second stay.
A call that is `answered` may be late.  `Lapse` may happen at any moment, a heartbeat renewing the
lease or not; agents end, others are started; `Crash` ends every call, and no agent.

- `OneDelivering`: one follow-up of a session is being delivered at a time.
- `GivenOnce`: its words are left with an agent once - again only if a lease of its own ran out.
- `DeliveredWasGiven`: delivered means that the words were given, or are about to be.
- `ClaimHolds`: a claim is ended by its own call, by proof of delivery, or by the one call under the
  lock that read this very claim and a lease that has run out since, be it renewed meanwhile - not by
  any other call, an earlier call's late answer, or a restart.

`given` counts the times words were left with an agent, in a terminal from its start, otherwise with a
turn; `lapsed` and `broken` are history variables.  Two exceptions are the code's own.  After a lapse
the words may be given twice: a server that stops between the opening of a terminal and its process
row leaves nothing that says so, where `follow-ups.ts:55-56` promises a retry "without launching
twice".  And `finalizeCorrelated` (`follow-up-delivery.ts:158-170`) takes the process row for a
delivery, so a follow-up whose protocol agent was recorded and then did not initialise, or refused its
opening turn (`broken`), is said delivered and its comments sent, though nobody has the words;
`engine.ts:7972-7974` says of the same row, for planned launches, that it proves the launch and not the
turn.  A third thing the model shows: comments are refused as sent before the delivery in progress is
recorded (lines 306-319, then 350), so of two bundles that share a comment the second may be claimed by
the call that marks the comment sent by the first.

`seals_pool_or_sends`: two follow-ups that share a comment, two calls for the first and one for the
second, agents of both kinds, one crash.  That is a retry beside its own late call, a bundle that
supersedes another, and a launch on either side of a lapse.

## Bounds

| Bound | Where | Stands for |
|---|---|---|
| `MaxEpoch`, `Bounded` | `CaptureChain`, `CaptureRetention` | claims of a behaviour; which of the parties meet in one behaviour |
| `MaxN` | `CaptureRetention` | captures of a chain |
| `MaxTime` | `CaptureSeal` | the clock |
| `MaxBoots`, one answer per ask | `CaptureEvidence` | daemon restarts |
| `UnsavedKept` | `CaptureEvidence` | `CAPTURE_UNSAVED_ANSWERS_KEPT`, 64 in the code |
| `Casts` | `EndOwnership` | who acts in one behaviour |
| `MaxEra`, `Steps`, `Bounded` | `RemovalFences` | removals of one project; things a deletion destroys; which attempts and starts meet in one behaviour |
| `Standbys`, `MaxCrashes`, `Targets` | `HotPool`, `FollowUps` (`MaxCrashes`) | standbys ever made; restarts; what a project may ask for |
| `MaxPending` | `PickupTickets` | `maxPending`, 1000 in the code |
| `MaxDiff`, `MaxMark`, `Job` | `ReviewPasses` | changes of the diff; writes of a live status; jobs ever queued |
| `RetryLimit`, `MaxTries` | `ReviewPasses` | `retryLimit`, 3, and the length of `RETRY_DELAYS`, 10 in the code |

`CHECK_DEADLOCK FALSE` is given where a behaviour ends: when every ask, pass, judgement or request
of the instance is over, nothing is left to do.

## Fairness

Fairness is stated in `gate_or_ends` only; everything else is safety.  Of the gate: one weak fairness
condition over the callers' and Stops' own steps together - the event loop runs what can run, and the
database and the platform answer or time out.  Of the ends: one over the steps of observers,
continuations and Stops that have begun.  Nobody is obliged to ask, to look at a quiet transcript, to
end of itself or to be reaped.  That abandoned claims of the pool are drained in the end is not
checked; nor that a prep behind a running pass is made in the end, which the code does not promise (the
retry gives up after its delays, and leaves the prep to the next settle).

## Proofs

Theorems hold for every value of the constants under the modules' named assumptions, which say only
that constants have their types and that ids of different kinds differ.

`CaptureChainProofs` proves `TypeCorrect`, `ChainLinear`, `AckedLanded`, `LandedGranted` (and
`LandedGrantedUnbound`, from a lease made before leases named launches, an initial state no run
covers), `HandedOver`, `ImplementsFencedLog`, `SealsNamed`, `SealsForward` (an action property) and
`ReleasedEnded`.  Their inductive invariant is the conjunction of

- `ChainInv`: `ChainIsLinear`, the chain's epoch is the lease's, and no row landed under a later one
  (so that a landing, which checks the epoch, extends the line);
- `WireInv`: a capture id names one request, and whatever landed or was acknowledged was sent (so
  that a retry's answer cannot speak for another capture);
- `GrantInv`: the lease's holder is the one its epoch was granted to, and a creator's requests carry
  epochs granted to Mend (so that a landing under the lease's epoch is the grantee's);
- `HandInv`: a lease without a holder was released (so that the next claim hands over a released one);
- `SealsNameTheirCapture` itself: a landed row, the grant of an epoch and a launch's captures are
  settled once they are there, and a seal is recorded for the chain's head, in the lease's epoch, by a
  request of the grantee (`Settled`, `SealSteps`, `SealedIs`);
- `EndedInv`: an epoch the engine judged ended, or released, is no later than the lease's, and the
  launch or session it was granted to has ended - and what ended stays so, and no later claim changes
  whom an epoch was granted to (`EndsStay`).

`JobsProofs` proves what is promised of two jobs in the background, retention and the passes of a
review, which share no state: of retention `TypeCorrect`, `CondemnedUnnamed` and `NamedThere`, for overlapping
passes and any number of registers.  The invariant of `CondemnedUnnamed` follows the guards: they only
rise; a landing raises the guard of every chain whose objects it names; so while a guard still reads
what the pass read, nothing that the pass found unnamed has been named since, and a register that
looked before a condemnation can no longer land.

`NamedThere` is about `KnownSpec`: the behaviours of `Spec` without the step of finding 1.  In them an
aged packs row is revived only for a worktree that has a chain, and of which every pass that counted
the row aged has read the guard (`RevivedKnown`).  `Spec` alone does not have the property, as
`retention_revived` shows, and the theorem says that this step is the only way to break it, whatever
the constants.  To the invariant above it adds

- `KeyInv`: an object under a claimed epoch is of a worktree with a chain, and so is a pack past the
  grace, unless a worktree's row names it (so that a pass that begins has a guard of every pack it
  counts aged, or a worktree names it);
- `GuardInv`: a pass reads rows of the worktree it is at, and dooms only what it has a guard of, so
  that what it is about to delete is condemned: the branch that needs no tombstone is never taken;
- `ThereInv`: worktrees' delta packs are there, and what a register checked is there or condemned
  since - so what lands is there, what is deleted is not named, and thinning, which drops no row with
  the chain's own number, leaves the head's.

Of review passes, taken as an instance `R` over the state and the promises of `ReviewState`, it proves
`ReviewTypes`, `OneJobLives`, `RecordsAreCovered` and `SettlesArePrepared`, for any sessions, askers,
jobs, texts and bounds that satisfy `PassesAssumption`.  Each has an invariant of its own beside the types:

- `SendInv`: a caller between its look and its commit holds the lock, and if it found no live job there
  is none - whatever jobs end or begin to run meanwhile, none comes to live but by the lock's holder;
  so the one it inserts is the only one;
- `CoverInv`: what a prep relies on (`Relies`): the job it was queued as, or was absorbed by while that
  job waited, covers the diff the prep has read.  A job covers a diff before it has read the change, and
  after, since it reads what is there then; a retry reads again.  An answer that it runs already is
  relied on by nobody.  `CoversRun` is the lemma of the job's own steps;
- `HeardInv`: per session, that the marks read are of the past (`Marks`), that what was read before
  LISTEN began is known (`Listed`), and (`Listens`) that a settle owed is above the mark last seen or was
  seen live, and that a row looked at with no event since is the row as it is.  So `Observe` of a row
  that is current judges a settle owed as one to prepare, and of a stale one leaves an event on its way.
  Every handler that touches no session's reading is dealt with once, by `HeardStays`.

`CaptureEvidenceProofs` proves `TypeCorrect`, `KeptStands` and `SavedIsLast`.  Its lemmas say that
the order on answers is never wrong about when they were made (`BeforeIsTrue`, `CoveringIsAfter`)
and that adding an answer to those kept keeps them standing for all published (`WithUnsavedStandsFor`);
the invariant adds that a judgement in progress holds a version of the evidence, that a version
that has not moved means an evidence that has not, and what a decision waiting to be committed was
weighed over.  So `SavedIsLast` speaks of the answers published at the last weighing; of those
published before the commit it would be false (see Findings).

The modules `...State` hold a component's variables and what is promised of them, so that a module
that composes it has both under the names the component gives them.

`GateAndEndsProofs` proves, of the launch gate, `GateTypes`, `OneVerb`, `StopReaches` and `LaterSpared`, for any number of
launches, recoveries, work between launches and Stops, and captures on or off.  Its invariant:

- `PlaceInv`, `HolderInv`, `WaitInv`: where a caller of each kind can be, who runs under the gate holds
  it, and a launch waits in `runOr` for work that holds it or has just left it;
- `HeirInv`: of those that wait for one holder one was admitted;
- `MarkInv`: the mark of a Stop stands only while a launch is under way (so that it cannot be left for
  the next one);
- `AgentInv`, `FoundInv`: the agent is of a launch that started one, and a launch that a Stop found is
  marked until it is over, and its agent is gone then;
- `SpareInv`: a marked or cancelled launch was asked before some Stop was over (so that no launch
  asked after it is cancelled by it).

Of the ends of agents it proves `TypeCorrect` (with the count of the holds, `HoldInv`: it changes only
where an entry enters or leaves `Holding`, by the library's facts on cardinalities) and
`RecordedOnceAlways`.  Its invariant:

- `OnInv`, `EarlyInv`: an observer is at its own process; a continuation that has not begun owns
  nothing (so that a claim takes what nobody owns);
- `OwnInv`: who records by its own authority owns the end (so that two such are one);
- `RecInv`, `FreshInv`: a recorded end is in the row, and who is about to record found it was not;
- `OnceInv`: at most one recorded by its own authority, which is the property.

`RemovalFencesProofs` proves `TypeCorrect`, `StandApart`, `BegunStaysMarked`, `OneAtATime`,
`PurgesWhatWasConfirmed` and `NothingSoundStarts`, for any projects, worktrees, sessions with any
places, starts, removals and steps of destruction.  Its invariant:

- `RowInv`: marks stand on rows that are there and name the attempt that took them;
- `TryInv`: the mark of an attempt's row agrees with where the attempt is, and one that acts holds a
  fresh mark of its own unless it slept;
- `BackInv`: a deleting mark that is given back is of a row nothing was destroyed of and nobody else
  deletes (so that `RuinedStaysMarked` survives a failure);
- `SoundInv`: a sound admission has not lapsed;
- `ReadInv`: what a removal whose check stands has read of starts, sessions and processes is still
  so: its order of reading is the order in which a start moves, and the mark refuses new ones;
- `DoomInv`: hence, where a deletion passed its checks, no sound admission is left, and nothing
  soundly let in is live or runs;

and the three properties that are inductive with these.

`HandedOutProofs` proves what is promised of the two things Mend hands out to executors, pickup
tickets and upload URLs, which share no state.  It takes `CaptureSeal` as an instance, `Seals`, over
the state and the promises of `SealState`.

Of pickup tickets it proves `TypeCorrect`, `OneAnswer`, `EndedGone` and `TokenEnds`, for any tickets, requests, channels and cap.  Its invariant: `ReqInv` (what a request has at each of its
places), `OwnInv` (a ticket is held, or one request at most has its redemption: `OneAnswer` follows,
since whatever is got was got by the one that has it), `LinkInv` and `TableInv` (what is waited for,
being made, kept or got is of the same ticket and channel), `EndInv` (a tombstone of an ended exec is
discarded), `WriteInv` and `MintInv` (a write's entry and the request its mint is in flight in),
`TokenInv` (a token the store accepts is its write's or remembered) and `PendInv` (the cap).

Of upload URLs and seals it proves `SealTypes`, `UrlsRecorded`, `NamedStand` and, of calls that sign in
time, `IndexesStand`, for any keys, epochs, captures, calls, readers and times that satisfy
`ConstantsAssumption`.  Its invariant, `SealsInv`:

- `RecordInv`: `UrlsAreOnRecord`, and a call about to sign or to publish is already on record for all
  the URL could live: a signature that came too late for that is refused, and the margin covers the
  bucket's lag since `2 * Lag <= Margin`;
- `SealedInv`: what a recorded seal lists is stored, and a call that is past its checks wants no object
  of a seal it was checked against.  Together these leave no grant for a key a live seal lists: a call
  meets the seal when it records its authority, or the key was stored at its second HEAD;
- `Settled(k)`, `Kept(k)`: no URL that is out, and none a call may still hand out, can make k other
  than its name says; and k is that.  Once the write authority over a key has passed, it is settled;
- `ProofInv`, `SealInv`: hence a proof this process keeps of a named key, and a mark of a seal, speak
  for a key that is kept, or one that could be replaced since (`KeptSince`); and what a seal that was
  told standing names is kept;
- `AskInv`: the same along a read-back: what a reader is through with is kept, or authority was
  recorded after the time its mark will be asked from, which refuses the mark.

`IndexesStand` is of pack indexes, whose names do not say their bytes.  That they stay fixed is false
of the code (`seal_rebound`), so the theorem has a hypothesis on the behaviour, `SignsInTime`: no call
signs a bound URL later than a binding's life after it started, when the row it finds need no longer
be the one it reserved.  So only such a step, as that of `seal_rebound`, can unsettle an index under a
standing seal, whatever else calls, records, voids and read-backs do.  The life is counted from the
start of the call since the model keeps no time of its reservation, which is a little later; signing
in between is harmless but not covered.  Its invariant, `IndexInv`, beside `SealsInv`:

- `OwnBindingInv`: until a binding's life after its start, a call that has reserved finds the index
  bound to the bytes it declared, at least until then;
- `BoundOnly(k)`: all URLs out for k write what k is bound to and die with the binding, and no unbound
  call could still sign: what a reader finds once it is past the write authority;
- `SettledIndex(k)`, `KeptIndex(k)`: no URL that is out, and none a call may still hand out in time, can
  change what k holds; and what it holds is sound.  A reader that has waited out the binding finds k
  settled, and one call that declared other bytes has outlived its binding (`Outlived`);
- `SealIndexInv`, `AskIndexInv`: as `SealInv` and `AskInv`, of indexes.  No proof is kept of an index:
  each read-back reads it again, between two looks at its binding.

`FollowUpsProofs` proves `TypeCorrect`, `OneIsDelivered`, `WordsAreGivenOnce`, `DeliveredIsGiven` and
`ClaimsHold`, for any follow-ups, calls, comments and restarts.  Its invariant:

- `OneDelivering` itself (a claim is made only where no other delivery was found);
- `LookInv`: the claim that the call under the lock has read still stands, whatever became of its lease,
  since every other end of a claim takes the lock; so what it releases is what it read;
- `ClaimInv`: a claim is of a call of its own follow-up, and its lease runs or has run out before;
- `EvidenceInv`: a turn has its words with an agent, and what has a process row or is said delivered is
  given, broken off, or about to be given;
- `OwnerInv`: while no lease of a follow-up ran out, a delivery's lease runs, and one call at most works
  for it: the one that claims it, unless it is said delivered (so that nobody claims beside it);
- `GivenInv`: until then its words are given at most once, at the end of a launch that its call will
  find proven (so that a finish never gives up what was given).

`HotPoolProofs` proves `PoolTypes`, `ExecutorsRemembered` and `PoolKeepsTarget`, for any number of
standbys, starts and restarts, any fingerprints and any finite set of targets that is not empty
(`PoolAssumption`).  Its invariant, `PoolInv`:

- `StageInv`: where each agent can be, and that it has a standby just when it is busy with one;
- `NamedInv`: what is ready, claimed, swept, owned or asked to stop names its executor, and a row the
  pass makes is still warming (so that no drain, claim or sweep touches it);
- `GoesInv`: a drain forgets only what runs no more, and a launch takes the pool's row only when the
  session's row has the executor;
- `Remembered` itself, which is inductive with these;
- `CountInv`: the ready and warming rows are no more than the largest target; those a pass has judged
  and does not mean to drain are no more than it has counted, and with those it keeps they are no more
  than the target it read (so that what it makes is within it).

It rests on what the library's finite sets give: a finite set of numbers has a largest and a smallest
member (`MaxIs`, `MinIs`), and the first `n` of some standbys are `n` at most (`FirstAre`).

All the invariants and action properties the passing runs check are proved; two of them not in full, since they are false in full:
`IndexesAreFixed` (`seal_rebound`) and `NamedIsThere` (`retention_revived`).  Their theorems,
`IndexesStand` and `NamedThere`, leave out the late signatures and the revivals that break them.  Types are checked by TLC where the
type invariant says more than types (the counts of `EndOwnership`, the marks of `RemovalFences`, the
claims of `CaptureRetention`) and proved everywhere.  Liveness (`EverythingEnds`) stays
with TLC: the prover does not reason about fairness and ENABLED.

## Findings

Seven runs end in a counterexample, each to a sentence of the repository's own comments; `findings`
in `PROJECT.json` quotes them.

1. `retention_revived`: a pack row revived at its new key keeps the age of the retired one
   (`capture-store.ts:1537-1545`), so a pass that listed the chains before the new owner's began has
   neither grace nor guard and deletes the pack a capture names.
2. `seal_rebound`: `extendBoundIndex` takes any live row of the same digest, so a stalled call signs
   under a later call's binding, over bytes a seal stands on (`capture-channel.ts:2327`).
3. `evidence_received`: a publication clears the fence of an earlier ask whose later answer arrived
   and was not published, and a seal is attested over it (`agent-sessions.ts:2113`).
4. `evidence_lost`: the count and the position of the pending work are read apart, and an end reads
   lost that was not (`engine.ts:11706`).
5. `removal_starts`: `renewAdmission` makes an admission that lapsed fresh again, whatever marks were
   taken meanwhile (`removal-fences.ts:544`), so a start goes live in a project whose removal has
   read that nothing starts there.
6. `pool_spares`: a pass drains by the rows it read at its start (`engine.ts:28930`), and stops a
   standby that was claimed and adopted while it waited for the drains before.
7. `review_queued`: a pass's job is active for a while after it wrote its row (a tour reaches its
   pull request first, `apps/api/src/main.ts:732-735`, and pg-boss marks it over last).  Asked for again
   in that while, the row goes from completed back to queued (`change-passes.ts:95-107`), the request is
   absorbed by the active job, which writes nothing more, and `queueReviewPass` tells its caller, who
   does nothing with it: the row reads queued, and no job will run it.  Review prep waits and retries
   in this place; the review page, whose buttons are off while a row is queued
   (`apps/web/src/components/session/change-tab.tsx:394-420`), and a landing do not.

An eighth needs no more than `CaptureEvidence` at the bounds of `evidence_received`, of which it is a
variant: under `EvidenceCommitted.cfg` TLC finds `SavedOverHeard` violated.  `engine.ts:4213-4215` says
that publication and every decision that reads "saved" run under one permit, "and a decision commits
only while the evidence version it read is still the current one".  `confirmedExecutorEnd`
(`engine.ts:11750-11785`) compares the versions under the permit and lets it go; `recordAgentEnd` then
writes the run's outcome, the session's status and its summary (12048-12062), and so do the others that
settle a session by it (5734-5741, 6689-6695, 6838).  An ask answered "pending" and published between
the two is in the evidence when the end is written, and the session reads saved over it.

One more was found while the invariant of `CaptureSeal` was looked for, and needs two keys under one
epoch, two readers and some seven million states, more than the runs hold: a seal told standing may
be voided after, with no URL handed out in between, though `capture-seals.ts:152-153` says it "stands until
another URL is handed out under one of those epochs".  A reader finds a named key wrong and stalls
before `voidSeal`; a URL bound to the key's bytes, which is on no authority, puts it right; a URL for
the other key raises the epoch's authority, so that a second reader, once it has passed, does not join the first (the
authority waited out is part of `readBacks`' key, `capture-seals.ts:338-346`), reads everything right, marks
the seal and is told it stands; then the first voids it (`capture-store.ts:1480-1491` does not ask when
the seal was re-verified).  What a standing seal lists is not lost by it: `NamedAreFixed` holds
throughout, and a session is told lost what is saved.

Further divergences have no run of their own: those of `FollowUps` above, a plan's head may be
behind the chain (`capture-channel.ts:1778-1780`), and half of the clock margin is spent before signing
(`capture-channel.ts:2370`).  Of review passes:

- `EverySettleIsPrepared` speaks of sessions live while review prep listened.  One that settles
  between the baseline's reading and the LISTEN (`review-prep.ts:476-483`), or was `stopping` at the
  baseline and so not listed (`agent-sessions.ts:1031`), though `settledAfter` has words for "a session
  first seen stopping", is prepared only at its next settle; and a LISTEN that drops ends the worker
  until the next start (lines 509-513).
- A prep left behind a running pass may stay there: the retry reads the pass's row as running
  (`allRunning`), the row is written completed, its event finds the retry's fiber still there
  (`onlyIfMissing`), and the fiber ends.  Line 48 says "never lost behind a running pass"; it is lost to
  the next settle.
- A row may stay running, or queued, when the handler of its job dies without a word until its retries
  are used up, or when the server stops between the row and the enqueue.
- "Prepared already" compares with the diff last recorded, though the pass may have read a later one:
  a change that comes back to the recorded text is taken for prepared (`RecordedIsCovered` holds: the
  text was read then or later).

## Not modelled

- In `CaptureChain`: deduplication and quota checks of a register, the fence of a rollback, several
  worktrees (no row is shared).
- In `CaptureRetention`: aborting orphaned multipart uploads, and the removal of a project.
- In `CaptureSeal`: multipart uploads, quotas, project removal, the window after a start, the memory
  of URLs a process minted, the checks of a sealing register.  Two defects are out of its reach at
  these bounds: marking a seal without the authority check, and reusing the proof of a read.
- In `ReviewPasses`: capture summaries queued at a settle, sessions created while review prep runs, a
  removed session, jobs from before the asker was recorded, and other jobs of `packages/jobs`.
- In `CaptureEvidence`: several launches and epochs of a session, the wording and times of an end,
  the rounds of a drain, and two engines at once, which the deployment notes exclude
  (`deploy/aws/issues-for-real-ha.md`).
- In `LaunchGate`: several sessions (no state is shared), `awaitLaunch`, closes the platform refuses,
  admission rules, and what a launch does besides starting its agent.
- In `EndOwnership`: what the launch gate keeps apart, a restart of Mend, failures of the database,
  a quiet transcript looked at a second time.
- In `RemovalFences`: linked projects, a rollback's hold on a worktree, who may remove, blockers that
  are no work of a session (saves, setups, a change that is not on origin).
- In `HotPool`: several projects and owners, pools without captures, what a fingerprint is made of,
  sockets and the other tokens under a standby's id, the platform's time to live.
- In `FollowUps`: the durable plan of a relaunch that replaces an executor first (sessions with
  captures), the checks of a review slice and of who may send, rows from before claims had attempts,
  and the queue of turns of a live agent.
- In `PickupTickets`: a restart of Mend, which forgets every ticket and leaves tokens to lapse; the
  table that binds tickets to channels; tokens of launches and people, and their revocation in bulk;
  an interrupted request.
- The fold of a session's record into its state (`engine.ts:11573-11637`, `session-fold.ts`): long
  tables of cases over pure data, each with tests.
- The limit on a register's retries when guards keep moving (`capture-channel.ts:3455`): in
  `CaptureRetention` it tries again without end, which allows more.
- The components marked `not_modelled` in `PROJECT.json`, each with its reason.

## Plan

What is left, in this order.

1. `Steering`: the queue of turns a person steers a live agent with, their delivery and withdrawal.
   Abstract: an at-most-once ordered channel.
2. `HistoryRollback`: its fence composed with the claims of `CaptureChain` and the marks of
   `RemovalFences`, and its journal over a crash.
3. `Landing`: remote steps that fail in between, and the jobs a landing queues.
4. Single flight on its own: flights that refuse to be joined.
5. Proofs: `IndexesAreFixed` without a hypothesis where one call of an index is in flight.

## Running it

    tlc -config CaptureClaims.cfg MCCaptureChain.tla
    tlapm CaptureChainProofs.tla

Each run of `PROJECT.json` names its module and configuration; the longest takes two to three
minutes with two workers.
