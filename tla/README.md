# TLA+ verification of the UT-TDD agent harness

The harness governs the work of coding agents in a repository. Most of it is
pure: lints, gates, classifiers and renderers that read files and print
findings. What can go wrong in ways that a unit test hardly reaches is the part
that *coordinates processes*. The hooks of an agent session (`Stop`,
`SubagentStart`, `SubagentStop`, `SessionStart`), detached workers, `doctor`
runs and command-line calls are separate operating-system processes. They start
when they like, may be killed at any point by a time budget, and meet only in
files, in links and in two SQLite databases. This project models those protocols in TLA+, checks
them with TLC and proves the main invariants with TLAPS.

File names below are relative to the repository's `src/` unless they begin
with `tests/`.

Contents: 1 inventory · 2 modules and what each run checks · 3 findings ·
4 theorems · 5 what is not modelled · 6 plan.

## 1. Inventory

### The components that keep shared state

| component | state | operations | hard behaviour | what makes it correct |
|---|---|---|---|---|
| **Stop refresh** `state-db/stop-refresh.ts`, `stop-refresh-coordinator.ts` | the demand marker `dirty`, markers `claimed-<generation>`, the hard link `active`, a directory per generation with owner records | hook: mark, acquire, take over, spawn, transfer; worker: join, claim, rebuild, complete, retry, release | every operation is a few file calls of two processes per generation; crashes, pid reuse, other machines, a time to live | a demand is never lost and is served in the end; one rebuild at a time; a live owner keeps the lease and a dead one loses it |
| **Doctor singleton** `doctor/singleton-lock.ts` | one claim file per call | publish, list, read, decide, release | concurrent calls, stale claims, fail-open on any I/O error | doctors with the lock run alone; nobody removes a live claim; residue blocks nobody |
| **Worktree lifecycle** `runtime/worktree-lifecycle/**` | the event-sourced record of each lifecycle, a path lease held by a service | create, finish, retain, reevaluate, retire, and the compensations | each of six ports may fail between two steps; a crash forgets the record but not the lease | no two active lifecycles in one worktree; a denied worktree is never retired |
| **Forward escape** `execution/forward-escape.ts`, `sqlite-forward-escape-journal.ts` | an issued certificate and a journal of events per command; a GitHub issue | certify, queue, create-or-get, append | read before a remote call and used after it; lost answers; retries; two workers on one command | intent before effect; a projection is bound to an issue that exists; nobody is shut out of a command that is still open; convergence |
| **Agent slots** `runtime/agent-slots.ts` | one JSON file of slots | fire, release, sweep, by hooks and the team runner | unlocked load and save; ends that do not say whose they are; lost hooks | the number of running slots is that of the running subagents; ended slots stay ended; stale slots go |
| **Wake authority** `runtime/claude-wake-generation-upgrade.ts`, `claude-memory-wake.ts` | generation markers, capability profiles, an authority file, activation journals, claims and terminal markers per inbox entry | activate, reconcile, inspect, claim, complete, sweep | a crash after each file operation of an activation; concurrent activations; an authority superseded under a claim | one valid authority per session; an entry is delivered under the authority it was claimed with, at most once |
| **Plan draft saga** `plan-admission/plan-draft-service.ts` with its journal, publisher and ledger | a SQLite journal, staged and published files, a SQLite ledger | intent, publish, commit, clean up, replay | effects in three stores without a common transaction | all or nothing after every replay; the published files are those of the ledger |
| **Review custody and merge gate** `feedback/review-*.ts`, `cli/delegation.ts` | requests, verdict files and receipts of each worktree; one audit log for the repository; the gate's log | delegate a review: issue, begin an attempt, review, link the receipt; merge: look twice, read all worktrees, decide, log, merge | no lock on purpose; a delegation dies anywhere; requests are overwritten; files read one after the other while the branch moves | only the reviewed head is merged, and no FLAG is overlooked; attempts follow one another on record; a valid receipt stays valid |
| **Forward workflow** `forward/**` | an event ledger, a projection | transition, replay, rebuild of the projection | ledger read before and appended to after; projection behind the ledger | legal transitions only; a replay changes nothing; the projection catches up |
| **Reservation** `plan-asset/application/reservation-service.ts` | leases of plan ordinals | reserve, commit, release, expire | lost answers, replay after expiry | an ordinal has one holder; a committed one never gets another |
| **Cutover transition** `runtime/cutover-transition.ts` | an append-only SQLite ledger | one compare-and-set append | concurrent appends | a chain without forks |
| **Node generation build** `runtime/node-bootstrap.ts` | a lease directory, a staging directory, one rename | build, publish | a builder that dies | only complete generations are visible |

### How they interact

- `cli.ts` wires everything to the hooks. `SessionStart` sweeps the slots;
  `SubagentStart` and `SubagentStop` fire and release slots; `Stop` marks the
  refresh demand and spawns a detached worker, and starts a wake watcher, which
  reconciles the activation journals and activates its generation.
- The worker calls the *projection writer*, which rebuilds `harness.db` from
  the repository's files. To the coordinator that is one call that succeeds or
  fails; what it writes is a function of the files.
- `doctor` reads `harness.db` and the files, under its singleton guard. It does
  not meet the refresh otherwise.
- A delegation (`codex` or `claude` with review options) leaves its request,
  verdict and receipt in its worktree and its audit events in the repository;
  the merge command collects them from all worktrees. The two meet nowhere else.
- The lifecycle, the escape and the draft saga are application services behind
  ports. Their peers (lease service, GitHub, execution ledger) are outside the
  process and are modelled from how the code uses them.

The components share no protocol state with each other, so there is one module
per component, and the composition inside a component (hook with worker,
workers with the journal and the remote service, saga with the lease service)
is in its module. The merge gate has a module of its own, which extends that of
the delegations it runs beside.

### The components without a protocol

Lints, gates, guards, schemas, catalogues, provider judgment,
handover, topology, documents, distribution: pure functions, read-only
collectors and create-once files. They are listed with their sources in
`PROJECT.json`, each with the reason why it is left out.

## 2. Modules, runs and bounds

Every module states, beside its actions, the plausible bugs its properties are
tested against, as operators that begin with the comment "Mutant:".
Putting one of them in the place of the definition after it makes TLC report
the property that guards against that bug.

### StopRefresh (`stop-refresh-coordinator.ts`, `stop-refresh.ts`)

*State.* `dirty`, `active`, `anchor`, `claims` and `claimed` are the files.
A generation stands for one `acquire`, with a hook process and a worker
process; `pc` has one value per file operation that another process can
observe. Operations on files nobody else can reach yet are folded into the step
before them. `watch`, `covering` and `stranded` are ghosts: they follow one
demand, chosen freely among all that are marked, through the markers.

*Actions.* Hook: `StopEvent` (mark `dirty`, write the directory), `LinkActive`,
`InspectOwner`, `RestoreMark` and `RestoreRemove` (`restoreClaimedDemand`),
`TakeoverCheck`, `TakeoverRename` and `TakeoverVerify`
(`moveActiveGeneration`), `Relink`, `SpawnWorker`, `Transfer`. Worker: `Join`,
`RetireClaims`, `ClaimCheck`, `ClaimRename` and `ClaimVerify`
(`claimStopRefreshDemand`), `RefreshOk` and `RefreshFailed`,
`CompleteDemand`, `RetryMark` and `RetryRemove`. Both: the three steps of
`releaseStopRefreshLease`. The environment crashes processes, reuses pids and
lets time pass.

*Abstractions.* The read of an owner's directory is atomic. A finished
generation's slot is reused for the next Stop (`Recycle`), which keeps the
number of *concurrent* generations bounded and the number of Stops unbounded.
In `complete` and `retry` the ownership check and the write are one step.
Symlink hardening and malformed files, which the code refuses, are left out.

*Runs.*

| run | instance | shows |
|---|---|---|
| `StopRefresh_two` | two concurrent Stops, one Linux machine, two mishaps | the demand is never lost or stranded (`DemandDurable`, `DemandReachable`), one rebuild at a time under its marker, a live owner keeps the lease, a dead one loses it, every demand is served |
| `StopRefresh_lease` | two machines on one directory, births unreadable | a dead owner's lease is recovered, by its time to live across machines |
| `StopRefresh_race` | three concurrent Stops | violation: two hooks that found the same dead owner (finding 1) |

*Bounds.* A takeover takes two generations, the race between two takeovers
three. The mishap budget pays for crashes, failed runs and launches, reused
pids and workers that join before their parent's transfer. With two, the
second mishap can hit the recovery from the first one. In instances with three slots
`DemandReachable`, `OneRefreshAtATime` and `RefreshHoldsDemand` fail through the
same race as `LiveOwnerKeepsLease`. `DemandDurable` survives it, which is the
theorem of section 4.

*Two machines.* The durability theorem needs one host. With two machines on one
directory and time to live, a takeover restores the demand of a worker that
still runs; that worker can claim the restored demand again under the same name
before the marker is removed, and the demand is gone. `StopRefresh_lease`
therefore checks recovery on two machines, not durability.

*Fairness.* Weak fairness of every process (the operating system runs it), of
`NextStop` (sessions go on producing Stops: nothing in the code wakes up by
itself, so a demand marked while a worker finishes its last round waits for the
next Stop), of `Age`, and of `PidFreed` (an unrelated process does not keep a
reused pid for ever). Crashes and failures are bounded by the mishap budget,
that is, liveness is claimed once they stop.

### DoctorLock (`doctor/singleton-lock.ts`)

*State.* The claim files, the next step of each call, and what it has listed
and found fresh. *Actions.* `Publish` (temporary file and rename), `ListClaims`,
`ReadClaim` for one claim at a time in any order, `ReadOwnClaim`, `Decide`,
`TurnAway`, `Finish`, and the faults: `MisreadClaim` (a claim that cannot be
read is removed as broken), `IoFault` (withdraw and run without the lock),
`ReleaseFault`, `Crash`, `PidReused`, `Expire` (45 minutes).

`misread` and `residue` are ghosts. Which claim the blocked caller is shown is
not modelled, since nothing depends on it.

| run | instance | shows |
|---|---|---|
| `DoctorLock_safety` | three calls, two of them on one machine, two faults | exclusion, up to a claim that was forfeited by overrunning or by a failed read; nobody removes a live claim; residue of the dead blocks nobody |

*Bounds.* A claim name is never used again, so the number of calls bounds the
history as well: with three, a dead call, a holder and a contender coexist. The
exclusion argument is about pairs, and the theorem covers any number.
The calls come to an end, so deadlock is not checked.

*Beyond the properties.* Two calls that publish at the same time each list the
other's claim, and both back off, so that no doctor runs;
the test U-DOCLOCK-011 (`tests/doctor-singleton-lock.test.ts`) says that contenders
select one owner, for contenders that come one after the other. The invariant
behind `MutualExclusion` (`ExclusionInv`) is proved and not run.

### WorktreeLifecycle (`runtime/worktree-lifecycle/**`)

*State.* `record` is the store's record (state, terminal receipt, reasons in
effect and the history of reasons); `lease` is the lease service, known only
by how `service.ts` uses it; `pc` is the step of the saga that runs for a
lifecycle. *Actions.* The create saga is `ReservePath`, `Plan`, `PortCall`
(create, observe, spawn) and `Activate`, with the compensations
`UndoReservation`, `AbortRelease` and `AbortActivation`; finish is `Finish`,
`FinishRelease` and `RecordHandoff`; `Retain`, `Reevaluate` and `Retire` act on
a record at rest. Any port may fail at each step, and `Crash` loses the
in-memory record and leaves the lease.

*Abstractions.* One process per lifecycle, because a saga is synchronous in its
process. Attempts, revisions, owners and digests matter only to calls that the
store refuses, and a refused call changes nothing. The terminal kind is left
out.

`WorktreeLifecycle_two`: two lifecycles contend for one path, with two
receipts, the two reasons the code derives and one a caller may add, and two
faults. It checks `OneActivePerPath`, `RetiredIsClean` (a path to `retired` that launders a reason would be a long
legal sequence of calls) and `ReceiptFixed`; the inductive parts behind them,
`SagaInv` and `DenialInv`, are proved. A third lifecycle would only repeat the contention. Lifecycles end
at `retired`, so deadlock is not checked.

### EscapeOutbox and ForwardEscape (`execution/forward-escape.ts`, `sqlite-forward-escape-journal.ts`)

`EscapeOutbox` is the promise: a command is certified with one payload, queued
before anything is posted, and projected once, onto an issue that exists.
`ForwardEscape` is the code: any number of workers, each of which runs
`Certify`, `Read`, `Queue`, the create-or-get call and `AppendAnswer`, where
only the journal's transactions (`BEGIN IMMEDIATE`) are atomic. The journal
audits each append with `Audited`, the translation of `assertProjectionFsm`.
The call may fail after the service created the issue; the issue may be edited
under everybody; transactions may fail; workers crash anywhere.
`Read` merges the verification of the certificate with the reading of the
events, since nothing a worker does in between can be observed.

`ForwardEscape_two` (two workers, one command sent with two payloads, two
revisions of the issue) checks that the journal turns a worker away only from a
command which another one has projected (`NobodyShutOut`), intent before effect
(`IntentFirst`), bound projections (`ProjectionBound`), the refinement
`OutboxSpec`, and `OutboxConverges`. What a worker appends follows from a reading
that may be stale: an intent that another worker has queued since, a deferral
after the other's deferral. The audit has to take all of these, and it is the
append's idempotence that makes it so. One case is left, and `NobodyShutOut`
names it: when one worker projects while the call of the other one fails, or
answers with another revision, that answer would follow the projection, the
audit rejects it and the call throws. The journal is none the worse for it.

*Bounds.* Commands are independent (every table is keyed by command), so one is
enough; two workers give every pair of overlapping calls. The journal needs no
bound: an event that is on record to the letter is not appended again.

*Fairness.* Some worker keeps running, somebody sends the certified command
again until it is projected, and the database and the service answer now and
then (strong fairness of the successful outcomes). The code retries nothing by
itself, so the assumption is about its callers.

### AgentSlots (`runtime/agent-slots.ts`, `team/run.ts`, `cli.ts`)

*State.* The slots in the file, the order in which they were fired, which ones
are past the five-minute threshold, and the changed copy that each process
holds between its load and its save. *Actions.* `GuardFire`
(`recordGuardFire`, with the sweep it makes in the same write), `GuardStop`
(`releaseOldestGuardSlot`), `MemberFire` and `MemberStop` (team runner),
`Sweep`, and for each of them `Save` or `SaveLost` (a killed hook or a
swallowed write). A load may fail, and counts as an empty file. `StopLost`
covers an end whose hook never runs and a fire whose tool call never ran.
`apart` and `whole` are history variables: whether processes ever overlapped,
and whether anything was ever lost.

| run | instance | shows |
|---|---|---|
| `AgentSlots_hooks` | two subagents, a team member, a sweeper | in calm weather the count is exact and a member's slot is its own (`CalmExact`); without overlap and failed reads an ended slot stays ended, even if hooks and writes are lost and slots outlive the threshold (`SettledForGood`); no slot runs for ever (`SelfHeals`) |

*Beyond the properties.* Nothing keeps two hooks apart, and the properties that
need it say so with `apart`. Struck out, `CalmExact` fails: the load and save of
two hooks overlap, and a running subagent has no slot. A subagent that outlives
five minutes breaks the count as well.

*Bounds.* An end that is attributed to the wrong subagent takes two; the member
is there because sweeps and releases must leave it alone. *Fairness.* Hooks
finish or die, time passes, sessions keep starting (strong: a session start
may find nothing to do again and again), and sweeps that are tried again and
again save in the end. The system may stop when all agents have ended, so
deadlock is not checked.

### WakeActivation (`claude-wake-generation-upgrade.ts`)

*State.* The files of the wake root: each session's marker and capability
profile, the authority record, the activation journal, and the superseded
markers and profiles by epoch; for each watcher its next file operation, the
journals it has listed and the entry in its hand. *Actions.* One per operation
on a shared file, in the order of the code: `Start` lists the journals,
`ReadEntry` decides between adoption and rollback, `Close`, `RemoveMarker`,
`RemoveProfile`, `RestoreAuthority`, `RestoreMarker` and `RestoreProfile` carry
it out, `Scan` reads what the predecessor left, `Plan` writes the journal,
`Supersede` and `SupersedeProfile` put the predecessor aside, `WriteMarker`,
`WriteProfile`, `WriteAuthority` and `Commit` take its place; `Crash` before any
of them. Digests, policies and a second workspace are left out: each of them
only refuses. `inspectClaudeWakeGeneration`, the test for a single marker and
the epoch are read in one step each; the handoff file, which no code reads, is
left out, and so is the removal of superseded markers and profiles after seven
days. The claims, the polling loop and the retention of the inbox are in
`WakeClaims`. `apart` is a history variable: no two activations have overlapped.

| run | instance | shows |
|---|---|---|
| `WakeActivation_three` | three watchers, two of them of one session | as long as activations do not overlap, and wherever the earlier ones or their recoveries died: none is refused or throws (`NeverWedged`), what did not take effect is rolled back to the latest activation in effect (`RolledBack`), and no epoch is given twice nor a revoked grant accepted again (`RevokedForGood`) |

*Bounds.* Three watchers: a committed one, one that dies in its activation and
one that recovers it (and may die too); two sessions, so that a predecessor is
in the same session or in another. No fairness, as only safety is checked; the
system stops when all watchers have run, so deadlock is not checked.

*Beyond the properties.* They say less than one would wish, in two places that
the instance can show. Overlap: nothing keeps two activations apart. With
`apart` struck out, `NeverWedged` fails: two first activations both see no
marker and write one each, after which every activation is refused with
`multiple_active_generations`, until the retention removes a marker. Profile:
if `RolledBack` also asked that the latest activation be accepted by `inspect`,
it would fail. A watcher dies after it has put the marker of its predecessor in
the same session aside and before it does so with the profile; the rollback
takes the profile for the dead watcher's own and deletes it. The
next activation makes up for that with a profile of its own; the two markers
nobody can get past.

### WakeClaims (`claude-memory-wake.ts`)

*State.* The files of the inbox: entries, their sidecars (`bound`), claim files
(`claim`: absent, created and still empty, or written) and terminal markers;
`old` names the files past the seven days. `authority` is the watcher whose
generation is in effect, `former` the one that a rollback puts back. A watcher
has its next step, the entry in its hand, what it found claimed or settled
(`known`), what it found in the inbox (`listed`) and what it has given up for
good (`skip`, the code's `unclaimable`). A publisher has its next step.

*Actions.* Publisher: `Publish` looks for a claim; `RemoveBinding` retires the
sidecar of a claimed entry, `WriteBinding`, `LookForEntry` and `CreateEntry`
put a new one in. Watcher: `Start`, `Prune` and `PruneOn` sweep the old files one at a
time; `BeginActivation`, `Activate` and `RollBack` move the authority; `Poll`
and `ReadInbox` look round, `Timeout` ends the loop; `Terminate` settles the
review of a closed pull request, `Choose` takes an entry or ends on one without
a sidecar, `Sleep` goes round; `ClaimCheck`, `OpenClaim`, `Recheck`, `Withdraw`
and `WriteClaim` are the claim; `MarkClaimed`, `Unbind` and `Deliver` what
follows it. `Recover` is the backlog recovery at SessionStart, `Crash` the death
of a process anywhere, `Week` the retention time.

*The promise.* `WakeInbox` is an inbox without files: an accepted entry is claimed by
one watcher of its session at a time, and only if it has not been delivered or has been
sent again since its delivery was forgotten; a claim is withdrawn or delivers once.
`WakeClaims` implements it: accepted are the entries of the publications that ended as
pending, and a watcher claims what is in its hand while its claim file is open.
`DeliveredOnce` follows, and is proved by itself.

*Abstractions.* The activation is reduced to who has the authority; activations
do not overlap here (see `WakeActivation` for what overlap does). The age test
of a file and its removal are one step, and so are the reads of one check and
the reads of claims and markers before the inbox is listed. Entries of other
workspaces, half-written entries and the generation markers, which the same
sweep removes, are left out. `delivered`, `again`, `crossed` and `held` are
history variables, described with their declarations.

| run | instance | shows |
|---|---|---|
| `WakeClaims_week` | one entry that two publishers send, three watchers, two of them of the session it is for, one death, one week | watchers and publishers implement an inbox that delivers once (`InboxSpec`), under an authority that the watcher still had (`RevokedDeliversNothing`), by the one holder of the claim file (`ClaimHeld`); it is in the inbox or settled (`NothingVanishes`), and there with its sidecar or its marker (`EvidenceFirst`) |

*Bounds.* Entries meet only in the time a watcher spends on them, so one is
enough. Three watchers give a claimant, a rival of the same session and a
successor that supersedes it, sweeps, or belongs elsewhere. A repeated
publication before, during and after a delivery needs two publishers. A week
passes only when no process runs: a watcher lives for minutes. No fairness, as
only safety is checked. Watchers and publishers end, so deadlock is not checked.

*Beyond the properties.* Five behaviours which the model has and no property
forbids. (a) A repeated publication that meets an empty claim removes the
sidecar and reports `deliveryConfirmed`. The claimer then finds the sidecar
gone and withdraws. The entry stays in the inbox without one, and every later
watcher of any session ends there as denied, although "a consumer can never
observe a new v4 entry unbound" (`runtime/claude-memory-wake.ts:539`).
`EvidenceFirst` excludes these entries (`crossed`). (b) A new watcher that has
listed an entry which its predecessor is just delivering finds the sidecar
removed, and ends as denied. (c) `unclaimable` is for good: a watcher that
meets the empty claim of another, or loses the authority for a moment, does not
try that entry again even if the claim is withdrawn. (d) A watcher that dies
after it created a claim file leaves it empty; no watcher and no recovery
settles the entry, and after seven days claim and entry are removed without
evidence, which is why `NothingVanishes` is about the first week. (e) Once the
retention has removed claim and marker, a repeated publication is delivered
again (`again`).

### PlanDraft (`plan-admission/plan-draft-service.ts`, its journal, publisher and ledger)

*State.* `journal` is, per command, the latest event of the draft journal and
the latest cleanup event; `ledger` the admission receipts; `writer` whose
transaction is open; `sound` whether the database still passes the validation
that opens it. `file` is the content of each published path, as the sequence of
calls whose record it holds: a source holds one, the receipt projection one for
every draft that rendered on top of it. `rollback`, `before`, `after` and
`stage` are a call's two artifacts. A call is one process of the command line,
and what a replay knows is what it reads from the journal: `Resume` works with
the token of the call that committed (`by`).

*Actions.* `Open` validates the database; `Find`, `MarkFound` and
`RecordIntent` decide between replay, conflict, refusal and a new draft;
`Begin`, `Render`, `Stage`, `Backup`, `Link` and `CommitLedger` are the ledger's
transaction with the publication inside it; `RestoreTarget`,
`RestorePreimage`, `RestoreStaged` and `Mark` the recovery outside it;
`CommitJournal`, `Finalize`, `CompleteCleanup` and `MarkPending` the end of a
draft; `Resume` and `ReplayComplete` its replay. `FileError` fails a file
operation or the COMMIT, `Crash` kills the process anywhere.

*The promise.* `PlanAdmission` is a draft without stores: each command has one
decision (intent, then committed or under recovery, for good), a payload and the
call that its plan is admitted by, and a call answers created, replayed, conflict
or refused only when that decision bears it out. `PlanDraft` implements it with the
decision read from the journal, the admission from the ledger, and the answers from
the ends that calls come to; other ends (errors, crashes, failed drafts) answer nothing.

*Abstractions.* The check of a file and the removal or link after it are one
step. Temporaries and identity pins are left out, their names being unique to a
call. A reader never finds the database busy, and a receipt that is in the
ledger before the transaction looks for it (only the rehydrator puts one there)
is left out.

| run | instance | shows |
|---|---|---|
| `PlanDraft_calls` | three overlapping calls out of five, one fault | journal and ledger agree (`StoresAgree`), no admitted receipt leaves the disk unless a file operation fails (`CrashesLoseNothing`), the source of an admitted plan stays as it was published (`SourceStands`), answers are true (`Reported`), the three stores implement one decision per command (`AdmissionSpec`), every call ends (`EveryCallEnds`) |
| `PlanDraft_reopened` | a draft and a replay of it | violation: a cleanup reopened (finding 2) |

*Bounds.* The five possible calls are a command sent twice, sent again after
HEAD has moved (another digest), a second command for the same plan, and a
command for another plan; any three may begin. Two calls of one command give
the races with a replay, two of different commands those over the projection,
and the third is the draft in whose gap a restore puts an old file. One fault
pays for the recovery; the theorems hold for any number. Calls end, so deadlock
is not checked.

*Why `CrashesLoseNothing` asks for no I/O error.* A process that dies restores
nothing, so preimages stay where they are. A file operation that fails leads to
a restore outside the write lock, and then the receipts of all admitted commands
need not be in any one file any more (see (f) below).

*Why `SourceStands` does not.* A plan is drafted by one call at a time, and a
draft that failed earlier removes a source only if it is still its own and links
a preimage only into a free place. So the restores outside the write lock can
make a publication fail, but never touch what has been admitted; for any number
of faults this is a theorem. It rests on the check of a file and the removal
after it being one step (see *Abstractions*). The projection has no such
property: every draft writes it, see (b) and (f).

*Fairness.* Weak fairness of the steps of a call that has begun: the operating
system runs it. Nobody has to begin one.

*Beyond the properties.* Six behaviours which the model has and no property
forbids. (a) `ReplayServed` is false: the replay of a committed and cleaned-up
command answers `PlanDraftCleanupPendingError` once another draft has appended
to the projection, because the file is no longer the postimage in its token.
(b) A draft that rendered from another one's file before that one restored it
publishes the record of a draft that failed. (c) A call that looks between the
ledger's commit and the journal's commit marks a healthy draft
`recovery_required`. (d) When the database is busy both at the beginning of the
transaction and when the failure is to be marked, the command stays an intent
for ever. (e) A crash between putting the projection aside and linking the new
one leaves no projection, and every later draft fails to render. (f) An admitted
receipt can leave the projection. A draft that fails has removed its projection
and is about to link the preimage back, without the write lock. A second draft
commits meanwhile; the preimage goes back into the gap which a third draft makes
when it publishes. The third one cannot put its own preimage back, and the
projection lacks the receipt of the second one, which both stores hold.
`CrashesLoseNothing` without its condition on file operations fails this way.

### ReviewCustody and ReviewGate (`feedback/review-*.ts`, `cli/delegation.ts`)

*State.* Per worktree: when its request says it was issued, its receipt, the
verdict files of its attempts and its temporary receipts. For the repository:
the audit log. A delegation (`Run`) has its next step and what it has read. The
gate has what it has read from the worktrees so far, and its log; GitHub has the
head of the branch. All of it is about one request identity and one pull
request: two requests for one head are told apart by their digest everywhere.

*Actions.* Delegation: `Start` takes the time, `Issue` and `WriteRequest` are
`issueReviewRequest`; `LookForReceipt`, `ReadHistory`, `CheckAndSweep`,
`Number`, `Supersede` and `MakeDirectory` are `beginReviewAttempt`; `Reviewed` is
the reviewer's process; `Project` is `projectReviewVerdict`, `Retain`, `Stage`,
`AppendFact`, `LinkReceipt` and `Contradict` are
`writeStrictReceiptWithCompletion`; `Record` and `Note` are
`recordAttemptOutcome`; `Die` kills a delegation anywhere. Gate: `FirstView` and
`SecondView` of the pull request, `ReadRequests` and `ReadReceipts` one worktree
after the other, `Evaluate`, `WriteIntent`, `Merge` and `WriteResult`. `Push` moves
the branch, to a head nobody has asked a review for or back.

*Abstractions.* Time is a counter of the moments that somebody writes down; the
gate takes the latest one for the present. PASS-WEAK counts as PASS, which it
does wherever it matters, and a verdict file is told apart from another by
its verdict alone. The verdict and the exit of the reviewer are one step. Two outcomes
of the same kind may differ in exit code or reason, so that a second one is a
conflict or none. The files of one check (receipt and audit log in
`hasTerminalReviewReceipt`, verdict and audit log in `recordAttemptOutcome`) are read
in one step. `cleanupReviewAttempt` changes nothing that is consulted and is left
out. A pull request that is closed, merged by hand or not green is one of the
reasons for `Deny`; the log lines of refusals are left out. A gate that dies takes
no further step. `alone`, `merged` and `warned` are history variables, described
with their declarations.

| run | instance | shows |
|---|---|---|
| `ReviewGate_two` | two delegations, two worktrees, one run of the gate; anyone may die anywhere, the branch moves | what is merged is the head that was reviewed with a PASS on record (`MergedReviewed`); a FLAG in any worktree stops the merge (`FlagBlocks`); an attempt is followed by another only on record and after an outcome (`RetriesAccounted`); as long as one delegation follows another, a rejected retry leaves the receipt valid (`ReceiptStands`) |

*Bounds.* A retry and the races over a number, a request or a receipt take two
delegations, evidence in different places two worktrees; the merge takes one
gate, the branch moves without bound. Larger instances have been checked too:
three delegations without the gate, and two gates with one delegation. No
fairness: a review that nobody starts again is lost, and nothing in the code
says otherwise. Runs end, so deadlock is not checked.

*Beyond the properties.* Five behaviours which the model has and no property
forbids. (a) `ReceiptStands` without `alone` is false. A delegation passes the
test for a terminal receipt, another one links a receipt, and the first then
overwrites the request with its later time before it is turned away. The gate answers
`receipt_before_request` from then on, and the request cannot be issued again,
although "a rejected retry must not invalidate a valid receipt by changing
the request file" (`feedback/review-verdict-custody.ts:254`). (b) The numbers
of attempts are a worktree's and the audit log is the repository's, so a retry in one
worktree supersedes the completed attempt of another. (c) A delegation that dies
after its superseded event and before the directory of the new attempt leaves
the number taken: every later retry is indeterminate. (d) The sweep at the
beginning of an attempt removes the temporary receipt of one that is still at
work; its completion is on record without a receipt. (e) When the answer of
GitHub is lost or the result cannot be written, the log of the gate has the intent alone.

## 3. Findings

Each is a run that TLC refutes, with the line of the code or of the tests that
says otherwise quoted in `PROJECT.json`.

1. `StopRefresh_race`: `moveActiveGeneration` compares `active` with the dead
   owner's anchor and then renames whatever `active` names by now. Of two hooks
   that found the same dead owner, the slower one renames away the live lease
   of the faster one.
2. `PlanDraft_reopened`: a replay completes the cleanup that the draft itself is
   still busy with, and the draft then records it as pending. The validation
   refuses a cleanup event after a completed one, so no later call can open the
   database.

## 4. Theorems

TLC settles a small instance. The proofs settle every number of generations,
calls, lifecycles, workers, commands and payloads, from the named assumptions
on the constants alone, unless the table says more.

| module | theorem | statement |
|---|---|---|
| `StopRefreshProofs` | `TypeCorrect` | `Spec => []TypeOK` |
| | `DurabilityInvariant` | `SingleHost => (Spec => []DurabilityInv)` |
| | `DemandIsDurable` | `SingleHost => (Spec => []DemandDurable)` |
| | `LeaseInvariant` | under `SingleHost`: `Spec /\ []OneRenames => []LeaseInv` |
| | `DemandStaysReachable`, `OneWorkerRefreshes`, `RefresherHoldsDemand` | from the same: `DemandReachable`, `OneRefreshAtATime`, `RefreshHoldsDemand` |
| | `LiveOwnerIsNotReclaimed` | from the same: `LiveOwnerKeepsLease` |
| | `TwoSlotsKeepLease` | with two slots, `Spec => []OneRenames` |
| `GuardProofs` (doctor) | `DoctorInvariant`, `DoctorRunsAlone`, `DoctorClaimKept` | `DoctorTypeOK` and `ExclusionInv`, `MutualExclusion`, `LiveClaimKept` |
| | `ResidueHarmless` | `ResidueNeverBlocks` |
| `GuardProofs` (slots) | `TypeCorrect`, `EndedStaysEnded`, `CalmCounts` | `TypeOK`, `SettledForGood`, `CalmExact` |
| `WorktreeLifecycleProofs` | `TypeCorrect`, `LifecycleInvariant` | `TypeOK`, and `SagaInv` with `DenialInv` |
| | `Exclusion`, `RetirementClean`, `ReceiptNeverReplaced` | `OneActivePerPath`, `RetiredIsClean`, `ReceiptFixed` |
| `ForwardEscapeProofs` | `InvariantHolds` | the conjunction of the invariants is inductive |
| | `NobodyIsShutOut`, `IntentBeforePost`, `ProjectionIsBound` | the three safety invariants |
| | `ImplementsOutbox` | `Spec => OutboxSpec`, the safety part of the refinement |
| `WakeActivationProofs` | `TypeCorrect` | `TypeOK`, with or without overlap |
| | `NeverRefused`, `RollbackComplete`, `RevocationFinal` | `NeverWedged`, `RolledBack`, `RevokedForGood` |
| `PlanDraftProofs` | `TypeCorrect`, `StoresAlwaysAgree`, `DecisionsKept` | `TypeOK`, `StoresAgree`, `DecidedForGood` |
| | `ReportsTrue`, `NothingLost`, `SourceAlwaysStands` | `Reported`, `CrashesLoseNothing`, `SourceStands` |
| | `RestoredSourceGone` | a draft that reports its files restored has left no source and no admission; nothing is said of the projection |
| | `ImplementsAdmission` | `Spec => AdmissionSpec` |
| `WakeClaimsProofs` | `TypeCorrect`, `ClaimsAreHeld`, `NothingDeliveredRevoked` | `TypeOK`, `ClaimHeld`, `RevokedDeliversNothing` |
| | `EvidenceComesFirst`, `NothingIsLost`, `OneDelivery` | `EvidenceFirst`, `NothingVanishes`, `DeliveredOnce` |
| | `ImplementsInbox` | `Spec => InboxSpec` |
| `ReviewGateProofs` | `TypeCorrect`, `RetriesAreAccounted`, `ReceiptIsKept` | `TypeOK`, `RetriesAccounted`, `ReceiptStands` |
| | `GateMergesReviewed`, `FlagStopsMerge` | `MergedReviewed`, `FlagBlocks` |

`GuardProofs` is about two modules, `AgentSlots` and `DoctorLock`, and extends
both; that is why the operators of `DoctorLock` that every module has are called
`DoctorInit`, `DoctorNext`, `DoctorSpec` and `DoctorTypeOK`.

*Stop refresh.* `DemandDurable` is not inductive: a step that removes a
claimed marker could remove the last trace of the demand. `SpareMarker` says
that while a marker is about to be removed, the demand is elsewhere as well.
That holds after `RestoreMark` only if nobody can claim `dirty` under the same
name in between, which is `TakeoverOfSpent`: the generation whose marker is
restored has no process that can claim again. This in turn needs
`RunnersRecorded` (whoever runs is among the recorded owners, so an owner that
looks dead is dead) and `Lifecycle`. `SingleHost` is needed exactly for "looks
dead is dead": section 2 shows what happens without it. The proof needs no bound
on the hooks that race for one dead owner, so the demand survives finding 1.

*The lease.* What finding 1 breaks is proved under the condition that excludes it.
`OneRenames` says that at most one hook at a time stands between
`moveActiveGeneration`'s comparison and its rename, and under it `LeaseInv` is
inductive: the generation that a hook is about to take over is dead and stays so;
a process that works with the lease is of the generation that `active` names; a rename takes what was
compared; a claimed marker with a demand in it is the lease holder's. With two slots the
condition always holds, because the dead owner would have to be the
other hook; with three it does not, and `StopRefresh_race` is the counterexample. Hence
the four properties hold of the code wherever two Stops overlap, and in general
they are one verified rename away.

*Doctor.* The argument is the classic one of publishing before looking: of two
calls that both listed, the one that published later listed the earlier claim
(`LaterSeesEarlier`), which must still be there (`ClaimHeld`) because nobody
removes a claim that is not forfeited, and a call that runs saw none
(`RunningSawNothing`). Residue is harmless because the dead stay dead, so that a call
takes it for alive only when the pid has a new owner (`SeenAlive`), and is turned
away only by a claim that it took for alive.

*Worktree.* `SagaInv`: an active lifecycle holds its path's lease, and so does
every saga up to the release it makes itself; a lease has one holder.
`DenialInv`: until retirement every reason in the history which a receipt does
not discharge is still in effect.

*Escape.* `WorkerInv` says what a worker knows at its next step whatever the
others did meanwhile: its payload is the certified one, an intent is on record,
and its answer is about an issue that exists. With the audit in the append this
makes every step of a worker a step of `EscapeOutbox` or none. For `NobodyShutOut`
the journals must be known to pass their audit (`JournalAuditable`, a part of the
invariant): the first event on record is then the very intent that a worker with
an old reading queues again, and behind an intent and deferrals an answer with the
same payload always passes. A projection stays, so who was turned away was so rightly.

*Agent slots.* `SettledInv`: as long as the processes keep apart there is one
at work at a time and its copy agrees with the file on every ended slot; a
process that was not fired has no slot in the file or in any copy, so its first
fire cannot reopen one. `CalmCounts` is about a mismatch: an end releases the oldest
running slot, which need not be that of the subagent that has ended. What the
invariant keeps is therefore a number and not names (`Counted`): as many running slots in
the file as subagents counted, one more in the copy of a process that is firing, one less
in that of one that is ending. `OrderInv` (every slot has one place in the order of
firing) gives an end a first slot to release.

*Wake.* The types are not inductive: the next epoch is one beyond the greatest
in use, and must exist. `Greatest` and `EpochsKnown` say that the journal has a
greatest epoch and that every epoch in a grant or in a hand is in the journal,
which never forgets one; `InHand` that whoever writes an entry has one. The three
safety theorems rest on `RecoveryInv`. As long as activations do not overlap at most
one watcher is at work, at most one entry is open, and it is the latest
(`Orderly`). The stage which the open entry's activation reached, and the stage its rollback
has reached, can be read off the files (`Stage`): markers and profiles aside or in
place, the authority before or after. Every stage can be undone (`Undoable`), whoever
dies in the middle of the undoing, and where it ends the marker and the authority
record are those of the latest activation that took effect.

*Plan draft.* `StoreInv`: of the calls of one command at most one is past its
intent, because an intent is recorded once and nothing takes it back; whoever is
between the two commits has its receipt in the ledger and, unless someone has
marked it, its intent in the journal. `ReportInv` adds what a call has left
behind when it says so: finalized both artifacts, or resumed both of the call
that committed. `LossInv` follows the projection: without a failed file operation nothing
is restored over somebody else's file, the write lock orders the publications,
and each file published holds what the one before it held; so the latest is
there, or it is what the writer (dead or alive) has put aside. For the sources
`SourceInv` says where a source record can be: staged, in place or aside, in one place at
a time and only of a call that has published it; and `OpenInv` that no other
call works for a command once a source of it is staged. `RestoredSourceGone`
follows from both. `StandInv` adds that what a call has linked stays until its
transaction ends, for a source is only moved by the call that publishes there or by
one that restores its own (`SourceMoves`); whoever restores is not admitted, and
whoever publishes finds its plan free, so `SourceStands` is kept. `ImplementsAdmission` needs
only `StoreInv`: the two commits are `Admit` and `Commit` of `PlanAdmission`, marking a
command `GiveUp`, and a step to an answer is an `Answer` (or the answer of a `GiveUp`)
that the stores bear out; everything that is done to files is a stutter.

*Review.* Every step only adds to the files (`Grown`): receipts are never replaced,
directories and events never go. So what a run has read stays true. `RetryInv`
says that a run with a number in its hand took it from an attempt that was settled, in
whatever history it read; that does not need to know who else holds the same number. `GateInv`
says that a receipt has its fact in the audit log from before it was linked, that what the gate
holds is still on disk, and that a FLAG which was there at the beginning has been read
or is in a worktree still to be read; a decision to merge then implies a `PASS` on record and no FLAG.
`AloneInv` is what one run after the other can rely on: requests come first and are never of
the future (`RequestFirst`, `Dated`), one run works at a time and in one worktree
(`Apart`), and it finds no receipt and has the last attempt to itself (`Fresh`). So
nobody writes to the request once there is a receipt, and the receipt's attempt is
the last one: nothing supersedes it. `Apart` and `Fresh` are false without `alone`.

*Claims.* The chain begins with `FreshClaim`: a claim file in a watcher's hand was
created since the last sweep could have begun, so no retention removes it, and
its exclusive creation makes the claimant unique. `Unseen` says the same of
markers: what a watcher has not found settled has no marker that is old. Hence
the marker a deliverer leaves is a fresh one (`Evident`), which is evidence that
stays as long as anyone is at work. `OnceInv` adds what the others know of a
delivered entry: a watcher that does not know of the delivery either would meet
a claim and a marker that last (`Lasting`), or saw that nothing is left of the
entry (`Gone`); nobody holds it; and a publisher can put it back only when it
is noted in `again`. `ImplementsInbox` adds `SentInv`: what is in the inbox, and what a
watcher found there or has chosen, was accepted, and what it has chosen is for its session.
A created claim file is then a `Claim` of `WakeInbox`, since `ClaimHeld` says that nobody else claims
and `OnceInv` that the entry has not been delivered; a withdrawal or a death ends the
claim, and what is done to sidecars, markers, old files and the authority is a stutter.

*Types.* `TypeOK` of every module and the strengthenings
named here are established by the proofs alone; the runs check what they
imply.

*Only model-checked.* The liveness properties (`DemandServed`,
`LeaseRecovered`, `OutboxConverges`, `SelfHeals`, `EveryCallEnds`) and the liveness half of the
refinement, since the prover has neither `ENABLED` nor fairness. Every invariant
and every action property of the passing runs is the statement of a theorem.

## 5. What is not modelled

- The contents of databases, receipts and journals, digests, canonical forms
  and path hardening: they decide whether a call is refused, and a refused call
  changes nothing.
- The rebuild of `harness.db`, and SQLite itself: a transaction is atomic,
  serialised, and may fail as a whole.
- In Forward escape, the validation of a command against the execution ledger,
  `reconcileIssueProjection` and the alignment check: a read-only port and pure
  functions.
- In the review, requests without a strict revision (they are reviewed without an
  attempt), several requests for one head, reviews by the author's own family
  (refused before anything is written), progress receipts, and the read-only
  parts: the backstop after a merge, the custody runner and the live projection.
- The components of the plan below, and those without a protocol.

Hazards that no property covers yet are in `PROJECT.json` with a note each.

## 6. Plan

Modules, in the order of what a fault in them would cost. Each gets an MC
module, one passing run, and a violation run only where a line of the
repository is refuted; each is written without recursive operators so that it
can be proved about.

1. **WakeActivation**, continued: the retention of markers and profiles, and the
   two weaknesses named in section 2 as runs of their own.
2. **ForwardWorkflow** (`forward/**`): the transition policy as data, commands
   with replay, the projection behind the ledger, refining the ledger's own
   state machine. To prove: the replayed state is the folded ledger.
3. **Reservation**: exclusive leases of ordinals with expiry and replay,
   refining "an ordinal has one holder".
4. **Proofs**: refinements of abstract specifications beside that of
   `EscapeOutbox`, `PlanAdmission` and `WakeInbox` (a lease that serves demands, a
   merge that follows a review), and the new modules.
5. **ReviewGate**, continued: the reissue race of (a) as a run of its own, and the
   backstop, which reads what (e) leaves.
6. If they turn out to have a protocol worth it: the cutover ledger's append,
   the node build's lease, the reducer over document deltas.

Runs stay one per component and question. Where the code allows it, an
instance that checks safety checks liveness too.
