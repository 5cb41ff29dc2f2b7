# A verification of ZeruxJS

TLA+ models of the concurrent parts of this repository, TLC instances that
check them exhaustively on small configurations, and TLAPS proofs that hold for
every configuration. Paths below are relative to the repository; `queue/` is
`packages/@zeruxjs/queue/src/`, `portless/` is `packages/zhost/src/portless/`
and `bootstrap/` is `packages/zeruxjs/src/bootstrap/`.

Modelled are: the queue package's durable e-mail delivery and its publish-intent
outbox; four parts of the development proxy (the operation lock, rolling
deployments with the records that recovery reads, instance fleets, and the
publication of the proxy's own state files); and six smaller components: managed
applications, the reload of a development server, the pool of worker threads,
analytics backfills, campaign planning and the client's query cache.

## Reading and running

    tlc -config EmailDelivery_safety.cfg MC_EmailDelivery
    tlapm EmailDelivery_proofs.tla

| module | what it is |
| --- | --- |
| `EmailDelivery` | workers, recovery scanner and operators over one record per message |
| `SingleSubmission` | what the queue package promises about a message, without workers |
| `EmailDelivery_inv`, `EmailDelivery_proofs` | the inductive invariant; the safety theorems and the refinement of `SingleSubmission` |
| `PublishOutbox`, `PublishOutbox_proofs` | dispatchers and redrivers over the publish-intent ledger; its theorems |
| `OperationLock`, `OperationLock_proofs` | the proxy operation lock; its theorems |
| `RollingApp`, `RollingApp_proofs` | start, deploy, stop, crash and recovery of one rolling application; its theorems |
| `InstanceFleet`, `InstanceFleet_proofs` | replacement, scaling and stop of a fleet of replicas; its theorems |
| `StartupJournal`, `StartupJournal_proofs` | the proxy's five state files, published and read under crashes; its theorems |
| `HotRuntime`, `ReconciliationJob`, `QueryCache`, `CampaignPlanner`, `ManagedApp`, `ThreadPool` | six components that share no state |
| `MC_Application` | the six side by side in one instance |
| `CampaignPlanner_proofs`, `Application_proofs` | theorems of campaign planning; of the reload, the backfill, the query cache and the thread pool |
| other `MC_*` | the symmetry sets TLC uses; the `.cfg` files name the instances |

`PROJECT.json` lists for every definition the lines it models, for every
property a plausible bug of the code that breaks it (most are the definitions
commented `Fault of ...`, which no specification uses), and the hazards of the
code. The distinct states below are those of complete runs.

## Inventory

**Queue package** (`queue/`). State that outlives a process is in a database
(delivery records, publish intents) and in Redis (BullMQ jobs); there is no
transaction across the two.

- *Delivery processor* (`delivery.ts`): one record per message, with a version,
  a state (`pending`, `claimed`, `sending`, then `sent`, `suppressed`,
  `rejected` or `uncertain`) and a lease. `acquire` claims or closes a dead
  attempt, the processor checks consent and the campaign gate, rechecks its
  lease, writes `sending`, sends, and records the outcome. Hard: BullMQ delivers
  at least once, every store call may fail after it committed, the lease expires
  under a slow sender. Correct when: at most one submission, a truthful record,
  and no message that stays claimed or sending.
- *Recovery scanners* (`recovery.ts`): collect expired leases; register intents
  that a crash left out. Hard: they act on a row read earlier.
- *Outbox* (`outbox.ts`): one intent per message (`pending`, `leased`,
  `published`, `abandoned`). Dispatchers lease, read the delivery record,
  publish the job and settle; a redriver reopens the intent of a lost job. It
  calls BullMQ and the delivery store, and is called by the marketing producer.
  Correct when: an intent is neither lost nor published in name only.
- *Facade, scheduling, history, dashboards* (`index.ts`, `scheduling.ts`,
  `campaigns.ts`, `history*.ts`, `reporting.ts`, ...): the facade owns
  connections and workers; the others schedule or report.

**Development proxy** (`portless/`). Many short-lived CLI processes and one
proxy share a state directory; they coordinate through lock files, leases and
process identities (pid and start time).

- *Operation lock* (`operation-lock.ts`, with `lifecycle.ts`): a file that holds
  its owner's marker. Callers: `cli-utils.ts`, `portless.ts`,
  `rolling-command.ts`, `rolling-reconciler.ts`, `generation-registry.ts`,
  `fleet-command.ts`. Correct when: two processes never operate at once, and a
  dead owner's lock is recovered.
- *Route registry* (`routes.ts`, `route-lock.ts`): hostname to backends, with a
  lease per registration that a forced one supersedes.
- *Rolling deployment* (`rolling-app.ts`, `rolling-command.ts`): start, check,
  switch the route, verify, drain, stop the old child; roll back on failure;
  stop at any await. Uses the registry and `backend-connections.ts`. Correct
  when: the status names the child that is routed, no child is stopped while it
  is routed, and whatever a dead wrapper leaves is found.
- *Generation records* (`generation-registry.ts`): what a dead wrapper left
  running, and the recovery that ends it.
- *Instance fleet* (`instance-fleet.ts`, `fleet-capacity.ts`, the autoscaler):
  reconcile, scale and stop over one member table, within a restart budget.
  Correct when: no child is forgotten and no healthy one leaves without need.
- *Managed applications* (`managed-app.ts`, `process-supervisor.ts`): one
  supervised child after the other. Correct when: a command takes effect at
  whatever await of the loop it arrives.
- *Startup state* (`startup-journal.ts`, `startup-state.ts`,
  `committed-state.ts`): files replaced one by one under a journal. Correct
  when: a publication takes effect as a whole or not at all, and readers see it
  so.
- *Data path* (`proxy.ts`, `backend-pool.ts`, `proxy-admission.ts`,
  `proxy-cache.ts`): backend choice, health, admission, caching.

**Other packages.**

- *Analytics* (`@zeruxjs/analytics/src/jobs.ts`): backfills whose checkpoints are
  fenced by lease and epoch. Correct when: recorded progress is work done.
- *Campaigns* (`@zeruxjs/email/src/campaigns.ts`): planners page through an
  audience under a lease while operators pause and cancel. Correct when: every
  contact is decided, none for a campaign that is cancelled.
- *Query cache* (`zyrojs/src/network/cache.ts`) and `@zeruxjs/cache`: callers
  share one computation while keys are set and invalidated. Correct when: an
  invalidated value does not come back.
- *Application runtime* (`bootstrap/hot-runtime.ts`, `request-lifecycle.ts`,
  `worker.ts`): generations swapped under live requests; a thread pool. Correct
  when: requests and tasks end, and nothing that serves them is closed early.
- Validators, form libraries, database drivers, certificates, pages and
  formatting have no protocol to check.

## E-mail delivery

`EmailDelivery` has one action per stretch of code between two awaits; an actor
is the program counter `pc`, the message `job`, the record it last loaded
`snap`, its lease `token` and the state it is to record `goal`. `rec[m]` is the
durable record; `Write` is the conditional update of `delivery.ts:47,69`,
accepted only if the version is still the one loaded.

| code | actions |
| --- | --- |
| BullMQ starts a job; `acquire`, `delivery.ts:81-104` | `StartJob`, `LoadForClaim`, `Claim` |
| consent, gate and the catch that reverts, `:105-131` | `CheckConsent`, `CheckGate`, `RevertLoad`, `RevertSave` |
| recheck, `sending`, `send`, `:132-151` | `Recheck`, `BeginSending`, `Send` |
| `transition` and the catch around it, `:73-80,143-159` | `SettleLoad`, `SettleSave`, `Alert` |
| the scanner, `recovery.ts:9-35` | `ScanLoad`, `ScanSave` |
| manual resolution, `delivery.ts:183-201` | `StartResolve`, `ResolveLoad`, `ResolveSave` |
| processes, clocks, recipients, campaign owners | `Crash`, `ExpireLease`, `Withdraw`, `PauseOrResume`, `CancelCampaign` |

Abstractions: a token is the version its claim wrote (both are fresh); a lease
has expired or not, and may expire at any moment; the twelve attempts of a
contended update are unbounded, and every read may fail, so the code's
contention error is among the failures; a legacy sender that returns nothing
counts as accepted, as `delivery.ts:140` says. Consent only gets withdrawn, and
a cancelled campaign stays cancelled.

What is checked (`delivery_safety`, `delivery_recovery`):

- `AtMostOneSend`: SMTP sees a message at most once.
- `SendIsRecordedFirst`: what SMTP has seen can never be claimed again.
- `OutcomeIsTrue`: `sent` was accepted, `rejected` was refused, `suppressed`
  never left, unless an operator decided.
- `AlertIsRecorded`: the alert speaks of a recorded uncertainty.
- `BarredIsNeverSent`: a recipient who opts out (or a campaign that is
  cancelled) while nobody holds the message is not mailed by a worker that had
  checked under an earlier, lost claim. Withdrawal *while* a claim is held may
  still be followed by the send; `delivery.ts:135` leaves that to the sender.
- `OutcomesAreFinal`: no attempt is undone and no outcome changes, except that
  an operator resolves an uncertain one.
- `PromiseSpec`: the whole implements `SingleSubmission`, mapping `pending` and
  `claimed` to `queued`.
- `NothingStaysOpen`: no message stays `sending` or `claimed`.

Bounds. The safety run has one marketing message, two workers, a scanner and an
operator, delivered twice: 430,952 states, complete. Records of different
messages never meet, so one message suffices for safety; two deliveries are what
it takes for one worker to lose its claim to another and go on. The theorems
remove these bounds. The recovery run has two messages and one worker and scanner
each (73,574 states), so that the scanner must not forget one for the other.

Fairness (`FairSpec`): time passes, and the host runs the scanner again and
again over campaigns that hold every message. That is strong fairness of
`ScanLoad` because a worker may re-claim between two pages. Nothing is assumed of
workers, operators, consent or BullMQ. A record with no `campaignId` is on no
page; it depends on BullMQ's remaining attempts.

## Publish outbox

`PublishOutbox` keeps the row (`status`, `holder`, `live`), the BullMQ job of the
same id (`jobs`), the delivery record's state (`delivery`) and one program
counter per dispatcher or redriver. `fresh` holds the actors whose loaded row is
still the stored one: it stands for the version column. A dispatcher names its
own token, since one that starts over has lost the old one.

| code | actions |
| --- | --- |
| `register`, `outbox.ts:79-90`, by producer or repair | `Register` |
| `due` and `claim`, `:100-125` | `ClaimLoad`, `ClaimSave` |
| `dispatch`, `:150-180`, with `settle`, `:134-142` | `CheckDelivery`, `Add`, `SettleLoad`, `SettleSave` |
| `redrive`, `:224-233`, with `reopen`, `:126-133` | `RedriveGet`, `RedriveDelivery`, `RedriveJob`, `ReopenLoad`, `ReopenSave` |
| workers and BullMQ | `StartDelivery`, `StartOtherJob`, `BeginSending`, `Conclude`, `ReturnClaim`, `CompleteJob`, `LoseJob`, `RemoveOldJob`, `RetryFailedJob` |

The moves of `delivery` are those `EmailDelivery` makes (`Moves` in
`EmailDelivery_proofs` proves that there are no others). BullMQ is external:
one job per id, ignored when the id is taken, removed with age.
`MaxDisturbances` bounds, together, crashes, failed calls, lost answers, leases
that expire under a working holder, lost jobs and returned claims.

- `AbandonedIsDecided`: an intent is given up only when its message can never be
  pending again; a message in a worker's hands may come back.
- `PublishedIsOffered`: the queue took the job since the intent was last opened.
- `PublicationStands`: a late dispatcher does not undo a publication.
- `IntentIsServed`, `MessageIsServed`: with everything the host is told to run,
  intents are served and messages leave `pending`.

Bounds. One intent, two dispatchers, one redriver: rows are independent. Five
disturbances in `outbox_check` (71,939 states) let both dispatchers lose an answer
and a lease each and a redrive follow. Fairness: poller, workers, removal of old
jobs, time, and an operator who redrives (`outbox.ts:216-218` makes that a
person's task; `MessageIsServed` is a statement about hosts where it is done). A
claim or a redrive needs strong fairness because the row is leased by others in
between. What goes wrong goes wrong finitely often: with a queue that always
refuses, nothing is published.

## Operation lock

`OperationLock` has one action per system call on the lock file or look at the
owner process, since these processes share nothing else and interleave at
exactly those points. A file is an inode (reused at once), the marker of the
caller that created it, and whether the marker has been written.

| code | actions |
| --- | --- |
| `acquireOperationLock`, `operation-lock.ts:55-82` | `Acquire`, `Open`, `Write`, `WriteFails`, `Poll`, `GiveUp` |
| `release`, `:69-74` | `Release`, `ReadForRelease`, `UnlinkForRelease` |
| `removeStaleLock`, `:24-53` | `Stat`, `Read`, `Probe1`-`Probe3`, `Restat`, `Reread`, `UnlinkStale` |
| the processes | `Crash` |

`Probe1` to `Probe3` are the three questions of lines 37, 39 and 42 about the
owner. A dead owner's pid may have been given to another process, and a live
process's identity may be unreadable (`Unread`), as `lifecycle.ts:27-50` returns
null then. The deadline is a choice between polling and giving up.

- `ExclusionUnlessStolen`: as long as recovery has not removed the lock of a live
  owner, two processes never are between creating and removing it.
- `LockHasUser`: a process that lives on leaves no lock behind.
- `JudgedStaleIsDead`: a contender about to remove a lock found its owner dead.
- `LiveOwnerKeepsLock`: nobody removes a live owner's lock.
- `CallReturns`: an acquisition ends, however long the lock is held.

Runs. `lock_safety` has three processes, two crashes, one unreadable identity and
two inodes (1,152,193 states): a dead owner, two contenders and a reused inode.
`lock_recovery` (9,988 states) has one possible owner and one contender and
readable identities: there recovery is right. It states fairness: a live process
goes on (weak fairness of its steps) and its clock passes the deadline (strong
fairness of `GiveUp`, since it polls in between). Deadlock is not checked, as
processes that have made `MaxCalls` calls are done. `MaxCalls` is two, so every
process acquires again after a release. `CallReturns` depends on that bound:
after `removeStaleLock` returns true the loop does not look at the deadline
(line 77), and others who release and retake the lock for ever could keep it
going. `lock_race` and `lock_unreadable` are findings 1 and 2 below.

## Rolling deployments

`RollingApp` is one application whose wrapper processes come and go. Deploy (or
the first launch) and stop interleave; `dpc` and `spc` are the awaits they are
at. `child` and `port` describe the children, `route` the registered backend
with the lease it was registered under, `record` the file recovery reads.

| code | actions |
| --- | --- |
| `rolling-command.ts:41-61`, `rolling-app.ts:81-102` | `Start`, `Spawn`, `Ready`, `NotReady`, `Unboot`, `Publish` |
| `deploy`, `rolling-app.ts:111-169` | `Deploy`, `PortBusy`, `Cutover`, `Verify`, `Drain`, `StopOld`, `Rollback`, `Reap` |
| `stop`, `:171-186`, and shutdown, `rolling-command.ts:85-105` | `Stop`, `Release`, `StopDrain`, `StopActive`, `Leave` |
| `recoverRollingGenerations`, `generation-registry.ts:153-217` | `RecoverChild`, `DeleteRecord` |
| processes and other applications | `Crash`, `Exit`, `Listen`, `Takeover`, `OtherLeaves` |

Abstractions: one hostname; a lease is the number of its wrapper; a health check
answers anything, possibly after the child exited; the reconciler and the
control endpoint only call recovery, `deploy` and `stop`. Locks are taken as
exclusive; finding 1 says when the operation lock is not.

- `RecordCoversChildren`: every running child is in the record, is being undone,
  or its wrapper died between spawning and recording it
  (`generation-registry.ts:117-121`). Nothing finds such a child.
- `StatusIsRouted`: while the status is `running` and nothing is under way, a route
  that the wrapper still holds leads to the active child.
- `StoppedOffRoute`: nobody drains or stops a child that its own wrapper routes.
  Both leave out what follows when a rollback cannot write the route (`torn`).
- `OthersRouteStands`: a rollback or a stop never changes a route that a forced
  registration took over.
- `OperationsEnd`: a launch, a deployment and a stop end.
- `OrphansAreCollected`: children a dead wrapper recorded are stopped and their
  record is deleted.
- `StopEndsChildren` (finding 3): stop leaves no recorded child running.

Bounds. `rolling_deploy` (119,375 states): two ports, as the code alternates
between neighbours; four children, enough for a launch, a cutover, a rollback
and the next wrapper; two wrappers and one crash; two faults, so that a rollback
can fail too; one takeover. Wrappers and children run out, so deadlock is not
checked. Fairness: `DeployStep` and `StopStep`, as every await has a deadline
and a stopped child is killed at last; `Recover`, as every rolling command and
the reconciler call it.

## Instance fleet

`InstanceFleet` starts with a launched fleet. `reconcile` and `scaleTo` exclude
each other and share the await `pc`; `stop` waits for them. `members` are the
ports of the member table, `healthy` those the table calls healthy, `proc` the
processes, `route` and `routed` what is registered.

| code | actions |
| --- | --- |
| `reconcile`, `instance-fleet.ts:124-256` | `Reconcile`, `Probe`, `Examine`, `Examined`, `Attempt`, `Pause`, `Ready`, `BootFails`, `Discard`, `Drain`, `StopOld`, `Restore`, `Finish` |
| `scaleTo`, `:258-315` | `Scale`, `BeginScale`, `Grow`, `Shrink` |
| `stop`, `:317-339` | `Stop`, `Release`, `StopMembers` |
| member exits, other applications, the restart window | `Exit`, `Takeover`, `Expire` |

The launch, the durable state file and the autoscaler's arithmetic are not
modelled: any target may be asked for.

- `NothingIsLost`: every child that may run is a member, the replacement or the
  member being replaced.
- `OnlyExcessLeaves`: while the lease is held, a healthy member leaves the route
  only when enough healthy members serve without it.
- `StopEnds`: stop ends with no child running.
- `DegradedIsRepaired`: a degraded fleet is repaired or stopped, unless it has lost
  its lease, has no free port, or serves with more members than are wanted: the
  code then waits for the next `scaleTo`. A spent budget only delays the repair.

Bounds (`fleet`, 877,529 states): four ports and targets of two or three leave
one port to replace on; one replacement per window makes the budget matter; two
troubles (an exit, a failed round of checks, a failed launch), one rescale, one
takeover, one failing drain. Fairness: `Step`, as awaits have deadlines;
`Reconcile`, the health timer (`instance-fleet.ts:251-256`); `Expire`, time.

## Startup state

`StartupJournal` has one action per change of a file and per look of a reader.
A journal is the set of its one record, with the files before and after.
`Starters` are proxies that start (and are run again after a crash), `Operators`
are `stop` and other commands.

| code | actions |
| --- | --- |
| discovery and the lock, `cli-utils.ts:264-276` | `Discover`, `Acquire` |
| `recoverStartupState`, `startup-journal.ts:83-119` | `Recover`, `Restore`, `ClearJournal` |
| publication, `startup-state.ts:60-99` | `Claim`, `Publish`, `PublishFails`, `Commit` |
| `stop`, `lifecycle.ts:95-138` | `StopSignal`, `StopMarker` |
| the committed read, `committed-state.ts:72-79` | `ReadBegin`, `ReadCommit`, `ReadEnd`, `ReadAgain` |
| processes, people | `Crash`, `Rerun`, `Exit`, `Edit` |

- `AllOrNothing`: a transaction ends with every file published or every file as
  before, through crashes of the publisher and of those who recover.
- `LiveOwnerStands`: nobody replaces a serving proxy's record, not even a start
  that finds its marker file gone.
- `ReadIsCurrent`: a record that a reader returns was in force during the read,
  unless a publication was undone meanwhile: a journal that comes and goes between
  the two looks for one is not noticed.
- `PendingEnds`: an interrupted publication is undone by whoever comes next. A
  file edited by hand makes recovery refuse, as the code intends, and so does a
  `stop` that read the marker before the publication and removes it during it.

Bounds (`journal`, 378,160 states): two starters, one operator, one reader; two
crashes, failing writes or edits of the marker file together, so that a recovery
can die too. Five files are the code's own number. Nothing happens for ever
here (a stopped proxy may stay stopped), so deadlock is not checked. Fairness:
`Work(p)` of each process, that is, commands end and operators run another one.

## Six components in one instance

`MC_Application` chooses in `Init` which of six components runs, so that one
instance (215,602 states in all) checks them; they share nothing. The
components end when their requests, reloads or restarts are used up, so deadlock
is not checked. Fairness is stated only for the three with liveness properties.

**`HotRuntime`** (1,150 states; two requests, three reloads). `Reload`,
`Attempt`, `PrepareFails`, `Prepared`, `Drained`, `Disposed`, `Close`,
`CloseCurrent` are `hot-runtime.ts:19-62` with `commands/server.ts:161-200`;
`Arrive`, `Answer` are `request-lifecycle.ts:19-61`.
`OneGeneration`: all but the answering generation and the one being drained have
been disposed, so repeated reloads leak nothing. `RequestsAreServed`: no response
under way loses its services, and no request is refused before close.

**`ReconciliationJob`** (two overlapping runs, two pages, four epochs).
`Acquire`, `ReadCursor`, `Reconcile`, `ReconcileFails`, `Checkpoint`, `Fail`,
`Restart` are `jobs.ts:94-181`; `Crash` and `Expire` the rest of the world.
`ProgressIsTrue`: the cursor and the status say no more than what was reconciled
in this epoch, although a run whose lease expired may still be writing.

**`QueryCache`** (9,126 states; two keys, one tagged, three loads). `Query`,
`Abort`, `Store`, `LoadFails`, `Set`, `Invalidate`, `InvalidateTag`, `Drop` are
`cache.ts:15-57`. `InvalidatedStaysOut`: a value whose load began before its key
was invalidated is not stored afterwards.

**`CampaignPlanner`** (153,457 states; three contacts in pages of two, two runs,
three commands, two failures). `Claim`, `ReadPage`, `SavePage`, `Recheck`,
`Ensure`, `Enqueue`, `SaveQueued`, `Conclude`, `GiveBack` are the awaits of
`campaigns.ts:138-193`; `Command` is `:124-137`. `PlanIsTrue`: the document counts
every contact up to its cursor once, what it counts as queued has a stored message
and a job, a completed campaign has reached everybody, and no run overrides a
pause or a cancellation. `CampaignEnds`: a campaign ends, or is paused or
cancelled. Fairness: the scheduled time comes, the lease of a run that died ends,
calls return, and somebody runs the planner again; `queue/campaigns.ts:11-27`
leaves that last to the host.

**`ManagedApp`** (858 states; two restarts a window, all three policies). `Launch`,
`Spawn`, `NotSpawned`, `TimeOut`, `Ready`, `Published`, `NotPublished`, `Gone`,
`Paused`, `Finish` are the awaits of the loop, `managed-app.ts:58-252`;
`AskRestart`, `AskStop`, `Unhealthy` arrive at any of them. `CommandsSettle`: a
stop leads to `stopped` with no child running and no route, and a restart to a
new child, the end or a stop. Fairness: the loop's awaits end, and a child that
was signalled is killed in the end.

**`ThreadPool`** (38,941 states; three tasks of which one cannot be posted and one
has a timeout; one to two threads; two failures; at most ten threads that have not
exited). `PoolStart`, `PoolRun`,
`PoolStop`, `StopReturns`, `Reply`, `ThreadErrs`, `ThreadExits`, `TimesOut` are
the methods and events of `worker.ts:95-292`; `dispatch` is a function of what the
pool holds (`Dispatched`). `EveryTaskIsHeld`: a task that has not settled is in
the queue once or with one thread that can still answer or exit. `TasksSettle`:
every task whose payload can be posted settles. Fairness: a handler ends, and a
thread that failed or was terminated exits. Every event may spawn a pool's worth of
threads twice, and the guard `Room` asks for that many unused numbers; with ten
(`MaxExisting`) it holds in every state of the run. Two assumptions are about callers:
`MaxThreads` is positive (`worker.ts:108-111` lets a pool of none through, and a
task of it waits for ever), and fewer payloads cannot be posted than there are
threads (the documentation asks for serializable payloads). That the process
outlives an exception thrown by `postMessage` is the work of the handler in
`bootstrap/exception.ts`.

## Findings

1. `lock_race`: **the lock of a live owner is removed.** A dies holding the lock.
   B and C both judge it stale and both pass the comparison on line 46. B
   unlinks it, creates its own lock and operates; C's `unlinkSync` on line 47
   removes B's lock, C creates one, and both operate. The comments on lines 2 and
   21-22 promise the opposite. `ExclusionUnlessStolen` shows that this is the
   only way exclusion is lost, together with the next finding.
2. `lock_unreadable`: **a live owner is judged dead.** The identity is read anew
   on lines 37, 39 and 42. When it cannot be read on line 37 and can on line 39,
   neither branch returns and the lock goes on to be removed, against the comment
   on lines 38-41. With one reading of the identity this cannot happen;
   `ReadableJudgement` proves the judgement right when identities are readable.
3. `rolling_stop`: **stop ends and its child runs on.** When the proxy cannot be
   asked for its connections, the wait on `rolling-app.ts:180` rejects and stop
   throws before it reaches `active.stop()`; `stopPromise` keeps the rejection, so
   asking again does not help. The comment on line 54 promises: "First withdraws
   the route, then drains and stops children."

The first two are in code that runs at every proxy start and every rolling
command. These were seen while modelling and are not findings of a run:

- `route-lock.ts:33-40` compares and removes in two steps, as the operation lock
  does, and a process that dies between `mkdir` and the owner file (`:59`) leaves a
  directory no recovery removes.
- `PoolStop` returns after all threads were told to end; a task run before it
  returns starts the pool again, and `worker.ts:193-195` then forgets the new
  threads. Their tasks still settle, as the threads' handlers are in place.
- `rolling-command.ts:111` ignores the exit of the active child while the phase is
  not `running`.
- A repair registers an intent with the scan's `scheduledAt`
  (`queue/recovery.ts:67`), which may differ from the producer's.
- `invalidateTag` reaches stored entries only, not loads under way
  (`network/cache.ts:54`); `remember` of `@zeruxjs/cache` promises nothing about
  concurrent writers.
- A passive success rehabilitates an isolated backend in `backend-pool.ts`,
  whose comment on line 150 speaks of a successful probe.

## What is proved

All theorems are for arbitrary sets of messages, workers, scanners, operators,
dispatchers, redrivers, processes and inodes, and for any value of the bounds.
They rest on the `ASSUME`s of each module: kinds of actors are disjoint, the null
values are not members of the sets, the bounds are numbers. TLC evaluates these
in every run.

- **Delivery.** `TypeCorrect`; then `Invariance`: `Inv` of `EmailDelivery_inv` is
  inductive. The safety properties are not: that a worker may submit follows only
  from what its program counter, token and loaded record say about the stored
  record. The parts are: a save that would be accepted replaces the record the
  actor decided on (`SnapshotInv`, `DecisionInv`); while the record carries an
  actor's token, the record is in that actor's phase, and tokens differ
  (`TokenInv`, `TokensDiffer`); an attempt about to submit is the only one and the
  first (`AttemptInv`, `SubmitsAlone`). Every accepted save changes the version,
  so all other loaded records become harmless in one lemma. `SendsOnce`,
  `RecordsBeforeSending`, `OutcomesAreTrue` and `AlertsAreRecorded` follow;
  `BarredStays` needs a second invariant (`BarredInv`): a bar never lifts, and a
  worker that passed a check before it no longer owns the record. `OutcomesStay`
  and `Refinement` follow from the ways a save can move a record.
- **Outbox.** `TypeCorrect`, and an invariant of two parts: the row that an
  actor's save would replace still has the status it loaded (`LoadedInv`), and a
  dispatcher settles as abandoned or published only with cause (`GoalInv`).
  `AbandonedStays`, `PublicationIsReal`, `PublicationsStay`.
- **Lock.** `TypeCorrect`, `Exclusion`, `NoLockIsLeft` by the invariant that an
  owner's path leads to the file it created until a live owner's lock is stolen,
  and that a held file is filled, so that release recognises it. `ReadableJudgement`
  assumes `MaxUnreadable = 0` and uses that the dead stay dead.
- **Rolling.** `Invariance`: `ControlInv` (at which awaits there is a wrapper, an
  active child, a deployment), `LeaseInv` (which leases are live), `RouteInv`
  (where a live lease's route leads at each await; the candidate and the active
  child have different ports, which needs at least two), `RecordCoversChildren`
  and `TypeOK`. None is inductive alone: that a child being stopped is off the
  route follows from what `Cutover`, `Rollback` and `Release` did several awaits
  earlier. `RecordCovers`, `StatusIsTrue`, `OffRouteFirst` and `OthersStand` follow.
- **Fleet.** `Invariance`: types, who is member, replacement and leaver at each
  await, and that what is stopped was released first. `NoChildIsLost`;
  `ExcessOnlyLeaves`, an action property whose hard case is `Shrink`: the members
  it retires are unhealthy, or there are more healthy ones than the target.
- **Cache, backfill, reload.** `InvalidatedStaysAway` needs that callers of a key
  share the load that is registered for it (`SharedInv`). `ProgressStaysTrue` needs
  that a token that still belongs to the document is this epoch's (`TokenInv`) and
  that the page such a run has read is the cursor's (`ReadInv`).
  `GenerationsAreDisposed` and `RequestsStayServed` need what each stage of a
  reload says about the generations (`StageInv`) and that there is room for
  another (`RoomInv`).
- **Thread pool.** `PoolInvariance`: whatever `dispatch` does, a task lies in one
  place, an idle thread is idle once and busy with nothing, only threads that
  exist are either (`Sound`); an open task is held (`OpenInv`); no more threads
  than the limit (`SizeInv`); after a stop that nobody overtook none is left
  (`StopInv`). The lemmas say of each helper (`Spawned`, `Assigned`, `Dispatched`, `Without`)
  that it keeps `Sound` and what it does to the tasks held, so that an event is
  the sum of its helpers. `TasksStayHeld` counts from there.
- **Startup state.** `Invariance`: one process at a time works under the lock, and
  the journal it publishes under is its own (`ControlInv`); while it publishes or
  restores, the files up to its place are done and the others untouched
  (`ProgressInv`). `TransactionsAreWhole` follows. `ReadsAreCurrent` needs
  `ReaderInv`: at each look of a reader the record it compares with is one of
  those in force, since a publication adds its own when it commits. `OwnersStand`
  assumes `Marked`, that nobody edits both a live proxy's marker and its record by
  hand: if somebody does, the next start rightly finds no trace of an owner, and
  TLC shows it.
- **Campaigns.** `PlanInvariance`: the counts of the document agree with the sets
  of contacts they count (`CountInv`); a run whose version is still the stored one
  knows what it is about to write, and that the campaign is running (`FreshInv`);
  the contact an overtaken run still handles is pending or has both its message
  and its job, so what it adds is no more than what is due (`TargetInv`).
  `PlanStaysTrue` follows: no second run, pause or cancellation between two
  awaits makes the document lie.

Only model-checked are the liveness properties, as fairness and ENABLED are beyond
the prover: `NothingStaysOpen`, `IntentIsServed`, `MessageIsServed`, `CallReturns`,
`OperationsEnd`, `OrphansAreCollected`, `StopEnds`, `DegradedIsRepaired`,
`PendingEnds`, `CampaignEnds`, `TasksSettle` and `CommandsSettle`, the only property
of `ManagedApp`. `LiveOwnerKeepsLock`, `StopEndsChildren` and, without readable
identities, `JudgedStaleIsDead` are false. No recursive operator and no induction
over data occurs in a theorem. Each inductive invariant was checked by TLC before it
was proved.

## Not modelled

The repository has some 90,000 lines of implementation, most of them with
nothing to interleave: validators (alone several thousand lines of overloads),
form libraries, query building, certificates, pages, formatting and code
generation are functions of one value. The models take up the parts where
several actors share state; they stand for a small share of the lines. Within
these parts, left out are:

- Formats, validation of arguments, audit and counters, paging and cursors.
- A store that is not linearizable: the interfaces demand atomic conditional
  updates (`delivery.ts:19`), and the models take them at their word.
- Schedules and attempts of an intent (immutable once registered).
- Errors of the file system other than those named above, and symbolic links.
- The route registry's directory lock, and the pruning of routes of dead
  processes; the proxy's data path, whose backend choice changes one counter.
- Process groups (`generation-registry.ts:155`) and how identities are read.
- The components marked `not_modelled` in `PROJECT.json`, with the reason there.

## Plan

1. `DeliveryPipeline`: `EmailDelivery` and `PublishOutbox` composed over one
   record, in place of the moves the outbox module now assumes; the promise that
   a registered message is submitted once or decided.
2. `RouteLock`, beside `OperationLock`, with a common abstract lock both are
   compared with; refinements for the outbox (an intent that is open, offered or
   closed) and the lock.
3. Imports of marketing contacts (`marketing-import-jobs.ts`) and inbound
   synchronisation (`inbound-sync.ts`), which have the shape of
   `ReconciliationJob`; `backend-pool.ts`; the client's reactive graph.
4. Proofs: the lifetime invariants that the liveness properties rest on (what a
   component that has not ended can do next), as far as they are state
   predicates; the refinements of item 2.
