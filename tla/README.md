# Orcastrata Max in TLA+

A verification project for `plugins/codexmax-orchestrator/scripts` of this
repository: TLA+ modules translated from the Python sources, TLC runs that
check them on small instances, and TLAPS proofs of the properties that matter
most for every instance. Paths below are relative to that directory unless
they say otherwise; documents named below are in `assets/contracts`.

## 1. The system

Orcastrata Max coordinates agents that work on one repository. There is no
server: every command is a short-lived process, several of which may run at
once, and all shared state is in JSON files and append-only JSONL ledgers,
guarded by `flock` locks and hash chains. Times are injected by the caller
(`--now`), and are read before any lock is obtained.

| Part | Sources | State it keeps | Operations | Talks to |
|---|---|---|---|---|
| Dispatch ledger | `dispatch_ledger.py` | rows chained by hash | strict append, idempotent batch append, verify, replay | written by scheduler, application, importers |
| Scheduler | `schedule_headless_dispatch.py` | none of its own: leases are ledger rows | plan, admit, release, recover, execution_unknown | reads broker, WorkGraph registry, Supervisor digest |
| WorkGraph claims | `workgraph_dependencies.py` | claim registry with fencing tokens | ready, claim, renew, release, retry, recover | its token is presented to admit |
| Preflight broker | `preflight_broker.py` | per key a probe lease or an observation, history | request_probe, record_observation, read_current_observation | read by scheduler and binder |
| Binding | `bind_scheduled_dispatch.py`, `compile_dispatch_*.py` | none (a binding receipt) | bind | re-reads ledger and broker under shared locks |
| Headless dispatch | `run_headless_provider_dispatch.py`, `provider_execution_backend.py` | evidence directory, authority marker, worktree, attempt journal, lease rows | run_dispatch | provider process; both custody stores |
| Application | `apply_scheduled_dispatch.py`, `compile/apply_role_lifecycle.py` | write-ahead recovery file, receipt | apply_scheduled_dispatch, compile and apply a lifecycle packet | Supervisor log and state, ledger |
| Supervisor | `run_goalbuddy_supervisor.py` | event log and state pair, prepared transition | initialize, apply | application, role lifecycle, recovery |
| Supervisor recovery | `recover_supervisor_runtime.py` | state, event log, cursor log, journal | controls, prepare, commit, recover, reconcile | the Supervisor's pair, GoalBuddy cursor |
| Standalone runtime | `runtime_execution_gateway.py`, `standalone_runtime_*.py` | effect state, operator binding record | preset, submit (run, cancel, recover), status | package host |
| GitHub effects | `github_*.py` | a state file per effect | issue effect, publish, repair, observe, guarded merge | GitHub API, `git` |
| WorkGraph board | `workgraph_updates.py`, `workgraph_goalbuddy_adapter.py`, `workgraph_migrate.py` | `state.yaml` and its sidecar `.goalbuddy-board`: the updates log, the adapter's journal, the migration's backups and journal | append a row, apply an update, recover; migrate, recover | GoalBuddy, which edits `state.yaml` |
| Other WorkGraph documents | `workgraph*.py` | graph, activity, notes | validate, append, read marks | |
| Provider fanout, scoped writes | `provider_fanout.py`, `run_provider_fanout.py`, `run_task_scoped_provider_write.py`, `provider_patch_application.py` | lane attempts, patches | run, recover, apply | provider processes, worktrees |
| Supported host | `supported_host_service_store_v1.py`, `supported_host_operation_sources_v1.py`, `supported_host_protected_service_v1.py` | the protected writer's log, the independent anchor's log, a journal per source owner | read a fact, acquire it from its owner, append and anchor it | service processes over sockets, an external observer |
| Loop registry, configuration, reports | the rest | see `PROJECT.json` | | |

What is hard in it:

* **Interleaving.** Operators and automation append to one ledger. A decision
  read from it (who is active, what is reserved, which token is newest) must
  still hold when the row is written. Some stores have no lock at all: the
  Supervisor's recovery store, the issue effect's and the publication's files.
* **Time.** Times may be behind the clock when a lock is finally obtained, so
  rows are not in time order and expiry can be misjudged in one direction.
* **Leases and fencing.** Leases do not end by expiry but only by a row; late
  owners meet recoverers; a recovery raises the token its successor needs.
* **Unknown executions.** A provider attempt, a POST, a PUT or a host action
  whose outcome is not known must be settled by observation, never repeated.
* **Crashes between files.** An application writes five files, a Supervisor
  event nine, a provider attempt two custody stores. Each write is atomic, the
  set is not.
* **Lost and late answers.** GitHub may perform a request whose caller has
  given up; the package host may answer after its caller was killed.
* **Several locks for one directory.** The adapter, the updates log and the
  migration each lock a file of their own, and GoalBuddy none; what one does in
  the sidecar the others see, or overwrite.
* **Several processes for one record.** A protected fact passes through the
  files of its owner, of the anchor and of the writer, each behind a process
  that is started for one exchange and may be killed in it.
* **What an operator saw.** A submission is made on a view; the state behind it
  moves while the submission is checked, reserved, executed and retained.

`PROJECT.json` lists every hazard found, at its line, with the properties that
would catch it.

## 2. Modules

| Module | Models | State | Actions |
|---|---|---|---|
| `DispatchLedger` | how readers see the ledger | (operators on a sequence of rows) | |
| `DispatchScheduler` | the scheduler | `ledger`, `clock` | `Admit`, `Release`, `Recover`, `ExecutionUnknown`, `QualityAccepted`, `Tick` |
| `WorkGraphClaims` | the claim registry | `claims`, `nextToken`, `clock` | `Claim`, `Renew`, `Release`, `Retry`, `Recover`, `Tick` |
| `ApplyDispatch` | one resumable application per Worker result or lifecycle packet, with what may happen between its invocations | `ledger`, `log`, `state`, `wal`, `receipt`, `board`, the running invocation | the writes of an invocation, its refusals and stops, packet compilation, and the operators' and the Supervisor's steps |
| `ResultApplication` | what an application promises (abstract) | `supervised`, `accepted`, `lease`, `unknown`, `receipted` | one per promise |
| `PreflightBroker` | the broker's entries and history | `entries`, `history`, `clock` | `ClaimProbe`, `RecordObservation` |
| `BoundDispatch` | scheduler, broker, binder and dispatchers together | the scheduler's and the broker's, `admission`, `bound`, `provider` | `AdmitCurrent`, `Schedule`, `Probe`, `Bind`, `Start`, `Spawn`, `Finish`, `Killed`, `TimePasses` |
| `ScopedAttempt` | source-local scoped-write dispatches, step by step, over their custody stores | evidence directory, lease file, authority markers, journal, worktree, published files, provider process and dispatcher of each attempt | one per durable write, check or process event |
| `SupervisorLanes` | which events a loop state accepts and what it becomes (pure) | | |
| `SupervisorLoop` | what the loop promises (abstract) | `loop`, `log` | `Apply` |
| `SupervisorRecovery` | the loop's files, the recovery store's files and the commands on both | the files, one record per running command | one per write of a command, `Stop`, and the readers' repairs |
| `GithubRemote` | GitHub as its callers meet it | issues, branch, pull request, requests under way | requests take effect, are answered or lost |
| `IssueEffect`, `PullRequestLifecycle`, `GuardedMerge` | the three effect adapters | their state files, where their executions are | one per write or request |
| `GithubEffects` | the three on one GitHub | all of these | |
| `EffectKernel` | the runtime's one locked effect execution | effect state, what the host was asked and did | `Invoke`, `Perform`, `Settle`, `Cut` |
| `OperatorControl` | submissions around the kernel | `record`, `call`, `made`, `effected` | `Submit`, `Check`, `Reserve`, `Execute`, `Replay`, `Observe`, `LoseSight`, `CutShort`, `Retain`, `Stop`, `ExecuteDirectly`, `HostPerforms` |
| `FactSource` | an owner's journal (`ownerJournal`) and the runner that serves it | the root's events and family state, the runner's scratch | acquire, publish file by file, kill |
| `FactStores` | the writer's and the anchor's log, their intents and the namespace lock | their files, where each anchor process stands | one per published or removed file |
| `ProtectedFacts` | reads of a fact across client, writer, runner and anchor | the above, `phase`, `requested`, `fact` of each read, `clock` | `Request`, `ReadFact`, `AcquireFact`, `Begin`, `Commit`, `Anchor`, `Corroborate`, refusals and kills |
| `WorkGraphUpdates` | the updates log, one lineage per update | `lineages` | `AppendRow` (by the adapter, or `AppendByHand`) |
| `GoalBuddyAdapter` | the application of an update to the board and its recovery | `board`, `journals`, `lockFile`, the process with the lock, `placed` | one per write or comparison, `Refuse`, kills, edits |
| `BoardMigration` | the migration of the board and its recovery | `backups`, `migration`, the process with its lock, what happened to the inventory | one per write or comparison, kills |
| `WorkGraphBoard` | the three on one board and sidecar | all of these | |
| `...Proofs` (8 modules) | theorems | | |
| `MC...` | instances for TLC | | |

`BoundDispatch` composes scheduler and broker, `GithubEffects` the three
adapters, `OperatorControl` extends the kernel, `SupervisorRecovery` runs the
lanes of `SupervisorLanes` behind two stores, `ProtectedFacts` extends
`FactStores` and that `FactSource`, `WorkGraphBoard` puts log, adapter and
migration on one sidecar. Two refinements are stated: `ApplyDispatch` implements
`ResultApplication`, `SupervisorRecovery` implements `SupervisorLoop`. (Every
step of `BoundDispatch` that touches the ledger is a scheduler step by its
definition, so that it refines the scheduler is no result, only a lemma.)

How the models correspond to the code:

* **A command is one step** where the code holds an exclusive lock from its
  first read to its only write: every scheduler command (`.scheduler.lock`) and
  every registry mutation (`_mutate`). Where a command writes several files,
  sends a request or holds no lock, each of these is a step, and the process may
  stop between any two.
* **The ledger is a sequence of rows.** The hash chain is verified before every
  append, so its content is the order of the sequence. A row's identifier is a
  digest of its fields: two rows with equal fields cannot both be appended
  (`Appendable`). In the scheduler model a row carries what readers compare:
  type, lease, token, times, task, envelope, route, evidence path and reason.
* **The plan is part of `Admit`.** `admit` recomputes the plan under the lock;
  eligibility, the diversity window and the ranking are the operators
  `Eligible`, `Window` and `RanksBefore`. Candidates come compiled
  (`Offers`): the broker's observation of a route, authority and policy
  documents decide which candidates are offered and are not modelled here.
  Write scopes are sets of the regions they cover.
* **The graph is an input of the registry.** `View` holds the graphs and
  satisfactions a caller may present; blocked and unsatisfied items are decided
  from it in `Ready`. Paths are sequences of segments, overlap is the prefix
  relation, as in `paths_overlap`.
* **The broker's operations are one step each** (`_mutate` holds the state's
  lock from read to replace). Its cursor, the digest of the whole state, is the
  length of the history: every change appends one event. The scheduler reads the
  broker before it appends its row. A broker step between the two can be moved
  after the row, because the row names the cursor that was read: reading and
  appending are one step.
* **In `BoundDispatch` the broker vouches for an offer.** An offer is admitted
  only when each of its routes has a current and callable observation then
  (`Vouched`). The code binds a candidate to a broker cursor when it is compiled
  and refuses it when the cursor has moved; a candidate that is not refused is
  one compiled at the admission, which is what the model offers. Dropping the
  candidates the broker does not vouch for is choosing a smaller offer, which
  `OffersAssumption` says is one too.
* **The dispatcher's deadline limits time.** The adapters with an execution
  profile capture an absolute deadline below the lease's expiry; `_terminate`
  waits up to 0.5 s after each of its two signals, so the captured deadline
  leaves a guard (`Guard`). `TimePasses` does not pass the deadline of a running
  provider: a dispatcher that lives stops it in time. A killed dispatcher does
  not; its process is an orphan, no longer `running` in the model (section 5).
* **A dispatcher of `ScopedAttempt` has a place** between two durable writes.
  Each write may fail with or without effect, each check may fail, and `Stop`
  may come anywhere; a provider whose dispatcher stopped goes on writing.
* **Lifecycle packets are applications** that reuse the Worker application's
  locks, recovery file and ledger stages (`_apply_supervisor_locked`,
  `_finalize_ledger_locked`, `_update_recovery_stage`). A tester, documenter or
  auditor packet has a lease and all four ledger stages; a control packet
  (Worker self-test, candidate closeout) has none, holds the Supervisor's lock
  only, so that operators may write the ledger meanwhile, and goes from its
  event straight to its receipt. A packet may be compiled again until its
  recovery file exists.
* **In `ApplyDispatch` a Supervisor state is identified by the number of log
  records it reflects.** It carries the last record's hash, so equal cursors
  mean equal prefixes; the snapshots of the recovery file are the states after
  the next events. Other Supervisor events are appended by the same two writes.
* **An event file has a fixed content** in the Supervisor's modules (`Terms`,
  `Content`): the lane rules decide which of them a state accepts. Artifacts
  are paths, routes and profiles are folded into the terms of an assignment.
  A write scope is the set of regions its patterns cover, and scopes overlap when
  they share one. The code compares the fixed beginnings of the patterns
  (`run_goalbuddy_supervisor.py:635`), while a path is allowed by matching the
  pattern from the right (`:422`): patterns that begin differently and yet match
  one file would be judged disjoint. What the model says of overlapping writers
  is for patterns whose comparison agrees with what they match.
* **In `SupervisorRecovery` what a command reads it reads in one step.** No
  lock protects the recovery store; a read torn by another writer fails a chain
  or digest check and ends in refusal, which leaves no step. A log is known by
  the state its last record names and by whether its chain is sound.
* **A GitHub request is on its way for a while.** It takes effect or is refused
  later, also after its caller was killed or timed out, or never. A merge's PUT
  pins the head and not the base, so both the audited head and what happened to
  the board are checked against what GitHub finally did.
* **The host is faithful, its answers are not timely.** The kernel asks while it
  holds the effect lock; the host may perform what it was asked after the caller
  was killed. A view is the pair of binding record and state version, from which
  the projection digest and the nonce are derived.
* **A process of the supported host is its reader's.** Every exchange of a read
  has a writer, a runner or an anchor process of its own, so their places are
  functions of the reader, and only files and locks are shared. Each published
  file is a step; one that is killed while publishing may leave its temporary
  name, which later readers of a directory refuse. A command sent to the anchor
  is performed although its writer was killed. A fact is known by its
  observation, the time of its derivation and its place in the journal, which is
  what the digest that names its record covers.
* **A board is its schema version and its marks.** Every patch is a mark of its
  update, every edit of GoalBuddy sets a mark or takes one away, so that a board
  may also come back to what it was; hashes are equality of boards. `placed` is
  history: the marks that the adapter put there and nobody has replaced since.
* **The inventory of a migration is what happened since its backup.** It lists
  device, inode and digest of every file of the sidecar but three, so a file
  that was replaced or added is seen for ever (that an inode number might come
  back is left out). `intact` remembers writes of others, `soiled` what the
  migration's own kills left. An exception of the adapter after a write leaves
  what a kill there leaves.
* **Wrong variants.** Definitions introduced by "Wrong:" are plausible mistakes
  (an off-by-one, a dropped check). They are used by nothing; each property is
  tried against one of them to see that it would notice.

## 3. Runs

| Run | Question | Bounds |
|---|---|---|
| `scheduler` | Do capacity, budgets, writer isolation and fencing survive any interleaving, and can no lease be wedged? | a displaceable reader and three writers of 2 tasks, 2 routes of 2 groups, 3 leases, tokens 1..2, 3 rows before endings, clock 0..2, times up to 1 behind |
| `claims_live` | Does the registry's own verification never refuse a legal operation, and does an expired claim with an attempt left end? | 2 items with overlapping scopes, 2 holders, 2 claims plus recoveries, clock 0..3, times up to 1 behind |
| `apply_crash` | Is an application a transaction across crashes, and does it end? | one Worker result of 2 events, one packet with and one without a lease, 2 stops, 1 foreign event, which may tear the pair |
| `scoped_custody` | Is one provider started per authority, do the custody stores agree, and is a published result settled? | 2 dispatchers, 2 attempts under 1 authority record |
| `bound_dispatch` | Do grants rest on fresh evidence, and is a provider gone before its lease is taken? | 2 overlapping writers of one task, 1 route, 2 probe owners, observations of 2, leases of 2, guard 1, 3 rows, 2 broker events, clock 0..4, times up to 1 behind |
| `recovery_handshake` | Do the two stores stay explained by each other, does each written event settle, and is all of it one loop? | 2 processes, 3 loop events, 5 controls, 1 race, 1 crash |
| `recovery_lanes` | Are writers apart, is done verified, is nothing given back? | 2 lanes from assignment to closeout with a repair and a dependency, 1 process, 1 crash |
| `github_effects` | Is an issue created once, a publication what was recorded, a merge what was audited, an unknown merge never repeated and finally settled? | 2 issue executions, 1 publisher, 2 merge tasks with different audited heads, 2 commits, 1 pull request, 1 stop |
| `protected_facts` | Do the two logs agree whatever is killed, does every record rest on its owner's journal, and does every read end? | 2 clients, 2 observations, 2 reads, 2 kills, facts that live for 1, clock 0..1 |
| `operator_effects` | Is every effect accounted for, does the record trail the state and never go back, does a submission act once? | 1 Run and 2 Cancel submissions, 2 calls, 2 keys, 2 runs, 1 execution cut short |
| `workgraph_board` | Is every update on the board accounted for, is no application overwritten by another, and do recoveries close every journal? | 2 updates, one with every course a Parent may give it, 1 journal name, 1 mark of GoalBuddy, 1 edit, 1 kill, 1 migration |
| `migration_own_files` | (violation) Does a migration that was killed as it wrote its journal recover? | as above, no edit |

Why the bounds are enough. The scheduler's checks are about the leases active
at once (limits of 1 and 2, so 3 leases reach and would pass every limit) and
about what any earlier row says (an earlier grant, its end and a later grant
are 3 rows). A registry conflict is between two claims, a chain of attempts is
long enough at two links with a limit of two attempts. An application's
invocation interacts with the files only, and every set of files a stop can
leave is reached with one stop; the second stops a retry. The three kinds of
application differ in what they lock and in which stages they have, and one of
each competes here; `apply_crash` was also tried with two leases and with one
packet kind at a time. Attempts meet at their authority record only and
dispatchers at their attempt only, in pairs. `bound_dispatch` has room for a
grant, its recovery and the successor's grant with both processes alive, which
is what its properties compare; an observation, a grant and a lease all expire
in it. In the recovery store a process meets what one other process or one
crash left; the third loop event comes after both were repaired. On GitHub a
merge competes with one other merge of the same pull request and with one
publication; with two commits the audited head may be older or newer than the
head. A submission meets the one that overlaps it and the one that came before
it; three submissions give each pair of actions. Two reads of a fact overlap
or follow each other, before or after it has expired, and two kills are a
failure and the failure of what comes to continue it; a third record, in which a
stale anchor process could meet a newer intent, is out of reach (see the
observations). On the board an application meets one other application, one
edit, one decision on its lineage and one migration, each before or after any of
its writes; one kill leaves a journal, and what is recovered is not killed
again, because recovery repeats only steps that an application has. Safety was
also tried with two names for journals. `MaxRows` and `MaxClaims`
bound what starts something; rows that end something may exceed them, so that
a bound never wedges the model.

What a run does not reach rests on a theorem: the global, provider and host
limits (`CapacityHolds`; in `scheduler` the route's, the writers' and the small
allowance's limits bind first), the token capacity (`BudgetHolds`), the
replacement of an observation by a newer one (`ProbesAreSingle`,
`GrantsAreFresh`), a successor that runs after a recovery
(`ProvidersStayApart`), and two journals of one board (`EveryWriteAccounted`).
With two lanes the limit of two writers never binds in `recovery_lanes`, only
the overlap of their scopes does, and with one process nothing races there.

Deadlock checking is off in every run: an exhausted bound stops the model, and
the real system may stop as well, because commands are issued from outside.

### Fairness

* `scheduler`, `claims_live`: time passes (`WF(Tick)`) and somebody tries
  to recover each lease or claim (`WF` of its recovery), which is what the
  contracts ask of operators (`dispatch-scheduling.md`, "Leases"). Nothing is
  assumed of the owners.
* `apply_crash`: a process that runs goes on unless it stops, and `SF` of the
  retry of each prepared application: `flock` is not a queue, but it does not
  starve one caller for ever while others come and go finitely often. Stops are
  finitely many by their bound.
* `recovery_handshake`: a command that has begun goes on unless it is killed
  (`WF` of its writes), and a caller that is told `recovery_commit_pending`
  repeats its event (`WF` of the retry), as the error asks.
* `github_effects`: a caller that is told `merge_reconciliation_required` calls
  again, and a call that is not cut short ends.
* `protected_facts`: a started process runs on unless it is killed (`WF` of its
  steps; a killed or refusing process releases its locks, and reads are finitely
  many, so a waiter on a `flock` gets it). Nothing makes a client ask.
* `workgraph_board`, `migration_own_files`: a process that is not killed goes on
  (`WF` of its steps: the locks are released by every end, and the steps of
  others that come between are finitely many), and recovery is called again
  while a journal is open (`WF`), as the error `adapter_recovery_required` and
  its counterpart of the migration ask. Nothing makes anybody apply, decide,
  edit or migrate.
* The other runs check safety only. That a live dispatcher of `bound_dispatch`
  meets its deadline is the guard of `TimePasses`, not a fairness condition.

### Finding

`migration_own_files`: `workgraph-migrations.md:45` says that the migrator's
temporary paths do not count as history; `_excluded` knows lock, journal and
backups only. A migration killed between the creation of the journal's temporary
file and its replacement leaves a file that makes every later recovery refuse
with `migration_history_divergent`, and a new migration with
`migration_recovery_required`.

### Observations

Met while modelling, read from the code and in part from traces of the models;
no run is kept for them.

* **Applications.** A retry stopped between the release row and the receipt
  fails closed after any other Supervisor event, with the lease released and no
  receipt, where `dispatch-application.md:41` says that it fails closed with the
  lease retained. `apply_role_lifecycle` compares the Supervisor's state with
  its log in the compilation before the lock, and not again under it (the
  Worker application does). If another writer tears the pair between the two,
  the application prepares a recovery file that no retry can complete. The
  model's `Overtaken` exempts it; without the exemption `PreparedIsReceipted`
  fails.
* **Claims.** At the last attempt (`retry.max_attempts`, 1 by default) an expired
  claim can be neither renewed, released, retried nor recovered: it blocks its
  item and overlapping scopes for ever, while `_reasons` tells callers to recover
  it; `RecoverableClaimsEnd` speaks of claims with an attempt left. After a
  renewal, repeating the original request is refused as a reuse of its identifier, where `workgraph-dependencies.md:67` says that the
  same request returns the original claim. After a release a fresh claim starts
  again at attempt 1: the retry limit bounds a chain of recoveries, not an item.
* **Scoped attempts.** `provider_execution_backend.py:171` says that any
  interrupted consuming state becomes unknown; the branch that does so is
  behind the single-use evidence directory, lease file and authority marker, all
  of which then exist. The journal stays consuming.
* **Supervisor lanes.** The repair count is checked against the prior
  assignment's cap only, not the original's (`supervisor-execution-loop.md`,
  "Repair count never exceeds the original assignment retry cap"); reserved
  artifact paths are not checked by a first assignment.
* **Supervisor recovery.** `_repair_authorization_use` judges by the phase of
  the loop and the lane that was touched last: after an event of another lane a
  repair is prepared without an authorization, and two lanes under repair wedge
  the loop. Pausing or stopping races an unlocked apply that has passed its
  check. While a transition is pending every control is refused. A crash
  between an event record and its cursor record, or between a loop event and
  the loop state, is never repaired: every later command refuses.
* **GitHub.** `github-pr-lifecycle-v1.md` says that an unknown create outcome
  cannot cause another POST: two overlapping executions of one publication,
  which the code does not exclude, may send two. A crash between a commit and its
  record leaves
  `no_changes` refusals; a repair whose push fails leaves a pull request whose
  head is not the recorded one and which is refused from then on; a PUT that
  timed out may merge after `reconciled_unmerged` was recorded.
* **Standalone runtime.** An unobserved recover writes an invalid state shape:
  the write is refused, nothing is retained, and each retry asks the host again
  (`effect-kernel.md` says that it seals `execution_unknown`). Cancel stays
  enabled while a submission is pending; the reservation of a second cancel
  overwrites the first's, whose retention then fails, and the record lags for
  good. A first Run has no reservation: a crash between its execution and its
  record leaves a run that no control reaches, and when it is delivered twice the
  later retention replaces whatever the record has become, with the completed
  submissions it listed. That is the one exception of `RecordMovesOn`, which
  fails without it.
* **WorkGraph board.** Once the adapter has read the log, a Parent may still
  supersede the update, or append an applied row of its own: the board is
  written, and recovery fails for ever with `adapter_applied_append_failed`,
  where `workgraph-goalbuddy-adapter.md:149` says that it appends any missing
  applied row (`Overruled` in `RecoverySettles`). A journal left open refuses
  every later application under its name, also when GoalBuddy edited the board
  at the boundary and recovery can only report `adapter_board_diverged`; the name is the
  caller's, so that another name passes. The contract of the migration requires
  whoever writes history to take its lock; neither the adapter nor the log does.
  One proposal during a migration makes it impossible to complete, and a
  migration may replace a board that an application wrote after the last
  comparison. Even a refused call of the adapter, if it is the first,
  creates a lock file that the inventory counts.
* **Supported host.** On the live path nothing continues an interrupted append:
  the code that does (`recover` of `SourceLocalInProcessAnchorGateway`) is built
  by tests only, so an intent left behind blocks its namespace for good, and the
  value of `LogsAgree` is that a continuation would still be possible. The
  runner answers before its root holds what it answered with, where
  `supported-host-protected-service-v1.md` (T096) says that a runner retains
  each required export before it returns its response; killed in between, the
  record has no source in the journal and the observation is derived again
  under another identifier (`lost` in `RecordsHaveSources`). An exception in the
  runner discards its scratch with the raw event, where
  `supported-host-operation-sources-v1.md:119` says that a failure leaves a reviewable raw
  event. A kill between the publication of a decision and of
  `family-state.json`, or one that leaves a temporary name among the events,
  makes every later start refuse. Two reads that overlap, or a read whose
  request is older than the other's fact, record two current facts; every read
  is then refused until one expires. Anchor processes take no lock: with a third
  record, one that was delayed between its read and its head write could put the
  head back.

## 4. Proofs

Every theorem says something of every instance: any number of leases, holders,
attempts, processes, lanes, requests and stops.

**Scheduler** (`DispatchProofs`). Assumption: `ConstantsAssumption` (shapes of
the constants; limits, units, token counts and allowances are naturals, a route
has at most one token count; a positive ttl).

* `TypeCorrect` by induction over the actions.
* `HistoryInv` is the inductive invariant of the ledger's history:
  grants of distinct leases, envelopes and evidence paths; nothing after a
  terminal row; tokens of a task never regress at a grant; the row of a recovery
  has a token above its grant's. One lemma says how one appended row changes the
  active rows (`ActiveRows` of an extended sequence), and each action is a case
  of it. `GrantedAtMostOnce`, `SettledAtMostOnce`, `TokensNeverRegress`,
  `RecoveredOwnersFenced` and `NeverReclaimedBeforeExpiry` follow from it.
* `CapacityHolds` and `WritersHold` need that the held leases are the active
  ones (because nothing follows a terminal row) and that an admission adds one
  element to a finite set whose size was below the limit.
* `IndependenceHolds` is an invariant over pairs of held leases.
* `BudgetHolds`: what the held leases have reserved of an allowance and of the
  token capacity stays within it. The sums are folds over finite sets, whose
  defining function is chosen; the library's theorems on folds and on induction
  take operators as parameters. So the lemmas on sums (such a function exists
  on the subsets of a finite set, any element may be taken first, what one more
  element adds, equal summands give equal sums) are proved of the function
  itself, as statements on all subsets of at most a size: the sizes for which
  they fail have no least one, by the well-foundedness of the order of naturals.

**Claims** (`WorkGraphProofs`). Assumption: `ClaimsAssumption`.

* `RegistryInv == TypeOK /\ Verified(claims, nextToken)` is inductive: what the
  registry verifies before each write is what makes the next operation
  verify. `StepShape` reduces every operation to two shapes, an update of one
  active claim and an update plus one new claim (`Grown`), and each conjunct of
  `Verified` is preserved by both.
* From it: `EndedArePreserved`, `OnlyNewestIsActive`, `RecoveredWereExpired`,
  `AttemptsStayWithinPolicy`, `AttemptsAreChained`, `NeverRefused`.

**WorkGraph board** (`WorkGraphProofs`). The invariant `BoardInv` has a part for
the adapter and one for the migration's types.

* Of the adapter: at most one process has its lock (`Alone`), and at each of its
  steps it knows how far its journal is, whether its applied row is in the log,
  and that the board it is about to replace has all that was placed
  (`JobsKnow`). What the adapter has placed is on the board until somebody
  takes it off (`PlacedIsThere`), and has its applied row or an open journal
  (`WrittenIsAccounted`). A journal is of an update that its base does not have,
  and is closed as written only when the log says so too (`JournalsTell`).
* The migration can replace the board, and touches nothing else of what the
  adapter's invariant is about; its other steps are stutters of the adapter.
* From it: `EveryWriteAccounted` and `NoApplicationIsLost`.

**Application** (`ApplyDispatchProofs`).

* `Inv` is what the files can be trusted for, whoever stopped where. A row of an
  application stands on the recovery file that dates it (`RowsArePrepared`) and
  on the row of the stage before (`RowsInOrder`), a receipt on a supervised
  result (`ReceiptsAreSupervised`); a record of an application lies behind the
  place its recovery file remembers (`RecordsArePrepared`); and what the running
  invocation has found out on its way still holds (`InvocationKnows`), because
  its locks keep the others from the files it read.
* From it: `StagesInOrder`, `OnlyOwnRepairs` (a property of steps: only the
  writer that logged a Supervisor record writes the state that reflects it), and
  `FilesImplementPromise`, the refinement of `ResultApplication`: each file an
  invocation writes keeps one promise or none, in the promises' order.

**Scoped attempts** (`CustodyProofs`).

* The argument: the evidence directory, made with an exclusive `mkdir`, gives an
  attempt to one dispatcher for good. So what the stores may hold is a function
  of that dispatcher's place, and once it is gone they change no more (only an
  orphaned provider may still write its worktree). `Invariance` proves this
  correspondence inductive, one case per step of the dispatcher and one lemma
  per group of steps.
* From it: `StartsOnce` (an authority record pays for one process),
  `PublishedSettled`, `FailedClean`, `NoContradiction`.

**Protected facts** (`CustodyProofs`). Two invariants, and what each fact on its
way rests on.

* Of the stores (`StoreInv`): whatever an anchor process was ever asked to
  retain, whoever asked and whoever of them still lives, is an event of the
  writer or is its intent, to be the next event (`EntriesKnown`). So the next
  record of the anchor can only be the next event, however many processes
  complete one intent at once. The one that has the namespace lock finds nothing
  in progress when it takes it, and all settled when it gives it back, because
  the event is written only after the anchor's receipt; a kill leaves the intent,
  which stops the next append, and not the lock.
* Of the source (`SourceInv`): a runner's scratch continues the journal it was
  copied from, and each derives an observation once, so that the runner's answer
  is determined. `AllSourced`: what a read has acquired, the intent and every
  event come from the journal, from the scratch, or from one that was lost with
  its runner.
* From them: `FactsTypeCorrect`, `BothLogsAgree` and `RecordsAreSourced`, for any
  number of reads, observations and kills. The anchor's head is not among the
  conclusions: with a third record a delayed process may put it back.

**Bound dispatch** (`DispatchProofs`). Assumptions: the scheduler's,
`DispatchAssumption` (the guard and the observations' durations are positive)
and `OffersAssumption` (an offer less the candidates of some routes is an offer).

* A lemma (`SchedulerSteps`) carries the scheduler's theorems over: every step is
  a step of `DispatchScheduler` or leaves its variables alone, by the form of the
  actions. The proofs below use its `HistoryInv` instead of proving it again.
* `DispatchInvariant`: a dispatched lease has exactly the grant it was bound to;
  a running provider is at least a guard away from the expiry of its lease; a
  recovery comes at or after it. Neither side ever looks at the other, so the
  proof has to carry the relation of each to the clock.
* `RecoveredAreStopped` follows because the guard is at least 1, and
  `ProvidersStayApart` from it and the scheduler's `WritersHold`: if two
  overlapping writers run and neither lease was released, neither was recovered
  either, so both are held, which the scheduler excludes.
* `BrokerInv`: the history explains every entry (`BrokerHistoryCorrect`), the
  last observation of a key in it is the one in its entry, and an observation is
  as long as one of the durations. `ProbesAreSingle` follows, a property of
  steps.
* `GrantsAreFresh`: the cursor an admission named says how much of the history
  the broker had then. Later events do not change that part, so a grant rests
  for good on an observation that was the newest of its route and had not
  expired (`AdmissionInv`).

**Supervisor** (`SupervisorLoopProofs`, `SupervisorRecoveryProofs`).

* The loop first, without its files. `LaneInv` says what a lane in each phase
  has behind it (its assignment, its passed verdicts, its repairs); with it
  `WritersKeptApart`, `DoneMeansVerified` and `AssignmentsNeverReused` are
  consequences of the rules of `SupervisorLanes`.
* Then the files. The invariant of the recovery module says where the loop's
  log and state may differ and what the process that is between the two writes
  holds. `FilesImplementLoop` maps the loop's log to the promise and every
  write to a step of it or a stutter; the three properties of the loop are
  inherited through the refinement, not proved again, so they hold with crashes
  and with any number of processes in the recovery store.
* Then the recovery store. While no two commands have overlapped on it, at most
  one process changes it, and the place of that process, or the journal that a
  crash has left, determines which of its files are those before the change and
  which those after it (`StoreInv`). From it `FilesExplainOneAnother`,
  `OnlyPreparedIsWritten` and `NothingIsGivenBack`.

**GitHub** (`GithubEffectsProofs`). The inductive invariant has one part per
adapter, each relating the state file, the execution and the requests still
under way.

* `OneIssue`: the state file is created exclusively before the one POST and is
  never removed, so of any number of overlapping executions one posts.
  `PublishedIsRecorded`: what is published is the commit the state file records.
* `MergedIsAudited`: what GitHub merges is the head the audit bound, because the
  PUT pins it, whatever is pushed in between. `MergeNotRetried`: while a PUT's
  outcome is owed no other PUT of the task is sent.

**Operator control** (`OperatorControlProofs`). The kernel's part (`KernelInv`)
is preserved by its five moves; around it `LockInv`, `CallInv`, `RecordInv` and
`EffectInv` say who holds the lock, what a call has in hand, how far the record
is behind the state, and which submission an effect belongs to.

* From it: `EveryEffectAccounted` (what the host did is in a receipt, is in
  progress, or was cut), `EndedStay`, `RecordTrails`, `RecordOnlyMovesOn`,
  `SubmissionsActOnce`, `ReceiptsAreOrdered`, and `NeverRetainsUnknown`, which justifies that Recover
  is not a step of the model: it needs a retained `execution_unknown`, and no
  submission leaves one in the record.
* `RecordOnlyMovesOn` needs that a call's receipt was asked for with the authority
  of the record it read (`Sound`): then it is the one next to that record's, and
  the reservation says that no other was retained in between.

**What stays with TLC.** Every safety invariant, action property and refinement
that a passing run checks is a theorem. The liveness properties are
model-checked only, because liveness under fairness needs `ENABLED`, which is
out of the prover's reach: `EveryLeaseEnds`, `RecoverableClaimsEnd`,
`PreparedIsReceipted`, `PendingSettles`, `PendingMergeSettles`, `ReadsEnd` and
`RecoverySettles`. Some theorems state what no run checks, because they cover
every instance: the type invariants, the inductive invariants a reader may want
(`HistoryCorrect`, `RegistryCorrect`, `DispatchInvariant`), the scheduler's
`GrantedAtMostOnce`, `SettledAtMostOnce`, `TokensNeverRegress`,
`IndependenceHolds` and `NeverReclaimedBeforeExpiry`, the broker's
`ProbesAreSingle`, the registry's `EndedArePreserved`, `OnlyNewestIsActive`,
`RecoveredWereExpired`, `AttemptsStayWithinPolicy` and `AttemptsAreChained`, and
`NoContradiction`, `ReceiptsAreOrdered`, `EndedStay`, `NeverRetainsUnknown` and
`FilesNeverReuseAssignments`.

## 5. Not modelled

* **Content.** Schemas, digests, canonical JSON, path aliases, file modes and
  ownership. A document that fails validation is a command that does nothing.
* **Torn writes inside one file.** Rows and files are appended or replaced as a
  whole. A short write of a ledger row leaves a line that every later reader
  refuses, and no operation repairs it: the model would only stop. The
  idempotent batch import is called by `project_usage.py` alone, for usage rows
  that no lease depends on.
* **Application.** Boards of a `T006` recovery use other control files. What the
  role-lifecycle compilers check of artifacts and receipts is content; the
  terminal lifecycle projects finished work.
* **Dispatch.** Dispatches that are not source-local scoped writes: read-only and
  isolated live attempts, the native and the legacy adapters (their timeout is
  not tied to the lease), the tool-loop journal of one provider. The orphan of a
  killed dispatcher in `BoundDispatch`: the code starts a provider in a session
  of its own and nothing ends it when its dispatcher is killed, so no bound on
  it can be stated; `ScopedAttempt` does model that it goes on writing.
* **Supervisor.** Artifact files, the synchronous runtime and the parent's
  continuity report; the migration of a recovery state of the first schema and
  the recovery context document.
* **Standalone runtime.** Preset selection, fixtures, projections and rendering.
  Recover is not a step, because it needs a retained `execution_unknown`, which
  no submission leaves (`NeverRetainsUnknown`).
* **GitHub.** The read adapter is what the models see; the umbrella catalog and
  the projections only render. Two overlapping executions of one publication,
  which no lock excludes: the model takes the claim's holder to run one at a
  time (listed as a hazard without a property).
* **Supported host.** Revocation and consumption of facts and the artifact
  exchange between owners, which reading a fact does not reach; the family
  engines, credentials, transport, deployment and the lifecycle executor; the
  in-process gateway and journey of the tests; a second request of one channel,
  which a channel refuses. A read of a file between two steps of another process
  is a refusal.
* **Provider fanout.** The command line rejects live fanout, so its retry of a
  lane that failed before its spawn cannot be reached. Met while reading:
  an admission that fails gives an attempt record without a lease, which
  `validate_attempt_record` refuses, so the run aborts without a record; a
  failure that is certain is recorded as `execution_unknown`; and
  `provider-fanout-v1.md` ("Retry Boundary") allows what
  `retained_evidence_requires_recovery` refuses.
* **Scoped patches.** `provider_patch_application` restores the files it has
  replaced when a later one fails, but not the one whose own overwrite failed
  half-way. It is one sequential function with no other actor.
* **WorkGraph.** The graph, its validation and projection, and the activity and
  notes logs with their read marks: each is one check and one locked append. The
  content of a patch: a board that is not canonical is a call that does nothing.
* **Visible dispatch, loop registry, routing and policy,
  reports, release tooling, the local loop.** One check and one locked append or
  replacement of one document, pure projections, or resolution of configuration;
  `PROJECT.json` gives the reason for each.

## 6. Plan

Done: the scheduler over the ledger, the claims, the application as a
crash-safe transaction, the broker with admission, binding and dispatch, the
scoped attempt, the Supervisor's loop and its recovery store, the GitHub
effects, the runtime's effect kernel with the operator's submissions, the fact
stores of the supported host, and the WorkGraph board. Each of them has an
inductive invariant proved, and every safety property of the runs follows.

Left, in this order:

1. The lease lifecycle as an abstract specification that the scheduler
   implements and that dispatch and application use in its place.
2. A third record in the fact stores, with a stale anchor process, and what can
   still be said of the anchor's head then; revocation and consumption, which
   bring the lifecycle executor.
3. The migration's own promise (a completed migration has lost nothing that its
   inventory lists) as an invariant of `BoardMigration`; provider fanout once it
   may run live, and the rollback of scoped patches.
4. Torn rows in `DispatchLedger`, if a repair is ever added to the code.
