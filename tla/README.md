# NodeChain: a TLA+ verification project

NodeChain (`src/`) runs chains of nodes (planner, search, evaluators, writers)
under a runtime that persists every step, asks people for reviews, journals the
external side effects of nodes, lets operators recover what a crash left behind,
and deploys what was produced to a target it can only ask.  This project models the parts of that runtime where several actors
write the same durable state and any of them may die between two writes.  TLC
checks the models on small instances; TLAPS proves every safety property that a
passing run checks, for instances of any size (section 10).  The liveness properties
are checked by TLC alone.

Paths below are relative to `src/src/nodechain/` unless they start with `src/`.

## 1. Inventory

### Components, their state and their operations

| Component | State | Operations | Modelled in |
|---|---|---|---|
| Orchestrator (`runtime/orchestrator.py`) | the live `ChainState`, the execution order, an index into it, the step counter | `run`, `resume`, `approve_budget_increase`, `_pause_for_budget`, `_fail_chain`, branch execution | `ChainRun`; fan-outs in `BranchRun` |
| Graph scheduler, loop enforcer (`runtime/scheduler.py`, `runtime/loop_enforcer.py`) | `loop_iterations` in the live state | exhaustion, loop-back, order rebuilding, revision routing, branch selection | `ChainRun`, `BranchRun` (selection) |
| Failure manager (`runtime/failure_manager.py`) | one retry counter per node, in memory | retry, skip and continue, escalate | `ChainRun` |
| Review manager (`runtime/review_manager.py`) | review wait in the state row | request, approve, reject, revise, time out, pause | `ChainRun` |
| Persistence coordinator, state manager (`runtime/persistence.py`, `core/state.py`) | tables `chain_states`, `invocation_ledger`, `trace_events` | snapshot, invocation commit, lifecycle commit, recovery load | `ChainRun` |
| Recovery service (`runtime/recovery_service.py`, `runtime/recovery_policy.py`) | operator action audit | cancel, fail, resolve side effect, execute retry, review receipts | `ChainRun` (cancel, fail, budget), `RetryExecution` (resolve, execute) |
| Retry coordinator (`runtime/side_effect_retry_coordinator.py`) | locals of one command | allocate, claim, prepare, cross the boundary, dispatch, terminalize | `RetryExecution` |
| Side-effect ledger (`core/stores.py`) | tables `side_effect_ledger`, `side_effect_recovery_decisions`, `recovery_execution_actions` | fenced recovery transitions; ordinary record and update | `RetryExecution` (fenced part), `SideEffectJournal` (ordinary part) |
| Side-effect journal (`runtime/side_effect_journal.py`, `nodes/search_tool.py`, `OrdinaryDispatchGuard` of `runtime/recovery_dispatch_guard.py`) | rows of `side_effect_ledger`; what a guard let through | journal before the call, gate, guard, report, reconcile on resume | `SideEffectJournal` |
| Branch executor (`runtime/branch_executor.py`) | tasks, join results | concurrent branches, join policies, cancellation | `BranchExecutor`, `BranchRun` |
| Run deletion (`runtime/run_deletion_service.py`) | all tables of a run | purge under a lineage gate | not yet (section 2) |
| Evidence checkpoints, artifact retention (`sdk/evidence_checkpoint.py`, ...) | journal file, checkpoint chain file, artifact files, index | retain, prepare, append, commit, abort, reconcile, collect, verify, detect rollback | `EvidenceCheckpoint`, refining `CheckpointLog` |
| Supervised execution (`runtime/exec_supervisor.py`, `runtime/supervised_exec_session.py`, `runtime/supervised_argv.py`, ...) | four kinds of process, a protocol pipe, deadlines | launch, hand over, trace, sweep, report, shut down | `SupervisedExec` |
| Deployment adapter, release history (`cli/deployment_adapter.py`, `cli/release_history.py`) | locals of one command, the guest and its tasks, the history file and its audit log | start, stop, reboot, upload, promote, apply, roll back, poll, record | `Deployment` |
| Policy gate, validation pipeline, trace and metrics, SDK and trust, research runner, CLI, API, dashboard, memory, nodes and adapters | configuration, append-only evidence, files | decisions on data, formatting, I/O | not modelled (section 12) |

### How they interact

* The orchestrator works on a private copy of the state and writes the whole
  row of `chain_states` (`INSERT OR REPLACE`).  A successful node call commits
  the row together with its `invocation_ledger` row.  The row has a `revision`
  column which no write compares, so a second process that resumes the run, or
  an operator action that loaded the row earlier, overwrites what came between.
* `resume` reconstructs where the run was from two sources, the state row and the
  invocation ledger, plus two markers in the state (`pending_loop_back`,
  `review_revision_target`).
* An operator resolves a side effect of unknown outcome by a *decision*; the
  decision `safe_to_retry` authorizes one retry.  Any number of commands may
  execute it; they meet in one child row whose claim, lease and dispatch marker
  decide who calls the adapter.  Trace reconciliation repairs expired children
  on the side.
* Before the orchestrator invokes a node it journals the node's external
  operations; the node's output reports which of them completed; `resume` turns what
  it finds in flight into `unknown`, which is where the operator's decisions begin.
* A router's output selects branches; `BranchExecutor` runs them as tasks that share
  the orchestrator's step allocator, state and ledger, and hands back a report from
  which the orchestrator decides whether the join runs, and on what.
* A checkpoint is written to four files one after the other; recovery compares two
  of them and settles the difference.
* A workload runs under two supervisors which talk to the parent over one pipe; the
  parent maps what it read, and what became of its own tasks, to one result.
* A deploy command asks the target for a change, follows the task that the target
  created, and writes what it concluded into a receipt and, if it was accepted, into
  the release history, which later rollbacks read.

### What is hard here

1. Exactly-once decisions over an at-least-once world: the adapter call cannot be
   in a transaction with the rows that describe it.
2. Leases that expire while their holder is alive, and answers that arrive after
   somebody else repaired the row.
3. A crash between any two transactions, and a resume that has to derive the next
   node from what happens to be durable.
4. Copies of the state that are written back after others have written.
5. An order that grows while it runs (loop-backs, revisions), whereas the order
   a resume starts from is the blueprint's.
6. Tasks that finish in the same tick as the decision that cancels them.
7. Several files that together are one fact, written one after the other.
8. Processes that are killed, hang, or hand a pipe to one another, and a parent
   that has to say what happened from what happened to reach it.
9. A target that executes what was asked and loses the answer, or executes it later.

`PROJECT.json` lists each of these at its line under `hazards`, with the
properties that cover it or the reason why none does yet.

### What makes each component correct

* Retry protocol: at most one adapter call per authorization; ledger and audit
  rows never say more than happened; one decision per effect; parents are
  immutable; nothing stays claimed for ever.
* Chain run: a run is completed only if every node ran or was skipped on
  purpose; the durable cursor and the ledger agree; resume repeats nothing and
  forgets nothing; a terminal run stays terminal; loop limits hold across
  crashes.
* Journal: no planned operation is called without a durable row and its replay
  capsule, and nothing at all passes a dispatch guard without its capsule; a resume
  goes on only after it has flagged what was in flight; `completed` was observed.
* Branches: the report says what the tasks did; a join goes on, or is refused, for a
  reason its policy names; nobody is cancelled whose result could still matter.
* Evidence: the chain is an append-only log; journal and chain agree; nothing a
  checkpoint refers to disappears; a rollback is detected and none is invented.
* Supervised execution: what is reported about start, end and cleanup is true,
  whatever was lost; everything ends.
* Deployment: what `accepted` is worth, action by action and with its exceptions; what
  was recorded stays recorded; a command ends whatever the target does.

## 2. Modules and plan

| Module | What it is |
|---|---|
| `RetryExecution` | the retry protocol: ledger, decisions, actions, workers, the external system |
| `RetryExecutionProofs` | its inductive invariants and theorems |
| `MCRetryExecution` | its small instances |
| `ChainRun` | the life of one run: processes, state row, invocation ledger, operator |
| `ChainRunProofs` | its two inductive invariants and theorems |
| `MCChainRun` | its small instances |
| `SideEffectJournal` | the ordinary life of a side-effect row: journal, node, report, resume |
| `SideEffectJournalProofs` | its inductive invariant and theorems |
| `MCSideEffectJournal` | its small instances |
| `BranchExecutor` | the executor of one fan-out: tasks, report, join |
| `BranchRun` | composes it with the orchestrator: allocator, ledger, state row, crash, resume |
| `BranchRunProofs` | the inductive invariant and theorems of both |
| `MCBranchRun` | their small instance |
| `CheckpointLog` | abstract: an append-only log of linked checkpoints |
| `EvidenceCheckpoint` | detailed: four files, creators, recoverers, crashes; implements the log |
| `EvidenceCheckpointProofs` | its inductive invariant, theorems and the refinement |
| `MCEvidence` | its small instances |
| `SupervisedExec` | launcher, namespace init, workload, protocol, parent |
| `SupervisedExecProofs` | its inductive invariant and theorems |
| `MCSupervisedExec` | its small instance |
| `Deployment` | deploy commands, the target, the release history file |
| `DeploymentProofs` | its two inductive invariants and theorems |
| `MCDeployment` | its small instance and the manifests it is given |

The order was: first the part whose failure cannot be undone (a repeated external
effect), then the run and its recovery, on which everything else hangs, then the
components those two leave open: journal, branches, evidence, sandbox, deployment.
What is left:

1. An abstract specification of an authorization (unused, attempted, settled) that
   `RetryExecution` implements, with the refinement proved.
2. Run deletion as an action composed with `RetryExecution`: the lineage gate
   against a worker between its boundary and its terminal write.
3. Request, mutation and result of an operator action as separate transactions.
4. Removal from the release history, and its snapshots.

## 3. `RetryExecution`

### State and code

Every action is one SQLite transaction or one adapter call, in the order of
`SideEffectRetryCoordinator.execute_authorized_retry_async`.  The database is shared; `pc`, `child`,
`act` and `outcome` are the locals of a command, lost in `Crash`.

* `status`, `claim`, `lease`, `marked`, `respHash`, `capsule` are the columns
  `status`, `execution_claim_id`, `claim_expires_at`, `dispatch_attempted_at`,
  `response_hash` and the replay capsule of `side_effect_ledger`.
* `target` and `verdict` are the decision rows; `actStatus` and `actChild` the rows
  of `recovery_execution_actions`.
* The key of a child is derived from parent and decision.  A decision id names one
  target, so the child is written as the decision itself.  A fencing token is drawn
  together with its action id, one for one, so the claim of action `a` is `a`.
* `calls`, `effect`, `response` are the outside world: whether the adapter was
  called for an action, whether the call had an effect, what it returned.  They
  are external, modelled from how the coordinator classifies adapter outcomes: a
  call reported `failed` had no effect, one of outcome `unknown` may or may not
  have had one.

| Action | Code |
|---|---|
| `Resolve` | RESOLVE_SIDE_EFFECT and `resolve_side_effect_recovery_decision_transactional` |
| `Begin`, `Lookup`, `Allocate`, `EmitCreated`, `NewAction` | steps 1 to 5 of the coordinator |
| `Claim` | `claim_recovery_attempt` |
| `Prepare`, `FailPrep` | `_prepare_dispatch`, `fail_recovery_attempt` |
| `CrossBoundary`, `MarkStarted`, `Dispatch` | the dispatch marker CAS, the action row's status, the call |
| `Terminalize`, `Reread`, `Record` | `_terminalize` and the final action row |
| `Heartbeat`, `Reconcile`, `Reclaim` | the store's lease operations |

Time is `LeaseExpires`: a lease that is compared with the clock may have expired or
not.  `Reclaim` is an operation of the store that nothing in the repository calls;
`Spec` has it, `FairSpec` has not.

### Runs

* `retry`: one root effect, two decisions (so the lineage can have two generations),
  two workers, two actions, two response hashes: one child is claimed, requeued and
  claimed again, with the first worker still alive; a late answer may differ from the
  recorded one.  It shows `ExclusiveDispatch`, `ChildTruth`, `ActionTruth` and
  `ParentImmutable`, and under `FairSpec` that a claimed child leaves `started`, on
  about 272,000 states.  The safety properties are proved for all sizes below, so the
  instance need not be larger.

Deadlock is not checked: when all decisions and actions are used up the system
has nothing left to do.

### Fairness

`FairSpec` assumes that a command takes its next step or dies (it is a running
process), that clocks advance (a lease that may expire and is not renewed expires),
and that each expired child is repaired as long as it stays expired.  The last one
is the assumption to argue about: the repository reconciles expired children
when a run's trace is reconciled (`cli/reconcile.py`, `cli/report.py` and the
recovery inspection of `runtime/recovery_service.py`), and nothing schedules that;
the assumption is that somebody keeps doing it.  A caller that only ever reclaimed
could renew a lease for ever; there is none.

### Proofs

`RetryExecutionProofs` proves, from `ConstAssumption` alone (disjoint ids, `None`
is not an id) and therefore for any number of effects, decisions, workers and
actions:

| Theorem | Statement |
|---|---|
| `TypeCorrect` | `Spec => []TypeOK` |
| `Exclusive` | `Spec => []ExclusiveDispatch` |
| `LineageIsChain` | `Spec => []OneDecisionPerEffect` |
| `ParentsImmutable` | `Spec => ParentImmutable` |
| `ChildrenTellTruth` | `Spec => []ChildTruth` |
| `ActionsTellTruth` | `Spec => []ActionTruth` |

The invariants are not inductive as they stand.  The argument has three layers.

1. `IInv` = `TypeOK` + `RowsInv` + `WorkerInv` + `MarkerInv`, proved in `Invariance`.
   `RowsInv` relates a child row, its decision and the action rows that name it;
   `WorkerInv` says what each location of a worker implies of its action (whose it
   is, that no other worker has it, what status it can have); `MarkerInv` is the
   heart: a call for an action, or a worker that is about to make one, implies that
   the child's marker is set *and that its claim is still that action*, since no
   transition gives a marked child a new owner.  `Exclusive` follows: two calls for
   one child would both be its claim.
2. `LineageInv`: a decided row is not `unknown` any more, hence no second decision;
   an authorized row with a child is not written by any fenced transition.
3. `TruthInv` = `CallInv`, `OutcomeInv`, `OwnRowInv`, `ChildTruth` and the two halves of
   `ActionTruth`: what a worker holds in `outcome` is true of its own call, and at `record` the row
   agrees with it or has been given up as unknown.

## 4. `ChainRun`

### State and code

* `db` is the row of `chain_states` reduced to what decisions read: `status`, the
  cursor `step`, `completed_steps` (`done`), the loop iterations, and the markers
  `pending_loop_back` and `review_revision_target`.  `ledger` is `invocation_ledger`:
  the node committed at each step.
* `proc[p]` is a process: program counter, mode (`run` or `resume`), its live copy
  of the state, execution order and index, last and next step, retry counters, and
  the ledger as a resume read it (`base`).
* `opView` is the copy of the state that an operator action loaded.
* `current`, `stale`, `skipped` and `owed` are history: who has not been overtaken
  by another writer since it was admitted, whether any write was made by someone who
  had been, which nodes a failure recovery skipped, and which nodes a durable
  loop-back or revision sends the run back to.

An action ends at a durable write or at a node call, so that crashes and the other
actors fall between any two of them.  What a node computes is open: whether it
succeeds, whether a gate refuses it, whether its output requires a loop or a review
and whether the budget is exceeded are free choices.

| Action | Code (`runtime/orchestrator.py` unless said otherwise) |
|---|---|
| `StartRun`, `Refuse`, `Invoke`, `SkipCompleted` | the top of the execution loops of `run` and `resume` |
| `HandleByRetry`, `HandleBySkip`, `HandleFailed` | `FailureManager.handle` |
| `CommitInvocation`, `CommitRefused` | `commit_invocation_success` and `_insert_invocation_checked` |
| `ReportRejected`, `SemanticFailure` | checks after the commit |
| `_pause_for_budget`, `LoopBack`, `LoopExit` | `check_loop_back` and its consequences |
| `RequestReview`, `ReviewApproved`, `ReviewRevised`, `ReviewFails`, `PausedForReview` | the review gate |
| `Advance`, `Complete` | `save_snapshot`, completion |
| `Resume`, `LoadState`, `ReadLedger`, `ResumeCheckpoint`, `ResumeRefused`, `ResumeApproved`, `ResumeRevised`, `ResumeCursor`, `ResumePendingLoop` | the resume command and `resume` |
| `ApproveBudget`, `BudgetApproved` | `approve_budget_increase` |
| `OperatorLoad`, `OperatorWrite` | CANCEL_RUN and FAIL_RUN in `RecoveryService.apply_action` |

### Runs

* `chain_recovery`: a chain of the shape of `research_decision_v1`, search, quality
  evaluation with a loop path that starts and ends at itself, risk classification
  with a review; one process at a time, started up to three times.  It shows
  `TypeOK` (with loop limits in every copy of the state), `CompletedRanAll`,
  `CursorTruth` and `NoDuplicateInvocation`.
  `CompletedRanAll` needs a blueprint that is `Backward`: no node of a loop's path
  comes after its last node in the order, and the revision target not after the
  review.  The instance says that it has this shape (`ShippedShape`), which both
  `research_decision` blueprints have; section 10 has the rest.
* `chain_concurrent`: two processes and an operator, at any time, on a shorter
  chain.  It shows what holds whoever overwrites whom (`DoneInLedger`) and what
  holds as long as no writer is stale (`FinalUnlessStale`).
* `chain_loopback` (violation): section 11.

### Bounds

* `MaxStep` bounds the steps a process may allocate; at the bound only `Invoke` and
  `HandleByRetry` are disabled, so a process can still fail, crash or be overtaken.
  Eight steps are a complete run of the instance with one loop iteration and a
  retry, or with one revision (seven and eight node calls); three let both nodes of the short chain run with one retry.
* `MaxLives` bounds process starts: three lives are a run, a resume that dies and
  a resume of what it left.  `MaxOperations` and `MaxRevisions` bound operator
  actions and review revisions; the code bounds neither.
* Two nodes with one loop and two processes are enough for every race in the code,
  because processes share nothing but one row and one ledger.

Deadlock is not checked: a run ends, and the bounds stop the rest.  No fairness is
assumed; all properties of this module are safety properties.

## 5. `SideEffectJournal`

### State and code

One node of one run, executed by a process that runs and by any number that resume.
Nothing in the code keeps a resume from starting while another process lives, so
they may overlap; the history variable `solo` says whether they have.

* `status`, `response`, `capsule`, `decisions` are the columns of
  `side_effect_ledger`, the replay capsules and the recovery decisions; `committed`
  is the node's row in `invocation_ledger`.
* A row is `Row(k)` for a planned operation and `Child(k)` for the retry that the
  coordinator of section 3 allocates for it.  `ChildStep` is that coordinator seen
  from here: only the existence and the status of the child matter.
* `update_side_effect_status` is a SELECT outside any transaction and an UPDATE by
  key: two actions (`ReconcileSelect` and `ReconcileWrite`, `CompleteSelect` and
  `CompleteWrite`), with `view` holding what the first one read.
* `calls` and `answers` are the outside world: how often an adapter was called for a
  planned operation and what it answered.
* What the node calls is not what was planned.  The journal derives one operation per
  query and named adapter; the search node derives its calls itself, and it makes
  calls of its own (`Extras`): those of the rescue pass, which no row is written for, and
  those for a query that names no adapters, which is journaled as one operation of an
  adapter `unknown` (`runtime/side_effect_journal.py:106`) while every granted adapter is
  called (`nodes/search_tool.py:313`).  A call of this kind whose content is that of a
  planned operation of the same adapter is, for the guard, that operation.
* An adapter may be wrapped in an `OrdinaryDispatchGuard`: it lets an operation through
  if the ledger holds a capsule of exactly this content, once per guard; otherwise it
  raises, and the node with it.  `Guarded` are the processes that wire guards: the research
  runner's, runs and resumes (`research/runner.py:424`), and those of `nodechain run`
  (`cli/run.py:303`).  The commands `resume` (`cli/resume.py`) and `recover`
  (`cli/recover.py`), and branch nodes (`nodes/branch_search.py:53`), construct the search
  node with `allow_unguarded=True`.  `sent` is what a process's guard has let through (a new
  process has a new guard), `wire` what any guard ever has, with its content.

| Action | Code |
|---|---|
| `BeginRun`, `BeginResume` | the start of `run`; `resume` reading `started` and `planned` rows |
| `ReconcileSelect`, `ReconcileWrite`, `Reconciled` | `_reconcile_side_effects_on_resume`, `already_done` |
| `Compile`, `Known`, `NodeKey` | `_build_capabilities` and the search node's gate |
| `JournalOne`, `JournalRefused`, `StartSelect`, `StartWrite`, `Journaled` | `_journal_one`, `_assert_declared_side_effect`, `start_side_effect_with_capsule` |
| `CallAdapter`, `CallUnplanned` | the calls of `SearchToolNode.execute` for planned operations; those for untargeted queries and of the rescue pass |
| `Permits`, `Dispatch` | `OrdinaryDispatchGuard.search`, with the research runner's capsule validator |
| `NodeRetried`, `NodeFails`, `NodeSucceeds`, `Commit` | the end of `SearchToolNode.execute`, `FailureManager.handle`, `commit_invocation_success` |
| `ReportRead`, `RecordAgain`, `RecordInvalid`, `CompleteSelect`, `CompleteWrite`, `Finish` | `_complete_reported_side_effect` |
| `Resolve`, `ChildStep` | the operator's decision, the retry coordinator |

### Runs and bounds

* `journal`: one planned operation and one unplanned call, three processes (a retry child
  needs two resumes to meet one: the first marks the effect `unknown`, the second finds
  the child), one of them guarded, so that a guarded process runs or resumes beside an
  unguarded one; two contents and two response hashes (so that a mismatch is possible), one
  in-process retry (a guard remembers across it).  `MaxAlive` = 2 bounds the processes alive
  at a time: every check-then-write of the code has two parties, and dead processes
  have left only what is durable.  Operations only meet in the order a process handles
  them; `journal_retry` has two, and the proofs any number of everything.  534 thousand
  states.  It shows `WriteAhead`, `LostEffectsFlagged`, `CompletedObserved`, `CapsuleKept`,
  and, as long as processes do not overlap, `SoloAgreement`: trace, ledger and decisions
  agree.
* `journal_retry` (violation): section 11.  Both its processes are guarded: the guard does
  not stop the repetition, because it asks for a capsule, which the first process has left.

`WriteAhead` has two halves.  What passed a guard was planned and is what its capsule
holds, then and for ever.  A planned operation that was called, guarded or not, has its row
and capsule.  Of an unplanned call in an unguarded process it claims nothing, because there is
nothing behind such a call.

Deadlock is not checked (processes end).  There is no fairness: a process may die
anywhere and nothing restarts it.

## 6. `BranchExecutor` and `BranchRun`

`BranchExecutor` is the executor alone: which tasks run (`task`, `at`), which have a
cancellation on its way (`cancelling`), whose result is waited for (`pending`), the
report (`completed` in order of arrival, `failed`, `cancelled`, `ignored`,
`quorumMet`), and the branches the join merges (`merged`).  Only an await gives up
control, so everything between two awaits is one action: `asyncio.wait` hands over
all that has finished by then, in any order (`CollectBatch`), and the decisions taken on
the batch are taken before any other task runs.

`BranchRun` extends it with what surrounds it in the orchestrator: the router's
commit, the routing checkpoint, the node executor (step allocation, policy gate,
invocation, commit), the join node, completion, a crash, and `resume`, which may
execute the fan-out again.  `index`, where a resume goes on in the order, is computed once
when the run is loaded, before the fan-out moves the cursor.  The order is
`<<router, join>>`, as `skip_to_join` leaves it.  Every configuration of `Configs` is an initial state.

| Action | Code |
|---|---|
| `Route`, `FanOut` | `resolve_branch_selection`, `_execute_branches` up to the executor |
| `LaunchTask`, `NodeCommits`, `NodeDenied`, `NodeErrs`, `NodeConflicts`, `NodeCancelled` | `_run_branch` and the node executor |
| `Gather` (`CollectAll`, `CollectFirst`, `CollectQuorum`) | the three ways of waiting in `BranchExecutor.execute` |
| `Decide` (`Join`) | the join decision and what `_execute_branches` makes of it |
| `JoinCommits`, `Complete`, `Crash`, `Resume`, `Loop` | the rest of `run` and `resume` |

### Runs and bounds

* `branch`: three branches (three are needed for a quorum of two with one to
  spare), one of two nodes, one refused node, a selection that may name a branch
  twice, one crash and resume, all paths and wait policies, and a quorum that is a ratio
  with `ignore_late`, where the two computations of the threshold (from the branches that
  run, from the length of the selection) differ for a repeated name.  It shows
  `ReportTruthful`, `FanoutSound` (joins, refusals and cancellations each have the
  reason their policy names), `MergedRan`, `UninterruptedRun` and, under fairness,
  `FanoutEnds`.
* `branch_join` (violation): section 11.

Fairness: the event loop runs what is ready and node invocations return; adapters
have timeouts, and a node that never returned would hang any orchestrator.  Nothing
is assumed about crashes and resumes.

## 7. `EvidenceCheckpoint` and `CheckpointLog`

`files` and `index` are the artifact store, `chain` the chain file, `journal` the
status of each operation in the journal file, `lock` the chain lock (dropped by the
kernel when its holder dies), `orphanLock` the journal's lock file left behind by a
dead process.  A creator keeps its snapshot and its link in `snap`; a recoverer keeps
in `seen` what it read before it took the journal lock.  Each action is one atomic
file write of `create_checkpoint` (`Prepare`, `RetainManifest`,
`MarkManifestRetained`, `MarkCheckpointPrepared`, `ChainSave`, `MarkChainCommitted`,
`MarkCommitted`, `MarkAborted`), its failure (`JournalFails`, `Torn`), a crash, a step
of `reconcile`, a `retain` of other evidence or an orphan collection.

An operation stands for the digests of its checkpoint and of its manifest; signatures are
always valid and files are not tampered with, except in `RollbackDetection`, which
asks what `detect_rollback` says of every truncation of the chain.

`CheckpointLog` is what all this promises: a log that only grows, each entry naming
its predecessor, and a checkpoint that was returned is in it.  `ImplementsLog` states
that the chain file implements it.

### Runs, bounds and fairness

* `evidence`: two operations, one recoverer, one other artifact.  Two creators are
  enough for a race on the chain and for a second checkpoint built over an aborted
  first; the proofs cover any number.  It shows `JournalMatchesChain`,
  `SnapshotAvailable`, `RollbackDetection`, the refinement `ImplementsLog`, and
  `PreparedSettles` under fairness.
* `evidence_verify` (violation): section 11.

Fairness is asked of recoverers only: operators run recovery again and again, and not
every attempt is cut short.  `PreparedSettles` has the orphaned journal lock as its
exception, because nothing in the code removes that file.

## 8. `SupervisedExec`

Four kinds of process: the launcher S, the namespace init I which traces the
bootstrap B that becomes the workload, and a descendant of the workload.  A killed
process is `dying` until the kernel is done with it; the death of I takes its
namespace with it.  `chan` and `writers` are the protocol pipe, `got` and `fut` the
parser's records and the transport's future, `pc`, `why`, `out`, `bounded`, `result`
the parent.  The kernel (`Killed`, `Kernel`, `Fault`) and what a workload does
(`Behave`) are external.

| Action | Code |
|---|---|
| `ReadConfig` to `WaitForInit` | `supervisor_process_main`, `launch_pid_namespace_supervisor`, `_contain_init_child` |
| `InitGate` | `namespace_init_supervisor_main` |
| `Mandatory`, `ForkBootstrap`, `ReadMetadata`, `AwaitStop`, `Continue`, `Watch`, `ContinueExec` | `supervisor_main` |
| `ReportFailed`, `SweepKill`, `SweepEnds`, `ReportCleaned` | `_fail_and_cleanup`, `_cleanup_namespace`, the normal end |
| `Setup`, `Stop`, `Exec`, `Exit` | the generated bootstrap, then the workload |
| `Read`, `ReadEOF`, `ReadDeadline` | `AsyncProtocolTransport` and `_ProtocolStreamParser` |
| `DeliverConfig`, `OutputStops`, `OutputReturns`, `Collect`, `Cancel` | `run_supervised_argv_async`, `run_bounded_async` |
| `NaturalDrain`, `TermDrain`, `Detach`, `Return`, `Verdict` | `_do_shutdown`, `_finalize_cleanup`, `map_supervisor_result` |

`supervised` checks that the result is true of the workload (`ReportedTruth`), that
starts are neither lost nor invented (`StartTruth`), that cleanup is claimed only when
nothing is left (`CleanupTruth`), that the two writers never produce a stream their
own parser rejects (`StreamLegal`), and that the parent returns and no process
survives (`EveryoneEnds`).  `MaxExecs` = 2 is one `execve` more than the protocol
expects; `ReportedTruth` and `StreamLegal` name that case as their exception, and
section 11 describes it.  One descendant stands for all, because cleanup asks whether
there is any.

Fairness is owed by the kernel, which completes the deaths it began, and by the
parent's event loop, all of whose waits have deadlines.  Nothing is asked of S, I or
the workload.

## 9. `Deployment`

A command is one process of `create_deployment_receipt` with `ProxmoxApiAdapter`; `pc`
and the other functions of commands are its locals, lost in `Crash`.  The target is the
power state of one guest, the number of its boots (which stands for the boot id) and
the tasks that requests created.  It is external: a request may be refused, executed with
the answer lost, executed by a task whose UPID is returned, as a string or inside an
object, or answered by a 200 that has no UPID, such as a page that is not JSON, with a task
behind it or without; a task ends well, badly or never, and the answer to a
poll may lack its exit status.  `said` is what the target last told a command of its last
request (`plain`, `dict` and `upid` for the three kinds of 200; `ok`, `error` and `missing` for
the exit status seen): `AcceptedTruth` compares it with what the task really did.

The release history is modelled with its file names:
`file` and `tmp` are what the two names are bound to, `content` what the files hold,
because `save` writes through a descriptor and then renames.

| Action | Code |
|---|---|
| `Begin`, `Read` | the gates of `create_deployment_receipt` and `deploy`; read-only actions |
| `PreState`, `BootEvidence`, `Mutate`, `PostState`, `RebootEvidence` | start, stop and reboot |
| `Store`, `Apply`, `VerifyApply` | the upload, promote and apply handlers |
| `Poll` | `_poll_task`, for mutations, apply and rollback |
| `RollbackGate`, `RollbackRequest`, `RollbackVerify` | `_handle_rollback_artifact`, explicit or after a rejected apply |
| `WriteReceipt`, `Load`, `Open`, `Write`, `Replace`, `Audit` | the receipt, `ReleaseHistory()`, `save` in its three system calls, `audit` |

`deployment` has seven manifests, one per kind of action, with the options that change
control: a tolerated task failure, a required boot id, a no-op, an automatic rollback, a
rollback resolved from the history.  `Manifests` says which command may have which: one
stops, reboots or applies, the other starts, uploads, rolls back or asks, so that whatever
moves the guest meets what watches it and whatever records meets what reads the records
(378 thousand states; the proofs give every command any manifest).  Two commands are
needed for a guest that changes under a command's eyes and for two writers of one
temporary file; two polls for a lost answer followed by a good one.  It shows
`AcceptedTruth`, `HistoryKept` and `DeployEnds`.

`AcceptedTruth` says what an acceptance is worth.  Of a mutation, that its task has ended, and
well where the manifest demands it, or that it was an allowed no-op for which nothing was
sent; of a reboot that had to show a new boot id, and saw one before, that the guest booted.
Of an apply or a rollback, that its task was seen through *unless the 200 bore no UPID
string*; then, as for uploads and promotions, the 200 is all there is.  Of any task, that it ended
well *unless the target gave no exit status*, which `_poll_task` takes for `OK`.  Section 11
says where the code's own lifecycle matrix asks for more.  A mutation refuses a 200 without
a UPID; what it would take for one although it is none (any other non-empty `data`) it polls in
vain and rejects too, which is the same outcome later.  `HistoryKept` excepts commands that
record at the same time (`raced`): section 11 says what happens to those.  Power loss
(no `fsync`) is not modelled.  Deadlock is not checked because commands end.

Fairness: a command takes its next step, since every request has a timeout and every
loop a bound.  Nothing is asked of the target, so tasks may run for ever.

## 10. What is proved and what is only checked

From the `ASSUME`s of the modules alone, hence for every value of the constants that the
code admits (`CompletedWhole` has one more hypothesis, below):

| Module | Theorems (the property, where its name differs) |
|---|---|
| `RetryExecutionProofs` | section 3 |
| `ChainRunProofs` | `TypeCorrect`, `DoneRecorded` (`DoneInLedger`), `CursorTrue` (`CursorTruth`), `NoDuplicates` (`NoDuplicateInvocation`), `CompletedFinal` (`FinalUnlessStale`, an action property), `CompletedWhole` (`CompletedRanAll`) |
| `SideEffectJournalProofs` | `TypeCorrect`, `CallsAreJournaled` (`WriteAhead`), `LostEffectsAreFlagged`, `CompletionsAreObserved`, `CapsulesArePermanent` (`CapsuleKept`, an action property), `SoloRunsAgree` (`SoloAgreement`) |
| `BranchRunProofs` | `TypeCorrect`, `ReportTrue` (`ReportTruthful`), `FanoutTrue` (`FanoutSound`), `MergedRows` (`MergedRan`), `Uninterrupted` (`UninterruptedRun`) |
| `EvidenceCheckpointProofs` | `TypeCorrect`, `JournalChainAgreement` (`JournalMatchesChain`), `SnapshotsStay` (`SnapshotAvailable`), `RollbackIsDetected`, `ChainImplementsLog` (`ImplementsLog`) |
| `SupervisedExecProofs` | `TypeCorrect`, `StreamAccepted` (`StreamLegal`), `CleanupTrue` (`CleanupTruth`), `StartTrue` (`StartTruth`), `ReportTrue` (`ReportedTruth`) |
| `DeploymentProofs` | `TypeCorrect`, `VerdictTrue` (`AcceptedTruth`), `HistoryDurable` (`HistoryKept`) |

*Chain run.*  `IInv` = `Types`, `Copies`, `Placed`, `Latest`.  There are many copies of
the state: the row, the live state of every process, what an operator loaded.  `Copies`
says of each, however old, that it claims only what the ledger records; this is what
makes `DoneInLedger` survive any overwriting.  `Placed` says what a process's position
means (an order that still holds every node, a node committed before its result is
routed).  `Latest` says that, as long as no stale copy was written, every copy nobody
has written past agrees with the ledger exactly; cursor and resume rest on it.
`CompletedWhole` needs a second invariant, `Finishable`: an order lists before a node
whatever the blueprint lists before it, and what stands before a process is in the
ledger or was skipped.  That is true of rewritten orders only if loops and the revision
lead back (`Backward`).  The hypothesis is needed: with the order `<<x, y, z>>` and the
loop path `<<z, x>>` TLC finds a run that completes without `y`, because the jump to the
loop's target passes over it.  Nothing in `runtime/scheduler.py` or the blueprint loader
refuses such a loop.

*Journal.*  `IInv` = `TypeOK`, `RowInv` (a row past `planned` has its capsule, a planned
call was journaled), `WireInv` (what a guard let through is planned and in its capsule),
`StageInv` (what each location of a process implies of the rows it has handled: at `invoke`
all are past `planned`), `ReplyInv` (what a process holds as
a reply is in `answers`), `ListInv` (rows a resume listed are handled or still to be
handled) and `CompletedObserved`.  The argument is that no transition leads back to
`absent`, `planned` or, for a flagged row, `started`: the UPDATE by key alone could,
and does not because the only write of `started` is guarded by the inserted capsule.
The same guard keeps `WireInv`: a dispatch guard compared the capsule once, and nobody
replaces it afterwards.
`SoloRunsAgree` has a second invariant on top, `SoloInv`: without overlap at most one
process is live, and a row that it is about to reconcile or complete is still `started`,
since an operator resolves `unknown` rows only.  A `started` row has neither a completion
event nor a decision, so the UPDATE by key contradicts nothing.

*Branches.*  `IInv` = `TypeOK`, `ExInv`, `Numbered`, `Rows`, `Flow`.  In `ExInv`, `Counting`
says that while results arrive the report is exactly what the tasks did whose results
were looked at, `CancelJustified` that a cancellation still has its warrant, and `Ended`
that the join was decided accordingly.  The warrant of a hopeless quorum is the delicate
one: the code compares the successes and what is pending, and this bounds the branches
that did not fail only because earlier cancellations had a warrant of their own.  The
join's second threshold is at least the executor's because a threshold grows with the
number of branches (`ThresholdIs`) and a selection is at least as long as the set of its
names.  The proof corrected the property: `BlockedForCause` first said that a blocked
quorum join had too few successes, which is false for a selection that repeats a name,
with a ratio and `ignore_late`, where the trimmed list is compared with the larger
threshold.  TLC confirmed it once the instance had such a configuration.
`Rows` (what a branch has passed has a row or was refused) gives `MergedRan`, `Numbered`
and `Flow` give `UninterruptedRun`.

*Supervised execution.*  `IInv` = `TypeOK`, `Nested`, `Traced`, `Stream`, `Told`: which
process can exist beside which, what the tracer has seen of the bootstrap, how the records
written so far look given where their writers are, and what the parser's future and the
result then say.  `Stream` is about `got \o chan`, all that was written, so that it does
not matter how much of it was read.  `StreamLegal` follows since each record is a
successor of the one before it.

*Deployment.*  `CommandInv` is one command and its own tasks: at each place what it may
rely on of the task it started and of what the target told it (`TaskKnown`, `TaskDone`), hence
what an acceptance means (`TruthOf`).  `HistoryInv` = `raced` or
`SerialInv` is the shared file: if commands record one after the other, the history is
never the temporary file and the one that records works on its latest version.

*Evidence.*  `IInv` = `TypeOK`, `LockInv` (a creator between lock and release holds
the lock), `LinkInv` (the prepared link is that of the chain as it is), `ViewInv`
(what a recoverer saw is no later than what is), `JournalInv` (journal status by
location), `StoreInv` (what a snapshot lists is stored and indexed), `ChainInv` (the
chain is linked and without repetition).  `ImplementsLog` follows step by step: only
`ChainSave` changes the chain, and `LinkInv` makes it `Extend`.

Model-checked only: the liveness properties `StartedChildSettles`, `PreparedSettles`,
`FanoutEnds`, `EveryoneEnds` and `DeployEnds`, since liveness under fairness and `ENABLED`
are out of the prover's reach; and the four violations of section 11, which are
counterexamples and need no proof.  Induction over data was avoided, not needed: where
an argument goes along a sequence (the first occurrence in an order, the oldest record
of a history) the proofs take the least element of a set of numbers (`WFMin`) instead.

Each property has a mutant in `PROJECT.json`: a plausible slip in the modelled code (a
comparison without the fencing token, a cursor one node too far, a lock that does not
exclude) under which TLC finds the property violated.

## 11. Where the code and its documents disagree

* **Pending loop-back** (`chain_loopback`).  Resume re-inserts the loop path of a
  budget pause and then skips all of it, since `already_done` compares node ids with
  the whole ledger.  The same test swallows a review revision.
* **Checkpoints after an abort** (`evidence_verify`).  `artifact_count` counts the
  index, `artifact_digests` leaves out the manifests of aborted operations: once an
  operation was aborted after its manifest was retained, no later checkpoint verifies.
* **A blocked join on resume** (`branch_join`).  `resume` re-executes a fan-out without
  outputs and has no branch for a blocked result: the chain is marked failed, resume
  goes on, the join node runs and the run completes.
* **Repeated effects** (`journal_retry`).  `resume` promises no duplicate side effects;
  the node is executed again and neither `_journal_one` nor the node's gate, which
  looks under another key, stops the second call.  Nor does a dispatch guard: a capsule
  is there, and the guard that let the first call through died with its process.

Seen while modelling, not checked by a run:

* Retry lineages: the capsule is bound to the root's key, but preparation opens it
  with the parent's.  `src/invariants/v3.5.md:546` promises lineages without a depth
  limit; every retry of a retry is refused in preparation (`CapsuleOpens`).
* `src/invariants/v3.5.md:647` promises an attempt-created record committed before the
  dispatch boundary; the code emits a failure-isolated metric after the allocation
  committed (`EmitCreated`).
* `check_loop_back` grants and counts the last allowed iteration,
  `check_loop_exhaustion` then refuses its first node, so `max_iterations: 2` runs the
  loop once more and `1` never (`src/NodeChain_Reference_Implementation.md:689` counts
  two).
* An operator action authorized on a loaded copy is written over a run that completed
  in between (`runtime/recovery_service.py:366`; `FinalUnlessStale` states what holds
  without such a writer).
* `src/invariants/v3.5.md:120`: "No capsule means no dispatch."  It holds where a guard is
  wired.  Elsewhere (the `resume` and `recover` commands, branch nodes) the rescue pass
  (`nodes/search_tool.py:430`) and queries that name no adapters (section 5) call adapters
  without a row or capsule, and branch nodes are not journaled at all
  (`runtime/orchestrator.py:2156`).  Where a guard is wired these calls are refused, and the
  refusal fails the node although it asked for what it was granted.
* The capsule validator of `nodechain run` looks for keys that begin with the adapter's name
  (`cli/run.py:327`), but the journal's begin with `search:`: its guards refuse every search
  call.  The models take the research runner's validator.  Both look for a
  capsule only, whereas the guard's documentation says that a *started* row is checked
  (`runtime/recovery_dispatch_guard.py:382`).
* The lifecycle matrix says `task_required: True` of apply and rollback
  (`cli/deployment_adapter.py:212`, `225`; `src/tests/test_proxmox_api_apply.py` asserts the
  former), but both take a 200 without a UPID string for done: nothing is polled, and the
  receipt says `task_exitstatus: OK` (`2629`-`2639`, `2695`, `3055`-`3065`, `3134`).  This includes
  a UPID inside an object, which mutations do unwrap (`3772`), and a body that is not JSON
  (`1951`).  The task may still be running, or may not exist.
* A stopped task whose status has no `exitstatus` counts as `OK`
  (`cli/deployment_adapter.py:1910`).
* After a crash between the router's commit and the routing checkpoint the fan-out
  never runs; after one inside the fan-out steps are allocated again from the cursor,
  although `runtime/step_allocator.py` says that each id is allocated once.
* `wait_for: first` without cancellation takes the first branch in declared order,
  not the first in time; with `quorum` and `ignore_late` the winners are marked as
  ignored too; `cancel_on_first` with `wait_for: quorum` cancels before the quorum.
* `reconcile` can mark an operation aborted whose checkpoint is in the chain, and so
  can a failing `mark_chain_committed`; nothing removes an orphaned journal lock.
* A workload that calls `execve` again makes the supervisor report `exec_confirmed` a
  second time, for which its own parser has no transition: the outcome of a workload
  that ended normally is lost, although `src/ARCHITECTURE.md:308` says that the result
  mapping preserves supervisor truth.
* Without time left, the transport is closed under a running reader and the report
  says that the workload was not started; such a shutdown is not reported as clean.
* `create_deployment_receipt` copies neither `final_deployment_state` nor
  `activation_verified` into the receipt that `from_receipt` reads both from, so no
  release it records is known good (`from_receipt` in `Deployment`) and
  `latest_known_good` finds none; the test of `from_receipt` gives it a receipt that
  has them.  Every accepted command is recorded, a `get_status` too.
* `save` calls itself atomic (`cli/release_history.py:247`), but all processes share one
  temporary name: of two commands that save at the same time one may publish the
  other's half-written file, which the next load takes for an empty history, and one
  may lose its record to a swallowed exception.
* An apply whose answer was lost is rolled back while its task may still run, and an
  apply that was refused before any request was sent is rolled back too
  (`cli/deployment_adapter.py:3999`).
* If the state cannot be read after a reboot, the uptime counts as 0 and hence as reset
  (`cli/deployment_adapter.py:3854`): without a boot id a reboot is then accepted that
  nobody has seen.
* The remote digest of an upload is the local one (`cli/deployment_adapter.py:2258`), so
  its verification cannot fail.
* A revision asked for in a running process leaves no marker; after a crash the
  resume does not go back to the revision target.
* A loop-back restarts at the *first* occurrence of its target in the order, so
  every further iteration repeats the earlier inserted segments as well.
* A strict semantic failure commits `failed` and goes on executing (the source's
  comment keeps this on purpose).
* `route_fallback` reads `self.nodes`, which the orchestrator does not have
  (`runtime/orchestrator.py:1321`).
* The resume command accepts cancelled and running runs; retry counters start
  again at zero on resume; nodes run by a resume are committed with cost 0.
* RESOLVE_SIDE_EFFECT is admitted in terminal runs (`runtime/recovery_policy.py:314`).
* The recovery console offers `revise` where the workbench expects
  `request_revision` (`cli/recover.py:99`, `sdk/review_workbench.py:205`).
* `src/docs/specification-baseline.md:170` asks for explicit limits on reviews;
  nothing in the code limits the revisions of a run.

## 12. Not modelled

* Run deletion and the audit events of operator actions: next in the plan.
* Policy gate and validation pipeline: pure decisions on configuration and outputs.
  The models leave their result open.
* Trace emitter and metrics: append-only evidence no decision reads back; the one
  authoritative change that reconciliation makes, the expiry scan, is `Reconcile`.
* SDK packages, registry and trust: formats, signatures, resolution.
* Nodes and adapters: prompts and external services; a node is a call that succeeds
  or fails, an adapter one that has an effect or not.
* Research runner, CLI, API, dashboard, memory: front ends and drivers.  The status
  test of the resume command is part of `ChainRun`, the deploy command is `Deployment`.
* Of deployment: the dry-run, SSH and local shell adapters, signatures, the policy
  check without deployment, snapshots of the history and removal from it.
* Of supervised execution: the content of namespaces, mounts and seccomp filters (one
  success or failure in `Setup`), the writer of the workload's input, Windows job
  objects, and the unsupervised subprocess path.
* The larger part of the repository's lines is of these kinds (command line,
  dashboards, package formats, trust policies), which is why the
  modelled share of lines is small although the stateful core is covered.
