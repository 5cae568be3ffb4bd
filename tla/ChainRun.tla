------------------------------ MODULE ChainRun ------------------------------
(***************************************************************************)
(* The life of one chain run: Orchestrator.run and Orchestrator.resume     *)
(* with the GraphScheduler, the LoopEnforcer, the FailureManager, the      *)
(* ReviewManager and the PersistenceCoordinator, and the operator actions  *)
(* of RecoveryService that write the run's state.                          *)
(*                                                                         *)
(* A process executes the nodes of an order that loop-backs and review     *)
(* revisions rewrite while it runs.  It works on its own copy of the run's *)
(* state and writes that copy over the row of chain_states: the row has a  *)
(* revision column, but no write compares it.  A process may die anywhere; *)
(* another one may resume the run at any time, and an operator may cancel  *)
(* or fail it.                                                             *)
(*                                                                         *)
(* Each action ends at a durable write or at a call of a node, so that     *)
(* crashes and the other actors fall between any two of them.  Branches,   *)
(* the side-effect journal and the cost of a loop are not part of this     *)
(* module: whether a gate refuses, a node fails, a loop is required or a   *)
(* budget is exceeded is a free choice.                                    *)
(***************************************************************************)
EXTENDS Integers, Sequences, FiniteSets, Functions

CONSTANTS
    Order,          \* resolve_execution_order of the blueprint
    Loops,          \* loop ids
    Path,           \* loop.path
    MaxIterations,  \* loop.max_iterations
    ReviewNode,     \* "risk_classifier"
    RevisionTarget, \* _default_revision_target
    Procs,          \* processes that run or resume the chain
    Operator,       \* a process that cancels or fails the run
    None,
    MaxStep,        \* bound: steps a process may allocate
    MaxLives,       \* bound: times a process is started
    MaxOperations,  \* bound: operator actions
    MaxRevisions    \* bound: revisions the reviewers ask for

Nodes == Range(Order)
Steps == 1 .. MaxStep

ASSUME ChainAssumption ==
    /\ Order \in Seq(Range(Order))
    /\ IsInjective(Order)
    /\ \A l \in Loops : /\ Path[l] \in Seq(Nodes)
                        /\ Path[l] # << >>
                        /\ MaxIterations[l] \in Nat \ {0}
    /\ \A l, m \in Loops : l # m => Range(Path[l]) \cap Range(Path[m]) = {}
    /\ RevisionTarget \in Nodes
    /\ None \notin Nodes \cup Loops
    /\ Operator \notin Procs
    /\ {MaxStep, MaxLives, MaxOperations, MaxRevisions} \subseteq Nat

Status == {"absent", "running", "waiting_for_review", "paused_for_budget",
           "completed", "failed", "cancelled"}

NoSteps == [s \in Steps |-> None]

Iterations == {f \in [Loops -> Nat] : \A l \in Loops : f[l] <= MaxIterations[l]}

(***************************************************************************)
(* ChainState, less what no decision here depends on: the cursor step,     *)
(* completed_steps, the iteration of each loop and the two markers that    *)
(* resume consumes, pending_loop_back and review_revision_target.          *)
(***************************************************************************)
ChainState ==
    [status : Status, step : 0 .. MaxStep,
     done : [Steps -> Nodes \cup {None}],
     iter : Iterations,
     pending : Loops \cup {None},
     revision : Nodes \cup {None}]

Fresh == [status |-> "absent", step |-> 0, done |-> NoSteps,
          iter |-> [l \in Loops |-> 0], pending |-> None, revision |-> None]

(* What a process holds in memory.                                          *)
Dead == [pc |-> "idle", mode |-> "run", live |-> Fresh, order |-> Order,
         idx |-> 1, step |-> 0, next |-> 0,
         retries |-> [n \in Nodes |-> 0], base |-> NoSteps]

VARIABLES
    db,        \* the run's row of chain_states
    ledger,    \* its rows of invocation_ledger
    proc,      \* the processes
    opView,    \* the state an operator action has loaded, or None
    current,   \* the actors no one has written past since they were admitted
    stale,     \* some write was made by another actor
    skipped,   \* nodes skipped by a skip-continue recovery
    owed,      \* nodes a durable loop-back or revision sends the run back to
    lives, operations, revisions    \* counted for the bounds

vars == <<db, ledger, proc, opView, current, stale, skipped, owed, lives,
          operations, revisions>>

Init ==
    /\ db = Fresh
    /\ ledger = NoSteps
    /\ proc = [p \in Procs |-> Dead]
    /\ opView = None
    /\ current = {}
    /\ stale = FALSE
    /\ skipped = {}
    /\ owed = {}
    /\ lives = 0
    /\ operations = 0
    /\ revisions = 0

-----------------------------------------------------------------------------
(* GraphScheduler.                                                          *)

Index(s, x) == CHOOSE i \in DOMAIN s : s[i] = x /\ \A j \in 1 .. i - 1 : s[j] # x

LoopOf(n) == {l \in Loops : n \in Range(Path[l])}
LoopEnd(l) == Path[l][Len(Path[l])]
LoopEndingAt(n) == {l \in Loops : LoopEnd(l) = n}
LoopTarget(l) == Path[l][1]

(* Faulty variant: the limit is compared with > .                           *)
FaultyExhausted(l, s) == s.iter[l] > MaxIterations[l]

Exhausted(l, s) == s.iter[l] >= MaxIterations[l]

check_loop_exhaustion(n, s) == \E l \in LoopOf(n) : Exhausted(l, s)

LoopSegment(order, at, target) ==
    IF LoopOf(target) # {}
    THEN Path[CHOOSE l \in LoopOf(target) : TRUE]
    ELSE SubSeq(order, Index(order, target), at)

rebuild_order_with_loop(order, from, target) ==
    LET at == Index(order, from)
    IN  IF Index(order, target) > at
        THEN order
        ELSE SubSeq(order, 1, at) \o LoopSegment(order, at, target)
             \o SubSeq(order, at + 1, Len(order))

-----------------------------------------------------------------------------
(* PersistenceCoordinator: every write replaces the whole row.              *)

Node(p) == proc[p].order[proc[p].idx]

Save(who, s) ==
    /\ db' = s
    /\ stale' = (stale \/ who \notin current)

(* A write after which the process goes on with the locals q.               *)
Commit(p, q) ==
    /\ Save(p, q.live)
    /\ current' = {p}
    /\ proc' = [proc EXCEPT ![p] = q]

(* A write after which the process ends.                                    *)
Finish(p, s) ==
    /\ Save(p, s)
    /\ current' = {}
    /\ proc' = [proc EXCEPT ![p] = Dead]

_fail_chain(p) ==
    /\ Finish(p, [proc[p].live EXCEPT !.status = "failed"])
    /\ UNCHANGED <<ledger, opView, skipped, owed, lives, operations,
                   revisions>>

-----------------------------------------------------------------------------
(* Orchestrator.run, and the execution loop it shares with resume.          *)

(* A process comes to life.                                                 *)
Born(p) ==
    /\ proc[p].pc = "idle"
    /\ lives < MaxLives
    /\ lives' = lives + 1

StartRun(p) ==
    /\ Born(p)
    /\ db.status = "absent"
    /\ db' = [Fresh EXCEPT !.status = "running"]
    /\ proc' = [proc EXCEPT ![p] = [Dead EXCEPT !.pc = "node", !.live = db']]
    /\ current' = {p}
    /\ UNCHANGED <<ledger, opView, stale, skipped, owed, operations, revisions>>

(* Faulty variant: only the invocation at the cursor is looked at.          *)
FaultyAlreadyDone(p) ==
    /\ proc[p].mode = "resume"
    /\ \E s \in Steps : s = proc[p].step /\ proc[p].base[s] = Node(p)

AlreadyDone(p) ==
    /\ proc[p].mode = "resume"
    /\ \E s \in Steps : s <= proc[p].step /\ proc[p].base[s] = Node(p)

AtNode(p) ==
    /\ proc[p].pc = "node"
    /\ proc[p].idx <= Len(proc[p].order)

SkipCompleted(p) ==
    /\ AtNode(p)
    /\ AlreadyDone(p)
    /\ proc' = [proc EXCEPT ![p].idx = @ + 1]
    /\ UNCHANGED <<db, ledger, opView, current, stale, skipped, owed, lives,
                   operations, revisions>>

(* Preflight checks, a missing node, an exhausted loop, a blocked loop      *)
(* entry, a denied policy and an undeclared side effect all end the run     *)
(* before the node is called.                                               *)
Refuse(p) ==
    /\ AtNode(p)
    /\ ~AlreadyDone(p)
    /\ _fail_chain(p)

(* The node is called; nothing durable says so until its success commits.   *)
Invoke(p, outcome) ==
    /\ AtNode(p)
    /\ ~AlreadyDone(p)
    /\ proc[p].mode = "run" => ~check_loop_exhaustion(Node(p), proc[p].live)
    /\ proc[p].next < MaxStep
    /\ proc' = [proc EXCEPT ![p].pc = outcome, ![p].next = @ + 1,
                            ![p].step = proc[p].next + 1]
    /\ UNCHANGED <<db, ledger, opView, current, stale, skipped, owed, lives,
                   operations, revisions>>

(***************************************************************************)
(* FailureManager.handle: schema, search and unclassified failures are     *)
(* retried once per node, model timeouts twice, on one shared counter that *)
(* lives in the process; a retry gets a step of its own.                   *)
(***************************************************************************)
RetryLimits == {1, 2}

HandleByRetry(p) ==
    /\ proc[p].pc = "failed"
    /\ \E limit \in RetryLimits : proc[p].retries[Node(p)] < limit
    /\ proc[p].next < MaxStep
    /\ proc' = [proc EXCEPT ![p].pc = "commit", ![p].next = @ + 1,
                            ![p].step = proc[p].next + 1,
                            ![p].retries[Node(p)] = @ + 1]
    /\ UNCHANGED <<db, ledger, opView, current, stale, skipped, owed, lives,
                   operations, revisions>>

HandleBySkip(p) ==
    /\ proc[p].pc = "failed"
    /\ proc' = [proc EXCEPT ![p].pc = "node", ![p].idx = @ + 1]
    /\ skipped' = skipped \cup {Node(p)}
    /\ owed' = owed \ {Node(p)}
    /\ UNCHANGED <<db, ledger, opView, current, stale, lives, operations,
                   revisions>>

HandleFailed(p) ==
    /\ proc[p].pc = "failed"
    /\ _fail_chain(p)

(***************************************************************************)
(* commit_invocation_success: state row and ledger row in one transaction. *)
(* _insert_invocation_checked accepts an identical row for the same step   *)
(* and raises on any other, which rolls the transaction back and fails the *)
(* chain.                                                                  *)
(***************************************************************************)
(* Faulty variant: the cursor is not part of the transaction.               *)
FaultyCommitted(p) == [proc[p].live EXCEPT !.done[proc[p].step] = Node(p)]

Committed(p) == [proc[p].live EXCEPT !.step = proc[p].step,
                                     !.done[proc[p].step] = Node(p)]

CommitInvocation(p) ==
    /\ proc[p].pc = "commit"
    /\ ledger[proc[p].step] \in {None, Node(p)}
    /\ Commit(p, [proc[p] EXCEPT !.pc = "after", !.live = Committed(p)])
    /\ ledger' = [ledger EXCEPT ![proc[p].step] = Node(p)]
    /\ owed' = owed \ {Node(p)}
    /\ UNCHANGED <<opView, skipped, lives, operations, revisions>>

(* Faulty variant: the state row is kept when the ledger row is refused.    *)
FaultyCommitRefused(p) ==
    /\ proc[p].pc = "commit"
    /\ proc[p].mode = "run" \/ ledger[proc[p].step] # None
    /\ Finish(p, [Committed(p) EXCEPT !.status = "failed"])
    /\ UNCHANGED <<ledger, opView, skipped, owed, lives, operations,
                   revisions>>

(* A strict schema violation (run only) or a conflicting ledger row.        *)
CommitRefused(p) ==
    /\ proc[p].pc = "commit"
    /\ proc[p].mode = "run" \/ ledger[proc[p].step] # None
    /\ _fail_chain(p)

(* An undeclared or invalidly reported side effect, found after the commit. *)
ReportRejected(p) ==
    /\ proc[p].pc = "after"
    /\ _fail_chain(p)

(* A strict semantic failure fails the chain durably and does not return.   *)
SemanticFailure(p) ==
    /\ proc[p].pc = "after"
    /\ proc[p].mode = "run"
    /\ Commit(p, [proc[p] EXCEPT !.pc = "route", !.live.status = "failed"])
    /\ UNCHANGED <<ledger, opView, skipped, owed, lives, operations,
                   revisions>>

Routing(p) == proc[p].pc \in {"after", "route"}

(***************************************************************************)
(* check_loop_back on an output with loop_required: the iteration is       *)
(* counted in the live state only, before the budget and the exit          *)
(* condition are looked at.  Its TERMINATE decision for an exhausted loop  *)
(* cannot be reached: the last node of a path is in the path, so           *)
(* check_loop_exhaustion has refused it before its call.                   *)
(***************************************************************************)
LoopRequired(p, l) ==
    /\ Routing(p)
    /\ proc[p].mode = "run"
    /\ l \in LoopEndingAt(Node(p))

Counted(p, l) == [proc[p].live EXCEPT !.iter[l] = @ + 1]

_pause_for_budget(p, l) ==
    /\ LoopRequired(p, l)
    /\ ~Exhausted(l, proc[p].live)
    /\ Finish(p, [Counted(p, l) EXCEPT !.status = "paused_for_budget",
                                       !.pending = l])
    /\ owed' = owed \cup {LoopTarget(l)}
    /\ UNCHANGED <<ledger, opView, skipped, lives, operations, revisions>>

LoopBack(p, l) ==
    /\ LoopRequired(p, l)
    /\ ~Exhausted(l, proc[p].live)
    /\ LET new == rebuild_order_with_loop(proc[p].order, Node(p), LoopTarget(l))
       IN  proc' = [proc EXCEPT ![p].pc = "node", ![p].live = Counted(p, l),
                                ![p].order = new,
                                ![p].idx = Index(new, LoopTarget(l))]
    /\ UNCHANGED <<db, ledger, opView, current, stale, skipped, owed, lives,
                   operations, revisions>>

(* The exit condition holds: the counted iteration is not taken.            *)
LoopExit(p, l) ==
    /\ LoopRequired(p, l)
    /\ ~Exhausted(l, proc[p].live)
    /\ proc' = [proc EXCEPT ![p].pc = "exit", ![p].live = Counted(p, l)]
    /\ UNCHANGED <<db, ledger, opView, current, stale, skipped, owed, lives,
                   operations, revisions>>

(* save_snapshot, and on to the next node.                                  *)
Advance(p) ==
    /\ Routing(p) \/ proc[p].pc = "exit"
    /\ Commit(p, [proc[p] EXCEPT !.pc = "node", !.idx = @ + 1])
    /\ UNCHANGED <<ledger, opView, skipped, owed, lives, operations,
                   revisions>>

-----------------------------------------------------------------------------
(* ReviewManager.request_review, reached by run only.                       *)

RequestReview(p) ==
    /\ Routing(p) \/ proc[p].pc = "exit"
    /\ proc[p].mode = "run"
    /\ Node(p) = ReviewNode
    /\ Commit(p, [proc[p] EXCEPT !.pc = "review",
                                 !.live.status = "waiting_for_review"])
    /\ UNCHANGED <<ledger, opView, skipped, owed, lives, operations,
                   revisions>>

(* Pause mode: ReviewPausedException, raised after the waiting state is     *)
(* durable; on resume it leaves resume itself.                              *)
PausedForReview(p) ==
    /\ proc[p].pc \in {"review", "resume_review"}
    /\ proc' = [proc EXCEPT ![p] = Dead]
    /\ current' = current \ {p}
    /\ UNCHANGED <<db, ledger, opView, stale, skipped, owed, lives,
                   operations, revisions>>

(* Rejection, timeout, or a receipt that does not verify.                   *)
ReviewFails(p) ==
    /\ proc[p].pc \in {"review", "resume_review"}
    /\ _fail_chain(p)

ReviewApproved(p) ==
    /\ proc[p].pc = "review"
    /\ Commit(p, [proc[p] EXCEPT !.pc = "node", !.idx = @ + 1,
                                 !.live.status = "running"])
    /\ UNCHANGED <<ledger, opView, skipped, owed, lives, operations,
                   revisions>>

ReviewRevised(p) ==
    /\ proc[p].pc = "review"
    /\ revisions < MaxRevisions
    /\ revisions' = revisions + 1
    /\ LET new == rebuild_order_with_loop(proc[p].order, Node(p), RevisionTarget)
       IN  Commit(p, [proc[p] EXCEPT !.pc = "node", !.order = new,
                                     !.idx = Index(new, RevisionTarget),
                                     !.live.status = "running"])
    /\ owed' = owed \cup {RevisionTarget}
    /\ UNCHANGED <<ledger, opView, skipped, lives, operations>>

Complete(p) ==
    /\ proc[p].pc = "node"
    /\ proc[p].idx > Len(proc[p].order)
    /\ Finish(p, [proc[p].live EXCEPT !.status = "completed"])
    /\ UNCHANGED <<ledger, opView, skipped, owed, lives, operations,
                   revisions>>

Crash(p) ==
    /\ proc[p].pc # "idle"
    /\ proc' = [proc EXCEPT ![p] = Dead]
    /\ current' = current \ {p}
    /\ UNCHANGED <<db, ledger, opView, stale, skipped, owed, lives,
                   operations, revisions>>

-----------------------------------------------------------------------------
(* Orchestrator.resume.                                                     *)

(* Faulty variant: the refusal of completed runs is missing.                *)
FaultyResumable(s) == s.status # "absent"

Resumable(s) == s.status \notin {"absent", "completed"}

(* The resume command looks at the status and refuses completed runs only.  *)
Resume(p) ==
    /\ Born(p)
    /\ Resumable(db)
    /\ proc' = [proc EXCEPT ![p].pc = "resume"]
    /\ current' = current \cup {p}
    /\ UNCHANGED <<db, ledger, opView, stale, skipped, owed, operations,
                   revisions>>

(* load_for_recovery: the state row, whatever its status is by now, then    *)
(* the invocation ledger.                                                   *)
LoadState(p) ==
    /\ proc[p].pc = "resume"
    /\ proc' = [proc EXCEPT ![p] = [Dead EXCEPT !.pc = "ledger",
                                                !.mode = "resume", !.live = db,
                                                !.step = db.step,
                                                !.next = db.step]]
    /\ UNCHANGED <<db, ledger, opView, current, stale, skipped, owed, lives,
                   operations, revisions>>

ReadLedger(p) ==
    /\ proc[p].pc = "ledger"
    /\ proc' = [proc EXCEPT ![p].pc = "loaded", ![p].base = ledger]
    /\ UNCHANGED <<db, ledger, opView, current, stale, skipped, owed, lives,
                   operations, revisions>>

(* The is_resumed checkpoint.                                               *)
ResumeCheckpoint(p) ==
    /\ proc[p].pc = "loaded"
    /\ Commit(p, [proc[p] EXCEPT
                    !.pc = IF proc[p].live.status = "waiting_for_review"
                           THEN "resume_review" ELSE "cursor"])
    /\ UNCHANGED <<ledger, opView, skipped, owed, lives, operations,
                   revisions>>

(* RecoveryCursorMismatch, or a contract that no longer validates.          *)
ResumeRefused(p) ==
    /\ proc[p].pc \in {"resume_review", "cursor"}
    /\ _fail_chain(p)

(* _resume_waiting_for_review.                                              *)
ResumeApproved(p) ==
    /\ proc[p].pc = "resume_review"
    /\ Commit(p, [proc[p] EXCEPT !.pc = "cursor", !.live.status = "running"])
    /\ UNCHANGED <<ledger, opView, skipped, owed, lives, operations,
                   revisions>>

ResumeRevised(p) ==
    /\ proc[p].pc = "resume_review"
    /\ revisions < MaxRevisions
    /\ revisions' = revisions + 1
    /\ Commit(p, [proc[p] EXCEPT !.pc = "cursor", !.live.status = "running",
                                 !.live.revision = RevisionTarget])
    /\ owed' = owed \cup {RevisionTarget}
    /\ UNCHANGED <<ledger, opView, skipped, lives, operations>>

(***************************************************************************)
(* The cursor is the occurrence of the last committed node in the order:   *)
(* the nth one when the node was invoked n times.  The order is the        *)
(* blueprint's, where a node occurs once, so a repeated node is not found  *)
(* and execution starts over, skipping what is done.                       *)
(***************************************************************************)
Occurrences(p, n) ==
    {s \in Steps : s <= proc[p].step /\ proc[p].base[s] = n}

LastNode(p) == IF proc[p].step = 0 THEN None ELSE proc[p].base[proc[p].step]

(* Faulty variant: the cursor is put one node too far.                      *)
FaultyStartIndex(p) ==
    IF LastNode(p) # None /\ Cardinality(Occurrences(p, LastNode(p))) = 1
    THEN Index(Order, LastNode(p)) + 2
    ELSE 1

StartIndex(p) ==
    IF LastNode(p) # None /\ Cardinality(Occurrences(p, LastNode(p))) = 1
    THEN Index(Order, LastNode(p)) + 1
    ELSE 1

ResumeCursor(p) ==
    /\ proc[p].pc = "cursor"
    /\ LET target == proc[p].live.revision
           new == rebuild_order_with_loop(Order, ReviewNode, target)
       IN  \/ /\ target = None
              /\ proc' = [proc EXCEPT ![p].pc = "pending",
                                      ![p].idx = StartIndex(p)]
              /\ UNCHANGED <<db, current, stale>>
           \/ /\ target # None
              /\ Commit(p, [proc[p] EXCEPT !.pc = "pending", !.order = new,
                                           !.idx = Index(new, target),
                                           !.live.revision = None])
    /\ UNCHANGED <<ledger, opView, skipped, owed, lives, operations,
                   revisions>>

(* A loop-back pending from a budget pause.                                 *)
ResumePendingLoop(p) ==
    /\ proc[p].pc = "pending"
    /\ LET l == proc[p].live.pending
           new == rebuild_order_with_loop(proc[p].order, LoopEnd(l),
                                          LoopTarget(l))
       IN  \/ /\ l = None
              /\ proc' = [proc EXCEPT ![p].pc = "node"]
              /\ UNCHANGED <<db, current, stale>>
           \/ /\ l # None
              /\ Commit(p, [proc[p] EXCEPT !.pc = "node", !.order = new,
                                           !.idx = Index(new, LoopTarget(l)),
                                           !.live.pending = None])
    /\ UNCHANGED <<ledger, opView, skipped, owed, lives, operations,
                   revisions>>

-----------------------------------------------------------------------------
(* Operators.                                                               *)

(* approve_budget_increase: load, write the raised ceiling, resume.         *)
ApproveBudget(p) ==
    /\ Born(p)
    /\ db.status = "paused_for_budget"
    /\ proc' = [proc EXCEPT ![p] = [Dead EXCEPT !.pc = "approve", !.live = db]]
    /\ current' = current \cup {p}
    /\ UNCHANGED <<db, ledger, opView, stale, skipped, owed, operations,
                   revisions>>

BudgetApproved(p) ==
    /\ proc[p].pc = "approve"
    /\ Commit(p, [proc[p] EXCEPT !.pc = "resume", !.live.status = "running"])
    /\ UNCHANGED <<ledger, opView, skipped, owed, lives, operations,
                   revisions>>

(* CANCEL_RUN and FAIL_RUN load the state, authorize it, and later write a  *)
(* candidate made from that copy.                                           *)
OperatorLoad ==
    /\ opView = None
    /\ db.status \notin {"absent", "completed", "cancelled"}
    /\ operations < MaxOperations
    /\ operations' = operations + 1
    /\ opView' = db
    /\ current' = current \cup {Operator}
    /\ UNCHANGED <<db, ledger, proc, stale, skipped, owed, lives, revisions>>

OperatorWrite ==
    /\ opView # None
    /\ \E s \in {"cancelled", "failed"} :
           Save(Operator, [opView EXCEPT !.status = s])
    /\ current' = {}
    /\ opView' = None
    /\ UNCHANGED <<ledger, proc, skipped, owed, lives, operations, revisions>>

-----------------------------------------------------------------------------
(* A step of the execution loop, from its top to the routing of its result. *)
Execute(p) ==
    \/ SkipCompleted(p)
    \/ Refuse(p)
    \/ \E outcome \in {"commit", "failed"} : Invoke(p, outcome)
    \/ HandleByRetry(p)
    \/ HandleBySkip(p)
    \/ HandleFailed(p)
    \/ CommitInvocation(p)
    \/ CommitRefused(p)
    \/ ReportRejected(p)
    \/ SemanticFailure(p)
    \/ \E l \in Loops : \/ _pause_for_budget(p, l)
                        \/ LoopBack(p, l)
                        \/ LoopExit(p, l)
    \/ Advance(p)
    \/ Complete(p)

Review(p) ==
    \/ RequestReview(p)
    \/ PausedForReview(p)
    \/ ReviewFails(p)
    \/ ReviewApproved(p)
    \/ ReviewRevised(p)

Recover(p) ==
    \/ Resume(p)
    \/ LoadState(p)
    \/ ReadLedger(p)
    \/ ResumeCheckpoint(p)
    \/ ResumeRefused(p)
    \/ ResumeApproved(p)
    \/ ResumeRevised(p)
    \/ ResumeCursor(p)
    \/ ResumePendingLoop(p)
    \/ ApproveBudget(p)
    \/ BudgetApproved(p)

Next ==
    \/ \E p \in Procs : \/ StartRun(p)
                        \/ Execute(p)
                        \/ Review(p)
                        \/ Recover(p)
                        \/ Crash(p)
    \/ OperatorLoad
    \/ OperatorWrite

Spec == Init /\ [][Next]_vars

-----------------------------------------------------------------------------
(* Properties.                                                              *)

(* A blueprint whose loops and revision lead back: no node of a loop's path *)
(* comes after its end, the revision target not after the review node, and  *)
(* the loop it is in, if any, ends before the review.                       *)
Upto(m, n) == Index(Order, m) <= Index(Order, n)

Backward ==
    /\ \A l \in Loops : \A n \in Range(Path[l]) : Upto(n, LoopEnd(l))
    /\ ReviewNode \in Nodes => Upto(RevisionTarget, ReviewNode)
    /\ ReviewNode \in Nodes =>
          \A l \in LoopOf(RevisionTarget) : Upto(LoopEnd(l), ReviewNode)

Pcs == {"idle", "node", "commit", "failed", "after", "route", "exit", "review",
        "resume", "ledger", "loaded", "resume_review", "cursor", "pending",
        "approve"}

(* The types of the variables; the iteration of a loop, in every copy of    *)
(* the state, stays within its max_iterations.                              *)
TypeOK ==
    /\ {db} \cup {proc[p].live : p \in Procs} \subseteq ChainState
    /\ ledger \in [Steps -> Nodes \cup {None}]
    /\ \A p \in Procs :
          /\ proc[p].pc \in Pcs
          /\ proc[p].mode \in {"run", "resume"}
          /\ proc[p].order \in Seq(Nodes)
          /\ proc[p].idx \in 1 .. Len(proc[p].order) + 1
          /\ proc[p].step <= proc[p].next
          /\ proc[p].next \in 0 .. MaxStep
          /\ proc[p].retries \in [Nodes -> 0 .. 2]
          /\ proc[p].base \in [Steps -> Nodes \cup {None}]
    /\ opView \in ChainState \cup {None}
    /\ current \subseteq Procs \cup {Operator}
    /\ stale \in BOOLEAN
    /\ skipped \cup owed \subseteq Nodes
    /\ lives \in 0 .. MaxLives
    /\ operations \in 0 .. MaxOperations
    /\ revisions \in 0 .. MaxRevisions

(* A run is reported completed only when each node of the blueprint has a   *)
(* ledger row, or a process skipped it on purpose: wherever processes die,  *)
(* wherever the cursor restarts them, and whoever else writes the row.      *)
CompletedRanAll ==
    db.status = "completed" => Nodes \subseteq Range(ledger) \cup skipped

(* completed_steps of the row and of every copy of it claim only what the   *)
(* ledger records: a refused ledger row rolls the state row back.           *)
DoneInLedger ==
    \A s \in Steps :
        \A d \in {db.done[s]} \cup {proc[p].live.done[s] : p \in Procs} :
            d \in {None, ledger[s]}

(* As long as every writer held the latest revision, the row's cursor is    *)
(* the last step of the ledger and no committed step is missing from it.    *)
CursorTruth ==
    ~stale => /\ db.done = ledger
              /\ \A s \in Steps : ledger[s] # None => s <= db.step
              /\ db.step # 0 => ledger[db.step] # None

(* Resume promises "No duplicate node invocations": as long as every writer *)
(* held the latest revision, a resumed process that holds it calls no node  *)
(* the ledger had when it resumed.                                          *)
NoDuplicateInvocation ==
    \A p \in current \cap Procs :
        ~stale /\ proc[p].mode = "resume" /\ proc[p].pc \in {"commit", "failed"}
            => Node(p) \notin Range(proc[p].base)

(* A completed run stays completed, unless a writer was stale.             *)
FinalUnlessStale ==
    [][db.status = "completed" /\ ~stale' => db'.status = "completed"]_vars

(* "Persist the pending loop-back so resume re-enters the loop target": a   *)
(* run does not complete before the node its durable loop-back names has    *)
(* been called again.                                                       *)
PendingLoopRuns == db.status = "completed" => owed = {}

=============================================================================
