--------------------------- MODULE RetryExecution ---------------------------
(***************************************************************************)
(* Retry-authorized side-effect execution.                                 *)
(*                                                                         *)
(* A side effect of a run whose outcome was lost is 'unknown' in the       *)
(* ledger.  An operator resolves it with a recovery decision; the decision *)
(* safe_to_retry turns it into 'retry_authorized'.  Any number of operator *)
(* commands (EXECUTE_RETRY_AUTHORIZED), in any number of processes, may    *)
(* then execute the authorization: they share one child row, and the       *)
(* SideEffectRetryCoordinator must reach the external adapter at most once *)
(* for it whatever the interleaving, the crashes and the lease expiries.   *)
(*                                                                         *)
(* Every action below is one SQLite transaction (or one adapter call) of   *)
(* the coordinator, of the ledger store or of the expiry reconciler; the   *)
(* shared state is the database and each worker's locals are lost when its *)
(* process dies.                                                           *)
(***************************************************************************)
EXTENDS Naturals, FiniteSets

CONSTANTS
    Roots,       \* keys of ordinary side effects, left 'unknown' by a crash
    Decisions,   \* recovery decision ids
    Workers,     \* processes that run EXECUTE_RETRY_AUTHORIZED
    Actions,     \* ids of rows of recovery_execution_actions
    Hashes,      \* response hashes an adapter call can return
    Legacy,      \* the roots whose row has no replay capsule
    None,        \* NULL
    PrepFaults   \* may key, adapter or attestation checks fail on their own?

ASSUME ConstAssumption ==
    /\ Roots \cap Decisions = {}
    /\ None \notin Roots \cup Decisions \cup Actions \cup Hashes
    /\ Legacy \subseteq Roots
    /\ PrepFaults \in BOOLEAN

(***************************************************************************)
(* make_retry_side_effect_key derives the child's key from the parent's    *)
(* key and the decision id.  A decision id is unique and names one target, *)
(* so the child that executes decision d is the ledger row keyed by d.     *)
(* A fencing token is drawn together with its action id, one for one: the  *)
(* claim of action a is written a.                                         *)
(***************************************************************************)
Keys == Roots \cup Decisions

Verdicts == {"verified_completed", "verified_failed", "mark_unrecoverable",
             "safe_to_retry"}

RowStatus == {"absent", "planned", "started", "completed", "failed",
              "unknown", "retry_authorized"}

ActionStatus == {"absent", "created", "claimed", "dispatch_started",
                 "completed", "failed", "unknown", "not_acquired"}

FinalActionStatus == {"completed", "failed", "unknown", "not_acquired"}

Locations == {"idle", "lookup", "allocate", "emit_created", "new_action",
              "claim", "prepare", "fail_prep", "boundary", "mark_started",
              "dispatch", "terminalize", "reread", "record"}

VARIABLES
    \* side_effect_ledger
    status,      \* status column, "absent" when there is no row
    claim,       \* execution_claim_id
    lease,       \* claim_expires_at against the clock
    marked,      \* the rows whose dispatch_attempted_at is set
    respHash,    \* response_hash
    capsule,     \* the key the row's replay capsule was encrypted for
    \* side_effect_recovery_decisions
    target,      \* idempotency_key the decision is about, None when no row
    verdict,     \* decision column
    \* recovery_execution_actions
    actStatus, actChild,
    \* recovery metrics
    attemptCreated,
    \* the workers' locals: the child, the action and the outcome to record
    pc, child, act, outcome,
    \* the outside world, and what each adapter call returned
    calls,       \* adapter calls made for an action
    effect,      \* the actions whose call changed the external system
    response

ledgerVars == <<status, claim, lease, marked, respHash, capsule>>
decisionVars == <<target, verdict>>
actionVars == <<actStatus, actChild>>
locals == <<child, act, outcome>>
workerVars == <<pc, child, act, outcome>>
worldVars == <<calls, effect, response>>
vars == <<ledgerVars, decisionVars, actionVars, attemptCreated, workerVars,
          worldVars>>

Tokens == Actions \cup {None}

TypeOK ==
    /\ status \in [Keys -> RowStatus]
    /\ claim \in [Keys -> Tokens]
    /\ lease \in [Keys -> {"none", "valid", "expired"}]
    /\ marked \subseteq Keys
    /\ respHash \in [Keys -> Hashes \cup {None}]
    /\ capsule \in [Keys -> Roots \cup {None}]
    /\ target \in [Decisions -> Keys \cup {None}]
    /\ verdict \in [Decisions -> Verdicts \cup {None}]
    /\ actStatus \in [Actions -> ActionStatus]
    /\ actChild \in [Actions -> Decisions \cup {None}]
    /\ attemptCreated \subseteq Decisions
    /\ pc \in [Workers -> Locations]
    /\ child \in [Workers -> Decisions \cup {None}]
    /\ act \in [Workers -> Tokens]
    /\ outcome \in [Workers -> FinalActionStatus \cup {None}]
    /\ calls \in [Actions -> Nat]
    /\ effect \subseteq Actions
    /\ response \in [Actions -> Hashes \cup {None}]

Init ==
    /\ status = [k \in Keys |-> IF k \in Roots THEN "unknown" ELSE "absent"]
    /\ claim = [k \in Keys |-> None]
    /\ lease = [k \in Keys |-> "none"]
    /\ marked = {}
    /\ respHash = [k \in Keys |-> None]
    /\ capsule = [k \in Keys |-> IF k \in Roots \ Legacy THEN k ELSE None]
    /\ target = [d \in Decisions |-> None]
    /\ verdict = [d \in Decisions |-> None]
    /\ actStatus = [a \in Actions |-> "absent"]
    /\ actChild = [a \in Actions |-> None]
    /\ attemptCreated = {}
    /\ pc = [w \in Workers |-> "idle"]
    /\ child = [w \in Workers |-> None]
    /\ act = [w \in Workers |-> None]
    /\ outcome = [w \in Workers |-> None]
    /\ calls = [a \in Actions |-> 0]
    /\ effect = {}
    /\ response = [a \in Actions |-> None]

-----------------------------------------------------------------------------
(* The operator: RecoveryService RESOLVE_SIDE_EFFECT.                       *)

(* Faulty variant: the verdict itself is stored as the row's status.        *)
FaultyResolvedStatus(v) == v

ResolvedStatus(v) ==
    CASE v = "verified_completed" -> "completed"
      [] v = "safe_to_retry"      -> "retry_authorized"
      [] OTHER                    -> "failed"

(* Faulty variant: an authorized effect may be decided on again.            *)
FaultyResolvable(k) == status[k] \in {"unknown", "retry_authorized"}

Resolvable(k) == status[k] = "unknown"

(***************************************************************************)
(* The decision row and the status change commit together, and only if the *)
(* row is still 'unknown'.  verified_completed may name the response hash  *)
(* the operator verified (or an external reference instead).               *)
(***************************************************************************)
Resolve(d, k, v, h) ==
    /\ target[d] = None
    /\ Resolvable(k)
    /\ v # "verified_completed" => h = None
    /\ target' = [target EXCEPT ![d] = k]
    /\ verdict' = [verdict EXCEPT ![d] = v]
    /\ status' = [status EXCEPT ![k] = ResolvedStatus(v)]
    /\ respHash' = [respHash EXCEPT ![k] = h]
    /\ UNCHANGED <<claim, lease, marked, capsule, actionVars, attemptCreated,
                   workerVars, worldVars>>

-----------------------------------------------------------------------------
(* The coordinator, one command of one process.                             *)

At(w, here) == pc[w] = here
GoTo(w, there) == pc' = [pc EXCEPT ![w] = there]

(* The command ends, by a return or by an exception: its locals are gone.   *)
Leave(w) ==
    /\ GoTo(w, "idle")
    /\ child' = [child EXCEPT ![w] = None]
    /\ act' = [act EXCEPT ![w] = None]
    /\ outcome' = [outcome EXCEPT ![w] = None]

(* Hand over to the last step, which writes the outcome to the action row.  *)
Report(w, o) ==
    /\ GoTo(w, "record")
    /\ outcome' = [outcome EXCEPT ![w] = o]
    /\ UNCHANGED <<child, act>>

(***************************************************************************)
(* Steps 1, 2 and 2b: the parent is retry_authorized, has a replay capsule *)
(* and the decision is a safe_to_retry decision about it.  A command that  *)
(* fails one of these checks raises and changes nothing.                   *)
(***************************************************************************)
Begin(w, d) ==
    /\ At(w, "idle")
    /\ target[d] # None
    /\ status[target[d]] = "retry_authorized"
    /\ capsule[target[d]] # None
    /\ verdict[d] = "safe_to_retry"
    /\ GoTo(w, "lookup")
    /\ child' = [child EXCEPT ![w] = d]
    /\ UNCHANGED <<act, outcome, ledgerVars, decisionVars, actionVars, attemptCreated,
                   worldVars>>

(* Step 3: a child that is already past 'planned' ends the command.         *)
Lookup(w) ==
    /\ At(w, "lookup")
    /\ \/ /\ status[child[w]] = "absent"
          /\ GoTo(w, "allocate")
          /\ UNCHANGED locals
       \/ /\ status[child[w]] = "planned"
          /\ GoTo(w, "new_action")
          /\ UNCHANGED locals
       \/ /\ status[child[w]] \notin {"absent", "planned"}
          /\ Leave(w)
    /\ UNCHANGED <<ledgerVars, decisionVars, actionVars, attemptCreated,
                   worldVars>>

InsertAction(w, a) ==
    /\ actStatus[a] = "absent"
    /\ actStatus' = [actStatus EXCEPT ![a] = "created"]
    /\ actChild' = [actChild EXCEPT ![a] = child[w]]
    /\ act' = [act EXCEPT ![w] = a]
    /\ UNCHANGED <<child, outcome>>

(***************************************************************************)
(* Step 5: child row and action row in one transaction.  A child allocated *)
(* since the lookup violates the UNIQUE constraint; the loser converges.   *)
(***************************************************************************)
Allocate(w, a) ==
    /\ At(w, "allocate")
    /\ \/ /\ status[child[w]] = "absent"
          /\ InsertAction(w, a)
          /\ status' = [status EXCEPT ![child[w]] = "planned"]
          /\ capsule' = [capsule EXCEPT
                           ![child[w]] = capsule[target[child[w]]]]
          /\ GoTo(w, "emit_created")
       \/ /\ status[child[w]] # "absent"
          /\ Leave(w)
          /\ UNCHANGED <<status, capsule, actionVars>>
    /\ UNCHANGED <<claim, lease, marked, respHash, decisionVars,
                   attemptCreated, worldVars>>

(* The attempt-created record: a failure-isolated write after the commit.   *)
EmitCreated(w) ==
    /\ At(w, "emit_created")
    /\ attemptCreated' \in {attemptCreated, attemptCreated \cup {child[w]}}
    /\ GoTo(w, "claim")
    /\ UNCHANGED <<ledgerVars, decisionVars, actionVars, locals, worldVars>>

(* Step 5 for a planned child found in step 3: only a new action row.       *)
NewAction(w, a) ==
    /\ At(w, "new_action")
    /\ InsertAction(w, a)
    /\ GoTo(w, "claim")
    /\ UNCHANGED <<ledgerVars, decisionVars, attemptCreated, worldVars>>

(***************************************************************************)
(* Step 6: claim_recovery_attempt.  One transaction moves the child from   *)
(* 'planned' to 'started' under this claim with a fresh lease and the      *)
(* action row from 'created' to 'claimed', or rolls back.                  *)
(***************************************************************************)
Claimable(w) ==
    /\ status[child[w]] = "planned"
    /\ actStatus[act[w]] = "created"

Claim(w) ==
    /\ At(w, "claim")
    /\ \/ /\ Claimable(w)
          /\ status' = [status EXCEPT ![child[w]] = "started"]
          /\ claim' = [claim EXCEPT ![child[w]] = act[w]]
          /\ lease' = [lease EXCEPT ![child[w]] = "valid"]
          /\ actStatus' = [actStatus EXCEPT ![act[w]] = "claimed"]
          /\ GoTo(w, "prepare")
          /\ UNCHANGED locals
       \/ /\ ~ Claimable(w)
          /\ Report(w, "not_acquired")
          /\ UNCHANGED <<status, claim, lease, actStatus>>
    /\ UNCHANGED <<marked, respHash, capsule, decisionVars, actChild,
                   attemptCreated, worldVars>>

(***************************************************************************)
(* Step 7a: _prepare_dispatch decrypts the capsule and checks adapter,     *)
(* attestation, envelope and digest.  The capsule row is the one the       *)
(* parent refers to, but it is decrypted with the parent's own key as      *)
(* associated data and the adapter's name is parsed out of the parent's    *)
(* key: both fail unless the capsule was encrypted for the parent itself.  *)
(***************************************************************************)
CapsuleOpens(k) == capsule[k] = k

Prepare(w) ==
    /\ At(w, "prepare")
    /\ \/ /\ CapsuleOpens(target[child[w]])
          /\ GoTo(w, "boundary")
       \/ /\ CapsuleOpens(target[child[w]]) => PrepFaults
          /\ GoTo(w, "fail_prep")
    /\ UNCHANGED <<ledgerVars, decisionVars, actionVars, attemptCreated, locals,
                   worldVars>>

(* Faulty variant: the status is compared but not the fencing token.        *)
FaultyHoldsFence(w) == status[child[w]] = "started"

(* The predicate of every fenced transition of a child.                     *)
HoldsFence(w) ==
    /\ status[child[w]] = "started"
    /\ claim[child[w]] = act[w]

(* fail_recovery_attempt after a failed preparation.                        *)
FailPrep(w) ==
    /\ At(w, "fail_prep")
    /\ \/ /\ HoldsFence(w)
          /\ status' = [status EXCEPT ![child[w]] = "failed"]
          /\ Report(w, "failed")
       \/ /\ ~ HoldsFence(w)
          /\ Report(w, "not_acquired")
          /\ UNCHANGED status
    /\ UNCHANGED <<claim, lease, marked, respHash, capsule, decisionVars,
                   actionVars, attemptCreated, worldVars>>

(***************************************************************************)
(* Step 7b: mark_recovery_dispatch_attempted, the one-shot fenced CAS that *)
(* must precede the adapter call.                                          *)
(***************************************************************************)
MayCross(w) ==
    /\ HoldsFence(w)
    /\ child[w] \notin marked
    /\ lease[child[w]] = "valid"

CrossBoundary(w) ==
    /\ At(w, "boundary")
    /\ \/ /\ MayCross(w)
          /\ marked' = marked \cup {child[w]}
          /\ GoTo(w, "mark_started")
          /\ UNCHANGED locals
       \/ /\ ~ MayCross(w)
          /\ Report(w, "not_acquired")
          /\ UNCHANGED marked
    /\ UNCHANGED <<status, claim, lease, respHash, capsule, decisionVars,
                   actionVars, attemptCreated, worldVars>>

(* update_recovery_execution_status: by action id, whatever its status is.  *)
MarkStarted(w) ==
    /\ At(w, "mark_started")
    /\ actStatus' = [actStatus EXCEPT ![act[w]] = "dispatch_started"]
    /\ GoTo(w, "dispatch")
    /\ UNCHANGED <<ledgerVars, decisionVars, actChild, attemptCreated, locals,
                   worldVars>>

(***************************************************************************)
(* Step 8: the guarded adapter call.  A returned result is 'completed', a  *)
(* confirmed no-effect error is 'failed', any other error or a timeout is  *)
(* 'unknown', and then nobody knows whether the effect happened.           *)
(***************************************************************************)
DispatchOutcome(w, o, happened, h) ==
    /\ o = "completed" => happened /\ h # None
    /\ o # "completed" => h = None
    /\ o = "failed" => ~ happened
    /\ calls' = [calls EXCEPT ![act[w]] = @ + 1]
    /\ effect' = IF happened THEN effect \cup {act[w]} ELSE effect
    /\ response' = [response EXCEPT ![act[w]] = h]
    /\ outcome' = [outcome EXCEPT ![w] = o]
    /\ UNCHANGED <<child, act>>

Dispatch(w) ==
    /\ At(w, "dispatch")
    /\ \E o \in {"completed", "failed", "unknown"}, happened \in BOOLEAN,
          h \in Hashes \cup {None} : DispatchOutcome(w, o, happened, h)
    /\ GoTo(w, "terminalize")
    /\ UNCHANGED <<ledgerVars, decisionVars, actionVars, attemptCreated>>

(***************************************************************************)
(* Step 9: _terminalize moves the child under the fence.  A worker that    *)
(* lost the fence after a completed call reads the child again.            *)
(***************************************************************************)
TerminalizeCompleted(w) ==
    /\ outcome[w] = "completed"
    /\ \/ /\ HoldsFence(w)
          /\ status' = [status EXCEPT ![child[w]] = "completed"]
          /\ respHash' = [respHash EXCEPT ![child[w]] = response[act[w]]]
          /\ Report(w, "completed")
       \/ /\ ~ HoldsFence(w)
          /\ GoTo(w, "reread")
          /\ UNCHANGED <<status, respHash, locals>>

TerminalizeFailed(w) ==
    /\ outcome[w] = "failed"
    /\ \/ /\ HoldsFence(w)
          /\ status' = [status EXCEPT ![child[w]] = "failed"]
          /\ Report(w, "failed")
       \/ /\ ~ HoldsFence(w)
          /\ Report(w, "unknown")
          /\ UNCHANGED status
    /\ UNCHANGED respHash

TerminalizeUnknown(w) ==
    /\ outcome[w] = "unknown"
    /\ status' = IF HoldsFence(w)
                 THEN [status EXCEPT ![child[w]] = "unknown"] ELSE status
    /\ Report(w, "unknown")
    /\ UNCHANGED respHash

Terminalize(w) ==
    /\ At(w, "terminalize")
    /\ \/ TerminalizeCompleted(w)
       \/ TerminalizeFailed(w)
       \/ TerminalizeUnknown(w)
    /\ UNCHANGED <<claim, lease, marked, capsule, decisionVars, actionVars,
                   attemptCreated, worldVars>>

(* Faulty variant: a completed child is taken for this worker's own.        *)
FaultySameResponse(w) == status[child[w]] = "completed"

(* Fence lost after a completed call: only an equal response hash converges. *)
SameResponse(w) ==
    /\ status[child[w]] = "completed"
    /\ respHash[child[w]] = response[act[w]]

Reread(w) ==
    /\ At(w, "reread")
    /\ Report(w, IF SameResponse(w) THEN "completed" ELSE "unknown")
    /\ UNCHANGED <<ledgerVars, decisionVars, actionVars, attemptCreated,
                   worldVars>>

(* The final write to the action row, again by action id only.              *)
Record(w) ==
    /\ At(w, "record")
    /\ actStatus' = [actStatus EXCEPT ![act[w]] = outcome[w]]
    /\ Leave(w)
    /\ UNCHANGED <<ledgerVars, decisionVars, actChild, attemptCreated,
                   worldVars>>

(* The worker's process dies between any two of its steps.                  *)
Crash(w) ==
    /\ ~ At(w, "idle")
    /\ Leave(w)
    /\ UNCHANGED <<ledgerVars, decisionVars, actionVars, attemptCreated,
                   worldVars>>

-----------------------------------------------------------------------------
(* Leases and their repair.                                                 *)

(* Time passes; only the lease of a started row is ever compared with it.   *)
LeaseExpires(k) ==
    /\ status[k] = "started"
    /\ lease[k] = "valid"
    /\ lease' = [lease EXCEPT ![k] = "expired"]
    /\ UNCHANGED <<status, claim, marked, respHash, capsule, decisionVars,
                   actionVars, attemptCreated, workerVars, worldVars>>

(* heartbeat_recovery_attempt, by the holder of the fencing token.          *)
Heartbeat(w) ==
    /\ act[w] # None
    /\ HoldsFence(w)
    /\ lease' = [lease EXCEPT ![child[w]] = "valid"]
    /\ UNCHANGED <<status, claim, marked, respHash, capsule, decisionVars,
                   actionVars, attemptCreated, workerVars, worldVars>>

(* Faulty variant: only children that never crossed the boundary.           *)
FaultyExpired(k) ==
    /\ k \in Decisions
    /\ status[k] = "started"
    /\ lease[k] = "expired"
    /\ k \notin marked

Expired(k) ==
    /\ k \in Decisions
    /\ status[k] = "started"
    /\ lease[k] = "expired"

(***************************************************************************)
(* reconcile_expired_recovery_children: one transaction repairs the        *)
(* expired children its scan found.  A child past the boundary becomes     *)
(* 'unknown', any other is requeued without an owner; the action row of    *)
(* the lost claim follows if it is still active.                           *)
(***************************************************************************)
(* Faulty variant: every expired child is requeued.                         *)
FaultyRequeued(S) == S

Requeued(S) == S \ marked

LostAction(a, S) ==
    /\ actStatus[a] \in {"claimed", "dispatch_started"}
    /\ actChild[a] \in S
    /\ claim[actChild[a]] = a

Reconcile(S) ==
    /\ S # {}
    /\ \A k \in S : Expired(k)
    /\ status' = [k \in Keys |->
                    IF k \in S
                    THEN IF k \in Requeued(S) THEN "planned" ELSE "unknown"
                    ELSE status[k]]
    /\ claim' = [k \in Keys |-> IF k \in Requeued(S) THEN None ELSE claim[k]]
    /\ lease' = [k \in Keys |-> IF k \in Requeued(S) THEN "none" ELSE lease[k]]
    /\ marked' = marked \ Requeued(S)
    /\ actStatus' = [a \in Actions |->
                       IF LostAction(a, S)
                       THEN IF actChild[a] \in Requeued(S) THEN "not_acquired"
                                                           ELSE "unknown"
                       ELSE actStatus[a]]
    /\ UNCHANGED <<respHash, capsule, decisionVars, actChild,
                   attemptCreated, workerVars, worldVars>>

(***************************************************************************)
(* reclaim_expired_recovery_attempt: repairs one expired child without     *)
(* touching any action row.  A child past the boundary becomes 'unknown',  *)
(* any other stays 'started' under a new token and a new lease.  No caller *)
(* in the repository uses the new token, written None here.                *)
(***************************************************************************)
Reclaim(k) ==
    /\ Expired(k)
    /\ \/ /\ k \in marked
          /\ status' = [status EXCEPT ![k] = "unknown"]
          /\ UNCHANGED <<claim, lease>>
       \/ /\ k \notin marked
          /\ claim' = [claim EXCEPT ![k] = None]
          /\ lease' = [lease EXCEPT ![k] = "valid"]
          /\ UNCHANGED status
    /\ UNCHANGED <<marked, respHash, capsule, decisionVars, actionVars,
                   attemptCreated, workerVars, worldVars>>

-----------------------------------------------------------------------------
WorkerStep(w) ==
    \/ Lookup(w)
    \/ \E a \in Actions : Allocate(w, a) \/ NewAction(w, a)
    \/ EmitCreated(w)
    \/ Claim(w)
    \/ Prepare(w)
    \/ FailPrep(w)
    \/ CrossBoundary(w)
    \/ MarkStarted(w)
    \/ Dispatch(w)
    \/ Terminalize(w)
    \/ Reread(w)
    \/ Record(w)

(* What the repository's own commands do.                                   *)
CommandNext ==
    \/ \E d \in Decisions, k \in Keys, v \in Verdicts, h \in Hashes \cup {None} :
          Resolve(d, k, v, h)
    \/ \E w \in Workers, d \in Decisions : Begin(w, d)
    \/ \E w \in Workers : WorkerStep(w) \/ Crash(w) \/ Heartbeat(w)
    \/ \E k \in Keys : LeaseExpires(k)
    \/ \E S \in SUBSET Decisions : Reconcile(S)

(* With the store operation that no command calls.                          *)
Next == CommandNext \/ \E k \in Keys : Reclaim(k)

Spec == Init /\ [][Next]_vars

(***************************************************************************)
(* A command is a running process: it takes its next step or it dies.      *)
(* Clocks advance, so leases expire.  Expired children are repaired each   *)
(* time somebody reconciles the run's trace, which is assumed to go on.    *)
(* A caller that only ever reclaimed could keep a child 'started' for ever *)
(* by renewing its lease; there is no such caller, so Reclaim is left out. *)
(***************************************************************************)
Fairness ==
    /\ \A w \in Workers : WF_vars(WorkerStep(w) \/ Crash(w))
    /\ \A k \in Keys : WF_vars(LeaseExpires(k))
    /\ \A d \in Decisions : WF_vars(Reconcile({d}))

FairSpec == Init /\ [][CommandNext]_vars /\ Fairness

-----------------------------------------------------------------------------
(* Properties.                                                              *)

(***************************************************************************)
(* INV-012: whatever the number of commands, crashes, lease expiries and   *)
(* requeues, the adapter is called at most once for one child row, and an  *)
(* adapter call leaves the durable dispatch marker (INV-011).              *)
(***************************************************************************)
ExclusiveDispatch ==
    \A a \in Actions : calls[a] > 0 =>
        /\ calls[a] = 1
        /\ actChild[a] \in marked
        /\ \A b \in Actions :
              calls[b] > 0 /\ actChild[b] = actChild[a] => b = a

(* The operator decided on row k, so its status is no longer the workers'. *)
Decided(k) == \E d \in Decisions : target[d] = k

(***************************************************************************)
(* What the coordinator writes into a child on its own is the truth about  *)
(* the external system: 'failed' means that no call for the child had an   *)
(* effect, 'completed' that the call of the recorded claim had one and     *)
(* returned the recorded response.                                         *)
(***************************************************************************)
ChildTruth ==
    \A d \in Decisions : ~ Decided(d) =>
        /\ status[d] = "failed" =>
              \A a \in effect : actChild[a] # d
        /\ status[d] = "completed" =>
              /\ claim[d] \in effect
              /\ actChild[claim[d]] = d
              /\ respHash[d] = response[claim[d]]

(* An action recorded 'completed' has a completed child with the response   *)
(* its own call returned, one recorded 'failed' a failed child.             *)
RowTruth ==
    \A a \in Actions :
        /\ actStatus[a] = "completed" =>
              /\ status[actChild[a]] = "completed"
              /\ respHash[actChild[a]] = response[a]
        /\ actStatus[a] = "failed" => status[actChild[a]] = "failed"

(* An action recorded 'not_acquired' never reached the adapter.             *)
NotAcquiredTruth ==
    \A a \in Actions : actStatus[a] = "not_acquired" => calls[a] = 0

(***************************************************************************)
(* The audit row never claims more than the ledger (INV-009): whatever     *)
(* final status an action is recorded with, its child and its own call     *)
(* bear it out.                                                            *)
(***************************************************************************)
ActionTruth == RowTruth /\ NotAcquiredTruth

(***************************************************************************)
(* INV-001 and INV-002: an effect is decided on at most once, so one       *)
(* authorization has one child and a lineage never branches.               *)
(***************************************************************************)
OneDecisionPerEffect ==
    \A d, e \in Decisions : target[d] # None /\ target[d] = target[e] => d = e

(***************************************************************************)
(* INV-003: once a child is allocated, its parent's row keeps its status   *)
(* and response for good.                                                  *)
(***************************************************************************)
HasChild(k) == \E d \in Decisions : target[d] = k /\ status[d] # "absent"

ParentImmutable ==
    [][\A k \in Keys : HasChild(k) =>
          status'[k] = status[k] /\ respHash'[k] = respHash[k]]_vars

(***************************************************************************)
(* A claimed child does not stay 'started' for ever: its worker finishes,  *)
(* or its lease expires and the reconciler repairs it, before or after the *)
(* dispatch boundary.                                                      *)
(***************************************************************************)
StartedChildSettles ==
    \A d \in Decisions : status[d] = "started" ~> status[d] # "started"
=============================================================================
