------------------------ MODULE RetryExecutionProofs ------------------------
(***************************************************************************)
(* Proofs about RetryExecution for every set of roots, decisions, workers, *)
(* actions and hashes.                                                     *)
(* The argument rests on one fact: once a child carries the dispatch       *)
(* marker its claim never changes again (Claim needs 'planned', and the    *)
(* repairs take the claim away only from an unmarked child).  Whoever      *)
(* called the adapter therefore is the recorded claim, and two callers     *)
(* would be one.                                                           *)
(***************************************************************************)
EXTENDS RetryExecution, TLAPS

(* Where a command has an action row of its own.                            *)
HasAction == {"emit_created", "claim", "prepare", "fail_prep", "boundary",
              "mark_started", "dispatch", "terminalize", "reread", "record"}

BeforeCall == {"emit_created", "claim", "prepare", "fail_prep", "boundary",
               "mark_started", "dispatch"}

(* An action row exists before anything refers to it.                       *)
RowsInv ==
    /\ \A a \in Actions : actStatus[a] = "absent" =>
          /\ actChild[a] = None
          /\ calls[a] = 0
          /\ \A k \in Keys : claim[k] # a
          /\ \A w \in Workers : act[w] # a
    /\ \A a \in Actions : actStatus[a] # "absent" => actChild[a] \in Decisions
    /\ \A k \in Keys : claim[k] # None => actChild[claim[k]] = k

(* A command works on the child of its own action row, which no other       *)
(* command shares.                                                          *)
WorkerInv ==
    /\ \A w \in Workers :
          /\ pc[w] # "idle" => child[w] \in Decisions /\ target[child[w]] # None
          /\ pc[w] \in HasAction <=> act[w] # None
          /\ act[w] # None => actChild[act[w]] = child[w]
          /\ pc[w] \in BeforeCall => calls[act[w]] = 0
          /\ pc[w] = "record" => outcome[w] \in FinalActionStatus
    /\ \A v, w \in Workers : act[v] # None /\ act[v] = act[w] => v = w

(* The marker fixes the claim, and every call is covered by both.           *)
MarkerInv ==
    /\ \A k \in marked : status[k] \notin {"absent", "planned"}
    /\ \A a \in Actions : calls[a] > 0 =>
          /\ calls[a] = 1
          /\ actChild[a] \in marked
          /\ claim[actChild[a]] = a
    /\ \A w \in Workers : pc[w] \in {"mark_started", "dispatch"} =>
          /\ child[w] \in marked
          /\ claim[child[w]] = act[w]

IInv == TypeOK /\ RowsInv /\ WorkerInv /\ MarkerInv

(***************************************************************************)
(* Decided effects are settled: no action moves a row out of these.        *)
(***************************************************************************)
Settled == {"completed", "failed", "retry_authorized"}

LineageInv ==
    /\ OneDecisionPerEffect
    /\ \A d \in Decisions : target[d] # None => status[target[d]] \in Settled

(***************************************************************************)
(* What a worker knows about its call, and that nobody but the operator    *)
(* settles a child whose worker is about to call the adapter.              *)
(***************************************************************************)
CallInv ==
    /\ \A a \in effect : calls[a] > 0
    /\ \A w \in Workers : pc[w] = "terminalize" =>
          /\ calls[act[w]] > 0
          /\ outcome[w] = "completed" => act[w] \in effect
          /\ outcome[w] = "failed" => act[w] \notin effect
    /\ \A w \in Workers : pc[w] \in {"mark_started", "dispatch"} =>
          status[child[w]] \in {"started", "unknown"} \/ Decided(child[w])

(* What a worker is about to record is true of its child.                   *)
OutcomeInv ==
    \A w \in Workers : pc[w] = "record" =>
        /\ outcome[w] = "completed" =>
              /\ status[child[w]] = "completed"
              /\ respHash[child[w]] = response[act[w]]
        /\ outcome[w] = "failed" => status[child[w]] = "failed"
        /\ outcome[w] = "not_acquired" => calls[act[w]] = 0

(* Only its own worker finishes an action row that is not abandoned.        *)
OwnRowInv ==
    \A w \in Workers :
        /\ act[w] # None => actStatus[act[w]] \notin {"completed", "failed"}
        /\ pc[w] \in {"prepare", "boundary"} /\ HoldsFence(w) =>
              actStatus[act[w]] = "claimed"
        /\ pc[w] \in {"mark_started", "dispatch"} =>
              actStatus[act[w]] # "not_acquired"

TruthInv == CallInv /\ OutcomeInv /\ OwnRowInv /\ ChildTruth /\ RowTruth
              /\ NotAcquiredTruth

-----------------------------------------------------------------------------
(* Proof of the invariant, one lemma per action.                            *)

USE ConstAssumption
USE DEF ledgerVars, decisionVars, actionVars, workerVars, worldVars, Keys,
        Tokens, At, GoTo, locals

(* The initial states satisfy the invariant.                                *)
LEMMA InitInv == Init => IInv
  BY DEF Init, IInv, TypeOK, RowsInv, WorkerInv, MarkerInv, RowStatus,
     ActionStatus, Locations, FinalActionStatus, HasAction, BeforeCall

(***************************************************************************)
(* Type correctness of the actions with alternatives.  It needs no more    *)
(* than the types and that the command has its child and action.           *)
(***************************************************************************)
LEMMA LookupType ==
  ASSUME TypeOK, NEW w \in Workers, Lookup(w)
  PROVE  TypeOK'
  BY DEF TypeOK, Locations, Lookup, Leave

(* A fresh child and its first action row, or nothing.                      *)
LEMMA AllocateType ==
  ASSUME TypeOK, NEW w \in Workers, NEW a \in Actions, Allocate(w, a),
         child[w] \in Decisions, target[child[w]] # None
  PROVE  TypeOK'
  <1>1. CASE status[child[w]] = "absent"
    BY SMTT(30), <1>1 DEF TypeOK, RowStatus, ActionStatus, Locations, Allocate,
                InsertAction
  <1>2. CASE status[child[w]] # "absent"
    BY <1>2 DEF TypeOK, Locations, Allocate, Leave
  <1>. QED
    BY <1>1, <1>2

(* The claim writes the action of its worker.                               *)
LEMMA ClaimType ==
  ASSUME TypeOK, NEW w \in Workers, Claim(w)
  PROVE  TypeOK'
  <1>1. CASE Claimable(w)
    BY SMTT(30), <1>1 DEF TypeOK, RowStatus, ActionStatus, Locations, Claim
  <1>2. CASE ~ Claimable(w)
    BY <1>2 DEF TypeOK, FinalActionStatus, Locations, Claim, Report
  <1>. QED
    BY <1>1, <1>2

(* A failed preparation, with or without the fence.                         *)
LEMMA FailPrepType ==
  ASSUME TypeOK, NEW w \in Workers, FailPrep(w)
  PROVE  TypeOK'
  BY DEF TypeOK, RowStatus, FinalActionStatus, Locations, FailPrep, Report

(* The marker is set on the worker's child.                                 *)
LEMMA CrossBoundaryType ==
  ASSUME TypeOK, NEW w \in Workers, CrossBoundary(w), child[w] \in Decisions
  PROVE  TypeOK'
  BY DEF TypeOK, FinalActionStatus, Locations, CrossBoundary, Report

(* The response of a completed call is stored in the child.                 *)
LEMMA TerminalizeType ==
  ASSUME TypeOK, NEW w \in Workers, Terminalize(w), act[w] \in Actions
  PROVE  TypeOK'
  <1>1. CASE TerminalizeCompleted(w)
    BY <1>1 DEF TypeOK, RowStatus, FinalActionStatus, Locations, Terminalize,
                TerminalizeCompleted, Report
  <1>2. CASE TerminalizeFailed(w)
    BY <1>2 DEF TypeOK, RowStatus, FinalActionStatus, Locations, Terminalize,
                TerminalizeFailed, Report
  <1>3. CASE TerminalizeUnknown(w)
    BY <1>3 DEF TypeOK, RowStatus, FinalActionStatus, Locations, Terminalize,
                TerminalizeUnknown, Report
  <1>. QED
    BY <1>1, <1>2, <1>3 DEF Terminalize

(* A reclaimed child gets a new lease.                                      *)
LEMMA ReclaimType ==
  ASSUME TypeOK, NEW k \in Keys, Reclaim(k)
  PROVE  TypeOK'
  BY DEF TypeOK, RowStatus, Reclaim

USE DEF IInv, TypeOK, RowsInv, WorkerInv, MarkerInv, HasAction, BeforeCall,
        RowStatus, ActionStatus, FinalActionStatus, Locations

(* A decision settles an unknown row and touches no worker.                 *)
LEMMA ResolveInv ==
  ASSUME IInv, NEW d \in Decisions, NEW k \in Keys, NEW v \in Verdicts,
         NEW h \in Hashes \cup {None}, Resolve(d, k, v, h)
  PROVE  IInv'
  BY DEF Resolve, Resolvable, ResolvedStatus, Verdicts

(* A command starts on a decided child, without an action row.              *)
LEMMA BeginInv ==
  ASSUME IInv, NEW w \in Workers, NEW d \in Decisions, Begin(w, d)
  PROVE  IInv'
  BY DEF Begin

(* A lookup only moves the command.                                         *)
LEMMA LookupInv ==
  ASSUME IInv, NEW w \in Workers, Lookup(w)
  PROVE  IInv'
  <1>1. TypeOK'
    BY LookupType
  <1>2. RowsInv' /\ WorkerInv' /\ MarkerInv'
    BY DEF Lookup, Leave
  <1>. QED
    BY <1>1, <1>2 DEF IInv

(* Only an absent child is allocated, under a fresh action row.             *)
LEMMA AllocateInv ==
  ASSUME IInv, NEW w \in Workers, NEW a \in Actions, Allocate(w, a)
  PROVE  IInv'
  <1>1. TypeOK'
    BY AllocateType DEF Allocate
  <1>2. RowsInv'
    BY SMTT(30) DEF Allocate, InsertAction, Leave
  <1>3. WorkerInv'
    BY DEF Allocate, InsertAction, Leave
  <1>4. MarkerInv'
    BY SMTT(30) DEF Allocate, InsertAction, Leave
  <1>. QED
    BY <1>1, <1>2, <1>3, <1>4 DEF IInv

(* The metric is no part of the ledger.                                     *)
LEMMA EmitCreatedInv ==
  ASSUME IInv, NEW w \in Workers, EmitCreated(w)
  PROVE  IInv'
  BY DEF EmitCreated

(* A fresh action row for a planned child.                                  *)
LEMMA NewActionInv ==
  ASSUME IInv, NEW w \in Workers, NEW a \in Actions, NewAction(w, a)
  PROVE  IInv'
  BY DEF NewAction, InsertAction

(* Only an unmarked child is planned, so a claim overwrites no caller.      *)
LEMMA ClaimInv ==
  ASSUME IInv, NEW w \in Workers, Claim(w)
  PROVE  IInv'
  <1>1. TypeOK'
    BY ClaimType
  <1>2. RowsInv'
    BY DEF Claim, Claimable, Report
  <1>3. WorkerInv'
    BY DEF Claim, Claimable, Report
  <1>4. MarkerInv'
    BY DEF Claim, Claimable, Report
  <1>. QED
    BY <1>1, <1>2, <1>3, <1>4 DEF IInv

(* A preparation only moves the command.                                    *)
LEMMA PrepareInv ==
  ASSUME IInv, NEW w \in Workers, Prepare(w)
  PROVE  IInv'
  BY DEF Prepare

(* A failed preparation fails the child under the fence.                    *)
LEMMA FailPrepInv ==
  ASSUME IInv, NEW w \in Workers, FailPrep(w)
  PROVE  IInv'
  <1>1. TypeOK'
    BY FailPrepType
  <1>2. RowsInv'
    BY DEF FailPrep, HoldsFence, Report
  <1>3. WorkerInv'
    BY DEF FailPrep, HoldsFence, Report
  <1>4. MarkerInv'
    BY DEF FailPrep, HoldsFence, Report
  <1>. QED
    BY <1>1, <1>2, <1>3, <1>4 DEF IInv

(* The marker is set by the holder of the claim.                            *)
LEMMA CrossBoundaryInv ==
  ASSUME IInv, NEW w \in Workers, CrossBoundary(w)
  PROVE  IInv'
  <1>1. TypeOK'
    BY CrossBoundaryType DEF CrossBoundary
  <1>2. RowsInv'
    BY DEF CrossBoundary, MayCross, HoldsFence, Report
  <1>3. WorkerInv'
    BY DEF CrossBoundary, MayCross, HoldsFence, Report
  <1>4. MarkerInv'
    BY DEF CrossBoundary, MayCross, HoldsFence, Report
  <1>. QED
    BY <1>1, <1>2, <1>3, <1>4 DEF IInv

(* The action row is rewritten by its own worker.                           *)
LEMMA MarkStartedInv ==
  ASSUME IInv, NEW w \in Workers, MarkStarted(w)
  PROVE  IInv'
  BY DEF MarkStarted

(* The caller is the claim of a marked child.                               *)
LEMMA DispatchInv ==
  ASSUME IInv, NEW w \in Workers, Dispatch(w)
  PROVE  IInv'
  BY DEF Dispatch, DispatchOutcome

(* The child is settled under the fence.                                    *)
LEMMA TerminalizeInv ==
  ASSUME IInv, NEW w \in Workers, Terminalize(w)
  PROVE  IInv'
  <1>1. TypeOK'
    BY TerminalizeType DEF Terminalize
  <1>2. RowsInv'
    BY DEF Terminalize, TerminalizeCompleted, TerminalizeFailed,
           TerminalizeUnknown, HoldsFence, Report
  <1>3. WorkerInv'
    BY DEF Terminalize, TerminalizeCompleted, TerminalizeFailed,
           TerminalizeUnknown, HoldsFence, Report
  <1>4. MarkerInv'
    BY DEF Terminalize, TerminalizeCompleted, TerminalizeFailed,
           TerminalizeUnknown, HoldsFence, Report
  <1>. QED
    BY <1>1, <1>2, <1>3, <1>4 DEF IInv

(* A reread only chooses the outcome to record.                             *)
LEMMA RereadInv ==
  ASSUME IInv, NEW w \in Workers, Reread(w)
  PROVE  IInv'
  BY DEF Reread, Report

(* The command gives up its action row.                                     *)
LEMMA RecordInv ==
  ASSUME IInv, NEW w \in Workers, Record(w)
  PROVE  IInv'
  BY DEF Record, Leave

(* A dead command refers to nothing.                                        *)
LEMMA CrashInv ==
  ASSUME IInv, NEW w \in Workers, Crash(w)
  PROVE  IInv'
  BY DEF Crash, Leave

(* Leases only restrict the boundary.                                       *)
LEMMA LeaseInv ==
  ASSUME IInv, NEW k \in Keys, LeaseExpires(k)
  PROVE  IInv'
  BY DEF LeaseExpires

(* Leases only restrict the boundary.                                       *)
LEMMA HeartbeatInv ==
  ASSUME IInv, NEW w \in Workers, Heartbeat(w)
  PROVE  IInv'
  BY DEF Heartbeat

(* Only unmarked children lose their claim.                                 *)
LEMMA ReconcileInv ==
  ASSUME IInv, NEW S \in SUBSET Decisions, Reconcile(S)
  PROVE  IInv'
  <1>1. TypeOK'
    BY DEF Reconcile, Expired, Requeued, LostAction
  <1>2. RowsInv'
    BY DEF Reconcile, Expired, Requeued, LostAction
  <1>3. WorkerInv'
    BY DEF Reconcile, Expired, Requeued, LostAction
  <1>4. MarkerInv'
    BY DEF Reconcile, Expired, Requeued, LostAction
  <1>. QED
    BY <1>1, <1>2, <1>3, <1>4 DEF IInv

(* Only an unmarked child loses its claim.                                  *)
LEMMA ReclaimInv ==
  ASSUME IInv, NEW k \in Keys, Reclaim(k)
  PROVE  IInv'
  <1>1. CASE k \in marked
    BY <1>1 DEF Reclaim, Expired
  <1>2. CASE k \notin marked
    <2>1. TypeOK'
      BY ReclaimType
    <2>2. RowsInv'
      BY <1>2 DEF Reclaim, Expired
    <2>3. WorkerInv'
      BY <1>2 DEF Reclaim, Expired
    <2>4. MarkerInv'
      BY <1>2 DEF Reclaim, Expired
    <2>. QED
      BY <2>1, <2>2, <2>3, <2>4 DEF IInv
  <1>. QED
    BY <1>1, <1>2

HIDE DEF IInv, TypeOK, RowsInv, WorkerInv, MarkerInv, HasAction, BeforeCall,
         RowStatus, ActionStatus, FinalActionStatus, Locations

(* Every step of the specification preserves the invariant.                 *)
LEMMA NextInv == IInv /\ [Next]_vars => IInv'
  <1>. SUFFICES ASSUME IInv, [Next]_vars PROVE IInv'
    OBVIOUS
  <1>1. CASE UNCHANGED vars
    BY <1>1 DEF vars, IInv, TypeOK, RowsInv, WorkerInv, MarkerInv
  <1>2. CASE Next
    BY <1>2, ResolveInv, BeginInv, LookupInv, AllocateInv, EmitCreatedInv,
       NewActionInv, ClaimInv, PrepareInv, FailPrepInv, CrossBoundaryInv,
       MarkStartedInv, DispatchInv, TerminalizeInv, RereadInv, RecordInv,
       CrashInv, LeaseInv, HeartbeatInv, ReconcileInv, ReclaimInv
       DEF Next, CommandNext, WorkerStep
  <1>. QED
    BY <1>1, <1>2

(***************************************************************************)
(* The invariant holds in every reachable state.                           *)
(***************************************************************************)
THEOREM Invariance == Spec => []IInv
  BY InitInv, NextInv, PTL DEF Spec

(***************************************************************************)
(* Type correctness of the ledger, the action rows and the workers.        *)
(***************************************************************************)
THEOREM TypeCorrect == Spec => []TypeOK
  <1>1. IInv => TypeOK
    BY DEF IInv
  <1>. QED
    BY <1>1, Invariance, PTL

(***************************************************************************)
(* INV-012 and INV-011 for any number of commands, crashes, requeues and   *)
(* retries: one adapter call per child at most, and it leaves the marker.  *)
(***************************************************************************)
THEOREM Exclusive == Spec => []ExclusiveDispatch
  <1>1. IInv => ExclusiveDispatch
    BY DEF IInv, MarkerInv, ExclusiveDispatch
  <1>. QED
    BY <1>1, Invariance, PTL

-----------------------------------------------------------------------------
(* Settled rows and the shape of a lineage.                                 *)

(***************************************************************************)
(* No step changes the status or the response hash of a settled row: the   *)
(* operator decides on 'unknown' rows, workers move 'planned' and          *)
(* 'started' ones, the repairs 'started' ones.                             *)
(***************************************************************************)
LEMMA SettledFrame ==
  ASSUME IInv, Next, NEW k \in Keys, status[k] \in Settled
  PROVE  status'[k] = status[k] /\ respHash'[k] = respHash[k]
  <1>. USE DEF IInv, TypeOK, Settled
  <1>1. ASSUME NEW d \in Decisions, NEW j \in Keys, NEW v \in Verdicts,
               NEW h \in Hashes \cup {None}, Resolve(d, j, v, h)
        PROVE  status'[k] = status[k] /\ respHash'[k] = respHash[k]
    BY <1>1 DEF Resolve, Resolvable
  <1>2. ASSUME NEW w \in Workers, WorkerStep(w)
        PROVE  status'[k] = status[k] /\ respHash'[k] = respHash[k]
    <2>1. CASE \E a \in Actions : Allocate(w, a) \/ NewAction(w, a)
      BY <2>1 DEF Allocate, NewAction
    <2>2. CASE Claim(w)
      BY <2>2 DEF Claim, Claimable
    <2>3. CASE FailPrep(w)
      BY <2>3 DEF FailPrep, HoldsFence
    <2>4. CASE Terminalize(w)
      BY <2>4 DEF Terminalize, TerminalizeCompleted, TerminalizeFailed,
                  TerminalizeUnknown, HoldsFence
    <2>5. CASE Lookup(w) \/ EmitCreated(w) \/ Prepare(w) \/ CrossBoundary(w)
               \/ MarkStarted(w) \/ Dispatch(w) \/ Reread(w) \/ Record(w)
      BY <2>5 DEF Lookup, EmitCreated, Prepare, CrossBoundary, MarkStarted,
                  Dispatch, Reread, Record
    <2>. QED
      BY <1>2, <2>1, <2>2, <2>3, <2>4, <2>5 DEF WorkerStep
  <1>3. ASSUME NEW S \in SUBSET Decisions, Reconcile(S)
        PROVE  status'[k] = status[k] /\ respHash'[k] = respHash[k]
    BY <1>3 DEF Reconcile, Expired
  <1>4. ASSUME NEW j \in Keys, Reclaim(j)
        PROVE  status'[k] = status[k] /\ respHash'[k] = respHash[k]
    BY <1>4 DEF Reclaim, Expired
  <1>5. CASE \/ \E w \in Workers, d \in Decisions : Begin(w, d)
             \/ \E w \in Workers : Crash(w) \/ Heartbeat(w)
             \/ \E j \in Keys : LeaseExpires(j)
    BY <1>5 DEF Begin, Crash, Heartbeat, LeaseExpires
  <1>. QED
    BY <1>1, <1>2, <1>3, <1>4, <1>5 DEF Next, CommandNext

(* Decisions are only ever added, and only about an 'unknown' row.          *)
LEMMA DecisionFrame ==
  ASSUME IInv, Next
  PROVE  \/ target' = target
         \/ \E d \in Decisions, k \in Keys :
              /\ target[d] = None
              /\ status[k] = "unknown"
              /\ target' = [target EXCEPT ![d] = k]
              /\ status'[k] \in Settled
  <1>1. ASSUME NEW d \in Decisions, NEW k \in Keys, NEW v \in Verdicts,
               NEW h \in Hashes \cup {None}, Resolve(d, k, v, h)
        PROVE  /\ target[d] = None
               /\ status[k] = "unknown"
               /\ target' = [target EXCEPT ![d] = k]
               /\ status'[k] \in Settled
    BY <1>1 DEF Resolve, Resolvable, ResolvedStatus, Verdicts, Settled, IInv,
                TypeOK
  <1>2. CASE \E w \in Workers : WorkerStep(w)
    BY <1>2 DEF WorkerStep, Lookup, Allocate, NewAction, EmitCreated, Claim,
                Prepare, FailPrep, CrossBoundary, MarkStarted, Dispatch,
                Terminalize, Reread, Record
  <1>3. CASE \/ \E w \in Workers, d \in Decisions : Begin(w, d)
             \/ \E w \in Workers : Crash(w) \/ Heartbeat(w)
             \/ \E k \in Keys : LeaseExpires(k) \/ Reclaim(k)
             \/ \E S \in SUBSET Decisions : Reconcile(S)
    BY <1>3 DEF Begin, Crash, Heartbeat, LeaseExpires, Reclaim, Reconcile
  <1>. QED
    BY <1>1, <1>2, <1>3 DEF Next, CommandNext

(* A decided row is settled, so it is never decided on again.               *)
LEMMA LineageStep == IInv /\ LineageInv /\ [Next]_vars => LineageInv'
  <1>. SUFFICES ASSUME IInv, LineageInv, [Next]_vars PROVE LineageInv'
    OBVIOUS
  <1>1. CASE UNCHANGED vars
    BY <1>1 DEF vars, LineageInv, OneDecisionPerEffect
  <1>2. CASE Next
    <2>1. \A k \in Keys : status[k] \in Settled => status'[k] = status[k]
      BY <1>2, SettledFrame
    <2>2. CASE target' = target
      BY <2>1, <2>2 DEF LineageInv, OneDecisionPerEffect, IInv, TypeOK
    <2>3. ASSUME NEW d \in Decisions, NEW k \in Keys, target[d] = None,
                 status[k] = "unknown", target' = [target EXCEPT ![d] = k],
                 status'[k] \in Settled
          PROVE  LineageInv'
      BY <2>1, <2>3 DEF LineageInv, OneDecisionPerEffect, IInv, TypeOK, Settled
    <2>. QED
      BY <1>2, <2>2, <2>3, DecisionFrame
  <1>. QED
    BY <1>1, <1>2

(* The invariant and the shape of lineages hold in every reachable state.   *)
LEMMA LineageInvariance == Spec => [](IInv /\ LineageInv)
  <1>1. Init => LineageInv
    BY DEF Init, LineageInv, OneDecisionPerEffect
  <1>. QED
    BY <1>1, InitInv, NextInv, LineageStep, PTL DEF Spec

(***************************************************************************)
(* INV-001 and INV-002: an effect is decided on at most once, so a lineage *)
(* is a chain.                                                             *)
(***************************************************************************)
THEOREM LineageIsChain == Spec => []OneDecisionPerEffect
  <1>1. LineageInv => OneDecisionPerEffect
    BY DEF LineageInv
  <1>. QED
    BY <1>1, LineageInvariance, PTL

(***************************************************************************)
(* INV-003: a row with an allocated child keeps status and response.       *)
(***************************************************************************)
THEOREM ParentsImmutable == Spec => ParentImmutable
  <1>1. ASSUME IInv, LineageInv, [Next]_vars
        PROVE  [\A k \in Keys : HasChild(k) =>
                  status'[k] = status[k] /\ respHash'[k] = respHash[k]]_vars
    <2>1. CASE UNCHANGED vars
      BY <2>1
    <2>2. CASE Next
      BY <1>1, <2>2, SettledFrame DEF LineageInv, HasChild
    <2>. QED
      BY <1>1, <2>1, <2>2
  <1>. QED
    BY <1>1, LineageInvariance, PTL DEF Spec, ParentImmutable

-----------------------------------------------------------------------------
(* What the rows say is true.                                               *)

USE DEF Decided, HoldsFence, IInv, TypeOK, RowsInv, WorkerInv, MarkerInv,
        HasAction, BeforeCall, TruthInv, CallInv, OutcomeInv, OwnRowInv,
        ChildTruth, RowTruth, NotAcquiredTruth

(* A decision settles an unknown row and touches no worker.                 *)
LEMMA ResolveTruth ==
  ASSUME IInv, TruthInv, NEW d \in Decisions, NEW k \in Keys,
         NEW v \in Verdicts, NEW h \in Hashes \cup {None}, Resolve(d, k, v, h)
  PROVE  TruthInv'
  BY DEF Resolve, Resolvable, ResolvedStatus, Verdicts

(* A command starts on a decided child, without an action row.              *)
LEMMA BeginTruth ==
  ASSUME IInv, TruthInv, NEW w \in Workers, NEW d \in Decisions, Begin(w, d)
  PROVE  TruthInv'
  BY DEF Begin

(* A lookup only moves the command.                                         *)
LEMMA LookupTruth ==
  ASSUME IInv, TruthInv, NEW w \in Workers, Lookup(w)
  PROVE  TruthInv'
  BY DEF Lookup, Leave

(* Only an absent child is allocated, under a fresh action row.             *)
LEMMA AllocateTruth ==
  ASSUME IInv, TruthInv, NEW w \in Workers, NEW a \in Actions, Allocate(w, a)
  PROVE  TruthInv'
  <1>1. CallInv'
    <2>1. CASE status[child[w]] = "absent"
      BY <2>1, SMTT(30) DEF Allocate, InsertAction
    <2>2. CASE status[child[w]] # "absent"
      BY <2>2, SMTT(30) DEF Allocate, Leave
    <2>. QED
      BY <2>1, <2>2
  <1>2. OutcomeInv'
    BY DEF Allocate, InsertAction, Leave
  <1>3. OwnRowInv'
    BY DEF Allocate, InsertAction, Leave
  <1>4. ChildTruth'
    BY SMTT(30) DEF Allocate, InsertAction, Leave
  <1>5. RowTruth'
    BY DEF Allocate, InsertAction, Leave
  <1>6. NotAcquiredTruth'
    BY DEF Allocate, InsertAction, Leave
  <1>. QED
    BY <1>1, <1>2, <1>3, <1>4, <1>5, <1>6 DEF TruthInv

(* The metric is no part of the ledger.                                     *)
LEMMA EmitCreatedTruth ==
  ASSUME IInv, TruthInv, NEW w \in Workers, EmitCreated(w)
  PROVE  TruthInv'
  BY DEF EmitCreated

(* A fresh action row for a planned child.                                  *)
LEMMA NewActionTruth ==
  ASSUME IInv, TruthInv, NEW w \in Workers, NEW a \in Actions, NewAction(w, a)
  PROVE  TruthInv'
  BY DEF NewAction, InsertAction

(* Only an unmarked child is planned, so a claim overwrites no caller.      *)
LEMMA ClaimTruth ==
  ASSUME IInv, TruthInv, NEW w \in Workers, Claim(w)
  PROVE  TruthInv'
  <1>1. CallInv'
    BY SMTT(30) DEF Claim, Claimable, Report
  <1>2. OutcomeInv'
    BY DEF Claim, Claimable, Report
  <1>3. OwnRowInv'
    BY DEF Claim, Claimable, Report
  <1>4. ChildTruth'
    BY DEF Claim, Claimable, Report
  <1>5. RowTruth'
    BY DEF Claim, Claimable, Report
  <1>6. NotAcquiredTruth'
    BY DEF Claim, Claimable, Report
  <1>. QED
    BY <1>1, <1>2, <1>3, <1>4, <1>5, <1>6 DEF TruthInv

(* A preparation only moves the command.                                    *)
LEMMA PrepareTruth ==
  ASSUME IInv, TruthInv, NEW w \in Workers, Prepare(w)
  PROVE  TruthInv'
  BY DEF Prepare

(* A failed preparation fails the child under the fence.                    *)
LEMMA FailPrepTruth ==
  ASSUME IInv, TruthInv, NEW w \in Workers, FailPrep(w)
  PROVE  TruthInv'
  <1>1. CallInv'
    BY SMTT(30) DEF FailPrep, Report
  <1>2. OutcomeInv'
    BY DEF FailPrep, Report
  <1>3. OwnRowInv'
    BY DEF FailPrep, Report
  <1>4. ChildTruth'
    BY DEF FailPrep, Report
  <1>5. RowTruth' /\ NotAcquiredTruth'
    BY DEF FailPrep, Report
  <1>. QED
    BY <1>1, <1>2, <1>3, <1>4, <1>5 DEF TruthInv

(* The marker is set by the holder of the claim.                            *)
LEMMA CrossBoundaryTruth ==
  ASSUME IInv, TruthInv, NEW w \in Workers, CrossBoundary(w)
  PROVE  TruthInv'
  <1>1. CallInv' /\ OutcomeInv'
    BY DEF CrossBoundary, MayCross, Report
  <1>2. OwnRowInv'
    BY DEF CrossBoundary, MayCross, Report
  <1>3. ChildTruth' /\ RowTruth' /\ NotAcquiredTruth'
    BY DEF CrossBoundary, MayCross, Report
  <1>. QED
    BY <1>1, <1>2, <1>3 DEF TruthInv

(* The action row is rewritten by its own worker.                           *)
LEMMA MarkStartedTruth ==
  ASSUME IInv, TruthInv, NEW w \in Workers, MarkStarted(w)
  PROVE  TruthInv'
  BY DEF MarkStarted

(* The caller is the claim of a marked child.                               *)
LEMMA DispatchTruth ==
  ASSUME IInv, TruthInv, NEW w \in Workers, Dispatch(w)
  PROVE  TruthInv'
  <1>1. CallInv'
    BY DEF Dispatch, DispatchOutcome
  <1>2. OutcomeInv'
    BY DEF Dispatch, DispatchOutcome
  <1>3. OwnRowInv'
    BY DEF Dispatch, DispatchOutcome
  <1>4. ChildTruth'
    BY DEF Dispatch, DispatchOutcome
  <1>5. RowTruth'
    BY DEF Dispatch, DispatchOutcome
  <1>6. NotAcquiredTruth'
    BY DEF Dispatch, DispatchOutcome
  <1>. QED
    BY <1>1, <1>2, <1>3, <1>4, <1>5, <1>6 DEF TruthInv

(* The child is settled under the fence.                                    *)
LEMMA TerminalizeTruth ==
  ASSUME IInv, TruthInv, NEW w \in Workers, Terminalize(w)
  PROVE  TruthInv'
  <1>1. CallInv'
    BY DEF Terminalize, TerminalizeCompleted, TerminalizeFailed,
           TerminalizeUnknown, Report
  <1>2. OutcomeInv'
    BY DEF Terminalize, TerminalizeCompleted, TerminalizeFailed,
           TerminalizeUnknown, Report
  <1>3. OwnRowInv'
    BY DEF Terminalize, TerminalizeCompleted, TerminalizeFailed,
           TerminalizeUnknown, Report
  <1>4. ChildTruth'
    BY DEF Terminalize, TerminalizeCompleted, TerminalizeFailed,
           TerminalizeUnknown, Report
  <1>5. RowTruth'
    BY DEF Terminalize, TerminalizeCompleted, TerminalizeFailed,
           TerminalizeUnknown, Report
  <1>6. NotAcquiredTruth'
    BY DEF Terminalize, TerminalizeCompleted, TerminalizeFailed,
           TerminalizeUnknown, Report
  <1>. QED
    BY <1>1, <1>2, <1>3, <1>4, <1>5, <1>6 DEF TruthInv

(* A reread only chooses the outcome to record.                             *)
LEMMA RereadTruth ==
  ASSUME IInv, TruthInv, NEW w \in Workers, Reread(w)
  PROVE  TruthInv'
  BY DEF Reread, Report, SameResponse

(* The command gives up its action row.                                     *)
LEMMA RecordTruth ==
  ASSUME IInv, TruthInv, NEW w \in Workers, Record(w)
  PROVE  TruthInv'
  <1>1. CallInv'
    BY DEF Record, Leave
  <1>2. OutcomeInv'
    BY DEF Record, Leave
  <1>3. OwnRowInv'
    BY DEF Record, Leave
  <1>4. ChildTruth'
    BY DEF Record, Leave
  <1>5. RowTruth'
    BY DEF Record, Leave
  <1>6. NotAcquiredTruth'
    BY DEF Record, Leave
  <1>. QED
    BY <1>1, <1>2, <1>3, <1>4, <1>5, <1>6 DEF TruthInv

(* A dead command refers to nothing.                                        *)
LEMMA CrashTruth ==
  ASSUME IInv, TruthInv, NEW w \in Workers, Crash(w)
  PROVE  TruthInv'
  BY DEF Crash, Leave

(* Leases only restrict the boundary.                                       *)
LEMMA LeaseTruth ==
  ASSUME IInv, TruthInv, NEW k \in Keys, LeaseExpires(k)
  PROVE  TruthInv'
  BY DEF LeaseExpires

(* Leases only restrict the boundary.                                       *)
LEMMA HeartbeatTruth ==
  ASSUME IInv, TruthInv, NEW w \in Workers, Heartbeat(w)
  PROVE  TruthInv'
  BY DEF Heartbeat

(* Only unmarked children lose their claim.                                 *)
LEMMA ReconcileTruth ==
  ASSUME IInv, TruthInv, NEW S \in SUBSET Decisions, Reconcile(S)
  PROVE  TruthInv'
  <1>1. CallInv'
    BY DEF Reconcile, Expired, Requeued, LostAction
  <1>2. OutcomeInv'
    BY DEF Reconcile, Expired, Requeued, LostAction
  <1>3. OwnRowInv'
    BY DEF Reconcile, Expired, Requeued, LostAction
  <1>4. ChildTruth'
    BY DEF Reconcile, Expired, Requeued, LostAction
  <1>5. RowTruth'
    BY DEF Reconcile, Expired, Requeued, LostAction
  <1>6. NotAcquiredTruth'
    BY DEF Reconcile, Expired, Requeued, LostAction
  <1>. QED
    BY <1>1, <1>2, <1>3, <1>4, <1>5, <1>6 DEF TruthInv

(* Only an unmarked child loses its claim.                                  *)
LEMMA ReclaimTruth ==
  ASSUME IInv, TruthInv, NEW k \in Keys, Reclaim(k)
  PROVE  TruthInv'
  BY SMTT(30) DEF Reclaim, Expired

HIDE DEF Decided, HoldsFence, IInv, TypeOK, RowsInv, WorkerInv, MarkerInv,
         HasAction, BeforeCall, TruthInv, CallInv, OutcomeInv, OwnRowInv,
         ChildTruth, RowTruth, NotAcquiredTruth

(* Every step preserves the truth of the rows.                              *)
LEMMA NextTruth == IInv /\ TruthInv /\ [Next]_vars => TruthInv'
  <1>. SUFFICES ASSUME IInv, TruthInv, [Next]_vars PROVE TruthInv'
    OBVIOUS
  <1>1. CASE UNCHANGED vars
    BY <1>1 DEF vars, TruthInv, CallInv, OutcomeInv, OwnRowInv, ChildTruth,
                RowTruth, NotAcquiredTruth, Decided, HoldsFence
  <1>2. CASE Next
    BY <1>2, ResolveTruth, BeginTruth, LookupTruth, AllocateTruth,
       EmitCreatedTruth, NewActionTruth, ClaimTruth, PrepareTruth,
       FailPrepTruth, CrossBoundaryTruth, MarkStartedTruth, DispatchTruth,
       TerminalizeTruth, RereadTruth, RecordTruth, CrashTruth, LeaseTruth,
       HeartbeatTruth, ReconcileTruth, ReclaimTruth
       DEF Next, CommandNext, WorkerStep
  <1>. QED
    BY <1>1, <1>2

(* The rows tell the truth in every reachable state.                        *)
LEMMA TruthInvariance == Spec => []TruthInv
  <1>1. Init => TruthInv
    BY DEF Init, TruthInv, CallInv, OutcomeInv, OwnRowInv, ChildTruth,
           RowTruth, NotAcquiredTruth, Decided, HoldsFence
  <1>. QED
    BY <1>1, InitInv, NextInv, NextTruth, PTL DEF Spec

(***************************************************************************)
(* A child the coordinator itself failed had no external effect, and one   *)
(* it completed had exactly the recorded one.                              *)
(***************************************************************************)
THEOREM ChildrenTellTruth == Spec => []ChildTruth
  <1>1. TruthInv => ChildTruth
    BY DEF TruthInv
  <1>. QED
    BY <1>1, TruthInvariance, PTL

(***************************************************************************)
(* INV-009: the audit rows never claim more than the ledger, whatever a    *)
(* stale worker believes; and a command that reports not_acquired, because *)
(* another one owns the child or its own lease was lost before the         *)
(* boundary, made no adapter call.                                         *)
(***************************************************************************)
THEOREM ActionsTellTruth == Spec => []ActionTruth
  <1>1. TruthInv => ActionTruth
    BY DEF TruthInv, ActionTruth
  <1>. QED
    BY <1>1, TruthInvariance, PTL
=============================================================================
