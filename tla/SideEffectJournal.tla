-------------------------- MODULE SideEffectJournal --------------------------
(***************************************************************************)
(* The write-ahead journal of a node's side effects.                       *)
(*                                                                         *)
(* Before the orchestrator invokes a node it writes one ledger row per     *)
(* planned external operation ('started', with a replay capsule, in one    *)
(* transaction); after it has committed the invocation it marks 'completed'*)
(* the rows the node's output reports on.  A resume first turns every      *)
(* 'started' row it finds into 'unknown', because the process that started *)
(* it may have died after the external call.  An operator settles an       *)
(* 'unknown' row; a row settled as retry_authorized gets a retry child     *)
(* that only the retry coordinator may touch.                              *)
(*                                                                         *)
(* One node of one run is modelled, executed by any number of processes:   *)
(* the first runs it, the others resume the run.  Nothing in the code      *)
(* keeps a resume from starting while another process is alive.  A status  *)
(* update is a SELECT, outside any transaction, and then an UPDATE by key: *)
(* two steps.                                                              *)
(*                                                                         *)
(* What the node calls is not what the journal has planned: the node       *)
(* derives its calls itself, and it makes calls of its own.  A guard       *)
(* around the adapters stands between the two, in the processes that wire  *)
(* it: the research runner's, runs and resumes, and `nodechain run'.  The  *)
(* resume and recover commands leave the node without it.                  *)
(***************************************************************************)
EXTENDS Naturals, FiniteSets

CONSTANTS
    Keys,            \* idempotency keys of the node's planned operations
    Extras,          \* adapter calls the node makes on its own: of the rescue
                     \* pass, of a query that names no adapters
    Procs,           \* processes that run or resume
    Guarded,         \* those whose adapters are wrapped in a dispatch guard
    Payloads,        \* contents an operation can have, as capsules keep them
    Hashes,          \* response hashes an adapter call can return
    MaxRetries,      \* bound on the failure manager's repeated invocations
    MaxAlive,        \* bound on the processes alive at a time
    None             \* NULL

ASSUME JournalAssumption ==
    /\ MaxRetries \in Nat
    /\ MaxAlive \in Nat
    /\ Guarded \subseteq Procs
    /\ None \notin Payloads \cup Hashes

(* The row of a planned operation, and its retry child, whose life is       *)
(* RetryExecution's subject.                                                *)
Row(k) == <<"row", k>>
Child(k) == <<"retry", k>>
Planned == {Row(k) : k \in Keys}
Children == {Child(k) : k \in Keys}
Rows == Planned \cup Children

(* What the node may call an adapter for.  No row is named after the second *)
(* kind: the journal derives the keys of a query without adapters, too, but *)
(* from the adapter "unknown", and it knows nothing of a rescue pass.       *)
Unplanned == {<<"own", x>> : x \in Extras}
Operations == Planned \cup Unplanned

RowStatus == {"absent", "planned", "started", "completed", "failed",
              "unknown", "retry_authorized"}

Verdicts == {"verified_completed", "verified_failed", "mark_unrecoverable",
             "safe_to_retry"}

Locations == {"idle", "reconcile", "compile", "journal", "start_select",
              "start_write", "invoke", "commit", "report", "complete_select",
              "complete_write", "over"}

VARIABLES
    \* side_effect_ledger, side_effect_replay_capsules, recovery decisions
    status, response, capsule, decisions,
    committed,   \* the node's invocation is in the invocation ledger
    \* locals of the processes
    pc,
    listed,      \* the rows a resume found 'started' or 'planned'
    todo,        \* the rows the current stage has still to handle
    row, view,   \* the row being written and what the last SELECT read of it
    caps,        \* the operations the envelope's status map shows as known
    op,          \* content of the envelope's operations
    reply,       \* what this process's adapter calls returned
    sent,        \* operations the process's guard has let through
    \* the outside
    calls,       \* adapter calls per planned operation: 0, 1, or 2 for more
    wire,        \* what guards let through: operation and content
    answers,     \* rows and the responses adapter calls for them returned
    completions, \* SIDE_EFFECT_COMPLETED trace events: row and response
    solo,        \* no process has started while another one was alive
    retries      \* invocations the failure manager has repeated

ledgerVars == <<status, response, capsule, decisions>>
localVars == <<listed, todo, row, view, caps, op, reply, sent>>
outside == <<calls, wire, answers, completions, solo, retries>>
vars == <<ledgerVars, committed, pc, localVars, outside>>

View == [status : RowStatus, response : Hashes \cup {None}]

TypeOK ==
    /\ status \in [Rows -> RowStatus]
    /\ response \in [Rows -> Hashes \cup {None}]
    /\ capsule \in [Rows -> Payloads \cup {None}]
    /\ decisions \in [Rows -> SUBSET Verdicts]
    /\ committed \in BOOLEAN
    /\ pc \in [Procs -> Locations]
    /\ listed \in [Procs -> SUBSET Rows]
    /\ todo \in [Procs -> SUBSET (Rows \cup Operations)]
    /\ row \in [Procs -> Rows \cup {None}]
    /\ view \in [Procs -> View]
    /\ caps \in [Procs -> SUBSET Rows]
    /\ op \in [Procs -> Payloads \cup {None}]
    /\ reply \in [Procs -> [Planned -> Hashes \cup {None}]]
    /\ sent \in [Procs -> SUBSET Operations]
    /\ calls \in [Planned -> 0..2]
    /\ wire \subseteq Operations \X Payloads
    /\ answers \subseteq Planned \X Hashes
    /\ completions \subseteq Rows \X Hashes
    /\ solo \in BOOLEAN
    /\ retries \in 0..MaxRetries

NoReply == [r \in Planned |-> None]
Blank == [status |-> "absent", response |-> None]

Init ==
    /\ status = [r \in Rows |-> "absent"]
    /\ response = [r \in Rows |-> None]
    /\ capsule = [r \in Rows |-> None]
    /\ decisions = [r \in Rows |-> {}]
    /\ committed = FALSE
    /\ pc = [p \in Procs |-> "idle"]
    /\ listed = [p \in Procs |-> {}]
    /\ todo = [p \in Procs |-> {}]
    /\ row = [p \in Procs |-> None]
    /\ view = [p \in Procs |-> Blank]
    /\ caps = [p \in Procs |-> {}]
    /\ op = [p \in Procs |-> None]
    /\ reply = [p \in Procs |-> NoReply]
    /\ sent = [p \in Procs |-> {}]
    /\ calls = [r \in Planned |-> 0]
    /\ wire = {}
    /\ answers = {}
    /\ completions = {}
    /\ solo = TRUE
    /\ retries = 0

Live(p) == pc[p] \notin {"idle", "over"}

-----------------------------------------------------------------------------
(* The ledger store: SideEffectLedgerStore.                                 *)

LegalTransitions ==
    [s \in RowStatus |->
        CASE s = "planned" -> {"started", "completed", "failed"}
          [] s = "started" -> {"completed", "failed", "unknown"}
          [] s = "unknown" -> {"completed", "failed", "retry_authorized"}
          [] OTHER -> {}]

(* Faulty variant: the verdict itself is stored as the row's status.        *)
FaultyResolvedStatus(v) == v

ResolvedStatus(v) ==
    CASE v = "verified_completed" -> "completed"
      [] v \in {"verified_failed", "mark_unrecoverable"} -> "failed"
      [] v = "safe_to_retry" -> "retry_authorized"

(* Does update_side_effect_status move row r, read as seen, to new?  It     *)
(* raises otherwise: for a recovery child, for an illegal transition, and   *)
(* for an 'unknown' row without a decision that names the new status.       *)
Accepts(r, seen, new) ==
    /\ r \notin Children
    /\ new \in LegalTransitions[seen]
    /\ seen = "unknown" => \E v \in decisions[r] : ResolvedStatus(v) = new

(* The UPDATE: by key alone, whatever the row has become since the SELECT.  *)
Write(r, new, hash) ==
    /\ status' = [status EXCEPT ![r] = new]
    /\ response' = [response EXCEPT ![r] = hash]

(* A process is over, finished, failed or dead: its locals are gone.        *)
Over(p) ==
    /\ pc' = [pc EXCEPT ![p] = "over"]
    /\ listed' = [listed EXCEPT ![p] = {}]
    /\ todo' = [todo EXCEPT ![p] = {}]
    /\ row' = [row EXCEPT ![p] = None]
    /\ view' = [view EXCEPT ![p] = Blank]
    /\ caps' = [caps EXCEPT ![p] = {}]
    /\ op' = [op EXCEPT ![p] = None]
    /\ reply' = [reply EXCEPT ![p] = NoReply]
    /\ sent' = [sent EXCEPT ![p] = {}]

(* An exception, or a refusal followed by _fail_chain: the ledger keeps     *)
(* what was written.                                                        *)
Fail(p) == Over(p) /\ UNCHANGED ledgerVars

(* Row r is dealt with: the process goes back to the loop of its stage.     *)
Handled(p, r, stage) ==
    /\ todo' = [todo EXCEPT ![p] = @ \ {r}]
    /\ row' = [row EXCEPT ![p] = None]
    /\ view' = [view EXCEPT ![p] = Blank]
    /\ pc' = [pc EXCEPT ![p] = stage]

-----------------------------------------------------------------------------
(* Run and resume: where a process starts.                                  *)

Join(p) ==
    /\ Cardinality({q \in Procs : Live(q)}) < MaxAlive
    /\ solo' = (solo /\ \A q \in Procs \ {p} : ~Live(q))

BeginRun(p) ==
    /\ \A q \in Procs : pc[q] = "idle"
    /\ pc' = [pc EXCEPT ![p] = "compile"]
    /\ Join(p)
    /\ UNCHANGED <<ledgerVars, committed, localVars, calls, wire, answers, completions, retries>>

Unfinished == {r \in Rows : status[r] \in {"started", "planned"}}

BeginResume(p) ==
    /\ pc[p] = "idle"
    /\ \E q \in Procs : pc[q] # "idle"
    /\ listed' = [listed EXCEPT ![p] = Unfinished]
    /\ todo' = [todo EXCEPT ![p] = Unfinished]
    /\ pc' = [pc EXCEPT ![p] = "reconcile"]
    /\ Join(p)
    /\ UNCHANGED <<ledgerVars, committed, row, view, caps, op, reply, sent, calls, wire, answers, completions, retries>>

(* _reconcile_side_effects_on_resume updates one listed row after the other.*)
ReconcileSelect(p) ==
    /\ pc[p] = "reconcile"
    /\ row[p] = None
    /\ \E r \in todo[p] :
        /\ row' = [row EXCEPT ![p] = r]
        /\ view' = [view EXCEPT ![p] = [status |-> status[r], response |-> response[r]]]
    /\ UNCHANGED <<ledgerVars, committed, pc, listed, todo, caps, op, reply, sent, outside>>

(* Faulty variant: a row that refuses the update is skipped.                *)
FaultyReconcileWrite(p) ==
    /\ pc[p] = "reconcile"
    /\ row[p] # None
    /\ IF Accepts(row[p], view[p].status, "unknown")
       THEN Write(row[p], "unknown", None)
       ELSE UNCHANGED <<status, response>>
    /\ Handled(p, row[p], "reconcile")
    /\ UNCHANGED <<capsule, decisions, listed, caps, op, reply, sent, committed, outside>>

ReconcileWrite(p) ==
    /\ pc[p] = "reconcile"
    /\ row[p] # None
    /\ IF Accepts(row[p], view[p].status, "unknown")
       THEN /\ Write(row[p], "unknown", None)
            /\ Handled(p, row[p], "reconcile")
            /\ UNCHANGED <<capsule, decisions, listed, caps, op, reply, sent>>
       ELSE Fail(p)
    /\ UNCHANGED <<committed, outside>>

(* The node of a committed invocation is skipped.                           *)
Reconciled(p) ==
    /\ pc[p] = "reconcile"
    /\ row[p] = None
    /\ todo[p] = {}
    /\ \/ /\ committed
          /\ Over(p)
       \/ /\ ~committed
          /\ pc' = [pc EXCEPT ![p] = "compile"]
          /\ UNCHANGED localVars
    /\ UNCHANGED <<ledgerVars, committed, outside>>

-----------------------------------------------------------------------------
(* Before the call: the envelope and the journal.                           *)

(* The ledger's keys read search:<adapter>:<hash>; the search node looks    *)
(* its operation up under <adapter>:<hash>.                                 *)
NodeKey(r) == <<"node", r[2]>>

(* The operations SearchToolNode.execute would skip: those it finds         *)
(* completed, started or unknown in the status map of its capabilities (the *)
(* journal's rows are retryable, so 'failed' does not stop a call).         *)
Known ==
    {r \in Planned :
        NodeKey(r) \in {q \in Rows : status[q] \in {"completed", "started", "unknown"}}}

Compile(p) ==
    /\ pc[p] = "compile"
    /\ \E c \in Payloads : op' = [op EXCEPT ![p] = c]
    /\ caps' = [caps EXCEPT ![p] = Known]
    /\ todo' = [todo EXCEPT ![p] = Planned]
    /\ pc' = [pc EXCEPT ![p] = "journal"]
    /\ UNCHANGED <<ledgerVars, committed, listed, row, view, reply, sent, outside>>

(* _journal_one: a row that exists and is not 'planned' counts as journaled,*)
(* whatever became of it.                                                   *)
JournalOne(p) ==
    /\ pc[p] = "journal"
    /\ \E r \in todo[p] :
        IF status[r] \in {"absent", "planned"}
        THEN /\ row' = [row EXCEPT ![p] = r]
             /\ pc' = [pc EXCEPT ![p] = "start_select"]
             /\ UNCHANGED <<todo, view>>
        ELSE Handled(p, r, "journal")
    /\ UNCHANGED <<ledgerVars, committed, listed, caps, op, reply, sent, outside>>

(* _assert_declared_side_effect: the effect's type is not one of the node's.*)
JournalRefused(p) ==
    /\ pc[p] = "journal"
    /\ todo[p] # {}
    /\ Fail(p)
    /\ UNCHANGED <<committed, outside>>

(* start_side_effect_with_capsule: the check ...                            *)
StartSelect(p) ==
    /\ pc[p] = "start_select"
    /\ LET r == row[p] IN
       \/ /\ status[r] \in {"absent", "planned"}
          /\ view' = [view EXCEPT ![p] = [status |-> status[r], response |-> None]]
          /\ pc' = [pc EXCEPT ![p] = "start_write"]
          /\ UNCHANGED <<ledgerVars, listed, todo, row, caps, op, reply, sent>>
       \/ /\ status[r] = "started"
          /\ capsule[r] = op[p]
          /\ Handled(p, r, "journal")
          /\ UNCHANGED <<ledgerVars, listed, caps, op, reply, sent>>
       \/ /\ \/ status[r] = "started" /\ capsule[r] # op[p]
             \/ status[r] \in {"completed", "failed", "unknown", "retry_authorized"}
          /\ Fail(p)
    /\ UNCHANGED <<committed, outside>>

(* Faulty variant: INSERT OR REPLACE instead of INSERT for row and capsule. *)
FaultyStartWrite(p) ==
    /\ pc[p] = "start_write"
    /\ LET r == row[p] IN
        /\ Write(r, "started", None)
        /\ capsule' = [capsule EXCEPT ![r] = op[p]]
        /\ Handled(p, r, "journal")
    /\ UNCHANGED <<decisions, committed, listed, caps, op, reply, sent, outside>>

(* ... and the transaction.  The capsule is never replaced; a row somebody  *)
(* else has inserted violates UNIQUE(run_id, idempotency_key), and both     *)
(* writes are rolled back.                                                  *)
StartWrite(p) ==
    /\ pc[p] = "start_write"
    /\ LET r == row[p] IN
       IF status[r] = view[p].status /\ capsule[r] \in {None, op[p]}
       THEN /\ Write(r, "started", response[r])
            /\ capsule' = [capsule EXCEPT ![r] = op[p]]
            /\ Handled(p, r, "journal")
            /\ UNCHANGED <<decisions, listed, caps, op, reply, sent>>
       ELSE Fail(p)
    /\ UNCHANGED <<committed, outside>>

(* The node may call for everything planned, and on its own account.        *)
Journaled(p) ==
    /\ pc[p] = "journal"
    /\ todo[p] = {}
    /\ todo' = [todo EXCEPT ![p] = Operations]
    /\ pc' = [pc EXCEPT ![p] = "invoke"]
    /\ UNCHANGED <<ledgerVars, committed, listed, row, view, caps, op, reply, sent, outside>>

-----------------------------------------------------------------------------
(* The invocation.                                                          *)

(* Faulty variant: a guard that only refuses repetitions.                   *)
FaultyPermits(p, o) == p \in Guarded => o \notin sent[p]

(* OrdinaryDispatchGuard.search: the ledger holds a capsule of this very    *)
(* content under a key of this adapter, whatever the row's status, and this *)
(* guard has not let it through before.  Otherwise it raises.               *)
Permits(p, o) ==
    p \in Guarded => /\ o \notin sent[p]
                     /\ o \in Planned
                     /\ capsule[o] = op[p]

(* An adapter is called, through the process's guard if it has one.         *)
Dispatch(p, o) ==
    /\ Permits(p, o)
    /\ IF p \in Guarded
       THEN /\ sent' = [sent EXCEPT ![p] = @ \cup {o}]
            /\ wire' = wire \cup {<<o, op[p]>>}
       ELSE UNCHANGED <<sent, wire>>

(* SearchToolNode.execute skips the operations it finds and calls the       *)
(* adapters of the others, one after the other.  If the guard raises, so    *)
(* does the node, which is then invoked again or fails.                     *)
CallAdapter(p) ==
    /\ pc[p] = "invoke"
    /\ \E r \in todo[p] \cap Planned :
        /\ IF r \in caps[p]
           THEN UNCHANGED <<calls, wire, answers, reply, sent>>
           ELSE /\ Dispatch(p, r)
                /\ calls' = [calls EXCEPT ![r] = IF @ < 2 THEN @ + 1 ELSE 2]
                /\ \E h \in Hashes \cup {None} :
                    /\ reply' = [reply EXCEPT ![p][r] = h]
                    /\ answers' = answers \cup ({<<r, h>>} \ {<<r, None>>})
        /\ todo' = [todo EXCEPT ![p] = @ \ {r}]
    /\ UNCHANGED <<ledgerVars, committed, pc, listed, row, view, caps, op, completions, solo, retries>>

(* A call of the rescue pass, or for a query that names no adapters.  No    *)
(* row can be completed on what it answers.                                 *)
CallUnplanned(p) ==
    /\ pc[p] = "invoke"
    /\ \E o \in todo[p] \ Planned :
        /\ Dispatch(p, o)
        /\ todo' = [todo EXCEPT ![p] = @ \ {o}]
    /\ UNCHANGED <<ledgerVars, committed, pc, listed, row, view, caps, op, reply,
                   calls, answers, completions, solo, retries>>

(* The node raises or returns no success.  The failure manager may invoke   *)
(* it again with the same envelope, which is not journaled again; the guard *)
(* remembers the calls of the first attempt.                                *)
NodeRetried(p) ==
    /\ pc[p] = "invoke"
    /\ retries < MaxRetries
    /\ retries' = retries + 1
    /\ todo' = [todo EXCEPT ![p] = Operations]
    /\ reply' = [reply EXCEPT ![p] = NoReply]
    /\ UNCHANGED <<ledgerVars, committed, pc, listed, row, view, caps, op, sent, calls,
                   wire, answers, completions, solo>>

NodeFails(p) ==
    /\ pc[p] = "invoke"
    /\ Fail(p)
    /\ UNCHANGED <<committed, outside>>

(* Some calls may not have been made: an adapter was not granted to the     *)
(* node, or the rescue pass was not called for.                             *)
NodeSucceeds(p) ==
    /\ pc[p] = "invoke"
    /\ pc' = [pc EXCEPT ![p] = "commit"]
    /\ todo' = [todo EXCEPT ![p] = {}]
    /\ caps' = [caps EXCEPT ![p] = {}]
    /\ op' = [op EXCEPT ![p] = None]
    /\ sent' = [sent EXCEPT ![p] = {}]
    /\ UNCHANGED <<ledgerVars, committed, listed, row, view, reply, outside>>

(* commit_invocation_success: a second insert for the step is refused.  The *)
(* output reports on some of the calls that were answered, or on none.      *)
Commit(p) ==
    /\ pc[p] = "commit"
    /\ IF committed
       THEN Fail(p) /\ UNCHANGED committed
       ELSE /\ committed' = TRUE
            /\ \E records \in SUBSET {r \in Planned : reply[p][r] # None} :
                todo' = [todo EXCEPT ![p] = records]
            /\ pc' = [pc EXCEPT ![p] = "report"]
            /\ UNCHANGED <<ledgerVars, listed, row, view, caps, op, reply, sent>>
    /\ UNCHANGED outside

-----------------------------------------------------------------------------
(* After the call: the reported completions.                                *)

(* _complete_reported_side_effect: what it reads decides whether the report *)
(* is a replay, is refused, or goes to the ledger.                          *)
ReportRead(p) ==
    /\ pc[p] = "report"
    /\ \E r \in todo[p] :
       \/ /\ status[r] = "completed"
          /\ response[r] = reply[p][r]
          /\ Handled(p, r, "report")
          /\ UNCHANGED <<ledgerVars, listed, caps, op, reply, sent>>
       \/ /\ \/ status[r] = "completed" /\ response[r] # reply[p][r]
             \/ status[r] \notin {"started", "completed"}
          /\ Fail(p)
       \/ /\ status[r] = "started"
          /\ row' = [row EXCEPT ![p] = r]
          /\ pc' = [pc EXCEPT ![p] = "complete_select"]
          /\ UNCHANGED <<ledgerVars, listed, todo, view, caps, op, reply, sent>>
    /\ UNCHANGED <<committed, outside>>

(* The output's list of records may name an operation again.                *)
RecordAgain(p) ==
    /\ pc[p] = "report"
    /\ \E r \in Planned \ todo[p] :
        /\ reply[p][r] # None
        /\ todo' = [todo EXCEPT ![p] = @ \cup {r}]
    /\ UNCHANGED <<ledgerVars, committed, pc, listed, row, view, caps, op, reply, sent, outside>>

(* A record with a wrong type, status, authority, hash or time.             *)
RecordInvalid(p) ==
    /\ pc[p] = "report"
    /\ todo[p] # {}
    /\ Fail(p)
    /\ UNCHANGED <<committed, outside>>

CompleteSelect(p) ==
    /\ pc[p] = "complete_select"
    /\ view' = [view EXCEPT ![p] = [status |-> status[row[p]],
                                    response |-> response[row[p]]]]
    /\ pc' = [pc EXCEPT ![p] = "complete_write"]
    /\ UNCHANGED <<ledgerVars, committed, listed, todo, row, caps, op, reply, sent, outside>>

(* Faulty variant: the response hash is not passed on to the ledger.        *)
FaultyCompleteWrite(p) ==
    /\ pc[p] = "complete_write"
    /\ LET r == row[p] IN
        IF Accepts(r, view[p].status, "completed")
        THEN /\ Write(r, "completed", None)
             /\ Handled(p, r, "report")
             /\ completions' = completions \cup {<<r, reply[p][r]>>}
             /\ UNCHANGED <<capsule, decisions, listed, caps, op, reply, sent>>
        ELSE Fail(p) /\ UNCHANGED completions
    /\ UNCHANGED <<committed, calls, wire, answers, solo, retries>>

CompleteWrite(p) ==
    /\ pc[p] = "complete_write"
    /\ LET r == row[p]
           hash == reply[p][r]
           replay == view[p] = [status |-> "completed", response |-> hash]
       IN
       IF replay \/ Accepts(r, view[p].status, "completed")
       THEN /\ IF replay THEN UNCHANGED <<status, response>>
                         ELSE Write(r, "completed", hash)
            /\ Handled(p, r, "report")
            /\ completions' = completions \cup {<<r, hash>>}
            /\ UNCHANGED <<capsule, decisions, listed, caps, op, reply, sent>>
       ELSE Fail(p) /\ UNCHANGED completions
    /\ UNCHANGED <<committed, calls, wire, answers, solo, retries>>

Finish(p) ==
    /\ pc[p] = "report"
    /\ todo[p] = {}
    /\ Over(p)
    /\ UNCHANGED <<ledgerVars, committed, outside>>

-----------------------------------------------------------------------------
(* Deaths, the operator and the retry coordinator.                          *)

Crash(p) ==
    /\ Live(p)
    /\ Over(p)
    /\ UNCHANGED <<ledgerVars, committed, outside>>

(* resolve_side_effect_recovery_decision_transactional.                     *)
Resolve(k) ==
    /\ status[Row(k)] = "unknown"
    /\ \E v \in Verdicts :
        /\ decisions' = [decisions EXCEPT ![Row(k)] = @ \cup {v}]
        /\ Write(Row(k), ResolvedStatus(v), None)
    /\ UNCHANGED <<capsule, committed, pc, localVars, outside>>

(* The coordinator's child: allocated, claimed, ended (in what status makes *)
(* no difference here; RetryExecution tells its ends apart).                *)
ChildStep(k) ==
    /\ \/ /\ status[Row(k)] = "retry_authorized"
          /\ status[Child(k)] = "absent"
          /\ status' = [status EXCEPT ![Child(k)] = "planned"]
       \/ /\ status[Child(k)] = "planned"
          /\ status' = [status EXCEPT ![Child(k)] = "started"]
       \/ /\ status[Child(k)] = "started"
          /\ status' = [status EXCEPT ![Child(k)] = "completed"]
    /\ UNCHANGED <<response, capsule, decisions, committed, pc, localVars, outside>>

ProcStep(p) ==
    \/ ReconcileSelect(p) \/ ReconcileWrite(p) \/ Reconciled(p)
    \/ Compile(p) \/ JournalOne(p) \/ JournalRefused(p)
    \/ StartSelect(p) \/ StartWrite(p) \/ Journaled(p)
    \/ CallAdapter(p) \/ CallUnplanned(p) \/ NodeRetried(p) \/ NodeFails(p) \/ NodeSucceeds(p)
    \/ Commit(p)
    \/ ReportRead(p) \/ RecordAgain(p) \/ RecordInvalid(p) \/ CompleteSelect(p)
    \/ CompleteWrite(p) \/ Finish(p)

Next ==
    \/ \E p \in Procs : BeginRun(p) \/ BeginResume(p) \/ ProcStep(p) \/ Crash(p)
    \/ \E k \in Keys : Resolve(k) \/ ChildStep(k)

Spec == Init /\ [][Next]_vars

-----------------------------------------------------------------------------
(* Properties.                                                              *)

(* Capsule before wire (INV-004).  What a guard has let through is planned  *)
(* and its capsule holds exactly what was sent, then and ever after,        *)
(* whatever unguarded processes, retries and resumes do meanwhile.  Without *)
(* a guard it is only the journal that stands before the call: a planned    *)
(* operation has its row and capsule when it is called, but the node's own  *)
(* calls have neither.                                                      *)
WriteAhead ==
    /\ \A o \in Operations, c \in Payloads :
        <<o, c>> \in wire => o \in Planned /\ capsule[o] = c
    /\ \A r \in Planned :
        calls[r] > 0 => status[r] \notin {"absent", "planned"} /\ capsule[r] # None

(* The material a retry replays is written with the first 'started' and     *)
(* never changes again, and no row gets past 'planned' without it           *)
(* (start_side_effect_with_capsule's one transaction).                      *)
CapsuleKept ==
    [][\A r \in Planned :
        /\ capsule[r] # None => capsule'[r] = capsule[r]
        /\ status'[r] \notin {"absent", "planned"} => capsule'[r] # None]_vars

(* No resume goes on to execute nodes while an effect it found in flight    *)
(* still looks in flight, nor while a retry of one is under way: the first  *)
(* kind it has turned into 'unknown', the second makes it fail.             *)
LostEffectsFlagged ==
    \A p \in Procs :
        pc[p] # "reconcile" =>
            \A r \in listed[p] : r \in Planned /\ status[r] # "started"

(* A 'completed' row was observed: an adapter call for this very operation  *)
(* returned the recorded response to a process, or an operator vouched for  *)
(* it.  Holds whatever processes overlap.                                   *)
CompletedObserved ==
    \A r \in Planned :
        status[r] = "completed" =>
            \/ "verified_completed" \in decisions[r]
            \/ <<r, response[r]>> \in answers

(* Two records of one outcome agree: a SIDE_EFFECT_COMPLETED event in a     *)
(* trace stands for a 'completed' row with that response.                   *)
TraceMatchesLedger ==
    \A e \in completions :
        status[e[1]] = "completed" /\ response[e[1]] = e[2]

(* The latest decision stands: a row the operator settled is as decided.    *)
DecisionStands ==
    \A r \in Planned :
        decisions[r] # {} => \E v \in decisions[r] : status[r] = ResolvedStatus(v)

(* As long as no process starts while another one is alive, trace, ledger   *)
(* and decisions agree through every crash, resume and resolution.          *)
SoloAgreement == solo => TraceMatchesLedger /\ DecisionStands

(* resume's docstring promises no duplicate side effects: one call per      *)
(* operation, here without in-process retries and without overlap.          *)
NoDuplicateEffect ==
    solo /\ retries = 0 => \A r \in Planned : calls[r] =< 1
=============================================================================
