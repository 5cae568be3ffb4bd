----------------------------- MODULE BranchRun ------------------------------
(***************************************************************************)
(* A run whose blueprint fans out: the orchestrator's router node, its     *)
(* _execute_branches around the BranchExecutor, and the join node, with    *)
(* the step allocator, the invocation ledger, the state row, crashes and   *)
(* resume.                                                                 *)
(*                                                                         *)
(* The execution order is the router and the join: branch nodes are left   *)
(* out of it.  What the report says is in memory until the next commit.    *)
(* Loops, reviews, budgets and several processes are in ChainRun.          *)
(***************************************************************************)
EXTENDS BranchExecutor

CONSTANTS
    MaxResumes,  \* bound on resumes
    Repeats,     \* how many times a selection may repeat a name
    Refused      \* the branch nodes that the policy gate denies

ASSUME RunAssumption ==
    /\ MaxResumes \in Nat /\ Repeats \in Nat
    /\ Refused \subseteq Branches \X Nat

VARIABLES
    pc,       \* "off", "router", "route", "fanout", "loop", "join", "end"
    inline,   \* the fan-out is where its router was invoked, not on resume
    payload,  \* what the next node gets: "none", "router" or "merged"
    next,     \* the step allocator
    stepOf,   \* the step of each branch's invocation
    live,     \* branch_outputs of the state in memory is not empty
    db,       \* the state row
    ledger,   \* the invocation ledger
    joinInput,\* what the committed invocation of the join was given
    resumes,
    index     \* where resume found the cursor in the execution order

runVars == <<pc, inline, payload, next, stepOf, live, db, ledger,
             joinInput, resumes, index>>
vars == <<exVars, runVars>>

RouterNode == <<"router", 0>>
JoinNode == <<"join", 0>>

Init ==
    /\ ExInit
    /\ pc = "router" /\ inline = TRUE /\ payload = "none"
    /\ next = 0 /\ stepOf = [b \in Branches |-> 0]
    /\ live = FALSE
    /\ db = [status |-> "running", step |-> 0, routed |-> FALSE, sel |-> {},
             listed |-> 0, outputs |-> FALSE]
    /\ ledger = {}
    /\ joinInput = "none" /\ resumes = 0 /\ index = 0

-----------------------------------------------------------------------------
(* _insert_invocation_checked.                                              *)

Accepted(step, node) == ledger \cup {[step |-> step, node |-> node]}

(* A step that has a row: a replay with the same node, output and cost is   *)
(* accepted ...                                                             *)
Committable(step, node) == \A r \in ledger : r.step = step => r.node = node

(* ... and anything else raises.                                            *)
Conflict(step) == \E r \in ledger : r.step = step

(* Faulty variant: a row of the step makes the insert a no-op.              *)
IgnoringCommit(step, node) ==
    /\ ledger' = IF Conflict(step) THEN ledger ELSE Accepted(step, node)
    /\ db' = [db EXCEPT !.step = step, !.outputs = live]

(* commit_invocation_success: ledger row, cursor and the live state.        *)
Commit(step, node) ==
    /\ Committable(step, node)
    /\ ledger' = Accepted(step, node)
    /\ db' = [db EXCEPT !.step = step, !.outputs = live]

(* Faulty variant: the reason is written where the status belongs.          *)
FaultyFailed == [db EXCEPT !.status = "node_failed", !.outputs = live]

Failed == [db EXCEPT !.status = "failed", !.outputs = live]

(* _fail_chain, and the process ends.                                       *)
FailRun ==
    /\ db' = Failed
    /\ pc' = "off"
    /\ UNCHANGED <<exVars, inline, payload, next, stepOf, live, ledger,
                   joinInput, resumes, index>>

-----------------------------------------------------------------------------
RouterCommits ==
    /\ pc = "router"
    /\ next' = next + 1
    /\ Commit(next + 1, RouterNode)
    /\ payload' = "router"
    /\ pc' = "route"
    /\ UNCHANGED <<exVars, inline, stepOf, live, joinInput, resumes, index>>

(* The node failed beyond its failure handling.                             *)
RouterFails == pc = "router" /\ FailRun

(* resolve_branch_selection, then _execute_branches: the routing checkpoint *)
(* and the start of the executor.                                           *)
FanOut(sel, n) ==
    /\ Start(sel, n)
    /\ db' = [db EXCEPT !.routed = TRUE, !.sel = sel, !.listed = n,
                        !.outputs = live]
    /\ pc' = "fanout"

Route ==
    /\ pc = "route"
    /\ \E sel \in SUBSET Branches, extra \in 0 .. Repeats :
          /\ sel = {} => extra = 0
          /\ FanOut(sel, Cardinality(sel) + extra)
    /\ inline' = TRUE
    /\ UNCHANGED <<payload, next, stepOf, live, ledger, joinInput, resumes, index>>

-----------------------------------------------------------------------------
(* The node executor of _execute_branches, for branch b.                    *)

(* Faulty variant: every branch gets the same step.                         *)
FaultyAllocate(b) == stepOf' = [stepOf EXCEPT ![b] = next + 1] /\ UNCHANGED next

Allocate(b) == next' = next + 1 /\ stepOf' = [stepOf EXCEPT ![b] = next + 1]

(* The next node of the branch gets its step before anything else runs.     *)
AllocateNext(b) ==
    IF at[b] + 1 < Length[b] THEN Allocate(b) ELSE UNCHANGED <<next, stepOf>>

(* The node that branch b is at.                                            *)
Current(b) == <<b, at[b] + 1>>

branchFrame == <<pc, inline, payload, live, joinInput, resumes, index>>

LaunchTask(b) ==
    /\ StartTask(b)
    /\ Allocate(b)
    /\ UNCHANGED <<db, ledger, branchFrame>>

NodeCommits(b) ==
    /\ NodeSucceeds(b)
    /\ Current(b) \notin Refused
    /\ Commit(stepOf[b], Current(b))
    /\ AllocateNext(b)
    /\ UNCHANGED branchFrame

(* The policy gate refuses the node: it counts as a success, with no row.   *)
(* It does so without giving up control; that others may run first here     *)
(* only adds behaviours.                                                    *)
NodeDenied(b) ==
    /\ NodeSucceeds(b)
    /\ Current(b) \in Refused
    /\ AllocateNext(b)
    /\ UNCHANGED <<db, ledger, branchFrame>>

NodeErrs(b) ==
    /\ NodeFails(b)
    /\ Current(b) \notin Refused
    /\ UNCHANGED <<next, stepOf, db, ledger, branchFrame>>

(* The node succeeded and its commit raised.                                *)
NodeConflicts(b) ==
    /\ Invoking(b) /\ Conflict(stepOf[b])
    /\ NodeErrs(b)

NodeCancelled(b) ==
    /\ CancelArrives(b)
    /\ UNCHANGED <<next, stepOf, db, ledger, branchFrame>>

Gather ==
    /\ Collect
    /\ UNCHANGED <<next, stepOf, db, ledger, branchFrame>>

(* The report is applied to the state; a blocked join fails the chain, and  *)
(* ends the run if the fan-out followed its router.  The fan-out that       *)
(* resume re-executes does not: resume goes on to its loop.                 *)
Decide ==
    /\ Join
    /\ live' = (live \/ selected # {})
    /\ \/ /\ ~Blocks
          /\ payload' = "merged"
          /\ pc' = IF inline THEN "join" ELSE "loop"
          /\ UNCHANGED db
       \/ /\ Blocks
          /\ db' = [db EXCEPT !.status = "failed", !.outputs = live']
          /\ pc' = IF inline THEN "off" ELSE "loop"
          /\ UNCHANGED payload
    /\ UNCHANGED <<inline, next, stepOf, ledger, joinInput, resumes, index>>

-----------------------------------------------------------------------------
JoinCommits ==
    /\ pc = "join"
    /\ next' = next + 1
    /\ Commit(next + 1, JoinNode)
    /\ joinInput' = payload
    /\ pc' = "end"
    /\ UNCHANGED <<exVars, inline, payload, stepOf, live, resumes, index>>

(* The join failed, or its commit raised.                                   *)
JoinFails == pc = "join" /\ FailRun

Complete ==
    /\ pc = "end"
    /\ db' = [db EXCEPT !.status = "completed", !.outputs = live]
    /\ pc' = "off"
    /\ UNCHANGED <<exVars, inline, payload, next, stepOf, live, ledger,
                   joinInput, resumes, index>>

-----------------------------------------------------------------------------
(* A crash, and resume.                                                     *)

Crash ==
    /\ pc # "off" /\ resumes < MaxResumes
    /\ pc' = "off"
    /\ Vanish
    /\ inline' = FALSE /\ payload' = "none" /\ live' = FALSE /\ next' = 0
    /\ stepOf' = [b \in Branches |-> 0] /\ index' = 0
    /\ UNCHANGED <<db, ledger, joinInput, resumes>>

LastNode == {r.node : r \in {q \in ledger : q.step = db.step}}

(* The position after the node at the cursor, in the order <<router, join>>.*)
(* The nodes of branches are not in the order.                              *)
StartIndex == IF JoinNode \in LastNode THEN 2
              ELSE IF RouterNode \in LastNode THEN 1 ELSE 0

(* What order[:start_index] leaves as payload.                              *)
Restored == IF StartIndex > 0 THEN "router" ELSE "none"

(* A row of the node; the steps of router and join are never above the      *)
(* cursor, which is what the code also asks for.                            *)
AlreadyDone(node) == \E r \in ledger : r.node = node

(* The loop skips nodes that are done, and takes their output as payload.   *)
LoopAt(start) ==
    IF start = 2 \/ AlreadyDone(JoinNode) THEN "end"
    ELSE IF start = 1 \/ AlreadyDone(RouterNode) THEN "join"
    ELSE "router"

Resume ==
    /\ pc = "off" /\ db.status # "completed"
    /\ resumes < MaxResumes
    /\ resumes' = resumes + 1
    /\ next' = db.step
    /\ stepOf' = [b \in Branches |-> 0]
    /\ live' = db.outputs
    /\ payload' = Restored
    /\ inline' = FALSE
    /\ index' = StartIndex
    /\ IF db.routed /\ ~db.outputs
       THEN FanOut(db.sel, db.listed)
       ELSE Vanish /\ pc' = "loop" /\ UNCHANGED db
    /\ UNCHANGED <<ledger, joinInput>>

(* The cursor may have moved since: a fan-out before the loop commits steps.*)
Loop ==
    /\ pc = "loop"
    /\ pc' = LoopAt(index)
    /\ payload' = IF index = 0 /\ AlreadyDone(RouterNode) THEN "router"
                  ELSE payload
    /\ UNCHANGED <<exVars, inline, next, stepOf, live, db, ledger,
                   joinInput, resumes, index>>

-----------------------------------------------------------------------------
BranchStep(b) ==
    LaunchTask(b) \/ NodeCommits(b) \/ NodeDenied(b) \/ NodeErrs(b)
      \/ NodeConflicts(b) \/ NodeCancelled(b)

Next ==
    \/ RouterCommits \/ RouterFails \/ Route
    \/ \E b \in Branches : BranchStep(b)
    \/ Gather \/ Decide
    \/ JoinCommits \/ JoinFails \/ Complete
    \/ Crash \/ Resume \/ Loop

Spec == Init /\ [][Next]_vars

(* The event loop runs what is ready, and invocations return.               *)
Fairness ==
    /\ \A b \in Branches : WF_vars(BranchStep(b))
    /\ WF_vars(Gather) /\ WF_vars(Decide)

FairSpec == Spec /\ Fairness

-----------------------------------------------------------------------------
(* Properties.                                                              *)

(* The variables have their types.                                          *)
TypeOK ==
    /\ ExTypeOK
    /\ pc \in {"off", "router", "route", "fanout", "loop", "join", "end"}
    /\ payload \in {"none", "router", "merged"}
    /\ joinInput \in {"none", "router", "merged"}
    /\ inline \in BOOLEAN /\ live \in BOOLEAN
    /\ next \in Nat /\ resumes \in 0 .. MaxResumes /\ index \in 0 .. 2
    /\ stepOf \in [Branches -> Nat]
    /\ db \in [status : {"running", "failed", "completed"}, step : Nat,
               routed : BOOLEAN, sel : SUBSET Branches, listed : Nat,
               outputs : BOOLEAN]
    /\ ledger \subseteq [step : Nat \ {0},
                         node : {RouterNode, JoinNode} \cup (Branches \X Nat)]

(* When a join goes on, every node of every merged branch has a row in the  *)
(* ledger or was refused by the policy gate: no output is merged that a     *)
(* crash or a conflicting commit kept out of the ledger.                    *)
MergedRan ==
    stage = "joined" =>
        \A b \in Range(merged) : \A i \in 1 .. Length[b] :
            \/ <<b, i>> \in Refused
            \/ AlreadyDone(<<b, i>>)

(* Without a resume, concurrent branches never share a step, and a run      *)
(* completes only after a join that was not blocked, on the merged output.  *)
UninterruptedRun ==
    resumes = 0 =>
        /\ \A b, c \in Branches : b # c /\ stepOf[b] # 0 => stepOf[b] # stepOf[c]
        /\ db.status = "completed" => joinInput = "merged" /\ stage = "joined"

(* A fan-out ends: no branch waits for a cancellation that does not come,   *)
(* and no result is left unclassified.                                      *)
FanoutEnds == pc = "fanout" ~> pc # "fanout"

(* Refuted: the join node runs only if the fan-out before it was not        *)
(* blocked, and on the output that the fan-out merged.                      *)
JoinObeysFanout ==
    joinInput # "none" => /\ stage # "blocked"
                          /\ stage = "joined" => joinInput = "merged"
=============================================================================
