--------------------------- MODULE BranchExecutor ---------------------------
(***************************************************************************)
(* BranchExecutor.execute: the selected branches of a fan-out run as tasks *)
(* of one event loop, their results are classified into a report as they   *)
(* arrive, pending tasks may be cancelled, and the join is decided from    *)
(* the report.                                                             *)
(*                                                                         *)
(* Node outputs and the merge of their values are abstracted: a branch is  *)
(* merged or not.  Only an invocation gives up control, so everything      *)
(* between two awaits is one step.  A ratio is a pair of numbers, without  *)
(* the rounding of floats.                                                 *)
(***************************************************************************)
EXTENDS Integers, Sequences, SequencesExt, FiniteSets

CONSTANTS
    Branches,   \* the branches of the fan-out
    Declared,   \* the same in declared order
    Length,     \* number of nodes of each branch
    Configs     \* join definitions and policies, see Config

ASSUME BranchAssumption ==
    /\ IsFiniteSet(Branches)
    /\ Declared \in Seq(Branches)
    /\ IsInjective(Declared) /\ Range(Declared) = Branches
    /\ Length \in [Branches -> Nat \ {0}]

Config == [wait : {"all", "any", "first", "quorum"},
           policy : {"allow_all", "ignore_late", "cancel_on_first"},
           after : {"cancel", "ignore_late", "allow_all"},
           count : Nat, num : Nat, den : Nat \ {0}]

ASSUME ConfigAssumption == Configs \subseteq Config

VARIABLES
    config,      \* the join definition and policy of this run
    selected,    \* the selected branches
    listed,      \* length of the selection, in which a name may be repeated
    stage,       \* "idle", "running", "joined" or "blocked"
    task,        \* per branch: "off", "ready", "invoking" or its result
    at,          \* per branch: nodes that have succeeded
    cancelling,  \* tasks with a cancellation on its way
    pending,     \* tasks whose result is still waited for
    completed,   \* the report: completed branches in the order they arrived,
    failed, cancelled, ignored, quorumMet,
    merged       \* the branches whose outputs enter the join

report == <<completed, failed, cancelled, ignored, quorumMet, merged>>
exVars == <<config, selected, listed, stage, task, at, cancelling, pending, report>>

(* Faulty variant: a cancelled task is not taken for a finished one.        *)
FaultyFinished == {"completed", "failed"}

Finished == {"completed", "failed", "cancelled"}

ExInit ==
    /\ config \in Configs
    /\ selected = {} /\ listed = 0 /\ stage = "idle"
    /\ task = [b \in Branches |-> "off"]
    /\ at = [b \in Branches |-> 0]
    /\ cancelling = {} /\ pending = {}
    /\ completed = << >> /\ merged = << >>
    /\ failed = {} /\ cancelled = {} /\ ignored = {}
    /\ quorumMet = FALSE

-----------------------------------------------------------------------------
(* _compute_quorum_threshold, of n branches; count or num is 0 when the     *)
(* definition does not give it.                                             *)
Threshold(n) ==
    IF config.count # 0 THEN config.count
    ELSE IF config.num # 0 THEN (n * config.num + config.den - 1) \div config.den
    ELSE n

(* The threshold _execute_with_quorum uses, from the branches that run.     *)
Required == Threshold(Cardinality(selected))

Path == IF config.policy = "cancel_on_first" THEN "first"
        ELSE IF config.wait = "quorum" THEN "quorum"
        ELSE "gather"

(* A new report, and the tasks of the branches sel.                         *)
Fresh(sel, n, where) ==
    /\ selected' = sel /\ listed' = n /\ stage' = where
    /\ task' = [b \in Branches |-> IF b \in sel THEN "ready" ELSE "off"]
    /\ at' = [b \in Branches |-> 0]
    /\ pending' = sel /\ cancelling' = {}
    /\ completed' = << >> /\ merged' = << >>
    /\ failed' = {} /\ cancelled' = {} /\ ignored' = {}
    /\ quorumMet' = FALSE
    /\ UNCHANGED config

(* execute, up to the creation of the tasks.                                *)
Start(sel, n) ==
    /\ stage # "running"
    /\ Fresh(sel, n, "running")

(* The process is gone, and its tasks with it.                              *)
Vanish == Fresh({}, 0, "idle")

-----------------------------------------------------------------------------
(* _run_branch: the nodes of a branch one after the other.                  *)

taskFrame == <<config, selected, listed, stage, cancelling, pending, report>>

Ready == {b \in Branches : task[b] = "ready"}

(* Tasks start in declared order, and all before any result is looked at.   *)
StartTask(b) ==
    /\ stage = "running"
    /\ b \in Ready
    /\ b = SelectSeq(Declared, LAMBDA d : d \in Ready)[1]
    /\ task' = [task EXCEPT ![b] = "invoking"]
    /\ UNCHANGED <<at, taskFrame>>

Invoking(b) == stage = "running" /\ task[b] = "invoking"

(* The node executor returned success; the next node is invoked at once.    *)
NodeSucceeds(b) ==
    /\ Invoking(b) /\ b \notin cancelling
    /\ at' = [at EXCEPT ![b] = @ + 1]
    /\ task' = [task EXCEPT ![b] = IF at[b] + 1 = Length[b] THEN "completed"
                                   ELSE "invoking"]
    /\ UNCHANGED taskFrame

(* It reported a failure or raised.                                         *)
NodeFails(b) ==
    /\ Invoking(b) /\ b \notin cancelling
    /\ task' = [task EXCEPT ![b] = "failed"]
    /\ UNCHANGED <<at, taskFrame>>

(* CancelledError arrives at the await of the invocation.                   *)
CancelArrives(b) ==
    /\ Invoking(b) /\ b \in cancelling
    /\ task' = [task EXCEPT ![b] = "cancelled"]
    /\ UNCHANGED <<at, taskFrame>>

-----------------------------------------------------------------------------
(* Faulty variant: a cancelled branch is reported as a failed one.          *)
FaultyClassify(done, wins) ==
    /\ completed' = completed \o wins
    /\ failed' = failed \cup {b \in done : task[b] # "completed"}
    /\ pending' = pending \ done
    /\ UNCHANGED <<config, selected, listed, stage, task, at, cancelled, ignored, merged>>

(* _classify_branch_result, for the results of a batch; wins are the        *)
(* successes in the order in which they are looked at.                      *)
Classify(done, wins) ==
    /\ completed' = completed \o wins
    /\ failed' = failed \cup {b \in done : task[b] = "failed"}
    /\ cancelled' = cancelled \cup {b \in done : task[b] = "cancelled"}
    /\ pending' = pending \ done
    /\ UNCHANGED <<config, selected, listed, stage, task, at, ignored, merged>>

Done == {b \in pending : task[b] \in Finished}
Wins(done) == SetToSeqs({b \in done : task[b] = "completed"})

(* gather: once all have finished, in declared order.                       *)
InDeclaredOrder(wins) ==
    \A i, j \in DOMAIN wins : i < j =>
        \E k, m \in DOMAIN Declared :
            k < m /\ Declared[k] = wins[i] /\ Declared[m] = wins[j]

CollectAll ==
    /\ stage = "running" /\ Path = "gather"
    /\ pending # {} /\ Done = pending
    /\ \E wins \in Wins(pending) : /\ InDeclaredOrder(wins)
                                   /\ Classify(pending, wins)
    /\ UNCHANGED <<cancelling, quorumMet>>

(* asyncio.wait, FIRST_COMPLETED: all that have finished by now, in any     *)
(* order.                                                                   *)
CollectBatch ==
    /\ stage = "running"
    /\ Ready = {} /\ Done # {}
    /\ \E wins \in Wins(Done) : Classify(Done, wins)

(* _execute_with_cancel_on_first: a success cancels what is pending.        *)
CollectFirst ==
    /\ Path = "first"
    /\ CollectBatch
    /\ cancelling' = IF completed' # << >> THEN pending' ELSE cancelling
    /\ UNCHANGED quorumMet

(* Faulty variant: what is pending does not count as a possible success.    *)
FaultyHopeless(successes, open) == successes < Required

Hopeless(successes, open) == successes + Cardinality(open) < Required

(* _execute_with_quorum: after each batch, has the quorum been met, and can *)
(* it still be?                                                             *)
CollectQuorum ==
    /\ Path = "quorum"
    /\ CollectBatch
    /\ quorumMet' = (quorumMet \/ Len(completed') >= Required)
    /\ cancelling' =
          IF \/ quorumMet' /\ ~quorumMet /\ config.after = "cancel"
             \/ ~quorumMet' /\ Hopeless(Len(completed'), pending')
          THEN pending' ELSE cancelling

-----------------------------------------------------------------------------
(* The join, from the report.                                               *)

First(n) == SubSeq(completed, 1, n)

Trimmed == Path = "quorum" /\ quorumMet /\ config.after = "ignore_late"

(* Faulty variant: one winner too few is kept.                              *)
FaultyCounted == IF Trimmed THEN First(Required - 1) ELSE completed

(* The completed branches of the report, when the join looks at them.       *)
Counted == IF Trimmed THEN First(Required) ELSE completed

(* Faulty variant: a failed branch does not block a join that waits for all.*)
FaultyBlocks ==
    \/ config.wait \in {"any", "first"} /\ completed = << >>
    \/ config.wait = "quorum" /\ Len(Counted) < Threshold(listed)

Blocks ==
    \/ config.wait = "all" /\ failed # {}
    \/ config.wait \in {"any", "first"} /\ completed = << >>
    \/ config.wait = "quorum" /\ Len(Counted) < Threshold(listed)

(* Only the first branch counts: wait_for first, ignore_late or             *)
(* cancel_on_first.                                                         *)
OnlyFirst ==
    \/ Path = "first"
    \/ config.wait = "first"
    \/ config.wait = "any" /\ config.policy = "ignore_late"

MergeBranches ==
    IF OnlyFirst THEN IF completed = << >> THEN << >> ELSE First(1)
    ELSE IF Path = "quorum" THEN First(Required)
    ELSE completed

(* Late branches are marked ignored.  After a quorum with ignore_late all   *)
(* completed branches are, the winners too: the branch to spare is not      *)
(* known yet when they are marked.                                          *)
Late ==
    (IF Trimmed /\ Len(completed) > Required THEN Range(completed) ELSE {})
      \cup
    (IF ~Blocks /\ \/ config.wait = "first"
                   \/ config.wait = "any" /\ config.policy = "ignore_late"
     THEN Range(completed) \ Range(First(1)) ELSE {})

Join ==
    /\ stage = "running" /\ pending = {}
    /\ stage' = IF Blocks THEN "blocked" ELSE "joined"
    /\ merged' = IF Blocks THEN << >> ELSE MergeBranches
    /\ completed' = Counted
    /\ ignored' = Late
    /\ UNCHANGED <<config, selected, listed, task, at, cancelling, pending, failed,
                   cancelled, quorumMet>>

-----------------------------------------------------------------------------
Collect == CollectAll \/ CollectFirst \/ CollectQuorum

(* Properties.                                                              *)

(* The executor's variables have their types.                               *)
ExTypeOK ==
    /\ config \in Configs
    /\ selected \subseteq Branches /\ listed \in Nat
    /\ stage \in {"idle", "running", "joined", "blocked"}
    /\ task \in [Branches -> {"off", "ready", "invoking"} \cup Finished]
    /\ at \in [Branches -> Nat]
    /\ cancelling \subseteq Branches /\ pending \subseteq Branches
    /\ completed \in Seq(Branches) /\ merged \in Seq(Branches)
    /\ failed \subseteq Branches /\ cancelled \subseteq Branches
    /\ ignored \subseteq Branches /\ quorumMet \in BOOLEAN

(* No selected branch is lost or reported twice, and the report says what   *)
(* its task did, whatever the order of results and cancellations.           *)
ReportTruthful ==
    stage # "idle" =>
        /\ \A b \in selected \ pending :
              CASE task[b] = "completed" ->
                      at[b] = Length[b] /\ b \in Range(completed) \cup ignored
                [] task[b] = "failed" -> b \in failed
                [] task[b] = "cancelled" -> b \in cancelled
                [] OTHER -> FALSE
        /\ \A b \in Range(completed) : task[b] = "completed"
        /\ \A b \in failed : task[b] = "failed"
        /\ \A b \in cancelled : task[b] = "cancelled"
        /\ pending \cap (Range(completed) \cup failed \cup cancelled) = {}
        /\ IsInjective(completed)

Completed == {b \in selected : task[b] = "completed"}

(* A join goes on only with what its wait policy asks for, on what the      *)
(* branches really did, and never with nothing when branches were selected. *)
JoinSound ==
    stage = "joined" =>
        /\ selected # {} => merged # << >>
        /\ Range(merged) \subseteq Completed
        /\ config.wait = "all" => \A b \in selected : task[b] # "failed"
        /\ config.wait = "quorum" =>
              Cardinality(Completed) >= Threshold(listed)
        /\ Path = "quorum" /\ listed = Cardinality(selected) =>
              Len(merged) = Required

(* It is blocked only when its policy cannot be met by what the branches    *)
(* did, so a quorum that was reached is never refused by the second         *)
(* computation of the threshold, unless a name was selected twice.  (Then   *)
(* dropping the late results may leave fewer than that threshold.)          *)
BlockedForCause ==
    stage = "blocked" =>
        /\ config.wait = "all" => \E b \in selected : task[b] = "failed"
        /\ config.wait \in {"any", "first"} => Completed = {}
        /\ Path = "quorum" => /\ Trimmed \/ Cardinality(Completed) < Threshold(listed)
                              /\ quorumMet => listed > Cardinality(selected)

(* A branch is cancelled only when its result cannot matter any more: after *)
(* the first success, after the quorum, or when the quorum is out of reach. *)
CancelJustified ==
    \A b \in selected :
        b \in cancelling \/ task[b] = "cancelled" =>
            CASE Path = "first" -> completed # << >>
              [] Path = "quorum" ->
                    \/ quorumMet /\ Cardinality(Completed) >= Required
                    \/ Cardinality(selected \ failed) < Required
              [] OTHER -> FALSE

(* Join, block and cancellation all follow the wait policy and what the     *)
(* branches really did, in whatever order their tasks end.                  *)
FanoutSound == JoinSound /\ BlockedForCause /\ CancelJustified
=============================================================================
