----------------------- MODULE SideEffectJournalProofs -----------------------
(***************************************************************************)
(* Proofs about SideEffectJournal, for any number of operations and of     *)
(* processes that overlap, crash and resume: type correctness, write-ahead,*)
(* flagged effects, observed completions, and the permanence of capsules;  *)
(* and, for processes that do not overlap, the agreement of traces, ledger *)
(* and decisions.                                                          *)
(***************************************************************************)
EXTENDS SideEffectJournal, TLAPS

Begun(r) == status[r] \notin {"absent", "planned"}

Journaling == {"journal", "start_select", "start_write"}
Invoked == {"invoke", "commit", "report", "complete_select", "complete_write"}
Reporting == {"report", "complete_select", "complete_write"}

(* A planned operation's row goes straight to 'started', together with its  *)
(* capsule, before any call.                                                *)
RowInv ==
    \A r \in Planned :
        /\ status[r] # "planned"
        /\ Begun(r) <=> capsule[r] # None
        /\ calls[r] > 0 => Begun(r)

(* What a process has behind it at each stage.                              *)
StageInv ==
    \A p \in Procs :
        /\ pc[p] \in Journaling =>
              /\ todo[p] \subseteq Planned
              /\ op[p] \in Payloads
              /\ \A r \in Planned : r \in todo[p] \/ Begun(r)
        /\ pc[p] \in {"start_select", "start_write"} => row[p] \in todo[p]
        /\ pc[p] = "start_write" => view[p].status \in {"absent", "planned"}
        /\ pc[p] \in Invoked => \A r \in Planned : Begun(r)
        /\ pc[p] = "invoke" => op[p] \in Payloads /\ todo[p] \subseteq Operations
        /\ pc[p] \in Reporting =>
              /\ todo[p] \subseteq Planned
              /\ \A r \in todo[p] : reply[p][r] # None
        /\ pc[p] \in {"complete_select", "complete_write"} => row[p] \in todo[p]

(* Answers are to calls that were made.                                     *)
ReplyInv ==
    \A p \in Procs : \A r \in Planned :
        reply[p][r] # None => <<r, reply[p][r]>> \in answers

(* The rows a resume has listed exist, and those it has handled are flagged.*)
ListInv ==
    \A p \in Procs :
        /\ pc[p] = "idle" => row[p] = None
        /\ pc[p] = "reconcile" => todo[p] \subseteq listed[p]
        /\ pc[p] = "reconcile" => row[p] \in todo[p] \cup {None}
        /\ \A r \in listed[p] :
              /\ status[r] # "absent"
              /\ \/ pc[p] = "reconcile" /\ r \in todo[p]
                 \/ r \in Planned /\ status[r] # "started"

(* What guards let through is what the capsules hold.                       *)
WireInv ==
    \A o \in Operations, c \in Payloads :
        <<o, c>> \in wire => o \in Planned /\ capsule[o] = c

IInv == /\ TypeOK /\ RowInv /\ WireInv /\ StageInv /\ ReplyInv /\ ListInv
        /\ CompletedObserved

-----------------------------------------------------------------------------
LEMMA RowSets ==
    /\ Planned \subseteq Rows /\ Children \subseteq Rows
    /\ Planned \subseteq Operations
    /\ \A r \in Rows : r \in Planned <=> r \notin Children
    /\ \A k \in Keys : Row(k) \in Planned /\ Child(k) \in Children
<1>1. \A k, l \in Keys : Row(k) # Child(l)
  BY DEF Row, Child
<1> QED
  BY <1>1 DEF Planned, Children, Rows, Operations

(* Types.  A process that is over, or is done with a row, has well-typed    *)
(* locals; so has one that keeps what a SELECT read.                        *)
LocalOK ==
    /\ pc \in [Procs -> Locations]
    /\ listed \in [Procs -> SUBSET Rows]
    /\ todo \in [Procs -> SUBSET (Rows \cup Operations)]
    /\ row \in [Procs -> Rows \cup {None}]
    /\ view \in [Procs -> View]
    /\ caps \in [Procs -> SUBSET Rows]
    /\ op \in [Procs -> Payloads \cup {None}]
    /\ reply \in [Procs -> [Planned -> Hashes \cup {None}]]
    /\ sent \in [Procs -> SUBSET Operations]

LEMMA ViewFacts ==
    ASSUME TypeOK
    PROVE  /\ Blank \in View
           /\ NoReply \in [Planned -> Hashes \cup {None}]
           /\ \A r \in Rows :
                 /\ [status |-> status[r], response |-> response[r]] \in View
                 /\ [status |-> status[r], response |-> None] \in View
BY DEF TypeOK, Blank, NoReply, View, RowStatus

LEMMA OverType ==
    ASSUME TypeOK, NEW p \in Procs, Over(p)
    PROVE  LocalOK'
<1>1. /\ pc' \in [Procs -> Locations]
      /\ listed' \in [Procs -> SUBSET Rows]
      /\ todo' \in [Procs -> SUBSET (Rows \cup Operations)]
  BY DEF TypeOK, Over, Locations
<1>2. /\ row' \in [Procs -> Rows \cup {None}]
      /\ view' \in [Procs -> View]
      /\ caps' \in [Procs -> SUBSET Rows]
  BY ViewFacts DEF TypeOK, Over
<1>3. /\ op' \in [Procs -> Payloads \cup {None}]
      /\ reply' \in [Procs -> [Planned -> Hashes \cup {None}]]
      /\ sent' \in [Procs -> SUBSET Operations]
  BY ViewFacts DEF TypeOK, Over
<1> QED
  BY <1>1, <1>2, <1>3 DEF LocalOK

LEMMA HandledType ==
    ASSUME TypeOK, NEW p \in Procs, NEW stage \in Locations, NEW r,
           Handled(p, r, stage), UNCHANGED <<listed, caps, op, reply, sent>>
    PROVE  LocalOK'
BY ViewFacts DEF TypeOK, Handled, LocalOK

LEMMA WriteType ==
    ASSUME TypeOK, NEW r \in Rows, NEW new \in RowStatus,
           NEW hash \in Hashes \cup {None}, Write(r, new, hash)
    PROVE  /\ status' \in [Rows -> RowStatus]
           /\ response' \in [Rows -> Hashes \cup {None}]
BY DEF TypeOK, Write

LEMMA DispatchType ==
    ASSUME IInv, NEW p \in Procs, pc[p] = "invoke", NEW o \in Operations, Dispatch(p, o)
    PROVE  /\ sent' \in [Procs -> SUBSET Operations]
           /\ wire' \subseteq Operations \X Payloads
<1>1. op[p] \in Payloads
  BY DEF IInv, StageInv
<1> QED
  <2>1. CASE p \in Guarded
    BY <1>1, <2>1 DEF IInv, TypeOK, Dispatch
  <2>2. CASE p \notin Guarded
    BY <2>2 DEF IInv, TypeOK, Dispatch
  <2> QED
    BY <2>1, <2>2

(* Every step keeps the types.                                             *)
LEMMA TypeStep == IInv /\ [Next]_vars => TypeOK'
<1> SUFFICES ASSUME IInv, [Next]_vars PROVE TypeOK'
  OBVIOUS
<1> USE RowSets DEF IInv, TypeOK
<1>1. ASSUME NEW p \in Procs, ProcStep(p) PROVE TypeOK'
  <2>1. CASE ReconcileSelect(p)
    <3>1. PICK r \in todo[p] :
            /\ row' = [row EXCEPT ![p] = r]
            /\ view' = [view EXCEPT ![p] = [status |-> status[r], response |-> response[r]]]
      BY <2>1 DEF ReconcileSelect
    <3>2. r \in Rows
      BY <2>1, <3>1 DEF ReconcileSelect, ListInv
    <3>3. view' \in [Procs -> View]
      BY <3>1, <3>2, ViewFacts
    <3> QED
      BY <2>1, <3>1, <3>2, <3>3 DEF ReconcileSelect, ledgerVars, outside
  <2>2. CASE ReconcileWrite(p)
    <3>1. CASE Accepts(row[p], view[p].status, "unknown")
      <4>1. LocalOK'
        BY <2>2, <3>1, HandledType DEF ReconcileWrite, Locations
      <4>2. row[p] \in Rows /\ "unknown" \in RowStatus
        BY <2>2 DEF ReconcileWrite, RowStatus
      <4>3. /\ status' \in [Rows -> RowStatus]
            /\ response' \in [Rows -> Hashes \cup {None}]
        BY <2>2, <3>1, <4>2, WriteType DEF ReconcileWrite
      <4> QED
        BY <2>2, <3>1, <4>1, <4>3 DEF ReconcileWrite, LocalOK, outside
    <3>2. CASE ~Accepts(row[p], view[p].status, "unknown")
      <4>1. LocalOK'
        BY <2>2, <3>2, OverType DEF ReconcileWrite, Fail, Locations
      <4> QED
        BY <2>2, <3>2, <4>1 DEF ReconcileWrite, Fail, LocalOK, ledgerVars, outside
    <3> QED
      BY <3>1, <3>2
  <2>3. CASE Reconciled(p)
    <3>1. LocalOK'
      BY <2>3, OverType DEF Reconciled, Locations, localVars, LocalOK
    <3> QED
      BY <2>3, <3>1 DEF Reconciled, LocalOK, ledgerVars, outside
  <2>4. CASE Compile(p)
    BY <2>4 DEF Compile, Known, Locations, ledgerVars, outside
  <2>5. CASE JournalOne(p)
    <3>1. PICK r \in todo[p] :
            \/ /\ row' = [row EXCEPT ![p] = r]
               /\ pc' = [pc EXCEPT ![p] = "start_select"]
               /\ UNCHANGED <<todo, view>>
            \/ Handled(p, r, "journal")
      BY <2>5 DEF JournalOne
    <3>2. LocalOK'
      <4>1. CASE Handled(p, r, "journal")
        BY <2>5, <4>1, HandledType DEF JournalOne, Locations
      <4>2. CASE /\ row' = [row EXCEPT ![p] = r]
                 /\ pc' = [pc EXCEPT ![p] = "start_select"]
                 /\ UNCHANGED <<todo, view>>
        <5>1. r \in Rows /\ UNCHANGED <<listed, caps, op, reply, sent>>
          BY <2>5, <3>1 DEF JournalOne, StageInv, Journaling
        <5> QED
          BY <4>2, <5>1 DEF Locations, LocalOK
      <4> QED
        BY <3>1, <4>1, <4>2
    <3> QED
      BY <2>5, <3>2 DEF JournalOne, LocalOK, ledgerVars, outside
  <2>6. CASE JournalRefused(p)
    <3>1. LocalOK'
      BY <2>6, OverType DEF JournalRefused, Fail, Locations
    <3> QED
      BY <2>6, <3>1 DEF JournalRefused, Fail, LocalOK, ledgerVars, outside
  <2>7. CASE StartSelect(p)
    <3> DEFINE r == row[p]
    <3>0. r \in Rows
      BY <2>7 DEF StartSelect, StageInv, Journaling
    <3>1. CASE /\ view' = [view EXCEPT ![p] = [status |-> status[r], response |-> None]]
               /\ pc' = [pc EXCEPT ![p] = "start_write"]
               /\ UNCHANGED <<ledgerVars, listed, todo, row, caps, op, reply, sent>>
      BY <2>7, <3>0, <3>1, ViewFacts DEF StartSelect, Locations, ledgerVars, outside
    <3>2. CASE Handled(p, r, "journal") /\ UNCHANGED <<ledgerVars, listed, caps, op, reply, sent>>
      <4>1. LocalOK'
        BY <3>2, HandledType DEF Locations
      <4> QED
        BY <2>7, <3>2, <4>1 DEF StartSelect, LocalOK, ledgerVars, outside
    <3>3. CASE Fail(p)
      <4>1. LocalOK'
        BY <3>3, OverType DEF Fail, Locations
      <4> QED
        BY <2>7, <3>3, <4>1 DEF StartSelect, Fail, LocalOK, ledgerVars, outside
    <3> QED
      BY <2>7, <3>1, <3>2, <3>3 DEF StartSelect
  <2>8. CASE StartWrite(p)
    <3> DEFINE r == row[p]
    <3>1. CASE status[r] = view[p].status /\ capsule[r] \in {None, op[p]}
      <4>1. LocalOK'
        BY <2>8, <3>1, HandledType DEF StartWrite, Locations
      <4>2. r \in Rows /\ "started" \in RowStatus /\ response[r] \in Hashes \cup {None}
        BY <2>8 DEF StartWrite, StageInv, Journaling, RowStatus
      <4>3. /\ status' \in [Rows -> RowStatus]
            /\ response' \in [Rows -> Hashes \cup {None}]
        BY <2>8, <3>1, <4>2, WriteType DEF StartWrite
      <4>4. capsule' \in [Rows -> Payloads \cup {None}]
        BY <2>8, <3>1, <4>2 DEF StartWrite
      <4>5. UNCHANGED <<decisions, committed, outside>>
        BY <2>8, <3>1 DEF StartWrite
      <4> QED
        BY <4>1, <4>3, <4>4, <4>5 DEF LocalOK, outside
    <3>2. CASE ~(status[r] = view[p].status /\ capsule[r] \in {None, op[p]})
      <4>1. LocalOK'
        BY <2>8, <3>2, OverType DEF StartWrite, Fail, Locations
      <4> QED
        BY <2>8, <3>2, <4>1 DEF StartWrite, Fail, LocalOK, ledgerVars, outside
    <3> QED
      BY <3>1, <3>2
  <2>9. CASE Journaled(p)
    BY <2>9 DEF Journaled, ledgerVars, outside, Locations
  <2>10. CASE CallAdapter(p)
    <3>1. PICK r \in todo[p] \cap Planned :
            /\ todo' = [todo EXCEPT ![p] = @ \ {r}]
            /\ IF r \in caps[p]
               THEN UNCHANGED <<calls, wire, answers, reply, sent>>
               ELSE /\ Dispatch(p, r)
                    /\ calls' = [calls EXCEPT ![r] = IF @ < 2 THEN @ + 1 ELSE 2]
                    /\ \E h \in Hashes \cup {None} :
                        /\ reply' = [reply EXCEPT ![p][r] = h]
                        /\ answers' = answers \cup ({<<r, h>>} \ {<<r, None>>})
      BY <2>10 DEF CallAdapter
    <3>2. r \in Planned
      BY <3>1
    <3>3. calls' \in [Planned -> 0..2]
      <4>1. calls[r] \in 0..2
        BY <3>2 DEF TypeOK
      <4>2. \A n \in 0..2 : (IF n < 2 THEN n + 1 ELSE 2) \in 0..2
        OBVIOUS
      <4>3. (IF calls[r] < 2 THEN calls[r] + 1 ELSE 2) \in 0..2
        BY <4>1, <4>2
      <4> QED
        BY <3>1, <3>2, <4>3
    <3>4. reply' \in [Procs -> [Planned -> Hashes \cup {None}]]
      <4>1. CASE UNCHANGED reply
        BY <4>1
      <4>2. CASE \E h \in Hashes \cup {None} : reply' = [reply EXCEPT ![p][r] = h]
        <5>1. PICK h \in Hashes \cup {None} : reply' = [reply EXCEPT ![p][r] = h]
          BY <4>2
        <5>2. [reply[p] EXCEPT ![r] = h] \in [Planned -> Hashes \cup {None}]
          BY <3>2
        <5> QED
          BY <5>1, <5>2
      <4> QED
        BY <3>1, <4>1, <4>2
    <3>5. answers' \subseteq Planned \X Hashes
      BY <3>1, <3>2
    <3>6. /\ sent' \in [Procs -> SUBSET Operations]
          /\ wire' \subseteq Operations \X Payloads
      BY <2>10, <3>1, DispatchType DEF CallAdapter
    <3> QED
      BY <2>10, <3>1, <3>3, <3>4, <3>5, <3>6 DEF CallAdapter, ledgerVars
  <2>21. CASE CallUnplanned(p)
    <3>1. PICK o \in Operations :
            Dispatch(p, o) /\ todo' = [todo EXCEPT ![p] = @ \ {o}]
      BY <2>21 DEF CallUnplanned, StageInv
    <3>2. /\ sent' \in [Procs -> SUBSET Operations]
          /\ wire' \subseteq Operations \X Payloads
      BY <2>21, <3>1, DispatchType DEF CallUnplanned
    <3> QED
      BY <2>21, <3>1, <3>2 DEF CallUnplanned, ledgerVars
  <2>11. CASE NodeRetried(p)
    BY <2>11, ViewFacts, JournalAssumption DEF NodeRetried, ledgerVars
  <2>12. CASE NodeFails(p)
    <3>1. LocalOK'
      BY <2>12, OverType DEF NodeFails, Fail, Locations
    <3> QED
      BY <2>12, <3>1 DEF NodeFails, Fail, LocalOK, ledgerVars, outside
  <2>13. CASE NodeSucceeds(p)
    BY <2>13 DEF NodeSucceeds, ledgerVars, outside, Locations
  <2>14. CASE Commit(p)
    <3>1. CASE committed
      <4>1. LocalOK'
        BY <2>14, <3>1, OverType DEF Commit, Fail, Locations
      <4> QED
        BY <2>14, <3>1, <4>1 DEF Commit, Fail, LocalOK, ledgerVars, outside
    <3>2. CASE ~committed
      <4>1. todo' \in [Procs -> SUBSET (Rows \cup Operations)]
        <5>1. PICK records \in SUBSET {r \in Planned : reply[p][r] # None} :
                todo' = [todo EXCEPT ![p] = records]
          BY <2>14, <3>2 DEF Commit
        <5>2. records \in SUBSET (Rows \cup Operations)
          OBVIOUS
        <5> QED
          BY <5>1, <5>2
      <4>2. pc' \in [Procs -> Locations]
        <5>1. pc' = [pc EXCEPT ![p] = "report"]
          BY <2>14, <3>2, Zenon DEF Commit
        <5>2. "report" \in Locations
          BY DEF Locations
        <5>3. pc \in [Procs -> Locations]
          BY DEF TypeOK
        <5> QED
          BY <5>1, <5>2, <5>3, Zenon
      <4> QED
        BY <2>14, <3>2, <4>1, <4>2 DEF Commit, ledgerVars, outside
    <3> QED
      BY <3>1, <3>2
  <2>15. CASE ReportRead(p)
    <3>1. PICK r \in todo[p] :
            \/ /\ Handled(p, r, "report")
               /\ UNCHANGED <<ledgerVars, listed, caps, op, reply, sent>>
            \/ Fail(p)
            \/ /\ row' = [row EXCEPT ![p] = r]
               /\ pc' = [pc EXCEPT ![p] = "complete_select"]
               /\ UNCHANGED <<ledgerVars, listed, todo, view, caps, op, reply, sent>>
      BY <2>15 DEF ReportRead
    <3>2. LocalOK'
      <4>1. CASE Handled(p, r, "report") /\ UNCHANGED <<ledgerVars, listed, caps, op, reply, sent>>
        BY <4>1, HandledType DEF Locations
      <4>2. CASE Fail(p)
        BY <4>2, OverType DEF Fail, Locations
      <4>3. CASE /\ row' = [row EXCEPT ![p] = r]
                 /\ pc' = [pc EXCEPT ![p] = "complete_select"]
                 /\ UNCHANGED <<ledgerVars, listed, todo, view, caps, op, reply, sent>>
        <5>1. r \in Rows
          BY <2>15, <3>1 DEF ReportRead, StageInv, Reporting
        <5> QED
          BY <4>3, <5>1 DEF Locations, LocalOK
      <4> QED
        BY <3>1, <4>1, <4>2, <4>3
    <3>3. UNCHANGED ledgerVars
      BY <3>1 DEF Fail
    <3> QED
      BY <2>15, <3>2, <3>3 DEF ReportRead, LocalOK, ledgerVars, outside
  <2>16. CASE RecordAgain(p)
    BY <2>16 DEF RecordAgain, ledgerVars, outside, Locations
  <2>17. CASE RecordInvalid(p)
    <3>1. LocalOK'
      BY <2>17, OverType DEF RecordInvalid, Fail, Locations
    <3> QED
      BY <2>17, <3>1 DEF RecordInvalid, Fail, LocalOK, ledgerVars, outside
  <2>18. CASE CompleteSelect(p)
    <3>1. row[p] \in Rows
      BY <2>18 DEF CompleteSelect, StageInv, Reporting
    <3> QED
      BY <2>18, <3>1, ViewFacts DEF CompleteSelect, Locations, ledgerVars, outside
  <2>19. CASE CompleteWrite(p)
    <3> DEFINE r == row[p]
               hash == reply[p][r]
               replay == view[p] = [status |-> "completed", response |-> hash]
    <3>0. r \in Rows /\ "completed" \in RowStatus /\ hash \in Hashes
      BY <2>19 DEF CompleteWrite, StageInv, RowStatus, Reporting
    <3>1. CASE replay \/ Accepts(r, view[p].status, "completed")
      <4>1. LocalOK'
        BY <2>19, <3>1, HandledType DEF CompleteWrite, Locations
      <4>2. /\ status' \in [Rows -> RowStatus]
            /\ response' \in [Rows -> Hashes \cup {None}]
        BY <2>19, <3>0, <3>1, WriteType DEF CompleteWrite
      <4>3. completions' \subseteq Rows \X Hashes
        BY <2>19, <3>0, <3>1 DEF CompleteWrite
      <4> QED
        BY <2>19, <3>1, <4>1, <4>2, <4>3 DEF CompleteWrite, LocalOK
    <3>2. CASE ~(replay \/ Accepts(r, view[p].status, "completed"))
      <4>1. LocalOK'
        BY <2>19, <3>2, OverType DEF CompleteWrite, Fail, Locations
      <4> QED
        BY <2>19, <3>2, <4>1 DEF CompleteWrite, Fail, LocalOK, ledgerVars
    <3> QED
      BY <3>1, <3>2
  <2>20. CASE Finish(p)
    <3>1. LocalOK'
      BY <2>20, OverType DEF Finish, Locations
    <3> QED
      BY <2>20, <3>1 DEF Finish, LocalOK, ledgerVars, outside
  <2> QED
    BY <1>1, <2>1, <2>2, <2>3, <2>4, <2>5, <2>6, <2>7, <2>8, <2>9, <2>10,
       <2>11, <2>12, <2>13, <2>14, <2>15, <2>16, <2>17, <2>18, <2>19,
       <2>20, <2>21 DEF ProcStep
<1>2. ASSUME NEW p \in Procs, BeginRun(p) PROVE TypeOK'
  BY <1>2 DEF BeginRun, Join, localVars, ledgerVars, Locations
<1>3. ASSUME NEW p \in Procs, BeginResume(p) PROVE TypeOK'
  BY <1>3 DEF BeginResume, Join, ledgerVars, Unfinished, Locations
<1>4. ASSUME NEW p \in Procs, Crash(p) PROVE TypeOK'
  <2>1. LocalOK'
    BY <1>4, OverType DEF Crash, Locations
  <2> QED
    BY <1>4, <2>1 DEF Crash, LocalOK, ledgerVars, outside
<1>5. ASSUME NEW k \in Keys, Resolve(k) PROVE TypeOK'
  <2>1. PICK v \in Verdicts :
          /\ decisions' = [decisions EXCEPT ![Row(k)] = @ \cup {v}]
          /\ Write(Row(k), ResolvedStatus(v), None)
    BY <1>5 DEF Resolve
  <2>2. ResolvedStatus(v) \in RowStatus
    BY DEF ResolvedStatus, RowStatus, Verdicts
  <2>3. /\ status' \in [Rows -> RowStatus]
        /\ response' \in [Rows -> Hashes \cup {None}]
    BY <2>1, <2>2, WriteType
  <2>4. decisions' \in [Rows -> SUBSET Verdicts]
    BY <2>1
  <2> QED
    BY <1>5, <2>3, <2>4 DEF Resolve, localVars, outside
<1>6. ASSUME NEW k \in Keys, ChildStep(k) PROVE TypeOK'
  BY <1>6 DEF ChildStep, RowStatus, localVars, outside
<1>7. CASE UNCHANGED vars
  BY <1>7 DEF vars, ledgerVars, localVars, outside
<1> QED
  BY <1>1, <1>2, <1>3, <1>4, <1>5, <1>6, <1>7 DEF Next

(* Rows: only StartWrite makes one, and it writes the capsule with it.      *)
LEMMA RowStep == IInv /\ [Next]_vars => RowInv'
<1> SUFFICES ASSUME IInv, [Next]_vars PROVE RowInv'
  OBVIOUS
<1> USE RowSets DEF IInv, TypeOK, RowInv, Begun
<1>1. ASSUME NEW p \in Procs, ProcStep(p) PROVE RowInv'
  <2>1. CASE ReconcileSelect(p) \/ Reconciled(p) \/ Compile(p)
           \/ JournalOne(p) \/ JournalRefused(p) \/ StartSelect(p)
           \/ Journaled(p) \/ NodeRetried(p) \/ NodeFails(p) \/ CallUnplanned(p)
    BY <2>1 DEF CallUnplanned, ReconcileSelect, ledgerVars, outside, Reconciled, localVars,
       Over, Compile, Known, JournalOne, Handled, JournalRefused, Fail,
       StartSelect, Journaled, NodeRetried, NodeFails
  <2>2. CASE NodeSucceeds(p) \/ Commit(p) \/ ReportRead(p) \/ RecordAgain(p)
           \/ RecordInvalid(p) \/ CompleteSelect(p) \/ Finish(p)
    BY <2>2 DEF NodeSucceeds, ledgerVars, outside, Commit, Fail, Over,
       ReportRead, Handled, RecordAgain, RecordInvalid, CompleteSelect, Finish
  <2>3. CASE ReconcileWrite(p)
    BY <2>3 DEF ReconcileWrite, Fail, ledgerVars, outside, Accepts, Write,
       Handled, Over, ListInv
  <2>4. CASE StartWrite(p)
    BY <2>4, JournalAssumption DEF StartWrite, Fail, ledgerVars, outside, Write, Handled, Over,
       StageInv, Journaling
  <2>5. CASE CallAdapter(p)
    BY <2>5 DEF CallAdapter, ledgerVars, StageInv, Invoked
  <2>6. CASE CompleteWrite(p)
    BY <2>6 DEF CompleteWrite, Fail, ledgerVars, Accepts, Write, Handled,
       Over, StageInv, Invoked
  <2> QED
    BY <1>1, <2>1, <2>2, <2>3, <2>4, <2>5, <2>6 DEF ProcStep
<1>2. ASSUME NEW p \in Procs, BeginRun(p) PROVE RowInv'
  BY <1>2 DEF BeginRun, Join, localVars, ledgerVars
<1>3. ASSUME NEW p \in Procs, BeginResume(p) PROVE RowInv'
  BY <1>3 DEF BeginResume, Join, ledgerVars, Unfinished
<1>4. ASSUME NEW p \in Procs, Crash(p) PROVE RowInv'
  BY <1>4 DEF Crash, Live, Over, ledgerVars, outside
<1>5. ASSUME NEW k \in Keys, Resolve(k) PROVE RowInv'
  BY <1>5 DEF Resolve, Write, ResolvedStatus, Verdicts, localVars, outside
<1>6. ASSUME NEW k \in Keys, ChildStep(k) PROVE RowInv'
  BY <1>6 DEF ChildStep, localVars, outside
<1>7. CASE UNCHANGED vars
  BY <1>7 DEF vars, ledgerVars, localVars, outside
<1> QED
  BY <1>1, <1>2, <1>3, <1>4, <1>5, <1>6, <1>7 DEF Next

(* Only StartWrite touches capsules, and it replaces none.                  *)
LEMMA CapsuleStays ==
    ASSUME IInv, [Next]_vars, NEW r \in Planned, capsule[r] # None
    PROVE  capsule'[r] = capsule[r]
<1>1. ASSUME NEW p \in Procs, StartWrite(p)
      PROVE  capsule'[r] = capsule[r]
  BY <1>1, RowSets DEF StartWrite, Handled, Fail, ledgerVars, IInv, TypeOK,
     StageInv, Journaling, RowInv, Begun
<1>2. UNCHANGED capsule \/ \E p \in Procs : StartWrite(p)
  <2>1. ASSUME NEW p \in Procs, ProcStep(p), ~StartWrite(p) PROVE UNCHANGED capsule
    BY <2>1 DEF ProcStep, ReconcileSelect, ReconcileWrite, Reconciled, Compile,
       JournalOne, JournalRefused, StartSelect, Journaled, CallAdapter, CallUnplanned,
       NodeRetried, NodeFails, NodeSucceeds, Commit, ReportRead, RecordAgain,
       RecordInvalid, CompleteSelect, CompleteWrite, Finish, Fail, ledgerVars
  <2>2. ASSUME NEW p \in Procs, BeginRun(p) \/ BeginResume(p) \/ Crash(p)
        PROVE  UNCHANGED capsule
    BY <2>2 DEF BeginRun, BeginResume, Crash, ledgerVars
  <2>3. ASSUME NEW k \in Keys, Resolve(k) \/ ChildStep(k) PROVE UNCHANGED capsule
    BY <2>3 DEF Resolve, ChildStep
  <2>4. CASE UNCHANGED vars
    BY <2>4 DEF vars, ledgerVars
  <2> QED
    BY <2>1, <2>2, <2>3, <2>4 DEF Next
<1> QED
  BY <1>1, <1>2

(* Only a dispatch puts anything on the wire, and a guard lets through what *)
(* it finds in a capsule.                                                   *)
LEMMA WireStep == IInv /\ [Next]_vars => WireInv'
<1> SUFFICES ASSUME IInv, [Next]_vars,
                    NEW o \in Operations, NEW c \in Payloads, <<o, c>> \in wire'
             PROVE  o \in Planned /\ capsule'[o] = c
  BY DEF WireInv
<1>1. \/ wire' = wire
      \/ \E p \in Procs, a \in Operations : Dispatch(p, a) /\ UNCHANGED capsule
  <2>1. ASSUME NEW p \in Procs, ProcStep(p), ~CallAdapter(p), ~CallUnplanned(p)
        PROVE  UNCHANGED wire
    BY <2>1 DEF ProcStep, ReconcileSelect, ReconcileWrite, Reconciled, Compile,
       JournalOne, JournalRefused, StartSelect, StartWrite, Journaled,
       NodeRetried, NodeFails, NodeSucceeds, Commit, ReportRead, RecordAgain,
       RecordInvalid, CompleteSelect, CompleteWrite, Finish, outside
  <2>2. ASSUME NEW p \in Procs, CallAdapter(p) \/ CallUnplanned(p)
        PROVE  wire' = wire \/ \E a \in Operations : Dispatch(p, a) /\ UNCHANGED capsule
    <3>1. UNCHANGED capsule /\ pc[p] = "invoke"
      BY <2>2 DEF CallAdapter, CallUnplanned, ledgerVars
    <3>2. CASE CallAdapter(p)
      BY <3>1, <3>2, RowSets DEF CallAdapter
    <3>3. CASE CallUnplanned(p)
      BY <3>1, <3>3 DEF CallUnplanned, IInv, StageInv
    <3> QED
      BY <2>2, <3>2, <3>3
  <2>3. ASSUME NEW p \in Procs, BeginRun(p) \/ BeginResume(p) \/ Crash(p)
        PROVE  UNCHANGED wire
    BY <2>3 DEF BeginRun, BeginResume, Crash, outside
  <2>4. ASSUME NEW k \in Keys, Resolve(k) \/ ChildStep(k) PROVE UNCHANGED wire
    BY <2>4 DEF Resolve, ChildStep, outside
  <2>5. CASE UNCHANGED vars
    BY <2>5 DEF vars, outside
  <2> QED
    BY <2>1, <2>2, <2>3, <2>4, <2>5 DEF Next
<1>2. CASE <<o, c>> \in wire
  <2>1. o \in Planned /\ capsule[o] = c /\ c # None
    BY <1>2, JournalAssumption DEF IInv, WireInv
  <2> QED
    BY <2>1, CapsuleStays
<1>3. CASE <<o, c>> \notin wire
  <2>1. PICK p \in Procs, a \in Operations : Dispatch(p, a) /\ UNCHANGED capsule
    BY <1>1, <1>3
  <2>2. p \in Guarded /\ <<o, c>> = <<a, op[p]>>
    BY <1>3, <2>1 DEF Dispatch
  <2> QED
    BY <2>1, <2>2 DEF Dispatch, Permits
<1> QED
  BY <1>2, <1>3

(* A process that is over has nothing behind it and nothing listed.         *)
LEMMA OverKeeps ==
    ASSUME IInv, NEW p \in Procs, Over(p), UNCHANGED status
    PROVE  StageInv' /\ ListInv'
<1> USE DEF IInv, TypeOK, Over
<1>1. StageInv'
  BY DEF StageInv, Begun, Journaling, Invoked, Reporting
<1>2. ListInv'
  BY DEF ListInv
<1> QED
  BY <1>1, <1>2

(* Stages: what a process has behind it no other process takes back.        *)
LEMMA StageStep == IInv /\ [Next]_vars => StageInv'
<1> SUFFICES ASSUME IInv, [Next]_vars PROVE StageInv'
  OBVIOUS
<1> USE RowSets DEF IInv, TypeOK, StageInv, Begun, Journaling, Invoked,
                Reporting
<1>1. ASSUME NEW p \in Procs, ProcStep(p) PROVE StageInv'
  <2>1. CASE ReconcileSelect(p)
    BY <2>1, JournalAssumption DEF ReconcileSelect, ledgerVars, outside
  <2>2. CASE ReconcileWrite(p)
    BY <2>2, JournalAssumption DEF ReconcileWrite, Fail, ledgerVars, outside,
       Accepts, Write, Handled, Over, ListInv
  <2>3. CASE Reconciled(p)
    <3>1. CASE committed
      BY <2>3, <3>1, OverKeeps DEF Reconciled, ledgerVars
    <3>2. CASE ~committed
      BY <2>3, <3>2 DEF Reconciled, ledgerVars, localVars
    <3> QED
      BY <3>1, <3>2
  <2>4. CASE Compile(p)
    BY <2>4, JournalAssumption DEF Compile, Known, ledgerVars, outside
  <2>5. CASE JournalOne(p)
    <3>1. pc[p] = "journal" /\ UNCHANGED <<status, op, reply>>
      BY <2>5 DEF JournalOne, ledgerVars
    <3>2. PICK r \in todo[p] :
            \/ /\ status[r] \in {"absent", "planned"}
               /\ row' = [row EXCEPT ![p] = r]
               /\ pc' = [pc EXCEPT ![p] = "start_select"]
               /\ UNCHANGED <<todo, view>>
            \/ /\ status[r] \notin {"absent", "planned"}
               /\ Handled(p, r, "journal")
      BY <2>5 DEF JournalOne
    <3>3. CASE /\ row' = [row EXCEPT ![p] = r]
               /\ pc' = [pc EXCEPT ![p] = "start_select"]
               /\ UNCHANGED <<todo, view>>
      BY <3>1, <3>3
    <3>4. CASE /\ status[r] \notin {"absent", "planned"}
               /\ Handled(p, r, "journal")
      BY <3>1, <3>4 DEF Handled
    <3> QED
      BY <3>2, <3>3, <3>4
  <2>6. CASE JournalRefused(p)
    BY <2>6, JournalAssumption DEF JournalRefused, Fail, ledgerVars, outside,
       Over
  <2>7. CASE StartSelect(p)
    BY <2>7, JournalAssumption DEF StartSelect, Fail, ledgerVars, outside,
       Handled, Over, RowInv
  <2>8. CASE StartWrite(p)
    <3> DEFINE r == row[p]
               free == status[r] = view[p].status /\ capsule[r] \in {None, op[p]}
    <3>1. CASE free
      <4>1. /\ status' = [status EXCEPT ![r] = "started"]
            /\ todo' = [todo EXCEPT ![p] = @ \ {r}]
            /\ pc' = [pc EXCEPT ![p] = "journal"]
            /\ row' = [row EXCEPT ![p] = None]
            /\ view' = [view EXCEPT ![p] = Blank]
            /\ UNCHANGED <<op, reply>>
            /\ pc[p] = "start_write"
        BY <2>8, <3>1 DEF StartWrite, Write, Handled
      <4> HIDE DEF free
      <4>2. r \in Rows
        BY <4>1
      <4>3. \A q \in Rows : Begun(q) => Begun(q)'
        BY <4>1, <4>2
      <4>4. status'[r] = "started"
        BY <4>1, <4>2
      <4> HIDE DEF r
      <4> QED
        BY <4>1, <4>2, <4>3, <4>4
    <3>2. CASE ~free
      BY <2>8, <3>2, OverKeeps DEF StartWrite, Fail, ledgerVars
    <3> QED
      BY <3>1, <3>2
  <2>9. CASE Journaled(p)
    BY <2>9, JournalAssumption DEF Journaled, ledgerVars, outside
  <2>10. CASE CallAdapter(p)
    BY <2>10, JournalAssumption DEF CallAdapter, ledgerVars
  <2>21. CASE CallUnplanned(p)
    BY <2>21, JournalAssumption DEF CallUnplanned, ledgerVars
  <2>11. CASE NodeRetried(p)
    BY <2>11, JournalAssumption DEF NodeRetried, ledgerVars
  <2>12. CASE NodeFails(p)
    BY <2>12, JournalAssumption DEF NodeFails, Fail, ledgerVars, outside, Over
  <2>13. CASE NodeSucceeds(p)
    BY <2>13, JournalAssumption DEF NodeSucceeds, ledgerVars, outside
  <2>14. CASE Commit(p)
    <3>1. CASE committed
      BY <2>14, <3>1, OverKeeps DEF Commit, Fail, ledgerVars
    <3>2. CASE ~committed
      <4>1. PICK records \in SUBSET {r \in Planned : reply[p][r] # None} :
              todo' = [todo EXCEPT ![p] = records]
        BY <2>14, <3>2 DEF Commit
      <4>2. /\ pc' = [pc EXCEPT ![p] = "report"]
            /\ pc[p] = "commit"
            /\ UNCHANGED <<status, listed, row, view, op, reply>>
        BY <2>14, <3>2 DEF Commit, ledgerVars
      <4>3. /\ todo'[p] \subseteq Planned
            /\ \A r \in todo'[p] : reply[p][r] # None
            /\ \A q \in Procs \ {p} : todo'[q] = todo[q]
        BY <4>1
      <4> QED
        BY <4>2, <4>3
    <3> QED
      BY <3>1, <3>2
  <2>15. CASE ReportRead(p)
    <3>1. PICK r \in todo[p] :
            \/ /\ Handled(p, r, "report")
               /\ UNCHANGED <<ledgerVars, listed, caps, op, reply, sent>>
            \/ Fail(p)
            \/ /\ row' = [row EXCEPT ![p] = r]
               /\ pc' = [pc EXCEPT ![p] = "complete_select"]
               /\ UNCHANGED <<ledgerVars, listed, todo, view, caps, op, reply, sent>>
      BY <2>15 DEF ReportRead
    <3>2. pc[p] = "report"
      BY <2>15 DEF ReportRead
    <3>3. CASE Handled(p, r, "report") /\ UNCHANGED <<ledgerVars, listed, caps, op, reply, sent>>
      BY <3>2, <3>3 DEF Handled, ledgerVars
    <3>4. CASE Fail(p)
      BY <3>4, OverKeeps DEF Fail, ledgerVars
    <3>5. CASE /\ row' = [row EXCEPT ![p] = r]
               /\ pc' = [pc EXCEPT ![p] = "complete_select"]
               /\ UNCHANGED <<ledgerVars, listed, todo, view, caps, op, reply, sent>>
      BY <3>2, <3>5 DEF ledgerVars
    <3> QED
      BY <3>1, <3>3, <3>4, <3>5
  <2>16. CASE RecordAgain(p)
    BY <2>16, JournalAssumption DEF RecordAgain, ledgerVars, outside
  <2>17. CASE RecordInvalid(p)
    BY <2>17, JournalAssumption DEF RecordInvalid, Fail, ledgerVars, outside,
       Over
  <2>18. CASE CompleteSelect(p)
    BY <2>18, JournalAssumption DEF CompleteSelect, ledgerVars, outside
  <2>19. CASE CompleteWrite(p)
    <3> DEFINE r == row[p]
               hash == reply[p][r]
               replay == view[p] = [status |-> "completed", response |-> hash]
               write == replay \/ Accepts(r, view[p].status, "completed")
    <3>1. CASE write
      <4>1. /\ \/ UNCHANGED status
               \/ status' = [status EXCEPT ![r] = "completed"]
            /\ todo' = [todo EXCEPT ![p] = @ \ {r}]
            /\ pc' = [pc EXCEPT ![p] = "report"]
            /\ row' = [row EXCEPT ![p] = None]
            /\ view' = [view EXCEPT ![p] = Blank]
            /\ UNCHANGED <<op, reply, listed>>
            /\ pc[p] = "complete_write"
        BY <2>19, <3>1 DEF CompleteWrite, Write, Handled
      <4>2. r \in Planned
        BY <4>1 DEF StageInv
      <4> HIDE DEF write
      <4>3. \A q \in Rows : /\ Begun(q) => Begun(q)'
                            /\ status[q] # "absent" => status'[q] # "absent"
                            /\ status'[q] = "started" => status[q] = "started"
        BY <4>1, <4>2 DEF Begun
      <4> HIDE DEF r
      <4> QED
        BY <4>1, <4>2, <4>3
    <3>2. CASE ~write
      BY <2>19, <3>2, OverKeeps DEF CompleteWrite, Fail, ledgerVars
    <3> QED
      BY <3>1, <3>2
  <2>20. CASE Finish(p)
    BY <2>20, JournalAssumption DEF Finish, ledgerVars, outside, Over
  <2> QED
    BY <1>1, <2>1, <2>2, <2>3, <2>4, <2>5, <2>6, <2>7, <2>8, <2>9, <2>10,
       <2>11, <2>12, <2>13, <2>14, <2>15, <2>16, <2>17, <2>18, <2>19,
       <2>20, <2>21 DEF ProcStep
<1>2. ASSUME NEW p \in Procs, BeginRun(p) PROVE StageInv'
  BY <1>2, JournalAssumption DEF BeginRun, Join, localVars, ledgerVars
<1>3. ASSUME NEW p \in Procs, BeginResume(p) PROVE StageInv'
  BY <1>3, JournalAssumption DEF BeginResume, Join, ledgerVars, Unfinished
<1>4. ASSUME NEW p \in Procs, Crash(p) PROVE StageInv'
  BY <1>4, JournalAssumption DEF Crash, Live, Over, ledgerVars, outside
<1>5. ASSUME NEW k \in Keys, Resolve(k) PROVE StageInv'
  BY <1>5, JournalAssumption DEF Resolve, Write, ResolvedStatus, Verdicts, localVars, outside
<1>6. ASSUME NEW k \in Keys, ChildStep(k) PROVE StageInv'
  BY <1>6, JournalAssumption DEF ChildStep, localVars, outside
<1>7. CASE UNCHANGED vars
  BY <1>7, JournalAssumption DEF vars, ledgerVars, localVars, outside
<1> QED
  BY <1>1, <1>2, <1>3, <1>4, <1>5, <1>6, <1>7 DEF Next

(* Answers stay, and a process forgets all its replies or none.             *)
LEMMA ReplyKept ==
    ASSUME IInv, UNCHANGED answers,
           UNCHANGED reply \/ \E p \in Procs : reply' = [reply EXCEPT ![p] = NoReply]
    PROVE  ReplyInv'
<1> SUFFICES ASSUME NEW q \in Procs, NEW r \in Planned, reply'[q][r] # None
             PROVE  <<r, reply'[q][r]>> \in answers'
  BY DEF ReplyInv
<1>1. reply'[q][r] = reply[q][r]
  <2>1. ASSUME NEW p \in Procs, reply' = [reply EXCEPT ![p] = NoReply]
        PROVE  reply'[q] \in {reply[q], NoReply}
    BY <2>1 DEF IInv, TypeOK
  <2> QED
    BY <2>1 DEF NoReply
<1> QED
  BY <1>1 DEF IInv, ReplyInv

(* Replies are recorded as they are given.                                 *)
LEMMA ReplyStep == IInv /\ [Next]_vars => ReplyInv'
<1> SUFFICES ASSUME IInv, [Next]_vars PROVE ReplyInv'
  OBVIOUS
<1> USE RowSets DEF IInv, TypeOK, ReplyInv
<1>1. ASSUME NEW p \in Procs, ProcStep(p) PROVE ReplyInv'
  <2>1. CASE ReconcileSelect(p)
    BY <2>1, ReplyKept DEF ReconcileSelect, ledgerVars, outside
  <2>2. CASE ReconcileWrite(p)
    BY <2>2, ReplyKept DEF ReconcileWrite, Fail, ledgerVars, outside, Over
  <2>3. CASE Reconciled(p)
    BY <2>3, ReplyKept DEF Reconciled, ledgerVars, localVars, outside, Over
  <2>4. CASE Compile(p)
    BY <2>4, ReplyKept DEF Compile, Known, ledgerVars, outside
  <2>5. CASE JournalOne(p)
    BY <2>5, ReplyKept DEF JournalOne, ledgerVars, outside
  <2>6. CASE JournalRefused(p)
    BY <2>6, ReplyKept DEF JournalRefused, Fail, ledgerVars, outside, Over
  <2>7. CASE StartSelect(p)
    BY <2>7, ReplyKept DEF StartSelect, Fail, ledgerVars, outside, Over
  <2>8. CASE StartWrite(p)
    BY <2>8, ReplyKept DEF StartWrite, Fail, ledgerVars, outside, Over
  <2>9. CASE Journaled(p)
    BY <2>9, ReplyKept DEF Journaled, ledgerVars, outside
  <2>10. CASE CallAdapter(p)
    <3>1. PICK r \in todo[p] \cap Planned :
            \/ UNCHANGED <<answers, reply>>
            \/ \E h \in Hashes \cup {None} :
                 /\ reply' = [reply EXCEPT ![p][r] = h]
                 /\ answers' = answers \cup ({<<r, h>>} \ {<<r, None>>})
      BY <2>10 DEF CallAdapter
    <3>2. CASE UNCHANGED <<answers, reply>>
      BY <3>2
    <3>3. CASE \E h \in Hashes \cup {None} :
                 /\ reply' = [reply EXCEPT ![p][r] = h]
                 /\ answers' = answers \cup ({<<r, h>>} \ {<<r, None>>})
      <4>1. PICK h \in Hashes \cup {None} :
                 /\ reply' = [reply EXCEPT ![p][r] = h]
                 /\ answers' = answers \cup ({<<r, h>>} \ {<<r, None>>})
        BY <3>3
      <4>2. r \in Planned
        BY <3>1
      <4> SUFFICES ASSUME NEW q \in Procs, NEW s \in Planned, reply'[q][s] # None
                   PROVE  <<s, reply'[q][s]>> \in answers'
        OBVIOUS
      <4>3. CASE q = p /\ s = r
        <5>1. reply'[q][s] = h
          BY <4>1, <4>2, <4>3
        <5> QED
          BY <4>1, <4>3, <5>1
      <4>4. CASE ~(q = p /\ s = r)
        <5>1. reply'[q][s] = reply[q][s]
          BY <4>1, <4>2, <4>4
        <5> QED
          BY <4>1, <5>1
      <4> QED
        BY <4>3, <4>4
    <3> QED
      BY <3>1, <3>2, <3>3
  <2>21. CASE CallUnplanned(p)
    BY <2>21, ReplyKept DEF CallUnplanned, ledgerVars
  <2>11. CASE NodeRetried(p)
    BY <2>11, ReplyKept DEF NodeRetried, ledgerVars
  <2>12. CASE NodeFails(p)
    BY <2>12, ReplyKept DEF NodeFails, Fail, ledgerVars, outside, Over
  <2>13. CASE NodeSucceeds(p)
    BY <2>13, ReplyKept DEF NodeSucceeds, ledgerVars, outside
  <2>14. CASE Commit(p)
    BY <2>14, ReplyKept DEF Commit, Fail, ledgerVars, outside, Over
  <2>15. CASE ReportRead(p)
    BY <2>15, ReplyKept DEF ReportRead, Fail, ledgerVars, outside, Over
  <2>16. CASE RecordAgain(p)
    BY <2>16, ReplyKept DEF RecordAgain, ledgerVars, outside
  <2>17. CASE RecordInvalid(p)
    BY <2>17, ReplyKept DEF RecordInvalid, Fail, ledgerVars, outside, Over
  <2>18. CASE CompleteSelect(p)
    BY <2>18, ReplyKept DEF CompleteSelect, ledgerVars, outside
  <2>19. CASE CompleteWrite(p)
    BY <2>19, ReplyKept DEF CompleteWrite, Fail, ledgerVars, Over
  <2>20. CASE Finish(p)
    BY <2>20, ReplyKept DEF Finish, ledgerVars, outside, Over
  <2> QED
    BY <1>1, <2>1, <2>2, <2>3, <2>4, <2>5, <2>6, <2>7, <2>8, <2>9, <2>10,
       <2>11, <2>12, <2>13, <2>14, <2>15, <2>16, <2>17, <2>18, <2>19,
       <2>20, <2>21 DEF ProcStep
<1>2. ASSUME NEW p \in Procs, BeginRun(p) PROVE ReplyInv'
  BY <1>2, ReplyKept DEF BeginRun, Join, localVars, ledgerVars
<1>3. ASSUME NEW p \in Procs, BeginResume(p) PROVE ReplyInv'
  BY <1>3, ReplyKept DEF BeginResume, Join, ledgerVars, Unfinished
<1>4. ASSUME NEW p \in Procs, Crash(p) PROVE ReplyInv'
  BY <1>4, ReplyKept DEF Crash, Live, Over, ledgerVars, outside
<1>5. ASSUME NEW k \in Keys, Resolve(k) PROVE ReplyInv'
  BY <1>5, ReplyKept DEF Resolve, Write, ResolvedStatus, Verdicts, localVars, outside
<1>6. ASSUME NEW k \in Keys, ChildStep(k) PROVE ReplyInv'
  BY <1>6, ReplyKept DEF ChildStep, localVars, outside
<1>7. CASE UNCHANGED vars
  BY <1>7, ReplyKept DEF vars, ledgerVars, localVars, outside
<1> QED
  BY <1>1, <1>2, <1>3, <1>4, <1>5, <1>6, <1>7 DEF Next

(* A listed row stays flagged.                                             *)
LEMMA ListStep == IInv /\ [Next]_vars => ListInv'
<1> SUFFICES ASSUME IInv, [Next]_vars PROVE ListInv'
  OBVIOUS
<1> USE RowSets DEF IInv, TypeOK, ListInv
<1>1. ASSUME NEW p \in Procs, ProcStep(p) PROVE ListInv'
  <2>1. CASE ReconcileSelect(p)
    BY <2>1 DEF ReconcileSelect, ledgerVars, outside
  <2>2. CASE ReconcileWrite(p)
    BY <2>2 DEF ReconcileWrite, Fail, ledgerVars, outside, Accepts, Write,
       Handled, Over
  <2>3. CASE Reconciled(p)
    <3>1. CASE committed
      BY <2>3, <3>1, OverKeeps DEF Reconciled, ledgerVars
    <3>2. CASE ~committed
      BY <2>3, <3>2 DEF Reconciled, ledgerVars, localVars
    <3> QED
      BY <3>1, <3>2
  <2>4. CASE Compile(p)
    BY <2>4 DEF Compile, Known, ledgerVars, outside
  <2>5. CASE JournalOne(p)
    BY <2>5 DEF JournalOne, ledgerVars, outside, Handled
  <2>6. CASE JournalRefused(p)
    BY <2>6 DEF JournalRefused, Fail, ledgerVars, outside, Over
  <2>7. CASE StartSelect(p)
    <3>1. UNCHANGED status /\ pc[p] = "start_select"
      BY <2>7 DEF StartSelect, Fail, ledgerVars
    <3>2. \/ /\ UNCHANGED <<listed, todo, row>>
             /\ pc' = [pc EXCEPT ![p] = "start_write"]
          \/ Handled(p, row[p], "journal") /\ UNCHANGED listed
          \/ Over(p)
      BY <2>7 DEF StartSelect, Fail
    <3>3. CASE Over(p)
      BY <3>1, <3>3, OverKeeps
    <3>4. CASE Handled(p, row[p], "journal") /\ UNCHANGED listed
      BY <3>1, <3>4 DEF Handled
    <3>5. CASE /\ UNCHANGED <<listed, todo, row>>
               /\ pc' = [pc EXCEPT ![p] = "start_write"]
      BY <3>1, <3>5
    <3> QED
      BY <3>2, <3>3, <3>4, <3>5
  <2>8. CASE StartWrite(p)
    <3> DEFINE r == row[p]
               free == status[r] = view[p].status /\ capsule[r] \in {None, op[p]}
    <3>1. CASE free
      <4>1. /\ status' = [status EXCEPT ![r] = "started"]
            /\ todo' = [todo EXCEPT ![p] = @ \ {r}]
            /\ pc' = [pc EXCEPT ![p] = "journal"]
            /\ row' = [row EXCEPT ![p] = None]
            /\ UNCHANGED listed
            /\ pc[p] = "start_write"
        BY <2>8, <3>1 DEF StartWrite, Write, Handled
      <4>2. r \in Planned /\ status[r] = "absent"
        BY <3>1, <4>1 DEF StageInv, RowInv, Journaling
      <4> HIDE DEF free
      <4>3. \A q \in Procs : r \notin listed[q]
        BY <4>2
      <4> HIDE DEF r
      <4> QED
        BY <4>1, <4>2, <4>3
    <3>2. CASE ~free
      BY <2>8, <3>2, OverKeeps DEF StartWrite, Fail, ledgerVars
    <3> QED
      BY <3>1, <3>2
  <2>9. CASE Journaled(p)
    BY <2>9 DEF Journaled, ledgerVars, outside
  <2>10. CASE CallAdapter(p)
    BY <2>10 DEF CallAdapter, ledgerVars
  <2>21. CASE CallUnplanned(p)
    BY <2>21 DEF CallUnplanned, ledgerVars
  <2>11. CASE NodeRetried(p)
    BY <2>11 DEF NodeRetried, ledgerVars
  <2>12. CASE NodeFails(p)
    BY <2>12 DEF NodeFails, Fail, ledgerVars, outside, Over
  <2>13. CASE NodeSucceeds(p)
    BY <2>13 DEF NodeSucceeds, ledgerVars, outside
  <2>14. CASE Commit(p)
    <3>1. CASE committed
      BY <2>14, <3>1, OverKeeps DEF Commit, Fail, ledgerVars
    <3>2. CASE ~committed
      <4>1. PICK records \in SUBSET {r \in Planned : reply[p][r] # None} :
              todo' = [todo EXCEPT ![p] = records]
        BY <2>14, <3>2 DEF Commit
      <4>2. /\ pc' = [pc EXCEPT ![p] = "report"]
            /\ pc[p] = "commit"
            /\ UNCHANGED <<status, listed, row, view, op, reply>>
        BY <2>14, <3>2 DEF Commit, ledgerVars
      <4>3. /\ todo'[p] \subseteq Planned
            /\ \A r \in todo'[p] : reply[p][r] # None
            /\ \A q \in Procs \ {p} : todo'[q] = todo[q]
        BY <4>1
      <4> QED
        BY <4>2, <4>3
    <3> QED
      BY <3>1, <3>2
  <2>15. CASE ReportRead(p)
    <3>1. PICK r \in todo[p] :
            \/ /\ Handled(p, r, "report")
               /\ UNCHANGED <<ledgerVars, listed, caps, op, reply, sent>>
            \/ Fail(p)
            \/ /\ row' = [row EXCEPT ![p] = r]
               /\ pc' = [pc EXCEPT ![p] = "complete_select"]
               /\ UNCHANGED <<ledgerVars, listed, todo, view, caps, op, reply, sent>>
      BY <2>15 DEF ReportRead
    <3>2. pc[p] = "report"
      BY <2>15 DEF ReportRead
    <3>3. CASE Handled(p, r, "report") /\ UNCHANGED <<ledgerVars, listed, caps, op, reply, sent>>
      BY <3>2, <3>3 DEF Handled, ledgerVars
    <3>4. CASE Fail(p)
      BY <3>4, OverKeeps DEF Fail, ledgerVars
    <3>5. CASE /\ row' = [row EXCEPT ![p] = r]
               /\ pc' = [pc EXCEPT ![p] = "complete_select"]
               /\ UNCHANGED <<ledgerVars, listed, todo, view, caps, op, reply, sent>>
      BY <3>2, <3>5 DEF ledgerVars
    <3> QED
      BY <3>1, <3>3, <3>4, <3>5
  <2>16. CASE RecordAgain(p)
    BY <2>16 DEF RecordAgain, ledgerVars, outside
  <2>17. CASE RecordInvalid(p)
    BY <2>17 DEF RecordInvalid, Fail, ledgerVars, outside, Over
  <2>18. CASE CompleteSelect(p)
    BY <2>18 DEF CompleteSelect, ledgerVars, outside
  <2>19. CASE CompleteWrite(p)
    <3> DEFINE r == row[p]
               hash == reply[p][r]
               replay == view[p] = [status |-> "completed", response |-> hash]
               write == replay \/ Accepts(r, view[p].status, "completed")
    <3>1. CASE write
      <4>1. /\ \/ UNCHANGED status
               \/ status' = [status EXCEPT ![r] = "completed"]
            /\ todo' = [todo EXCEPT ![p] = @ \ {r}]
            /\ pc' = [pc EXCEPT ![p] = "report"]
            /\ row' = [row EXCEPT ![p] = None]
            /\ view' = [view EXCEPT ![p] = Blank]
            /\ UNCHANGED <<op, reply, listed>>
            /\ pc[p] = "complete_write"
        BY <2>19, <3>1 DEF CompleteWrite, Write, Handled
      <4>2. r \in Planned
        BY <4>1 DEF StageInv, Reporting
      <4> HIDE DEF write
      <4>3. \A q \in Rows : /\ Begun(q) => Begun(q)'
                            /\ status[q] # "absent" => status'[q] # "absent"
                            /\ status'[q] = "started" => status[q] = "started"
        BY <4>1, <4>2 DEF Begun
      <4> HIDE DEF r
      <4> QED
        BY <4>1, <4>2, <4>3
    <3>2. CASE ~write
      BY <2>19, <3>2, OverKeeps DEF CompleteWrite, Fail, ledgerVars
    <3> QED
      BY <3>1, <3>2
  <2>20. CASE Finish(p)
    BY <2>20 DEF Finish, ledgerVars, outside, Over
  <2> QED
    BY <1>1, <2>1, <2>2, <2>3, <2>4, <2>5, <2>6, <2>7, <2>8, <2>9, <2>10,
       <2>11, <2>12, <2>13, <2>14, <2>15, <2>16, <2>17, <2>18, <2>19,
       <2>20, <2>21 DEF ProcStep
<1>2. ASSUME NEW p \in Procs, BeginRun(p) PROVE ListInv'
  BY <1>2 DEF BeginRun, Join, localVars, ledgerVars
<1>3. ASSUME NEW p \in Procs, BeginResume(p) PROVE ListInv'
  <2>1. /\ listed'[p] = Unfinished /\ todo'[p] = Unfinished
        /\ pc'[p] = "reconcile" /\ row'[p] = row[p] /\ UNCHANGED status
        /\ \A q \in Procs \ {p} : /\ listed'[q] = listed[q] /\ todo'[q] = todo[q]
                                 /\ pc'[q] = pc[q] /\ row'[q] = row[q]
    BY <1>3 DEF BeginResume, ledgerVars
  <2>2. row[p] = None
    BY <1>3 DEF BeginResume
  <2>3. \A r \in Unfinished : status[r] # "absent"
    BY DEF Unfinished
  <2> DEFINE Part(q) ==
               /\ pc'[q] = "idle" => row'[q] = None
               /\ pc'[q] = "reconcile" => todo'[q] \subseteq listed'[q]
               /\ pc'[q] = "reconcile" => row'[q] \in todo'[q] \cup {None}
               /\ \A r \in listed'[q] :
                     /\ status'[r] # "absent"
                     /\ \/ pc'[q] = "reconcile" /\ r \in todo'[q]
                        \/ r \in Planned /\ status'[r] # "started"
  <2>4. Part(p)
    BY <2>1, <2>2, <2>3
  <2>5. ASSUME NEW q \in Procs \ {p} PROVE Part(q)
    BY <2>1, <2>5
  <2>6. \A q \in Procs : Part(q)
    BY <2>4, <2>5
  <2> QED
    BY <2>6 DEF ListInv
<1>4. ASSUME NEW p \in Procs, Crash(p) PROVE ListInv'
  BY <1>4 DEF Crash, Live, Over, ledgerVars, outside
<1>5. ASSUME NEW k \in Keys, Resolve(k) PROVE ListInv'
  BY <1>5 DEF Resolve, Write, ResolvedStatus, Verdicts, localVars, outside
<1>6. ASSUME NEW k \in Keys, ChildStep(k) PROVE ListInv'
  BY <1>6 DEF ChildStep, localVars, outside
<1>7. CASE UNCHANGED vars
  BY <1>7 DEF vars, ledgerVars, localVars, outside
<1> QED
  BY <1>1, <1>2, <1>3, <1>4, <1>5, <1>6, <1>7 DEF Next

(* Completions are observed.                                               *)
LEMMA ObservedStep == IInv /\ [Next]_vars => CompletedObserved'
<1> SUFFICES ASSUME IInv, [Next]_vars PROVE CompletedObserved'
  OBVIOUS
<1> USE RowSets DEF IInv, TypeOK, CompletedObserved
<1>1. ASSUME NEW p \in Procs, ProcStep(p) PROVE CompletedObserved'
  <2>1. CASE ReconcileSelect(p) \/ Reconciled(p) \/ Compile(p)
           \/ JournalOne(p) \/ JournalRefused(p) \/ StartSelect(p)
           \/ Journaled(p) \/ NodeRetried(p) \/ NodeFails(p)
           \/ NodeSucceeds(p) \/ Commit(p) \/ ReportRead(p)
           \/ RecordAgain(p) \/ RecordInvalid(p) \/ CompleteSelect(p)
           \/ Finish(p) \/ CallUnplanned(p)
    BY <2>1 DEF CallUnplanned, ReconcileSelect, ledgerVars, outside, Reconciled, localVars,
       Over, Compile, Known, JournalOne, Handled, JournalRefused, Fail,
       StartSelect, Journaled, NodeRetried, NodeFails, NodeSucceeds, Commit,
       ReportRead, RecordAgain, RecordInvalid, CompleteSelect, Finish
  <2>2. CASE ReconcileWrite(p)
    BY <2>2 DEF ReconcileWrite, Fail, ledgerVars, outside, Accepts, Write,
       Handled, Over
  <2>3. CASE StartWrite(p)
    BY <2>3 DEF StartWrite, Fail, ledgerVars, outside, Write, Handled, Over
  <2>4. CASE CallAdapter(p)
    BY <2>4 DEF CallAdapter, ledgerVars
  <2>5. CASE CompleteWrite(p)
    BY <2>5 DEF CompleteWrite, Fail, ledgerVars, Accepts, Write, Handled,
       Over, StageInv, Reporting, ReplyInv
  <2> QED
    BY <1>1, <2>1, <2>2, <2>3, <2>4, <2>5 DEF ProcStep
<1>2. ASSUME NEW p \in Procs, BeginRun(p) PROVE CompletedObserved'
  BY <1>2 DEF BeginRun, Join, localVars, ledgerVars
<1>3. ASSUME NEW p \in Procs, BeginResume(p) PROVE CompletedObserved'
  BY <1>3 DEF BeginResume, Join, ledgerVars, Unfinished
<1>4. ASSUME NEW p \in Procs, Crash(p) PROVE CompletedObserved'
  BY <1>4 DEF Crash, Live, Over, ledgerVars, outside
<1>5. ASSUME NEW k \in Keys, Resolve(k) PROVE CompletedObserved'
  BY <1>5 DEF Resolve, Write, ResolvedStatus, Verdicts, localVars, outside
<1>6. ASSUME NEW k \in Keys, ChildStep(k) PROVE CompletedObserved'
  BY <1>6 DEF ChildStep, localVars, outside
<1>7. CASE UNCHANGED vars
  BY <1>7 DEF vars, ledgerVars, localVars, outside
<1> QED
  BY <1>1, <1>2, <1>3, <1>4, <1>5, <1>6, <1>7 DEF Next

LEMMA InitInv == Init => IInv
<1> SUFFICES ASSUME Init PROVE IInv
  OBVIOUS
<1> USE RowSets DEF Init
<1>1. TypeOK
  <2>1. Blank \in View /\ NoReply \in [Planned -> Hashes \cup {None}]
    BY DEF View, Blank, NoReply, RowStatus
  <2>2. 0 \in 0..2 /\ 0 \in 0..MaxRetries
    BY JournalAssumption
  <2>3. "absent" \in RowStatus /\ "idle" \in Locations
    BY DEF RowStatus, Locations
  <2>4. view \in [Procs -> View] /\ reply \in [Procs -> [Planned -> Hashes \cup {None}]]
    BY <2>1
  <2> QED
    BY <2>2, <2>3, <2>4 DEF TypeOK
<1>2. RowInv
  BY DEF RowInv, Begun
<1>3. StageInv
  BY DEF StageInv, Journaling, Invoked, Reporting
<1>4. ReplyInv /\ ListInv
  BY DEF ReplyInv, ListInv, NoReply
<1>5. CompletedObserved
  BY DEF CompletedObserved
<1>6. WireInv
  BY DEF WireInv
<1> QED
  BY <1>1, <1>2, <1>3, <1>4, <1>5, <1>6 DEF IInv

(* The inductive invariant holds in every reachable state.                  *)
THEOREM Invariant == Spec => []IInv
<1>1. IInv /\ [Next]_vars => IInv'
  BY TypeStep, RowStep, WireStep, StageStep, ReplyStep, ListStep, ObservedStep DEF IInv
<1> QED
  BY <1>1, InitInv, PTL DEF Spec

(* Ledger rows, locals and records always have their types: in particular   *)
(* no status outside side_effect_ledger's vocabulary is ever written.       *)
THEOREM TypeCorrect == Spec => []TypeOK
<1>1. IInv => TypeOK
  BY DEF IInv
<1> QED
  BY <1>1, Invariant, PTL

(* _journal_planned_side_effects runs before _invoke_node, and an           *)
(* OrdinaryDispatchGuard looks for the capsule of what it is asked to send: *)
(* what gets through a guard is in a capsule, and a planned operation is    *)
(* called, guard or not, only when its row is 'started' or further.         *)
THEOREM CallsAreJournaled == Spec => []WriteAhead
<1>1. IInv => WriteAhead
  BY DEF IInv, WriteAhead, WireInv, RowInv, Begun
<1> QED
  BY <1>1, Invariant, PTL

(* _reconcile_side_effects_on_resume leaves no listed effect in flight.     *)
THEOREM LostEffectsAreFlagged == Spec => []LostEffectsFlagged
<1>1. IInv => LostEffectsFlagged
  BY DEF IInv, LostEffectsFlagged, ListInv
<1> QED
  BY <1>1, Invariant, PTL

(* _complete_reported_side_effect and the operator's resolution are the     *)
(* only ways to 'completed', and both have seen the outcome.                *)
THEOREM CompletionsAreObserved == Spec => []CompletedObserved
<1>1. IInv => CompletedObserved
  BY DEF IInv
<1> QED
  BY <1>1, Invariant, PTL

(* start_side_effect_with_capsule never replaces a replay capsule, and no   *)
(* row starts without one.                                                  *)
THEOREM CapsulesArePermanent == Spec => CapsuleKept
<1>1. IInv /\ IInv' /\ [Next]_vars =>
        [\A r \in Planned :
            /\ capsule[r] # None => capsule'[r] = capsule[r]
            /\ status'[r] \notin {"absent", "planned"} => capsule'[r] # None]_vars
  <2> SUFFICES ASSUME IInv, IInv', [Next]_vars, NEW r \in Planned
               PROVE  /\ capsule[r] # None => capsule'[r] = capsule[r]
                      /\ status'[r] \notin {"absent", "planned"} => capsule'[r] # None
    OBVIOUS
  <2>1. status'[r] \notin {"absent", "planned"} => capsule'[r] # None
    BY DEF IInv, RowInv, Begun
  <2> QED
    BY <2>1, CapsuleStays
<1> QED
  BY <1>1, Invariant, PTL DEF Spec, CapsuleKept

-----------------------------------------------------------------------------
(* Processes that never overlap.  Then nobody but the process itself and    *)
(* the operator writes the row a process has read, and the operator writes  *)
(* 'unknown' rows only: what was read as 'started' still is.                *)

Stage(p) ==
    /\ pc[p] = "reconcile" => \A r \in todo[p] \cap Planned : status[r] = "started"
    /\ pc[p] \in {"complete_select", "complete_write"} => status[row[p]] = "started"
    /\ pc[p] = "complete_write" => view[p].status = "started"

OneLive == \A p, q \in Procs : Live(p) /\ Live(q) => p = q

Agreement == TraceMatchesLedger /\ DecisionStands

SoloInv ==
    /\ \A e \in completions : e[1] \in Planned
    /\ solo => OneLive /\ (\A p \in Procs : Stage(p)) /\ Agreement

(* A step of process p alone.                                               *)
Acts(p) ==
    /\ Live(p) /\ solo' = solo
    /\ \A q \in Procs \ {p} : pc'[q] = pc[q]

LEMMA ActsAlone ==
    ASSUME SoloInv, NEW p \in Procs, Acts(p),
           \A e \in completions' : e[1] \in Planned,
           solo => Stage(p)' /\ Agreement'
    PROVE  SoloInv'
<1> SUFFICES ASSUME solo
             PROVE  OneLive' /\ (\A q \in Procs : Stage(q)') /\ Agreement'
  BY DEF SoloInv, Acts
<1>1. \A q \in Procs \ {p} : ~Live(q) /\ pc'[q] = pc[q]
  BY DEF SoloInv, OneLive, Acts
<1>2. OneLive'
  BY <1>1 DEF OneLive, Live
<1>3. \A q \in Procs \ {p} : Stage(q)'
  BY <1>1 DEF Stage, Live
<1> QED
  BY <1>2, <1>3

LEMMA AgreementRests ==
    ASSUME Agreement, UNCHANGED <<status, response, decisions, completions>>
    PROVE  Agreement'
BY DEF Agreement, TraceMatchesLedger, DecisionStands

(* A row that is in flight has neither a completion nor a decision, so it   *)
(* may be written.                                                          *)
LEMMA InFlight ==
    ASSUME TypeOK, Agreement, NEW r \in Planned, status[r] \in {"absent", "started"}
    PROVE  decisions[r] = {} /\ \A e \in completions : e[1] # r
BY RowSets DEF TypeOK, Agreement, TraceMatchesLedger, DecisionStands, ResolvedStatus,
   Verdicts

LEMMA InFlightWritten ==
    ASSUME TypeOK, Agreement, NEW r \in Planned, status[r] \in {"absent", "started"},
           NEW new, NEW hash, Write(r, new, hash), UNCHANGED decisions,
           \/ completions' = completions
           \/ new = "completed" /\ completions' = completions \cup {<<r, hash>>}
    PROVE  Agreement'
<1>1. decisions[r] = {} /\ \A e \in completions : e[1] # r
  BY InFlight
<1>2. /\ r \in Rows /\ completions \subseteq Rows \X Hashes
      /\ status'[r] = new /\ response'[r] = hash
      /\ \A q \in Rows : q # r => status'[q] = status[q] /\ response'[q] = response[q]
  BY RowSets DEF TypeOK, Write
<1>3. DecisionStands'
  BY <1>1, <1>2, RowSets DEF Agreement, DecisionStands
<1>4. \A e \in completions : status'[e[1]] = "completed" /\ response'[e[1]] = e[2]
  <2> SUFFICES ASSUME NEW e \in completions
               PROVE  status'[e[1]] = "completed" /\ response'[e[1]] = e[2]
    OBVIOUS
  <2>1. e[1] \in Rows /\ e[1] # r
    BY <1>1, <1>2
  <2>2. status[e[1]] = "completed" /\ response[e[1]] = e[2]
    BY DEF Agreement, TraceMatchesLedger
  <2> QED
    BY <1>2, <2>1, <2>2
<1>5. TraceMatchesLedger'
  BY <1>2, <1>4 DEF TraceMatchesLedger
<1> QED
  BY <1>3, <1>5 DEF Agreement

Watched == {"reconcile", "complete_select", "complete_write"}

LEMMA ProcActs ==
    ASSUME TypeOK, NEW p \in Procs, ProcStep(p)
    PROVE  Acts(p) /\ UNCHANGED decisions
<1>1. Live(p)
  BY DEF ProcStep, Live, ReconcileSelect, ReconcileWrite, Reconciled, Compile,
     JournalOne, JournalRefused, StartSelect, StartWrite, Journaled, CallAdapter, CallUnplanned,
     NodeRetried, NodeFails, NodeSucceeds, Commit, ReportRead, RecordAgain,
     RecordInvalid, CompleteSelect, CompleteWrite, Finish
<1>2. UNCHANGED <<solo, decisions>>
  BY DEF ProcStep, ReconcileSelect, ReconcileWrite, Reconciled, Compile,
     JournalOne, JournalRefused, StartSelect, StartWrite, Journaled, CallAdapter, CallUnplanned,
     NodeRetried, NodeFails, NodeSucceeds, Commit, ReportRead, RecordAgain,
     RecordInvalid, CompleteSelect, CompleteWrite, Finish, Fail, ledgerVars, outside
<1>3. UNCHANGED pc \/ \E l \in Locations : pc' = [pc EXCEPT ![p] = l]
  BY DEF ProcStep, ReconcileSelect, ReconcileWrite, Reconciled, Compile,
     JournalOne, JournalRefused, StartSelect, StartWrite, Journaled, CallAdapter, CallUnplanned,
     NodeRetried, NodeFails, NodeSucceeds, Commit, ReportRead, RecordAgain,
     RecordInvalid, CompleteSelect, CompleteWrite, Finish, Fail, Over, Handled, Locations
<1>4. \A q \in Procs \ {p} : pc'[q] = pc[q]
  BY <1>3 DEF TypeOK
<1> QED
  BY <1>1, <1>2, <1>4 DEF Acts

LEMMA QuietAgrees ==
    ASSUME IInv, SoloInv, NEW p \in Procs, ProcStep(p),
           UNCHANGED <<status, response, completions>>, solo => Stage(p)'
    PROVE  SoloInv'
<1>1. Acts(p) /\ UNCHANGED decisions
  BY ProcActs DEF IInv
<1>2. solo => Agreement'
  BY <1>1, AgreementRests DEF SoloInv
<1> QED
  BY <1>1, <1>2, ActsAlone DEF SoloInv

(* Steps that leave the ledger alone and bring no row to be written.        *)
LEMMA IdleSteps ==
    ASSUME IInv, SoloInv, NEW p \in Procs,
           \/ Reconciled(p) \/ Compile(p) \/ JournalOne(p) \/ JournalRefused(p)
           \/ StartSelect(p) \/ Journaled(p) \/ CallAdapter(p) \/ CallUnplanned(p)
           \/ NodeRetried(p)
           \/ NodeFails(p) \/ NodeSucceeds(p) \/ Commit(p) \/ RecordAgain(p)
           \/ RecordInvalid(p) \/ Finish(p)
    PROVE  SoloInv'
<1>1. ProcStep(p)
  BY DEF ProcStep
<1>2. UNCHANGED <<status, response, completions>>
  BY DEF Reconciled, Compile, JournalOne, JournalRefused, StartSelect, Journaled,
     CallAdapter, CallUnplanned, NodeRetried, NodeFails, NodeSucceeds, Commit, RecordAgain,
     RecordInvalid, Finish, Fail, ledgerVars, outside
<1>3. \E l \in Locations \ Watched : pc' = [pc EXCEPT ![p] = l] \/ (pc' = pc /\ pc[p] = l)
  BY DEF Reconciled, Compile, JournalOne, JournalRefused, StartSelect, Journaled,
     CallAdapter, CallUnplanned, NodeRetried, NodeFails, NodeSucceeds, Commit, RecordAgain,
     RecordInvalid, Finish, Fail, Over, Handled, Locations, Watched
<1>4. pc'[p] \notin Watched
  BY <1>3 DEF IInv, TypeOK
<1>5. Stage(p)'
  BY <1>4 DEF Stage, Watched
<1> QED
  BY <1>1, <1>2, <1>5, QuietAgrees

LEMMA ReadingSteps ==
    ASSUME IInv, SoloInv, NEW p \in Procs,
           ReconcileSelect(p) \/ ReportRead(p) \/ CompleteSelect(p)
    PROVE  SoloInv'
<1>1. ProcStep(p)
  BY DEF ProcStep
<1>2. UNCHANGED <<status, response, completions>>
  BY DEF ReconcileSelect, ReportRead, CompleteSelect, Fail, ledgerVars, outside
<1>3. solo => Stage(p)'
  <2> SUFFICES ASSUME solo PROVE Stage(p)'
    OBVIOUS
  <2>1. Stage(p)
    BY DEF SoloInv
  <2>2. CASE ReconcileSelect(p)
    BY <1>2, <2>1, <2>2 DEF ReconcileSelect, Stage
  <2>3. CASE CompleteSelect(p)
    BY <1>2, <2>1, <2>3 DEF CompleteSelect, Stage, IInv, TypeOK
  <2>4. CASE ReportRead(p)
    <3>1. PICK r \in todo[p] :
             \/ pc'[p] \notin Watched
             \/ status[r] = "started" /\ row'[p] = r /\ pc'[p] = "complete_select"
      BY <2>4 DEF ReportRead, Handled, Fail, Over, Watched, IInv, TypeOK
    <3> QED
      BY <1>2, <3>1 DEF Stage, Watched
  <2> QED
    BY <2>2, <2>3, <2>4
<1> QED
  BY <1>1, <1>2, <1>3, QuietAgrees

LEMMA ReconcileWriteAgrees ==
    ASSUME IInv, SoloInv, NEW p \in Procs, ReconcileWrite(p)
    PROVE  SoloInv'
<1>1. ProcStep(p)
  BY DEF ProcStep
<1>2. Acts(p) /\ UNCHANGED decisions /\ completions' = completions
  BY <1>1, ProcActs DEF IInv, ReconcileWrite, outside
<1>3. CASE Accepts(row[p], view[p].status, "unknown")
  <2> DEFINE r == row[p]
  <2>1. /\ r \in todo[p] /\ r \in Planned /\ pc[p] = "reconcile"
        /\ Write(r, "unknown", None) /\ todo' = [todo EXCEPT ![p] = @ \ {r}]
    BY <1>3, RowSets DEF IInv, TypeOK, ListInv, ReconcileWrite, Accepts, Handled
  <2> HIDE DEF r
  <2>2. solo => Agreement'
    <3>1. solo => Agreement /\ status[r] = "started"
      BY <2>1 DEF SoloInv, Stage
    <3> QED
      BY <1>2, <2>1, <3>1, InFlightWritten DEF IInv
  <2>3. solo => Stage(p)'
    <3>1. /\ todo'[p] = todo[p] \ {r} /\ pc'[p] = "reconcile"
          /\ \A q \in Rows : q # r => status'[q] = status[q]
      BY <1>3, <2>1 DEF IInv, TypeOK, ReconcileWrite, Handled, Write
    <3>2. solo => \A q \in todo[p] \cap Planned : status[q] = "started"
      BY <2>1 DEF SoloInv, Stage
    <3> QED
      BY <3>1, <3>2, RowSets DEF Stage
  <2> QED
    BY <1>2, <2>2, <2>3, ActsAlone DEF SoloInv
<1>4. CASE ~Accepts(row[p], view[p].status, "unknown")
  <2>1. UNCHANGED <<status, response>> /\ pc'[p] = "over"
    BY <1>4 DEF ReconcileWrite, Fail, Over, ledgerVars, IInv, TypeOK
  <2>2. Stage(p)'
    BY <2>1 DEF Stage
  <2> QED
    BY <1>1, <1>2, <2>1, <2>2, QuietAgrees
<1> QED
  BY <1>3, <1>4

LEMMA StartWriteAgrees ==
    ASSUME IInv, SoloInv, NEW p \in Procs, StartWrite(p)
    PROVE  SoloInv'
<1> DEFINE r == row[p]
           free == status[r] = view[p].status /\ capsule[r] \in {None, op[p]}
<1>1. ProcStep(p)
  BY DEF ProcStep
<1>2. Acts(p) /\ UNCHANGED decisions /\ completions' = completions
  BY <1>1, ProcActs DEF IInv, StartWrite, outside
<1>3. pc'[p] \notin Watched
  BY DEF StartWrite, Handled, Fail, Over, Watched, IInv, TypeOK
<1>4. Stage(p)'
  BY <1>3 DEF Stage, Watched
<1>5. CASE free
  <2> DEFINE h == response[r]
  <2>1. r \in Planned /\ status[r] = "absent" /\ Write(r, "started", h)
    BY <1>5 DEF IInv, StartWrite, StageInv, RowInv, Journaling
  <2> HIDE DEF r, h
  <2>2. solo => Agreement'
    BY <1>2, <2>1, InFlightWritten DEF IInv, SoloInv
  <2> QED
    BY <1>2, <1>4, <2>2, ActsAlone DEF SoloInv
<1>6. CASE ~free
  <2>1. UNCHANGED <<status, response>>
    BY <1>6 DEF StartWrite, Fail, ledgerVars
  <2> QED
    BY <1>1, <1>2, <1>4, <2>1, QuietAgrees
<1> QED
  BY <1>5, <1>6

LEMMA CompleteWriteAgrees ==
    ASSUME IInv, SoloInv, NEW p \in Procs, CompleteWrite(p)
    PROVE  SoloInv'
<1> DEFINE r == row[p]
           hash == reply[p][r]
           replay == view[p] = [status |-> "completed", response |-> hash]
           write == replay \/ Accepts(r, view[p].status, "completed")
<1>1. ProcStep(p)
  BY DEF ProcStep
<1>2. Acts(p) /\ UNCHANGED decisions
  BY <1>1, ProcActs DEF IInv
<1>3. pc'[p] \notin Watched
  BY DEF CompleteWrite, Handled, Fail, Over, Watched, IInv, TypeOK
<1>4. Stage(p)'
  BY <1>3 DEF Stage, Watched
<1>5. r \in Planned /\ pc[p] = "complete_write"
  BY DEF IInv, CompleteWrite, StageInv, Reporting
<1>6. CASE write
  <2>1. /\ completions' = completions \cup {<<r, hash>>}
        /\ ~replay => Write(r, "completed", hash)
    BY <1>6 DEF CompleteWrite
  <2>2. solo => status[r] = "started" /\ ~replay /\ Agreement
    BY <1>5 DEF SoloInv, Stage
  <2>3. \A e \in completions' : e[1] \in Planned
    BY <1>5, <2>1 DEF SoloInv
  <2> HIDE DEF r, hash, replay
  <2>4. solo => Agreement'
    BY <1>2, <1>5, <2>1, <2>2, InFlightWritten DEF IInv
  <2> QED
    BY <1>2, <1>4, <2>3, <2>4, ActsAlone
<1>7. CASE ~write
  <2>1. UNCHANGED <<status, response, completions>>
    BY <1>7 DEF CompleteWrite, Fail, ledgerVars
  <2> QED
    BY <1>1, <1>4, <2>1, QuietAgrees
<1> QED
  BY <1>6, <1>7

(* A process begins, or ends, or somebody else writes.                      *)
LEMMA BeginAgrees ==
    ASSUME IInv, SoloInv, NEW p \in Procs, BeginRun(p) \/ BeginResume(p)
    PROVE  SoloInv'
<1>1. /\ UNCHANGED <<status, response, decisions, completions>>
      /\ solo' = (solo /\ \A q \in Procs \ {p} : ~Live(q))
      /\ \A q \in Procs \ {p} : pc'[q] = pc[q]
      /\ pc'[p] # "compile" => pc'[p] = "reconcile" /\ todo'[p] = Unfinished
  BY DEF BeginRun, BeginResume, Join, ledgerVars, IInv, TypeOK
<1> SUFFICES ASSUME solo'
             PROVE  OneLive' /\ (\A q \in Procs : Stage(q)') /\ Agreement'
  BY <1>1 DEF SoloInv
<1>2. solo /\ \A q \in Procs \ {p} : ~Live(q)
  BY <1>1
<1>3. OneLive'
  BY <1>1, <1>2 DEF OneLive, Live
<1>4. \A q \in Procs \ {p} : Stage(q)'
  BY <1>1, <1>2 DEF Stage, Live
<1>5. Stage(p)'
  BY <1>1 DEF Stage, Unfinished, IInv, RowInv
<1>6. Agreement'
  BY <1>1, <1>2, AgreementRests DEF SoloInv
<1> QED
  BY <1>3, <1>4, <1>5, <1>6

LEMMA CrashAgrees ==
    ASSUME IInv, SoloInv, NEW p \in Procs, Crash(p)
    PROVE  SoloInv'
<1>1. /\ Acts(p) /\ pc'[p] = "over"
      /\ UNCHANGED <<status, response, decisions, completions>>
  BY DEF Crash, Over, Acts, ledgerVars, outside, IInv, TypeOK
<1>2. Stage(p)'
  BY <1>1 DEF Stage
<1>3. solo => Agreement'
  BY <1>1, AgreementRests DEF SoloInv
<1> QED
  BY <1>1, <1>2, <1>3, ActsAlone DEF SoloInv

(* A write to a row no process counts on leaves the stages as they are.     *)
LEMMA StagesRest ==
    ASSUME SoloInv, UNCHANGED <<pc, todo, row, view, completions, solo>>,
           \A r \in Rows : status[r] = "started" /\ r \in Planned => status'[r] = "started",
           \A p \in Procs : pc[p] \in {"complete_select", "complete_write"}
               => row[p] \in Planned,
           solo => Agreement'
    PROVE  SoloInv'
<1> SUFFICES ASSUME solo
             PROVE  OneLive' /\ (\A q \in Procs : Stage(q)') /\ Agreement'
  BY DEF SoloInv
<1>1. OneLive'
  BY DEF SoloInv, OneLive, Live
<1>2. \A q \in Procs : Stage(q)'
  BY RowSets DEF SoloInv, Stage
<1> QED
  BY <1>1, <1>2

LEMMA ResolveAgrees ==
    ASSUME IInv, SoloInv, NEW k \in Keys, Resolve(k)
    PROVE  SoloInv'
<1> DEFINE r == Row(k)
<1>1. r \in Planned /\ r \in Rows /\ status[r] = "unknown"
  BY RowSets DEF Resolve
<1>2. PICK v \in Verdicts : /\ decisions' = [decisions EXCEPT ![r] = @ \cup {v}]
                            /\ Write(r, ResolvedStatus(v), None)
  BY DEF Resolve
<1> HIDE DEF r
<1>3. /\ status'[r] = ResolvedStatus(v) /\ v \in decisions'[r]
      /\ \A q \in Rows : q # r => /\ status'[q] = status[q] /\ response'[q] = response[q]
                                  /\ decisions'[q] = decisions[q]
  BY <1>1, <1>2 DEF IInv, TypeOK, Write
<1>4. UNCHANGED <<pc, todo, row, view, completions, solo>>
  BY DEF Resolve, localVars, outside
<1>5. solo => Agreement'
  <2> SUFFICES ASSUME solo PROVE Agreement'
    OBVIOUS
  <2>1. DecisionStands'
    BY <1>3, RowSets DEF SoloInv, Agreement, DecisionStands
  <2>2. ASSUME NEW e \in completions
        PROVE  status'[e[1]] = "completed" /\ response'[e[1]] = e[2]
    <3>1. status[e[1]] = "completed" /\ response[e[1]] = e[2] /\ e[1] \in Rows
      BY RowSets DEF SoloInv, Agreement, TraceMatchesLedger
    <3>2. e[1] # r
      BY <1>1, <3>1
    <3> QED
      BY <1>3, <3>1, <3>2
  <2>3. TraceMatchesLedger'
    BY <1>4, <2>2 DEF TraceMatchesLedger
  <2> QED
    BY <2>1, <2>3 DEF Agreement
<1>6. \A q \in Rows : status[q] = "started" /\ q \in Planned => status'[q] = "started"
  BY <1>1, <1>3
<1>7. \A p \in Procs : pc[p] \in {"complete_select", "complete_write"} => row[p] \in Planned
  BY DEF IInv, StageInv, Reporting
<1> QED
  BY <1>4, <1>5, <1>6, <1>7, StagesRest

LEMMA ChildAgrees ==
    ASSUME IInv, SoloInv, NEW k \in Keys, ChildStep(k)
    PROVE  SoloInv'
<1>1. \A q \in Planned : q \in Rows /\ q # Child(k)
  BY RowSets
<1>2. \A q \in Planned : status'[q] = status[q]
  BY <1>1 DEF ChildStep, IInv, TypeOK
<1>3. UNCHANGED <<pc, todo, row, view, completions, solo, response, decisions>>
  BY DEF ChildStep, localVars, outside
<1>4. solo => Agreement'
  BY <1>2, <1>3 DEF SoloInv, Agreement, TraceMatchesLedger, DecisionStands
<1>5. \A p \in Procs : pc[p] \in {"complete_select", "complete_write"} => row[p] \in Planned
  BY DEF IInv, StageInv, Reporting
<1> QED
  BY <1>2, <1>3, <1>4, <1>5, StagesRest

LEMMA SoloStep ==
    ASSUME IInv, SoloInv, [Next]_vars
    PROVE  SoloInv'
<1>1. ASSUME NEW p \in Procs, ProcStep(p) PROVE SoloInv'
  BY <1>1, IdleSteps, ReadingSteps, ReconcileWriteAgrees, StartWriteAgrees,
     CompleteWriteAgrees DEF ProcStep
<1>2. CASE UNCHANGED vars
  <2>1. UNCHANGED <<pc, todo, row, view, completions, solo, status, response, decisions>>
    BY <1>2 DEF vars, ledgerVars, localVars, outside
  <2>2. solo => Agreement'
    BY <2>1, AgreementRests DEF SoloInv
  <2>3. \A p \in Procs : pc[p] \in {"complete_select", "complete_write"} => row[p] \in Planned
    BY DEF IInv, StageInv, Reporting
  <2> QED
    BY <2>1, <2>2, <2>3, StagesRest
<1> QED
  BY <1>1, <1>2, BeginAgrees, CrashAgrees, ResolveAgrees, ChildAgrees DEF Next

(* As long as processes do not overlap, the SIDE_EFFECT_COMPLETED events of *)
(* the traces, the ledger and the operator's decisions agree, through any   *)
(* number of crashes, resumes and resolutions: the SELECT and the UPDATE of *)
(* update_side_effect_status are then as good as one step.                  *)
THEOREM SoloRunsAgree == Spec => []SoloAgreement
<1>1. Init => SoloInv
  BY RowSets DEF Init, SoloInv, OneLive, Live, Stage, Agreement, TraceMatchesLedger,
     DecisionStands
<1>2. IInv /\ SoloInv /\ [Next]_vars => SoloInv'
  BY SoloStep
<1>3. SoloInv => SoloAgreement
  BY DEF SoloInv, Agreement, SoloAgreement
<1> QED
  BY <1>1, <1>2, <1>3, Invariant, PTL DEF Spec

-----------------------------------------------------------------------------
=============================================================================
