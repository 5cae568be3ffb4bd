-------------------------- MODULE DeploymentProofs --------------------------
(***************************************************************************)
(* Proofs about Deployment, for every set of commands, digests and         *)
(* manifests and every number of polls.  Two inductive invariants, one for *)
(* what a command knows of its own tasks, one for the shared history.      *)
(***************************************************************************)
EXTENDS Deployment, WellFoundedInduction, TLAPS

(* Where a command may have been accepted.                                  *)
Concluded == {"receipt", "load", "ended"} \cup Saving

(* The main task has ended as the manifest of a mutation demands.           *)
TaskDone(c) ==
    /\ task[c]["main"] \in {"ok", "error"}
    /\ man[c].taskSuccess => SeenThrough(c, "main")

(* What lets an apply or a rollback go on to its verification.              *)
Vouched(c, k) == SeenThrough(c, k) \/ said[c] \in {"plain", "dict"}

(* Every handler runs for its own actions only.                             *)
HandlerOf(c) ==
    /\ pc[c] \in {"pre", "post"} => man[c].action \in Mutations
    /\ pc[c] \in {"evidence", "after"} => man[c].action = "reboot"
    /\ pc[c] = "poll" => man[c].action \in Mutations \cup {"apply_artifact"}
    /\ pc[c] = "verify" => man[c].action = "apply_artifact"
    /\ pc[c] \in {"rollback", "rb_request", "rb_poll", "rb_verify"} =>
          man[c].action \in {"apply_artifact", "rollback_artifact"}

(* What a command at each place may rely on of the tasks it started.        *)
TaskKnown(c) ==
    /\ pc[c] \in {"idle", "pre", "evidence", "request"} =>
          task[c]["main"] = "none" /\ said[c] = "none"
    /\ pc[c] \in {"poll", "post", "after"} => task[c]["main"] # "none"
    /\ pc[c] \in {"post", "after"} /\ good[c] => TaskDone(c)
    /\ pc[c] = "verify" => Vouched(c, "main")
    /\ pc[c] = "rb_poll" => task[c]["rollback"] # "none"
    /\ pc[c] = "rb_verify" => Vouched(c, "rollback")

(* No verdict before the end, and no evidence of a boot yet to come.        *)
VerdictLast(c) == status[c] = "accepted" => pc[c] \in Concluded
EvidencePast(c) == ev[c].boot =< boots

(* AcceptedTruth of one command.                                            *)
TruthOf(c) ==
    status[c] = "accepted" =>
        LET m == man[c]
        IN CASE m.action \in Mutations ->
                  /\ \/ /\ said[c] = "none" /\ task[c]["main"] = "none"
                        /\ m.action # "reboot" /\ m.noop = "allow_noop"
                     \/ TaskDone(c)
                  /\ m.action = "reboot" /\ m.bootId /\ ev[c].id =>
                        boots > ev[c].boot
             [] m.action = "apply_artifact" -> Vouched(c, "main")
             [] m.action = "rollback_artifact" -> Vouched(c, "rollback")
             [] m.action \in Stores -> said[c] # "none"
             [] OTHER -> said[c] = "none"

CommandInv(c) ==
    HandlerOf(c) /\ TaskKnown(c) /\ VerdictLast(c) /\ EvidencePast(c) /\ TruthOf(c)

-----------------------------------------------------------------------------
(* Before it opens the temporary name a command owns no file.               *)
Unopened == Locations \ ({"write", "replace", "audit"} \cup Over)

Recorded(s, c) == \E i \in 1 .. Len(s) : s[i].id = c

(* Commands that record one after the other: the history is never the       *)
(* temporary file, and the one command that records works on its latest     *)
(* version.                                                                 *)
OneSaver == \A c, d \in Cmds : pc[c] \in Saving /\ pc[d] \in Saving => c = d

FilesApart ==
    /\ file # None => file # tmp /\ content[file] # Torn
    /\ \A c \in Cmds : pc[c] \in Unopened => file # c /\ tmp # c

SaverCurrent(c) ==
    /\ pc[c] \in {"open", "write"} => hist[c] = Releases
    /\ pc[c] = "write" => tmp # None /\ fd[c] = tmp /\ content[tmp] = Torn
    /\ pc[c] = "replace" =>
          /\ tmp # None /\ content[tmp] # Torn
          /\ Recorded(content[tmp], c)
          /\ \A d \in audit : Recorded(content[tmp], d)

RecordsKept ==
    \A c \in Cmds : c \in audit \/ pc[c] = "audit" => Recorded(Releases, c)

SerialInv ==
    OneSaver /\ FilesApart /\ RecordsKept /\ \A c \in Cmds : SaverCurrent(c)

HistoryInv == raced \/ SerialInv

-----------------------------------------------------------------------------
(* Type correctness.                                                        *)

(* The history a command loads is a sequence of records.                    *)
LEMMA ReleasesType ==
    ASSUME TypeOK
    PROVE  Releases \in Seq(Record)
BY DEF TypeOK, Releases

(* A set of numbers has a least element, and one below a bound a greatest.  *)
LEMMA LeastNumber ==
    ASSUME NEW T, T \subseteq Nat, T # {}
    PROVE  \E x \in T : \A y \in T : x =< y
<1> DEFINE R == {ss \in Nat \X Nat : ss[1] < ss[2]}
<1>1. IsWellFoundedOn(R, Nat)
  BY NatLessThanWellFounded DEF OpToRel
<1>2. \A x, y \in Nat : x < y => <<x, y>> \in R
  OBVIOUS
<1> HIDE DEF R
<1>3. PICK x \in T : \A y \in T : ~ (<<y, x>> \in R)
  BY <1>1, WFMin
<1>4. ASSUME NEW y \in T PROVE x =< y
  <2>1. ~ (y < x)
    BY <1>2, <1>3, Zenon
  <2> QED
    BY <2>1
<1> QED
  BY <1>4

LEMMA GreatestBelow ==
    ASSUME NEW n \in Nat, NEW I \in SUBSET (1 .. n), I # {}
    PROVE  \E i \in I : \A j \in I : j =< i
<1> DEFINE T == {k \in Nat : \E i \in I : k = n - i}
<1>1. T \subseteq Nat
  OBVIOUS
<1>2. \A i \in I : i \in 1 .. n /\ n - i \in T
  OBVIOUS
<1>3. T # {}
  BY <1>2
<1>4. PICK x \in T : \A y \in T : x =< y
  BY <1>1, <1>3, LeastNumber
<1>5. PICK i \in I : x = n - i
  OBVIOUS
<1> HIDE DEF T
<1>6. \A j \in I : n - i =< n - j
  BY <1>2, <1>4, <1>5
<1>7. \A j \in I : j =< i
  BY <1>2, <1>6
<1> QED
  BY <1>7

(* The release a rollback resolves is one of the history's records.         *)
LEMMA ResolvedType ==
    ASSUME TypeOK, NEW m
    PROVE  Resolved(m) = None \/ Resolved(m) \in Record
<1> DEFINE Match(r) ==
            CASE m.resolve = "release_id" -> r.id = m.release
              [] m.resolve = "artifact_digest" -> r.digest = m.prev
              [] m.resolve = "latest_known_good" -> is_known_good(r)
              [] OTHER -> FALSE
           I == {i \in 1 .. Len(Releases) : Match(Releases[i])}
           Greatest(i) == \A j \in I : j =< i
<1> HIDE DEF Match
<1>1. Releases \in Seq(Record)
  BY ReleasesType
<1>2. ASSUME I # {} PROVE Releases[CHOOSE i \in I : Greatest(i)] \in Record
  <2>1. \E i \in I : Greatest(i)
    <3>1. Len(Releases) \in Nat /\ I \in SUBSET (1 .. Len(Releases))
      BY <1>1
    <3> HIDE DEF I
    <3> QED
      BY <1>2, <3>1, GreatestBelow
  <2>2. (CHOOSE i \in I : Greatest(i)) \in 1 .. Len(Releases)
    BY <2>1
  <2> QED
    BY <1>1, <2>2
<1> QED
  BY <1>2 DEF Resolved, Match

(* The steps that touch neither files nor manifest, and what they do touch. *)
RunStep(c) ==
    \/ Begin(c) \/ Read(c) \/ PreState(c) \/ BootEvidence(c) \/ Mutate(c)
    \/ Store(c) \/ Apply(c) \/ Poll(c) \/ PostState(c) \/ RebootEvidence(c)
    \/ VerifyApply(c) \/ RollbackRequest(c) \/ RollbackVerify(c)

TypeRest ==
    /\ pc \in [Cmds -> Locations]
    /\ status \in [Cmds -> {None, "accepted", "rejected"}]
    /\ polls \in [Cmds -> 0 .. MaxPolls] /\ good \in [Cmds -> BOOLEAN]
    /\ ev \in [Cmds -> Evidence]
    /\ task \in [Cmds -> [Kinds -> TaskState]] /\ said \in [Cmds -> Answer]
    /\ vm \in Power /\ boots \in Nat

LEMMA RunLeaves ==
    ASSUME NEW c \in Cmds, RunStep(c)
    PROVE  UNCHANGED <<man, file, tmp, content, audit, fd, hist, raced>>
BY Zenon
   DEF RunStep, history, Begin, Read, PreState, BootEvidence, Mutate, Store, Apply,
       Poll, PostState, RebootEvidence, VerifyApply, RollbackRequest, RollbackVerify

LEMMA OutcomeType ==
    ASSUME NEW o \in Outcomes
    PROVE  /\ o.task \in TaskState /\ o.answer \in {"none", "plain", "dict", "upid"}
           /\ o.answer \in {"dict", "upid"} => o.task = "running"
BY DEF Outcomes, TaskState

LEMMA RequestTypes ==
    ASSUME TypeOK, NEW c \in Cmds, NEW k \in Kinds, NEW o \in Outcomes, Executed(c, k, o)
    PROVE  /\ task' \in [Cmds -> [Kinds -> TaskState]]
           /\ said' \in [Cmds -> Answer]
<1>1. o.task \in TaskState /\ o.answer \in Answer
  BY OutcomeType DEF Answer
<1> QED
  BY <1>1 DEF TypeOK, Executed

(* A poll goes on, or ends with what the last answer said.                  *)
LEMMA PollCases ==
    ASSUME TypeOK, NEW c \in Cmds, Poll(c)
    PROVE  \/ UNCHANGED <<pc, status, good, said>>
           \/ \E stopped \in BOOLEAN, exit \in Answer :
                /\ PollEnds(c, stopped, exit)
                /\ stopped => /\ task[c][Polled(c)] # "running"
                              /\ exit \in {task[c][Polled(c)], "missing"}
                              /\ said' = [said EXCEPT ![c] = exit]
                /\ ~stopped => said' = said
<1>1. Polled(c) \in Kinds /\ "missing" \in Answer
  BY DEF Polled, Kinds, Answer
<1>2. ASSUME Seen(c)
      PROVE  \E exit \in Answer :
                /\ PollEnds(c, TRUE, exit)
                /\ task[c][Polled(c)] # "running"
                /\ exit \in {task[c][Polled(c)], "missing"}
                /\ said' = [said EXCEPT ![c] = exit]
  <2>1. task[c][Polled(c)] \in TaskState
    BY <1>1 DEF TypeOK
  <2>2. task[c][Polled(c)] # "running" => task[c][Polled(c)] \in Answer
    BY <2>1 DEF TaskState, Answer
  <2> QED
    BY <1>1, <1>2, <2>2, Zenon DEF Seen
<1>3. ASSUME GivenUp(c) PROVE PollEnds(c, FALSE, "missing") /\ said' = said
  BY <1>3, Zenon DEF GivenUp
<1> QED
  BY <1>1, <1>2, <1>3, Zenon DEF Poll

LEMMA RunTypes ==
    ASSUME TypeOK, NEW c \in Cmds, RunStep(c)
    PROVE  TypeRest'
<1> USE DEF GoTo, Conclude, Verdict, Locations, TypeRest, ApplyRejected, RollbackEnds
<1>0. TypeRest
  BY DEF TypeOK
<1>1. CASE Begin(c)
  BY <1>0, <1>1 DEF Begin, Handler, target, Over
<1>2. CASE Read(c)
  BY <1>0, <1>2 DEF Read, target
<1>3. CASE PreState(c)
  BY <1>0, <1>3 DEF PreState, target
<1>4. CASE BootEvidence(c)
  <2>1. Captures \subseteq Evidence
    <3>1. NoEvidence \in Evidence
      BY DEF Evidence, NoEvidence
    <3>2. \A u, i \in BOOLEAN : [boot |-> boots, up |-> u, id |-> i] \in Evidence
      BY <1>0 DEF Evidence
    <3>3. (vm = "running") \in BOOLEAN
      OBVIOUS
    <3> QED
      BY <3>1, <3>2, <3>3, Zenon DEF Captures
  <2> QED
    BY <1>0, <1>4, <2>1 DEF BootEvidence, target
<1>5. CASE Mutate(c)
  BY <1>0, <1>5, RequestTypes DEF Mutate, Kinds
<1>6. CASE Store(c)
  BY <1>0, <1>6, RequestTypes DEF Store, Kinds
<1>7. CASE Apply(c)
  BY <1>0, <1>7, RequestTypes DEF Apply, Kinds
<1>8. CASE Poll(c)
  <2>1. UNCHANGED <<ev, task, vm, boots>>
    BY <1>8 DEF Poll
  <2>2. polls' \in [Cmds -> 0 .. MaxPolls]
    <3>1. \/ polls' = [polls EXCEPT ![c] = 0]
          \/ polls[c] < MaxPolls /\ polls' = [polls EXCEPT ![c] = @ + 1]
      BY <1>8, Zenon DEF Poll
    <3> QED
      BY <1>0, <3>1, DeploymentAssumption
  <2>3. ASSUME NEW stopped \in BOOLEAN, NEW exit \in Answer, PollEnds(c, stopped, exit)
        PROVE  /\ pc' \in [Cmds -> Locations]
               /\ status' \in [Cmds -> {None, "accepted", "rejected"}]
               /\ good' \in [Cmds -> BOOLEAN]
    <3>1. TaskSucceeded(c, stopped, exit) \in BOOLEAN
      BY DEF TaskSucceeded
    <3> QED
      BY <1>0, <2>3, <3>1 DEF PollEnds
  <2>4. said' \in [Cmds -> Answer]
    BY <1>0, <1>8, PollCases
  <2> QED
    BY <1>0, <1>8, <2>1, <2>2, <2>3, <2>4, PollCases
<1>9. CASE PostState(c)
  BY <1>0, <1>9 DEF PostState, target
<1>10. CASE RebootEvidence(c)
  BY <1>0, <1>10 DEF RebootEvidence, target
<1>11. CASE VerifyApply(c)
  BY <1>0, <1>11 DEF VerifyApply, target
<1>12. CASE RollbackRequest(c)
  BY <1>0, <1>12, RequestTypes DEF RollbackRequest, Kinds
<1>13. CASE RollbackVerify(c)
  BY <1>0, <1>13 DEF RollbackVerify, target
<1> QED
  BY <1>1, <1>2, <1>3, <1>4, <1>5, <1>6, <1>7, <1>8, <1>9, <1>10, <1>11, <1>12,
     <1>13 DEF RunStep

(* A rollback changes target and receipt of the manifest, nothing else.     *)
LEMMA Retargeted ==
    ASSUME NEW m \in Manifest, NEW d \in Digests, NEW r \in Receipt \cup {None}
    PROVE  LET n == [m EXCEPT !.prev = d, !.receipt = r]
           IN  n \in Manifest /\ n.action = m.action
BY ZenonT(60) DEF Manifest

LEMMA RollbackTypes ==
    ASSUME TypeOK, NEW c \in Cmds, RollbackGate(c)
    PROVE  /\ TypeRest'
           /\ man' \in [Cmds -> Manifest]
           /\ \A d \in Cmds : man'[d].action = man[d].action
<1> DEFINE m == man[c]
           r == Resolved(m)
<1>1. m \in Manifest /\ m.receipt \in Receipt \cup {None}
  BY DEF TypeOK, Manifest
<1>2. r = None \/ r \in Record
  BY ResolvedType
<1>3. r \in Record => r.digest \in Digests /\ ReceiptOf(r) \in Receipt
  BY DEF Record, ReceiptOf, Receipt
<1> HIDE DEF r
<1>4. PICK n :
        /\ n = m \/ \E x \in Receipt \cup {None} :
                      r \in Record /\ n = [m EXCEPT !.prev = r.digest, !.receipt = x]
        /\ man' = [man EXCEPT ![c] = n]
  BY <1>1, <1>2, <1>3, Zenon DEF RollbackGate, r
<1>5. n \in Manifest /\ n.action = m.action
  <2>1. CASE n = m
    BY <1>1, <2>1
  <2>2. ASSUME NEW x \in Receipt \cup {None}, r \in Record,
               n = [m EXCEPT !.prev = r.digest, !.receipt = x]
        PROVE  n \in Manifest /\ n.action = m.action
    <3> HIDE DEF m
    <3> QED
      BY <1>1, <1>3, <2>2, Retargeted
  <2> QED
    BY <1>4, <2>1, <2>2
<1>6. UNCHANGED <<vm, boots, task, said, polls, good, ev>>
  BY DEF RollbackGate, target
<1>7. \/ \E l \in Locations : pc' = [pc EXCEPT ![c] = l] /\ UNCHANGED status
      \/ pc' = [pc EXCEPT ![c] = "receipt"]
           /\ \E v \in {"accepted", "rejected"} : status' = [status EXCEPT ![c] = v]
  BY DEF RollbackGate, GoTo, RollbackEnds, Conclude, Verdict, Locations
<1>8. /\ pc' \in [Cmds -> Locations]
      /\ status' \in [Cmds -> {None, "accepted", "rejected"}]
  <2>1. "receipt" \in Locations
    BY DEF Locations
  <2>2. /\ pc \in [Cmds -> Locations]
        /\ status \in [Cmds -> {None, "accepted", "rejected"}]
    BY DEF TypeOK
  <2> QED
    BY <1>7, <2>1, <2>2
<1>9. TypeRest'
  BY <1>6, <1>8 DEF TypeOK, TypeRest
<1> QED
  BY <1>4, <1>5, <1>9 DEF TypeOK

LEMMA FileTypes ==
    ASSUME TypeOK, NEW c \in Cmds,
           \/ WriteReceipt(c) \/ Load(c) \/ Open(c) \/ Write(c) \/ Replace(c)
           \/ Audit(c) \/ Crash(c)
    PROVE  TypeOK'
<1> USE DEF GoTo, Locations, TypeOK, target, Saving, Over
<1>1. CASE Load(c)
  BY <1>1, ReleasesType DEF Load
<1>2. CASE Open(c)
  BY <1>2 DEF Open
<1>3. CASE Write(c)
  <2> DEFINE data == Append(hist[c], from_receipt(c))
  <2>1. data \in Seq(Record)
    <3>1. from_receipt(c) \in Record
      BY DEF from_receipt, Record, Manifest
    <3> QED
      BY <3>1
  <2> HIDE DEF data
  <2>2. content' \in [Cmds -> {Torn} \cup Seq(Record)]
    <3>1. \E x \in {data, Torn} : content' = [content EXCEPT ![fd[c]] = x]
      BY <1>3 DEF Write, data
    <3>2. content \in [Cmds -> {Torn} \cup Seq(Record)]
      OBVIOUS
    <3>3. PICK x \in {Torn} \cup Seq(Record) : content' = [content EXCEPT ![fd[c]] = x]
      BY <2>1, <3>1
    <3> HIDE DEF TypeOK
    <3> QED
      BY <3>2, <3>3
  <2> QED
    BY <1>3, <2>2 DEF Write
<1>4. CASE Replace(c)
  BY <1>4 DEF Replace
<1>5. CASE Audit(c)
  BY <1>5 DEF Audit
<1>6. ASSUME Forgets(c)
      PROVE  /\ said' \in [Cmds -> Answer] /\ polls' \in [Cmds -> 0 .. MaxPolls]
             /\ good' \in [Cmds -> BOOLEAN] /\ ev' \in [Cmds -> Evidence]
             /\ status' \in [Cmds -> {None, "accepted", "rejected"}]
             /\ fd' \in [Cmds -> Cmds \cup {None}] /\ hist' \in [Cmds -> Seq(Record)]
  <2>1. NoEvidence \in Evidence /\ "none" \in Answer
    BY DEF Evidence, NoEvidence, Answer
  <2> QED
    BY <1>6, <2>1, DeploymentAssumption DEF Forgets
<1>7. CASE Crash(c)
  BY <1>6, <1>7 DEF Crash
<1>8. CASE WriteReceipt(c)
  BY <1>6, <1>8 DEF WriteReceipt
<1> QED
  BY <1>1, <1>2, <1>3, <1>4, <1>5, <1>7, <1>8

LEMMA TaskTypes ==
    ASSUME TypeOK, NEW c \in Cmds, NEW k \in Kinds, TaskEnds(c, k)
    PROVE  TypeOK'
<1>1. task' \in [Cmds -> [Kinds -> TaskState]]
  BY DEF TypeOK, TaskEnds, TaskState
<1>2. vm' \in Power /\ boots' \in Nat
  BY DEF TypeOK, TaskEnds, Power
<1> QED
  BY <1>1, <1>2 DEF TypeOK, TaskEnds, history

LEMMA Cases ==
    ASSUME Next
    PROVE  \/ \E c \in Cmds : RunStep(c)
           \/ \E c \in Cmds : RollbackGate(c)
           \/ \E c \in Cmds :
                WriteReceipt(c) \/ Load(c) \/ Open(c) \/ Write(c) \/ Replace(c) \/ Audit(c) \/ Crash(c)
           \/ \E c \in Cmds, k \in Kinds : TaskEnds(c, k)
BY Zenon DEF Next, Step, RunStep

LEMMA TypeStep ==
    ASSUME TypeOK, [Next]_vars
    PROVE  TypeOK'
<1>1. ASSUME NEW c \in Cmds, RunStep(c) PROVE TypeOK'
  BY <1>1, RunTypes, RunLeaves DEF TypeOK, TypeRest
<1>2. ASSUME NEW c \in Cmds, RollbackGate(c) PROVE TypeOK'
  <2>1. UNCHANGED <<file, tmp, content, audit, fd, hist, raced>>
    BY <1>2 DEF RollbackGate, history
  <2> QED
    BY <1>2, <2>1, RollbackTypes DEF TypeOK, TypeRest
<1>3. CASE UNCHANGED vars
  BY <1>3 DEF TypeOK, vars, target, history
<1> QED
  BY <1>1, <1>2, <1>3, FileTypes, TaskTypes, Cases

(* Whatever the target answers and whoever dies, every variable keeps its   *)
(* type: manifests stay manifests under the rollback's retargeting, and the *)
(* history file is torn or a sequence of release records.                   *)
THEOREM TypeCorrect == Spec => []TypeOK
<1>1. ASSUME Init PROVE TypeOK
  <2>1. NoEvidence \in Evidence
    BY DEF Evidence, NoEvidence
  <2>2. man \in [Cmds -> Manifest] /\ polls \in [Cmds -> 0 .. MaxPolls]
    BY <1>1, DeploymentAssumption DEF Init
  <2>3. /\ task \in [Cmds -> [Kinds -> TaskState]] /\ said \in [Cmds -> Answer]
        /\ pc \in [Cmds -> Locations]
    BY <1>1 DEF Init, TaskState, Answer, Locations
  <2>4. content \in [Cmds -> {Torn} \cup Seq(Record)] /\ hist \in [Cmds -> Seq(Record)]
    BY <1>1 DEF Init
  <2>5. /\ good \in [Cmds -> BOOLEAN] /\ ev \in [Cmds -> Evidence]
        /\ status \in [Cmds -> {None, "accepted", "rejected"}]
        /\ fd \in [Cmds -> Cmds \cup {None}]
    BY <1>1, <2>1 DEF Init
  <2> QED
    BY <1>1, <2>2, <2>3, <2>4, <2>5 DEF Init, TypeOK
<1>2. TypeOK /\ [Next]_vars => TypeOK'
  BY TypeStep
<1> QED
  BY <1>1, <1>2, PTL DEF Spec

-----------------------------------------------------------------------------
(* The verdict.                                                             *)

(* A step of one command leaves what the others know of their tasks.        *)
LEMMA OthersKeep ==
    ASSUME TypeOK, NEW d \in Cmds, CommandInv(d),
           UNCHANGED <<pc[d], man[d], task[d], said[d], good[d], ev[d], status[d]>>,
           boots' \in Nat, boots =< boots'
    PROVE  CommandInv(d)'
<1>1. ev[d].boot \in Nat /\ boots \in Nat
  BY DEF TypeOK, Evidence
<1>2. HandlerOf(d)' /\ TaskKnown(d)' /\ VerdictLast(d)' /\ EvidencePast(d)'
  BY <1>1 DEF CommandInv, HandlerOf, TaskKnown, VerdictLast, EvidencePast, TaskDone,
              Vouched, SeenThrough
<1>3. TruthOf(d)'
  BY <1>1 DEF CommandInv, TruthOf, TaskDone, Vouched, SeenThrough
<1> QED
  BY <1>2, <1>3 DEF CommandInv

(* A step that reaches no verdict, or rejects.                              *)
LEMMA NotAccepted ==
    ASSUME NEW c \in Cmds, status'[c] # "accepted"
    PROVE  VerdictLast(c)' /\ TruthOf(c)'
BY DEF VerdictLast, TruthOf

LEMMA BeginInv ==
    ASSUME TypeOK, NEW c \in Cmds, CommandInv(c), Begin(c)
    PROVE  CommandInv(c)'
<1>1. status'[c] # "accepted"
  BY DEF Begin, CommandInv, VerdictLast, Concluded, Saving, Conclude, GoTo, TypeOK
<1>2. HandlerOf(c)' /\ TaskKnown(c)' /\ EvidencePast(c)'
  BY DEF Begin, Handler, Conclude, GoTo, CommandInv, HandlerOf, TaskKnown, EvidencePast,
         TypeOK, target
<1> QED
  BY <1>1, <1>2, NotAccepted DEF CommandInv

LEMMA ReadInv ==
    ASSUME TypeOK, NEW c \in Cmds, CommandInv(c), Read(c)
    PROVE  CommandInv(c)'
<1>1. /\ pc'[c] = "receipt"
      /\ UNCHANGED <<man, task, said, good, ev, boots>>
      /\ man[c].action = "get_status" /\ said[c] = "none"
  BY DEF Read, Conclude, GoTo, TypeOK, target, CommandInv, TaskKnown
<1>2. HandlerOf(c)' /\ TaskKnown(c)' /\ EvidencePast(c)' /\ VerdictLast(c)'
  BY <1>1 DEF CommandInv, HandlerOf, TaskKnown, EvidencePast, VerdictLast, Concluded
<1>3. TruthOf(c)'
  BY <1>1 DEF TruthOf, Mutations, Stores
<1> QED
  BY <1>2, <1>3 DEF CommandInv

LEMMA PreStateInv ==
    ASSUME TypeOK, NEW c \in Cmds, CommandInv(c), PreState(c)
    PROVE  CommandInv(c)'
<1>1. /\ pc[c] = "pre" /\ man[c].action \in Mutations
      /\ task[c]["main"] = "none" /\ said[c] = "none" /\ status[c] # "accepted"
      /\ UNCHANGED <<man, task, said, good, ev, boots>>
  BY DEF PreState, TypeOK, target, CommandInv, TaskKnown, HandlerOf, VerdictLast,
         Concluded, Saving
<1>2. \/ /\ pc'[c] = "receipt"
         /\ status'[c] = "accepted" =>
               man[c].action # "reboot" /\ man[c].noop = "allow_noop"
      \/ pc'[c] \in {"evidence", "request"} /\ status'[c] # "accepted"
         /\ (pc'[c] = "evidence" => man[c].action = "reboot")
  BY <1>1 DEF PreState, Conclude, GoTo, TypeOK, Already, Verdict
<1>3. HandlerOf(c)' /\ TaskKnown(c)' /\ EvidencePast(c)' /\ VerdictLast(c)'
  BY <1>1, <1>2 DEF CommandInv, HandlerOf, TaskKnown, EvidencePast, VerdictLast, Concluded
<1>4. TruthOf(c)'
  BY <1>1, <1>2 DEF TruthOf, Mutations, Stores
<1> QED
  BY <1>3, <1>4 DEF CommandInv

LEMMA BootEvidenceInv ==
    ASSUME TypeOK, NEW c \in Cmds, CommandInv(c), BootEvidence(c)
    PROVE  CommandInv(c)'
<1>1. /\ pc'[c] = "request" /\ task[c]["main"] = "none" /\ said[c] = "none"
      /\ status'[c] # "accepted" /\ UNCHANGED <<man, task, said, good, boots>>
  BY DEF BootEvidence, GoTo, TypeOK, target, CommandInv, TaskKnown, VerdictLast,
         Concluded, Saving
<1>2. EvidencePast(c)'
  <2>1. \A e \in Captures : e.boot \in {0, boots}
    BY DEF Captures, NoEvidence
  <2>2. ev'[c] \in Captures
    BY DEF BootEvidence, TypeOK
  <2>3. ev'[c].boot \in {0, boots}
    BY <2>1, <2>2, Zenon
  <2>4. boots' = boots /\ boots \in Nat
    BY <1>1 DEF TypeOK
  <2> QED
    BY <2>3, <2>4 DEF EvidencePast
<1>3. HandlerOf(c)' /\ TaskKnown(c)'
  BY <1>1 DEF HandlerOf, TaskKnown
<1> QED
  BY <1>1, <1>2, <1>3, NotAccepted DEF CommandInv

(* What a request leaves behind.                                            *)
LEMMA RequestLeaves ==
    ASSUME TypeOK, NEW c \in Cmds, NEW k \in Kinds, NEW o \in Outcomes, Executed(c, k, o)
    PROVE  /\ o.answer \in {"dict", "upid"} => task'[c][k] = "running"
           /\ said'[c] = o.answer
           /\ o.answer \notin {"none", "upid"} => said'[c] \in {"plain", "dict"}
           /\ \A j \in Kinds \ {k} : task'[c][j] = task[c][j]
           /\ \A d \in Cmds \ {c} : task'[d] = task[d] /\ said'[d] = said[d]
BY OutcomeType DEF TypeOK, Executed

LEMMA MutateInv ==
    ASSUME TypeOK, NEW c \in Cmds, CommandInv(c), Mutate(c)
    PROVE  CommandInv(c)'
<1>1. PICK o \in Outcomes :
        /\ Executed(c, "main", o)
        /\ IF o.answer \in {"dict", "upid"} THEN GoTo(c, "poll") /\ UNCHANGED status
                                            ELSE Conclude(c, "rejected")
  BY DEF Mutate
<1>2. /\ man[c].action \in Mutations /\ status[c] # "accepted"
      /\ UNCHANGED <<man, good, ev, boots>>
  BY DEF Mutate, CommandInv, VerdictLast, Concluded, Saving
<1>3. /\ status'[c] # "accepted"
      /\ pc'[c] = "receipt" \/ (pc'[c] = "poll" /\ task'[c]["main"] = "running")
  BY <1>1, <1>2, RequestLeaves DEF GoTo, Conclude, TypeOK, Kinds
<1>4. HandlerOf(c)' /\ TaskKnown(c)' /\ EvidencePast(c)'
  BY <1>2, <1>3 DEF CommandInv, HandlerOf, TaskKnown, EvidencePast
<1> QED
  BY <1>3, <1>4, NotAccepted DEF CommandInv

LEMMA StoreInv ==
    ASSUME TypeOK, NEW c \in Cmds, CommandInv(c), Store(c)
    PROVE  CommandInv(c)'
<1>1. /\ man[c].action \in Stores /\ pc'[c] = "receipt"
      /\ UNCHANGED <<man, good, ev, boots>>
  BY DEF Store, Conclude, GoTo, TypeOK
<1>2. status'[c] = "accepted" => said'[c] # "none"
  <2>1. CASE Conclude(c, "rejected")
    BY <2>1 DEF Conclude, TypeOK
  <2>2. ASSUME NEW o \in Outcomes, Executed(c, "main", o),
               Conclude(c, Verdict(o.answer # "none"))
        PROVE  status'[c] = "accepted" => said'[c] # "none"
    BY <2>2, RequestLeaves DEF Conclude, Verdict, TypeOK, Kinds
  <2> QED
    BY <2>1, <2>2 DEF Store
<1>3. HandlerOf(c)' /\ TaskKnown(c)' /\ EvidencePast(c)' /\ VerdictLast(c)'
  BY <1>1 DEF CommandInv, HandlerOf, TaskKnown, EvidencePast, VerdictLast, Concluded
<1>4. TruthOf(c)'
  BY <1>1, <1>2 DEF TruthOf, Mutations, Stores
<1> QED
  BY <1>3, <1>4 DEF CommandInv

(* A rejected apply ends or starts the rollback, without a good verdict.    *)
LEMMA ApplyRejects ==
    ASSUME TypeOK, NEW c \in Cmds, ApplyRejected(c)
    PROVE  status'[c] # "accepted" /\ pc'[c] \in {"receipt", "rollback"}
BY DEF ApplyRejected, Conclude, GoTo, TypeOK

LEMMA ApplyInv ==
    ASSUME TypeOK, NEW c \in Cmds, CommandInv(c), Apply(c)
    PROVE  CommandInv(c)'
<1>1. /\ man[c].action = "apply_artifact" /\ status[c] # "accepted"
      /\ UNCHANGED <<man, good, ev, boots>>
  BY DEF Apply, CommandInv, VerdictLast, Concluded, Saving
<1>2. /\ status'[c] # "accepted"
      /\ \/ pc'[c] \in {"receipt", "rollback"}
         \/ pc'[c] = "poll" /\ task'[c]["main"] = "running"
         \/ pc'[c] = "verify" /\ said'[c] \in {"plain", "dict"}
  <2>1. CASE ApplyRejected(c)
    BY <2>1, ApplyRejects
  <2>2. ASSUME NEW o \in Outcomes, o.answer # "none", Executed(c, "main", o),
               GoTo(c, IF o.answer = "upid" THEN "poll" ELSE "verify"), UNCHANGED status
        PROVE  <1>2!1 /\ <1>2!2
    BY <1>1, <2>2, RequestLeaves DEF GoTo, TypeOK, Kinds
  <2> QED
    BY <2>1, <2>2 DEF Apply
<1>3. HandlerOf(c)' /\ TaskKnown(c)' /\ EvidencePast(c)'
  BY <1>1, <1>2 DEF CommandInv, HandlerOf, TaskKnown, EvidencePast, Vouched
<1> QED
  BY <1>2, <1>3, NotAccepted DEF CommandInv

LEMMA RollbackFails ==
    ASSUME TypeOK, NEW c \in Cmds, RollbackEnds(c, FALSE)
    PROVE  status'[c] # "accepted" /\ pc'[c] = "receipt"
BY DEF RollbackEnds, Conclude, Verdict, GoTo, TypeOK

(* What a poll loop's conclusion is worth.                                  *)
LEMMA SuccessSeen ==
    ASSUME TypeOK, NEW c \in Cmds, NEW k \in Kinds,
           NEW stopped \in BOOLEAN, NEW exit \in Answer,
           TaskSucceeded(c, stopped, exit), task[c][k] \notin {"none", "running"},
           exit \in {task[c][k], "missing"}, task' = task, man' = man, said'[c] = exit
    PROVE  /\ (task[c][k])' \in {"ok", "error"}
           /\ SeenThrough(c, k)' \/ (man[c].action \in Mutations /\ ~man[c].taskSuccess)
<1>1. task[c][k] \in {"ok", "error"}
  BY DEF TypeOK, TaskState
<1>2. exit \in {"ok", "missing"} \/ (man[c].action \in Mutations /\ ~man[c].taskSuccess)
  BY DEF TaskSucceeded
<1> QED
  BY <1>1, <1>2 DEF SeenThrough

LEMMA PollInv ==
    ASSUME TypeOK, NEW c \in Cmds, CommandInv(c), Poll(c)
    PROVE  CommandInv(c)'
<1>0. PICK k \in Kinds : k = Polled(c)
  BY DEF Polled, Kinds
<1>1. /\ UNCHANGED <<man, task, ev, boots>> /\ status[c] # "accepted"
      /\ pc[c] \in {"poll", "rb_poll"}
      /\ task[c][k] # "none"
      /\ pc[c] = "poll" => k = "main" /\ man[c].action \in Mutations \cup {"apply_artifact"}
      /\ pc[c] = "rb_poll" =>
            k = "rollback" /\ man[c].action \in {"apply_artifact", "rollback_artifact"}
  BY <1>0 DEF Poll, Polled, Kinds, CommandInv, HandlerOf, TaskKnown, VerdictLast,
         Concluded, Saving
<1>2. CASE UNCHANGED <<pc, status, good, said>>
  BY <1>1, <1>2, OthersKeep DEF TypeOK
<1>3. ASSUME NEW stopped \in BOOLEAN, NEW exit \in Answer, PollEnds(c, stopped, exit),
             stopped => /\ task[c][k] # "running" /\ exit \in {task[c][k], "missing"}
                        /\ said' = [said EXCEPT ![c] = exit]
      PROVE  CommandInv(c)'
  <2> DEFINE ok == TaskSucceeded(c, stopped, exit)
  <2>1. ok \in BOOLEAN /\ (ok => stopped)
    BY DEF TaskSucceeded
  <2>2. ok => /\ (task[c][k])' \in {"ok", "error"}
              /\ SeenThrough(c, k)' \/ (man[c].action \in Mutations /\ ~man[c].taskSuccess)
    <3>1. ok => said'[c] = exit
      BY <1>3, <2>1 DEF TypeOK
    <3> QED
      BY <1>1, <1>3, <2>1, <3>1, SuccessSeen
  <2> HIDE DEF ok
  <2>3. CASE pc[c] = "rb_poll"
    <3>1. /\ status'[c] # "accepted"
          /\ pc'[c] = "receipt" \/ (pc'[c] = "rb_verify" /\ ok)
      <4>1. CASE GoTo(c, "rb_verify") /\ UNCHANGED status /\ ok
        BY <1>1, <4>1 DEF GoTo, TypeOK
      <4>2. CASE RollbackEnds(c, FALSE)
        BY <4>2, RollbackFails
      <4> QED
        BY <1>1, <1>3, <2>3, <4>1, <4>2 DEF PollEnds, ok, Mutations
    <3>2. ok => SeenThrough(c, "rollback")'
      BY <1>1, <2>2, <2>3 DEF Mutations
    <3>3. HandlerOf(c)' /\ TaskKnown(c)' /\ EvidencePast(c)'
      BY <1>1, <2>3, <3>1, <3>2
         DEF CommandInv, HandlerOf, TaskKnown, EvidencePast, Vouched
    <3> QED
      BY <3>1, <3>3, NotAccepted DEF CommandInv
  <2>4. CASE pc[c] = "poll" /\ man[c].action \in Mutations
    <3>1. status'[c] # "accepted" /\ pc'[c] = "post" /\ good'[c] = ok
      BY <1>1, <1>3, <2>4 DEF PollEnds, ok, GoTo, TypeOK
    <3>2. ok => TaskDone(c)'
      BY <1>1, <2>2, <2>4 DEF TaskDone
    <3>3. HandlerOf(c)' /\ TaskKnown(c)' /\ EvidencePast(c)'
      BY <1>1, <2>4, <3>1, <3>2 DEF CommandInv, HandlerOf, TaskKnown, EvidencePast
    <3> QED
      BY <3>1, <3>3, NotAccepted DEF CommandInv
  <2>5. CASE pc[c] = "poll" /\ man[c].action \notin Mutations
    <3>1. /\ status'[c] # "accepted"
          /\ pc'[c] \in {"receipt", "rollback"} \/ (pc'[c] = "verify" /\ ok)
      BY <1>1, <1>3, <2>5, ApplyRejects DEF PollEnds, ok, GoTo, TypeOK
    <3>2. ok => SeenThrough(c, "main")'
      BY <1>1, <2>2, <2>5
    <3>3. HandlerOf(c)' /\ TaskKnown(c)' /\ EvidencePast(c)'
      BY <1>1, <2>5, <3>1, <3>2
         DEF CommandInv, HandlerOf, TaskKnown, EvidencePast, Vouched
    <3> QED
      BY <3>1, <3>3, NotAccepted DEF CommandInv
  <2> QED
    BY <1>1, <2>3, <2>4, <2>5
<1> QED
  BY <1>0, <1>2, <1>3, PollCases

LEMMA PostStateInv ==
    ASSUME TypeOK, NEW c \in Cmds, CommandInv(c), PostState(c)
    PROVE  CommandInv(c)'
<1>1. /\ man[c].action \in Mutations /\ status[c] # "accepted"
      /\ task[c]["main"] # "none" /\ (good[c] => TaskDone(c))
      /\ UNCHANGED <<man, task, said, ev, boots>> /\ TaskDone(c)' = TaskDone(c)
  BY DEF PostState, target, CommandInv, HandlerOf, TaskKnown, VerdictLast, Concluded, Saving,
         TaskDone, SeenThrough
<1>2. \/ /\ man[c].action = "reboot" /\ pc'[c] = "after" /\ status'[c] # "accepted"
         /\ good'[c] => good[c]
      \/ /\ man[c].action # "reboot" /\ pc'[c] = "receipt"
         /\ status'[c] = "accepted" => good[c]
  BY <1>1 DEF PostState, Conclude, GoTo, Verdict, TypeOK
<1>3. HandlerOf(c)' /\ TaskKnown(c)' /\ EvidencePast(c)' /\ VerdictLast(c)'
  BY <1>1, <1>2
     DEF CommandInv, HandlerOf, TaskKnown, EvidencePast, VerdictLast, Concluded
<1>4. TruthOf(c)'
  BY <1>1, <1>2 DEF TruthOf, Mutations, Stores
<1> QED
  BY <1>3, <1>4 DEF CommandInv

(* A boot id that differs from the earlier one is that of a later boot.     *)
LEMMA RebootEvidenceInv ==
    ASSUME TypeOK, NEW c \in Cmds, CommandInv(c), RebootEvidence(c)
    PROVE  CommandInv(c)'
<1>1. /\ man[c].action = "reboot" /\ task[c]["main"] # "none"
      /\ good[c] => TaskDone(c)
      /\ ev[c].boot =< boots
      /\ UNCHANGED <<man, task, said, good, ev, boots>> /\ TaskDone(c)' = TaskDone(c)
  BY DEF RebootEvidence, target, CommandInv, HandlerOf, TaskKnown, EvidencePast, TaskDone,
         SeenThrough
<1>2. PICK e \in Captures : \E reset \in Resets(ev[c], e) :
        Conclude(c, Verdict(good[c] /\ Rebooted(man[c], ev[c], e, reset)))
  BY DEF RebootEvidence
<1>a. PICK reset \in Resets(ev[c], e) :
        Conclude(c, Verdict(good[c] /\ Rebooted(man[c], ev[c], e, reset)))
  BY <1>2
<1>3. /\ pc'[c] = "receipt"
      /\ status'[c] = "accepted" => good[c] /\ Rebooted(man[c], ev[c], e, reset)
  BY <1>a DEF Conclude, GoTo, Verdict, TypeOK
<1>4. status'[c] = "accepted" /\ man[c].bootId /\ ev[c].id => boots > ev[c].boot
  <2>1. e.id => e.boot = boots
    BY DEF Captures, NoEvidence
  <2>2. boots \in Nat /\ ev[c].boot \in Nat
    BY DEF TypeOK, Evidence
  <2>3. status'[c] = "accepted" /\ man[c].bootId /\ ev[c].id => e.id /\ ev[c].boot # e.boot
    BY <1>3 DEF Rebooted
  <2> QED
    BY <1>1, <2>1, <2>2, <2>3
<1>5. HandlerOf(c)' /\ TaskKnown(c)' /\ EvidencePast(c)' /\ VerdictLast(c)'
  BY <1>1, <1>3 DEF HandlerOf, TaskKnown, EvidencePast, VerdictLast, Concluded
<1>6. TruthOf(c)'
  BY <1>1, <1>3, <1>4 DEF TruthOf, Mutations, Stores
<1> QED
  BY <1>5, <1>6 DEF CommandInv

LEMMA VerifyApplyInv ==
    ASSUME TypeOK, NEW c \in Cmds, CommandInv(c), VerifyApply(c)
    PROVE  CommandInv(c)'
<1>1. /\ man[c].action = "apply_artifact" /\ Vouched(c, "main")'
      /\ UNCHANGED <<man, task, said, good, ev, boots>>
  BY DEF VerifyApply, target, CommandInv, HandlerOf, TaskKnown, Vouched, SeenThrough
<1>2. pc'[c] = "receipt" \/ (pc'[c] = "rollback" /\ status'[c] # "accepted")
  BY ApplyRejects DEF VerifyApply, Conclude, GoTo, TypeOK
<1>3. HandlerOf(c)' /\ TaskKnown(c)' /\ EvidencePast(c)' /\ VerdictLast(c)'
  BY <1>1, <1>2
     DEF CommandInv, HandlerOf, TaskKnown, EvidencePast, VerdictLast, Concluded
<1>4. TruthOf(c)'
  BY <1>1 DEF TruthOf, Mutations, Stores
<1> QED
  BY <1>3, <1>4 DEF CommandInv

LEMMA RollbackGateInv ==
    ASSUME TypeOK, NEW c \in Cmds, CommandInv(c), RollbackGate(c)
    PROVE  CommandInv(c)'
<1>1. /\ man[c].action \in {"apply_artifact", "rollback_artifact"}
      /\ status[c] # "accepted" /\ UNCHANGED <<task, said, good, ev, boots>>
  BY DEF RollbackGate, target, CommandInv, HandlerOf, VerdictLast, Concluded, Saving
<1>2. man'[c].action = man[c].action
  BY RollbackTypes
<1>3. \/ RollbackEnds(c, FALSE)
      \/ GoTo(c, "rb_request") /\ UNCHANGED status
  BY Zenon DEF RollbackGate
<1>4. status'[c] # "accepted" /\ pc'[c] \in {"receipt", "rb_request"}
  BY <1>1, <1>3, RollbackFails DEF GoTo, TypeOK
<1>5. HandlerOf(c)' /\ TaskKnown(c)' /\ EvidencePast(c)'
  BY <1>1, <1>2, <1>4 DEF CommandInv, HandlerOf, TaskKnown, EvidencePast
<1> QED
  BY <1>4, <1>5, NotAccepted DEF CommandInv

LEMMA RollbackRequestInv ==
    ASSUME TypeOK, NEW c \in Cmds, CommandInv(c), RollbackRequest(c)
    PROVE  CommandInv(c)'
<1>1. /\ man[c].action \in {"apply_artifact", "rollback_artifact"}
      /\ status[c] # "accepted" /\ UNCHANGED <<man, good, ev, boots>>
  BY DEF RollbackRequest, CommandInv, HandlerOf, VerdictLast, Concluded, Saving
<1>2. /\ status'[c] # "accepted"
      /\ \/ pc'[c] = "receipt"
         \/ pc'[c] = "rb_poll" /\ task'[c]["rollback"] = "running"
         \/ pc'[c] = "rb_verify" /\ said'[c] \in {"plain", "dict"}
  <2>1. CASE RollbackEnds(c, FALSE)
    BY <2>1, RollbackFails
  <2>2. ASSUME NEW o \in Outcomes, o.answer # "none", Executed(c, "rollback", o),
               GoTo(c, IF o.answer = "upid" THEN "rb_poll" ELSE "rb_verify"),
               UNCHANGED status
        PROVE  <1>2!1 /\ <1>2!2
    BY <1>1, <2>2, RequestLeaves DEF GoTo, TypeOK, Kinds
  <2> QED
    BY <2>1, <2>2 DEF RollbackRequest
<1>3. HandlerOf(c)' /\ TaskKnown(c)' /\ EvidencePast(c)'
  BY <1>1, <1>2 DEF CommandInv, HandlerOf, TaskKnown, EvidencePast, Vouched
<1> QED
  BY <1>2, <1>3, NotAccepted DEF CommandInv

LEMMA RollbackVerifyInv ==
    ASSUME TypeOK, NEW c \in Cmds, CommandInv(c), RollbackVerify(c)
    PROVE  CommandInv(c)'
<1>1. Vouched(c, "rollback")' /\ UNCHANGED <<man, task, said, good, ev, boots>>
  BY DEF RollbackVerify, target, CommandInv, TaskKnown, Vouched, SeenThrough
<1>2. /\ pc'[c] = "receipt"
      /\ status'[c] = "accepted" => man[c].action = "rollback_artifact"
  BY DEF RollbackVerify, RollbackEnds, Conclude, Verdict, GoTo, TypeOK
<1>3. HandlerOf(c)' /\ TaskKnown(c)' /\ EvidencePast(c)' /\ VerdictLast(c)'
  BY <1>1, <1>2
     DEF CommandInv, HandlerOf, TaskKnown, EvidencePast, VerdictLast, Concluded
<1>4. TruthOf(c)'
  BY <1>1, <1>2 DEF TruthOf, Mutations, Stores
<1> QED
  BY <1>3, <1>4 DEF CommandInv

(* A process that is gone claims nothing.                                   *)
LEMMA ForgetsInv ==
    ASSUME TypeOK, NEW c \in Cmds, Forgets(c), pc'[c] \in Over, UNCHANGED <<man, boots>>
    PROVE  CommandInv(c)'
<1>1. status'[c] # "accepted" /\ ev'[c].boot = 0
  BY DeploymentAssumption DEF Forgets, NoEvidence, TypeOK
<1>2. HandlerOf(c)' /\ TaskKnown(c)'
  BY DEF HandlerOf, TaskKnown, Over
<1>3. EvidencePast(c)'
  BY <1>1 DEF EvidencePast, TypeOK
<1> QED
  BY <1>1, <1>2, <1>3, NotAccepted DEF CommandInv

(* Receipt and history: the verdict stands.                                 *)
LEMMA SavingInv ==
    ASSUME TypeOK, NEW c \in Cmds, CommandInv(c),
           \/ WriteReceipt(c) \/ Load(c) \/ Open(c) \/ Write(c) \/ Replace(c) \/ Audit(c)
    PROVE  CommandInv(c)'
<1>1. CASE WriteReceipt(c) /\ status[c] # "accepted"
  <2>1. Forgets(c) /\ pc'[c] = "ended" /\ UNCHANGED <<man, boots>>
    BY <1>1 DEF WriteReceipt, GoTo, TypeOK
  <2> QED
    BY <2>1, ForgetsInv DEF Over
<1>2. CASE ~(WriteReceipt(c) /\ status[c] # "accepted")
  <2>1. UNCHANGED <<man, task, said, good, ev, boots, status>>
    BY <1>2 DEF WriteReceipt, Load, Open, Write, Replace, Audit, target
  <2>2. pc'[c] \in Concluded
    BY <1>2 DEF WriteReceipt, Load, Open, Write, Replace, Audit, GoTo, Concluded, Saving,
                TypeOK
  <2>3. HandlerOf(c)' /\ TaskKnown(c)' /\ EvidencePast(c)' /\ VerdictLast(c)'
    BY <2>1, <2>2 DEF CommandInv, HandlerOf, TaskKnown, EvidencePast, VerdictLast,
                      Concluded, Saving
  <2>4. TruthOf(c)'
    BY <2>1 DEF TruthOf, CommandInv, TaskDone, Vouched, SeenThrough
  <2> QED
    BY <2>3, <2>4 DEF CommandInv
<1> QED
  BY <1>1, <1>2

LEMMA CrashInv ==
    ASSUME TypeOK, NEW c \in Cmds, CommandInv(c), Crash(c)
    PROVE  CommandInv(c)'
<1>1. Forgets(c) /\ pc'[c] \in Over /\ UNCHANGED <<man, boots>>
  BY DEF Crash, GoTo, Over, TypeOK
<1> QED
  BY <1>1, ForgetsInv

(* A task that ends spoils no verdict: what was accepted had ended.         *)
LEMMA TaskEndsInv ==
    ASSUME TypeOK, NEW c \in Cmds, NEW k \in Kinds, CommandInv(c), TaskEnds(c, k)
    PROVE  CommandInv(c)'
<1>1. /\ UNCHANGED <<pc, man, said, good, ev, status>>
      /\ boots' \in Nat /\ boots =< boots' /\ ev[c].boot \in Nat /\ boots \in Nat
  BY DEF TaskEnds, TypeOK, Evidence
<1>2. /\ task[c][k] = "running" /\ task'[c][k] \in {"ok", "error"}
      /\ \A j \in Kinds \ {k} : task'[c][j] = task[c][j]
  BY DEF TaskEnds, TypeOK
<1>3. "main" \in Kinds /\ "rollback" \in Kinds
  BY DEF Kinds
<1>4. HandlerOf(c)' /\ VerdictLast(c)' /\ EvidencePast(c)'
  BY <1>1 DEF CommandInv, HandlerOf, VerdictLast, EvidencePast
<1>5. /\ TaskDone(c) => TaskDone(c)'
      /\ \A j \in Kinds : Vouched(c, j) => Vouched(c, j)'
  BY <1>1, <1>2, <1>3 DEF TaskDone, Vouched, SeenThrough
<1>6. TaskKnown(c)'
  BY <1>1, <1>2, <1>3, <1>5 DEF CommandInv, TaskKnown
<1>7. TruthOf(c)'
  BY <1>1, <1>2, <1>3, <1>5 DEF CommandInv, TruthOf, Mutations, Stores
<1> QED
  BY <1>4, <1>6, <1>7 DEF CommandInv

(* No command touches what another knows.                                   *)
LEMMA Locality ==
    ASSUME TypeOK, NEW c \in Cmds, NEW d \in Cmds, c # d,
           Step(c) \/ Crash(c) \/ \E k \in Kinds : TaskEnds(c, k)
    PROVE  /\ UNCHANGED <<pc[d], man[d], task[d], said[d], good[d], ev[d], status[d]>>
           /\ boots' \in Nat /\ boots =< boots'
<1> DEFINE Same == UNCHANGED <<pc[d], good[d], ev[d], status[d]>>
<1> USE DEF TypeOK
<1>1. CASE RunStep(c)
  <2> USE DEF GoTo, Conclude, target
  <2>1. UNCHANGED man /\ UNCHANGED boots
    BY <1>1, RunLeaves DEF RunStep, Begin, Read, PreState, BootEvidence, Mutate, Store,
       Apply, Poll, PostState, RebootEvidence, VerifyApply, RollbackRequest,
       RollbackVerify
  <2>2. task'[d] = task[d] /\ said'[d] = said[d]
    <3>1. CASE Poll(c)
      BY <3>1, PollCases DEF Poll
    <3> QED
      BY <1>1, <3>1 DEF RunStep, Begin, Read, PreState, BootEvidence, Mutate, Store,
         Apply, PostState, RebootEvidence, VerifyApply, RollbackRequest,
         RollbackVerify, Executed
  <2>3. CASE Begin(c) \/ Read(c) \/ PreState(c) \/ BootEvidence(c) \/ Mutate(c) \/ Store(c)
    BY <2>1, <2>2, <2>3 DEF Begin, Read, PreState, BootEvidence, Mutate, Store
  <2>4. CASE Apply(c) \/ VerifyApply(c)
    BY <2>1, <2>2, <2>4 DEF Apply, VerifyApply, ApplyRejected
  <2>5. CASE Poll(c)
    <3>1. ASSUME NEW stopped \in BOOLEAN, NEW exit \in Answer, PollEnds(c, stopped, exit)
          PROVE  UNCHANGED <<pc[d], status[d], good[d]>>
      BY <3>1 DEF PollEnds, ApplyRejected, RollbackEnds
    <3>2. UNCHANGED ev
      BY <2>5, Zenon DEF Poll
    <3>3. UNCHANGED <<pc[d], status[d], good[d]>>
      BY <2>5, <3>1, PollCases
    <3> QED
      BY <2>1, <2>2, <3>2, <3>3
  <2>6. CASE \/ PostState(c) \/ RebootEvidence(c) \/ RollbackRequest(c)
             \/ RollbackVerify(c)
    BY <2>1, <2>2, <2>6
       DEF PostState, RebootEvidence, RollbackRequest, RollbackVerify, RollbackEnds
  <2> QED
    BY <1>1, <2>3, <2>4, <2>5, <2>6 DEF RunStep
<1>2. CASE RollbackGate(c)
  <2>1. UNCHANGED <<vm, boots, task, said, good, ev>> /\ man'[d] = man[d]
    BY <1>2 DEF RollbackGate, target
  <2>2. UNCHANGED <<pc[d], status[d]>>
    BY <1>2 DEF RollbackGate, RollbackEnds, Conclude, GoTo
  <2> QED
    BY <2>1, <2>2
<1>3. CASE \/ WriteReceipt(c) \/ Load(c) \/ Open(c) \/ Write(c) \/ Replace(c)
           \/ Audit(c) \/ Crash(c)
  BY <1>3 DEF WriteReceipt, Load, Open, Write, Replace, Audit, Crash, Forgets, GoTo, target
<1>4. ASSUME NEW k \in Kinds, TaskEnds(c, k)
      PROVE  /\ UNCHANGED <<pc[d], man[d], task[d], said[d], good[d], ev[d], status[d]>>
             /\ boots' \in Nat /\ boots =< boots'
  BY <1>4 DEF TaskEnds
<1> QED
  BY <1>1, <1>2, <1>3, <1>4, Zenon DEF Step, RunStep

LEMMA CommandStep ==
    ASSUME TypeOK, \A d \in Cmds : CommandInv(d), [Next]_vars
    PROVE  \A d \in Cmds : CommandInv(d)'
<1>1. ASSUME NEW c \in Cmds, Step(c) \/ Crash(c) \/ \E k \in Kinds : TaskEnds(c, k),
             NEW d \in Cmds
      PROVE  CommandInv(d)'
  <2>1. CASE d # c
    BY <1>1, <2>1, Locality, OthersKeep
  <2>2. CASE d = c
    BY <1>1, <2>2, BeginInv, ReadInv, PreStateInv, BootEvidenceInv, MutateInv, StoreInv,
       ApplyInv, PollInv, PostStateInv, RebootEvidenceInv, VerifyApplyInv,
       RollbackGateInv, RollbackRequestInv, RollbackVerifyInv, SavingInv, CrashInv,
       TaskEndsInv, Zenon DEF Step
  <2> QED
    BY <2>1, <2>2
<1>2. ASSUME UNCHANGED vars, NEW d \in Cmds PROVE CommandInv(d)'
  BY <1>2, OthersKeep DEF vars, target, TypeOK
<1> QED
  BY <1>1, <1>2 DEF Next

(* For any commands, manifests and poll limit, whatever answers the target  *)
(* loses or delays: a task behind an accepted mutation, apply or rollback   *)
(* has ended, and ended well or without an exit status where that counts,   *)
(* unless an apply or rollback was answered 200 without a UPID string.      *)
THEOREM VerdictTrue == Spec => []AcceptedTruth
<1>1. ASSUME Init, NEW c \in Cmds PROVE CommandInv(c)
  BY <1>1, DeploymentAssumption
     DEF Init, CommandInv, HandlerOf, TaskKnown, VerdictLast, EvidencePast, TruthOf,
         NoEvidence, Kinds
<1>2. Init => \A c \in Cmds : CommandInv(c)
  BY <1>1
<1>3. (\A c \in Cmds : CommandInv(c)) => AcceptedTruth
  BY DEF CommandInv, TruthOf, AcceptedTruth, TaskDone, Vouched
<1>4. TypeOK /\ (\A c \in Cmds : CommandInv(c)) /\ [Next]_vars
        => (\A c \in Cmds : CommandInv(c))'
  BY CommandStep
<1> QED
  BY <1>2, <1>3, <1>4, TypeCorrect, PTL DEF Spec

-----------------------------------------------------------------------------
(* The shared history.                                                      *)

(* A command that is not recording comes and goes without effect on it.     *)
LEMMA Outside ==
    ASSUME TypeOK, NEW c \in Cmds, RunStep(c) \/ RollbackGate(c)
    PROVE  /\ pc[c] \in Unopened \ Saving /\ pc'[c] \notin Saving
           /\ UNCHANGED <<file, tmp, content, audit, fd, hist, raced>>
<1> USE DEF Unopened, Saving, Over, Locations, GoTo, Conclude
<1>1. pc[c] \in Unopened \ Saving
  BY DEF RunStep, RollbackGate, Begin, Read, PreState, BootEvidence, Mutate, Store, Apply,
         Poll, PostState, RebootEvidence, VerifyApply, RollbackRequest, RollbackVerify
<1>2. UNCHANGED <<file, tmp, content, audit, fd, hist, raced>>
  BY RunLeaves DEF RollbackGate, history
<1>3. pc'[c] \notin Saving
  <2> USE DEF TypeOK
  <2>1. CASE Begin(c) \/ Read(c) \/ PreState(c) \/ BootEvidence(c) \/ Mutate(c) \/ Store(c)
    BY <2>1 DEF Begin, Handler, Read, PreState, BootEvidence, Mutate, Store
  <2>2. CASE Apply(c) \/ VerifyApply(c)
    BY <2>2 DEF Apply, VerifyApply, ApplyRejected
  <2>3. CASE Poll(c)
    <3>1. ASSUME NEW stopped \in BOOLEAN, NEW exit \in Answer, PollEnds(c, stopped, exit)
          PROVE  pc'[c] \notin Saving
      BY <3>1 DEF PollEnds, ApplyRejected, RollbackEnds
    <3> QED
      BY <1>1, <2>3, <3>1, PollCases
  <2>4. CASE \/ PostState(c) \/ RebootEvidence(c) \/ RollbackRequest(c)
             \/ RollbackVerify(c)
    BY <2>4 DEF PostState, RebootEvidence, RollbackRequest, RollbackVerify, RollbackEnds
  <2>5. CASE RollbackGate(c)
    <3>1. pc' = [pc EXCEPT ![c] = "receipt"] \/ pc' = [pc EXCEPT ![c] = "rb_request"]
      BY <2>5, Zenon DEF RollbackGate, RollbackEnds
    <3> QED
      BY <3>1
  <2> QED
    BY <2>1, <2>2, <2>3, <2>4, <2>5 DEF RunStep
<1> QED
  BY <1>1, <1>2, <1>3

(* Losing a saver, by its end or its death, disturbs nobody.                *)
LEMMA SaverGone ==
    ASSUME TypeOK, SerialInv, NEW c \in Cmds, pc'[c] \notin Saving,
           pc'[c] \in Unopened => pc[c] \in Unopened,
           \A d \in Cmds : d # c => pc'[d] = pc[d] /\ hist'[d] = hist[d] /\ fd'[d] = fd[d],
           UNCHANGED <<file, tmp, content, audit>>
    PROVE  SerialInv'
<1>1. Releases' = Releases
  BY DEF Releases
<1>2. OneSaver'
  BY DEF SerialInv, OneSaver
<1>3. FilesApart'
  BY DEF SerialInv, FilesApart
<1>4. RecordsKept'
  BY <1>1 DEF SerialInv, RecordsKept, Saving
<1>5. ASSUME NEW d \in Cmds PROVE SaverCurrent(d)'
  BY <1>1 DEF SerialInv, SaverCurrent, Saving
<1> QED
  BY <1>2, <1>3, <1>4, <1>5 DEF SerialInv

LEMMA LoadKeeps ==
    ASSUME TypeOK, HistoryInv, NEW c \in Cmds, Load(c), ~raced'
    PROVE  SerialInv'
<1>1. /\ SerialInv /\ \A d \in Cmds : pc[d] \notin Saving
      /\ pc[c] = "load" /\ pc' = [pc EXCEPT ![c] = "open"]
      /\ hist' = [hist EXCEPT ![c] = Releases]
      /\ UNCHANGED <<file, tmp, content, audit, fd>>
  BY DEF Load, HistoryInv, GoTo
<1>2. Releases' = Releases
  BY <1>1 DEF Releases
<1>3. OneSaver'
  BY <1>1 DEF OneSaver, TypeOK
<1>4. FilesApart'
  BY <1>1 DEF SerialInv, FilesApart, Unopened, Saving, Over, Locations, TypeOK
<1>5. RecordsKept'
  BY <1>1, <1>2 DEF SerialInv, RecordsKept, TypeOK
<1>6. ASSUME NEW d \in Cmds PROVE SaverCurrent(d)'
  BY <1>1, <1>2 DEF SaverCurrent, Saving, TypeOK
<1> QED
  BY <1>3, <1>4, <1>5, <1>6 DEF SerialInv

(* The temporary file is nobody's history: truncating it is harmless.       *)
LEMMA OpenKeeps ==
    ASSUME TypeOK, SerialInv, NEW c \in Cmds, Open(c)
    PROVE  SerialInv'
<1> DEFINE f == IF tmp = None THEN c ELSE tmp
<1>1. /\ pc[c] = "open" /\ pc' = [pc EXCEPT ![c] = "write"]
      /\ fd' = [fd EXCEPT ![c] = f] /\ tmp' = f
      /\ content' = [content EXCEPT ![f] = Torn]
      /\ UNCHANGED <<file, audit, hist>>
  BY DEF Open, GoTo
<1>2. f \in Cmds /\ f # None /\ (file # None => file # f /\ file \in Cmds)
  BY <1>1, DeploymentAssumption DEF TypeOK, SerialInv, FilesApart, Unopened, Over, Locations, Saving
<1>3. \A d \in Cmds : d # c /\ pc[d] \in Unopened => d # f
  BY DEF SerialInv, FilesApart
<1>4. \A d \in Cmds : d # c => pc'[d] \notin Saving /\ pc'[d] = pc[d]
  BY <1>1 DEF SerialInv, OneSaver, Saving, TypeOK
<1> HIDE DEF f
<1>5. Releases' = Releases
  BY <1>1, <1>2 DEF Releases, TypeOK
<1>6. OneSaver'
  BY <1>4 DEF OneSaver
<1>7. FilesApart'
  <2>1. file' # None => file' # tmp' /\ content'[file'] # Torn
    BY <1>1, <1>2 DEF SerialInv, FilesApart, TypeOK
  <2>2. ASSUME NEW d \in Cmds, pc'[d] \in Unopened PROVE file' # d /\ tmp' # d
    <3>1. d # c
      BY <1>1, <2>2 DEF Unopened, TypeOK
    <3> QED
      BY <1>1, <1>3, <1>4, <2>2, <3>1 DEF SerialInv, FilesApart
  <2> QED
    BY <2>1, <2>2 DEF FilesApart
<1>8. RecordsKept'
  BY <1>1, <1>5 DEF SerialInv, RecordsKept, TypeOK
<1>9. ASSUME NEW d \in Cmds PROVE SaverCurrent(d)'
  <2>1. CASE d = c
    BY <1>1, <1>2, <1>5, <2>1 DEF SerialInv, SaverCurrent, TypeOK
  <2>2. CASE d # c
    BY <1>4, <2>2 DEF SaverCurrent, Saving
  <2> QED
    BY <2>1, <2>2
<1> QED
  BY <1>6, <1>7, <1>8, <1>9 DEF SerialInv

(* Appending a record keeps the others.                                     *)
LEMMA AppendRecords ==
    ASSUME NEW s \in Seq(Record), NEW r \in Record, NEW d
    PROVE  Recorded(Append(s, r), d) <=> Recorded(s, d) \/ r.id = d
<1>1. /\ Len(Append(s, r)) = Len(s) + 1 /\ Len(s) \in Nat
      /\ Append(s, r)[Len(s) + 1] = r
      /\ \A i \in 1 .. Len(s) : Append(s, r)[i] = s[i]
  OBVIOUS
<1> QED
  BY <1>1 DEF Recorded

(* A document is not a torn file.                                           *)
LEMMA NotTorn ==
    ASSUME NEW s \in Seq(Record)
    PROVE  s # Torn
<1>1. ASSUME s = Torn PROVE None \in Record
  <2>1. Len(s) = 1 /\ s[1] = None
    BY <1>1 DEF Torn
  <2> QED
    BY <2>1
<1> QED
  BY <1>1, DeploymentAssumption

(* The lone writer finds its file as it left it, and writes all of it.      *)
LEMMA WriteKeeps ==
    ASSUME TypeOK, SerialInv, NEW c \in Cmds, Write(c)
    PROVE  SerialInv'
<1> DEFINE data == Append(hist[c], from_receipt(c))
<1>1. /\ pc[c] = "write" /\ pc' = [pc EXCEPT ![c] = "replace"]
      /\ tmp \in Cmds /\ tmp # None /\ fd[c] = tmp /\ content[tmp] = Torn
      /\ hist[c] = Releases
      /\ UNCHANGED <<file, tmp, audit, hist, fd>>
  BY DEF Write, GoTo, SerialInv, SaverCurrent, TypeOK
<1>2. content' = [content EXCEPT ![tmp] = data]
  BY <1>1 DEF Write
<1>3. /\ from_receipt(c) \in Record /\ from_receipt(c).id = c
  BY DEF from_receipt, Record, TypeOK, Manifest
<1>4. data \in Seq(Record) /\ data # Torn
  <2>1. hist[c] \in Seq(Record)
    BY DEF TypeOK
  <2>2. data \in Seq(Record)
    BY <1>3, <2>1
  <2> QED
    BY <2>2, NotTorn
<1>5. Recorded(data, c) /\ \A d \in audit : Recorded(data, d)
  <2>1. hist[c] \in Seq(Record)
    BY DEF TypeOK
  <2>2. \A d \in audit : Recorded(hist[c], d)
    BY <1>1 DEF SerialInv, RecordsKept, TypeOK
  <2> QED
    BY <1>3, <2>1, <2>2, AppendRecords
<1> HIDE DEF data
<1>6. file # None => file \in Cmds /\ file # tmp
  BY DEF SerialInv, FilesApart, TypeOK
<1>7. Releases' = Releases
  BY <1>1, <1>2, <1>6 DEF Releases, TypeOK
<1>8. \A d \in Cmds : d # c => pc'[d] \notin Saving /\ pc'[d] = pc[d]
  BY <1>1 DEF SerialInv, OneSaver, Saving, TypeOK
<1>9. OneSaver'
  BY <1>8 DEF OneSaver
<1>10. FilesApart'
  <2>1. file' # None => file' # tmp' /\ content'[file'] # Torn
    BY <1>1, <1>2, <1>6 DEF SerialInv, FilesApart, TypeOK
  <2>2. ASSUME NEW d \in Cmds, pc'[d] \in Unopened PROVE file' # d /\ tmp' # d
    BY <1>1, <1>8, <2>2 DEF SerialInv, FilesApart, Unopened, TypeOK
  <2> QED
    BY <2>1, <2>2 DEF FilesApart
<1>11. RecordsKept'
  BY <1>1, <1>7 DEF SerialInv, RecordsKept, TypeOK
<1>12. ASSUME NEW d \in Cmds PROVE SaverCurrent(d)'
  <2>1. CASE d = c
    BY <1>1, <1>2, <1>4, <1>5, <2>1 DEF SaverCurrent, TypeOK
  <2>2. CASE d # c
    BY <1>8, <2>2 DEF SaverCurrent, Saving
  <2> QED
    BY <2>1, <2>2
<1> QED
  BY <1>9, <1>10, <1>11, <1>12 DEF SerialInv

LEMMA ReplaceKeeps ==
    ASSUME TypeOK, SerialInv, NEW c \in Cmds, Replace(c)
    PROVE  SerialInv'
<1>1. /\ pc[c] = "replace" /\ pc' = [pc EXCEPT ![c] = "audit"]
      /\ tmp \in Cmds /\ tmp # None /\ file' = tmp /\ tmp' = None
      /\ content[tmp] # Torn /\ Recorded(content[tmp], c)
      /\ \A d \in audit : Recorded(content[tmp], d)
      /\ UNCHANGED <<content, audit, hist, fd>>
  BY DEF Replace, GoTo, SerialInv, SaverCurrent, TypeOK
<1>2. Releases' = content[tmp]
  BY <1>1 DEF Releases
<1>3. \A d \in Cmds : d # c => pc'[d] \notin Saving /\ pc'[d] = pc[d]
  BY <1>1 DEF SerialInv, OneSaver, Saving, TypeOK
<1>4. OneSaver'
  BY <1>3 DEF OneSaver
<1>5. FilesApart'
  <2>1. ASSUME NEW d \in Cmds, pc'[d] \in Unopened PROVE file' # d /\ tmp' # d
    BY <1>1, <1>3, <2>1, DeploymentAssumption
       DEF SerialInv, FilesApart, Unopened, TypeOK
  <2> QED
    BY <1>1, <2>1 DEF FilesApart
<1>6. RecordsKept'
  BY <1>1, <1>2, <1>3 DEF RecordsKept, Saving
<1>7. ASSUME NEW d \in Cmds PROVE SaverCurrent(d)'
  BY <1>1, <1>3 DEF SaverCurrent, Saving, TypeOK
<1> QED
  BY <1>4, <1>5, <1>6, <1>7 DEF SerialInv

LEMMA AuditKeeps ==
    ASSUME TypeOK, SerialInv, NEW c \in Cmds, Audit(c)
    PROVE  SerialInv'
<1>1. /\ pc[c] = "audit" /\ pc' = [pc EXCEPT ![c] = "ended"]
      /\ audit' = audit \cup {c}
      /\ UNCHANGED <<file, tmp, content, hist, fd>>
  BY DEF Audit, GoTo
<1>2. Releases' = Releases
  BY <1>1 DEF Releases
<1>3. \A d \in Cmds : pc'[d] \notin Saving /\ (d # c => pc'[d] = pc[d])
  BY <1>1 DEF SerialInv, OneSaver, Saving, TypeOK
<1>4. OneSaver'
  BY <1>3 DEF OneSaver
<1>5. FilesApart'
  BY <1>1 DEF SerialInv, FilesApart, Unopened, Over, TypeOK
<1>6. RecordsKept'
  BY <1>1, <1>2, <1>3 DEF SerialInv, RecordsKept, Saving
<1>7. ASSUME NEW d \in Cmds PROVE SaverCurrent(d)'
  BY <1>3 DEF SaverCurrent, Saving
<1> QED
  BY <1>4, <1>5, <1>6, <1>7 DEF SerialInv

LEMMA HistoryStep ==
    ASSUME TypeOK, HistoryInv, [Next]_vars
    PROVE  HistoryInv'
<1>1. ASSUME NEW c \in Cmds, RunStep(c) \/ RollbackGate(c) PROVE HistoryInv'
  <2>1. \A d \in Cmds : d # c => pc'[d] = pc[d]
    BY <1>1, Locality DEF Step, RunStep
  <2> QED
    BY <1>1, <2>1, Outside, SaverGone DEF HistoryInv
<1>2. ASSUME NEW c \in Cmds, Load(c) PROVE HistoryInv'
  BY <1>2, LoadKeeps DEF HistoryInv
<1>3. ASSUME NEW c \in Cmds, Open(c) \/ Write(c) \/ Replace(c) \/ Audit(c)
      PROVE  HistoryInv'
  <2>1. raced' = raced
    BY <1>3 DEF Open, Write, Replace, Audit
  <2> QED
    BY <1>3, <2>1, OpenKeeps, WriteKeeps, ReplaceKeeps, AuditKeeps DEF HistoryInv
<1>4. ASSUME NEW c \in Cmds, Crash(c) \/ WriteReceipt(c) PROVE HistoryInv'
  <2>1. /\ pc'[c] \in {"dead", "ended", "load"}
        /\ pc'[c] = "load" => pc[c] = "receipt"
        /\ UNCHANGED <<file, tmp, content, audit, raced>>
        /\ \A d \in Cmds : d # c => pc'[d] = pc[d] /\ hist'[d] = hist[d] /\ fd'[d] = fd[d]
    BY <1>4 DEF Crash, WriteReceipt, Forgets, GoTo, TypeOK
  <2> QED
    BY <2>1, SaverGone DEF HistoryInv, Saving, Unopened, Over, Locations
<1>5. ASSUME UNCHANGED <<pc, file, tmp, content, audit, fd, hist, raced>>
      PROVE  HistoryInv'
  BY <1>5 DEF HistoryInv, SerialInv, OneSaver, FilesApart, RecordsKept, SaverCurrent,
              Releases
<1>6. ASSUME NEW c \in Cmds, NEW k \in Kinds, TaskEnds(c, k) PROVE HistoryInv'
  BY <1>5, <1>6 DEF TaskEnds, history
<1>7. CASE UNCHANGED vars
  BY <1>5, <1>7 DEF vars, history
<1> QED
  BY <1>1, <1>2, <1>3, <1>4, <1>6, <1>7, Cases

(* For any number of commands: as long as they record one after the other,  *)
(* the history file is a whole document at every moment, whoever dies while *)
(* writing it, and holds every release that was once recorded.              *)
THEOREM HistoryDurable == Spec => []HistoryKept
<1>1. Init => HistoryInv
  BY DeploymentAssumption
     DEF Init, HistoryInv, SerialInv, OneSaver, FilesApart, RecordsKept, SaverCurrent, Saving
<1>2. HistoryInv => HistoryKept
  BY DEF HistoryInv, SerialInv, FilesApart, RecordsKept, Recorded, HistoryKept
<1>3. TypeOK /\ HistoryInv /\ [Next]_vars => HistoryInv'
  BY HistoryStep
<1> QED
  BY <1>1, <1>2, <1>3, TypeCorrect, PTL DEF Spec

-----------------------------------------------------------------------------
=============================================================================
