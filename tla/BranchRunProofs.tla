-------------------------- MODULE BranchRunProofs ---------------------------
(***************************************************************************)
(* Proofs about BranchExecutor and BranchRun, for any branches, any join   *)
(* definitions and policies, any selection and any number of crashes and   *)
(* resumes.  While results arrive, the report is exactly what the tasks    *)
(* whose results were looked at did; what a join decides from it then      *)
(* holds of the tasks.                                                     *)
(***************************************************************************)
EXTENDS BranchRun, FiniteSetTheorems, SequenceTheorems, TLAPS

Tasks ==
    /\ \A b \in Branches :
          /\ at[b] <= Length[b]
          /\ task[b] = "completed" => at[b] = Length[b]
          /\ task[b] \in {"ready", "invoking"} => at[b] < Length[b]
          /\ b \in selected <=> task[b] # "off"
    /\ pending \subseteq selected
    /\ listed >= Cardinality(selected)

(* The report, while results arrive.                                        *)
Seen(result) == {b \in selected \ pending : task[b] = result}

Counting ==
    stage = "running" =>
        /\ Range(completed) = Seen("completed") /\ IsInjective(completed)
        /\ failed = Seen("failed") /\ cancelled = Seen("cancelled")
        /\ \A b \in selected \ pending : task[b] \in Finished
        /\ quorumMet => Path = "quorum" /\ Len(completed) >= Required

(* What justifies the cancellation of a branch.                             *)
Warrant ==
    CASE Path = "first" -> completed # << >>
      [] Path = "quorum" ->
            \/ quorumMet /\ Cardinality(Completed) >= Required
            \/ Cardinality(selected \ failed) < Required
      [] OTHER -> FALSE

Ended ==
    stage \in {"joined", "blocked"} => ReportTruthful /\ JoinSound /\ BlockedForCause

ExInv == Tasks /\ Counting /\ CancelJustified /\ Ended

(* The run around the executor.                                             *)
Numbered ==
    /\ \A b \in Branches : stepOf[b] <= next
    /\ \A b \in Branches : task[b] = "invoking" => stepOf[b] # 0
    /\ \A b, c \in Branches : b # c /\ stepOf[b] # 0 => stepOf[b] # stepOf[c]

Rows ==
    \A b \in Branches : \A i \in 1 .. at[b] :
        <<b, i>> \in Refused \/ AlreadyDone(<<b, i>>)

Flow ==
    /\ stage = "running" => pc = "fanout"
    /\ db.listed >= Cardinality(db.sel)
    /\ db.status = "completed" => pc = "off"
    /\ resumes = 0 =>
          /\ pc # "off" => inline /\ pc # "loop"
          /\ pc = "join" => stage = "joined" /\ payload = "merged"
          /\ pc = "end" => stage = "joined" /\ joinInput = "merged"
          /\ db.status = "completed" => joinInput = "merged" /\ stage = "joined"

IInv == TypeOK /\ ExInv /\ Numbered /\ Rows /\ Flow

-----------------------------------------------------------------------------
(* Lists of branches.                                                       *)

LEMMA Finite ==
    ASSUME NEW S, S \subseteq Branches
    PROVE  IsFiniteSet(S) /\ Cardinality(S) \in Nat
BY BranchAssumption, FS_Subset, FS_CardinalityType

(* A list without repetitions is as long as its elements are many.          *)
LEMMA ListSize ==
    ASSUME NEW s \in Seq(Branches), IsInjective(s)
    PROVE  Cardinality(Range(s)) = Len(s)
<1>1. s \in [1 .. Len(s) -> Range(s)] /\ Len(s) \in Nat
  BY DEF Range
<1>2. s \in Surjection(1 .. Len(s), Range(s)) /\ s \in Injection(1 .. Len(s), Range(s))
  BY <1>1 DEF Surjection, Injection, IsInjective, Range
<1>3. IsFiniteSet(1 .. Len(s)) /\ Cardinality(1 .. Len(s)) = Len(s)
  <2> DEFINE n == Len(s)
  <2>1. n \in Nat
    BY <1>1
  <2> HIDE DEF n
  <2>2. IsFiniteSet(1 .. n) /\ Cardinality(1 .. n) = n
    BY <2>1, FS_Interval
  <2> QED
    BY <2>2 DEF n
<1> QED
  BY <1>2, <1>3, FS_Surjection

(* The orders in which a set of branches may be listed.                     *)
LEMMA Listing ==
    ASSUME NEW S, S \subseteq Branches, NEW w \in SetToSeqs(S)
    PROVE  w \in Seq(Branches) /\ Range(w) = S /\ IsInjective(w)
<1> DEFINE n == Cardinality(S)
<1>1. n \in Nat /\ IsFiniteSet(S)
  BY Finite
<1>2. w \in [1 .. n -> S] /\ \A i, j \in 1 .. n : i # j => w[i] # w[j]
  BY DEF SetToSeqs
<1> HIDE DEF n
<1>3. IsInjective(w)
  BY <1>2 DEF IsInjective
<1>4. w \in Injection(1 .. n, S)
  BY <1>2, <1>3 DEF Injection
<1>5. Cardinality(1 .. n) = n
  BY <1>1, FS_Interval
<1>6. w \in Surjection(1 .. n, S)
  BY <1>1, <1>4, <1>5, FS_Injection DEF n
<1>7. Range(w) = S
  BY <1>2, <1>6 DEF Surjection, Range
<1>8. w \in Seq(Branches)
  BY <1>1, <1>2
<1> QED
  BY <1>3, <1>7, <1>8

LEMMA Appended ==
    ASSUME NEW s \in Seq(Branches), NEW w \in Seq(Branches),
           IsInjective(s), IsInjective(w), Range(s) \cap Range(w) = {}
    PROVE  /\ s \o w \in Seq(Branches) /\ Range(s \o w) = Range(s) \cup Range(w)
           /\ IsInjective(s \o w) /\ Len(s \o w) = Len(s) + Len(w)
<1> DEFINE z == s \o w
<1>1. /\ z \in Seq(Branches) /\ Len(z) = Len(s) + Len(w)
      /\ \A i \in 1 .. Len(s) : z[i] = s[i]
      /\ \A i \in Len(s) + 1 .. Len(z) : z[i] = w[i - Len(s)]
      /\ Len(s) \in Nat /\ Len(w) \in Nat /\ DOMAIN z = 1 .. Len(z)
      /\ DOMAIN s = 1 .. Len(s) /\ DOMAIN w = 1 .. Len(w)
  OBVIOUS
<1> HIDE DEF z
<1>2. ASSUME NEW i \in 1 .. Len(z)
      PROVE  \/ i \in 1 .. Len(s) /\ z[i] = s[i] /\ z[i] \in Range(s)
             \/ /\ i - Len(s) \in 1 .. Len(w) /\ z[i] = w[i - Len(s)]
                /\ z[i] \in Range(w)
  <2>1. CASE i <= Len(s)
    BY SMTT(30), <1>1, <2>1 DEF Range
  <2>2. CASE i > Len(s)
    <3>1. i - Len(s) \in 1 .. Len(w) /\ i \in Len(s) + 1 .. Len(z)
      BY <1>1, <2>2
    <3> QED
      BY <1>1, <3>1 DEF Range
  <2> QED
    BY <1>1, <2>1, <2>2
<1>3. Range(z) \subseteq Range(s) \cup Range(w)
  BY <1>1, <1>2 DEF Range
<1>4. Range(s) \subseteq Range(z)
  <2>1. ASSUME NEW i \in 1 .. Len(s) PROVE s[i] \in Range(z)
    <3>1. i \in 1 .. Len(z) /\ z[i] = s[i]
      BY <1>1
    <3> QED
      BY <1>1, <3>1 DEF Range
  <2> QED
    BY <1>1, <2>1 DEF Range
<1>5. Range(w) \subseteq Range(z)
  <2>1. ASSUME NEW i \in 1 .. Len(w) PROVE w[i] \in Range(z)
    <3>1. i + Len(s) \in Len(s) + 1 .. Len(z) /\ (i + Len(s)) - Len(s) = i
      BY <1>1
    <3>2. i + Len(s) \in DOMAIN z
      BY <1>1, <3>1
    <3>3. z[i + Len(s)] = w[(i + Len(s)) - Len(s)]
      BY <1>1, <3>1
    <3>4. z[i + Len(s)] = w[i]
      BY <3>1, <3>3
    <3> QED
      BY <3>2, <3>4 DEF Range
  <2> QED
    BY <1>1, <2>1 DEF Range
<1>6. ASSUME NEW i \in 1 .. Len(z), NEW j \in 1 .. Len(z), z[i] = z[j] PROVE i = j
  <2>1. CASE i \in 1 .. Len(s) /\ j \in 1 .. Len(s)
    BY <1>1, <1>6, <2>1 DEF IsInjective
  <2>2. CASE i \notin 1 .. Len(s) /\ j \notin 1 .. Len(s)
    <3>1. i - Len(s) \in 1 .. Len(w) /\ j - Len(s) \in 1 .. Len(w)
          /\ w[i - Len(s)] = w[j - Len(s)]
      BY <1>2, <1>6, <2>2
    <3>2. i - Len(s) = j - Len(s)
      BY <1>1, <3>1 DEF IsInjective
    <3> QED
      BY <1>1, <3>2
  <2>3. CASE i \in 1 .. Len(s) /\ j \notin 1 .. Len(s)
    BY <1>1, <1>2, <1>6, <2>3 DEF Range
  <2>4. CASE i \notin 1 .. Len(s) /\ j \in 1 .. Len(s)
    BY <1>1, <1>2, <1>6, <2>4 DEF Range
  <2> QED
    BY <2>1, <2>2, <2>3, <2>4
<1>7. IsInjective(z)
  BY <1>1, <1>6 DEF IsInjective
<1> QED
  BY <1>1, <1>3, <1>4, <1>5, <1>7 DEF z

LEMMA Prefix ==
    ASSUME NEW s \in Seq(Branches), IsInjective(s), NEW n \in 0 .. Len(s)
    PROVE  /\ SubSeq(s, 1, n) \in Seq(Branches) /\ Len(SubSeq(s, 1, n)) = n
           /\ Range(SubSeq(s, 1, n)) \subseteq Range(s)
           /\ IsInjective(SubSeq(s, 1, n))
           /\ n = Len(s) => Range(SubSeq(s, 1, n)) = Range(s)
<1> DEFINE z == SubSeq(s, 1, n)
<1>1. /\ z \in Seq(Branches) /\ Len(z) = n /\ \A i \in 1 .. n : z[i] = s[i]
      /\ Len(s) \in Nat
  <2>1. CASE n = 0
    BY <2>1, SubSeqEmpty
  <2>2. CASE n # 0
    BY <2>2, SubSeqProperties
  <2> QED
    BY <2>1, <2>2
<1> HIDE DEF z
<1>2. DOMAIN z = 1 .. n /\ DOMAIN s = 1 .. Len(s) /\ \A i \in 1 .. n : i \in 1 .. Len(s)
  BY <1>1
<1>3. Range(z) \subseteq Range(s) /\ (n = Len(s) => Range(z) = Range(s))
  BY <1>1, <1>2 DEF Range
<1>4. IsInjective(z)
  BY <1>1, <1>2 DEF IsInjective
<1> QED
  BY <1>1, <1>3, <1>4 DEF z

-----------------------------------------------------------------------------
(* The threshold of a quorum.                                               *)

LEMMA Ceiling ==
    ASSUME NEW x \in Nat, NEW y \in Nat, NEW k \in Nat \ {0}, NEW d \in Nat \ {0}
    PROVE  /\ (x * k + d - 1) \div d \in Nat
           /\ x >= 1 => (x * k + d - 1) \div d >= 1
           /\ x <= y => (x * k + d - 1) \div d <= (y * k + d - 1) \div d
<1> DEFINE xk == x * k
           yk == y * k
<1>1. xk \in Nat /\ yk \in Nat
  OBVIOUS
<1>2. x >= 1 => xk >= 1
  OBVIOUS
<1>3. x <= y => xk <= yk
  OBVIOUS
<1> HIDE DEF xk, yk
<1>4. (xk + d - 1) \div d \in Nat
  BY <1>1
<1>5. xk >= 1 => (xk + d - 1) \div d >= 1
  BY <1>1
<1>6. xk <= yk => (xk + d - 1) \div d <= (yk + d - 1) \div d
  <2> DEFINE a == xk + d - 1
             b == yk + d - 1
  <2>1. a \in Nat /\ b \in Nat /\ (xk <= yk => a <= b)
    BY <1>1
  <2> HIDE DEF a, b
  <2>2. a <= b => a \div d <= b \div d
    BY <2>1
  <2> QED
    BY <2>1, <2>2 DEF a, b
<1> QED
  BY <1>2, <1>3, <1>4, <1>5, <1>6 DEF xk, yk

(* A threshold is positive when branches are selected, and larger           *)
(* selections have larger thresholds.                                       *)
LEMMA ThresholdIs ==
    ASSUME config \in Configs, NEW x \in Nat, NEW y \in Nat
    PROVE  /\ Threshold(x) \in Nat
           /\ x >= 1 => Threshold(x) >= 1
           /\ x <= y => Threshold(x) <= Threshold(y)
<1> DEFINE c == config.count
           k == config.num
           d == config.den
<1>1. c \in Nat /\ k \in Nat /\ d \in Nat \ {0}
  BY ConfigAssumption DEF Config
<1> HIDE DEF c, k, d
<1>2. CASE c # 0
  BY <1>1, <1>2 DEF Threshold, c
<1>3. CASE c = 0 /\ k = 0
  BY <1>1, <1>3 DEF Threshold, c, k
<1>4. CASE c = 0 /\ k # 0
  <2>1. /\ (x * k + d - 1) \div d \in Nat
        /\ x >= 1 => (x * k + d - 1) \div d >= 1
        /\ x <= y => (x * k + d - 1) \div d <= (y * k + d - 1) \div d
    BY <1>1, <1>4, Ceiling
  <2>2. /\ Threshold(x) = (x * k + d - 1) \div d
        /\ Threshold(y) = (y * k + d - 1) \div d
    BY <1>4 DEF Threshold, c, k, d
  <2> QED
    BY <2>1, <2>2
<1> QED
  BY <1>2, <1>3, <1>4

LEMMA RequiredIs ==
    ASSUME TypeOK
    PROVE  /\ Cardinality(selected) \in Nat /\ Required \in Nat
           /\ selected # {} => Required >= 1
<1>1. selected \subseteq Branches /\ config \in Configs
  BY DEF TypeOK, ExTypeOK
<1>2. IsFiniteSet(selected) /\ Cardinality(selected) \in Nat
  BY <1>1, Finite
<1>3. selected # {} => Cardinality(selected) >= 1
  BY <1>2, FS_EmptySet
<1> QED
  BY <1>1, <1>2, <1>3, ThresholdIs DEF Required

-----------------------------------------------------------------------------
(* The executor, one action after the other.                                *)

LEMMA EmptyList == /\ << >> \in Seq(Branches) /\ Range(<< >>) = {}
                   /\ IsInjective(<< >>) /\ Len(<< >>) = 0
BY DEF Range, IsInjective

LEMMA FreshKeeps ==
    ASSUME TypeOK, NEW sel \in SUBSET Branches, NEW n \in Nat, n >= Cardinality(sel),
           NEW where \in {"idle", "running"}, Fresh(sel, n, where)
    PROVE  ExTypeOK' /\ ExInv'
<1>1. ExTypeOK'
  BY EmptyList DEF TypeOK, ExTypeOK, Fresh, Finished
<1>2. Tasks'
  BY BranchAssumption DEF TypeOK, ExTypeOK, Fresh, Tasks
<1>3. Counting'
  <2>1. completed' = << >> /\ failed' = {} /\ cancelled' = {} /\ ~quorumMet'
        /\ selected' \ pending' = {}
    BY DEF Fresh
  <2> QED
    BY <2>1, EmptyList DEF Counting, Seen
<1>4. CancelJustified'
  BY DEF Fresh, CancelJustified
<1>5. Ended'
  BY DEF Fresh, Ended
<1> QED
  BY <1>1, <1>2, <1>3, <1>4, <1>5 DEF ExInv

LEMMA VanishKeeps ==
    ASSUME TypeOK, Vanish
    PROVE  ExTypeOK' /\ ExInv'
<1>1. Cardinality({}) = 0
  BY FS_EmptySet
<1> QED
  BY <1>1, FreshKeeps DEF Vanish

LEMMA StartKeeps ==
    ASSUME TypeOK, NEW sel \in SUBSET Branches, NEW n \in Nat, n >= Cardinality(sel),
           Start(sel, n)
    PROVE  ExTypeOK' /\ ExInv'
BY FreshKeeps DEF Start

LEMMA ExecutorRests ==
    ASSUME ExTypeOK, ExInv, UNCHANGED exVars
    PROVE  ExTypeOK' /\ ExInv'
<1>1. ExTypeOK'
  BY DEF ExTypeOK, exVars, report
<1>2. Tasks' /\ Counting'
  BY DEF ExInv, exVars, report, Tasks, Counting, Seen, Path, Required, Threshold
<1>3. CancelJustified'
  BY DEF ExInv, exVars, report, CancelJustified, Completed, Path, Required, Threshold
<1>4. ReportTruthful' = ReportTruthful
  BY DEF exVars, report, ReportTruthful
<1>5. JoinSound' = JoinSound
  BY DEF exVars, report, JoinSound, Completed, Path, Required, Threshold
<1>6. BlockedForCause' = BlockedForCause
  BY DEF exVars, report, BlockedForCause, Completed, Path, Trimmed, Threshold
<1>7. Ended'
  BY <1>4, <1>5, <1>6 DEF ExInv, exVars, Ended
<1> QED
  BY <1>1, <1>2, <1>3, <1>7 DEF ExInv

(* A task whose result is waited for moves on.  No result that was looked   *)
(* at changes, and a cancellation that arrives was justified when it was    *)
(* sent.                                                                    *)
TaskMoves(b, result, nodes) ==
    /\ stage = "running" /\ task[b] \in {"ready", "invoking"}
    /\ result = "cancelled" => b \in cancelling
    /\ result = "completed" => nodes = Length[b]
    /\ result = "invoking" => nodes < Length[b]
    /\ task' = [task EXCEPT ![b] = result]
    /\ at' = [at EXCEPT ![b] = nodes]
    /\ UNCHANGED taskFrame

LEMMA Waited ==
    ASSUME TypeOK, ExInv, NEW b \in Branches,
           stage = "running", task[b] \in {"ready", "invoking"}
    PROVE  b \in pending /\ b \in selected
BY DEF ExInv, Tasks, Counting, Finished

LEMMA MovesKeep ==
    ASSUME TypeOK, ExInv, NEW b \in Branches, NEW r \in {"invoking"} \cup Finished,
           NEW n \in Nat, n <= Length[b], TaskMoves(b, r, n)
    PROVE  ExTypeOK' /\ ExInv'
<1>1. b \in pending /\ b \in selected
  BY Waited DEF TaskMoves
<1>2. /\ task' \in [Branches -> {"off", "ready", "invoking"} \cup Finished]
      /\ at' \in [Branches -> Nat]
      /\ task'[b] = r /\ at'[b] = n
      /\ \A c \in Branches : c # b => task'[c] = task[c] /\ at'[c] = at[c]
  BY DEF TypeOK, ExTypeOK, TaskMoves
<1>3. /\ config' = config /\ selected' = selected /\ listed' = listed /\ stage' = stage
      /\ cancelling' = cancelling /\ pending' = pending /\ completed' = completed
      /\ failed' = failed /\ cancelled' = cancelled /\ ignored' = ignored
      /\ quorumMet' = quorumMet /\ merged' = merged
  BY DEF TaskMoves, taskFrame, report
<1>4. ExTypeOK'
  BY <1>2, <1>3 DEF TypeOK, ExTypeOK
<1>5. Tasks'
  <2>1. \A c \in Branches : c # b =>
           /\ at'[c] <= Length[c]
           /\ task'[c] = "completed" => at'[c] = Length[c]
           /\ task'[c] \in {"ready", "invoking"} => at'[c] < Length[c]
           /\ c \in selected <=> task'[c] # "off"
    BY <1>2 DEF ExInv, Tasks
  <2>2. /\ at'[b] <= Length[b]
        /\ task'[b] = "completed" => at'[b] = Length[b]
        /\ task'[b] \in {"ready", "invoking"} => at'[b] < Length[b]
        /\ b \in selected <=> task'[b] # "off"
    BY <1>1, <1>2 DEF TaskMoves, Finished
  <2>3. selected' = selected /\ pending' = pending /\ listed' = listed
    BY <1>3
  <2>4. pending \subseteq selected /\ listed >= Cardinality(selected)
    BY DEF ExInv, Tasks
  <2>5. \A c \in Branches :
           /\ at'[c] <= Length[c]
           /\ task'[c] = "completed" => at'[c] = Length[c]
           /\ task'[c] \in {"ready", "invoking"} => at'[c] < Length[c]
           /\ c \in selected <=> task'[c] # "off"
    BY <2>1, <2>2
  <2> QED
    BY <2>3, <2>4, <2>5 DEF Tasks
<1>6. Counting'
  <2>1. \A c \in selected \ pending : c \in Branches /\ task'[c] = task[c]
    BY <1>1, <1>2 DEF TypeOK, ExTypeOK
  <2>2. /\ {c \in selected \ pending : task'[c] = "completed"} = Seen("completed")
        /\ {c \in selected \ pending : task'[c] = "failed"} = Seen("failed")
        /\ {c \in selected \ pending : task'[c] = "cancelled"} = Seen("cancelled")
    BY <2>1 DEF Seen
  <2>3. Path' = Path /\ Required' = Required
    BY <1>3 DEF Path, Required, Threshold
  <2>4. stage = "running"
    BY DEF TaskMoves
  <2>5. /\ Range(completed) = Seen("completed") /\ IsInjective(completed)
        /\ failed = Seen("failed") /\ cancelled = Seen("cancelled")
        /\ \A c \in selected \ pending : task[c] \in Finished
        /\ quorumMet => Path = "quorum" /\ Len(completed) >= Required
    BY <2>4 DEF ExInv, Counting
  <2>6. \A c \in selected \ pending : task'[c] \in Finished
    BY <2>1, <2>5
  <2>7. /\ Range(completed') = Seen("completed")' /\ failed' = Seen("failed")'
        /\ cancelled' = Seen("cancelled")'
    BY <1>3, <2>2, <2>5 DEF Seen
  <2> QED
    BY <1>3, <2>3, <2>5, <2>6, <2>7 DEF Counting
<1>7. CancelJustified'
  <2>1. Path' = Path /\ Required' = Required /\ Required \in Nat
    BY <1>3, RequiredIs DEF Path, Required, Threshold
  <2>2. /\ Completed \subseteq Completed' /\ Completed' \subseteq Branches
        /\ IsFiniteSet(Completed') /\ Cardinality(Completed) \in Nat
        /\ Cardinality(Completed') \in Nat
    <3>1. Completed \subseteq Completed' /\ Completed' \subseteq Branches
      BY <1>1, <1>2, <1>3 DEF TypeOK, ExTypeOK, Completed, TaskMoves
    <3> QED
      BY <3>1, Finite
  <2>3. Cardinality(Completed) <= Cardinality(Completed')
    BY <2>2, FS_Subset
  <2> SUFFICES ASSUME NEW c \in selected, c \in cancelling \/ task'[c] = "cancelled"
               PROVE  Warrant'
    BY <1>3, <2>1 DEF CancelJustified, Warrant
  <2>4. c \in cancelling \/ task[c] = "cancelled"
    BY <1>2 DEF TypeOK, ExTypeOK, TaskMoves
  <2>5. Warrant
    BY <2>4 DEF ExInv, CancelJustified, Warrant
  <2> QED
    BY <1>3, <2>1, <2>2, <2>3, <2>5 DEF Warrant
<1>8. Ended'
  BY <1>3 DEF Ended, TaskMoves
<1> QED
  BY <1>4, <1>5, <1>6, <1>7, <1>8 DEF ExInv

LEMMA TaskStepsKeep ==
    ASSUME TypeOK, ExInv, NEW b \in Branches,
           StartTask(b) \/ NodeSucceeds(b) \/ NodeFails(b) \/ CancelArrives(b)
    PROVE  ExTypeOK' /\ ExInv'
<1>1. /\ at \in [Branches -> Nat] /\ Length[b] \in Nat /\ at[b] \in Nat
      /\ at = [at EXCEPT ![b] = at[b]]
      /\ task[b] \in {"ready", "invoking"} => at[b] < Length[b]
  BY BranchAssumption DEF TypeOK, ExTypeOK, ExInv, Tasks
<1>2. CASE StartTask(b)
  <2>1. TaskMoves(b, "invoking", at[b])
    BY <1>1, <1>2 DEF StartTask, Ready, TaskMoves
  <2> QED
    BY <1>1, <1>2, <2>1, MovesKeep DEF StartTask, Ready
<1>3. CASE NodeSucceeds(b)
  <2> DEFINE r == IF at[b] + 1 = Length[b] THEN "completed" ELSE "invoking"
  <2>1. TaskMoves(b, r, at[b] + 1) /\ at[b] + 1 <= Length[b]
    BY <1>1, <1>3 DEF NodeSucceeds, Invoking, TaskMoves
  <2>2. r \in {"invoking"} \cup Finished
    BY DEF Finished
  <2> HIDE DEF r
  <2> QED
    BY <1>1, <2>1, <2>2, MovesKeep
<1>4. CASE NodeFails(b)
  <2>1. TaskMoves(b, "failed", at[b]) /\ at[b] <= Length[b]
    BY <1>1, <1>4 DEF NodeFails, Invoking, TaskMoves
  <2> QED
    BY <1>1, <2>1, MovesKeep DEF Finished
<1>5. CASE CancelArrives(b)
  <2>1. TaskMoves(b, "cancelled", at[b]) /\ at[b] <= Length[b]
    BY <1>1, <1>5 DEF CancelArrives, Invoking, TaskMoves
  <2> QED
    BY <1>1, <2>1, MovesKeep DEF Finished
<1> QED
  BY <1>2, <1>3, <1>4, <1>5

(* Results are looked at: the report stays what the tasks did.              *)
LEMMA Classified ==
    ASSUME TypeOK, ExInv, stage = "running",
           NEW done \in SUBSET pending, \A b \in done : task[b] \in Finished,
           NEW wins \in Wins(done), Classify(done, wins)
    PROVE  /\ completed' \in Seq(Branches) /\ IsInjective(completed')
           /\ Range(completed') = Seen("completed")'
           /\ failed' = Seen("failed")' /\ cancelled' = Seen("cancelled")'
           /\ \A b \in selected \ pending' : task[b] \in Finished
           /\ Len(completed') \in Nat /\ Len(completed) \in Nat
           /\ Len(completed') >= Len(completed)
           /\ failed \subseteq failed'
           /\ Cardinality(Completed) \in Nat /\ Cardinality(Completed) >= Len(completed')
<1> DEFINE W == {b \in done : task[b] = "completed"}
<1>1. /\ completed' = completed \o wins
      /\ failed' = failed \cup {b \in done : task[b] = "failed"}
      /\ cancelled' = cancelled \cup {b \in done : task[b] = "cancelled"}
      /\ pending' = pending \ done /\ selected' = selected /\ task' = task
  BY DEF Classify
<1>2. /\ Range(completed) = Seen("completed") /\ IsInjective(completed)
      /\ failed = Seen("failed") /\ cancelled = Seen("cancelled")
      /\ \A b \in selected \ pending : task[b] \in Finished
      /\ pending \subseteq selected /\ selected \subseteq Branches
      /\ completed \in Seq(Branches)
  BY DEF TypeOK, ExTypeOK, ExInv, Counting, Tasks
<1>3. W \subseteq Branches /\ wins \in SetToSeqs(W)
  BY <1>2 DEF Wins
<1> HIDE DEF W
<1>4. wins \in Seq(Branches) /\ Range(wins) = W /\ IsInjective(wins)
  BY <1>3, Listing
<1>5. Range(completed) \cap Range(wins) = {}
  BY <1>2, <1>4 DEF Seen, W
<1>6. /\ completed' \in Seq(Branches) /\ Range(completed') = Range(completed) \cup W
      /\ IsInjective(completed') /\ Len(completed') = Len(completed) + Len(wins)
  BY <1>1, <1>2, <1>4, <1>5, Appended
<1>7. Len(completed') \in Nat /\ Len(completed) \in Nat /\ Len(wins) \in Nat
  BY <1>2, <1>4, <1>6
<1>8. Range(completed') = Seen("completed")'
  BY <1>1, <1>2, <1>6 DEF Seen, W
<1>9. failed' = Seen("failed")' /\ cancelled' = Seen("cancelled")'
  BY <1>1, <1>2 DEF Seen
<1>10. \A b \in selected \ pending' : task[b] \in Finished
  BY <1>1, <1>2
<1>11. Range(completed') \subseteq Completed /\ Completed \subseteq Branches
  BY <1>1, <1>2, <1>8 DEF Seen, Completed
<1>12. IsFiniteSet(Completed) /\ Cardinality(Completed) \in Nat
  BY <1>11, Finite
<1>13. Cardinality(Range(completed')) = Len(completed')
  BY <1>6, ListSize
<1>14. Cardinality(Range(completed')) <= Cardinality(Completed)
  BY <1>11, <1>12, FS_Subset
<1> QED
  BY <1>1, <1>6, <1>7, <1>8, <1>9, <1>10, <1>12, <1>13, <1>14

(* The warrant of a cancellation is not lost while results arrive.          *)
LEMMA WarrantStays ==
    ASSUME TypeOK, ExInv, stage = "running",
           NEW done \in SUBSET pending, \A b \in done : task[b] \in Finished,
           NEW wins \in Wins(done), Classify(done, wins),
           quorumMet => quorumMet', Warrant
    PROVE  Warrant'
<1>1. /\ config' = config /\ selected' = selected /\ task' = task
      /\ Path' = Path /\ Required' = Required /\ Completed' = Completed
  BY DEF Classify, Path, Required, Threshold, Completed
<1>2. Len(completed) # 0 => Len(completed') # 0
  BY Classified
<1>3. completed # << >> => completed' # << >>
  <2>1. completed \in Seq(Branches)
    BY DEF TypeOK, ExTypeOK
  <2> QED
    BY <1>2, <2>1
<1>4. /\ selected \ failed' \subseteq selected \ failed
      /\ selected \ failed \subseteq Branches /\ selected \ failed' \subseteq Branches
  BY Classified DEF TypeOK, ExTypeOK
<1>5. /\ IsFiniteSet(selected \ failed) /\ Cardinality(selected \ failed) \in Nat
      /\ Cardinality(selected \ failed') \in Nat
  BY <1>4, Finite
<1>6. Cardinality(selected \ failed') <= Cardinality(selected \ failed)
  BY <1>4, <1>5, FS_Subset
<1>7. Required \in Nat
  BY RequiredIs
<1> QED
  BY <1>1, <1>3, <1>5, <1>6, <1>7 DEF Warrant

LEMMA CollectKeeps ==
    ASSUME TypeOK, ExInv, stage = "running",
           NEW done \in SUBSET pending, \A b \in done : task[b] \in Finished,
           NEW wins \in Wins(done), Classify(done, wins),
           cancelling' \subseteq Branches, quorumMet' \in BOOLEAN,
           quorumMet' => Path = "quorum" /\ Len(completed') >= Required,
           quorumMet => quorumMet',
           cancelling' = cancelling \/ Warrant'
    PROVE  ExTypeOK' /\ ExInv'
<1>1. /\ config' = config /\ selected' = selected /\ task' = task /\ at' = at
      /\ listed' = listed /\ stage' = stage /\ ignored' = ignored /\ merged' = merged
      /\ Path' = Path /\ Required' = Required /\ pending' = pending \ done
      /\ failed' = failed \cup {b \in done : task[b] = "failed"}
      /\ cancelled' = cancelled \cup {b \in done : task[b] = "cancelled"}
  BY DEF Classify, Path, Required, Threshold
<1>2. completed' \in Seq(Branches)
  BY Classified
<1>3. ExTypeOK'
  BY <1>1, <1>2 DEF TypeOK, ExTypeOK
<1>4. Tasks'
  BY <1>1 DEF ExInv, Tasks
<1>5. /\ Range(completed') = Seen("completed")' /\ IsInjective(completed')
      /\ failed' = Seen("failed")' /\ cancelled' = Seen("cancelled")'
      /\ \A b \in selected \ pending' : task[b] \in Finished
  BY Classified
<1>6. Counting'
  BY <1>1, <1>5 DEF Counting
<1>7. CancelJustified'
  <2> SUFFICES ASSUME NEW c \in selected, c \in cancelling' \/ task[c] = "cancelled"
               PROVE  Warrant'
    BY <1>1 DEF CancelJustified, Warrant
  <2>1. CASE cancelling' = cancelling
    <3>1. Warrant
      BY <2>1 DEF ExInv, CancelJustified, Warrant
    <3> QED
      BY <3>1, WarrantStays
  <2> QED
    BY <2>1
<1>8. Ended'
  BY <1>1 DEF Ended
<1> QED
  BY <1>3, <1>4, <1>6, <1>7, <1>8 DEF ExInv

LEMMA CollectAllKeeps ==
    ASSUME TypeOK, ExInv, CollectAll
    PROVE  ExTypeOK' /\ ExInv'
<1>1. stage = "running" /\ Done = pending /\ cancelling' = cancelling
      /\ quorumMet' = quorumMet /\ cancelling \subseteq Branches /\ quorumMet \in BOOLEAN
  BY DEF CollectAll, TypeOK, ExTypeOK
<1>2. PICK wins \in Wins(pending) : Classify(pending, wins)
  BY DEF CollectAll
<1>3. \A b \in pending : task[b] \in Finished
  BY <1>1 DEF Done
<1>4. Len(completed') >= Len(completed) /\ Len(completed') \in Nat /\ Len(completed) \in Nat
  BY <1>1, <1>2, <1>3, Classified
<1>5. quorumMet => Path = "quorum" /\ Len(completed) >= Required
  BY <1>1 DEF ExInv, Counting
<1>6. quorumMet' => Path = "quorum" /\ Len(completed') >= Required
  BY <1>1, <1>4, <1>5, RequiredIs
<1> QED
  BY <1>1, <1>2, <1>3, <1>6, CollectKeeps

LEMMA CollectFirstKeeps ==
    ASSUME TypeOK, ExInv, CollectFirst
    PROVE  ExTypeOK' /\ ExInv'
<1>1. stage = "running" /\ Path = "first" /\ quorumMet' = quorumMet
      /\ cancelling \subseteq Branches /\ quorumMet \in BOOLEAN
      /\ pending \subseteq Branches
  BY DEF CollectFirst, CollectBatch, TypeOK, ExTypeOK
<1>2. PICK wins \in Wins(Done) : Classify(Done, wins)
  BY DEF CollectFirst, CollectBatch
<1>3. Done \subseteq pending /\ \A b \in Done : task[b] \in Finished
  BY DEF Done
<1>4. ~quorumMet
  BY <1>1 DEF ExInv, Counting
<1>5. pending' \subseteq Branches /\ Path' = Path
  BY <1>1, <1>2 DEF Classify, Path
<1>6. cancelling' \subseteq Branches
  BY <1>1, <1>5 DEF CollectFirst
<1>7. completed' # << >> => Warrant'
  BY <1>1, <1>5 DEF Warrant
<1>8. cancelling' = cancelling \/ Warrant'
  BY <1>7 DEF CollectFirst
<1> QED
  BY <1>1, <1>2, <1>3, <1>4, <1>6, <1>8, CollectKeeps

(* When what may still succeed is too little for the quorum, the branches   *)
(* that did not fail are too few; if some were cancelled before, they       *)
(* already were.                                                            *)
LEMMA HopelessWarrants ==
    ASSUME TypeOK, ExInv, stage = "running", Path = "quorum",
           NEW done \in SUBSET pending, \A b \in done : task[b] \in Finished,
           NEW wins \in Wins(done), Classify(done, wins),
           ~quorumMet, Hopeless(Len(completed'), pending')
    PROVE  Warrant'
<1>1. /\ selected' = selected /\ task' = task /\ config' = config
      /\ Path' = Path /\ Required' = Required /\ pending' = pending \ done
  BY DEF Classify, Path, Required, Threshold
<1>2. /\ Range(completed') = {b \in selected \ pending' : task[b] = "completed"}
      /\ failed' = {b \in selected \ pending' : task[b] = "failed"}
      /\ \A b \in selected \ pending' : task[b] \in Finished
      /\ completed' \in Seq(Branches) /\ IsInjective(completed')
      /\ failed \subseteq failed' /\ Len(completed') \in Nat
  BY <1>1, Classified DEF Seen
<1>3. selected \subseteq Branches /\ pending \subseteq Branches /\ pending' \subseteq Branches
  BY <1>1 DEF TypeOK, ExTypeOK
<1>4. Required \in Nat
  BY RequiredIs
<1>5. CASE \E b \in selected : task[b] = "cancelled"
  <2>1. Warrant
    BY <1>5 DEF ExInv, CancelJustified, Warrant
  <2>2. Cardinality(selected \ failed) < Required
    BY <2>1 DEF Warrant
  <2>3. /\ selected \ failed' \subseteq selected \ failed
        /\ selected \ failed \subseteq Branches /\ selected \ failed' \subseteq Branches
    BY <1>2, <1>3
  <2>4. /\ IsFiniteSet(selected \ failed) /\ Cardinality(selected \ failed) \in Nat
        /\ Cardinality(selected \ failed') \in Nat
    BY <2>3, Finite
  <2>5. Cardinality(selected \ failed') <= Cardinality(selected \ failed)
    BY <2>3, <2>4, FS_Subset
  <2>6. Cardinality(selected \ failed') < Required
    BY <1>4, <2>2, <2>4, <2>5
  <2> QED
    BY <1>1, <2>6 DEF Warrant
<1>6. CASE \A b \in selected : task[b] # "cancelled"
  <2> DEFINE R == Range(completed')
             P == pending'
             K == selected \ failed'
  <2>1. K \subseteq R \cup P /\ R \cup P \subseteq Branches /\ R \subseteq Branches
        /\ P \subseteq Branches /\ K \subseteq Branches
    BY <1>2, <1>3, <1>6 DEF Finished
  <2>2. Cardinality(R) = Len(completed')
    BY <1>2, ListSize
  <2> HIDE DEF R, P, K
  <2>3. /\ IsFiniteSet(R) /\ IsFiniteSet(P) /\ IsFiniteSet(R \cup P)
        /\ Cardinality(R) \in Nat /\ Cardinality(P) \in Nat /\ Cardinality(K) \in Nat
        /\ Cardinality(R \cup P) \in Nat /\ Cardinality(R \cap P) \in Nat
    <3>1. R \cap P \subseteq Branches
      BY <2>1
    <3> QED
      BY <2>1, <3>1, Finite
  <2>4. Cardinality(R \cup P) = Cardinality(R) + Cardinality(P) - Cardinality(R \cap P)
    BY <2>3, FS_Union
  <2>5. Cardinality(K) <= Cardinality(R \cup P)
    BY <2>1, <2>3, FS_Subset
  <2>6. Cardinality(R) + Cardinality(P) < Required
    BY <2>2 DEF Hopeless, P
  <2>7. Cardinality(K) < Required
    BY <1>4, <2>3, <2>4, <2>5, <2>6
  <2> QED
    BY <1>1, <2>7 DEF Warrant, K
<1> QED
  BY <1>5, <1>6

LEMMA CollectQuorumKeeps ==
    ASSUME TypeOK, ExInv, CollectQuorum
    PROVE  ExTypeOK' /\ ExInv'
<1>1. /\ stage = "running" /\ Path = "quorum" /\ cancelling \subseteq Branches
      /\ quorumMet \in BOOLEAN /\ pending \subseteq Branches
      /\ quorumMet' = (quorumMet \/ Len(completed') >= Required)
  BY DEF CollectQuorum, CollectBatch, TypeOK, ExTypeOK
<1>2. PICK wins \in Wins(Done) : Classify(Done, wins)
  BY DEF CollectQuorum, CollectBatch
<1>3. Done \subseteq pending /\ \A b \in Done : task[b] \in Finished
  BY DEF Done
<1>4. /\ Len(completed') >= Len(completed) /\ Len(completed') \in Nat
      /\ Len(completed) \in Nat /\ Cardinality(Completed) \in Nat
      /\ Cardinality(Completed) >= Len(completed')
  BY <1>1, <1>2, <1>3, Classified
<1>5. quorumMet => Len(completed) >= Required
  BY <1>1 DEF ExInv, Counting
<1>6. Required \in Nat
  BY RequiredIs
<1>7. quorumMet' => Len(completed') >= Required
  BY <1>1, <1>4, <1>5, <1>6
<1>8. /\ pending' \subseteq Branches /\ Path' = Path /\ Required' = Required
      /\ Completed' = Completed
  BY <1>1, <1>2 DEF Classify, Path, Required, Threshold, Completed
<1>9. quorumMet' => Warrant'
  <2>1. quorumMet' => Cardinality(Completed) >= Required
    BY <1>4, <1>6, <1>7
  <2> QED
    BY <1>1, <1>8, <2>1 DEF Warrant
<1>10. ~quorumMet' /\ Hopeless(Len(completed'), pending') => Warrant'
  <2>1. ~quorumMet' => ~quorumMet
    BY <1>1
  <2> QED
    BY <1>1, <1>2, <1>3, <2>1, HopelessWarrants
<1>11. cancelling' \subseteq Branches
  BY <1>1, <1>8 DEF CollectQuorum
<1>12. cancelling' = cancelling \/ Warrant'
  BY <1>9, <1>10 DEF CollectQuorum
<1>13. quorumMet' \in BOOLEAN /\ (quorumMet => quorumMet')
  BY <1>1
<1> QED
  BY <1>1, <1>2, <1>3, <1>7, <1>11, <1>12, <1>13, CollectKeeps

LEMMA CollectIsSound ==
    ASSUME TypeOK, ExInv, Collect
    PROVE  ExTypeOK' /\ ExInv'
BY CollectAllKeeps, CollectFirstKeeps, CollectQuorumKeeps DEF Collect

(* What the join decides from.                                              *)
LEMMA AtJoin ==
    ASSUME TypeOK, ExInv, stage = "running", pending = {}
    PROVE  /\ completed \in Seq(Branches) /\ Range(completed) = Completed
           /\ IsInjective(completed) /\ Len(completed) \in Nat
           /\ Len(completed) = Cardinality(Completed)
           /\ failed = {b \in selected : task[b] = "failed"}
           /\ cancelled = {b \in selected : task[b] = "cancelled"}
           /\ \A b \in selected : task[b] \in Finished
           /\ Required \in Nat /\ Threshold(listed) \in Nat
           /\ Required <= Threshold(listed) /\ (selected # {} => Required >= 1)
           /\ quorumMet => Path = "quorum" /\ Len(completed) >= Required
<1>1. /\ completed \in Seq(Branches) /\ Range(completed) = Completed
      /\ IsInjective(completed) /\ Len(completed) \in Nat
      /\ failed = {b \in selected : task[b] = "failed"}
      /\ cancelled = {b \in selected : task[b] = "cancelled"}
      /\ \A b \in selected : task[b] \in Finished
      /\ quorumMet => Path = "quorum" /\ Len(completed) >= Required
  <2>1. completed \in Seq(Branches) /\ Len(completed) \in Nat
    BY DEF TypeOK, ExTypeOK
  <2>2. selected \ pending = selected
    OBVIOUS
  <2> QED
    BY <2>1, <2>2 DEF ExInv, Counting, Seen, Completed
<1>2. Len(completed) = Cardinality(Completed)
  BY <1>1, ListSize
<1>3. /\ Cardinality(selected) \in Nat /\ Required \in Nat
      /\ selected # {} => Required >= 1
  BY RequiredIs
<1>4. config \in Configs /\ listed \in Nat /\ Cardinality(selected) <= listed
  BY <1>3 DEF TypeOK, ExTypeOK, ExInv, Tasks
<1>5. Threshold(listed) \in Nat
  BY <1>4, ThresholdIs
<1>6. Required <= Threshold(listed)
  BY <1>3, <1>4, ThresholdIs DEF Required
<1> QED
  BY <1>1, <1>2, <1>3, <1>5, <1>6

LEMMA CountedIs ==
    ASSUME TypeOK, ExInv, stage = "running", pending = {}
    PROVE  /\ Counted \in Seq(Branches) /\ IsInjective(Counted)
           /\ Range(Counted) \subseteq Range(completed)
           /\ Len(Counted) \in Nat /\ Len(Counted) <= Len(completed)
           /\ Trimmed => /\ Len(Counted) = Required
                         /\ \/ Len(completed) > Required
                            \/ Range(Counted) = Range(completed)
           /\ ~Trimmed => Counted = completed
<1>1. /\ completed \in Seq(Branches) /\ IsInjective(completed) /\ Len(completed) \in Nat
      /\ Required \in Nat /\ (quorumMet => Len(completed) >= Required)
  BY AtJoin
<1>2. CASE Trimmed
  <2> DEFINE n == Required
  <2>1. n \in 0 .. Len(completed)
    BY <1>1, <1>2 DEF Trimmed
  <2>2. Counted = SubSeq(completed, 1, n)
    BY <1>2 DEF Counted, First
  <2> HIDE DEF n
  <2>3. /\ Counted \in Seq(Branches) /\ Len(Counted) = n
        /\ Range(Counted) \subseteq Range(completed) /\ IsInjective(Counted)
        /\ n = Len(completed) => Range(Counted) = Range(completed)
    BY <1>1, <2>1, <2>2, Prefix
  <2> QED
    BY <1>1, <1>2, <2>1, <2>3 DEF n
<1>3. CASE ~Trimmed
  BY <1>1, <1>3 DEF Counted
<1> QED
  BY <1>2, <1>3

LEMMA ConfigIs ==
    ASSUME TypeOK
    PROVE  /\ config.wait \in {"all", "any", "first", "quorum"}
           /\ Path \in {"first", "quorum", "gather"}
           /\ Path = "quorum" <=> config.wait = "quorum" /\ config.policy # "cancel_on_first"
           /\ Path = "first" <=> config.policy = "cancel_on_first"
           /\ OnlyFirst => Path = "first" \/ config.wait \in {"any", "first"}
BY ConfigAssumption DEF TypeOK, ExTypeOK, Config, Path, OnlyFirst

(* Without a success, no join goes on.                                      *)
LEMMA NothingJoined ==
    ASSUME TypeOK, ExInv, stage = "running", pending = {}, ~Blocks, selected # {}
    PROVE  completed # << >>
<1> SUFFICES ASSUME completed = << >> PROVE FALSE
  OBVIOUS
<1>1. Len(completed) = 0 /\ Range(completed) = {}
  BY EmptyList
<1>2. config.wait # "quorum"
  <2>1. Len(Counted) = 0
    BY <1>1, CountedIs
  <2>2. Threshold(listed) >= 1 /\ Threshold(listed) \in Nat
    BY AtJoin
  <2> QED
    BY <2>1, <2>2 DEF Blocks
<1>3. config.wait = "all" /\ failed = {}
  BY <1>2, ConfigIs DEF Blocks
<1>4. PICK b \in selected : TRUE
  OBVIOUS
<1>5. task[b] = "cancelled"
  BY <1>1, <1>3, AtJoin DEF Completed, Finished
<1>6. Warrant
  BY <1>5 DEF ExInv, CancelJustified, Warrant
<1>7. Path # "quorum"
  BY <1>2, ConfigIs
<1> QED
  BY <1>6, <1>7 DEF Warrant

LEMMA MergeIs ==
    ASSUME TypeOK, ExInv, stage = "running", pending = {}, ~Blocks
    PROVE  /\ MergeBranches \in Seq(Branches)
           /\ Range(MergeBranches) \subseteq Range(completed)
           /\ selected # {} => MergeBranches # << >>
           /\ Path = "quorum" => Len(MergeBranches) = Required
<1> DEFINE m == MergeBranches
<1>1. /\ completed \in Seq(Branches) /\ IsInjective(completed) /\ Len(completed) \in Nat
      /\ Required \in Nat /\ Required <= Threshold(listed) /\ Threshold(listed) \in Nat
      /\ selected # {} => Required >= 1
  BY AtJoin
<1>2. selected # {} => completed # << >>
  BY NothingJoined
<1>3. CASE OnlyFirst /\ completed = << >>
  <2>1. m = << >> /\ Path # "quorum"
    BY <1>3, ConfigIs DEF MergeBranches
  <2> QED
    BY <1>2, <1>3, <2>1, EmptyList
<1>4. CASE OnlyFirst /\ completed # << >>
  <2>1. m = SubSeq(completed, 1, 1) /\ Path # "quorum"
    BY <1>4, ConfigIs DEF MergeBranches, First
  <2>2. 1 \in 0 .. Len(completed)
    BY <1>1, <1>4
  <2> HIDE DEF m
  <2>3. m \in Seq(Branches) /\ Len(m) = 1 /\ Range(m) \subseteq Range(completed)
    BY <1>1, <2>1, <2>2, Prefix
  <2>4. m # << >>
    BY <2>3
  <2> QED
    BY <2>1, <2>3, <2>4 DEF m
<1>5. CASE ~OnlyFirst /\ Path = "quorum"
  <2> DEFINE n == Required
  <2>1. m = SubSeq(completed, 1, n)
    BY <1>5 DEF MergeBranches, First
  <2>2. Len(Counted) >= Threshold(listed) /\ Len(Counted) <= Len(completed)
        /\ Len(Counted) \in Nat
    BY <1>1, <1>5, ConfigIs, CountedIs DEF Blocks
  <2>3. n \in 0 .. Len(completed)
    BY <1>1, <2>2
  <2> HIDE DEF m, n
  <2>4. m \in Seq(Branches) /\ Len(m) = n /\ Range(m) \subseteq Range(completed)
    BY <1>1, <2>1, <2>3, Prefix
  <2>5. selected # {} => Len(m) >= 1
    BY <1>1, <2>4 DEF n
  <2>6. selected # {} => m # << >>
    BY <2>4, <2>5
  <2> QED
    BY <2>4, <2>6 DEF m, n
<1>6. CASE ~OnlyFirst /\ Path # "quorum"
  <2>1. m = completed
    BY <1>6 DEF MergeBranches
  <2> QED
    BY <1>1, <1>2, <1>6, <2>1
<1> QED
  BY <1>3, <1>4, <1>5, <1>6

LEMMA JoinKeeps ==
    ASSUME TypeOK, ExInv, Join
    PROVE  ExTypeOK' /\ ExInv'
<1> DEFINE m == MergeBranches
<1>1. stage = "running" /\ pending = {}
  BY DEF Join
<1>2. /\ completed' = Counted /\ ignored' = Late /\ pending' = {}
      /\ config' = config /\ selected' = selected /\ listed' = listed /\ task' = task
      /\ at' = at /\ cancelling' = cancelling /\ failed' = failed
      /\ cancelled' = cancelled /\ quorumMet' = quorumMet
      /\ Blocks => stage' = "blocked" /\ merged' = << >>
      /\ ~Blocks => stage' = "joined" /\ merged' = m
  BY <1>1 DEF Join
<1>3. /\ Path' = Path /\ Required' = Required /\ Trimmed' = Trimmed
      /\ Completed' = Completed /\ Threshold(listed)' = Threshold(listed)
  BY <1>2 DEF Path, Required, Threshold, Trimmed, Completed
<1>4. /\ Range(completed) = Completed /\ Len(completed) = Cardinality(Completed)
      /\ completed \in Seq(Branches) /\ Len(completed) \in Nat
      /\ failed = {b \in selected : task[b] = "failed"}
      /\ cancelled = {b \in selected : task[b] = "cancelled"}
      /\ \A b \in selected : task[b] \in Finished
      /\ Required \in Nat /\ Threshold(listed) \in Nat
      /\ Required <= Threshold(listed) /\ (selected # {} => Required >= 1)
      /\ quorumMet => Path = "quorum" /\ Len(completed) >= Required
  BY <1>1, AtJoin
<1>5. /\ Counted \in Seq(Branches) /\ IsInjective(Counted)
      /\ Range(Counted) \subseteq Range(completed)
      /\ Len(Counted) \in Nat /\ Len(Counted) <= Len(completed)
      /\ Trimmed => /\ Len(Counted) = Required
                    /\ \/ Len(completed) > Required
                       \/ Range(Counted) = Range(completed)
      /\ ~Trimmed => Counted = completed
  BY <1>1, CountedIs
<1>6. ~Blocks => /\ m \in Seq(Branches) /\ Range(m) \subseteq Range(completed)
                 /\ selected # {} => m # << >>
                 /\ Path = "quorum" => Len(m) = Required
  BY <1>1, MergeIs
<1> HIDE DEF m
<1>7. Late \subseteq Range(completed) /\ Completed \subseteq Branches
  BY DEF Late, TypeOK, ExTypeOK, Completed
<1>8. merged' \in Seq(Branches) /\ stage' \in {"joined", "blocked"}
  BY <1>2, <1>6, EmptyList
<1>9. ExTypeOK'
  BY <1>2, <1>4, <1>5, <1>7, <1>8 DEF TypeOK, ExTypeOK
<1>10. Tasks'
  BY <1>1, <1>2 DEF ExInv, Tasks
<1>11. Counting'
  BY <1>8 DEF Counting
<1>12. CancelJustified'
  <2> SUFFICES ASSUME NEW c \in selected, c \in cancelling \/ task[c] = "cancelled"
               PROVE  Warrant'
    BY <1>2 DEF CancelJustified, Warrant
  <2>1. Warrant
    BY DEF ExInv, CancelJustified, Warrant
  <2>2. Path = "first" => Counted = completed
    BY <1>5 DEF Trimmed
  <2> QED
    BY <1>2, <1>3, <2>1, <2>2 DEF Warrant
<1>13. ReportTruthful'
  <2>1. \A b \in selected : task[b] = "completed" =>
           at[b] = Length[b] /\ b \in Range(Counted) \cup Late
    <3> SUFFICES ASSUME NEW b \in selected, task[b] = "completed"
                 PROVE  at[b] = Length[b] /\ b \in Range(Counted) \cup Late
      OBVIOUS
    <3>1. at[b] = Length[b]
      BY DEF ExInv, Tasks, TypeOK, ExTypeOK
    <3>2. b \in Range(completed)
      BY <1>4 DEF Completed
    <3>3. Trimmed /\ Len(completed) > Required => b \in Late
      BY <3>2 DEF Late
    <3>4. ~(Trimmed /\ Len(completed) > Required) => b \in Range(Counted)
      BY <1>5, <3>2
    <3> QED
      BY <3>1, <3>3, <3>4
  <2>2. \A b \in Range(Counted) : task[b] = "completed"
    BY <1>4, <1>5 DEF Completed
  <2>3. /\ \A b \in selected : task[b] \in {"completed", "failed", "cancelled"}
        /\ \A b \in selected : task[b] = "failed" => b \in failed
        /\ \A b \in selected : task[b] = "cancelled" => b \in cancelled
        /\ \A b \in failed : task[b] = "failed"
        /\ \A b \in cancelled : task[b] = "cancelled"
    BY <1>4 DEF Finished
  <2>4. \A b \in selected' \ pending' :
              CASE task'[b] = "completed" ->
                      at'[b] = Length[b] /\ b \in Range(completed') \cup ignored'
                [] task'[b] = "failed" -> b \in failed'
                [] task'[b] = "cancelled" -> b \in cancelled'
                [] OTHER -> FALSE
    BY <1>2, <2>1, <2>3
  <2> QED
    BY <1>2, <1>5, <2>2, <2>3, <2>4 DEF ReportTruthful
<1>14. JoinSound'
  <2> SUFFICES ASSUME ~Blocks
               PROVE  /\ selected # {} => m # << >>
                      /\ Range(m) \subseteq Completed
                      /\ config.wait = "all" => \A b \in selected : task[b] # "failed"
                      /\ config.wait = "quorum" =>
                            Cardinality(Completed) >= Threshold(listed)
                      /\ Path = "quorum" /\ listed = Cardinality(selected) =>
                            Len(m) = Required
    BY <1>2, <1>3 DEF JoinSound
  <2>1. config.wait = "all" => \A b \in selected : task[b] # "failed"
    BY <1>4 DEF Blocks
  <2>2. config.wait = "quorum" => Cardinality(Completed) >= Threshold(listed)
    BY <1>4, <1>5 DEF Blocks
  <2> QED
    BY <1>4, <1>6, <2>1, <2>2
<1>15. BlockedForCause'
  <2> SUFFICES ASSUME Blocks
               PROVE  /\ config.wait = "all" => \E b \in selected : task[b] = "failed"
                      /\ config.wait \in {"any", "first"} => Completed = {}
                      /\ Path = "quorum" =>
                            /\ Trimmed \/ Cardinality(Completed) < Threshold(listed)
                            /\ quorumMet => listed > Cardinality(selected)
    BY <1>2, <1>3 DEF BlockedForCause
  <2>1. config.wait = "all" => \E b \in selected : task[b] = "failed"
    BY <1>4 DEF Blocks
  <2>2. config.wait \in {"any", "first"} => Completed = {}
    BY <1>4, EmptyList DEF Blocks
  <2>3. Path = "quorum" => Len(Counted) < Threshold(listed)
    BY ConfigIs DEF Blocks
  <2>4. Path = "quorum" => Trimmed \/ Cardinality(Completed) < Threshold(listed)
    BY <1>4, <1>5, <2>3
  <2>5. Path = "quorum" /\ quorumMet => listed > Cardinality(selected)
    <3>1. Cardinality(selected) \in Nat /\ listed \in Nat /\ listed >= Cardinality(selected)
      BY RequiredIs DEF TypeOK, ExTypeOK, ExInv, Tasks
    <3>2. listed = Cardinality(selected) => Threshold(listed) = Required
      BY DEF Required
    <3>3. quorumMet => Len(Counted) >= Required
      BY <1>4, <1>5
    <3> QED
      BY <1>4, <1>5, <2>3, <3>1, <3>2, <3>3
  <2> QED
    BY <2>1, <2>2, <2>4, <2>5
<1>16. Ended'
  BY <1>13, <1>14, <1>15 DEF Ended
<1> QED
  BY <1>9, <1>10, <1>11, <1>12, <1>16 DEF ExInv

-----------------------------------------------------------------------------
(* The run around the executor.                                             *)

dbSet == [status : {"running", "failed", "completed"}, step : Nat, routed : BOOLEAN,
          sel : SUBSET Branches, listed : Nat, outputs : BOOLEAN]
rowSet == [step : Nat \ {0}, node : {RouterNode, JoinNode} \cup (Branches \X Nat)]

RunTypes ==
    /\ pc \in {"off", "router", "route", "fanout", "loop", "join", "end"}
    /\ payload \in {"none", "router", "merged"}
    /\ joinInput \in {"none", "router", "merged"}
    /\ inline \in BOOLEAN /\ live \in BOOLEAN
    /\ next \in Nat /\ resumes \in 0 .. MaxResumes /\ index \in 0 .. 2
    /\ stepOf \in [Branches -> Nat]
    /\ db \in dbSet /\ ledger \subseteq rowSet

LEMMA TypeParts == /\ TypeOK <=> ExTypeOK /\ RunTypes
                   /\ TypeOK' <=> ExTypeOK' /\ RunTypes'
BY DEF TypeOK, RunTypes, dbSet, rowSet

LEMMA DbIs ==
    ASSUME RunTypes
    PROVE  /\ db.status \in {"running", "failed", "completed"} /\ db.step \in Nat
           /\ db.routed \in BOOLEAN /\ db.sel \in SUBSET Branches /\ db.listed \in Nat
           /\ db.outputs \in BOOLEAN
BY DEF RunTypes, dbSet

LEMMA RowsGrow ==
    ASSUME Rows, at' = at, ledger \subseteq ledger'
    PROVE  Rows'
BY DEF Rows, AlreadyDone

LEMMA CommitRow ==
    ASSUME RunTypes, NEW s \in Nat \ {0},
           NEW node \in {RouterNode, JoinNode} \cup (Branches \X Nat), Commit(s, node)
    PROVE  /\ ledger' \subseteq rowSet /\ ledger \subseteq ledger' /\ (\E r \in ledger' : r.node = node)
           /\ db' \in dbSet /\ db'.status = db.status /\ db'.sel = db.sel
           /\ db'.listed = db.listed
<1>1. ledger' = ledger \cup {[step |-> s, node |-> node]}
  BY DEF Commit, Accepted
<1>2. [step |-> s, node |-> node] \in rowSet
  BY DEF rowSet
<1>3. /\ db' \in dbSet /\ db'.status = db.status /\ db'.sel = db.sel
      /\ db'.listed = db.listed
  BY DEF RunTypes, Commit, dbSet
<1> QED
  BY <1>1, <1>2, <1>3 DEF RunTypes, AlreadyDone

(* The router and the join.                                                 *)
LEMMA RouterCommitsKeeps ==
    ASSUME IInv, RouterCommits
    PROVE  IInv'
<1> USE DEF IInv
<1>1. RunTypes /\ ExTypeOK /\ next + 1 \in Nat \ {0} /\ next \in Nat
  BY TypeParts DEF RunTypes
<1>2. /\ ledger' \subseteq rowSet /\ ledger \subseteq ledger' /\ db' \in dbSet
      /\ db'.status = db.status /\ db'.sel = db.sel /\ db'.listed = db.listed
  BY <1>1, CommitRow DEF RouterCommits
<1>3. ExTypeOK' /\ ExInv'
  BY <1>1, ExecutorRests DEF RouterCommits
<1>4. RunTypes'
  BY <1>1, <1>2 DEF RouterCommits, RunTypes
<1>5. Numbered'
  BY <1>1 DEF RouterCommits, RunTypes, Numbered, exVars
<1>6. Rows'
  BY <1>2, RowsGrow DEF RouterCommits, exVars
<1>7. Flow'
  BY <1>2 DEF RouterCommits, Flow, exVars
<1> QED
  BY <1>3, <1>4, <1>5, <1>6, <1>7, TypeParts

LEMMA JoinCommitsKeeps ==
    ASSUME IInv, JoinCommits
    PROVE  IInv'
<1> USE DEF IInv
<1>1. RunTypes /\ ExTypeOK /\ next + 1 \in Nat \ {0} /\ next \in Nat
  BY TypeParts DEF RunTypes
<1>2. /\ ledger' \subseteq rowSet /\ ledger \subseteq ledger' /\ db' \in dbSet
      /\ db'.status = db.status /\ db'.sel = db.sel /\ db'.listed = db.listed
  BY <1>1, CommitRow DEF JoinCommits
<1>3. ExTypeOK' /\ ExInv'
  BY <1>1, ExecutorRests DEF JoinCommits
<1>4. RunTypes'
  BY <1>1, <1>2 DEF JoinCommits, RunTypes
<1>5. Numbered'
  BY <1>1 DEF JoinCommits, RunTypes, Numbered, exVars
<1>6. Rows'
  BY <1>2, RowsGrow DEF JoinCommits, exVars
<1>7. Flow'
  BY <1>2 DEF JoinCommits, Flow, exVars
<1> QED
  BY <1>3, <1>4, <1>5, <1>6, <1>7, TypeParts

LEMMA FailKeeps ==
    ASSUME IInv, pc \in {"router", "join"}, FailRun
    PROVE  IInv'
<1> USE DEF IInv
<1>1. RunTypes /\ ExTypeOK
  BY TypeParts
<1>2. /\ db' \in dbSet /\ db'.status = "failed" /\ db'.sel = db.sel
      /\ db'.listed = db.listed
  BY <1>1 DEF FailRun, Failed, RunTypes, dbSet
<1>3. ExTypeOK' /\ ExInv'
  BY <1>1, ExecutorRests DEF FailRun
<1>4. RunTypes'
  BY <1>1, <1>2 DEF FailRun, RunTypes
<1>5. Numbered'
  BY DEF FailRun, Numbered, exVars
<1>6. Rows'
  BY RowsGrow DEF FailRun, exVars
<1>7. Flow'
  BY <1>2 DEF FailRun, Flow, exVars
<1> QED
  BY <1>3, <1>4, <1>5, <1>6, <1>7, TypeParts

LEMMA CompleteKeeps ==
    ASSUME IInv, Complete
    PROVE  IInv'
<1> USE DEF IInv
<1>1. RunTypes /\ ExTypeOK
  BY TypeParts
<1>2. /\ db' \in dbSet /\ db'.status = "completed" /\ db'.sel = db.sel
      /\ db'.listed = db.listed
  BY <1>1 DEF Complete, RunTypes, dbSet
<1>3. ExTypeOK' /\ ExInv'
  BY <1>1, ExecutorRests DEF Complete
<1>4. RunTypes'
  BY <1>1, <1>2 DEF Complete, RunTypes
<1>5. Numbered'
  BY DEF Complete, Numbered, exVars
<1>6. Rows'
  BY RowsGrow DEF Complete, exVars
<1>7. Flow'
  BY <1>2 DEF Complete, Flow, exVars
<1> QED
  BY <1>3, <1>4, <1>5, <1>6, <1>7, TypeParts

LEMMA LoopKeeps ==
    ASSUME IInv, Loop
    PROVE  IInv'
<1> USE DEF IInv
<1>1. RunTypes /\ ExTypeOK
  BY TypeParts
<1>2. LoopAt(index) \in {"end", "join", "router"}
  BY DEF LoopAt
<1>3. ExTypeOK' /\ ExInv'
  BY <1>1, ExecutorRests DEF Loop
<1>4. RunTypes'
  BY <1>1, <1>2 DEF Loop, RunTypes
<1>5. Numbered'
  BY DEF Loop, Numbered, exVars
<1>6. Rows'
  BY RowsGrow DEF Loop, exVars
<1>7. Flow'
  BY <1>2 DEF Loop, Flow, exVars
<1> QED
  BY <1>3, <1>4, <1>5, <1>6, <1>7, TypeParts

(* The start of a fan-out, by its router or on resume.                      *)
LEMMA FanOutStarts ==
    ASSUME TypeOK, NEW sel \in SUBSET Branches, NEW n \in Nat, n >= Cardinality(sel),
           FanOut(sel, n)
    PROVE  /\ ExTypeOK' /\ ExInv' /\ stage' = "running" /\ pc' = "fanout"
           /\ db' \in dbSet /\ db'.status = db.status /\ db'.sel = sel
           /\ db'.listed = n
           /\ \A b \in Branches : at'[b] = 0 /\ task'[b] # "invoking"
<1>1. ExTypeOK' /\ ExInv'
  BY StartKeeps DEF FanOut
<1>2. RunTypes
  BY TypeParts
<1>3. db' \in dbSet /\ db'.status = db.status /\ db'.sel = sel /\ db'.listed = n
  BY <1>2 DEF FanOut, RunTypes, dbSet
<1>4. /\ stage' = "running" /\ pc' = "fanout"
      /\ \A b \in Branches : at'[b] = 0 /\ task'[b] # "invoking"
  BY DEF FanOut, Start, Fresh
<1> QED
  BY <1>1, <1>3, <1>4

LEMMA NothingRan ==
    ASSUME \A b \in Branches : at'[b] = 0
    PROVE  Rows'
BY DEF Rows

LEMMA RouteKeeps ==
    ASSUME IInv, Route
    PROVE  IInv'
<1> USE DEF IInv
<1>1. RunTypes /\ ExTypeOK
  BY TypeParts
<1>2. PICK sel \in SUBSET Branches, extra \in 0 .. Repeats :
         FanOut(sel, Cardinality(sel) + extra)
  BY DEF Route
<1> DEFINE n == Cardinality(sel) + extra
<1>3. n \in Nat /\ n >= Cardinality(sel)
  BY Finite, RunAssumption
<1>4. FanOut(sel, n)
  BY <1>2
<1> HIDE DEF n
<1>5. /\ ExTypeOK' /\ ExInv' /\ stage' = "running" /\ pc' = "fanout"
      /\ db' \in dbSet /\ db'.status = db.status /\ db'.sel = sel
      /\ db'.listed = n
      /\ \A b \in Branches : at'[b] = 0 /\ task'[b] # "invoking"
  BY <1>3, <1>4, FanOutStarts
<1>6. RunTypes'
  BY <1>1, <1>5 DEF Route, RunTypes
<1>7. Numbered'
  BY <1>5 DEF Route, Numbered
<1>8. Rows'
  BY <1>5, NothingRan
<1>9. Flow'
  BY <1>3, <1>5 DEF Route, Flow
<1> QED
  BY <1>5, <1>6, <1>7, <1>8, <1>9, TypeParts

(* The end of a process, and resume.                                        *)
LEMMA CrashKeeps ==
    ASSUME IInv, Crash
    PROVE  IInv'
<1> USE DEF IInv
<1>1. RunTypes /\ ExTypeOK
  BY TypeParts
<1>2. ExTypeOK' /\ ExInv'
  BY VanishKeeps DEF Crash
<1>3. stage' = "idle" /\ \A b \in Branches : at'[b] = 0 /\ task'[b] = "off"
  BY DEF Crash, Vanish, Fresh
<1>4. RunTypes'
  <2>1. index' \in 0 .. 2
    BY DEF Crash
  <2> QED
    BY <1>1, <2>1 DEF Crash, RunTypes
<1>5. Numbered'
  BY <1>3 DEF Crash, Numbered
<1>6. Rows'
  BY <1>3, NothingRan
<1>7. Flow'
  BY <1>3 DEF Crash, Flow
<1> QED
  BY <1>2, <1>4, <1>5, <1>6, <1>7, TypeParts

LEMMA ResumeKeeps ==
    ASSUME IInv, Resume
    PROVE  IInv'
<1> USE DEF IInv
<1>1. RunTypes /\ ExTypeOK
  BY TypeParts
<1>2. /\ resumes' \in 1 .. MaxResumes /\ next' \in Nat /\ live' \in BOOLEAN
      /\ payload' \in {"none", "router", "merged"} /\ inline' = FALSE
      /\ stepOf' = [b \in Branches |-> 0] /\ ledger' = ledger /\ joinInput' = joinInput
      /\ index' \in 0 .. 2 /\ db.status # "completed" /\ db.listed >= Cardinality(db.sel)
  BY <1>1, DbIs, RunAssumption DEF Resume, RunTypes, Restored, StartIndex, Flow
<1>3. /\ ExTypeOK' /\ ExInv' /\ (stage' = "running" => pc' = "fanout")
      /\ pc' \in {"fanout", "loop"}
      /\ db' \in dbSet /\ db'.status = db.status /\ db'.listed >= Cardinality(db'.sel)
      /\ \A b \in Branches : at'[b] = 0 /\ task'[b] # "invoking"
  <2>1. CASE db.routed /\ ~db.outputs
    <3> DEFINE sel == db.sel
               n == db.listed
    <3>1. sel \in SUBSET Branches /\ n \in Nat /\ n >= Cardinality(sel)
      BY <1>1, <1>2, DbIs
    <3>2. FanOut(sel, n)
      BY <2>1 DEF Resume
    <3> HIDE DEF sel, n
    <3>3. /\ ExTypeOK' /\ ExInv' /\ stage' = "running" /\ pc' = "fanout"
          /\ db' \in dbSet /\ db'.status = db.status /\ db'.sel = sel
          /\ db'.listed = n
          /\ \A b \in Branches : at'[b] = 0 /\ task'[b] # "invoking"
      BY <3>1, <3>2, FanOutStarts
    <3> QED
      BY <3>1, <3>3
  <2>2. CASE ~(db.routed /\ ~db.outputs)
    <3>1. Vanish /\ pc' = "loop" /\ db' = db
      BY <2>2 DEF Resume
    <3>2. ExTypeOK' /\ ExInv'
      BY <3>1, VanishKeeps
    <3>3. stage' = "idle" /\ \A b \in Branches : at'[b] = 0 /\ task'[b] = "off"
      BY <3>1 DEF Vanish, Fresh
    <3> QED
      BY <1>1, <1>2, <3>1, <3>2, <3>3 DEF RunTypes
  <2> QED
    BY <2>1, <2>2
<1>4. RunTypes'
  <2>1. /\ resumes' \in 0 .. MaxResumes /\ stepOf' \in [Branches -> Nat]
        /\ pc' \in {"off", "router", "route", "fanout", "loop", "join", "end"}
    BY <1>2, <1>3, RunAssumption
  <2>2. /\ joinInput' \in {"none", "router", "merged"} /\ inline' \in BOOLEAN
        /\ ledger' \subseteq rowSet
    BY <1>1, <1>2 DEF RunTypes
  <2> QED
    BY <1>2, <1>3, <2>1, <2>2, Zenon DEF RunTypes
<1>5. Numbered'
  BY <1>2, <1>3 DEF Numbered
<1>6. Rows'
  BY <1>3, NothingRan
<1>7. Flow'
  BY <1>2, <1>3 DEF Flow
<1> QED
  BY <1>3, <1>4, <1>5, <1>6, <1>7, TypeParts

(* The branches of a fan-out.                                               *)
LEMMA BranchFrame ==
    ASSUME Flow, UNCHANGED branchFrame, stage' = stage,
           db'.status = db.status, db'.sel = db.sel, db'.listed = db.listed
    PROVE  Flow'
BY DEF Flow, branchFrame

LEMMA AllocateNumbers ==
    ASSUME RunTypes, Numbered, NEW b \in Branches, Allocate(b),
           \A c \in Branches : c # b => task'[c] = task[c]
    PROVE  Numbered' /\ next' \in Nat /\ stepOf' \in [Branches -> Nat]
<1>1. /\ next \in Nat /\ next' = next + 1 /\ stepOf' \in [Branches -> Nat]
      /\ stepOf'[b] = next + 1 /\ \A c \in Branches : stepOf[c] \in Nat
      /\ \A c \in Branches : c # b => stepOf'[c] = stepOf[c]
  BY DEF RunTypes, Allocate
<1>2. \A c \in Branches : stepOf'[c] <= next'
  BY <1>1 DEF Numbered
<1>3. \A c \in Branches : task'[c] = "invoking" => stepOf'[c] # 0
  BY <1>1 DEF Numbered
<1>4. \A c, d \in Branches : c # d /\ stepOf'[c] # 0 => stepOf'[c] # stepOf'[d]
  BY <1>1 DEF Numbered
<1> QED
  BY <1>1, <1>2, <1>3, <1>4 DEF Numbered

LEMMA NumbersStay ==
    ASSUME Numbered, UNCHANGED <<next, stepOf>>,
           \A c \in Branches : task'[c] = "invoking" => task[c] = "invoking"
    PROVE  Numbered'
BY DEF Numbered

LEMMA AllocateNextNumbers ==
    ASSUME TypeOK, Numbered, NEW b \in Branches, NodeSucceeds(b), AllocateNext(b),
           at[b] < Length[b]
    PROVE  Numbered' /\ next' \in Nat /\ stepOf' \in [Branches -> Nat]
<1>1. RunTypes /\ task \in [Branches -> {"off", "ready", "invoking"} \cup Finished]
      /\ at[b] \in Nat /\ Length[b] \in Nat
  BY TypeParts, BranchAssumption DEF ExTypeOK
<1>2. /\ \A c \in Branches : c # b => task'[c] = task[c]
      /\ at[b] + 1 = Length[b] => task'[b] = "completed"
  BY <1>1 DEF NodeSucceeds
<1>3. CASE at[b] + 1 < Length[b]
  <2>1. Allocate(b)
    BY <1>3 DEF AllocateNext
  <2> QED
    BY <1>1, <1>2, <2>1, AllocateNumbers
<1>4. CASE ~(at[b] + 1 < Length[b])
  <2>1. UNCHANGED <<next, stepOf>> /\ at[b] + 1 = Length[b]
    BY <1>1, <1>4 DEF AllocateNext
  <2>2. \A c \in Branches : task'[c] = "invoking" => task[c] = "invoking"
    BY <1>2, <2>1
  <2> QED
    BY <1>1, <2>1, <2>2, NumbersStay DEF RunTypes
<1> QED
  BY <1>3, <1>4

(* A branch gets past a node when it has a row or was refused.              *)
LEMMA RowsAdvance ==
    ASSUME TypeOK, Rows, NEW b \in Branches, NodeSucceeds(b), ledger \subseteq ledger',
           Current(b) \in Refused \/ \E r \in ledger' : r.node = Current(b)
    PROVE  Rows'
<1>1. /\ at \in [Branches -> Nat] /\ at[b] \in Nat /\ at'[b] = at[b] + 1
      /\ \A c \in Branches : c # b => at'[c] = at[c]
  BY DEF TypeOK, ExTypeOK, NodeSucceeds
<1>2. ASSUME NEW c \in Branches, NEW i \in 1 .. at[c]
      PROVE  <<c, i>> \in Refused \/ \E r \in ledger' : r.node = <<c, i>>
  BY DEF Rows, AlreadyDone
<1>3. <<b, at[b] + 1>> \in Refused \/ \E r \in ledger' : r.node = <<b, at[b] + 1>>
  BY DEF Current
<1>4. ASSUME NEW c \in Branches, NEW i \in 1 .. at'[c]
      PROVE  <<c, i>> \in Refused \/ \E r \in ledger' : r.node = <<c, i>>
  <2>1. CASE c # b \/ i # at[b] + 1
    <3>1. i \in 1 .. at[c]
      BY <1>1, <2>1
    <3> QED
      BY <1>2, <3>1
  <2>2. CASE c = b /\ i = at[b] + 1
    BY <1>3, <2>2
  <2> QED
    BY <2>1, <2>2
<1> QED
  BY <1>4 DEF Rows, AlreadyDone

LEMMA LaunchKeeps ==
    ASSUME IInv, NEW b \in Branches, LaunchTask(b)
    PROVE  IInv'
<1> USE DEF IInv
<1>1. RunTypes /\ ExTypeOK
  BY TypeParts
<1>2. ExTypeOK' /\ ExInv'
  BY TaskStepsKeep DEF LaunchTask
<1>3. stage' = stage /\ at' = at /\ \A c \in Branches : c # b => task'[c] = task[c]
  BY <1>1 DEF LaunchTask, StartTask, taskFrame, ExTypeOK
<1>4. Numbered' /\ next' \in Nat /\ stepOf' \in [Branches -> Nat]
  BY <1>1, <1>3, AllocateNumbers DEF LaunchTask
<1>5. RunTypes'
  BY <1>1, <1>4 DEF LaunchTask, branchFrame, RunTypes
<1>6. Rows'
  BY <1>3, RowsGrow DEF LaunchTask
<1>7. Flow'
  BY <1>3, BranchFrame DEF LaunchTask
<1> QED
  BY <1>2, <1>4, <1>5, <1>6, <1>7, TypeParts

LEMMA SucceedsFrame ==
    ASSUME IInv, NEW b \in Branches, NodeSucceeds(b)
    PROVE  /\ ExTypeOK' /\ ExInv' /\ stage' = stage /\ at[b] \in Nat
           /\ at[b] < Length[b] /\ stepOf[b] \in Nat \ {0}
<1>1. RunTypes /\ ExTypeOK
  BY TypeParts DEF IInv
<1>2. ExTypeOK' /\ ExInv'
  BY TaskStepsKeep DEF IInv
<1>3. stage' = stage /\ at[b] \in Nat /\ at[b] < Length[b]
  BY <1>1 DEF IInv, NodeSucceeds, Invoking, taskFrame, ExTypeOK, ExInv, Tasks
<1>4. stepOf[b] \in Nat \ {0}
  BY <1>1 DEF IInv, NodeSucceeds, Invoking, Numbered, RunTypes
<1> QED
  BY <1>2, <1>3, <1>4

LEMMA NodeCommitsKeeps ==
    ASSUME IInv, NEW b \in Branches, NodeCommits(b)
    PROVE  IInv'
<1> USE DEF IInv
<1> DEFINE s == stepOf[b]
           node == Current(b)
<1>1. RunTypes /\ ExTypeOK
  BY TypeParts
<1>2. /\ ExTypeOK' /\ ExInv' /\ stage' = stage /\ at[b] \in Nat
      /\ at[b] < Length[b] /\ s \in Nat \ {0}
  BY SucceedsFrame DEF NodeCommits
<1>3. node \in Branches \X Nat
  BY <1>2 DEF Current
<1>4. Commit(s, node)
  BY DEF NodeCommits
<1>5. Numbered' /\ next' \in Nat /\ stepOf' \in [Branches -> Nat]
  BY <1>2, AllocateNextNumbers DEF NodeCommits
<1> HIDE DEF s, node
<1>6. /\ ledger' \subseteq rowSet /\ ledger \subseteq ledger' /\ (\E r \in ledger' : r.node = node)
      /\ db' \in dbSet /\ db'.status = db.status /\ db'.sel = db.sel
      /\ db'.listed = db.listed
  BY <1>1, <1>2, <1>3, <1>4, CommitRow
<1>7. RunTypes'
  BY <1>1, <1>5, <1>6 DEF NodeCommits, branchFrame, RunTypes
<1>8. Rows'
  BY <1>6, RowsAdvance DEF NodeCommits, node
<1>9. Flow'
  BY <1>2, <1>6, BranchFrame DEF NodeCommits
<1> QED
  BY <1>2, <1>5, <1>7, <1>8, <1>9, TypeParts

LEMMA NodeDeniedKeeps ==
    ASSUME IInv, NEW b \in Branches, NodeDenied(b)
    PROVE  IInv'
<1> USE DEF IInv
<1>1. RunTypes /\ ExTypeOK
  BY TypeParts
<1>2. /\ ExTypeOK' /\ ExInv' /\ stage' = stage /\ at[b] < Length[b]
  BY SucceedsFrame DEF NodeDenied
<1>3. Numbered' /\ next' \in Nat /\ stepOf' \in [Branches -> Nat]
  BY <1>2, AllocateNextNumbers DEF NodeDenied
<1>4. RunTypes'
  BY <1>1, <1>3 DEF NodeDenied, branchFrame, RunTypes
<1>5. Rows'
  BY RowsAdvance DEF NodeDenied
<1>6. Flow'
  BY <1>2, BranchFrame DEF NodeDenied
<1> QED
  BY <1>2, <1>3, <1>4, <1>5, <1>6, TypeParts

(* Steps of the executor that leave rows and steps alone.                   *)
LEMMA QuietKeeps ==
    ASSUME IInv, ExTypeOK', ExInv', at' = at, stage' = stage,
           UNCHANGED <<next, stepOf, db, ledger, branchFrame>>,
           \A c \in Branches : task'[c] = "invoking" => task[c] = "invoking"
    PROVE  IInv'
<1> USE DEF IInv
<1>1. RunTypes
  BY TypeParts
<1>2. RunTypes'
  BY <1>1 DEF branchFrame, RunTypes
<1>3. Numbered'
  BY NumbersStay
<1>4. Rows'
  BY RowsGrow
<1>5. Flow'
  BY BranchFrame
<1> QED
  BY <1>2, <1>3, <1>4, <1>5, TypeParts

LEMMA NodeErrsKeeps ==
    ASSUME IInv, NEW b \in Branches, NodeErrs(b) \/ NodeCancelled(b)
    PROVE  IInv'
<1>1. NodeFails(b) \/ CancelArrives(b)
  BY DEF NodeErrs, NodeCancelled
<1>2. ExTypeOK' /\ ExInv'
  BY <1>1, TaskStepsKeep DEF IInv
<1>3. task \in [Branches -> {"off", "ready", "invoking"} \cup Finished]
  BY DEF IInv, TypeOK, ExTypeOK
<1>4. /\ at' = at /\ stage' = stage
      /\ \A c \in Branches : task'[c] = "invoking" => task[c] = "invoking"
  BY <1>1, <1>3 DEF NodeFails, CancelArrives, taskFrame
<1>5. UNCHANGED <<next, stepOf, db, ledger, branchFrame>>
  BY DEF NodeErrs, NodeCancelled
<1> QED
  BY <1>2, <1>4, <1>5, QuietKeeps

LEMMA GatherKeeps ==
    ASSUME IInv, Gather
    PROVE  IInv'
<1>1. Collect /\ UNCHANGED <<next, stepOf, db, ledger, branchFrame>>
  BY DEF Gather
<1>2. ExTypeOK' /\ ExInv'
  BY <1>1, CollectIsSound DEF IInv
<1>3. at' = at /\ stage' = stage /\ task' = task
  BY <1>1 DEF Collect, CollectAll, CollectFirst, CollectQuorum, CollectBatch, Classify
<1> QED
  BY <1>1, <1>2, <1>3, QuietKeeps

LEMMA DecideKeeps ==
    ASSUME IInv, Decide
    PROVE  IInv'
<1> USE DEF IInv
<1>1. RunTypes /\ ExTypeOK
  BY TypeParts
<1>2. ExTypeOK' /\ ExInv'
  BY JoinKeeps DEF Decide
<1>3. /\ stage = "running" /\ at' = at /\ task' = task /\ live' \in BOOLEAN
      /\ inline' = inline /\ next' = next /\ stepOf' = stepOf /\ ledger' = ledger
      /\ joinInput' = joinInput /\ resumes' = resumes /\ index' = index
      /\ Blocks => stage' = "blocked"
      /\ ~Blocks => stage' = "joined"
  BY <1>1 DEF Decide, Join, RunTypes
<1>4. /\ db' \in dbSet /\ db'.sel = db.sel /\ db'.listed = db.listed
      /\ db'.status \in {db.status, "failed"}
      /\ pc' \in {"off", "loop", "join"} /\ payload' \in {payload, "merged"}
      /\ inline => pc' \in {"off", "join"}
      /\ pc' = "join" => ~Blocks /\ payload' = "merged"
  <2>1. CASE ~Blocks
    BY <1>1, <2>1 DEF Decide, RunTypes
  <2>2. CASE Blocks
    <3>1. db' = [db EXCEPT !.status = "failed", !.outputs = live']
          /\ pc' = (IF inline THEN "off" ELSE "loop") /\ payload' = payload
      BY <2>2 DEF Decide
    <3> QED
      BY <1>1, <1>3, <3>1 DEF RunTypes, dbSet
  <2> QED
    BY <2>1, <2>2
<1>5. RunTypes'
  BY <1>1, <1>3, <1>4 DEF RunTypes
<1>6. Numbered'
  BY <1>3 DEF Numbered
<1>7. Rows'
  BY <1>3, RowsGrow
<1>8. Flow'
  <2>1. /\ pc = "fanout" /\ db.status # "completed"
        /\ resumes = 0 => inline
    BY <1>3 DEF Flow
  <2>2. stage' # "running" /\ db'.status # "completed"
        /\ db'.listed >= Cardinality(db'.sel)
    BY <1>3, <1>4, <2>1 DEF Flow
  <2>3. resumes' = 0 => /\ inline' /\ pc' # "loop" /\ pc' # "end"
                        /\ pc' = "join" => stage' = "joined" /\ payload' = "merged"
    BY <1>3, <1>4, <2>1
  <2> QED
    BY <2>2, <2>3 DEF Flow
<1> QED
  BY <1>2, <1>5, <1>6, <1>7, <1>8, TypeParts

-----------------------------------------------------------------------------
LEMMA InitHolds ==
    ASSUME Init
    PROVE  IInv
<1>1. ExTypeOK
  BY EmptyList DEF Init, ExInit, ExTypeOK
<1>2. RunTypes
  <2>1. db \in dbSet /\ ledger \subseteq rowSet
    BY DEF Init, dbSet
  <2>2. stepOf \in [Branches -> Nat] /\ next \in Nat /\ resumes \in 0 .. MaxResumes
        /\ index \in 0 .. 2
    BY RunAssumption DEF Init
  <2> QED
    BY <2>1, <2>2 DEF Init, RunTypes
<1>3. selected = {} /\ Cardinality({}) = 0 /\ stage = "idle"
  BY FS_EmptySet DEF Init, ExInit
<1>4. Tasks
  BY <1>3, BranchAssumption DEF Init, ExInit, Tasks
<1>5. ExInv
  BY <1>3, <1>4 DEF ExInv, Counting, CancelJustified, Ended
<1>6. Numbered /\ Rows
  BY DEF Init, ExInit, Numbered, Rows
<1>7. Flow
  BY <1>3 DEF Init, ExInit, Flow
<1> QED
  BY <1>1, <1>2, <1>5, <1>6, <1>7, TypeParts DEF IInv

LEMMA NextKeeps ==
    ASSUME IInv, [Next]_vars
    PROVE  IInv'
<1>1. CASE RouterCommits
  BY <1>1, RouterCommitsKeeps
<1>2. CASE RouterFails \/ JoinFails
  BY <1>2, FailKeeps DEF RouterFails, JoinFails
<1>3. CASE Route
  BY <1>3, RouteKeeps
<1>4. CASE \E b \in Branches : BranchStep(b)
  <2> PICK b \in Branches : BranchStep(b)
    BY <1>4
  <2>1. CASE LaunchTask(b)
    BY <2>1, LaunchKeeps
  <2>2. CASE NodeCommits(b)
    BY <2>2, NodeCommitsKeeps
  <2>3. CASE NodeDenied(b)
    BY <2>3, NodeDeniedKeeps
  <2>4. CASE NodeErrs(b) \/ NodeConflicts(b) \/ NodeCancelled(b)
    BY <2>4, NodeErrsKeeps DEF NodeConflicts
  <2> QED
    BY <2>1, <2>2, <2>3, <2>4 DEF BranchStep
<1>5. CASE Gather
  BY <1>5, GatherKeeps
<1>6. CASE Decide
  BY <1>6, DecideKeeps
<1>7. CASE JoinCommits
  BY <1>7, JoinCommitsKeeps
<1>8. CASE Complete
  BY <1>8, CompleteKeeps
<1>9. CASE Crash
  BY <1>9, CrashKeeps
<1>10. CASE Resume
  BY <1>10, ResumeKeeps
<1>11. CASE Loop
  BY <1>11, LoopKeeps
<1>12. CASE UNCHANGED vars
  <2>1. ExTypeOK' /\ ExInv'
    BY <1>12, ExecutorRests, TypeParts DEF IInv, vars
  <2>2. at' = at /\ stage' = stage /\ task' = task
        /\ UNCHANGED <<next, stepOf, db, ledger, branchFrame>>
    BY <1>12 DEF vars, exVars, runVars, branchFrame
  <2> QED
    BY <2>1, <2>2, QuietKeeps
<1> QED
  BY <1>1, <1>2, <1>3, <1>4, <1>5, <1>6, <1>7, <1>8, <1>9, <1>10, <1>11, <1>12 DEF Next

(* The inductive invariant of the fan-out and of the run around it.         *)
THEOREM Inductive == Spec => []IInv
<1>1. Init => IInv
  BY InitHolds
<1>2. IInv /\ [Next]_vars => IInv'
  BY NextKeeps
<1> QED
  BY <1>1, <1>2, PTL DEF Spec

(* Executor, allocator, ledger and state row keep their types.              *)
THEOREM TypeCorrect == Spec => []TypeOK
<1>1. IInv => TypeOK
  BY DEF IInv
<1> QED
  BY <1>1, Inductive, PTL

LEMMA ReportFollows ==
    ASSUME IInv
    PROVE  ReportTruthful
<1> USE DEF IInv
<1>1. CASE stage = "running"
  <2>1. /\ Range(completed) = Seen("completed") /\ IsInjective(completed)
        /\ failed = Seen("failed") /\ cancelled = Seen("cancelled")
        /\ \A b \in selected \ pending : task[b] \in Finished
    BY <1>1 DEF ExInv, Counting
  <2>2. \A b \in selected : task[b] = "completed" => at[b] = Length[b]
    BY DEF ExInv, Tasks, TypeOK, ExTypeOK
  <2> QED
    BY <2>1, <2>2 DEF ReportTruthful, Seen, Finished
<1>2. CASE stage \in {"joined", "blocked"}
  BY <1>2 DEF ExInv, Ended
<1>3. stage \in {"idle", "running", "joined", "blocked"}
  BY DEF TypeOK, ExTypeOK
<1> QED
  BY <1>1, <1>2, <1>3 DEF ReportTruthful

(* _classify_branch_result and what follows it: at every moment of a        *)
(* fan-out each branch whose result was looked at is in the report once,    *)
(* under what its task really did, for any number of branches and any order *)
(* of results and cancellations.                                            *)
THEOREM ReportTrue == Spec => []ReportTruthful
<1>1. IInv => ReportTruthful
  BY ReportFollows
<1> QED
  BY <1>1, Inductive, PTL

(* The join goes on, blocks and cancels as its wait policy says, whatever   *)
(* the counts, ratios and selections: although the threshold is computed    *)
(* twice, from the branches that run and from the length of the selection.  *)
THEOREM FanoutTrue == Spec => []FanoutSound
<1>1. IInv => FanoutSound
  BY DEF IInv, ExInv, Ended, FanoutSound, JoinSound, BlockedForCause
<1> QED
  BY <1>1, Inductive, PTL

LEMMA RowsFollow ==
    ASSUME IInv
    PROVE  MergedRan
<1> SUFFICES ASSUME stage = "joined", NEW b \in Range(merged), NEW i \in 1 .. Length[b]
             PROVE  <<b, i>> \in Refused \/ AlreadyDone(<<b, i>>)
  BY DEF MergedRan
<1>1. b \in Completed
  BY DEF IInv, ExInv, Ended, JoinSound
<1>2. b \in Branches /\ at[b] = Length[b]
  BY <1>1 DEF IInv, TypeOK, ExTypeOK, ExInv, Tasks, Completed
<1> QED
  BY <1>2 DEF IInv, Rows

(* What a join merges is in the ledger, node by node, or was refused by the *)
(* policy gate: through crashes, resumes that run the fan-out again and     *)
(* steps that collide with those of an earlier process.                     *)
THEOREM MergedRows == Spec => []MergedRan
<1>1. IInv => MergedRan
  BY RowsFollow
<1> QED
  BY <1>1, Inductive, PTL

(* A run that was never resumed gives each branch steps of its own, and     *)
(* completes only on the output of a join that was not blocked.             *)
THEOREM Uninterrupted == Spec => []UninterruptedRun
<1>1. IInv => UninterruptedRun
  BY DEF IInv, Numbered, Flow, UninterruptedRun
<1> QED
  BY <1>1, Inductive, PTL

-----------------------------------------------------------------------------
=============================================================================
