------------------------ MODULE SupervisedExecProofs ------------------------
(***************************************************************************)
(* Proofs about SupervisedExec, for any number of execve calls: the types, *)
(* the legality of the protocol stream, and that cleanup, start and end of *)
(* the workload are reported as they were.  The argument has four layers:  *)
(* which process can exist beside which (Nested), what the tracer has seen *)
(* of the bootstrap (Traced), how the records written so far look given    *)
(* where their writers are (Stream), and what the parser's future and the  *)
(* result then say (Told).                                                 *)
(***************************************************************************)
EXTENDS SupervisedExec, SequenceTheorems, TLAPS

Written == got \o chan
Sent(rec) == Has(Written, rec)
LastIn(S) == Written # <<>> /\ Last(Written) \in S
Ended == {"dying", "gone"}

(* What exists together.  A namespace begins with I and ends with it; the   *)
(* gate separates S's part of the protocol from I's; once the output task   *)
(* has stopped, S and I are being killed; who can write holds a write end.  *)
Nested ==
    /\ s \in {"config", "prefork"} => i = "none"
    /\ s \notin {"config", "prefork"} \cup Ended => i # "none"
    /\ i \in {"none", "init", "started", "fork"} => b = "none"
    /\ b = "none" => kid = "none"
    /\ i \in Ended => b \in Absent \cup {"dying"} /\ kid \in Absent \cup {"dying"}
    /\ i = "gone" => ~Exists(b) /\ ~Exists(kid)
    /\ s \in {"config", "prefork", "verify", "handoff", "release"} => gate = "shut"
    /\ s \in {"contain", "contain_silently"} => gate # "open"
    /\ s \in {"contain", "contain_silently"} /\ gate = "denied" => i \in Ended
    /\ gate # "open" => i \in {"none", "init"} \cup Ended /\ b = "none"
    /\ i = "report" /\ job.swept => ~Exists(b) /\ ~Exists(kid)
    /\ out # "pending" \/ pc = "kill" => s \in Ended /\ i \in {"none"} \cup Ended
    /\ i \notin {"none"} \cup Ended => "I" \in writers
    /\ s \notin {"release", "wait"} \cup Ended => "S" \in writers
    /\ fut = "absent" => s \in {"config"} \cup Ended /\ i = "none"
    /\ pc = "config" => fut = "absent"

(* What the tracer knows of the bootstrap.                                  *)
Traced ==
    /\ b \in {"verified", "stopped", "released", "execstop", "running"} => meta
    /\ b \in {"released", "execstop", "running"} => armed
    /\ i \in {"arm", "continue"} => armed
    /\ b \in {"execstop", "running"} => execs > 0
    /\ b = "gone" => fate \in Outcomes
    /\ b \in {"none", "setup", "verified", "stopped", "released"} => ~job.confirmed
    /\ job.confirmed => execs > 0
    /\ ran => meta
    /\ i \in {"confirm", "resume", "outcome"} => job.confirmed
    /\ i = "watch" /\ job.confirmed => ran
    /\ i = "outcome" => ran /\ b = "gone"
    /\ i = "watch" /\ job.confirmed /\ b = "execstop" => execs > 1

(* Two neighbours in the stream: a transition of the parser, or the monitor *)
(* has reported a second execve.                                            *)
Follows(p, r, n) ==
    \/ p[1] \in Predecessors(r[1])
    \/ p = Confirmed /\ r = Confirmed /\ n > 1

Chain ==
    \A k \in 1 .. Len(Written) :
        IF k = 1 THEN Written[k] \in {Started, Failed}
        ELSE Follows(Written[k - 1], Written[k], execs)

(* The last record written, given where the writers are.                    *)
Positioned ==
    /\ i \in {"fork", "spawned"} => LastIn({Started})
    /\ i \in {"metadata", "verified"} => LastIn({Spawned})
    /\ i \in {"sigstop", "arm"} => LastIn({Verified})
    /\ i = "continue" => LastIn({Armed})
    /\ i = "watch" => LastIn({IF job.confirmed THEN Confirmed ELSE Armed})
    /\ i = "confirm" => LastIn({Armed}) \/ (LastIn({Confirmed}) /\ execs > 1)
    /\ i \in {"resume", "outcome"} => LastIn({Confirmed})
    /\ i = "fail" => LastIn({Started, Spawned, Verified, Armed, Confirmed})
    /\ i \in {"sweep", "report"} /\ voice =>
          LastIn({Exited("exited"), Exited("signaled"), Failed})

(* What each record says, whoever reads it and whenever.                    *)
Voiced == i \notin {"sweep", "report"} \cup Ended => voice

Silent ==
    /\ s \notin {"wait"} \cup Ended => Written = <<>>
    /\ i \in {"init", "started"} => Written = <<>>
    /\ fut = "absent" => Written = <<>>

StartMeant ==
    /\ ran \/ i = "resume" => Sent(Confirmed)
    /\ Sent(Confirmed) => execs > 0

EndMeant ==
    /\ Sent(Failed) => i \in {"none", "sweep", "report"} \cup Ended
    /\ \A how \in Outcomes : Sent(Exited(how)) =>
          /\ i \in {"sweep", "report"} \cup Ended /\ ~Sent(Failed)
          /\ b = "gone" /\ fate = how /\ ran

CleanMeant ==
    Sent(Cleaned(TRUE)) =>
        /\ ~Exists(b) /\ ~Exists(kid)
        /\ i \in Ended \/ (i = "none" /\ s \in Ended)

Meant == Voiced /\ Silent /\ StartMeant /\ EndMeant /\ CleanMeant

Stream ==
    /\ Meant
    /\ fut # "invalid" => Chain /\ Positioned
    /\ fut = "invalid" => Has(got, Confirmed) /\ execs > 1

(* The parser's future and the result.                                      *)
Told ==
    /\ fut \in {"ok", "eof", "cleanup_failed"} =>
          chan = <<>> /\ writers = {} /\ (Has(got, Cleaned(TRUE)) => fut = "ok")
    /\ fut = "deadline" => chan = <<>> /\ out # "pending"
    /\ fut \in {"lost", "cancelled"} => pc = "returned"
    /\ result # None => pc = "returned"
    /\ ReportedTruth /\ StartTruth /\ CleanupTruth

IInv == TypeOK /\ Nested /\ Traced /\ Stream /\ Told

(* Types.                                                                   *)

LEMMA RecordTypes ==
    /\ {Started, Spawned, Verified, Armed, Confirmed, Failed} \subseteq ProtoRecords
    /\ \A how \in Outcomes : Exited(how) \in ProtoRecords
    /\ \A ok \in BOOLEAN : Cleaned(ok) \in ProtoRecords
BY DEF ProtoRecords

(* A report of S is nothing, the failure, or the failure and the cleanup.   *)
LEMMA PairPrefixes ==
    ASSUME NEW x, NEW y
    PROVE  /\ SubSeq(<<x, y>>, 1, 0) = <<>>
           /\ SubSeq(<<x, y>>, 1, 1) = <<x>>
           /\ SubSeq(<<x, y>>, 1, 2) = <<x, y>>
<1> DEFINE p == <<x, y>>
<1>1. p \in Seq({x, y}) /\ Len(p) = 2 /\ p[1] = x
  OBVIOUS
<1> HIDE DEF p
<1>2. SubSeq(p, 1, 0) = <<>> /\ SubSeq(p, 2, 1) = <<>>
  BY SubSeqEmpty
<1>3. SubSeq(p, 1, 1) = <<p[1]>> \o SubSeq(p, 2, 1)
  <2>1. 1 \in 1 .. Len(p) /\ 1 \in 1 .. Len(p) /\ 2 = 1 + 1
    BY <1>1
  <2> QED
    BY <1>1, <2>1, SubSeqRecursiveFirst
<1>4. <<x>> \o <<>> = <<x>>
  <2>1. <<x>> \in Seq({x})
    OBVIOUS
  <2> QED
    BY <2>1, ConcatEmptySeq
<1>5. SubSeq(p, 1, 2) = p
  BY <1>1, SubSeqFull
<1> QED
  BY <1>1, <1>2, <1>3, <1>4, <1>5 DEF p

LEMMA ReportIs ==
    ASSUME TypeOK, NEW ok \in BOOLEAN, Report(ok)
    PROVE  \/ chan' = chan
           \/ ReaderOpen /\ chan' = Append(chan, Failed)
           \/ ReaderOpen /\ chan' = Append(Append(chan, Failed), Cleaned(ok))
<1> DEFINE F == Failed
           C == Cleaned(ok)
<1>1. chan \in Seq(ProtoRecords) /\ F \in ProtoRecords /\ C \in ProtoRecords
  BY RecordTypes DEF TypeOK
<1>2. PICK n \in 0 .. 2 : /\ chan' = chan \o SubSeq(<<F, C>>, 1, n)
                          /\ n # 0 => ReaderOpen
  BY DEF Report
<1> HIDE DEF F, C
<1>3. /\ chan \o <<>> = chan
      /\ chan \o <<F>> = Append(chan, F)
      /\ chan \o <<F, C>> = Append(Append(chan, F), C)
  BY <1>1
<1>4. \/ chan' = chan
      \/ ReaderOpen /\ chan' = Append(chan, F)
      \/ ReaderOpen /\ chan' = Append(Append(chan, F), C)
  <2>1. n = 0 \/ n = 1 \/ n = 2
    OBVIOUS
  <2>2. (n = 1 \/ n = 2) => ReaderOpen
    BY <1>2
  <2>3. SubSeq(<<F, C>>, 1, 0) = <<>> /\ SubSeq(<<F, C>>, 1, 1) = <<F>>
        /\ SubSeq(<<F, C>>, 1, 2) = <<F, C>>
    BY PairPrefixes, Zenon
  <2> QED
    BY <1>2, <1>3, <2>1, <2>2, <2>3, Zenon
<1> QED
  BY <1>4 DEF F, C

(* TypeOK in parts, so that a step is asked only about what it changes.     *)
TypeProcs ==
    /\ s \in LauncherStates /\ i \in InitStates /\ b \in BootStates
    /\ kid \in {"none", "alive", "dying", "gone"}
TypeTrace ==
    /\ gate \in {"shut", "open", "denied"}
    /\ execs \in 0..MaxExecs
    /\ meta \in BOOLEAN /\ ran \in BOOLEAN /\ away \in BOOLEAN /\ armed \in BOOLEAN
    /\ voice \in BOOLEAN
    /\ fate \in Outcomes \cup {None}
TypePipe ==
    /\ chan \in Seq(ProtoRecords) /\ got \in Seq(ProtoRecords)
    /\ writers \subseteq {"S", "I"}
TypeParent ==
    /\ fut \in Futures \cup {None}
    /\ pc \in {"config", "run", "natural", "term", "kill", "returned"}
    /\ why \in Endings \cup {None}
    /\ out \in {"pending", "stopping", "done"}
    /\ cause \in Causes \cup {None} /\ bounded \in Causes \cup {None}
TypeResult == result \in {None} \cup Results
TypeJob == job \in Jobs

LEMMA TypeParts ==
    TypeOK <=> TypeProcs /\ TypeTrace /\ TypePipe /\ TypeParent /\ TypeResult /\ TypeJob
BY DEF TypeOK, TypeProcs, TypeTrace, TypePipe, TypeParent, TypeResult, TypeJob

(* What each party leaves alone.                                            *)
LEMMA LauncherFrame ==
    ASSUME Launcher
    PROVE  UNCHANGED <<b, kid, meta, execs, ran, fate, away, armed, voice, job, got, fut,
                       pc, why, out, cause, bounded, result>>
BY Zenon DEF Launcher, ReadConfig, PreforkFails, ForkInit, VerifyInit, Handoff, Release,
   Contain, Contained, WaitForInit, iVars, bVars, pipeVars, readerVars, parentVars

LEMMA InitFrame ==
    ASSUME NamespaceInit
    PROVE  UNCHANGED <<s, gate, meta, execs, fate, away, got, fut, pc, why, out, cause,
                       bounded, result>>
BY Zenon DEF NamespaceInit, InitGate, Mandatory, ForkBootstrap, ReadMetadata, AwaitStop,
   Continue, Watch, ContinueExec, ReportFailed, SweepKill, SweepEnds, ReportCleaned,
   sVars, bVars, readerVars, parentVars

LEMMA WorkloadFrame ==
    ASSUME Workload
    PROVE  UNCHANGED <<s, gate, i, armed, voice, job, chan, writers, got, fut, pc, why,
                       out, cause, bounded, result>>
BY Zenon DEF Workload, Setup, Stop, Exec, Exit, Behave, sVars, iVars, pipeVars,
   readerVars, parentVars

LEMMA KernelFrame ==
    ASSUME Fault \/ Kernel
    PROVE  UNCHANGED <<gate, armed, voice, job, meta, execs, ran, away, chan, got, fut,
                       pc, why, out, cause, bounded, result>>
BY Zenon DEF Fault, Kernel, pipeVars, readerVars, parentVars

LEMMA ReaderFrame ==
    ASSUME Reader
    PROVE  UNCHANGED <<s, gate, i, armed, voice, job, b, kid, meta, execs, ran, fate, away,
                       writers, pc, why, out, cause, bounded, result>>
BY Zenon DEF Reader, Read, ReadEOF, ReadDeadline, sVars, iVars, bVars, pipeVars,
   parentVars

LEMMA ParentFrame ==
    ASSUME Parent \/ Cancel
    PROVE  UNCHANGED <<gate, armed, voice, job, meta, execs, ran, fate, away, chan,
                       writers, got>>
BY Zenon DEF Parent, Cancel, DeliverConfig, OutputStops, OutputReturns, Collect,
   NaturalDrain, TermDrain, Detach, sVars, iVars, bVars, pipeVars, readerVars

(* The parent's signals reach S alone, or S and the whole namespace.        *)
LEMMA ParentKills ==
    ASSUME Parent \/ Cancel
    PROVE  \/ s' \in {s, Killed(s)} /\ UNCHANGED <<i, b, kid>>
           \/ KillGroup
BY Zenon DEF Parent, Cancel, DeliverConfig, OutputStops, OutputReturns, Collect,
   NaturalDrain, TermDrain, Detach, TermGroup, sVars, iVars, bVars

(* How a process moves: by a step of its own, or by being killed.           *)
LEMMA ProcsTypes ==
    ASSUME TypeOK, Next
    PROVE  TypeProcs'
<1> USE DEF TypeOK, TypeProcs, Killed
<1>1. CASE Launcher
  <2>1. s' \in LauncherStates
    BY <1>1 DEF Launcher, ReadConfig, PreforkFails, ForkInit, VerifyInit, Handoff,
       Release, Contain, Contained, WaitForInit, LauncherStates
  <2>2. i' \in InitStates
    BY <1>1 DEF Launcher, ReadConfig, PreforkFails, ForkInit, VerifyInit, Handoff,
       Release, Contain, Contained, WaitForInit, iVars, InitStates
  <2> QED
    BY <1>1, <2>1, <2>2, LauncherFrame
<1>2. CASE NamespaceInit
  <2>1. i' \in InitStates
    BY <1>2 DEF NamespaceInit, InitGate, InitExits, Mandatory, ForkBootstrap, Fails,
       ReadMetadata, AwaitStop, Continue, Watch, ContinueExec, ReportFailed, SweepKill,
       SweepEnds, ReportCleaned, iVars, InitStates
  <2>2. b' \in {b, "setup", "released", "running", Killed(b)} /\ kid' \in {kid, Killed(kid)}
    BY <1>2, Zenon DEF NamespaceInit, InitGate, InitExits, Mandatory, ForkBootstrap,
       ReadMetadata, AwaitStop, Continue, Watch, ContinueExec, ReportFailed, SweepKill,
       SweepEnds, ReportCleaned, bVars
  <2> QED
    BY <1>2, <2>1, <2>2, InitFrame DEF BootStates
<1>3. CASE Workload
  <2>1. b' \in BootStates
    BY <1>3 DEF Workload, Setup, Stop, Exec, Exit, Behave, BootStates
  <2>2. kid' \in {kid, "alive", "gone"}
    BY <1>3, Zenon DEF Workload, Setup, Stop, Exec, Exit, Behave
  <2> QED
    BY <1>3, <2>1, <2>2, WorkloadFrame
<1>4. CASE Fault \/ Kernel
  <2>1. /\ s' \in {s, "dying", "gone"} /\ i' \in {i, "dying", "gone"}
        /\ b' \in {b, "dying", "gone"} /\ kid' \in {kid, "dying", "gone"}
    BY <1>4 DEF Fault, Kernel, Dies
  <2> QED
    BY <2>1 DEF LauncherStates, InitStates, BootStates
<1>5. CASE Reader
  BY <1>5, ReaderFrame
<1>6. CASE Parent \/ Cancel
  <2>1. /\ s' \in {s, Killed(s)} /\ i' \in {i, Killed(i)}
        /\ b' \in {b, Killed(b)} /\ kid' \in {kid, Killed(kid)}
    BY <1>6, ParentKills DEF KillGroup
  <2> QED
    BY <2>1 DEF LauncherStates, InitStates, BootStates
<1> QED
  BY <1>1, <1>2, <1>3, <1>4, <1>5, <1>6 DEF Next

LEMMA TraceTypes ==
    ASSUME TypeOK, Next
    PROVE  TypeTrace' /\ TypeJob'
<1> USE DEF TypeOK, TypeTrace, TypeJob
<1>1. CASE Launcher
  <2>1. gate' \in {gate, "open", "denied"}
    BY <1>1, Zenon DEF Launcher, ReadConfig, PreforkFails, ForkInit, VerifyInit, Handoff,
       Release, Contain, Contained, WaitForInit
  <2> QED
    BY <1>1, <2>1, LauncherFrame
<1>2. CASE NamespaceInit
  <2>1. armed' \in {armed, TRUE} /\ voice' \in {voice, FALSE} /\ ran' \in {ran, TRUE}
    BY <1>2, Zenon DEF NamespaceInit, InitGate, InitExits, Mandatory, ForkBootstrap,
       ReadMetadata, AwaitStop, Continue, Watch, ContinueExec, ReportFailed, SweepKill,
       SweepEnds, ReportCleaned, iVars, bVars
  <2>2. \/ job' = job \/ job' = [job EXCEPT !.confirmed = TRUE]
        \/ \E v \in BOOLEAN : \/ job' = [job EXCEPT !.forced = v]
                              \/ job' = [job EXCEPT !.swept = v]
    BY <1>2, Zenon DEF NamespaceInit, InitGate, InitExits, Mandatory, ForkBootstrap, Fails,
       ReadMetadata, AwaitStop, Continue, Watch, ContinueExec, ReportFailed, SweepKill,
       SweepEnds, ReportCleaned, iVars
  <2>3. TypeJob'
    BY <2>2 DEF Jobs
  <2> QED
    BY <1>2, <2>1, <2>3, InitFrame, Zenon
<1>3. CASE Workload
  <2>1. /\ meta' \in {meta, TRUE} /\ away' \in {away, TRUE} /\ fate' \in {fate, "exited"}
        /\ ran' \in BOOLEAN
    BY <1>3, Zenon DEF Workload, Setup, Stop, Exec, Exit, Behave
  <2>2. execs' \in 0 .. MaxExecs
    BY <1>3, SupervisedAssumption DEF Workload, Setup, Stop, Exec, Exit, Behave
  <2>3. gate' = gate /\ armed' = armed /\ voice' = voice /\ job' = job
    BY <1>3, WorkloadFrame
  <2> QED
    BY <2>1, <2>2, <2>3, Zenon DEF Outcomes
<1>4. CASE Fault \/ Kernel
  <2>1. fate' \in {fate, "signaled"}
    BY <1>4, Zenon DEF Fault, Kernel
  <2> QED
    BY <1>4, <2>1, KernelFrame DEF Outcomes
<1>5. CASE Reader
  BY <1>5, ReaderFrame
<1>6. CASE Parent \/ Cancel
  BY <1>6, ParentFrame
<1> QED
  BY <1>1, <1>2, <1>3, <1>4, <1>5, <1>6 DEF Next

(* What is written: S reports, I appends one record, nobody else writes.    *)
LEMMA InitWrites ==
    ASSUME TypeOK, Traced, NamespaceInit
    PROVE  chan' = chan \/ \E rec \in ProtoRecords : chan' = Append(chan, rec)
<1>1. \/ chan' = chan
      \/ \E rec \in {Started, Spawned, Verified, Armed, Confirmed, Failed,
                     Cleaned(job.swept)} : chan' = Append(chan, rec)
      \/ i = "outcome" /\ chan' = Append(chan, Exited(fate))
  BY Zenon DEF NamespaceInit, InitGate, InitExits, Mandatory, ForkBootstrap,
     ReadMetadata, AwaitStop, Continue, Watch, ContinueExec, ReportFailed, SweepKill,
     SweepEnds, ReportCleaned, pipeVars
<1>2. job.swept \in BOOLEAN
  BY DEF TypeOK, Jobs
<1>3. i = "outcome" => fate \in Outcomes
  BY DEF Traced
<1> QED
  BY <1>1, <1>2, <1>3, RecordTypes

LEMMA LauncherWrites ==
    ASSUME TypeOK, Launcher
    PROVE  \/ chan' = chan
           \/ \E ok \in BOOLEAN :
                /\ \/ s = "prefork"
                   \/ s = "contain" /\ gate = "denied" /\ (ok => i = "gone")
                /\ s' = "dying" /\ UNCHANGED <<gate, i, writers>>
                /\ ReaderOpen
                /\ \/ chan' = Append(chan, Failed)
                   \/ chan' = Append(Append(chan, Failed), Cleaned(ok))
<1>1. CASE PreforkFails
  BY <1>1, ReportIs DEF PreforkFails, iVars
<1>2. CASE Contained
  <2>1. CASE s = "contain"
    <3>1. PICK ok \in BOOLEAN : (ok => i = "gone") /\ Report(ok)
      BY <1>2, <2>1 DEF Contained
    <3> QED
      BY <1>2, <2>1, <3>1, ReportIs DEF Contained, iVars
  <2>2. CASE s # "contain"
    BY <1>2, <2>2 DEF Contained
  <2> QED
    BY <2>1, <2>2
<1>3. CASE ~PreforkFails /\ ~Contained
  BY <1>3, Zenon DEF Launcher, ReadConfig, ForkInit, VerifyInit, Handoff, Release, Contain,
     WaitForInit, pipeVars
<1> QED
  BY <1>1, <1>2, <1>3

LEMMA AppendType ==
    \A q \in Seq(ProtoRecords), rec \in ProtoRecords : Append(q, rec) \in Seq(ProtoRecords)
OBVIOUS

LEMMA PipeTypes ==
    ASSUME TypeOK, Traced, Next
    PROVE  TypePipe'
<1> USE DEF TypeOK, TypePipe
<1>1. CASE Launcher
  <2>1. chan' \in Seq(ProtoRecords)
    <3>1. chan \in Seq(ProtoRecords) /\ Failed \in ProtoRecords
      BY RecordTypes
    <3>2. Append(chan, Failed) \in Seq(ProtoRecords)
      BY <3>1
    <3>3. \A ok \in BOOLEAN : Append(Append(chan, Failed), Cleaned(ok)) \in Seq(ProtoRecords)
      BY <3>2, RecordTypes
    <3> QED
      BY <1>1, <3>1, <3>2, <3>3, LauncherWrites
  <2>2. writers' \in {writers, writers \cup {"I"}, writers \ {"S"}}
    BY <1>1, Zenon DEF Launcher, ReadConfig, PreforkFails, ForkInit, VerifyInit, Handoff,
       Release, Contain, Contained, WaitForInit, pipeVars
  <2> QED
    BY <1>1, <2>1, <2>2, LauncherFrame
<1>2. CASE NamespaceInit
  <2>1. chan' \in Seq(ProtoRecords)
    <3>1. chan \in Seq(ProtoRecords)
      OBVIOUS
    <3> QED
      BY <1>2, <3>1, InitWrites, AppendType, Zenon
  <2>2. writers' \in {writers, writers \ {"I"}}
    BY <1>2, Zenon DEF NamespaceInit, InitGate, InitExits, Mandatory, ForkBootstrap,
       ReadMetadata, AwaitStop, Continue, Watch, ContinueExec, ReportFailed, SweepKill,
       SweepEnds, ReportCleaned, pipeVars
  <2> QED
    BY <1>2, <2>1, <2>2, InitFrame
<1>3. CASE Workload
  BY <1>3, WorkloadFrame
<1>4. CASE Fault \/ Kernel
  <2>1. writers' \in {writers, writers \ {"S"}, writers \ {"I"}}
    BY <1>4, Zenon DEF Fault, Kernel, pipeVars
  <2> QED
    BY <1>4, <2>1, KernelFrame
<1>5. CASE Reader
  <2>1. CASE Read
    <3>1. /\ Head(chan) \in ProtoRecords /\ Tail(chan) \in Seq(ProtoRecords)
          /\ Append(got, Head(chan)) \in Seq(ProtoRecords)
      BY <2>1, HeadTailProperties DEF Read
    <3>2. chan' = Tail(chan) /\ got' \in {got, Append(got, Head(chan))}
      BY <2>1, Zenon DEF Read
    <3> QED
      BY <1>5, <3>1, <3>2, ReaderFrame
  <2>2. CASE ReadEOF \/ ReadDeadline
    BY <2>2 DEF ReadEOF, ReadDeadline, pipeVars
  <2> QED
    BY <1>5, <2>1, <2>2 DEF Reader
<1>6. CASE Parent \/ Cancel
  BY <1>6, ParentFrame
<1> QED
  BY <1>1, <1>2, <1>3, <1>4, <1>5, <1>6 DEF Next

(* What the parent returns.                                                 *)
LEMMA VerdictIs ==
    ASSUME TypeOK, NEW future
    PROVE  /\ Verdict(future) \in Outcomes \cup {"capped", "timeout", "error"}
           /\ Verdict(future) \in Outcomes =>
                /\ bounded = "exit" /\ future = "ok" /\ Has(got, Confirmed)
                /\ Has(got, Exited(Verdict(future)))
           /\ /\ bounded = "exit" /\ future = "ok"
              /\ Has(got, Confirmed) /\ ~Has(got, Failed)
              /\ \E how \in Outcomes : Has(got, Exited(how))
              => Verdict(future) \in Outcomes
<1> DEFINE exits == {how \in Outcomes : Has(got, Exited(how))}
           one == CHOOSE how \in exits : TRUE
<1>1. exits # {} => one \in exits
  OBVIOUS
<1>2. bounded \in {None, "exit", "capped", "timeout"}
  BY DEF TypeOK, Causes
<1>3. None # "exit"
  BY SupervisedAssumption DEF Causes
<1>4. Verdict(future) =
        IF bounded = None \/ ~Has(got, Confirmed) THEN "error"
        ELSE IF bounded # "exit" THEN bounded
        ELSE IF future # "ok" \/ Has(got, Failed) \/ exits = {} THEN "error"
        ELSE one
  BY Zenon DEF Verdict
<1> HIDE DEF exits, one
<1>5. \A how \in Outcomes : how \in exits <=> Has(got, Exited(how))
  BY Zenon DEF exits
<1>6. exits \subseteq Outcomes
  BY DEF exits
<1> QED
  BY <1>1, <1>2, <1>3, <1>4, <1>5, <1>6 DEF Outcomes

LEMMA ParentTypes ==
    ASSUME TypeOK, Next
    PROVE  TypeParent' /\ TypeResult'
<1> USE DEF TypeOK, TypeParent, TypeResult
<1>1. CASE Launcher \/ NamespaceInit
  BY <1>1, LauncherFrame, InitFrame
<1>2. CASE Workload \/ Fault \/ Kernel
  BY <1>2, WorkloadFrame, KernelFrame
<1>3. CASE Reader
  <2>1. fut' \in {fut, "invalid", "ok", "cleanup_failed", "eof", "deadline"}
    BY <1>3, Zenon DEF Reader, Read, ReadEOF, ReadDeadline
  <2> QED
    BY <1>3, <2>1, ReaderFrame DEF Futures
<1>4. CASE Parent \/ Cancel
  <2>1. /\ pc' \in {pc, "run", "natural", "term", "kill", "returned"}
        /\ fut' \in {fut, None, "cancelled", "lost"}
        /\ why' \in {why, "config", "timeout", "normal", "cancelled"}
    BY <1>4, Zenon DEF Parent, Cancel, DeliverConfig, OutputStops, OutputReturns, Collect,
       NaturalDrain, TermDrain, Detach, Return, readerVars
  <2>2. /\ out' \in {out, "stopping", "done"}
        /\ cause' \in {cause, "capped", "timeout", "exit"}
        /\ bounded' \in {bounded, cause, None}
    BY <1>4 DEF Parent, Cancel, DeliverConfig, OutputStops, OutputReturns, Collect,
       NaturalDrain, TermDrain, Detach, Return
  <2>3. TypeParent'
    BY <2>1, <2>2 DEF Futures, Causes, Endings
  <2>4. result' = result \/ \E future, output : Return(future, output)
    BY <1>4, Zenon DEF Parent, Cancel, DeliverConfig, OutputStops, OutputReturns, Collect,
       NaturalDrain, TermDrain, Detach
  <2>5. ASSUME NEW future, NEW output, Return(future, output)
        PROVE  TypeResult'
    <3>1. \A c \in BOOLEAN, st \in BOOLEAN \cup {None},
            k \in Outcomes \cup {"capped", "timeout", "error", "incomplete", "cancelled"} :
              [clean |-> c, started |-> st, kind |-> k] \in Results
      BY DEF Results
    <3>2. Settled(future, output) \in BOOLEAN
      BY DEF Settled, Quiescent, Exists
    <3>3. (future \notin {"absent", "lost"} /\ Has(got, Confirmed)) \in BOOLEAN
      OBVIOUS
    <3> DEFINE started == IF why = "cancelled" THEN None
                          ELSE future \notin {"absent", "lost"} /\ Has(got, Confirmed)
               kind == IF ~Settled(future, output) THEN "incomplete"
                       ELSE IF why = "cancelled" THEN "cancelled"
                       ELSE IF why = "config" THEN "error"
                       ELSE Verdict(future)
    <3>4. started \in BOOLEAN \cup {None}
      BY <3>3, Zenon
    <3>5. kind \in Outcomes \cup {"capped", "timeout", "error", "incomplete", "cancelled"}
      BY VerdictIs, Zenon
    <3>6. result' = [clean |-> Settled(future, output), started |-> started, kind |-> kind]
      BY <2>5, Zenon DEF Return
    <3> HIDE DEF started, kind
    <3> QED
      BY <3>1, <3>2, <3>4, <3>5, <3>6, Zenon
  <2>6. TypeResult'
    BY <2>4, <2>5
  <2> QED
    BY <2>3, <2>6
<1> QED
  BY <1>1, <1>2, <1>3, <1>4 DEF Next

LEMMA TypeStep ==
    ASSUME TypeOK, Traced, [Next]_vars
    PROVE  TypeOK'
<1>1. CASE Next
  BY <1>1, ProcsTypes, TraceTypes, PipeTypes, ParentTypes DEF TypeOK, TypeProcs, TypeTrace,
     TypeJob, TypePipe, TypeParent, TypeResult
<1>2. CASE UNCHANGED vars
  BY <1>2 DEF vars, sVars, iVars, bVars, pipeVars, readerVars, parentVars, TypeOK
<1> QED
  BY <1>1, <1>2

-----------------------------------------------------------------------------
(* Nested.                                                                  *)

LEMMA LauncherNested ==
    ASSUME TypeOK, Nested, Launcher
    PROVE  Nested'
<1> USE DEF Ended, Absent, Exists, Killed
<1>0. /\ UNCHANGED <<b, kid, job, fut, pc, out>>
      /\ s \in LauncherStates /\ i \in InitStates
      /\ gate \in {"shut", "open", "denied"}
  BY LauncherFrame DEF TypeOK
<1>1. CASE ReadConfig
  BY <1>0, <1>1 DEF ReadConfig, Nested, iVars, pipeVars
<1>2. CASE PreforkFails
  BY <1>0, <1>2 DEF PreforkFails, Nested, iVars
<1>3. CASE ForkInit
  BY <1>0, <1>3 DEF ForkInit, Nested
<1>4. CASE VerifyInit
  BY <1>0, <1>4 DEF VerifyInit, Nested, iVars, pipeVars
<1>5. CASE Handoff
  BY <1>0, <1>5 DEF Handoff, Nested, iVars
<1>6. CASE Release
  BY <1>0, <1>6 DEF Release, Nested, iVars, pipeVars
<1>7. CASE Contain
  BY <1>0, <1>7 DEF Contain, Nested, pipeVars
<1>8. CASE Contained
  BY <1>0, <1>8 DEF Contained, Nested, iVars
<1>9. CASE WaitForInit
  BY <1>0, <1>9 DEF WaitForInit, Nested, iVars, pipeVars
<1> QED
  BY <1>1, <1>2, <1>3, <1>4, <1>5, <1>6, <1>7, <1>8, <1>9 DEF Launcher

LEMMA InitNested ==
    ASSUME TypeOK, Nested, NamespaceInit
    PROVE  Nested'
<1> USE DEF Ended, Absent, Exists, Killed
<1>0. UNCHANGED <<s, gate, fut, pc, out>>
  BY InitFrame
<1>1. CASE InitGate
  BY <1>0, <1>1 DEF InitGate, InitExits, Nested, TypeOK, BootStates
<1>2. ASSUME NEW at, NEW rec, NEW next, Mandatory(at, rec, next),
             at \notin {"none", "init"} \cup Ended,
             next \notin {"none", "init", "started", "report"} \cup Ended,
             next = "fork" => at = "started"
      PROVE  Nested'
  BY <1>0, <1>2 DEF Mandatory, Nested, bVars
<1>3. CASE \/ Mandatory("started", Started, "fork")
           \/ Mandatory("spawned", Spawned, "metadata")
           \/ Mandatory("verified", Verified, "sigstop")
           \/ Mandatory("arm", Armed, "continue")
           \/ Mandatory("confirm", Confirmed, "resume")
           \/ Mandatory("outcome", Exited(fate), "sweep")
  BY <1>2, <1>3
<1>4. CASE ForkBootstrap
  BY <1>0, <1>4 DEF ForkBootstrap, Fails, Nested, pipeVars
<1>5. CASE ReadMetadata \/ AwaitStop \/ Watch
  BY <1>0, <1>5 DEF ReadMetadata, AwaitStop, Watch, Fails, Nested, bVars, pipeVars
<1>6. CASE Continue \/ ContinueExec
  BY <1>0, <1>6 DEF Continue, ContinueExec, Fails, Nested, pipeVars
<1>7. CASE ReportFailed
  BY <1>0, <1>7 DEF ReportFailed, Nested, bVars
<1>8. CASE SweepKill
  BY <1>0, <1>8 DEF SweepKill, Nested, iVars, pipeVars
<1>9. CASE SweepEnds
  BY <1>0, <1>9 DEF SweepEnds, Swept, Childless, Nested, bVars, pipeVars, TypeOK, Jobs
<1>10. CASE ReportCleaned
  BY <1>0, <1>10 DEF ReportCleaned, InitExits, Nested, TypeOK, BootStates
<1> QED
  BY <1>1, <1>3, <1>4, <1>5, <1>6, <1>7, <1>8, <1>9, <1>10 DEF NamespaceInit

LEMMA NestedStep ==
    ASSUME TypeOK, Nested, [Next]_vars
    PROVE  Nested'
<1> USE DEF Ended, Absent, Exists, Killed
<1>1. CASE Workload
  <2>0. UNCHANGED <<s, gate, i, job, writers, fut, pc, out>>
    BY <1>1, WorkloadFrame
  <2>1. CASE Setup
    BY <2>0, <2>1 DEF Setup, Nested
  <2>2. CASE Stop
    BY <2>0, <2>2 DEF Stop, Nested
  <2>3. CASE Exec
    BY <2>0, <2>3 DEF Exec, Nested
  <2>4. CASE Exit
    BY <2>0, <2>4 DEF Exit, Nested
  <2>5. CASE Behave
    BY <2>0, <2>5 DEF Behave, Nested
  <2> QED
    BY <1>1, <2>1, <2>2, <2>3, <2>4, <2>5 DEF Workload
<1>2. CASE Fault
  <2>1. UNCHANGED <<gate, job, writers, fut, pc, out>>
    BY <1>2, KernelFrame DEF Fault, pipeVars
  <2> QED
    BY <1>2, <2>1 DEF Fault, Nested, TypeOK, BootStates
<1>3. CASE Kernel
  <2>1. UNCHANGED <<gate, job, fut, pc, out>>
    BY <1>3, KernelFrame
  <2> QED
    BY <1>3, <2>1 DEF Kernel, Dies, Nested
<1>4. CASE Reader
  <2>1. fut' # "absent" \/ fut' = fut
    BY <1>4 DEF Reader, Read, ReadEOF, ReadDeadline
  <2>2. fut' = "absent" => fut = "absent"
    BY <2>1
  <2>3. pc = "config" => fut' = fut
    BY <1>4, SupervisedAssumption DEF Nested, Reader, Read, ReadEOF, ReadDeadline, Reading, Futures
  <2> QED
    BY <1>4, <2>2, <2>3, ReaderFrame DEF Nested
<1>5. CASE Parent \/ Cancel
  <2>1. UNCHANGED <<gate, job, writers>>
    BY <1>5, ParentFrame
  <2>2. s \in LauncherStates /\ i \in InitStates /\ b \in BootStates
    BY DEF TypeOK
  <2>3. CASE DeliverConfig
    BY <2>1, <2>3, SupervisedAssumption
       DEF DeliverConfig, Nested, sVars, iVars, bVars, Futures
  <2>4. CASE OutputStops
    BY <2>1, <2>2, <2>4 DEF OutputStops, KillGroup, readerVars, Nested, LauncherStates
  <2>5. CASE OutputReturns \/ Collect
    BY <2>1, <2>5 DEF OutputReturns, Collect, sVars, iVars, bVars, readerVars, Nested
  <2>6. CASE NaturalDrain
    BY <2>1, <2>2, <2>6 DEF NaturalDrain, Return, TermGroup, Nested, LauncherStates
  <2>7. CASE TermDrain
    BY <2>1, <2>2, <2>7 DEF TermDrain, Return, KillGroup, Nested, LauncherStates
  <2>8. CASE Detach
    BY <2>1, <2>8, SupervisedAssumption
       DEF Detach, Return, sVars, iVars, bVars, Nested, Futures
  <2>9. CASE Cancel
    BY <2>1, <2>2, <2>9 DEF Cancel, KillGroup, readerVars, Nested, LauncherStates
  <2> QED
    BY <1>5, <2>3, <2>4, <2>5, <2>6, <2>7, <2>8, <2>9 DEF Parent
<1>6. CASE UNCHANGED vars
  BY <1>6 DEF vars, sVars, iVars, bVars, pipeVars, readerVars, parentVars, Nested
<1> QED
  BY <1>1, <1>2, <1>3, <1>4, <1>5, <1>6, LauncherNested, InitNested DEF Next

-----------------------------------------------------------------------------
(* Traced.                                                                  *)

(* Killing takes nothing away from what the tracer has seen.                *)
LEMMA KillTraced ==
    ASSUME TypeOK, Traced, UNCHANGED <<meta, execs, ran, armed, job>>,
           i' \in {i, "init"} \cup Ended,
           \/ b' = b /\ fate' = fate
           \/ Exists(b) /\ b' = "dying" /\ fate' = fate
           \/ b = "dying" /\ b' = "gone" /\ fate' \in Outcomes
    PROVE  Traced'
<1> USE DEF Ended
<1>1. CASE b' = b /\ fate' = fate
  BY <1>1 DEF Traced
<1>2. CASE Exists(b) /\ b' = "dying" /\ fate' = fate
  BY <1>2 DEF Traced, Exists, Absent
<1>3. CASE b = "dying" /\ b' = "gone" /\ fate' \in Outcomes
  BY <1>3 DEF Traced
<1> QED
  BY <1>1, <1>2, <1>3

LEMMA InitTraced ==
    ASSUME TypeOK, Nested, Traced, NamespaceInit
    PROVE  Traced'
<1> USE DEF Ended
<1>0. UNCHANGED <<meta, execs, fate>> /\ job \in Jobs /\ execs \in Nat
  BY InitFrame, SupervisedAssumption DEF TypeOK
<1>1. CASE InitGate
  BY <1>0, <1>1 DEF InitGate, InitExits, Killed, Exists, Absent, Traced
<1>2. CASE \/ Mandatory("started", Started, "fork")
           \/ Mandatory("spawned", Spawned, "metadata")
           \/ Mandatory("verified", Verified, "sigstop")
           \/ Mandatory("arm", Armed, "continue")
           \/ Mandatory("confirm", Confirmed, "resume")
           \/ Mandatory("outcome", Exited(fate), "sweep")
  BY <1>0, <1>2 DEF Mandatory, bVars, Traced
<1>3. CASE ForkBootstrap
  BY <1>0, <1>3 DEF ForkBootstrap, Fails, Traced, Nested, Jobs
<1>4. CASE ReadMetadata
  BY <1>0, <1>4 DEF ReadMetadata, Fails, Traced, Jobs, bVars
<1>5. CASE AwaitStop
  BY <1>0, <1>5 DEF AwaitStop, Fails, Traced, Jobs, bVars
<1>6. CASE Continue
  BY <1>0, <1>6 DEF Continue, Fails, Traced, Jobs
<1>7. CASE Watch
  BY <1>0, <1>7 DEF Watch, Fails, Traced, Jobs, bVars
<1>8. CASE ContinueExec
  BY <1>0, <1>8 DEF ContinueExec, Fails, Traced, Jobs
<1>9. CASE ReportFailed
  BY <1>0, <1>9 DEF ReportFailed, bVars, Traced
<1>10. CASE SweepKill
  BY <1>0, <1>10 DEF SweepKill, iVars, Killed, Exists, Absent, Traced
<1>11. CASE SweepEnds
  BY <1>0, <1>11 DEF SweepEnds, bVars, Traced, Jobs
<1>12. CASE ReportCleaned
  BY <1>0, <1>12 DEF ReportCleaned, InitExits, Killed, Exists, Absent, Traced
<1> QED
  BY <1>1, <1>2, <1>3, <1>4, <1>5, <1>6, <1>7, <1>8, <1>9, <1>10, <1>11, <1>12
     DEF NamespaceInit

LEMMA TracedStep ==
    ASSUME TypeOK, Nested, Traced, [Next]_vars
    PROVE  Traced'
<1> USE DEF Ended
<1>1. CASE Launcher
  <2>1. i' \in {i, "init"} \cup Ended
    BY <1>1 DEF Launcher, ReadConfig, PreforkFails, ForkInit, VerifyInit, Handoff,
       Release, Contain, Contained, WaitForInit, iVars, Killed
  <2> QED
    BY <1>1, <2>1, LauncherFrame, KillTraced
<1>2. CASE Workload
  <2>0. UNCHANGED <<i, armed, job>> /\ execs \in Nat
    BY <1>2, WorkloadFrame, SupervisedAssumption DEF TypeOK
  <2>1. CASE Setup
    BY <2>0, <2>1 DEF Setup, Traced, Outcomes
  <2>2. CASE Stop
    BY <2>0, <2>2 DEF Stop, Traced
  <2>3. CASE Exec
    <3>1. armed /\ b \in {"released", "running"}
      BY <2>3 DEF Exec, Traced
    <3>2. b' = "execstop" /\ execs' = execs + 1 /\ UNCHANGED <<meta, fate>>
      BY <2>3, <3>1 DEF Exec
    <3>3. ran' = (ran \/ FALSE)
      BY <2>3, <3>1 DEF Exec
    <3>4. ran' <=> ran
      BY <3>3
    <3> QED
      BY <2>0, <3>1, <3>2, <3>4 DEF Traced
  <2>4. CASE Exit
    BY <2>0, <2>4 DEF Exit, Traced, Outcomes
  <2>5. CASE Behave
    BY <2>0, <2>5 DEF Behave, Traced
  <2> QED
    BY <1>2, <2>1, <2>2, <2>3, <2>4, <2>5 DEF Workload
<1>3. CASE Fault \/ Kernel
  <2>1. i' \in {i, "dying", "gone"}
    BY <1>3 DEF Fault, Kernel, Dies
  <2>2. \/ b' \in {b, Killed(b)} /\ fate' = fate
        \/ Exists(b) /\ b' = "dying" /\ fate' = fate
        \/ b = "dying" /\ b' = "gone" /\ fate' = "signaled"
    BY <1>3 DEF Fault, Kernel, Dies
  <2> QED
    BY <1>3, <2>1, <2>2, KernelFrame, KillTraced DEF Outcomes, Killed, Exists, Absent
<1>4. CASE Reader
  BY <1>4, ReaderFrame, KillTraced
<1>5. CASE Parent \/ Cancel
  <2>1. i' \in {i, "dying"} /\ b' \in {b, Killed(b)}
    BY <1>5, ParentKills DEF KillGroup, Killed
  <2> QED
    BY <1>5, <2>1, ParentFrame, KillTraced DEF Killed, Exists, Absent
<1>6. CASE UNCHANGED vars
  BY <1>6, KillTraced DEF vars, sVars, iVars, bVars
<1> QED
  BY <1>1, <1>2, <1>3, <1>4, <1>5, <1>6, InitTraced DEF Next

-----------------------------------------------------------------------------
(* The stream of records.                                                   *)

LEMMA WrittenType ==
    ASSUME TypeOK
    PROVE  Written \in Seq(ProtoRecords)
BY ConcatProperties DEF TypeOK, Written

LEMMA EmptySends ==
    ASSUME Written = <<>>
    PROVE  \A rec : ~Sent(rec)
BY DEF Sent, Has

(* Records are told apart by their type and their one detail.               *)
LEMMA Distinct ==
    /\ Failed \notin {Started, Spawned, Verified, Armed, Confirmed}
    /\ Confirmed \notin {Started, Spawned, Verified, Armed, Failed}
    /\ \A how : Exited(how) \notin {Started, Spawned, Verified, Armed, Confirmed, Failed}
    /\ \A ok : Cleaned(ok) \notin {Started, Spawned, Verified, Armed, Confirmed, Failed}
    /\ \A how, ok : Exited(how) # Cleaned(ok)
    /\ \A how, g : Exited(how) = Exited(g) => how = g
    /\ \A ok \in BOOLEAN : Cleaned(ok) = Cleaned(TRUE) => ok
BY DEF Started, Spawned, Verified, Armed, Confirmed, Failed, Exited, Cleaned

(* One more record.                                                         *)
LEMMA OneMore ==
    ASSUME TypeOK, NEW rec \in ProtoRecords, got' = got, chan' = Append(chan, rec)
    PROVE  Written' = Append(Written, rec)
<1>1. chan \in Seq(ProtoRecords) /\ got \in Seq(ProtoRecords)
  BY DEF TypeOK
<1>2. Append(chan, rec) = chan \o <<rec>> /\ <<rec>> \in Seq(ProtoRecords)
  BY <1>1, AppendIsConcat
<1>3. got \o (chan \o <<rec>>) = (got \o chan) \o <<rec>>
  <2> DEFINE r == <<rec>>
  <2>1. r \in Seq(ProtoRecords)
    BY <1>2
  <2> HIDE DEF r
  <2>2. got \o (chan \o r) = (got \o chan) \o r
    BY SMTT(30), <1>1, <2>1, ConcatAssociative
  <2> QED
    BY <2>2 DEF r
<1>4. got \o chan \in Seq(ProtoRecords)
  BY <1>1, ConcatProperties
<1>5. Append(got \o chan, rec) = (got \o chan) \o <<rec>>
  BY <1>4, AppendIsConcat
<1> QED
  BY <1>2, <1>3, <1>5 DEF Written

LEMMA AppendedFacts ==
    ASSUME Written \in Seq(ProtoRecords), NEW rec \in ProtoRecords,
           Written' = Append(Written, rec)
    PROVE  /\ Written' # <<>>
           /\ \A x : Sent(x)' <=> Sent(x) \/ x = rec
           /\ \A S : LastIn(S)' <=> rec \in S
           /\ execs' = execs /\ Chain
              /\ (IF Written = <<>> THEN rec \in {Started, Failed}
                  ELSE Follows(Last(Written), rec, execs)) => Chain'
<1> DEFINE n == Len(Written)
<1>1. /\ n \in Nat /\ Len(Written') = n + 1 /\ Written' # <<>>
      /\ \A k \in 1 .. n : Written'[k] = Written[k]
      /\ Written'[n + 1] = rec
      /\ Written = <<>> <=> n = 0
  BY AppendProperties, EmptySeq
<1> HIDE DEF n
<1>2. ASSUME NEW x PROVE Sent(x)' <=> Sent(x) \/ x = rec
  BY <1>1 DEF Sent, Has, n
<1>3. ASSUME NEW S PROVE LastIn(S)' <=> rec \in S
  BY <1>1 DEF LastIn, Last
<1>4. ASSUME execs' = execs, Chain,
             IF Written = <<>> THEN rec \in {Started, Failed}
             ELSE Follows(Last(Written), rec, execs)
      PROVE  Chain'
  <2>1. ASSUME NEW k \in 1 .. n + 1
        PROVE  IF k = 1 THEN Written'[k] \in {Started, Failed}
               ELSE Follows(Written'[k - 1], Written'[k], execs)
    <3>1. CASE k = n + 1 /\ n = 0
      BY <1>1, <1>4, <3>1
    <3>2. CASE k = n + 1 /\ n # 0
      BY <1>1, <1>4, <3>2 DEF Last, n
    <3>3. CASE k \in 1 .. n
      <4>1. IF k = 1 THEN Written[k] \in {Started, Failed}
            ELSE Follows(Written[k - 1], Written[k], execs)
        BY <1>4, <3>3, Zenon DEF Chain, n
      <4>2. k # 1 => k - 1 \in 1 .. n
        BY <1>1, <3>3
      <4> QED
        BY <1>1, <3>3, <4>1, <4>2
    <3> QED
      BY <1>1, <3>1, <3>2, <3>3
  <2> QED
    BY <1>1, <1>4, <2>1, Zenon DEF Chain
<1> QED
  BY <1>1, <1>2, <1>3, <1>4

LEMMA SameWritten ==
    ASSUME Written' = Written
    PROVE  /\ \A x : Sent(x)' <=> Sent(x)
           /\ \A S : LastIn(S)' <=> LastIn(S)
           /\ execs \in Nat /\ execs' \in Nat /\ execs =< execs' /\ Chain => Chain'
<1>1. \A x : Sent(x)' <=> Sent(x)
  BY DEF Sent
<1>2. \A S : LastIn(S)' <=> LastIn(S)
  BY DEF LastIn
<1>3. ASSUME execs \in Nat, execs' \in Nat, execs =< execs', Chain PROVE Chain'
  <2>1. \A p, r : Follows(p, r, execs) => Follows(p, r, execs')
    BY <1>3 DEF Follows
  <2> QED
    BY <1>3, <2>1, Zenon DEF Chain
<1> QED
  BY <1>1, <1>2, <1>3

(* A legal record moves from the pipe to the parser.  An illegal one is     *)
(* lost; if the stream is a chain it is the report of a second execve.      *)
LEMMA ReadMoves ==
    ASSUME TypeOK, Read, Legal(got, Head(chan))
    PROVE  Written' = Written
<1>1. chan \in Seq(ProtoRecords) /\ got \in Seq(ProtoRecords) /\ chan # <<>>
  BY DEF TypeOK, Read
<1>2. got' = Append(got, Head(chan)) /\ chan' = Tail(chan)
  BY DEF Read
<1> DEFINE h == Head(chan)
           t == Tail(chan)
<1>3. h \in ProtoRecords /\ t \in Seq(ProtoRecords) /\ chan = <<h>> \o t
  BY <1>1
<1> HIDE DEF h, t
<1>4. Append(got, h) = got \o <<h>> /\ <<h>> \in Seq(ProtoRecords)
  BY <1>1, <1>3, AppendIsConcat
<1> DEFINE q == <<h>>
<1>5. q \in Seq(ProtoRecords)
  BY <1>4
<1> HIDE DEF q
<1>6. (got \o q) \o t = got \o (q \o t)
  BY SMTT(30), <1>1, <1>3, <1>5, ConcatAssociative
<1> QED
  BY <1>2, <1>3, <1>4, <1>6 DEF Written, h, t, q

LEMMA ReadDrops ==
    ASSUME TypeOK, Read, ~Legal(got, Head(chan))
    PROVE  /\ fut' = "invalid" /\ got' = got
           /\ \A x : Sent(x)' => Sent(x)
           /\ Chain => Has(got, Confirmed) /\ execs > 1
           /\ \A x : Has(got, x) => Sent(x)'
<1>1. chan \in Seq(ProtoRecords) /\ got \in Seq(ProtoRecords) /\ chan # <<>>
  BY DEF TypeOK, Read
<1>2. fut' = "invalid" /\ got' = got /\ chan' = Tail(chan)
  BY DEF Read
<1> DEFINE n == Len(got)
           l == Len(chan)
<1>3. /\ n \in Nat /\ l \in Nat \ {0}
      /\ Tail(chan) \in Seq(ProtoRecords) /\ Len(Tail(chan)) = l - 1
      /\ \A k \in 1 .. l - 1 : Tail(chan)[k] = chan[k + 1]
      /\ Head(chan) = chan[1]
  BY <1>1
<1>4. /\ Len(Written) = n + l
      /\ \A k \in 1 .. n : Written[k] = got[k]
      /\ \A k \in 1 .. l : Written[n + k] = chan[k]
  BY <1>1, <1>3 DEF Written
<1>5. /\ Len(Written') = n + (l - 1)
      /\ \A k \in 1 .. n : Written'[k] = got[k]
      /\ \A k \in 1 .. l - 1 : Written'[n + k] = chan[k + 1]
  BY <1>1, <1>2, <1>3 DEF Written
<1>6. ASSUME NEW x, Sent(x)' PROVE Sent(x)
  <2>1. PICK k \in 1 .. n + (l - 1) : Written'[k] = x
    BY <1>5, <1>6 DEF Sent, Has
  <2>2. CASE k \in 1 .. n
    BY SMTT(30), <1>3, <1>4, <1>5, <2>1, <2>2 DEF Sent, Has
  <2>3. CASE k \notin 1 .. n
    <3>1. k - n \in 1 .. l - 1 /\ k = n + (k - n) /\ k - n + 1 \in 1 .. l
      BY <1>3, <2>3
    <3>2. Written[n + (k - n + 1)] = x
      BY <1>4, <1>5, <2>1, <3>1
    <3> QED
      BY SMTT(30), <1>3, <1>4, <3>1, <3>2 DEF Sent, Has
  <2> QED
    BY <2>2, <2>3
<1>7. ASSUME NEW x, Has(got, x) PROVE Sent(x)'
  BY <1>3, <1>5, <1>7 DEF Sent, Has
<1>8. ASSUME Chain PROVE Has(got, Confirmed) /\ execs > 1
  <2>1. n + 1 \in 1 .. Len(Written) /\ Written[n + 1] = Head(chan)
    BY <1>3, <1>4
  <2>2. IF n + 1 = 1 THEN Written[n + 1] \in {Started, Failed}
        ELSE Follows(Written[(n + 1) - 1], Written[n + 1], execs)
    BY <1>8, <2>1, Zenon DEF Chain
  <2>3. n # 0
    BY <1>1, <2>1, <2>2 DEF Legal
  <2>4. Written[(n + 1) - 1] = Last(got) /\ n \in 1 .. n
    BY <1>3, <1>4, <2>3 DEF Last
  <2>5. got # <<>>
    BY <2>3
  <2>6. Last(got) = Confirmed /\ execs > 1
    BY <1>3, <2>1, <2>2, <2>3, <2>4, <2>5 DEF Legal, Follows
  <2> QED
    BY <2>4, <2>6 DEF Has, Last
<1> QED
  BY <1>2, <1>6, <1>7, <1>8

LEMMA Transitions ==
    ASSUME NEW n
    PROVE  /\ Follows(Started, Spawned, n) /\ Follows(Spawned, Verified, n)
           /\ Follows(Verified, Armed, n) /\ Follows(Armed, Confirmed, n)
           /\ n > 1 => Follows(Confirmed, Confirmed, n)
           /\ \A how : Follows(Confirmed, Exited(how), n)
           /\ \A p \in {Started, Spawned, Verified, Armed, Confirmed} : Follows(p, Failed, n)
           /\ \A ok : /\ Follows(Failed, Cleaned(ok), n)
                      /\ \A how : Follows(Exited(how), Cleaned(ok), n)
BY DEF Follows, Predecessors, Started, Spawned, Verified, Armed, Confirmed, Failed, Exited,
       Cleaned

LEMMA LastSent ==
    ASSUME TypeOK, NEW S, LastIn(S)
    PROVE  Written # <<>> /\ Last(Written) \in S
BY DEF LastIn

(* A step that writes nothing and at most ends processes.                   *)
LEMMA QuietStream ==
    ASSUME TypeOK, Nested, Stream, Written' = Written,
           UNCHANGED <<execs, ran, voice, job>>,
           i' = i \/ (Exists(i) /\ i' \in Ended),
           s' \notin {"wait"} \cup Ended => s \notin {"wait"} \cup Ended,
           s \in Ended => s' \in Ended,
           b = "gone" => b' = "gone" /\ fate' = fate,
           ~Exists(b) => ~Exists(b)', ~Exists(kid) => ~Exists(kid)',
           fut' = "absent" => fut = "absent",
           fut' = "invalid" <=> fut = "invalid",
           fut' = "invalid" => got' = got
    PROVE  Stream'
<1> USE DEF Ended, Absent
<1>0. execs \in Nat
  BY SupervisedAssumption DEF TypeOK
<1>1. Voiced' /\ Silent'
  BY DEF Stream, Meant, Voiced, Silent, Exists
<1>2. StartMeant'
  BY SameWritten DEF Stream, Meant, StartMeant, Exists
<1>3. EndMeant'
  BY SameWritten DEF Stream, Meant, EndMeant, Exists
<1>4. CleanMeant'
  BY SameWritten DEF Stream, Meant, CleanMeant, Exists
<1>5. Chain => Chain'
  BY <1>0, SameWritten
<1>6. Positioned => Positioned'
  <2>1. CASE i' = i
    BY <2>1, SameWritten DEF Positioned
  <2>2. CASE i' \in Ended
    BY <2>2 DEF Positioned
  <2> QED
    BY <2>1, <2>2
<1> QED
  BY <1>1, <1>2, <1>3, <1>4, <1>5, <1>6 DEF Stream, Meant

(* S writes to an empty stream, and nobody writes after it.                 *)
LEMMA LauncherStream ==
    ASSUME TypeOK, Nested, Stream, Launcher
    PROVE  Stream'
<1> USE DEF Ended, Exists, Absent
<1>0. /\ UNCHANGED <<b, kid, execs, ran, fate, voice, job, got, fut>>
      /\ execs \in Nat /\ Written \in Seq(ProtoRecords)
      /\ s \in LauncherStates /\ i \in InitStates
  BY LauncherFrame, WrittenType, SupervisedAssumption DEF TypeOK
<1>1. CASE ForkInit
  <2>1. Written = <<>> /\ Written' = <<>> /\ i' = "init" /\ i = "none" /\ s' = "verify"
    BY <1>0, <1>1 DEF ForkInit, Stream, Meant, Silent, Nested, Written
  <2>2. \A x : ~Sent(x) /\ ~Sent(x)'
    BY <2>1, EmptySends DEF Sent, Has
  <2>3. Voiced' /\ Silent'
    BY <1>0, <2>1 DEF Stream, Meant, Voiced, Silent
  <2>4. StartMeant' /\ EndMeant' /\ CleanMeant'
    BY <1>0, <2>1, <2>2 DEF Stream, Meant, StartMeant, EndMeant, CleanMeant
  <2>5. Chain' /\ Positioned'
    BY <2>1 DEF Chain, Positioned
  <2> QED
    BY <1>0, <2>3, <2>4, <2>5 DEF Stream, Meant
<1>2. CASE chan' = chan /\ ~ForkInit
  <2>1. Written' = Written
    BY <1>0, <1>2 DEF Written
  <2>2. i' = i \/ i' = Killed(i)
    BY <1>2, Zenon DEF Launcher, ReadConfig, PreforkFails, VerifyInit, Handoff, Release,
       Contain, Contained, WaitForInit, iVars
  <2>3. s' \notin {"wait"} \cup Ended => s \notin {"wait"} \cup Ended
    BY <1>2 DEF Launcher, ReadConfig, PreforkFails, VerifyInit, Handoff, Release,
       Contain, Contained, WaitForInit
  <2>4. s \in Ended => s' \in Ended
    BY <1>2 DEF Launcher, ReadConfig, PreforkFails, VerifyInit, Handoff, Release,
       Contain, Contained, WaitForInit
  <2> QED
    BY <1>0, <2>1, <2>2, <2>3, <2>4, QuietStream DEF Killed
<1>3. CASE chan' # chan
  <2>1. PICK ok \in BOOLEAN :
                /\ \/ s = "prefork"
                   \/ s = "contain" /\ gate = "denied" /\ (ok => i = "gone")
                /\ s' = "dying" /\ UNCHANGED <<gate, i, writers>>
                /\ \/ chan' = Append(chan, Failed)
                   \/ chan' = Append(Append(chan, Failed), Cleaned(ok))
    BY <1>3, LauncherWrites
  <2>2. Written = <<>> /\ i \in {"none", "dying", "gone"} /\ fut # "absent"
    BY <2>1 DEF Nested, Stream, Meant, Silent
  <2>3. got = <<>> /\ chan = <<>>
    BY <2>2, ConcatProperties DEF Written, TypeOK
  <2>4. fut # "invalid"
    BY <2>3 DEF Stream, Has
  <2>5. ok => ~Exists(b) /\ ~Exists(kid) /\ i \in {"none", "gone"}
    BY <2>1 DEF Nested
  <2>6. \/ Len(Written') = 1 /\ Written'[1] = Failed
        \/ Len(Written') = 2 /\ Written'[1] = Failed /\ Written'[2] = Cleaned(ok)
    <3>1. Failed \in ProtoRecords /\ Cleaned(ok) \in ProtoRecords
      BY RecordTypes
    <3> DEFINE F == Failed
               C == Cleaned(ok)
    <3> HIDE DEF F, C
    <3>2. F \in ProtoRecords /\ C \in ProtoRecords
          /\ (chan' = Append(<<>>, F) \/ chan' = Append(Append(<<>>, F), C))
      BY <2>1, <2>3, <3>1 DEF F, C
    <3>3. chan' \in Seq(ProtoRecords) /\ Written' = chan'
      <4>1. chan' \in Seq(ProtoRecords)
        <5>1. <<>> \in Seq(ProtoRecords)
          OBVIOUS
        <5> QED
          BY <3>2, <5>1, AppendType, Zenon
      <4>2. <<>> \o chan' = chan'
        BY <4>1, ConcatEmptySeq
      <4> QED
        BY <1>0, <2>3, <4>1, <4>2 DEF Written
    <3>4. \/ Len(chan') = 1 /\ chan'[1] = F
          \/ Len(chan') = 2 /\ chan'[1] = F /\ chan'[2] = C
      BY <3>2
    <3> QED
      BY <3>3, <3>4 DEF F, C
  <2>7. \A x : Sent(x)' => x \in {Failed, Cleaned(ok)}
    BY <2>6 DEF Sent, Has
  <2>8. Chain'
    <3>1. Follows(Failed, Cleaned(ok), execs)
      BY Transitions
    <3> QED
      BY <1>0, <2>6, <3>1 DEF Chain
  <2>9. Voiced' /\ Silent'
    BY <1>0, <2>1, <2>2 DEF Stream, Meant, Voiced, Silent
  <2>10. StartMeant'
    <3>1. ~ran /\ i' # "resume"
      BY <2>1, <2>2, EmptySends DEF Stream, Meant, StartMeant
    <3>2. Confirmed \notin {Failed, Cleaned(ok)}
      BY Distinct
    <3>3. ~Sent(Confirmed)'
      BY <2>7, <3>2, Zenon DEF Sent, Confirmed
    <3> QED
      BY <1>0, <3>1, <3>3 DEF StartMeant
  <2>11. EndMeant'
    BY <1>0, <2>1, <2>2, <2>7, Distinct DEF EndMeant
  <2>12. CleanMeant'
    <3>1. Sent(Cleaned(TRUE))' => ok
      <4>1. Cleaned(TRUE) \in {Failed, Cleaned(ok)} => ok
        BY Distinct
      <4>2. Sent(Cleaned(TRUE))' => Cleaned(TRUE) \in {Failed, Cleaned(ok)}
        BY <2>7, Zenon DEF Sent, Cleaned
      <4> QED
        BY <4>1, <4>2
    <3> QED
      BY <1>0, <2>1, <2>5, <3>1 DEF CleanMeant
  <2>13. Positioned'
    BY <2>1, <2>2 DEF Positioned
  <2> QED
    BY <1>0, <2>4, <2>8, <2>9, <2>10, <2>11, <2>12, <2>13 DEF Stream, Meant
<1> QED
  BY <1>1, <1>2, <1>3

(* I, when it writes nothing.                                               *)
LEMMA Longer ==
    ASSUME NEW q \in Seq(ProtoRecords), NEW rec
    PROVE  Append(q, rec) # q
<1>1. Len(Append(q, rec)) = Len(q) + 1 /\ Len(q) \in Nat
  OBVIOUS
<1> QED
  BY <1>1

LEMMA QuietInitMoves ==
    ASSUME TypeOK, NamespaceInit, chan' = chan
    PROVE  /\ i \notin {"none"} \cup Ended
           /\ i' # "none"
           /\ i' \in {"init", "started"} => i \in {"init", "started"}
           /\ i \in {"sweep", "report"} => i' \in {"sweep", "report", "dying"}
           /\ i' # "resume"
           /\ voice' = voice \/ i' = "sweep"
           /\ ran' = ran \/ i = "resume"
           /\ i \in {"sweep", "report"} => b' \in {b, Killed(b)} /\ ran' = ran
<1> USE DEF NamespaceInit, InitGate, InitExits, Mandatory, Fails, ForkBootstrap,
        ReadMetadata, AwaitStop, Continue, Watch, ContinueExec, ReportFailed, SweepKill,
        SweepEnds, ReportCleaned, iVars, bVars
<1>0. \A rec : chan' # Append(chan, rec)
  BY Longer DEF TypeOK
<1>1. i \notin {"none"} \cup Ended
  BY DEF Ended
<1>2. i' # "none"
  OBVIOUS
<1>3. i' \in {"init", "started"} => i \in {"init", "started"}
  OBVIOUS
<1>4. i \in {"sweep", "report"} => i' \in {"sweep", "report", "dying"}
  OBVIOUS
<1>5. i' # "resume"
  BY <1>0
<1>6. voice' = voice \/ i' = "sweep"
  BY Zenon
<1>7. ran' = ran \/ i = "resume"
  BY Zenon
<1>8. i \in {"sweep", "report"} => b' \in {b, Killed(b)} /\ ran' = ran
  OBVIOUS
<1> QED
  BY <1>1, <1>2, <1>3, <1>4, <1>5, <1>6, <1>7, <1>8

LEMMA QuietInitPositioned ==
    ASSUME TypeOK, Nested, Traced, Positioned, NamespaceInit, chan' = chan,
           Written' = Written
    PROVE  Positioned'
<1>0. /\ \A S : LastIn(S)' <=> LastIn(S)
      /\ \A S, T : LastIn(S) /\ S \subseteq T => LastIn(T)
      /\ execs' = execs /\ execs \in Nat /\ job \in Jobs
      /\ \A rec : chan' # Append(chan, rec)
  BY SameWritten, InitFrame, SupervisedAssumption, Longer DEF LastIn, TypeOK
<1>1. ASSUME Fails(TRUE) \/ Fails(FALSE),
             i \in {"fork", "metadata", "sigstop", "continue", "watch", "resume"}
      PROVE  Positioned'
  <2>1. LastIn({Started, Spawned, Verified, Armed, Confirmed})
    BY <1>0, <1>1 DEF Positioned
  <2> QED
    BY <1>0, <1>1, <2>1 DEF Fails, Positioned
<1>2. CASE InitGate
  BY <1>2 DEF InitGate, InitExits, Positioned
<1>3. CASE \/ Mandatory("started", Started, "fork")
           \/ Mandatory("spawned", Spawned, "metadata")
           \/ Mandatory("verified", Verified, "sigstop")
           \/ Mandatory("arm", Armed, "continue")
           \/ Mandatory("confirm", Confirmed, "resume")
           \/ Mandatory("outcome", Exited(fate), "sweep")
  <2>1. voice' = FALSE /\ i' = "sweep"
    BY <1>0, <1>3, Zenon DEF Mandatory
  <2> QED
    BY <2>1 DEF Positioned
<1>4. CASE ForkBootstrap
  BY <1>0, <1>1, <1>4 DEF ForkBootstrap, Positioned
<1>5. CASE ReadMetadata
  BY <1>0, <1>1, <1>5 DEF ReadMetadata, Positioned
<1>6. CASE AwaitStop
  BY <1>0, <1>1, <1>6 DEF AwaitStop, Positioned
<1>7. CASE Continue
  BY <1>0, <1>1, <1>7 DEF Continue, Positioned, Traced
<1>8. CASE Watch
  BY <1>0, <1>1, <1>8 DEF Watch, Positioned, Traced
<1>9. CASE ContinueExec
  BY <1>0, <1>1, <1>9 DEF ContinueExec, Positioned, Traced
<1>10. CASE ReportFailed
  BY <1>0, <1>10 DEF ReportFailed, Positioned
<1>11. CASE SweepKill
  BY <1>0, <1>11 DEF SweepKill, iVars, Positioned
<1>12. CASE SweepEnds
  BY <1>0, <1>12 DEF SweepEnds, Positioned
<1>13. CASE ReportCleaned
  BY <1>13 DEF ReportCleaned, InitExits, Positioned
<1> QED
  BY <1>2, <1>3, <1>4, <1>5, <1>6, <1>7, <1>8, <1>9, <1>10, <1>11, <1>12, <1>13
     DEF NamespaceInit

LEMMA QuietInitStream ==
    ASSUME TypeOK, Nested, Traced, Stream, NamespaceInit, chan' = chan
    PROVE  Stream'
<1> USE DEF Ended
<1>0. /\ UNCHANGED <<s, execs, fate, got, fut>> /\ execs \in Nat
      /\ Written' = Written
  BY InitFrame, SupervisedAssumption DEF TypeOK, Written
<1>1. Voiced' /\ Silent'
  BY <1>0, QuietInitMoves DEF Stream, Meant, Voiced, Silent
<1>2. StartMeant'
  BY <1>0, QuietInitMoves, SameWritten DEF Stream, Meant, StartMeant
<1>3. EndMeant'
  BY <1>0, QuietInitMoves, SameWritten DEF Stream, Meant, EndMeant, Killed, Exists, Absent
<1>4. CleanMeant'
  BY <1>0, QuietInitMoves, SameWritten DEF Stream, Meant, CleanMeant
<1>5. Chain => Chain'
  BY <1>0, SameWritten
<1>6. Positioned => Positioned'
  BY <1>0, QuietInitPositioned
<1> QED
  BY <1>0, <1>1, <1>2, <1>3, <1>4, <1>5, <1>6 DEF Stream, Meant

(* I, when it writes: by then S no longer does, and the parser listens.     *)
LEMMA InitSpeaks ==
    ASSUME TypeOK, Nested, NamespaceInit, chan' # chan
    PROVE  i \notin {"none", "init"} \cup Ended /\ s \in {"wait"} \cup Ended /\ fut # "absent"
<1> USE DEF Ended
<1>1. i \notin {"none", "init"} \cup Ended
  BY DEF NamespaceInit, InitGate, Mandatory, ForkBootstrap, ReadMetadata, AwaitStop,
     Continue, Watch, ContinueExec, ReportFailed, SweepKill, SweepEnds, ReportCleaned,
     pipeVars
<1>2. gate = "open" /\ fut # "absent"
  BY <1>1 DEF Nested
<1>3. s \in {"wait"} \cup Ended
  BY <1>2 DEF Nested, TypeOK, LauncherStates
<1> QED
  BY <1>1, <1>2, <1>3

LEMMA MandatoryStream ==
    ASSUME TypeOK, Nested, Traced, Stream, NamespaceInit, chan' # chan,
           NEW at, NEW rec \in ProtoRecords, NEW next, Mandatory(at, rec, next),
           \/ at = "started" /\ rec = Started /\ next = "fork"
           \/ at = "spawned" /\ rec = Spawned /\ next = "metadata"
           \/ at = "verified" /\ rec = Verified /\ next = "sigstop"
           \/ at = "arm" /\ rec = Armed /\ next = "continue"
           \/ at = "confirm" /\ rec = Confirmed /\ next = "resume"
           \/ at = "outcome" /\ rec = Exited(fate) /\ next = "sweep"
    PROVE  Stream'
<1> USE DEF Ended
<1>0. /\ UNCHANGED <<s, execs, fate, got, fut>> /\ execs \in Nat
      /\ Written \in Seq(ProtoRecords)
  BY InitFrame, WrittenType, SupervisedAssumption DEF TypeOK
<1>1. /\ i = at /\ i' = next /\ chan' = Append(chan, rec)
      /\ UNCHANGED <<voice, job, b, kid, ran>>
  BY DEF Mandatory, bVars
<1>2. Written' = Append(Written, rec)
  BY <1>0, <1>1, OneMore
<1>3. \A x : Sent(x)' <=> Sent(x) \/ x = rec
  BY <1>0, <1>2, AppendedFacts
<1>4. Voiced' /\ Silent'
  BY <1>0, <1>1, InitSpeaks DEF Stream, Meant, Voiced, Silent
<1>5. StartMeant'
  <2>1. rec = Confirmed <=> at = "confirm"
    BY Distinct
  <2> QED
    BY <1>0, <1>1, <1>3, <2>1 DEF Stream, Meant, StartMeant, Traced
<1>6. EndMeant'
  <2>1. rec # Failed /\ \A how : rec = Exited(how) => at = "outcome" /\ how = fate
    BY Distinct
  <2>2. ~Sent(Failed) /\ \A how \in Outcomes : ~Sent(Exited(how))
    BY <1>1 DEF Stream, Meant, EndMeant
  <2> QED
    BY <1>0, <1>1, <1>3, <2>1, <2>2 DEF EndMeant, Traced
<1>7. CleanMeant'
  <2>1. rec # Cleaned(TRUE)
    BY Distinct
  <2> QED
    BY <1>0, <1>1, <1>3, <2>1 DEF Stream, Meant, CleanMeant
<1>8. ASSUME Chain, Positioned
      PROVE  Chain' /\ Positioned'
  <2>1. \A S : LastIn(S)' <=> rec \in S
    BY <1>0, <1>2, AppendedFacts
  <2>2. IF Written = <<>> THEN rec \in {Started, Failed}
        ELSE Follows(Last(Written), rec, execs)
    <3>1. CASE at = "started"
      BY <1>1, <3>1 DEF Stream, Meant, Silent
    <3>2. CASE at # "started"
      BY <1>1, <1>8, <3>2, Transitions DEF Positioned, LastIn
    <3> QED
      BY <3>1, <3>2
  <2>3. Chain'
    BY <1>0, <1>2, <1>8, <2>2, AppendedFacts
  <2>4. Positioned'
    <3>1. fate \in Outcomes \/ at # "outcome"
      BY <1>1 DEF Traced
    <3> QED
      BY <1>1, <2>1, <3>1 DEF Positioned, Outcomes
  <2> QED
    BY <2>3, <2>4
<1> QED
  BY <1>0, <1>4, <1>5, <1>6, <1>7, <1>8 DEF Stream, Meant

LEMMA LastWords ==
    ASSUME TypeOK, Nested, Traced, Stream, NamespaceInit, chan' # chan,
           ReportFailed \/ ReportCleaned
    PROVE  Stream'
<1> USE DEF Ended
<1>0. /\ UNCHANGED <<s, execs, fate, got, fut>> /\ execs \in Nat
      /\ Written \in Seq(ProtoRecords)
  BY InitFrame, WrittenType, SupervisedAssumption DEF TypeOK
<1>1. PICK rec \in ProtoRecords :
         /\ chan' = Append(chan, rec) /\ UNCHANGED <<voice, job, ran>> /\ voice
         /\ \/ /\ i = "fail" /\ i' = "sweep" /\ rec = Failed /\ UNCHANGED <<b, kid>>
            \/ /\ i = "report" /\ i' = "dying" /\ rec = Cleaned(job.swept)
               /\ b' = Killed(b) /\ kid' = Killed(kid)
  <2>1. CASE ReportFailed
    BY <2>1, RecordTypes DEF ReportFailed, bVars
  <2>2. CASE ReportCleaned
    <3>1. Cleaned(job.swept) \in ProtoRecords
      BY RecordTypes DEF TypeOK, Jobs
    <3> QED
      BY <2>2, <3>1 DEF ReportCleaned, InitExits
  <2> QED
    BY <2>1, <2>2
<1>2. Written' = Append(Written, rec)
  BY <1>0, <1>1, OneMore
<1>3. \A x : Sent(x)' <=> Sent(x) \/ x = rec
  BY <1>0, <1>2, AppendedFacts
<1>4. Voiced' /\ Silent'
  BY <1>0, <1>1, InitSpeaks DEF Stream, Meant, Voiced, Silent
<1>5. StartMeant'
  <2>1. rec # Confirmed
    BY <1>1, Distinct
  <2> QED
    BY <1>0, <1>1, <1>3, <2>1 DEF Stream, Meant, StartMeant
<1>6. EndMeant'
  <2>1. (rec = Failed <=> i = "fail") /\ \A how : rec # Exited(how)
    BY <1>1, Distinct
  <2>2. CASE i = "fail"
    <3>1. \A how \in Outcomes : ~Sent(Exited(how))
      BY <2>2 DEF Stream, Meant, EndMeant
    <3> QED
      BY <1>0, <1>1, <1>3, <2>1, <2>2, <3>1 DEF EndMeant
  <2>3. CASE i = "report"
    BY <1>0, <1>1, <1>3, <2>1, <2>3
       DEF Stream, Meant, EndMeant, Killed, Exists, Absent
  <2> QED
    BY <1>1, <2>2, <2>3
<1>7. CleanMeant'
  <2>1. rec = Cleaned(TRUE) => i = "report" /\ job.swept
    BY <1>1, Distinct DEF TypeOK, Jobs
  <2> QED
    BY <1>0, <1>1, <1>3, <2>1
       DEF Stream, Meant, CleanMeant, Nested, Killed, Exists, Absent
<1>8. ASSUME Chain, Positioned
      PROVE  Chain' /\ Positioned'
  <2>1. \A S : LastIn(S)' <=> rec \in S
    BY <1>0, <1>2, AppendedFacts
  <2>2. Written # <<>> /\ Follows(Last(Written), rec, execs)
    BY <1>1, <1>8, Transitions DEF Positioned, LastIn
  <2>3. Chain'
    BY <1>0, <1>2, <1>8, <2>2, AppendedFacts
  <2>4. Positioned'
    BY <1>1, <2>1 DEF Positioned
  <2> QED
    BY <2>3, <2>4
<1> QED
  BY <1>0, <1>4, <1>5, <1>6, <1>7, <1>8 DEF Stream, Meant

LEMMA InitStream ==
    ASSUME TypeOK, Nested, Traced, Stream, NamespaceInit
    PROVE  Stream'
<1>1. CASE chan' = chan
  BY <1>1, QuietInitStream
<1>2. CASE chan' # chan
  <2>1. CASE ReportFailed \/ ReportCleaned
    BY <1>2, <2>1, LastWords
  <2>2. CASE \/ Mandatory("started", Started, "fork")
             \/ Mandatory("spawned", Spawned, "metadata")
             \/ Mandatory("verified", Verified, "sigstop")
             \/ Mandatory("arm", Armed, "continue")
             \/ Mandatory("confirm", Confirmed, "resume")
    BY <1>2, <2>2, MandatoryStream, RecordTypes
  <2>3. CASE Mandatory("outcome", Exited(fate), "sweep")
    <3>1. Exited(fate) \in ProtoRecords
      BY <2>3, RecordTypes DEF Mandatory, Traced
    <3> QED
      BY <1>2, <2>3, <3>1, MandatoryStream
  <2> QED
    BY <1>2, <2>1, <2>2, <2>3, Zenon DEF NamespaceInit, InitGate, InitExits, ForkBootstrap,
       ReadMetadata, AwaitStop, Continue, Watch, ContinueExec, SweepKill, SweepEnds, pipeVars
<1> QED
  BY <1>1, <1>2

LEMMA WorkloadStream ==
    ASSUME TypeOK, Nested, Traced, Stream, Workload
    PROVE  Stream'
<1>0. UNCHANGED <<s, i, armed, voice, job, chan, got, fut>>
  BY WorkloadFrame
<1>1. Written' = Written
  BY <1>0 DEF Written
<1>2. execs \in Nat /\ execs' \in Nat /\ execs =< execs'
  BY SupervisedAssumption DEF TypeOK, Workload, Setup, Stop, Exec, Exit, Behave
<1>3. ran' <=> ran
  <2>1. CASE Exec
    <3>1. armed
      BY <2>1 DEF Exec, Traced
    <3> QED
      BY <2>1, <3>1, Zenon DEF Exec
  <2>2. CASE ~Exec
    <3>1. ran' = ran
      BY <2>2, Zenon DEF Workload, Setup, Stop, Exit, Behave
    <3> QED
      BY <3>1
  <2> QED
    BY <2>1, <2>2
<1>4. /\ b = "gone" => b' = "gone" /\ fate' = fate
      /\ ~Exists(b) => ~Exists(b)'
  BY DEF Workload, Setup, Stop, Exec, Exit, Behave, Exists, Absent
<1>5. ~Exists(b) /\ ~Exists(kid) => ~Exists(kid)'
  BY DEF Workload, Setup, Stop, Exec, Exit, Behave, Exists, Absent
<1>6. Voiced' /\ Silent'
  BY <1>0, <1>1 DEF Stream, Meant, Voiced, Silent
<1>7. StartMeant'
  BY <1>0, <1>1, <1>2, <1>3, SameWritten DEF Stream, Meant, StartMeant
<1>8. EndMeant'
  BY <1>0, <1>1, <1>3, <1>4, SameWritten DEF Stream, Meant, EndMeant
<1>9. CleanMeant'
  BY <1>0, <1>1, <1>4, <1>5, SameWritten DEF Stream, Meant, CleanMeant
<1>10. Chain => Chain'
  BY <1>1, <1>2, SameWritten
<1>11. Positioned => Positioned'
  BY <1>0, <1>1, <1>2, SameWritten DEF Positioned
<1> QED
  BY <1>0, <1>2, <1>6, <1>7, <1>8, <1>9, <1>10, <1>11 DEF Stream, Meant

LEMMA KernelStream ==
    ASSUME TypeOK, Nested, Stream, Fault \/ Kernel
    PROVE  Stream'
<1> USE DEF Ended, Exists, Absent
<1>0. UNCHANGED <<execs, ran, voice, job, got, fut, chan>>
  BY KernelFrame
<1>1. Written' = Written
  BY <1>0 DEF Written
<1>2. i' = i \/ (Exists(i) /\ i' \in Ended)
  BY DEF Fault, Kernel, Dies
<1>3. s' = s \/ s' \in Ended
  BY DEF Fault, Kernel, Dies
<1>4. b = "gone" => b' = "gone" /\ fate' = fate
  BY DEF Fault, Kernel, Dies, Killed
<1>5. (~Exists(b) => ~Exists(b)') /\ (~Exists(kid) => ~Exists(kid)')
  BY DEF Fault, Kernel, Dies, Killed
<1> QED
  BY <1>0, <1>1, <1>2, <1>3, <1>4, <1>5, QuietStream

LEMMA ReaderStream ==
    ASSUME TypeOK, Nested, Stream, Reader
    PROVE  Stream'
<1>0. /\ UNCHANGED <<s, i, b, kid, execs, ran, fate, voice, job>>
      /\ fut = None /\ fut \notin Futures
  BY ReaderFrame, SupervisedAssumption DEF Reader, Read, ReadEOF, ReadDeadline, Reading
<1>1. fut # "invalid" /\ fut # "absent"
  BY <1>0 DEF Futures
<1>2. CASE Read /\ Legal(got, Head(chan))
  <2>1. Written' = Written /\ fut' = fut
    BY <1>2, ReadMoves DEF Read
  <2> QED
    BY <1>0, <1>1, <2>1, QuietStream
<1>3. CASE ReadEOF \/ ReadDeadline
  <2>1. Written' = Written /\ fut' \in {"ok", "cleanup_failed", "eof", "deadline"}
    BY <1>3 DEF ReadEOF, ReadDeadline, pipeVars, Written
  <2>2. fut' # "invalid" /\ fut' # "absent"
    BY <2>1
  <2> QED
    BY <1>0, <1>1, <2>1, <2>2, QuietStream
<1>4. CASE Read /\ ~Legal(got, Head(chan))
  <2>1. /\ fut' = "invalid" /\ got' = got
        /\ \A x : Sent(x)' => Sent(x)
        /\ Has(got, Confirmed) /\ execs > 1
        /\ \A x : Has(got, x) => Sent(x)'
    BY <1>1, <1>4, ReadDrops DEF Stream
  <2>2. Written # <<>>
    BY <1>4, ConcatProperties DEF Written, TypeOK, Read
  <2>3. Voiced' /\ Silent'
    BY <1>0, <2>1, <2>2 DEF Stream, Meant, Voiced, Silent
  <2>4. StartMeant'
    BY <1>0, <2>1 DEF Stream, Meant, StartMeant
  <2>5. EndMeant' /\ CleanMeant'
    BY <1>0, <2>1 DEF Stream, Meant, EndMeant, CleanMeant
  <2> QED
    BY <1>0, <2>1, <2>3, <2>4, <2>5 DEF Stream, Meant
<1> QED
  BY <1>2, <1>3, <1>4 DEF Reader

LEMMA ParentStream ==
    ASSUME TypeOK, Nested, Stream, Parent \/ Cancel
    PROVE  Stream'
<1> USE DEF Ended, Exists, Absent, Killed
<1>0. UNCHANGED <<execs, ran, voice, job, fate, got, chan>>
  BY ParentFrame
<1>1. Written' = Written
  BY <1>0 DEF Written
<1>2. /\ s' \in {s, Killed(s)} /\ i' \in {i, Killed(i)}
      /\ b' \in {b, Killed(b)} /\ kid' \in {kid, Killed(kid)}
  BY ParentKills, Zenon DEF KillGroup
<1>3. \/ fut' = fut
      \/ pc = "config" /\ fut' = None
      \/ fut = None /\ fut' \in {"cancelled", "lost"}
  BY DEF Parent, Cancel, DeliverConfig, OutputStops, OutputReturns, Collect,
     NaturalDrain, TermDrain, Detach, Return, readerVars
<1>4. None \notin {"invalid", "absent"}
  BY SupervisedAssumption DEF Futures
<1>5. (fut' = "invalid" <=> fut = "invalid") /\ (fut' = "absent" => fut = "absent")
  BY <1>3, <1>4 DEF Nested
<1> QED
  BY <1>0, <1>1, <1>2, <1>5, QuietStream

LEMMA StreamStep ==
    ASSUME TypeOK, Nested, Traced, Stream, [Next]_vars
    PROVE  Stream'
<1>1. CASE UNCHANGED vars
  <2>1. /\ UNCHANGED <<s, i, b, kid, execs, ran, fate, voice, job, got, fut>>
        /\ Written' = Written
    BY <1>1 DEF vars, sVars, iVars, bVars, pipeVars, readerVars, Written
  <2> QED
    BY <2>1, QuietStream
<1> QED
  BY <1>1, LauncherStream, InitStream, WorkloadStream, KernelStream, ReaderStream,
     ParentStream DEF Next

-----------------------------------------------------------------------------
(* What the future and the result say.                                      *)

(* After a clean return nothing is left that could take a step.             *)
LEMMA NothingLeft ==
    ASSUME pc = "returned", AllGone
    PROVE  ~Next
<1> USE DEF AllGone, Exists, Absent
<1>1. ~Launcher
  BY DEF Launcher, ReadConfig, PreforkFails, ForkInit, VerifyInit, Handoff, Release,
     Contain, Contained, WaitForInit
<1>2. ~NamespaceInit
  BY DEF NamespaceInit, InitGate, Mandatory, ForkBootstrap, ReadMetadata, AwaitStop,
     Continue, Watch, ContinueExec, ReportFailed, SweepKill, SweepEnds, ReportCleaned
<1>3. ~Workload
  BY DEF Workload, Setup, Stop, Exec, Exit, Behave
<1>4. ~Fault /\ ~Kernel
  BY DEF Fault, Kernel, Dies
<1>5. ~Reader
  BY DEF Reader, Read, ReadEOF, ReadDeadline, Reading
<1>6. ~Parent /\ ~Cancel
  BY DEF Parent, Cancel, DeliverConfig, OutputStops, OutputReturns, Collect, NaturalDrain,
     TermDrain, Detach
<1> QED
  BY <1>1, <1>2, <1>3, <1>4, <1>5, <1>6 DEF Next

(* Without a write end, or once the output task has stopped, nobody writes. *)
LEMMA NobodyWrites ==
    ASSUME TypeOK, Nested, Next, writers = {} \/ out # "pending", ~Reader
    PROVE  chan' = chan /\ (writers = {} => writers' = {})
<1> USE DEF Ended
<1>1. s \in {"release", "wait"} \cup Ended /\ i \in {"none"} \cup Ended
  BY DEF Nested
<1>2. CASE Launcher
  <2>1. chan' = chan
    BY <1>1, <1>2, LauncherWrites
  <2>2. writers' \in {writers, writers \ {"S"}}
    BY <1>1, <1>2 DEF Launcher, ReadConfig, PreforkFails, ForkInit, VerifyInit, Handoff,
       Release, Contain, Contained, WaitForInit, pipeVars
  <2> QED
    BY <2>1, <2>2
<1>3. CASE NamespaceInit
  BY <1>1, <1>3 DEF NamespaceInit, InitGate, Mandatory, ForkBootstrap, ReadMetadata,
     AwaitStop, Continue, Watch, ContinueExec, ReportFailed, SweepKill, SweepEnds,
     ReportCleaned
<1>4. CASE Workload
  BY <1>4, WorkloadFrame
<1>5. CASE Fault \/ Kernel
  <2>1. writers' \in {writers, writers \ {"S"}, writers \ {"I"}}
    BY <1>5, Zenon DEF Fault, Kernel, pipeVars
  <2> QED
    BY <1>5, <2>1, KernelFrame
<1>6. CASE Parent \/ Cancel
  BY <1>6, ParentFrame
<1> QED
  BY <1>2, <1>3, <1>4, <1>5, <1>6 DEF Next

(* What the parent changes of future and result.                            *)
LEMMA ParentTells ==
    ASSUME Parent \/ Cancel
    PROVE  /\ pc # "returned"
           /\ \/ result' = result
                 /\ (fut' = fut \/ (pc = "config" /\ fut' = None))
              \/ \E future, output :
                    /\ Return(future, output)
                    /\ UNCHANGED <<s, i, b, kid, why, bounded>>
                    /\ \/ future = fut
                       \/ fut = None /\ chan = <<>> /\ future = "cancelled"
                       \/ fut = None /\ future = "lost"
           /\ out' = out \/ out' \in {"stopping", "done"}
<1>1. pc # "returned"
  BY DEF Parent, Cancel, DeliverConfig, OutputStops, OutputReturns, Collect, NaturalDrain,
     TermDrain, Detach
<1>2. \/ result' = result
         /\ (fut' = fut \/ (pc = "config" /\ fut' = None))
      \/ \E future, output :
            /\ Return(future, output)
            /\ UNCHANGED <<s, i, b, kid, why, bounded>>
            /\ \/ future = fut
               \/ fut = None /\ chan = <<>> /\ future = "cancelled"
               \/ fut = None /\ future = "lost"
  BY Zenon DEF Parent, Cancel, DeliverConfig, OutputStops, OutputReturns, Collect,
     NaturalDrain, TermDrain, Detach, sVars, iVars, bVars, readerVars
<1>3. out' = out \/ out' \in {"stopping", "done"}
  BY Zenon DEF Parent, Cancel, DeliverConfig, OutputStops, OutputReturns, Collect,
     NaturalDrain, TermDrain, Detach, Return
<1> QED
  BY <1>1, <1>2, <1>3

(* A record that was read was written, and all are read when the pipe is    *)
(* empty.                                                                   *)
LEMMA ReadAndWritten ==
    ASSUME TypeOK
    PROVE  /\ \A x : Has(got, x) => Sent(x)
           /\ chan = <<>> => \A x : Sent(x) => Has(got, x)
<1>1. got \in Seq(ProtoRecords) /\ chan \in Seq(ProtoRecords)
  BY DEF TypeOK
<1>2. /\ Len(Written) = Len(got) + Len(chan) /\ Len(got) \in Nat /\ Len(chan) \in Nat
      /\ \A k \in 1 .. Len(got) : Written[k] = got[k]
  BY <1>1 DEF Written
<1>3. ASSUME NEW x, Has(got, x) PROVE Sent(x)
  BY <1>2, <1>3 DEF Has, Sent
<1>4. ASSUME chan = <<>>, NEW x, Sent(x) PROVE Has(got, x)
  <2>1. got \o <<>> = got
    BY <1>1, ConcatEmptySeq
  <2> QED
    BY <1>4, <2>1 DEF Sent, Written
<1> QED
  BY <1>3, <1>4

LEMMA ExitedHow ==
    ASSUME TypeOK, Sent(Exited(fate))
    PROVE  fate \in Outcomes
<1>1. Exited(fate) \in ProtoRecords
  BY WrittenType DEF Sent, Has
<1>2. PICK how \in Outcomes : Exited(fate) = Exited(how)
  BY <1>1, Distinct DEF ProtoRecords
<1> QED
  BY <1>2, Distinct

(* A result is true when it is returned.                                    *)
LEMMA ReturnTruth ==
    ASSUME TypeOK, Nested, Traced, Stream, Told, NEW future, NEW output,
           pc # "returned", Return(future, output),
           UNCHANGED <<s, i, b, kid, why, bounded>>,
           UNCHANGED <<meta, execs, ran, fate, chan, got>>,
           \/ future = fut
           \/ fut = None /\ chan = <<>> /\ future = "cancelled"
           \/ fut = None /\ future = "lost"
    PROVE  ReportedTruth' /\ StartTruth' /\ CleanupTruth'
<1> DEFINE clean == Settled(future, output)
           started == IF why = "cancelled" THEN None
                      ELSE future \notin {"absent", "lost"} /\ Has(got, Confirmed)
           kind == IF ~clean THEN "incomplete"
                   ELSE IF why = "cancelled" THEN "cancelled"
                   ELSE IF why = "config" THEN "error"
                   ELSE Verdict(future)
<1>1. result' = [clean |-> clean, started |-> started, kind |-> kind] /\ fut' = future
  BY Zenon DEF Return
<1>2. result'.clean = clean /\ result'.started = started /\ result'.kind = kind
  BY <1>1
<1>3. clean => AllGone /\ future \notin {None, "lost"}
  BY DEF Settled, Quiescent, AllGone, Nested, TypeOK, InitStates, Exists, Absent
<1>4. execs \in Nat /\ Written' = Written /\ \A x : Sent(x)' <=> Sent(x)
  BY SameWritten, SupervisedAssumption DEF TypeOK, Written
<1>5. future \in Futures \cup {None} /\ None \notin Futures
  BY SupervisedAssumption DEF TypeOK, Futures
<1>6. clean => \/ future = "absent" /\ fut = "absent"
               \/ future = "invalid" /\ fut = "invalid"
               \/ chan = <<>>
  BY <1>3, <1>5 DEF Told, Futures
<1>7. clean /\ ~Has(got, Confirmed) => ~ran
  <2>1. CASE fut = "absent"
    BY <2>1, EmptySends DEF Stream, Meant, Silent, StartMeant
  <2>2. CASE chan = <<>>
    BY <2>2, ReadAndWritten DEF Stream, Meant, StartMeant
  <2> QED
    BY <1>6, <2>1, <2>2 DEF Stream
<1>8. clean /\ future = "absent" => ~ran
  <2>1. future = "absent" => fut = "absent"
    OBVIOUS
  <2> QED
    BY <2>1, EmptySends DEF Stream, Meant, Silent, StartMeant
<1>9. kind \in Outcomes =>
        clean /\ why \notin {"cancelled", "config"} /\ kind = Verdict(future)
  BY DEF Outcomes
<1>10. kind \in Outcomes => kind = fate /\ ran /\ AllGone
  BY <1>3, <1>9, VerdictIs, ReadAndWritten DEF Stream, Meant, EndMeant
<1>11. /\ clean /\ why = "normal" /\ bounded = "exit" /\ future \notin {"deadline", "cancelled"}
       /\ execs < 2 /\ Sent(Exited(fate)) /\ Sent(Cleaned(TRUE))
       => kind = fate
  <2> SUFFICES ASSUME clean, why = "normal", bounded = "exit",
                      future \notin {"deadline", "cancelled"},
                      execs < 2, Sent(Exited(fate)), Sent(Cleaned(TRUE))
               PROVE  kind = fate
    OBVIOUS
  <2>1. fut # "absent" /\ fut # "invalid"
    BY <1>4, EmptySends DEF Stream, Meant, Silent
  <2>2. future \in {"ok", "eof", "cleanup_failed"} /\ future = fut /\ chan = <<>>
    BY <1>3, <1>5, <1>6, <2>1 DEF Futures, Told
  <2>3. future = "ok"
    BY <2>2, ReadAndWritten DEF Told
  <2>4. fate \in Outcomes
    BY ExitedHow
  <2>5. ~Sent(Failed) /\ Sent(Confirmed)
    BY <2>4 DEF Stream, Meant, EndMeant, StartMeant
  <2>6. Has(got, Confirmed) /\ ~Has(got, Failed) /\ Has(got, Exited(fate))
    BY <2>2, <2>5, ReadAndWritten
  <2>7. Verdict(future) \in Outcomes
    BY <2>3, <2>4, <2>6, VerdictIs
  <2>8. kind = Verdict(future)
    OBVIOUS
  <2> QED
    BY <1>10, <2>7, <2>8
<1> HIDE DEF clean, started, kind
<1>12. ReportedTruth'
  <2>1. AllGone' <=> AllGone
    BY DEF AllGone
  <2> QED
    BY <1>1, <1>2, <1>4, <1>10, <1>11, <2>1 DEF ReportedTruth, Uncut, Sent, Written
<1>13. StartTruth'
  <2>1. ran => Sent(Confirmed) /\ meta
    BY DEF Stream, Meant, StartMeant, Traced
  <2>2. started = TRUE => execs > 0
    BY SupervisedAssumption, ReadAndWritten DEF started, Stream, Meant, StartMeant
  <2>3. clean /\ started = FALSE => ~ran
    BY <1>3, <1>7, <1>8, SupervisedAssumption DEF started
  <2> QED
    BY <1>2, <1>4, <2>1, <2>2, <2>3 DEF StartTruth, Sent, Written
<1>14. CleanupTruth'
  <2>1. AllGone' <=> AllGone
    BY DEF AllGone
  <2> QED
    BY <1>2, <1>3, <1>4, <2>1 DEF CleanupTruth, Stream, Meant, CleanMeant, Sent, Written
<1> QED
  BY <1>12, <1>13, <1>14

(* The three truths, once a result is there and while there is none.        *)
LEMMA TruthKept ==
    ASSUME TypeOK, Nested, Traced', Stream', Told, Next, result' = result,
           execs \in Nat, execs' \in Nat, execs =< execs'
    PROVE  ReportedTruth' /\ StartTruth' /\ CleanupTruth'
<1>0. /\ ran' => Has(got' \o chan', Confirmed) /\ meta'
      /\ Has(got' \o chan', Cleaned(TRUE)) => ~Exists(b)' /\ ~Exists(kid)'
  BY DEF Stream, Meant, StartMeant, CleanMeant, Traced, Sent, Written
<1>1. CASE result = None
  BY <1>0, <1>1 DEF ReportedTruth, StartTruth, CleanupTruth
<1>2. CASE result # None
  <2>1. ~result.clean
    BY <1>2, NothingLeft DEF Told, CleanupTruth
  <2>2. result.kind \notin Outcomes
    BY <1>2, NothingLeft DEF Told, ReportedTruth
  <2> QED
    <3>1. ReportedTruth' /\ CleanupTruth'
      BY <1>0, <1>2, <2>1, <2>2 DEF ReportedTruth, CleanupTruth
    <3>2. result.started = TRUE => execs > 0
      BY <1>2 DEF Told, StartTruth
    <3>3. StartTruth'
      BY <1>0, <1>2, <2>1, <3>2 DEF StartTruth
    <3> QED
      BY <3>1, <3>3
<1> QED
  BY <1>1, <1>2

LEMMA ExecsGrow ==
    ASSUME TypeOK, Next
    PROVE  execs \in Nat /\ execs' \in Nat /\ execs =< execs'
<1>1. execs \in Nat
  BY SupervisedAssumption DEF TypeOK
<1>2. CASE Workload
  BY <1>1, <1>2 DEF Workload, Setup, Stop, Exec, Exit, Behave
<1> QED
  BY <1>1, <1>2, LauncherFrame, InitFrame, KernelFrame, ReaderFrame, ParentFrame DEF Next

LEMMA FutureTold ==
    ASSUME TypeOK, Nested, Told, Next
    PROVE  /\ fut' \in {"ok", "eof", "cleanup_failed"} =>
                 /\ chan' = <<>> /\ writers' = {}
                 /\ Has(got', Cleaned(TRUE)) => fut' = "ok"
           /\ fut' = "deadline" => chan' = <<>> /\ out' # "pending"
           /\ fut' \in {"lost", "cancelled"} => pc' = "returned"
<1>0. None \notin Futures
  BY SupervisedAssumption
<1>1. CASE Reader
  <2>1. UNCHANGED <<writers, pc, out>> /\ fut = None
    BY <1>1, ReaderFrame DEF Reader, Read, ReadEOF, ReadDeadline, Reading
  <2>2. CASE Read
    <3>1. fut' \in {None, "invalid"}
      BY <2>1, <2>2 DEF Read
    <3> QED
      BY <1>0, <3>1 DEF Futures
  <2>3. CASE ReadEOF
    BY <2>1, <2>3 DEF ReadEOF, pipeVars
  <2>4. CASE ReadDeadline
    BY <2>1, <2>4 DEF ReadDeadline, pipeVars
  <2> QED
    BY <1>1, <2>2, <2>3, <2>4 DEF Reader
<1>2. CASE ~Reader
  <2>1. got' = got
    BY <1>2, LauncherFrame, InitFrame, WorkloadFrame, KernelFrame, ParentFrame DEF Next
  <2>2. CASE Parent \/ Cancel
    <3>1. \/ fut' = fut
          \/ fut' = None
          \/ fut' \in {"cancelled", "lost"} /\ pc' = "returned"
      BY <2>2, ParentTells DEF Return
    <3>2. out # "pending" => out' # "pending"
      BY <2>2, ParentTells
    <3>3. chan' = chan /\ writers' = writers
      BY <2>2, ParentFrame
    <3>4. CASE fut' = fut
      <4>1. fut' \in {"lost", "cancelled"} => FALSE
        BY <2>2, <3>4, ParentTells DEF Told
      <4> QED
        BY <2>1, <3>2, <3>3, <3>4, <4>1 DEF Told
    <3> QED
      BY <1>0, <3>1, <3>4 DEF Futures
  <2>3. CASE ~(Parent \/ Cancel)
    <3>1. UNCHANGED <<fut, out, pc>>
      BY <1>2, <2>3, LauncherFrame, InitFrame, WorkloadFrame, KernelFrame DEF Next
    <3> QED
      BY <1>2, <2>1, <3>1, NobodyWrites DEF Told
  <2> QED
    BY <2>2, <2>3
<1> QED
  BY <1>1, <1>2

LEMMA ToldStep ==
    ASSUME TypeOK, Nested, Traced, Traced', Stream, Stream', Told, [Next]_vars
    PROVE  Told'
<1>1. CASE UNCHANGED vars
  BY <1>1 DEF vars, sVars, iVars, bVars, pipeVars, readerVars, parentVars, Told,
     ReportedTruth, Uncut, StartTruth, CleanupTruth, AllGone
<1>2. CASE Next /\ result' = result /\ pc' = pc
  BY <1>2, FutureTold, TruthKept, ExecsGrow DEF Told
<1>3. CASE Next /\ result' = result /\ pc' # pc
  <2>1. Parent \/ Cancel
    BY <1>3, LauncherFrame, InitFrame, WorkloadFrame, KernelFrame, ReaderFrame DEF Next
  <2>2. result' # None => pc' = "returned"
    BY <1>3, <2>1, ParentTells DEF Told
  <2> QED
    BY <1>3, <2>2, FutureTold, TruthKept, ExecsGrow DEF Told
<1>4. CASE Next /\ result' # result
  <2>1. Parent \/ Cancel
    BY <1>4, LauncherFrame, InitFrame, WorkloadFrame, KernelFrame, ReaderFrame DEF Next
  <2>2. PICK future, output :
                    /\ Return(future, output)
                    /\ UNCHANGED <<s, i, b, kid, why, bounded>>
                    /\ \/ future = fut
                       \/ fut = None /\ chan = <<>> /\ future = "cancelled"
                       \/ fut = None /\ future = "lost"
    BY <1>4, <2>1, ParentTells
  <2>3. ReportedTruth' /\ StartTruth' /\ CleanupTruth'
    BY <2>1, <2>2, ParentTells, ParentFrame, ReturnTruth
  <2>4. pc' = "returned"
    BY <2>2 DEF Return
  <2> QED
    BY <1>4, <2>3, <2>4, FutureTold DEF Told
<1> QED
  BY <1>1, <1>2, <1>3, <1>4

-----------------------------------------------------------------------------
(* The inductive invariant and the theorems.                                *)

LEMMA InitHolds ==
    ASSUME Init
    PROVE  IInv
<1> USE DEF Init, Ended, Exists, Absent
<1>1. TypeOK
  <2>1. TypeProcs /\ TypeParent /\ TypeResult
    BY DEF TypeProcs, TypeParent, TypeResult, LauncherStates, InitStates, BootStates, Futures
  <2>2. execs \in 0 .. MaxExecs
    BY SupervisedAssumption
  <2>3. TypeTrace
    BY <2>2, Zenon DEF TypeTrace
  <2>4. TypePipe /\ TypeJob
    BY DEF TypePipe, TypeJob, Jobs
  <2> QED
    BY <2>1, <2>3, <2>4, TypeParts
<1>2. Nested /\ Traced
  BY DEF Nested, Traced
<1>3. Written = <<>>
  <2>1. <<>> \in Seq(ProtoRecords)
    OBVIOUS
  <2> QED
    BY <2>1, ConcatEmptySeq DEF Written
<1>4. Stream
  <2>1. Chain /\ Positioned
    BY <1>3 DEF Chain, Positioned
  <2>2. Voiced /\ Silent /\ StartMeant /\ EndMeant /\ CleanMeant
    BY <1>3, EmptySends DEF Voiced, Silent, StartMeant, EndMeant, CleanMeant
  <2> QED
    BY <2>1, <2>2 DEF Stream, Meant
<1>5. Told
  <2>1. ~Has(got \o chan, Cleaned(TRUE))
    BY <1>3, EmptySends DEF Written, Sent
  <2> QED
    BY <2>1 DEF Told, ReportedTruth, StartTruth, CleanupTruth
<1> QED
  BY <1>1, <1>2, <1>4, <1>5 DEF IInv

(* The inductive invariant holds throughout every execution.                *)
THEOREM Inductive == Spec => []IInv
<1>1. IInv /\ [Next]_vars => IInv'
  <2> SUFFICES ASSUME IInv, [Next]_vars PROVE IInv'
    OBVIOUS
  <2>1. TypeOK' /\ Nested' /\ Traced' /\ Stream'
    BY TypeStep, NestedStep, TracedStep, StreamStep DEF IInv
  <2> QED
    BY <2>1, ToldStep DEF IInv
<1> QED
  BY <1>1, InitHolds, PTL DEF Spec

(* Every variable keeps its type, for any number of execve calls.           *)
THEOREM TypeCorrect == Spec => []TypeOK
<1>1. IInv => TypeOK
  BY DEF IInv
<1> QED
  BY <1>1, Inductive, PTL

(* The parser of the parent (supervised_exec_session) rejects a record of   *)
(* launcher or namespace init only after a second execve of the workload:   *)
(* hand-over, failure, kill and death at any point leave a legal stream.    *)
THEOREM StreamAccepted == Spec => []StreamLegal
<1>1. IInv => StreamLegal
  BY DEF IInv, Stream, StreamLegal
<1> QED
  BY <1>1, Inductive, PTL

(* Cleanup is claimed, on the protocol and in the result, only when nothing *)
(* of the sandbox is left, and nothing appears afterwards.                  *)
THEOREM CleanupTrue == Spec => []CleanupTruth
<1>1. IInv => CleanupTruth
  BY DEF IInv, Told
<1> QED
  BY <1>1, Inductive, PTL

(* What is reported as started did exec, and what is reported, cleanly      *)
(* ended, as not started never ran an instruction of the workload.          *)
THEOREM StartTrue == Spec => []StartTruth
<1>1. IInv => StartTruth
  BY DEF IInv, Told
<1> QED
  BY <1>1, Inductive, PTL

(* A reported end of the workload is its real end, and the end the          *)
(* supervisor observed reaches the caller when nothing cut the run short.   *)
THEOREM ReportTrue == Spec => []ReportedTruth
<1>1. IInv => ReportedTruth
  BY DEF IInv, Told
<1> QED
  BY <1>1, Inductive, PTL

-----------------------------------------------------------------------------
=============================================================================
