--------------------------- MODULE SupervisedExec ---------------------------
(* One supervised execution of an untrusted workload                        *)
(* (runtime/supervised_argv.py, exec_supervisor.py,                         *)
(* supervised_exec_session.py, async_fd_transport.py).  Four kinds of       *)
(* process take part:                                                       *)
(*   S    the launcher, spawned by the parent as leader of a process group; *)
(*   I    the first process of a new PID namespace: S releases it through a *)
(*        gate, it runs supervisor_main, traces B and reaps the namespace;  *)
(*   B    the bootstrap, which becomes the workload by execve;              *)
(*   kid  a descendant of the workload.                                     *)
(* S and I write records to the protocol pipe, the parent parses them and,  *)
(* with them and what happened to its other tasks, reports a result.  A     *)
(* process that was killed is "dying": it takes no step of its own but      *)
(* exists, and holds its descriptors, until the kernel is done with it.     *)
(* The death of I kills everything in its namespace and completes last.     *)
EXTENDS Integers, Sequences, FiniteSets

CONSTANTS
    MaxExecs,            \* bound: execve calls of B that succeed
    None                 \* no value

(* How the workload ended, what the transport's future says, what stopped   *)
(* the output task, what ended the execution, and what is returned.         *)
Outcomes == {"exited", "signaled"}
Futures ==
    {"absent", "ok", "eof", "invalid", "cleanup_failed", "deadline", "cancelled", "lost"}
Causes == {"exit", "capped", "timeout"}
Endings == {"config", "normal", "timeout", "cancelled"}
Results ==
    [clean : BOOLEAN, started : BOOLEAN \cup {None},
     kind : Outcomes \cup {"capped", "timeout", "error", "incomplete", "cancelled"}]

ASSUME SupervisedAssumption ==
    /\ MaxExecs \in Nat \ {0}
    /\ None \notin BOOLEAN
    /\ None \notin Outcomes \cup Futures \cup Causes \cup Endings
    /\ None \notin Results

VARIABLES
    s, i, b, kid,        \* where S, I, B and the descendant are
    gate,                \* the release gate from S to I
    meta,                \* B wrote enforcement_verified to the metadata pipe
    execs,               \* execve calls of B that succeeded
    ran,                 \* the workload executed an instruction
    fate,                \* how B ended
    away,                \* the workload left the process group of S
    armed,               \* I continues B only with the exec monitor on
    voice,               \* I's protocol_alive
    job,                 \* I's exec_confirmed, force_cleanup_failed, cleanup_ok
    chan, writers,       \* protocol pipe: unread records, open write ends
    got, fut,            \* the parser's records, the transport's future
    pc, why,             \* parent: stage, and what ended the execution
    out, cause, bounded, \* output task, what stopped it, what was collected
    result               \* what run_supervised_argv_async returned

sVars == <<s, gate>>
iVars == <<i, armed, voice, job>>
bVars == <<b, kid, meta, execs, ran, fate, away>>
pipeVars == <<chan, writers>>
readerVars == <<got, fut>>
parentVars == <<pc, why, out, cause, bounded, result>>
vars == <<sVars, iVars, bVars, pipeVars, readerVars, parentVars>>

-----------------------------------------------------------------------------
(* Records of the protocol and the parser's table of legal predecessors.    *)
Started == <<"supervisor_started", None>>
Spawned == <<"bootstrap_spawned", None>>
Verified == <<"enforcement_verified", None>>
Armed == <<"exec_monitor_armed", None>>
Confirmed == <<"exec_confirmed", None>>
Failed == <<"supervisor_failed", None>>
Exited(how) == <<"workload_exited", how>>
Cleaned(ok) == <<"cleanup_completed", ok>>

ProtoRecords ==
    {Started, Spawned, Verified, Armed, Confirmed, Failed}
      \cup {Exited(how) : how \in Outcomes} \cup {Cleaned(ok) : ok \in BOOLEAN}

Predecessors(type) ==
    CASE type = "supervisor_started"   -> {}
      [] type = "bootstrap_spawned"    -> {"supervisor_started"}
      [] type = "enforcement_verified" -> {"bootstrap_spawned"}
      [] type = "exec_monitor_armed"   -> {"enforcement_verified"}
      [] type = "exec_confirmed"       -> {"exec_monitor_armed"}
      [] type = "workload_exited"      -> {"exec_confirmed"}
      [] type = "supervisor_failed"    ->
           {"supervisor_started", "bootstrap_spawned", "enforcement_verified",
            "exec_monitor_armed", "exec_confirmed"}
      [] type = "cleanup_completed"    -> {"workload_exited", "supervisor_failed"}

Last(records) == records[Len(records)]

(* _process_line: the first record, then the transitions.                   *)
Legal(records, rec) ==
    IF records = <<>>
    THEN rec \in {Started, Failed}
    ELSE Last(records)[1] \in Predecessors(rec[1])

Has(records, rec) == \E k \in 1..Len(records) : records[k] = rec

-----------------------------------------------------------------------------
(* Processes, signals and descriptors: the kernel's part.                   *)
Absent == {"none", "gone"}
Exists(p) == p \notin Absent
Killed(p) == IF Exists(p) THEN "dying" ELSE p

(* Faulty: SIGTERM where SIGKILL is needed.                                 *)
FaultyKillGroup ==
    /\ s' = Killed(s)
    /\ UNCHANGED <<i, b, kid>>

(* SIGKILL to the process group reaches S and I, and with I the namespace.  *)
KillGroup ==
    /\ s' = Killed(s)
    /\ i' = Killed(i)
    /\ b' = Killed(b)
    /\ kid' = Killed(kid)

(* SIGTERM to the group: S has no handler, and I, as an init process, is    *)
(* not affected by it.  The workload may or may not die of it, which it may *)
(* at any time.                                                             *)
TermGroup ==
    /\ s' = Killed(s)
    /\ UNCHANGED <<i, b, kid>>

(* The parent keeps its read end until it returns.                          *)
ReaderOpen == pc # "returned"

(* Faulty: only the child that was spawned is looked at.                    *)
FaultyQuiescent == ~Exists(s)

(* killpg(pgid, 0) finds no process: what left the group is not seen.       *)
Quiescent ==
    /\ ~Exists(s) /\ ~Exists(i)
    /\ away \/ (~Exists(b) /\ ~Exists(kid))

AllGone == ~Exists(s) /\ ~Exists(i) /\ ~Exists(b) /\ ~Exists(kid)

Init ==
    /\ s = "config" /\ i = "none" /\ b = "none" /\ kid = "none"
    /\ gate = "shut"
    /\ meta = FALSE
    /\ execs = 0 /\ ran = FALSE /\ fate = None /\ away = FALSE
    /\ armed = FALSE
    /\ voice = TRUE
    /\ job = [confirmed |-> FALSE, forced |-> FALSE, swept |-> FALSE]
    /\ chan = <<>> /\ writers = {"S"}
    /\ got = <<>> /\ fut = "absent"
    /\ pc = "config" /\ why = None
    /\ out = "pending" /\ cause = None /\ bounded = None
    /\ result = None

-----------------------------------------------------------------------------
(* S: supervisor_process_main and launch_pid_namespace_supervisor.          *)

(* The configuration arrives, or is refused without a protocol record.      *)
ReadConfig ==
    /\ s = "config"
    /\ \/ fut # "absent" /\ s' = "prefork"
       \/ s' = "dying"
    /\ UNCHANGED <<gate, iVars, bVars, pipeVars, readerVars, parentVars>>

(* S writes its two failure records; the second, or both, may not get       *)
(* through.                                                                 *)
Report(ok) ==
    \E n \in IF ReaderOpen THEN 0..2 ELSE {0} :
        chan' = chan \o SubSeq(<<Failed, Cleaned(ok)>>, 1, n)

PreforkFails ==
    /\ s = "prefork"
    /\ s' = "dying"
    /\ \E closed \in BOOLEAN : Report(closed)
    /\ UNCHANGED <<gate, iVars, bVars, writers, readerVars, parentVars>>

ForkInit ==
    /\ s = "prefork"
    /\ s' = "verify"
    /\ i' = "init"
    /\ writers' = writers \cup {"I"}
    /\ UNCHANGED <<gate, armed, voice, job, bVars, chan, readerVars, parentVars>>

(* I's identity and the topology proof are accepted, or S contains I.       *)
VerifyInit ==
    /\ s = "verify"
    /\ s' \in {"handoff", "contain"}
    /\ UNCHANGED <<gate, iVars, bVars, pipeVars, readerVars, parentVars>>

(* S gives up its protocol writer before it releases I.                     *)
Handoff ==
    /\ s = "handoff"
    /\ \/ s' = "release" /\ writers' = writers \ {"S"}
       \/ s' = "contain_silently" /\ UNCHANGED writers
    /\ UNCHANGED <<gate, iVars, bVars, chan, readerVars, parentVars>>

Release ==
    /\ s = "release"
    /\ s' = "wait"
    /\ gate' \in {"open", "denied"}
    /\ UNCHANGED <<iVars, bVars, pipeVars, readerVars, parentVars>>

(* _contain_init_child: the gate is closed without the token and I killed.  *)
Contain ==
    /\ s \in {"contain", "contain_silently"}
    /\ gate = "shut"
    /\ gate' = "denied"
    /\ i' = Killed(i)
    /\ UNCHANGED <<s, armed, voice, job, bVars, pipeVars, readerVars, parentVars>>

(* Success needs the reaped I; the deadline may pass without it.            *)
Contained ==
    /\ s \in {"contain", "contain_silently"}
    /\ gate = "denied"
    /\ s' = "dying"
    /\ \/ s = "contain" /\ \E ok \in BOOLEAN : (ok => i = "gone") /\ Report(ok)
       \/ s = "contain_silently" /\ UNCHANGED chan
    /\ UNCHANGED <<gate, iVars, bVars, writers, readerVars, parentVars>>

WaitForInit ==
    /\ s = "wait" /\ i = "gone"
    /\ s' = "dying"
    /\ UNCHANGED <<gate, iVars, bVars, pipeVars, readerVars, parentVars>>

Launcher ==
    \/ ReadConfig \/ PreforkFails \/ ForkInit \/ VerifyInit \/ Handoff
    \/ Release \/ Contain \/ Contained \/ WaitForInit

-----------------------------------------------------------------------------
(* I: namespace_init_supervisor_main and supervisor_main.                   *)

(* When I ends, the kernel kills what is left of the namespace.             *)
InitExits ==
    /\ i' = "dying"
    /\ b' = Killed(b)
    /\ kid' = Killed(kid)
    /\ writers' = writers \ {"I"}

(* Before the gate: released by the token, ended by EOF, by a deadline or   *)
(* by any failure of the identity and proof channels, and then silent.      *)
InitGate ==
    /\ i = "init"
    /\ \/ /\ gate = "open"
          /\ i' = "started"
          /\ UNCHANGED <<b, kid, writers>>
       \/ InitExits
    /\ UNCHANGED <<sVars, armed, voice, job, meta, execs, ran, fate, away, chan,
                   readerVars, parentVars>>

(* Faulty: the supervisor goes on when the record did not get through.      *)
FaultyMandatory(at, rec, next) ==
    /\ i = at
    /\ i' = next
    /\ \/ ReaderOpen /\ chan' = Append(chan, rec)
       \/ UNCHANGED chan
    /\ UNCHANGED <<sVars, armed, voice, job, bVars, writers, readerVars, parentVars>>

(* _emit_mandatory: a record that does not get through is a failure of the  *)
(* supervisor, and the channel is not used again.                           *)
Mandatory(at, rec, next) ==
    /\ i = at
    /\ \/ ReaderOpen /\ chan' = Append(chan, rec) /\ i' = next
            /\ UNCHANGED voice
       \/ voice' = FALSE /\ i' = "sweep" /\ UNCHANGED chan
    /\ UNCHANGED <<sVars, armed, job, bVars, writers, readerVars, parentVars>>

(* _fail_and_cleanup is entered, with or without the forced verdict.        *)
Fails(forced) ==
    /\ i' = "fail"
    /\ job' = [job EXCEPT !.forced = forced]

ForkBootstrap ==
    /\ i = "fork"
    /\ \/ b' = "setup" /\ i' = "spawned" /\ UNCHANGED job
       \/ b' = "setup" /\ Fails(TRUE)            \* handoff close failed
       \/ \E forced \in BOOLEAN : Fails(forced) /\ UNCHANGED b
    /\ UNCHANGED <<sVars, armed, voice, kid, meta, execs, ran, fate, away, pipeVars,
                   readerVars, parentVars>>

(* write_bounded_config and read_bounded_metadata: success is the record    *)
(* enforcement_verified; failure record, EOF, exit and deadline are not.    *)
ReadMetadata ==
    /\ i = "metadata"
    /\ \/ meta /\ i' = "verified" /\ UNCHANGED job
       \/ Fails(FALSE)
    /\ UNCHANGED <<sVars, armed, voice, bVars, pipeVars, readerVars, parentVars>>

(* waitpid for the SIGSTOP, then PTRACE_SETOPTIONS.                         *)
AwaitStop ==
    /\ i = "sigstop"
    /\ \/ b = "stopped" /\ i' = "arm" /\ armed' = TRUE /\ UNCHANGED job
       \/ b \in {"stopped", "gone"} /\ Fails(FALSE) /\ UNCHANGED armed
    /\ UNCHANGED <<sVars, voice, bVars, pipeVars, readerVars, parentVars>>

(* The initial PTRACE_CONT.                                                 *)
Continue ==
    /\ i = "continue"
    /\ \/ b = "stopped" /\ b' = "released" /\ i' = "watch" /\ UNCHANGED job
       \/ Fails(FALSE) /\ UNCHANGED b
    /\ UNCHANGED <<sVars, armed, voice, kid, meta, execs, ran, fate, away, pipeVars,
                   readerVars, parentVars>>

(* The tracing loop: an exec event, the end of B, or an error of waitpid.   *)
Watch ==
    /\ i = "watch"
    /\ \/ b = "execstop" /\ i' = "confirm" /\ job' = [job EXCEPT !.confirmed = TRUE]
       \/ b = "gone" /\ job.confirmed /\ i' = "outcome" /\ UNCHANGED job
       \/ Fails(FALSE)                  \* also when B ends before its exec
    /\ UNCHANGED <<sVars, armed, voice, bVars, pipeVars, readerVars, parentVars>>

(* PTRACE_CONT after exec_confirmed: the workload runs from here.           *)
ContinueExec ==
    /\ i = "resume"
    /\ \/ /\ b = "execstop" /\ b' = "running" /\ ran' = TRUE
          /\ i' = "watch"
          /\ UNCHANGED job
       \/ Fails(FALSE) /\ UNCHANGED <<b, ran>>
    /\ UNCHANGED <<sVars, armed, voice, kid, meta, execs, fate, away, pipeVars,
                   readerVars, parentVars>>

ReportFailed ==
    /\ i = "fail"
    /\ i' = "sweep"
    /\ \/ voice /\ ReaderOpen /\ chan' = Append(chan, Failed) /\ UNCHANGED voice
       \/ voice' = FALSE /\ UNCHANGED chan
    /\ UNCHANGED <<sVars, armed, job, bVars, writers, readerVars, parentVars>>

(* _cleanup_namespace.  Signals, of which SIGKILL is certain to work, then  *)
(* the verdict: TRUE only when waitpid finds no child, FALSE on a deadline, *)
(* an error of waitpid or a failed guard.                                   *)
SweepKill ==
    /\ i = "sweep"
    /\ b' = Killed(b)
    /\ kid' \in {kid, Killed(kid)}
    /\ <<b', kid'>> # <<b, kid>>
    /\ UNCHANGED <<sVars, iVars, meta, execs, ran, fate, away, pipeVars, readerVars,
                   parentVars>>

Childless == ~Exists(b) /\ ~Exists(kid)

(* Faulty: the bootstrap alone is looked for.                               *)
FaultySwept(ok) == ok => ~Exists(b) /\ ~job.forced

Swept(ok) == ok => Childless /\ ~job.forced

SweepEnds ==
    /\ i = "sweep"
    /\ \E ok \in BOOLEAN : Swept(ok) /\ job' = [job EXCEPT !.swept = ok]
    /\ i' = "report"
    /\ UNCHANGED <<sVars, armed, voice, bVars, pipeVars, readerVars, parentVars>>

(* Faulty: the record is written to a channel that has been given up.       *)
FaultyReportCleaned ==
    /\ i = "report"
    /\ \/ ReaderOpen /\ chan' = Append(chan, Cleaned(job.swept))
       \/ UNCHANGED chan
    /\ InitExits
    /\ UNCHANGED <<sVars, armed, voice, job, meta, execs, ran, fate, away,
                   readerVars, parentVars>>

(* The last record, best effort; then the descriptors are closed and I      *)
(* exits.                                                                   *)
ReportCleaned ==
    /\ i = "report"
    /\ \/ voice /\ ReaderOpen /\ chan' = Append(chan, Cleaned(job.swept))
       \/ UNCHANGED chan
    /\ InitExits
    /\ UNCHANGED <<sVars, armed, voice, job, meta, execs, ran, fate, away,
                   readerVars, parentVars>>

NamespaceInit ==
    \/ InitGate
    \/ Mandatory("started", Started, "fork")
    \/ ForkBootstrap
    \/ Mandatory("spawned", Spawned, "metadata")
    \/ ReadMetadata
    \/ Mandatory("verified", Verified, "sigstop")
    \/ AwaitStop
    \/ Mandatory("arm", Armed, "continue")
    \/ Continue
    \/ Watch
    \/ Mandatory("confirm", Confirmed, "resume")
    \/ ContinueExec
    \/ Mandatory("outcome", Exited(fate), "sweep")
    \/ ReportFailed
    \/ SweepKill
    \/ SweepEnds
    \/ ReportCleaned

-----------------------------------------------------------------------------
(* B: the generated bootstrap script, then the workload it execs.           *)

(* Traced, contained and verified, or a failure record and an exit; the     *)
(* script may also end without a record.                                    *)
Setup ==
    /\ b = "setup"
    /\ \/ b' = "verified" /\ meta' = TRUE /\ UNCHANGED fate
       \/ b' = "gone" /\ fate' = "exited" /\ UNCHANGED meta
    /\ UNCHANGED <<sVars, iVars, kid, execs, ran, away, pipeVars, readerVars, parentVars>>

Stop ==
    /\ b = "verified"
    /\ b' = "stopped"
    /\ UNCHANGED <<sVars, iVars, kid, meta, execs, ran, fate, away, pipeVars,
                   readerVars, parentVars>>

(* execve, of the bootstrap or again of the workload: a traced process      *)
(* stops for the monitor, any other goes on.                                *)
Exec ==
    /\ b \in {"released", "running"} /\ execs < MaxExecs
    /\ b' = IF armed THEN "execstop" ELSE "running"
    /\ ran' = (ran \/ ~armed)
    /\ execs' = execs + 1
    /\ UNCHANGED <<sVars, iVars, kid, meta, fate, away, pipeVars, readerVars, parentVars>>

(* A failed execve ends the bootstrap, an exit the workload.                *)
Exit ==
    /\ b \in {"released", "running"}
    /\ b' = "gone"
    /\ fate' = "exited"
    /\ UNCHANGED <<sVars, iVars, kid, meta, execs, ran, away, pipeVars, readerVars,
                   parentVars>>

(* The workload leaves its process group, forks, and the child may outlive  *)
(* it.                                                                      *)
Behave ==
    /\ \/ b = "running" /\ away' = TRUE /\ UNCHANGED kid
       \/ b = "running" /\ kid = "none" /\ kid' = "alive" /\ UNCHANGED away
       \/ kid = "alive" /\ kid' = "gone" /\ UNCHANGED away
    /\ UNCHANGED <<sVars, iVars, b, meta, execs, ran, fate, pipeVars, readerVars,
                   parentVars>>

Workload == Setup \/ Stop \/ Exec \/ Exit \/ Behave

(* Any process of the sandbox may be killed from outside.                   *)
Fault ==
    /\ \/ Exists(s) /\ s' = "dying" /\ UNCHANGED <<i, b, kid>>
       \/ Exists(i) /\ i' = "dying" /\ b' = Killed(b) /\ kid' = Killed(kid)
            /\ UNCHANGED s
       \/ Exists(b) /\ b' = "dying" /\ UNCHANGED <<s, i, kid>>
    /\ UNCHANGED <<gate, armed, voice, job, meta, execs, ran, fate, away, pipeVars,
                   readerVars, parentVars>>

(* The kernel completes a death; I's waits for the rest of the namespace.   *)
Dies(p, next) == p = "dying" /\ next = "gone"

Kernel ==
    /\ \/ /\ Dies(s, s') /\ writers' = writers \ {"S"}
          /\ UNCHANGED <<i, b, kid, fate>>
       \/ /\ Dies(i, i') /\ ~Exists(b) /\ ~Exists(kid)
          /\ writers' = writers \ {"I"}
          /\ UNCHANGED <<s, b, kid, fate>>
       \/ /\ Dies(b, b') /\ fate' = "signaled"
          /\ UNCHANGED <<s, i, kid, writers>>
       \/ /\ Dies(kid, kid')
          /\ UNCHANGED <<s, i, b, fate, writers>>
    /\ UNCHANGED <<gate, armed, voice, job, meta, execs, ran, away, chan, readerVars,
                   parentVars>>

-----------------------------------------------------------------------------
(* The transport's runner: AsyncProtocolTransport and the parser.           *)
Reading == fut = None /\ pc # "returned"

Read ==
    /\ Reading
    /\ chan # <<>>
    /\ chan' = Tail(chan)
    /\ IF Legal(got, Head(chan))
       THEN got' = Append(got, Head(chan)) /\ UNCHANGED fut
       ELSE fut' = "invalid" /\ UNCHANGED got
    /\ UNCHANGED <<sVars, iVars, bVars, writers, parentVars>>

(* feed_eof.                                                                *)
ReadEOF ==
    /\ Reading
    /\ chan = <<>> /\ writers = {}
    /\ fut' = IF Has(got, Cleaned(TRUE)) THEN "ok"
              ELSE IF Has(got, Cleaned(FALSE)) THEN "cleanup_failed" ELSE "eof"
    /\ UNCHANGED <<sVars, iVars, bVars, pipeVars, got, parentVars>>

(* The terminal deadline is later than the output task's timeout, and the   *)
(* pipe is drained before it counts.                                        *)
ReadDeadline ==
    /\ Reading
    /\ chan = <<>> /\ out # "pending"
    /\ fut' = "deadline"
    /\ UNCHANGED <<sVars, iVars, bVars, pipeVars, got, parentVars>>

Reader == Read \/ ReadEOF \/ ReadDeadline

-----------------------------------------------------------------------------
(* The parent: run_supervised_argv_async.                                   *)
DeliverConfig ==
    /\ pc = "config"
    /\ \/ pc' = "run" /\ fut' = None /\ UNCHANGED why
       \/ pc' = "natural" /\ why' = "config" /\ UNCHANGED fut  \* broken pipe, deadline
    /\ UNCHANGED <<sVars, iVars, bVars, pipeVars, got, out, cause, bounded, result>>

(* run_bounded_async: the exit of S, the output limit or the timeout, and   *)
(* in any case the group is killed.                                         *)
OutputStops ==
    /\ pc # "config" /\ pc # "returned" /\ fut # "absent"
    /\ out = "pending"
    /\ cause' \in {"capped", "timeout"} \cup (IF s = "gone" THEN {"exit"} ELSE {})
    /\ out' = "stopping"
    /\ KillGroup
    /\ UNCHANGED <<gate, armed, voice, job, meta, execs, ran, fate, away, pipeVars,
                   readerVars, pc, why, bounded, result>>

(* Readers and the exit of S are awaited for bounded times.                 *)
OutputReturns ==
    /\ out = "stopping" /\ pc # "returned"
    /\ out' = "done"
    /\ UNCHANGED <<sVars, iVars, bVars, pipeVars, readerVars, pc, why, cause, bounded,
                   result>>

(* _coordinate_protocol_output and the wait for the output task, bounded by *)
(* the terminal deadline; then the shutdown begins.                         *)
Collect ==
    /\ pc = "run" /\ out # "pending"
    /\ pc' = "natural"
    /\ bounded' = IF out = "done" THEN cause ELSE None
    /\ why' = IF bounded' = "timeout" THEN "timeout" ELSE "normal"
    /\ UNCHANGED <<sVars, iVars, bVars, pipeVars, readerVars, out, cause, result>>

(* The caller is cancelled; the shutdown itself is shielded.  While the     *)
(* configuration is delivered the group is killed at once.                  *)
Cancel ==
    /\ pc # "returned" /\ why # "cancelled"
    /\ why' = "cancelled"
    /\ pc' = IF pc \in {"config", "run"} THEN "natural" ELSE pc
    /\ IF pc = "config" THEN KillGroup ELSE UNCHANGED <<s, i, b, kid>>
    /\ UNCHANGED <<gate, armed, voice, job, meta, execs, ran, fate, away, pipeVars,
                   readerVars, out, cause, bounded, result>>

(* What cleanup_complete asks for: the tasks, the exit of S, the transport  *)
(* and the process group.                                                   *)
Settled(future, output) ==
    /\ s = "gone"
    /\ future = "absent" \/ output = "done"
    /\ future \notin {None, "lost"}
    /\ Quiescent

(* Faulty: what became of the supervisor is reported, not of the workload.  *)
FaultyVerdict(future) ==
    IF bounded = None \/ ~Has(got, Confirmed) THEN "error" ELSE bounded

(* extract_supervisor_evidence and map_supervisor_result.                   *)
Verdict(future) ==
    LET exits == {how \in Outcomes : Has(got, Exited(how))}
    IN  IF bounded = None \/ ~Has(got, Confirmed) THEN "error"
        ELSE IF bounded # "exit" THEN bounded
        ELSE IF future # "ok" \/ Has(got, Failed) \/ exits = {} THEN "error"
        ELSE CHOOSE how \in exits : TRUE

(* _finalize_cleanup and the result: an unclean shutdown dominates.         *)
Return(future, output) ==
    LET clean == Settled(future, output)
    IN  /\ pc' = "returned"
        /\ fut' = future
        /\ out' = output
        /\ result' =
             [clean |-> clean,
              started |-> IF why = "cancelled" THEN None
                          ELSE future \notin {"absent", "lost"} /\ Has(got, Confirmed),
              kind |-> IF ~clean THEN "incomplete"
                       ELSE IF why = "cancelled" THEN "cancelled"
                       ELSE IF why = "config" THEN "error"
                       ELSE Verdict(future)]

(* _do_shutdown.  Each phase waits, bounded, for what is still open.        *)
NaturalDrain ==
    /\ pc = "natural"
    /\ IF Settled(fut, out)
       THEN Return(fut, out) /\ UNCHANGED <<s, i, b, kid>>
       ELSE pc' = "term" /\ TermGroup /\ UNCHANGED <<fut, out, result>>
    /\ UNCHANGED <<gate, armed, voice, job, meta, execs, ran, fate, away, pipeVars, got,
                   why, cause, bounded>>

TermDrain ==
    /\ pc = "term"
    /\ IF Settled(fut, out)
       THEN Return(fut, out) /\ UNCHANGED <<s, i, b, kid>>
       ELSE pc' = "kill" /\ KillGroup /\ UNCHANGED <<fut, out, result>>
    /\ UNCHANGED <<gate, armed, voice, job, meta, execs, ran, fate, away, pipeVars, got,
                   why, cause, bounded>>

(* Final containment.  With time left the runner is cancelled and awaited,  *)
(* having read what the pipe held, and the output task may settle; without, *)
(* the transport is closed under a runner that keeps its records.           *)
Detach ==
    /\ pc = "kill"
    /\ \/ /\ fut # None
          /\ \E output \in {out, "done"} : Return(fut, output)
       \/ /\ fut = None /\ chan = <<>>
          /\ \E output \in {out, "done"} : Return("cancelled", output)
       \/ /\ fut = None
          /\ Return("lost", out)
    /\ UNCHANGED <<sVars, iVars, bVars, pipeVars, got, why, cause, bounded>>

Parent ==
    \/ DeliverConfig \/ OutputStops \/ OutputReturns \/ Collect
    \/ NaturalDrain \/ TermDrain \/ Detach

Next == Launcher \/ NamespaceInit \/ Workload \/ Fault \/ Kernel \/ Reader \/ Parent
          \/ Cancel

Spec == Init /\ [][Next]_vars

(* Fairness is owed by the kernel, which completes the deaths it began, and *)
(* by the parent's event loop, whose waits all have deadlines.  Nothing is  *)
(* asked of S, I or the workload: they may hang anywhere.                   *)
FairSpec == Spec /\ WF_vars(Kernel) /\ WF_vars(Parent)

-----------------------------------------------------------------------------
LauncherStates ==
    {"config", "prefork", "verify", "handoff", "release", "wait", "contain",
     "contain_silently", "dying", "gone"}
InitStates ==
    {"none", "init", "started", "fork", "spawned", "metadata", "verified", "sigstop",
     "arm", "continue", "watch", "confirm", "resume", "outcome", "fail", "sweep",
     "report", "dying", "gone"}
BootStates ==
    {"none", "setup", "verified", "stopped", "released", "execstop", "running",
     "dying", "gone"}
Jobs == [confirmed : BOOLEAN, forced : BOOLEAN, swept : BOOLEAN]

TypeOK ==
    /\ s \in LauncherStates /\ i \in InitStates /\ b \in BootStates
    /\ kid \in {"none", "alive", "dying", "gone"}
    /\ gate \in {"shut", "open", "denied"}
    /\ execs \in 0..MaxExecs
    /\ meta \in BOOLEAN /\ ran \in BOOLEAN /\ away \in BOOLEAN /\ armed \in BOOLEAN /\ voice \in BOOLEAN
    /\ fate \in Outcomes \cup {None}
    /\ job \in Jobs
    /\ chan \in Seq(ProtoRecords) /\ got \in Seq(ProtoRecords)
    /\ writers \subseteq {"S", "I"}
    /\ fut \in Futures \cup {None}
    /\ pc \in {"config", "run", "natural", "term", "kill", "returned"}
    /\ why \in Endings \cup {None}
    /\ out \in {"pending", "stopping", "done"}
    /\ cause \in Causes \cup {None} /\ bounded \in Causes \cup {None}
    /\ result \in {None} \cup Results

(* A result that reports how the workload ended reports how it really       *)
(* ended, of a workload that ran, and nothing of the sandbox is left.  And  *)
(* what the supervisor observed reaches the caller: if it reported the end  *)
(* of the workload and a successful cleanup, and neither a deadline nor the *)
(* caller cut the execution short, the result is that end.  The exception   *)
(* is a workload that calls execve again: the monitor reports the second    *)
(* call too, and the parser has no transition for that record.              *)
Uncut == why = "normal" /\ bounded = "exit" /\ fut \notin {"deadline", "cancelled"}

ReportedTruth ==
    result # None =>
        /\ result.kind \in Outcomes => result.kind = fate /\ ran /\ AllGone
        /\ /\ result.clean /\ Uncut /\ execs < 2
           /\ Has(got \o chan, Exited(fate)) /\ Has(got \o chan, Cleaned(TRUE))
           => result.kind = fate

(* The start of the workload is never lost and never invented: what is      *)
(* reported as started did exec, and an execution that is reported, cleanly *)
(* ended, as not started never ran an instruction of the workload.          *)
StartTruth ==
    /\ ran => Has(got \o chan, Confirmed) /\ meta
    /\ result # None /\ result.started = TRUE => execs > 0
    /\ result # None /\ result.clean /\ result.started = FALSE => ~ran

(* Cleanup is claimed, by I or S on the protocol and by the parent's        *)
(* report, only when nothing is left to clean up, and nothing appears       *)
(* afterwards: not even what left the process group.                        *)
CleanupTruth ==
    /\ Has(got \o chan, Cleaned(TRUE)) => ~Exists(b) /\ ~Exists(kid)
    /\ result # None /\ result.clean => AllGone

(* Launcher and namespace init never write records that their own parser    *)
(* rejects, however often one hands over to the other, fails or dies; the   *)
(* exception is a workload that calls execve again.                         *)
StreamLegal == fut = "invalid" => execs > 1

(* Every execution ends: the parent returns and no process of the sandbox   *)
(* survives, whatever hangs.                                                *)
EveryoneEnds == <>[](pc = "returned" /\ AllGone)
=============================================================================
