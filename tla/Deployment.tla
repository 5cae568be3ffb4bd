----------------------------- MODULE Deployment -----------------------------
(***************************************************************************)
(* Deploy commands: create_deployment_receipt runs ProxmoxApiAdapter.deploy *)
(* against a target that answers late, loses answers and runs its tasks in *)
(* the background, writes the receipt and records an accepted deployment   *)
(* in the release history, a JSON file several commands share.  A command  *)
(* is one process with one manifest; processes interleave and may die.     *)
(***************************************************************************)
EXTENDS Naturals, Sequences, SequencesExt

CONSTANTS
    Cmds,        \* the deploy commands
    Digests,     \* artifact digests
    Manifests,   \* the adapter manifests each command may be given
    MaxPolls,    \* task_max_polls
    None

Power == {"running", "stopped"}
Mutations == {"start", "stop", "reboot"}
Stores == {"upload_artifact", "promote_artifact"}
Actions == Mutations \cup Stores
             \cup {"apply_artifact", "rollback_artifact", "get_status"}

(* What a receipt says of the deployment it is about.                       *)
Receipt == [digest : Digests, state : {None, "applied"}, verified : BOOLEAN]

(* A record of the release history: the receipt, under the command's id.    *)
Record == [id : Cmds, digest : Digests, state : {None, "applied"}, verified : BOOLEAN]

(* The fields of AdapterManifest that the handlers test, and the artifact   *)
(* digest of the gate receipt.  "pre" is None where the pre-state need not  *)
(* be confirmed; "guarded": an apply needs a promoted artifact or an        *)
(* allowed path; "retention": retention, integrity or a signed snapshot of  *)
(* the release history is required.                                         *)
Manifest == [action : Actions, digest : Digests,
             pre : Power \cup {None}, post : Power \cup {None},
             noop : {"allow_noop", "reject_noop", "perform"},
             taskSuccess : BOOLEAN,
             bootId : BOOLEAN, fallback : BOOLEAN, uptime : BOOLEAN,
             guarded : BOOLEAN, service : Power \cup {None}, auto : BOOLEAN,
             rollbackCheck : BOOLEAN, prev : Digests \cup {None}, receipt : Receipt \cup {None},
             resolve : {"release_id", "artifact_digest", "latest_known_good", None},
             release : Cmds \cup {None},
             receiptVerified : BOOLEAN, chain : BOOLEAN, retention : BOOLEAN]

ASSUME DeploymentAssumption ==
    /\ Manifests \in [Cmds -> SUBSET Manifest]
    /\ MaxPolls \in Nat \ {0}
    /\ None \notin Cmds \cup Digests \cup Power \cup Record \cup {"accepted"}

VARIABLES
    \* the target
    vm, boots,   \* power state of the guest, and how often it has booted
    task,        \* what became of the requests of a command
    said,        \* what the target last told a command of its last request
    \* the release history: a name is bound to a file, a file is named after
    \* the command that created it
    file, tmp, content, audit,
    \* locals of the commands
    pc, man, polls, good, ev, status, fd, hist,
    raced        \* two commands have been in the history at the same time

target == <<vm, boots, task, said>>
history == <<file, tmp, content, audit, fd, hist, raced>>
vars == <<target, history, pc, man, polls, good, ev, status>>

Torn == << None >>  \* a file that is not (yet) a JSON document
Kinds == {"main", "rollback"}
TaskState == {"none", "running", "ok", "error"}

(* Answers to a request: none, or an error status; 200 without a UPID; 200  *)
(* with a UPID inside an object, or as it is.  Answers of a task that has   *)
(* ended: its exit status, which may be missing.                            *)
Answer == {"none", "plain", "dict", "upid", "ok", "error", "missing"}

Evidence == [boot : Nat, up : BOOLEAN, id : BOOLEAN]
NoEvidence == [boot |-> 0, up |-> FALSE, id |-> FALSE]

Saving == {"open", "write", "replace", "audit"}
Over == {"ended", "failed", "dead"}
Locations == {"idle", "pre", "evidence", "request", "poll", "post", "after",
              "verify", "rollback", "rb_request", "rb_poll", "rb_verify",
              "receipt", "load"} \cup Saving \cup Over

Init ==
    /\ vm \in Power /\ boots = 0
    /\ task = [c \in Cmds |-> [k \in Kinds |-> "none"]]
    /\ said = [c \in Cmds |-> "none"]
    /\ file = None /\ tmp = None /\ audit = {} /\ raced = FALSE
    /\ content = [c \in Cmds |-> Torn]
    /\ pc = [c \in Cmds |-> "idle"]
    /\ man \in [Cmds -> UNION {Manifests[c] : c \in Cmds}]
    /\ \A c \in Cmds : man[c] \in Manifests[c]
    /\ polls = [c \in Cmds |-> 0]
    /\ good = [c \in Cmds |-> FALSE]
    /\ ev = [c \in Cmds |-> NoEvidence]
    /\ status = [c \in Cmds |-> None]
    /\ fd = [c \in Cmds |-> None]
    /\ hist = [c \in Cmds |-> << >>]

-----------------------------------------------------------------------------
(* Steps of one command.                                                    *)

GoTo(c, l) == pc' = [pc EXCEPT ![c] = l]

(* The process is gone, and with it all it knew.                            *)
Forgets(c) ==
    /\ said' = [said EXCEPT ![c] = "none"]
    /\ polls' = [polls EXCEPT ![c] = 0]
    /\ good' = [good EXCEPT ![c] = FALSE]
    /\ ev' = [ev EXCEPT ![c] = NoEvidence]
    /\ status' = [status EXCEPT ![c] = None]
    /\ fd' = [fd EXCEPT ![c] = None]
    /\ hist' = [hist EXCEPT ![c] = << >>]

(* deploy_status is known.                                                  *)
Conclude(c, s) == status' = [status EXCEPT ![c] = s] /\ GoTo(c, "receipt")

(* Faulty: what was not accepted has no verdict at all.                     *)
FaultyVerdict(ok) == IF ok THEN "accepted" ELSE "unknown"

Verdict(ok) == IF ok THEN "accepted" ELSE "rejected"

(* _api_request on .../status/current: the power state, or no answer.       *)
Answers == {vm, "unknown"}

(* deploy() hands over to the handler of the action.                        *)
Handler(action) ==
    CASE action \in Mutations -> "pre"
      [] action = "rollback_artifact" -> "rollback"
      [] OTHER -> "request"

(* Gate receipt, manifest signature, trust store snapshot and context are   *)
(* checked before anything is sent: a violation raises and leaves no        *)
(* receipt, an invalid manifest is a rejected deployment.                   *)
Begin(c) ==
    /\ pc[c] = "idle"
    /\ \/ GoTo(c, "failed") /\ UNCHANGED status
       \/ Conclude(c, "rejected")
       \/ /\ GoTo(c, Handler(man[c].action))
          /\ UNCHANGED status
    /\ UNCHANGED <<target, history, man, polls, good, ev>>

(* Read-only actions.                                                       *)
Read(c) ==
    /\ pc[c] = "request" /\ man[c].action = "get_status"
    /\ \E s \in {"accepted", "rejected"} : Conclude(c, s)
    /\ UNCHANGED <<target, history, man, polls, good, ev>>

(* The desired state is there already; never for a reboot.                  *)
Already(c, seen) ==
    man[c].post = seen /\ man[c].action # "reboot"

(* The state is read, compared with the expected one, and may make the      *)
(* mutation unnecessary.                                                    *)
PreState(c) ==
    /\ pc[c] = "pre"
    /\ \E seen \in Answers :
        IF man[c].pre \notin {None, seen}
        THEN Conclude(c, "rejected")
        ELSE IF Already(c, seen) /\ man[c].noop # "perform"
        THEN Conclude(c, Verdict(man[c].noop = "allow_noop"))
        ELSE /\ GoTo(c, IF man[c].action = "reboot" THEN "evidence" ELSE "request")
             /\ UNCHANGED status
    /\ UNCHANGED <<target, history, man, polls, good, ev>>

(* _capture_boot_evidence, its two requests as one: the uptime is 0 when    *)
(* the answer is lost or the guest is down; the guest agent of a running    *)
(* guest may not tell the boot id.                                          *)
Captures ==
    {NoEvidence} \cup
    {[boot |-> boots, up |-> vm = "running", id |-> i] :
        i \in {FALSE, vm = "running"}}

BootEvidence(c) ==
    /\ pc[c] = "evidence"
    /\ \E e \in Captures : ev' = [ev EXCEPT ![c] = e]
    /\ GoTo(c, "request")
    /\ UNCHANGED <<target, history, man, polls, good, status>>

(* How a POST or PUT may end: refused, or executed, but the answer is lost; *)
(* a 200 without a UPID, from a target that is done, from one that is not,  *)
(* or from something in between, say as a page instead of JSON; a 200 with  *)
(* the UPID of the task that executes it.                                   *)
Outcomes ==
    [task : {"none", "running"}, answer : {"none"}]
    \cup [task : {"none", "running"}, answer : {"plain"}]
    \cup [task : {"running"}, answer : {"dict", "upid"}]

Executed(c, k, o) ==
    /\ task' = [task EXCEPT ![c][k] = o.task]
    /\ said' = [said EXCEPT ![c] = o.answer]

(* The UPID is unwrapped here, and nothing is accepted without one.         *)
Mutate(c) ==
    /\ pc[c] = "request" /\ man[c].action \in Mutations
    /\ \E o \in Outcomes :
        /\ Executed(c, "main", o)
        /\ IF o.answer \in {"dict", "upid"}
           THEN GoTo(c, "poll") /\ UNCHANGED status
           ELSE Conclude(c, "rejected")
    /\ UNCHANGED <<vm, boots, history, man, polls, good, ev>>

(* _handle_upload_artifact and _handle_promote_artifact: digest, size, path *)
(* and overwrite checks reject before the request; no task is waited for.   *)
Store(c) ==
    /\ pc[c] = "request" /\ man[c].action \in Stores
    /\ \/ Conclude(c, "rejected") /\ UNCHANGED <<task, said>>
       \/ \E o \in Outcomes :
            /\ Executed(c, "main", o)
            /\ Conclude(c, Verdict(o.answer # "none"))
    /\ UNCHANGED <<vm, boots, history, man, polls, good, ev>>

(* A rejected apply, whatever the reason, starts the automatic rollback.    *)
ApplyRejected(c) ==
    IF man[c].auto /\ man[c].prev # None
    THEN status' = [status EXCEPT ![c] = "rejected"] /\ GoTo(c, "rollback")
    ELSE Conclude(c, "rejected")

(* _handle_apply_artifact up to the request: the storage may not answer or  *)
(* the path may not be allowed; a 200 without a UPID string is a success.   *)
Apply(c) ==
    /\ pc[c] = "request" /\ man[c].action = "apply_artifact"
    /\ \/ man[c].guarded /\ ApplyRejected(c) /\ UNCHANGED <<task, said>>
       \/ \E o \in Outcomes :
            /\ Executed(c, "main", o)
            /\ CASE o.answer = "upid" -> GoTo(c, "poll") /\ UNCHANGED status
                 [] o.answer = "none" -> ApplyRejected(c)
                 [] OTHER -> GoTo(c, "verify") /\ UNCHANGED status
    /\ UNCHANGED <<vm, boots, history, man, polls, good, ev>>

(* The rollback of an apply leaves the deployment rejected.                 *)
RollbackEnds(c, ok) ==
    Conclude(c, Verdict(ok /\ man[c].action = "rollback_artifact"))

(* Faulty: a task that was not seen to fail is taken to have succeeded.     *)
FaultyTaskSucceeded(c, stopped, exit) ==
    stopped => exit \in {"ok", "missing"} \/ (man[c].action \in Mutations /\ ~man[c].taskSuccess)

(* What a poll loop concludes from the last status it got: the exit status  *)
(* of a stopped task is OK if the answer has none.                          *)
TaskSucceeded(c, stopped, exit) ==
    stopped /\ (exit \in {"ok", "missing"} \/ (man[c].action \in Mutations /\ ~man[c].taskSuccess))

PollEnds(c, stopped, exit) ==
    LET ok == TaskSucceeded(c, stopped, exit) IN
    CASE pc[c] = "rb_poll" ->
            /\ IF ok THEN GoTo(c, "rb_verify") /\ UNCHANGED status
                     ELSE RollbackEnds(c, FALSE)
            /\ UNCHANGED good
      [] man[c].action \in Mutations ->
            /\ good' = [good EXCEPT ![c] = ok]
            /\ GoTo(c, "post") /\ UNCHANGED status
      [] OTHER ->
            /\ IF ok THEN GoTo(c, "verify") /\ UNCHANGED status
                     ELSE ApplyRejected(c)
            /\ UNCHANGED good

Polled(c) == IF pc[c] = "poll" THEN "main" ELSE "rollback"

(* The loop is over: the task has been seen stopped, or it has not.         *)
Seen(c) ==
    \E exit \in {task[c][Polled(c)], "missing"} :
        /\ task[c][Polled(c)] # "running"
        /\ said' = [said EXCEPT ![c] = exit]
        /\ PollEnds(c, TRUE, exit)

GivenUp(c) == PollEnds(c, FALSE, "missing") /\ UNCHANGED said

(* Faulty: an unanswered poll is not counted.                               *)
FaultyPoll(c) ==
    /\ pc[c] \in {"poll", "rb_poll"}
    /\ \/ /\ polls[c] > 0 /\ GivenUp(c)
          /\ polls' = [polls EXCEPT ![c] = 0]
       \/ /\ polls[c] < MaxPolls /\ Seen(c)
          /\ polls' = [polls EXCEPT ![c] = 0]
       \/ /\ polls[c] < MaxPolls
          /\ polls' = polls
          /\ UNCHANGED <<pc, status, good, said>>
    /\ UNCHANGED <<vm, boots, task, history, man, ev>>

(* _poll_task: at most MaxPolls questions, answered, lost or, once the time *)
(* is up, not asked.                                                        *)
Poll(c) ==
    /\ pc[c] \in {"poll", "rb_poll"}
    /\ \/ /\ polls[c] > 0 /\ GivenUp(c)
          /\ polls' = [polls EXCEPT ![c] = 0]
       \/ /\ polls[c] < MaxPolls /\ Seen(c)
          /\ polls' = [polls EXCEPT ![c] = 0]
       \/ /\ polls[c] < MaxPolls
          /\ polls' = [polls EXCEPT ![c] = @ + 1]
          /\ UNCHANGED <<pc, status, good, said>>
    /\ UNCHANGED <<vm, boots, task, history, man, ev>>

(* The state after a mutation, whatever became of its task.                 *)
PostState(c) ==
    /\ pc[c] = "post"
    /\ \E seen \in Answers :
        LET ok == good[c] /\ man[c].post \in {None, seen} IN
        IF man[c].action = "reboot"
        THEN /\ good' = [good EXCEPT ![c] = ok]
             /\ GoTo(c, "after") /\ UNCHANGED status
        ELSE Conclude(c, Verdict(ok)) /\ UNCHANGED good
    /\ UNCHANGED <<target, history, man, polls, ev>>

(* An uptime below the earlier one: always if the second is missing, never  *)
(* without a boot, and perhaps not even after one.                          *)
Resets(before, after) ==
    IF ~before.up THEN {FALSE}
    ELSE IF ~after.up THEN {TRUE}
    ELSE IF before.boot = after.boot THEN {FALSE} ELSE BOOLEAN

Rebooted(m, before, after, reset) ==
    /\ m.bootId => IF before.id
                   THEN after.id /\ before.boot # after.boot
                   ELSE m.fallback /\ reset
    /\ m.uptime => reset

RebootEvidence(c) ==
    /\ pc[c] = "after"
    /\ \E e \in Captures : \E reset \in Resets(ev[c], e) :
        Conclude(c, Verdict(good[c] /\ Rebooted(man[c], ev[c], e, reset)))
    /\ UNCHANGED <<target, history, man, polls, good, ev>>

(* The activation is verified by the state of the service.                  *)
VerifyApply(c) ==
    /\ pc[c] = "verify"
    /\ \E seen \in Answers :
        IF man[c].service \in {None, seen}
        THEN Conclude(c, "accepted")
        ELSE ApplyRejected(c)
    /\ UNCHANGED <<target, history, man, polls, good, ev>>

-----------------------------------------------------------------------------
(* Rollback.                                                                *)

Releases == IF file = None \/ content[file] = Torn THEN << >> ELSE content[file]

is_known_good(r) == r.state = "applied" /\ r.verified

(* The release that the manifest names, the latest of several.              *)
Resolved(m) ==
    LET Match(r) ==
            CASE m.resolve = "release_id" -> r.id = m.release
              [] m.resolve = "artifact_digest" -> r.digest = m.prev
              [] m.resolve = "latest_known_good" -> is_known_good(r)
              [] OTHER -> FALSE
        I == {i \in 1 .. Len(Releases) : Match(Releases[i])}
    IN IF I = {} THEN None
       ELSE Releases[CHOOSE i \in I : \A j \in I : j =< i]

ReceiptOf(r) == [digest |-> r.digest, state |-> r.state, verified |-> r.verified]

(* _verify_rollback_provenance                                              *)
ProvenanceVerified(m) ==
    m.receiptVerified =>
        /\ m.receipt # None
        /\ m.receipt.state = "applied" /\ m.receipt.verified
        /\ m.receipt.digest = m.prev

(* _handle_rollback_artifact up to the request.  The release found replaces *)
(* the manifest's target, and its receipt the one that is missing.  Where   *)
(* the manifest demands it, digests, files and signatures are checked, any  *)
(* of which may be wrong or gone.                                           *)
RollbackGate(c) ==
    /\ pc[c] = "rollback"
    /\ LET m == man[c]
           r == Resolved(m)
       IN \E receipt \in IF r = None \/ m.receipt # None THEN {m.receipt}
                         ELSE {ReceiptOf(r), None} :
          LET n == IF r = None THEN m
                   ELSE [m EXCEPT !.prev = r.digest, !.receipt = receipt]
              missing == m.resolve # None /\ r = None /\ m.receiptVerified
              stale == r # None /\ m.retention /\ ~is_known_good(r)
          IN /\ man' = [man EXCEPT ![c] = n]
             /\ \/ RollbackEnds(c, FALSE)
                   /\ \/ missing \/ stale \/ n.prev = None
                      \/ n.receiptVerified \/ n.chain
                      \/ (m.resolve # None /\ m.retention)
                \/ /\ ~missing /\ ~stale /\ n.prev # None
                   /\ ProvenanceVerified(n)
                   /\ GoTo(c, "rb_request") /\ UNCHANGED status
    /\ UNCHANGED <<target, history, polls, good, ev>>

RollbackRequest(c) ==
    /\ pc[c] = "rb_request"
    /\ \E o \in Outcomes :
        /\ Executed(c, "rollback", o)
        /\ CASE o.answer = "upid" -> GoTo(c, "rb_poll") /\ UNCHANGED status
             [] o.answer = "none" -> RollbackEnds(c, FALSE)
             [] OTHER -> GoTo(c, "rb_verify") /\ UNCHANGED status
    /\ UNCHANGED <<vm, boots, history, man, polls, good, ev>>

RollbackVerify(c) ==
    /\ pc[c] = "rb_verify"
    /\ \E seen \in Answers :
        RollbackEnds(c, man[c].rollbackCheck =>
                            seen # "unknown" /\ man[c].service \in {None, seen})
    /\ UNCHANGED <<target, history, man, polls, good, ev>>

-----------------------------------------------------------------------------
(* Receipt and release history.                                             *)

(* create_deployment_receipt copies neither final_deployment_state nor      *)
(* activation_verified of the result, and from_receipt reads both.          *)
from_receipt(c) ==
    [id |-> c, digest |-> man[c].digest, state |-> None, verified |-> FALSE]

WriteReceipt(c) ==
    /\ pc[c] = "receipt"
    /\ IF status[c] = "accepted"
       THEN GoTo(c, "load") /\ UNCHANGED <<said, polls, good, ev, status, fd, hist>>
       ELSE GoTo(c, "ended") /\ Forgets(c)
    /\ UNCHANGED <<vm, boots, task, file, tmp, content, audit, raced, man>>

(* ReleaseHistory(): a file that does not parse counts as empty.            *)
Load(c) ==
    /\ pc[c] = "load"
    /\ hist' = [hist EXCEPT ![c] = Releases]
    /\ raced' = (raced \/ \E d \in Cmds : pc[d] \in Saving)
    /\ GoTo(c, "open")
    /\ UNCHANGED <<target, file, tmp, content, audit, fd, man, polls, good, ev, status>>

(* Faulty: the history is written in place.                                 *)
FaultyOpen(c) ==
    /\ pc[c] = "open"
    /\ LET f == IF file = None THEN c ELSE file IN
        /\ fd' = [fd EXCEPT ![c] = f]
        /\ tmp' = f /\ file' = f
        /\ content' = [content EXCEPT ![f] = Torn]
    /\ GoTo(c, "write")
    /\ UNCHANGED <<target, audit, hist, raced, man, polls, good, ev, status>>

(* save(): write_text opens the one temporary name and truncates it, ...    *)
Open(c) ==
    /\ pc[c] = "open"
    /\ LET f == IF tmp = None THEN c ELSE tmp IN
        /\ fd' = [fd EXCEPT ![c] = f]
        /\ tmp' = f
        /\ content' = [content EXCEPT ![f] = Torn]
    /\ GoTo(c, "write")
    /\ UNCHANGED <<target, file, audit, hist, raced, man, polls, good, ev, status>>

(* ... writes through its descriptor, over what another writer left, ...    *)
Write(c) ==
    /\ pc[c] = "write"
    /\ LET data == Append(hist[c], from_receipt(c)) IN
        \E x \in IF content[fd[c]] = Torn THEN {data} ELSE {data, Torn} :
            content' = [content EXCEPT ![fd[c]] = x]
    /\ GoTo(c, "replace")
    /\ UNCHANGED <<target, file, tmp, audit, fd, hist, raced, man, polls, good, ev, status>>

(* ... and renames; if the name is gone, the exception is swallowed.        *)
Replace(c) ==
    /\ pc[c] = "replace"
    /\ IF tmp = None
       THEN GoTo(c, "ended") /\ UNCHANGED <<file, tmp>>
       ELSE GoTo(c, "audit") /\ file' = tmp /\ tmp' = None
    /\ UNCHANGED <<target, content, audit, fd, hist, raced, man, polls, good, ev, status>>

Audit(c) ==
    /\ pc[c] = "audit"
    /\ audit' = audit \cup {c}
    /\ GoTo(c, "ended")
    /\ UNCHANGED <<target, file, tmp, content, fd, hist, raced, man, polls, good, ev, status>>

-----------------------------------------------------------------------------
(* The target: a task ends, well or badly, and the guest may or may not     *)
(* have done what the task was for.                                         *)
TaskEnds(c, k) ==
    /\ task[c][k] = "running"
    /\ \E t \in {"ok", "error"} : task' = [task EXCEPT ![c][k] = t]
    /\ \/ UNCHANGED <<vm, boots>>
       \/ /\ k = "main"
          /\ \/ man[c].action = "stop" /\ vm' = "stopped" /\ UNCHANGED boots
             \/ /\ man[c].action = "start" /\ vm = "stopped"
                /\ vm' = "running" /\ boots' = boots + 1
             \/ /\ man[c].action = "reboot" /\ vm = "running"
                /\ UNCHANGED vm /\ boots' = boots + 1
    /\ UNCHANGED <<said, history, pc, man, polls, good, ev, status>>

(* A process dies: its locals are gone, files and tasks remain.             *)
Crash(c) ==
    /\ pc[c] \notin {"idle"} \cup Over
    /\ GoTo(c, "dead") /\ Forgets(c)
    /\ UNCHANGED <<vm, boots, task, file, tmp, content, audit, raced, man>>

Step(c) ==
    \/ Begin(c) \/ Read(c) \/ PreState(c) \/ BootEvidence(c) \/ Mutate(c)
    \/ Store(c) \/ Apply(c) \/ Poll(c) \/ PostState(c) \/ RebootEvidence(c)
    \/ VerifyApply(c) \/ RollbackGate(c) \/ RollbackRequest(c)
    \/ RollbackVerify(c) \/ WriteReceipt(c) \/ Load(c) \/ Open(c) \/ Write(c)
    \/ Replace(c) \/ Audit(c)

Next == \E c \in Cmds : Step(c) \/ Crash(c) \/ \E k \in Kinds : TaskEnds(c, k)

Spec == Init /\ [][Next]_vars

(* A command's process runs on; the target owes it nothing.                 *)
FairSpec == Spec /\ \A c \in Cmds : WF_vars(Step(c))

-----------------------------------------------------------------------------
(* Properties.                                                              *)

TypeOK ==
    /\ vm \in Power /\ boots \in Nat
    /\ task \in [Cmds -> [Kinds -> TaskState]]
    /\ said \in [Cmds -> Answer]
    /\ file \in Cmds \cup {None} /\ tmp \in Cmds \cup {None} /\ audit \subseteq Cmds
    /\ content \in [Cmds -> {Torn} \cup Seq(Record)]
    /\ pc \in [Cmds -> Locations] /\ man \in [Cmds -> Manifest]
    /\ polls \in [Cmds -> 0 .. MaxPolls] /\ good \in [Cmds -> BOOLEAN]
    /\ ev \in [Cmds -> Evidence]
    /\ status \in [Cmds -> {None, "accepted", "rejected"}]
    /\ fd \in [Cmds -> Cmds \cup {None}] /\ hist \in [Cmds -> Seq(Record)]
    /\ raced \in BOOLEAN

(* A request has been seen through: its task has ended, and well unless the *)
(* target gave it no exit status.                                           *)
SeenThrough(c, k) ==
    /\ task[c][k] \in {"ok", "error"}
    /\ task[c][k] = "ok" \/ said[c] = "missing"

(* What "accepted" is worth, whatever answers were lost, late or slow.  A   *)
(* mutation's task has really ended, well where the manifest demands it, or *)
(* without an exit status; a no-op has sent nothing; a reboot that had to   *)
(* show a new boot id, and saw one before, happened.  An apply or rollback  *)
(* has been seen through unless the target's 200 bore no UPID string: then, *)
(* and for uploads and promotions, nothing but the 200 is behind it.        *)
AcceptedTruth ==
    \A c \in Cmds : status[c] = "accepted" =>
        LET m == man[c]
            Vouched(k) == SeenThrough(c, k) \/ said[c] \in {"plain", "dict"}
        IN CASE m.action \in Mutations ->
                  /\ \/ /\ said[c] = "none" /\ task[c]["main"] = "none"
                        /\ m.action # "reboot" /\ m.noop = "allow_noop"
                     \/ /\ task[c]["main"] \in {"ok", "error"}
                        /\ m.taskSuccess => SeenThrough(c, "main")
                  /\ m.action = "reboot" /\ m.bootId /\ ev[c].id =>
                        boots > ev[c].boot
             [] m.action = "apply_artifact" -> Vouched("main")
             [] m.action = "rollback_artifact" -> Vouched("rollback")
             [] m.action \in Stores -> said[c] # "none"
             [] OTHER -> said[c] = "none"

(* As long as the commands record one after the other, the history is a     *)
(* document at every moment, whoever dies while writing it, and what was    *)
(* once recorded stays.                                                     *)
HistoryKept ==
    ~raced =>
        /\ file # None => content[file] # Torn
        /\ \A c \in Cmds : c \in audit \/ pc[c] = "audit" =>
              \E i \in 1 .. Len(Releases) : Releases[i].id = c

(* A command ends even if the target never answers and its tasks never end. *)
DeployEnds == \A c \in Cmds : pc[c] # "idle" ~> pc[c] \in Over
=============================================================================
