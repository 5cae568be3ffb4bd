---------------------------- MODULE MCDeployment ----------------------------
(* Small instances of Deployment for TLC.                                   *)
EXTENDS Deployment, TLC

CONSTANTS d1, d2, c1, c2

(* The defaults of AdapterManifest, where the handlers look at them.        *)
Default(action) ==
    [action |-> action, digest |-> d1, pre |-> None, post |-> None,
     noop |-> "reject_noop", taskSuccess |-> TRUE, bootId |-> FALSE,
     fallback |-> TRUE, uptime |-> FALSE, guarded |-> TRUE, service |-> None,
     auto |-> FALSE, rollbackCheck |-> TRUE, prev |-> None, receipt |-> None, resolve |-> None,
     release |-> None, receiptVerified |-> FALSE, chain |-> FALSE,
     retention |-> FALSE]

Starting == [Default("start") EXCEPT !.post = "running", !.noop = "allow_noop"]
Stopping ==
    [Default("stop") EXCEPT !.pre = "running", !.post = "stopped", !.taskSuccess = FALSE]
Rebooting ==
    [Default("reboot") EXCEPT !.pre = "running", !.post = "running", !.bootId = TRUE]
Uploading == Default("upload_artifact")
Applying ==
    [Default("apply_artifact") EXCEPT !.service = "running", !.auto = TRUE,
         !.prev = d1, !.resolve = "artifact_digest"]
RollingBack ==
    [Default("rollback_artifact") EXCEPT !.prev = d1, !.resolve = "artifact_digest",
         !.receipt = [digest |-> d1, state |-> "applied", verified |-> TRUE],
         !.receiptVerified = TRUE]
Asking == Default("get_status")

(* Each kind of command against the kinds it can disturb: what moves the    *)
(* guest against what watches it, what records against what reads records.  *)
MCManifests ==
    (c1 :> {Stopping, Rebooting, Applying})
        @@ (c2 :> {Starting, Uploading, RollingBack, Asking})
=============================================================================
