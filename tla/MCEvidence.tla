----------------------------- MODULE MCEvidence -----------------------------
(* EvidenceCheckpoint for TLC: two operations, one evidence artifact and    *)
(* one recovering process.                                                   *)
EXTENDS EvidenceCheckpoint
=============================================================================
