--------------------------- MODULE CheckpointLog ----------------------------
(***************************************************************************)
(* What evidence checkpoints promise to whoever keeps one: a log of signed *)
(* checkpoints that only grows, each naming its predecessor, and a         *)
(* checkpoint handed to a caller is in the log for good.                   *)
(* EvidenceCheckpoint implements it with a chain file, a journal file, an  *)
(* artifact store and processes that die between any two writes.           *)
(***************************************************************************)
EXTENDS Naturals, Sequences

CONSTANTS Ops,      \* checkpoint operations
          Genesis   \* the predecessor of the first checkpoint

VARIABLES log,      \* the checkpoints, oldest first
          returned  \* the operations whose caller has the checkpoint

logVars == <<log, returned>>

Checkpoint == [op : Ops, seq : Nat, prev : Ops \cup {Genesis}]

Logged == {log[i].op : i \in 1 .. Len(log)}

Latest == IF log = << >> THEN Genesis ELSE log[Len(log)].op

LogInit ==
    /\ log = << >>
    /\ returned = {}

(* A checkpoint is appended, and names the latest one.                      *)
Extend(o) ==
    /\ o \notin Logged
    /\ log' = Append(log, [op |-> o, seq |-> Len(log) + 1, prev |-> Latest])
    /\ UNCHANGED returned

(* Its caller gets it.                                                      *)
Return(o) ==
    /\ o \in Logged
    /\ returned' = returned \cup {o}
    /\ UNCHANGED log

LogNext == \E o \in Ops : Extend(o) \/ Return(o)

LogSpec == LogInit /\ [][LogNext]_logVars
=============================================================================
