------------------------- MODULE EvidenceCheckpoint -------------------------
(***************************************************************************)
(* Signed evidence checkpoints: create_checkpoint, CheckpointJournal,      *)
(* CheckpointChain, the ContentAddressedStore they write to, and the       *)
(* recovery that reconciles the journal after a crash.                     *)
(*                                                                         *)
(* Four files are written one after the other: journal, artifact, index,   *)
(* chain.  Each write is atomic (temp file and rename), a process may die  *)
(* between any two of them, and a write may fail.  Creators exclude each   *)
(* other by a lock on the chain that the system drops when they die.  The  *)
(* lock of the journal is a file: a process that dies with it leaves it    *)
(* behind, and every later journal write times out.  Recovery takes the    *)
(* journal lock only, after it has read the journal and the chain.         *)
(*                                                                         *)
(* Digests and signatures are abstracted: an operation stands for its      *)
(* checkpoint's digest and for the digest of its manifest, which is unique *)
(* to it because a manifest holds the time it was generated.  Files are    *)
(* not tampered with.                                                      *)
(***************************************************************************)
EXTENDS Integers, Sequences, FiniteSets

CONSTANTS
    Ops,         \* checkpoint operations, one create_checkpoint call each
    Evidence,    \* digests of the other artifacts
    Recoverers,  \* processes that run recovery
    Genesis

ASSUME EvidenceAssumption ==
    /\ IsFiniteSet(Ops) /\ IsFiniteSet(Evidence)
    /\ Ops \cap Evidence = {}
    /\ Genesis \notin Ops \cup Evidence

Artifacts == Ops \cup Evidence

JournalStatus == {"none", "prepared", "manifest_retained", "checkpoint_prepared",
                  "chain_committed", "committed", "aborted"}
Uncommitted == {"prepared", "manifest_retained", "checkpoint_prepared",
                "chain_committed"}

VARIABLES
    files,     \* artifact files of the store
    index,     \* entries of the store's index
    chain,     \* the chain file
    journal,   \* status of each operation in the journal file
    orphanLock,\* the journal's lock file was left behind by a dead process
    lock,      \* the creator that holds the chain lock, or Genesis
    pc, snap,  \* creators: next step, and the snapshot and link they prepared
    seen,      \* recoverers: journal and chain as read before locking
    returned   \* operations whose create_checkpoint has returned

store == <<files, index>>
vars == <<files, index, chain, journal, orphanLock, lock, pc, snap, seen,
          returned>>

Label == {"idle", "exclude", "lock", "prepare", "retain", "retained", "sign",
          "append", "appended", "commit", "failing", "done", "raised", "dead"}
Entry == [op : Ops, seq : Nat, prev : Ops \cup {Genesis}]
Snapshot == [index : SUBSET Artifacts, arts : SUBSET Artifacts,
             seq : Nat, prev : Ops \cup {Genesis}]
View == [pc : {"idle", "chain", "write"}, journal : [Ops -> JournalStatus],
         chain : SUBSET Ops]

NoSnap == [index |-> {}, arts |-> {}, seq |-> 0, prev |-> Genesis]
NoView == [pc |-> "idle", journal |-> [o \in Ops |-> "none"], chain |-> {}]

InChain == {chain[i].op : i \in 1 .. Len(chain)}

Init ==
    /\ files = {} /\ index = {}
    /\ chain = << >>
    /\ journal = [o \in Ops |-> "none"]
    /\ orphanLock = FALSE
    /\ lock = Genesis
    /\ pc = [o \in Ops |-> "idle"]
    /\ snap = [o \in Ops |-> NoSnap]
    /\ seen = [r \in Recoverers |-> NoView]
    /\ returned = {}

-----------------------------------------------------------------------------
(* ContentAddressedStore.                                                   *)

(* retain: the artifact first, then its index entry, under the store lock.  *)
Stored(a) ==
    /\ files' = files \cup {a}
    /\ index' = index \cup {a}

(* Faulty variant: the index entry is written before the artifact.          *)
FaultyTorn(a) ==
    /\ index' \in {index, index \cup {a}}
    /\ UNCHANGED files

(* The process dies, or the write of the index fails, in between.           *)
Torn(a) ==
    /\ files' \in {files, files \cup {a}}
    /\ UNCHANGED index

Retain(a) ==
    /\ Stored(a) \/ Torn(a)
    /\ UNCHANGED <<chain, journal, orphanLock, lock, pc, snap, seen, returned>>

(* Faulty variant: artifacts of uncommitted operations are removed too.     *)
Faultyfind_orphaned ==
    files \ (index \ {o \in Ops : journal[o] \in Uncommitted})

find_orphaned == files \ index

(* Files that cannot be removed are skipped.                                *)
CollectOrphans ==
    /\ \E removed \in SUBSET find_orphaned : files' = files \ removed
    /\ UNCHANGED <<index, chain, journal, orphanLock, lock, pc, snap, seen,
                   returned>>

-----------------------------------------------------------------------------
(* Verification.  A manifest is what its operation's snapshot says:         *)
(* artifact_count counts the index, artifact_digests leave out the          *)
(* manifests of aborted operations.                                         *)

verify_checkpoint_chain(c) ==
    \A i \in 1 .. Len(c) :
        /\ c[i].seq = i
        /\ c[i].prev = (IF i = 1 THEN Genesis ELSE c[i - 1].op)

verify_checkpoint(o) ==
    /\ o \in files
    /\ Cardinality(snap[o].index) = Cardinality(snap[o].arts)
    /\ snap[o].arts \subseteq files

(* detect_rollback of a verified anchor against the chain c.                *)
detect_rollback(c, anchor) ==
    IF ~verify_checkpoint_chain(c) THEN "rollback"
    ELSE IF c = << >> THEN "indeterminate"
    ELSE IF \E i \in 1 .. Len(c) : c[i].op = anchor THEN "descendant"
    ELSE "rollback"

-----------------------------------------------------------------------------
(* create_checkpoint, by operation o.                                       *)

Goto(o, label) == pc' = [pc EXCEPT ![o] = label]

(* Step 1, before the chain lock: load_index ...                            *)
ReadIndex(o) ==
    /\ pc[o] = "idle"
    /\ snap' = [snap EXCEPT ![o] = [@ EXCEPT !.index = index]]
    /\ Goto(o, "exclude")
    /\ UNCHANGED <<files, index, chain, journal, orphanLock, lock, seen, returned>>

(* ... and _get_aborted_manifest_exclusions.                                *)
Exclude(o) ==
    /\ pc[o] = "exclude"
    /\ snap' = [snap EXCEPT ![o] = [@ EXCEPT !.arts =
                  {a \in snap[o].index : a \in Ops => journal[a] # "aborted"}]]
    /\ Goto(o, "lock")
    /\ UNCHANGED <<files, index, chain, journal, orphanLock, lock, seen, returned>>

(* Faulty variant: the chain is not locked.                                 *)
FaultyLockFree == TRUE

LockFree == lock = Genesis

Latest == IF chain = << >> THEN Genesis ELSE chain[Len(chain)].op

(* Steps 2 to 4: lock the chain, verify it, and link to its latest          *)
(* checkpoint.                                                              *)
LockChain(o) ==
    /\ pc[o] = "lock"
    /\ LockFree
    /\ IF verify_checkpoint_chain(chain)
       THEN /\ lock' = o
            /\ snap' = [snap EXCEPT ![o] = [@ EXCEPT !.seq = Len(chain) + 1,
                                                     !.prev = Latest]]
            /\ Goto(o, "prepare")
       ELSE UNCHANGED <<lock, snap>> /\ Goto(o, "raised")
    /\ UNCHANGED <<files, index, chain, journal, orphanLock, seen, returned>>

(* A journal write of o: under the journal's lock, load, change, save.      *)
Mark(o, at, status, then) ==
    /\ pc[o] = at
    /\ ~orphanLock
    /\ journal' = [journal EXCEPT ![o] = status]
    /\ Goto(o, then)
    /\ UNCHANGED <<files, index, chain, orphanLock, snap, seen>>

Prepare(o) ==
    /\ Mark(o, "prepare", "prepared", "retain")
    /\ UNCHANGED <<lock, returned>>

(* Step 5a: retain the manifest.                                            *)
RetainManifest(o) ==
    /\ pc[o] = "retain"
    /\ \/ Stored(o) /\ Goto(o, "retained")
       \/ Torn(o) /\ Goto(o, "failing")
    /\ UNCHANGED <<chain, journal, orphanLock, lock, snap, seen, returned>>

MarkManifestRetained(o) ==
    /\ Mark(o, "retained", "manifest_retained", "sign")
    /\ UNCHANGED <<lock, returned>>

(* Steps 6 and 7 sign the checkpoint; its identity is recorded before the   *)
(* chain is saved.                                                          *)
MarkCheckpointPrepared(o) ==
    /\ Mark(o, "sign", "checkpoint_prepared", "append")
    /\ UNCHANGED <<lock, returned>>

(* Step 8: the chain is loaded again, extended and saved.                   *)
ChainSave(o) ==
    /\ pc[o] = "append"
    /\ \/ /\ chain' = Append(chain, [op |-> o, seq |-> snap[o].seq,
                                     prev |-> snap[o].prev])
          /\ Goto(o, "appended")
       \/ /\ Goto(o, "failing")
          /\ UNCHANGED chain
    /\ UNCHANGED <<files, index, journal, orphanLock, lock, snap, seen, returned>>

MarkChainCommitted(o) ==
    /\ Mark(o, "appended", "chain_committed", "commit")
    /\ UNCHANGED <<lock, returned>>

(* The last journal write, outside the exception handler; the chain lock is *)
(* released and the checkpoint returned.                                    *)
MarkCommitted(o) ==
    /\ Mark(o, "commit", "committed", "done")
    /\ lock' = Genesis
    /\ returned' = returned \cup {o}

(* A journal write raises: its lock times out or the disk refuses.          *)
JournalFails(o) ==
    /\ \/ /\ pc[o] \in {"retained", "sign", "appended"}
          /\ Goto(o, "failing")
          /\ UNCHANGED lock
       \/ /\ pc[o] \in {"prepare", "commit", "failing"}
          /\ Goto(o, "raised")
          /\ lock' = Genesis
    /\ UNCHANGED <<files, index, chain, journal, orphanLock, snap, seen, returned>>

(* The exception handler, then the release of the chain lock.               *)
MarkAborted(o) ==
    /\ Mark(o, "failing", "aborted", "raised")
    /\ lock' = Genesis
    /\ UNCHANGED returned

(* The process dies; the chain lock is dropped, the journal's is not when   *)
(* the process was between its creation and its removal.                    *)
Crash(o) ==
    /\ pc[o] \notin {"idle", "done", "raised", "dead"}
    /\ Goto(o, "dead")
    /\ lock' = IF lock = o THEN Genesis ELSE lock
    /\ orphanLock' \in {orphanLock, lock = o \/ orphanLock}
    /\ UNCHANGED <<files, index, chain, journal, snap, seen, returned>>

-----------------------------------------------------------------------------
(* CheckpointJournal.reconcile, called by WorkflowRecoveryManager.recover.  *)

ReadJournal(r) ==
    /\ seen[r].pc = "idle"
    /\ \E o \in Ops : journal[o] \in Uncommitted
    /\ seen' = [seen EXCEPT ![r] = [@ EXCEPT !.pc = "chain", !.journal = journal]]
    /\ UNCHANGED <<files, index, chain, journal, orphanLock, lock, pc, snap, returned>>

ReadChain(r) ==
    /\ seen[r].pc = "chain"
    /\ seen' = [seen EXCEPT ![r] = [@ EXCEPT !.pc = "write", !.chain = InChain]]
    /\ UNCHANGED <<files, index, chain, journal, orphanLock, lock, pc, snap, returned>>

(* Faulty variant: a prepared checkpoint is taken for a committed one.      *)
FaultyReconciled(o, view) ==
    CASE view.journal[o] \in {"chain_committed", "checkpoint_prepared"} -> "committed"
      [] OTHER -> journal[o]

(* Faulty variant: a prepared checkpoint the chain lacks is left pending.   *)
PendingReconciled(o, view) ==
    CASE view.journal[o] = "chain_committed" -> "committed"
      [] view.journal[o] = "checkpoint_prepared" /\ o \in view.chain -> "committed"
      [] view.journal[o] = "prepared" /\ o \notin files -> "aborted"
      [] OTHER -> journal[o]

(* The status an operation gets; "manifest_retained", and "prepared" with a *)
(* manifest in the store, wait for an operator.                             *)
Reconciled(o, view) ==
    CASE view.journal[o] = "chain_committed" -> "committed"
      [] view.journal[o] = "checkpoint_prepared" ->
            IF o \in view.chain THEN "committed" ELSE "aborted"
      [] view.journal[o] = "prepared" /\ o \notin files -> "aborted"
      [] OTHER -> journal[o]

Reconcile(r) ==
    /\ seen[r].pc = "write"
    /\ ~orphanLock
    /\ journal' = [o \in Ops |-> Reconciled(o, seen[r])]
    /\ seen' = [seen EXCEPT ![r] = NoView]
    /\ UNCHANGED <<files, index, chain, orphanLock, lock, pc, snap, returned>>

(* It raises, or dies, perhaps with the journal's lock.                     *)
ReconcileFails(r) ==
    /\ seen[r].pc # "idle"
    /\ seen' = [seen EXCEPT ![r] = NoView]
    /\ orphanLock' \in {orphanLock, orphanLock \/ seen[r].pc = "write"}
    /\ UNCHANGED <<files, index, chain, journal, lock, pc, snap, returned>>

-----------------------------------------------------------------------------
Create(o) ==
    \/ ReadIndex(o) \/ Exclude(o) \/ LockChain(o) \/ Prepare(o)
    \/ RetainManifest(o) \/ MarkManifestRetained(o)
    \/ MarkCheckpointPrepared(o) \/ ChainSave(o) \/ MarkChainCommitted(o)
    \/ MarkCommitted(o) \/ JournalFails(o) \/ MarkAborted(o) \/ Crash(o)

Recover(r) == ReadJournal(r) \/ ReadChain(r) \/ Reconcile(r) \/ ReconcileFails(r)

Next ==
    \/ \E o \in Ops : Create(o)
    \/ \E r \in Recoverers : Recover(r)
    \/ \E a \in Evidence : Retain(a)
    \/ CollectOrphans

Spec == Init /\ [][Next]_vars

(* Operators run recovery again and again, and it is not always cut short.  *)
Fairness ==
    \A r \in Recoverers : /\ WF_vars(ReadJournal(r))
                          /\ SF_vars(ReadChain(r))
                          /\ SF_vars(Reconcile(r))

FairSpec == Spec /\ Fairness

-----------------------------------------------------------------------------
(* Properties.                                                              *)

(* The variables have their types.                                          *)
TypeOK ==
    /\ files \subseteq Artifacts
    /\ index \subseteq files
    /\ chain \in Seq(Entry)
    /\ journal \in [Ops -> JournalStatus]
    /\ orphanLock \in BOOLEAN
    /\ lock \in Ops \cup {Genesis}
    /\ pc \in [Ops -> Label]
    /\ snap \in [Ops -> Snapshot]
    /\ seen \in [Recoverers -> View]
    /\ returned \subseteq Ops

(* Journal and chain tell one story after any crash: the journal says that  *)
(* a checkpoint was committed only if the chain holds it, and the chain     *)
(* holds a checkpoint only if the journal knows its identity, without which *)
(* recovery could not match the two (CP-022).                               *)
JournalMatchesChain ==
    \A o \in Ops :
        /\ journal[o] \in {"chain_committed", "committed"} => o \in InChain
        /\ o \in InChain =>
               journal[o] \notin {"none", "prepared", "manifest_retained"}

(* The manifest of every checkpoint in the chain, and every artifact it     *)
(* lists, is in the store and indexed: neither a torn retain nor garbage    *)
(* collection, whenever it runs, takes evidence a checkpoint refers to.     *)
SnapshotAvailable ==
    \A o \in InChain : {o} \cup snap[o].arts \subseteq files \cap index

(* An auditor who kept a returned checkpoint as anchor is never told of a   *)
(* rollback by the chain as it is, and is told of one by every non-empty    *)
(* beginning of it that ends before the anchor.  (Of an empty chain         *)
(* detect_rollback says 'indeterminate'.)                                   *)
RollbackDetection ==
    \A o \in returned :
        /\ detect_rollback(chain, o) = "descendant"
        /\ \A k \in 1 .. Len(chain) :
              (\A i \in 1 .. k : chain[i].op # o) =>
                  detect_rollback(SubSeq(chain, 1, k), o) = "rollback"

(* The chain implements the abstract log.                                   *)
Log == INSTANCE CheckpointLog WITH log <- chain

ImplementsLog == Log!LogSpec

(* An operation whose creator died after it had recorded its checkpoint is  *)
(* settled by recovery, unless the journal's lock was left behind.          *)
PreparedSettles ==
    \A o \in Ops :
        (/\ pc[o] \in {"dead", "raised"}
         /\ journal[o] \in {"checkpoint_prepared", "chain_committed"})
            ~> (journal[o] \in {"committed", "aborted"} \/ orphanLock)

(* Refuted: a checkpoint that create_checkpoint made verifies against the   *)
(* store it was made from.                                                  *)
CheckpointVerifies == \A o \in InChain : verify_checkpoint(o)
=============================================================================
