---------------------- MODULE EvidenceCheckpointProofs ----------------------
(***************************************************************************)
(* Proofs about EvidenceCheckpoint, for any number of operations,          *)
(* artifacts and recovering processes: type correctness, the agreement of  *)
(* journal and chain, the availability of snapshots, rollback detection,   *)
(* and that the chain implements the abstract CheckpointLog.               *)
(***************************************************************************)
EXTENDS EvidenceCheckpoint, TLAPS

Early == {"idle", "exclude", "lock", "prepare"}
Linked == {"prepare", "retain", "retained", "sign", "append"}
Holding == Linked \cup {"appended", "commit", "failing"}
Before == Early \cup Linked
Identified == {"checkpoint_prepared", "chain_committed", "committed", "aborted"}

(* Whoever is in the locked part holds the chain lock.                      *)
LockInv == \A o \in Ops : pc[o] \in Holding => lock = o

(* The link of a creator in the locked part is still the right one, and its *)
(* checkpoint enters the chain in ChainSave only.                           *)
LinkInv ==
    \A o \in Ops :
        /\ pc[o] \in Linked => snap[o].seq = Len(chain) + 1 /\ snap[o].prev = Latest
        /\ pc[o] \in Before => o \notin InChain
        /\ pc[o] \in {"appended", "commit"} => o \in InChain
        /\ o \in returned => o \in InChain

(* What a recoverer has read stays true of the chain.                       *)
ViewInv ==
    \A r \in Recoverers :
        /\ seen[r].chain \subseteq InChain
        /\ \A o \in Ops :
              /\ seen[r].journal[o] = "chain_committed" => o \in InChain
              /\ seen[r].journal[o] # "none" => pc[o] \notin Early

JournalInv ==
    \A o \in Ops :
        /\ pc[o] \in Early => journal[o] = "none"
        /\ pc[o] = "append" => journal[o] \in Identified
        /\ o \in InChain => journal[o] \in Identified
        /\ journal[o] \in {"chain_committed", "committed"} => o \in InChain

StoreInv ==
    \A o \in Ops :
        /\ snap[o].index \subseteq index
        /\ snap[o].arts \subseteq index
        /\ pc[o] \in {"retained", "sign", "append"} => o \in index
        /\ o \in InChain => o \in index

ChainInv == verify_checkpoint_chain(chain)

IInv == /\ TypeOK /\ LockInv /\ LinkInv /\ ViewInv /\ JournalInv /\ StoreInv
        /\ ChainInv

-----------------------------------------------------------------------------
(* The chain changes in ChainSave only, by one checkpoint at its end.       *)

LEMMA AppendExtends ==
    ASSUME TypeOK, NEW c \in Entry,
           chain' = Append(chain, c)
    PROVE  /\ InChain' = InChain \cup {c.op}
           /\ chain' \in Seq(Entry)
           /\ Len(chain') = Len(chain) + 1
           /\ \A i \in 1 .. Len(chain) : chain'[i] = chain[i]
           /\ chain'[Len(chain) + 1] = c
           /\ Latest' = c.op
<1>1. /\ chain' \in Seq(Entry)
      /\ Len(chain') = Len(chain) + 1
      /\ \A i \in 1 .. Len(chain) : chain'[i] = chain[i]
      /\ chain'[Len(chain) + 1] = c
      /\ Len(chain) \in Nat
  BY DEF TypeOK
<1>2. InChain' = InChain \cup {c.op}
  BY <1>1 DEF InChain
<1>3. Latest' = c.op
  BY <1>1 DEF Latest
<1> QED
  BY <1>1, <1>2, <1>3

LEMMA SameChain ==
    ASSUME UNCHANGED chain
    PROVE  InChain' = InChain /\ Latest' = Latest /\ (ChainInv <=> ChainInv')
BY DEF InChain, Latest, ChainInv, verify_checkpoint_chain

(* The actions in which creator o touches nothing but its own step, and     *)
(* those that leave the chain alone.                                        *)
LEMMA TypeStep == TypeOK /\ [Next]_vars => TypeOK'
<1> SUFFICES ASSUME TypeOK, [Next]_vars PROVE TypeOK'
  OBVIOUS
<1> USE DEF TypeOK
<1>1. ASSUME NEW o \in Ops, Create(o) PROVE TypeOK'
  <2>0. snap[o] \in Snapshot
    OBVIOUS
  <2>1. CASE ReadIndex(o)
    <3>1. [snap[o] EXCEPT !.index = index] \in Snapshot
      BY <2>0 DEF Snapshot
    <3> QED
      BY <2>1, <3>1 DEF ReadIndex, Goto, Label
  <2>2. CASE Exclude(o)
    <3> DEFINE arts == {a \in snap[o].index : a \in Ops => journal[a] # "aborted"}
    <3>1. arts \in SUBSET Artifacts
      BY <2>0 DEF Snapshot
    <3>2. [snap[o] EXCEPT !.arts = arts] \in Snapshot
      <4> HIDE DEF arts
      <4> QED
        BY <2>0, <3>1 DEF Snapshot
    <3> QED
      BY <2>2, <3>2 DEF Exclude, Goto, Label
  <2>3. CASE LockChain(o)
    <3>1. Len(chain) + 1 \in Nat /\ Latest \in Ops \cup {Genesis}
      <4>1. CASE chain = << >>
        BY <4>1 DEF Latest
      <4>2. CASE chain # << >>
        <5>1. Len(chain) \in 1 .. Len(chain)
          BY <4>2
        <5>2. chain[Len(chain)] \in Entry
          BY <5>1
        <5> QED
          BY <4>2, <5>2 DEF Latest, Entry
      <4> QED
        BY <4>1, <4>2
    <3>2. [snap[o] EXCEPT !.seq = Len(chain) + 1, !.prev = Latest] \in Snapshot
      BY <2>0, <3>1 DEF Snapshot
    <3> QED
      BY <2>3, <3>2 DEF LockChain, Goto, Label
  <2>4. CASE Prepare(o)
    BY <2>4 DEF Prepare, Mark, Goto, Label, JournalStatus
  <2>5. CASE RetainManifest(o)
    BY <2>5 DEF RetainManifest, Stored, Torn, Goto, Label, Artifacts
  <2>6. CASE MarkManifestRetained(o)
    BY <2>6 DEF MarkManifestRetained, Mark, Goto, Label, JournalStatus
  <2>7. CASE MarkCheckpointPrepared(o)
    BY <2>7 DEF MarkCheckpointPrepared, Mark, Goto, Label, JournalStatus
  <2>8. CASE ChainSave(o)
    <3> DEFINE c == [op |-> o, seq |-> snap[o].seq, prev |-> snap[o].prev]
    <3>1. c \in Entry
      BY <2>0 DEF Entry, Snapshot
    <3>2. CASE chain' = Append(chain, c)
      <4> HIDE DEF c
      <4>1. chain' \in Seq(Entry)
        BY <3>1, <3>2
      <4> QED
        BY <2>8, <4>1 DEF ChainSave, Goto, Label
    <3>3. CASE UNCHANGED chain
      BY <2>8, <3>3 DEF ChainSave, Goto, Label
    <3> QED
      BY <2>8, <3>2, <3>3 DEF ChainSave
  <2>9. CASE MarkChainCommitted(o)
    BY <2>9 DEF MarkChainCommitted, Mark, Goto, Label, JournalStatus
  <2>10. CASE MarkCommitted(o)
    BY <2>10 DEF MarkCommitted, Mark, Goto, Label, JournalStatus
  <2>11. CASE JournalFails(o)
    BY <2>11 DEF JournalFails, Goto, Label
  <2>12. CASE MarkAborted(o)
    BY <2>12 DEF MarkAborted, Mark, Goto, Label, JournalStatus
  <2>13. CASE Crash(o)
    BY <2>13 DEF Crash, Goto, Label
  <2> QED
    BY <1>1, <2>1, <2>2, <2>3, <2>4, <2>5, <2>6, <2>7, <2>8, <2>9, <2>10,
       <2>11, <2>12, <2>13 DEF Create
<1>2. ASSUME NEW r \in Recoverers, Recover(r) PROVE TypeOK'
  <2>0. seen[r] \in View /\ NoView \in View
    BY DEF View, NoView, JournalStatus
  <2>1. CASE ReadJournal(r)
    <3>1. [seen[r] EXCEPT !.pc = "chain", !.journal = journal] \in View
      BY <2>0 DEF View
    <3> QED
      BY <2>1, <3>1 DEF ReadJournal
  <2>2. CASE ReadChain(r)
    <3>1. InChain \subseteq Ops
      <4>1. \A i \in 1 .. Len(chain) : chain[i] \in Entry
        OBVIOUS
      <4> QED
        BY <4>1 DEF InChain, Entry
    <3>2. [seen[r] EXCEPT !.pc = "write", !.chain = InChain] \in View
      BY <2>0, <3>1 DEF View
    <3> QED
      BY <2>2, <3>2 DEF ReadChain
  <2>3. CASE Reconcile(r)
    BY <2>0, <2>3 DEF Reconcile, Reconciled, JournalStatus
  <2>4. CASE ReconcileFails(r)
    BY <2>0, <2>4 DEF ReconcileFails
  <2> QED
    BY <1>2, <2>1, <2>2, <2>3, <2>4 DEF Recover
<1>3. ASSUME NEW a \in Evidence, Retain(a) PROVE TypeOK'
  BY <1>3 DEF Retain, Stored, Torn, Artifacts
<1>4. CASE CollectOrphans
  BY <1>4 DEF CollectOrphans, find_orphaned
<1>5. CASE UNCHANGED vars
  BY <1>5 DEF vars
<1> QED
  BY <1>1, <1>2, <1>3, <1>4, <1>5 DEF Next

(* Creators exclude each other.                                              *)
LEMMA LockStep == IInv /\ [Next]_vars => LockInv'
<1> SUFFICES ASSUME IInv, [Next]_vars PROVE LockInv'
  OBVIOUS
<1> USE DEF IInv, TypeOK, LockInv, Holding, Linked
<1>1. ASSUME NEW p \in Ops, Create(p) PROVE LockInv'
  <2>1. CASE ReadIndex(p) \/ Exclude(p) \/ Prepare(p) \/ RetainManifest(p)
           \/ MarkManifestRetained(p) \/ MarkCheckpointPrepared(p)
           \/ ChainSave(p) \/ MarkChainCommitted(p)
    BY <2>1, EvidenceAssumption DEF ReadIndex, Exclude, Prepare,
       RetainManifest, MarkManifestRetained, MarkCheckpointPrepared,
       ChainSave, MarkChainCommitted, Mark, Stored, Torn, Goto
  <2>2. CASE LockChain(p)
    BY <2>2, EvidenceAssumption DEF LockChain, LockFree, Goto
  <2>3. CASE MarkCommitted(p) \/ JournalFails(p) \/ MarkAborted(p)
           \/ Crash(p)
    BY <2>3, EvidenceAssumption DEF MarkCommitted, JournalFails, MarkAborted,
       Crash, Mark, Goto
  <2> QED
    BY <1>1, <2>1, <2>2, <2>3 DEF Create
<1>2. ASSUME NEW r \in Recoverers, Recover(r) PROVE LockInv'
  BY <1>2, EvidenceAssumption DEF Recover, ReadJournal, ReadChain, Reconcile,
     ReconcileFails
<1>3. ASSUME NEW a \in Evidence, Retain(a) PROVE LockInv'
  BY <1>3, EvidenceAssumption DEF Retain, Stored, Torn
<1>4. CASE CollectOrphans
  BY <1>4, EvidenceAssumption DEF CollectOrphans, find_orphaned
<1>5. CASE UNCHANGED vars
  BY <1>5, EvidenceAssumption DEF vars
<1> QED
  BY <1>1, <1>2, <1>3, <1>4, <1>5 DEF Next

(* The lock keeps the link of its holder right.                              *)
LEMMA LinkStep == IInv /\ [Next]_vars => LinkInv'
<1> SUFFICES ASSUME IInv, [Next]_vars PROVE LinkInv'
  OBVIOUS
<1> USE DEF IInv, TypeOK, LinkInv, Before, Early, Linked
<1>1. ASSUME NEW p \in Ops, Create(p) PROVE LinkInv'
  <2>1. CASE ReadIndex(p) \/ Exclude(p) \/ Prepare(p) \/ RetainManifest(p)
           \/ MarkManifestRetained(p) \/ MarkCheckpointPrepared(p)
           \/ MarkChainCommitted(p) \/ JournalFails(p) \/ MarkAborted(p)
           \/ Crash(p)
    BY <2>1, SameChain DEF ReadIndex, Exclude, Prepare, RetainManifest,
       MarkManifestRetained, MarkCheckpointPrepared, MarkChainCommitted,
       JournalFails, MarkAborted, Crash, Mark, Stored, Torn, Goto
  <2>2. CASE LockChain(p)
    <3>1. CASE verify_checkpoint_chain(chain)
      <4>1. snap'[p] = [snap[p] EXCEPT !.seq = Len(chain) + 1, !.prev = Latest]
        BY <2>2, <3>1 DEF LockChain
      <4>2. snap'[p].seq = Len(chain) + 1 /\ snap'[p].prev = Latest
        BY <4>1 DEF Snapshot
      <4> QED
        BY <2>2, <3>1, <4>2, SameChain DEF LockChain, Goto
    <3>2. CASE ~verify_checkpoint_chain(chain)
      BY <2>2, <3>2, SameChain DEF LockChain, Goto
    <3> QED
      BY <3>1, <3>2
  <2>3. CASE ChainSave(p)
    <3> DEFINE c == [op |-> p, seq |-> snap[p].seq, prev |-> snap[p].prev]
    <3>1. c \in Entry
      BY DEF Entry, Snapshot
    <3>2. CASE chain' = Append(chain, c)
      <4>1. InChain' = InChain \cup {p}
        BY <3>1, <3>2, AppendExtends
      <4> QED
        BY <2>3, <4>1 DEF ChainSave, Goto, LockInv, Holding
    <3>3. CASE UNCHANGED chain
      BY <2>3, <3>3, SameChain DEF ChainSave, Goto
    <3> QED
      BY <2>3, <3>2, <3>3 DEF ChainSave
  <2>4. CASE MarkCommitted(p)
    BY <2>4, SameChain DEF MarkCommitted, Mark, Goto
  <2> QED
    BY <1>1, <2>1, <2>2, <2>3, <2>4 DEF Create
<1>2. ASSUME NEW r \in Recoverers, Recover(r) PROVE LinkInv'
  BY <1>2, SameChain DEF Recover, ReadJournal, ReadChain, Reconcile,
     ReconcileFails
<1>3. ASSUME NEW a \in Evidence, Retain(a) PROVE LinkInv'
  BY <1>3, SameChain DEF Retain, Stored, Torn
<1>4. CASE CollectOrphans
  BY <1>4, SameChain DEF CollectOrphans, find_orphaned
<1>5. CASE UNCHANGED vars
  BY <1>5, SameChain DEF vars
<1> QED
  BY <1>1, <1>2, <1>3, <1>4, <1>5 DEF Next

(* What was read of the chain and the journal is not undone.                 *)
LEMMA ViewStep == IInv /\ [Next]_vars => ViewInv'
<1> SUFFICES ASSUME IInv, [Next]_vars PROVE ViewInv'
  OBVIOUS
<1> USE DEF IInv, TypeOK, ViewInv, Early
<1>1. ASSUME NEW p \in Ops, Create(p) PROVE ViewInv'
  <2>1. CASE ReadIndex(p) \/ Exclude(p) \/ LockChain(p) \/ Prepare(p)
           \/ RetainManifest(p) \/ MarkManifestRetained(p)
           \/ MarkCheckpointPrepared(p) \/ MarkChainCommitted(p)
           \/ MarkCommitted(p) \/ JournalFails(p) \/ MarkAborted(p)
           \/ Crash(p)
    BY <2>1, SameChain DEF ReadIndex, Exclude, LockChain, Prepare,
       RetainManifest, MarkManifestRetained, MarkCheckpointPrepared,
       MarkChainCommitted, MarkCommitted, JournalFails, MarkAborted, Crash,
       Mark, Stored, Torn, LockFree, Goto
  <2>2. CASE ChainSave(p)
    <3> DEFINE c == [op |-> p, seq |-> snap[p].seq, prev |-> snap[p].prev]
    <3>1. c \in Entry
      BY DEF Entry, Snapshot
    <3>2. CASE chain' = Append(chain, c)
      <4>1. InChain' = InChain \cup {p}
        BY <3>1, <3>2, AppendExtends
      <4> QED
        BY <2>2, <4>1 DEF ChainSave, Goto
    <3>3. CASE UNCHANGED chain
      BY <2>2, <3>3, SameChain DEF ChainSave, Goto
    <3> QED
      BY <2>2, <3>2, <3>3 DEF ChainSave
  <2> QED
    BY <1>1, <2>1, <2>2 DEF Create
<1>2. ASSUME NEW r \in Recoverers, Recover(r) PROVE ViewInv'
  <2>0. seen[r] \in View /\ UNCHANGED <<chain, pc>>
    BY <1>2 DEF Recover, ReadJournal, ReadChain, Reconcile, ReconcileFails
  <2>1. CASE ReadJournal(r)
    <3>1. seen'[r].chain = seen[r].chain /\ seen'[r].journal = journal
      BY <2>0, <2>1 DEF ReadJournal, View
    <3> QED
      BY <2>0, <2>1, <3>1, SameChain DEF ReadJournal, JournalInv
  <2>2. CASE ReadChain(r)
    <3>1. seen'[r].chain = InChain /\ seen'[r].journal = seen[r].journal
      BY <2>0, <2>2 DEF ReadChain, View
    <3> QED
      BY <2>0, <2>2, <3>1, SameChain DEF ReadChain
  <2>3. CASE Reconcile(r) \/ ReconcileFails(r)
    <3>1. seen'[r].chain = {} /\ \A o \in Ops : seen'[r].journal[o] = "none"
      BY <2>0, <2>3 DEF Reconcile, ReconcileFails, NoView
    <3> QED
      BY <2>0, <2>3, <3>1, SameChain DEF Reconcile, ReconcileFails
  <2> QED
    BY <1>2, <2>1, <2>2, <2>3 DEF Recover
<1>3. ASSUME NEW a \in Evidence, Retain(a) PROVE ViewInv'
  BY <1>3, SameChain DEF Retain, Stored, Torn
<1>4. CASE CollectOrphans
  BY <1>4, SameChain DEF CollectOrphans, find_orphaned
<1>5. CASE UNCHANGED vars
  BY <1>5, SameChain DEF vars
<1> QED
  BY <1>1, <1>2, <1>3, <1>4, <1>5 DEF Next

(* Journal and chain move together, whatever recovery writes.                *)
LEMMA JournalStep == IInv /\ [Next]_vars => JournalInv'
<1> SUFFICES ASSUME IInv, [Next]_vars PROVE JournalInv'
  OBVIOUS
<1> USE DEF IInv, TypeOK, JournalInv, Early, Identified, LinkInv, Before,
            Linked
<1>1. ASSUME NEW p \in Ops, Create(p) PROVE JournalInv'
  <2>1. CASE ReadIndex(p) \/ Exclude(p) \/ LockChain(p)
           \/ RetainManifest(p) \/ JournalFails(p) \/ Crash(p)
    BY <2>1, SameChain DEF ReadIndex, Exclude, LockChain, RetainManifest,
       JournalFails, Crash, Stored, Torn, LockFree, Goto
  <2>2. CASE Prepare(p) \/ MarkManifestRetained(p)
    BY <2>2, SameChain DEF Prepare, MarkManifestRetained, Mark, Goto
  <2>3. CASE ChainSave(p)
    <3> DEFINE c == [op |-> p, seq |-> snap[p].seq, prev |-> snap[p].prev]
    <3>1. c \in Entry
      BY DEF Entry, Snapshot
    <3>2. CASE chain' = Append(chain, c)
      <4>1. InChain' = InChain \cup {p}
        BY <3>1, <3>2, AppendExtends
      <4> QED
        BY <2>3, <4>1 DEF ChainSave, Goto
    <3>3. CASE UNCHANGED chain
      BY <2>3, <3>3, SameChain DEF ChainSave, Goto
    <3> QED
      BY <2>3, <3>2, <3>3 DEF ChainSave
  <2>4. CASE MarkCheckpointPrepared(p) \/ MarkChainCommitted(p)
           \/ MarkCommitted(p) \/ MarkAborted(p)
    BY <2>4, SameChain DEF MarkCheckpointPrepared, MarkChainCommitted,
       MarkCommitted, MarkAborted, Mark, Goto
  <2> QED
    BY <1>1, <2>1, <2>2, <2>3, <2>4 DEF Create
<1>2. ASSUME NEW r \in Recoverers, Recover(r) PROVE JournalInv'
  <2>1. CASE ReadJournal(r) \/ ReadChain(r) \/ ReconcileFails(r)
    BY <2>1, SameChain DEF ReadJournal, ReadChain, ReconcileFails
  <2>2. CASE Reconcile(r)
    <3> SUFFICES ASSUME NEW o \in Ops PROVE JournalInv!(o)'
      OBVIOUS
    <3>1. journal'[o] = Reconciled(o, seen[r])
      BY <2>2 DEF Reconcile
    <3>2. /\ journal'[o] \in {journal[o], "committed", "aborted"}
          /\ journal'[o] # journal[o] => seen[r].journal[o] # "none"
          /\ journal'[o] = "committed" => \/ journal[o] = "committed"
                                        \/ seen[r].journal[o] = "chain_committed"
                                        \/ o \in seen[r].chain
      BY <3>1 DEF Reconciled
    <3>3. UNCHANGED <<chain, pc>>
      BY <2>2 DEF Reconcile
    <3> QED
      BY <3>2, <3>3, SameChain DEF ViewInv
  <2> QED
    BY <1>2, <2>1, <2>2 DEF Recover
<1>3. ASSUME NEW a \in Evidence, Retain(a) PROVE JournalInv'
  BY <1>3, SameChain DEF Retain, Stored, Torn
<1>4. CASE CollectOrphans
  BY <1>4, SameChain DEF CollectOrphans, find_orphaned
<1>5. CASE UNCHANGED vars
  BY <1>5, SameChain DEF vars
<1> QED
  BY <1>1, <1>2, <1>3, <1>4, <1>5 DEF Next

(* Nothing leaves the index, and only what it lacks leaves the store.        *)
LEMMA StoreStep == IInv /\ [Next]_vars => StoreInv'
<1> SUFFICES ASSUME IInv, [Next]_vars PROVE StoreInv'
  OBVIOUS
<1> USE DEF IInv, TypeOK, StoreInv
<1>1. ASSUME NEW p \in Ops, Create(p) PROVE StoreInv'
  <2>1. CASE Prepare(p) \/ RetainManifest(p) \/ MarkManifestRetained(p)
           \/ MarkCheckpointPrepared(p) \/ MarkChainCommitted(p)
           \/ MarkCommitted(p) \/ JournalFails(p) \/ MarkAborted(p)
           \/ Crash(p)
    BY <2>1, SameChain DEF Prepare, RetainManifest, MarkManifestRetained,
       MarkCheckpointPrepared, MarkChainCommitted, MarkCommitted,
       JournalFails, MarkAborted, Crash, Mark, Stored, Torn, Goto
  <2>2. CASE ReadIndex(p)
    BY <2>2, SameChain DEF ReadIndex, Goto
  <2>3. CASE Exclude(p)
    BY <2>3, SameChain DEF Exclude, Goto
  <2>4. CASE LockChain(p)
    <3>1. CASE verify_checkpoint_chain(chain)
      <4>1. snap'[p] = [snap[p] EXCEPT !.seq = Len(chain) + 1, !.prev = Latest]
        BY <2>4, <3>1 DEF LockChain
      <4>2. snap'[p].index = snap[p].index /\ snap'[p].arts = snap[p].arts
        BY <4>1 DEF Snapshot
      <4> QED
        BY <2>4, <3>1, <4>2, SameChain DEF LockChain, Goto
    <3>2. CASE ~verify_checkpoint_chain(chain)
      BY <2>4, <3>2, SameChain DEF LockChain, Goto
    <3> QED
      BY <3>1, <3>2
  <2>5. CASE ChainSave(p)
    <3> DEFINE c == [op |-> p, seq |-> snap[p].seq, prev |-> snap[p].prev]
    <3>1. c \in Entry
      BY DEF Entry, Snapshot
    <3>2. CASE chain' = Append(chain, c)
      <4>1. InChain' = InChain \cup {p}
        BY <3>1, <3>2, AppendExtends
      <4> QED
        BY <2>5, <4>1 DEF ChainSave, Goto
    <3>3. CASE UNCHANGED chain
      BY <2>5, <3>3, SameChain DEF ChainSave, Goto
    <3> QED
      BY <2>5, <3>2, <3>3 DEF ChainSave
  <2> QED
    BY <1>1, <2>1, <2>2, <2>3, <2>4, <2>5 DEF Create
<1>2. ASSUME NEW r \in Recoverers, Recover(r) PROVE StoreInv'
  BY <1>2, SameChain DEF Recover, ReadJournal, ReadChain, Reconcile,
     ReconcileFails
<1>3. ASSUME NEW a \in Evidence, Retain(a) PROVE StoreInv'
  BY <1>3, SameChain DEF Retain, Stored, Torn
<1>4. CASE CollectOrphans
  BY <1>4, SameChain DEF CollectOrphans, find_orphaned
<1>5. CASE UNCHANGED vars
  BY <1>5, SameChain DEF vars
<1> QED
  BY <1>1, <1>2, <1>3, <1>4, <1>5 DEF Next

(* ChainSave keeps the chain verifiable; nothing else changes it.           *)
LEMMA ChainStep == IInv /\ [Next]_vars => ChainInv'
<1> SUFFICES ASSUME IInv, [Next]_vars PROVE ChainInv'
  OBVIOUS
<1> USE DEF IInv
<1>1. ASSUME NEW p \in Ops, ChainSave(p) PROVE ChainInv'
  <2> DEFINE c == [op |-> p, seq |-> snap[p].seq, prev |-> snap[p].prev]
  <2>1. c \in Entry
    BY DEF Entry, Snapshot, TypeOK
  <2>2. c.op = p /\ c.seq = Len(chain) + 1 /\ c.prev = Latest
    BY <1>1 DEF ChainSave, LinkInv, Linked
  <2>3. CASE chain' = Append(chain, c)
    <3> HIDE DEF c
    <3>1. /\ Len(chain) \in Nat
          /\ Len(chain') = Len(chain) + 1
          /\ \A i \in 1 .. Len(chain) : chain'[i] = chain[i]
          /\ chain'[Len(chain) + 1] = c
      BY <2>1, <2>3, AppendExtends DEF TypeOK
    <3>2. Latest = IF Len(chain) = 0 THEN Genesis ELSE chain[Len(chain)].op
      BY DEF Latest, TypeOK
    <3> SUFFICES ASSUME NEW i \in 1 .. Len(chain')
                 PROVE  /\ chain'[i].seq = i
                        /\ chain'[i].prev =
                              (IF i = 1 THEN Genesis ELSE chain'[i - 1].op)
      BY DEF ChainInv, verify_checkpoint_chain
    <3>3. CASE i \in 1 .. Len(chain)
      <4>1. /\ chain[i].seq = i
            /\ chain[i].prev = (IF i = 1 THEN Genesis ELSE chain[i - 1].op)
        BY <3>3 DEF ChainInv, verify_checkpoint_chain
      <4>2. i # 1 => i - 1 \in 1 .. Len(chain)
        BY <3>1, <3>3
      <4> QED
        BY <3>1, <3>3, <4>1, <4>2
    <3>4. CASE i = Len(chain) + 1
      <4>1. i # 1 => i - 1 \in 1 .. Len(chain) /\ i - 1 = Len(chain)
        BY <3>1, <3>4
      <4> QED
        BY <2>2, <3>1, <3>2, <3>4, <4>1
    <3> QED
      BY <3>1, <3>3, <3>4
  <2>4. CASE UNCHANGED chain
    BY <2>4, SameChain
  <2> QED
    BY <1>1, <2>3, <2>4 DEF ChainSave
<1>2. ASSUME ~\E p \in Ops : ChainSave(p) PROVE UNCHANGED chain
  BY <1>2 DEF Next, Create, ReadIndex, Exclude, LockChain, Prepare,
     RetainManifest, MarkManifestRetained, MarkCheckpointPrepared,
     MarkChainCommitted, MarkCommitted, JournalFails, MarkAborted, Crash, Mark,
     Recover, ReadJournal, ReadChain, Reconcile, ReconcileFails, Retain,
     CollectOrphans, vars
<1> QED
  BY <1>1, <1>2, SameChain

LEMMA InitInvariant == Init => IInv
<1> SUFFICES ASSUME Init PROVE IInv
  OBVIOUS
<1> USE DEF Init
<1>1. NoSnap \in Snapshot /\ NoView \in View
  BY DEF NoSnap, NoView, Snapshot, View, JournalStatus
<1>2. TypeOK
  <2>1. journal \in [Ops -> JournalStatus] /\ pc \in [Ops -> Label]
    BY DEF JournalStatus, Label
  <2>2. snap \in [Ops -> Snapshot] /\ seen \in [Recoverers -> View]
    BY <1>1
  <2>3. chain \in Seq(Entry)
    OBVIOUS
  <2> QED
    BY <2>1, <2>2, <2>3 DEF TypeOK
<1>3. InChain = {} /\ ChainInv
  BY DEF InChain, ChainInv, verify_checkpoint_chain
<1>4. LockInv /\ LinkInv
  BY <1>3 DEF LockInv, LinkInv, Holding, Linked, Before, Early
<1>5. ViewInv /\ JournalInv
  <2>1. \A r \in Recoverers : /\ seen[r].chain = {}
                              /\ \A o \in Ops : seen[r].journal[o] = "none"
    BY DEF NoView
  <2> QED
    BY <1>3, <2>1 DEF ViewInv, JournalInv, Early
<1>6. StoreInv
  BY <1>3 DEF StoreInv, NoSnap
<1> QED
  BY <1>2, <1>3, <1>4, <1>5, <1>6 DEF IInv

-----------------------------------------------------------------------------
(* The inductive invariant holds in every reachable state.                  *)
THEOREM Invariant == Spec => []IInv
<1>1. Init => IInv
  BY InitInvariant
<1>2. IInv /\ [Next]_vars => IInv'
  BY TypeStep, LockStep, LinkStep, ViewStep, JournalStep, StoreStep, ChainStep
     DEF IInv
<1> QED
  BY <1>1, <1>2, PTL DEF Spec

(* The variables of create_checkpoint, its journal, chain and store, and of *)
(* the recovering processes keep their types; an indexed artifact is always *)
(* in the store.                                                            *)
THEOREM TypeCorrect == Spec => []TypeOK
<1>1. IInv => TypeOK
  BY DEF IInv
<1> QED
  BY <1>1, Invariant, PTL

(* Journal and chain agree after any crash, failed write or stale           *)
(* reconciliation, for any number of operations and recovering processes.   *)
THEOREM JournalChainAgreement == Spec => []JournalMatchesChain
<1>1. IInv => JournalMatchesChain
  BY DEF IInv, JournalInv, JournalMatchesChain, Identified
<1> QED
  BY <1>1, Invariant, PTL

(* Garbage collection and torn retains never take what a checkpoint in the  *)
(* chain refers to.                                                         *)
THEOREM SnapshotsStay == Spec => []SnapshotAvailable
<1>1. IInv => SnapshotAvailable
  <2> SUFFICES ASSUME IInv, NEW o \in InChain
               PROVE  {o} \cup snap[o].arts \subseteq files \cap index
    BY DEF SnapshotAvailable
  <2>1. o \in Ops
    <3>1. \A i \in 1 .. Len(chain) : chain[i] \in Entry
      BY DEF IInv, TypeOK
    <3> QED
      BY <3>1 DEF InChain, Entry
  <2> QED
    BY <2>1 DEF IInv, StoreInv, TypeOK
<1> QED
  BY <1>1, Invariant, PTL

(* detect_rollback answers "descendant" for every anchor a caller was given *)
(* and "rollback" for every non-empty chain cut before it.                  *)
THEOREM RollbackIsDetected == Spec => []RollbackDetection
<1>1. IInv => RollbackDetection
  <2> SUFFICES ASSUME IInv, NEW o \in returned
               PROVE  /\ detect_rollback(chain, o) = "descendant"
                      /\ \A k \in 1 .. Len(chain) :
                           (\A i \in 1 .. k : chain[i].op # o) =>
                             detect_rollback(SubSeq(chain, 1, k), o) = "rollback"
    BY DEF RollbackDetection
  <2>1. chain \in Seq(Entry) /\ verify_checkpoint_chain(chain)
    BY DEF IInv, TypeOK, ChainInv
  <2>2. \E i \in 1 .. Len(chain) : chain[i].op = o
    BY DEF IInv, TypeOK, LinkInv, InChain
  <2>3. chain # << >>
    BY <2>1, <2>2
  <2>4. detect_rollback(chain, o) = "descendant"
    BY <2>1, <2>2, <2>3 DEF detect_rollback
  <2>5. ASSUME NEW k \in 1 .. Len(chain), \A i \in 1 .. k : chain[i].op # o
        PROVE  detect_rollback(SubSeq(chain, 1, k), o) = "rollback"
    <3> DEFINE cut == SubSeq(chain, 1, k)
    <3>1. Len(cut) = k /\ \A i \in 1 .. k : cut[i] = chain[i]
      BY <2>1
    <3>2. cut # << >>
      BY <3>1
    <3>3. ~\E i \in 1 .. Len(cut) : cut[i].op = o
      BY <2>5, <3>1
    <3> HIDE DEF cut
    <3> QED
      BY <3>2, <3>3 DEF detect_rollback, cut
  <2> QED
    BY <2>4, <2>5
<1> QED
  BY <1>1, Invariant, PTL

-----------------------------------------------------------------------------
(* Refinement.  ChainSave is the only step that extends the log, and        *)
(* MarkCommitted the only one that returns a checkpoint; all others         *)
(* stutter.                                                                 *)

LEMMA SameLog == Log!Logged = InChain /\ Log!Latest = Latest
BY DEF Log!Logged, InChain, Log!Latest, Latest

LEMMA StepImplementsLog == IInv /\ [Next]_vars => [Log!LogNext]_Log!logVars
<1> SUFFICES ASSUME IInv, [Next]_vars PROVE [Log!LogNext]_Log!logVars
  OBVIOUS
<1> USE DEF IInv, Log!logVars
<1>1. ASSUME NEW p \in Ops, ChainSave(p) PROVE [Log!LogNext]_Log!logVars
  <2>1. CASE chain' = Append(chain, [op |-> p, seq |-> snap[p].seq,
                                     prev |-> snap[p].prev])
    <3>1. p \notin Log!Logged /\ snap[p].prev = Log!Latest
      BY <1>1, SameLog DEF ChainSave, LinkInv, Before, Linked
    <3>2. snap[p].seq = Len(chain) + 1
      BY <1>1 DEF ChainSave, LinkInv, Linked
    <3>3. Log!Extend(p)
      BY <1>1, <2>1, <3>1, <3>2 DEF ChainSave, Log!Extend
    <3> QED
      BY <3>3 DEF Log!LogNext
  <2>2. CASE UNCHANGED chain
    BY <1>1, <2>2 DEF ChainSave
  <2> QED
    BY <1>1, <2>1, <2>2 DEF ChainSave
<1>2. ASSUME NEW p \in Ops, MarkCommitted(p) PROVE [Log!LogNext]_Log!logVars
  <2>1. p \in Log!Logged
    BY <1>2, SameLog DEF MarkCommitted, Mark, LinkInv
  <2>2. Log!Return(p)
    BY <1>2, <2>1 DEF MarkCommitted, Mark, Log!Return
  <2> QED
    BY <2>2 DEF Log!LogNext
<1>3. ASSUME ~\E p \in Ops : ChainSave(p) \/ MarkCommitted(p)
      PROVE  UNCHANGED <<chain, returned>>
  BY <1>3 DEF Next, Create, ReadIndex, Exclude, LockChain, Prepare,
     RetainManifest, MarkManifestRetained, MarkCheckpointPrepared,
     MarkChainCommitted, JournalFails, MarkAborted, Crash, Mark,
     Recover, ReadJournal, ReadChain, Reconcile, ReconcileFails, Retain,
     CollectOrphans, vars
<1> QED
  BY <1>1, <1>2, <1>3

(* The four files, the crashes and the recoveries implement an append-only  *)
(* log of linked checkpoints that keeps whatever a caller was given.        *)
THEOREM ChainImplementsLog == Spec => ImplementsLog
<1>1. Init => Log!LogInit
  BY DEF Init, Log!LogInit
<1>2. IInv /\ [Next]_vars => [Log!LogNext]_Log!logVars
  BY StepImplementsLog
<1> QED
  BY <1>1, <1>2, Invariant, PTL DEF Spec, ImplementsLog, Log!LogSpec
=============================================================================
