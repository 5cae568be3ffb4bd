------------------------- MODULE MCSideEffectJournal -------------------------
(* Model-checking instance of SideEffectJournal: guarded processes are      *)
(* interchangeable, unguarded ones too, and keys, payloads and hashes.      *)
EXTENDS SideEffectJournal, TLC

Symmetry ==
    Permutations(Keys) \cup Permutations(Guarded) \cup Permutations(Procs \ Guarded)
        \cup Permutations(Payloads) \cup Permutations(Hashes)
=============================================================================
