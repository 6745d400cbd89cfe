--------------------------- MODULE MCMemoryStore ---------------------------
(* MemoryStore on a small instance: two of everything two rows can share.  *)
EXTENDS MemoryStore, TLC

(* The ids have no structure: any renaming of them is a symmetry.          *)
IdSymmetry ==
    Permutations(UserIds) \cup Permutations(Emails) \cup Permutations(AccountIds)
        \cup Permutations(Tokens) \cup Permutations(Secrets)
============================================================================
