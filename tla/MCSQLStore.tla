----------------------------- MODULE MCSQLStore -----------------------------
(* SQLStore on a small instance: two calls at once on two of everything    *)
(* that two calls can meet on.                                             *)
EXTENDS SQLStore, TLC

(* The names have no structure: any renaming of them is a symmetry.        *)
Renamings ==
    Permutations(Callers) \cup Permutations(UserIds) \cup Permutations(Emails)
        \cup Permutations(AccountIds) \cup Permutations(Stamps)
=============================================================================
