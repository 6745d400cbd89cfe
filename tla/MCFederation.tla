---------------------------- MODULE MCFederation ----------------------------
(* Two requests about one provider at a time, a generic one or one that is *)
(* registered, with a single flow pending.                                 *)
EXTENDS Federation, TLC

(* The names have no structure: any renaming of them is a symmetry.        *)
Renamings ==
    Permutations(Requests) \cup Permutations(UserIds) \cup Permutations(Emails)
        \cup Permutations(AccountIds) \cup Permutations(Tokens)
=============================================================================
