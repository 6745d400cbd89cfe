------------------------------ MODULE MCLinking ------------------------------
(* Linking with two requests and two older users, one flow, two emails and  *)
(* one identity, under the default configuration and a permissive one.      *)
EXTENDS Linking, TLC

Symmetry == Permutations(Requests) \cup Permutations(Old) \cup Permutations(Emails)

Default ==
    [implicitLinking |-> TRUE, linking |-> TRUE, trusted |-> {},
     requireLocalEmailVerified |-> TRUE, allowDifferentEmails |-> FALSE,
     allowUnlinkingAll |-> FALSE, updateUserInfoOnLink |-> FALSE,
     updateAccountOnSignIn |-> TRUE, overrideUserInfo |-> FALSE]

Permissive ==
    [Default EXCEPT !.trusted = Identities, !.requireLocalEmailVerified = FALSE,
                    !.allowUnlinkingAll = TRUE, !.updateUserInfoOnLink = TRUE,
                    !.updateAccountOnSignIn = FALSE, !.overrideUserInfo = TRUE]

TwoConfigs == {Default, Permissive}
=============================================================================
