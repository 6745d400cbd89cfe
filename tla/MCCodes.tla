------------------------------- MODULE MCCodes -------------------------------
(* Two requests, one user, two addresses and one number, from a mail box    *)
(* with at most one code, fresh or with all its guesses but one or all of   *)
(* them spent, and one signed link.                                         *)
EXTENDS Codes, TLC

CONSTANTS a, b, p

Symmetry == Permutations(Requests)

OptionSets ==
    {[signUp |-> s, revoke |-> s, direct |-> d, confirm |-> ~d] : s, d \in BOOLEAN}

SomeUser(verified, phone) ==
    [UserRow(a, verified, phone, phone # None /\ verified) EXCEPT !.password = OldUser]

(* The addresses are such that the change from a to b and the change from b *)
(* to a are written alike ("x@y.z" and "x@y.z-x@y.z" would be).            *)
MCText ==
    [i \in StoredId |-> IF i = Id("change-email", b, a) THEN Id("change-email", a, b) ELSE i]

Start1(id, u, n) == [id |-> id, guesses |-> n, lapsed |-> FALSE, links |-> {}, user |-> u]

Starts ==
    {Start1(Id("email-verification", a, None), SomeUser(FALSE, None), AllowedAttempts - 1),
     Start1(Id("sign-in", b, None), SomeUser(TRUE, None), 0),
     Start1(Id("forget-password", a, None), SomeUser(FALSE, None), AllowedAttempts),
     Start1(Id("change-email", b, a), SomeUser(TRUE, None), 0),
     Start1(Id("change-email", a, b), SomeUser(TRUE, None), 0),
     Start1(Id("phone", p, None), SomeUser(FALSE, None), 0),
     Start1(Id("phone", p, None), SomeUser(FALSE, p), 0),
     Start1(Id("phone-reset", p, None), SomeUser(TRUE, p), AllowedAttempts - 1),
     Start1(Id("magic-link", b, OldCode), SomeUser(TRUE, None), 0),
     Start1(Id("one-time", OldUser, OldCode), SomeUser(TRUE, None), 0),
     Start1(Id("trust-device", OldUser, OldCode), SomeUser(TRUE, None), 0),
     [Start1(None, SomeUser(TRUE, None), 0) EXCEPT !.links = {Link("confirm", a, b)}],
     [Start1(None, SomeUser(FALSE, None), 0) EXCEPT !.links = {Link("verify", a, a)}],
     [Start1(None, SomeUser(FALSE, None), 0) EXCEPT !.links = {Link("change", a, b)}]}
=============================================================================
