--------------------------- MODULE MCOrganizations ---------------------------
(* Two requests on an organization with two old rows a table, two users and *)
(* one dynamic role name.                                                   *)
EXTENDS Organizations, TLC

CONSTANTS u1, u2, o1, o2

Symmetry == Permutations(Requests)

Roles == {{"owner"}, {"member"}, {"helper"}}
Allowed == {{"member.update", "invitation.create"}}

OptionPairs == {[cancelOnReInvite |-> b, removeAllTeams |-> b] : b \in BOOLEAN}

Nothing == [n \in OldRows |-> None]
Member(u, value) == [org |-> First, user |-> u, role |-> value]
Invited(u, value, t) ==
    [org |-> First, email |-> u, role |-> value, team |-> t, status |-> "pending", lapsed |-> FALSE]
OneOwner == [member |-> [Nothing EXCEPT ![o1] = Member(u1, {"owner"})],
             invitation |-> Nothing, team |-> Nothing, role |-> Nothing]

(* Two owners; an owner and a helper with a dynamic role, a team; an owner  *)
(* and an invitation into a team; an owner and an invitation to own.        *)
FourBeginnings ==
    {[OneOwner EXCEPT !.member[o2] = Member(u2, {"owner"})],
     [OneOwner EXCEPT !.member[o2] = Member(u2, {"helper"}), !.team[o1] = First,
        !.role[o1] = [org |-> First, name |-> "helper",
                      permission |-> {"member.update", "invitation.create"}]],
     [OneOwner EXCEPT !.invitation[o1] = Invited(u2, {"member"}, o1), !.team[o1] = First],
     [OneOwner EXCEPT !.invitation[o1] = Invited(u2, {"owner"}, None)]}
=============================================================================
