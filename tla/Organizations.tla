---------------------------- MODULE Organizations ----------------------------
(***************************************************************************)
(* The organization plugin (plugins/organization.go) over the extended     *)
(* rows of the store (store/memory/extstore.go, store/sql/extstore.go).    *)
(*                                                                         *)
(* A request is a process.  The reads a handler starts with are one        *)
(* action; each later read on which a decision hangs, and each write, is   *)
(* an action of its own, because nothing is locked from one store call to  *)
(* the next.  A request may end at any stage (Stop): a refusal, a hook or  *)
(* a limit of the application that says no, a store call that fails, or a  *)
(* server that stops.                                                      *)
(*                                                                         *)
(* A row is named by the request that makes it, OldRows were there before, *)
(* and the first organization is First.  A user stands for its email too.  *)
(* The creator role is its default, "owner".  Names, slugs, logos and      *)
(* metadata are left out (no property tells them apart), and so is the     *)
(* session's active organization: it only supplies organizationId when the *)
(* body has none.  An invitation names at most one team.                   *)
(***************************************************************************)
EXTENDS FiniteSets, Naturals

CONSTANTS Requests, OldRows, First, Users, None,
          RoleSets,        \* the role values members have: sets of role names
          CustomRoles,     \* names of dynamic roles
          PermissionSets,  \* what a dynamic role may allow
          MembershipLimit, InvitationLimit, MaximumTeams, MaximumRoles,
          OrganizationLimit, MaximumTeamMembers,  \* 0: no limit
          Adapters,        \* which stores an instance runs on
          Configs,         \* the options it runs with
          Beginnings       \* bound: the rows the first organization may start with

Orgs  == Requests \cup {First}
Names == Requests \cup OldRows

MemberRow     == [org : Orgs, user : Users, role : RoleSets]
InvitationRow == [org : Orgs, email : Users, role : RoleSets, team : Names \cup {None},
                  status : {"pending", "accepted", "rejected", "canceled"}, lapsed : BOOLEAN]
TeamMemberRow == [team : Names, user : Users]
RoleRow       == [org : Orgs, name : CustomRoles, permission : PermissionSets]
Call          == [org : Orgs, user : Users, by : Names \cup {None}, id : Names \cup {None},
                  role : RoleSets \cup {None}, team : Names \cup {None}, new : RoleRow \cup {None}]

ASSUME NameAssumption ==
    /\ First \notin Requests /\ Requests \cap OldRows = {}
    /\ None \notin Orgs \cup Names \cup Users
    /\ None \notin MemberRow /\ None \notin InvitationRow /\ None \notin TeamMemberRow
    /\ None \notin RoleRow /\ None \notin Call /\ None \notin RoleSets
ASSUME FiniteAssumption == IsFiniteSet(Requests) /\ IsFiniteSet(OldRows)

(* The creator role is one a member may have.                              *)
ASSUME RoleAssumption == {"owner"} \in RoleSets

ASSUME AdapterAssumption == Adapters \subseteq {"memory", "sql"}
ASSUME LimitAssumption ==
    /\ {MembershipLimit, InvitationLimit, MaximumTeams, MaximumRoles} \subseteq Nat \ {0}
    /\ {OrganizationLimit, MaximumTeamMembers} \subseteq Nat

(* What is there at first is the first organization's.                     *)
ASSUME BeginningAssumption ==
    \A b \in Beginnings, n \in OldRows :
       /\ b.member[n] \in {m \in MemberRow : m.org = First} \cup {None}
       /\ b.invitation[n] \in {i \in InvitationRow : i.org = First} \cup {None}
       /\ b.team[n] \in {First, None}
       /\ b.role[n] \in {d \in RoleRow : d.org = First} \cup {None}

VARIABLES
    adapter,
    options,     \* the two options that guards read
    orgs,        \* the organizations there are
    member,      \* member[n] : a row [org, user, role], or None
    invitation,  \* invitation[n] : a row [org, email, role, team, status, lapsed], or None
    team,        \* team[n] : the organization of a team, or None
    teamMember,  \* teamMember[n] : a row [team, user], or None
    role,        \* role[n] : a row [org, name, permission], or None
    pc,          \* how far a request got
    call,        \* what it was asked, and the row it has found
    vetted,      \* requests whose caller was an owner when the handler looked
                 \* (updaterIsCreator in the handlers)
    overtaken,   \* requests in flight while something they had read changed, and
                 \* role requests that began on an organization that was gone
    cut          \* organizations whose deletion did not run to its end

rows   == <<orgs, member, invitation, team, teamMember, role>>
ghosts == <<vetted, overtaken, cut>>
vars   == <<adapter, options, rows, pc, call, ghosts>>

StaticRoles == {"owner", "admin", "member"}
Permissions ==
    {"organization.update", "organization.delete", "member.create", "member.update",
     "member.delete", "invitation.create", "invitation.cancel", "team.create", "team.update",
     "team.delete", "ac.create", "ac.read", "ac.update", "ac.delete"}

(* defaultOrganizationRolePermissions *)
StaticPermissions(name) ==
    CASE name = "owner" -> Permissions
      [] name = "admin" -> Permissions \ {"organization.delete"}
      [] OTHER          -> {"ac.read"}

Purging == {"purgeMembers", "purgeInvitations", "purgeTeams", "purgeRoles"}
Joining == {"createMember", "checkJoin", "markAccepted", "join", "addToTeam", "add"}
Relying == {"findRoleTarget", "deleteMember", "setRole"}
Holding == {"checkJoin", "markAccepted", "join", "joinTeam", "dropMember", "reopen", "reject", "cancel"}
Stages  ==
    Purging \cup Joining \cup Relying \cup Holding \cup
    {"idle", "done", "defaultTeam", "creatorTeam", "dropTeam", "purgeTeamMembers", "dropOrg",
     "findPending", "resend", "cancelPending", "countInvitations", "createInvitation",
     "dropTeamMember", "findTarget", "countOwners", "deleteOrg", "createTeam",
     "addTeamMember", "undoAdd", "createRole", "updateRole", "deleteRole"}

Members(o)    == {n \in Names : member[n] # None /\ member[n].org = o}
MembershipsOf(u) == {n \in Names : member[n] # None /\ member[n].user = u}
RowsOf(o, u)  == {n \in Members(o) : member[n].user = u}
Owns(n)       == member[n] # None /\ "owner" \in member[n].role
Owners(o)     == {n \in Members(o) : Owns(n)}
InvitationsOf(o) == {n \in Names : invitation[n] # None /\ invitation[n].org = o}
Pending(o)    == {n \in InvitationsOf(o) : invitation[n].status = "pending" /\ ~invitation[n].lapsed}
TeamsOf(o)    == {n \in Names : team[n] = o}
OfTeam(t)     == {n \in Names : teamMember[n] # None /\ teamMember[n].team = t}
InTeam(t, u)  == {n \in Names : teamMember[n] = [team |-> t, user |-> u]}
RolesOf(o)    == {n \in Names : role[n] # None /\ role[n].org = o}
RoleNamed(o, name) == {n \in RolesOf(o) : role[n].name = name}

(* Any one role of the member allows it.                                   *)
organizationMemberHasPermissions(n, p) ==
    \E name \in member[n].role :
        \/ name \in StaticRoles /\ p \in StaticPermissions(name)
        \/ \E d \in RoleNamed(member[n].org, name) : p \in role[d].permission

organizationRoleExists(o, value) ==
    \A name \in value : name \in StaticRoles \/ RoleNamed(o, name) # {}

(* invitationTeamsBelongToOrg, and the same check in the other handlers.   *)
TeamBelongs(t, o) == t \in TeamsOf(o) \cup {None}

(* Limits that are off when they are 0.  A user who is in the team already *)
(* takes no place; an invitation has no user yet.                          *)
organizationLimitReached(u) ==
    OrganizationLimit > 0 /\ Cardinality(MembershipsOf(u)) >= OrganizationLimit
teamMemberLimitReached(t, u) ==
    /\ MaximumTeamMembers > 0 /\ t # None
    /\ InTeam(t, u) = {}
    /\ Cardinality(OfTeam(t)) >= MaximumTeamMembers

-----------------------------------------------------------------------------
(* A database with one organization: it has an owner, a user is a member   *)
(* once, role names are unique, and what rows name is there.               *)
Init ==
    /\ adapter \in Adapters
    /\ options \in Configs
    /\ orgs = {First}
    /\ \E b \in Beginnings :
          /\ member     = [n \in Names |-> IF n \in OldRows THEN b.member[n] ELSE None]
          /\ invitation = [n \in Names |-> IF n \in OldRows THEN b.invitation[n] ELSE None]
          /\ team       = [n \in Names |-> IF n \in OldRows THEN b.team[n] ELSE None]
          /\ role       = [n \in Names |-> IF n \in OldRows THEN b.role[n] ELSE None]
    /\ teamMember = [n \in Names |-> None]
    /\ Owners(First) # {} /\ \A u \in Users : Cardinality(RowsOf(First, u)) <= 1
    /\ \A n \in InvitationsOf(First) : TeamBelongs(invitation[n].team, First)
    /\ \A name \in CustomRoles : Cardinality(RoleNamed(First, name)) <= 1
    /\ \A n \in Members(First) : organizationRoleExists(First, member[n].role)
    /\ pc = [r \in Requests |-> "idle"]
    /\ call = [r \in Requests |-> None]
    /\ vetted = {} /\ overtaken = {} /\ cut = {}

Keep(r, c, stage) ==
    /\ pc' = [pc EXCEPT ![r] = stage]
    /\ call' = [call EXCEPT ![r] = c]
Begin(r, c, stage) == pc[r] = "idle" /\ Keep(r, c, stage)
Return(r)    == Keep(r, None, "done")
Go(r, stage) == pc' = [pc EXCEPT ![r] = stage] /\ UNCHANGED call

Ask(o, u) == [org |-> o, user |-> u, by |-> None, id |-> None, role |-> None, team |-> None,
              new |-> None]

Only(rest) == UNCHANGED rest /\ UNCHANGED <<adapter, options>>

(* The caller u is a member of o with permission p.  The handler looks the *)
(* member up by organization and user and takes the row it gets.           *)
Authorized(o, u, p) == \E n \in RowsOf(o, u) : organizationMemberHasPermissions(n, p)

Vet(r, n) == vetted' = IF Owns(n) THEN vetted \cup {r} ELSE vetted

(* What a write of r overtakes: requests other than r that are on o, are   *)
(* about to make u a member, rely on who the owners were, hold invitation  *)
(* i.                                                                      *)
Overtake(r, S)    == overtaken' = overtaken \cup (S \ {r})
InFlight(o)       == {q \in Requests : call[q] # None /\ call[q].org = o}
AboutToJoin(o, u) == {q \in InFlight(o) : pc[q] \in Joining /\ call[q].user = u}
RelyOnOwners(o)   == {q \in InFlight(o) : pc[q] \in Relying}
Deciding(i)       == {q \in Requests : call[q] # None /\ call[q].id = i /\ pc[q] \in Holding}
OvertakeOwners(r, n) == Overtake(r, IF Owns(n) THEN RelyOnOwners(member[n].org) ELSE {})

Without(row, S) == [n \in Names |-> IF n \in S THEN None ELSE row[n]]

-----------------------------------------------------------------------------
(* Bug form: the invitations of the organization are forgotten.            *)
DeleteOrganizationInMemory_Rows(r, o) ==
    /\ adapter = "memory"
    /\ orgs' = orgs \ {o}
    /\ member' = Without(member, Members(o))
    /\ team' = Without(team, TeamsOf(o))
    /\ role' = Without(role, RolesOf(o))
    /\ Return(r)
    /\ UNCHANGED invitation

(* The rows: DeleteOrganization and DeleteTeam are one critical section in *)
(* memory and several statements in SQL, where only the first one's error  *)
(* is looked at.  A DeleteTeam that undoes an insertion is not looked at   *)
(* at all: its first statement may fail and the handler goes on.           *)
DeleteOrganizationInMemory(r, o) ==
    /\ adapter = "memory"
    /\ orgs' = orgs \ {o}
    /\ member' = Without(member, Members(o))
    /\ invitation' = Without(invitation, InvitationsOf(o))
    /\ team' = Without(team, TeamsOf(o))
    /\ role' = Without(role, RolesOf(o))
    /\ Return(r)

DeleteOrganizationRow(r, o) ==
    /\ adapter = "sql"
    /\ orgs' = orgs \ {o}
    /\ Go(r, "purgeMembers")
    /\ UNCHANGED <<member, invitation, team, role>>

DeleteOrganization(r) ==
    /\ pc[r] \in {"deleteOrg", "dropOrg"}
    /\ call[r].org \in orgs
    /\ DeleteOrganizationInMemory(r, call[r].org) \/ DeleteOrganizationRow(r, call[r].org)
    /\ Overtake(r, InFlight(call[r].org))
    /\ Only(<<teamMember, vetted, cut>>)

(* The statements after the first; one that fails leaves its rows behind.  *)
Purge(r, stage, row, S) ==
    /\ pc[r] = stage
    /\ \/ row' = Without(row, S) /\ UNCHANGED cut
       \/ S # {} /\ cut' = cut \cup {call[r].org} /\ UNCHANGED row
    /\ Overtake(r, InFlight(call[r].org))

PurgeMembers(r) ==
    /\ Purge(r, "purgeMembers", member, Members(call[r].org))
    /\ Go(r, "purgeInvitations")
    /\ Only(<<orgs, invitation, team, teamMember, role, vetted>>)

PurgeInvitations(r) ==
    /\ Purge(r, "purgeInvitations", invitation, InvitationsOf(call[r].org))
    /\ Go(r, "purgeTeams")
    /\ Only(<<orgs, member, team, teamMember, role, vetted>>)

PurgeTeams(r) ==
    /\ Purge(r, "purgeTeams", team, TeamsOf(call[r].org))
    /\ Go(r, "purgeRoles")
    /\ Only(<<orgs, member, invitation, teamMember, role, vetted>>)

PurgeRoles(r) ==
    /\ Purge(r, "purgeRoles", role, RolesOf(call[r].org))
    /\ Return(r)
    /\ Only(<<orgs, member, invitation, team, teamMember, vetted>>)

(* call[r].team is the team; where a creation is undone, "dropMember" is   *)
(* next, otherwise the handler returns.                                    *)
AfterTeam(r) == IF call[r].org = r THEN Go(r, "dropMember") ELSE Return(r)

DeleteTeam(r) ==
    /\ pc[r] = "dropTeam"
    /\ \/ /\ team' = [team EXCEPT ![call[r].team] = None]
          /\ \/ /\ adapter = "memory"
                /\ teamMember' = Without(teamMember, OfTeam(call[r].team))
                /\ AfterTeam(r)
             \/ adapter = "sql" /\ Go(r, "purgeTeamMembers") /\ UNCHANGED teamMember
       \/ adapter = "sql" /\ AfterTeam(r) /\ UNCHANGED <<team, teamMember>>
    /\ Only(<<orgs, member, invitation, role, ghosts>>)

PurgeTeamMembers(r) ==
    /\ pc[r] = "purgeTeamMembers"
    /\ teamMember' = Without(teamMember, OfTeam(call[r].team)) \/ UNCHANGED teamMember
    /\ AfterTeam(r)
    /\ Only(<<orgs, member, invitation, team, role, ghosts>>)

-----------------------------------------------------------------------------
(* /organization/create: the row, the creator's membership, the default    *)
(* team and the creator in it; a failure undoes what was done before.      *)
CreateOrganization(r, u) ==
    /\ ~organizationLimitReached(u)
    /\ Begin(r, Ask(r, u), "createMember")
    /\ orgs' = orgs \cup {r}
    /\ Only(<<member, invitation, team, teamMember, role, ghosts>>)

InsertMember(r, value) ==
    member' = [member EXCEPT ![r] = [org |-> call[r].org, user |-> call[r].user, role |-> value]]

CreatorMember(r) ==
    /\ pc[r] = "createMember"
    /\ \/ /\ InsertMember(r, {"owner"})
          /\ Overtake(r, AboutToJoin(call[r].org, call[r].user))
          /\ Go(r, "defaultTeam")
       \/ Go(r, "dropOrg") /\ UNCHANGED <<member, overtaken>>
    /\ Only(<<orgs, invitation, team, teamMember, role, vetted, cut>>)

createDefaultOrganizationTeam(r) ==
    /\ pc[r] = "defaultTeam"
    /\ \/ Return(r) /\ UNCHANGED team
       \/ /\ team' = [team EXCEPT ![r] = r]
          /\ Keep(r, [call[r] EXCEPT !.team = r], "creatorTeam")
       \/ Go(r, "dropMember") /\ UNCHANGED team
    /\ Only(<<orgs, member, invitation, teamMember, role, ghosts>>)

InsertTeamMember(r) ==
    teamMember' = [teamMember EXCEPT ![r] = [team |-> call[r].team, user |-> call[r].user]]

CreatorTeamMember(r) ==
    /\ pc[r] = "creatorTeam"
    /\ \/ InsertTeamMember(r) /\ (Return(r) \/ Go(r, "dropTeam"))
       \/ Go(r, "dropTeam") /\ UNCHANGED teamMember
    /\ Only(<<orgs, member, invitation, team, role, ghosts>>)

(* The deletions that undo an insertion; their errors are not looked at.   *)
DropMember(r) ==
    /\ pc[r] = "dropMember"
    /\ \/ member' = Without(member, {r}) /\ OvertakeOwners(r, r)
       \/ UNCHANGED <<member, overtaken>>
    /\ Go(r, IF call[r].org = r THEN "dropOrg" ELSE "reopen")
    /\ Only(<<orgs, invitation, team, teamMember, role, vetted, cut>>)

-----------------------------------------------------------------------------
(* /organization/invite-member: e is the address, value the role, t the    *)
(* team.  Only an owner may invite an owner, and nobody invites a member.  *)
InviteMember(r, u, o, e, value, t) ==
    /\ \E n \in RowsOf(o, u) :
          /\ organizationMemberHasPermissions(n, "invitation.create")
          /\ "owner" \in value => Owns(n)
          /\ Vet(r, n)
    /\ organizationRoleExists(o, value)
    /\ o \in orgs
    /\ RowsOf(o, e) = {}
    /\ Begin(r, [Ask(o, e) EXCEPT !.role = value, !.team = t], "findPending")
    /\ Only(<<rows, overtaken, cut>>)

(* An address with a pending invitation: resend it, replace it, or refuse. *)
PendingInvitation(r) ==
    LET found == {n \in Pending(call[r].org) : invitation[n].email = call[r].user} IN
    /\ pc[r] = "findPending"
    /\ \/ found = {} /\ Go(r, "countInvitations")
       \/ /\ options.cancelOnReInvite
          /\ \E n \in found : Keep(r, [call[r] EXCEPT !.id = n], "cancelPending")
       \/ \E n \in found : Keep(r, [call[r] EXCEPT !.id = n], "resend")
    /\ Only(<<rows, ghosts>>)

UpdateInvitationExpiresAt(r) ==
    /\ pc[r] = "resend" /\ invitation[call[r].id] # None
    /\ invitation' = [invitation EXCEPT ![call[r].id].lapsed = FALSE]
    /\ Return(r)
    /\ Only(<<orgs, member, team, teamMember, role, ghosts>>)

UpdateInvitationStatus(i, status) ==
    /\ invitation[i] # None
    /\ invitation' = [invitation EXCEPT ![i].status = status]

CancelPending(r) ==
    LET i == call[r].id IN
    /\ pc[r] = "cancelPending"
    /\ UpdateInvitationStatus(i, "canceled")
    /\ Overtake(r, Deciding(i))
    /\ Keep(r, [call[r] EXCEPT !.id = None], "countInvitations")
    /\ Only(<<orgs, member, team, teamMember, role, vetted, cut>>)

organizationInvitationLimit(r) ==
    /\ pc[r] = "countInvitations"
    /\ Cardinality(Pending(call[r].org)) < InvitationLimit
    /\ TeamBelongs(call[r].team, call[r].org)
    /\ ~teamMemberLimitReached(call[r].team, None)
    /\ Go(r, "createInvitation")
    /\ Only(<<rows, ghosts>>)

CreateInvitation(r) ==
    /\ pc[r] = "createInvitation"
    /\ invitation' = [invitation EXCEPT ![r] =
           [org |-> call[r].org, email |-> call[r].user, role |-> call[r].role,
            team |-> call[r].team, status |-> "pending", lapsed |-> FALSE]]
    /\ Return(r)
    /\ Only(<<orgs, member, team, teamMember, role, ghosts>>)

-----------------------------------------------------------------------------
(* Bug form: the status of the invitation is not looked at.                *)
ForAddressee_AnyStatus(i, u) == invitation[i].email = u

(* /organization/accept-invitation, by the addressee.                      *)
ForAddressee(i, u) == i \in Pending(invitation[i].org) /\ invitation[i].email = u

AcceptInvitation(r, u, i) ==
    /\ invitation[i] # None /\ ForAddressee(i, u)
    /\ Begin(r, [Ask(invitation[i].org, u) EXCEPT !.id = i, !.role = invitation[i].role,
                                                 !.team = invitation[i].team], "checkJoin")
    /\ Only(<<rows, ghosts>>)

(* Bug form: who is a member already may join once more.                   *)
MayJoin_Again(o, u, t) ==
    /\ o \in orgs
    /\ Cardinality(Members(o)) < MembershipLimit
    /\ TeamBelongs(t, o) /\ ~teamMemberLimitReached(t, u)

(* The organization is there, the user is not a member, there is room.     *)
MayJoin(o, u, t) ==
    /\ o \in orgs
    /\ RowsOf(o, u) = {}
    /\ Cardinality(Members(o)) < MembershipLimit
    /\ TeamBelongs(t, o) /\ ~teamMemberLimitReached(t, u)

AcceptCheck(r) ==
    /\ pc[r] = "checkJoin"
    /\ MayJoin(call[r].org, call[r].user, call[r].team)
    /\ Go(r, "markAccepted")
    /\ Only(<<rows, ghosts>>)

MarkAccepted(r) ==
    /\ pc[r] = "markAccepted"
    /\ UpdateInvitationStatus(call[r].id, "accepted")
    /\ Overtake(r, Deciding(call[r].id))
    /\ Go(r, "join")
    /\ Only(<<orgs, member, team, teamMember, role, vetted, cut>>)

AcceptJoin(r) ==
    /\ pc[r] = "join"
    /\ \/ /\ InsertMember(r, call[r].role)
          /\ Overtake(r, AboutToJoin(call[r].org, call[r].user))
          /\ IF call[r].team = None THEN Return(r) ELSE Go(r, "joinTeam")
       \/ Go(r, "reopen") /\ UNCHANGED <<member, overtaken>>
    /\ Only(<<orgs, invitation, team, teamMember, role, vetted, cut>>)

createInvitationTeamMemberships(r) ==
    /\ pc[r] = "joinTeam"
    /\ \/ InTeam(call[r].team, call[r].user) # {} /\ Return(r) /\ UNCHANGED teamMember
       \/ /\ InTeam(call[r].team, call[r].user) = {}
          /\ \/ InsertTeamMember(r) /\ Return(r)
             \/ Go(r, "dropMember") /\ UNCHANGED teamMember
    /\ Only(<<orgs, member, invitation, team, role, ghosts>>)

(* A failed acceptance makes the invitation pending again.                 *)
Reopen(r) ==
    /\ pc[r] = "reopen"
    /\ UpdateInvitationStatus(call[r].id, "pending") \/ UNCHANGED invitation
    /\ Overtake(r, Deciding(call[r].id))
    /\ Return(r)
    /\ Only(<<orgs, member, team, teamMember, role, vetted, cut>>)

(* /organization/reject-invitation, by the addressee of a pending one, and *)
(* /organization/cancel-invitation, which does not look at the status.     *)
RejectInvitation(r, u, i) ==
    /\ invitation[i] # None /\ ForAddressee(i, u)
    /\ invitation[i].org \in orgs
    /\ Begin(r, [Ask(invitation[i].org, u) EXCEPT !.id = i], "reject")
    /\ Only(<<rows, ghosts>>)

CancelInvitation(r, u, i) ==
    /\ invitation[i] # None
    /\ Authorized(invitation[i].org, u, "invitation.cancel")
    /\ invitation[i].org \in orgs
    /\ Begin(r, [Ask(invitation[i].org, u) EXCEPT !.id = i], "cancel")
    /\ Only(<<rows, ghosts>>)

Decline(r) ==
    /\ \/ pc[r] = "reject" /\ UpdateInvitationStatus(call[r].id, "rejected")
       \/ pc[r] = "cancel" /\ UpdateInvitationStatus(call[r].id, "canceled")
    /\ Overtake(r, Deciding(call[r].id))
    /\ Return(r)
    /\ Only(<<orgs, member, team, teamMember, role, vetted, cut>>)


-----------------------------------------------------------------------------
(* /organization/add-member, a route for the application's own server: no  *)
(* session and no permission.  The team row comes before the member row.   *)
AddMember(r, u, o, value, t) ==
    /\ MayJoin(o, u, t)
    /\ Begin(r, [Ask(o, u) EXCEPT !.role = value, !.team = t],
             IF t = None THEN "add" ELSE "addToTeam")
    /\ Only(<<rows, ghosts>>)

AddToTeam(r) ==
    /\ pc[r] = "addToTeam"
    /\ InsertTeamMember(r)
    /\ Go(r, "add")
    /\ Only(<<orgs, member, invitation, team, role, ghosts>>)

UndoTeam(r) == IF call[r].team = None THEN Return(r) ELSE Go(r, "dropTeamMember")

CreateMember(r) ==
    /\ pc[r] = "add"
    /\ \/ /\ InsertMember(r, call[r].role)
          /\ Overtake(r, AboutToJoin(call[r].org, call[r].user))
          /\ Return(r) \/ Go(r, "undoAdd")
       \/ UndoTeam(r) /\ UNCHANGED <<member, overtaken>>
    /\ Only(<<orgs, invitation, team, teamMember, role, vetted, cut>>)

UndoAdd(r) ==
    /\ pc[r] = "undoAdd"
    /\ \/ member' = Without(member, {r}) /\ OvertakeOwners(r, r)
       \/ UNCHANGED <<member, overtaken>>
    /\ UndoTeam(r)
    /\ Only(<<orgs, invitation, team, teamMember, role, vetted, cut>>)

(* One row of the user in the team in memory, all of them in SQL.          *)
DeleteTeamMemberByTeamAndUser(r) ==
    LET found == InTeam(call[r].team, call[r].user) IN
    /\ pc[r] = "dropTeamMember"
    /\ \/ adapter = "memory" /\ \E n \in found : teamMember' = Without(teamMember, {n})
       \/ adapter = "sql" /\ teamMember' = Without(teamMember, found)
    /\ Return(r)
    /\ Only(<<orgs, member, invitation, team, role, ghosts>>)

-----------------------------------------------------------------------------
(* /organization/remove-member, /update-member-role and /leave.  Removing  *)
(* an owner, giving up one's own ownership and leaving as an owner count   *)
(* the owners first; demoting another owner does not.                      *)
RemoveMember(r, u, o, n) ==
    /\ \E m \in RowsOf(o, u) : organizationMemberHasPermissions(m, "member.delete") /\ Vet(r, m)
    /\ Begin(r, [Ask(o, u) EXCEPT !.id = n], "findTarget")
    /\ Only(<<rows, overtaken, cut>>)

findRemovableMember(r) ==
    LET n == call[r].id IN
    /\ pc[r] = "findTarget"
    /\ n \in Members(call[r].org) /\ call[r].org \in orgs
    /\ Owns(n) => r \in vetted
    /\ Go(r, IF Owns(n) THEN "countOwners" ELSE "deleteMember")
    /\ Only(<<rows, ghosts>>)

UpdateMemberRole(r, u, o, n, value) ==
    /\ \E m \in RowsOf(o, u) :
          /\ organizationMemberHasPermissions(m, "member.update") /\ Vet(r, m)
          /\ Begin(r, [Ask(o, u) EXCEPT !.by = m, !.id = n, !.role = value], "findRoleTarget")
    /\ Only(<<rows, overtaken, cut>>)

(* Bug form: only the target's present role is compared with the caller's. *)
FindRoleTarget_Present(r) ==
    LET n == call[r].id IN
    /\ pc[r] = "findRoleTarget"
    /\ n \in Members(call[r].org) /\ call[r].org \in orgs
    /\ organizationRoleExists(call[r].org, call[r].role)
    /\ Owns(n) => r \in vetted
    /\ Go(r, IF call[r].by = n /\ Owns(n) /\ "owner" \notin call[r].role
             THEN "countOwners" ELSE "setRole")
    /\ Only(<<rows, ghosts>>)

FindRoleTarget(r) ==
    LET n == call[r].id
        setting == "owner" \in call[r].role IN
    /\ pc[r] = "findRoleTarget"
    /\ n \in Members(call[r].org) /\ call[r].org \in orgs
    /\ organizationRoleExists(call[r].org, call[r].role)
    /\ Owns(n) \/ setting => r \in vetted
    /\ Go(r, IF call[r].by = n /\ Owns(n) /\ ~setting THEN "countOwners" ELSE "setRole")
    /\ Only(<<rows, ghosts>>)

Leave(r, u, o) ==
    /\ \E n \in RowsOf(o, u) :
          Begin(r, [Ask(o, u) EXCEPT !.id = n], IF Owns(n) THEN "countOwners" ELSE "deleteMember")
    /\ Only(<<rows, ghosts>>)

(* Bug form: the last owner is counted as one too many.                    *)
memberRoleCount_OffByOne(r) ==
    /\ pc[r] = "countOwners"
    /\ Cardinality(Owners(call[r].org)) >= 1
    /\ Go(r, IF call[r].role = None THEN "deleteMember" ELSE "setRole")
    /\ Only(<<rows, ghosts>>)

memberRoleCount(r) ==
    /\ pc[r] = "countOwners"
    /\ Cardinality(Owners(call[r].org)) > 1
    /\ Go(r, IF call[r].role = None THEN "deleteMember" ELSE "setRole")
    /\ Only(<<rows, ghosts>>)

DeleteMember(r) ==
    /\ pc[r] = "deleteMember"
    /\ member' = Without(member, {call[r].id})
    /\ OvertakeOwners(r, call[r].id)
    /\ Return(r)
    /\ Only(<<orgs, invitation, team, teamMember, role, vetted, cut>>)

WriteMemberRole(n, value) ==
    member[n] # None /\ member' = [member EXCEPT ![n].role = value]

SetRole(r) ==
    LET n == call[r].id IN
    /\ pc[r] = "setRole"
    /\ WriteMemberRole(n, call[r].role)
    /\ Overtake(r, IF Owns(n) = ("owner" \in call[r].role) THEN {} ELSE RelyOnOwners(call[r].org))
    /\ Return(r)
    /\ Only(<<orgs, invitation, team, teamMember, role, vetted, cut>>)

(* /organization/delete.                                                   *)
DeleteOrg(r, u, o) ==
    /\ o \in orgs
    /\ Authorized(o, u, "organization.delete")
    /\ Begin(r, Ask(o, u), "deleteOrg")
    /\ Only(<<rows, ghosts>>)

-----------------------------------------------------------------------------
(* Teams: create-team, remove-team, add-team-member, remove-team-member.   *)
CreateTeam(r, u, o) ==
    /\ o \in orgs
    /\ Authorized(o, u, "team.create")
    /\ Cardinality(TeamsOf(o)) < MaximumTeams
    /\ Begin(r, [Ask(o, u) EXCEPT !.team = r], "createTeam")
    /\ Only(<<rows, ghosts>>)

InsertTeam(r) ==
    /\ pc[r] = "createTeam"
    /\ team' = [team EXCEPT ![r] = call[r].org]
    /\ Return(r) \/ Go(r, "dropTeam")
    /\ Only(<<orgs, member, invitation, teamMember, role, ghosts>>)

RemoveTeam(r, u, o, t) ==
    /\ Authorized(o, u, "team.delete")
    /\ t \in TeamsOf(o) /\ o \in orgs
    /\ Cardinality(TeamsOf(o)) > 1 \/ options.removeAllTeams
    /\ Begin(r, [Ask(o, u) EXCEPT !.team = t], "dropTeam")
    /\ Only(<<rows, ghosts>>)

AddTeamMember(r, u, o, t, v) ==
    /\ Authorized(o, u, "member.update")
    /\ RowsOf(o, v) # {} /\ t \in TeamsOf(o) /\ o \in orgs
    /\ InTeam(t, v) = {} /\ ~teamMemberLimitReached(t, v)
    /\ Begin(r, [Ask(o, v) EXCEPT !.team = t], "addTeamMember")
    /\ Only(<<rows, ghosts>>)

CreateTeamMember(r) ==
    /\ pc[r] = "addTeamMember"
    /\ InsertTeamMember(r)
    /\ Return(r) \/ Go(r, "dropTeamMember")
    /\ Only(<<orgs, member, invitation, team, role, ghosts>>)

RemoveTeamMember(r, u, o, t, v) ==
    /\ Authorized(o, u, "member.delete")
    /\ RowsOf(o, v) # {} /\ t \in TeamsOf(o) /\ InTeam(t, v) # {} /\ o \in orgs
    /\ Begin(r, [Ask(o, v) EXCEPT !.team = t], "dropTeamMember")
    /\ Only(<<rows, ghosts>>)

-----------------------------------------------------------------------------
(* Dynamic roles.  The handlers look the caller's membership up, and never *)
(* the organization.  The look-up of the name and the write are two        *)
(* statements in SQL, and the unique index on organization and name        *)
(* refuses the write if a namesake came between: they are one step here.   *)
CreateOrgRole(r, u, o, name, allowed) ==
    /\ Authorized(o, u, "ac.create")
    /\ Cardinality(RolesOf(o)) < MaximumRoles
    /\ Begin(r, [Ask(o, u) EXCEPT !.new = [org |-> o, name |-> name, permission |-> allowed]],
             "createRole")
    /\ overtaken' = IF o \in orgs THEN overtaken ELSE overtaken \cup {r}
    /\ Only(<<rows, vetted, cut>>)

CreateOrganizationRole(r) ==
    LET new == call[r].new IN
    /\ pc[r] = "createRole"
    /\ RoleNamed(new.org, new.name) = {}
    /\ role' = [role EXCEPT ![r] = new]
    /\ Return(r)
    /\ Only(<<orgs, member, invitation, team, teamMember, ghosts>>)

UpdateOrgRole(r, u, o, d, name, allowed) ==
    /\ Authorized(o, u, "ac.update")
    /\ d \in RolesOf(o)
    /\ Begin(r, [Ask(o, u) EXCEPT !.id = d,
                    !.new = [org |-> o, name |-> name, permission |-> allowed]], "updateRole")
    /\ Only(<<rows, ghosts>>)

UpdateOrganizationRole(r) ==
    LET d == call[r].id
        new == call[r].new IN
    /\ pc[r] = "updateRole"
    /\ role[d] # None /\ RoleNamed(new.org, new.name) \subseteq {d}
    /\ role' = [role EXCEPT ![d] = new]
    /\ Return(r)
    /\ Only(<<orgs, member, invitation, team, teamMember, ghosts>>)

DeleteOrgRole(r, u, o, d) ==
    /\ Authorized(o, u, "ac.delete")
    /\ d \in RolesOf(o)
    /\ \A n \in Members(o) : role[d].name \notin member[n].role
    /\ Begin(r, [Ask(o, u) EXCEPT !.id = d], "deleteRole")
    /\ Only(<<rows, ghosts>>)

DeleteOrganizationRole(r) ==
    /\ pc[r] = "deleteRole"
    /\ role' = Without(role, {call[r].id})
    /\ Return(r)
    /\ Only(<<orgs, member, invitation, team, teamMember, ghosts>>)

-----------------------------------------------------------------------------
(* A request ends here: refused, failed or stopped.                        *)
Stop(r) ==
    /\ pc[r] \notin {"idle", "done"}
    /\ Return(r)
    /\ cut' = IF pc[r] \in Purging THEN cut \cup {call[r].org} ELSE cut
    /\ Only(<<rows, vetted, overtaken>>)

(* The clock passes the expiry of a pending invitation.                    *)
Lapse(i) ==
    /\ invitation[i] # None /\ invitation[i].status = "pending" /\ ~invitation[i].lapsed
    /\ invitation' = [invitation EXCEPT ![i].lapsed = TRUE]
    /\ Only(<<orgs, member, team, teamMember, role, pc, call, ghosts>>)

(* What a caller may ask.                                                  *)
AskUser(r, u) ==
    \/ CreateOrganization(r, u)
    \/ \E i \in Names : AcceptInvitation(r, u, i) \/ RejectInvitation(r, u, i) \/ CancelInvitation(r, u, i)

AskOf(r, u, o) ==
    \/ DeleteOrg(r, u, o) \/ Leave(r, u, o) \/ CreateTeam(r, u, o)
    \/ \E e \in Users, value \in RoleSets, t \in TeamsOf(o) \cup {None} : InviteMember(r, u, o, e, value, t)
    \/ \E value \in RoleSets, t \in TeamsOf(o) \cup {None} : AddMember(r, u, o, value, t)
    \/ \E n \in Members(o) :
          RemoveMember(r, u, o, n) \/ \E value \in RoleSets : UpdateMemberRole(r, u, o, n, value)
    \/ \E t \in TeamsOf(o) :
          \/ RemoveTeam(r, u, o, t)
          \/ \E v \in Users : AddTeamMember(r, u, o, t, v) \/ RemoveTeamMember(r, u, o, t, v)
    \/ \E name \in CustomRoles, allowed \in PermissionSets :
          \/ CreateOrgRole(r, u, o, name, allowed)
          \/ \E d \in RolesOf(o) : UpdateOrgRole(r, u, o, d, name, allowed)
    \/ \E d \in RolesOf(o) : DeleteOrgRole(r, u, o, d)

(* Where a request that has begun goes on.                                 *)
InvitationStep(r) ==
    \/ PendingInvitation(r) \/ UpdateInvitationExpiresAt(r) \/ CancelPending(r)
    \/ organizationInvitationLimit(r) \/ CreateInvitation(r)
    \/ AcceptCheck(r) \/ MarkAccepted(r) \/ AcceptJoin(r)
    \/ createInvitationTeamMemberships(r) \/ Reopen(r) \/ Decline(r)

MemberStep(r) ==
    \/ CreatorMember(r) \/ DropMember(r) \/ CreateMember(r) \/ UndoAdd(r)
    \/ findRemovableMember(r) \/ FindRoleTarget(r) \/ memberRoleCount(r)
    \/ DeleteMember(r) \/ SetRole(r)

TeamStep(r) ==
    \/ createDefaultOrganizationTeam(r) \/ CreatorTeamMember(r) \/ AddToTeam(r) \/ InsertTeam(r)
    \/ DeleteTeam(r) \/ PurgeTeamMembers(r) \/ CreateTeamMember(r)
    \/ DeleteTeamMemberByTeamAndUser(r)

OrganizationStep(r) ==
    \/ DeleteOrganization(r) \/ PurgeMembers(r) \/ PurgeInvitations(r) \/ PurgeTeams(r)
    \/ PurgeRoles(r)

RoleStep(r) ==
    CreateOrganizationRole(r) \/ UpdateOrganizationRole(r) \/ DeleteOrganizationRole(r)

Step(r) ==
    \/ /\ pc[r] = "idle"
       /\ \E u \in Users : AskUser(r, u) \/ \E o \in Orgs : AskOf(r, u, o)
    \/ /\ pc[r] \notin {"idle", "done"}
       /\ \/ OrganizationStep(r) \/ MemberStep(r) \/ InvitationStep(r) \/ TeamStep(r) \/ RoleStep(r)
          \/ Stop(r)

Next == (\E r \in Requests : Step(r)) \/ \E i \in Names : Lapse(i)

Spec == Init /\ [][Next]_vars

-----------------------------------------------------------------------------
(* Every row and every request has its form.                               *)
TypeOK ==
    /\ adapter \in Adapters /\ options \in Configs /\ orgs \subseteq Orgs
    /\ member \in [Names -> MemberRow \cup {None}]
    /\ invitation \in [Names -> InvitationRow \cup {None}]
    /\ team \in [Names -> Orgs \cup {None}]
    /\ teamMember \in [Names -> TeamMemberRow \cup {None}]
    /\ role \in [Names -> RoleRow \cup {None}]
    /\ pc \in [Requests -> Stages] /\ call \in [Requests -> Call \cup {None}]
    /\ vetted \subseteq Requests /\ overtaken \subseteq Requests /\ cut \subseteq Orgs

Acting == {r \in Requests : pc'[r] # pc[r]}

(* An organization that has owners keeps one: a request takes the last one *)
(* away only when the owners changed under it, or when what it takes away  *)
(* is the row it has written itself, in a creation, an acceptance or a     *)
(* server-side addition that is being undone.                              *)
OwnerRemains ==
    [][\A o \in orgs \cap orgs' : Owners(o) # {} /\ Owners(o)' = {} =>
           \A r \in Acting : \/ r \in overtaken
                             \/ pc[r] \in {"dropMember", "undoAdd"} /\ r \in Owners(o)]_vars

(* A member becomes an owner by creating the organization, by the server's *)
(* own add-member, by somebody who was an owner when the handler looked,   *)
(* or by accepting an invitation that an owner wrote.                      *)
OwnershipGranted ==
    [][\A n \in Names : Owns(n)' /\ ~Owns(n) =>
           \A r \in Acting :
              \/ pc[r] \in {"createMember", "add"}
              \/ pc[r] = "setRole" /\ r \in vetted
              \/ pc[r] = "join" /\ call[r].id \in OldRows \cup vetted]_vars

(* A user is a member of an organization once, unless two requests that    *)
(* join it overlap: nothing but the handlers' look-up keeps it so.         *)
MemberOnce ==
    \A o \in Orgs, u \in Users :
        Cardinality(RowsOf(o, u)) > 1 => RowsOf(o, u) \cap overtaken # {}

(* A rejected or canceled invitation is never accepted and never pending   *)
(* again, except by an acceptance in flight when it was turned down.       *)
DeclinedStays ==
    [][\A i \in Names :
           invitation[i] # None /\ invitation'[i] # None
             /\ invitation[i].status \in {"rejected", "canceled"}
             /\ invitation'[i].status \in {"pending", "accepted"} => Acting \subseteq overtaken]_vars

(* The members, invitations, teams and roles of a deleted organization are *)
(* gone with it, except what a request in flight wrote, the roles that a   *)
(* member so written has made since, what the deletion has still to get    *)
(* to, and what a deletion that failed half way left.  Rows of teamMember  *)
(* are not among them: DeleteOrganization leaves those where they are.     *)
DeletedLeavesNothing ==
    \A o \in Orgs \ orgs :
        \/ o \in cut \/ \E q \in InFlight(o) : pc[q] \in Purging
        \/ Members(o) \cup InvitationsOf(o) \cup TeamsOf(o) \cup RolesOf(o) \subseteq overtaken
=============================================================================
