------------------------- MODULE OrganizationsProofs -------------------------
(* Proofs about Organizations, for any number of requests, users and rows, *)
(* any roles and limits, and whatever the first organization starts with.  *)
EXTENDS Organizations, FiniteSetTheorems, TLAPS

(* Stages: those of an invitation being made and of one being accepted,    *)
(* those that lead to a new row of an organization that was there, and     *)
(* those that have found a member to change.                               *)
Inviting  == {"findPending", "cancelPending", "countInvitations", "createInvitation"}
Accepting == {"checkJoin", "markAccepted", "join"}
Joined    == {"joinTeam", "dropMember", "reopen"}
Inserting == Inviting \cup (Joining \ {"checkJoin"}) \cup {"defaultTeam", "createTeam", "createRole"}
Targeting == {"findTarget", "findRoleTarget", "countOwners", "deleteMember", "setRole"}

(* What request r holds at a stage.                                        *)
Form(r, c, stage) ==
    /\ stage \in Stages \ {"idle", "done"} /\ c \in Call
    /\ stage \in {"createMember", "defaultTeam", "creatorTeam", "dropOrg"} => c.org = r
    /\ stage \in Accepting \cup {"joinTeam"} => c.org # r
    /\ stage \in {"creatorTeam", "addToTeam", "dropTeam", "purgeTeamMembers", "dropTeamMember", "joinTeam",
                  "addTeamMember", "createTeam"} => c.team \in Names
    /\ stage \in Accepting \cup Targeting \cup {"joinTeam", "reopen", "reject", "cancel", "cancelPending",
                                                "resend", "updateRole"} => c.id \in Names
    /\ stage = "dropMember" /\ c.org # r => c.id \in Names
    /\ stage \in {"createMember", "defaultTeam", "creatorTeam", "createTeam", "dropTeam", "purgeTeamMembers"} =>
          c.id = None
    /\ stage \in Inviting \cup Accepting \cup {"addToTeam", "add", "findRoleTarget", "setRole"} =>
          c.role \in RoleSets
    /\ stage = "findRoleTarget" => c.by \in Names
    /\ stage = "findTarget" => c.role = None
    /\ stage = "countOwners" /\ c.role # None => "owner" \notin c.role
    /\ stage \in {"createRole", "updateRole"} => c.new \in RoleRow /\ c.new.org = c.org

RowsLeft(o) == Members(o) \cup InvitationsOf(o) \cup TeamsOf(o) \cup RolesOf(o)

(* How that fits the rows there are.  Whoever is about to write a row has  *)
(* found its organization there and its user not a member, or has been     *)
(* overtaken; likewise for whoever relies on the owners it has counted, or *)
(* on an invitation nobody has turned down.                                *)
FitsNames(r, c, stage) ==
    /\ stage \in Joining => member[r] = None
    /\ stage \in Inviting => invitation[r] = None
    /\ stage = "createRole" => role[r] = None
    /\ stage \in Targeting =>
          /\ c.id \in OldRows \/ pc[c.id] \notin Joining \cup {"idle"}
          /\ member[c.id] # None => member[c.id].org = c.org
    /\ stage = "updateRole" =>
          /\ c.id \in OldRows \/ pc[c.id] \notin {"createRole", "idle"}
          /\ role[c.id] # None => role[c.id].org = c.org

FitsOrgs(r, c, stage) ==
    /\ stage \in Joining \ {"checkJoin"} => RowsOf(c.org, c.user) = {} \/ r \in overtaken
    /\ stage \in Inserting => c.org \in orgs \/ r \in overtaken
    /\ stage \in Purging =>
          /\ c.org \notin orgs
          /\ \/ c.org \in cut
             \/ /\ stage # "purgeMembers" => Members(c.org) \subseteq overtaken
                /\ stage \in {"purgeTeams", "purgeRoles"} => InvitationsOf(c.org) \subseteq overtaken
                /\ stage = "purgeRoles" => TeamsOf(c.org) \subseteq overtaken

FitsOwners(r, c, stage) ==
    /\ stage = "findRoleTarget" /\ r \in vetted => c.by \in Owners(c.org) \/ r \in overtaken
    /\ stage = "deleteMember" \/ (stage = "setRole" /\ "owner" \notin c.role) =>
          ~Owns(c.id) \/ Owners(c.org) \ {c.id} # {} \/ r \in overtaken
    /\ stage = "setRole" /\ "owner" \in c.role => r \in vetted
    /\ stage \in Inviting /\ "owner" \in c.role => r \in vetted
    /\ stage \in Accepting /\ "owner" \in c.role => c.id \in OldRows \cup vetted

Open(i) == invitation[i] = None \/ invitation[i].status \in {"pending", "accepted"}
FitsInvitations(r, c, stage) ==
    stage \in Accepting \cup Joined /\ c.id # None => Open(c.id) \/ r \in overtaken

Fit(r, c, stage) ==
    /\ FitsNames(r, c, stage) /\ FitsOrgs(r, c, stage)
    /\ FitsOwners(r, c, stage) /\ FitsInvitations(r, c, stage)

(* Nothing is there yet of a request that has not begun.                   *)
Fresh(r) ==
    /\ r \notin orgs \cup vetted /\ call[r] = None
    /\ member[r] = None /\ invitation[r] = None /\ role[r] = None
    /\ RowsLeft(r) = {} /\ InFlight(r) = {}

(* Of two rows that make a user a member twice one was overtaken.          *)
Twice(n, m) == member[n].org = member[m].org /\ member[n].user = member[m].user
Once ==
    \A n, m \in Names :
        n # m /\ member[n] # None /\ member[m] # None /\ Twice(n, m) => n \in overtaken \/ m \in overtaken

(* An invitation to own is an owner's.                                     *)
OwnersInvite ==
    \A i \in Names : invitation[i] # None /\ "owner" \in invitation[i].role => i \in OldRows \cup vetted

RequestInv ==
    \A r \in Requests : /\ pc[r] = "idle" => Fresh(r)
                        /\ pc[r] = "done" => call[r] = None
                        /\ pc[r] \notin {"idle", "done"} => Form(r, call[r], pc[r]) /\ Fit(r, call[r], pc[r])

IInv == TypeOK /\ RequestInv /\ Once /\ OwnersInvite /\ DeletedLeavesNothing

-----------------------------------------------------------------------------
(* What a step of request r does to each table, as the others see it.      *)
Writes(r, o) == pc[r] \in Inserting /\ call[r] # None /\ call[r].org = o

MarksMove(r) ==
    /\ vetted \subseteq vetted' /\ vetted' \subseteq vetted \cup {r}
    /\ overtaken \subseteq overtaken' /\ overtaken' \subseteq Requests
    /\ cut \subseteq cut' /\ cut' \subseteq Orgs
    /\ UNCHANGED <<adapter, options>>

OrgsMove(r) ==
    /\ orgs' \subseteq orgs \cup {r} /\ (r \in orgs' => r \in orgs \/ pc[r] = "idle")
    /\ \A q \in Requests \ {r}, o \in orgs : q \in InFlight(o) => o \in orgs' \/ q \in overtaken'

Joins(r) ==
    /\ pc[r] \in Joining \ {"checkJoin"} /\ call[r] # None
    /\ member'[r].org = call[r].org /\ member'[r].user = call[r].user
    /\ AboutToJoin(call[r].org, call[r].user) \ {r} \subseteq overtaken'
SameMember(n) == member[n] # None /\ member'[n].org = member[n].org /\ member'[n].user = member[n].user
OwnersHold(r, o) ==
    /\ \A n \in Owners(o) : n \in Owners(o)'
    /\ \A n \in Names : n \in Owners(o)' => n \in Owners(o) \/ (n = r /\ pc[r] \in Joining)
MembersMove(r) ==
    /\ member' \in [Names -> MemberRow \cup {None}]
    /\ \A n \in Names : member'[n] # None => SameMember(n) \/ (n = r /\ Joins(r))
    /\ \A q \in Requests \ {r}, o \in Orgs : q \in RelyOnOwners(o) => OwnersHold(r, o) \/ q \in overtaken'

Invites(r) ==
    /\ pc[r] = "createInvitation" /\ call[r] # None
    /\ invitation'[r].org = call[r].org /\ invitation'[r].role = call[r].role
SameInvitation(n) ==
    invitation[n] # None /\ invitation'[n].org = invitation[n].org /\ invitation'[n].role = invitation[n].role
InvitationsMove(r) ==
    /\ invitation' \in [Names -> InvitationRow \cup {None}]
    /\ \A n \in Names : invitation'[n] # None => SameInvitation(n) \/ (n = r /\ Invites(r))
    /\ \A q \in Requests \ {r}, i \in Names : q \in Deciding(i) /\ Open(i) => Open(i)' \/ q \in overtaken'

TeamsMove(r) ==
    /\ team' \in [Names -> Orgs \cup {None}] /\ teamMember' \in [Names -> TeamMemberRow \cup {None}]
    /\ \A n \in Names : \/ team'[n] \in {None, team[n]}
                        \/ /\ n = r /\ pc[r] \in {"defaultTeam", "createTeam"}
                           /\ call[r] # None /\ team'[r] = call[r].org

SameRole(n) == role[n] # None /\ role'[n].org = role[n].org
RolesMove(r) ==
    /\ role' \in [Names -> RoleRow \cup {None}]
    /\ \A n \in Names : role'[n] # None =>
           SameRole(n) \/ (n = r /\ pc[r] = "createRole" /\ call[r] # None /\ role'[r].org = call[r].org)

RowsMove(r) == OrgsMove(r) /\ MembersMove(r) /\ InvitationsMove(r) /\ TeamsMove(r) /\ RolesMove(r)

(* Where the step takes r: a request that begins is on an organization     *)
(* that is or was there, and no stage leads back to what lies behind it.   *)
Passes(r, c, stage) ==
    /\ stage \in Joining => pc[r] \in Joining \cup {"idle"}
    /\ stage = "createRole" => pc[r] = "idle"
    /\ stage # "idle"
    /\ c # None => \/ c.org \in orgs \cup {r} \/ RowsLeft(c.org) # {}
                   \/ call[r] # None /\ c.org = call[r].org

(* The deletion of an organization that r begins or carries on.            *)
Purges(r, o) == call[r] # None /\ call[r].org = o /\ pc[r] \in Purging
Ends(r, c, stage) ==
    \A o \in Orgs \ orgs' : o \in orgs \/ Purges(r, o) =>
        \/ o \in cut' \/ (stage \in Purging /\ c # None /\ c.org = o)
        \/ RowsLeft(o)' \subseteq overtaken'

Holds(r, c, stage) == \/ stage = "done" /\ c = None
                      \/ Form(r, c, stage) /\ Fit(r, c, stage)'

-----------------------------------------------------------------------------
LEMMA RequestIn == ASSUME NEW r \in Requests PROVE r \in Names /\ r \in Orgs
BY DEF Names, Orgs

LEMMA Stages1 ==
    /\ Inserting \subseteq Stages \ {"idle", "done"} /\ Targeting \subseteq Stages \ {"idle", "done"}
    /\ Joining \subseteq Stages \ {"idle", "done"} /\ Purging \subseteq Stages \ {"idle", "done"}
    /\ Inviting \subseteq Inserting /\ Joining \ {"checkJoin"} \subseteq Inserting
BY DEF Inserting, Targeting, Inviting, Stages, Joining, Purging, Relying, Holding

LEMMA AtStage ==
    ASSUME IInv, NEW r \in Requests, pc[r] \notin {"idle", "done"}
    PROVE  /\ Form(r, call[r], pc[r]) /\ Fit(r, call[r], pc[r])
           /\ call[r] \in Call /\ call[r] # None
<1>1. Form(r, call[r], pc[r]) /\ Fit(r, call[r], pc[r])
  BY DEF IInv, RequestInv
<1> QED
  BY <1>1, NameAssumption DEF Form

LEMMA AtIdle == ASSUME IInv, NEW r \in Requests, pc[r] = "idle" PROVE Fresh(r)
BY DEF IInv, RequestInv

LEMMA InsertsOnOrg ==
    ASSUME IInv, NEW r \in Requests, NEW o, Writes(r, o)
    PROVE  o \in orgs \/ r \in overtaken
<1>1. pc[r] \in Inserting /\ call[r].org = o /\ pc[r] \notin {"idle", "done"}
  BY Stages1 DEF Writes
<1>2. FitsOrgs(r, call[r], pc[r])
  BY <1>1, AtStage DEF Fit
<1> QED
  BY <1>1, <1>2 DEF FitsOrgs

(* A table gains at most the row of the request that steps, on the         *)
(* organization it was called for.                                         *)
LEMMA MembersGrow ==
    ASSUME NEW r \in Requests, MembersMove(r), NEW o, NEW n, n \in Members(o)'
    PROVE  n \in Members(o) \/ (n = r /\ Writes(r, o))
<1>1. n \in Names /\ member'[n] # None /\ member'[n].org = o
  BY DEF Members
<1>2. CASE SameMember(n)
  BY <1>1, <1>2 DEF SameMember, Members
<1>3. CASE n = r /\ Joins(r)
  BY <1>1, <1>3, Stages1 DEF Joins, Writes
<1> QED
  BY <1>1, <1>2, <1>3 DEF MembersMove

LEMMA InvitationsGrow ==
    ASSUME NEW r \in Requests, InvitationsMove(r), NEW o, NEW n, n \in InvitationsOf(o)'
    PROVE  n \in InvitationsOf(o) \/ (n = r /\ Writes(r, o))
<1>1. n \in Names /\ invitation'[n] # None /\ invitation'[n].org = o
  BY DEF InvitationsOf
<1>2. CASE SameInvitation(n)
  BY <1>1, <1>2 DEF SameInvitation, InvitationsOf
<1>3. CASE n = r /\ Invites(r)
  BY <1>1, <1>3 DEF Invites, Writes, Inserting, Inviting
<1> QED
  BY <1>1, <1>2, <1>3 DEF InvitationsMove

LEMMA TeamsGrow ==
    ASSUME NEW r \in Requests, TeamsMove(r), NEW o \in Orgs, NEW n, n \in TeamsOf(o)'
    PROVE  n \in TeamsOf(o) \/ (n = r /\ Writes(r, o))
<1>1. n \in Names /\ team'[n] = o /\ o # None
  BY NameAssumption DEF TeamsOf
<1>2. \/ team'[n] \in {None, team[n]}
      \/ n = r /\ pc[r] \in {"defaultTeam", "createTeam"} /\ call[r] # None /\ team'[r] = call[r].org
  BY <1>1 DEF TeamsMove
<1>3. CASE team'[n] \in {None, team[n]}
  BY <1>1, <1>3 DEF TeamsOf
<1>4. CASE n = r /\ pc[r] \in {"defaultTeam", "createTeam"} /\ call[r] # None /\ team'[r] = call[r].org
  BY <1>1, <1>4 DEF Writes, Inserting
<1> QED
  BY <1>2, <1>3, <1>4

LEMMA RolesGrow ==
    ASSUME NEW r \in Requests, RolesMove(r), NEW o, NEW n, n \in RolesOf(o)'
    PROVE  n \in RolesOf(o) \/ (n = r /\ Writes(r, o))
<1>1. n \in Names /\ role'[n] # None /\ role'[n].org = o
  BY DEF RolesOf
<1>2. CASE SameRole(n)
  BY <1>1, <1>2 DEF SameRole, RolesOf
<1>3. CASE n = r /\ pc[r] = "createRole" /\ call[r] # None /\ role'[r].org = call[r].org
  BY <1>1, <1>3 DEF Writes, Inserting
<1> QED
  BY <1>1, <1>2, <1>3 DEF RolesMove

LEMMA RowsGrow ==
    ASSUME NEW r \in Requests, RowsMove(r), NEW o \in Orgs, NEW n, n \in RowsLeft(o)'
    PROVE  n \in RowsLeft(o) \/ (n = r /\ Writes(r, o))
BY MembersGrow, InvitationsGrow, TeamsGrow, RolesGrow DEF RowsMove, RowsLeft

(* What a step of r leaves of the fit of another request q.                *)
LEMMA OthersNames ==
    ASSUME IInv, NEW r \in Requests, NEW q \in Requests \ {r}, RowsMove(r),
           NEW d, NEW s, FitsNames(q, d, s),
           s \in Targeting \cup {"updateRole"} => d.id \in Names,
           \A p \in Requests \ {r} : pc'[p] = pc[p],
           pc'[r] \in Joining => pc[r] \in Joining \cup {"idle"},
           pc'[r] = "createRole" => pc[r] = "idle", pc'[r] # "idle"
    PROVE  FitsNames(q, d, s)'
<1>0. q \in Names /\ q # r /\ r \in Names
  BY DEF Names
<1>1. s \in Joining => member'[q] = None
  BY <1>0 DEF FitsNames, RowsMove, MembersMove, SameMember
<1>2. s \in Inviting => invitation'[q] = None
  BY <1>0 DEF FitsNames, RowsMove, InvitationsMove, SameInvitation
<1>3. s = "createRole" => role'[q] = None
  BY <1>0 DEF FitsNames, RowsMove, RolesMove, SameRole
<1>4. ASSUME s \in Targeting
      PROVE  /\ d.id \in OldRows \/ pc'[d.id] \notin Joining \cup {"idle"}
             /\ member'[d.id] # None => member'[d.id].org = d.org
  <2>1. d.id \in OldRows \/ pc[d.id] \notin Joining \cup {"idle"}
    BY <1>4 DEF FitsNames
  <2>2. d.id \in OldRows \/ (d.id \in Requests /\ d.id \notin OldRows)
    BY <1>4, NameAssumption DEF Names
  <2>3. d.id \in OldRows \/ pc'[d.id] \notin Joining \cup {"idle"}
    BY <2>1, <2>2
  <2>4. d.id = r => ~Joins(r)
    BY <2>1, NameAssumption DEF Joins
  <2>5. member'[d.id] # None => SameMember(d.id)
    BY <1>4, <2>4 DEF RowsMove, MembersMove
  <2> QED
    BY <1>4, <2>3, <2>5 DEF SameMember, FitsNames
<1>5. ASSUME s = "updateRole"
      PROVE  /\ d.id \in OldRows \/ pc'[d.id] \notin {"createRole", "idle"}
             /\ role'[d.id] # None => role'[d.id].org = d.org
  <2>1. d.id \in OldRows \/ pc[d.id] \notin {"createRole", "idle"}
    BY <1>5 DEF FitsNames
  <2>2. d.id \in OldRows \/ (d.id \in Requests /\ d.id \notin OldRows)
    BY <1>5, NameAssumption DEF Names
  <2>3. d.id \in OldRows \/ pc'[d.id] \notin {"createRole", "idle"}
    BY <2>1, <2>2
  <2>4. d.id = r => pc[r] # "createRole"
    BY <2>1, NameAssumption
  <2>5. role'[d.id] # None => SameRole(d.id)
    BY <1>5, <2>4 DEF RowsMove, RolesMove
  <2> QED
    BY <1>5, <2>3, <2>5 DEF SameRole, FitsNames
<1> QED
  BY <1>1, <1>2, <1>3, <1>4, <1>5 DEF FitsNames

LEMMA OthersOrgs ==
    ASSUME IInv, NEW r \in Requests, NEW q \in Requests \ {r}, RowsMove(r), MarksMove(r),
           NEW d \in Call, NEW s, call[q] = d, pc[q] = s, FitsOrgs(q, d, s)
    PROVE  FitsOrgs(q, d, s)'
<1>0. d.org \in Orgs /\ d # None /\ q \in InFlight(d.org)
  BY NameAssumption DEF Call, InFlight
<1>1. ASSUME s \in Joining \ {"checkJoin"}
      PROVE  RowsOf(d.org, d.user)' = {} \/ q \in overtaken'
  <2>1. RowsOf(d.org, d.user) = {} \/ q \in overtaken
    BY <1>1 DEF FitsOrgs
  <2>2. q \in AboutToJoin(d.org, d.user)
    BY <1>0, <1>1 DEF AboutToJoin
  <2>3. ASSUME NEW n \in RowsOf(d.org, d.user)', RowsOf(d.org, d.user) = {}
        PROVE  q \in overtaken'
    <3>1. n \in Names /\ member'[n] # None /\ member'[n].org = d.org /\ member'[n].user = d.user
      BY <2>3 DEF RowsOf, Members
    <3>2. ~SameMember(n)
      BY <2>3, <3>1 DEF SameMember, RowsOf, Members
    <3>3. n = r /\ Joins(r)
      BY <3>1, <3>2 DEF RowsMove, MembersMove
    <3>4. call[r].org = d.org /\ call[r].user = d.user
      BY <3>1, <3>3 DEF Joins
    <3> QED
      BY <2>2, <3>3, <3>4 DEF Joins
  <2> QED
    BY <2>1, <2>3 DEF MarksMove
<1>2. ASSUME s \in Inserting
      PROVE  d.org \in orgs' \/ q \in overtaken'
  BY <1>0, <1>2 DEF FitsOrgs, RowsMove, OrgsMove, MarksMove
<1>3. ASSUME s \in Purging
      PROVE  /\ d.org \notin orgs'
             /\ \/ d.org \in cut'
                \/ /\ s # "purgeMembers" => Members(d.org)' \subseteq overtaken'
                   /\ s \in {"purgeTeams", "purgeRoles"} => InvitationsOf(d.org)' \subseteq overtaken'
                   /\ s = "purgeRoles" => TeamsOf(d.org)' \subseteq overtaken'
  <2>1. d.org \notin orgs
    BY <1>3 DEF FitsOrgs
  <2>2. d.org \notin orgs'
    BY <1>0, <2>1, AtIdle DEF RowsMove, OrgsMove, Fresh
  <2>3. Writes(r, d.org) => r \in overtaken
    BY <2>1, InsertsOnOrg
  <2>4. Members(d.org) \subseteq overtaken => Members(d.org)' \subseteq overtaken'
    BY <2>3, MembersGrow DEF MarksMove, RowsMove
  <2>5. InvitationsOf(d.org) \subseteq overtaken => InvitationsOf(d.org)' \subseteq overtaken'
    BY <2>3, InvitationsGrow DEF MarksMove, RowsMove
  <2>6. TeamsOf(d.org) \subseteq overtaken => TeamsOf(d.org)' \subseteq overtaken'
    BY <1>0, <2>3, TeamsGrow DEF MarksMove, RowsMove
  <2> QED
    BY <1>3, <2>2, <2>4, <2>5, <2>6 DEF FitsOrgs, MarksMove
<1> QED
  BY <1>1, <1>2, <1>3 DEF FitsOrgs

LEMMA OthersOwners ==
    ASSUME IInv, NEW r \in Requests, NEW q \in Requests \ {r}, RowsMove(r), MarksMove(r),
           NEW d \in Call, NEW s, call[q] = d, pc[q] = s, Form(q, d, s),
           FitsNames(q, d, s), FitsNames(q, d, s)', FitsOwners(q, d, s)
    PROVE  FitsOwners(q, d, s)'
<1>0. d.org \in Orgs /\ d # None /\ q \in InFlight(d.org) /\ q # r /\ (q \in vetted' => q \in vetted)
  BY NameAssumption DEF Call, InFlight, MarksMove
<1>1. s \in Relying => OwnersHold(r, d.org) \/ q \in overtaken'
  BY <1>0 DEF RelyOnOwners, RowsMove, MembersMove
<1>2. s = "findRoleTarget" /\ q \in vetted' => d.by \in Owners(d.org)' \/ q \in overtaken'
  BY <1>0, <1>1 DEF FitsOwners, OwnersHold, Relying, MarksMove
<1>3. ASSUME s = "deleteMember" \/ (s = "setRole" /\ "owner" \notin d.role)
      PROVE  ~Owns(d.id)' \/ Owners(d.org)' \ {d.id} # {} \/ q \in overtaken'
  <2>0. s \in Relying /\ s \in Targeting /\ d.id \in Names
    BY <1>3 DEF Relying, Targeting, Form
  <2>1. ~Owns(d.id) \/ Owners(d.org) \ {d.id} # {} \/ q \in overtaken
    BY <1>3 DEF FitsOwners
  <2>2. CASE OwnersHold(r, d.org) /\ Owners(d.org) \ {d.id} # {}
    BY <2>2 DEF OwnersHold
  <2>3. ASSUME OwnersHold(r, d.org), ~Owns(d.id), Owns(d.id)'
        PROVE  FALSE
    <3>1. member'[d.id] # None /\ member'[d.id].org = d.org
      BY <2>0, <2>3 DEF Owns, FitsNames
    <3>2. d.id \in Owners(d.org)'
      BY <2>0, <2>3, <3>1 DEF Owners, Members
    <3>3. d.id \notin Owners(d.org)
      BY <2>3 DEF Owners
    <3>4. d.id = r /\ pc[r] \in Joining
      BY <2>0, <2>3, <3>2, <3>3 DEF OwnersHold
    <3> QED
      BY <2>0, <3>4, NameAssumption DEF FitsNames
  <2> QED
    BY <1>1, <2>0, <2>1, <2>2, <2>3 DEF MarksMove
<1>4. /\ s = "setRole" /\ "owner" \in d.role => q \in vetted'
      /\ s \in Inviting /\ "owner" \in d.role => q \in vetted'
      /\ s \in Accepting /\ "owner" \in d.role => d.id \in OldRows \cup vetted'
  BY DEF FitsOwners, MarksMove
<1> QED
  BY <1>2, <1>3, <1>4 DEF FitsOwners

LEMMA OthersInvitations ==
    ASSUME IInv, NEW r \in Requests, NEW q \in Requests \ {r}, RowsMove(r), MarksMove(r),
           NEW d \in Call, NEW s, call[q] = d, pc[q] = s, FitsInvitations(q, d, s)
    PROVE  FitsInvitations(q, d, s)'
<1>1. ASSUME s \in Accepting \cup Joined, d.id # None
      PROVE  Open(d.id)' \/ q \in overtaken'
  <2>1. s \in Holding /\ d # None /\ d.id \in Names
    BY <1>1, NameAssumption DEF Accepting, Joined, Holding, Call
  <2>2. q \in Deciding(d.id)
    BY <2>1 DEF Deciding
  <2> QED
    BY <1>1, <2>1, <2>2 DEF FitsInvitations, RowsMove, InvitationsMove, MarksMove
<1> QED
  BY <1>1 DEF FitsInvitations

LEMMA OthersFresh ==
    ASSUME IInv, NEW r \in Requests, NEW q \in Requests \ {r}, RowsMove(r), MarksMove(r), pc[q] = "idle",
           NEW c, NEW stage, Passes(r, c, stage), Keep(r, c, stage)
    PROVE  Fresh(q)'
<1>0. Fresh(q) /\ q \in Names /\ q \in Orgs /\ q # r /\ pc \in [Requests -> Stages]
        /\ call \in [Requests -> Call \cup {None}]
  BY AtIdle, RequestIn DEF IInv, TypeOK
<1>1. q \notin orgs' /\ q \notin vetted' /\ call'[q] = None
  BY <1>0 DEF Fresh, RowsMove, OrgsMove, MarksMove, Keep
<1>2. member'[q] = None /\ invitation'[q] = None /\ role'[q] = None
  BY <1>0 DEF Fresh, RowsMove, MembersMove, InvitationsMove, RolesMove, SameMember, SameInvitation, SameRole
<1>3. call[r] # None => call[r].org # q
  BY <1>0 DEF Fresh, InFlight
<1>4. RowsLeft(q)' = {}
  BY <1>0, <1>3, RowsGrow DEF Fresh, Writes
<1>5. c # None => c.org # q
  BY <1>0, <1>3 DEF Passes, Fresh
<1>6. InFlight(q)' = {}
  <2>1. SUFFICES ASSUME NEW p \in Requests, call'[p] # None, call'[p].org = q PROVE FALSE
    BY DEF InFlight
  <2>2. p # r
    BY <1>0, <1>5, <2>1 DEF Keep
  <2>3. call'[p] = call[p]
    BY <1>0, <2>2 DEF Keep
  <2> QED
    BY <1>0, <2>1, <2>3 DEF Fresh, InFlight
<1> QED
  BY <1>1, <1>2, <1>4, <1>6 DEF Fresh

(* One step of a request keeps the inductive invariant when it does to     *)
(* each table what the others may rely on, and r itself fits where it      *)
(* goes.                                                                   *)
LEMMA OthersKeep ==
    ASSUME IInv, NEW r \in Requests, RowsMove(r), MarksMove(r),
           NEW c, NEW stage, Passes(r, c, stage), Keep(r, c, stage), Holds(r, c, stage)
    PROVE  RequestInv'
<1>0. pc \in [Requests -> Stages] /\ call \in [Requests -> Call \cup {None}]
  BY DEF IInv, TypeOK
<1>1. pc'[r] = stage /\ call'[r] = c
  BY <1>0 DEF Keep
<1>2. \A q \in Requests \ {r} : pc'[q] = pc[q] /\ call'[q] = call[q]
  BY <1>0 DEF Keep
<1>3. /\ pc'[r] = "idle" => Fresh(r)'
      /\ pc'[r] = "done" => call'[r] = None
      /\ pc'[r] \notin {"idle", "done"} => (Form(r, call[r], pc[r]) /\ Fit(r, call[r], pc[r]))'
  BY <1>1 DEF Holds, Passes, Form
<1>4. ASSUME NEW q \in Requests \ {r}
      PROVE  /\ pc'[q] = "idle" => Fresh(q)'
             /\ pc'[q] = "done" => call'[q] = None
             /\ pc'[q] \notin {"idle", "done"} => (Form(q, call[q], pc[q]) /\ Fit(q, call[q], pc[q]))'
  <2>1. pc[q] = "idle" => Fresh(q)'
    BY OthersFresh
  <2>2. pc[q] = "done" => call[q] = None
    BY DEF IInv, RequestInv
  <2>3. ASSUME pc[q] \notin {"idle", "done"}
        PROVE  (Form(q, call[q], pc[q]) /\ Fit(q, call[q], pc[q]))'
    <3>1. PICK d, s : d = call[q] /\ s = pc[q]
      OBVIOUS
    <3>2. d \in Call /\ Form(q, d, s) /\ Fit(q, d, s)
      BY <2>3, <3>1, AtStage
    <3>3. d = call'[q] /\ s = pc'[q]
      BY <1>2, <3>1
    <3>4. s \in Targeting \cup {"updateRole"} => d.id \in Names
      BY <3>2 DEF Form
    <3>5. pc'[r] \in Joining => pc[r] \in Joining \cup {"idle"}
      BY <1>1 DEF Passes
    <3>6. pc'[r] = "createRole" => pc[r] = "idle"
      BY <1>1 DEF Passes
    <3>7. FitsNames(q, d, s)'
      BY <1>1, <1>2, <3>2, <3>4, <3>5, <3>6, OthersNames DEF Passes, Fit
    <3>8. FitsOrgs(q, d, s)'
      BY <3>1, <3>2, OthersOrgs DEF Fit
    <3>9. FitsOwners(q, d, s)'
      BY <3>1, <3>2, <3>7, OthersOwners DEF Fit
    <3>10. FitsInvitations(q, d, s)'
      BY <3>1, <3>2, OthersInvitations DEF Fit
    <3>11. Fit(q, d, s)'
      BY <3>7, <3>8, <3>9, <3>10 DEF Fit
    <3> QED
      BY <3>2, <3>3, <3>11
  <2> QED
    BY <1>2, <2>1, <2>2, <2>3
<1> QED
  BY <1>1, <1>3, <1>4 DEF RequestInv

LEMMA OnceKept ==
    ASSUME IInv, NEW r \in Requests, RowsMove(r), MarksMove(r)
    PROVE  Once'
<1>1. SUFFICES ASSUME NEW n \in Names, NEW m \in Names, n # m, member'[n] # None, member'[m] # None,
                      Twice(n, m)', m # r
               PROVE  n \in overtaken' \/ m \in overtaken'
  BY DEF Once, Twice
<1>2. SameMember(m)
  BY <1>1 DEF RowsMove, MembersMove
<1>3. CASE SameMember(n)
  <2>1. Twice(n, m)
    BY <1>1, <1>2, <1>3 DEF Twice, SameMember
  <2>2. n \in overtaken \/ m \in overtaken
    BY <1>1, <1>2, <1>3, <2>1 DEF IInv, Once, SameMember
  <2> QED
    BY <2>2 DEF MarksMove
<1>4. CASE n = r /\ Joins(r)
  <2>1. pc[r] \in Joining \ {"checkJoin"} /\ pc[r] \notin {"idle", "done"}
    BY <1>4, Stages1 DEF Joins
  <2>2. FitsOrgs(r, call[r], pc[r])
    BY <2>1, AtStage DEF Fit
  <2>3. member[m] # None /\ member[m].org = call[r].org /\ member[m].user = call[r].user
    BY <1>1, <1>2, <1>4 DEF Twice, SameMember, Joins
  <2>4. m \in RowsOf(call[r].org, call[r].user)
    BY <2>3 DEF RowsOf, Members
  <2> QED
    BY <1>4, <2>1, <2>2, <2>4 DEF FitsOrgs, MarksMove
<1> QED
  BY <1>1, <1>3, <1>4 DEF RowsMove, MembersMove

LEMMA OwnersInviteKept ==
    ASSUME IInv, NEW r \in Requests, RowsMove(r), MarksMove(r)
    PROVE  OwnersInvite'
<1>1. SUFFICES ASSUME NEW i \in Names, invitation'[i] # None, "owner" \in invitation'[i].role
               PROVE  i \in OldRows \cup vetted'
  BY DEF OwnersInvite
<1>2. CASE SameInvitation(i)
  BY <1>1, <1>2 DEF SameInvitation, IInv, OwnersInvite, MarksMove
<1>3. CASE i = r /\ Invites(r)
  <2>1. FitsOwners(r, call[r], pc[r]) /\ pc[r] \in Inviting
    BY <1>3, AtStage DEF Fit, Invites, Inviting
  <2> QED
    BY <1>1, <1>3, <2>1 DEF FitsOwners, Invites, MarksMove
<1> QED
  BY <1>1, <1>2, <1>3 DEF RowsMove, InvitationsMove

LEMMA DeletionKept ==
    ASSUME IInv, NEW r \in Requests, RowsMove(r), MarksMove(r),
           NEW c, NEW stage, Keep(r, c, stage), Ends(r, c, stage)
    PROVE  DeletedLeavesNothing'
<1>0. pc \in [Requests -> Stages] /\ call \in [Requests -> Call \cup {None}]
  BY DEF IInv, TypeOK
<1>1. SUFFICES ASSUME NEW o \in Orgs \ orgs'
               PROVE  \/ o \in cut' \/ \E q \in InFlight(o)' : pc'[q] \in Purging
                      \/ RowsLeft(o)' \subseteq overtaken'
  BY DEF DeletedLeavesNothing, RowsLeft
<1>2. CASE o \in orgs \/ Purges(r, o)
  <2>1. ASSUME stage \in Purging, c # None, c.org = o
        PROVE  r \in InFlight(o)' /\ pc'[r] \in Purging
    BY <1>0, <2>1 DEF Keep, InFlight
  <2>2. \/ o \in cut' \/ (stage \in Purging /\ c # None /\ c.org = o)
        \/ RowsLeft(o)' \subseteq overtaken'
    BY <1>2 DEF Ends
  <2> QED
    BY <2>1, <2>2
<1>3. CASE o \notin orgs /\ ~Purges(r, o)
  <2>1. \/ o \in cut \/ \E q \in InFlight(o) : pc[q] \in Purging
        \/ RowsLeft(o) \subseteq overtaken
    BY <1>3 DEF IInv, DeletedLeavesNothing, RowsLeft
  <2>2. ASSUME NEW q \in InFlight(o), pc[q] \in Purging
        PROVE  q \in InFlight(o)' /\ pc'[q] \in Purging
    <3>1. q # r
      BY <1>3, <2>2 DEF Purges, InFlight
    <3> QED
      BY <1>0, <2>2, <3>1 DEF InFlight, Keep
  <2>3. ASSUME RowsLeft(o) \subseteq overtaken
        PROVE  RowsLeft(o)' \subseteq overtaken'
    <3>1. Writes(r, o) => r \in overtaken
      BY <1>3, InsertsOnOrg
    <3> QED
      BY <2>3, <3>1, RowsGrow DEF MarksMove
  <2> QED
    BY <2>1, <2>2, <2>3 DEF MarksMove
<1> QED
  BY <1>2, <1>3

LEMMA StepKeeps ==
    ASSUME IInv, NEW r \in Requests, RowsMove(r), MarksMove(r), NEW c, NEW stage, Keep(r, c, stage),
           Passes(r, c, stage), Holds(r, c, stage), Ends(r, c, stage)
    PROVE  IInv'
<1>1. RequestInv' /\ Once' /\ OwnersInvite' /\ DeletedLeavesNothing'
  BY OthersKeep, OnceKept, OwnersInviteKept, DeletionKept
<1>2. c \in Call \cup {None} /\ stage \in Stages
  BY DEF Holds, Form, Stages
<1>3. TypeOK'
  <2>1. pc' \in [Requests -> Stages] /\ call' \in [Requests -> Call \cup {None}]
    BY <1>2 DEF IInv, TypeOK, Keep
  <2>2. /\ adapter' \in Adapters /\ options' \in Configs
        /\ vetted' \subseteq Requests /\ overtaken' \subseteq Requests /\ cut' \subseteq Orgs
    BY DEF IInv, TypeOK, MarksMove
  <2>3. orgs' \subseteq Orgs
    BY RequestIn DEF IInv, TypeOK, RowsMove, OrgsMove
  <2>4. /\ member' \in [Names -> MemberRow \cup {None}]
        /\ invitation' \in [Names -> InvitationRow \cup {None}]
    BY DEF RowsMove, MembersMove, InvitationsMove
  <2>5. /\ team' \in [Names -> Orgs \cup {None}] /\ teamMember' \in [Names -> TeamMemberRow \cup {None}]
        /\ role' \in [Names -> RoleRow \cup {None}]
    BY DEF RowsMove, TeamsMove, RolesMove
  <2> QED
    BY <2>1, <2>2, <2>3, <2>4, <2>5 DEF TypeOK
<1> QED
  BY <1>1, <1>3 DEF IInv

-----------------------------------------------------------------------------
(* The same lemma for the shapes that steps have.                          *)
LEMMA Typed ==
    ASSUME IInv
    PROVE  /\ orgs \subseteq Orgs /\ member \in [Names -> MemberRow \cup {None}]
           /\ invitation \in [Names -> InvitationRow \cup {None}]
           /\ team \in [Names -> Orgs \cup {None}] /\ teamMember \in [Names -> TeamMemberRow \cup {None}]
           /\ role \in [Names -> RoleRow \cup {None}]
           /\ pc \in [Requests -> Stages] /\ call \in [Requests -> Call \cup {None}]
           /\ vetted \subseteq Requests /\ overtaken \subseteq Requests /\ cut \subseteq Orgs
BY DEF IInv, TypeOK

LEMMA SameMembers == ASSUME IInv, NEW r \in Requests, UNCHANGED member PROVE MembersMove(r)
<1>1. \A n \in Names : member'[n] # None => SameMember(n)
  BY DEF SameMember
<1>2. \A o \in Orgs : OwnersHold(r, o)
  BY DEF OwnersHold, Owners, Members, Owns
<1> QED
  BY <1>1, <1>2, Typed DEF MembersMove

LEMMA SameInvitations == ASSUME IInv, NEW r \in Requests, UNCHANGED invitation PROVE InvitationsMove(r)
<1>1. \A n \in Names : invitation'[n] # None => SameInvitation(n)
  BY DEF SameInvitation
<1>2. \A i \in Names : Open(i) => Open(i)'
  BY DEF Open
<1> QED
  BY <1>1, <1>2, Typed DEF InvitationsMove

LEMMA SameTeams == ASSUME IInv, NEW r \in Requests, UNCHANGED <<team, teamMember>> PROVE TeamsMove(r)
BY Typed DEF TeamsMove

LEMMA SameRoles == ASSUME IInv, NEW r \in Requests, UNCHANGED role PROVE RolesMove(r)
BY Typed DEF RolesMove, SameRole

LEMMA SameOrgs == ASSUME IInv, NEW r \in Requests, UNCHANGED orgs PROVE OrgsMove(r)
BY DEF OrgsMove

LEMMA QuietRows == ASSUME IInv, NEW r \in Requests, UNCHANGED rows PROVE RowsMove(r)
BY SameMembers, SameInvitations, SameTeams, SameRoles, SameOrgs DEF rows, RowsMove

LEMMA SameMarks ==
    ASSUME IInv, NEW r \in Requests, UNCHANGED ghosts, UNCHANGED <<adapter, options>>
    PROVE  MarksMove(r)
BY Typed DEF ghosts, MarksMove

LEMMA OvertakeMarks ==
    ASSUME IInv, NEW r \in Requests, NEW S, S \subseteq Requests, Overtake(r, S),
           UNCHANGED <<adapter, options, vetted, cut>>
    PROVE  MarksMove(r)
BY Typed DEF Overtake, MarksMove

LEMMA GoKeep ==
    ASSUME IInv, NEW r \in Requests, NEW stage, Go(r, stage)
    PROVE  Keep(r, call[r], stage)
BY Typed DEF Go, Keep

LEMMA PlainEnds ==
    ASSUME NEW r, NEW c, NEW stage, orgs \subseteq orgs', pc[r] \notin Purging
    PROVE  Ends(r, c, stage)
BY DEF Ends, Purges

LEMMA ReturnKeeps ==
    ASSUME IInv, NEW r \in Requests, RowsMove(r), MarksMove(r), Return(r), orgs' = orgs,
           pc[r] \notin Purging
    PROVE  IInv'
<1>1. Passes(r, None, "done") /\ Holds(r, None, "done")
  BY DEF Passes, Holds, Joining
<1> QED
  BY <1>1, PlainEnds, StepKeeps DEF Return

LEMMA GoKeeps ==
    ASSUME IInv, NEW r \in Requests, RowsMove(r), MarksMove(r), orgs' = orgs,
           pc[r] \notin Purging \cup {"idle", "done"},
           NEW c, NEW stage, call[r].org = c.org, Keep(r, c, stage),
           stage \in Joining => pc[r] \in Joining, stage # "createRole",
           Form(r, c, stage), Fit(r, c, stage)'
    PROVE  IInv'
<1>1. call[r] # None
  BY AtStage
<1>2. stage # "idle"
  BY DEF Form
<1>3. Passes(r, c, stage) /\ Holds(r, c, stage) /\ Ends(r, c, stage)
  BY <1>1, <1>2, PlainEnds DEF Passes, Holds
<1> QED
  BY <1>3, StepKeeps

(* What a request fits stays so when no row changes.                       *)
LEMMA QuietParts ==
    ASSUME IInv, NEW r \in Requests, NEW c, NEW stage, Keep(r, c, stage), Form(r, c, stage),
           UNCHANGED rows, MarksMove(r),
           FitsNames(r, c, stage), FitsOrgs(r, c, stage), FitsInvitations(r, c, stage)
    PROVE  FitsNames(r, c, stage)' /\ FitsOrgs(r, c, stage)' /\ FitsInvitations(r, c, stage)'
<1>1. FitsNames(r, c, stage)'
  <2>1. \A q \in Requests : q # r => pc'[q] = pc[q]
    BY Typed DEF Keep
  <2>2. pc'[r] = stage
    BY Typed DEF Keep
  <2>3. /\ stage \in Targeting => stage \notin Joining \cup {"idle"}
        /\ stage = "updateRole" => stage \notin {"createRole", "idle"}
    BY DEF Targeting, Joining
  <2>4. stage \in Targeting \cup {"updateRole"} => c.id \in OldRows \/ c.id \in Requests
    BY DEF Form, Names
  <2>5. UNCHANGED <<member, invitation, role>>
    BY DEF rows
  <2>6. stage \in Targeting => c.id \in OldRows \/ pc'[c.id] \notin Joining \cup {"idle"}
    BY <2>1, <2>2, <2>3, <2>4 DEF FitsNames
  <2>7. stage = "updateRole" => c.id \in OldRows \/ pc'[c.id] \notin {"createRole", "idle"}
    BY <2>1, <2>2, <2>3, <2>4 DEF FitsNames
  <2> QED
    BY <2>5, <2>6, <2>7 DEF FitsNames
<1>2. FitsOrgs(r, c, stage)'
  <2>1. UNCHANGED <<orgs, member, invitation, team>> /\ overtaken \subseteq overtaken' /\ cut \subseteq cut'
    BY DEF rows, MarksMove
  <2>2. /\ RowsOf(c.org, c.user)' = RowsOf(c.org, c.user) /\ Members(c.org)' = Members(c.org)
        /\ InvitationsOf(c.org)' = InvitationsOf(c.org) /\ TeamsOf(c.org)' = TeamsOf(c.org)
    BY <2>1 DEF RowsOf, Members, InvitationsOf, TeamsOf
  <2> QED
    BY <2>1, <2>2 DEF FitsOrgs
<1>3. FitsInvitations(r, c, stage)'
  BY DEF FitsInvitations, Open, rows, MarksMove
<1> QED
  BY <1>1, <1>2, <1>3

LEMMA QuietOwners ==
    ASSUME NEW r, NEW c, NEW stage, UNCHANGED <<member, vetted>>, MarksMove(r), FitsOwners(r, c, stage)
    PROVE  FitsOwners(r, c, stage)'
<1>1. Owners(c.org)' = Owners(c.org) /\ Owns(c.id)' = Owns(c.id) /\ overtaken \subseteq overtaken'
  BY DEF Owners, Members, Owns, MarksMove
<1> QED
  BY <1>1 DEF FitsOwners

LEMMA QuietGoKeeps ==
    ASSUME IInv, NEW r \in Requests, UNCHANGED rows, UNCHANGED ghosts, UNCHANGED <<adapter, options>>,
           pc[r] \notin Purging \cup {"idle", "done"},
           NEW c, NEW stage, call[r].org = c.org, Keep(r, c, stage),
           stage \in Joining => pc[r] \in Joining, stage # "createRole",
           Form(r, c, stage), Fit(r, c, stage)
    PROVE  IInv'
<1>1. MarksMove(r) /\ RowsMove(r)
  BY SameMarks, QuietRows
<1>2. UNCHANGED <<member, vetted>> /\ orgs' = orgs
  BY DEF rows, ghosts
<1>3. Fit(r, c, stage)'
  BY <1>1, <1>2, QuietParts, QuietOwners DEF Fit
<1> QED
  BY <1>1, <1>2, <1>3, GoKeeps

LEMMA VetKeeps ==
    ASSUME IInv, NEW r \in Requests, pc[r] = "idle", UNCHANGED rows, MarksMove(r),
           NEW c, NEW stage, Keep(r, c, stage),
           c.org \in orgs \/ RowsLeft(c.org) # {}, Form(r, c, stage),
           FitsNames(r, c, stage), FitsOrgs(r, c, stage), FitsInvitations(r, c, stage),
           FitsOwners(r, c, stage)'
    PROVE  IInv'
<1>1. RowsMove(r) /\ orgs' = orgs
  BY QuietRows DEF rows
<1>2. Fit(r, c, stage)'
  BY QuietParts DEF Fit
<1>3. Holds(r, c, stage) /\ stage # "idle"
  BY <1>2 DEF Holds, Form
<1>4. Passes(r, c, stage)
  BY <1>3 DEF Passes
<1>5. Ends(r, c, stage)
  BY <1>1, PlainEnds DEF Purging
<1> QED
  BY <1>1, <1>3, <1>4, <1>5, StepKeeps

LEMMA BeginKeeps ==
    ASSUME IInv, NEW r \in Requests, UNCHANGED rows, UNCHANGED ghosts, UNCHANGED <<adapter, options>>,
           NEW c, NEW stage, Begin(r, c, stage),
           c.org \in orgs \/ RowsLeft(c.org) # {}, Form(r, c, stage), Fit(r, c, stage)
    PROVE  IInv'
<1>1. MarksMove(r) /\ pc[r] = "idle" /\ Keep(r, c, stage)
  BY SameMarks DEF Begin
<1>2. FitsOwners(r, c, stage)'
  BY <1>1, QuietOwners DEF Fit, rows, ghosts
<1> QED
  BY <1>1, <1>2, VetKeeps DEF Fit

-----------------------------------------------------------------------------
(* What the writes do to their tables.                                     *)
LEMMA SetsOfRequests ==
    ASSUME NEW o, NEW u, NEW i
    PROVE  /\ InFlight(o) \subseteq Requests /\ AboutToJoin(o, u) \subseteq Requests
           /\ RelyOnOwners(o) \subseteq Requests /\ Deciding(i) \subseteq Requests
BY DEF InFlight, AboutToJoin, RelyOnOwners, Deciding

LEMMA MemberInserted ==
    ASSUME IInv, NEW r \in Requests, pc[r] \in Joining \ {"checkJoin"}, NEW value \in RoleSets,
           InsertMember(r, value), Overtake(r, AboutToJoin(call[r].org, call[r].user))
    PROVE  MembersMove(r) /\ member' \in [Names -> MemberRow \cup {None}]
<1>1. PICK c \in Call : c = call[r] /\ c # None
  BY Stages1, AtStage
<1>2. PICK w \in MemberRow : /\ w = [org |-> c.org, user |-> c.user, role |-> value]
                             /\ w.org = c.org /\ w.user = c.user
  <2>1. c.org \in Orgs /\ c.user \in Users
    BY DEF Call
  <2>2. [org |-> c.org, user |-> c.user, role |-> value] \in MemberRow
    BY <2>1 DEF MemberRow
  <2> QED
    BY <2>2
<1>3. member' = [member EXCEPT ![r] = w] /\ r \in Names
  BY <1>1, <1>2, RequestIn DEF InsertMember
<1>4. member' \in [Names -> MemberRow \cup {None}] /\ member'[r] = w
      /\ \A n \in Names : n # r => member'[n] = member[n]
  BY <1>3, Typed
<1>5. Joins(r)
  BY <1>1, <1>2, <1>4 DEF Joins, Overtake
<1>6. \A n \in Names : member'[n] # None => SameMember(n) \/ (n = r /\ Joins(r))
  BY <1>4, <1>5 DEF SameMember
<1>7. member[r] = None
  BY AtStage, Stages1 DEF Fit, FitsNames
<1>8. \A o \in Orgs : OwnersHold(r, o)
  BY <1>4, <1>7 DEF OwnersHold, Owners, Members, Owns
<1> QED
  BY <1>4, <1>6, <1>8 DEF MembersMove

LEMMA WithoutTyped ==
    ASSUME NEW row, NEW R, NEW S, row \in [Names -> R \cup {None}]
    PROVE  /\ Without(row, S) \in [Names -> R \cup {None}]
           /\ \A n \in Names : Without(row, S)[n] = IF n \in S THEN None ELSE row[n]
BY DEF Without

LEMMA MemberDropped ==
    ASSUME IInv, NEW r \in Requests, NEW n, member' = Without(member, {n}), OvertakeOwners(r, n)
    PROVE  MembersMove(r)
<1>0. member \in [Names -> MemberRow \cup {None}]
  BY Typed
<1>1. /\ member' \in [Names -> MemberRow \cup {None}]
      /\ \A m \in Names : member'[m] = IF m = n THEN None ELSE member[m]
  BY <1>0 DEF Without
<1>2. \A m \in Names : member'[m] # None => SameMember(m)
  BY <1>1 DEF SameMember
<1>3. ASSUME NEW q \in Requests \ {r}, NEW o \in Orgs, q \in RelyOnOwners(o)
      PROVE  OwnersHold(r, o) \/ q \in overtaken'
  <2>1. CASE Owns(n) /\ member[n].org = o
    BY <1>3, <2>1 DEF OvertakeOwners, Overtake
  <2>2. CASE ~(Owns(n) /\ member[n].org = o)
    BY <1>1, <2>2 DEF OwnersHold, Owners, Members, Owns
  <2> QED
    BY <2>1, <2>2
<1> QED
  BY <1>1, <1>2, <1>3 DEF MembersMove

LEMMA MembersOff ==
    ASSUME IInv, NEW r \in Requests, NEW o, member' = Without(member, Members(o)), Overtake(r, InFlight(o))
    PROVE  MembersMove(r) /\ Members(o)' = {} /\ member' \in [Names -> MemberRow \cup {None}]
<1>0. member \in [Names -> MemberRow \cup {None}]
  BY Typed
<1>1. /\ member' \in [Names -> MemberRow \cup {None}]
      /\ \A m \in Names : member'[m] = IF m \in Members(o) THEN None ELSE member[m]
  BY <1>0 DEF Without
<1>2. \A m \in Names : member'[m] # None => SameMember(m)
  BY <1>1 DEF SameMember
<1>3. ASSUME NEW q \in Requests \ {r}, NEW p \in Orgs, q \in RelyOnOwners(p)
      PROVE  OwnersHold(r, p) \/ q \in overtaken'
  <2>1. CASE p = o
    BY <1>3, <2>1 DEF Overtake, RelyOnOwners
  <2>2. CASE p # o
    BY <1>1, <2>2 DEF OwnersHold, Owners, Members, Owns
  <2> QED
    BY <2>1, <2>2
<1>4. Members(o)' = {}
  BY <1>1 DEF Members
<1> QED
  BY <1>1, <1>2, <1>3, <1>4 DEF MembersMove

LEMMA InvitationsOff ==
    ASSUME IInv, NEW r \in Requests, NEW o, invitation' = Without(invitation, InvitationsOf(o))
    PROVE  InvitationsMove(r) /\ InvitationsOf(o)' = {}
<1>0. invitation \in [Names -> InvitationRow \cup {None}]
  BY Typed
<1>1. /\ invitation' \in [Names -> InvitationRow \cup {None}]
      /\ \A m \in Names : invitation'[m] = IF m \in InvitationsOf(o) THEN None ELSE invitation[m]
  BY <1>0 DEF Without
<1>2. \A m \in Names : invitation'[m] # None => SameInvitation(m)
  BY <1>1 DEF SameInvitation
<1>3. \A i \in Names : Open(i) => Open(i)'
  BY <1>1 DEF Open
<1>4. InvitationsOf(o)' = {}
  BY <1>1 DEF InvitationsOf
<1> QED
  BY <1>1, <1>2, <1>3, <1>4 DEF InvitationsMove

LEMMA TeamsOff ==
    ASSUME IInv, NEW r \in Requests, NEW o \in Orgs, team' = Without(team, TeamsOf(o)), UNCHANGED teamMember
    PROVE  TeamsMove(r) /\ TeamsOf(o)' = {}
<1>1. /\ team' \in [Names -> Orgs \cup {None}]
      /\ \A m \in Names : team'[m] = IF m \in TeamsOf(o) THEN None ELSE team[m]
  BY Typed, WithoutTyped
<1>2. TeamsOf(o)' = {}
  BY <1>1, NameAssumption DEF TeamsOf
<1> QED
  BY <1>1, <1>2, Typed DEF TeamsMove

LEMMA RolesOff ==
    ASSUME IInv, NEW r \in Requests, NEW o, role' = Without(role, RolesOf(o))
    PROVE  RolesMove(r) /\ RolesOf(o)' = {}
<1>0. role \in [Names -> RoleRow \cup {None}]
  BY Typed
<1>1. /\ role' \in [Names -> RoleRow \cup {None}]
      /\ \A m \in Names : role'[m] = IF m \in RolesOf(o) THEN None ELSE role[m]
  BY <1>0 DEF Without
<1>2. \A m \in Names : role'[m] # None => SameRole(m)
  BY <1>1 DEF SameRole
<1>3. RolesOf(o)' = {}
  BY <1>1 DEF RolesOf
<1> QED
  BY <1>1, <1>2, <1>3 DEF RolesMove

LEMMA InvitationStatus ==
    ASSUME IInv, NEW r \in Requests, NEW i \in Names,
           NEW status \in {"pending", "accepted", "rejected", "canceled"},
           UpdateInvitationStatus(i, status), Overtake(r, Deciding(i))
    PROVE  InvitationsMove(r)
<1>1. PICK w \in InvitationRow : w = invitation[i]
  BY Typed DEF UpdateInvitationStatus
<1>2. PICK v \in InvitationRow : v = [w EXCEPT !.status = status] /\ v.org = w.org /\ v.role = w.role
  <2>1. /\ [w EXCEPT !.status = status] \in InvitationRow
        /\ [w EXCEPT !.status = status].org = w.org /\ [w EXCEPT !.status = status].role = w.role
    BY DEF InvitationRow
  <2> QED
    BY <2>1
<1>3. invitation' = [invitation EXCEPT ![i] = v]
  BY <1>1, <1>2 DEF UpdateInvitationStatus
<1>4. /\ invitation' \in [Names -> InvitationRow \cup {None}]
      /\ \A n \in Names : invitation'[n] = IF n = i THEN v ELSE invitation[n]
  BY <1>3, Typed
<1>5. \A n \in Names : invitation'[n] # None => SameInvitation(n)
  BY <1>1, <1>2, <1>4, NameAssumption DEF SameInvitation
<1>6. ASSUME NEW q \in Requests \ {r}, NEW j \in Names, q \in Deciding(j), Open(j)
      PROVE  Open(j)' \/ q \in overtaken'
  <2>1. CASE j = i
    BY <1>6, <2>1 DEF Overtake
  <2>2. CASE j # i
    BY <1>4, <1>6, <2>2 DEF Open
  <2> QED
    BY <2>1, <2>2
<1> QED
  BY <1>4, <1>5, <1>6 DEF InvitationsMove

LEMMA TeamMemberInserted ==
    ASSUME IInv, NEW r \in Requests, call[r] \in Call, call[r].team \in Names, InsertTeamMember(r),
           UNCHANGED team
    PROVE  TeamsMove(r)
<1>1. PICK w \in TeamMemberRow : w = [team |-> call[r].team, user |-> call[r].user]
  BY DEF Call, TeamMemberRow
<1>2. teamMember' = [teamMember EXCEPT ![r] = w]
  BY <1>1 DEF InsertTeamMember
<1> QED
  BY <1>2, Typed DEF TeamsMove

LEMMA TeamMembersOff ==
    ASSUME IInv, NEW r \in Requests, NEW S, teamMember' = Without(teamMember, S), UNCHANGED team
    PROVE  TeamsMove(r)
BY Typed, WithoutTyped DEF TeamsMove

LEMMA MemberRows == ASSUME UNCHANGED <<orgs, invitation, team, teamMember, role>>, IInv, NEW r \in Requests,
                           MembersMove(r)
                    PROVE  RowsMove(r) /\ orgs' = orgs
BY SameOrgs, SameInvitations, SameTeams, SameRoles DEF RowsMove

LEMMA InvitationRows == ASSUME UNCHANGED <<orgs, member, team, teamMember, role>>, IInv, NEW r \in Requests,
                               InvitationsMove(r)
                        PROVE  RowsMove(r) /\ orgs' = orgs
BY SameOrgs, SameMembers, SameTeams, SameRoles DEF RowsMove

LEMMA TeamRows == ASSUME UNCHANGED <<orgs, member, invitation, role>>, IInv, NEW r \in Requests, TeamsMove(r)
                  PROVE  RowsMove(r) /\ orgs' = orgs
BY SameOrgs, SameMembers, SameInvitations, SameRoles DEF RowsMove

LEMMA RoleRows == ASSUME UNCHANGED <<orgs, member, invitation, team, teamMember>>, IInv, NEW r \in Requests,
                         RolesMove(r)
                  PROVE  RowsMove(r) /\ orgs' = orgs
BY SameOrgs, SameMembers, SameInvitations, SameTeams DEF RowsMove

-----------------------------------------------------------------------------
(* Organizations: made and deleted.                                        *)
LEMMA AskCall ==
    ASSUME NEW o \in Orgs, NEW u \in Users
    PROVE  Ask(o, u) \in Call /\ Ask(o, u).org = o /\ Ask(o, u).user = u /\ Ask(o, u).id = None
BY DEF Ask, Call

LEMMA CreateOrganizationKeeps ==
    ASSUME IInv, NEW r \in Requests, NEW u \in Users, CreateOrganization(r, u)
    PROVE  IInv'
<1>0. /\ pc[r] = "idle" /\ Fresh(r) /\ r \in Names /\ r \in Orgs /\ orgs' = orgs \cup {r}
      /\ UNCHANGED <<member, invitation, team, teamMember, role, ghosts, adapter, options>>
  BY AtIdle, RequestIn DEF CreateOrganization, Begin, Only
<1>1. PICK c \in Call : c = Ask(r, u) /\ c.org = r /\ c.user = u /\ c.id = None
  BY <1>0, AskCall
<1>2. Keep(r, c, "createMember")
  BY <1>1 DEF CreateOrganization, Begin
<1>3. MarksMove(r)
  BY <1>0, SameMarks
<1>4. OrgsMove(r)
  BY <1>0 DEF OrgsMove
<1>5. RowsMove(r)
  BY <1>0, <1>4, SameMembers, SameInvitations, SameTeams, SameRoles DEF RowsMove
<1>6. Form(r, c, "createMember")
  BY <1>1 DEF Form, Stages, Joining, Accepting, Targeting, Inviting
<1>7. Fit(r, c, "createMember")'
  <2>1. FitsNames(r, c, "createMember")'
    BY <1>0 DEF FitsNames, Fresh, Inviting, Targeting
  <2>2. RowsOf(r, u)' = {}
    BY <1>0 DEF RowsOf, Members, Fresh, RowsLeft
  <2>3. FitsOrgs(r, c, "createMember")'
    BY <1>0, <1>1, <2>2 DEF FitsOrgs, Purging
  <2>4. FitsOwners(r, c, "createMember")'
    BY DEF FitsOwners, Inviting, Accepting
  <2>5. FitsInvitations(r, c, "createMember")'
    BY DEF FitsInvitations, Accepting, Joined
  <2> QED
    BY <2>1, <2>3, <2>4, <2>5 DEF Fit
<1>8. Passes(r, c, "createMember") /\ Ends(r, c, "createMember")
  <2>1. pc[r] \notin Purging /\ orgs \subseteq orgs'
    BY <1>0 DEF Purging
  <2> QED
    BY <1>0, <1>1, <2>1, PlainEnds DEF Passes
<1> QED
  BY <1>2, <1>3, <1>5, <1>6, <1>7, <1>8, StepKeeps DEF Holds

LEMMA PurgeFits ==
    ASSUME NEW r, NEW c, NEW stage \in Purging, FitsOrgs(r, c, stage)'
    PROVE  Fit(r, c, stage)'
<1>1. FitsNames(r, c, stage)' /\ FitsOwners(r, c, stage)' /\ FitsInvitations(r, c, stage)'
  BY DEF FitsNames, FitsOwners, FitsInvitations, Purging, Joining, Inviting, Targeting, Accepting, Joined
<1> QED
  BY <1>1 DEF Fit

LEMMA PurgeForm ==
    ASSUME NEW r, NEW c \in Call, NEW stage \in Purging
    PROVE  Form(r, c, stage)
BY DEF Form, Purging, Stages, Accepting, Targeting, Inviting

LEMMA DeleteOrganizationKeeps ==
    ASSUME IInv, NEW r \in Requests, DeleteOrganization(r)
    PROVE  IInv'
<1>1. PICK c \in Call : c = call[r] /\ c # None
  BY AtStage DEF DeleteOrganization
<1>2. PICK o \in Orgs : o = c.org
  BY DEF Call
<1>3. /\ o \in orgs /\ (DeleteOrganizationInMemory(r, o) \/ DeleteOrganizationRow(r, o))
      /\ Overtake(r, InFlight(o)) /\ Only(<<teamMember, vetted, cut>>)
      /\ orgs' = orgs \ {o} /\ pc[r] \notin Purging \cup {"idle"}
  BY <1>1, <1>2
     DEF DeleteOrganization, DeleteOrganizationInMemory, DeleteOrganizationRow, Purging
<1>4. MarksMove(r)
  BY <1>3, OvertakeMarks, SetsOfRequests DEF Only
<1>5. OrgsMove(r)
  BY <1>3, Typed DEF OrgsMove, Overtake
<1>6. CASE DeleteOrganizationInMemory(r, o)
  <2>1. /\ MembersMove(r) /\ InvitationsMove(r) /\ TeamsMove(r) /\ RolesMove(r)
        /\ RowsLeft(o)' = {}
    BY <1>3, <1>6, MembersOff, InvitationsOff, TeamsOff, RolesOff DEF DeleteOrganizationInMemory, Only, RowsLeft
  <2>2. RowsMove(r)
    BY <1>5, <2>1 DEF RowsMove
  <2>3. Ends(r, None, "done")
    BY <1>3, <2>1 DEF Ends, Purges
  <2>4. Keep(r, None, "done") /\ Passes(r, None, "done") /\ Holds(r, None, "done")
    BY <1>6 DEF DeleteOrganizationInMemory, Return, Passes, Holds, Joining
  <2> QED
    BY <1>4, <2>2, <2>3, <2>4, StepKeeps
<1>7. CASE DeleteOrganizationRow(r, o)
  <2>1. UNCHANGED <<member, invitation, team, teamMember, role>> /\ Keep(r, c, "purgeMembers")
    BY <1>1, <1>3, <1>7, GoKeep DEF DeleteOrganizationRow, Only
  <2>2. RowsMove(r)
    BY <1>5, <2>1, SameMembers, SameInvitations, SameTeams, SameRoles DEF RowsMove
  <2>3. "purgeMembers" \in Purging
    BY DEF Purging
  <2>4. Ends(r, c, "purgeMembers")
    BY <1>1, <1>2, <1>3, <2>3 DEF Ends, Purges
  <2>5. FitsOrgs(r, c, "purgeMembers")'
    BY <1>2, <1>3 DEF FitsOrgs, Joining, Inserting, Inviting
  <2>6. Holds(r, c, "purgeMembers")
    BY <2>3, <2>5, PurgeFits, PurgeForm DEF Holds
  <2>7. Passes(r, c, "purgeMembers")
    BY <1>2, <1>3 DEF Passes, Joining
  <2> QED
    BY <1>4, <2>1, <2>2, <2>4, <2>6, <2>7, StepKeeps
<1> QED
  BY <1>3, <1>6, <1>7

(* The statements that follow.                                             *)
PurgesOn(r, c, stage) == \* r, called with c, goes from a purge to stage
    /\ c = call[r] /\ c \in Call /\ c # None /\ c.org \in Orgs /\ c.org \notin orgs
    /\ UNCHANGED orgs /\ pc[r] \in Purging /\ Keep(r, c, stage) /\ stage \in Purging

LEMMA PurgeMarks ==
    ASSUME IInv, NEW r \in Requests, NEW c \in Call, c = call[r], UNCHANGED <<adapter, options, vetted>>,
           cut' = cut \/ cut' = cut \cup {c.org}, Overtake(r, InFlight(c.org))
    PROVE  MarksMove(r)
<1>1. c.org \in Orgs
  BY DEF Call
<1> QED
  BY <1>1, Typed, SetsOfRequests DEF MarksMove, Overtake

LEMMA PurgeKeeps ==
    ASSUME IInv, NEW r \in Requests, NEW c, NEW stage, PurgesOn(r, c, stage), RowsMove(r), MarksMove(r),
           FitsOrgs(r, c, stage)'
    PROVE  IInv'
<1>1. Ends(r, c, stage)
  BY DEF PurgesOn, Ends, Purges
<1>2. Passes(r, c, stage)
  BY DEF PurgesOn, Passes, Purging, Joining
<1>3. Holds(r, c, stage)
  BY PurgeFits, PurgeForm DEF PurgesOn, Holds
<1> QED
  BY <1>1, <1>2, <1>3, StepKeeps DEF PurgesOn

LEMMA AtPurge ==
    ASSUME IInv, NEW r \in Requests, pc[r] \in Purging
    PROVE  /\ call[r] \in Call /\ call[r] # None /\ call[r].org \in Orgs /\ call[r].org \notin orgs
           /\ FitsOrgs(r, call[r], pc[r])
<1>1. call[r] \in Call /\ call[r] # None /\ Fit(r, call[r], pc[r])
  BY Stages1, AtStage
<1>2. call[r].org \in Orgs
  BY <1>1 DEF Call
<1> QED
  BY <1>1, <1>2 DEF Fit, FitsOrgs

LEMMA PurgeMembersKeeps ==
    ASSUME IInv, NEW r \in Requests, PurgeMembers(r)
    PROVE  IInv'
<1>1. pc[r] = "purgeMembers" /\ pc[r] \in Purging /\ "purgeInvitations" \in Purging
  BY DEF PurgeMembers, Purge, Purging
<1>2. PICK c \in Call : c = call[r]
  BY <1>1, AtPurge
<1>3. /\ PurgesOn(r, c, "purgeInvitations") /\ Overtake(r, InFlight(c.org))
      /\ UNCHANGED <<orgs, invitation, team, teamMember, role, adapter, options, vetted>>
      /\ \/ member' = Without(member, Members(c.org)) /\ cut' = cut
         \/ member' = member /\ cut' = cut \cup {c.org}
  BY <1>1, <1>2, AtPurge, GoKeep DEF PurgeMembers, Purge, Only, PurgesOn
<1>4. MarksMove(r)
  BY <1>2, <1>3, PurgeMarks
<1>5. MembersMove(r) /\ (c.org \in cut' \/ Members(c.org)' = {})
  BY <1>3, MembersOff, SameMembers
<1>6. FitsOrgs(r, c, "purgeInvitations")'
  BY <1>3, <1>5 DEF FitsOrgs, PurgesOn, Joining, Inserting, Inviting
<1> QED
  BY <1>3, <1>4, <1>5, <1>6, MemberRows, PurgeKeeps

LEMMA PurgeInvitationsKeeps ==
    ASSUME IInv, NEW r \in Requests, PurgeInvitations(r)
    PROVE  IInv'
<1>1. pc[r] = "purgeInvitations" /\ pc[r] \in Purging /\ "purgeTeams" \in Purging
  BY DEF PurgeInvitations, Purge, Purging
<1>2. PICK c \in Call : c = call[r]
  BY <1>1, AtPurge
<1>3. /\ PurgesOn(r, c, "purgeTeams") /\ Overtake(r, InFlight(c.org))
      /\ UNCHANGED <<orgs, member, team, teamMember, role, adapter, options, vetted>>
      /\ \/ invitation' = Without(invitation, InvitationsOf(c.org)) /\ cut' = cut
         \/ invitation' = invitation /\ cut' = cut \cup {c.org}
  BY <1>1, <1>2, AtPurge, GoKeep DEF PurgeInvitations, Purge, Only, PurgesOn
<1>4. MarksMove(r)
  BY <1>2, <1>3, PurgeMarks
<1>5. InvitationsMove(r) /\ (c.org \in cut' \/ InvitationsOf(c.org)' = {})
  BY <1>3, InvitationsOff, SameInvitations
<1>6. c.org \in cut \/ Members(c.org) \subseteq overtaken
  BY <1>1, <1>2, AtPurge DEF FitsOrgs
<1>7. c.org \in cut' \/ Members(c.org)' \subseteq overtaken'
  BY <1>3, <1>4, <1>6 DEF Members, MarksMove
<1>8. FitsOrgs(r, c, "purgeTeams")'
  BY <1>3, <1>5, <1>7 DEF FitsOrgs, PurgesOn, Joining, Inserting, Inviting
<1> QED
  BY <1>3, <1>4, <1>5, <1>8, InvitationRows, PurgeKeeps

LEMMA PurgeTeamsKeeps ==
    ASSUME IInv, NEW r \in Requests, PurgeTeams(r)
    PROVE  IInv'
<1>1. pc[r] = "purgeTeams" /\ pc[r] \in Purging /\ "purgeRoles" \in Purging
  BY DEF PurgeTeams, Purge, Purging
<1>2. PICK c \in Call : c = call[r]
  BY <1>1, AtPurge
<1>3. /\ PurgesOn(r, c, "purgeRoles") /\ Overtake(r, InFlight(c.org))
      /\ UNCHANGED <<orgs, member, invitation, teamMember, role, adapter, options, vetted>>
      /\ \/ team' = Without(team, TeamsOf(c.org)) /\ cut' = cut
         \/ team' = team /\ cut' = cut \cup {c.org}
  BY <1>1, <1>2, AtPurge, GoKeep DEF PurgeTeams, Purge, Only, PurgesOn
<1>4. MarksMove(r)
  BY <1>2, <1>3, PurgeMarks
<1>5. TeamsMove(r) /\ (c.org \in cut' \/ TeamsOf(c.org)' = {})
  BY <1>3, TeamsOff, SameTeams DEF PurgesOn
<1>6. c.org \in cut \/ (Members(c.org) \subseteq overtaken /\ InvitationsOf(c.org) \subseteq overtaken)
  BY <1>1, <1>2, AtPurge DEF FitsOrgs
<1>7. c.org \in cut' \/ (Members(c.org)' \subseteq overtaken' /\ InvitationsOf(c.org)' \subseteq overtaken')
  BY <1>3, <1>4, <1>6 DEF Members, InvitationsOf, MarksMove
<1>8. FitsOrgs(r, c, "purgeRoles")'
  BY <1>3, <1>5, <1>7 DEF FitsOrgs, PurgesOn, Joining, Inserting, Inviting
<1> QED
  BY <1>3, <1>4, <1>5, <1>8, TeamRows, PurgeKeeps

LEMMA PurgeRolesKeeps ==
    ASSUME IInv, NEW r \in Requests, PurgeRoles(r)
    PROVE  IInv'
<1>1. pc[r] = "purgeRoles" /\ pc[r] \in Purging
  BY DEF PurgeRoles, Purge, Purging
<1>2. PICK c \in Call : c = call[r] /\ c # None /\ c.org \in Orgs
  BY <1>1, AtPurge
<1>3. /\ Overtake(r, InFlight(c.org)) /\ Keep(r, None, "done")
      /\ UNCHANGED <<orgs, member, invitation, team, teamMember, adapter, options, vetted>>
      /\ \/ role' = Without(role, RolesOf(c.org)) /\ cut' = cut
         \/ role' = role /\ cut' = cut \cup {c.org}
  BY <1>1, <1>2 DEF PurgeRoles, Purge, Only, Return
<1>4. MarksMove(r)
  BY <1>2, <1>3, PurgeMarks
<1>5. RolesMove(r) /\ (c.org \in cut' \/ RolesOf(c.org)' = {})
  BY <1>3, RolesOff, SameRoles
<1>6. \/ c.org \in cut
      \/ Members(c.org) \cup InvitationsOf(c.org) \cup TeamsOf(c.org) \subseteq overtaken
  BY <1>1, <1>2, AtPurge DEF FitsOrgs
<1>7. \/ c.org \in cut'
      \/ (Members(c.org) \cup InvitationsOf(c.org) \cup TeamsOf(c.org))' \subseteq overtaken'
  BY <1>3, <1>4, <1>6 DEF Members, InvitationsOf, TeamsOf, MarksMove
<1>8. c.org \in cut' \/ RowsLeft(c.org)' \subseteq overtaken'
  BY <1>5, <1>7 DEF RowsLeft
<1>9. Ends(r, None, "done")
  BY <1>2, <1>3, <1>8 DEF Ends, Purges
<1>10. Passes(r, None, "done") /\ Holds(r, None, "done")
  BY DEF Passes, Holds, Joining
<1> QED
  BY <1>3, <1>4, <1>5, <1>9, <1>10, RoleRows, StepKeeps

-----------------------------------------------------------------------------
(* Invitations: made, accepted, turned down.                               *)
LEMMA OfOrg ==
    ASSUME IInv, NEW o, NEW n
    PROVE  /\ n \in Members(o) => n \in Names /\ member[n] \in MemberRow /\ member[n].org = o
           /\ n \in InvitationsOf(o) => n \in Names /\ invitation[n] \in InvitationRow
           /\ n \in TeamsOf(o) \cup {None} => n \in Names \cup {None}
           /\ n \in RolesOf(o) => n \in Names /\ role[n] \in RoleRow /\ role[n].org = o
BY Typed DEF Members, InvitationsOf, TeamsOf, RolesOf

LEMMA InRowsLeft ==
    ASSUME NEW o, Members(o) # {} \/ InvitationsOf(o) # {} \/ TeamsOf(o) # {} \/ RolesOf(o) # {}
    PROVE  RowsLeft(o) # {}
BY DEF RowsLeft

LEMMA VetMarks ==
    ASSUME IInv, NEW r \in Requests, NEW n, Vet(r, n), UNCHANGED <<adapter, options, overtaken, cut>>
    PROVE  MarksMove(r) /\ (Owns(n) => r \in vetted')
BY Typed DEF MarksMove, Vet

LEMMA InviteMemberKeeps ==
    ASSUME IInv, NEW r \in Requests, NEW u \in Users, NEW o \in Orgs, NEW e \in Users, NEW value \in RoleSets,
           NEW t \in TeamsOf(o) \cup {None}, InviteMember(r, u, o, e, value, t)
    PROVE  IInv'
<1>1. PICK n : n \in RowsOf(o, u) /\ ("owner" \in value => Owns(n)) /\ Vet(r, n)
  BY DEF InviteMember
<1>2. /\ pc[r] = "idle" /\ Fresh(r) /\ o \in orgs
      /\ UNCHANGED rows /\ UNCHANGED <<adapter, options, overtaken, cut>>
  BY AtIdle DEF InviteMember, Begin, Only
<1>3. PICK c \in Call : /\ c = [Ask(o, e) EXCEPT !.role = value, !.team = t]
                        /\ c.org = o /\ c.role = value /\ c.id = None
  <2>1. t \in Names \cup {None}
    BY OfOrg
  <2>2. [Ask(o, e) EXCEPT !.role = value, !.team = t] \in Call
    BY <2>1 DEF Ask, Call
  <2> QED
    BY <2>2 DEF Ask
<1>4. Keep(r, c, "findPending")
  BY <1>3 DEF InviteMember, Begin
<1>5. MarksMove(r) /\ ("owner" \in value => r \in vetted')
  BY <1>1, <1>2, VetMarks
<1>6. Form(r, c, "findPending")
  BY <1>3 DEF Form, Stages, Accepting, Targeting, Inviting
<1>7. FitsNames(r, c, "findPending")
  BY <1>2 DEF FitsNames, Fresh, Joining, Targeting
<1>8. FitsOrgs(r, c, "findPending")
  BY <1>2, <1>3 DEF FitsOrgs, Joining, Purging
<1>9. FitsInvitations(r, c, "findPending")
  BY DEF FitsInvitations, Accepting, Joined
<1>10. FitsOwners(r, c, "findPending")'
  BY <1>3, <1>5 DEF FitsOwners, Accepting
<1> QED
  BY <1>2, <1>3, <1>4, <1>5, <1>6, <1>7, <1>8, <1>9, <1>10, VetKeeps

(* From stage to stage of an invitation that is being made.                *)
LEMMA InvitingFits ==
    ASSUME IInv, NEW r \in Requests, pc[r] \in Inviting, NEW c \in Call, NEW stage \in Inviting,
           c.org = call[r].org, c.role = call[r].role, stage = "cancelPending" => c.id \in Names
    PROVE  Form(r, c, stage) /\ Fit(r, c, stage)
<1>1. Form(r, call[r], pc[r]) /\ Fit(r, call[r], pc[r])
  BY Stages1, AtStage
<1>2. c.role \in RoleSets
  BY <1>1 DEF Form
<1>3. Form(r, c, stage)
  BY <1>2 DEF Form, Stages, Accepting, Targeting, Inviting
<1>4. FitsNames(r, c, stage)
  BY <1>1 DEF Fit, FitsNames, Joining, Targeting, Inviting
<1>5. FitsOrgs(r, c, stage)
  BY <1>1, Stages1 DEF Fit, FitsOrgs, Joining, Purging, Inviting
<1>6. FitsOwners(r, c, stage)
  BY <1>1 DEF Fit, FitsOwners, Accepting, Inviting
<1>7. FitsInvitations(r, c, stage)
  BY DEF FitsInvitations, Accepting, Joined, Inviting
<1> QED
  BY <1>3, <1>4, <1>5, <1>6, <1>7 DEF Fit

LEMMA PendingInvitationKeeps ==
    ASSUME IInv, NEW r \in Requests, PendingInvitation(r)
    PROVE  IInv'
<1>1. /\ pc[r] = "findPending" /\ pc[r] \notin Purging \cup {"idle", "done"} /\ pc[r] \in Inviting
      /\ UNCHANGED rows /\ UNCHANGED ghosts /\ UNCHANGED <<adapter, options>>
  BY DEF PendingInvitation, Only, Purging, Inviting
<1>2. PICK c \in Call : c = call[r]
  BY <1>1, AtStage
<1>3. CASE Go(r, "countInvitations")
  <2>1. "countInvitations" \in Inviting /\ "countInvitations" \notin Joining
    BY DEF Inviting, Joining
  <2>2. Form(r, c, "countInvitations") /\ Fit(r, c, "countInvitations")
    BY <1>1, <1>2, <2>1, InvitingFits
  <2> QED
    BY <1>1, <1>2, <1>3, <2>1, <2>2, GoKeep, QuietGoKeeps
<1>4. ASSUME NEW n \in Names, NEW stage \in {"cancelPending", "resend"},
             Keep(r, [call[r] EXCEPT !.id = n], stage)
      PROVE  IInv'
  <2>1. PICK d \in Call : d = [c EXCEPT !.id = n] /\ d.org = c.org /\ d.role = c.role /\ d.id = n
    <3>1. [c EXCEPT !.id = n] \in Call
      BY DEF Call
    <3> QED
      BY <3>1 DEF Call
  <2>2. Keep(r, d, stage)
    BY <1>2, <1>4, <2>1
  <2>3. stage \notin Joining /\ stage # "createRole"
    BY DEF Joining
  <2>4. Form(r, d, stage) /\ Fit(r, d, stage)
    <3>1. CASE stage = "cancelPending"
      BY <1>1, <1>2, <2>1, <3>1, InvitingFits DEF Inviting
    <3>2. CASE stage = "resend"
      <4>1. Form(r, d, "resend")
        BY <2>1 DEF Form, Stages, Accepting, Targeting, Inviting
      <4>2. Fit(r, d, "resend")
        BY DEF Fit, FitsNames, FitsOrgs, FitsOwners, FitsInvitations, Joining, Inviting, Inserting,
               Targeting, Purging, Accepting, Joined
      <4> QED
        BY <3>2, <4>1, <4>2
    <3> QED
      BY <3>1, <3>2
  <2> QED
    BY <1>1, <1>2, <2>1, <2>2, <2>3, <2>4, QuietGoKeeps
<1>5. \/ Go(r, "countInvitations")
      \/ \E n \in Names, stage \in {"cancelPending", "resend"} : Keep(r, [call[r] EXCEPT !.id = n], stage)
  <2>1. Pending(call[r].org) \subseteq Names
    BY DEF Pending, InvitationsOf
  <2> QED
    BY <2>1 DEF PendingInvitation
<1> QED
  BY <1>3, <1>4, <1>5

LEMMA organizationInvitationLimitKeeps ==
    ASSUME IInv, NEW r \in Requests, organizationInvitationLimit(r)
    PROVE  IInv'
<1>1. /\ pc[r] = "countInvitations" /\ pc[r] \notin Purging \cup {"idle", "done"} /\ pc[r] \in Inviting
      /\ UNCHANGED rows /\ UNCHANGED ghosts /\ UNCHANGED <<adapter, options>>
      /\ Go(r, "createInvitation") /\ "createInvitation" \in Inviting /\ "createInvitation" \notin Joining
  BY DEF organizationInvitationLimit, Only, Purging, Inviting, Joining
<1>2. PICK c \in Call : c = call[r]
  BY <1>1, AtStage
<1>3. Form(r, c, "createInvitation") /\ Fit(r, c, "createInvitation")
  BY <1>1, <1>2, InvitingFits
<1> QED
  BY <1>1, <1>2, <1>3, GoKeep, QuietGoKeeps

LEMMA UpdateInvitationExpiresAtKeeps ==
    ASSUME IInv, NEW r \in Requests, UpdateInvitationExpiresAt(r)
    PROVE  IInv'
<1>1. PICK c \in Call : c = call[r] /\ c.id \in Names
  BY AtStage DEF UpdateInvitationExpiresAt, Form
<1>2. PICK i \in Names : i = c.id
  BY <1>1
<1>3. /\ pc[r] = "resend" /\ pc[r] \notin Purging /\ invitation[i] # None
      /\ invitation' = [invitation EXCEPT ![i].lapsed = FALSE] /\ Return(r)
      /\ UNCHANGED <<orgs, member, team, teamMember, role, ghosts, adapter, options>>
  BY <1>1, <1>2 DEF UpdateInvitationExpiresAt, Only, Purging
<1>4. PICK w \in InvitationRow : w = invitation[i]
  BY <1>3, Typed
<1>5. PICK v \in InvitationRow :
         v = [w EXCEPT !.lapsed = FALSE] /\ v.org = w.org /\ v.role = w.role /\ v.status = w.status
  <2>1. /\ [w EXCEPT !.lapsed = FALSE] \in InvitationRow
        /\ [w EXCEPT !.lapsed = FALSE].org = w.org /\ [w EXCEPT !.lapsed = FALSE].role = w.role
        /\ [w EXCEPT !.lapsed = FALSE].status = w.status
    BY DEF InvitationRow
  <2> QED
    BY <2>1
<1>6. invitation' = [invitation EXCEPT ![i] = v]
  BY <1>3, <1>4, <1>5
<1>7. /\ invitation' \in [Names -> InvitationRow \cup {None}]
      /\ \A n \in Names : invitation'[n] = IF n = i THEN v ELSE invitation[n]
  BY <1>6, Typed
<1>8. InvitationsMove(r)
  <2>1. \A n \in Names : invitation'[n] # None => SameInvitation(n)
    BY <1>3, <1>4, <1>5, <1>7 DEF SameInvitation
  <2>2. \A j \in Names : Open(j) => Open(j)'
    BY <1>3, <1>4, <1>5, <1>7 DEF Open
  <2> QED
    BY <1>7, <2>1, <2>2 DEF InvitationsMove
<1> QED
  BY <1>3, <1>8, InvitationRows, SameMarks, ReturnKeeps

(* Writes of an invitation's status.                                       *)
LEMMA StatusRows ==
    ASSUME IInv, NEW r \in Requests, NEW i \in Names,
           NEW status \in {"pending", "accepted", "rejected", "canceled"},
           UpdateInvitationStatus(i, status), Overtake(r, Deciding(i)),
           Only(<<orgs, member, team, teamMember, role, vetted, cut>>)
    PROVE  /\ RowsMove(r) /\ InvitationsMove(r) /\ MarksMove(r) /\ orgs' = orgs
           /\ UNCHANGED <<member, team, vetted>>
<1>1. UNCHANGED <<orgs, member, team, teamMember, role, vetted, cut, adapter, options>>
  BY DEF Only
<1>2. MarksMove(r)
  BY <1>1, SetsOfRequests, OvertakeMarks
<1> QED
  BY <1>1, <1>2, InvitationStatus, InvitationRows

LEMMA CancelPendingKeeps ==
    ASSUME IInv, NEW r \in Requests, CancelPending(r)
    PROVE  IInv'
<1>1. /\ pc[r] = "cancelPending" /\ pc[r] \notin Purging \cup {"idle", "done"} /\ pc[r] \in Inviting
      /\ "countInvitations" \in Inviting /\ "countInvitations" \notin Joining
  BY DEF CancelPending, Purging, Inviting, Joining
<1>2. PICK c \in Call : c = call[r] /\ c.id \in Names
  BY <1>1, AtStage DEF Form
<1>3. PICK i \in Names : i = c.id
  BY <1>2
<1>4. RowsMove(r) /\ InvitationsMove(r) /\ MarksMove(r) /\ orgs' = orgs /\ UNCHANGED <<member, team, vetted>>
  BY <1>2, <1>3, StatusRows DEF CancelPending
<1>5. PICK d \in Call : d = [c EXCEPT !.id = None] /\ d.org = c.org /\ d.role = c.role
  <2>1. [c EXCEPT !.id = None] \in Call
    BY DEF Call
  <2> QED
    BY <2>1 DEF Call
<1>6. Keep(r, d, "countInvitations")
  BY <1>2, <1>5 DEF CancelPending
<1>7. Form(r, d, "countInvitations") /\ Fit(r, d, "countInvitations")
  BY <1>1, <1>2, <1>5, InvitingFits
<1>8. FitsNames(r, d, "countInvitations")'
  <2>1. invitation[r] = None /\ r \in Names
    BY <1>1, <1>7, RequestIn DEF Fit, FitsNames
  <2>2. invitation'[r] = None
    BY <1>1, <1>4, <2>1 DEF InvitationsMove, SameInvitation, Invites
  <2> QED
    BY <2>2 DEF FitsNames, Joining, Targeting
<1>9. FitsOrgs(r, d, "countInvitations")'
  BY <1>4, <1>7, Stages1 DEF Fit, FitsOrgs, MarksMove, Joining, Purging
<1>10. FitsOwners(r, d, "countInvitations")'
  BY <1>4, <1>7, QuietOwners DEF Fit
<1>11. FitsInvitations(r, d, "countInvitations")'
  BY DEF FitsInvitations, Accepting, Joined
<1>12. Fit(r, d, "countInvitations")'
  BY <1>8, <1>9, <1>10, <1>11 DEF Fit
<1> QED
  BY <1>1, <1>2, <1>4, <1>5, <1>6, <1>7, <1>12, GoKeeps

LEMMA CreateInvitationKeeps ==
    ASSUME IInv, NEW r \in Requests, CreateInvitation(r)
    PROVE  IInv'
<1>1. pc[r] = "createInvitation" /\ pc[r] \notin Purging /\ pc[r] \in Inviting
  BY DEF CreateInvitation, Purging, Inviting
<1>2. PICK c \in Call : c = call[r] /\ c # None /\ c.role \in RoleSets
  BY <1>1, AtStage DEF Form
<1>3. PICK v \in InvitationRow :
        /\ v = [org |-> c.org, email |-> c.user, role |-> c.role, team |-> c.team,
                status |-> "pending", lapsed |-> FALSE]
        /\ v.org = c.org /\ v.role = c.role /\ v.status = "pending"
  <2>1. c.org \in Orgs /\ c.user \in Users /\ c.team \in Names \cup {None}
    BY DEF Call
  <2>2. [org |-> c.org, email |-> c.user, role |-> c.role, team |-> c.team,
         status |-> "pending", lapsed |-> FALSE] \in InvitationRow
    BY <1>2, <2>1 DEF InvitationRow
  <2> QED
    BY <2>2
<1>4. /\ invitation' = [invitation EXCEPT ![r] = v] /\ Return(r)
      /\ UNCHANGED <<orgs, member, team, teamMember, role, ghosts, adapter, options>>
  BY <1>2, <1>3 DEF CreateInvitation, Only
<1>5. /\ invitation' \in [Names -> InvitationRow \cup {None}]
      /\ \A n \in Names : invitation'[n] = IF n = r THEN v ELSE invitation[n]
  BY <1>4, Typed
<1>6. r \in Names /\ Invites(r)
  BY <1>1, <1>2, <1>3, <1>5, RequestIn DEF Invites
<1>7. InvitationsMove(r)
  <2>1. \A n \in Names : invitation'[n] # None => SameInvitation(n) \/ (n = r /\ Invites(r))
    BY <1>5, <1>6 DEF SameInvitation
  <2>2. \A j \in Names : Open(j) => Open(j)'
    BY <1>3, <1>5 DEF Open
  <2> QED
    BY <1>5, <2>1, <2>2 DEF InvitationsMove
<1> QED
  BY <1>1, <1>4, <1>7, InvitationRows, SameMarks, ReturnKeeps

-----------------------------------------------------------------------------
(* What a handler has asked for when it begins.                            *)
LEMMA IdleFits ==
    ASSUME NEW r, NEW c, NEW stage,
           stage \notin Joining \cup Inviting \cup Targeting \cup Inserting \cup Purging \cup Accepting \cup Joined,
           stage # "updateRole"
    PROVE  Fit(r, c, stage) /\ Fit(r, c, stage)'
<1>1. stage \notin {"createRole", "findRoleTarget", "deleteMember", "setRole"}
  BY DEF Inserting, Targeting
<1> QED
  BY <1>1 DEF Fit, FitsNames, FitsOrgs, FitsOwners, FitsInvitations

LEMMA AcceptInvitationKeeps ==
    ASSUME IInv, NEW r \in Requests, NEW u \in Users, NEW i \in Names, AcceptInvitation(r, u, i)
    PROVE  IInv'
<1>1. /\ pc[r] = "idle" /\ Fresh(r) /\ ForAddressee(i, u) /\ invitation[i] # None
      /\ UNCHANGED rows /\ UNCHANGED ghosts /\ UNCHANGED <<adapter, options>>
  BY AtIdle DEF AcceptInvitation, Begin, Only
<1>2. PICK v \in InvitationRow : v = invitation[i]
  BY <1>1, Typed
<1>3. PICK c \in Call : /\ c = [Ask(v.org, u) EXCEPT !.id = i, !.role = v.role, !.team = v.team]
                        /\ c.org = v.org /\ c.role = v.role /\ c.id = i
  <2>1. v.org \in Orgs /\ v.role \in RoleSets /\ v.team \in Names \cup {None}
    BY DEF InvitationRow
  <2>2. [Ask(v.org, u) EXCEPT !.id = i, !.role = v.role, !.team = v.team] \in Call
    BY <2>1 DEF Ask, Call
  <2> QED
    BY <2>2 DEF Ask
<1>4. Begin(r, c, "checkJoin")
  BY <1>2, <1>3 DEF AcceptInvitation
<1>5. i \in InvitationsOf(v.org) /\ v.role \in RoleSets
  BY <1>1, <1>2 DEF InvitationsOf, InvitationRow
<1>6. RowsLeft(c.org) # {} /\ c.org # r
  BY <1>1, <1>3, <1>5, InRowsLeft DEF Fresh
<1>7. Form(r, c, "checkJoin")
  BY <1>3, <1>5, <1>6 DEF Form, Stages, Joining, Accepting, Targeting, Inviting
<1>8. Fit(r, c, "checkJoin")
  <2>1. FitsNames(r, c, "checkJoin")
    BY <1>1 DEF FitsNames, Fresh, Inviting, Targeting
  <2>2. FitsOrgs(r, c, "checkJoin")
    BY DEF FitsOrgs, Inserting, Inviting, Purging
  <2>3. FitsOwners(r, c, "checkJoin")
    BY <1>1, <1>2, <1>3 DEF FitsOwners, Inviting, IInv, OwnersInvite
  <2>4. FitsInvitations(r, c, "checkJoin")
    BY <1>1, <1>3 DEF FitsInvitations, Open, ForAddressee, Pending
  <2> QED
    BY <2>1, <2>2, <2>3, <2>4 DEF Fit
<1> QED
  BY <1>1, <1>4, <1>6, <1>7, <1>8, BeginKeeps

LEMMA TurnDownKeeps ==
    ASSUME IInv, NEW r \in Requests, NEW u \in Users, NEW i \in Names, NEW stage \in {"reject", "cancel"},
           invitation[i] # None, invitation[i].org \in orgs,
           Begin(r, [Ask(invitation[i].org, u) EXCEPT !.id = i], stage), Only(<<rows, ghosts>>)
    PROVE  IInv'
<1>1. PICK o \in orgs : o = invitation[i].org
  OBVIOUS
<1>2. PICK c \in Call : c = [Ask(o, u) EXCEPT !.id = i] /\ c.org = o /\ c.id = i
  <2>1. [Ask(o, u) EXCEPT !.id = i] \in Call
    BY Typed DEF Ask, Call
  <2> QED
    BY <2>1 DEF Ask
<1>3. Begin(r, c, stage)
  BY <1>1, <1>2
<1>4. Form(r, c, stage)
  BY <1>2 DEF Form, Stages, Holding, Accepting, Targeting, Inviting
<1>5. Fit(r, c, stage)
  BY IdleFits DEF Joining, Inviting, Targeting, Inserting, Purging, Accepting, Joined
<1> QED
  BY <1>1, <1>2, <1>3, <1>4, <1>5, BeginKeeps DEF Only

LEMMA RejectInvitationKeeps ==
    ASSUME IInv, NEW r \in Requests, NEW u \in Users, NEW i \in Names, RejectInvitation(r, u, i)
    PROVE  IInv'
BY TurnDownKeeps DEF RejectInvitation

LEMMA CancelInvitationKeeps ==
    ASSUME IInv, NEW r \in Requests, NEW u \in Users, NEW i \in Names, CancelInvitation(r, u, i)
    PROVE  IInv'
BY TurnDownKeeps DEF CancelInvitation

(* The stages of an acceptance.                                            *)
LEMMA AtAccepting ==
    ASSUME IInv, NEW r \in Requests, pc[r] \in Accepting
    PROVE  /\ pc[r] \notin Purging \cup {"idle", "done"} /\ r \in Names /\ member[r] = None
           /\ call[r] \in Call /\ call[r].id \in Names /\ call[r].org # r /\ call[r].role \in RoleSets
           /\ "owner" \in call[r].role => call[r].id \in OldRows \cup vetted
           /\ Open(call[r].id) \/ r \in overtaken
<1>1. pc[r] \notin Purging \cup {"idle", "done"} /\ pc[r] \in Joining
  BY DEF Accepting, Purging, Joining
<1>2. call[r] \in Call /\ Form(r, call[r], pc[r]) /\ Fit(r, call[r], pc[r])
  BY <1>1, AtStage
<1>3. call[r].id \in Names /\ call[r].org # r /\ call[r].role \in RoleSets
  BY <1>2 DEF Form
<1>4. member[r] = None /\ ("owner" \in call[r].role => call[r].id \in OldRows \cup vetted)
  BY <1>1, <1>2 DEF Fit, FitsNames, FitsOwners
<1>5. Open(call[r].id) \/ r \in overtaken
  BY <1>2, <1>3, NameAssumption DEF Fit, FitsInvitations
<1> QED
  BY <1>1, <1>2, <1>3, <1>4, <1>5, RequestIn

(* What must hold of a request that is marking its invitation, or joining. *)
LEMMA AcceptFits ==
    ASSUME NEW r, NEW c \in Call, NEW stage \in {"markAccepted", "join"},
           c.id \in Names, c.org # r, c.role \in RoleSets
    PROVE  /\ Form(r, c, stage)
           /\ (/\ member[r] = None
               /\ "owner" \in c.role => c.id \in OldRows \cup vetted
               /\ RowsOf(c.org, c.user) = {} \/ r \in overtaken
               /\ c.org \in orgs \/ r \in overtaken
               /\ Open(c.id) \/ r \in overtaken) => Fit(r, c, stage)
<1>1. Form(r, c, stage)
  BY DEF Form, Stages, Joining, Accepting, Targeting, Inviting
<1>2. ASSUME member[r] = None PROVE FitsNames(r, c, stage)
  BY <1>2 DEF FitsNames, Inviting, Targeting
<1>3. ASSUME RowsOf(c.org, c.user) = {} \/ r \in overtaken, c.org \in orgs \/ r \in overtaken
      PROVE  FitsOrgs(r, c, stage)
  BY <1>3 DEF FitsOrgs, Purging
<1>4. ASSUME "owner" \in c.role => c.id \in OldRows \cup vetted PROVE FitsOwners(r, c, stage)
  BY <1>4 DEF FitsOwners, Inviting
<1>5. ASSUME Open(c.id) \/ r \in overtaken PROVE FitsInvitations(r, c, stage)
  BY <1>5 DEF FitsInvitations
<1> QED
  BY <1>1, <1>2, <1>3, <1>4, <1>5 DEF Fit

LEMMA AcceptCheckKeeps ==
    ASSUME IInv, NEW r \in Requests, AcceptCheck(r)
    PROVE  IInv'
<1>1. /\ pc[r] = "checkJoin" /\ pc[r] \in Accepting /\ pc[r] \in Joining
      /\ MayJoin(call[r].org, call[r].user, call[r].team) /\ Go(r, "markAccepted")
      /\ UNCHANGED rows /\ UNCHANGED ghosts /\ UNCHANGED <<adapter, options>>
  BY DEF AcceptCheck, Accepting, Joining, Only
<1>2. PICK c \in Call : c = call[r] /\ c.id \in Names /\ c.org # r /\ c.role \in RoleSets
  BY <1>1, AtAccepting
<1>3. Keep(r, c, "markAccepted")
  BY <1>1, <1>2, GoKeep
<1>4. c.org \in orgs /\ RowsOf(c.org, c.user) = {}
  BY <1>1, <1>2 DEF MayJoin
<1>5. Form(r, c, "markAccepted") /\ Fit(r, c, "markAccepted")
  BY <1>1, <1>2, <1>4, AtAccepting, AcceptFits
<1> QED
  BY <1>1, <1>2, <1>3, <1>5, AtAccepting, QuietGoKeeps

(* The user is not a member, or the request was overtaken, while it has    *)
(* still to write the row.                                                 *)
LEMMA AtJoining ==
    ASSUME IInv, NEW r \in Requests, pc[r] \in Joining \ {"checkJoin"}
    PROVE  /\ RowsOf(call[r].org, call[r].user) = {} \/ r \in overtaken
           /\ call[r].org \in orgs \/ r \in overtaken
           /\ member[r] = None
<1>1. Fit(r, call[r], pc[r])
  BY Stages1, AtStage
<1> QED
  BY <1>1, Stages1 DEF Fit, FitsOrgs, FitsNames

LEMMA MarkAcceptedKeeps ==
    ASSUME IInv, NEW r \in Requests, MarkAccepted(r)
    PROVE  IInv'
<1>1. /\ pc[r] = "markAccepted" /\ pc[r] \in Accepting /\ pc[r] \in Joining \ {"checkJoin"}
      /\ Go(r, "join") /\ UpdateInvitationStatus(call[r].id, "accepted")
  BY DEF MarkAccepted, Accepting, Joining
<1>2. PICK c \in Call : c = call[r] /\ c.id \in Names /\ c.org # r /\ c.role \in RoleSets
  BY <1>1, AtAccepting
<1>3. PICK i \in Names : i = c.id
  BY <1>2
<1>4. Keep(r, c, "join") /\ RowsMove(r) /\ MarksMove(r) /\ orgs' = orgs /\ UNCHANGED <<member, vetted>>
  BY <1>1, <1>2, <1>3, GoKeep, StatusRows DEF MarkAccepted
<1>5. Open(i)'
  BY <1>1, <1>2, <1>3, Typed DEF UpdateInvitationStatus, Open, InvitationRow
<1>6. RowsOf(c.org, c.user)' = RowsOf(c.org, c.user) /\ overtaken \subseteq overtaken'
  BY <1>4 DEF RowsOf, Members, MarksMove
<1>7. /\ member'[r] = None
      /\ "owner" \in c.role => c.id \in OldRows \cup vetted'
      /\ RowsOf(c.org, c.user)' = {} \/ r \in overtaken'
      /\ c.org \in orgs' \/ r \in overtaken'
  BY <1>1, <1>2, <1>4, <1>6, AtAccepting, AtJoining
<1>8. Form(r, c, "join")
  BY <1>2, AcceptFits
<1>9. Fit(r, c, "join")'
  <2>1. FitsNames(r, c, "join")'
    BY <1>7 DEF FitsNames, Inviting, Targeting
  <2>2. FitsOrgs(r, c, "join")'
    BY <1>7 DEF FitsOrgs, Purging
  <2>3. FitsOwners(r, c, "join")'
    BY <1>7 DEF FitsOwners, Inviting
  <2>4. FitsInvitations(r, c, "join")'
    BY <1>3, <1>5 DEF FitsInvitations
  <2> QED
    BY <2>1, <2>2, <2>3, <2>4 DEF Fit
<1> QED
  BY <1>1, <1>2, <1>4, <1>8, <1>9, AtAccepting, GoKeeps DEF Joining

(* Stages after the member row, or after the attempt at it.                *)
LEMMA JoinedFits ==
    ASSUME NEW r, NEW c \in Call, NEW stage \in Joined,
           stage = "joinTeam" => c.org # r /\ c.team \in Names, c.id \in Names
    PROVE  /\ Form(r, c, stage)
           /\ (Open(c.id) \/ r \in overtaken) => Fit(r, c, stage)
           /\ (Open(c.id)' \/ r \in overtaken') => Fit(r, c, stage)'
<1>1. Form(r, c, stage)
  BY DEF Form, Stages, Holding, Joined, Accepting, Targeting, Inviting
<1>2. FitsNames(r, c, stage) /\ FitsOrgs(r, c, stage) /\ FitsOwners(r, c, stage)
  BY DEF FitsNames, FitsOrgs, FitsOwners, Joined, Joining, Inserting, Inviting, Targeting, Purging, Accepting
<1>3. FitsNames(r, c, stage)' /\ FitsOrgs(r, c, stage)' /\ FitsOwners(r, c, stage)'
  BY DEF FitsNames, FitsOrgs, FitsOwners, Joined, Joining, Inserting, Inviting, Targeting, Purging, Accepting
<1> QED
  BY <1>1, <1>2, <1>3 DEF Fit, FitsInvitations

LEMMA AcceptJoinKeeps ==
    ASSUME IInv, NEW r \in Requests, AcceptJoin(r)
    PROVE  IInv'
<1>1. /\ pc[r] = "join" /\ pc[r] \in Accepting /\ pc[r] \in Joining \ {"checkJoin"}
      /\ UNCHANGED <<orgs, invitation, team, teamMember, role, vetted, cut, adapter, options>>
  BY DEF AcceptJoin, Accepting, Joining, Only
<1>2. PICK c \in Call : /\ c = call[r] /\ c.id \in Names /\ c.org # r /\ c.role \in RoleSets
                        /\ Open(c.id) \/ r \in overtaken
  BY <1>1, AtAccepting
<1>3. CASE /\ InsertMember(r, c.role) /\ Overtake(r, AboutToJoin(c.org, c.user))
           /\ Return(r) \/ (c.team # None /\ Go(r, "joinTeam"))
  <2>1. MembersMove(r) /\ MarksMove(r)
    BY <1>1, <1>2, <1>3, MemberInserted, SetsOfRequests, OvertakeMarks
  <2>2. RowsMove(r) /\ orgs' = orgs
    BY <1>1, <2>1, MemberRows
  <2>3. CASE Return(r)
    BY <1>1, <2>1, <2>2, <2>3, AtAccepting, ReturnKeeps
  <2>4. CASE c.team # None /\ Go(r, "joinTeam")
    <3>1. Keep(r, c, "joinTeam") /\ c.team \in Names
      BY <1>2, <2>4, GoKeep DEF Call
    <3>2. "joinTeam" \in Joined /\ "joinTeam" \notin Joining
      BY DEF Joined, Joining
    <3>3. Open(c.id)' \/ r \in overtaken'
      BY <1>1, <1>2, <2>1 DEF Open, MarksMove
    <3>4. Form(r, c, "joinTeam") /\ Fit(r, c, "joinTeam")'
      BY <1>2, <3>1, <3>2, <3>3, JoinedFits
    <3> QED
      BY <1>1, <1>2, <2>1, <2>2, <3>1, <3>2, <3>4, AtAccepting, GoKeeps
  <2> QED
    BY <1>3, <2>3, <2>4
<1>4. CASE Go(r, "reopen") /\ UNCHANGED <<member, overtaken>>
  <2>1. Keep(r, c, "reopen") /\ "reopen" \in Joined /\ "reopen" \notin Joining
    BY <1>2, <1>4, GoKeep DEF Joined, Joining
  <2>2. Form(r, c, "reopen") /\ Fit(r, c, "reopen")
    BY <1>2, <2>1, JoinedFits
  <2> QED
    BY <1>1, <1>2, <1>4, <2>1, <2>2, AtAccepting, QuietGoKeeps DEF rows, ghosts
<1> QED
  BY <1>2, <1>3, <1>4 DEF AcceptJoin

LEMMA createInvitationTeamMembershipsKeeps ==
    ASSUME IInv, NEW r \in Requests, createInvitationTeamMemberships(r)
    PROVE  IInv'
<1>1. /\ pc[r] = "joinTeam" /\ pc[r] \notin Purging \cup {"idle", "done"}
      /\ UNCHANGED <<orgs, member, invitation, team, role, ghosts, adapter, options>>
  BY DEF createInvitationTeamMemberships, Only, Purging
<1>2. PICK c \in Call : c = call[r] /\ c.id \in Names /\ c.team \in Names /\ (Open(c.id) \/ r \in overtaken)
  <2>1. Form(r, call[r], "joinTeam") /\ Fit(r, call[r], "joinTeam") /\ call[r] \in Call
    BY <1>1, AtStage
  <2>2. call[r].id \in Names /\ call[r].team \in Names /\ call[r].id # None
    BY <2>1, NameAssumption DEF Form
  <2>3. Open(call[r].id) \/ r \in overtaken
    BY <2>1, <2>2 DEF Fit, FitsInvitations, Joined
  <2> QED
    BY <2>1, <2>2, <2>3
<1>3. MarksMove(r)
  BY <1>1, SameMarks
<1>4. CASE UNCHANGED teamMember /\ Return(r)
  BY <1>1, <1>3, <1>4, SameTeams, TeamRows, ReturnKeeps
<1>5. CASE InsertTeamMember(r) /\ Return(r)
  BY <1>1, <1>2, <1>3, <1>5, TeamMemberInserted, TeamRows, ReturnKeeps
<1>6. CASE Go(r, "dropMember") /\ UNCHANGED teamMember
  <2>1. Keep(r, c, "dropMember") /\ "dropMember" \in Joined /\ "dropMember" \notin Joining
    BY <1>2, <1>6, GoKeep DEF Joined, Joining
  <2>2. Form(r, c, "dropMember") /\ Fit(r, c, "dropMember")
    BY <1>2, <2>1, JoinedFits
  <2> QED
    BY <1>1, <1>2, <1>6, <2>1, <2>2, QuietGoKeeps DEF rows
<1> QED
  BY <1>4, <1>5, <1>6 DEF createInvitationTeamMemberships

LEMMA ReopenKeeps ==
    ASSUME IInv, NEW r \in Requests, Reopen(r)
    PROVE  IInv'
<1>1. /\ pc[r] = "reopen" /\ pc[r] \notin Purging \cup {"idle", "done"} /\ Return(r)
      /\ Overtake(r, Deciding(call[r].id)) /\ Only(<<orgs, member, team, teamMember, role, vetted, cut>>)
  BY DEF Reopen, Purging
<1>2. PICK i \in Names : i = call[r].id
  BY <1>1, AtStage DEF Form
<1>3. CASE UpdateInvitationStatus(i, "pending")
  BY <1>1, <1>2, <1>3, StatusRows, ReturnKeeps
<1>4. CASE UNCHANGED invitation
  <2>1. MarksMove(r)
    BY <1>1, SetsOfRequests, OvertakeMarks DEF Only
  <2> QED
    BY <1>1, <1>4, <2>1, QuietRows, ReturnKeeps DEF Only, rows
<1> QED
  BY <1>2, <1>3, <1>4 DEF Reopen

LEMMA DeclineKeeps ==
    ASSUME IInv, NEW r \in Requests, Decline(r)
    PROVE  IInv'
<1>1. /\ pc[r] \in {"reject", "cancel"} /\ pc[r] \notin Purging \cup {"idle", "done"} /\ Return(r)
      /\ Overtake(r, Deciding(call[r].id)) /\ Only(<<orgs, member, team, teamMember, role, vetted, cut>>)
      /\ UpdateInvitationStatus(call[r].id, "rejected") \/ UpdateInvitationStatus(call[r].id, "canceled")
  BY DEF Decline, Purging
<1>2. PICK i \in Names : i = call[r].id
  BY <1>1, AtStage DEF Form
<1> QED
  BY <1>1, <1>2, StatusRows, ReturnKeeps

-----------------------------------------------------------------------------
(* The rows of a creation, and what undoes them.                           *)
LEMMA CreatorMemberKeeps ==
    ASSUME IInv, NEW r \in Requests, CreatorMember(r)
    PROVE  IInv'
<1>1. /\ pc[r] = "createMember" /\ pc[r] \notin Purging \cup {"idle", "done"} /\ pc[r] \in Joining \ {"checkJoin"}
      /\ UNCHANGED <<orgs, invitation, team, teamMember, role, vetted, cut, adapter, options>>
  BY DEF CreatorMember, Only, Purging, Joining
<1>2. PICK c \in Call : c = call[r] /\ c.org = r /\ c.id = None /\ (c.org \in orgs \/ r \in overtaken)
  BY <1>1, AtStage, AtJoining DEF Form
<1>3. CASE InsertMember(r, {"owner"}) /\ Overtake(r, AboutToJoin(c.org, c.user)) /\ Go(r, "defaultTeam")
  <2>1. MembersMove(r) /\ MarksMove(r)
    BY <1>1, <1>2, <1>3, RoleAssumption, MemberInserted, SetsOfRequests, OvertakeMarks
  <2>2. RowsMove(r) /\ orgs' = orgs
    BY <1>1, <2>1, MemberRows
  <2>3. Keep(r, c, "defaultTeam")
    BY <1>2, <1>3, GoKeep
  <2>4. Form(r, c, "defaultTeam") /\ "defaultTeam" \notin Joining
    BY <1>2 DEF Form, Stages, Joining, Accepting, Targeting, Inviting
  <2>5. FitsOrgs(r, c, "defaultTeam")'
    BY <1>2, <2>1, <2>2 DEF FitsOrgs, Joining, Purging, MarksMove
  <2>6. FitsNames(r, c, "defaultTeam")' /\ FitsOwners(r, c, "defaultTeam")' /\ FitsInvitations(r, c, "defaultTeam")'
    BY DEF FitsNames, FitsOwners, FitsInvitations, Joining, Inviting, Targeting, Accepting, Joined
  <2> QED
    BY <1>1, <1>2, <2>1, <2>2, <2>3, <2>4, <2>5, <2>6, GoKeeps DEF Fit
<1>4. CASE Go(r, "dropOrg") /\ UNCHANGED <<member, overtaken>>
  <2>1. Keep(r, c, "dropOrg")
    BY <1>2, <1>4, GoKeep
  <2>2. Form(r, c, "dropOrg") /\ "dropOrg" \notin Joining
    BY <1>2 DEF Form, Stages, Joining, Accepting, Targeting, Inviting
  <2>3. Fit(r, c, "dropOrg")
    BY IdleFits DEF Joining, Inviting, Targeting, Inserting, Purging, Accepting, Joined
  <2> QED
    BY <1>1, <1>2, <1>4, <2>1, <2>2, <2>3, QuietGoKeeps DEF rows, ghosts
<1> QED
  BY <1>2, <1>3, <1>4 DEF CreatorMember

LEMMA TeamInserted ==
    ASSUME IInv, NEW r \in Requests, pc[r] \in {"defaultTeam", "createTeam"}, call[r] # None,
           NEW o \in Orgs, o = call[r].org, team' = [team EXCEPT ![r] = o], UNCHANGED teamMember
    PROVE  TeamsMove(r)
BY Typed DEF TeamsMove

LEMMA createDefaultOrganizationTeamKeeps ==
    ASSUME IInv, NEW r \in Requests, createDefaultOrganizationTeam(r)
    PROVE  IInv'
<1>1. /\ pc[r] = "defaultTeam" /\ pc[r] \notin Purging \cup {"idle", "done"}
      /\ UNCHANGED <<orgs, member, invitation, teamMember, role, ghosts, adapter, options>>
  BY DEF createDefaultOrganizationTeam, Only, Purging
<1>2. PICK c \in Call : c = call[r] /\ c # None /\ c.org = r /\ c.id = None
  BY <1>1, AtStage DEF Form
<1>3. r \in Names /\ r \in Orgs /\ MarksMove(r)
  BY <1>1, RequestIn, SameMarks
<1>4. CASE Return(r) /\ UNCHANGED team
  BY <1>1, <1>3, <1>4, SameTeams, TeamRows, ReturnKeeps
<1>5. CASE team' = [team EXCEPT ![r] = r] /\ Keep(r, [call[r] EXCEPT !.team = r], "creatorTeam")
  <2>1. PICK d \in Call : d = [c EXCEPT !.team = r] /\ d.org = r /\ d.id = None /\ d.team = r
    <3>1. [c EXCEPT !.team = r] \in Call
      BY <1>3 DEF Call
    <3> QED
      BY <1>2, <3>1 DEF Call
  <2>2. Keep(r, d, "creatorTeam")
    BY <1>2, <1>5, <2>1
  <2>3. RowsMove(r) /\ orgs' = orgs
    BY <1>1, <1>2, <1>3, <1>5, TeamInserted, TeamRows
  <2>4. Form(r, d, "creatorTeam") /\ "creatorTeam" \notin Joining
    BY <1>3, <2>1 DEF Form, Stages, Joining, Accepting, Targeting, Inviting
  <2>5. Fit(r, d, "creatorTeam")'
    BY IdleFits DEF Joining, Inviting, Targeting, Inserting, Purging, Accepting, Joined
  <2> QED
    BY <1>1, <1>2, <1>3, <2>1, <2>2, <2>3, <2>4, <2>5, GoKeeps
<1>6. CASE Go(r, "dropMember") /\ UNCHANGED team
  <2>1. Keep(r, c, "dropMember") /\ "dropMember" \notin Joining
    BY <1>2, <1>6, GoKeep DEF Joining
  <2>2. Form(r, c, "dropMember")
    BY <1>2 DEF Form, Stages, Holding, Accepting, Targeting, Inviting
  <2>3. Fit(r, c, "dropMember")
    BY <1>2 DEF Fit, FitsNames, FitsOrgs, FitsOwners, FitsInvitations, Joining, Inserting, Inviting,
                Targeting, Purging, Accepting
  <2> QED
    BY <1>1, <1>2, <1>6, <2>1, <2>2, <2>3, QuietGoKeeps DEF rows
<1> QED
  BY <1>4, <1>5, <1>6 DEF createDefaultOrganizationTeam

LEMMA DropTeamForm ==
    ASSUME NEW r, NEW c \in Call, NEW stage \in {"dropTeam", "purgeTeamMembers"}, c.team \in Names, c.id = None
    PROVE  Form(r, c, stage) /\ Fit(r, c, stage) /\ Fit(r, c, stage)' /\ stage \notin Joining
<1>1. Form(r, c, stage)
  BY DEF Form, Stages, Accepting, Targeting, Inviting
<1>2. stage \notin Joining \cup Inviting \cup Targeting \cup Inserting \cup Purging \cup Accepting \cup Joined
  BY DEF Joining, Inviting, Targeting, Inserting, Purging, Accepting, Joined
<1> QED
  BY <1>1, <1>2, IdleFits

LEMMA CreatorTeamMemberKeeps ==
    ASSUME IInv, NEW r \in Requests, CreatorTeamMember(r)
    PROVE  IInv'
<1>1. /\ pc[r] = "creatorTeam" /\ pc[r] \notin Purging \cup {"idle", "done"}
      /\ UNCHANGED <<orgs, member, invitation, team, role, ghosts, adapter, options>>
  BY DEF CreatorTeamMember, Only, Purging
<1>2. PICK c \in Call : c = call[r] /\ c.team \in Names /\ c.id = None
  BY <1>1, AtStage DEF Form
<1>3. MarksMove(r)
  BY <1>1, SameMarks
<1>4. TeamsMove(r)
  BY <1>1, <1>2, TeamMemberInserted, SameTeams DEF CreatorTeamMember
<1>5. RowsMove(r) /\ orgs' = orgs
  BY <1>1, <1>4, TeamRows
<1>6. CASE Return(r)
  BY <1>1, <1>3, <1>5, <1>6, ReturnKeeps
<1>7. CASE Go(r, "dropTeam")
  <2>1. Keep(r, c, "dropTeam")
    BY <1>2, <1>7, GoKeep
  <2>2. Form(r, c, "dropTeam") /\ Fit(r, c, "dropTeam")' /\ "dropTeam" \notin Joining
    BY <1>2, DropTeamForm
  <2> QED
    BY <1>1, <1>2, <1>3, <1>5, <2>1, <2>2, GoKeeps
<1> QED
  BY <1>6, <1>7 DEF CreatorTeamMember

LEMMA OwnersMarks ==
    ASSUME IInv, NEW r \in Requests, NEW n, OvertakeOwners(r, n), UNCHANGED <<adapter, options, vetted, cut>>
    PROVE  MarksMove(r)
<1>1. PICK S : S \subseteq Requests /\ Overtake(r, S)
  BY SetsOfRequests DEF OvertakeOwners
<1> QED
  BY <1>1, OvertakeMarks

LEMMA DropMemberKeeps ==
    ASSUME IInv, NEW r \in Requests, DropMember(r)
    PROVE  IInv'
<1>1. /\ pc[r] = "dropMember" /\ pc[r] \notin Purging \cup {"idle", "done"}
      /\ UNCHANGED <<orgs, invitation, team, teamMember, role, vetted, cut, adapter, options>>
      /\ Go(r, IF call[r].org = r THEN "dropOrg" ELSE "reopen")
  BY DEF DropMember, Only, Purging
<1>2. PICK c \in Call : /\ c = call[r] /\ (c.org # r => c.id \in Names)
                        /\ (c.id # None => Open(c.id) \/ r \in overtaken)
  BY <1>1, AtStage DEF Form, Fit, FitsInvitations, Joined
<1>3. MembersMove(r) /\ MarksMove(r)
  <2>1. CASE member' = Without(member, {r}) /\ OvertakeOwners(r, r)
    BY <1>1, <2>1, MemberDropped, OwnersMarks
  <2>2. CASE UNCHANGED <<member, overtaken>>
    BY <1>1, <2>2, SameMembers, SameMarks DEF ghosts
  <2> QED
    BY <2>1, <2>2 DEF DropMember
<1>4. RowsMove(r) /\ orgs' = orgs
  BY <1>1, <1>3, MemberRows
<1>5. CASE c.org = r
  <2>1. Keep(r, c, "dropOrg")
    BY <1>1, <1>2, <1>5, GoKeep
  <2>2. Form(r, c, "dropOrg") /\ "dropOrg" \notin Joining
    BY <1>5 DEF Form, Stages, Joining, Accepting, Targeting, Inviting
  <2>3. Fit(r, c, "dropOrg")'
    BY IdleFits DEF Joining, Inviting, Targeting, Inserting, Purging, Accepting, Joined
  <2> QED
    BY <1>1, <1>2, <1>3, <1>4, <2>1, <2>2, <2>3, GoKeeps
<1>6. CASE c.org # r
  <2>1. Keep(r, c, "reopen") /\ "reopen" \in Joined /\ "reopen" \notin Joining
    BY <1>1, <1>2, <1>6, GoKeep DEF Joined, Joining
  <2>2. Open(c.id)' \/ r \in overtaken'
    BY <1>1, <1>2, <1>3, <1>6, NameAssumption DEF Open, MarksMove
  <2>3. Form(r, c, "reopen") /\ Fit(r, c, "reopen")'
    BY <1>2, <1>6, <2>1, <2>2, JoinedFits
  <2> QED
    BY <1>1, <1>2, <1>3, <1>4, <2>1, <2>3, GoKeeps
<1> QED
  BY <1>5, <1>6

-----------------------------------------------------------------------------
(* Members the server adds, and teams.                                     *)
Plain == {"dropTeam", "purgeTeamMembers", "dropTeamMember", "addTeamMember", "undoAdd", "deleteOrg", "deleteRole"}

LEMMA PlainFits ==
    ASSUME NEW r, NEW c, NEW stage \in Plain
    PROVE  Fit(r, c, stage) /\ Fit(r, c, stage)' /\ stage \notin Joining /\ stage # "createRole"
<1>1. /\ stage \notin Joining \cup Inviting \cup Targeting \cup Inserting \cup Purging \cup Accepting \cup Joined
      /\ stage # "updateRole" /\ stage # "createRole"
  BY DEF Plain, Joining, Inviting, Targeting, Inserting, Purging, Accepting, Joined
<1> QED
  BY <1>1, IdleFits

LEMMA PlainForm ==
    ASSUME NEW r, NEW c \in Call, NEW stage \in Plain,
           stage \in {"dropTeam", "purgeTeamMembers", "dropTeamMember", "addTeamMember"} => c.team \in Names,
           stage \in {"dropTeam", "purgeTeamMembers"} => c.id = None
    PROVE  Form(r, c, stage)
BY DEF Plain, Form, Stages, Accepting, Targeting, Inviting

LEMMA PlainBegin ==
    ASSUME IInv, NEW r \in Requests, NEW c \in Call, NEW stage \in Plain, Begin(r, c, stage),
           Only(<<rows, ghosts>>), c.org \in orgs \/ RowsLeft(c.org) # {},
           stage \in {"dropTeam", "purgeTeamMembers", "dropTeamMember", "addTeamMember"} => c.team \in Names,
           stage \in {"dropTeam", "purgeTeamMembers"} => c.id = None
    PROVE  IInv'
BY PlainFits, PlainForm, BeginKeeps DEF Only

LEMMA AddFits ==
    ASSUME NEW r, NEW c \in Call, NEW stage \in {"add", "addToTeam"}, c.role \in RoleSets,
           stage = "addToTeam" => c.team \in Names
    PROVE  /\ Form(r, c, stage)
           /\ (/\ member[r] = None /\ (RowsOf(c.org, c.user) = {} \/ r \in overtaken)
               /\ c.org \in orgs \/ r \in overtaken) => Fit(r, c, stage)
           /\ (/\ member[r] = None /\ (RowsOf(c.org, c.user) = {} \/ r \in overtaken)
               /\ c.org \in orgs \/ r \in overtaken)' => Fit(r, c, stage)'
<1>1. Form(r, c, stage)
  BY DEF Form, Stages, Joining, Accepting, Targeting, Inviting
<1>2. ASSUME member[r] = None, RowsOf(c.org, c.user) = {} \/ r \in overtaken, c.org \in orgs \/ r \in overtaken
      PROVE  Fit(r, c, stage)
  BY <1>2 DEF Fit, FitsNames, FitsOrgs, FitsOwners, FitsInvitations, Joining, Inserting, Inviting,
              Targeting, Purging, Accepting, Joined
<1>3. ASSUME member'[r] = None, RowsOf(c.org, c.user)' = {} \/ r \in overtaken',
             c.org \in orgs' \/ r \in overtaken'
      PROVE  Fit(r, c, stage)'
  BY <1>3 DEF Fit, FitsNames, FitsOrgs, FitsOwners, FitsInvitations, Joining, Inserting, Inviting,
              Targeting, Purging, Accepting, Joined
<1> QED
  BY <1>1, <1>2, <1>3

LEMMA AddMemberKeeps ==
    ASSUME IInv, NEW r \in Requests, NEW u \in Users, NEW o \in Orgs, NEW value \in RoleSets,
           NEW t \in TeamsOf(o) \cup {None}, AddMember(r, u, o, value, t)
    PROVE  IInv'
<1>1. /\ pc[r] = "idle" /\ Fresh(r) /\ o \in orgs /\ RowsOf(o, u) = {}
      /\ UNCHANGED rows /\ UNCHANGED ghosts /\ UNCHANGED <<adapter, options>>
  BY AtIdle DEF AddMember, Begin, Only, MayJoin
<1>2. PICK c \in Call : /\ c = [Ask(o, u) EXCEPT !.role = value, !.team = t]
                        /\ c.org = o /\ c.user = u /\ c.role = value /\ c.team = t
  <2>1. t \in Names \cup {None}
    BY OfOrg
  <2>2. [Ask(o, u) EXCEPT !.role = value, !.team = t] \in Call
    BY <2>1 DEF Ask, Call
  <2> QED
    BY <2>2 DEF Ask
<1>3. PICK stage \in {"add", "addToTeam"} : Begin(r, c, stage) /\ (stage = "addToTeam" => c.team \in Names)
  BY <1>2, OfOrg DEF AddMember
<1>4. Form(r, c, stage) /\ Fit(r, c, stage)
  BY <1>1, <1>2, <1>3, AddFits DEF Fresh
<1> QED
  BY <1>1, <1>2, <1>3, <1>4, BeginKeeps

LEMMA AddToTeamKeeps ==
    ASSUME IInv, NEW r \in Requests, AddToTeam(r)
    PROVE  IInv'
<1>1. /\ pc[r] = "addToTeam" /\ pc[r] \notin Purging \cup {"idle", "done"} /\ pc[r] \in Joining \ {"checkJoin"}
      /\ InsertTeamMember(r) /\ Go(r, "add")
      /\ UNCHANGED <<orgs, member, invitation, team, role, ghosts, adapter, options>>
  BY DEF AddToTeam, Only, Purging, Joining
<1>2. PICK c \in Call : /\ c = call[r] /\ c.team \in Names /\ c.role \in RoleSets
                        /\ RowsOf(c.org, c.user) = {} \/ r \in overtaken
                        /\ c.org \in orgs \/ r \in overtaken
  BY <1>1, AtStage, AtJoining DEF Form
<1>3. MarksMove(r) /\ RowsMove(r) /\ orgs' = orgs /\ Keep(r, c, "add")
  BY <1>1, <1>2, SameMarks, GoKeep, TeamMemberInserted, TeamRows
<1>4. RowsOf(c.org, c.user)' = RowsOf(c.org, c.user) /\ overtaken' = overtaken /\ member'[r] = None
  BY <1>1, AtJoining DEF RowsOf, Members, ghosts
<1>5. Form(r, c, "add") /\ Fit(r, c, "add")'
  BY <1>2, <1>3, <1>4, AddFits
<1> QED
  BY <1>1, <1>2, <1>3, <1>5, GoKeeps

(* Undoing goes on with the team, when there is one.                       *)
LEMMA UndoTeamKeeps ==
    ASSUME IInv, NEW r \in Requests, pc[r] \notin Purging \cup {"idle", "done"}, RowsMove(r), MarksMove(r),
           orgs' = orgs, UndoTeam(r)
    PROVE  IInv'
<1>1. CASE Return(r)
  BY <1>1, ReturnKeeps
<1>2. CASE call[r].team # None /\ Go(r, "dropTeamMember")
  <2>1. PICK c \in Call : c = call[r] /\ c.team \in Names
    BY <1>2, AtStage DEF Call
  <2>2. Keep(r, c, "dropTeamMember") /\ "dropTeamMember" \in Plain
    BY <1>2, <2>1, GoKeep DEF Plain
  <2> QED
    BY <2>1, <2>2, PlainFits, PlainForm, GoKeeps
<1> QED
  BY <1>1, <1>2 DEF UndoTeam

LEMMA CreateMemberKeeps ==
    ASSUME IInv, NEW r \in Requests, CreateMember(r)
    PROVE  IInv'
<1>1. /\ pc[r] = "add" /\ pc[r] \notin Purging \cup {"idle", "done"} /\ pc[r] \in Joining \ {"checkJoin"}
      /\ UNCHANGED <<orgs, invitation, team, teamMember, role, vetted, cut, adapter, options>>
  BY DEF CreateMember, Only, Purging, Joining
<1>2. PICK c \in Call : c = call[r] /\ c.role \in RoleSets
  BY <1>1, AtStage, Stages1 DEF Form
<1>3. CASE /\ InsertMember(r, c.role) /\ Overtake(r, AboutToJoin(c.org, c.user))
           /\ Return(r) \/ Go(r, "undoAdd")
  <2>1. MembersMove(r) /\ MarksMove(r)
    BY <1>1, <1>2, <1>3, MemberInserted, SetsOfRequests, OvertakeMarks
  <2>2. RowsMove(r) /\ orgs' = orgs
    BY <1>1, <2>1, MemberRows
  <2>3. CASE Return(r)
    BY <1>1, <2>1, <2>2, <2>3, ReturnKeeps
  <2>4. CASE Go(r, "undoAdd")
    <3>1. Keep(r, c, "undoAdd") /\ "undoAdd" \in Plain
      BY <1>2, <2>4, GoKeep DEF Plain
    <3> QED
      BY <1>1, <1>2, <2>1, <2>2, <3>1, PlainFits, PlainForm, GoKeeps
  <2> QED
    BY <1>3, <2>3, <2>4
<1>4. CASE UndoTeam(r) /\ UNCHANGED <<member, overtaken>>
  BY <1>1, <1>4, SameMembers, MemberRows, SameMarks, UndoTeamKeeps DEF ghosts
<1> QED
  BY <1>2, <1>3, <1>4 DEF CreateMember

LEMMA UndoAddKeeps ==
    ASSUME IInv, NEW r \in Requests, UndoAdd(r)
    PROVE  IInv'
<1>1. /\ pc[r] = "undoAdd" /\ pc[r] \notin Purging \cup {"idle", "done"} /\ UndoTeam(r)
      /\ UNCHANGED <<orgs, invitation, team, teamMember, role, vetted, cut, adapter, options>>
  BY DEF UndoAdd, Only, Purging
<1>2. CASE member' = Without(member, {r}) /\ OvertakeOwners(r, r)
  BY <1>1, <1>2, MemberDropped, MemberRows, OwnersMarks, UndoTeamKeeps
<1>3. CASE UNCHANGED <<member, overtaken>>
  BY <1>1, <1>3, SameMembers, MemberRows, SameMarks, UndoTeamKeeps DEF ghosts
<1> QED
  BY <1>2, <1>3 DEF UndoAdd

LEMMA DeleteTeamMemberByTeamAndUserKeeps ==
    ASSUME IInv, NEW r \in Requests, DeleteTeamMemberByTeamAndUser(r)
    PROVE  IInv'
<1>1. /\ pc[r] = "dropTeamMember" /\ pc[r] \notin Purging /\ Return(r)
      /\ UNCHANGED <<orgs, member, invitation, team, role, ghosts, adapter, options>>
      /\ \E S : teamMember' = Without(teamMember, S)
  BY DEF DeleteTeamMemberByTeamAndUser, Only, Purging
<1> QED
  BY <1>1, TeamMembersOff, TeamRows, SameMarks, ReturnKeeps

-----------------------------------------------------------------------------
LEMMA AfterTeamKeeps ==
    ASSUME IInv, NEW r \in Requests, pc[r] \in {"dropTeam", "purgeTeamMembers"}, TeamsMove(r),
           UNCHANGED <<orgs, member, invitation, role, ghosts, adapter, options>>, AfterTeam(r)
    PROVE  IInv'
<1>1. pc[r] \notin Purging \cup {"idle", "done"}
  BY DEF Purging
<1>2. RowsMove(r) /\ MarksMove(r) /\ orgs' = orgs
  BY TeamRows, SameMarks
<1>3. CASE Return(r)
  BY <1>1, <1>2, <1>3, ReturnKeeps
<1>4. CASE call[r].org = r /\ Go(r, "dropMember")
  <2>1. PICK c \in Call : c = call[r] /\ c.id = None
    BY <1>1, AtStage DEF Form
  <2>2. Keep(r, c, "dropMember") /\ "dropMember" \notin Joining
    BY <1>4, <2>1, GoKeep DEF Joining
  <2>3. Form(r, c, "dropMember")
    BY <1>4, <2>1 DEF Form, Stages, Holding, Accepting, Targeting, Inviting
  <2>4. Fit(r, c, "dropMember")'
    BY <2>1 DEF Fit, FitsNames, FitsOrgs, FitsOwners, FitsInvitations, Joining, Inserting, Inviting,
                Targeting, Purging, Accepting
  <2> QED
    BY <1>1, <1>2, <2>1, <2>2, <2>3, <2>4, GoKeeps
<1> QED
  BY <1>3, <1>4 DEF AfterTeam

LEMMA TeamMembersOffTyped ==
    ASSUME IInv, NEW S, teamMember' = Without(teamMember, S)
    PROVE  teamMember' \in [Names -> TeamMemberRow \cup {None}]
<1>1. teamMember \in [Names -> TeamMemberRow \cup {None}]
  BY Typed
<1> QED
  BY <1>1 DEF Without

LEMMA DeleteTeamKeeps ==
    ASSUME IInv, NEW r \in Requests, DeleteTeam(r)
    PROVE  IInv'
<1>1. /\ pc[r] = "dropTeam" /\ pc[r] \notin Purging \cup {"idle", "done"}
      /\ UNCHANGED <<orgs, member, invitation, role, ghosts, adapter, options>>
  BY DEF DeleteTeam, Only, Purging
<1>2. PICK c \in Call : c = call[r] /\ c.team \in Names /\ c.id = None
  BY <1>1, AtStage DEF Form
<1>3. PICK t \in Names : t = c.team
  BY <1>2
<1>4. ASSUME team' = [team EXCEPT ![call[r].team] = None]
      PROVE  /\ team' \in [Names -> Orgs \cup {None}]
             /\ \A n \in Names : team'[n] \in {None, team[n]}
  BY <1>4, <1>2, <1>3, Typed
<1>5. CASE /\ team' = [team EXCEPT ![call[r].team] = None]
           /\ teamMember' = Without(teamMember, OfTeam(call[r].team)) /\ AfterTeam(r)
  <2>1. teamMember' \in [Names -> TeamMemberRow \cup {None}]
    BY <1>5, TeamMembersOffTyped
  <2>2. TeamsMove(r)
    BY <1>4, <1>5, <2>1 DEF TeamsMove
  <2> QED
    BY <1>1, <1>5, <2>2, AfterTeamKeeps
<1>6. CASE /\ team' = [team EXCEPT ![call[r].team] = None]
           /\ Go(r, "purgeTeamMembers") /\ UNCHANGED teamMember
  <2>1. TeamsMove(r)
    BY <1>4, <1>6, Typed DEF TeamsMove
  <2>2. Keep(r, c, "purgeTeamMembers")
    BY <1>2, <1>6, GoKeep
  <2>3. RowsMove(r) /\ MarksMove(r) /\ orgs' = orgs
    BY <1>1, <2>1, TeamRows, SameMarks
  <2>4. Form(r, c, "purgeTeamMembers") /\ Fit(r, c, "purgeTeamMembers")' /\ "purgeTeamMembers" \notin Joining
    BY <1>2, DropTeamForm
  <2> QED
    BY <1>1, <1>2, <2>2, <2>3, <2>4, GoKeeps
<1>7. CASE AfterTeam(r) /\ UNCHANGED <<team, teamMember>>
  BY <1>1, <1>7, SameTeams, AfterTeamKeeps
<1> QED
  BY <1>5, <1>6, <1>7 DEF DeleteTeam

LEMMA PurgeTeamMembersKeeps ==
    ASSUME IInv, NEW r \in Requests, PurgeTeamMembers(r)
    PROVE  IInv'
<1>1. TeamsMove(r)
  BY TeamMembersOff, SameTeams DEF PurgeTeamMembers, Only
<1> QED
  BY <1>1, AfterTeamKeeps DEF PurgeTeamMembers, Only

LEMMA CreateTeamKeeps ==
    ASSUME IInv, NEW r \in Requests, NEW u \in Users, NEW o \in Orgs, CreateTeam(r, u, o)
    PROVE  IInv'
<1>1. /\ o \in orgs /\ UNCHANGED rows /\ UNCHANGED ghosts /\ UNCHANGED <<adapter, options>> /\ r \in Names
  BY RequestIn DEF CreateTeam, Only
<1>2. PICK c \in Call : c = [Ask(o, u) EXCEPT !.team = r] /\ c.org = o /\ c.team = r /\ c.id = None
  <2>1. [Ask(o, u) EXCEPT !.team = r] \in Call
    BY <1>1 DEF Ask, Call
  <2> QED
    BY <2>1 DEF Ask
<1>3. Begin(r, c, "createTeam")
  BY <1>2 DEF CreateTeam
<1>4. Form(r, c, "createTeam")
  BY <1>1, <1>2 DEF Form, Stages, Accepting, Targeting, Inviting
<1>5. Fit(r, c, "createTeam")
  BY <1>1, <1>2 DEF Fit, FitsNames, FitsOrgs, FitsOwners, FitsInvitations, Joining, Inviting,
                    Targeting, Purging, Accepting, Joined
<1> QED
  BY <1>1, <1>2, <1>3, <1>4, <1>5, BeginKeeps

LEMMA InsertTeamKeeps ==
    ASSUME IInv, NEW r \in Requests, InsertTeam(r)
    PROVE  IInv'
<1>1. /\ pc[r] = "createTeam" /\ pc[r] \notin Purging \cup {"idle", "done"}
      /\ UNCHANGED <<orgs, member, invitation, teamMember, role, ghosts, adapter, options>>
  BY DEF InsertTeam, Only, Purging
<1>2. PICK c \in Call : c = call[r] /\ c # None /\ c.org \in Orgs /\ c.team \in Names /\ c.id = None
  BY <1>1, AtStage DEF Form, Call
<1>3. RowsMove(r) /\ MarksMove(r) /\ orgs' = orgs
  BY <1>1, <1>2, TeamInserted, TeamRows, SameMarks DEF InsertTeam
<1>4. CASE Return(r)
  BY <1>1, <1>3, <1>4, ReturnKeeps
<1>5. CASE Go(r, "dropTeam")
  BY <1>1, <1>2, <1>3, <1>5, GoKeep, DropTeamForm, GoKeeps
<1> QED
  BY <1>4, <1>5 DEF InsertTeam

LEMMA TeamCall ==
    ASSUME IInv, NEW o \in Orgs, NEW u \in Users, NEW t \in TeamsOf(o)
    PROVE  \E c \in Call : /\ c = [Ask(o, u) EXCEPT !.team = t]
                           /\ c.org = o /\ c.team = t /\ c.team \in Names /\ c.id = None
<1>1. t \in Names
  BY DEF TeamsOf
<1>2. [Ask(o, u) EXCEPT !.team = t] \in Call
  BY <1>1 DEF Ask, Call
<1> QED
  BY <1>1, <1>2 DEF Ask

LEMMA RemoveTeamKeeps ==
    ASSUME IInv, NEW r \in Requests, NEW u \in Users, NEW o \in Orgs, NEW t \in TeamsOf(o),
           RemoveTeam(r, u, o, t)
    PROVE  IInv'
<1>1. PICK c \in Call : c = [Ask(o, u) EXCEPT !.team = t] /\ c.org = o /\ c.team \in Names /\ c.id = None
  BY TeamCall
<1>2. Begin(r, c, "dropTeam") /\ c.org \in orgs /\ "dropTeam" \in Plain
  BY <1>1 DEF RemoveTeam, Plain
<1> QED
  BY <1>1, <1>2, PlainBegin DEF RemoveTeam

LEMMA AddTeamMemberKeeps ==
    ASSUME IInv, NEW r \in Requests, NEW u \in Users, NEW o \in Orgs, NEW t \in TeamsOf(o), NEW v \in Users,
           AddTeamMember(r, u, o, t, v)
    PROVE  IInv'
<1>1. PICK c \in Call : c = [Ask(o, v) EXCEPT !.team = t] /\ c.org = o /\ c.team \in Names
  BY TeamCall
<1>2. Begin(r, c, "addTeamMember") /\ c.org \in orgs /\ "addTeamMember" \in Plain
  BY <1>1 DEF AddTeamMember, Plain
<1> QED
  BY <1>1, <1>2, PlainBegin DEF AddTeamMember

LEMMA RemoveTeamMemberKeeps ==
    ASSUME IInv, NEW r \in Requests, NEW u \in Users, NEW o \in Orgs, NEW t \in TeamsOf(o), NEW v \in Users,
           RemoveTeamMember(r, u, o, t, v)
    PROVE  IInv'
<1>1. PICK c \in Call : c = [Ask(o, v) EXCEPT !.team = t] /\ c.org = o /\ c.team \in Names
  BY TeamCall
<1>2. Begin(r, c, "dropTeamMember") /\ c.org \in orgs /\ "dropTeamMember" \in Plain
  BY <1>1 DEF RemoveTeamMember, Plain
<1> QED
  BY <1>1, <1>2, PlainBegin DEF RemoveTeamMember

LEMMA CreateTeamMemberKeeps ==
    ASSUME IInv, NEW r \in Requests, CreateTeamMember(r)
    PROVE  IInv'
<1>1. /\ pc[r] = "addTeamMember" /\ pc[r] \notin Purging \cup {"idle", "done"} /\ InsertTeamMember(r)
      /\ UNCHANGED <<orgs, member, invitation, team, role, ghosts, adapter, options>>
  BY DEF CreateTeamMember, Only, Purging
<1>2. PICK c \in Call : c = call[r] /\ c.team \in Names
  BY <1>1, AtStage DEF Form
<1>3. RowsMove(r) /\ MarksMove(r) /\ orgs' = orgs
  BY <1>1, <1>2, TeamMemberInserted, TeamRows, SameMarks
<1>4. CASE Return(r)
  BY <1>1, <1>3, <1>4, ReturnKeeps
<1>5. CASE Go(r, "dropTeamMember")
  <2>1. Keep(r, c, "dropTeamMember") /\ "dropTeamMember" \in Plain
    BY <1>2, <1>5, GoKeep DEF Plain
  <2> QED
    BY <1>1, <1>2, <1>3, <2>1, PlainFits, PlainForm, GoKeeps
<1> QED
  BY <1>4, <1>5 DEF CreateTeamMember

-----------------------------------------------------------------------------
(* Members: removed, demoted, promoted, leaving.                           *)
LEMMA OldMember ==
    ASSUME IInv, NEW o, NEW n \in Members(o)
    PROVE  /\ n \in Names /\ member[n].org = o /\ (n \in OldRows \/ pc[n] \notin Joining \cup {"idle"})
           /\ RowsLeft(o) # {}
<1>1. n \in Names /\ member[n] # None /\ member[n].org = o /\ RowsLeft(o) # {}
  BY InRowsLeft DEF Members
<1>2. ASSUME n \in Requests PROVE pc[n] \notin Joining \cup {"idle"}
  <2>1. pc[n] \notin Joining
    BY <1>1, <1>2, AtStage, Stages1 DEF Fit, FitsNames
  <2>2. pc[n] # "idle"
    BY <1>1, <1>2, AtIdle DEF Fresh
  <2> QED
    BY <2>1, <2>2
<1> QED
  BY <1>1, <1>2 DEF Names

(* Everything a target needs but the owners.                               *)
LEMMA TargetFits ==
    ASSUME IInv, NEW r, NEW c \in Call, NEW stage \in Targeting, c.id \in Names,
           stage \in {"findRoleTarget", "setRole"} => c.role \in RoleSets,
           stage = "findRoleTarget" => c.by \in Names, stage = "findTarget" => c.role = None,
           stage = "countOwners" /\ c.role # None => "owner" \notin c.role
    PROVE  /\ Form(r, c, stage) /\ FitsOrgs(r, c, stage) /\ FitsInvitations(r, c, stage)
           /\ (/\ c.id \in OldRows \/ pc[c.id] \notin Joining \cup {"idle"}
               /\ member[c.id] # None => member[c.id].org = c.org) => FitsNames(r, c, stage)
           /\ stage \notin Joining /\ stage # "createRole" /\ stage \notin Inviting \cup Accepting
<1>1. /\ stage \notin Joining \cup Inserting \cup Purging \cup Accepting \cup Joined \cup Inviting
      /\ stage # "createRole" /\ stage # "updateRole"
  BY DEF Targeting, Joining, Inserting, Purging, Accepting, Joined, Inviting
<1>2. Form(r, c, stage)
  BY <1>1 DEF Form, Targeting, Stages, Relying, Accepting, Inviting
<1> QED
  BY <1>1, <1>2 DEF FitsOrgs, FitsInvitations, FitsNames

LEMMA AtTarget ==
    ASSUME IInv, NEW r \in Requests, pc[r] \in Targeting
    PROVE  /\ call[r] \in Call /\ call[r].id \in Names /\ pc[r] \notin Purging \cup {"idle", "done"}
           /\ call[r].id \in OldRows \/ pc[call[r].id] \notin Joining \cup {"idle"}
           /\ member[call[r].id] # None => member[call[r].id].org = call[r].org
           /\ Form(r, call[r], pc[r]) /\ FitsOwners(r, call[r], pc[r])
<1>1. pc[r] \notin Purging \cup {"idle", "done"}
  BY DEF Targeting, Purging
<1>2. call[r] \in Call /\ Form(r, call[r], pc[r]) /\ Fit(r, call[r], pc[r])
  BY <1>1, AtStage
<1> QED
  BY <1>1, <1>2 DEF Form, Fit, FitsNames

LEMMA TargetGoes ==
    ASSUME IInv, NEW r \in Requests, pc[r] \in Targeting, UNCHANGED rows, UNCHANGED ghosts,
           UNCHANGED <<adapter, options>>, NEW stage \in Targeting, Go(r, stage),
           stage \in {"findRoleTarget", "setRole"} => call[r].role \in RoleSets,
           stage \notin {"findRoleTarget", "findTarget"},
           stage = "countOwners" /\ call[r].role # None => "owner" \notin call[r].role,
           FitsOwners(r, call[r], stage)
    PROVE  IInv'
<1>1. PICK c \in Call : c = call[r] /\ c.id \in Names
  BY AtTarget
<1>2. /\ c.id \in OldRows \/ pc[c.id] \notin Joining \cup {"idle"}
      /\ member[c.id] # None => member[c.id].org = c.org
  BY <1>1, AtTarget
<1>3. Form(r, c, stage) /\ Fit(r, c, stage) /\ stage \notin Joining /\ stage # "createRole"
  BY <1>1, <1>2, TargetFits DEF Fit
<1> QED
  BY <1>1, <1>3, GoKeep, AtTarget, QuietGoKeeps

LEMMA RemoveMemberKeeps ==
    ASSUME IInv, NEW r \in Requests, NEW u \in Users, NEW o \in Orgs, NEW n \in Members(o),
           RemoveMember(r, u, o, n)
    PROVE  IInv'
<1>1. PICK m : Vet(r, m)
  BY DEF RemoveMember
<1>2. /\ pc[r] = "idle" /\ UNCHANGED rows /\ UNCHANGED <<adapter, options, overtaken, cut>>
      /\ n \in Names /\ "findTarget" \in Targeting
  BY OldMember DEF RemoveMember, Begin, Only, Targeting
<1>3. PICK c \in Call : c = [Ask(o, u) EXCEPT !.id = n] /\ c.org = o /\ c.id = n /\ c.role = None
  <2>1. [Ask(o, u) EXCEPT !.id = n] \in Call
    BY <1>2 DEF Ask, Call
  <2> QED
    BY <2>1 DEF Ask
<1>4. Keep(r, c, "findTarget") /\ MarksMove(r)
  BY <1>1, <1>2, <1>3, VetMarks DEF RemoveMember, Begin
<1>5. /\ Form(r, c, "findTarget") /\ FitsOrgs(r, c, "findTarget") /\ FitsInvitations(r, c, "findTarget")
      /\ FitsNames(r, c, "findTarget")
  <2>1. /\ c.id \in OldRows \/ pc[c.id] \notin Joining \cup {"idle"}
        /\ member[c.id].org = c.org
    BY <1>3, OldMember
  <2> QED
    BY <1>2, <1>3, <2>1, TargetFits
<1>6. FitsOwners(r, c, "findTarget")'
  BY DEF FitsOwners, Inviting, Accepting
<1> QED
  BY <1>2, <1>3, <1>4, <1>5, <1>6, OldMember, VetKeeps

LEMMA findRemovableMemberKeeps ==
    ASSUME IInv, NEW r \in Requests, findRemovableMember(r)
    PROVE  IInv'
<1>1. /\ pc[r] = "findTarget" /\ pc[r] \in Targeting
      /\ UNCHANGED rows /\ UNCHANGED ghosts /\ UNCHANGED <<adapter, options>>
      /\ \/ Go(r, "countOwners")
         \/ ~Owns(call[r].id) /\ Go(r, "deleteMember")
      /\ "countOwners" \in Targeting /\ "deleteMember" \in Targeting
  BY DEF findRemovableMember, Only, Targeting
<1>2. call[r].role = None
  BY <1>1, AtTarget DEF Form
<1>3. FitsOwners(r, call[r], "countOwners")
  BY DEF FitsOwners, Inviting, Accepting
<1>4. ~Owns(call[r].id) => FitsOwners(r, call[r], "deleteMember")
  BY DEF FitsOwners, Inviting, Accepting
<1> QED
  BY <1>1, <1>2, <1>3, <1>4, TargetGoes

LEMMA UpdateMemberRoleKeeps ==
    ASSUME IInv, NEW r \in Requests, NEW u \in Users, NEW o \in Orgs, NEW n \in Members(o),
           NEW value \in RoleSets, UpdateMemberRole(r, u, o, n, value)
    PROVE  IInv'
<1>1. PICK m \in RowsOf(o, u) :
         /\ Vet(r, m) /\ Begin(r, [Ask(o, u) EXCEPT !.by = m, !.id = n, !.role = value], "findRoleTarget")
  BY DEF UpdateMemberRole
<1>2. /\ pc[r] = "idle" /\ UNCHANGED rows /\ UNCHANGED <<adapter, options, overtaken, cut>>
      /\ n \in Names /\ m \in Members(o) /\ m \in Names /\ "findRoleTarget" \in Targeting /\ Fresh(r)
  BY <1>1, OldMember, AtIdle DEF UpdateMemberRole, Begin, Only, Targeting, RowsOf
<1>3. PICK c \in Call : /\ c = [Ask(o, u) EXCEPT !.by = m, !.id = n, !.role = value]
                        /\ c.org = o /\ c.id = n /\ c.role = value /\ c.by = m
  <2>1. [Ask(o, u) EXCEPT !.by = m, !.id = n, !.role = value] \in Call
    BY <1>2 DEF Ask, Call
  <2> QED
    BY <2>1 DEF Ask
<1>4. Keep(r, c, "findRoleTarget") /\ MarksMove(r)
  BY <1>1, <1>2, <1>3, VetMarks DEF Begin
<1>5. /\ Form(r, c, "findRoleTarget") /\ FitsOrgs(r, c, "findRoleTarget")
      /\ FitsInvitations(r, c, "findRoleTarget") /\ FitsNames(r, c, "findRoleTarget")
  <2>1. /\ c.id \in OldRows \/ pc[c.id] \notin Joining \cup {"idle"}
        /\ member[c.id].org = c.org
    BY <1>3, OldMember
  <2> QED
    BY <1>2, <1>3, <2>1, TargetFits
<1>6. r \in vetted' => m \in Owners(o)'
  <2>1. r \in vetted' => Owns(m)
    BY <1>1, <1>2 DEF Vet, Fresh
  <2> QED
    BY <1>2, <2>1 DEF Owners, Members, Owns, rows
<1>7. FitsOwners(r, c, "findRoleTarget")'
  BY <1>3, <1>6 DEF FitsOwners, Inviting, Accepting
<1> QED
  BY <1>2, <1>3, <1>4, <1>5, <1>7, OldMember, VetKeeps

LEMMA FindRoleTargetKeeps ==
    ASSUME IInv, NEW r \in Requests, FindRoleTarget(r)
    PROVE  IInv'
<1>1. PICK c \in Call : c = call[r] /\ c.role \in RoleSets
  BY AtStage DEF FindRoleTarget, Form
<1>2. /\ pc[r] = "findRoleTarget" /\ pc[r] \in Targeting
      /\ UNCHANGED rows /\ UNCHANGED ghosts /\ UNCHANGED <<adapter, options>>
      /\ c.id \in Members(c.org) /\ (Owns(c.id) \/ "owner" \in c.role => r \in vetted)
      /\ \/ "owner" \notin c.role /\ Go(r, "countOwners")
         \/ ~(c.by = c.id /\ Owns(c.id) /\ "owner" \notin c.role) /\ Go(r, "setRole")
      /\ "countOwners" \in Targeting /\ "setRole" \in Targeting
  BY <1>1 DEF FindRoleTarget, Only, Targeting
<1>3. r \in vetted => c.by \in Owners(c.org) \/ r \in overtaken
  BY <1>1, <1>2, AtTarget DEF FitsOwners
<1>4. FitsOwners(r, c, "countOwners")
  BY DEF FitsOwners, Inviting, Accepting
<1>5. ~(c.by = c.id /\ Owns(c.id) /\ "owner" \notin c.role) => FitsOwners(r, c, "setRole")
  BY <1>2, <1>3 DEF FitsOwners, Inviting, Accepting
<1> QED
  BY <1>1, <1>2, <1>4, <1>5, TargetGoes

LEMMA LeaveKeeps ==
    ASSUME IInv, NEW r \in Requests, NEW u \in Users, NEW o \in Orgs, Leave(r, u, o)
    PROVE  IInv'
<1>1. PICK n \in RowsOf(o, u) :
         Begin(r, [Ask(o, u) EXCEPT !.id = n], IF Owns(n) THEN "countOwners" ELSE "deleteMember")
  BY DEF Leave
<1>2. PICK stage \in {"countOwners", "deleteMember"} :
         /\ Begin(r, [Ask(o, u) EXCEPT !.id = n], stage) /\ (stage = "deleteMember" => ~Owns(n))
  BY <1>1
<1>3. /\ UNCHANGED rows /\ UNCHANGED ghosts /\ UNCHANGED <<adapter, options>>
      /\ n \in Members(o) /\ n \in Names /\ stage \in Targeting
  BY OldMember DEF Leave, Only, Targeting, RowsOf
<1>4. PICK c \in Call : c = [Ask(o, u) EXCEPT !.id = n] /\ c.org = o /\ c.id = n /\ c.role = None
  <2>1. [Ask(o, u) EXCEPT !.id = n] \in Call
    BY <1>3 DEF Ask, Call
  <2> QED
    BY <2>1 DEF Ask
<1>5. FitsOwners(r, c, stage)
  BY <1>2, <1>4 DEF FitsOwners, Inviting, Accepting
<1>6. Form(r, c, stage) /\ Fit(r, c, stage)
  <2>1. /\ c.id \in OldRows \/ pc[c.id] \notin Joining \cup {"idle"}
        /\ member[c.id].org = c.org
    BY <1>3, <1>4, OldMember
  <2> QED
    BY <1>3, <1>4, <1>5, <2>1, TargetFits DEF Fit
<1> QED
  BY <1>2, <1>3, <1>4, <1>6, OldMember, BeginKeeps

(* More than one is one besides any.                                       *)
LEMMA MoreThanOne ==
    ASSUME NEW S, NEW x, Cardinality(S) > 1
    PROVE  S \ {x} # {}
<1>1. SUFFICES ASSUME S \subseteq {x} PROVE FALSE
  OBVIOUS
<1>2. CASE S = {}
  BY <1>2, FS_EmptySet
<1>3. CASE S = {x}
  BY <1>3, FS_Singleton
<1> QED
  BY <1>1, <1>2, <1>3

LEMMA memberRoleCountKeeps ==
    ASSUME IInv, NEW r \in Requests, memberRoleCount(r)
    PROVE  IInv'
<1>1. /\ pc[r] = "countOwners" /\ pc[r] \in Targeting
      /\ UNCHANGED rows /\ UNCHANGED ghosts /\ UNCHANGED <<adapter, options>>
      /\ Cardinality(Owners(call[r].org)) > 1
      /\ \/ Go(r, "deleteMember")
         \/ call[r].role # None /\ Go(r, "setRole")
      /\ "deleteMember" \in Targeting /\ "setRole" \in Targeting
  BY DEF memberRoleCount, Only, Targeting
<1>2. Owners(call[r].org) \ {call[r].id} # {}
  BY <1>1, MoreThanOne
<1>3. call[r].role # None => "owner" \notin call[r].role /\ call[r].role \in RoleSets
  BY <1>1, AtTarget DEF Form, Call
<1>4. FitsOwners(r, call[r], "deleteMember")
  BY <1>2 DEF FitsOwners, Inviting, Accepting
<1>5. call[r].role # None => FitsOwners(r, call[r], "setRole")
  BY <1>2, <1>3 DEF FitsOwners, Inviting, Accepting
<1> QED
  BY <1>1, <1>3, <1>4, <1>5, TargetGoes

LEMMA DeleteMemberKeeps ==
    ASSUME IInv, NEW r \in Requests, DeleteMember(r)
    PROVE  IInv'
<1>1. /\ pc[r] = "deleteMember" /\ pc[r] \notin Purging /\ Return(r)
      /\ UNCHANGED <<orgs, invitation, team, teamMember, role, vetted, cut, adapter, options>>
  BY DEF DeleteMember, Only, Purging
<1>2. MembersMove(r) /\ MarksMove(r)
  BY <1>1, MemberDropped, OwnersMarks DEF DeleteMember
<1> QED
  BY <1>1, <1>2, MemberRows, ReturnKeeps

LEMMA SetRoleKeeps ==
    ASSUME IInv, NEW r \in Requests, SetRole(r)
    PROVE  IInv'
<1>1. /\ pc[r] = "setRole" /\ pc[r] \in Targeting /\ pc[r] \notin Purging /\ Return(r)
      /\ UNCHANGED <<orgs, invitation, team, teamMember, role, vetted, cut, adapter, options>>
  BY DEF SetRole, Only, Purging, Targeting
<1>2. PICK c \in Call : c = call[r] /\ c.id \in Names /\ c.role \in RoleSets
  BY <1>1, AtTarget DEF Form
<1>3. PICK n \in Names : n = c.id
  BY <1>2
<1>4. /\ member[n] # None /\ member' = [member EXCEPT ![n].role = c.role]
      /\ Overtake(r, IF Owns(n) = ("owner" \in c.role) THEN {} ELSE RelyOnOwners(c.org))
  BY <1>2, <1>3 DEF SetRole, WriteMemberRole
<1>5. PICK w \in MemberRow : w = member[n] /\ w.org = c.org
  BY <1>1, <1>2, <1>3, <1>4, Typed, AtTarget
<1>6. PICK v \in MemberRow : v = [w EXCEPT !.role = c.role] /\ v.org = w.org /\ v.user = w.user /\ v.role = c.role
  <2>1. [w EXCEPT !.role = c.role] \in MemberRow
    BY <1>2 DEF MemberRow
  <2> QED
    BY <2>1 DEF MemberRow
<1>7. /\ member' \in [Names -> MemberRow \cup {None}]
      /\ \A m \in Names : member'[m] = IF m = n THEN v ELSE member[m]
  BY <1>4, <1>5, <1>6, Typed
<1>8. \A m \in Names : member'[m] # None => SameMember(m)
  BY <1>5, <1>6, <1>7, <1>4 DEF SameMember
<1>9. ASSUME NEW q \in Requests \ {r}, NEW o \in Orgs, q \in RelyOnOwners(o)
      PROVE  OwnersHold(r, o) \/ q \in overtaken'
  <2>1. CASE o # c.org
    BY <1>5, <1>6, <1>7, <2>1 DEF OwnersHold, Owners, Members, Owns
  <2>2. CASE Owns(n) # ("owner" \in c.role) /\ o = c.org
    BY <1>4, <1>9, <2>2 DEF Overtake
  <2>3. CASE Owns(n) = ("owner" \in c.role)
    <3>1. \A m \in Names : Owns(m)' = Owns(m)
      BY <1>4, <1>5, <1>6, <1>7, <2>3, NameAssumption DEF Owns
    <3>2. Members(o)' = Members(o)
      BY <1>4, <1>5, <1>6, <1>7, NameAssumption DEF Members
    <3>3. Owners(o) \subseteq Names
      BY DEF Owners, Members
    <3> QED
      BY <3>1, <3>2, <3>3 DEF OwnersHold, Owners
  <2> QED
    BY <2>1, <2>2, <2>3
<1>10. MembersMove(r)
  BY <1>7, <1>8, <1>9 DEF MembersMove
<1>11. MarksMove(r)
  <2>1. PICK S : S \subseteq Requests /\ Overtake(r, S)
    BY <1>4, SetsOfRequests
  <2> QED
    BY <1>1, <2>1, OvertakeMarks
<1> QED
  BY <1>1, <1>10, <1>11, MemberRows, ReturnKeeps

LEMMA DeleteOrgKeeps ==
    ASSUME IInv, NEW r \in Requests, NEW u \in Users, NEW o \in Orgs, DeleteOrg(r, u, o)
    PROVE  IInv'
<1>1. PICK c \in Call : c = Ask(o, u) /\ c.org = o
  BY AskCall
<1>2. Begin(r, c, "deleteOrg") /\ "deleteOrg" \in Plain /\ o \in orgs
  BY <1>1 DEF DeleteOrg, Plain
<1> QED
  BY <1>1, <1>2, PlainBegin DEF DeleteOrg

-----------------------------------------------------------------------------
(* Dynamic roles.                                                          *)
LEMMA NewRole ==
    ASSUME NEW o \in Orgs, NEW name \in CustomRoles, NEW allowed \in PermissionSets
    PROVE  \E new \in RoleRow : new = [org |-> o, name |-> name, permission |-> allowed] /\ new.org = o
<1>1. [org |-> o, name |-> name, permission |-> allowed] \in RoleRow
  BY DEF RoleRow
<1> QED
  BY <1>1

LEMMA CreateOrgRoleKeeps ==
    ASSUME IInv, NEW r \in Requests, NEW u \in Users, NEW o \in Orgs, NEW name \in CustomRoles,
           NEW allowed \in PermissionSets, CreateOrgRole(r, u, o, name, allowed)
    PROVE  IInv'
<1>0. PICK new \in RoleRow : new = [org |-> o, name |-> name, permission |-> allowed] /\ new.org = o
  BY NewRole
<1>1. PICK c \in Call : c = [Ask(o, u) EXCEPT !.new = new] /\ c.org = o /\ c.new \in RoleRow /\ c.new.org = o
  <2>1. [Ask(o, u) EXCEPT !.new = new] \in Call
    BY DEF Ask, Call
  <2> QED
    BY <1>0, <2>1 DEF Ask
<1>2. Begin(r, c, "createRole")
  BY <1>0, <1>1 DEF CreateOrgRole
<1>3. /\ pc[r] = "idle" /\ pc[r] \notin Purging /\ Fresh(r) /\ Keep(r, c, "createRole") /\ UNCHANGED rows
      /\ UNCHANGED <<adapter, options, vetted, cut>>
      /\ overtaken' = IF o \in orgs THEN overtaken ELSE overtaken \cup {r}
  BY <1>2, AtIdle DEF CreateOrgRole, Begin, Only, Purging
<1>4. MarksMove(r) /\ RowsMove(r) /\ orgs' = orgs /\ UNCHANGED role
  BY <1>3, Typed, QuietRows DEF MarksMove, rows
<1>5. Form(r, c, "createRole") /\ "createRole" \notin Joining
  BY <1>1 DEF Form, Stages, Joining, Accepting, Targeting, Inviting
<1>6. Fit(r, c, "createRole")'
  <2>1. FitsNames(r, c, "createRole")'
    BY <1>3, <1>4 DEF FitsNames, Fresh, Joining, Inviting, Targeting
  <2>2. FitsOrgs(r, c, "createRole")'
    BY <1>1, <1>3, <1>4 DEF FitsOrgs, Joining, Purging
  <2>3. FitsOwners(r, c, "createRole")' /\ FitsInvitations(r, c, "createRole")'
    BY DEF FitsOwners, FitsInvitations, Inviting, Accepting, Joined
  <2> QED
    BY <2>1, <2>2, <2>3 DEF Fit
<1>7. RowsLeft(c.org) # {}
  <2>1. Members(o) # {}
    BY <1>3 DEF CreateOrgRole, Authorized, RowsOf
  <2> QED
    BY <1>1, <2>1, InRowsLeft
<1>8. Passes(r, c, "createRole") /\ Holds(r, c, "createRole") /\ Ends(r, c, "createRole")
  BY <1>3, <1>4, <1>5, <1>6, <1>7, PlainEnds DEF Passes, Holds
<1> QED
  BY <1>3, <1>4, <1>8, StepKeeps

LEMMA CreateOrganizationRoleKeeps ==
    ASSUME IInv, NEW r \in Requests, CreateOrganizationRole(r)
    PROVE  IInv'
<1>1. /\ pc[r] = "createRole" /\ pc[r] \notin Purging /\ Return(r) /\ role' = [role EXCEPT ![r] = call[r].new]
      /\ UNCHANGED <<orgs, member, invitation, team, teamMember, ghosts, adapter, options>>
  BY DEF CreateOrganizationRole, Only, Purging
<1>2. PICK c \in Call : c = call[r] /\ c # None /\ c.new \in RoleRow /\ c.new.org = c.org
  BY <1>1, AtStage DEF Form
<1>3. PICK new \in RoleRow : new = c.new /\ new.org = c.org
  BY <1>2
<1>4. /\ role' \in [Names -> RoleRow \cup {None}] /\ role'[r] = new
      /\ \A n \in Names : n # r => role'[n] = role[n]
  BY <1>1, <1>2, <1>3, Typed, RequestIn
<1>5. RolesMove(r)
  BY <1>1, <1>2, <1>3, <1>4 DEF RolesMove, SameRole
<1> QED
  BY <1>1, <1>5, RoleRows, SameMarks, ReturnKeeps

LEMMA UpdateOrgRoleKeeps ==
    ASSUME IInv, NEW r \in Requests, NEW u \in Users, NEW o \in Orgs, NEW d \in RolesOf(o),
           NEW name \in CustomRoles, NEW allowed \in PermissionSets, UpdateOrgRole(r, u, o, d, name, allowed)
    PROVE  IInv'
<1>0. PICK new \in RoleRow : new = [org |-> o, name |-> name, permission |-> allowed] /\ new.org = o
  BY NewRole
<1>1. d \in Names /\ role[d] # None /\ role[d].org = o /\ RowsLeft(o) # {}
  BY InRowsLeft DEF RolesOf
<1>2. PICK c \in Call : /\ c = [Ask(o, u) EXCEPT !.id = d, !.new = new]
                        /\ c.org = o /\ c.id = d /\ c.new \in RoleRow /\ c.new.org = o
  <2>1. [Ask(o, u) EXCEPT !.id = d, !.new = new] \in Call
    BY <1>1 DEF Ask, Call
  <2> QED
    BY <1>0, <2>1 DEF Ask
<1>3. Begin(r, c, "updateRole")
  BY <1>0, <1>2 DEF UpdateOrgRole
<1>4. d \in OldRows \/ pc[d] \notin {"createRole", "idle"}
  <2>1. SUFFICES ASSUME d \in Requests PROVE pc[d] \notin {"createRole", "idle"}
    BY <1>1 DEF Names
  <2>2. pc[d] # "createRole"
    BY <1>1, <2>1, AtStage DEF Fit, FitsNames
  <2>3. pc[d] # "idle"
    BY <1>1, <2>1, AtIdle DEF Fresh
  <2> QED
    BY <2>2, <2>3
<1>5. Form(r, c, "updateRole")
  BY <1>1, <1>2 DEF Form, Stages, Accepting, Targeting, Inviting
<1>6. Fit(r, c, "updateRole")
  <2>1. FitsNames(r, c, "updateRole")
    BY <1>1, <1>2, <1>4 DEF FitsNames, Joining, Inviting, Targeting
  <2>2. /\ FitsOrgs(r, c, "updateRole") /\ FitsOwners(r, c, "updateRole")
        /\ FitsInvitations(r, c, "updateRole")
    BY DEF FitsOrgs, FitsOwners, FitsInvitations, Joining, Inserting, Inviting, Purging, Accepting, Joined
  <2> QED
    BY <2>1, <2>2 DEF Fit
<1> QED
  BY <1>1, <1>2, <1>3, <1>5, <1>6, BeginKeeps DEF UpdateOrgRole, Only

LEMMA UpdateOrganizationRoleKeeps ==
    ASSUME IInv, NEW r \in Requests, UpdateOrganizationRole(r)
    PROVE  IInv'
<1>1. /\ pc[r] = "updateRole" /\ pc[r] \notin Purging /\ Return(r) /\ role[call[r].id] # None
      /\ role' = [role EXCEPT ![call[r].id] = call[r].new]
      /\ UNCHANGED <<orgs, member, invitation, team, teamMember, ghosts, adapter, options>>
  BY DEF UpdateOrganizationRole, Only, Purging
<1>2. PICK c \in Call : /\ c = call[r] /\ c.id \in Names /\ c.new \in RoleRow /\ c.new.org = c.org
                        /\ (role[c.id] # None => role[c.id].org = c.org)
  BY <1>1, AtStage DEF Form, Fit, FitsNames
<1>3. PICK new \in RoleRow, d \in Names : new = c.new /\ new.org = c.org /\ d = c.id
  BY <1>2
<1>4. /\ role' \in [Names -> RoleRow \cup {None}] /\ role'[d] = new
      /\ \A n \in Names : n # d => role'[n] = role[n]
  BY <1>1, <1>2, <1>3, Typed
<1>5. \A n \in Names : role'[n] # None => SameRole(n)
  BY <1>1, <1>2, <1>3, <1>4 DEF SameRole
<1>6. RolesMove(r)
  BY <1>4, <1>5 DEF RolesMove
<1> QED
  BY <1>1, <1>6, RoleRows, SameMarks, ReturnKeeps

LEMMA DeleteOrgRoleKeeps ==
    ASSUME IInv, NEW r \in Requests, NEW u \in Users, NEW o \in Orgs, NEW d \in RolesOf(o),
           DeleteOrgRole(r, u, o, d)
    PROVE  IInv'
<1>1. d \in Names /\ RowsLeft(o) # {}
  BY InRowsLeft DEF RolesOf
<1>2. PICK c \in Call : c = [Ask(o, u) EXCEPT !.id = d] /\ c.org = o
  <2>1. [Ask(o, u) EXCEPT !.id = d] \in Call
    BY <1>1 DEF Ask, Call
  <2> QED
    BY <2>1 DEF Ask
<1>3. Begin(r, c, "deleteRole") /\ "deleteRole" \in Plain
  BY <1>2 DEF DeleteOrgRole, Plain
<1> QED
  BY <1>1, <1>2, <1>3, PlainBegin DEF DeleteOrgRole

LEMMA DeleteOrganizationRoleKeeps ==
    ASSUME IInv, NEW r \in Requests, DeleteOrganizationRole(r)
    PROVE  IInv'
<1>1. /\ pc[r] = "deleteRole" /\ pc[r] \notin Purging /\ Return(r) /\ role' = Without(role, {call[r].id})
      /\ UNCHANGED <<orgs, member, invitation, team, teamMember, ghosts, adapter, options>>
  BY DEF DeleteOrganizationRole, Only, Purging
<1>2. role \in [Names -> RoleRow \cup {None}]
  BY Typed
<1>3. /\ role' \in [Names -> RoleRow \cup {None}]
      /\ \A n \in Names : role'[n] \in {None, role[n]}
  BY <1>1, <1>2 DEF Without
<1>4. RolesMove(r)
  BY <1>3 DEF RolesMove, SameRole
<1> QED
  BY <1>1, <1>4, RoleRows, SameMarks, ReturnKeeps

-----------------------------------------------------------------------------
LEMMA StopKeeps ==
    ASSUME IInv, NEW r \in Requests, Stop(r)
    PROVE  IInv'
<1>1. /\ pc[r] \notin {"idle", "done"} /\ Return(r) /\ UNCHANGED rows
      /\ UNCHANGED <<adapter, options, vetted, overtaken>>
      /\ cut' = IF pc[r] \in Purging THEN cut \cup {call[r].org} ELSE cut
  BY DEF Stop, Only
<1>2. call[r].org \in Orgs
  BY <1>1, AtStage DEF Call
<1>3. MarksMove(r) /\ RowsMove(r) /\ orgs' = orgs
  BY <1>1, <1>2, Typed, QuietRows DEF MarksMove, rows
<1>4. Ends(r, None, "done")
  BY <1>1, <1>3 DEF Ends, Purges
<1>5. Passes(r, None, "done") /\ Holds(r, None, "done")
  BY DEF Passes, Holds, Joining
<1> QED
  BY <1>1, <1>3, <1>4, <1>5, StepKeeps DEF Return

LEMMA LapseKeeps ==
    ASSUME IInv, NEW i \in Names, Lapse(i)
    PROVE  IInv'
<1>1. /\ invitation[i] # None /\ invitation' = [invitation EXCEPT ![i].lapsed = TRUE]
      /\ UNCHANGED <<adapter, options, orgs, member, team, teamMember, role, pc, call, vetted, overtaken, cut>>
  BY DEF Lapse, Only, ghosts
<1>2. PICK w \in InvitationRow : w = invitation[i]
  BY <1>1, Typed
<1>3. PICK v \in InvitationRow :
         v = [w EXCEPT !.lapsed = TRUE] /\ v.org = w.org /\ v.role = w.role /\ v.status = w.status
  <2>1. /\ [w EXCEPT !.lapsed = TRUE] \in InvitationRow
        /\ [w EXCEPT !.lapsed = TRUE].org = w.org /\ [w EXCEPT !.lapsed = TRUE].role = w.role
        /\ [w EXCEPT !.lapsed = TRUE].status = w.status
    BY DEF InvitationRow
  <2> QED
    BY <2>1
<1>4. /\ invitation' \in [Names -> InvitationRow \cup {None}]
      /\ \A n \in Names : invitation'[n] = IF n = i THEN v ELSE invitation[n]
  BY <1>1, <1>2, <1>3, Typed
<1>5. \A n \in Names : /\ invitation'[n] = None <=> invitation[n] = None
                       /\ invitation[n] # None => /\ invitation'[n].org = invitation[n].org
                                                  /\ invitation'[n].role = invitation[n].role
                                                  /\ invitation'[n].status = invitation[n].status
  BY <1>1, <1>2, <1>3, <1>4, NameAssumption
<1>6. \A o \in Orgs : InvitationsOf(o)' = InvitationsOf(o)
  BY <1>5 DEF InvitationsOf
<1>7. \A o \in Orgs : Members(o)' = Members(o) /\ TeamsOf(o)' = TeamsOf(o) /\ RolesOf(o)' = RolesOf(o)
                      /\ InFlight(o)' = InFlight(o) /\ RowsLeft(o)' = RowsLeft(o)
  BY <1>1, <1>6 DEF Members, TeamsOf, RolesOf, InFlight, RowsLeft
<1>8. TypeOK'
  BY <1>1, <1>4 DEF IInv, TypeOK
<1>9. Once' /\ OwnersInvite' /\ DeletedLeavesNothing'
  <2>1. Once'
    BY <1>1 DEF IInv, Once, Twice
  <2>2. OwnersInvite'
    BY <1>1, <1>5 DEF IInv, OwnersInvite
  <2>3. DeletedLeavesNothing'
    <3>1. SUFFICES ASSUME NEW o \in Orgs \ orgs
                   PROVE  \/ o \in cut \/ \E q \in InFlight(o)' : pc[q] \in Purging
                          \/ RowsLeft(o)' \subseteq overtaken
      BY <1>1 DEF DeletedLeavesNothing, RowsLeft
    <3> QED
      BY <1>7 DEF IInv, DeletedLeavesNothing, RowsLeft
  <2> QED
    BY <2>1, <2>2, <2>3
<1>10. ASSUME NEW r \in Requests
       PROVE  /\ pc'[r] = "idle" => Fresh(r)'
              /\ pc'[r] = "done" => call'[r] = None
              /\ pc'[r] \notin {"idle", "done"} => (Form(r, call[r], pc[r]) /\ Fit(r, call[r], pc[r]))'
  <2>1. ASSUME pc[r] = "idle" PROVE Fresh(r)'
    <3>1. Fresh(r) /\ r \in Names /\ r \in Orgs
      BY <2>1, AtIdle, RequestIn
    <3> QED
      BY <1>1, <1>5, <1>7, <3>1 DEF Fresh
  <2>2. pc[r] = "done" => call[r] = None
    BY DEF IInv, RequestInv
  <2>3. ASSUME pc[r] \notin {"idle", "done"}
        PROVE  (Form(r, call[r], pc[r]) /\ Fit(r, call[r], pc[r]))'
    <3>1. PICK c, s : c \in Call /\ c = call[r] /\ s = pc[r] /\ Form(r, c, s) /\ Fit(r, c, s)
      BY <2>3, AtStage
    <3>2. c = call'[r] /\ s = pc'[r] /\ c.org \in Orgs /\ r \in Names
      BY <1>1, <3>1, RequestIn DEF Call
    <3>3. FitsNames(r, c, s)'
      BY <1>1, <1>5, <3>1, <3>2 DEF Fit, FitsNames
    <3>4. FitsOrgs(r, c, s)'
      <4>1. RowsOf(c.org, c.user)' = RowsOf(c.org, c.user)
        BY <1>1, <1>7, <3>2 DEF RowsOf
      <4> QED
        BY <1>1, <1>6, <1>7, <3>1, <3>2, <4>1 DEF Fit, FitsOrgs
    <3>5. FitsOwners(r, c, s)'
      <4>1. Owners(c.org)' = Owners(c.org) /\ Owns(c.id)' = Owns(c.id)
        BY <1>1 DEF Owners, Members, Owns
      <4> QED
        BY <1>1, <3>1, <4>1 DEF Fit, FitsOwners
    <3>6. FitsInvitations(r, c, s)'
      <4>1. c.id # None => (Open(c.id)' <=> Open(c.id))
        BY <1>5, <3>1 DEF Open, Call
      <4> QED
        BY <1>1, <3>1, <4>1 DEF Fit, FitsInvitations
    <3>7. Fit(r, c, s)'
      BY <3>3, <3>4, <3>5, <3>6 DEF Fit
    <3> QED
      BY <3>1, <3>2, <3>7
  <2> QED
    BY <1>1, <2>1, <2>2, <2>3
<1> QED
  BY <1>8, <1>9, <1>10 DEF IInv, RequestInv

-----------------------------------------------------------------------------
LEMMA NamesFinite == IsFiniteSet(Names)
BY FiniteAssumption, FS_Union DEF Names

(* Two members of one user in one organization are two rows of RowsOf.     *)
LEMMA TwoRows ==
    ASSUME NEW S, S \subseteq Names, NEW n \in S, NEW m \in S, n # m
    PROVE  Cardinality(S) > 1
<1>1. IsFiniteSet(S)
  BY NamesFinite, FS_Subset
<1>2. IsFiniteSet({n}) /\ Cardinality({n}) = 1
  BY FS_Singleton
<1>3. IsFiniteSet({n} \cup {m}) /\ Cardinality({n} \cup {m}) = 2
  BY <1>2, FS_AddElement
<1>4. {n} \cup {m} \subseteq S
  OBVIOUS
<1>5. Cardinality({n} \cup {m}) <= Cardinality(S)
  BY <1>1, <1>4, FS_Subset
<1>6. Cardinality(S) \in Nat
  BY <1>1, FS_CardinalityType
<1> QED
  BY <1>3, <1>5, <1>6

LEMMA InitIInv == Init => IInv
<1> SUFFICES ASSUME Init PROVE IInv
  OBVIOUS
<1>1. PICK b \in Beginnings :
         /\ member     = [n \in Names |-> IF n \in OldRows THEN b.member[n] ELSE None]
         /\ invitation = [n \in Names |-> IF n \in OldRows THEN b.invitation[n] ELSE None]
         /\ team       = [n \in Names |-> IF n \in OldRows THEN b.team[n] ELSE None]
         /\ role       = [n \in Names |-> IF n \in OldRows THEN b.role[n] ELSE None]
  BY DEF Init
<1>2. \A n \in OldRows : /\ b.member[n] \in {m \in MemberRow : m.org = First} \cup {None}
                         /\ b.invitation[n] \in {i \in InvitationRow : i.org = First} \cup {None}
                         /\ b.team[n] \in {First, None}
                         /\ b.role[n] \in {d \in RoleRow : d.org = First} \cup {None}
  BY BeginningAssumption
<1>3. /\ adapter \in Adapters /\ options \in Configs /\ orgs = {First} /\ First \in Orgs
      /\ teamMember = [n \in Names |-> None]
      /\ pc = [r \in Requests |-> "idle"] /\ call = [r \in Requests |-> None]
      /\ vetted = {} /\ overtaken = {} /\ cut = {}
      /\ \A u \in Users : Cardinality(RowsOf(First, u)) <= 1
  BY DEF Init, Orgs
<1>4. \A n \in Names :
         /\ member[n] # None => n \in OldRows /\ member[n] \in MemberRow /\ member[n].org = First
         /\ invitation[n] # None => /\ n \in OldRows /\ invitation[n] \in InvitationRow
                                    /\ invitation[n].org = First
         /\ team[n] # None => team[n] = First
         /\ role[n] # None => n \in OldRows /\ role[n] \in RoleRow /\ role[n].org = First
  BY <1>1, <1>2
<1>5. TypeOK
  <2>1. member \in [Names -> MemberRow \cup {None}] /\ invitation \in [Names -> InvitationRow \cup {None}]
    BY <1>1, <1>4
  <2>2. team \in [Names -> Orgs \cup {None}] /\ role \in [Names -> RoleRow \cup {None}]
    BY <1>1, <1>3, <1>4
  <2>3. pc \in [Requests -> Stages] /\ call \in [Requests -> Call \cup {None}]
    BY <1>3 DEF Stages
  <2> QED
    BY <1>3, <2>1, <2>2, <2>3 DEF TypeOK
<1>6. \A o \in Orgs : o # First => RowsLeft(o) = {}
  BY <1>4, NameAssumption DEF RowsLeft, Members, InvitationsOf, TeamsOf, RolesOf
<1>7. RequestInv
  <2>1. SUFFICES ASSUME NEW r \in Requests PROVE Fresh(r)
    BY <1>3 DEF RequestInv
  <2>2. r \in Orgs /\ r # First /\ r \in Names /\ r \notin OldRows
    BY RequestIn, NameAssumption
  <2>3. member[r] = None /\ invitation[r] = None /\ role[r] = None
    BY <1>4, <2>2
  <2>4. InFlight(r) = {}
    BY <1>3 DEF InFlight
  <2> QED
    BY <1>3, <1>6, <2>2, <2>3, <2>4 DEF Fresh
<1>8. Once
  <2>1. SUFFICES ASSUME NEW n \in Names, NEW m \in Names, n # m, member[n] # None, member[m] # None, Twice(n, m)
                 PROVE  FALSE
    BY DEF Once
  <2>2. PICK u \in Users : u = member[n].user
    BY <1>4, <2>1 DEF MemberRow
  <2>3. n \in RowsOf(First, u) /\ m \in RowsOf(First, u)
    BY <1>4, <2>1, <2>2 DEF RowsOf, Members, Twice
  <2>4. RowsOf(First, u) \subseteq Names
    BY DEF RowsOf, Members
  <2>5. Cardinality(RowsOf(First, u)) > 1
    BY <2>1, <2>3, <2>4, TwoRows
  <2>6. IsFiniteSet(RowsOf(First, u)) /\ Cardinality(RowsOf(First, u)) \in Nat
    BY <2>4, NamesFinite, FS_Subset, FS_CardinalityType
  <2> QED
    BY <1>3, <2>5, <2>6
<1>9. OwnersInvite
  BY <1>4 DEF OwnersInvite
<1>10. DeletedLeavesNothing
  BY <1>3, <1>6 DEF DeletedLeavesNothing, RowsLeft
<1> QED
  BY <1>5, <1>7, <1>8, <1>9, <1>10 DEF IInv

LEMMA AskKeeps ==
    ASSUME IInv, NEW r \in Requests, NEW u \in Users, AskUser(r, u) \/ \E o \in Orgs : AskOf(r, u, o)
    PROVE  IInv'
<1>1. CASE AskUser(r, u)
  BY <1>1, CreateOrganizationKeeps, AcceptInvitationKeeps, RejectInvitationKeeps, CancelInvitationKeeps
     DEF AskUser
<1>2. ASSUME NEW o \in Orgs, AskOf(r, u, o) PROVE IInv'
  <2>1. CASE DeleteOrg(r, u, o) \/ Leave(r, u, o) \/ CreateTeam(r, u, o)
    BY <2>1, DeleteOrgKeeps, LeaveKeeps, CreateTeamKeeps
  <2>2. CASE \E e \in Users, value \in RoleSets, t \in TeamsOf(o) \cup {None} : InviteMember(r, u, o, e, value, t)
    BY <2>2, InviteMemberKeeps
  <2>3. CASE \E value \in RoleSets, t \in TeamsOf(o) \cup {None} : AddMember(r, u, o, value, t)
    BY <2>3, AddMemberKeeps
  <2>4. CASE \E n \in Members(o) :
                RemoveMember(r, u, o, n) \/ \E value \in RoleSets : UpdateMemberRole(r, u, o, n, value)
    BY <2>4, RemoveMemberKeeps, UpdateMemberRoleKeeps
  <2>5. CASE \E t \in TeamsOf(o) :
                \/ RemoveTeam(r, u, o, t)
                \/ \E v \in Users : AddTeamMember(r, u, o, t, v) \/ RemoveTeamMember(r, u, o, t, v)
    BY <2>5, RemoveTeamKeeps, AddTeamMemberKeeps, RemoveTeamMemberKeeps
  <2>6. CASE \E name \in CustomRoles, allowed \in PermissionSets :
                \/ CreateOrgRole(r, u, o, name, allowed)
                \/ \E d \in RolesOf(o) : UpdateOrgRole(r, u, o, d, name, allowed)
    BY <2>6, CreateOrgRoleKeeps, UpdateOrgRoleKeeps
  <2>7. CASE \E d \in RolesOf(o) : DeleteOrgRole(r, u, o, d)
    BY <2>7, DeleteOrgRoleKeeps
  <2> QED
    BY <1>2, <2>1, <2>2, <2>3, <2>4, <2>5, <2>6, <2>7 DEF AskOf
<1> QED
  BY <1>1, <1>2

LEMMA StepOfKeeps ==
    ASSUME IInv, NEW r \in Requests, Step(r)
    PROVE  IInv'
<1>1. CASE OrganizationStep(r)
  BY <1>1, DeleteOrganizationKeeps, PurgeMembersKeeps, PurgeInvitationsKeeps, PurgeTeamsKeeps,
     PurgeRolesKeeps DEF OrganizationStep
<1>2. CASE MemberStep(r)
  BY <1>2, CreatorMemberKeeps, DropMemberKeeps, CreateMemberKeeps, UndoAddKeeps, findRemovableMemberKeeps,
     FindRoleTargetKeeps, memberRoleCountKeeps, DeleteMemberKeeps, SetRoleKeeps DEF MemberStep
<1>3. CASE InvitationStep(r)
  BY <1>3, PendingInvitationKeeps, UpdateInvitationExpiresAtKeeps, CancelPendingKeeps,
     organizationInvitationLimitKeeps, CreateInvitationKeeps, AcceptCheckKeeps, MarkAcceptedKeeps,
     AcceptJoinKeeps, createInvitationTeamMembershipsKeeps, ReopenKeeps, DeclineKeeps DEF InvitationStep
<1>4. CASE TeamStep(r)
  BY <1>4, createDefaultOrganizationTeamKeeps, CreatorTeamMemberKeeps, AddToTeamKeeps, InsertTeamKeeps,
     DeleteTeamKeeps, PurgeTeamMembersKeeps, CreateTeamMemberKeeps, DeleteTeamMemberByTeamAndUserKeeps
     DEF TeamStep
<1>5. CASE RoleStep(r)
  BY <1>5, CreateOrganizationRoleKeeps, UpdateOrganizationRoleKeeps, DeleteOrganizationRoleKeeps DEF RoleStep
<1>6. CASE Stop(r)
  BY <1>6, StopKeeps
<1>7. CASE \E u \in Users : AskUser(r, u) \/ \E o \in Orgs : AskOf(r, u, o)
  BY <1>7, AskKeeps
<1> QED
  BY <1>1, <1>2, <1>3, <1>4, <1>5, <1>6, <1>7 DEF Step

LEMMA UnchangedKeeps ==
    ASSUME IInv, UNCHANGED vars
    PROVE  IInv'
<1>1. UNCHANGED <<adapter, options, orgs, member, invitation, team, teamMember, role, pc, call,
                  vetted, overtaken, cut>>
  BY DEF vars, rows, ghosts
<1>2. TypeOK' /\ Once' /\ OwnersInvite'
  BY <1>1 DEF IInv, TypeOK, Once, Twice, OwnersInvite
<1>3. /\ \A o : /\ Members(o)' = Members(o) /\ InvitationsOf(o)' = InvitationsOf(o)
                /\ TeamsOf(o)' = TeamsOf(o) /\ RolesOf(o)' = RolesOf(o) /\ InFlight(o)' = InFlight(o)
                /\ RowsLeft(o)' = RowsLeft(o) /\ Owners(o)' = Owners(o)
                /\ \A u : RowsOf(o, u)' = RowsOf(o, u)
      /\ \A n : Owns(n)' = Owns(n) /\ Open(n)' = Open(n)
  BY <1>1 DEF Members, InvitationsOf, TeamsOf, RolesOf, InFlight, RowsLeft, Owners, Owns, Open, RowsOf
<1>4. DeletedLeavesNothing'
  BY <1>1, <1>3 DEF IInv, DeletedLeavesNothing
<1>5. \A r \in Requests : Fresh(r)' = Fresh(r)
  BY <1>1, <1>3 DEF Fresh
<1>6. ASSUME NEW r, NEW c, NEW s, Fit(r, c, s) PROVE Fit(r, c, s)'
  <2>1. FitsNames(r, c, s)' /\ FitsOrgs(r, c, s)'
    BY <1>1, <1>3, <1>6 DEF Fit, FitsNames, FitsOrgs
  <2>2. FitsOwners(r, c, s)' /\ FitsInvitations(r, c, s)'
    BY <1>1, <1>3, <1>6 DEF Fit, FitsOwners, FitsInvitations
  <2> QED
    BY <2>1, <2>2 DEF Fit
<1>7. RequestInv'
  <2>1. SUFFICES ASSUME NEW r \in Requests, pc[r] \notin {"idle", "done"}
                 PROVE  (Form(r, call[r], pc[r]) /\ Fit(r, call[r], pc[r]))'
    BY <1>1, <1>5 DEF IInv, RequestInv
  <2>2. PICK c, s : c = call[r] /\ s = pc[r] /\ Form(r, c, s) /\ Fit(r, c, s)
    BY <2>1, AtStage
  <2>3. Fit(r, c, s)' /\ c = call'[r] /\ s = pc'[r]
    BY <1>1, <1>6, <2>2
  <2> QED
    BY <2>2, <2>3
<1> QED
  BY <1>2, <1>4, <1>7 DEF IInv

LEMMA NextIInv == IInv /\ [Next]_vars => IInv'
BY StepOfKeeps, LapseKeeps, UnchangedKeeps DEF Next

-----------------------------------------------------------------------------
(* Which steps write member rows and invitations; the rest leave them.     *)
MemberWrite(r) ==
    \/ CreatorMember(r) \/ AcceptJoin(r) \/ CreateMember(r) \/ DropMember(r) \/ UndoAdd(r)
    \/ DeleteMember(r) \/ SetRole(r) \/ PurgeMembers(r) \/ DeleteOrganization(r)
InvitationWrite(r) ==
    \/ UpdateInvitationExpiresAt(r) \/ CancelPending(r) \/ CreateInvitation(r) \/ MarkAccepted(r)
    \/ Reopen(r) \/ Decline(r) \/ PurgeInvitations(r) \/ DeleteOrganization(r)

LEMMA AsksWriteNothing ==
    ASSUME NEW r \in Requests, NEW u \in Users, AskUser(r, u) \/ \E o \in Orgs : AskOf(r, u, o)
    PROVE  UNCHANGED <<member, invitation>>
<1>1. CASE AskUser(r, u)
  BY <1>1 DEF AskUser, CreateOrganization, AcceptInvitation, RejectInvitation, CancelInvitation, Only, rows
<1>2. ASSUME NEW o \in Orgs, AskOf(r, u, o) PROVE UNCHANGED <<member, invitation>>
  BY <1>2 DEF AskOf, DeleteOrg, Leave, CreateTeam, InviteMember, AddMember, RemoveMember, UpdateMemberRole,
       RemoveTeam, AddTeamMember, RemoveTeamMember, CreateOrgRole, UpdateOrgRole, DeleteOrgRole, Only, rows
<1> QED
  BY <1>1, <1>2

LEMMA OthersWriteNothing ==
    ASSUME NEW r \in Requests, TeamStep(r) \/ RoleStep(r) \/ Stop(r)
    PROVE  UNCHANGED <<member, invitation>>
<1>1. CASE TeamStep(r)
  BY <1>1 DEF TeamStep, createDefaultOrganizationTeam, CreatorTeamMember, AddToTeam, InsertTeam, DeleteTeam,
       PurgeTeamMembers, CreateTeamMember, DeleteTeamMemberByTeamAndUser, Only
<1>2. CASE RoleStep(r) \/ Stop(r)
  BY <1>2 DEF RoleStep, CreateOrganizationRole, UpdateOrganizationRole, DeleteOrganizationRole, Stop, Only, rows
<1> QED
  BY <1>1, <1>2

LEMMA MemberWriters ==
    ASSUME NEW r \in Requests, Step(r)
    PROVE  MemberWrite(r) \/ UNCHANGED member
<1>1. CASE OrganizationStep(r)
  BY <1>1 DEF OrganizationStep, PurgeInvitations, PurgeTeams, PurgeRoles, Only, MemberWrite
<1>2. CASE MemberStep(r)
  BY <1>2 DEF MemberStep, findRemovableMember, FindRoleTarget, memberRoleCount, Only, rows, MemberWrite
<1>3. CASE InvitationStep(r)
  BY <1>3 DEF InvitationStep, PendingInvitation, UpdateInvitationExpiresAt, CancelPending,
       organizationInvitationLimit, CreateInvitation, AcceptCheck, MarkAccepted,
       createInvitationTeamMemberships, Reopen, Decline, Only, rows, MemberWrite
<1> QED
  BY <1>1, <1>2, <1>3, AsksWriteNothing, OthersWriteNothing DEF Step

LEMMA InvitationWriters ==
    ASSUME NEW r \in Requests, Step(r)
    PROVE  InvitationWrite(r) \/ UNCHANGED invitation
<1>1. CASE OrganizationStep(r)
  BY <1>1 DEF OrganizationStep, PurgeMembers, PurgeTeams, PurgeRoles, Only, InvitationWrite
<1>2. CASE MemberStep(r)
  BY <1>2 DEF MemberStep, CreatorMember, DropMember, CreateMember, UndoAdd, findRemovableMember,
       FindRoleTarget, memberRoleCount, DeleteMember, SetRole, Only, rows
<1>3. CASE InvitationStep(r)
  BY <1>3 DEF InvitationStep, PendingInvitation, organizationInvitationLimit, AcceptCheck, AcceptJoin,
       createInvitationTeamMemberships, Only, rows, InvitationWrite
<1> QED
  BY <1>1, <1>2, <1>3, AsksWriteNothing, OthersWriteNothing DEF Step

(* A request moves only itself.                                            *)
LEMMA OneActs ==
    ASSUME IInv, NEW r \in Requests, NEW c, NEW stage, Keep(r, c, stage)
    PROVE  Acting \subseteq {r}
BY Typed DEF Acting, Keep

LEMMA WritersAct ==
    ASSUME IInv, NEW r \in Requests, MemberWrite(r) \/ InvitationWrite(r)
    PROVE  Acting \subseteq {r}
<1>1. CASE MemberWrite(r) \/ InvitationWrite(r)
  <2>1. \E c, stage : Go(r, stage) \/ Keep(r, c, stage)
    <3>1. CASE CreatorMember(r) \/ AcceptJoin(r)
      BY <3>1 DEF CreatorMember, AcceptJoin, Return
    <3>2. CASE CreateMember(r) \/ UndoAdd(r)
      BY <3>2 DEF CreateMember, UndoAdd, UndoTeam, Return
    <3>3. CASE DropMember(r)
      BY <3>3 DEF DropMember
    <3>4. CASE DeleteMember(r) \/ SetRole(r)
      BY <3>4 DEF DeleteMember, SetRole, Return
    <3>5. CASE PurgeMembers(r) \/ PurgeInvitations(r)
      BY <3>5 DEF PurgeMembers, PurgeInvitations
    <3>6. CASE DeleteOrganization(r)
      BY <3>6 DEF DeleteOrganization, DeleteOrganizationInMemory, DeleteOrganizationRow, Return
    <3>7. CASE UpdateInvitationExpiresAt(r) \/ CreateInvitation(r) \/ Reopen(r) \/ Decline(r)
      BY <3>7 DEF UpdateInvitationExpiresAt, CreateInvitation, Reopen, Decline, Return
    <3>8. CASE MarkAccepted(r)
      BY <3>8 DEF MarkAccepted
    <3>9. CASE CancelPending(r)
      BY <3>9 DEF CancelPending
    <3> QED
      BY <1>1, <3>1, <3>2, <3>3, <3>4, <3>5, <3>6, <3>7, <3>8, <3>9 DEF MemberWrite, InvitationWrite
  <2>2. ASSUME NEW c, NEW stage, Go(r, stage) \/ Keep(r, c, stage) PROVE Acting \subseteq {r}
    BY <2>2, GoKeep, OneActs
  <2> QED
    BY <2>1, <2>2
<1> QED
  BY <1>1

(* Where member rows are written: a new row of r, the row of the request's *)
(* target, r's own row taken back, all rows of an organization.            *)
MembersBesides(n) == \A m \in Names \ {n} : member'[m] = member[m]

LEMMA MemberWriteForms ==
    ASSUME IInv, NEW r \in Requests, MemberWrite(r)
    PROVE  \/ /\ member[r] = None /\ MembersBesides(r) /\ pc[r] \in {"createMember", "add", "join"}
              /\ pc[r] = "join" => member' = member \/ member'[r].role = call[r].role
           \/ /\ pc[r] \in {"dropMember", "undoAdd"} /\ MembersBesides(r) /\ member'[r] \in {None, member[r]}
           \/ /\ pc[r] = "deleteMember" /\ MembersBesides(call[r].id) /\ member'[call[r].id] = None
           \/ /\ pc[r] = "setRole" /\ MembersBesides(call[r].id) /\ member[call[r].id] # None
              /\ member'[call[r].id] = [member[call[r].id] EXCEPT !.role = call[r].role]
           \/ /\ \A n \in Names : member'[n] # member[n] => member'[n] = None /\ member[n].org \notin orgs \cap orgs'
<1>0. r \in Names /\ member \in [Names -> MemberRow \cup {None}]
  BY RequestIn DEF IInv, TypeOK
<1>1. ASSUME NEW value, InsertMember(r, value)
      PROVE  MembersBesides(r) /\ member'[r].role = value
  BY <1>0, <1>1 DEF InsertMember, MembersBesides
<1>2. CASE CreatorMember(r) \/ AcceptJoin(r) \/ CreateMember(r)
  <2>1. pc[r] \in {"createMember", "add", "join"} /\ pc[r] \in Joining \ {"checkJoin"}
    BY <1>2 DEF CreatorMember, AcceptJoin, CreateMember, Joining
  <2>2. member[r] = None
    BY <2>1, AtJoining
  <2>3. \/ member' = member
        \/ pc[r] = "createMember" /\ InsertMember(r, {"owner"})
        \/ pc[r] \in {"add", "join"} /\ InsertMember(r, call[r].role)
    BY <1>2 DEF CreatorMember, AcceptJoin, CreateMember
  <2> QED
    BY <1>1, <2>1, <2>2, <2>3 DEF MembersBesides
<1>3. CASE DropMember(r) \/ UndoAdd(r)
  <2>1. pc[r] \in {"dropMember", "undoAdd"} /\ (member' = member \/ member' = Without(member, {r}))
    BY <1>3 DEF DropMember, UndoAdd
  <2> QED
    BY <1>0, <2>1 DEF Without, MembersBesides
<1>4. CASE DeleteMember(r)
  <2>1. pc[r] = "deleteMember" /\ pc[r] \in Targeting /\ member' = Without(member, {call[r].id})
    BY <1>4 DEF DeleteMember, Targeting
  <2> QED
    BY <2>1, AtTarget DEF Without, MembersBesides
<1>5. CASE SetRole(r)
  <2>1. pc[r] = "setRole" /\ pc[r] \in Targeting /\ WriteMemberRole(call[r].id, call[r].role)
    BY <1>5 DEF SetRole, Targeting
  <2> QED
    BY <1>0, <2>1, AtTarget DEF WriteMemberRole, MembersBesides
<1>6. CASE PurgeMembers(r)
  <2>1. /\ pc[r] \in Purging
        /\ member' = member \/ member' = Without(member, Members(call[r].org))
    BY <1>6 DEF PurgeMembers, Purge, Purging
  <2>2. call[r].org \notin orgs
    BY <2>1, AtPurge
  <2> QED
    BY <1>0, <2>1, <2>2 DEF Without, Members
<1>7. CASE DeleteOrganization(r)
  <2>1. /\ orgs' = orgs \ {call[r].org}
        /\ member' = member \/ member' = Without(member, Members(call[r].org))
    BY <1>7 DEF DeleteOrganization, DeleteOrganizationInMemory, DeleteOrganizationRow
  <2> QED
    BY <1>0, <2>1 DEF Without, Members
<1> QED
  BY <1>2, <1>3, <1>4, <1>5, <1>6, <1>7 DEF MemberWrite

(* Who a single row takes the last owner from.                             *)
LEMMA LastOwner ==
    ASSUME IInv, NEW o, NEW n \in Names, MembersBesides(n), Owners(o) # {}, Owners(o)' = {}
    PROVE  Owners(o) = {n} /\ n \notin Owners(o)' /\ member[n].org = o /\ member[n] # None
<1>1. \A m \in Names \ {n} : m \in Owners(o) => m \in Owners(o)'
  BY DEF MembersBesides, Owners, Members, Owns
<1>2. Owners(o) \subseteq {n}
  BY <1>1 DEF Owners, Members
<1> QED
  BY <1>2 DEF Owners, Members, Owns


LEMMA StepKeepsOwners ==
    ASSUME IInv, NEW r \in Requests, MemberWrite(r), NEW o \in orgs \cap orgs', Owners(o) # {}, Owners(o)' = {}
    PROVE  r \in overtaken \/ (pc[r] \in {"dropMember", "undoAdd"} /\ r \in Owners(o))
<1>0. r \in Names /\ member \in [Names -> MemberRow \cup {None}]
  BY RequestIn DEF IInv, TypeOK
<1>1. ASSUME MembersBesides(r), member[r] = None PROVE FALSE
  BY <1>0, <1>1, LastOwner
<1>2. ASSUME pc[r] \in {"dropMember", "undoAdd"}, MembersBesides(r) PROVE r \in Owners(o)
  BY <1>0, <1>2, LastOwner
<1>3. ASSUME pc[r] \in {"deleteMember", "setRole"}, MembersBesides(call[r].id),
             pc[r] = "setRole" => member'[call[r].id] = [member[call[r].id] EXCEPT !.role = call[r].role]
      PROVE  r \in overtaken
  <2>1. pc[r] \in Targeting
    BY <1>3 DEF Targeting
  <2>2. PICK n \in Names : n = call[r].id
    BY <2>1, AtTarget
  <2>3. Owners(o) = {n} /\ n \notin Owners(o)' /\ member[n].org = o /\ member[n] # None
    BY <1>3, <2>2, LastOwner
  <2>4. call[r].org = o /\ Owns(n)
    BY <2>1, <2>2, <2>3, AtTarget DEF Owners
  <2>5. pc[r] = "setRole" => "owner" \notin call[r].role
    <3>1. SUFFICES ASSUME pc[r] = "setRole", "owner" \in call[r].role PROVE FALSE
      OBVIOUS
    <3>2. member[n] \in MemberRow
      BY <1>0, <2>3
    <3>3. member'[n].org = o /\ member'[n].role = call[r].role
      BY <1>3, <2>2, <2>3, <3>1, <3>2 DEF MemberRow
    <3>4. call[r].role \in RoleSets
      BY <2>1, <3>1, AtTarget DEF Form
    <3>5. member'[n] = [org |-> o, user |-> member[n].user, role |-> call[r].role]
      BY <1>3, <2>2, <2>3, <3>1, <3>2 DEF MemberRow
    <3>6. member'[n] # None
      BY <2>3, <3>2, <3>4, <3>5, NameAssumption DEF MemberRow
    <3> QED
      BY <2>3, <3>1, <3>3, <3>6 DEF Owners, Members, Owns
  <2>6. ~Owns(n) \/ Owners(o) \ {n} # {} \/ r \in overtaken
    BY <1>3, <2>1, <2>2, <2>4, <2>5, AtTarget DEF FitsOwners
  <2> QED
    BY <2>3, <2>4, <2>6
<1>4. ASSUME \A n \in Names : member'[n] # member[n] => member'[n] = None /\ member[n].org \notin orgs \cap orgs'
      PROVE  FALSE
  BY <1>4 DEF Owners, Members, Owns
<1> QED
  BY <1>1, <1>2, <1>3, <1>4, MemberWriteForms

LEMMA StepGrants ==
    ASSUME IInv, NEW r \in Requests, MemberWrite(r), NEW n \in Names, Owns(n)', ~Owns(n)
    PROVE  \/ pc[r] \in {"createMember", "add"}
           \/ pc[r] = "setRole" /\ r \in vetted
           \/ pc[r] = "join" /\ call[r].id \in OldRows \cup vetted
<1>0. r \in Names /\ member \in [Names -> MemberRow \cup {None}] /\ member'[n] # member[n] /\ member'[n] # None
  BY RequestIn DEF IInv, TypeOK, Owns
<1>1. ASSUME pc[r] = "join", MembersBesides(r), member' = member \/ member'[r].role = call[r].role
      PROVE  call[r].id \in OldRows \cup vetted
  <2>1. "owner" \in call[r].role
    BY <1>0, <1>1 DEF MembersBesides, Owns
  <2> QED
    BY <1>1, <2>1, AtAccepting DEF Accepting
<1>2. ASSUME pc[r] = "setRole", MembersBesides(call[r].id), member[call[r].id] # None,
             member'[call[r].id] = [member[call[r].id] EXCEPT !.role = call[r].role]
      PROVE  r \in vetted
  <2>1. n = call[r].id /\ pc[r] \in Targeting
    BY <1>0, <1>2 DEF MembersBesides, Targeting
  <2>2. member[n] \in MemberRow
    BY <1>0, <1>2, <2>1
  <2>3. member'[n].role = call[r].role
    BY <1>2, <2>1, <2>2 DEF MemberRow
  <2>4. "owner" \in call[r].role
    BY <2>3 DEF Owns
  <2> QED
    BY <1>2, <2>1, <2>4, AtTarget DEF FitsOwners
<1>3. ASSUME MembersBesides(r), member'[r] \in {None, member[r]} PROVE FALSE
  BY <1>0, <1>3 DEF MembersBesides
<1>4. ASSUME MembersBesides(call[r].id), member'[call[r].id] = None PROVE FALSE
  BY <1>0, <1>4 DEF MembersBesides
<1> QED
  BY <1>0, <1>1, <1>2, <1>3, <1>4, MemberWriteForms

(* What a status that is written does to the other statuses.               *)
LEMMA StatusWritten ==
    ASSUME IInv, NEW r \in Requests, NEW status, UpdateInvitationStatus(call[r].id, status), NEW i \in Names,
           invitation[i] # None, invitation'[i] # None, invitation[i].status # invitation'[i].status
    PROVE  i = call[r].id /\ invitation'[i].status = status
<1>1. invitation \in [Names -> InvitationRow \cup {None}] /\ invitation[i] \in InvitationRow
  BY DEF IInv, TypeOK
<1>2. invitation' = [invitation EXCEPT ![call[r].id].status = status]
  BY DEF UpdateInvitationStatus
<1>3. i = call[r].id
  BY <1>1, <1>2
<1>4. invitation'[i] = [invitation[i] EXCEPT !.status = status]
  BY <1>1, <1>2, <1>3
<1> QED
  BY <1>1, <1>3, <1>4 DEF InvitationRow

LEMMA StepRevives ==
    ASSUME IInv, NEW r \in Requests, InvitationWrite(r), NEW i \in Names,
           invitation[i] # None, invitation'[i] # None,
           invitation[i].status \in {"rejected", "canceled"},
           invitation'[i].status \in {"pending", "accepted"}
    PROVE  r \in overtaken
<1>0. /\ invitation \in [Names -> InvitationRow \cup {None}] /\ invitation[i] \in InvitationRow
      /\ ~Open(i) /\ invitation[i].status # invitation'[i].status
  BY DEF IInv, TypeOK, Open
<1>1. CASE UpdateInvitationExpiresAt(r)
  <2>1. invitation' = [invitation EXCEPT ![call[r].id].lapsed = FALSE]
    BY <1>1 DEF UpdateInvitationExpiresAt
  <2>2. invitation'[i].status = invitation[i].status
    BY <1>0, <2>1 DEF InvitationRow
  <2> QED
    BY <1>0, <2>2
<1>2. CASE CancelPending(r) \/ Decline(r)
  <2>1. UpdateInvitationStatus(call[r].id, "canceled") \/ UpdateInvitationStatus(call[r].id, "rejected")
    BY <1>2 DEF CancelPending, Decline
  <2> QED
    BY <1>0, <2>1, StatusWritten
<1>3. CASE CreateInvitation(r)
  <2>1. pc[r] \in Inviting
    BY <1>3 DEF CreateInvitation, Inviting
  <2>2. Fit(r, call[r], pc[r])
    BY <2>1, Stages1, AtStage
  <2>3. invitation[r] = None
    BY <2>1, <2>2 DEF Fit, FitsNames
  <2>4. i = r
    BY <1>0, <1>3 DEF CreateInvitation
  <2> QED
    BY <2>3, <2>4
<1>4. CASE MarkAccepted(r)
  <2>1. pc[r] \in Accepting /\ UpdateInvitationStatus(call[r].id, "accepted")
    BY <1>4 DEF MarkAccepted, Accepting
  <2>2. i = call[r].id
    BY <1>0, <2>1, StatusWritten
  <2> QED
    BY <1>0, <2>1, <2>2, AtAccepting
<1>5. CASE Reopen(r)
  <2>1. pc[r] = "reopen" /\ UpdateInvitationStatus(call[r].id, "pending")
    BY <1>0, <1>5 DEF Reopen
  <2>2. i = call[r].id
    BY <1>0, <2>1, StatusWritten
  <2>3. Fit(r, call[r], pc[r]) /\ i # None
    BY <2>1, AtStage, NameAssumption
  <2> QED
    BY <1>0, <2>1, <2>2, <2>3 DEF Fit, FitsInvitations, Joined
<1>6. CASE PurgeInvitations(r) \/ DeleteOrganization(r)
  <2>1. PICK S : invitation' = invitation \/ invitation' = Without(invitation, S)
    BY <1>6 DEF PurgeInvitations, Purge, DeleteOrganization, DeleteOrganizationInMemory, DeleteOrganizationRow
  <2>2. invitation'[i] \in {None, invitation[i]}
    BY <2>1 DEF Without
  <2> QED
    BY <1>0, <2>2
<1> QED
  BY <1>1, <1>2, <1>3, <1>4, <1>5, <1>6 DEF InvitationWrite

(* The clock changes no status and no member.                              *)
LEMMA LapseWrites ==
    ASSUME IInv, NEW i \in Names, Lapse(i)
    PROVE  /\ UNCHANGED member
           /\ \A n \in Names : invitation[n] # None => invitation'[n].status = invitation[n].status
<1>1. /\ UNCHANGED member
      /\ invitation' = [invitation EXCEPT ![i].lapsed = TRUE]
      /\ invitation \in [Names -> InvitationRow \cup {None}]
  BY DEF IInv, TypeOK, Lapse, Only
<1>2. ASSUME NEW n \in Names, invitation[n] # None PROVE invitation'[n].status = invitation[n].status
  <2>1. invitation[n] \in InvitationRow
    BY <1>1, <1>2
  <2> QED
    BY <1>1, <2>1 DEF InvitationRow
<1> QED
  BY <1>1, <1>2

(* A step is a write of one request, or leaves the members, and likewise   *)
(* the statuses, as they are.                                              *)
LEMMA NextWrites ==
    ASSUME IInv, [Next]_vars
    PROVE  /\ UNCHANGED member \/ \E r \in Requests : MemberWrite(r) /\ Acting \subseteq {r}
           /\ \/ \A n \in Names : invitation[n] # None => invitation'[n].status = invitation[n].status
              \/ \E r \in Requests : InvitationWrite(r) /\ Acting \subseteq {r}
<1>1. CASE \E r \in Requests : Step(r)
  BY <1>1, MemberWriters, InvitationWriters, WritersAct
<1>2. CASE \E i \in Names : Lapse(i)
  BY <1>2, LapseWrites
<1>3. CASE UNCHANGED vars
  BY <1>3 DEF vars, rows
<1> QED
  BY <1>1, <1>2, <1>3 DEF Next

-----------------------------------------------------------------------------
(* Whatever requests do to the rows of the organizations, in whatever      *)
(* order, every row keeps its form, every request fits the rows it works   *)
(* on or has been overtaken, and the parts of the invariant hold.          *)
THEOREM AlwaysIInv == Spec => []IInv
<1> QED
  BY InitIInv, NextIInv, PTL DEF Spec

(* A user is a member of an organization once, on any store: the look-up   *)
(* by organization and user in addMember, acceptInvitation and create is   *)
(* enough except where two of them overlap on one user.                    *)
THEOREM MembersAreMembersOnce == Spec => []MemberOnce
<1>1. ASSUME IInv, NEW o \in Orgs, NEW u \in Users, Cardinality(RowsOf(o, u)) > 1
      PROVE  RowsOf(o, u) \cap overtaken # {}
  <2>1. PICK n : n \in RowsOf(o, u)
    BY <1>1, MoreThanOne
  <2>2. PICK m : m \in RowsOf(o, u) \ {n}
    BY <1>1, MoreThanOne
  <2>3. n \in overtaken \/ m \in overtaken
    BY <1>1, <2>1, <2>2 DEF IInv, Once, Twice, RowsOf, Members
  <2> QED
    BY <2>1, <2>2, <2>3
<1>2. IInv => MemberOnce
  BY <1>1 DEF MemberOnce
<1> QED
  BY <1>2, AlwaysIInv, PTL

(* What a deleted organization had is gone from all four tables, whether   *)
(* DeleteOrganization is one critical section or five statements, except   *)
(* for what overtaken requests wrote and what a failed statement left.     *)
THEOREM DeletionsLeaveNothing == Spec => []DeletedLeavesNothing
<1>1. IInv => DeletedLeavesNothing
  BY DEF IInv
<1> QED
  BY <1>1, AlwaysIInv, PTL

(* Nobody becomes an owner but by the routes that may make one: the        *)
(* checks of updateMemberRole and inviteMember hold until the row is       *)
(* written, however far the writes are from the checks.                    *)
THEOREM OwnershipIsGranted == Spec => OwnershipGranted
<1>1. ASSUME IInv, [Next]_vars, NEW n \in Names, Owns(n)', ~Owns(n), NEW q \in Acting
      PROVE  \/ pc[q] \in {"createMember", "add"}
             \/ pc[q] = "setRole" /\ q \in vetted
             \/ pc[q] = "join" /\ call[q].id \in OldRows \cup vetted
  <2>1. ~UNCHANGED member
    BY <1>1 DEF Owns
  <2>2. PICK r \in Requests : MemberWrite(r) /\ Acting \subseteq {r}
    BY <1>1, <2>1, NextWrites
  <2>3. q = r
    BY <1>1, <2>2
  <2> QED
    BY <1>1, <2>2, <2>3, StepGrants
<1>2. IInv /\ [Next]_vars =>
        [\A n \in Names : Owns(n)' /\ ~Owns(n) =>
            \A r \in Acting : \/ pc[r] \in {"createMember", "add"}
                              \/ pc[r] = "setRole" /\ r \in vetted
                              \/ pc[r] = "join" /\ call[r].id \in OldRows \cup vetted]_vars
  BY <1>1
<1> QED
  BY <1>2, AlwaysIInv, PTL DEF Spec, OwnershipGranted

(* An organization keeps an owner through removals, demotions, leaving and *)
(* undone creations: memberRoleCount and the comparison of the roles see   *)
(* to it unless the owners changed between the count and the write.        *)
THEOREM OwnersRemain == Spec => OwnerRemains
<1>1. ASSUME IInv, [Next]_vars, NEW o \in orgs \cap orgs', Owners(o) # {}, Owners(o)' = {}, NEW q \in Acting
      PROVE  q \in overtaken \/ (pc[q] \in {"dropMember", "undoAdd"} /\ q \in Owners(o))
  <2>1. ~UNCHANGED member
    BY <1>1 DEF Owners, Members, Owns
  <2>2. PICK r \in Requests : MemberWrite(r) /\ Acting \subseteq {r}
    BY <1>1, <2>1, NextWrites
  <2>3. q = r
    BY <1>1, <2>2
  <2> QED
    BY <1>1, <2>2, <2>3, StepKeepsOwners
<1>2. IInv /\ [Next]_vars =>
        [\A o \in orgs \cap orgs' : Owners(o) # {} /\ Owners(o)' = {} =>
            \A r \in Acting : \/ r \in overtaken
                              \/ pc[r] \in {"dropMember", "undoAdd"} /\ r \in Owners(o)]_vars
  BY <1>1
<1> QED
  BY <1>2, AlwaysIInv, PTL DEF Spec, OwnerRemains

(* An invitation that was rejected or canceled stays so: only an           *)
(* acceptance that was already past its look at the status can mark it     *)
(* accepted, or pending again when it is undone.                           *)
THEOREM DeclinedInvitationsStay == Spec => DeclinedStays
<1>1. ASSUME IInv, [Next]_vars, NEW i \in Names, invitation[i] # None, invitation'[i] # None,
             invitation[i].status \in {"rejected", "canceled"},
             invitation'[i].status \in {"pending", "accepted"}
      PROVE  Acting \subseteq overtaken
  <2>1. invitation'[i].status # invitation[i].status
    BY <1>1
  <2>2. PICK r \in Requests : InvitationWrite(r) /\ Acting \subseteq {r}
    BY <1>1, <2>1, NextWrites
  <2>3. r \in overtaken
    BY <1>1, <2>2, StepRevives
  <2> QED
    BY <2>2, <2>3
<1>2. IInv /\ [Next]_vars =>
        [\A i \in Names :
            invitation[i] # None /\ invitation'[i] # None
              /\ invitation[i].status \in {"rejected", "canceled"}
              /\ invitation'[i].status \in {"pending", "accepted"} => Acting \subseteq overtaken]_vars
  BY <1>1
<1> QED
  BY <1>2, AlwaysIInv, PTL DEF Spec, DeclinedStays

==============================================================================
