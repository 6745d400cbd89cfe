---------------------------- MODULE LinkingProofs ----------------------------
(***************************************************************************)
(* The properties of Linking for any sets of requests, users, flows and    *)
(* identities, under any configuration.  The inductive invariant adds to   *)
(* the properties what the requests under way must hold for them:          *)
(*   StageInv       what a request holds at the stage it is in;            *)
(*   FlowInv        a state row that someone redeemed is gone;             *)
(*   NewUserInv, NewAccountInv   nothing refers to a user or an account    *)
(*                  that its request has yet to write;                     *)
(*   ProofInv       what a request may write into "verified" was proved,   *)
(*                  and the email it has read is still the user's, unless  *)
(*                  that user is in changed;                               *)
(*   CurrentInv, LinkInv, SessionInv, UnlinkInv   a request that is not in *)
(*                  overtaken still sees what it has checked: the user's   *)
(*                  email and its proof, that the identity has no account, *)
(*                  that it has one, that another account is left.         *)
(* The proof first says what any step does to the tables (Effect lemmas)   *)
(* and to the variables of a request (Moves), and then takes the parts of  *)
(* the invariant one by one.                                               *)
(***************************************************************************)
EXTENDS Linking, FiniteSetTheorems, TLAPS

(* The stages at which a request may still write its user row, its account  *)
(* row, and those at which it relies on the email it has read.             *)
Unborn  == {"idle", "redeem", "exchange", "createUser"}
Before  == Unborn \cup Saving \cup {"listAccounts", "ownAccounts"}
Reading == SignedIn \cup {"listAccounts", "save"}

RequestStep(r) == StartStep(r) \/ LinkStep(r) \/ SignInStep(r) \/ UnlinkStep(r) \/ End(r)

StageOK(r) ==
    /\ pc[r] \in {"idle", "ownAccounts"} => presented[r] = None
    /\ pc[r] \in {"redeem", "exchange"} => presented[r] \in Flows /\ flow[presented[r]] # None
    /\ pc[r] \in Reading \cup Saving \cup {"createUser", "ownAccounts"} => info[r] # None
    /\ pc[r] \in Reading \cup Saving \cup {"ownAccounts", "delete"} => seen[r] # None
    /\ pc[r] \in {"tokens", "delete"} => target[r] # None
    /\ pc[r] = "register" => seen[r].id = r
    /\ pc[r] = "verify" => info[r].verified /\ info[r].email = seen[r].email
    /\ pc[r] = "save" => canImplicitLink(seen[r], info[r])

StageInv ==
    /\ \A f \in Flows : flow[f] # None /\ flow[f].link # None => flow[f].email # None
    /\ \A r \in Requests : StageOK(r)

FlowInv == \A f \in Flows : redeemed[f] # {} => flow[f] # None /\ flow[f].gone

NewUserInv ==
    \A r \in Requests : pc[r] \in Unborn =>
       /\ user[r] = None /\ Accounts(r) = {}
       /\ \A q \in Requests : seen[q] # None => seen[q].id # r
       /\ \A f \in Flows : flow[f] # None => flow[f].link # r

NewAccountInv ==
    \A r \in Requests : pc[r] \in Before =>
       account[r] = None /\ \A q \in Requests : target[q] # r

InfoProved(r) == info[r] # None /\ info[r].verified => info[r].email \in vouched
SeenProved(r) ==
    seen[r] # None /\ seen[r].verified => seen[r].email \in vouched \/ seen[r].id \in changed
EmailRead(r) ==
    pc[r] \in Reading => \/ seen[r].id \in changed \/ user[seen[r].id] = None
                         \/ user[seen[r].id].email = seen[r].email

ProofInv ==
    /\ VerifiedWasProved
    /\ \A r \in Requests : InfoProved(r) /\ SeenProved(r) /\ EmailRead(r)

CurrentInv ==
    \A r \in Requests \ overtaken : pc[r] \in {"listAccounts", "save"} =>
       /\ user[seen[r].id] # None /\ user[seen[r].id].email = info[r].email
       /\ seen[r].verified => user[seen[r].id].verified

LinkInv ==
    /\ OneAccountPerIdentity
    /\ \A r \in Requests \ overtaken : pc[r] \in Saving =>
          /\ Linked(seen[r].id, info[r].identity) = {}
          /\ pc[r] = "linkSave" /\ presented[r] # None => AccountsOf(info[r].identity) = {}

SessionInv ==
    \A r \in Requests \ overtaken : pc[r] \in SignedIn \ {"register"} =>
        Linked(seen[r].id, info[r].identity) # {}

UnlinkInv ==
    \A r \in Requests : pc[r] = "delete" =>
       /\ account[target[r]] # None => account[target[r]].user = seen[r].id
       /\ r \in overtaken \/ config.allowUnlinkingAll \/ \E a \in Accounts(seen[r].id) : a # target[r]

IInv ==
    /\ TypeOK /\ StageInv /\ FlowInv /\ StateRedeemedOnce /\ NewUserInv /\ NewAccountInv
    /\ ProofInv /\ CurrentInv /\ LinkInv /\ SessionInv /\ UnlinkInv

-----------------------------------------------------------------------------
(* Types.                                                                  *)

(* The sets that go into overtaken are sets of requests.                   *)
LEMMA GroupsOfRequests ==
    /\ \A i : AboutToSave(i) \subseteq Requests
    /\ \A u, stages : Holding(u, stages) \subseteq Requests
BY DEF AboutToSave, Holding

LEMMA CopyType == ASSUME TypeOK, NEW u \in Users PROVE CopyOf(u) \in UserCopy
BY DEF TypeOK, CopyOf, Users, UserCopy, UserRow

LEMMA FieldType ==
    /\ \A row \in UserRow : [row EXCEPT !.verified = TRUE] \in UserRow
    /\ \A row \in StateRow : [row EXCEPT !.gone = TRUE] \in StateRow
BY DEF UserRow, StateRow

LEMMA ReturnType ==
    ASSUME TypeOK, NEW r \in Requests, Return(r)
    PROVE  /\ pc' \in [Requests -> Stages]
           /\ presented' \in [Requests -> Flows \cup {None}]
           /\ info' \in [Requests -> UserInfo \cup {None}]
           /\ seen' \in [Requests -> UserCopy \cup {None}]
           /\ target' \in [Requests -> Names \cup {None}]
BY DEF TypeOK, Return, Go, Stages

LEMMA LearnType ==
    ASSUME TypeOK, NEW r \in Requests, NEW ui \in UserInfo, NEW copy \in UserCopy \cup {None},
           NEW stage \in Stages, Learn(r, ui, copy, stage)
    PROVE  TypeOK'
BY DEF TypeOK, Learn, Go, rows, UserInfo

LEMMA InsertType ==
    ASSUME TypeOK, NEW r \in Requests, seen[r] # None, info[r] # None, InsertAccount(r)
    PROVE  account' \in [Names -> AccountRow \cup {None}] /\ overtaken' \subseteq Requests
<1>1. [user |-> seen[r].id, identity |-> info[r].identity] \in AccountRow
  BY DEF TypeOK, UserCopy, UserInfo, AccountRow
<1> QED
  BY <1>1, GroupsOfRequests DEF TypeOK, InsertAccount

LEMMA WriteType ==
    ASSUME TypeOK, NEW r, NEW u \in Names, NEW row \in UserRow, WriteUser(r, u, row)
    PROVE  /\ user' \in [Names -> UserRow \cup {None}]
           /\ changed' \subseteq Names /\ overtaken' \subseteq Requests
BY GroupsOfRequests DEF TypeOK, WriteUser, ReadEmail

LEMMA UpdateCopyType ==
    ASSUME TypeOK, NEW r \in Requests, seen[r] # None, NEW row \in UserRow, NEW stage \in Stages,
           UpdateCopy(r, row, stage)
    PROVE  TypeOK'
<1>1. seen[r] \in UserCopy /\ seen[r].id \in Names
  BY DEF TypeOK, UserCopy
<1>2. [seen[r] EXCEPT !.email = row.email, !.verified = row.verified] \in UserCopy
  BY <1>1 DEF UserCopy, UserRow
<1>3. seen' \in [Requests -> UserCopy \cup {None}]
  BY <1>2 DEF TypeOK, UpdateCopy
<1> QED
  BY <1>1, <1>3, WriteType DEF TypeOK, UpdateCopy, Go

-----------------------------------------------------------------------------
(* What any step does.                                                     *)

LEMMA ReturnClears ==
    ASSUME TypeOK, NEW r \in Requests, Return(r)
    PROVE  /\ pc'[r] = "done" /\ presented'[r] = None /\ info'[r] = None
           /\ seen'[r] = None /\ target'[r] = None
BY DEF TypeOK, Return, Go

Untouched(q) ==
    /\ pc'[q] = pc[q] /\ presented'[q] = presented[q] /\ info'[q] = info[q]
    /\ seen'[q] = seen[q] /\ target'[q] = target[q]

LEMMA OthersUntouched ==
    ASSUME TypeOK, NEW r \in Requests, RequestStep(r), NEW q \in Requests \ {r}
    PROVE  Untouched(q)
<1> USE DEF TypeOK, Untouched, Go
<1>1. CASE StartStep(r)
  BY <1>1 DEF StartStep, CallbackFindState, CallbackDeleteState, TakeState, Proceed, Return,
              IDTokenSignIn, CallbackSignIn, FindUserByEmail, Learn
<1>2. CASE LinkStep(r)
  BY <1>2 DEF LinkStep, LinkFindAccount, CallbackLinks, IDTokenLink, Learn, OwnAccounts,
              ListOwnAccounts, LinkSaveAccount, Proceed, Return
<1>3. CASE SignInStep(r)
  <2>1. CASE ListAccounts(r) \/ UpdateTokens(r) \/ SaveAccount(r) \/ CreateUserAccount(r)
    BY <2>1 DEF ListAccounts, UpdateTokens, SaveAccount, CreateUserAccount, Proceed
  <2>2. CASE RefreshCopy(r) \/ MarkVerified(r) \/ OverrideUserInfo(r)
    BY <2>2 DEF RefreshCopy, KeepCopy, MarkVerified, OverrideUserInfo, UpdateCopy
  <2>3. CASE CreateUser(r) \/ CreateSession(r)
    BY <2>3 DEF CreateUser, RegisterUser, CreateSession, Return
  <2> QED
    BY <1>3, <2>1, <2>2, <2>3 DEF SignInStep
<1>4. CASE UnlinkStep(r) \/ End(r)
  BY <1>4 DEF UnlinkStep, UnlinkFindAccount, Pick, DeleteAccount, End, Return
<1> QED
  BY <1>1, <1>2, <1>3, <1>4 DEF RequestStep

(* A step is a step of one request, or changes no request.                 *)
LEMMA WhoMoves ==
    ASSUME TypeOK, [Next]_vars
    PROVE  \/ \E r \in Requests : RequestStep(r) /\ \A q \in Requests \ {r} : Untouched(q)
           \/ UNCHANGED request
<1>1. CASE \E r \in Requests : RequestStep(r)
  BY <1>1, OthersUntouched
<1>2. ASSUME NEW f \in Flows, NEW link \in Names \cup {None}, StartFlow(f, link)
      PROVE  UNCHANGED request
  BY <1>2 DEF StartFlow
<1>3. ASSUME NEW u \in Names, NEW e \in Emails, NEW proved \in BOOLEAN,
             VerifyEmail(u) \/ DeleteUser(u) \/ ChangeEmail(u, e, proved)
      PROVE  UNCHANGED request
  BY <1>3 DEF VerifyEmail, DeleteUser, ChangeEmail
<1>4. CASE UNCHANGED vars
  BY <1>4 DEF vars
<1> QED
  BY <1>1, <1>2, <1>3, <1>4 DEF Next, RequestStep, VerifyEmail, DeleteUser

(* Every step keeps the types.                                             *)
LEMMA TypeStep == TypeOK /\ StageInv /\ [Next]_vars => TypeOK'
<1> SUFFICES ASSUME TypeOK, StageInv, [Next]_vars PROVE TypeOK'
  OBVIOUS
<1>1. ASSUME NEW f \in Flows, NEW link \in Names \cup {None}, StartFlow(f, link) PROVE TypeOK'
  <2>1. [link |-> link, email |-> IF link = None THEN None ELSE user[link].email, gone |-> FALSE]
           \in StateRow
    BY <1>1 DEF StartFlow, TypeOK, Users, UserRow, StateRow
  <2> QED
    BY <1>1, <2>1 DEF StartFlow, TypeOK, request, ghosts
<1>2. ASSUME NEW r \in Requests, StartStep(r) PROVE TypeOK'
  <2>1. ASSUME NEW f \in Flows, CallbackFindState(r, f) PROVE TypeOK'
    BY <2>1 DEF CallbackFindState, Go, TypeOK, Stages, rows, ghosts
  <2>2. CASE CallbackDeleteState(r)
    <3>1. /\ presented[r] \in Flows
          /\ [flow[presented[r]] EXCEPT !.gone = TRUE] \in StateRow
      BY <2>2, FieldType DEF CallbackDeleteState, TypeOK, StageInv, StageOK
    <3>2. flow' \in [Flows -> StateRow \cup {None}]
      BY <2>2, <3>1 DEF CallbackDeleteState, TakeState, TypeOK
    <3> QED
      BY <2>2, <3>1, <3>2, ReturnType
      DEF CallbackDeleteState, TakeState, Proceed, Go, TypeOK, Stages, SignedIn, Saving
  <2>3. ASSUME NEW ui \in UserInfo, IDTokenSignIn(r, ui) \/ CallbackSignIn(r, ui) PROVE TypeOK'
    BY <2>3, CopyType, LearnType DEF IDTokenSignIn, CallbackSignIn, FindUserByEmail, Stages
  <2> QED
    BY <1>2, <2>1, <2>2, <2>3 DEF StartStep
<1>3. ASSUME NEW r \in Requests, LinkStep(r) PROVE TypeOK'
  <2>1. ASSUME NEW ui \in UserInfo, LinkFindAccount(r, ui) PROVE TypeOK'
    <3> DEFINE state == flow[presented[r]]
               copy  == [id |-> state.link, email |-> state.email, verified |-> FALSE]
    <3>1. pc[r] = "exchange" /\ state.link # None /\ EmailAllowed(ui, state.email)
             /\ Learn(r, ui, copy, "linkSave")
      BY <2>1 DEF LinkFindAccount, CallbackLinks
    <3>2. state \in StateRow /\ state.email # None
      BY <3>1 DEF TypeOK, StageInv, StageOK
    <3>3. copy \in UserCopy
      BY <3>1, <3>2 DEF StateRow, UserCopy
    <3>4. "linkSave" \in Stages
      BY DEF Stages, Saving
    <3> HIDE DEF copy
    <3> QED
      BY <3>1, <3>3, <3>4, LearnType
  <2>2. ASSUME NEW ui \in UserInfo, NEW u \in Names, IDTokenLink(r, u, ui) PROVE TypeOK'
    BY <2>2, CopyType, LearnType DEF IDTokenLink, Stages
  <2>3. CASE OwnAccounts(r)
    BY <2>3 DEF OwnAccounts, ListOwnAccounts, Proceed, Go, TypeOK, Stages, Saving, rows, ghosts
  <2>4. CASE LinkSaveAccount(r)
    <3>1. seen[r] # None /\ info[r] # None
      BY <2>4 DEF LinkSaveAccount, StageInv, Saving, StageOK, Reading, SignedIn
    <3> QED
      BY <2>4, <3>1, ReturnType, InsertType DEF LinkSaveAccount, InsertAccount, TypeOK
  <2> QED
    BY <1>3, <2>1, <2>2, <2>3, <2>4 DEF LinkStep
<1>4. ASSUME NEW r \in Requests, SignInStep(r) PROVE TypeOK'
  <2>1. AfterLink(r, seen[r]) \in Stages /\ AfterSave(r) \in Stages /\ AfterVerify(r) \in Stages
    BY DEF AfterSave, AfterLink, AfterVerify, Stages, SignedIn
  <2>2. CASE ListAccounts(r)
    BY <2>1, <2>2
    DEF ListAccounts, Linked, Accounts, Proceed, Go, TypeOK, Stages, SignedIn, Saving, rows, ghosts
  <2>3. CASE UpdateTokens(r)
    BY <2>1, <2>3 DEF UpdateTokens, Proceed, Go, TypeOK, rows, ghosts
  <2>4. CASE SaveAccount(r)
    <3>1. seen[r] # None /\ info[r] # None
      BY <2>4 DEF SaveAccount, StageInv, Saving, StageOK, Reading, SignedIn
    <3> QED
      BY <2>1, <2>4, <3>1, InsertType DEF SaveAccount, InsertAccount, Proceed, Go, TypeOK
  <2>5. CASE RefreshCopy(r)
    <3>1. AfterLink(r, CopyOf(seen[r].id)) \in Stages
      BY DEF AfterLink, AfterVerify, Stages, SignedIn
    <3>2. PICK copy \in UserCopy \cup {None}, stage \in Stages : KeepCopy(r, copy, stage)
      BY <2>1, <2>5, <3>1, CopyType DEF RefreshCopy, TypeOK
    <3> QED
      BY <3>2 DEF KeepCopy, Go, TypeOK, rows, ghosts
  <2>6. CASE MarkVerified(r)
    <3>1. seen[r] # None
      BY <2>6 DEF MarkVerified, StageInv, SignedIn, StageOK, Reading, Saving
    <3>2. [user[seen[r].id] EXCEPT !.verified = TRUE] \in UserRow
      BY <2>6, FieldType DEF MarkVerified, TypeOK, Users
    <3> QED
      BY <2>1, <2>6, <3>1, <3>2, UpdateCopyType DEF MarkVerified
  <2>7. CASE OverrideUserInfo(r)
    <3> DEFINE row == [email |-> info[r].email,
                       verified |-> info[r].verified
                                    \/ (seen[r].email = info[r].email /\ seen[r].verified)]
    <3>1. seen[r] # None /\ info[r] # None
      BY <2>7 DEF OverrideUserInfo, StageInv, SignedIn, StageOK, Reading, Saving
    <3>2. row \in UserRow
      BY <3>1 DEF TypeOK, UserInfo, UserCopy, UserRow
    <3>3. UpdateCopy(r, row, "create") /\ "create" \in Stages
      BY <2>7 DEF OverrideUserInfo, Stages, SignedIn
    <3> HIDE DEF row
    <3> QED
      BY <3>1, <3>2, <3>3, UpdateCopyType
  <2>8. CASE CreateUser(r)
    <3> DEFINE row  == [email |-> info[r].email, verified |-> info[r].verified]
               copy == [id |-> r, email |-> row.email, verified |-> row.verified]
    <3>1. info[r] # None
      BY <2>8 DEF CreateUser, RegisterUser, StageInv, StageOK
    <3>2. row \in UserRow /\ copy \in UserCopy
      BY <3>1 DEF TypeOK, UserInfo, UserCopy, UserRow, Names
    <3>3. user' = [user EXCEPT ![r] = row] /\ seen' = [seen EXCEPT ![r] = copy]
      BY <2>8 DEF CreateUser, RegisterUser
    <3> HIDE DEF row, copy
    <3>4. r \in Names /\ "register" \in Stages
      BY DEF Names, Stages, SignedIn
    <3> QED
      BY <2>8, <3>2, <3>3, <3>4 DEF CreateUser, RegisterUser, Go, TypeOK, ghosts
  <2>9. CASE CreateUserAccount(r)
    <3>1. seen[r] # None /\ info[r] # None
      BY <2>9 DEF CreateUserAccount, StageInv, SignedIn, StageOK, Reading, Saving
    <3> QED
      BY <2>9, <3>1, InsertType
      DEF CreateUserAccount, InsertAccount, Proceed, Go, TypeOK, Stages, SignedIn
  <2>10. CASE CreateSession(r)
    <3>1. seen[r] # None
      BY <2>10 DEF CreateSession, StageInv, SignedIn, StageOK, Reading, Saving
    <3>2. session' \in [Requests -> Names \cup {None}]
      BY <2>10, <3>1 DEF CreateSession, TypeOK, UserCopy
    <3> QED
      BY <2>10, <3>2, ReturnType DEF CreateSession, TypeOK, ghosts
  <2> QED
    BY <1>4, <2>2, <2>3, <2>4, <2>5, <2>6, <2>7, <2>8, <2>9, <2>10 DEF SignInStep
<1>5. ASSUME NEW r \in Requests, UnlinkStep(r) PROVE TypeOK'
  <2>1. ASSUME NEW u \in Names, NEW a \in Names, UnlinkFindAccount(r, u, a) PROVE TypeOK'
    BY <2>1, CopyType DEF UnlinkFindAccount, Pick, Go, TypeOK, Stages, rows, ghosts
  <2>2. CASE DeleteAccount(r)
    BY <2>2, ReturnType, GroupsOfRequests DEF DeleteAccount, TypeOK
  <2> QED
    BY <1>5, <2>1, <2>2 DEF UnlinkStep
<1>6. ASSUME NEW r \in Requests, End(r) PROVE TypeOK'
  BY <1>6, ReturnType DEF End, TypeOK, rows, ghosts
<1>7. ASSUME NEW u \in Names, VerifyEmail(u) PROVE TypeOK'
  <2>1. [user[u] EXCEPT !.verified = TRUE] \in UserRow /\ user[u].email \in Emails
    BY <1>7 DEF VerifyEmail, Users, TypeOK, UserRow
  <2> QED
    BY <1>7, <2>1, BoundAssumption DEF VerifyEmail, Event, TypeOK, request
<1>8. ASSUME NEW u \in Names, NEW e \in Emails, NEW proved \in BOOLEAN, ChangeEmail(u, e, proved)
      PROVE  TypeOK'
  <2>1. [email |-> e, verified |-> proved] \in UserRow
    BY DEF UserRow
  <2>2. WriteUser(None, u, [email |-> e, verified |-> proved])
    BY <1>8 DEF ChangeEmail
  <2>3. /\ user' \in [Names -> UserRow \cup {None}]
        /\ changed' \subseteq Names /\ overtaken' \subseteq Requests
    BY <2>1, <2>2, WriteType
  <2> QED
    BY <1>8, <2>3, BoundAssumption DEF ChangeEmail, Event, TypeOK, request
<1>9. ASSUME NEW u \in Names, DeleteUser(u) PROVE TypeOK'
  BY <1>9, GroupsOfRequests, BoundAssumption DEF DeleteUser, Event, TypeOK, request
<1>10. CASE UNCHANGED vars
  BY <1>10 DEF vars, rows, request, ghosts, TypeOK
<1> QED
  BY <1>1, <1>2, <1>3, <1>4, <1>5, <1>6, <1>7, <1>8, <1>9, <1>10 DEF Next
(* The options are those the server was started with.                      *)
LEMMA ConfigStays == [Next]_vars => config' = config
<1>1. ASSUME NEW r \in Requests, StartStep(r) \/ LinkStep(r) PROVE config' = config
  BY <1>1 DEF StartStep, CallbackFindState, CallbackDeleteState, TakeState, IDTokenSignIn,
              CallbackSignIn, FindUserByEmail, Learn, LinkStep, LinkFindAccount, CallbackLinks,
              IDTokenLink, OwnAccounts, ListOwnAccounts, LinkSaveAccount, InsertAccount
<1>2. ASSUME NEW r \in Requests, SignInStep(r) PROVE config' = config
  BY <1>2 DEF SignInStep, ListAccounts, UpdateTokens, SaveAccount, InsertAccount, RefreshCopy,
              KeepCopy, MarkVerified, OverrideUserInfo, UpdateCopy, CreateUser, RegisterUser,
              CreateUserAccount, CreateSession
<1>3. ASSUME NEW r \in Requests, UnlinkStep(r) \/ End(r) PROVE config' = config
  BY <1>3 DEF UnlinkStep, UnlinkFindAccount, Pick, DeleteAccount, End
<1>4. ASSUME NEW f, NEW link, StartFlow(f, link) PROVE config' = config
  BY <1>4 DEF StartFlow
<1>5. ASSUME NEW u, NEW e, NEW proved, VerifyEmail(u) \/ DeleteUser(u) \/ ChangeEmail(u, e, proved)
      PROVE  config' = config
  BY <1>5 DEF VerifyEmail, DeleteUser, ChangeEmail
<1> QED
  BY <1>1, <1>2, <1>3, <1>4, <1>5 DEF Next, vars

(* State rows keep their payload, and name users that existed.             *)
LEMMA FlowEffect ==
    ASSUME TypeOK, StageInv, [Next]_vars, NEW f \in Flows
    PROVE  /\ flow[f] # None => /\ flow'[f] # None
                                /\ flow'[f].link = flow[f].link /\ flow'[f].email = flow[f].email
                                /\ flow[f].gone => flow'[f].gone
           /\ flow[f] = None /\ flow'[f] # None =>
                 /\ flow'[f].link \in Users \cup {None}
                 /\ flow'[f].link # None => flow'[f].email # None
<1>1. ASSUME NEW r \in Requests, CallbackDeleteState(r)
      PROVE  \/ flow'[f] = flow[f]
             \/ flow[f] # None /\ flow'[f] = [flow[f] EXCEPT !.gone = TRUE]
  <2>1. /\ presented[r] \in Flows /\ flow[presented[r]] # None
        /\ flow' = [flow EXCEPT ![presented[r]].gone = TRUE]
    BY <1>1 DEF CallbackDeleteState, TakeState, Present, StageInv, StageOK
  <2>2. flow' = [flow EXCEPT ![presented[r]] = [flow[presented[r]] EXCEPT !.gone = TRUE]]
    BY <2>1
  <2>3. flow \in [Flows -> StateRow \cup {None}]
    BY DEF TypeOK
  <2> QED
    BY <2>1, <2>2, <2>3
<1>2. ASSUME NEW g \in Flows, NEW link \in Names \cup {None}, StartFlow(g, link)
      PROVE  \/ flow'[f] = flow[f]
             \/ /\ flow[f] = None /\ link \in Users \cup {None}
                /\ flow'[f] = [link |-> link,
                               email |-> IF link = None THEN None ELSE user[link].email,
                               gone |-> FALSE]
  BY <1>2 DEF StartFlow, TypeOK
<1>3. ASSUME NEW r \in Requests, StartStep(r), ~CallbackDeleteState(r) PROVE flow' = flow
  BY <1>3 DEF StartStep, CallbackFindState, IDTokenSignIn, CallbackSignIn, FindUserByEmail, Learn, rows
<1>4. ASSUME NEW r \in Requests, LinkStep(r) \/ UnlinkStep(r) \/ End(r) PROVE flow' = flow
  BY <1>4 DEF LinkStep, LinkFindAccount, CallbackLinks, IDTokenLink, Learn, OwnAccounts,
              ListOwnAccounts, LinkSaveAccount, InsertAccount, UnlinkStep, UnlinkFindAccount, Pick,
              DeleteAccount, End, rows
<1>5. ASSUME NEW r \in Requests, SignInStep(r) PROVE flow' = flow
  BY <1>5 DEF SignInStep, ListAccounts, UpdateTokens, SaveAccount, InsertAccount, RefreshCopy,
              KeepCopy, MarkVerified, OverrideUserInfo, UpdateCopy, CreateUser, RegisterUser,
              CreateUserAccount, CreateSession, rows
<1>6. ASSUME NEW u, NEW e, NEW proved, VerifyEmail(u) \/ DeleteUser(u) \/ ChangeEmail(u, e, proved)
      PROVE  flow' = flow
  BY <1>6 DEF VerifyEmail, DeleteUser, ChangeEmail
<1>7. flow[f] = None \/ flow[f] \in StateRow
  BY DEF TypeOK
<1>8. ASSUME flow[f] # None, flow'[f] = [flow[f] EXCEPT !.gone = TRUE]
      PROVE  flow'[f] # None /\ flow'[f].link = flow[f].link /\ flow'[f].email = flow[f].email
             /\ flow'[f].gone
  BY <1>7, <1>8, NoneIsNoRecord, FieldType DEF StateRow
<1>9. ASSUME NEW link \in Users \cup {None},
             flow'[f] = [link |-> link, email |-> IF link = None THEN None ELSE user[link].email,
                         gone |-> FALSE]
      PROVE  flow'[f].link = link /\ (link # None => flow'[f].email # None)
  <2>1. ASSUME link # None PROVE user[link].email \in Emails
    BY <1>9, <2>1 DEF Users, TypeOK, UserRow
  <2> QED
    BY <1>9, <2>1, NameAssumption
<1> QED
  BY <1>1, <1>2, <1>3, <1>4, <1>5, <1>6, <1>8, <1>9 DEF Next, vars, rows

(* Accounts are written by the inserts of saving requests, by an unlink    *)
(* and by the deletion of a user.                                          *)
LEMMA AccountEffect ==
    ASSUME TypeOK, [Next]_vars
    PROVE  \/ UNCHANGED account /\ overtaken \subseteq overtaken'
           \/ \E r \in Requests : pc[r] \in Saving /\ pc'[r] \notin Before /\ InsertAccount(r)
           \/ \E r \in Requests : DeleteAccount(r)
           \/ \E u \in Names : DeleteUser(u)
<1>1. ASSUME NEW r \in Requests, StartStep(r) \/ End(r) PROVE UNCHANGED <<account, overtaken>>
  BY <1>1 DEF StartStep, CallbackFindState, CallbackDeleteState, TakeState, IDTokenSignIn,
              CallbackSignIn, FindUserByEmail, Learn, End, rows, ghosts
<1>2. ASSUME NEW r \in Requests, LinkStep(r)
      PROVE  \/ UNCHANGED <<account, overtaken>>
             \/ pc[r] \in Saving /\ pc'[r] \notin Before /\ InsertAccount(r)
  <2>1. CASE LinkSaveAccount(r)
    BY <2>1, ReturnClears DEF LinkSaveAccount, Saving, Before, Unborn
  <2>2. ASSUME NEW ui, NEW u, LinkFindAccount(r, ui) \/ IDTokenLink(r, u, ui)
        PROVE  UNCHANGED <<account, overtaken>>
    BY <2>2 DEF LinkFindAccount, CallbackLinks, IDTokenLink, Learn, rows
  <2>3. CASE OwnAccounts(r)
    BY <2>3 DEF OwnAccounts, ListOwnAccounts, rows, ghosts
  <2> QED
    BY <1>2, <2>1, <2>2, <2>3 DEF LinkStep
<1>3. ASSUME NEW r \in Requests, SignInStep(r)
      PROVE  \/ UNCHANGED account /\ overtaken \subseteq overtaken'
             \/ pc[r] \in Saving /\ pc'[r] \notin Before /\ InsertAccount(r)
  <2>1. CASE SaveAccount(r) \/ CreateUserAccount(r)
    BY <2>1 DEF SaveAccount, CreateUserAccount, Proceed, Go, AfterSave, AfterLink, AfterVerify,
                Saving, Before, Unborn, TypeOK
  <2>2. CASE ListAccounts(r) \/ UpdateTokens(r) \/ RefreshCopy(r)
    BY <2>2 DEF ListAccounts, UpdateTokens, RefreshCopy, KeepCopy, rows, ghosts
  <2>3. CASE MarkVerified(r) \/ OverrideUserInfo(r) \/ CreateUser(r) \/ CreateSession(r)
    BY <2>3 DEF MarkVerified, OverrideUserInfo, UpdateCopy, WriteUser, CreateUser, RegisterUser,
                CreateSession, ghosts
  <2> QED
    BY <1>3, <2>1, <2>2, <2>3 DEF SignInStep
<1>4. ASSUME NEW r \in Requests, UnlinkStep(r)
      PROVE  UNCHANGED <<account, overtaken>> \/ DeleteAccount(r)
  BY <1>4 DEF UnlinkStep, UnlinkFindAccount, Pick, rows, ghosts
<1>5. ASSUME NEW f, NEW link, StartFlow(f, link) PROVE UNCHANGED <<account, overtaken>>
  BY <1>5 DEF StartFlow, ghosts
<1>6. ASSUME NEW u, NEW e, NEW proved, VerifyEmail(u) \/ ChangeEmail(u, e, proved)
      PROVE  UNCHANGED account /\ overtaken \subseteq overtaken'
  BY <1>6 DEF VerifyEmail, ChangeEmail, WriteUser
<1>7. CASE UNCHANGED vars
  BY <1>7 DEF vars, rows, ghosts
<1> QED
  BY <1>1, <1>2, <1>3, <1>4, <1>5, <1>6, <1>7 DEF Next

(* Users are written by three steps of a sign-in and by other handlers.    *)
LEMMA UserEffect ==
    ASSUME [Next]_vars
    PROVE  \/ UNCHANGED user
           \/ \E r \in Requests : MarkVerified(r) \/ OverrideUserInfo(r) \/ CreateUser(r)
           \/ \E u \in Names : \/ VerifyEmail(u) \/ DeleteUser(u)
                               \/ \E e \in Emails, proved \in BOOLEAN : ChangeEmail(u, e, proved)
<1>1. ASSUME NEW r \in Requests, StartStep(r) \/ UnlinkStep(r) \/ End(r) PROVE UNCHANGED user
  BY <1>1 DEF StartStep, CallbackFindState, CallbackDeleteState, TakeState, IDTokenSignIn,
              CallbackSignIn, FindUserByEmail, Learn, UnlinkStep, UnlinkFindAccount, Pick,
              DeleteAccount, End, rows
<1>2. ASSUME NEW r \in Requests, LinkStep(r) PROVE UNCHANGED user
  BY <1>2 DEF LinkStep, LinkFindAccount, CallbackLinks, IDTokenLink, Learn, OwnAccounts,
              ListOwnAccounts, LinkSaveAccount, InsertAccount, rows
<1>3. ASSUME NEW r \in Requests, SignInStep(r)
      PROVE  UNCHANGED user \/ MarkVerified(r) \/ OverrideUserInfo(r) \/ CreateUser(r)
  BY <1>3 DEF SignInStep, ListAccounts, UpdateTokens, SaveAccount, InsertAccount, RefreshCopy,
              KeepCopy, CreateUserAccount, CreateSession, rows
<1>4. ASSUME NEW f, NEW link, StartFlow(f, link) PROVE UNCHANGED user
  BY <1>4 DEF StartFlow
<1>5. CASE UNCHANGED vars
  BY <1>5 DEF vars, rows
<1> QED
  BY <1>1, <1>2, <1>3, <1>4, <1>5 DEF Next

(* The history variables only grow.                                        *)
LEMMA GhostsGrow ==
    [Next]_vars => vouched \subseteq vouched' /\ changed \subseteq changed' /\ overtaken \subseteq overtaken'
<1> DEFINE Grow == vouched \subseteq vouched' /\ changed \subseteq changed' /\ overtaken \subseteq overtaken'
<1>1. ASSUME NEW r \in Requests, StartStep(r) \/ UnlinkStep(r) \/ End(r) PROVE Grow
  BY <1>1 DEF StartStep, CallbackFindState, CallbackDeleteState, TakeState, IDTokenSignIn,
              CallbackSignIn, FindUserByEmail, Learn, UnlinkStep, UnlinkFindAccount, Pick,
              DeleteAccount, End, ghosts
<1>2. ASSUME NEW r \in Requests, LinkStep(r) PROVE Grow
  BY <1>2 DEF LinkStep, LinkFindAccount, CallbackLinks, IDTokenLink, Learn, OwnAccounts,
              ListOwnAccounts, LinkSaveAccount, InsertAccount, ghosts
<1>3. ASSUME NEW r \in Requests, SignInStep(r) PROVE Grow
  BY <1>3 DEF SignInStep, ListAccounts, UpdateTokens, SaveAccount, InsertAccount, RefreshCopy,
              KeepCopy, MarkVerified, OverrideUserInfo, UpdateCopy, WriteUser, CreateUser,
              RegisterUser, CreateUserAccount, CreateSession, ghosts
<1>4. ASSUME NEW f, NEW link, StartFlow(f, link) PROVE Grow
  BY <1>4 DEF StartFlow, ghosts
<1>5. ASSUME NEW u, NEW e, NEW proved, VerifyEmail(u) \/ DeleteUser(u) \/ ChangeEmail(u, e, proved)
      PROVE  Grow
  BY <1>5 DEF VerifyEmail, DeleteUser, ChangeEmail, WriteUser
<1> QED
  BY <1>1, <1>2, <1>3, <1>4, <1>5 DEF Next, vars, ghosts

(* What becomes of the variables of a request: its copy of a user is gone,  *)
(* kept, read anew, or taken from the state row; the provider's answer and  *)
(* the target come from what was proved and from rows that exist.          *)
Forgets(r)  == seen'[r] = None /\ pc'[r] \in {"done", "createUser"}
Keeps(r)    == seen'[r] = seen[r] /\ (pc'[r] \in Reading => pc[r] \in Reading)
Rereads(r)  ==
    \E u \in Names :
       /\ user'[u] # None
       /\ seen'[r] = [id |-> u, email |-> user'[u].email, verified |-> user'[u].verified]
       /\ \/ u \in Users
          \/ u = r /\ pc[r] = "createUser" /\ pc'[r] = "register"
FromFlow(r) ==
    /\ pc'[r] = "linkSave"
    /\ \E f \in Flows :
          /\ flow[f] # None /\ flow[f].link # None
          /\ seen'[r] = [id |-> flow[f].link, email |-> flow[f].email, verified |-> FALSE]

CopyMoves(r)  == Forgets(r) \/ Keeps(r) \/ Rereads(r) \/ FromFlow(r)
StageMoves(r) == /\ pc'[r] \in Unborn => pc[r] \in Unborn
                 /\ pc'[r] \in Before => pc[r] \in Before
InfoMoves(r)  == \/ info'[r] \in {None, info[r]}
                 \/ info'[r].verified => info'[r].email \in vouched'
TargetMoves(r) == target'[r] \in {None, target[r]} \/ account[target'[r]] # None

Moves(r) == CopyMoves(r) /\ StageMoves(r) /\ InfoMoves(r) /\ TargetMoves(r)

LEMMA ReturnMoves ==
    ASSUME TypeOK, NEW r \in Requests, Return(r)
    PROVE  Moves(r)
BY ReturnClears DEF Moves, CopyMoves, Forgets, StageMoves, Unborn, Before, Saving, InfoMoves, TargetMoves

LEMMA ProceedMoves ==
    ASSUME TypeOK, NEW r \in Requests, NEW stage, Proceed(r, stage),
           stage \in Unborn => pc[r] \in Unborn, stage \in Before => pc[r] \in Before,
           stage \in Reading => pc[r] \in Reading
    PROVE  Moves(r)
BY DEF TypeOK, Proceed, Go, Moves, CopyMoves, Keeps, StageMoves, InfoMoves, TargetMoves

LEMMA LearnMoves ==
    ASSUME TypeOK, NEW r \in Requests, NEW ui \in UserInfo, NEW copy, NEW stage,
           Learn(r, ui, copy, stage), pc[r] \in Unborn,
           \/ copy = None /\ stage = "createUser"
           \/ stage \notin Unborn /\ (\E u \in Users : copy = CopyOf(u))
           \/ /\ stage = "linkSave"
              /\ \E f \in Flows : /\ flow[f] # None /\ flow[f].link # None
                                  /\ copy = [id |-> flow[f].link, email |-> flow[f].email,
                                             verified |-> FALSE]
    PROVE  Moves(r)
<1>1. /\ pc'[r] = stage /\ seen'[r] = copy /\ info'[r] = ui /\ target'[r] = target[r]
      /\ user' = user
      /\ ui.verified => ui.email \in vouched'
  BY DEF TypeOK, Learn, Go, rows
<1>2. StageMoves(r) /\ InfoMoves(r) /\ TargetMoves(r)
  BY <1>1 DEF StageMoves, InfoMoves, TargetMoves, Before, Unborn, Saving
<1>3. ASSUME NEW u \in Users, copy = CopyOf(u) PROVE Rereads(r)
  BY <1>1, <1>3 DEF Rereads, CopyOf, Users
<1> QED
  BY <1>1, <1>2, <1>3 DEF Moves, CopyMoves, Forgets, FromFlow

LEMMA UpdateCopyMoves ==
    ASSUME TypeOK, NEW r \in Requests, seen[r] # None, seen[r].id \in Users,
           NEW row \in UserRow, NEW stage \in SignedIn \ Saving, UpdateCopy(r, row, stage)
    PROVE  Moves(r)
<1>1. seen[r] \in UserCopy /\ seen[r].id \in Names
  BY DEF TypeOK, UserCopy
<1>2. /\ pc'[r] = stage /\ info'[r] = info[r] /\ target'[r] = target[r]
      /\ seen'[r] = [seen[r] EXCEPT !.email = row.email, !.verified = row.verified]
      /\ user'[seen[r].id] = row
  BY <1>1 DEF TypeOK, UpdateCopy, WriteUser, Go
<1>3. row # None
  BY NoneIsNoRecord
<1>4. Rereads(r)
  BY <1>1, <1>2, <1>3 DEF Rereads, UserCopy, UserRow
<1> QED
  BY <1>2, <1>4 DEF Moves, CopyMoves, StageMoves, InfoMoves, TargetMoves, Before, Unborn, Saving, SignedIn

(* A request that takes a step moves so, call by call ...                  *)
LEMMA ActorMoves ==
    ASSUME TypeOK, StageInv, NEW r \in Requests, RequestStep(r)
    PROVE  Moves(r)
<1>1. CASE StartStep(r)
  <2>1. ASSUME NEW f \in Flows, CallbackFindState(r, f) PROVE Moves(r)
    BY <2>1 DEF CallbackFindState, Go, TypeOK, Moves, CopyMoves, Keeps, StageMoves, InfoMoves,
                TargetMoves, Before, Unborn, Reading, SignedIn
  <2>2. CASE CallbackDeleteState(r)
    BY <2>2, ReturnMoves, ProceedMoves
    DEF CallbackDeleteState, TakeState, Before, Unborn, Reading, SignedIn
  <2>3. ASSUME NEW ui \in UserInfo, IDTokenSignIn(r, ui) \/ CallbackSignIn(r, ui) PROVE Moves(r)
    BY <2>3, LearnMoves DEF IDTokenSignIn, CallbackSignIn, FindUserByEmail, Unborn
  <2> QED
    BY <1>1, <2>1, <2>2, <2>3 DEF StartStep
<1>2. CASE LinkStep(r)
  <2>1. ASSUME NEW ui \in UserInfo, LinkFindAccount(r, ui) PROVE Moves(r)
    <3> DEFINE state == flow[presented[r]]
               copy  == [id |-> state.link, email |-> state.email, verified |-> FALSE]
    <3>1. pc[r] = "exchange" /\ state.link # None /\ Learn(r, ui, copy, "linkSave")
      BY <2>1 DEF LinkFindAccount, CallbackLinks
    <3>2. presented[r] \in Flows /\ state # None
      BY <3>1 DEF StageInv, StageOK
    <3> QED
      BY <3>1, <3>2, LearnMoves DEF Unborn
  <2>2. ASSUME NEW ui \in UserInfo, NEW u \in Names, IDTokenLink(r, u, ui) PROVE Moves(r)
    BY <2>2, LearnMoves DEF IDTokenLink, Unborn
  <2>3. CASE OwnAccounts(r)
    BY <2>3, ProceedMoves
    DEF OwnAccounts, ListOwnAccounts, Before, Unborn, Reading, SignedIn, Saving
  <2>4. CASE LinkSaveAccount(r)
    BY <2>4, ReturnMoves DEF LinkSaveAccount
  <2> QED
    BY <1>2, <2>1, <2>2, <2>3, <2>4 DEF LinkStep
<1>3. CASE SignInStep(r)
  <2> DEFINE Later == {"refresh", "verify", "override", "create"}
  <2>1. /\ AfterVerify(r) \in Later /\ AfterLink(r, seen[r]) \in Later /\ AfterSave(r) \in Later
        /\ AfterLink(r, CopyOf(seen[r].id)) \in Later
    BY DEF AfterSave, AfterLink, AfterVerify
  <2>2. /\ Later \cap Before = {} /\ Later \cap Unborn = {}
        /\ Later \subseteq SignedIn \ Saving /\ Later \subseteq Reading
    BY DEF Before, Unborn, Saving, SignedIn, Reading
  <2>3. CASE ListAccounts(r)
    <3>1. CASE \E stage \in Later \cup {"save"} : Proceed(r, stage)
      BY <2>2, <2>3, <3>1, ProceedMoves DEF ListAccounts, Before, Unborn, Saving, Reading
    <3>2. ASSUME NEW a \in Linked(seen[r].id, info[r].identity), target' = [target EXCEPT ![r] = a],
                 Go(r, "tokens"), UNCHANGED <<presented, info, seen>>
          PROVE  Moves(r)
      BY <2>3, <3>2
      DEF ListAccounts, TypeOK, Go, Linked, Accounts, Moves, CopyMoves, Keeps, StageMoves,
          InfoMoves, TargetMoves, Before, Unborn, Saving, Reading
    <3> QED
      BY <2>1, <2>3, <3>1, <3>2 DEF ListAccounts
  <2>4. CASE UpdateTokens(r) \/ SaveAccount(r)
    BY <2>1, <2>2, <2>4, ProceedMoves DEF UpdateTokens, SaveAccount, Reading, SignedIn
  <2>5. CASE RefreshCopy(r)
    <3>1. seen[r] # None /\ seen[r].id \in Names
      BY <2>5 DEF RefreshCopy, StageInv, StageOK, Reading, SignedIn, TypeOK, UserCopy
    <3>2. ASSUME NEW stage \in Later, KeepCopy(r, seen[r], stage) PROVE Moves(r)
      BY <2>2, <2>5, <3>2
      DEF RefreshCopy, KeepCopy, Go, TypeOK, Moves, CopyMoves, Keeps, StageMoves, InfoMoves,
          TargetMoves, Reading, SignedIn
    <3>3. ASSUME NEW stage \in Later, KeepCopy(r, CopyOf(seen[r].id), stage), seen[r].id \in Users
          PROVE  Moves(r)
      <4>1. Rereads(r)
        BY <3>1, <3>3 DEF KeepCopy, CopyOf, Users, Rereads, TypeOK, rows
      <4> QED
        BY <2>2, <3>3, <4>1
        DEF KeepCopy, Go, TypeOK, Moves, CopyMoves, StageMoves, InfoMoves, TargetMoves
    <3> QED
      BY <2>1, <2>5, <3>2, <3>3 DEF RefreshCopy
  <2>6. CASE MarkVerified(r)
    <3>1. seen[r] # None /\ seen[r].id \in Users /\ user[seen[r].id] \in UserRow
      BY <2>6 DEF MarkVerified, StageInv, StageOK, Reading, SignedIn, TypeOK, Users
    <3>2. [user[seen[r].id] EXCEPT !.verified = TRUE] \in UserRow
      BY <3>1, FieldType
    <3> QED
      BY <2>1, <2>2, <2>6, <3>1, <3>2, UpdateCopyMoves DEF MarkVerified
  <2>7. CASE OverrideUserInfo(r)
    <3> DEFINE row == [email |-> info[r].email,
                       verified |-> info[r].verified
                                    \/ (seen[r].email = info[r].email /\ seen[r].verified)]
    <3>1. seen[r] # None /\ info[r] # None /\ seen[r].id \in Users /\ UpdateCopy(r, row, "create")
      BY <2>7 DEF OverrideUserInfo, StageInv, StageOK, Reading, SignedIn
    <3>2. row \in UserRow
      BY <3>1 DEF TypeOK, UserInfo, UserCopy, UserRow
    <3> HIDE DEF row
    <3> QED
      BY <2>2, <3>1, <3>2, UpdateCopyMoves
  <2>8. CASE CreateUser(r)
    <3> DEFINE row  == [email |-> info[r].email, verified |-> info[r].verified]
    <3>1. /\ pc[r] = "createUser" /\ pc'[r] = "register" /\ info'[r] = info[r]
          /\ target'[r] = target[r] /\ user'[r] = row /\ r \in Names
          /\ seen'[r] = [id |-> r, email |-> row.email, verified |-> row.verified]
      BY <2>8 DEF CreateUser, RegisterUser, Go, TypeOK, Names
    <3>2. row \in UserRow
      BY <3>1 DEF StageInv, StageOK, TypeOK, UserInfo, UserRow
    <3>3. Rereads(r)
      BY <3>1, <3>2, NoneIsNoRecord DEF Rereads
    <3> QED
      BY <3>1, <3>3
      DEF Moves, CopyMoves, StageMoves, InfoMoves, TargetMoves, Before, Unborn, Saving
  <2>9. CASE CreateUserAccount(r)
    BY <2>2, <2>9, ProceedMoves DEF CreateUserAccount, Reading, SignedIn
  <2>10. CASE CreateSession(r)
    BY <2>10, ReturnMoves DEF CreateSession
  <2> QED
    BY <1>3, <2>3, <2>4, <2>5, <2>6, <2>7, <2>8, <2>9, <2>10 DEF SignInStep
<1>4. CASE UnlinkStep(r)
  <2>1. ASSUME NEW u \in Names, NEW a \in Names, UnlinkFindAccount(r, u, a) PROVE Moves(r)
    <3>1. /\ u \in Users /\ a \in Accounts(u) /\ pc'[r] = "delete" /\ user' = user
          /\ seen'[r] = CopyOf(u) /\ info'[r] = info[r] /\ target'[r] = a
      BY <2>1 DEF UnlinkFindAccount, Pick, Go, TypeOK, rows
    <3>2. Rereads(r)
      BY <3>1 DEF Rereads, Users, CopyOf
    <3> QED
      BY <3>1, <3>2
      DEF Moves, CopyMoves, StageMoves, InfoMoves, TargetMoves, Accounts, Before, Unborn, Saving
  <2>2. CASE DeleteAccount(r)
    BY <2>2, ReturnMoves DEF DeleteAccount
  <2> QED
    BY <1>4, <2>1, <2>2 DEF UnlinkStep
<1>5. CASE End(r)
  BY <1>5, ReturnMoves DEF End
<1> QED
  BY <1>1, <1>2, <1>3, <1>4, <1>5 DEF RequestStep

(* ... and every other request stays as it is.                             *)
LEMMA AllMove ==
    ASSUME TypeOK, StageInv, [Next]_vars, NEW q \in Requests
    PROVE  Moves(q)
<1>1. CASE Untouched(q)
  BY <1>1 DEF Untouched, Moves, CopyMoves, Keeps, StageMoves, InfoMoves, TargetMoves
<1>2. UNCHANGED request => Untouched(q)
  BY DEF request, Untouched
<1> QED
  BY <1>1, <1>2, WhoMoves, ActorMoves

-----------------------------------------------------------------------------
(* The parts of the invariant, one by one.                                 *)

LEMMA ReturnStage == ASSUME TypeOK, NEW r \in Requests, Return(r) PROVE StageOK(r)'
BY ReturnClears DEF StageOK, Reading, SignedIn, Saving

LEMMA LearnStage ==
    ASSUME TypeOK, NEW r \in Requests, NEW ui \in UserInfo, NEW copy, NEW stage,
           Learn(r, ui, copy, stage),
           \/ stage = "createUser"
           \/ stage \in {"listAccounts", "linkSave"} /\ copy # None
           \/ stage = "ownAccounts" /\ copy # None /\ presented[r] = None
    PROVE  StageOK(r)'
BY NoneIsNoRecord DEF TypeOK, Learn, Go, StageOK, Reading, SignedIn, Saving

(* After the account the row that proves the email, or what follows it.    *)
LEMMA AfterLinkStage ==
    ASSUME TypeOK, NEW r \in Requests, NEW copy \in UserCopy,
           pc'[r] \in {AfterLink(r, copy), AfterVerify(r), "refresh", "create"},
           info[r] # None, info'[r] = info[r], seen'[r] = copy
    PROVE  StageOK(r)'
BY NoneIsNoRecord
DEF StageOK, AfterLink, AfterVerify, Proves, Reading, SignedIn, Saving

(* The request that takes a step holds what its next stage needs.          *)
LEMMA StageStep ==
    ASSUME TypeOK, StageInv, NEW r \in Requests, RequestStep(r)
    PROVE  StageOK(r)'
<1>1. CASE StartStep(r)
  <2>1. ASSUME NEW f \in Flows, CallbackFindState(r, f) PROVE StageOK(r)'
    BY <2>1 DEF CallbackFindState, Present, Go, TypeOK, rows, StageOK, Reading, SignedIn, Saving
  <2>2. CASE CallbackDeleteState(r)
    <3>1. CASE Return(r)
      BY <3>1, ReturnStage
    <3>2. CASE Proceed(r, "exchange")
      <4>1. presented[r] \in Flows /\ flow[presented[r]] # None
        BY <2>2 DEF CallbackDeleteState, StageInv, StageOK
      <4>2. flow'[presented[r]] # None
        BY <2>2, <4>1, FlowEffect DEF Next, StartStep
      <4> QED
        BY <3>2, <4>1, <4>2 DEF Proceed, Go, TypeOK, StageOK, Reading, SignedIn, Saving
    <3> QED
      BY <2>2, <3>1, <3>2 DEF CallbackDeleteState, TakeState
  <2>3. ASSUME NEW ui \in UserInfo, IDTokenSignIn(r, ui) \/ CallbackSignIn(r, ui)
        PROVE  StageOK(r)'
    BY <2>3, LearnStage, CopyType, NoneIsNoRecord DEF IDTokenSignIn, CallbackSignIn, FindUserByEmail
  <2> QED
    BY <1>1, <2>1, <2>2, <2>3 DEF StartStep
<1>2. CASE LinkStep(r)
  <2>1. ASSUME NEW ui \in UserInfo, LinkFindAccount(r, ui) PROVE StageOK(r)'
    <3> DEFINE state == flow[presented[r]]
               copy  == [id |-> state.link, email |-> state.email, verified |-> FALSE]
    <3>1. pc[r] = "exchange" /\ state.link # None /\ Learn(r, ui, copy, "linkSave")
      BY <2>1 DEF LinkFindAccount, CallbackLinks
    <3>2. presented[r] \in Flows /\ state \in StateRow /\ state.email # None
      BY <3>1 DEF StageInv, StageOK, TypeOK
    <3>3. copy \in UserCopy
      BY <3>1, <3>2 DEF StateRow, UserCopy
    <3> HIDE DEF copy
    <3> QED
      BY <3>1, <3>3, LearnStage, NoneIsNoRecord
  <2>2. ASSUME NEW ui \in UserInfo, NEW u \in Names, IDTokenLink(r, u, ui) PROVE StageOK(r)'
    BY <2>2, LearnStage, CopyType, NoneIsNoRecord DEF IDTokenLink, StageInv, StageOK
  <2>3. CASE OwnAccounts(r)
    BY <2>3
    DEF OwnAccounts, ListOwnAccounts, Proceed, Go, TypeOK, StageInv, StageOK, Reading, SignedIn, Saving
  <2>4. CASE LinkSaveAccount(r)
    BY <2>4, ReturnStage DEF LinkSaveAccount
  <2> QED
    BY <1>2, <2>1, <2>2, <2>3, <2>4 DEF LinkStep
<1>3. CASE SignInStep(r)
  <2>1. ASSUME pc[r] \in Reading PROVE seen[r] \in UserCopy /\ info[r] # None /\ info[r] \in UserInfo
    BY <2>1 DEF StageInv, StageOK, TypeOK
  <2>2. CASE ListAccounts(r)
    <3>1. pc[r] \in Reading
      BY <2>2 DEF ListAccounts, Reading
    <3>2. CASE canImplicitLink(seen[r], info[r]) /\ Proceed(r, "save")
      BY <2>1, <2>2, <3>1, <3>2, NoneIsNoRecord, ConfigStays
      DEF ListAccounts, Proceed, Go, TypeOK, StageOK, Reading, SignedIn, Saving, canImplicitLink
    <3>3. ASSUME NEW a \in Linked(seen[r].id, info[r].identity), target' = [target EXCEPT ![r] = a],
                 Go(r, "tokens"), UNCHANGED <<presented, info, seen>>
          PROVE  StageOK(r)'
      <4>1. a \in Names /\ a # None
        BY NameAssumption DEF Linked, Accounts, Names
      <4> QED
        BY <2>1, <3>1, <3>3, <4>1, NoneIsNoRecord DEF Go, TypeOK, StageOK, Reading, SignedIn, Saving
    <3>4. CASE Proceed(r, AfterLink(r, seen[r]))
      BY <2>1, <3>1, <3>4, AfterLinkStage DEF Proceed, Go, TypeOK
    <3> QED
      BY <2>2, <3>2, <3>3, <3>4 DEF ListAccounts
  <2>3. CASE UpdateTokens(r) \/ SaveAccount(r) \/ CreateUserAccount(r)
    <3>1. /\ pc[r] \in Reading
          /\ \/ Proceed(r, AfterLink(r, seen[r])) \/ Proceed(r, "refresh") \/ Proceed(r, "create")
      BY <2>3 DEF UpdateTokens, SaveAccount, AfterSave, CreateUserAccount, Reading, SignedIn
    <3> QED
      BY <2>1, <3>1, AfterLinkStage DEF Proceed, Go, TypeOK
  <2>4. CASE RefreshCopy(r)
    <3>1. pc[r] \in Reading
      BY <2>4 DEF RefreshCopy, Reading, SignedIn
    <3>2. PICK copy \in UserCopy : KeepCopy(r, copy, AfterLink(r, copy))
      BY <2>1, <2>4, <3>1, CopyType DEF RefreshCopy
    <3> QED
      BY <2>1, <3>1, <3>2, AfterLinkStage DEF KeepCopy, Go, TypeOK
  <2>5. ASSUME NEW row \in UserRow, pc[r] \in Reading,
               NEW stage \in {AfterVerify(r), "create"}, UpdateCopy(r, row, stage)
        PROVE  StageOK(r)'
    <3> DEFINE copy == [seen[r] EXCEPT !.email = row.email, !.verified = row.verified]
    <3>1. copy \in UserCopy
      BY <2>1, <2>5 DEF UserCopy, UserRow
    <3>2. seen'[r] = copy /\ info'[r] = info[r] /\ pc'[r] = stage
      BY <2>5 DEF UpdateCopy, Go, TypeOK
    <3> HIDE DEF copy
    <3> QED
      BY <2>1, <2>5, <3>1, <3>2, AfterLinkStage
  <2>6. CASE MarkVerified(r)
    <3>1. user[seen[r].id] \in UserRow /\ pc[r] \in Reading
      BY <2>6 DEF MarkVerified, Users, TypeOK, Reading, SignedIn
    <3> QED
      BY <2>5, <2>6, <3>1, FieldType DEF MarkVerified
  <2>7. CASE OverrideUserInfo(r)
    <3> DEFINE row == [email |-> info[r].email,
                       verified |-> info[r].verified
                                    \/ (seen[r].email = info[r].email /\ seen[r].verified)]
    <3>1. pc[r] \in Reading /\ UpdateCopy(r, row, "create")
      BY <2>7 DEF OverrideUserInfo, Reading, SignedIn
    <3>2. row \in UserRow
      BY <2>1, <3>1 DEF UserInfo, UserCopy, UserRow
    <3> HIDE DEF row
    <3> QED
      BY <2>5, <3>1, <3>2
  <2>8. CASE CreateUser(r)
    <3> DEFINE copy == [id |-> r, email |-> info[r].email, verified |-> info[r].verified]
    <3>1. /\ pc[r] = "createUser" /\ pc'[r] = "register"
          /\ info'[r] = info[r] /\ seen'[r] = copy
      BY <2>8 DEF CreateUser, RegisterUser, Go, TypeOK
    <3>2. info[r] # None /\ copy \in UserCopy
      BY <3>1 DEF StageInv, StageOK, TypeOK, UserInfo, UserCopy, Names
    <3>3. copy # None /\ copy.id = r
      BY <3>2, NoneIsNoRecord
    <3> HIDE DEF copy
    <3> QED
      BY <3>1, <3>2, <3>3 DEF StageOK, Reading, SignedIn, Saving
  <2>9. CASE CreateSession(r)
    BY <2>9, ReturnStage DEF CreateSession
  <2> QED
    BY <1>3, <2>2, <2>3, <2>4, <2>6, <2>7, <2>8, <2>9 DEF SignInStep
<1>4. CASE UnlinkStep(r) \/ End(r)
  <2>1. ASSUME NEW u \in Names, NEW a \in Names, UnlinkFindAccount(r, u, a) PROVE StageOK(r)'
    BY <2>1, CopyType, NoneIsNoRecord, NameAssumption
    DEF UnlinkFindAccount, Pick, Go, TypeOK, Names, StageOK, Reading, SignedIn, Saving
  <2> QED
    BY <1>4, <2>1, ReturnStage DEF UnlinkStep, DeleteAccount, End
<1> QED
  BY <1>1, <1>2, <1>3, <1>4 DEF RequestStep

(* A request that does not move keeps what it holds.                       *)
LEMMA StageInvStep == TypeOK /\ StageInv /\ [Next]_vars => StageInv'
<1> SUFFICES ASSUME TypeOK, StageInv, [Next]_vars PROVE StageInv'
  OBVIOUS
<1>1. \A f \in Flows : flow'[f] # None /\ flow'[f].link # None => flow'[f].email # None
  BY FlowEffect DEF StageInv
<1>2. ASSUME NEW q \in Requests, Untouched(q) PROVE StageOK(q)'
  BY <1>2, FlowEffect, ConfigStays DEF Untouched, StageInv, StageOK, canImplicitLink
<1>3. ASSUME NEW q \in Requests PROVE StageOK(q)'
  <2>1. UNCHANGED request => Untouched(q)
    BY DEF request, Untouched
  <2> QED
    BY <1>2, <2>1, WhoMoves, StageStep
<1> QED
  BY <1>1, <1>3 DEF StageInv

(* Of the callbacks that present a flow one deletes its row.               *)
LEMMA FlowInvStep ==
    TypeOK /\ StageInv /\ FlowInv /\ StateRedeemedOnce /\ [Next]_vars
        => FlowInv' /\ StateRedeemedOnce'
<1> SUFFICES ASSUME TypeOK, StageInv, FlowInv, StateRedeemedOnce, [Next]_vars
             PROVE  FlowInv' /\ StateRedeemedOnce'
  OBVIOUS
<1>1. ASSUME UNCHANGED redeemed PROVE FlowInv' /\ StateRedeemedOnce'
  BY <1>1, FlowEffect DEF FlowInv, StateRedeemedOnce
<1>2. ASSUME NEW r \in Requests, CallbackDeleteState(r) PROVE FlowInv' /\ StateRedeemedOnce'
  <2>1. /\ presented[r] \in Flows /\ redeemed[presented[r]] = {}
        /\ flow[presented[r]] # None /\ flow[presented[r]] \in StateRow
    BY <1>2 DEF CallbackDeleteState, Present, StageInv, StageOK, FlowInv, TypeOK
  <2>2. CASE redeemed' = [redeemed EXCEPT ![presented[r]] = @ \cup {r}]
    <3>1. flow'[presented[r]] # None /\ flow'[presented[r]].gone
      <4>1. flow'[presented[r]] = [flow[presented[r]] EXCEPT !.gone = TRUE]
        BY <1>2, <2>1 DEF CallbackDeleteState, TakeState, TypeOK
      <4> QED
        BY <2>1, <4>1, FieldType, NoneIsNoRecord DEF StateRow
    <3> QED
      BY <2>1, <2>2, <3>1, FlowEffect DEF FlowInv, StateRedeemedOnce, TypeOK
  <2> QED
    BY <1>1, <1>2, <2>2 DEF CallbackDeleteState, TakeState
<1>3. ASSUME NEW r \in Requests, StartStep(r), ~CallbackDeleteState(r) PROVE UNCHANGED redeemed
  BY <1>3 DEF StartStep, CallbackFindState, IDTokenSignIn, CallbackSignIn, FindUserByEmail, Learn, ghosts
<1>4. ASSUME NEW r \in Requests, LinkStep(r) \/ UnlinkStep(r) \/ End(r) PROVE UNCHANGED redeemed
  BY <1>4 DEF LinkStep, LinkFindAccount, CallbackLinks, IDTokenLink, Learn, OwnAccounts,
              ListOwnAccounts, LinkSaveAccount, InsertAccount, UnlinkStep, UnlinkFindAccount, Pick,
              DeleteAccount, End, ghosts
<1>5. ASSUME NEW r \in Requests, SignInStep(r) PROVE UNCHANGED redeemed
  BY <1>5 DEF SignInStep, ListAccounts, UpdateTokens, SaveAccount, InsertAccount, RefreshCopy,
              KeepCopy, MarkVerified, OverrideUserInfo, UpdateCopy, CreateUser, RegisterUser,
              CreateUserAccount, CreateSession, ghosts
<1>6. ASSUME NEW u, NEW e, NEW proved, NEW f, NEW link,
             VerifyEmail(u) \/ DeleteUser(u) \/ ChangeEmail(u, e, proved) \/ StartFlow(f, link)
      PROVE  UNCHANGED redeemed
  BY <1>6 DEF VerifyEmail, DeleteUser, ChangeEmail, StartFlow, ghosts
<1> QED
  BY <1>1, <1>2, <1>3, <1>4, <1>5, <1>6 DEF Next, vars, ghosts

(* A copy, an account or a flow names only users that exist.               *)
LEMMA NewUserStep ==
    TypeOK /\ StageInv /\ NewUserInv /\ [Next]_vars => NewUserInv'
<1> SUFFICES ASSUME TypeOK, StageInv, NewUserInv, [Next]_vars,
                    NEW r \in Requests, pc'[r] \in Unborn
             PROVE  /\ user'[r] = None /\ Accounts(r)' = {}
                    /\ \A q \in Requests : seen'[q] # None => seen'[q].id # r
                    /\ \A f \in Flows : flow'[f] # None => flow'[f].link # r
  BY DEF NewUserInv
<1>1. /\ pc[r] \in Unborn /\ user[r] = None /\ Accounts(r) = {} /\ r \notin Users /\ r \in Names
      /\ \A q \in Requests : seen[q] # None => seen[q].id # r
      /\ \A f \in Flows : flow[f] # None => flow[f].link # r
  BY AllMove DEF Moves, StageMoves, NewUserInv, Users, Names
<1>2. user'[r] = None
  <2>1. ASSUME NEW q \in Requests, MarkVerified(q) \/ OverrideUserInfo(q) PROVE user'[r] = user[r]
    BY <1>1, <2>1 DEF MarkVerified, OverrideUserInfo, UpdateCopy, WriteUser, TypeOK
  <2>2. ASSUME NEW q \in Requests, CreateUser(q) PROVE user'[r] = user[r]
    <3>1. pc'[q] = "register" /\ q # r
      BY <2>2 DEF CreateUser, RegisterUser, Go, TypeOK, Unborn
    <3> QED
      BY <1>1, <2>2, <3>1 DEF CreateUser, RegisterUser, TypeOK
  <2>3. ASSUME NEW u \in Names, NEW e, NEW proved,
               VerifyEmail(u) \/ DeleteUser(u) \/ ChangeEmail(u, e, proved)
        PROVE  user'[r] = user[r]
    BY <1>1, <2>3 DEF VerifyEmail, DeleteUser, ChangeEmail, WriteUser, TypeOK
  <2> QED
    BY <1>1, <2>1, <2>2, <2>3, UserEffect
<1>3. Accounts(r)' = {}
  <2>1. ASSUME NEW q \in Requests, pc[q] \in Saving, InsertAccount(q) PROVE Accounts(r)' = {}
    <3>1. seen[q].id # r
      BY <1>1, <2>1 DEF StageInv, StageOK
    <3> QED
      BY <1>1, <2>1, <3>1 DEF InsertAccount, Accounts, TypeOK
  <2>2. ASSUME NEW q \in Requests, DeleteAccount(q) PROVE Accounts(r)' = {}
    BY <1>1, <2>2 DEF DeleteAccount, Accounts, TypeOK
  <2>3. ASSUME NEW u \in Names, DeleteUser(u) PROVE Accounts(r)' = {}
    BY <1>1, <2>3 DEF DeleteUser, Accounts, TypeOK
  <2>4. UNCHANGED account => Accounts(r)' = {}
    BY <1>1 DEF Accounts
  <2> QED
    BY <2>1, <2>2, <2>3, <2>4, AccountEffect
<1>4. ASSUME NEW q \in Requests, seen'[q] # None PROVE seen'[q].id # r
  <2>1. CASE Keeps(q)
    BY <1>1, <1>4, <2>1 DEF Keeps
  <2>2. CASE Rereads(q)
    <3>1. PICK u \in Names : /\ seen'[q].id = u
                             /\ u \in Users \/ (u = q /\ pc'[q] = "register")
      BY <2>2 DEF Rereads
    <3> QED
      BY <1>1, <3>1 DEF Unborn
  <2>3. CASE FromFlow(q)
    BY <1>1, <2>3 DEF FromFlow
  <2> QED
    BY <1>4, <2>1, <2>2, <2>3, AllMove DEF Moves, CopyMoves, Forgets
<1>5. ASSUME NEW f \in Flows, flow'[f] # None PROVE flow'[f].link # r
  BY <1>1, <1>5, FlowEffect, NameAssumption
<1> QED
  BY <1>2, <1>3, <1>4, <1>5

(* A target is an account that exists, and an account is written once.     *)
LEMMA NewAccountStep ==
    TypeOK /\ StageInv /\ NewAccountInv /\ [Next]_vars => NewAccountInv'
<1> SUFFICES ASSUME TypeOK, StageInv, NewAccountInv, [Next]_vars,
                    NEW r \in Requests, pc'[r] \in Before
             PROVE  account'[r] = None /\ \A q \in Requests : target'[q] # r
  BY DEF NewAccountInv
<1>1. /\ pc[r] \in Before /\ account[r] = None /\ r \in Names
      /\ \A q \in Requests : target[q] # r
  BY AllMove DEF Moves, StageMoves, NewAccountInv, Names
<1>2. account'[r] = None
  <2>1. ASSUME NEW q \in Requests, pc'[q] \notin Before, InsertAccount(q) PROVE account'[r] = None
    BY <1>1, <2>1 DEF InsertAccount, TypeOK
  <2>2. ASSUME NEW q \in Requests, DeleteAccount(q) PROVE account'[r] = None
    BY <1>1, <2>2 DEF DeleteAccount, TypeOK
  <2>3. ASSUME NEW u \in Names, DeleteUser(u) PROVE account'[r] = None
    BY <1>1, <2>3 DEF DeleteUser
  <2> QED
    BY <1>1, <2>1, <2>2, <2>3, AccountEffect
<1>3. ASSUME NEW q \in Requests PROVE target'[q] # r
  BY <1>1, AllMove, NameAssumption DEF Moves, TargetMoves
<1> QED
  BY <1>2, <1>3

(* Whoever writes a user row writes an email and a flag that are proved.   *)
LEMMA ProofStep ==
    TypeOK /\ StageInv /\ NewUserInv /\ ProofInv /\ [Next]_vars => ProofInv'
<1> SUFFICES ASSUME TypeOK, StageInv, NewUserInv, ProofInv, [Next]_vars PROVE ProofInv'
  OBVIOUS
<1> USE GhostsGrow
<1>1. ASSUME NEW u \in Names, user'[u] # None, user'[u].verified
      PROVE  user'[u].email \in vouched' \/ u \in changed'
  <2>1. CASE user'[u] = user[u]
    BY <1>1, <2>1 DEF ProofInv, VerifiedWasProved, Users
  <2>2. ASSUME NEW r \in Requests, MarkVerified(r) \/ OverrideUserInfo(r), user'[u] # user[u]
        PROVE  user'[u].email \in vouched' \/ u \in changed'
    <3>1. /\ u = seen[r].id /\ u \in Users /\ pc[r] \in {"verify", "override"}
          /\ seen[r] # None /\ info[r] # None
          /\ seen[r].email \in Emails /\ info[r].verified \in BOOLEAN /\ seen[r].verified \in BOOLEAN
      BY <2>2 DEF MarkVerified, OverrideUserInfo, UpdateCopy, WriteUser, TypeOK, StageInv, StageOK,
                  Reading, SignedIn, UserCopy, UserInfo
    <3>2. CASE MarkVerified(r)
      <4>1. user'[u].email = user[u].email /\ info[r].email = seen[r].email /\ info[r].verified
        BY <1>1, <2>2, <3>1, <3>2
        DEF MarkVerified, UpdateCopy, WriteUser, TypeOK, Users, UserRow, StageInv, StageOK
      <4> QED
        BY <3>1, <4>1 DEF ProofInv, InfoProved, EmailRead, Reading, SignedIn, Users
    <3>3. CASE OverrideUserInfo(r)
      <4>1. /\ user'[u].email = info[r].email
            /\ info[r].verified \/ (seen[r].email = info[r].email /\ seen[r].verified)
        BY <1>1, <3>1, <3>3 DEF OverrideUserInfo, UpdateCopy, WriteUser, TypeOK, Users
      <4> QED
        BY <3>1, <4>1 DEF ProofInv, InfoProved, SeenProved
    <3> QED
      BY <2>2, <3>2, <3>3
  <2>3. ASSUME NEW r \in Requests, CreateUser(r), user'[u] # user[u]
        PROVE  user'[u].email \in vouched' \/ u \in changed'
    <3>1. /\ info[r] # None
          /\ user'[u] = [email |-> info[r].email, verified |-> info[r].verified]
      BY <2>3 DEF CreateUser, RegisterUser, TypeOK, StageInv, StageOK
    <3> QED
      BY <1>1, <3>1 DEF ProofInv, InfoProved
  <2>4. ASSUME NEW w \in Names, VerifyEmail(w), user'[u] # user[u]
        PROVE  user'[u].email \in vouched'
    BY <2>4 DEF VerifyEmail, Users, TypeOK, UserRow
  <2>5. ASSUME NEW w \in Names, DeleteUser(w), user'[u] # user[u] PROVE FALSE
    BY <1>1, <2>5 DEF DeleteUser, TypeOK
  <2>6. ASSUME NEW w \in Names, NEW e \in Emails, NEW proved \in BOOLEAN, ChangeEmail(w, e, proved),
               user'[u] # user[u]
        PROVE  user'[u].email \in vouched'
    BY <1>1, <2>6 DEF ChangeEmail, WriteUser, TypeOK
  <2> QED
    BY <2>1, <2>2, <2>3, <2>4, <2>5, <2>6, UserEffect
<1>2. ASSUME NEW q \in Requests PROVE InfoProved(q)'
  BY AllMove DEF Moves, InfoMoves, ProofInv, InfoProved
<1>3. ASSUME NEW q \in Requests PROVE SeenProved(q)'
  <2>1. CASE Rereads(q)
    BY <1>1, <2>1 DEF Rereads, SeenProved
  <2>2. CASE Keeps(q)
    BY <2>2 DEF Keeps, ProofInv, SeenProved
  <2>3. CASE FromFlow(q)
    <3>1. ~seen'[q].verified
      BY <2>3 DEF FromFlow
    <3> QED
      BY <3>1 DEF SeenProved
  <2>4. CASE Forgets(q)
    BY <2>4 DEF Forgets, SeenProved
  <2> QED
    BY <2>1, <2>2, <2>3, <2>4, AllMove DEF Moves, CopyMoves
<1>4. ASSUME NEW q \in Requests, pc'[q] \in Reading
      PROVE  \/ seen'[q].id \in changed' \/ user'[seen'[q].id] = None
             \/ user'[seen'[q].id].email = seen'[q].email
  <2>1. CASE Rereads(q)
    BY <2>1 DEF Rereads
  <2>2. CASE Keeps(q)
    <3> DEFINE u == seen[q].id
    <3>1. /\ seen'[q] = seen[q] /\ pc[q] \in Reading /\ seen[q] # None /\ u \in Names
          /\ u \in changed \/ user[u] = None \/ user[u].email = seen[q].email
      BY <1>4, <2>2 DEF Keeps, ProofInv, EmailRead, StageInv, StageOK, TypeOK, UserCopy
    <3>2. ASSUME NEW r \in Requests \cup {None}, NEW w, NEW row, w \in Users, q # r,
                 WriteUser(r, w, row)
          PROVE  u \in changed' \/ user'[u] = None \/ user'[u].email = seen[q].email
      <4>1. u = w => q \in ReadEmail(r, w)
        BY <3>1, <3>2 DEF ReadEmail, Holding, Reading
      <4>2. u # w => user'[u] = user[u]
        BY <3>2 DEF WriteUser
      <4>3. u = w => user'[u] = row
        BY <3>1, <3>2 DEF WriteUser, TypeOK
      <4> QED
        BY <3>1, <3>2, <4>1, <4>2, <4>3 DEF WriteUser, Users
    <3>3. ASSUME NEW r \in Requests, MarkVerified(r) \/ OverrideUserInfo(r)
          PROVE  u \in changed' \/ user'[u] = None \/ user'[u].email = seen[q].email
      <4>1. seen[r].id \in Users /\ \E row, stage : UpdateCopy(r, row, stage)
        BY <3>3 DEF MarkVerified, OverrideUserInfo
      <4>2. PICK row, stage : UpdateCopy(r, row, stage)
        BY <4>1
      <4>3. CASE q # r
        BY <3>2, <4>1, <4>2, <4>3 DEF UpdateCopy
      <4>4. CASE q = r
        <5>1. seen'[q] = [seen[q] EXCEPT !.email = row.email, !.verified = row.verified]
              /\ user'[u] = row
          BY <3>1, <4>2, <4>4 DEF UpdateCopy, WriteUser, TypeOK
        <5>2. seen'[q].email = row.email
          BY <3>1, <5>1 DEF TypeOK, UserCopy
        <5> QED
          BY <3>1, <5>1, <5>2
      <4> QED
        BY <4>3, <4>4
    <3>4. ASSUME NEW r \in Requests, CreateUser(r)
          PROVE  u \in changed' \/ user'[u] = None \/ user'[u].email = seen[q].email
      <4>1. u # r
        BY <3>1, <3>4 DEF CreateUser, RegisterUser, NewUserInv, Unborn
      <4> QED
        BY <3>1, <3>4, <4>1 DEF CreateUser, RegisterUser, TypeOK
    <3>5. ASSUME NEW w \in Names, VerifyEmail(w) \/ DeleteUser(w)
          PROVE  u \in changed' \/ user'[u] = None \/ user'[u].email = seen[q].email
      BY <3>1, <3>5 DEF VerifyEmail, DeleteUser, Users, TypeOK, UserRow
    <3>6. ASSUME NEW w \in Names, NEW e \in Emails, NEW proved \in BOOLEAN, ChangeEmail(w, e, proved)
          PROVE  u \in changed' \/ user'[u] = None \/ user'[u].email = seen[q].email
      BY <3>2, <3>6, NameAssumption DEF ChangeEmail
    <3> QED
      BY <3>1, <3>3, <3>4, <3>5, <3>6, UserEffect
  <2>3. CASE FromFlow(q) \/ Forgets(q)
    BY <1>4, <2>3 DEF FromFlow, Forgets, Reading, SignedIn
  <2> QED
    BY <2>1, <2>2, <2>3, AllMove DEF Moves, CopyMoves
<1> QED
  BY <1>1, <1>2, <1>3, <1>4 DEF ProofInv, VerifiedWasProved, Users, EmailRead

(* Whoever changes a user row puts its readers into overtaken.             *)
LEMMA CurrentStep ==
    TypeOK /\ StageInv /\ NewUserInv /\ CurrentInv /\ [Next]_vars => CurrentInv'
<1> SUFFICES ASSUME TypeOK, StageInv, NewUserInv, CurrentInv, [Next]_vars,
                    NEW q \in Requests \ overtaken', pc'[q] \in {"listAccounts", "save"}
             PROVE  /\ user'[seen'[q].id] # None /\ user'[seen'[q].id].email = info'[q].email
                    /\ seen'[q].verified => user'[seen'[q].id].verified
  BY DEF CurrentInv
<1>1. q \notin overtaken
  BY GhostsGrow
<1>2. CASE \E ui \in UserInfo : IDTokenSignIn(q, ui) \/ CallbackSignIn(q, ui)
  <2>1. PICK ui \in UserInfo : FindUserByEmail(q, ui)
    BY <1>2 DEF IDTokenSignIn, CallbackSignIn
  <2>2. PICK u \in Users : user[u].email = ui.email /\ Learn(q, ui, CopyOf(u), "listAccounts")
    BY <2>1 DEF FindUserByEmail, Learn, Go, TypeOK
  <2>3. seen'[q] = CopyOf(u) /\ info'[q] = ui /\ user' = user
    BY <2>2 DEF Learn, TypeOK, rows
  <2> QED
    BY <2>2, <2>3 DEF CopyOf, Users
<1>3. CASE pc[q] \in {"listAccounts", "save"} /\ seen'[q] = seen[q] /\ info'[q] = info[q]
  <2> DEFINE u == seen[q].id
  <2>1. /\ u \in Names /\ user[u] # None /\ user[u] \in UserRow /\ user[u].email = info[q].email
        /\ seen[q].verified => user[u].verified
        /\ seen[q] # None /\ pc[q] \in Reading
    BY <1>1, <1>3 DEF CurrentInv, StageInv, StageOK, Reading, TypeOK, UserCopy
  <2>2. ASSUME NEW r \in Requests \cup {None}, NEW w \in Users, NEW row, q # r, WriteUser(r, w, row),
               row # None
        PROVE  user'[u] # None /\ user'[u].email = user[u].email /\ (user[u].verified => user'[u].verified)
    <3>1. u # w => user'[u] = user[u]
      BY <2>2 DEF WriteUser, TypeOK
    <3>2. u = w => q \in ReadEmail(r, w) /\ user'[u] = row
      BY <2>1, <2>2 DEF ReadEmail, Holding, Reading, WriteUser, TypeOK
    <3> QED
      BY <2>1, <2>2, <3>1, <3>2 DEF WriteUser
  <2>3. ASSUME NEW r \in Requests, MarkVerified(r) \/ OverrideUserInfo(r)
        PROVE  user'[u] # None /\ user'[u].email = user[u].email /\ (user[u].verified => user'[u].verified)
    <3>1. q # r /\ seen[r].id \in Users /\ seen[r] # None /\ info[r] # None
      BY <1>3, <2>3 DEF MarkVerified, OverrideUserInfo, StageInv, StageOK, Reading, SignedIn
    <3>2. user[seen[r].id] \in UserRow
      BY <3>1 DEF Users, TypeOK
    <3>3. \E row \in UserRow : WriteUser(r, seen[r].id, row)
      <4>1. CASE MarkVerified(r)
        BY <3>2, <4>1, FieldType DEF MarkVerified, UpdateCopy
      <4>2. CASE OverrideUserInfo(r)
        BY <3>1, <4>2 DEF OverrideUserInfo, UpdateCopy, TypeOK, UserInfo, UserCopy, UserRow
      <4> QED
        BY <2>3, <4>1, <4>2
    <3> QED
      BY <2>2, <3>1, <3>3, NoneIsNoRecord
  <2>4. ASSUME NEW r \in Requests, CreateUser(r) PROVE user'[u] = user[u]
    BY <2>1, <2>4 DEF CreateUser, RegisterUser, NewUserInv, Unborn, TypeOK
  <2>5. ASSUME NEW w \in Names, VerifyEmail(w)
        PROVE  user'[u] # None /\ user'[u].email = user[u].email /\ (user[u].verified => user'[u].verified)
    <3>1. CASE u = w
      <4>1. user'[u] = [user[u] EXCEPT !.verified = TRUE]
        BY <2>1, <2>5, <3>1 DEF VerifyEmail, TypeOK
      <4> QED
        BY <2>1, <4>1, FieldType, NoneIsNoRecord DEF UserRow
    <3> QED
      BY <2>1, <2>5, <3>1 DEF VerifyEmail, TypeOK
  <2>6. ASSUME NEW w \in Names, DeleteUser(w) PROVE user'[u] = user[u]
    <3>1. u # w
      BY <2>1, <2>6 DEF DeleteUser, Holding, TypeOK
    <3> QED
      BY <2>1, <2>6, <3>1 DEF DeleteUser, TypeOK
  <2>7. ASSUME NEW w \in Names, NEW e \in Emails, NEW proved \in BOOLEAN, ChangeEmail(w, e, proved)
        PROVE  user'[u] # None /\ user'[u].email = user[u].email /\ (user[u].verified => user'[u].verified)
    <3>1. w \in Users /\ WriteUser(None, w, [email |-> e, verified |-> proved])
      BY <2>7 DEF ChangeEmail
    <3>2. [email |-> e, verified |-> proved] \in UserRow
      BY DEF UserRow
    <3> QED
      BY <2>2, <3>1, <3>2, NoneIsNoRecord, NameAssumption
  <2> QED
    BY <1>3, <2>1, <2>3, <2>4, <2>5, <2>6, <2>7, UserEffect
<1>4. ASSUME RequestStep(q),
             ~ \E ui \in UserInfo : IDTokenSignIn(q, ui) \/ CallbackSignIn(q, ui)
      PROVE  pc[q] \in {"listAccounts", "save"} /\ seen'[q] = seen[q] /\ info'[q] = info[q]
  <2> USE DEF Go, TypeOK
  <2>1. CASE StartStep(q)
    BY <1>4, <2>1, ReturnClears
    DEF StartStep, CallbackFindState, CallbackDeleteState, TakeState, Proceed
  <2>2. CASE LinkStep(q)
    BY <2>2, ReturnClears DEF LinkStep, LinkFindAccount, CallbackLinks, IDTokenLink, Learn,
                              OwnAccounts, ListOwnAccounts, LinkSaveAccount, Proceed
  <2>3. CASE SignInStep(q)
    BY <2>3, ReturnClears
    DEF SignInStep, ListAccounts, UpdateTokens, SaveAccount, AfterSave, AfterLink, AfterVerify,
        RefreshCopy, KeepCopy, MarkVerified, OverrideUserInfo, UpdateCopy, CreateUser, RegisterUser,
        CreateUserAccount, CreateSession, Proceed
  <2>4. CASE UnlinkStep(q) \/ End(q)
    BY <2>4, ReturnClears DEF UnlinkStep, UnlinkFindAccount, Pick, DeleteAccount, End
  <2> QED
    BY <1>4, <2>1, <2>2, <2>3, <2>4 DEF RequestStep
<1>5. CASE Untouched(q)
  BY <1>3, <1>5 DEF Untouched
<1>6. UNCHANGED request => Untouched(q)
  BY DEF request, Untouched
<1> QED
  BY <1>2, <1>3, <1>4, <1>5, <1>6, WhoMoves

(* Whoever inserts an account puts those about to insert one for the same  *)
(* identity into overtaken.                                                *)
LEMMA LinkInvStep ==
    TypeOK /\ StageInv /\ NewUserInv /\ LinkInv /\ [Next]_vars => LinkInv'
<1> SUFFICES ASSUME TypeOK, StageInv, NewUserInv, LinkInv, [Next]_vars PROVE LinkInv'
  OBVIOUS
<1>1. ASSUME NEW u \in Names, NEW i \in Identities, NEW a \in Linked(u, i)', NEW b \in Linked(u, i)',
             a # b
      PROVE  a \in overtaken' \/ b \in overtaken'
  <2> DEFINE row(n) == account'[n] # None /\ account'[n].user = u /\ account'[n].identity = i
  <2>1. a \in Names /\ b \in Names /\ row(a) /\ row(b)
    BY DEF Linked, Accounts, AccountsOf
  <2>2. CASE a \in Linked(u, i) /\ b \in Linked(u, i)
    BY <1>1, <2>2, GhostsGrow DEF LinkInv, OneAccountPerIdentity
  <2>3. ASSUME NEW r \in Requests, pc[r] \in Saving, InsertAccount(r)
        PROVE  a \in overtaken' \/ b \in overtaken'
    <3>1. /\ account'[r] = [user |-> seen[r].id, identity |-> info[r].identity]
          /\ \A n \in Names \ {r} : account'[n] = account[n]
      BY <2>3 DEF InsertAccount, TypeOK, Names
    <3>2. \A n \in {a, b} \ {r} : n \in Linked(u, i)
      BY <2>1, <3>1 DEF Linked, Accounts, AccountsOf
    <3>3. r \in {a, b} => u = seen[r].id /\ i = info[r].identity
      BY <2>1, <3>1
    <3>4. r \in {a, b} => r \in overtaken
      BY <1>1, <2>3, <3>2, <3>3 DEF LinkInv
    <3> QED
      BY <2>2, <3>2, <3>4, GhostsGrow
  <2>4. ASSUME \A n \in Names : account'[n] \in {None, account[n]}
        PROVE  a \in Linked(u, i) /\ b \in Linked(u, i)
    BY <2>1, <2>4 DEF Linked, Accounts, AccountsOf
  <2>5. ASSUME NEW r \in Requests, DeleteAccount(r)
        PROVE  \A n \in Names : account'[n] \in {None, account[n]}
    BY <2>5 DEF DeleteAccount, TypeOK
  <2>6. ASSUME NEW w \in Names, DeleteUser(w)
        PROVE  \A n \in Names : account'[n] \in {None, account[n]}
    BY <2>6 DEF DeleteUser
  <2> QED
    BY <2>2, <2>3, <2>4, <2>5, <2>6, AccountEffect
<1>2. ASSUME NEW q \in Requests \ overtaken', pc'[q] \in Saving
      PROVE  /\ Linked(seen[q].id, info[q].identity)' = {}
             /\ pc'[q] = "linkSave" /\ presented'[q] # None => AccountsOf(info[q].identity)' = {}
  <2>1. q \notin overtaken
    BY GhostsGrow
  <2>2. CASE Untouched(q)
    <3>1. /\ pc'[q] = pc[q] /\ seen'[q] = seen[q] /\ info'[q] = info[q] /\ presented'[q] = presented[q]
          /\ Linked(seen[q].id, info[q].identity) = {}
          /\ pc[q] = "linkSave" /\ presented[q] # None => AccountsOf(info[q].identity) = {}
      BY <1>2, <2>1, <2>2 DEF Untouched, LinkInv
    <3>2. ASSUME NEW n \in Names, account'[n] # None, account'[n].identity = info[q].identity
          PROVE  account'[n] = account[n]
      <4>1. ASSUME NEW r \in Requests, pc'[r] \notin Before, InsertAccount(r)
            PROVE  account'[n] = account[n]
        <5>1. r # q
          BY <1>2, <4>1 DEF Before
        <5>2. info[r].identity # info[q].identity
          BY <1>2, <3>1, <4>1, <5>1 DEF InsertAccount, AboutToSave
        <5> QED
          BY <3>2, <4>1, <5>2 DEF InsertAccount, TypeOK, Names
      <4>2. ASSUME NEW r \in Requests, DeleteAccount(r) PROVE account'[n] = account[n]
        BY <3>2, <4>2 DEF DeleteAccount, TypeOK
      <4>3. ASSUME NEW w \in Names, DeleteUser(w) PROVE account'[n] = account[n]
        BY <3>2, <4>3 DEF DeleteUser
      <4> QED
        BY <4>1, <4>2, <4>3, AccountEffect
    <3> QED
      BY <3>1, <3>2 DEF Linked, Accounts, AccountsOf
  <2>3. CASE RequestStep(q)
    <3> USE DEF Go, TypeOK
    <3>1. CASE StartStep(q)
      BY <1>2, <3>1, ReturnClears
      DEF StartStep, CallbackFindState, CallbackDeleteState, TakeState, IDTokenSignIn,
          CallbackSignIn, FindUserByEmail, Learn, Proceed, Saving
    <3>2. ASSUME NEW ui \in UserInfo, LinkFindAccount(q, ui)
          PROVE  account' = account /\ info'[q] = ui /\ AccountsOf(ui.identity) = {}
      BY <3>2 DEF LinkFindAccount, CallbackLinks, Learn, rows
    <3>3. ASSUME NEW ui \in UserInfo, NEW u \in Names, IDTokenLink(q, u, ui) PROVE FALSE
      BY <1>2, <3>3 DEF IDTokenLink, Learn, Saving
    <3>4. CASE OwnAccounts(q)
      <4>1. /\ account' = account /\ info'[q] = info[q] /\ seen'[q] = seen[q] /\ presented'[q] = None
            /\ Linked(seen[q].id, info[q].identity) = {}
        BY <3>4 DEF OwnAccounts, ListOwnAccounts, Proceed, rows, StageInv, StageOK
      <4> QED
        BY <4>1 DEF Linked, Accounts, AccountsOf
    <3>5. CASE CreateUser(q)
      <4>1. /\ account' = account /\ seen'[q].id = q /\ pc'[q] = "register" /\ pc[q] = "createUser"
        BY <3>5 DEF CreateUser, RegisterUser
      <4>2. Accounts(q) = {}
        BY <4>1 DEF NewUserInv, Unborn
      <4> QED
        BY <4>1, <4>2 DEF Linked, Accounts
    <3>6. CASE ListAccounts(q)
      <4>1. /\ account' = account /\ info'[q] = info[q] /\ seen'[q] = seen[q] /\ pc'[q] = "save"
            /\ Linked(seen[q].id, info[q].identity) = {}
        BY <1>2, <3>6 DEF ListAccounts, AfterLink, AfterVerify, Proceed, rows, Saving
      <4> QED
        BY <4>1 DEF Linked, Accounts, AccountsOf
    <3>7. CASE \/ LinkSaveAccount(q) \/ UpdateTokens(q) \/ SaveAccount(q) \/ RefreshCopy(q)
               \/ MarkVerified(q) \/ OverrideUserInfo(q) \/ CreateUserAccount(q) \/ CreateSession(q)
      BY <1>2, <3>7, ReturnClears
      DEF LinkSaveAccount, UpdateTokens, SaveAccount, AfterSave, AfterLink, AfterVerify, RefreshCopy,
          KeepCopy, MarkVerified, OverrideUserInfo, UpdateCopy, CreateUserAccount, CreateSession,
          Proceed, Saving
    <3>8. CASE UnlinkStep(q) \/ End(q)
      BY <1>2, <3>8, ReturnClears DEF UnlinkStep, UnlinkFindAccount, Pick, DeleteAccount, End, Saving
    <3>9. ASSUME NEW ui \in UserInfo, LinkFindAccount(q, ui)
          PROVE  /\ Linked(seen[q].id, info[q].identity)' = {}
                 /\ AccountsOf(info[q].identity)' = {}
      BY <3>2, <3>9 DEF Linked, Accounts, AccountsOf
    <3> QED
      BY <2>3, <3>1, <3>3, <3>4, <3>5, <3>6, <3>7, <3>8, <3>9 DEF RequestStep, LinkStep, SignInStep
  <2>4. UNCHANGED request => Untouched(q)
    BY DEF request, Untouched
  <2> QED
    BY <2>2, <2>3, <2>4, WhoMoves
<1> QED
  BY <1>1, <1>2 DEF LinkInv, OneAccountPerIdentity

(* Whoever deletes an account of a user puts its sign-ins into overtaken.  *)
LEMMA SessionInvStep ==
    TypeOK /\ StageInv /\ NewAccountInv /\ UnlinkInv /\ SessionInv /\ [Next]_vars => SessionInv'
<1> DEFINE In == SignedIn \ {"register"}
<1> SUFFICES ASSUME TypeOK, StageInv, NewAccountInv, UnlinkInv, SessionInv, [Next]_vars,
                    NEW q \in Requests \ overtaken', pc'[q] \in In
             PROVE  Linked(seen[q].id, info[q].identity)' # {}
  BY DEF SessionInv
<1>1. q \notin overtaken
  BY GhostsGrow
<1>2. CASE pc[q] \in In /\ seen'[q].id = seen[q].id /\ info'[q] = info[q]
  <2>1. /\ seen[q] # None /\ pc[q] \notin Saving /\ pc[q] # "delete"
        /\ pc[q] \in SignedIn
    BY <1>2 DEF StageInv, StageOK, Reading, SignedIn, Saving
  <2>2. PICK a \in Linked(seen[q].id, info[q].identity) : TRUE
    BY <1>1, <1>2 DEF SessionInv
  <2>3. a \in Names /\ account[a] # None /\ account[a].user = seen[q].id
        /\ account[a].identity = info[q].identity
    BY <2>2 DEF Linked, Accounts, AccountsOf
  <2>4. account'[a] = account[a]
    <3>1. ASSUME NEW r \in Requests, pc[r] \in Saving, InsertAccount(r)
          PROVE  account'[a] = account[a]
      BY <2>3, <3>1 DEF NewAccountInv, Before, InsertAccount, TypeOK
    <3>2. ASSUME NEW r \in Requests, DeleteAccount(r) PROVE account'[a] = account[a]
      <4>1. r # q /\ seen[r].id # seen[q].id
        BY <2>1, <3>2 DEF DeleteAccount, Holding
      <4>2. a # target[r]
        BY <2>3, <3>2, <4>1 DEF DeleteAccount, UnlinkInv
      <4> QED
        BY <2>3, <3>2, <4>2 DEF DeleteAccount, TypeOK
    <3>3. ASSUME NEW u \in Names, DeleteUser(u) PROVE account'[a] = account[a]
      <4>1. u # seen[q].id
        BY <2>1, <3>3 DEF DeleteUser, Holding, TypeOK
      <4> QED
        BY <2>3, <3>3, <4>1 DEF DeleteUser, Accounts
    <3> QED
      BY <3>1, <3>2, <3>3, AccountEffect
  <2> QED
    BY <1>2, <2>3, <2>4 DEF Linked, Accounts, AccountsOf
<1>3. CASE Untouched(q)
  BY <1>2, <1>3 DEF Untouched
<1>4. CASE RequestStep(q)
  <2> USE DEF Go, TypeOK
  <2>1. CASE StartStep(q)
    BY <2>1, ReturnClears
    DEF StartStep, CallbackFindState, CallbackDeleteState, TakeState, IDTokenSignIn, CallbackSignIn,
        FindUserByEmail, Learn, Proceed, SignedIn
  <2>2. CASE LinkStep(q)
    BY <2>2, ReturnClears
    DEF LinkStep, LinkFindAccount, CallbackLinks, IDTokenLink, Learn, OwnAccounts, ListOwnAccounts,
        LinkSaveAccount, Proceed, SignedIn
  <2>3. CASE ListAccounts(q)
    <3>1. /\ account' = account /\ info'[q] = info[q] /\ seen'[q] = seen[q]
          /\ Linked(seen[q].id, info[q].identity) # {}
      BY <2>3 DEF ListAccounts, Proceed, rows, SignedIn
    <3> QED
      BY <3>1 DEF Linked, Accounts, AccountsOf
  <2>4. CASE SaveAccount(q) \/ CreateUserAccount(q)
    <3>1. /\ info'[q] = info[q] /\ seen'[q] = seen[q] /\ q \in Names
          /\ account'[q] = [user |-> seen[q].id, identity |-> info[q].identity]
          /\ pc[q] \in Saving
      BY <2>4 DEF SaveAccount, CreateUserAccount, InsertAccount, Proceed, Names, Saving
    <3>2. account'[q] # None
      <4>1. seen[q] \in UserCopy /\ info[q] \in UserInfo
        BY <3>1 DEF StageInv, StageOK
      <4>2. [user |-> seen[q].id, identity |-> info[q].identity] \in AccountRow
        BY <4>1 DEF UserCopy, UserInfo, AccountRow
      <4> QED
        BY <3>1, <4>2, NoneIsNoRecord
    <3>3. q \in Linked(seen[q].id, info[q].identity)'
      BY <3>1, <3>2 DEF Linked, Accounts, AccountsOf
    <3> QED
      BY <3>3
  <2>5. CASE UpdateTokens(q)
    BY <1>2, <2>5 DEF UpdateTokens, Proceed, SignedIn
  <2>6. CASE RefreshCopy(q)
    BY <1>2, <2>6 DEF RefreshCopy, KeepCopy, CopyOf, SignedIn
  <2>7. CASE MarkVerified(q) \/ OverrideUserInfo(q)
    <3>1. pc[q] \in In /\ seen[q] \in UserCopy /\ \E row, stage : UpdateCopy(q, row, stage)
      BY <2>7 DEF MarkVerified, OverrideUserInfo, StageInv, StageOK, Reading, SignedIn
    <3>2. PICK row, stage : UpdateCopy(q, row, stage)
      BY <3>1
    <3>3. seen'[q] = [seen[q] EXCEPT !.email = row.email, !.verified = row.verified]
          /\ info'[q] = info[q]
      BY <3>2 DEF UpdateCopy
    <3>4. seen'[q].id = seen[q].id
      BY <3>1, <3>3 DEF UserCopy
    <3> QED
      BY <1>2, <3>1, <3>3, <3>4
  <2>8. CASE CreateUser(q) \/ CreateSession(q)
    BY <2>8, ReturnClears DEF CreateUser, RegisterUser, CreateSession, SignedIn
  <2>9. CASE UnlinkStep(q) \/ End(q)
    BY <2>9, ReturnClears DEF UnlinkStep, UnlinkFindAccount, Pick, DeleteAccount, End, SignedIn
  <2> QED
    BY <1>4, <2>1, <2>2, <2>3, <2>4, <2>5, <2>6, <2>7, <2>8, <2>9 DEF RequestStep, SignInStep
<1>5. UNCHANGED request => Untouched(q)
  BY DEF request, Untouched
<1> QED
  BY <1>3, <1>4, <1>5, WhoMoves

(* ... and its unlinks.                                                    *)
LEMMA UnlinkInvStep ==
    TypeOK /\ StageInv /\ NewAccountInv /\ UnlinkInv /\ [Next]_vars => UnlinkInv'
<1> SUFFICES ASSUME TypeOK, StageInv, NewAccountInv, UnlinkInv, [Next]_vars,
                    NEW q \in Requests, pc'[q] = "delete"
             PROVE  /\ account'[target'[q]] # None => account'[target'[q]].user = seen'[q].id
                    /\ \/ q \in overtaken' \/ config'.allowUnlinkingAll
                       \/ \E a \in Names : /\ account'[a] # None /\ account'[a].user = seen'[q].id
                                           /\ a # target'[q]
  BY DEF UnlinkInv, Accounts
<1>1. CASE Untouched(q)
  <2>1. /\ seen'[q] = seen[q] /\ target'[q] = target[q] /\ pc[q] = "delete" /\ config' = config
        /\ target[q] \in Names /\ seen[q] # None
        /\ account[target[q]] # None => account[target[q]].user = seen[q].id
    BY <1>1, ConfigStays DEF Untouched, UnlinkInv, StageInv, StageOK, TypeOK
  <2>2. \/ q \in overtaken \/ config.allowUnlinkingAll
        \/ \E a \in Names : account[a] # None /\ account[a].user = seen[q].id /\ a # target[q]
    BY <2>1 DEF UnlinkInv, Accounts
  <2>3. account'[target[q]] \in {None, account[target[q]]}
    <3>1. ASSUME NEW r \in Requests, pc[r] \in Saving, InsertAccount(r)
          PROVE  account'[target[q]] = account[target[q]]
      BY <2>1, <3>1 DEF NewAccountInv, Before, InsertAccount, TypeOK
    <3>2. ASSUME NEW r \in Requests, DeleteAccount(r)
          PROVE  account'[target[q]] \in {None, account[target[q]]}
      BY <2>1, <3>2 DEF DeleteAccount, TypeOK
    <3>3. ASSUME NEW u \in Names, DeleteUser(u)
          PROVE  account'[target[q]] \in {None, account[target[q]]}
      BY <2>1, <3>3 DEF DeleteUser
    <3> QED
      BY <3>1, <3>2, <3>3, AccountEffect
  <2>4. ASSUME NEW a \in Names, account[a] # None, account[a].user = seen[q].id
        PROVE  account'[a] = account[a] \/ q \in overtaken'
    <3>1. ASSUME NEW r \in Requests, pc[r] \in Saving, InsertAccount(r)
          PROVE  account'[a] = account[a]
      BY <2>4, <3>1 DEF NewAccountInv, Before, InsertAccount, TypeOK
    <3>2. ASSUME NEW r \in Requests, DeleteAccount(r)
          PROVE  account'[a] = account[a] \/ q \in overtaken'
      <4>1. CASE seen[r].id = seen[q].id
        <5>1. r # q
          BY <2>1, <3>2, <1>1, ReturnClears DEF DeleteAccount, Untouched
        <5> QED
          BY <2>1, <3>2, <4>1, <5>1 DEF DeleteAccount, Holding
      <4>2. CASE seen[r].id # seen[q].id
        <5>1. a # target[r]
          BY <2>4, <3>2, <4>2 DEF DeleteAccount, UnlinkInv
        <5> QED
          BY <2>4, <3>2, <5>1 DEF DeleteAccount, TypeOK
      <4> QED
        BY <4>1, <4>2
    <3>3. ASSUME NEW u \in Names, DeleteUser(u)
          PROVE  account'[a] = account[a] \/ q \in overtaken'
      <4>1. u = seen[q].id => q \in overtaken'
        BY <2>1, <3>3 DEF DeleteUser, Holding, TypeOK
      <4> QED
        BY <2>4, <3>3, <4>1 DEF DeleteUser, Accounts
    <3> QED
      BY <3>1, <3>2, <3>3, AccountEffect
  <2> QED
    BY <2>1, <2>2, <2>3, <2>4, GhostsGrow
<1>2. ASSUME NEW u \in Names, NEW b \in Names, UnlinkFindAccount(q, u, b)
      PROVE  /\ account' = account /\ config' = config /\ target'[q] = b /\ seen'[q].id = u
             /\ b \in Accounts(u)
             /\ config.allowUnlinkingAll \/ \E a \in Accounts(u) : a # b
  <2>1. /\ account' = account /\ config' = config /\ target'[q] = b /\ seen'[q].id = u
        /\ b \in Accounts(u)
        /\ Cardinality(Accounts(u)) = 1 => config.allowUnlinkingAll
    BY <1>2 DEF UnlinkFindAccount, Pick, CopyOf, TypeOK, rows
  <2>2. ASSUME \A a \in Accounts(u) : a = b PROVE Cardinality(Accounts(u)) = 1
    <3>1. Accounts(u) = {b}
      BY <2>1, <2>2
    <3> QED
      BY <3>1, FS_Singleton
  <2> QED
    BY <2>1, <2>2
<1>3. CASE RequestStep(q)
  <2> USE DEF Go, TypeOK
  <2>1. CASE StartStep(q)
    BY <2>1, ReturnClears
    DEF StartStep, CallbackFindState, CallbackDeleteState, TakeState, IDTokenSignIn, CallbackSignIn,
        FindUserByEmail, Learn, Proceed
  <2>2. CASE LinkStep(q)
    BY <2>2, ReturnClears
    DEF LinkStep, LinkFindAccount, CallbackLinks, IDTokenLink, Learn, OwnAccounts, ListOwnAccounts,
        LinkSaveAccount, Proceed
  <2>3. CASE SignInStep(q)
    BY <2>3, ReturnClears
    DEF SignInStep, ListAccounts, UpdateTokens, SaveAccount, AfterSave, AfterLink, AfterVerify,
        RefreshCopy, KeepCopy, MarkVerified, OverrideUserInfo, UpdateCopy, CreateUser, RegisterUser,
        CreateUserAccount, CreateSession, Proceed
  <2>4. CASE DeleteAccount(q) \/ End(q)
    BY <2>4, ReturnClears DEF DeleteAccount, End
  <2>5. CASE \E u, b \in Names : UnlinkFindAccount(q, u, b)
    BY <1>2, <2>5 DEF Accounts
  <2> QED
    BY <1>3, <2>1, <2>2, <2>3, <2>4, <2>5 DEF RequestStep, UnlinkStep
<1>4. UNCHANGED request => Untouched(q)
  BY DEF request, Untouched
<1> QED
  BY <1>1, <1>3, <1>4, WhoMoves

-----------------------------------------------------------------------------
LEMMA InitIInv == Init => IInv
<1> SUFFICES ASSUME Init PROVE IInv
  OBVIOUS
<1>1. TypeOK
  BY BoundAssumption DEF Init, TypeOK, Nothing, Users, Stages, UserRow
<1>2. StageInv /\ FlowInv /\ StateRedeemedOnce
  BY NameAssumption
  DEF Init, StageInv, StageOK, FlowInv, StateRedeemedOnce, Nothing, Reading, SignedIn, Saving
<1>3. NewUserInv
  BY DEF Init, NewUserInv, Nothing, Accounts, Users, Unborn, Names
<1>4. NewAccountInv
  BY NameAssumption DEF Init, NewAccountInv, Nothing
<1>5. ProofInv
  BY DEF Init, ProofInv, VerifiedWasProved, InfoProved, SeenProved, EmailRead, Nothing, Reading,
         SignedIn, Users
<1>6. LinkInv
  <2>1. OneAccountPerIdentity
    <3>1. ASSUME NEW u \in Names, NEW i \in Identities, NEW a \in Linked(u, i), NEW b \in Linked(u, i)
          PROVE  a = b
      <4>1. a \in Old /\ b \in Old /\ account[a] \in AccountRow /\ account[b] \in AccountRow
        BY DEF Init, Linked, Accounts, AccountsOf, Names
      <4>2. account[a] = account[b]
        BY <4>1 DEF Linked, Accounts, AccountsOf, AccountRow
      <4> QED
        BY <4>1, <4>2, NoneIsNoRecord DEF Init
    <3> QED
      BY <3>1 DEF OneAccountPerIdentity
  <2> QED
    BY <2>1 DEF Init, LinkInv, Saving
<1>7. CurrentInv /\ SessionInv /\ UnlinkInv
  BY DEF Init, CurrentInv, SessionInv, UnlinkInv, SignedIn
<1> QED
  BY <1>1, <1>2, <1>3, <1>4, <1>5, <1>6, <1>7 DEF IInv

LEMMA NextIInv == IInv /\ [Next]_vars => IInv'
BY TypeStep, StageInvStep, FlowInvStep, NewUserStep, NewAccountStep, ProofStep, CurrentStep,
   LinkInvStep, SessionInvStep, UnlinkInvStep
DEF IInv

(* Users, accounts, flows and requests are always in one of their states.  *)
THEOREM TypeCorrect == Spec => []TypeOK
<1>1. IInv => TypeOK
  BY DEF IInv
<1> QED
  BY <1>1, InitIInv, NextIInv, PTL DEF Spec

(* No flow is redeemed by two callbacks (parseOAuthState).                 *)
THEOREM StatesAreSingleUse == Spec => []StateRedeemedOnce
<1>1. IInv => StateRedeemedOnce
  BY DEF IInv
<1> QED
  BY <1>1, InitIInv, NextIInv, PTL DEF Spec

(* Two accounts of a user for one identity come only from requests that    *)
(* looked before the other insert and saved after it (saveOAuthAccount,    *)
(* createLinkedAccount).                                                   *)
THEOREM IdentitiesHaveOneAccount == Spec => []OneAccountPerIdentity
<1>1. IInv => OneAccountPerIdentity
  BY DEF IInv, LinkInv
<1> QED
  BY <1>1, InitIInv, NextIInv, PTL DEF Spec

(* An email is marked verified only when its owner was proved, or when it   *)
(* changed under a sign-in (linkOAuthToExistingUser, createOAuthUser).     *)
THEOREM VerifiedEmailsAreProved == Spec => []VerifiedWasProved
<1>1. IInv => VerifiedWasProved
  BY DEF IInv, ProofInv
<1> QED
  BY <1>1, InitIInv, NextIInv, PTL DEF Spec

(* Unlinking takes the last account only where it may, or where two        *)
(* requests overlap (handleUnlinkAccount).                                 *)
THEOREM LastAccountIsKept == Spec => LastAccountKept
<1> DEFINE Step ==
      account' # account => \A u \in Users :
          Accounts(u) # {} /\ Accounts(u)' = {} /\ user'[u] # None =>
              \/ config.allowUnlinkingAll
              \/ \E r \in overtaken : pc[r] = "delete" /\ pc'[r] = "done"
<1>1. IInv /\ [Next]_vars => [Step]_vars
  <2> SUFFICES ASSUME IInv, [Next]_vars, NEW u \in Users,
                      Accounts(u) # {}, Accounts(u)' = {}, user'[u] # None
               PROVE  \/ config.allowUnlinkingAll
                      \/ \E r \in overtaken : pc[r] = "delete" /\ pc'[r] = "done"
    OBVIOUS
  <2>1. PICK a \in Names : account[a] # None /\ account[a].user = u
    BY DEF Accounts
  <2>2. \A b \in Names : account[b] # None /\ account[b].user = u => account'[b] # account[b]
    BY DEF Accounts
  <2>3. ASSUME NEW r \in Requests, pc[r] \in Saving, InsertAccount(r) PROVE FALSE
    BY <2>1, <2>2, <2>3 DEF InsertAccount, IInv, TypeOK, NewAccountInv, Before
  <2>4. ASSUME NEW w \in Names, DeleteUser(w) PROVE FALSE
    <3>1. u = w
      BY <2>1, <2>2, <2>4 DEF DeleteUser, Accounts
    <3> QED
      BY <2>4, <3>1 DEF DeleteUser, IInv, TypeOK
  <2>5. ASSUME NEW r \in Requests, DeleteAccount(r)
        PROVE  \/ config.allowUnlinkingAll
               \/ r \in overtaken /\ pc[r] = "delete" /\ pc'[r] = "done"
    <3>1. \A b \in Names : b # target[r] => account'[b] = account[b]
      BY <2>5 DEF DeleteAccount, IInv, TypeOK
    <3>2. a = target[r] /\ u = seen[r].id
      BY <2>1, <2>2, <2>5, <3>1 DEF DeleteAccount, IInv, UnlinkInv
    <3>3. r \in overtaken \/ config.allowUnlinkingAll
      BY <2>2, <2>5, <3>1, <3>2 DEF DeleteAccount, IInv, UnlinkInv, Accounts
    <3> QED
      BY <2>5, <3>3, ReturnClears DEF DeleteAccount, IInv
  <2> QED
    BY <2>1, <2>2, <2>3, <2>4, <2>5, AccountEffect DEF IInv
<1> QED
  BY <1>1, InitIInv, NextIInv, PTL DEF Spec, LastAccountKept

(* A link callback gives an identity a second account only if it overlaps  *)
(* with the insert of the first (handleOAuthLinkCallback).                 *)
THEOREM LinksKeepTheOwner == Spec => LinkKeepsOwner
<1> DEFINE Step ==
      \A r \in Requests :
          /\ pc[r] = "linkSave" /\ presented[r] # None
          /\ account'[r] # account[r]
          => AccountsOf(info[r].identity) = {} \/ r \in overtaken
<1>1. IInv => Step
  BY DEF IInv, LinkInv, Saving
<1> QED
  BY <1>1, InitIInv, NextIInv, PTL DEF Spec, LinkKeepsOwner

(* Every session made for an identity has an account behind it, unless the *)
(* account went during the sign-in (handleOAuthUserInfo).                  *)
THEOREM SessionsHaveAccounts == Spec => SessionNeedsAccount
<1> DEFINE Step ==
      \A r \in Requests :
          session[r] = None /\ session'[r] # None =>
              Linked(session'[r], info[r].identity) # {} \/ r \in overtaken
<1>1. IInv /\ [Next]_vars => [Step]_vars
  <2> SUFFICES ASSUME IInv, [Next]_vars, NEW r \in Requests, session[r] = None, session'[r] # None
               PROVE  Linked(session'[r], info[r].identity) # {} \/ r \in overtaken
    OBVIOUS
  <2>1. CASE UNCHANGED session
    BY <2>1
  <2>2. ASSUME NEW q \in Requests, CreateSession(q)
        PROVE  Linked(session'[r], info[r].identity) # {} \/ r \in overtaken
    <3>1. q = r /\ session'[r] = seen[r].id /\ pc[r] = "create"
      BY <2>2 DEF CreateSession, IInv, TypeOK
    <3> QED
      BY <3>1 DEF IInv, SessionInv, SignedIn
  <2>3. ASSUME NEW q \in Requests, StartStep(q) \/ LinkStep(q) \/ UnlinkStep(q) \/ End(q)
        PROVE  UNCHANGED session
    BY <2>3
    DEF StartStep, CallbackFindState, CallbackDeleteState, TakeState, IDTokenSignIn, CallbackSignIn,
        FindUserByEmail, Learn, LinkStep, LinkFindAccount, CallbackLinks, IDTokenLink, OwnAccounts,
        ListOwnAccounts, LinkSaveAccount, InsertAccount, UnlinkStep, UnlinkFindAccount, Pick,
        DeleteAccount, End, rows
  <2>4. ASSUME NEW q \in Requests, SignInStep(q)
        PROVE  UNCHANGED session \/ CreateSession(q)
    BY <2>4
    DEF SignInStep, ListAccounts, UpdateTokens, SaveAccount, InsertAccount, RefreshCopy, KeepCopy,
        MarkVerified, OverrideUserInfo, UpdateCopy, CreateUser, RegisterUser, CreateUserAccount, rows
  <2>5. ASSUME NEW f, NEW link, NEW u, NEW e, NEW proved,
               StartFlow(f, link) \/ VerifyEmail(u) \/ ChangeEmail(u, e, proved)
        PROVE  UNCHANGED session
    BY <2>5 DEF StartFlow, VerifyEmail, ChangeEmail
  <2>6. ASSUME NEW u \in Names, DeleteUser(u) PROVE session'[r] = None
    BY <2>6 DEF DeleteUser
  <2>7. CASE UNCHANGED vars
    BY <2>1, <2>7 DEF vars, rows
  <2> QED
    BY <2>1, <2>2, <2>3, <2>4, <2>5, <2>6, <2>7 DEF Next
<1> QED
  BY <1>1, InitIInv, NextIInv, PTL DEF Spec, SessionNeedsAccount

(* A sign-in adds an account only to a user whose email the provider named  *)
(* and, as configured, both sides have proved (canImplicitLink).           *)
THEOREM ImplicitLinksAreProved == Spec => ImplicitLinkIsProved
<1> DEFINE Step ==
      \A r \in Requests :
          pc[r] = "save" /\ account'[r] # account[r] /\ r \notin overtaken =>
              LET u == user[seen[r].id] IN
              /\ u.email = info[r].email
              /\ config.requireLocalEmailVerified => u.verified
              /\ info[r].identity \in config.trusted \/ info[r].verified
<1>1. IInv => Step
  BY DEF IInv, CurrentInv, StageInv, StageOK, canImplicitLink
<1> QED
  BY <1>1, InitIInv, NextIInv, PTL DEF Spec, ImplicitLinkIsProved
=============================================================================
