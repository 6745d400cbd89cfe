--------------------------- MODULE SQLStoreProofs ---------------------------
(* Proofs about SQLStore, for any sets of ids and any number of callers:   *)
(* what the statements of overlapping calls keep true, and that the store  *)
(* implements StoreContract but for the steps that excused names.          *)
EXTENDS SQLStore, TLAPS

(* The rows and calls have their form; a call is in the middle of one of   *)
(* the five things a caller does in more than one statement.               *)
TypeOK ==
    /\ users \in [UserIds -> Emails \cup {None}]
    /\ accounts \in [AccountIds -> Account \cup {None}]
    /\ sessions \in [Tokens -> Session \cup {None}]
    /\ verifications \in [Identifiers -> Values \cup {None}]
    /\ call \in [Callers -> Writing \cup Taking \cup Saving \cup Renewing \cup Placing \cup {None}]

(* An email has one user: the unique index, whatever calls overlap.        *)
EmailUnique == \A u, v \in UserIds : users[u] # None /\ users[u] = users[v] => u = v

(* A user about to be inserted is known to its inserter only.              *)
InsertInv ==
    \A c \in Callers : Doing(c, "insertUser") =>
        /\ users[call[c].user] = None
        /\ \A d \in Callers \ {c} : call[d] # None => call[d].user # call[c].user

(* What a call has taken out of a table is its own, and not in the table.  *)
AccountsTaken ==
    \A c \in Callers, a \in AccountIds : TakenAccounts(c)[a] # None =>
        /\ accounts[a] = None /\ TakenAccounts(c)[a].user = call[c].user
        /\ \A d \in Callers \ {c} : TakenAccounts(d)[a] = None
SessionsTaken ==
    \A c \in Callers, t \in Tokens : TakenSessions(c)[t] # None =>
        /\ sessions[t] = None /\ TakenSessions(c)[t].user = call[c].user
        /\ Doing(c, "deleteUserRow")
        /\ \A d \in Callers \ {c} : TakenSessions(d)[t] = None
VerificationsTaken ==
    \A c \in Callers, i \in Identifiers : TakenVerifications(c)[i] # None =>
        /\ verifications[i] = None
        /\ \A d \in Callers \ {c} : TakenVerifications(d)[i] = None
TakenInv == AccountsTaken /\ SessionsTaken /\ VerificationsTaken

(* A deletion that no insert has overtaken has left nothing of the user in *)
(* the tables it has been through.                                         *)
EmptyInv ==
    \A c \in Callers : Begun(c) /\ ~call[c].late =>
        /\ AccountsOf(call[c].user) = {}
        /\ Doing(c, "deleteUserRow") => SessionsOf(call[c].user) = {}

(* The user of a session does not change under a call that will write it.  *)
RenewInv ==
    \A c \in Callers : Doing(c, "updateSessionRow") /\ sessions[call[c].id] # None =>
        sessions[call[c].id].user = call[c].row.user

IInv == TypeOK /\ EmailUnique /\ InsertInv /\ TakenInv /\ EmptyInv /\ RenewInv

-----------------------------------------------------------------------------
(* What a call is doing says what it carries.                              *)
LEMMA CallShape ==
    ASSUME TypeOK, NEW c \in Callers, call[c] # None
    PROVE  /\ call[c].op \in {"insertUser", "updateUserRow"} => call[c] \in Writing
           /\ call[c].op \in {"deleteSessions", "deleteUserRow"} => call[c] \in Taking
           /\ call[c].op = "updateAccountRow" => call[c] \in Saving
           /\ call[c].op = "updateSessionRow" => call[c] \in Renewing
           /\ call[c].op = "insertVerification" => call[c] \in Placing
<1>1. call[c] \in Writing \cup Taking \cup Saving \cup Renewing \cup Placing
  BY DEF TypeOK
<1> QED
  BY <1>1 DEF Writing, Taking, Saving, Renewing, Placing

LEMMA InitIInv == Init => IInv
BY NoneAssumption
   DEF Init, IInv, TypeOK, EmailUnique, InsertInv, TakenInv, AccountsTaken, SessionsTaken,
   VerificationsTaken, EmptyInv, RenewInv, Doing, Begun, TakenAccounts, TakenSessions,
         TakenVerifications, Nothing

(* Every step keeps the form of rows and calls.                            *)
LEMMA UserStatementsType ==
    ASSUME TypeOK, NEW c \in Callers,
           \/ \E u \in UserIds, e \in Emails : CreateUser(c, u, e)
           \/ \E u \in UserIds, e \in Emails \cup {None} : UpdateUser(c, u, e)
           \/ InsertUser(c) \/ UpdateUserRow(c)
    PROVE  TypeOK'
<1>1. ASSUME NEW u \in UserIds, NEW e \in Emails, CreateUser(c, u, e) PROVE TypeOK'
  BY <1>1 DEF TypeOK, CreateUser, Enter, tables, Writing
<1>2. ASSUME NEW u \in UserIds, NEW e \in Emails \cup {None}, UpdateUser(c, u, e) PROVE TypeOK'
  BY <1>2 DEF TypeOK, UpdateUser, Enter, tables, Writing
<1>3. CASE InsertUser(c)
  <2>1. call[c] \in Writing
    BY <1>3, CallShape DEF InsertUser, Doing
  <2> QED
    BY <1>3, <2>1 DEF TypeOK, InsertUser, Leave, Writing
<1>4. CASE UpdateUserRow(c)
  <2>1. call[c] \in Writing
    BY <1>4, CallShape DEF UpdateUserRow, Doing
  <2> QED
    BY <1>4, <2>1 DEF TypeOK, UpdateUserRow, Leave, Writing
<1> QED
  BY <1>1, <1>2, <1>3, <1>4

LEMMA DeleteUserType ==
    ASSUME TypeOK, NEW c \in Callers,
           (\E u \in UserIds : DeleteUser(c, u)) \/ DeleteSessionsOf(c) \/ DeleteUserRow(c) \/ Fail(c)
    PROVE  TypeOK'
<1>1. ASSUME NEW u \in UserIds, DeleteUser(c, u) PROVE TypeOK'
  <2>1. /\ Without(accounts, AccountsOf(u)) \in [AccountIds -> Account \cup {None}]
        /\ Only(accounts, AccountsOf(u)) \in [AccountIds -> Account \cup {None}]
        /\ Nothing(sessions) \in [Tokens -> Session \cup {None}]
    BY DEF TypeOK, Without, Only, Nothing
  <2> QED
    BY <1>1, <2>1 DEF TypeOK, DeleteUser, Enter, Taking
<1>2. CASE DeleteSessionsOf(c)
  <2>1. call[c] \in Taking
    BY <1>2, CallShape DEF DeleteSessionsOf, Doing
  <2>2. \A u \in UserIds : /\ Without(sessions, SessionsOf(u)) \in [Tokens -> Session \cup {None}]
                           /\ Only(sessions, SessionsOf(u)) \in [Tokens -> Session \cup {None}]
    BY DEF TypeOK, Without, Only
  <2>3. [call[c] EXCEPT !.op = "deleteUserRow", !.sessions = Only(sessions, SessionsOf(call[c].user))] \in Taking
    BY <2>1, <2>2 DEF Taking
  <2>4. call' = [call EXCEPT ![c] = [call[c] EXCEPT !.op = "deleteUserRow",
                                        !.sessions = Only(sessions, SessionsOf(call[c].user))]]
    BY <1>2, <2>1 DEF DeleteSessionsOf, TypeOK
  <2> QED
    BY <1>2, <2>1, <2>2, <2>3, <2>4 DEF TypeOK, DeleteSessionsOf, Taking
<1>3. CASE DeleteUserRow(c)
  BY <1>3 DEF TypeOK, DeleteUserRow, Leave
<1>4. CASE Fail(c)
  BY <1>4 DEF TypeOK, Fail, Leave, tables
<1> QED
  BY <1>1, <1>2, <1>3, <1>4

(* An insert that overtakes a deletion marks it and changes nothing else   *)
(* of it.                                                                  *)
LEMMA InsertedShape ==
    ASSUME TypeOK, NEW u \in UserIds, InsertedFor(u)
    PROVE  /\ call' \in [Callers -> Writing \cup Taking \cup Saving \cup Renewing \cup Placing \cup {None}]
           /\ \A c \in Callers :
                 /\ ~Deleting(c, u) => call'[c] = call[c]
                 /\ Deleting(c, u) =>
                       /\ call'[c] \in Taking /\ call[c] \in Taking /\ call'[c].late
                       /\ call'[c].op = call[c].op /\ call'[c].user = call[c].user /\ call'[c].id = call[c].id
                       /\ call'[c].accounts = call[c].accounts /\ call'[c].sessions = call[c].sessions
<1>1. ASSUME NEW c \in Callers, Deleting(c, u)
      PROVE  call[c] \in Taking /\ [call[c] EXCEPT !.late = TRUE] \in Taking
  <2>1. call[c] \in Taking
    BY <1>1, CallShape DEF Deleting, Begun, Doing
  <2> QED BY <2>1 DEF Taking
<1>2. ASSUME NEW c \in Callers, ~Deleting(c, u) PROVE call'[c] = call[c]
  BY <1>2 DEF InsertedFor
<1>3. ASSUME NEW c \in Callers, Deleting(c, u) PROVE call'[c] = [call[c] EXCEPT !.late = TRUE]
  BY <1>3 DEF InsertedFor
<1>4. call' \in [Callers -> Writing \cup Taking \cup Saving \cup Renewing \cup Placing \cup {None}]
  <2>1. \A c \in Callers : call'[c] \in Writing \cup Taking \cup Saving \cup Renewing \cup Placing \cup {None}
    BY <1>1, <1>2, <1>3 DEF TypeOK
  <2>2. call' = [c \in Callers |-> call'[c]]
    BY DEF InsertedFor
  <2> QED BY <2>1, <2>2
<1>5. ASSUME NEW c \in Callers, Deleting(c, u)
      PROVE  /\ call'[c] \in Taking /\ call[c] \in Taking /\ call'[c].late
             /\ call'[c].op = call[c].op /\ call'[c].user = call[c].user /\ call'[c].id = call[c].id
             /\ call'[c].accounts = call[c].accounts /\ call'[c].sessions = call[c].sessions
  BY <1>1, <1>3, <1>5 DEF Taking
<1> QED BY <1>2, <1>4, <1>5

(* ... so that what the deletion has taken is still taken.                 *)
LEMMA InsertedTakes ==
    ASSUME TypeOK, TypeOK', UNCHANGED users, NEW u \in UserIds, InsertedFor(u)
    PROVE  \A d \in Callers : /\ TakenAccounts(d)' = TakenAccounts(d)
                              /\ TakenSessions(d)' = TakenSessions(d)
                              /\ TakenVerifications(d)' = TakenVerifications(d)
<1>1. DOMAIN accounts' = DOMAIN accounts /\ DOMAIN sessions' = DOMAIN sessions
  BY DEF TypeOK
<1> SUFFICES ASSUME NEW d \in Callers
             PROVE  /\ TakenAccounts(d)' = TakenAccounts(d)
                    /\ TakenSessions(d)' = TakenSessions(d)
                    /\ TakenVerifications(d)' = TakenVerifications(d)
  OBVIOUS
<1>2. CASE Deleting(d, u)
  BY <1>1, <1>2, InsertedShape, NoneAssumption
     DEF TakenAccounts, TakenSessions, TakenVerifications, Nothing, Deleting, Begun, Doing
<1>3. CASE ~Deleting(d, u)
  BY <1>1, <1>3, InsertedShape
     DEF TakenAccounts, TakenSessions, TakenVerifications, Nothing, Begun, Doing
<1> QED BY <1>2, <1>3

LEMMA AccountStatementsType ==
    ASSUME TypeOK,
           \/ \E a \in AccountIds, row \in Account : CreateAccount(a, row)
           \/ \E c \in Callers, a \in AccountIds, s \in Secrets : UpdateAccount(c, a, s)
           \/ \E c \in Callers : UpdateAccountRow(c)
           \/ \E u \in UserIds, p \in Providers, s \in Secrets : UpdateAccountPassword(u, p, s)
           \/ \E a \in AccountIds : DeleteAccount(a)
    PROVE  TypeOK'
<1>1. ASSUME NEW a \in AccountIds, NEW row \in Account, CreateAccount(a, row) PROVE TypeOK'
  <2>1. row.user \in UserIds
    BY DEF Account
  <2> QED
    BY <1>1, <2>1, InsertedShape DEF TypeOK, CreateAccount
<1>2. ASSUME NEW c \in Callers, NEW a \in AccountIds, NEW s \in Secrets, UpdateAccount(c, a, s) PROVE TypeOK'
  BY <1>2 DEF TypeOK, UpdateAccount, Enter, tables, Saving
<1>3. ASSUME NEW c \in Callers, UpdateAccountRow(c) PROVE TypeOK'
  <2>1. call[c] \in Saving
    BY <1>3, CallShape DEF UpdateAccountRow, Doing
  <2>2. accounts[call[c].id] # None => [accounts[call[c].id] EXCEPT !.secret = call[c].secret] \in Account
    BY <2>1 DEF TypeOK, Saving, Account
  <2>3. accounts' \in [AccountIds -> Account \cup {None}]
    BY <1>3, <2>1, <2>2 DEF TypeOK, UpdateAccountRow, Saving
  <2> QED
    BY <1>3, <2>3 DEF TypeOK, UpdateAccountRow, Leave
<1>4. ASSUME NEW u \in UserIds, NEW p \in Providers, NEW s \in Secrets, UpdateAccountPassword(u, p, s)
      PROVE TypeOK'
  <2>1. \A a \in AccountsOf(u) : [accounts[a] EXCEPT !.secret = s] \in Account
    BY DEF TypeOK, AccountsOf, Account
  <2>2. accounts' \in [AccountIds -> Account \cup {None}]
    BY <1>4, <2>1 DEF TypeOK, UpdateAccountPassword
  <2> QED
    BY <1>4, <2>2 DEF TypeOK, UpdateAccountPassword
<1>5. ASSUME NEW a \in AccountIds, DeleteAccount(a) PROVE TypeOK'
  BY <1>5 DEF TypeOK, DeleteAccount
<1> QED
  BY <1>1, <1>2, <1>3, <1>4, <1>5

LEMMA SessionStatementsType ==
    ASSUME TypeOK,
           \/ \E t \in Tokens, row \in Session : CreateSession(t, row)
           \/ \E c \in Callers, t \in Tokens, s \in Stamps : UpdateSession(c, t, s)
           \/ \E c \in Callers : UpdateSessionRow(c)
           \/ \E t \in Tokens : DeleteSession(t)
           \/ \E u \in UserIds, t \in Tokens \cup {None} : DeleteSessionsByUserID(u, t)
    PROVE  TypeOK'
<1>1. ASSUME NEW t \in Tokens, NEW row \in Session, CreateSession(t, row) PROVE TypeOK'
  <2>1. row.user \in UserIds
    BY DEF Session
  <2> QED
    BY <1>1, <2>1, InsertedShape DEF TypeOK, CreateSession
<1>2. ASSUME NEW c \in Callers, NEW t \in Tokens, NEW s \in Stamps, UpdateSession(c, t, s) PROVE TypeOK'
  <2>1. sessions[t] # None => [sessions[t] EXCEPT !.stamp = s] \in Session
    BY DEF TypeOK, Session
  <2> QED
    BY <1>2, <2>1 DEF TypeOK, UpdateSession, Enter, tables, Renewing
<1>3. ASSUME NEW c \in Callers, UpdateSessionRow(c) PROVE TypeOK'
  <2>1. call[c] \in Renewing
    BY <1>3, CallShape DEF UpdateSessionRow, Doing
  <2> QED
    BY <1>3, <2>1 DEF TypeOK, UpdateSessionRow, Leave, Renewing
<1>4. ASSUME NEW t \in Tokens, DeleteSession(t) PROVE TypeOK'
  BY <1>4 DEF TypeOK, DeleteSession
<1>5. ASSUME NEW u \in UserIds, NEW t \in Tokens \cup {None}, DeleteSessionsByUserID(u, t) PROVE TypeOK'
  BY <1>5 DEF TypeOK, DeleteSessionsByUserID, Without
<1> QED
  BY <1>1, <1>2, <1>3, <1>4, <1>5

LEMMA VerificationStatementsType ==
    ASSUME TypeOK,
           \/ \E c \in Callers, i \in Identifiers, v \in Values : CreateVerification(c, i, v)
           \/ \E c \in Callers : InsertVerification(c)
           \/ \E i \in Identifiers : DeleteVerificationByIdentifier(i)
    PROVE  TypeOK'
<1>1. ASSUME NEW c \in Callers, NEW i \in Identifiers, NEW v \in Values, CreateVerification(c, i, v)
      PROVE  TypeOK'
  BY <1>1 DEF TypeOK, CreateVerification, Enter, Placing
<1>2. ASSUME NEW c \in Callers, InsertVerification(c) PROVE TypeOK'
  <2>1. call[c] \in Placing
    BY <1>2, CallShape DEF InsertVerification, Doing
  <2>2. \A d \in Callers : Doing(d, "insertVerification") => [call[d] EXCEPT !.old = None] \in Placing
    BY CallShape DEF Doing, Placing
  <2>3. call' \in [Callers -> Writing \cup Taking \cup Saving \cup Renewing \cup Placing \cup {None}]
    BY <1>2, <2>2 DEF TypeOK, InsertVerification, Leave
  <2> QED
    BY <1>2, <2>1, <2>3 DEF TypeOK, InsertVerification, Placing
<1>3. ASSUME NEW i \in Identifiers, DeleteVerificationByIdentifier(i) PROVE TypeOK'
  BY <1>3 DEF TypeOK, DeleteVerificationByIdentifier
<1> QED
  BY <1>1, <1>2, <1>3

-----------------------------------------------------------------------------
(* Every step keeps the invariant: one lemma for each call or statement,   *)
(* one step in it for each part of the invariant.                          *)
LEMMA CreateUserKeeps ==
    ASSUME IInv, NEW c \in Callers, NEW u \in UserIds, NEW e \in Emails, CreateUser(c, u, e), TypeOK'
    PROVE  IInv'
<1> USE DEF IInv, TypeOK, tables, Doing, Begun, CreateUser, Enter
<1>1. EmailUnique'
  BY DEF EmailUnique
<1>2. InsertInv'
  BY NoneAssumption DEF InsertInv, FreshUser
<1>3. AccountsTaken'
  BY DEF TakenInv, AccountsTaken, TakenAccounts, Nothing
<1>4. SessionsTaken'
  BY DEF TakenInv, SessionsTaken, TakenSessions, Nothing
<1>5. VerificationsTaken'
  BY DEF TakenInv, VerificationsTaken, TakenVerifications
<1>6. EmptyInv'
  BY DEF EmptyInv, AccountsOf, SessionsOf
<1>7. RenewInv'
  BY DEF RenewInv
<1> QED
  BY <1>1, <1>2, <1>3, <1>4, <1>5, <1>6, <1>7 DEF TakenInv

LEMMA InsertUserKeeps ==
    ASSUME IInv, NEW c \in Callers, InsertUser(c), TypeOK'
    PROVE  IInv'
<1> USE DEF IInv, TypeOK, tables, Doing, Begun, InsertUser, Leave, EmailFree
<1>0. call[c] \in Writing
  BY CallShape
<1> USE <1>0
<1>a. /\ call'[c] = None
      /\ \A d \in Callers \ {c} : call'[d] = call[d]
      /\ \A d \in Callers \ {c} : call[d] # None /\ call[d].user \in UserIds
                                 => users'[call[d].user] = users[call[d].user]
  BY DEF InsertInv, Writing
<1>1. EmailUnique'
  BY DEF EmailUnique
<1>2. InsertInv'
  <2>1. \A d \in Callers : Doing(d, "insertUser") => call[d].user \in UserIds
    BY CallShape DEF Writing
  <2> QED
    BY <1>a, <2>1 DEF InsertInv
<1>3. AccountsTaken'
  <2>0. \A d \in Callers : Begun(d) => call[d].user \in UserIds
    BY CallShape DEF Taking
  <2>1. \A d \in Callers : TakenAccounts(d)' = TakenAccounts(d) \/ TakenAccounts(d)' = Nothing(accounts)
    BY <1>a, <2>0 DEF TakenAccounts, Nothing
  <2> QED
    BY <1>a, <2>1 DEF TakenInv, AccountsTaken, TakenAccounts, Nothing
<1>4. SessionsTaken'
  <2>0. \A d \in Callers : Begun(d) => call[d].user \in UserIds
    BY CallShape DEF Taking
  <2>1. \A d \in Callers : TakenSessions(d)' = TakenSessions(d) \/ TakenSessions(d)' = Nothing(sessions)
    BY <1>a, <2>0 DEF TakenSessions, Nothing
  <2> QED
    BY <1>a, <2>1 DEF TakenInv, SessionsTaken, TakenSessions, Nothing
<1>5. VerificationsTaken'
  BY DEF TakenInv, VerificationsTaken, TakenVerifications
<1>6. EmptyInv'
  BY DEF EmptyInv, AccountsOf, SessionsOf
<1>7. RenewInv'
  BY DEF RenewInv
<1> QED
  BY <1>1, <1>2, <1>3, <1>4, <1>5, <1>6, <1>7 DEF TakenInv

LEMMA UpdateUserKeeps ==
    ASSUME IInv, NEW c \in Callers, NEW u \in UserIds, NEW e \in Emails \cup {None},
           UpdateUser(c, u, e), TypeOK'
    PROVE  IInv'
<1> USE DEF IInv, TypeOK, tables, Doing, Begun, UpdateUser, Enter
<1>1. EmailUnique'
  BY DEF EmailUnique
<1>2. InsertInv'
  BY NoneAssumption DEF InsertInv
<1>3. AccountsTaken'
  BY DEF TakenInv, AccountsTaken, TakenAccounts, Nothing
<1>4. SessionsTaken'
  BY DEF TakenInv, SessionsTaken, TakenSessions, Nothing
<1>5. VerificationsTaken'
  BY DEF TakenInv, VerificationsTaken, TakenVerifications
<1>6. EmptyInv'
  BY DEF EmptyInv, AccountsOf, SessionsOf
<1>7. RenewInv'
  BY DEF RenewInv
<1> QED
  BY <1>1, <1>2, <1>3, <1>4, <1>5, <1>6, <1>7 DEF TakenInv

LEMMA UpdateUserRowKeeps ==
    ASSUME IInv, NEW c \in Callers, UpdateUserRow(c), TypeOK'
    PROVE  IInv'
<1> USE DEF IInv, TypeOK, tables, Doing, Begun, UpdateUserRow, Leave, EmailFree
<1>0. call[c] \in Writing
  BY CallShape
<1> USE <1>0
<1>a. /\ call'[c] = None /\ \A d \in Callers \ {c} : call'[d] = call[d]
      /\ \A u \in UserIds : users'[u] # None <=> users[u] # None
  BY NoneAssumption DEF Writing
<1>1. EmailUnique'
  BY DEF EmailUnique
<1>2. InsertInv'
  <2>1. \A d \in Callers : Doing(d, "insertUser") => call[d].user \in UserIds
    BY CallShape DEF Writing
  <2> QED
    BY <1>a, <2>1 DEF InsertInv
<1>3. AccountsTaken'
  <2>1. \A d \in Callers : Begun(d) => call[d].user \in UserIds
    BY CallShape DEF Taking
  <2>2. \A d \in Callers : TakenAccounts(d)' = TakenAccounts(d) \/ TakenAccounts(d)' = Nothing(accounts)
    BY <1>a, <2>1 DEF TakenAccounts, Nothing
  <2> QED
    BY <1>a, <2>2 DEF TakenInv, AccountsTaken, TakenAccounts, Nothing
<1>4. SessionsTaken'
  <2>1. \A d \in Callers : Begun(d) => call[d].user \in UserIds
    BY CallShape DEF Taking
  <2>2. \A d \in Callers : TakenSessions(d)' = TakenSessions(d) \/ TakenSessions(d)' = Nothing(sessions)
    BY <1>a, <2>1 DEF TakenSessions, Nothing
  <2> QED
    BY <1>a, <2>2 DEF TakenInv, SessionsTaken, TakenSessions, Nothing
<1>5. VerificationsTaken'
  BY DEF TakenInv, VerificationsTaken, TakenVerifications
<1>6. EmptyInv'
  BY DEF EmptyInv, AccountsOf, SessionsOf
<1>7. RenewInv'
  BY DEF RenewInv
<1> QED
  BY <1>1, <1>2, <1>3, <1>4, <1>5, <1>6, <1>7 DEF TakenInv

LEMMA DeleteUserKeeps ==
    ASSUME IInv, NEW c \in Callers, NEW u \in UserIds, DeleteUser(c, u), TypeOK'
    PROVE  IInv'
<1> USE DEF IInv, TypeOK, tables, Doing, Begun, DeleteUser, Enter
<1>1. EmailUnique'
  BY DEF EmailUnique
<1>2. InsertInv'
  BY NoneAssumption DEF InsertInv
<1>3. AccountsTaken'
  BY DEF TakenInv, AccountsTaken, TakenAccounts, Nothing, Only, Without, AccountsOf
<1>4. SessionsTaken'
  BY DEF TakenInv, SessionsTaken, TakenSessions, Nothing, Only, Without, SessionsOf
<1>5. VerificationsTaken'
  BY DEF TakenInv, VerificationsTaken, TakenVerifications
<1>6. EmptyInv'
  BY DEF EmptyInv, AccountsOf, SessionsOf, Without
<1>7. RenewInv'
  BY DEF RenewInv
<1> QED
  BY <1>1, <1>2, <1>3, <1>4, <1>5, <1>6, <1>7 DEF TakenInv

LEMMA DeleteSessionsOfKeeps ==
    ASSUME IInv, NEW c \in Callers, DeleteSessionsOf(c), TypeOK'
    PROVE  IInv'
<1> USE DEF IInv, TypeOK, tables, Doing, Begun, DeleteSessionsOf
<1>0. call[c] \in Taking
  BY CallShape
<1> USE <1>0
<1>1. EmailUnique'
  BY DEF EmailUnique
<1>2. InsertInv'
  BY NoneAssumption DEF InsertInv
<1>3. AccountsTaken'
  BY DEF TakenInv, AccountsTaken, TakenAccounts, Nothing, Only, Without, AccountsOf
<1>4. SessionsTaken'
  BY DEF TakenInv, SessionsTaken, TakenSessions, Nothing, Only, Without, SessionsOf
<1>5. VerificationsTaken'
  BY DEF TakenInv, VerificationsTaken, TakenVerifications
<1>6. EmptyInv'
  BY DEF EmptyInv, AccountsOf, SessionsOf, Without
<1>7. RenewInv'
  <2>1. \A d \in Callers : Doing(d, "updateSessionRow")' => call'[d] = call[d] /\ call[d] \in Renewing
    BY CallShape
  <2> QED
    BY <2>1 DEF RenewInv, Without, Renewing
<1> QED
  BY <1>1, <1>2, <1>3, <1>4, <1>5, <1>6, <1>7 DEF TakenInv

LEMMA DeleteUserRowKeeps ==
    ASSUME IInv, NEW c \in Callers, DeleteUserRow(c), TypeOK'
    PROVE  IInv'
<1> USE DEF IInv, TypeOK, tables, Doing, Begun, DeleteUserRow, Leave
<1>0. call[c] \in Taking
  BY CallShape
<1> USE <1>0
<1>1. EmailUnique'
  BY DEF EmailUnique
<1>2. InsertInv'
  BY NoneAssumption DEF InsertInv
<1>3. AccountsTaken'
  BY DEF TakenInv, AccountsTaken, TakenAccounts, Nothing
<1>4. SessionsTaken'
  BY DEF TakenInv, SessionsTaken, TakenSessions, Nothing
<1>5. VerificationsTaken'
  BY DEF TakenInv, VerificationsTaken, TakenVerifications
<1>6. EmptyInv'
  BY DEF EmptyInv, AccountsOf, SessionsOf
<1>7. RenewInv'
  BY DEF RenewInv
<1> QED
  BY <1>1, <1>2, <1>3, <1>4, <1>5, <1>6, <1>7 DEF TakenInv

LEMMA CreateAccountKeeps ==
    ASSUME IInv, NEW a \in AccountIds, NEW row \in Account, CreateAccount(a, row), TypeOK'
    PROVE  IInv'
<1> USE DEF IInv, TypeOK, tables, Doing, Begun, CreateAccount
<1>0. row.user \in UserIds
  BY DEF Account, Session
<1> USE <1>0, InsertedShape DEF Deleting
<1>1. EmailUnique'
  BY DEF EmailUnique
<1>2. InsertInv'
  BY NoneAssumption DEF InsertInv
<1>3. AccountsTaken'
  <2>1. accounts[a] = None /\ \A d \in Callers : TakenAccounts(d)[a] = None
    BY DEF shownAccounts, Shown, FreshAccount, AccountsTaken, TakenInv, Nothing
  <2>2. \A d \in Callers : TakenAccounts(d)' = TakenAccounts(d) /\ (Begun(d) => call'[d].user = call[d].user)
    BY InsertedTakes
  <2> QED
    BY <2>1, <2>2 DEF TakenInv, AccountsTaken, TakenAccounts, Nothing
<1>4. SessionsTaken'
  BY DEF TakenInv, SessionsTaken, TakenSessions, Nothing
<1>5. VerificationsTaken'
  BY DEF TakenInv, VerificationsTaken, TakenVerifications
<1>6. EmptyInv'
  BY DEF EmptyInv, AccountsOf, SessionsOf
<1>7. RenewInv'
  BY DEF RenewInv
<1> QED
  BY <1>1, <1>2, <1>3, <1>4, <1>5, <1>6, <1>7 DEF TakenInv

LEMMA UpdateAccountKeeps ==
    ASSUME IInv, NEW c \in Callers, NEW a \in AccountIds, NEW s \in Secrets, UpdateAccount(c, a, s), TypeOK'
    PROVE  IInv'
<1> USE DEF IInv, TypeOK, tables, Doing, Begun, UpdateAccount, Enter
<1>1. EmailUnique'
  BY DEF EmailUnique
<1>2. InsertInv'
  <2>1. \A d \in Callers : Doing(d, "insertUser") => call[d].user \in UserIds
    BY CallShape DEF Writing
  <2>2. call' = call \/ (/\ call'[c].op # "insertUser" /\ call'[c].user = None
                         /\ \A d \in Callers \ {c} : call'[d] = call[d])
    OBVIOUS
  <2> QED
    BY <2>1, <2>2, NoneAssumption DEF InsertInv
<1>3. AccountsTaken'
  <2>1. call' = call \/ (call'[c].op = "updateAccountRow" /\ \A d \in Callers \ {c} : call'[d] = call[d])
    OBVIOUS
  <2>2. \A d \in Callers : TakenAccounts(d)' = TakenAccounts(d) \/ TakenAccounts(d)' = Nothing(accounts)
    BY <2>1 DEF TakenAccounts, Nothing
  <2> QED
    BY <2>1, <2>2 DEF TakenInv, AccountsTaken, TakenAccounts, Nothing
<1>4. SessionsTaken'
  BY DEF TakenInv, SessionsTaken, TakenSessions, Nothing
<1>5. VerificationsTaken'
  BY DEF TakenInv, VerificationsTaken, TakenVerifications
<1>6. EmptyInv'
  BY DEF EmptyInv, AccountsOf, SessionsOf
<1>7. RenewInv'
  BY DEF RenewInv
<1> QED
  BY <1>1, <1>2, <1>3, <1>4, <1>5, <1>6, <1>7 DEF TakenInv

LEMMA UpdateAccountRowKeeps ==
    ASSUME IInv, NEW c \in Callers, UpdateAccountRow(c), TypeOK'
    PROVE  IInv'
<1> USE DEF IInv, TypeOK, tables, Doing, Begun, UpdateAccountRow, Leave
<1>0. call[c] \in Saving
  BY CallShape
<1> USE <1>0
<1>1. EmailUnique'
  BY DEF EmailUnique
<1>2. InsertInv'
  BY NoneAssumption DEF InsertInv
<1>3. AccountsTaken'
  BY DEF TakenInv, AccountsTaken, TakenAccounts, Nothing
<1>4. SessionsTaken'
  BY DEF TakenInv, SessionsTaken, TakenSessions, Nothing
<1>5. VerificationsTaken'
  BY DEF TakenInv, VerificationsTaken, TakenVerifications
<1>6. EmptyInv'
  <2>1. call'[c] = None /\ \A d \in Callers \ {c} : call'[d] = call[d]
    OBVIOUS
  <2>2. \A b \in AccountIds : accounts'[b] # None => accounts[b] # None /\ accounts'[b].user = accounts[b].user
    BY DEF Saving, Account
  <2> QED
    BY <2>1, <2>2 DEF EmptyInv, AccountsOf, SessionsOf
<1>7. RenewInv'
  BY DEF RenewInv
<1> QED
  BY <1>1, <1>2, <1>3, <1>4, <1>5, <1>6, <1>7 DEF TakenInv

LEMMA UpdateAccountPasswordKeeps ==
    ASSUME IInv, NEW u \in UserIds, NEW p \in Providers, NEW s \in Secrets,
           UpdateAccountPassword(u, p, s), TypeOK'
    PROVE  IInv'
<1> USE DEF IInv, TypeOK, tables, Doing, Begun, UpdateAccountPassword
<1>1. EmailUnique'
  BY DEF EmailUnique
<1>2. InsertInv'
  BY NoneAssumption DEF InsertInv
<1>3. AccountsTaken'
  BY DEF TakenInv, AccountsTaken, TakenAccounts, Nothing, AccountsOf
<1>4. SessionsTaken'
  BY DEF TakenInv, SessionsTaken, TakenSessions, Nothing
<1>5. VerificationsTaken'
  BY DEF TakenInv, VerificationsTaken, TakenVerifications
<1>6. EmptyInv'
  BY DEF EmptyInv, AccountsOf, SessionsOf
<1>7. RenewInv'
  BY DEF RenewInv
<1> QED
  BY <1>1, <1>2, <1>3, <1>4, <1>5, <1>6, <1>7 DEF TakenInv

LEMMA DeleteAccountKeeps ==
    ASSUME IInv, NEW a \in AccountIds, DeleteAccount(a), TypeOK'
    PROVE  IInv'
<1> USE DEF IInv, TypeOK, tables, Doing, Begun, DeleteAccount
<1>1. EmailUnique'
  BY DEF EmailUnique
<1>2. InsertInv'
  BY NoneAssumption DEF InsertInv
<1>3. AccountsTaken'
  <2>1. \A d \in Callers : TakenAccounts(d)' = TakenAccounts(d)
    BY DEF TakenAccounts, Nothing
  <2> QED
    BY <2>1 DEF TakenInv, AccountsTaken
<1>4. SessionsTaken'
  BY DEF TakenInv, SessionsTaken, TakenSessions, Nothing
<1>5. VerificationsTaken'
  BY DEF TakenInv, VerificationsTaken, TakenVerifications
<1>6. EmptyInv'
  BY DEF EmptyInv, AccountsOf, SessionsOf
<1>7. RenewInv'
  BY DEF RenewInv
<1> QED
  BY <1>1, <1>2, <1>3, <1>4, <1>5, <1>6, <1>7 DEF TakenInv

LEMMA CreateSessionKeeps ==
    ASSUME IInv, NEW t \in Tokens, NEW row \in Session, CreateSession(t, row), TypeOK'
    PROVE  IInv'
<1> USE DEF IInv, TypeOK, tables, Doing, Begun, CreateSession
<1>0. row.user \in UserIds
  BY DEF Account, Session
<1> USE <1>0, InsertedShape DEF Deleting
<1>1. EmailUnique'
  BY DEF EmailUnique
<1>2. InsertInv'
  BY NoneAssumption DEF InsertInv
<1>3. AccountsTaken'
  BY DEF TakenInv, AccountsTaken, TakenAccounts, Nothing
<1>4. SessionsTaken'
  <2>1. sessions[t] = None /\ \A d \in Callers : TakenSessions(d)[t] = None
    BY DEF shownSessions, Shown, FreshToken, SessionsTaken, TakenInv, Nothing
  <2>2. \A d \in Callers : TakenSessions(d)' = TakenSessions(d) /\ (Begun(d) => call'[d].user = call[d].user)
    BY InsertedTakes
  <2> QED
    BY <2>1, <2>2 DEF TakenInv, SessionsTaken, TakenSessions, Nothing
<1>5. VerificationsTaken'
  BY DEF TakenInv, VerificationsTaken, TakenVerifications
<1>6. EmptyInv'
  BY DEF EmptyInv, AccountsOf, SessionsOf
<1>7. RenewInv'
  BY DEF RenewInv, FreshToken
<1> QED
  BY <1>1, <1>2, <1>3, <1>4, <1>5, <1>6, <1>7 DEF TakenInv

LEMMA UpdateSessionKeeps ==
    ASSUME IInv, NEW c \in Callers, NEW t \in Tokens, NEW s \in Stamps, UpdateSession(c, t, s), TypeOK'
    PROVE  IInv'
<1> USE DEF IInv, TypeOK, tables, Doing, Begun, UpdateSession, Enter
<1>1. EmailUnique'
  BY DEF EmailUnique
<1>2. InsertInv'
  <2>1. \A d \in Callers : Doing(d, "insertUser") => call[d].user \in UserIds
    BY CallShape DEF Writing
  <2>2. call' = call \/ (/\ call'[c].op # "insertUser" /\ call'[c].user = None
                         /\ \A d \in Callers \ {c} : call'[d] = call[d])
    OBVIOUS
  <2> QED
    BY <2>1, <2>2, NoneAssumption DEF InsertInv
<1>3. AccountsTaken'
  BY DEF TakenInv, AccountsTaken, TakenAccounts, Nothing
<1>4. SessionsTaken'
  <2>1. call' = call \/ (call'[c].op = "updateSessionRow" /\ \A d \in Callers \ {c} : call'[d] = call[d])
    OBVIOUS
  <2>2. \A d \in Callers : TakenSessions(d)' = TakenSessions(d) \/ TakenSessions(d)' = Nothing(sessions)
    BY <2>1 DEF TakenSessions, Nothing
  <2> QED
    BY <2>1, <2>2 DEF TakenInv, SessionsTaken, TakenSessions, Nothing
<1>5. VerificationsTaken'
  BY DEF TakenInv, VerificationsTaken, TakenVerifications
<1>6. EmptyInv'
  BY DEF EmptyInv, AccountsOf, SessionsOf
<1>7. RenewInv'
  <2>1. call' = call \/ (/\ sessions[t] \in Session /\ call'[c].id = t
                         /\ call'[c].row = [sessions[t] EXCEPT !.stamp = s]
                         /\ \A d \in Callers \ {c} : call'[d] = call[d])
    OBVIOUS
  <2> QED
    BY <2>1 DEF RenewInv, Session
<1> QED
  BY <1>1, <1>2, <1>3, <1>4, <1>5, <1>6, <1>7 DEF TakenInv

LEMMA UpdateSessionRowKeeps ==
    ASSUME IInv, NEW c \in Callers, UpdateSessionRow(c), TypeOK'
    PROVE  IInv'
<1> USE DEF IInv, TypeOK, tables, Doing, Begun, UpdateSessionRow, Leave
<1>0. call[c] \in Renewing
  BY CallShape
<1> USE <1>0
<1>1. EmailUnique'
  BY DEF EmailUnique
<1>2. InsertInv'
  BY NoneAssumption DEF InsertInv
<1>3. AccountsTaken'
  BY DEF TakenInv, AccountsTaken, TakenAccounts, Nothing
<1>4. SessionsTaken'
  BY DEF TakenInv, SessionsTaken, TakenSessions, Nothing
<1>5. VerificationsTaken'
  BY DEF TakenInv, VerificationsTaken, TakenVerifications
<1>6. EmptyInv'
  <2>1. call'[c] = None /\ \A d \in Callers \ {c} : call'[d] = call[d]
    OBVIOUS
  <2>2. \A k \in Tokens : sessions'[k] # None => sessions[k] # None /\ sessions'[k].user = sessions[k].user
    BY DEF Renewing, RenewInv
  <2> QED
    BY <2>1, <2>2 DEF EmptyInv, AccountsOf, SessionsOf
<1>7. RenewInv'
  <2>1. call'[c] = None /\ \A d \in Callers \ {c} : call'[d] = call[d]
    OBVIOUS
  <2>2. \A k \in Tokens : sessions'[k] # None => sessions[k] # None /\ sessions'[k].user = sessions[k].user
    BY DEF Renewing, RenewInv
  <2>3. \A d \in Callers : Doing(d, "updateSessionRow") => call[d].id \in Tokens
    BY CallShape DEF Renewing
  <2> QED
    BY <2>1, <2>2, <2>3 DEF RenewInv
<1> QED
  BY <1>1, <1>2, <1>3, <1>4, <1>5, <1>6, <1>7 DEF TakenInv

LEMMA DeleteSessionKeeps ==
    ASSUME IInv, NEW t \in Tokens, DeleteSession(t), TypeOK'
    PROVE  IInv'
<1> USE DEF IInv, TypeOK, tables, Doing, Begun, DeleteSession
<1>1. EmailUnique'
  BY DEF EmailUnique
<1>2. InsertInv'
  BY NoneAssumption DEF InsertInv
<1>3. AccountsTaken'
  BY DEF TakenInv, AccountsTaken, TakenAccounts, Nothing
<1>4. SessionsTaken'
  <2>1. \A d \in Callers : TakenSessions(d)' = TakenSessions(d)
    BY DEF TakenSessions, Nothing
  <2> QED
    BY <2>1 DEF TakenInv, SessionsTaken
<1>5. VerificationsTaken'
  BY DEF TakenInv, VerificationsTaken, TakenVerifications
<1>6. EmptyInv'
  BY DEF EmptyInv, AccountsOf, SessionsOf
<1>7. RenewInv'
  BY DEF RenewInv
<1> QED
  BY <1>1, <1>2, <1>3, <1>4, <1>5, <1>6, <1>7 DEF TakenInv

LEMMA DeleteSessionsByUserIDKeeps ==
    ASSUME IInv, NEW u \in UserIds, NEW t \in Tokens \cup {None}, DeleteSessionsByUserID(u, t), TypeOK'
    PROVE  IInv'
<1> USE DEF IInv, TypeOK, tables, Doing, Begun, DeleteSessionsByUserID, Without
<1>1. EmailUnique'
  BY DEF EmailUnique
<1>2. InsertInv'
  BY NoneAssumption DEF InsertInv
<1>3. AccountsTaken'
  BY DEF TakenInv, AccountsTaken, TakenAccounts, Nothing, Only, Without, AccountsOf
<1>4. SessionsTaken'
  BY DEF TakenInv, SessionsTaken, TakenSessions, Nothing, Only, Without, SessionsOf
<1>5. VerificationsTaken'
  BY DEF TakenInv, VerificationsTaken, TakenVerifications
<1>6. EmptyInv'
  BY DEF EmptyInv, AccountsOf, SessionsOf, Without
<1>7. RenewInv'
  <2>1. \A d \in Callers : Doing(d, "updateSessionRow") => call[d].id \in Tokens
    BY CallShape DEF Renewing
  <2> QED
    BY <2>1 DEF RenewInv, SessionsOf
<1> QED
  BY <1>1, <1>2, <1>3, <1>4, <1>5, <1>6, <1>7 DEF TakenInv

LEMMA CreateVerificationKeeps ==
    ASSUME IInv, NEW c \in Callers, NEW i \in Identifiers, NEW v \in Values,
           CreateVerification(c, i, v), TypeOK'
    PROVE  IInv'
<1> USE DEF IInv, TypeOK, tables, Doing, Begun, CreateVerification, Enter
<1>1. EmailUnique'
  BY DEF EmailUnique
<1>2. InsertInv'
  <2>1. \A d \in Callers : Doing(d, "insertUser") => call[d].user \in UserIds
    BY CallShape DEF Writing
  <2>2. call' = call \/ (/\ call'[c].op # "insertUser" /\ call'[c].user = None
                         /\ \A d \in Callers \ {c} : call'[d] = call[d])
    OBVIOUS
  <2> QED
    BY <2>1, <2>2, NoneAssumption DEF InsertInv
<1>3. AccountsTaken'
  BY DEF TakenInv, AccountsTaken, TakenAccounts, Nothing
<1>4. SessionsTaken'
  BY DEF TakenInv, SessionsTaken, TakenSessions, Nothing
<1>5. VerificationsTaken'
  BY DEF TakenInv, VerificationsTaken, TakenVerifications
<1>6. EmptyInv'
  BY DEF EmptyInv, AccountsOf, SessionsOf
<1>7. RenewInv'
  BY DEF RenewInv
<1> QED
  BY <1>1, <1>2, <1>3, <1>4, <1>5, <1>6, <1>7 DEF TakenInv

LEMMA InsertVerificationKeeps ==
    ASSUME IInv, NEW c \in Callers, InsertVerification(c), TypeOK'
    PROVE  IInv'
<1> USE DEF IInv, TypeOK, tables, Doing, Begun, InsertVerification, Leave
<1>0. call[c] \in Placing
  BY CallShape
<1> USE <1>0
<1>a. \A d \in Callers : Doing(d, "insertVerification") => call[d] \in Placing
  BY CallShape
<1>b. \A d \in Callers : \/ call'[d] = call[d] \/ call'[d] = None
                         \/ /\ call[d] \in Placing /\ call'[d] \in Placing /\ call'[d].id = call[d].id
                            /\ call'[d].op = "insertVerification" /\ call'[d].old = None
  BY <1>a DEF Placing
<1>c. UNCHANGED <<users, accounts, sessions>>
  OBVIOUS
<1> HIDE DEF InsertVerification
<1>1. EmailUnique'
  BY <1>c DEF EmailUnique
<1>2. InsertInv'
  <2>1. \A d \in Callers : Doing(d, "insertUser") => call[d].user \in UserIds
    BY CallShape DEF Writing
  <2> QED
    BY <1>b, <1>c, <2>1, NoneAssumption DEF InsertInv, Placing
<1>3. AccountsTaken'
  <2>1. \A d \in Callers : TakenAccounts(d)' = TakenAccounts(d) \/ TakenAccounts(d)' = Nothing(accounts)
    BY <1>b, <1>c DEF TakenAccounts, Nothing, Placing
  <2> QED
    BY <1>b, <1>c, <2>1 DEF TakenInv, AccountsTaken, TakenAccounts, Nothing, Placing
<1>4. SessionsTaken'
  <2>1. \A d \in Callers : TakenSessions(d)' = TakenSessions(d) \/ TakenSessions(d)' = Nothing(sessions)
    BY <1>b, <1>c DEF TakenSessions, Nothing, Placing
  <2> QED
    BY <1>b, <1>c, <2>1 DEF TakenInv, SessionsTaken, TakenSessions, Nothing, Placing
<1>5. VerificationsTaken'
  <2>1. \A d \in Callers, i \in Identifiers :
            TakenVerifications(d)'[i] # None => TakenVerifications(d)'[i] = TakenVerifications(d)[i]
    BY <1>b DEF TakenVerifications, Placing
  <2>2. ASSUME NEW i \in Identifiers, verifications[i] = None, verifications'[i] # None, NEW d \in Callers
        PROVE  TakenVerifications(d)'[i] = None
    <3>1. /\ i = call[c].id
          /\ call' = [e \in Callers |-> IF e = c THEN None
                                        ELSE IF Doing(e, "insertVerification") /\ call[e].id = call[c].id
                                             THEN [call[e] EXCEPT !.old = None] ELSE call[e]]
      BY <2>2 DEF InsertVerification
    <3>2. Doing(d, "insertVerification") /\ call[d].id = i /\ d # c => call'[d].old = None
      BY <1>a, <3>1 DEF Placing
    <3> QED
      BY <3>1, <3>2 DEF TakenVerifications
  <2> QED
    BY <2>1, <2>2 DEF TakenInv, VerificationsTaken
<1>6. EmptyInv'
  BY <1>b, <1>c DEF EmptyInv, AccountsOf, SessionsOf
<1>7. RenewInv'
  BY <1>b, <1>c DEF RenewInv
<1> QED
  BY <1>1, <1>2, <1>3, <1>4, <1>5, <1>6, <1>7 DEF TakenInv

LEMMA DeleteVerificationByIdentifierKeeps ==
    ASSUME IInv, NEW i \in Identifiers, DeleteVerificationByIdentifier(i), TypeOK'
    PROVE  IInv'
<1> USE DEF IInv, TypeOK, tables, Doing, Begun, DeleteVerificationByIdentifier
<1>1. EmailUnique'
  BY DEF EmailUnique
<1>2. InsertInv'
  BY NoneAssumption DEF InsertInv
<1>3. AccountsTaken'
  BY DEF TakenInv, AccountsTaken, TakenAccounts, Nothing
<1>4. SessionsTaken'
  BY DEF TakenInv, SessionsTaken, TakenSessions, Nothing
<1>5. VerificationsTaken'
  BY DEF TakenInv, VerificationsTaken, TakenVerifications
<1>6. EmptyInv'
  BY DEF EmptyInv, AccountsOf, SessionsOf
<1>7. RenewInv'
  BY DEF RenewInv
<1> QED
  BY <1>1, <1>2, <1>3, <1>4, <1>5, <1>6, <1>7 DEF TakenInv

LEMMA FailKeeps ==
    ASSUME IInv, NEW c \in Callers, Fail(c), TypeOK'
    PROVE  IInv'
<1> USE DEF IInv, TypeOK, tables, Doing, Begun, Fail, Leave
<1>1. EmailUnique'
  BY DEF EmailUnique
<1>2. InsertInv'
  BY NoneAssumption DEF InsertInv
<1>3. AccountsTaken'
  BY DEF TakenInv, AccountsTaken, TakenAccounts, Nothing
<1>4. SessionsTaken'
  BY DEF TakenInv, SessionsTaken, TakenSessions, Nothing
<1>5. VerificationsTaken'
  BY DEF TakenInv, VerificationsTaken, TakenVerifications
<1>6. EmptyInv'
  BY DEF EmptyInv, AccountsOf, SessionsOf
<1>7. RenewInv'
  BY DEF RenewInv
<1> QED
  BY <1>1, <1>2, <1>3, <1>4, <1>5, <1>6, <1>7 DEF TakenInv

LEMMA NextType == IInv /\ [Next]_vars => TypeOK'
<1> SUFFICES ASSUME IInv, [Next]_vars PROVE TypeOK'
  OBVIOUS
<1>1. CASE Single
  BY <1>1, AccountStatementsType, SessionStatementsType, VerificationStatementsType
     DEF Single, IInv, DeleteAllSessionsByUserID
<1>2. ASSUME NEW c \in Callers, Call(c) PROVE TypeOK'
  BY <1>2, UserStatementsType, DeleteUserType, AccountStatementsType, SessionStatementsType,
     VerificationStatementsType DEF Call, IInv
<1>3. ASSUME NEW c \in Callers, Statement(c) PROVE TypeOK'
  BY <1>3, UserStatementsType, DeleteUserType, AccountStatementsType, SessionStatementsType,
     VerificationStatementsType DEF Statement, IInv
<1>4. CASE UNCHANGED vars
  BY <1>4 DEF vars, tables, IInv, TypeOK
<1> QED
  BY <1>1, <1>2, <1>3, <1>4 DEF Next

LEMMA NextIInv == IInv /\ [Next]_vars => IInv'
<1> SUFFICES ASSUME IInv, [Next]_vars PROVE IInv'
  OBVIOUS
<1> USE NextType
<1>1. CASE Single
  BY <1>1, CreateAccountKeeps, DeleteAccountKeeps, UpdateAccountPasswordKeeps, CreateSessionKeeps,
     DeleteSessionKeeps, DeleteSessionsByUserIDKeeps, DeleteVerificationByIdentifierKeeps
     DEF Single, DeleteAllSessionsByUserID
<1>2. ASSUME NEW c \in Callers, Call(c) PROVE IInv'
  BY <1>2, CreateUserKeeps, UpdateUserKeeps, DeleteUserKeeps, UpdateAccountKeeps, UpdateSessionKeeps,
     CreateVerificationKeeps DEF Call
<1>3. ASSUME NEW c \in Callers, Statement(c) PROVE IInv'
  BY <1>3, InsertUserKeeps, UpdateUserRowKeeps, DeleteSessionsOfKeeps, DeleteUserRowKeeps,
     UpdateAccountRowKeeps, UpdateSessionRowKeeps, InsertVerificationKeeps, FailKeeps DEF Statement
<1>4. CASE UNCHANGED vars
  <2>1. UNCHANGED <<users, accounts, sessions, verifications, call>>
    BY <1>4 DEF vars, tables
  <2> QED
    BY <2>1 DEF IInv, TypeOK, EmailUnique, InsertInv, TakenInv, AccountsTaken, SessionsTaken,
       VerificationsTaken, EmptyInv, RenewInv, Doing, Begun, TakenAccounts, TakenSessions,
       TakenVerifications, Nothing, AccountsOf, SessionsOf
<1> QED
  BY <1>1, <1>2, <1>3, <1>4 DEF Next

LEMMA SpecIInv == Spec => []IInv
BY InitIInv, NextIInv, PTL DEF Spec

(* Whatever calls overlap and wherever one of them stops, rows have their  *)
(* form and no two users have one email.                                   *)
THEOREM RowsKeepForm == Spec => [](TypeOK /\ EmailUnique)
<1>1. IInv => TypeOK /\ EmailUnique
  BY DEF IInv
<1> QED
  BY <1>1, SpecIInv, PTL

-----------------------------------------------------------------------------
(* What the contract sees of a row: the row, or what a call has taken.     *)
AccountsSeen ==
    /\ shownAccounts \in [AccountIds -> Account \cup {None}]
    /\ \A a \in AccountIds :
          /\ accounts[a] # None => shownAccounts[a] = accounts[a]
          /\ \A c \in Callers : TakenAccounts(c)[a] # None => shownAccounts[a] = TakenAccounts(c)[a]
          /\ accounts[a] = None
                   /\ (\A c \in Callers : TakenAccounts(c)[a] = None) => shownAccounts[a] = None
SessionsSeen ==
    /\ shownSessions \in [Tokens -> Session \cup {None}]
    /\ \A t \in Tokens :
          /\ sessions[t] # None => shownSessions[t] = sessions[t]
          /\ \A c \in Callers : TakenSessions(c)[t] # None => shownSessions[t] = TakenSessions(c)[t]
          /\ sessions[t] = None
                   /\ (\A c \in Callers : TakenSessions(c)[t] = None) => shownSessions[t] = None
VerificationsSeen ==
    /\ shownVerifications \in [Identifiers -> Values \cup {None}]
    /\ \A i \in Identifiers :
          /\ verifications[i] # None => shownVerifications[i] = verifications[i]
          /\ \A c \in Callers : TakenVerifications(c)[i] # None
                   => shownVerifications[i] = TakenVerifications(c)[i]
          /\ verifications[i] = None /\ (\A c \in Callers : TakenVerifications(c)[i] = None)
                => shownVerifications[i] = None
Seen == AccountsSeen /\ SessionsSeen /\ VerificationsSeen

LEMMA IInvSeen == IInv => Seen
<1> SUFFICES ASSUME IInv PROVE Seen
  OBVIOUS
<1>1. \A c \in Callers : /\ TakenAccounts(c) \in [AccountIds -> Account \cup {None}]
                         /\ TakenSessions(c) \in [Tokens -> Session \cup {None}]
                         /\ TakenVerifications(c) \in [Identifiers -> Values \cup {None}]
  BY CallShape
     DEF IInv, TypeOK, TakenAccounts, TakenSessions, TakenVerifications, Begun, Doing, Nothing,
     Taking, Placing
<1>2. AccountsSeen
  BY <1>1 DEF IInv, TypeOK, TakenInv, AccountsTaken, AccountsSeen, shownAccounts, Shown
<1>3. SessionsSeen
  BY <1>1 DEF IInv, TypeOK, TakenInv, SessionsTaken, SessionsSeen, shownSessions, Shown
<1>4. VerificationsSeen
  BY <1>1
     DEF IInv, TypeOK, TakenInv, VerificationsTaken, VerificationsSeen, shownVerifications, Shown
<1> QED
  BY <1>2, <1>3, <1>4 DEF Seen
LEMMA IInvSeenNext == IInv' => Seen'
BY IInvSeen, PTL
(* What a deletion takes is a table of rows.                               *)
LEMMA TakenRows ==
    ASSUME TypeOK, NEW u \in UserIds
    PROVE  /\ Only(accounts, AccountsOf(u)) \in [AccountIds -> Account \cup {None}]
           /\ Only(sessions, SessionsOf(u)) \in [Tokens -> Session \cup {None}]
           /\ Nothing(sessions) \in [Tokens -> Session \cup {None}]
BY DEF TypeOK, Without, Only, Nothing

(* What is seen of a table changes only with the table or what is taken.   *)
LEMMA AccountsSame ==
    ASSUME Seen, Seen', UNCHANGED accounts,
           \A c \in Callers : TakenAccounts(c)' = TakenAccounts(c)
    PROVE  UNCHANGED shownAccounts
BY DEF Seen, AccountsSeen

LEMMA SessionsSame ==
    ASSUME Seen, Seen', UNCHANGED sessions,
           \A c \in Callers : TakenSessions(c)' = TakenSessions(c)
    PROVE  UNCHANGED shownSessions
BY DEF Seen, SessionsSeen

LEMMA VerificationsSame ==
    ASSUME Seen, Seen', UNCHANGED verifications,
           \A c \in Callers : TakenVerifications(c)' = TakenVerifications(c)
    PROVE  UNCHANGED shownVerifications
BY DEF Seen, VerificationsSeen

(* Each call or statement that excused does not name is a step of the      *)
(* contract on what is seen, or none: one lemma for each.                  *)
LEMMA InsertUserMeets ==
    ASSUME IInv, IInv', Seen, Seen', NEW c \in Callers, InsertUser(c), excused' = "no"
    PROVE  [Contract!Next]_(Contract!vars)
<1> USE DEF IInv, TypeOK, tables, Doing, Begun, Answer, Silent, InsertUser, Leave, EmailFree
<1>0. call[c] \in Writing
  BY CallShape
<1> USE <1>0
<1>a. \A d \in Callers : Begun(d) => call[d].user \in UserIds /\ d # c /\ call[d].user # call[c].user
  BY CallShape, NoneAssumption DEF Taking, Writing, InsertInv
<1>b. call'[c] = None /\ \A d \in Callers \ {c} : call'[d] = call[d]
  OBVIOUS
<1>c. \A d \in Callers : Begun(d) => users'[call[d].user] = users[call[d].user]
  BY <1>a DEF Writing
<1>1. shownAccounts' = shownAccounts
  <2>1. \A d \in Callers : TakenAccounts(d)' = TakenAccounts(d)
    BY <1>a, <1>b, <1>c DEF TakenAccounts, Nothing
  <2> QED
    BY <2>1, AccountsSame
<1>2. shownSessions' = shownSessions
  <2>1. \A d \in Callers : TakenSessions(d)' = TakenSessions(d)
    BY <1>a, <1>b, <1>c DEF TakenSessions, Nothing
  <2> QED
    BY <2>1, SessionsSame
<1>3. shownVerifications' = shownVerifications
  BY VerificationsSame DEF TakenVerifications
<1> QED
  <2>1. CASE ~EmailFree(call[c].user, call[c].email)
    BY <1>1, <1>2, <1>3, <2>1 DEF Contract!vars, Contract!tables, Contract!reach
  <2>2. CASE EmailFree(call[c].user, call[c].email)
    <3>1. Contract!CreateUser(call[c].user, call[c].email)
      BY <1>1, <1>2, <1>3, <2>2, NoneAssumption
         DEF InsertInv, Writing, Contract!CreateUser, Contract!reach
    <3> QED BY <3>1 DEF Writing, Contract!Next
  <2> QED BY <2>1, <2>2

LEMMA UpdateUserRowMeets ==
    ASSUME IInv, IInv', Seen, Seen', NEW c \in Callers, UpdateUserRow(c), excused' = "no"
    PROVE  [Contract!Next]_(Contract!vars)
<1> USE DEF IInv, TypeOK, tables, Doing, Begun, Answer, Silent, UpdateUserRow, Leave, EmailFree
<1>0. call[c] \in Writing
  BY CallShape
<1> USE <1>0
<1>a. \A d \in Callers : Begun(d) => call[d].user \in UserIds /\ d # c
  BY CallShape DEF Taking
<1>b. call'[c] = None /\ \A d \in Callers \ {c} : call'[d] = call[d]
  OBVIOUS
<1>c. \A d \in Callers : Begun(d) => (users'[call[d].user] = None <=> users[call[d].user] = None)
  BY <1>a, NoneAssumption DEF Writing
<1>1. shownAccounts' = shownAccounts
  <2>1. \A d \in Callers : TakenAccounts(d)' = TakenAccounts(d)
    BY <1>a, <1>b, <1>c DEF TakenAccounts, Nothing
  <2> QED
    BY <2>1, AccountsSame
<1>2. shownSessions' = shownSessions
  <2>1. \A d \in Callers : TakenSessions(d)' = TakenSessions(d)
    BY <1>a, <1>b, <1>c DEF TakenSessions, Nothing
  <2> QED
    BY <2>1, SessionsSame
<1>3. shownVerifications' = shownVerifications
  BY VerificationsSame DEF TakenVerifications
<1> QED
  <2>1. CASE ~EmailFree(call[c].user, call[c].email)
    BY <1>1, <1>2, <1>3, <2>1 DEF Contract!vars, Contract!tables, Contract!reach
  <2>2. CASE EmailFree(call[c].user, call[c].email)
    <3>1. {w \in UserIds : users[w] \in {users[call[c].user], call[c].email}} \subseteq {call[c].user}
      BY <2>2 DEF EmailUnique, Writing
    <3>2. Contract!UpdateUserEmail(call[c].user, call[c].email)
      BY <1>1, <1>2, <1>3, <2>2, <3>1 DEF Writing, Contract!UpdateUserEmail
    <3> QED BY <3>2 DEF Writing, Contract!Next
  <2> QED BY <2>1, <2>2

LEMMA DeleteUserMeets ==
    ASSUME IInv, IInv', Seen, Seen', NEW c \in Callers, NEW u \in UserIds, DeleteUser(c, u), excused' = "no"
    PROVE  [Contract!Next]_(Contract!vars)
<1> USE DEF IInv, TypeOK, tables, Doing, Begun, Answer, Silent, DeleteUser, Enter
<1>a. users[u] # None /\ users' = users
  OBVIOUS
<1>0. /\ Only(accounts, AccountsOf(u)) \in [AccountIds -> Account \cup {None}]
      /\ Nothing(sessions) \in [Tokens -> Session \cup {None}]
  BY TakenRows
<1>c. /\ call'[c] = [op |-> "deleteSessions", user |-> u, id |-> None, late |-> FALSE,
                     accounts |-> Only(accounts, AccountsOf(u)), sessions |-> Nothing(sessions)]
      /\ call[c] = None /\ \A d \in Callers \ {c} : call'[d] = call[d]
  OBVIOUS
<1>d. call'[c] \in Taking
  BY <1>0, <1>c DEF Taking
<1>b. /\ call'[c].op = "deleteSessions" /\ call'[c].user = u /\ call'[c] # None
      /\ call'[c].accounts = Only(accounts, AccountsOf(u)) /\ call'[c].sessions = Nothing(sessions)
      /\ call[c] = None /\ \A d \in Callers \ {c} : call'[d] = call[d]
  BY <1>c, <1>d, NoneAssumption
<1>1. shownAccounts' = shownAccounts
  <2>1. TakenAccounts(c)' = Only(accounts, AccountsOf(u)) /\ TakenAccounts(c) = Nothing(accounts)
    BY <1>a, <1>b DEF TakenAccounts
  <2>2. \A d \in Callers \ {c} : TakenAccounts(d)' = TakenAccounts(d)
    BY <1>a, <1>b DEF TakenAccounts, Nothing, Without
  <2>3. accounts' = Without(accounts, AccountsOf(u))
    OBVIOUS
  <2>4. ASSUME NEW a \in AccountIds PROVE shownAccounts'[a] = shownAccounts[a]
    <3>1. CASE a \in AccountsOf(u)
      BY <2>1, <2>3, <3>1 DEF Seen, AccountsSeen, Only, Without, AccountsOf
    <3>2. CASE a \notin AccountsOf(u)
      <4> HIDE DEF DeleteUser
      <4>a. accounts'[a] = accounts[a]
        BY <2>3, <3>2 DEF Without
      <4>b. TakenAccounts(c)'[a] = None /\ TakenAccounts(c)[a] = None
        BY <2>1, <3>2 DEF Only, Without, Nothing
      <4>1. accounts'[a] = accounts[a] /\ \A d \in Callers : TakenAccounts(d)'[a] = TakenAccounts(d)[a]
        BY <2>2, <4>a, <4>b
      <4> QED BY <4>1 DEF Seen, AccountsSeen
    <3> QED BY <3>1, <3>2
  <2> QED
    BY <2>4 DEF Seen, AccountsSeen
<1>2. shownSessions' = shownSessions
  <2>1. \A d \in Callers : TakenSessions(d)' = TakenSessions(d)
    BY <1>a, <1>b DEF TakenSessions, Nothing
  <2> QED
    BY <2>1, SessionsSame
<1>3. shownVerifications' = shownVerifications
  BY VerificationsSame DEF TakenVerifications
<1> QED
  BY <1>1, <1>2, <1>3 DEF Contract!vars, Contract!tables, Contract!reach

LEMMA DeleteSessionsOfMeets ==
    ASSUME IInv, IInv', Seen, Seen', NEW c \in Callers, DeleteSessionsOf(c), excused' = "no"
    PROVE  [Contract!Next]_(Contract!vars)
<1> USE DEF IInv, TypeOK, tables, Doing, Begun, Answer, Silent, DeleteSessionsOf
<1>0. call[c] \in Taking
  BY CallShape
<1> USE <1>0
<1>a. users[call[c].user] # None /\ users' = users
  OBVIOUS
<1>d. call'[c] = [call[c] EXCEPT !.op = "deleteUserRow", !.sessions = Only(sessions, SessionsOf(call[c].user))]
            /\ call'[c] # None
  <2>1. Only(sessions, SessionsOf(call[c].user)) \in [Tokens -> Session \cup {None}]
    BY TakenRows DEF Taking
  <2>2. call'[c] = [call[c] EXCEPT !.op = "deleteUserRow", !.sessions = Only(sessions, SessionsOf(call[c].user))]
    OBVIOUS
  <2>3. call'[c] \in Taking
    BY <2>1, <2>2 DEF Taking
  <2> QED
    BY <2>2, <2>3, NoneAssumption
<1>b. /\ call'[c].op = "deleteUserRow" /\ call'[c].user = call[c].user /\ call'[c] # None
      /\ call'[c].accounts = call[c].accounts /\ call'[c].sessions = Only(sessions, SessionsOf(call[c].user))
      /\ \A d \in Callers \ {c} : call'[d] = call[d]
  BY <1>d DEF Taking
<1>e. Begun(c) /\ Begun(c)'
  BY <1>b
<1>1. shownAccounts' = shownAccounts
  <2>1. TakenAccounts(c)' = TakenAccounts(c)
    BY <1>a, <1>b DEF TakenAccounts
  <2>2. \A d \in Callers \ {c} : TakenAccounts(d)' = TakenAccounts(d)
    BY <1>a, <1>b DEF TakenAccounts, Nothing
  <2> QED
    BY <2>1, <2>2, AccountsSame
<1>2. shownSessions' = shownSessions
  <2>1. TakenSessions(c)' = Only(sessions, SessionsOf(call[c].user))
    BY <1>a, <1>b DEF TakenSessions
  <2>0. \A t \in Tokens : t \notin SessionsOf(call[c].user) => TakenSessions(c)[t] = None
    BY DEF TakenInv, SessionsTaken
  <2>2. \A d \in Callers \ {c} : TakenSessions(d)' = TakenSessions(d)
    BY <1>a, <1>b DEF TakenSessions, Nothing, Without
  <2>3. sessions' = Without(sessions, SessionsOf(call[c].user))
    OBVIOUS
  <2>4. ASSUME NEW t \in Tokens PROVE shownSessions'[t] = shownSessions[t]
    <3>1. CASE t \in SessionsOf(call[c].user)
      BY <2>1, <2>3, <3>1 DEF Seen, SessionsSeen, Only, Without, SessionsOf
    <3>2. CASE t \notin SessionsOf(call[c].user)
      <4> HIDE DEF DeleteSessionsOf
      <4>a. sessions'[t] = sessions[t]
        BY <2>3, <3>2 DEF Without
      <4>b. TakenSessions(c)'[t] = None /\ TakenSessions(c)[t] = None
        BY <2>0, <2>1, <3>2 DEF Only, Without, Nothing
      <4>1. sessions'[t] = sessions[t] /\ \A d \in Callers : TakenSessions(d)'[t] = TakenSessions(d)[t]
        BY <2>2, <4>a, <4>b
      <4> QED BY <4>1 DEF Seen, SessionsSeen
    <3> QED BY <3>1, <3>2
  <2> QED
    BY <2>4 DEF Seen, SessionsSeen
<1>3. shownVerifications' = shownVerifications
  BY VerificationsSame DEF TakenVerifications
<1> QED
  BY <1>1, <1>2, <1>3 DEF Contract!vars, Contract!tables, Contract!reach

LEMMA DeleteUserRowMeets ==
    ASSUME IInv, IInv', Seen, Seen', NEW c \in Callers, DeleteUserRow(c), excused' = "no"
    PROVE  [Contract!Next]_(Contract!vars)
<1> USE DEF IInv, TypeOK, tables, Doing, Begun, Answer, Silent, DeleteUserRow, Leave
<1>0. call[c] \in Taking
  BY CallShape
<1> USE <1>0
<1>a. call'[c] = None /\ \A d \in Callers \ {c} : call'[d] = call[d]
  OBVIOUS
<1>b. \A d \in Callers : Begun(d) => call[d] \in Taking
  BY CallShape
<1>c. users' = [users EXCEPT ![call[c].user] = None] /\ users \in [UserIds -> Emails \cup {None}]
  OBVIOUS
<1>d. \A d \in Callers : /\ Begun(d)' => Begun(d)
                         /\ Begun(d) /\ d # c => Begun(d)'
  BY <1>a
<1>f. /\ UNCHANGED <<accounts, sessions>>
      /\ \A a \in AccountIds : Nothing(accounts)[a] = None
      /\ \A t \in Tokens : Nothing(sessions)[t] = None
  BY DEF Nothing
<1>e. users[call[c].user] # None => AccountsOf(call[c].user) = {} /\ SessionsOf(call[c].user) = {}
  BY DEF EmptyInv
<1>1. shownAccounts' = [a \in AccountIds |->
          IF shownAccounts[a] # None /\ shownAccounts[a].user = call[c].user /\ users[call[c].user] # None
          THEN None ELSE shownAccounts[a]]
  <2>1. \A d \in Callers : /\ Begun(d) /\ call[d].user = call[c].user => TakenAccounts(d)' = Nothing(accounts)
                           /\ ~(Begun(d) /\ call[d].user = call[c].user) => TakenAccounts(d)' = TakenAccounts(d)
    BY <1>a, <1>b, <1>c DEF TakenAccounts, Nothing, Taking
  <2>2. ASSUME NEW a \in AccountIds
        PROVE  shownAccounts'[a] = IF shownAccounts[a] # None /\ shownAccounts[a].user = call[c].user
                                                              /\ users[call[c].user] # None
                                   THEN None ELSE shownAccounts[a]
    <3>1. CASE accounts[a] # None
      BY <1>e, <3>1 DEF Seen, AccountsSeen, AccountsOf
    <3>2. CASE accounts[a] = None /\ \A d \in Callers : TakenAccounts(d)[a] = None
      BY <2>1, <3>2 DEF Seen, AccountsSeen, Nothing
    <3>3. ASSUME NEW d \in Callers, TakenAccounts(d)[a] # None
          PROVE  shownAccounts'[a] = IF shownAccounts[a] # None /\ shownAccounts[a].user = call[c].user
                                                                /\ users[call[c].user] # None
                                     THEN None ELSE shownAccounts[a]
      <4>1. /\ Begun(d) /\ users[call[d].user] # None
            /\ accounts[a] = None /\ TakenAccounts(d)[a].user = call[d].user
            /\ \A e \in Callers \ {d} : TakenAccounts(e)[a] = None
            /\ shownAccounts[a] = TakenAccounts(d)[a]
        BY <3>3 DEF TakenInv, AccountsTaken, TakenAccounts, Nothing, Seen, AccountsSeen
      <4> HIDE DEF DeleteUserRow, Begun, TypeOK
      <4>2. CASE call[d].user = call[c].user
        BY <1>f, <2>1, <4>1, <4>2 DEF Seen, AccountsSeen
      <4>3. CASE call[d].user # call[c].user
        BY <2>1, <4>1, <4>3, <3>3 DEF Seen, AccountsSeen
      <4> QED BY <4>2, <4>3
    <3> QED BY <3>1, <3>2, <3>3
  <2> QED
    BY <2>2 DEF Seen, AccountsSeen
<1>2. shownSessions' = [t \in Tokens |->
          IF shownSessions[t] # None /\ shownSessions[t].user = call[c].user /\ users[call[c].user] # None
          THEN None ELSE shownSessions[t]]
  <2>1. \A d \in Callers : /\ Begun(d) /\ call[d].user = call[c].user => TakenSessions(d)' = Nothing(sessions)
                           /\ ~(Begun(d) /\ call[d].user = call[c].user) => TakenSessions(d)' = TakenSessions(d)
    BY <1>a, <1>b, <1>c DEF TakenSessions, Nothing, Taking
  <2>2. ASSUME NEW t \in Tokens
        PROVE  shownSessions'[t] = IF shownSessions[t] # None /\ shownSessions[t].user = call[c].user
                                                              /\ users[call[c].user] # None
                                   THEN None ELSE shownSessions[t]
    <3>1. CASE sessions[t] # None
      BY <1>e, <3>1 DEF Seen, SessionsSeen, SessionsOf
    <3>2. CASE sessions[t] = None /\ \A d \in Callers : TakenSessions(d)[t] = None
      BY <2>1, <3>2 DEF Seen, SessionsSeen, Nothing
    <3>3. ASSUME NEW d \in Callers, TakenSessions(d)[t] # None
          PROVE  shownSessions'[t] = IF shownSessions[t] # None /\ shownSessions[t].user = call[c].user
                                                                /\ users[call[c].user] # None
                                     THEN None ELSE shownSessions[t]
      <4>1. /\ Begun(d) /\ users[call[d].user] # None
            /\ sessions[t] = None /\ TakenSessions(d)[t].user = call[d].user
            /\ \A e \in Callers \ {d} : TakenSessions(e)[t] = None
            /\ shownSessions[t] = TakenSessions(d)[t]
        BY <3>3 DEF TakenInv, SessionsTaken, TakenSessions, Nothing, Seen, SessionsSeen
      <4> HIDE DEF DeleteUserRow, Begun, TypeOK
      <4>2. CASE call[d].user = call[c].user
        BY <1>f, <2>1, <4>1, <4>2 DEF Seen, SessionsSeen
      <4>3. CASE call[d].user # call[c].user
        BY <2>1, <4>1, <4>3, <3>3 DEF Seen, SessionsSeen
      <4> QED BY <4>2, <4>3
    <3> QED BY <3>1, <3>2, <3>3
  <2> QED
    BY <2>2 DEF Seen, SessionsSeen
<1>3. shownVerifications' = shownVerifications
  BY VerificationsSame DEF TakenVerifications
<1> QED
  <2>1. {w \in UserIds : users[w] # None /\ users[w] = users[call[c].user]} \subseteq {call[c].user}
    BY DEF EmailUnique, Taking
  <2>2. Contract!DeleteUser(call[c].user)
    <3>1. CASE users[call[c].user] = None
      <4>1. shownAccounts' = shownAccounts /\ shownSessions' = shownSessions
        BY <1>1, <1>2, <3>1 DEF Seen, AccountsSeen, SessionsSeen
      <4> QED
        BY <1>3, <3>1, <4>1
           DEF Contract!DeleteUser, Contract!Refuse, Contract!tables, Contract!reach, Taking
    <3>2. CASE users[call[c].user] # None
      <4>1. {w \in UserIds : users[w] = users[call[c].user]} \subseteq {call[c].user}
        BY <2>1, <3>2
      <4> HIDE DEF TypeOK
      <4> QED
        BY <1>1, <1>2, <1>3, <3>2, <4>1 DEF Contract!DeleteUser
    <3> QED BY <3>1, <3>2
  <2> QED BY <2>2 DEF Taking, Contract!Next

LEMMA FailMeets ==
    ASSUME IInv, IInv', Seen, Seen', NEW c \in Callers, Fail(c), excused' = "no"
    PROVE  [Contract!Next]_(Contract!vars)
<1> USE DEF IInv, TypeOK, tables, Doing, Begun, Answer, Silent, Fail, Leave
<1>1. shownAccounts' = shownAccounts
  BY AccountsSame DEF TakenAccounts, Nothing
<1>2. shownSessions' = shownSessions
  BY SessionsSame DEF TakenSessions, Nothing
<1>3. shownVerifications' = shownVerifications
  BY VerificationsSame DEF TakenVerifications
<1> QED
  BY <1>1, <1>2, <1>3 DEF Contract!vars, Contract!tables, Contract!reach

LEMMA CreateUserMeets ==
    ASSUME IInv, IInv', Seen, Seen', NEW c \in Callers, NEW u \in UserIds, NEW e \in Emails,
           CreateUser(c, u, e), excused' = "no"
    PROVE  [Contract!Next]_(Contract!vars)
<1> USE DEF IInv, TypeOK, tables, Doing, Begun, Answer, Silent, CreateUser, Enter
<1>1. shownAccounts' = shownAccounts
  BY AccountsSame DEF TakenAccounts, Nothing
<1>2. shownSessions' = shownSessions
  BY SessionsSame DEF TakenSessions, Nothing
<1>3. shownVerifications' = shownVerifications
  BY VerificationsSame DEF TakenVerifications
<1> QED
  <2>1. CASE EmailFree(u, e)
    BY <1>1, <1>2, <1>3, <2>1 DEF Contract!vars, Contract!tables, Contract!reach
  <2>2. CASE ~EmailFree(u, e)
    <3>1. Contract!CreateUser(u, e)
      BY <1>1, <1>2, <1>3, <2>2
         DEF EmailFree, FreshUser, Contract!CreateUser, Contract!Refuse, Contract!tables,
             Contract!reach
    <3> QED BY <3>1 DEF Contract!Next
  <2> QED BY <2>1, <2>2

LEMMA UpdateUserMeets ==
    ASSUME IInv, IInv', Seen, Seen', NEW c \in Callers, NEW u \in UserIds, NEW e \in Emails \cup {None},
           UpdateUser(c, u, e), excused' = "no"
    PROVE  [Contract!Next]_(Contract!vars)
<1> USE DEF IInv, TypeOK, tables, Doing, Begun, Answer, Silent, UpdateUser, Enter
<1>1. shownAccounts' = shownAccounts
  BY AccountsSame DEF TakenAccounts, Nothing
<1>2. shownSessions' = shownSessions
  BY SessionsSame DEF TakenSessions, Nothing
<1>3. shownVerifications' = shownVerifications
  BY VerificationsSame DEF TakenVerifications
<1> QED
  <2>1. CASE users[u] # None
    BY <1>1, <1>2, <1>3, <2>1 DEF Contract!vars, Contract!tables, Contract!reach
  <2>2. CASE users[u] = None
    <3>1. Contract!DeleteUser(u)
      BY <1>1, <1>2, <1>3, <2>2
         DEF Contract!DeleteUser, Contract!Refuse, Contract!tables, Contract!reach
    <3> QED BY <3>1 DEF Contract!Next
  <2> QED BY <2>1, <2>2
(* A step that leaves the users, the calls that delete one and those that  *)
(* replace a verification alone takes nothing and gives nothing back.      *)
LEMMA QuietTakes ==
    ASSUME TypeOK, TypeOK', UNCHANGED users,
           \A d \in Callers :
              \/ call'[d] = call[d]
              \/ /\ ~Begun(d) /\ ~Begun(d)'
                 /\ ~Doing(d, "insertVerification") /\ ~Doing(d, "insertVerification")'
    PROVE  \A d \in Callers : /\ TakenAccounts(d)' = TakenAccounts(d)
                              /\ TakenSessions(d)' = TakenSessions(d)
                              /\ TakenVerifications(d)' = TakenVerifications(d)
<1>1. DOMAIN accounts' = DOMAIN accounts /\ DOMAIN sessions' = DOMAIN sessions
  BY DEF TypeOK
<1> SUFFICES ASSUME NEW d \in Callers
             PROVE  /\ TakenAccounts(d)' = TakenAccounts(d)
                    /\ TakenSessions(d)' = TakenSessions(d)
                    /\ TakenVerifications(d)' = TakenVerifications(d)
  OBVIOUS
<1>2. CASE call'[d] = call[d]
  BY <1>1, <1>2 DEF TakenAccounts, TakenSessions, TakenVerifications, Nothing, Begun, Doing
<1>3. CASE call'[d] # call[d]
  BY <1>1, <1>3 DEF TakenAccounts, TakenSessions, TakenVerifications, Nothing
<1> QED BY <1>2, <1>3

(* A row that a step leaves alone, and no call takes, is seen as before.   *)
LEMMA AccountAt ==
    ASSUME Seen, Seen', NEW a \in AccountIds, accounts'[a] = accounts[a],
           \A c \in Callers : TakenAccounts(c)'[a] = TakenAccounts(c)[a]
    PROVE  shownAccounts'[a] = shownAccounts[a]
BY DEF Seen, AccountsSeen

LEMMA SessionAt ==
    ASSUME Seen, Seen', NEW t \in Tokens, sessions'[t] = sessions[t],
           \A c \in Callers : TakenSessions(c)'[t] = TakenSessions(c)[t]
    PROVE  shownSessions'[t] = shownSessions[t]
BY DEF Seen, SessionsSeen

LEMMA VerificationAt ==
    ASSUME Seen, Seen', NEW i \in Identifiers, verifications'[i] = verifications[i],
           \A c \in Callers : TakenVerifications(c)'[i] = TakenVerifications(c)[i]
    PROVE  shownVerifications'[i] = shownVerifications[i]
BY DEF Seen, VerificationsSeen

LEMMA CreateAccountMeets ==
    ASSUME IInv, IInv', Seen, Seen', NEW a \in AccountIds, NEW row \in Account,
           CreateAccount(a, row), excused' = "no"
    PROVE  [Contract!Next]_(Contract!vars)
<1> USE DEF IInv, TypeOK, tables, Doing, Begun, Answer, Silent, CreateAccount
<1>0. row.user \in UserIds
  BY DEF Account, Session
<1> USE <1>0, InsertedShape DEF Deleting
<1>a. \A d \in Callers : /\ TakenAccounts(d)' = TakenAccounts(d)
                         /\ TakenSessions(d)' = TakenSessions(d)
                         /\ TakenVerifications(d)' = TakenVerifications(d)
  BY InsertedTakes
<1>1. shownAccounts' = [shownAccounts EXCEPT ![a] = row]
  <2>1. accounts' = [accounts EXCEPT ![a] = row] /\ row # None
    BY NoneAssumption
  <2>2. \A b \in AccountIds \ {a} : shownAccounts'[b] = shownAccounts[b]
    BY <1>a, <2>1, AccountAt
  <2>3. shownAccounts'[a] = row
    BY <2>1 DEF Seen, AccountsSeen
  <2> QED
    BY <2>2, <2>3 DEF Seen, AccountsSeen
<1>2. UNCHANGED shownSessions
  BY <1>a, SessionsSame
<1>3. UNCHANGED shownVerifications
  BY <1>a, VerificationsSame
<1> QED
  <2>1. \A b \in AccountIds : ~Contract!SameKey(b, row) /\ ~Contract!SameExternal(b, row)
    BY DEF KeyShared, Contract!SameKey, Contract!SameExternal
  <2>2. Contract!CreateAccount(a, row)
    BY <1>1, <1>2, <1>3, <2>1 DEF Contract!CreateAccount
  <2> QED BY <2>2 DEF Contract!Next, Contract!Account, Account

LEMMA UpdateAccountMeets ==
    ASSUME IInv, IInv', Seen, Seen', NEW c \in Callers, NEW a \in AccountIds, NEW s \in Secrets,
           UpdateAccount(c, a, s), excused' = "no"
    PROVE  [Contract!Next]_(Contract!vars)
<1> USE DEF IInv, TypeOK, tables, Doing, Begun, Answer, Silent, UpdateAccount, Enter
<1>1. shownAccounts' = shownAccounts
  BY AccountsSame DEF TakenAccounts, Nothing
<1>2. shownSessions' = shownSessions
  BY SessionsSame DEF TakenSessions, Nothing
<1>3. shownVerifications' = shownVerifications
  BY VerificationsSame DEF TakenVerifications
<1> QED
  <2>1. CASE accounts[a] # None
    BY <1>1, <1>2, <1>3, <2>1 DEF Contract!vars, Contract!tables, Contract!reach
  <2>2. CASE ~(accounts[a] # None)
    <3>1. Contract!UpdateAccount(a, s)
      BY <1>1, <1>2, <1>3, <2>2
         DEF Contract!UpdateAccount, Contract!Refuse, Contract!tables, Contract!reach, Seen,
             AccountsSeen
    <3> QED BY <3>1 DEF Contract!Next
  <2> QED BY <2>1, <2>2

LEMMA UpdateAccountRowMeets ==
    ASSUME IInv, IInv', Seen, Seen', NEW c \in Callers, UpdateAccountRow(c), excused' = "no"
    PROVE  [Contract!Next]_(Contract!vars)
<1> USE DEF IInv, TypeOK, tables, Doing, Begun, Answer, Silent, UpdateAccountRow, Leave
<1>0. call[c] \in Saving
  BY CallShape
<1> USE <1>0
<1>a. \A d \in Callers : /\ TakenAccounts(d)' = TakenAccounts(d)
                         /\ TakenSessions(d)' = TakenSessions(d)
                         /\ TakenVerifications(d)' = TakenVerifications(d)
  BY QuietTakes, CallShape DEF Saving
<1>1. shownAccounts' = [shownAccounts EXCEPT ![call[c].id].secret = call[c].secret]
  <2>1. /\ accounts' = [accounts EXCEPT ![call[c].id].secret = call[c].secret]
        /\ accounts[call[c].id] \in Account /\ call[c].id \in AccountIds /\ call[c].secret \in Secrets
    BY DEF Saving
  <2>2. \A b \in AccountIds \ {call[c].id} : shownAccounts'[b] = shownAccounts[b]
    BY <1>a, <2>1, AccountAt
  <2>3. accounts'[call[c].id] = [accounts[call[c].id] EXCEPT !.secret = call[c].secret]
              /\ accounts'[call[c].id] \in Account
    BY <2>1 DEF Account
  <2>4. shownAccounts'[call[c].id] = [shownAccounts[call[c].id] EXCEPT !.secret = call[c].secret]
    BY <2>1, <2>3, NoneAssumption DEF Seen, AccountsSeen
  <2> QED
    BY <2>1, <2>2, <2>4 DEF Seen, AccountsSeen
<1>2. UNCHANGED shownSessions
  BY <1>a, SessionsSame
<1>3. UNCHANGED shownVerifications
  BY <1>a, VerificationsSame
<1> QED
  <2>1. Contract!UpdateAccount(call[c].id, call[c].secret)
    BY <1>1, <1>2, <1>3 DEF Contract!UpdateAccount, Contract!reach, Seen, AccountsSeen
  <2> QED BY <2>1 DEF Contract!Next, Saving

LEMMA UpdateAccountPasswordMeets ==
    ASSUME IInv, IInv', Seen, Seen', NEW u \in UserIds, NEW p \in Providers, NEW s \in Secrets,
           UpdateAccountPassword(u, p, s), excused' = "no"
    PROVE  [Contract!Next]_(Contract!vars)
<1> USE DEF IInv, TypeOK, tables, Doing, Begun, Answer, Silent, UpdateAccountPassword
<1>a. \A d \in Callers : /\ TakenAccounts(d)' = TakenAccounts(d)
                         /\ TakenSessions(d)' = TakenSessions(d)
                         /\ TakenVerifications(d)' = TakenVerifications(d)
  BY QuietTakes
<1>b. UNCHANGED users /\ UNCHANGED verifications /\ UNCHANGED sessions
  OBVIOUS
<1>1. \A a \in AccountIds : shownAccounts'[a] = IF a \in AccountsOf(u) /\ accounts[a].provider = p
                                               THEN [accounts[a] EXCEPT !.secret = s] ELSE shownAccounts[a]
  <2>1. \A a \in AccountIds : accounts'[a] = IF a \in AccountsOf(u) /\ accounts[a].provider = p
                                            THEN [accounts[a] EXCEPT !.secret = s] ELSE accounts[a]
    OBVIOUS
  <2> SUFFICES ASSUME NEW a \in AccountIds
               PROVE  shownAccounts'[a] = IF a \in AccountsOf(u) /\ accounts[a].provider = p
                                          THEN [accounts[a] EXCEPT !.secret = s] ELSE shownAccounts[a]
    OBVIOUS
  <2> HIDE DEF UpdateAccountPassword
  <2>2. CASE a \in AccountsOf(u) /\ accounts[a].provider = p
    <3>1. accounts'[a] \in Account /\ accounts'[a] = [accounts[a] EXCEPT !.secret = s]
      BY <2>1, <2>2 DEF AccountsOf, Account
    <3> QED
      BY <2>2, <3>1, NoneAssumption DEF Seen, AccountsSeen
  <2>3. CASE ~(a \in AccountsOf(u) /\ accounts[a].provider = p)
    BY <1>a, <2>1, <2>3, AccountAt
  <2> QED BY <2>2, <2>3
<1>2. UNCHANGED shownSessions
  BY <1>a, SessionsSame
<1>3. UNCHANGED shownVerifications
  BY <1>a, VerificationsSame
<1>4. CASE {a \in AccountsOf(u) : accounts[a].provider = p} = {}
  <2>1. ~Half(u) /\ reply' = "notFound"
    BY <1>4 DEF Why
  <2>2. \A a \in AccountIds : ~(shownAccounts[a] # None /\ shownAccounts[a].user = u
              /\ shownAccounts[a].provider = p)
    <3> SUFFICES ASSUME NEW a \in AccountIds, shownAccounts[a] # None, shownAccounts[a].user = u,
                        shownAccounts[a].provider = p
                 PROVE  FALSE
      OBVIOUS
    <3>1. CASE accounts[a] # None
      BY <1>4, <3>1 DEF Seen, AccountsSeen, AccountsOf
    <3>2. ASSUME NEW d \in Callers, TakenAccounts(d)[a] # None PROVE FALSE
      BY <2>1, <3>2
         DEF TakenInv, AccountsTaken, TakenAccounts, Nothing, Seen, AccountsSeen, Half, Deleting
    <3> QED
      BY <3>1, <3>2 DEF Seen, AccountsSeen
  <2>3. UNCHANGED shownAccounts
    BY <1>1, <1>4 DEF Seen, AccountsSeen
  <2> HIDE DEF UpdateAccountPassword
  <2>4. Contract!UpdateAccountPassword(u, p, s)
    BY <1>b, <1>2, <1>3, <2>1, <2>2, <2>3
       DEF Contract!UpdateAccountPassword, Contract!Refuse, Contract!tables, Contract!reach
  <2> QED BY <2>4 DEF Contract!Next
<1>5. ASSUME NEW a \in AccountsOf(u), accounts[a].provider = p PROVE Contract!Next
  <2>1. reply' = "ok" /\ \A b \in AccountsOf(u) : accounts[b].provider = p => b = a
    BY <1>5
  <2>2. a \in AccountIds /\ shownAccounts[a] = accounts[a] /\ accounts[a] # None /\ accounts[a].user = u
    BY DEF AccountsOf, Seen, AccountsSeen
  <2>3. shownAccounts' = [shownAccounts EXCEPT ![a].secret = s]
    BY <1>1, <1>5, <2>1, <2>2 DEF Seen, AccountsSeen
  <2> HIDE DEF UpdateAccountPassword
  <2>4. Contract!UpdateAccountPassword(u, p, s)
    BY <1>b, <1>2, <1>3, <1>5, <2>1, <2>2, <2>3 DEF Contract!UpdateAccountPassword, Contract!reach
  <2> QED BY <2>4 DEF Contract!Next
<1> QED BY <1>4, <1>5

LEMMA DeleteAccountMeets ==
    ASSUME IInv, IInv', Seen, Seen', NEW a \in AccountIds, DeleteAccount(a), excused' = "no"
    PROVE  [Contract!Next]_(Contract!vars)
<1> USE DEF IInv, TypeOK, tables, Doing, Begun, Answer, Silent, DeleteAccount
<1>a. \A d \in Callers : /\ TakenAccounts(d)' = TakenAccounts(d)
                         /\ TakenSessions(d)' = TakenSessions(d)
                         /\ TakenVerifications(d)' = TakenVerifications(d)
  BY QuietTakes
<1>1. shownAccounts' = [shownAccounts EXCEPT ![a] = None]
  <2>1. accounts' = [accounts EXCEPT ![a] = None]
    OBVIOUS
  <2>2. \A b \in AccountIds \ {a} : shownAccounts'[b] = shownAccounts[b]
    BY <1>a, <2>1, AccountAt
  <2>3. \A d \in Callers : TakenAccounts(d)[a] = None
    BY DEF TakenInv, AccountsTaken, Seen, AccountsSeen
  <2>4. shownAccounts'[a] = None
    BY <1>a, <2>1, <2>3 DEF Seen, AccountsSeen
  <2> QED
    BY <2>2, <2>4 DEF Seen, AccountsSeen
<1>2. UNCHANGED shownSessions
  BY <1>a, SessionsSame
<1>3. UNCHANGED shownVerifications
  BY <1>a, VerificationsSame
<1> QED
  <2>1. Contract!DeleteAccount(a)
    BY <1>1, <1>2, <1>3
       DEF Contract!DeleteAccount, Contract!Refuse, Contract!tables, Contract!reach, Seen,
           AccountsSeen
  <2> QED BY <2>1 DEF Contract!Next

LEMMA CreateSessionMeets ==
    ASSUME IInv, IInv', Seen, Seen', NEW t \in Tokens, NEW row \in Session,
           CreateSession(t, row), excused' = "no"
    PROVE  [Contract!Next]_(Contract!vars)
<1> USE DEF IInv, TypeOK, tables, Doing, Begun, Answer, Silent, CreateSession
<1>0. row.user \in UserIds
  BY DEF Account, Session
<1> USE <1>0, InsertedShape DEF Deleting
<1>a. \A d \in Callers : /\ TakenAccounts(d)' = TakenAccounts(d)
                         /\ TakenSessions(d)' = TakenSessions(d)
                         /\ TakenVerifications(d)' = TakenVerifications(d)
  BY InsertedTakes
<1>1. UNCHANGED shownAccounts
  BY <1>a, AccountsSame
<1>2. shownSessions' = [shownSessions EXCEPT ![t] = row]
  <2>1. sessions' = [sessions EXCEPT ![t] = row] /\ row # None
    BY NoneAssumption
  <2>2. \A b \in Tokens \ {t} : shownSessions'[b] = shownSessions[b]
    BY <1>a, <2>1, SessionAt
  <2>3. shownSessions'[t] = row
    BY <2>1 DEF Seen, SessionsSeen
  <2> QED
    BY <2>2, <2>3 DEF Seen, SessionsSeen
<1>3. UNCHANGED shownVerifications
  BY <1>a, VerificationsSame
<1> QED
  <2>1. Contract!PutSession(t, row)
    BY <1>1, <1>2, <1>3 DEF Contract!PutSession, Contract!reach
  <2> QED BY <2>1 DEF Contract!Next, Contract!Session, Session

LEMMA UpdateSessionMeets ==
    ASSUME IInv, IInv', Seen, Seen', NEW c \in Callers, NEW t \in Tokens, NEW s \in Stamps,
           UpdateSession(c, t, s), excused' = "no"
    PROVE  [Contract!Next]_(Contract!vars)
<1> USE DEF IInv, TypeOK, tables, Doing, Begun, Answer, Silent, UpdateSession, Enter
<1>1. shownAccounts' = shownAccounts
  BY AccountsSame DEF TakenAccounts, Nothing
<1>2. shownSessions' = shownSessions
  BY SessionsSame DEF TakenSessions, Nothing
<1>3. shownVerifications' = shownVerifications
  BY VerificationsSame DEF TakenVerifications
<1> QED
  <2>1. CASE sessions[t] # None
    BY <1>1, <1>2, <1>3, <2>1 DEF Contract!vars, Contract!tables, Contract!reach
  <2>2. CASE ~(sessions[t] # None)
    <3>1. Contract!UpdateSession(t, s)
      BY <1>1, <1>2, <1>3, <2>2
         DEF Contract!UpdateSession, Contract!Refuse, Contract!tables, Contract!reach, Seen,
             SessionsSeen
    <3> QED BY <3>1 DEF Contract!Next
  <2> QED BY <2>1, <2>2

LEMMA UpdateSessionRowMeets ==
    ASSUME IInv, IInv', Seen, Seen', NEW c \in Callers, UpdateSessionRow(c), excused' = "no"
    PROVE  [Contract!Next]_(Contract!vars)
<1> USE DEF IInv, TypeOK, tables, Doing, Begun, Answer, Silent, UpdateSessionRow, Leave
<1>0. call[c] \in Renewing
  BY CallShape
<1> USE <1>0
<1>a. \A d \in Callers : /\ TakenAccounts(d)' = TakenAccounts(d)
                         /\ TakenSessions(d)' = TakenSessions(d)
                         /\ TakenVerifications(d)' = TakenVerifications(d)
  BY QuietTakes, CallShape DEF Renewing
<1>1. UNCHANGED shownAccounts
  BY <1>a, AccountsSame
<1>2. shownSessions'
            = [shownSessions EXCEPT ![call[c].id] = [shownSessions[call[c].id] EXCEPT !.stamp = call[c].row.stamp]]
  <2>1. /\ sessions' = [sessions EXCEPT ![call[c].id] = call[c].row]
        /\ sessions[call[c].id] \in Session /\ call[c].id \in Tokens /\ call[c].row \in Session
    BY DEF Renewing
  <2>2. \A k \in Tokens \ {call[c].id} : shownSessions'[k] = shownSessions[k]
    BY <1>a, <2>1, SessionAt
  <2>3. call[c].row = [sessions[call[c].id] EXCEPT !.stamp = call[c].row.stamp]
    BY <2>1 DEF Session, RenewInv
  <2>4. shownSessions'[call[c].id] = [shownSessions[call[c].id] EXCEPT !.stamp = call[c].row.stamp]
    BY <2>1, <2>3, NoneAssumption DEF Seen, SessionsSeen
  <2> QED
    BY <2>1, <2>2, <2>4 DEF Seen, SessionsSeen
<1>3. UNCHANGED shownVerifications
  BY <1>a, VerificationsSame
<1> QED
  <2>1. Contract!UpdateSession(call[c].id, call[c].row.stamp)
    BY <1>1, <1>2, <1>3
       DEF Contract!UpdateSession, Contract!PutSession, Contract!reach, Seen, SessionsSeen
  <2> QED BY <2>1 DEF Contract!Next, Renewing, Session

LEMMA DeleteSessionMeets ==
    ASSUME IInv, IInv', Seen, Seen', NEW t \in Tokens, DeleteSession(t), excused' = "no"
    PROVE  [Contract!Next]_(Contract!vars)
<1> USE DEF IInv, TypeOK, tables, Doing, Begun, Answer, Silent, DeleteSession
<1>a. \A d \in Callers : /\ TakenAccounts(d)' = TakenAccounts(d)
                         /\ TakenSessions(d)' = TakenSessions(d)
                         /\ TakenVerifications(d)' = TakenVerifications(d)
  BY QuietTakes
<1>1. UNCHANGED shownAccounts
  BY <1>a, AccountsSame
<1>2. shownSessions' = [shownSessions EXCEPT ![t] = None]
  <2>1. sessions' = [sessions EXCEPT ![t] = None]
    OBVIOUS
  <2>2. \A b \in Tokens \ {t} : shownSessions'[b] = shownSessions[b]
    BY <1>a, <2>1, SessionAt
  <2>3. \A d \in Callers : TakenSessions(d)[t] = None
    BY DEF TakenInv, SessionsTaken, Seen, SessionsSeen
  <2>4. shownSessions'[t] = None
    BY <1>a, <2>1, <2>3 DEF Seen, SessionsSeen
  <2> QED
    BY <2>2, <2>4 DEF Seen, SessionsSeen
<1>3. UNCHANGED shownVerifications
  BY <1>a, VerificationsSame
<1> QED
  <2>1. Contract!PutSession(t, None)
    BY <1>1, <1>2, <1>3 DEF Contract!PutSession, Contract!reach
  <2> QED BY <2>1 DEF Contract!Next

LEMMA DeleteSessionsByUserIDMeets ==
    ASSUME IInv, IInv', Seen, Seen', NEW u \in UserIds, NEW t \in Tokens \cup {None},
           DeleteSessionsByUserID(u, t), excused' = "no"
    PROVE  [Contract!Next]_(Contract!vars)
<1> USE DEF IInv, TypeOK, tables, Doing, Begun, Answer, Silent, DeleteSessionsByUserID, Without
<1>a. \A d \in Callers : /\ TakenAccounts(d)' = TakenAccounts(d)
                         /\ TakenSessions(d)' = TakenSessions(d)
                         /\ TakenVerifications(d)' = TakenVerifications(d)
  BY QuietTakes
<1>1. UNCHANGED shownAccounts
  BY <1>a, AccountsSame
<1>2. shownSessions' = [k \in Tokens |-> IF k # t /\ shownSessions[k] # None /\ shownSessions[k].user = u
                                            THEN None ELSE shownSessions[k]]
  <2>1. \A k \in Tokens : sessions'[k] = IF k # t /\ sessions[k] # None /\ sessions[k].user = u
                                         THEN None ELSE sessions[k]
    BY DEF SessionsOf
  <2>2. ASSUME NEW k \in Tokens, NEW d \in Callers, TakenSessions(d)[k] # None
        PROVE  sessions[k] = None /\ shownSessions[k].user # u
    <3>1. sessions[k] = None /\ shownSessions[k].user = call[d].user /\ Begun(d) /\ users[call[d].user] # None
      BY <2>2 DEF TakenInv, SessionsTaken, TakenSessions, Nothing, Seen, SessionsSeen
    <3>2. ~Half(u)
      BY DEF Why
    <3> QED
      BY <3>1, <3>2 DEF Half, Deleting
  <2>3. ASSUME NEW k \in Tokens
        PROVE  shownSessions'[k] = IF k # t /\ shownSessions[k] # None /\ shownSessions[k].user = u
                                   THEN None ELSE shownSessions[k]
    <3> HIDE DEF DeleteSessionsByUserID
    <3>1. CASE \E d \in Callers : TakenSessions(d)[k] # None
      BY <1>a, <2>1, <2>2, <3>1, SessionAt
    <3>2. CASE \A d \in Callers : TakenSessions(d)[k] = None
      BY <1>a, <2>1, <3>2 DEF Seen, SessionsSeen
    <3> QED BY <3>1, <3>2
  <2> QED
    BY <2>3 DEF Seen, SessionsSeen
<1>3. UNCHANGED shownVerifications
  BY <1>a, VerificationsSame
<1> QED
  <2>1. Contract!DeleteSessionsByUserID(u, t)
    BY <1>1, <1>2, <1>3 DEF Contract!DeleteSessionsByUserID, Contract!reach
  <2> QED BY <2>1 DEF Contract!Next

LEMMA CreateVerificationMeets ==
    ASSUME IInv, IInv', Seen, Seen', NEW c \in Callers, NEW i \in Identifiers, NEW v \in Values,
           CreateVerification(c, i, v), excused' = "no"
    PROVE  [Contract!Next]_(Contract!vars)
<1> USE DEF IInv, TypeOK, tables, Doing, Begun, Answer, Silent, CreateVerification, Enter
<1>1. shownAccounts' = shownAccounts
  BY AccountsSame DEF TakenAccounts, Nothing
<1>2. shownSessions' = shownSessions
  BY SessionsSame DEF TakenSessions, Nothing
<1>3. UNCHANGED shownVerifications
  <2>1. PICK removed \in {TRUE, FALSE} :
           /\ call' = [call EXCEPT ![c] = [op |-> "insertVerification", user |-> None, id |-> i, value |-> v,
                                           old |-> IF removed THEN verifications[i] ELSE None]]
           /\ verifications' = IF removed THEN [verifications EXCEPT ![i] = None] ELSE verifications
    OBVIOUS
  <2>2. call[c] = None /\ call'[c] # None /\ \A d \in Callers \ {c} : call'[d] = call[d]
    <3>1. call'[c] \in Placing
      BY <2>1 DEF Placing
    <3> QED BY <2>1, <3>1, NoneAssumption
  <2>3. \A d \in Callers \ {c} : TakenVerifications(d)' = TakenVerifications(d)
    BY <2>2 DEF TakenVerifications
  <2>4. \A k \in Identifiers : /\ TakenVerifications(c)[k] = None
                               /\ TakenVerifications(c)'[k] =
                                     IF k = i /\ removed THEN verifications[i] ELSE None
    BY <2>1, <2>2 DEF TakenVerifications
  <2>5. ASSUME NEW k \in Identifiers PROVE shownVerifications'[k] = shownVerifications[k]
    <3>1. CASE k = i /\ removed /\ verifications[i] # None
      BY <2>4, <3>1 DEF Seen, VerificationsSeen
    <3>2. CASE ~(k = i /\ removed /\ verifications[i] # None)
      <4>1. verifications'[k] = verifications[k]
                  /\ \A d \in Callers : TakenVerifications(d)'[k] = TakenVerifications(d)[k]
        BY <2>1, <2>3, <2>4, <3>2
      <4> QED BY <4>1, VerificationAt
    <3> QED BY <3>1, <3>2
  <2> QED
    BY <2>5 DEF Seen, VerificationsSeen
<1> QED
  BY <1>1, <1>2, <1>3 DEF Contract!vars, Contract!tables, Contract!reach

LEMMA InsertVerificationMeets ==
    ASSUME IInv, IInv', Seen, Seen', NEW c \in Callers, InsertVerification(c), excused' = "no"
    PROVE  [Contract!Next]_(Contract!vars)
<1> USE DEF IInv, TypeOK, tables, Doing, Begun, Answer, Silent, InsertVerification, Leave
<1>0. call[c] \in Placing
  BY CallShape
<1> USE <1>0
<1>a. \A d \in Callers : Doing(d, "insertVerification") => call[d] \in Placing
  BY CallShape
<1>b. \A d \in Callers : \/ call'[d] = call[d]
                         \/ ~Begun(d) /\ ~Begun(d)'
  BY <1>a DEF Placing
<1>1. UNCHANGED shownAccounts
  <2>1. \A d \in Callers : TakenAccounts(d)' = TakenAccounts(d)
    BY <1>b DEF TakenAccounts, Nothing
  <2> QED BY <2>1, AccountsSame
<1>2. UNCHANGED shownSessions
  <2>1. \A d \in Callers : TakenSessions(d)' = TakenSessions(d)
    BY <1>b DEF TakenSessions, Nothing
  <2> QED BY <2>1, SessionsSame
<1>3. shownVerifications' = IF verifications[call[c].id] # None THEN shownVerifications
                            ELSE [shownVerifications EXCEPT ![call[c].id] = call[c].value]
  <2>1. CASE verifications[call[c].id] # None
    <3>1. ASSUME NEW k \in Identifiers PROVE shownVerifications'[k] = shownVerifications[k]
      <4>1. UNCHANGED verifications /\ call'[c] = None /\ \A d \in Callers \ {c} : call'[d] = call[d]
        BY <2>1
      <4>2. k # call[c].id => \A d \in Callers : TakenVerifications(d)'[k] = TakenVerifications(d)[k]
        BY <4>1 DEF TakenVerifications
      <4>3. CASE k = call[c].id
        BY <2>1, <4>1, <4>3 DEF Seen, VerificationsSeen
      <4>4. CASE k # call[c].id
        BY <4>1, <4>2, <4>4, VerificationAt
      <4> QED BY <4>3, <4>4
    <3> QED
      BY <2>1, <3>1 DEF Seen, VerificationsSeen
  <2>2. CASE verifications[call[c].id] = None
    <3>1. /\ verifications' = [verifications EXCEPT ![call[c].id] = call[c].value]
          /\ call' = [d \in Callers |-> IF d = c THEN None
                                        ELSE IF Doing(d, "insertVerification") /\ call[d].id = call[c].id
                                             THEN [call[d] EXCEPT !.old = None] ELSE call[d]]
      BY <2>2
    <3>2. ASSUME NEW k \in Identifiers, k # call[c].id, NEW d \in Callers
          PROVE  TakenVerifications(d)'[k] = TakenVerifications(d)[k]
      <4>1. CASE d = c
        BY <3>1, <3>2, <4>1 DEF TakenVerifications
      <4>2. CASE d # c /\ Doing(d, "insertVerification") /\ call[d].id = call[c].id
        BY <1>a, <3>1, <3>2, <4>2 DEF TakenVerifications, Placing
      <4>3. CASE d # c /\ ~(Doing(d, "insertVerification") /\ call[d].id = call[c].id)
        BY <3>1, <3>2, <4>3 DEF TakenVerifications
      <4> QED BY <4>1, <4>2, <4>3
    <3>3. \A k \in Identifiers : k # call[c].id => shownVerifications'[k] = shownVerifications[k]
      BY <3>1, <3>2, VerificationAt
    <3>4. shownVerifications'[call[c].id] = call[c].value
      BY <3>1, NoneAssumption DEF Placing, Seen, VerificationsSeen
    <3> QED
      BY <2>2, <3>3, <3>4 DEF Seen, VerificationsSeen, Placing
  <2> QED BY <2>1, <2>2
<1> QED
  <2>1. CASE verifications[call[c].id] # None
    BY <1>1, <1>2, <1>3, <2>1 DEF Contract!vars, Contract!tables, Contract!reach
  <2>2. CASE ~(verifications[call[c].id] # None)
    <3>1. Contract!CreateVerification(call[c].id, call[c].value)
      BY <1>1, <1>2, <1>3, <2>2 DEF Contract!CreateVerification, Contract!reach
    <3> QED BY <3>1 DEF Contract!Next, Placing
  <2> QED BY <2>1, <2>2

LEMMA DeleteVerificationByIdentifierMeets ==
    ASSUME IInv, IInv', Seen, Seen', NEW i \in Identifiers,
           DeleteVerificationByIdentifier(i), excused' = "no"
    PROVE  [Contract!Next]_(Contract!vars)
<1> USE DEF IInv, TypeOK, tables, Doing, Begun, Answer, Silent, DeleteVerificationByIdentifier
<1>a. \A d \in Callers : /\ TakenAccounts(d)' = TakenAccounts(d)
                         /\ TakenSessions(d)' = TakenSessions(d)
                         /\ TakenVerifications(d)' = TakenVerifications(d)
  BY QuietTakes
<1>1. UNCHANGED shownAccounts
  BY <1>a, AccountsSame
<1>2. UNCHANGED shownSessions
  BY <1>a, SessionsSame
<1>3. shownVerifications' = [shownVerifications EXCEPT ![i] = None]
  <2>1. verifications' = [verifications EXCEPT ![i] = None]
    OBVIOUS
  <2>2. \A b \in Identifiers \ {i} : shownVerifications'[b] = shownVerifications[b]
    BY <1>a, <2>1, VerificationAt
  <2>3. \A d \in Callers : TakenVerifications(d)[i] = None
    BY DEF TakenInv, VerificationsTaken, Seen, VerificationsSeen
  <2>4. shownVerifications'[i] = None
    BY <1>a, <2>1, <2>3 DEF Seen, VerificationsSeen
  <2> QED
    BY <2>2, <2>4 DEF Seen, VerificationsSeen
<1> QED
  <2>1. Contract!DeleteVerificationByIdentifier(i)
    BY <1>1, <1>2, <1>3
       DEF Contract!DeleteVerificationByIdentifier, Contract!CreateVerification, Contract!Refuse,
           Contract!tables, Contract!reach, Seen, VerificationsSeen
  <2> QED BY <2>1 DEF Contract!Next

LEMMA NextMeets ==
    ASSUME IInv, IInv', Next, excused' = "no"
    PROVE  [Contract!Next]_(Contract!vars)
<1> USE IInvSeen, IInvSeenNext
<1>1. CASE Single
  BY <1>1, CreateAccountMeets, DeleteAccountMeets, UpdateAccountPasswordMeets, CreateSessionMeets,
     DeleteSessionMeets, DeleteSessionsByUserIDMeets, DeleteVerificationByIdentifierMeets
     DEF Single, DeleteAllSessionsByUserID
<1>2. ASSUME NEW c \in Callers, Call(c) PROVE [Contract!Next]_(Contract!vars)
  BY <1>2, CreateUserMeets, UpdateUserMeets, DeleteUserMeets, UpdateAccountMeets, UpdateSessionMeets,
     CreateVerificationMeets DEF Call
<1>3. ASSUME NEW c \in Callers, Statement(c) PROVE [Contract!Next]_(Contract!vars)
  BY <1>3, InsertUserMeets, UpdateUserRowMeets, DeleteSessionsOfMeets, DeleteUserRowMeets,
     UpdateAccountRowMeets, UpdateSessionRowMeets, InsertVerificationMeets, FailMeets DEF Statement
<1> QED
  BY <1>1, <1>2, <1>3 DEF Next

LEMMA InitMeets == Init => Contract!Init
<1> SUFFICES ASSUME Init PROVE Contract!Init
  OBVIOUS
<1>1. Seen /\ \A c \in Callers : ~Begun(c) /\ ~Doing(c, "insertVerification")
  BY InitIInv, IInvSeen DEF Init, Begun, Doing
<1>2. \A a \in AccountIds : shownAccounts[a] = None
  BY <1>1 DEF Init, Seen, AccountsSeen, TakenAccounts, Nothing
<1>3. \A t \in Tokens : shownSessions[t] = None
  BY <1>1 DEF Init, Seen, SessionsSeen, TakenSessions, Nothing
<1>4. \A i \in Identifiers : shownVerifications[i] = None
  BY <1>1 DEF Init, Seen, VerificationsSeen, TakenVerifications
<1> QED
  BY <1>1, <1>2, <1>3, <1>4
     DEF Init, Seen, AccountsSeen, SessionsSeen, VerificationsSeen, Contract!Init

(* The SQL store implements the contract of the core rows: every statement *)
(* of every interleaving that excused does not name is, seen through what  *)
(* the calls under way have taken, a step of the contract or no step.      *)
THEOREM StoreKeepsContract == Spec => ImplementsContract
<1>1. Init => Contract!Init
  BY InitMeets
<1>2. IInv /\ IInv' /\ [Next]_vars => [excused' = "no" => [Contract!Next]_(Contract!vars)]_vars
  BY NextMeets
<1> QED
  BY <1>1, <1>2, SpecIInv, PTL DEF Spec, ImplementsContract

=============================================================================
