------------------------------ MODULE SQLStore ------------------------------
(***************************************************************************)
(* The core rows in SQL (store/sql/sql.go).  A statement is atomic, a call *)
(* of several statements is not: no call opens a transaction.  A call that *)
(* is one statement is one action here and needs no caller; the others are *)
(* a step per statement, and the caller keeps what it read.  Any statement *)
(* may fail.  Additional columns are left out, and so are the calls that   *)
(* only read.                                                              *)
(*                                                                         *)
(* Seen as StoreContract, a call of several statements happens with its    *)
(* last one: rows a DeleteUser or CreateVerification has already removed   *)
(* are shown until then.  Where that view is not the contract's, the step  *)
(* says why in excused.                                                    *)
(***************************************************************************)
CONSTANTS Callers, UserIds, Emails, AccountIds, Providers, ExternalIds, Secrets,
          Tokens, Stamps, Identifiers, Values,
          None       \* NULL, the absent row

Account == [user : UserIds, provider : Providers, ext : ExternalIds, secret : Secrets]
Session == [user : UserIds, stamp : Stamps]

(* What a call of several statements carries from one to the next: the     *)
(* values it will write, and what a deletion has taken.                    *)
Writing  == [op : {"insertUser", "updateUserRow"}, user : UserIds, id : {None}, email : Emails]
Taking   == [op : {"deleteSessions", "deleteUserRow"}, user : UserIds, id : {None}, late : BOOLEAN,
             accounts : [AccountIds -> Account \cup {None}], sessions : [Tokens -> Session \cup {None}]]
Saving   == [op : {"updateAccountRow"}, user : {None}, id : AccountIds, secret : Secrets]
Renewing == [op : {"updateSessionRow"}, user : {None}, id : Tokens, row : Session]
Placing  == [op : {"insertVerification"}, user : {None}, id : Identifiers, value : Values,
             old : Values \cup {None}]

ASSUME NoneAssumption ==
    /\ None \notin UserIds \cup Emails \cup AccountIds \cup Tokens \cup Identifiers \cup Values
    /\ None \notin Account \cup Session \cup Writing \cup Taking \cup Saving \cup Renewing \cup Placing

VARIABLES
    users,          \* users[u]: the email of user u
    accounts, sessions, verifications,
    call,           \* call[c]: what caller c has still to do, or None
    reply,          \* the error value the last call returned, errors of the database apart
    excused         \* why the last step is not one of the contract, or "no"

tables == <<users, accounts, sessions, verifications>>
vars   == <<tables, call, reply, excused>>

Init ==
    /\ users = [u \in UserIds |-> None]
    /\ accounts = [a \in AccountIds |-> None]
    /\ sessions = [t \in Tokens |-> None]
    /\ verifications = [i \in Identifiers |-> None]
    /\ call = [c \in Callers |-> None]
    /\ reply = "ok" /\ excused = "no"

Doing(c, op)  == call[c] # None /\ call[c].op = op
Enter(c, new) == call[c] = None /\ call' = [call EXCEPT ![c] = new]
Leave(c)      == call' = [call EXCEPT ![c] = None]
Answer(error, why) == reply' = error /\ excused' = why
Silent        == UNCHANGED reply /\ excused' = "no"

(* A DeleteUser(u) that has begun; what it took is shown until it ends.    *)
Begun(c)       == Doing(c, "deleteSessions") \/ Doing(c, "deleteUserRow")
Deleting(c, u) == Begun(c) /\ call[c].user = u
Half(u)        == users[u] # None /\ \E c \in Callers : Deleting(c, u)
Why(u)         == IF Half(u) THEN "half" ELSE "no"

AccountsOf(u) == {a \in AccountIds : accounts[a] # None /\ accounts[a].user = u}
SessionsOf(u) == {t \in Tokens : sessions[t] # None /\ sessions[t].user = u}
Without(table, rows) == [k \in DOMAIN table |-> IF k \in rows THEN None ELSE table[k]]
Only(table, rows)    == Without(table, DOMAIN table \ rows)

(* The rows of a table as the contract sees them.                          *)
Shown(table, taken(_)) ==
    [k \in DOMAIN table |->
        IF table[k] # None THEN table[k]
        ELSE IF \E c \in Callers : taken(c)[k] # None
             THEN LET c == CHOOSE d \in Callers : taken(d)[k] # None IN taken(c)[k]
             ELSE None]
Nothing(table) == [k \in DOMAIN table |-> None]
TakenAccounts(c) ==
    IF Begun(c) /\ users[call[c].user] # None THEN call[c].accounts ELSE Nothing(accounts)
TakenSessions(c) ==
    IF Begun(c) /\ users[call[c].user] # None THEN call[c].sessions ELSE Nothing(sessions)
TakenVerifications(c) ==
    [i \in Identifiers |-> IF Doing(c, "insertVerification") /\ call[c].id = i
                           THEN call[c].old ELSE None]

shownAccounts      == Shown(accounts, TakenAccounts)
shownSessions      == Shown(sessions, TakenSessions)
shownVerifications == Shown(verifications, TakenVerifications)

(* Ids and tokens are random: a new one is not in use, nor about to be.    *)
FreshUser(u)    == /\ users[u] = None /\ AccountsOf(u) \cup SessionsOf(u) = {}
                   /\ \A c \in Callers : call[c] # None => call[c].user # u
FreshAccount(a) == shownAccounts[a] = None /\ \A c \in Callers : call[c] # None => call[c].id # a
FreshToken(t)   == shownSessions[t] = None /\ \A c \in Callers : call[c] # None => call[c].id # t

-----------------------------------------------------------------------------
(* Users.  CreateUser looks for the email and then inserts; what keeps two *)
(* of them from both inserting it is the unique index user_email_idx.      *)
EmailFree(u, e) == \A w \in UserIds \ {u} : users[w] # e

CreateUser(c, u, e) ==
    /\ call[c] = None /\ FreshUser(u)
    /\ \/ /\ ~EmailFree(u, e)
          /\ Answer("alreadyExists", "no") /\ UNCHANGED call
       \/ /\ EmailFree(u, e)
          /\ Enter(c, [op |-> "insertUser", user |-> u, id |-> None, email |-> e]) /\ Silent
    /\ UNCHANGED tables

(* Bug form: there is no unique index.                                     *)
InsertUser_NoIndex(c) ==
    /\ Doing(c, "insertUser")
    /\ users' = [users EXCEPT ![call[c].user] = call[c].email] /\ Answer("ok", "no")
    /\ Leave(c)
    /\ UNCHANGED <<accounts, sessions, verifications>>

InsertUser(c) ==
    LET u == call[c].user  e == call[c].email IN
    /\ Doing(c, "insertUser")
    /\ \/ ~EmailFree(u, e) /\ Silent /\ UNCHANGED users
       \/ EmailFree(u, e) /\ users' = [users EXCEPT ![u] = e] /\ Answer("ok", "no")
    /\ Leave(c)
    /\ UNCHANGED <<accounts, sessions, verifications>>

(* UpdateUser reads the row and writes all of it; e = None where the       *)
(* update leaves the email alone.                                          *)
UpdateUser(c, u, e) ==
    /\ call[c] = None
    /\ \/ users[u] = None /\ Answer("notFound", "no") /\ UNCHANGED call
       \/ /\ users[u] # None /\ Silent
          /\ Enter(c, [op |-> "updateUserRow", user |-> u, id |-> None,
                       email |-> IF e = None THEN users[u] ELSE e])
    /\ UNCHANGED tables

UpdateUserRow(c) ==
    LET u == call[c].user  e == call[c].email IN
    /\ Doing(c, "updateUserRow")
    /\ \/ users[u] = None /\ Answer("ok", "gone") /\ UNCHANGED users
       \/ users[u] # None /\ ~EmailFree(u, e) /\ Silent /\ UNCHANGED users
       \/ users[u] # None /\ EmailFree(u, e)
          /\ users' = [users EXCEPT ![u] = e] /\ Answer("ok", "no")
    /\ Leave(c)
    /\ UNCHANGED <<accounts, sessions, verifications>>

(* DeleteUser: the accounts, the sessions, the row.  Nobody knows the id   *)
(* of a user about to be inserted.  The rows that others insert for the    *)
(* user meanwhile are noted in late.                                       *)
DeleteUser(c, u) ==
    /\ \A d \in Callers : Doing(d, "insertUser") => call[d].user # u
    /\ Enter(c, [op |-> "deleteSessions", user |-> u, id |-> None, late |-> FALSE,
                 accounts |-> Only(accounts, AccountsOf(u)), sessions |-> Nothing(sessions)])
    /\ accounts' = Without(accounts, AccountsOf(u))
    /\ UNCHANGED <<users, sessions, verifications, reply>>
    /\ excused' = IF users[u] = None THEN "orphans" ELSE "no"

DeleteSessionsOf(c) ==
    LET u == call[c].user IN
    /\ Doing(c, "deleteSessions")
    /\ call' = [call EXCEPT ![c].op = "deleteUserRow", ![c].sessions = Only(sessions, SessionsOf(u))]
    /\ sessions' = Without(sessions, SessionsOf(u))
    /\ UNCHANGED <<users, accounts, verifications, reply>>
    /\ excused' = IF users[u] = None THEN "orphans" ELSE "no"

DeleteUserRow(c) ==
    LET u == call[c].user IN
    /\ Doing(c, "deleteUserRow")
    /\ users' = [users EXCEPT ![u] = None]
    /\ IF users[u] = None THEN Answer("notFound", "no")
                          ELSE Answer("ok", IF call[c].late THEN "late" ELSE "no")
    /\ Leave(c)
    /\ UNCHANGED <<accounts, sessions, verifications>>

-----------------------------------------------------------------------------
(* Accounts.  No index keeps the keys of two accounts apart, and an UPDATE *)
(* by key writes every row that has it.                                    *)
InsertedFor(u) ==
    call' = [c \in Callers |-> IF Deleting(c, u) THEN [call[c] EXCEPT !.late = TRUE] ELSE call[c]]

KeyShared(row) ==
    \E b \in AccountIds :
       /\ shownAccounts[b] # None /\ shownAccounts[b].provider = row.provider
       /\ shownAccounts[b].user = row.user \/ shownAccounts[b].ext = row.ext

CreateAccount(a, row) ==
    /\ FreshAccount(a)
    /\ accounts' = [accounts EXCEPT ![a] = row]
    /\ InsertedFor(row.user)
    /\ Answer("ok", IF KeyShared(row) THEN "sharedKey" ELSE "no")
    /\ UNCHANGED <<users, sessions, verifications>>

UpdateAccount(c, a, s) ==
    /\ call[c] = None
    /\ \/ /\ accounts[a] = None /\ UNCHANGED call
          /\ Answer("notFound", IF shownAccounts[a] # None THEN "half" ELSE "no")
       \/ /\ accounts[a] # None /\ Silent
          /\ Enter(c, [op |-> "updateAccountRow", user |-> None, id |-> a, secret |-> s])
    /\ UNCHANGED tables

UpdateAccountRow(c) ==
    LET a == call[c].id IN
    /\ Doing(c, "updateAccountRow")
    /\ \/ accounts[a] = None /\ Answer("ok", "gone") /\ UNCHANGED accounts
       \/ /\ accounts[a] # None /\ Answer("ok", "no")
          /\ accounts' = [accounts EXCEPT ![a].secret = call[c].secret]
    /\ Leave(c)
    /\ UNCHANGED <<users, sessions, verifications>>

UpdateAccountPassword(u, p, s) ==
    LET found == {a \in AccountsOf(u) : accounts[a].provider = p} IN
    /\ accounts' = [a \in AccountIds |-> IF a \in found THEN [accounts[a] EXCEPT !.secret = s]
                                                        ELSE accounts[a]]
    /\ \/ found = {} /\ Answer("notFound", Why(u))
       \/ found # {} /\ Answer("ok", IF \E a, b \in found : a # b THEN "sharedKey" ELSE "no")
    /\ UNCHANGED <<users, sessions, verifications, call>>

DeleteAccount(a) ==
    /\ accounts' = [accounts EXCEPT ![a] = None]
    /\ \/ accounts[a] # None /\ Answer("ok", "no")
       \/ accounts[a] = None /\ Answer("notFound", IF shownAccounts[a] # None THEN "half" ELSE "no")
    /\ UNCHANGED <<users, sessions, verifications, call>>

-----------------------------------------------------------------------------
(* Sessions.                                                               *)
CreateSession(t, row) ==
    /\ FreshToken(t)
    /\ sessions' = [sessions EXCEPT ![t] = row]
    /\ InsertedFor(row.user)
    /\ Answer("ok", "no")
    /\ UNCHANGED <<users, accounts, verifications>>

UpdateSession(c, t, s) ==
    /\ call[c] = None
    /\ \/ /\ sessions[t] = None /\ UNCHANGED call
          /\ Answer("notFound", IF shownSessions[t] # None THEN "half" ELSE "no")
       \/ /\ sessions[t] # None /\ Silent
          /\ Enter(c, [op |-> "updateSessionRow", user |-> None, id |-> t,
                       row |-> [sessions[t] EXCEPT !.stamp = s]])
    /\ UNCHANGED tables

UpdateSessionRow(c) ==
    LET t == call[c].id IN
    /\ Doing(c, "updateSessionRow")
    /\ \/ sessions[t] = None /\ Answer("ok", "gone") /\ UNCHANGED sessions
       \/ /\ sessions[t] # None /\ Answer("ok", "no")
          /\ sessions' = [sessions EXCEPT ![t] = call[c].row]
    /\ Leave(c)
    /\ UNCHANGED <<users, accounts, verifications>>

DeleteSession(t) ==
    /\ sessions' = [sessions EXCEPT ![t] = None]
    /\ Answer("ok", IF shownSessions[t] # sessions[t] THEN "half" ELSE "no")
    /\ UNCHANGED <<users, accounts, verifications, call>>

(* Every session of u but the one with token except; except = None for all. *)
DeleteSessionsByUserID(u, except) ==
    /\ sessions' = Without(sessions, SessionsOf(u) \ {except})
    /\ Answer("ok", Why(u))
    /\ UNCHANGED <<users, accounts, verifications, call>>

DeleteAllSessionsByUserID(u) == DeleteSessionsByUserID(u, None)

-----------------------------------------------------------------------------
(* Verifications: DELETE, whose error is ignored, and INSERT, which the    *)
(* unique index on the identifier may refuse.                              *)
CreateVerification(c, i, v) ==
    \E removed \in {TRUE, FALSE} :
       /\ Enter(c, [op |-> "insertVerification", user |-> None, id |-> i, value |-> v,
                    old |-> IF removed THEN verifications[i] ELSE None])
       /\ verifications' = IF removed THEN [verifications EXCEPT ![i] = None] ELSE verifications
       /\ UNCHANGED <<users, accounts, sessions>> /\ Silent

InsertVerification(c) ==
    LET i == call[c].id IN
    /\ Doing(c, "insertVerification")
    /\ \/ verifications[i] # None /\ Leave(c) /\ Silent /\ UNCHANGED verifications
       \/ /\ verifications[i] = None
          /\ verifications' = [verifications EXCEPT ![i] = call[c].value]
          /\ call' = [d \in Callers |-> IF d = c THEN None
                                        ELSE IF Doing(d, "insertVerification") /\ call[d].id = i
                                             THEN [call[d] EXCEPT !.old = None] ELSE call[d]]
          /\ Answer("ok", "no")
    /\ UNCHANGED <<users, accounts, sessions>>

DeleteVerificationByIdentifier(i) ==
    /\ verifications' = [verifications EXCEPT ![i] = None]
    /\ \/ verifications[i] # None /\ Answer("ok", "no")
       \/ /\ verifications[i] = None
          /\ Answer("notFound", IF shownVerifications[i] # None THEN "half" ELSE "no")
    /\ UNCHANGED <<users, accounts, sessions, call>>

-----------------------------------------------------------------------------
(* A statement fails, or the server stops: what the call has done stays.   *)
Fail(c) ==
    /\ call[c] # None /\ Leave(c)
    /\ UNCHANGED <<tables, reply>>
    /\ excused' = IF Begun(c) \/ Doing(c, "insertVerification") THEN "failed" ELSE "no"

Call(c) ==
    \/ \E u \in UserIds, e \in Emails : CreateUser(c, u, e)
    \/ \E u \in UserIds, e \in Emails \cup {None} : UpdateUser(c, u, e)
    \/ \E u \in UserIds : DeleteUser(c, u)
    \/ \E a \in AccountIds, s \in Secrets : UpdateAccount(c, a, s)
    \/ \E t \in Tokens, s \in Stamps : UpdateSession(c, t, s)
    \/ \E i \in Identifiers, v \in Values : CreateVerification(c, i, v)

Statement(c) ==
    \/ InsertUser(c) \/ UpdateUserRow(c) \/ DeleteSessionsOf(c) \/ DeleteUserRow(c)
    \/ UpdateAccountRow(c) \/ UpdateSessionRow(c) \/ InsertVerification(c) \/ Fail(c)

Single ==
    \/ \E a \in AccountIds, row \in Account : CreateAccount(a, row)
    \/ \E a \in AccountIds : DeleteAccount(a)
    \/ \E u \in UserIds, p \in Providers, s \in Secrets : UpdateAccountPassword(u, p, s)
    \/ \E t \in Tokens, row \in Session : CreateSession(t, row)
    \/ \E t \in Tokens : DeleteSession(t)
    \/ \E u \in UserIds : DeleteAllSessionsByUserID(u)
    \/ \E u \in UserIds, t \in Tokens : DeleteSessionsByUserID(u, t)
    \/ \E i \in Identifiers : DeleteVerificationByIdentifier(i)

Next == Single \/ \E c \in Callers : Call(c) \/ Statement(c)

Spec == Init /\ [][Next]_vars

-----------------------------------------------------------------------------
Contract == INSTANCE StoreContract
    WITH accounts <- shownAccounts, sessions <- shownSessions,
         verifications <- shownVerifications,
         unlisted <- {}, shadowed <- {}, detached <- {}

(* The SQL store keeps the contract of the core rows, and in it no row is  *)
(* ever out of reach, whatever the statements of concurrent calls do in    *)
(* between, but for the steps that excused names: a call meets a user or   *)
(* identifier half deleted, an update's row has gone, a deletion fails     *)
(* half-way or is overtaken by an insert, two accounts share a key, or the *)
(* deleted user is no user any more.                                       *)
ImplementsContract ==
    Contract!Init /\ [][excused' = "no" => [Contract!Next]_(Contract!vars)]_vars
=============================================================================
