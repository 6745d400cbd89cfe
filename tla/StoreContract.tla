---------------------------- MODULE StoreContract ----------------------------
(***************************************************************************)
(* What the core rows of store.Store are, as the callers in package auth   *)
(* see them: four tables and, for the lookups that go by a key which two   *)
(* rows can share, which rows such a lookup still reaches.  There is no    *)
(* index here.  A row stays reachable by a key until a later row takes the *)
(* key (last writer wins) or the key is given up, and then it never comes  *)
(* back unless it is written again.                                        *)
(*                                                                         *)
(* MemoryStore implements this module with seven index maps.               *)
(***************************************************************************)

CONSTANTS UserIds, Emails, AccountIds, Providers, ExternalIds, Secrets,
          Tokens, Stamps, Identifiers, Values,
          None       \* the absent row, the absent key

Account == [user : UserIds, provider : Providers, ext : ExternalIds, secret : Secrets]
Session == [user : UserIds, stamp : Stamps]

VARIABLES
    users,          \* users[u]: the email of user u
    accounts,       \* accounts[a]: the account row a
    sessions,       \* sessions[t]: the session with token t
    verifications,  \* verifications[i]: the value under identifier i
    unlisted,       \* users that no lookup by email reaches
    shadowed,       \* accounts that no lookup by (user, provider) reaches
    detached,       \* accounts that no lookup by (provider, external id) reaches
    reply           \* the error value the last call returned

tables == <<users, accounts, sessions, verifications>>
reach  == <<unlisted, shadowed, detached>>
vars   == <<tables, reach, reply>>

Replies == {"ok", "notFound", "alreadyExists"}

Init ==
    /\ users = [u \in UserIds |-> None]
    /\ accounts = [a \in AccountIds |-> None]
    /\ sessions = [t \in Tokens |-> None]
    /\ verifications = [i \in Identifiers |-> None]
    /\ unlisted = {} /\ shadowed = {} /\ detached = {}
    /\ reply = "ok"

Refuse(error) == reply' = error /\ UNCHANGED <<tables, reach>>

SameKey(a, row)      == accounts[a] # None /\ accounts[a].user = row.user
                                           /\ accounts[a].provider = row.provider
SameExternal(a, row) == accounts[a] # None /\ accounts[a].provider = row.provider
                                           /\ accounts[a].ext = row.ext

-----------------------------------------------------------------------------
(* Users.  Identifiers are fresh random strings: a live one is not reused. *)

CreateUser(u, e) ==
    /\ users[u] = None
    /\ \/ /\ \E w \in UserIds \ unlisted : users[w] = e
          /\ Refuse("alreadyExists")
       \/ /\ \A w \in UserIds \ unlisted : users[w] # e
          /\ users' = [users EXCEPT ![u] = e]
          /\ reply' = "ok"
          /\ UNCHANGED <<accounts, sessions, verifications, reach>>

(* The email a user takes, and the one it gives up, reach nobody else.     *)
UpdateUserEmail(u, e) ==
    \/ users[u] = None /\ Refuse("notFound")
    \/ /\ users[u] # None
       /\ users' = [users EXCEPT ![u] = e]
       /\ unlisted' = (unlisted \cup {w \in UserIds : users[w] \in {users[u], e}}) \ {u}
       /\ reply' = "ok"
       /\ UNCHANGED <<accounts, sessions, verifications, shadowed, detached>>

DeleteUser(u) ==
    \/ users[u] = None /\ Refuse("notFound")
    \/ /\ users[u] # None
       /\ users' = [users EXCEPT ![u] = None]
       /\ unlisted' = (unlisted \cup {w \in UserIds : users[w] = users[u]}) \ {u}
       /\ LET gone == {a \in AccountIds : accounts[a] # None /\ accounts[a].user = u}
          IN  /\ accounts' = [a \in AccountIds |-> IF a \in gone THEN None ELSE accounts[a]]
              /\ shadowed' = shadowed \ gone
              /\ detached' = detached \ gone
       /\ sessions' = [t \in Tokens |-> IF sessions[t] # None /\ sessions[t].user = u
                                        THEN None ELSE sessions[t]]
       /\ reply' = "ok"
       /\ UNCHANGED verifications

-----------------------------------------------------------------------------
(* Accounts.                                                               *)

CreateAccount(a, row) ==
    /\ accounts' = [accounts EXCEPT ![a] = row]
    /\ shadowed' = (shadowed \cup {b \in AccountIds : SameKey(b, row)}) \ {a}
    /\ detached' = (detached \cup {b \in AccountIds : SameExternal(b, row)}) \ {a}
    /\ reply' = "ok"
    /\ UNCHANGED <<users, sessions, verifications, unlisted>>

UpdateAccount(a, s) ==
    \/ accounts[a] = None /\ Refuse("notFound")
    \/ /\ accounts[a] # None
       /\ accounts' = [accounts EXCEPT ![a].secret = s]
       /\ reply' = "ok"
       /\ UNCHANGED <<users, sessions, verifications, reach>>

(* Goes by (user, provider): an account that lookup misses is not updated. *)
UpdateAccountPassword(u, p, s) ==
    LET reached == {a \in AccountIds \ shadowed :
                        accounts[a] # None /\ accounts[a].user = u /\ accounts[a].provider = p}
    IN  \/ reached = {} /\ Refuse("notFound")
        \/ \E a \in reached :
              /\ accounts' = [accounts EXCEPT ![a].secret = s]
              /\ reply' = "ok"
              /\ UNCHANGED <<users, sessions, verifications, reach>>

DeleteAccount(a) ==
    \/ accounts[a] = None /\ Refuse("notFound")
    \/ /\ accounts[a] # None
       /\ accounts' = [accounts EXCEPT ![a] = None]
       /\ shadowed' = shadowed \ {a}
       /\ detached' = detached \ {a}
       /\ reply' = "ok"
       /\ UNCHANGED <<users, sessions, verifications, unlisted>>

-----------------------------------------------------------------------------
(* Sessions and verifications.                                             *)

PutSession(t, row) ==
    /\ sessions' = [sessions EXCEPT ![t] = row]
    /\ reply' = "ok"
    /\ UNCHANGED <<users, accounts, verifications, reach>>

UpdateSession(t, s) ==
    \/ sessions[t] = None /\ Refuse("notFound")
    \/ /\ sessions[t] # None
       /\ PutSession(t, [sessions[t] EXCEPT !.stamp = s])

(* Every session of u but the one with token except; except = None for all. *)
DeleteSessionsByUserID(u, except) ==
    /\ sessions' = [t \in Tokens |->
                      IF t # except /\ sessions[t] # None /\ sessions[t].user = u
                      THEN None ELSE sessions[t]]
    /\ reply' = "ok"
    /\ UNCHANGED <<users, accounts, verifications, reach>>

CreateVerification(i, v) ==
    /\ verifications' = [verifications EXCEPT ![i] = v]
    /\ reply' = "ok"
    /\ UNCHANGED <<users, accounts, sessions, reach>>

(* Tells its caller whether there was a row: at most one of the callers    *)
(* that delete the same identifier is told "ok".                           *)
DeleteVerificationByIdentifier(i) ==
    \/ verifications[i] = None /\ Refuse("notFound")
    \/ /\ verifications[i] # None
       /\ CreateVerification(i, None)

-----------------------------------------------------------------------------
Next ==
    \/ \E u \in UserIds :
          \/ \E e \in Emails : CreateUser(u, e) \/ UpdateUserEmail(u, e)
          \/ DeleteUser(u)
          \/ \E t \in Tokens \cup {None} : DeleteSessionsByUserID(u, t)
          \/ \E p \in Providers, s \in Secrets : UpdateAccountPassword(u, p, s)
    \/ \E a \in AccountIds :
          \/ \E row \in Account : CreateAccount(a, row)
          \/ \E s \in Secrets : UpdateAccount(a, s)
          \/ DeleteAccount(a)
    \/ \E t \in Tokens :
          \/ \E row \in Session \cup {None} : PutSession(t, row)
          \/ \E s \in Stamps : UpdateSession(t, s)
    \/ \E i \in Identifiers :
          \/ \E v \in Values : CreateVerification(i, v)
          \/ DeleteVerificationByIdentifier(i)

Spec == Init /\ [][Next]_vars
=============================================================================
