-------------------------- MODULE FederationProofs --------------------------
(* Proofs about Federation, for any number of requests, users, providers   *)
(* and tokens; the bound that all is of one provider at a time is not used.*)
EXTENDS Federation, TLAPS

Finding == {"find", "link", "byEmail", "createUser", "createAccount"}
Signing == {"update", "updating", "updateSSO", "findUser", "override", "session"}
Saving  == {"save", "saving"}
Asking  == {"ask"} \cup Saving

(* What a request at a stage holds.                                        *)
Holds(c, stage) ==
    /\ stage \in {"exchange", "findSSO"} \cup Finding \cup Signing \cup Asking /\ c \in Call
    /\ stage \in {"update", "updating", "updateSSO"} \cup Asking => c.acc \in AccountIds
    /\ stage \notin {"updating", "saving"} \/ c.tok # None => c.copy = None
    /\ stage = "link" => c.link \in UserIds
    /\ stage \in Signing \cup {"createAccount"} => c.user \in UserIds
    /\ stage \in {"exchange", "findSSO", "updateSSO", "findUser", "override", "session"} => c.tok = None
    /\ stage = "ask" \/ (stage \in Saving /\ c.how = "refresh") => c.tok \in Tokens
    /\ stage \in {"find", "findSSO", "byEmail", "createUser", "override"} => c.email \in Emails
    /\ stage \in {"find", "link", "update", "updating"} => c.prov \in Generic
    /\ stage \in {"findSSO", "updateSSO"} => c.prov \in SSOIds
    /\ stage \in {"update", "updating"} /\ c.link = None => c.email \in Emails
    /\ stage = "findUser" /\ c.prov \in Generic => c.email \in Emails

(* Rows and requests have their form.                                      *)
TypeOK ==
    /\ users \in [UserIds -> Emails \cup {None}]
    /\ accounts \in [AccountIds -> Account \cup {None}]
    /\ states \in [States -> Flow \cup {None}]
    /\ pc \in [Requests -> {"idle", "exchange", "findSSO"} \cup Finding \cup Signing \cup Asking]
    /\ call \in [Requests -> Call \cup {None}]
    /\ \A r \in Requests : IF pc[r] = "idle" THEN call[r] = None ELSE Holds(call[r], pc[r])
    /\ revoked \subseteq Tokens /\ mixed \subseteq Providers /\ spoilt \subseteq AccountIds

(* No two owners have a refresh token in common but an account and the     *)
(* requests that refresh it.                                               *)
TokensApart ==
    /\ \A a, b \in AccountIds :
          Stored(a) /\ Stored(b) /\ accounts[a].tok = accounts[b].tok /\ accounts[a].tok # None => a = b
    /\ \A r \in Requests, a \in AccountIds :
          Running(r) /\ Stored(a) /\ call[r].tok = accounts[a].tok /\ call[r].tok # None =>
              Refreshing(r, a)
    /\ \A r, q \in Requests :
          Running(r) /\ Running(q) /\ r # q /\ call[r].tok = call[q].tok /\ call[r].tok # None =>
              Refreshing(r, call[q].acc) /\ Refreshing(q, call[r].acc)

(* A token that a request has copied from a row is that row's alone.       *)
CopiesApart ==
    \A r \in Requests : Running(r) /\ call[r].copy # None =>
       /\ \A a \in AccountIds : Stored(a) /\ accounts[a].tok = call[r].copy => a = call[r].acc
       /\ \A q \in Requests : Running(q) /\ call[q].tok = call[r].copy => Refreshing(q, call[r].acc)
       /\ \A q \in Requests : Running(q) /\ call[q].copy = call[r].copy => call[q].acc = call[r].acc

(* An account that is not spoilt is refreshed by one request at a time,    *)
(* which stores what its provider honours; so does a sign-in.              *)
RefreshInv ==
    /\ \A a \in AccountIds \ spoilt : Stored(a) =>
          /\ \A r, q \in Requests : Refreshing(r, a) /\ Refreshing(q, a) => r = q
          /\ \A r \in Requests : Refreshing(r, a) /\ pc[r] \in Saving => call[r].tok \notin revoked
          /\ accounts[a].tok \in revoked =>
                \E r \in Requests : Refreshing(r, a) /\ pc[r] \in Saving /\ call[r].tok # None
    /\ \A r \in Requests : Running(r) /\ pc[r] \notin Asking => call[r].tok \notin revoked

(* While nobody has mixed it up, a provider's identity has one account at  *)
(* most, one request looks for a user to give it one, and the requests that*)
(* have found the account have found its user.                             *)
IdentityInv ==
    \A p \in Providers \ mixed :
       /\ \A a, b \in AccountsOf(p) : a = b
       /\ \A r \in Requests : Searching(r) /\ call[r].prov = p =>
             /\ AccountsOf(p) = {}
             /\ \A q \in Requests : Searching(q) /\ call[q].prov = p => q = r
       /\ \A r \in Requests : pc[r] \in Signing /\ call[r].prov = p =>
             \E a \in AccountsOf(p) : accounts[a].user = call[r].user

IInv == TypeOK /\ TokensApart /\ CopiesApart /\ RefreshInv /\ IdentityInv

-----------------------------------------------------------------------------
(* The steps of a request leave the form of the others alone.              *)
LEMMA KeepType ==
    ASSUME TypeOK, NEW r \in Requests, NEW c, NEW stage, Keep(r, c, stage),
           IF stage = "idle" THEN c = None ELSE Holds(c, stage)
    PROVE  /\ pc' \in [Requests -> {"idle", "exchange", "findSSO"} \cup Finding \cup Signing \cup Asking]
           /\ call' \in [Requests -> Call \cup {None}]
           /\ \A q \in Requests : IF pc'[q] = "idle" THEN call'[q] = None ELSE Holds(call'[q], pc'[q])
           /\ pc'[r] = stage /\ call'[r] = c
           /\ \A q \in Requests \ {r} : pc'[q] = pc[q] /\ call'[q] = call[q]
<1>1. /\ pc'[r] = stage /\ call'[r] = c
      /\ \A q \in Requests \ {r} : pc'[q] = pc[q] /\ call'[q] = call[q]
  BY DEF TypeOK, Keep
<1>2. \A q \in Requests : IF pc'[q] = "idle" THEN call'[q] = None ELSE Holds(call'[q], pc'[q])
  BY <1>1 DEF TypeOK
<1>3. stage \in {"idle", "exchange", "findSSO"} \cup Finding \cup Signing \cup Asking /\ c \in Call \cup {None}
  BY DEF Holds
<1> QED
  BY <1>1, <1>2, <1>3 DEF TypeOK, Keep

(* A step of one request keeps the copies apart when what it writes, holds *)
(* and copies belongs to the account that the copies are of.               *)
LEMMA CopiesKeep ==
    ASSUME CopiesApart, NEW r \in Requests,
           \A q \in Requests \ {r} : pc'[q] = pc[q] /\ call'[q] = call[q],
           \A b \in AccountIds : Stored(b)' =>
               \/ Stored(b) /\ accounts'[b].tok = accounts[b].tok
               \/ \A q \in Requests \ {r} : Running(q) /\ call[q].copy # None
                      /\ call[q].copy = accounts'[b].tok => call[q].acc = b,
           Running(r)' => \A q \in Requests \ {r} : Running(q) /\ call[q].copy # None
               /\ call'[r].tok = call[q].copy => Refreshing(r, call[q].acc)',
           \A a : Running(r)' /\ call'[r].copy # None /\ a = call'[r].acc =>
               /\ \A b \in AccountIds : Stored(b)' /\ accounts'[b].tok = call'[r].copy => b = a
               /\ \A q \in Requests : Running(q)' /\ call'[q].tok = call'[r].copy => Refreshing(q, a)'
               /\ \A q \in Requests \ {r} : Running(q) /\ call[q].copy = call'[r].copy => call[q].acc = a
    PROVE  CopiesApart'
<1>1. \A q \in Requests \ {r} : /\ Running(q)' <=> Running(q)
                                /\ \A b : Refreshing(q, b)' <=> Refreshing(q, b)
  BY DEF Running, Refreshing
<1>2. ASSUME NEW q \in Requests, q # r, Running(q)', call'[q].copy # None, NEW a, a = call'[q].acc
      PROVE  /\ \A b \in AccountIds : Stored(b)' /\ accounts'[b].tok = call'[q].copy => b = a
             /\ \A x \in Requests : Running(x)' /\ call'[x].tok = call'[q].copy => Refreshing(x, a)'
             /\ \A x \in Requests : Running(x)' /\ call'[x].copy = call'[q].copy => call'[x].acc = a
  <2>1. Running(q) /\ call'[q] = call[q] /\ a = call[q].acc
    BY <1>1, <1>2
  <2>2. \A b \in AccountIds : Stored(b)' /\ accounts'[b].tok = call[q].copy => b = a
    BY <1>2, <2>1 DEF CopiesApart
  <2>3. \A x \in Requests \ {r} : Running(x)' /\ call'[x].tok = call[q].copy => Refreshing(x, a)'
    BY <1>1, <1>2, <2>1 DEF CopiesApart
  <2>4. Running(r)' /\ call'[r].tok = call[q].copy => Refreshing(r, a)'
    BY <1>2, <2>1
  <2>5. \A x \in Requests \ {r} : Running(x)' /\ call'[x].copy = call[q].copy => call'[x].acc = a
    BY <1>1, <1>2, <2>1 DEF CopiesApart
  <2>6. Running(r)' /\ call'[r].copy = call[q].copy => call'[r].acc = a
    BY <1>1, <1>2, <2>1
  <2> QED
    BY <2>1, <2>2, <2>3, <2>4, <2>5, <2>6
<1>3. ASSUME Running(r)', call'[r].copy # None, NEW a, a = call'[r].acc
      PROVE  /\ \A b \in AccountIds : Stored(b)' /\ accounts'[b].tok = call'[r].copy => b = a
             /\ \A x \in Requests : Running(x)' /\ call'[x].tok = call'[r].copy => Refreshing(x, a)'
             /\ \A x \in Requests : Running(x)' /\ call'[x].copy = call'[r].copy => call'[x].acc = a
  BY <1>1, <1>3
<1>4. ASSUME NEW q \in Requests, Running(q)', call'[q].copy # None, NEW a, a = call'[q].acc
      PROVE  /\ \A b \in AccountIds : Stored(b)' /\ accounts'[b].tok = call'[q].copy => b = a
             /\ \A x \in Requests : Running(x)' /\ call'[x].tok = call'[q].copy => Refreshing(x, a)'
             /\ \A x \in Requests : Running(x)' /\ call'[x].copy = call'[q].copy => call'[x].acc = a
  BY <1>2, <1>3, <1>4
<1> QED
  BY <1>4 DEF CopiesApart

(* A step that neither refreshes nor writes a token, nor takes one, keeps  *)
(* the tokens apart and honoured.                                          *)
LEMMA WalkTokens ==
    ASSUME TypeOK, TokensApart, CopiesApart, RefreshInv, NEW r \in Requests, pc[r] \notin Asking,
           NEW c, NEW stage, Keep(r, c, stage), stage \notin Asking, stage # "updating",
           IF stage = "idle" THEN c = None ELSE Holds(c, stage),
           stage # "idle" => c.tok = None \/ (Running(r) /\ c.tok = call[r].tok),
           UNCHANGED <<accounts, revoked, spoilt>>
    PROVE  TokensApart' /\ CopiesApart' /\ RefreshInv'
<1>1. /\ pc'[r] = stage /\ call'[r] = c
      /\ \A q \in Requests \ {r} : pc'[q] = pc[q] /\ call'[q] = call[q]
  BY KeepType
<1>2. /\ \A q \in Requests : \A a : Refreshing(q, a)' <=> Refreshing(q, a)
      /\ \A q \in Requests : pc'[q] \in Asking <=> pc[q] \in Asking
      /\ \A q \in Requests : pc[q] \in Asking => pc'[q] = pc[q] /\ call'[q] = call[q]
  BY <1>1 DEF Refreshing, Running, Asking, Saving
<1>3. \A q \in Requests : Running(q)' => call'[q].tok = None \/ (Running(q) /\ call'[q].tok = call[q].tok)
  BY <1>1 DEF Running, Holds
<1>4. TokensApart'
  <2>1. \A q \in Requests : \A a : Refreshing(q, a) => call'[q] = call[q]
    BY <1>2 DEF Refreshing, Asking, Saving
  <2> QED
    BY <1>2, <1>3, <2>1 DEF TokensApart, Stored
<1>5. RefreshInv'
  <2>1. \A q \in Requests : Running(q)' /\ pc'[q] \notin Asking => call'[q].tok \notin revoked'
    BY <1>2, <1>3, NamesAssumption DEF RefreshInv, TypeOK
  <2>2. \A q \in Requests : \A a : Refreshing(q, a) => pc'[q] = pc[q] /\ call'[q] = call[q]
    BY <1>2 DEF Refreshing, Asking, Saving
  <2> QED
    BY <1>2, <2>1, <2>2 DEF RefreshInv, Stored
<1>6. CopiesApart'
  <2>1. Running(r)' => call'[r].copy = None
    BY <1>1 DEF Running, Holds, Asking, Saving
  <2>2. Running(r)' => \A q \in Requests \ {r} : Running(q) /\ call[q].copy # None
            /\ call'[r].tok = call[q].copy => Refreshing(r, call[q].acc)'
    BY <1>1, <1>2, <1>3 DEF CopiesApart
  <2>3. \A b \in AccountIds : Stored(b)' => Stored(b) /\ accounts'[b].tok = accounts[b].tok
    BY DEF Stored
  <2> QED
    BY <1>1, <2>1, <2>2, <2>3, CopiesKeep
<1> QED BY <1>4, <1>5, <1>6

(* A step that neither looks an account up nor writes one keeps what the   *)
(* identities are.                                                         *)
LEMMA WalkIdentity ==
    ASSUME TypeOK, IdentityInv, NEW r \in Requests,
           NEW c, NEW stage, Keep(r, c, stage),
           IF stage = "idle" THEN c = None ELSE Holds(c, stage),
           stage \in {"byEmail", "createUser", "createAccount"} => Searching(r) /\ c.prov = call[r].prov,
           stage \in Signing => pc[r] \in Signing /\ c.prov = call[r].prov /\ c.user = call[r].user,
           \A a \in AccountIds : /\ Stored(a)' <=> Stored(a)
                                 /\ Stored(a) => /\ accounts'[a].prov = accounts[a].prov
                                                 /\ accounts'[a].user = accounts[a].user,
           UNCHANGED mixed
    PROVE  IdentityInv'
<1>1. /\ pc'[r] = stage /\ call'[r] = c
      /\ \A q \in Requests \ {r} : pc'[q] = pc[q] /\ call'[q] = call[q]
  BY KeepType
<1>2. \A p : AccountsOf(p)' = AccountsOf(p)
  BY DEF AccountsOf
<1>3. \A q \in Requests : /\ Searching(q)' => Searching(q) /\ call'[q].prov = call[q].prov
                          /\ pc'[q] \in Signing => /\ pc[q] \in Signing
                                                   /\ call'[q].prov = call[q].prov
                                                   /\ call'[q].user = call[q].user
  BY <1>1 DEF Searching
<1>4. \A p, a : a \in AccountsOf(p) => accounts'[a].user = accounts[a].user
  BY DEF AccountsOf
<1> QED
  BY <1>2, <1>3, <1>4 DEF IdentityInv

LEMMA HoldsAt ==
    ASSUME IInv, NEW r \in Requests, pc[r] # "idle"
    PROVE  Holds(call[r], pc[r]) /\ Running(r) /\ call[r] \in Call
BY NamesAssumption DEF IInv, TypeOK, Running, Holds

LEMMA GoKeep ==
    ASSUME TypeOK, NEW r \in Requests, NEW stage, Go(r, stage)
    PROVE  Keep(r, call[r], stage)
BY DEF TypeOK, Go, Keep

(* A request's step of that kind, and what it leaves alone.                *)
Walks(r, c, stage) ==
    /\ pc[r] \notin Asking /\ stage \notin Asking /\ stage # "updating"
    /\ Keep(r, c, stage)
    /\ IF stage = "idle" THEN c = None ELSE Holds(c, stage)
    /\ stage # "idle" => c.tok = None \/ (Running(r) /\ c.tok = call[r].tok)
    /\ stage \in {"byEmail", "createUser", "createAccount"} => Searching(r) /\ c.prov = call[r].prov
    /\ stage \in Signing => pc[r] \in Signing /\ c.prov = call[r].prov /\ c.user = call[r].user

Quiet ==
    /\ UNCHANGED <<accounts, revoked, ghosts>>
    /\ UNCHANGED users \/ users' \in [UserIds -> Emails \cup {None}]
    /\ UNCHANGED states \/ states' \in [States -> Flow \cup {None}]

LEMMA WalkKeeps ==
    ASSUME IInv, NEW r \in Requests, NEW c, NEW stage, Walks(r, c, stage), Quiet
    PROVE  IInv'
<1>1. TypeOK'
  BY KeepType DEF IInv, TypeOK, ghosts, Walks, Quiet
<1>2. TokensApart' /\ CopiesApart' /\ RefreshInv'
  BY WalkTokens DEF IInv, ghosts, Walks, Quiet
<1>3. IdentityInv'
  BY WalkIdentity DEF IInv, ghosts, Stored, Walks, Quiet
<1> QED
  BY <1>1, <1>2, <1>3 DEF IInv

LEMMA StopWalks ==
    ASSUME IInv, NEW r \in Requests, pc[r] \notin Asking, Return(r), Quiet
    PROVE  IInv'
BY WalkKeeps DEF Return, Walks, Asking, Saving, Signing

LEMMA QuietRows ==
    ASSUME UNCHANGED <<rows, revoked, ghosts>>
    PROVE  Quiet
BY DEF rows, Quiet

LEMMA CallbackKeeps ==
    ASSUME IInv, NEW r \in Requests, Callback(r)
    PROVE  IInv'
<1>1. PICK s, c : /\ s \in States /\ states[s] # None /\ pc[r] = "idle"
                  /\ c = Request("code", states[s].prov, states[s].link)
                  /\ Keep(r, c, "exchange")
                  /\ states' \in {states, [states EXCEPT ![s] = None]}
                  /\ UNCHANGED <<users, accounts, ssoProviders, revoked, ghosts>>
  BY DEF Callback, Begin
<1>2. Holds(c, "exchange") /\ c.tok = None
  BY <1>1 DEF IInv, TypeOK, Flow, Holds, Request, Call, Signing, Asking, Saving
<1>3. Walks(r, c, "exchange")
  BY <1>1, <1>2 DEF Walks, Signing, Asking, Saving
<1>4. Quiet
  BY <1>1 DEF Quiet, IInv, TypeOK
<1> QED
  BY <1>3, <1>4, WalkKeeps

LEMMA ACSKeeps ==
    ASSUME IInv, NEW r \in Requests, ACS(r)
    PROVE  IInv'
<1>1. PICK p, e, c :
             /\ p \in SSOIds /\ e \in Emails
             /\ c = [Request("saml", p, None) EXCEPT !.email = e]
             /\ pc[r] = "idle" /\ Keep(r, c, "findSSO") /\ UNCHANGED <<rows, revoked, ghosts>>
  BY DEF ACS, Begin, Asserted
<1>2. c.tok = None /\ Holds(c, "findSSO")
  BY <1>1 DEF Holds, Request, Call, Finding, Signing, Asking, Saving, Providers
<1>3. Walks(r, c, "findSSO")
  BY <1>1, <1>2 DEF Walks, Signing, Asking, Saving
<1> QED
  BY <1>1, <1>3, QuietRows, WalkKeeps

LEMMA ExchangeSSOKeeps ==
    ASSUME IInv, NEW r \in Requests, ExchangeSSO(r)
    PROVE  IInv'
<1>1. PICK e, c :
             /\ e \in Emails /\ c = [call[r] EXCEPT !.email = e]
             /\ pc[r] = "exchange" /\ call[r].prov \in SSOIds
             /\ Keep(r, c, "findSSO") /\ UNCHANGED <<rows, revoked, ghosts>>
  BY DEF ExchangeSSO, Claimed
<1>2. Holds(call[r], "exchange")
  BY <1>1 DEF IInv, TypeOK
<1>3. Holds(c, "findSSO") /\ c.tok = None
  BY <1>1, <1>2 DEF Holds, Call, Finding, Signing, Asking, Saving
<1>4. Walks(r, c, "findSSO")
  BY <1>1, <1>3 DEF Walks, Signing, Asking, Saving
<1> QED
  BY <1>1, <1>4, QuietRows, WalkKeeps

LEMMA UpdateSSOAccountKeeps ==
    ASSUME IInv, NEW r \in Requests, UpdateSSOAccount(r)
    PROVE  IInv'
<1>1. Holds(call[r], "updateSSO") /\ pc[r] = "updateSSO" /\ Running(r) /\ Quiet
  BY HoldsAt, QuietRows DEF UpdateSSOAccount
<1>2. CASE Return(r)
  BY <1>1, <1>2, StopWalks DEF Asking, Saving
<1>3. ASSUME NEW c, c = [call[r] EXCEPT !.acc = None], Keep(r, c, "findUser") PROVE IInv'
  <2>1. call[r] \in Call /\ call[r].prov \notin Generic /\ call[r].user \in UserIds
    BY <1>1, NamesAssumption DEF Holds, Signing
  <2>2. /\ c \in Call /\ c.tok = call[r].tok /\ c.copy = call[r].copy
        /\ c.prov = call[r].prov /\ c.user = call[r].user
    BY <1>3, <2>1 DEF Call
  <2>3. c.tok = None /\ c.copy = None
    BY <1>1, <2>2 DEF Holds
  <2>4. Holds(c, "findUser")
    BY <2>1, <2>2, <2>3 DEF Holds, Finding, Signing, Asking, Saving
  <2>5. Walks(r, c, "findUser")
    BY <1>1, <1>3, <2>2, <2>3, <2>4 DEF Walks, Signing, Asking, Saving
  <2> QED
    BY <1>1, <2>5, WalkKeeps
<1> QED
  BY <1>2, <1>3 DEF UpdateSSOAccount

LEMMA FindUserKeeps ==
    ASSUME IInv, NEW r \in Requests, FindUser(r)
    PROVE  IInv'
<1>1. Holds(call[r], "findUser") /\ pc[r] = "findUser" /\ Quiet
  BY HoldsAt, QuietRows DEF FindUser
<1>2. CASE Return(r)
  BY <1>1, <1>2, StopWalks DEF Asking, Saving
<1>3. ASSUME NEW c, c = [call[r] EXCEPT !.email = None], Keep(r, c, "session") PROVE IInv'
  <2>1. Holds(c, "session") /\ c.tok = None /\ c.prov = call[r].prov /\ c.user = call[r].user
    BY <1>1, <1>3 DEF Holds, Call, Finding, Signing, Asking, Saving
  <2>2. Walks(r, c, "session")
    BY <1>1, <1>3, <2>1 DEF Walks, Signing, Asking, Saving
  <2> QED
    BY <1>1, <2>2, WalkKeeps
<1>4. CASE Go(r, "override") /\ call[r].prov \in Generic
  <2>1. Holds(call[r], "override") /\ call[r].tok = None
    BY <1>1, <1>4 DEF Holds, Finding, Signing, Asking, Saving
  <2>2. Keep(r, call[r], "override")
    BY <1>4, GoKeep DEF IInv
  <2>3. Walks(r, call[r], "override")
    BY <1>1, <2>1, <2>2 DEF Walks, Signing, Asking, Saving
  <2> QED
    BY <1>1, <2>3, WalkKeeps
<1> QED
  BY <1>2, <1>3, <1>4 DEF FindUser

LEMMA OverrideUserInfoKeeps ==
    ASSUME IInv, NEW r \in Requests, OverrideUserInfo(r)
    PROVE  IInv'
<1>1. Holds(call[r], "override") /\ pc[r] = "override"
  BY HoldsAt DEF OverrideUserInfo
<1>2. PICK c : c = [call[r] EXCEPT !.email = None] /\ Keep(r, c, "session")
  BY DEF OverrideUserInfo
<1>3. Holds(c, "session") /\ c.tok = None /\ c.prov = call[r].prov /\ c.user = call[r].user
  BY <1>1, <1>2 DEF Holds, Call, Finding, Signing, Asking, Saving
<1>4. users' \in [UserIds -> Emails \cup {None}]
  BY <1>1 DEF OverrideUserInfo, Holds, IInv, TypeOK
<1>5. Quiet
  BY <1>4 DEF OverrideUserInfo, Quiet
<1>6. Walks(r, c, "session")
  BY <1>1, <1>2, <1>3 DEF Walks, Signing, Asking, Saving
<1> QED
  BY <1>5, <1>6, WalkKeeps

LEMMA NoUserWalks ==
    ASSUME TypeOK, NEW r \in Requests, pc[r] = "byEmail", Holds(call[r], "byEmail"), Running(r),
           Go(r, "createUser")
    PROVE  Walks(r, call[r], "createUser")
<1>1. Holds(call[r], "createUser")
  BY DEF Holds, Finding, Signing, Asking, Saving
<1>2. Keep(r, call[r], "createUser")
  BY GoKeep
<1> QED
  BY <1>1, <1>2 DEF Walks, Searching, Signing, Asking, Saving

LEMMA FindUserByEmailKeeps ==
    ASSUME IInv, NEW r \in Requests, FindUserByEmail(r)
    PROVE  IInv'
<1>1. Holds(call[r], "byEmail") /\ pc[r] = "byEmail" /\ Running(r) /\ Quiet
  BY HoldsAt, QuietRows DEF FindUserByEmail
<1>2. CASE Return(r)
  BY <1>1, <1>2, StopWalks DEF Asking, Saving
<1>3. CASE Go(r, "createUser")
  <2>1. Walks(r, call[r], "createUser")
    BY <1>1, <1>3, NoUserWalks DEF IInv
  <2> QED
    BY <1>1, <2>1, WalkKeeps
<1> QED
  BY <1>2, <1>3 DEF FindUserByEmail

LEMMA FindSSOUserByEmailKeeps ==
    ASSUME IInv, NEW r \in Requests, FindSSOUserByEmail(r)
    PROVE  IInv'
<1>1. Holds(call[r], "byEmail") /\ pc[r] = "byEmail" /\ Running(r) /\ Quiet
  BY HoldsAt, QuietRows DEF FindSSOUserByEmail
<1>2. ASSUME NEW u \in UserIds, NEW c, c = [call[r] EXCEPT !.user = u, !.email = None],
             Keep(r, c, "createAccount")
      PROVE  IInv'
  <2>1. Holds(c, "createAccount") /\ c.tok = call[r].tok /\ c.prov = call[r].prov
    BY <1>1, <1>2 DEF Holds, Call, Finding, Signing, Asking, Saving
  <2>2. Walks(r, c, "createAccount")
    BY <1>1, <1>2, <2>1 DEF Walks, Searching, Signing, Asking, Saving
  <2> QED
    BY <1>1, <2>2, WalkKeeps
<1>3. CASE Go(r, "createUser")
  <2>1. Walks(r, call[r], "createUser")
    BY <1>1, <1>3, NoUserWalks DEF IInv
  <2> QED
    BY <1>1, <2>1, WalkKeeps
<1> QED
  BY <1>2, <1>3 DEF FindSSOUserByEmail, ByEmail

LEMMA CreateUserKeeps ==
    ASSUME IInv, NEW r \in Requests, CreateUser(r)
    PROVE  IInv'
<1>1. Holds(call[r], "createUser") /\ pc[r] = "createUser" /\ Running(r)
  BY HoldsAt DEF CreateUser
<1>2. CASE Return(r) /\ UNCHANGED users
  <2>1. Quiet
    BY <1>2 DEF CreateUser, Quiet
  <2> QED
    BY <1>1, <1>2, <2>1, StopWalks DEF Asking, Saving
<1>3. ASSUME NEW u \in UserIds, NEW c, c = [call[r] EXCEPT !.user = u, !.email = None],
             Keep(r, c, "createAccount"), users' = [users EXCEPT ![u] = call[r].email]
      PROVE  IInv'
  <2>1. Holds(c, "createAccount") /\ c.tok = call[r].tok /\ c.prov = call[r].prov
    BY <1>1, <1>3 DEF Holds, Call, Finding, Signing, Asking, Saving
  <2>2. users' \in [UserIds -> Emails \cup {None}]
    BY <1>1, <1>3 DEF Holds, IInv, TypeOK
  <2>3. Quiet
    BY <2>2 DEF CreateUser, Quiet
  <2>4. Walks(r, c, "createAccount")
    BY <1>1, <1>3, <2>1 DEF Walks, Searching, Signing, Asking, Saving
  <2> QED
    BY <2>3, <2>4, WalkKeeps
<1> QED
  BY <1>2, <1>3 DEF CreateUser, FreshUsers

LEMMA NewSessionKeeps ==
    ASSUME IInv, NEW r \in Requests, NewSession(r)
    PROVE  IInv'
BY StopWalks, QuietRows DEF NewSession, Asking, Saving

-----------------------------------------------------------------------------
(* A lookup finds the account and its user, or finds none and marks the    *)
(* provider when another request is looking too.                           *)
LooksUp(r, c, stage) ==
    /\ pc[r] \in {"find", "findSSO", "link"}
    /\ Keep(r, c, stage) /\ Holds(c, stage) /\ stage # "updating"
    /\ c.tok = call[r].tok /\ c.prov = call[r].prov
    /\ UNCHANGED <<rows, revoked, spoilt>>
    /\ \/ stage \in {"byEmail", "createAccount"} /\ AccountsOf(c.prov) = {} /\ FoundNone(r)
       \/ stage = "byEmail" /\ mixed' = mixed \cup {c.prov}
       \/ /\ stage \in Signing /\ UNCHANGED mixed
          /\ \E a \in AccountsOf(c.prov) : accounts[a].user = c.user

LEMMA LookupKeeps ==
    ASSUME IInv, NEW r \in Requests, NEW c, NEW stage, LooksUp(r, c, stage)
    PROVE  IInv'
<1>1. /\ pc[r] \notin Asking /\ stage \notin Asking /\ stage \notin {"idle", "updating"}
      /\ pc[r] # "idle" /\ ~Searching(r)
      /\ UNCHANGED <<users, accounts, states, revoked, spoilt>>
  BY DEF LooksUp, Asking, Saving, Signing, Searching, rows
<1>2. Holds(c, stage) /\ Keep(r, c, stage) /\ Running(r) /\ c.tok = call[r].tok /\ c.prov \in Providers
  BY <1>1, HoldsAt DEF LooksUp, Holds, Call
<1>3. mixed' \subseteq Providers /\ mixed \subseteq mixed'
  BY <1>2 DEF LooksUp, FoundNone, IInv, TypeOK
<1>4. TypeOK'
  BY <1>1, <1>2, <1>3, KeepType DEF IInv, TypeOK
<1>5. TokensApart' /\ CopiesApart' /\ RefreshInv'
  BY <1>1, <1>2, WalkTokens DEF IInv
<1>6. IdentityInv'
  <2>1. /\ pc'[r] = stage /\ call'[r] = c
        /\ \A q \in Requests \ {r} : pc'[q] = pc[q] /\ call'[q] = call[q]
    BY <1>1, <1>2, KeepType DEF IInv
  <2>2. \A p : AccountsOf(p)' = AccountsOf(p)
    BY <1>1 DEF AccountsOf, Stored
  <2>3. \A q \in Requests \ {r} : (Searching(q)' <=> Searching(q)) /\ (Searching(q) => q \in Others(r))
    BY <2>1, HoldsAt DEF Searching, Others
  <2>4. SUFFICES ASSUME NEW p \in Providers \ mixed'
                 PROVE  /\ \A a, b \in AccountsOf(p)' : a = b
                        /\ \A q \in Requests : Searching(q)' /\ call'[q].prov = p =>
                              /\ AccountsOf(p)' = {}
                              /\ \A x \in Requests : Searching(x)' /\ call'[x].prov = p => x = q
                        /\ \A q \in Requests : pc'[q] \in Signing /\ call'[q].prov = p =>
                              \E a \in AccountsOf(p)' : accounts'[a].user = call'[q].user
    BY DEF IdentityInv
  <2>5. p \in Providers \ mixed
    BY <1>3
  <2>6. CASE c.prov # p
    BY <1>1, <2>1, <2>2, <2>3, <2>5, <2>6 DEF IInv, IdentityInv
  <2>7. CASE c.prov = p /\ stage \in {"byEmail", "createAccount"}
    <3>1. AccountsOf(p) = {} /\ \A q \in Requests \ {r} : Searching(q) => call[q].prov # p
      BY <2>3, <2>4, <2>7 DEF LooksUp, FoundNone, Signing
    <3>2. stage \notin Signing
      BY <2>7 DEF Signing
    <3> QED
      BY <1>1, <2>1, <2>2, <2>3, <2>5, <2>7, <3>1, <3>2 DEF IInv, IdentityInv
  <2>8. CASE c.prov = p /\ stage \in Signing
    <3>1. ~Searching(r)' /\ \E a \in AccountsOf(p) : accounts[a].user = c.user
      BY <2>1, <2>8 DEF LooksUp, Signing, Searching
    <3> QED
      BY <1>1, <2>1, <2>2, <2>3, <2>5, <2>8, <3>1 DEF IInv, IdentityInv
  <2> QED
    BY <2>6, <2>7, <2>8 DEF LooksUp
<1> QED
  BY <1>4, <1>5, <1>6 DEF IInv

LEMMA AccountForm ==
    ASSUME TypeOK, NEW p, NEW a \in AccountsOf(p)
    PROVE  accounts[a] \in Account /\ accounts[a].prov = p /\ accounts[a].user \in UserIds /\ a \in AccountIds
BY NamesAssumption DEF TypeOK, AccountsOf, Stored, Account

LEMMA FindAccountKeeps ==
    ASSUME IInv, NEW r \in Requests, FindAccount(r)
    PROVE  IInv'
<1>1. Holds(call[r], "find") /\ pc[r] = "find" /\ Running(r) /\ call[r].prov \in Generic /\ call[r] \in Call
  BY HoldsAt DEF FindAccount, Holds
<1>2. ASSUME NEW a \in AccountsOf(call[r].prov), Found(r, a, "update") PROVE IInv'
  <2>1. PICK c : c = [call[r] EXCEPT !.acc = a, !.user = accounts[a].user] /\ Keep(r, c, "update")
    BY <1>1, <1>2 DEF Found
  <2>2. accounts[a].user \in UserIds /\ a \in AccountIds
    BY AccountForm DEF IInv
  <2>3. /\ c \in Call /\ c.tok = call[r].tok /\ c.copy = call[r].copy
        /\ c.prov = call[r].prov /\ c.user = accounts[a].user
        /\ c.acc = a /\ c.email = call[r].email
    BY <1>1, <2>1, <2>2 DEF Call
  <2>4. Holds(c, "update")
    BY <1>1, <2>2, <2>3 DEF Holds, Finding, Signing, Asking, Saving
  <2>5. LooksUp(r, c, "update")
    BY <1>1, <1>2, <2>1, <2>3, <2>4 DEF LooksUp, Found, Signing, FindAccount
  <2> QED
    BY <2>5, LookupKeeps
<1>3. CASE AccountsOf(call[r].prov) = {} /\ Go(r, "byEmail") /\ FoundNone(r)
  <2>1. Holds(call[r], "byEmail") /\ Keep(r, call[r], "byEmail")
    BY <1>1, <1>3, GoKeep DEF Holds, Finding, Signing, Asking, Saving, IInv
  <2>2. LooksUp(r, call[r], "byEmail")
    BY <1>1, <1>3, <2>1 DEF LooksUp, FindAccount
  <2> QED
    BY <2>2, LookupKeeps
<1> QED
  BY <1>2, <1>3 DEF FindAccount

LEMMA FindSSOAccountKeeps ==
    ASSUME IInv, NEW r \in Requests, FindSSOAccount(r)
    PROVE  IInv'
<1>1. /\ Holds(call[r], "findSSO") /\ pc[r] = "findSSO" /\ Running(r) /\ call[r].prov \in SSOIds
      /\ call[r].prov \notin Generic /\ call[r] \in Call /\ call[r].tok = None
  BY HoldsAt, NamesAssumption DEF FindSSOAccount, Holds
<1>2. ASSUME NEW a \in AccountsOf(call[r].prov), NEW stage \in {"findUser", "updateSSO"}, Found(r, a, stage)
      PROVE  IInv'
  <2>1. PICK c : c = [call[r] EXCEPT !.acc = a, !.user = accounts[a].user, !.email = None] /\ Keep(r, c, stage)
    BY <1>1, <1>2 DEF Found
  <2>2. accounts[a].user \in UserIds /\ a \in AccountIds
    BY AccountForm DEF IInv
  <2>3. /\ c \in Call /\ c.tok = call[r].tok /\ c.copy = call[r].copy
        /\ c.prov = call[r].prov /\ c.user = accounts[a].user /\ c.acc = a
    BY <1>1, <2>1, <2>2 DEF Call
  <2>4. Holds(c, stage)
    BY <1>1, <2>2, <2>3 DEF Holds, Finding, Signing, Asking, Saving
  <2>5. LooksUp(r, c, stage)
    BY <1>1, <1>2, <2>1, <2>3, <2>4 DEF LooksUp, Found, Signing, FindSSOAccount
  <2> QED
    BY <2>5, LookupKeeps
<1>3. ASSUME Go(r, "byEmail"),
             mixed' = mixed \cup {call[r].prov} \/ (AccountsOf(call[r].prov) = {} /\ FoundNone(r))
      PROVE  IInv'
  <2>1. Holds(call[r], "byEmail") /\ Keep(r, call[r], "byEmail")
    BY <1>1, <1>3, GoKeep DEF Holds, Finding, Signing, Asking, Saving, IInv
  <2>2. LooksUp(r, call[r], "byEmail")
    BY <1>1, <1>3, <2>1 DEF LooksUp, FindSSOAccount
  <2> QED
    BY <2>2, LookupKeeps
<1>4. ASSUME NEW a \in AccountsOf(call[r].prov),
             Found(r, a, IF call[r].how = "saml" THEN "findUser" ELSE "updateSSO")
      PROVE  IInv'
  BY <1>2, <1>4
<1>5. CASE Go(r, "byEmail") /\ mixed' = mixed \cup {call[r].prov}
  BY <1>3, <1>5
<1>6. CASE AccountsOf(call[r].prov) = {} /\ Go(r, "byEmail") /\ FoundNone(r)
  BY <1>3, <1>6
<1> QED
  BY <1>4, <1>5, <1>6 DEF FindSSOAccount

LEMMA LinkAccountKeeps ==
    ASSUME IInv, NEW r \in Requests, LinkAccount(r)
    PROVE  IInv'
<1>1. Holds(call[r], "link") /\ pc[r] = "link" /\ Running(r) /\ call[r].link \in UserIds /\ call[r] \in Call
  BY HoldsAt DEF LinkAccount, Holds
<1>2. ASSUME NEW a \in AccountsOf(call[r].prov), accounts[a].user = call[r].link, NEW c,
             c = [call[r] EXCEPT !.acc = a, !.user = call[r].link, !.email = None], Keep(r, c, "update"),
             UNCHANGED mixed
      PROVE  IInv'
  <2>1. a \in AccountIds
    BY AccountForm DEF IInv
  <2>2. /\ c \in Call /\ c.tok = call[r].tok /\ c.copy = call[r].copy
        /\ c.prov = call[r].prov /\ c.user = call[r].link
        /\ c.acc = a /\ c.link = call[r].link /\ c.link # None
    BY <1>1, <1>2, <2>1, NamesAssumption DEF Call
  <2>3. Holds(c, "update")
    BY <1>1, <2>1, <2>2 DEF Holds, Finding, Signing, Asking, Saving
  <2>4. LooksUp(r, c, "update")
    BY <1>1, <1>2, <2>2, <2>3 DEF LooksUp, Signing, LinkAccount
  <2> QED
    BY <2>4, LookupKeeps
<1>3. ASSUME AccountsOf(call[r].prov) = {}, NEW c,
             c = [call[r] EXCEPT !.user = call[r].link, !.email = None], Keep(r, c, "createAccount"),
             FoundNone(r)
      PROVE  IInv'
  <2>1. /\ c \in Call /\ c.tok = call[r].tok /\ c.copy = call[r].copy
        /\ c.prov = call[r].prov /\ c.user = call[r].link
    BY <1>1, <1>3 DEF Call
  <2>2. Holds(c, "createAccount")
    BY <1>1, <2>1 DEF Holds, Finding, Signing, Asking, Saving
  <2>3. LooksUp(r, c, "createAccount")
    BY <1>1, <1>3, <2>1, <2>2 DEF LooksUp, LinkAccount
  <2> QED
    BY <2>3, LookupKeeps
<1> QED
  BY <1>2, <1>3 DEF LinkAccount

-----------------------------------------------------------------------------
(* Steps that take or write tokens.                                        *)
LEMMA FreshToken ==
    ASSUME NEW t \in FreshTokens
    PROVE  /\ t \in Tokens /\ t # None
           /\ \A a \in AccountIds : Stored(a) => accounts[a].tok # t
           /\ \A q \in Requests : Running(q) => call[q].tok # t /\ call[q].copy # t
BY NamesAssumption DEF FreshTokens

LEMMA ExchangeKeeps ==
    ASSUME IInv, NEW r \in Requests, Exchange(r)
    PROVE  IInv'
<1>1. /\ Holds(call[r], "exchange") /\ pc[r] = "exchange" /\ Running(r) /\ call[r] \in Call
      /\ call[r].prov \in Generic /\ UNCHANGED <<users, accounts, states, mixed, spoilt>>
  BY HoldsAt DEF Exchange, rows, ghosts
<1>2. PICK e, t, stage, c :
             /\ e \in Emails /\ t \in Issued
             /\ c = [call[r] EXCEPT !.email = e, !.tok = t]
             /\ stage = IF call[r].link = None THEN "find" ELSE "link"
             /\ Keep(r, c, stage) /\ revoked' = revoked \ {t}
  BY DEF Exchange
<1>3. t \in Tokens \cup {None}
  BY <1>2, FreshToken DEF Issued
<1>4. c \in Call /\ c.tok = t /\ c.prov = call[r].prov /\ c.link = call[r].link /\ c.email = e
  BY <1>1, <1>2, <1>3 DEF Call
<1>5. c.link = None \/ c.link \in UserIds
  BY <1>4 DEF Call
<1>6. Holds(c, stage)
  BY <1>1, <1>2, <1>4, <1>5 DEF Holds, Finding, Signing, Asking, Saving
<1>7. stage \in {"find", "link"}
  BY <1>2
<1>8. /\ pc'[r] = stage /\ call'[r] = c
      /\ \A q \in Requests \ {r} : pc'[q] = pc[q] /\ call'[q] = call[q]
  BY <1>2, <1>6, <1>7, KeepType DEF IInv
<1>9. TypeOK'
  BY <1>1, <1>2, <1>6, <1>7, KeepType DEF IInv, TypeOK
<1>10. /\ \A q \in Requests : \A a : Refreshing(q, a)' <=> Refreshing(q, a)
       /\ \A q \in Requests : \A a : Refreshing(q, a) => q # r
  BY <1>1, <1>7, <1>8 DEF Refreshing, Running
<1>11. t # None => /\ \A a \in AccountIds : Stored(a) => accounts[a].tok # t
                   /\ \A q \in Requests : Running(q) => call[q].tok # t /\ call[q].copy # t
  BY <1>2, FreshToken DEF Issued
<1>12. \A q \in Requests \ {r} : Running(q)' <=> Running(q)
  BY <1>8 DEF Running
<1>13. TokensApart'
  BY <1>1, <1>4, <1>8, <1>10, <1>11, <1>12 DEF IInv, TokensApart, Stored
<1>14. RefreshInv'
  <2>1. \A q \in Requests : \A a : Refreshing(q, a) => pc'[q] = pc[q] /\ call'[q] = call[q]
    BY <1>8, <1>10
  <2>2. revoked' \subseteq revoked /\ c.tok \notin revoked'
    BY <1>2, <1>4
  <2>3. \A q \in Requests : Running(q)' /\ pc'[q] \notin Asking => call'[q].tok \notin revoked'
    BY <1>8, <1>12, <2>2 DEF IInv, RefreshInv
  <2> QED
    BY <1>1, <1>10, <2>1, <2>2, <2>3 DEF IInv, RefreshInv, Stored
<1>15. IdentityInv'
  BY <1>1, <1>2, <1>6, <1>7, WalkIdentity DEF IInv, Signing, Stored
<1>16. CopiesApart'
  <2>1. Running(r)' => call'[r].copy = None
    BY <1>6, <1>7, <1>8 DEF Holds
  <2>2. Running(r)' => \A q \in Requests \ {r} : Running(q) /\ call[q].copy # None
            /\ call'[r].tok = call[q].copy => Refreshing(r, call[q].acc)'
    BY <1>4, <1>8, <1>11
  <2>3. \A b \in AccountIds : Stored(b)' => Stored(b) /\ accounts'[b].tok = accounts[b].tok
    BY <1>1 DEF Stored
  <2> QED
    BY <1>8, <2>1, <2>2, <2>3, CopiesKeep DEF IInv
<1> QED
  BY <1>9, <1>13, <1>14, <1>15, <1>16 DEF IInv

LEMMA ReadTokensKeeps ==
    ASSUME IInv, NEW r \in Requests, NEW how \in {"access", "refresh"}, ReadTokens(r, how)
    PROVE  IInv'
<1>1. PICK a, c :
             /\ a \in AccountIds /\ Stored(a) /\ accounts[a].tok # None /\ pc[r] = "idle"
             /\ c = [Request(how, accounts[a].prov, None) EXCEPT !.acc = a, !.tok = accounts[a].tok]
             /\ Keep(r, c, "ask")
             /\ spoilt' = IF \E q \in Others(r) : Refreshing(q, a) THEN spoilt \cup {a} ELSE spoilt
             /\ UNCHANGED <<rows, revoked, mixed>>
  BY DEF ReadTokens, Begin
<1>2. UNCHANGED <<users, accounts, states, revoked, mixed>> /\ spoilt' \subseteq AccountIds
  BY <1>1 DEF rows, IInv, TypeOK
<1>3. accounts[a] \in Account
  BY <1>1, NamesAssumption DEF IInv, TypeOK, Stored
<1>4. c \in Call /\ c.acc = a /\ c.tok = accounts[a].tok /\ c.tok \in Tokens /\ c.copy = None
  BY <1>1, <1>3 DEF Account, Call, Request
<1>5. Holds(c, "ask")
  BY <1>1, <1>4 DEF Holds, Finding, Signing, Asking, Saving
<1>6. /\ pc'[r] = "ask" /\ call'[r] = c
      /\ \A q \in Requests \ {r} : pc'[q] = pc[q] /\ call'[q] = call[q]
  BY <1>1, <1>5, KeepType DEF IInv
<1>7. TypeOK'
  BY <1>1, <1>2, <1>5, KeepType DEF IInv, TypeOK
<1>8. /\ \A q \in Requests \ {r} : \A b : Refreshing(q, b)' <=> Refreshing(q, b)
      /\ \A b : Refreshing(r, b)' <=> b = a
      /\ \A b : ~Refreshing(r, b)
      /\ \A q \in Requests \ {r} : Running(q)' <=> Running(q)
      /\ \A q \in Requests : \A b : Refreshing(q, b) => q \in Others(r)
  BY <1>1, <1>4, <1>6, NamesAssumption DEF Refreshing, Running, Others
<1>9. TokensApart'
  <2>1. \A q \in Requests \ {r} : Running(q) /\ call[q].tok = c.tok => Refreshing(q, a)
    BY <1>1, <1>4 DEF IInv, TokensApart
  <2>2. \A b \in AccountIds : Stored(b) /\ accounts[b].tok = c.tok => b = a
    BY <1>1, <1>4 DEF IInv, TokensApart
  <2>3. \A q \in Requests \ {r} : Refreshing(q, a) => call[q].acc = a
    BY DEF Refreshing
  <2> QED
    BY <1>2, <1>4, <1>6, <1>8, <2>1, <2>2, <2>3 DEF IInv, TokensApart, Stored
<1>10. RefreshInv'
  <2>1. a \notin spoilt' => \A q \in Requests : ~Refreshing(q, a)
    BY <1>1, <1>8
  <2>2. spoilt \subseteq spoilt'
    BY <1>1
  <2> QED
    BY <1>2, <1>6, <1>8, <2>1, <2>2 DEF IInv, RefreshInv, Stored, Asking, Saving
<1>11. IdentityInv'
  BY <1>1, <1>2, <1>5, WalkIdentity DEF IInv, Signing, Stored
<1>12. CopiesApart'
  <2>1. Running(r)' => call'[r].copy = None
    BY <1>5, <1>6 DEF Holds, Asking, Saving
  <2>2. \A q \in Requests \ {r} : Running(q) /\ call[q].copy # None /\ call'[r].tok = call[q].copy =>
            Refreshing(r, call[q].acc)'
    BY <1>1, <1>4, <1>6, <1>8 DEF IInv, CopiesApart
  <2>3. \A b \in AccountIds : Stored(b)' => Stored(b) /\ accounts'[b].tok = accounts[b].tok
    BY <1>2 DEF Stored
  <2> QED
    BY <1>6, <2>1, <2>2, <2>3, CopiesKeep DEF IInv
<1> QED
  BY <1>7, <1>9, <1>10, <1>11, <1>12 DEF IInv

LEMMA AskKeeps ==
    ASSUME IInv, NEW r \in Requests, Ask(r)
    PROVE  IInv'
<1>1. /\ Holds(call[r], "ask") /\ pc[r] = "ask" /\ Running(r) /\ call[r] \in Call
      /\ call[r].acc \in AccountIds /\ call[r].tok \in Tokens
      /\ UNCHANGED <<users, accounts, states, mixed, spoilt>>
  BY HoldsAt DEF Ask, Holds, rows, ghosts, Asking, Saving
<1>2. CASE call[r].tok \in revoked /\ Return(r) /\ UNCHANGED revoked
  <2>1. Keep(r, None, "idle")
    BY <1>2 DEF Return
  <2>2. /\ pc'[r] = "idle" /\ call'[r] = None
        /\ \A q \in Requests \ {r} : pc'[q] = pc[q] /\ call'[q] = call[q]
    BY <2>1, KeepType DEF IInv
  <2>3. TypeOK'
    BY <1>1, <1>2, <2>1, KeepType DEF IInv, TypeOK
  <2>4. /\ \A q \in Requests \ {r} : \A b : Refreshing(q, b)' <=> Refreshing(q, b)
        /\ \A b : ~Refreshing(r, b)' /\ ~Running(r)'
        /\ \A q \in Requests \ {r} : Running(q)' <=> Running(q)
    BY <2>2 DEF Refreshing, Running
  <2>5. TokensApart'
    BY <1>1, <2>2, <2>4 DEF IInv, TokensApart, Stored
  <2>6. RefreshInv'
    BY <1>1, <1>2, <2>2, <2>4 DEF IInv, RefreshInv, Stored, Asking, Saving
  <2>7. IdentityInv'
    BY <1>1, <2>1, WalkIdentity DEF IInv, Signing, Stored
  <2>8. CopiesApart'
    BY <1>1, <2>2, <2>4, CopiesKeep DEF IInv, Stored
  <2> QED
    BY <2>3, <2>5, <2>6, <2>7, <2>8 DEF IInv
<1>3. ASSUME call[r].tok \notin revoked, NEW n \in Tokens \cup {None}, NEW c,
             c = [call[r] EXCEPT !.tok = n], Keep(r, c, "save"),
             call[r].how = "refresh" => n # None,
             \/ UNCHANGED revoked /\ n \in {call[r].tok, None}
             \/ n \in FreshTokens /\ revoked' = (revoked \cup {call[r].tok}) \ {n}
      PROVE  IInv'
  <2>1. c \in Call /\ c.tok = n /\ c.acc = call[r].acc /\ c.how = call[r].how
    BY <1>1, <1>3 DEF Call
  <2>2. Holds(c, "save")
    BY <1>1, <1>3, <2>1 DEF Holds, Finding, Signing, Asking, Saving
  <2>3. /\ pc'[r] = "save" /\ call'[r] = c
        /\ \A q \in Requests \ {r} : pc'[q] = pc[q] /\ call'[q] = call[q]
    BY <1>3, <2>2, KeepType DEF IInv
  <2>4. TypeOK'
    <3>1. revoked' \subseteq Tokens
      BY <1>1, <1>3 DEF IInv, TypeOK
    <3> QED
      BY <1>1, <1>3, <2>2, <3>1, KeepType DEF IInv, TypeOK
  <2>5. /\ \A q \in Requests : \A b : Refreshing(q, b)' <=> Refreshing(q, b)
        /\ \A q \in Requests : Running(q)' <=> Running(q)
        /\ Refreshing(r, c.acc)
    BY <1>1, <2>1, <2>3, NamesAssumption DEF Refreshing, Running
  <2>6. n \in FreshTokens => /\ \A a \in AccountIds : Stored(a) => accounts[a].tok # n
                             /\ \A q \in Requests : Running(q) => call[q].tok # n /\ call[q].copy # n
    BY FreshToken
  <2>7. TokensApart'
    <3>1. CASE n \in FreshTokens
      BY <1>1, <2>1, <2>3, <2>5, <2>6, <3>1 DEF IInv, TokensApart, Stored
    <3>2. CASE n = None \/ n = call[r].tok
      BY <1>1, <2>1, <2>3, <2>5, <3>2 DEF IInv, TokensApart, Stored
    <3> QED
      BY <1>3, <3>1, <3>2
  <2>8. RefreshInv'
    <3>1. \A a \in AccountIds : Stored(a) /\ accounts[a].tok = call[r].tok => a = call[r].acc
      BY <1>1, NamesAssumption DEF IInv, TokensApart, Refreshing
    <3>2. \A q \in Requests \ {r} : Running(q) /\ call[q].tok = call[r].tok => Refreshing(q, call[r].acc)
      BY <1>1, NamesAssumption DEF IInv, TokensApart
    <3>3. c.tok \notin revoked' /\ revoked' \subseteq revoked \cup {call[r].tok}
      BY <1>3, <2>1, NamesAssumption DEF IInv, TypeOK
    <3>4. \A a \in AccountIds \ spoilt, q \in Requests \ {r} :
             Stored(a) /\ Refreshing(q, a) => a # call[r].acc
      BY <1>1, <2>1, <2>5 DEF IInv, RefreshInv
    <3>5. call[r].tok \in revoked' => n # None
      BY <1>3, FreshToken
    <3>6. ASSUME NEW a \in AccountIds \ spoilt, Stored(a)
          PROVE  /\ \A q, x \in Requests : Refreshing(q, a)' /\ Refreshing(x, a)' => q = x
                 /\ \A q \in Requests : Refreshing(q, a)' /\ pc'[q] \in Saving => call'[q].tok \notin revoked'
                 /\ accounts[a].tok \in revoked' =>
                      \E q \in Requests : Refreshing(q, a)' /\ pc'[q] \in Saving /\ call'[q].tok # None
      <4>1. \A q, x \in Requests : Refreshing(q, a)' /\ Refreshing(x, a)' => q = x
        BY <2>5, <3>6 DEF IInv, RefreshInv
      <4>2. ASSUME NEW q \in Requests, Refreshing(q, a)', pc'[q] \in Saving PROVE call'[q].tok \notin revoked'
        <5>1. CASE q = r
          BY <2>3, <3>3, <5>1
        <5>2. CASE q # r
          <6>1. Refreshing(q, a) /\ pc[q] \in Saving /\ call'[q] = call[q] /\ call[q].acc = a
            BY <2>3, <2>5, <4>2, <5>2 DEF Refreshing
          <6>2. call[q].tok \notin revoked /\ Running(q) /\ a # call[r].acc
            BY <3>4, <3>6, <5>2, <6>1 DEF IInv, RefreshInv, Refreshing
          <6>3. call[q].tok # call[r].tok
            BY <3>2, <5>2, <6>1, <6>2 DEF Refreshing
          <6> QED
            BY <3>3, <6>1, <6>2, <6>3
        <5> QED BY <5>1, <5>2
      <4>3. ASSUME accounts[a].tok \in revoked'
            PROVE  \E q \in Requests : Refreshing(q, a)' /\ pc'[q] \in Saving /\ call'[q].tok # None
        <5>1. CASE a = call[r].acc
          <6>1. accounts[a].tok \in revoked => \E q \in Requests : Refreshing(q, a) /\ pc[q] \in Saving
            BY <3>6 DEF IInv, RefreshInv
          <6>0. pc[r] \notin Saving
            BY <1>1 DEF Saving
          <6>2. accounts[a].tok \notin revoked
            BY <1>1, <2>1, <2>5, <3>6, <5>1, <6>0, <6>1 DEF IInv, RefreshInv
          <6>3. n # None
            BY <3>3, <3>5, <4>3, <6>2
          <6> QED
            BY <2>1, <2>3, <2>5, <5>1, <6>3 DEF Saving
        <5>2. CASE a # call[r].acc
          <6>1. accounts[a].tok \in revoked
            BY <3>1, <3>3, <3>6, <4>3, <5>2
          <6>2. PICK q \in Requests : Refreshing(q, a) /\ pc[q] \in Saving /\ call[q].tok # None
            BY <3>6, <6>1 DEF IInv, RefreshInv
          <6> QED
            BY <1>1, <2>3, <2>5, <6>2 DEF Saving
        <5> QED BY <5>1, <5>2
      <4> QED BY <4>1, <4>2, <4>3
    <3>7. ASSUME NEW q \in Requests, Running(q)', pc'[q] \notin Asking PROVE call'[q].tok \notin revoked'
      <4>1. q # r /\ Running(q) /\ pc[q] \notin Asking /\ call'[q] = call[q]
        BY <2>3, <2>5, <3>7 DEF Asking, Saving
      <4>2. call[q].tok \notin revoked /\ call[q].tok # call[r].tok
        BY <3>2, <4>1 DEF IInv, RefreshInv, Refreshing, Asking, Saving
      <4> QED
        BY <3>3, <4>1, <4>2
    <3> QED
      BY <1>1, <3>6, <3>7 DEF RefreshInv, Stored
  <2>9. IdentityInv'
    BY <1>1, <1>3, <2>2, WalkIdentity DEF IInv, Signing, Stored
  <2>10. CopiesApart'
    <3>1. Running(r)' => call'[r].copy = None
      BY <1>1, <1>3, <2>3 DEF Holds, Call
    <3>2. \A q \in Requests \ {r} : Running(q) /\ call[q].copy # None /\ call'[r].tok = call[q].copy =>
              Refreshing(r, call[q].acc)'
      BY <1>1, <1>3, <2>1, <2>3, <2>5, <2>6 DEF IInv, CopiesApart
    <3>3. \A b \in AccountIds : Stored(b)' => Stored(b) /\ accounts'[b].tok = accounts[b].tok
      BY <1>1 DEF Stored
    <3> QED
      BY <2>3, <3>1, <3>2, <3>3, CopiesKeep DEF IInv
  <2> QED
    BY <2>4, <2>7, <2>8, <2>9, <2>10 DEF IInv
<1>4. CASE /\ call[r].tok \notin revoked /\ UNCHANGED revoked
           /\ Keep(r, [call[r] EXCEPT !.tok = IF call[r].how = "refresh" THEN call[r].tok ELSE None], "save")
  <2>1. PICK n : n = IF call[r].how = "refresh" THEN call[r].tok ELSE None
    OBVIOUS
  <2>2. n \in Tokens \cup {None} /\ n \in {call[r].tok, None} /\ (call[r].how = "refresh" => n # None)
    BY <1>1, <2>1, NamesAssumption
  <2>3. Keep(r, [call[r] EXCEPT !.tok = n], "save")
    BY <1>4, <2>1
  <2> QED
    BY <1>3, <1>4, <2>2, <2>3
<1>5. ASSUME call[r].tok \notin revoked, NEW n \in FreshTokens,
             revoked' = (revoked \cup {call[r].tok}) \ {n}, Keep(r, [call[r] EXCEPT !.tok = n], "save")
      PROVE  IInv'
  BY <1>3, <1>5, FreshToken
<1> QED
  BY <1>2, <1>4, <1>5 DEF Ask

(* A request that writes the token it holds, or the copy it took, and      *)
(* holds neither afterwards.                                               *)
Writes(a, t) == accounts' = [accounts EXCEPT ![a].tok = t]

LEMMA WriteToken ==
    ASSUME IInv, NEW r \in Requests, NEW a \in AccountIds, NEW c, NEW stage, NEW t,
           pc[r] \in {"updating", "saving"}, call[r].acc = a, Stored(a),
           t = IF call[r].tok = None THEN call[r].copy ELSE call[r].tok,
           Keep(r, c, stage),
           \/ stage = "idle" /\ c = None
           \/ stage = "findUser" /\ Holds(c, stage),
           Writes(a, t), UNCHANGED revoked,
           \/ PutsBack(r) /\ spoilt' = spoilt \cup {a}
           \/ ~PutsBack(r) /\ UNCHANGED spoilt
           \/ /\ pc[r] = "updating" /\ call[r].tok # None /\ spoilt' = spoilt \ {a}
              /\ \A q \in Others(r) : ~Refreshing(q, a)
    PROVE  /\ accounts' \in [AccountIds -> Account \cup {None}]
           /\ \A b \in AccountIds : /\ Stored(b)' <=> Stored(b)
                                    /\ Stored(b) => /\ accounts'[b].prov = accounts[b].prov
                                                    /\ accounts'[b].user = accounts[b].user
           /\ TokensApart' /\ CopiesApart' /\ RefreshInv'
<1>1. Running(r) /\ t \in Tokens \cup {None} /\ accounts[a] \in Account
  BY HoldsAt, NamesAssumption DEF IInv, TypeOK, Call, Stored
<1>2. /\ accounts'[a] \in Account /\ accounts'[a].tok = t
      /\ accounts'[a].prov = accounts[a].prov /\ accounts'[a].user = accounts[a].user
      /\ \A b \in AccountIds \ {a} : accounts'[b] = accounts[b]
  BY <1>1 DEF Account, IInv, TypeOK, Writes
<1>3. accounts' \in [AccountIds -> Account \cup {None}]
  BY <1>1, <1>2 DEF IInv, TypeOK, Writes
<1>4. \A b \in AccountIds : /\ Stored(b)' <=> Stored(b)
                            /\ Stored(b) => /\ accounts'[b].prov = accounts[b].prov
                                            /\ accounts'[b].user = accounts[b].user
  BY <1>2, NamesAssumption DEF Stored
<1>5. /\ pc'[r] = stage /\ call'[r] = c
      /\ \A q \in Requests \ {r} : pc'[q] = pc[q] /\ call'[q] = call[q]
  BY KeepType DEF IInv
<1>6. /\ \A b : ~Refreshing(r, b)'
      /\ \A q \in Requests \ {r} : \A b : Refreshing(q, b)' <=> Refreshing(q, b)
      /\ \A q \in Requests \ {r} : Running(q)' <=> Running(q)
      /\ Running(r)' => c.tok = None /\ c.copy = None /\ stage = "findUser"
  BY <1>5 DEF Refreshing, Running, Holds
<1>7. t # None =>
        /\ \A b \in AccountIds : Stored(b) /\ accounts[b].tok = t => b = a
        /\ \A q \in Requests \ {r} : Running(q) /\ call[q].tok = t => Refreshing(q, a)
        /\ \A q \in Requests \ {r} : Running(q) /\ call[q].copy = t => call[q].acc = a
  <2>1. \A b : Refreshing(r, b) => b = a
    BY DEF Refreshing
  <2>2. CASE call[r].tok # None
    BY <1>1, <2>1, <2>2 DEF IInv, TokensApart, CopiesApart
  <2>3. CASE call[r].tok = None
    BY <1>1, <2>3 DEF IInv, CopiesApart
  <2> QED BY <2>2, <2>3
<1>8. TokensApart'
  BY <1>2, <1>4, <1>5, <1>6, <1>7 DEF IInv, TokensApart
<1>9. CopiesApart'
  <2>1. \A b \in AccountIds : Stored(b)' =>
           \/ Stored(b) /\ accounts'[b].tok = accounts[b].tok
           \/ \A q \in Requests \ {r} : Running(q) /\ call[q].copy # None
                  /\ call[q].copy = accounts'[b].tok => call[q].acc = b
    BY <1>2, <1>4, <1>7
  <2>2. Running(r)' => call'[r].tok = None /\ call'[r].copy = None
    BY <1>5, <1>6
  <2>3. Running(r)' => \A q \in Requests \ {r} : Running(q) /\ call[q].copy # None
            /\ call'[r].tok = call[q].copy => Refreshing(r, call[q].acc)'
    BY <2>2
  <2> QED
    BY <1>5, <2>1, <2>2, <2>3, CopiesKeep DEF IInv
<1>10. RefreshInv'
  <2>1. \A b \in AccountIds \ {a} : b \notin spoilt' => b \notin spoilt
    OBVIOUS
  <2>2. ASSUME a \notin spoilt'
        PROVE  /\ \A q, x \in Requests : Refreshing(q, a)' /\ Refreshing(x, a)' => q = x
               /\ \A q \in Requests : Refreshing(q, a)' /\ pc'[q] \in Saving => call'[q].tok \notin revoked
    <3>1. CASE a \in spoilt
      <4>1. \A q \in Requests \ {r} : Running(q) => q \in Others(r)
        BY DEF Others
      <4>2. \A q \in Requests : ~Refreshing(q, a)'
        BY <1>6, <2>2, <3>1, <4>1 DEF Refreshing
      <4> QED
        BY <4>2
    <3>2. CASE a \notin spoilt
      BY <1>5, <1>6, <3>2 DEF IInv, RefreshInv
    <3> QED BY <3>1, <3>2
  <2>3. ASSUME a \notin spoilt', t \in revoked
        PROVE  \E q \in Requests : Refreshing(q, a)' /\ pc'[q] \in Saving /\ call'[q].tok # None
    <3>1. t # None
      BY <2>3, NamesAssumption DEF IInv, TypeOK
    <3>2. a \notin spoilt \/ (pc[r] = "updating" /\ call[r].tok # None)
      BY <2>3
    <3>3. call[r].tok = None
      <4>1. CASE pc[r] = "updating"
        BY <1>1, <2>3, <4>1 DEF IInv, RefreshInv, Asking, Saving
      <4>2. CASE pc[r] = "saving"
        <5>1. Refreshing(r, a) /\ pc[r] \in Saving /\ a \notin spoilt
          BY <1>1, <3>2, <4>2 DEF Refreshing, Saving
        <5> QED
          BY <2>3, <5>1 DEF IInv, RefreshInv
      <4> QED BY <4>1, <4>2
    <3>4. accounts[a].tok = t /\ a \notin spoilt
      BY <2>3, <3>2, <3>3 DEF PutsBack
    <3>5. PICK q \in Requests : Refreshing(q, a) /\ pc[q] \in Saving /\ call[q].tok # None
      BY <2>3, <3>4 DEF IInv, RefreshInv
    <3>6. q # r
      BY <3>3, <3>5
    <3> QED
      BY <1>5, <1>6, <3>5, <3>6
  <2>4. ASSUME NEW b \in AccountIds \ {a}, b \notin spoilt', Stored(b)
        PROVE  /\ \A q, x \in Requests : Refreshing(q, b)' /\ Refreshing(x, b)' => q = x
               /\ \A q \in Requests : Refreshing(q, b)' /\ pc'[q] \in Saving => call'[q].tok \notin revoked
               /\ accounts[b].tok \in revoked =>
                    \E q \in Requests : Refreshing(q, b)' /\ pc'[q] \in Saving /\ call'[q].tok # None
    <3>1. /\ \A q, x \in Requests : Refreshing(q, b) /\ Refreshing(x, b) => q = x
          /\ \A q \in Requests : Refreshing(q, b) /\ pc[q] \in Saving => call[q].tok \notin revoked
          /\ accounts[b].tok \in revoked =>
               \E q \in Requests : Refreshing(q, b) /\ pc[q] \in Saving /\ call[q].tok # None
      BY <2>1, <2>4 DEF IInv, RefreshInv
    <3>2. ~Refreshing(r, b)
      BY <2>4 DEF Refreshing
    <3> QED
      BY <1>5, <1>6, <3>1, <3>2
  <2>5. \A q \in Requests : Running(q)' /\ pc'[q] \notin Asking => call'[q].tok \notin revoked
    BY <1>5, <1>6, NamesAssumption DEF IInv, RefreshInv, TypeOK
  <2> QED
    BY <1>2, <1>4, <2>2, <2>3, <2>4, <2>5 DEF RefreshInv
<1> QED
  BY <1>3, <1>4, <1>8, <1>9, <1>10

(* A refresh that ends without writing.                                    *)
LEMMA LeaveToken ==
    ASSUME IInv, NEW r \in Requests, NEW a, pc[r] \in Asking, call[r].acc = a, Return(r),
           UNCHANGED <<accounts, revoked>>,
           \/ UNCHANGED spoilt /\ (pc[r] = "ask" \/ call[r].tok = None \/ ~Stored(a))
           \/ spoilt' = spoilt \cup {a}
    PROVE  TokensApart' /\ CopiesApart' /\ RefreshInv'
<1>1. /\ pc'[r] = "idle" /\ call'[r] = None
      /\ \A q \in Requests \ {r} : pc'[q] = pc[q] /\ call'[q] = call[q]
  BY KeepType DEF IInv, Return
<1>2. /\ \A b : ~Refreshing(r, b)' /\ ~Running(r)'
      /\ \A q \in Requests \ {r} : \A b : Refreshing(q, b)' <=> Refreshing(q, b)
      /\ \A q \in Requests \ {r} : Running(q)' <=> Running(q)
      /\ \A b : Refreshing(r, b) => b = a
  BY <1>1 DEF Refreshing, Running
<1>3. TokensApart'
  BY <1>1, <1>2 DEF IInv, TokensApart, Stored
<1>4. RefreshInv'
  <2>1. \A b : b \notin spoilt' => b \notin spoilt
    OBVIOUS
  <2>2. ASSUME NEW b \in AccountIds, b \notin spoilt', Stored(b), accounts[b].tok \in revoked
        PROVE  \E q \in Requests : Refreshing(q, b)' /\ pc'[q] \in Saving /\ call'[q].tok # None
    <3>1. PICK q \in Requests : Refreshing(q, b) /\ pc[q] \in Saving /\ call[q].tok # None
      BY <2>1, <2>2 DEF IInv, RefreshInv
    <3>2. q # r
      BY <1>2, <2>2, <3>1 DEF Saving
    <3> QED
      BY <1>1, <1>2, <3>1, <3>2
  <2> QED
    BY <1>1, <1>2, <2>1, <2>2 DEF IInv, RefreshInv, Stored
<1>5. CopiesApart'
  BY <1>1, <1>2, CopiesKeep DEF IInv, Stored
<1> QED BY <1>3, <1>4, <1>5

LEMMA LeftKeeps ==
    ASSUME IInv, NEW r \in Requests, NEW a \in AccountIds, pc[r] \in Asking, call[r].acc = a, Return(r),
           UNCHANGED <<users, accounts, states, revoked, mixed>>,
           \/ UNCHANGED spoilt /\ (pc[r] = "ask" \/ call[r].tok = None \/ ~Stored(a))
           \/ spoilt' = spoilt \cup {a}
    PROVE  IInv'
<1>1. Keep(r, None, "idle") /\ spoilt' \subseteq AccountIds
  BY DEF Return, IInv, TypeOK
<1>2. TypeOK'
  BY <1>1, KeepType DEF IInv, TypeOK
<1>3. IdentityInv'
  BY <1>1, WalkIdentity DEF IInv, Signing, Stored
<1>4. TokensApart' /\ CopiesApart' /\ RefreshInv'
  BY LeaveToken
<1> QED
  BY <1>2, <1>3, <1>4 DEF IInv

(* The first statement of an update: the copy is of the account's token,   *)
(* which is nobody's but the account's.                                    *)
LEMMA SelectRowKeeps ==
    ASSUME IInv, NEW r \in Requests, NEW stage,
           \/ pc[r] = "update" /\ stage = "updating"
           \/ pc[r] = "save" /\ stage = "saving",
           SelectRow(r, stage), UNCHANGED <<rows, revoked, ghosts>>
    PROVE  IInv'
<1>1. PICK a \in AccountIds : a = call[r].acc
  BY HoldsAt DEF Holds, Asking, Saving
<1>2. UNCHANGED <<users, accounts, states, revoked, mixed, spoilt>> /\ Quiet
  BY QuietRows DEF rows, ghosts
<1>3. CASE ~Stored(a) /\ Return(r)
  <2>1. CASE pc[r] = "update"
    BY <1>2, <1>3, <2>1, StopWalks DEF Asking, Saving
  <2>2. CASE pc[r] = "save"
    BY <1>1, <1>2, <1>3, <2>2, LeftKeeps DEF Asking, Saving
  <2> QED BY <2>1, <2>2
<1>4. ASSUME Stored(a), NEW c, NEW x,
             c = [call[r] EXCEPT !.copy = x], Keep(r, c, stage),
             x = IF call[r].tok = None THEN accounts[a].tok ELSE None
      PROVE  IInv'
  <2>1. call[r] \in Call /\ Holds(call[r], pc[r]) /\ Running(r)
    BY HoldsAt
  <2>2. accounts[a].tok \in Tokens \cup {None}
    BY <1>4 DEF IInv, TypeOK, Stored, Account
  <2>3. /\ c \in Call /\ c.copy = x /\ c.acc = a /\ c.tok = call[r].tok /\ c.prov = call[r].prov
        /\ c.user = call[r].user /\ c.how = call[r].how /\ c.link = call[r].link /\ c.email = call[r].email
    BY <1>1, <1>4, <2>1, <2>2 DEF Call
  <2>4. Holds(c, stage)
    <3>1. c.tok # None => c.copy = None
      BY <1>4, <2>3
    <3>2. CASE stage = "updating"
      BY <2>1, <2>3, <3>1, <3>2 DEF Holds, Finding, Signing, Asking, Saving
    <3>3. CASE stage = "saving"
      BY <2>1, <2>3, <3>1, <3>3 DEF Holds, Finding, Signing, Asking, Saving
    <3> QED BY <3>2, <3>3
  <2>5. /\ pc'[r] = stage /\ call'[r] = c
        /\ \A q \in Requests \ {r} : pc'[q] = pc[q] /\ call'[q] = call[q]
    BY <1>4, <2>4, KeepType DEF IInv
  <2>6. TypeOK'
    BY <1>2, <1>4, <2>4, KeepType DEF IInv, TypeOK
  <2>7. /\ \A q \in Requests : \A b : Refreshing(q, b)' <=> Refreshing(q, b)
        /\ \A q \in Requests : Running(q)' <=> Running(q)
        /\ \A q \in Requests : call'[q].tok = call[q].tok
        /\ \A q \in Requests : /\ pc'[q] \in Saving <=> pc[q] \in Saving
                               /\ pc'[q] \in Asking <=> pc[q] \in Asking
    BY <1>1, <2>1, <2>3, <2>5, NamesAssumption DEF Refreshing, Running, Saving, Asking
  <2>8. \A q \in Requests : call'[q].acc = call[q].acc
    BY <1>1, <2>3, <2>5
  <2>9. TokensApart'
    BY <1>2, <2>7, <2>8 DEF IInv, TokensApart, Stored
  <2>10. RefreshInv'
    BY <1>2, <2>7 DEF IInv, RefreshInv, Stored
  <2>11. IdentityInv'
    BY <1>2, <1>4, <2>3, <2>4, WalkIdentity DEF IInv, Signing, Stored
  <2>12. CopiesApart'
    <3>1. \A b \in AccountIds : Stored(b)' => Stored(b) /\ accounts'[b].tok = accounts[b].tok
      BY <1>2 DEF Stored
    <3>2. \A q \in Requests \ {r} : Running(q) /\ call[q].copy # None /\ call'[r].tok = call[q].copy =>
              Refreshing(r, call[q].acc)'
      BY <2>1, <2>5, <2>7 DEF IInv, CopiesApart
    <3>3. x # None =>
            /\ \A b \in AccountIds : Stored(b)' /\ accounts'[b].tok = x => b = a
            /\ \A q \in Requests : Running(q)' /\ call'[q].tok = x => Refreshing(q, a)'
            /\ \A q \in Requests \ {r} : Running(q) /\ call[q].copy = x => call[q].acc = a
      BY <1>2, <1>4, <2>7, <3>1 DEF IInv, TokensApart, CopiesApart
    <3> QED
      BY <2>3, <2>5, <3>1, <3>2, <3>3, CopiesKeep DEF IInv
  <2> QED
    BY <2>6, <2>9, <2>10, <2>11, <2>12 DEF IInv
<1> QED
  BY <1>1, <1>3, <1>4 DEF SelectRow

(* A sign-in that has updated the account, or had nothing to update.       *)
LEMMA UpdatedForm ==
    ASSUME IInv, NEW r \in Requests, pc[r] \in {"update", "updating"}, Updated(r)
    PROVE  \E c, stage :
             /\ Keep(r, c, stage)
             /\ \/ stage = "idle" /\ c = None
                \/ /\ stage = "findUser" /\ Holds(c, stage) /\ c.tok = None
                   /\ c.prov = call[r].prov /\ c.user = call[r].user
<1>1. Holds(call[r], pc[r]) /\ call[r] \in Call
  BY HoldsAt
<1>2. CASE call[r].link # None
  BY <1>2 DEF Updated, Return
<1>3. CASE call[r].link = None
  <2>1. PICK c : c = [call[r] EXCEPT !.tok = None, !.copy = None, !.acc = None] /\ Keep(r, c, "findUser")
    BY <1>3 DEF Updated
  <2>2. /\ c \in Call /\ c.prov = call[r].prov /\ c.user = call[r].user
        /\ c.tok = None /\ c.copy = None /\ c.email = call[r].email
    BY <1>1, <2>1 DEF Call
  <2>3. Holds(c, "findUser")
    BY <1>1, <1>3, <2>2 DEF Holds, Finding, Signing, Asking, Saving
  <2> QED
    BY <2>1, <2>2, <2>3
<1> QED BY <1>2, <1>3

LEMMA UpdateAccountKeeps ==
    ASSUME IInv, NEW r \in Requests, UpdateAccount(r)
    PROVE  IInv'
<1>1. CASE SelectRow(r, "updating")
  BY <1>1, SelectRowKeeps DEF UpdateAccount
<1>2. CASE Updated(r)
  <2>1. PICK c, stage :
             /\ Keep(r, c, stage)
             /\ \/ stage = "idle" /\ c = None
                \/ /\ stage = "findUser" /\ Holds(c, stage) /\ c.tok = None
                   /\ c.prov = call[r].prov /\ c.user = call[r].user
    BY <1>2, UpdatedForm DEF UpdateAccount
  <2>2. Walks(r, c, stage)
    BY <2>1 DEF UpdateAccount, Walks, Asking, Saving, Signing
  <2> QED
    BY <2>2, QuietRows, WalkKeeps DEF UpdateAccount
<1> QED
  BY <1>1, <1>2 DEF UpdateAccount

LEMMA WrittenKeeps ==
    ASSUME IInv, NEW r \in Requests, NEW a \in AccountIds, NEW c, NEW stage,
           pc[r] \in {"updating", "saving"}, call[r].acc = a, Stored(a), WriteRow(r), Keep(r, c, stage),
           \/ stage = "idle" /\ c = None
           \/ /\ pc[r] = "updating" /\ stage = "findUser" /\ Holds(c, stage)
              /\ c.prov = call[r].prov /\ c.user = call[r].user,
           \/ PutsBack(r) /\ spoilt' = spoilt \cup {a}
           \/ ~PutsBack(r) /\ UNCHANGED spoilt
           \/ /\ pc[r] = "updating" /\ call[r].tok # None /\ spoilt' = spoilt \ {a}
              /\ \A q \in Others(r) : ~Refreshing(q, a),
           UNCHANGED <<users, states, revoked, mixed>>
    PROVE  IInv'
<1>1. PICK t : t = IF call[r].tok = None THEN call[r].copy ELSE call[r].tok
  OBVIOUS
<1>2. Writes(a, t)
  BY <1>1 DEF WriteRow, Writes
<1>3. /\ accounts' \in [AccountIds -> Account \cup {None}]
      /\ \A b \in AccountIds : /\ Stored(b)' <=> Stored(b)
                               /\ Stored(b) => /\ accounts'[b].prov = accounts[b].prov
                                               /\ accounts'[b].user = accounts[b].user
      /\ TokensApart' /\ CopiesApart' /\ RefreshInv'
  <2>1. \/ stage = "idle" /\ c = None
        \/ stage = "findUser" /\ Holds(c, stage)
    OBVIOUS
  <2> QED
    BY <1>1, <1>2, <2>1, WriteToken
<1>4. IF stage = "idle" THEN c = None ELSE Holds(c, stage)
  OBVIOUS
<1>5. TypeOK'
  BY <1>3, <1>4, KeepType DEF IInv, TypeOK
<1>6. IdentityInv'
  BY <1>3, <1>4, WalkIdentity DEF IInv, Signing
<1> QED
  BY <1>3, <1>5, <1>6 DEF IInv

LEMMA WriteUpdateKeeps ==
    ASSUME IInv, NEW r \in Requests, WriteUpdate(r)
    PROVE  IInv'
<1>1. PICK a \in AccountIds : a = call[r].acc
  BY HoldsAt DEF WriteUpdate, Holds
<1>2. /\ pc[r] = "updating" /\ WriteRow(r) /\ UNCHANGED <<users, states, revoked, mixed>>
      /\ spoilt' = IF PutsBack(r) THEN spoilt \cup {a}
                   ELSE IF call[r].tok # None /\ \A q \in Others(r) : ~Refreshing(q, a)
                   THEN spoilt \ {a} ELSE spoilt
  BY <1>1 DEF WriteUpdate
<1>3. PICK c, stage :
           /\ Keep(r, c, stage)
           /\ \/ stage = "idle" /\ c = None
              \/ /\ stage = "findUser" /\ Holds(c, stage) /\ c.tok = None
                 /\ c.prov = call[r].prov /\ c.user = call[r].user
  BY UpdatedForm DEF WriteUpdate
<1>4. CASE Stored(a)
  BY <1>1, <1>2, <1>3, <1>4, WrittenKeeps
<1>5. CASE ~Stored(a)
  <2>1. UNCHANGED accounts
    BY <1>1, <1>2, <1>5 DEF WriteRow
  <2>2. accounts[a] = None
    BY <1>5 DEF Stored
  <2>3. TypeOK' /\ IdentityInv'
    <3>1. IF stage = "idle" THEN c = None ELSE Holds(c, stage)
      BY <1>3
    <3>2. spoilt' \subseteq AccountIds
      BY <1>2 DEF IInv, TypeOK
    <3>3. TypeOK'
      BY <1>2, <1>3, <2>1, <3>1, <3>2, KeepType DEF IInv, TypeOK
    <3>4. IdentityInv'
      BY <1>2, <1>3, <2>1, <3>1, WalkIdentity DEF IInv, Signing, Stored
    <3> QED BY <3>3, <3>4
  <2>4. /\ pc'[r] = stage /\ call'[r] = c
        /\ \A q \in Requests \ {r} : pc'[q] = pc[q] /\ call'[q] = call[q]
    BY <1>3, KeepType DEF IInv
  <2>5. /\ \A q \in Requests : \A b : Refreshing(q, b)' <=> Refreshing(q, b)
        /\ \A q \in Requests : \A b : Refreshing(q, b) => q # r
        /\ \A q \in Requests \ {r} : Running(q)' <=> Running(q)
        /\ Running(r)' => c.tok = None /\ c.copy = None /\ stage = "findUser"
    BY <1>2, <1>3, <2>4 DEF Refreshing, Running, Holds
  <2>6. TokensApart'
    BY <2>1, <2>4, <2>5 DEF IInv, TokensApart, Stored
  <2>7. CopiesApart'
    <3>1. \A b \in AccountIds : Stored(b)' => Stored(b) /\ accounts'[b].tok = accounts[b].tok
      BY <2>1 DEF Stored
    <3>2. Running(r)' => call'[r].copy = None
      BY <2>4, <2>5
    <3>3. Running(r)' => \A q \in Requests \ {r} : Running(q) /\ call[q].copy # None
              /\ call'[r].tok = call[q].copy => Refreshing(r, call[q].acc)'
      BY <2>4, <2>5
    <3> QED
      BY <2>4, <3>1, <3>2, <3>3, CopiesKeep DEF IInv
  <2>8. RefreshInv'
    <3>1. \A b \in AccountIds : Stored(b) /\ b \notin spoilt' => b \notin spoilt
      BY <1>2, <1>5
    <3>2. \A q \in Requests : Running(q)' /\ pc'[q] \notin Asking => call'[q].tok \notin revoked
      BY <2>4, <2>5, NamesAssumption DEF IInv, RefreshInv, TypeOK
    <3> QED
      BY <1>2, <2>1, <2>4, <2>5, <3>1, <3>2 DEF IInv, RefreshInv, Stored
  <2> QED
    BY <2>3, <2>6, <2>7, <2>8 DEF IInv
<1> QED BY <1>4, <1>5

LEMMA SaveTokensKeeps ==
    ASSUME IInv, NEW r \in Requests, SaveTokens(r)
    PROVE  IInv'
BY SelectRowKeeps DEF SaveTokens

LEMMA SaveRefreshedKeeps ==
    ASSUME IInv, NEW r \in Requests, SaveRefreshed(r)
    PROVE  IInv'
BY SelectRowKeeps DEF SaveRefreshed

LEMMA WriteTokensKeeps ==
    ASSUME IInv, NEW r \in Requests, WriteTokens(r)
    PROVE  IInv'
<1>1. PICK a \in AccountIds : a = call[r].acc
  BY HoldsAt DEF WriteTokens, Holds, Asking, Saving
<1>2. /\ pc[r] = "saving" /\ WriteRow(r) /\ Return(r) /\ UNCHANGED <<users, states, revoked, mixed>>
      /\ spoilt' = IF PutsBack(r) THEN spoilt \cup {a} ELSE spoilt
  BY <1>1 DEF WriteTokens
<1>3. CASE Stored(a)
  <2>1. Keep(r, None, "idle")
    BY <1>2 DEF Return
  <2> QED
    BY <1>1, <1>2, <1>3, <2>1, WrittenKeeps
<1>4. CASE ~Stored(a)
  BY <1>1, <1>2, <1>4, LeftKeeps DEF WriteRow, PutsBack, Asking, Saving
<1> QED BY <1>3, <1>4

LEMMA StopKeeps ==
    ASSUME IInv, NEW r \in Requests, Stop(r)
    PROVE  IInv'
<1>1. CASE pc[r] \in Asking
  <2>1. PICK a \in AccountIds : call[r].acc = a
    BY <1>1, HoldsAt DEF Stop, Holds
  <2>2. \/ UNCHANGED spoilt /\ (pc[r] = "ask" \/ call[r].tok = None)
        \/ spoilt' = spoilt \cup {a}
    BY <1>1, <2>1 DEF Stop, Asking, Saving
  <2> QED
    BY <1>1, <2>1, <2>2, LeftKeeps DEF Stop, rows
<1>2. CASE pc[r] \notin Asking
  <2>1. Quiet
    BY <1>2 DEF Stop, Quiet, rows, ghosts, Asking, Saving
  <2> QED
    BY <1>2, <2>1, StopWalks DEF Stop
<1> QED BY <1>1, <1>2

LEMMA CreateAccountKeeps ==
    ASSUME IInv, NEW r \in Requests, CreateAccount(r)
    PROVE  IInv'
<1>1. /\ Holds(call[r], "createAccount") /\ pc[r] = "createAccount" /\ Running(r) /\ call[r] \in Call
      /\ call[r].user \in UserIds /\ UNCHANGED <<users, states, revoked, mixed>>
  BY HoldsAt DEF CreateAccount, Holds
<1>2. PICK a, c, stage :
             /\ a \in FreshAccounts
             /\ accounts' = [accounts EXCEPT ![a] = [user |-> call[r].user, prov |-> call[r].prov,
                                                     tok |-> call[r].tok]]
             /\ spoilt' = spoilt \ {a} /\ Keep(r, c, stage)
             /\ \/ stage = "session" /\ c = [call[r] EXCEPT !.tok = None]
                \/ stage = "idle" /\ c = None
  BY DEF CreateAccount, Return
<1>3. stage = "session" => /\ c \in Call /\ c.tok = None /\ c.copy = call[r].copy
                           /\ c.prov = call[r].prov /\ c.user = call[r].user
  BY <1>1, <1>2 DEF Call
<1>4. stage = "session" => Holds(c, stage)
  BY <1>1, <1>3 DEF Holds, Finding, Signing, Asking, Saving
<1>5. IF stage = "idle" THEN c = None ELSE Holds(c, stage)
  BY <1>2, <1>4
<1>6. /\ pc'[r] = stage /\ call'[r] = c
      /\ \A q \in Requests \ {r} : pc'[q] = pc[q] /\ call'[q] = call[q]
  BY <1>2, <1>5, KeepType DEF IInv
<1>7. /\ a \in AccountIds /\ ~Stored(a)
      /\ \A q \in Requests : ~Refreshing(q, a)
  BY <1>2 DEF FreshAccounts, Refreshing
<1>8. [user |-> call[r].user, prov |-> call[r].prov, tok |-> call[r].tok] \in Account
  BY <1>1 DEF Call, Account
<1>9. /\ accounts'[a] \in Account /\ accounts'[a].user = call[r].user
      /\ accounts'[a].prov = call[r].prov /\ accounts'[a].tok = call[r].tok
      /\ Stored(a)' /\ \A b \in AccountIds \ {a} : accounts'[b] = accounts[b] /\ (Stored(b)' <=> Stored(b))
  BY <1>2, <1>7, <1>8, NamesAssumption DEF IInv, TypeOK, Stored
<1>10. TypeOK'
  <2>1. accounts' \in [AccountIds -> Account \cup {None}]
    BY <1>2, <1>8 DEF IInv, TypeOK
  <2> QED
    BY <1>1, <1>2, <1>5, <2>1, KeepType DEF IInv, TypeOK
<1>11. /\ \A q \in Requests : \A b : Refreshing(q, b)' <=> Refreshing(q, b)
       /\ \A q \in Requests : \A b : Refreshing(q, b) => q # r
       /\ \A q \in Requests \ {r} : Running(q)' <=> Running(q)
       /\ Running(r)' => c.tok = None
  BY <1>1, <1>2, <1>3, <1>6 DEF Refreshing, Running
<1>12. TokensApart'
  <2>1. call[r].tok # None => /\ \A b \in AccountIds : Stored(b) => accounts[b].tok # call[r].tok
                              /\ \A q \in Requests \ {r} : Running(q) => call[q].tok # call[r].tok
    BY <1>1, <1>11 DEF IInv, TokensApart
  <2> QED
    BY <1>6, <1>9, <1>11, <2>1 DEF IInv, TokensApart
<1>13. RefreshInv'
  <2>1. call[r].tok \notin revoked
    BY <1>1 DEF IInv, RefreshInv, Asking, Saving
  <2>2. \A q \in Requests : Running(q)' /\ pc'[q] \notin Asking => call'[q].tok \notin revoked
    BY <1>6, <1>11, NamesAssumption DEF IInv, RefreshInv, TypeOK
  <2>3. ASSUME NEW b \in AccountIds \ {a}, b \notin spoilt', Stored(b)
        PROVE  /\ \A q, x \in Requests : Refreshing(q, b)' /\ Refreshing(x, b)' => q = x
               /\ \A q \in Requests : Refreshing(q, b)' /\ pc'[q] \in Saving => call'[q].tok \notin revoked
               /\ accounts[b].tok \in revoked =>
                    \E q \in Requests : Refreshing(q, b)' /\ pc'[q] \in Saving /\ call'[q].tok # None
    <3>1. /\ \A q, x \in Requests : Refreshing(q, b) /\ Refreshing(x, b) => q = x
          /\ \A q \in Requests : Refreshing(q, b) /\ pc[q] \in Saving => call[q].tok \notin revoked
          /\ accounts[b].tok \in revoked =>
               \E q \in Requests : Refreshing(q, b) /\ pc[q] \in Saving /\ call[q].tok # None
      BY <1>2, <2>3 DEF IInv, RefreshInv
    <3> QED
      BY <1>6, <1>11, <3>1
  <2> QED
    BY <1>1, <1>7, <1>9, <1>11, <2>1, <2>2, <2>3 DEF RefreshInv
<1>14. IdentityInv'
  <2>0. PICK p : p = call[r].prov
    OBVIOUS
  <2>1. /\ \A o : o # p => AccountsOf(o)' = AccountsOf(o)
        /\ AccountsOf(p) = {} => AccountsOf(p)' = {a}
        /\ \A o : o # p => a \notin AccountsOf(o)'
    <3>1. \A o, b : /\ b \in AccountsOf(o)' <=> b \in AccountIds /\ Stored(b)' /\ accounts'[b].prov = o
                    /\ b \in AccountsOf(o) <=> b \in AccountIds /\ Stored(b) /\ accounts[b].prov = o
      BY DEF AccountsOf
    <3>2. \A o, b : b \in AccountsOf(o)' <=> b \in AccountsOf(o) \/ (b = a /\ o = p)
      BY <1>7, <1>9, <2>0, <3>1
    <3>3. \A o : a \notin AccountsOf(o)
      BY <1>7, <3>1
    <3>4. \A o : o # p => AccountsOf(o)' = AccountsOf(o)
      BY <3>2
    <3>5. AccountsOf(p) = {} => AccountsOf(p)' = {a}
      BY <3>2
    <3> QED
      BY <3>3, <3>4, <3>5
  <2>2. \A q \in Requests : Searching(q)' => q # r /\ Searching(q) /\ call'[q] = call[q]
    BY <1>2, <1>6 DEF Searching
  <2>3. Searching(r)
    BY <1>1 DEF Searching
  <2>4. p \notin mixed => AccountsOf(p) = {} /\ \A q \in Requests : Searching(q) /\ call[q].prov = p => q = r
    BY <1>1, <2>0, <2>3 DEF IInv, IdentityInv, Call
  <2>5. \A q \in Requests \ {r} : pc'[q] \in Signing /\ call'[q].prov = p => p \in mixed
    BY <1>1, <1>6, <2>0, <2>4 DEF IInv, IdentityInv, Call
  <2>6. pc'[r] \in Signing => call'[r].prov = p /\ call'[r].user = accounts'[a].user
    BY <1>2, <1>3, <1>6, <1>9, <2>0 DEF Signing
  <2>7. ASSUME NEW o \in Providers \ mixed
        PROVE  /\ \A b, d \in AccountsOf(o)' : b = d
               /\ \A q \in Requests : Searching(q)' /\ call'[q].prov = o =>
                     /\ AccountsOf(o)' = {}
                     /\ \A x \in Requests : Searching(x)' /\ call'[x].prov = o => x = q
               /\ \A q \in Requests : pc'[q] \in Signing /\ call'[q].prov = o =>
                     \E b \in AccountsOf(o)' : accounts'[b].user = call'[q].user
    <3>1. CASE o = p
      BY <2>1, <2>2, <2>4, <2>5, <2>6, <2>7, <3>1
    <3>2. CASE o # p
      <4>1. \A b \in AccountsOf(o) : accounts'[b] = accounts[b]
        BY <1>9, <2>1, <3>2 DEF AccountsOf
      <4>2. \A q \in Requests : pc'[q] \in Signing /\ call'[q].prov = o =>
                                   pc[q] \in Signing /\ call'[q] = call[q]
        BY <1>6, <2>6, <3>2
      <4> QED
        BY <2>1, <2>2, <2>7, <3>2, <4>1, <4>2 DEF IInv, IdentityInv
    <3> QED BY <3>1, <3>2
  <2> QED
    BY <1>1, <2>7 DEF IdentityInv
<1>15. CopiesApart'
  <2>1. Running(r)' => call'[r].copy = None
    BY <1>2, <1>4, <1>6 DEF Running, Holds
  <2>2. Running(r)' => \A q \in Requests \ {r} : Running(q) /\ call[q].copy # None
            /\ call'[r].tok = call[q].copy => Refreshing(r, call[q].acc)'
    BY <1>6, <1>11
  <2>3. \A b \in AccountIds : Stored(b)' =>
           \/ Stored(b) /\ accounts'[b].tok = accounts[b].tok
           \/ \A q \in Requests \ {r} : Running(q) /\ call[q].copy # None
                  /\ call[q].copy = accounts'[b].tok => call[q].acc = b
    BY <1>1, <1>9, <1>11 DEF IInv, CopiesApart
  <2> QED
    BY <1>6, <2>1, <2>2, <2>3, CopiesKeep DEF IInv
<1> QED
  BY <1>10, <1>12, <1>13, <1>14, <1>15 DEF IInv

-----------------------------------------------------------------------------
(* Steps that are no request's.                                            *)
LEMMA RowsKeep ==
    ASSUME IInv, UNCHANGED <<accounts, pc, call, revoked, ghosts>>,
           UNCHANGED users \/ users' \in [UserIds -> Emails \cup {None}],
           UNCHANGED states \/ states' \in [States -> Flow \cup {None}]
    PROVE  IInv'
<1>1. TypeOK'
  BY DEF IInv, TypeOK, ghosts
<1>2. TokensApart'
  BY DEF IInv, TokensApart, Stored, Running, Refreshing
<1>3. RefreshInv'
  BY DEF IInv, RefreshInv, Stored, Running, Refreshing, ghosts
<1>4. IdentityInv'
  BY DEF IInv, IdentityInv, AccountsOf, Stored, Searching, ghosts
<1>5. CopiesApart'
  BY DEF IInv, CopiesApart, Stored, Running, Refreshing
<1> QED
  BY <1>1, <1>2, <1>3, <1>4, <1>5 DEF IInv

LEMMA SSOProviderKeeps ==
    ASSUME IInv, NEW p \in SSOIds, NEW config \in Configs,
           \/ CreateSSOProvider(p, config) \/ UpdateSSOProvider(p, config) \/ DeleteSSOProvider(p)
    PROVE  IInv'
BY RowsKeep DEF CreateSSOProvider, UpdateSSOProvider, DeleteSSOProvider

LEMMA CreateStateKeeps ==
    ASSUME IInv, NEW p \in Providers, NEW link \in UserIds \cup {None}, CreateState(p, link)
    PROVE  IInv'
<1>1. PICK s \in States : states' = [states EXCEPT ![s] = [prov |-> p, link |-> link]]
  BY DEF CreateState
<1>2. states' \in [States -> Flow \cup {None}]
  BY <1>1 DEF IInv, TypeOK, Flow
<1> QED
  BY <1>2, RowsKeep DEF CreateState

LEMMA SignUpKeeps ==
    ASSUME IInv, NEW e \in Emails, SignUp(e)
    PROVE  IInv'
<1>1. users' \in [UserIds -> Emails \cup {None}]
  BY DEF SignUp, FreshUsers, IInv, TypeOK
<1> QED
  BY <1>1, RowsKeep DEF SignUp

LEMMA DeleteUserKeeps ==
    ASSUME IInv, NEW u \in UserIds, DeleteUser(u)
    PROVE  IInv'
<1>0. PICK gone, left, used, lost :
             /\ gone = {a \in AccountIds : Stored(a) /\ accounts[a].user = u}
             /\ left = {p \in Providers : AccountsOf(p) \ gone = {}}
             /\ used = {call[q].prov : q \in {x \in Requests : Running(x)}}
             /\ lost = {accounts[a].prov : a \in gone}
             /\ users' = [users EXCEPT ![u] = None]
             /\ accounts' = [a \in AccountIds |-> IF a \in gone THEN None ELSE accounts[a]]
             /\ mixed' = (mixed \ (left \ used)) \cup (lost \cap used)
             /\ spoilt' = spoilt \ gone
             /\ UNCHANGED <<ssoProviders, states, pc, call, revoked>>
  BY DEF DeleteUser
<1>1. /\ \A a \in AccountIds : Stored(a)' <=> Stored(a) /\ a \notin gone
      /\ \A a \in AccountIds : Stored(a)' => accounts'[a] = accounts[a]
      /\ \A q : (Running(q)' <=> Running(q)) /\ (Searching(q)' <=> Searching(q))
      /\ \A q, a : Refreshing(q, a)' <=> Refreshing(q, a)
  BY <1>0 DEF Stored, Running, Searching, Refreshing
<1>2. TypeOK'
  <2>1. users' \in [UserIds -> Emails \cup {None}] /\ accounts' \in [AccountIds -> Account \cup {None}]
    BY <1>0 DEF IInv, TypeOK
  <2>2. used \subseteq Providers
    BY <1>0 DEF IInv, TypeOK, Running, Call
  <2> QED
    BY <1>0, <2>1, <2>2 DEF IInv, TypeOK
<1>3. TokensApart'
  BY <1>0, <1>1 DEF IInv, TokensApart
<1>4. RefreshInv'
  <2>1. \A a \in AccountIds : a \notin spoilt' /\ Stored(a)' => a \notin spoilt /\ Stored(a)
    BY <1>0, <1>1
  <2> QED
    BY <1>0, <1>1, <2>1 DEF IInv, RefreshInv
<1>5. IdentityInv'
  <2>1. SUFFICES ASSUME NEW p \in Providers \ mixed'
                 PROVE  /\ \A a, b \in AccountsOf(p)' : a = b
                        /\ \A r \in Requests : Searching(r) /\ call[r].prov = p =>
                              /\ AccountsOf(p)' = {}
                              /\ \A q \in Requests : Searching(q) /\ call[q].prov = p => q = r
                        /\ \A r \in Requests : pc[r] \in Signing /\ call[r].prov = p =>
                              \E a \in AccountsOf(p)' : accounts'[a].user = call[r].user
    BY <1>0, <1>1 DEF IdentityInv
  <2>2. AccountsOf(p)' = AccountsOf(p) \ gone
    BY <1>0, <1>1 DEF AccountsOf
  <2>3. \A r \in Requests : Searching(r) \/ pc[r] \in Signing => Running(r)
    BY HoldsAt DEF Searching, Signing
  <2>4. p \notin used => \A r \in Requests : call[r].prov = p => ~Searching(r) /\ pc[r] \notin Signing
    BY <1>0, <2>3
  <2>5. CASE p \in mixed
    <3>1. AccountsOf(p)' = {} /\ p \notin used
      BY <1>0, <2>1, <2>2, <2>5
    <3> QED
      BY <2>4, <3>1
  <2>6. CASE p \notin mixed
    <3>1. /\ \A a, b \in AccountsOf(p) : a = b
          /\ \A r \in Requests : Searching(r) /\ call[r].prov = p =>
                /\ AccountsOf(p) = {}
                /\ \A q \in Requests : Searching(q) /\ call[q].prov = p => q = r
          /\ \A r \in Requests : pc[r] \in Signing /\ call[r].prov = p =>
                \E a \in AccountsOf(p) : accounts[a].user = call[r].user
      BY <2>6 DEF IInv, IdentityInv
    <3>2. CASE p \notin used
      BY <2>2, <2>4, <3>1, <3>2
    <3>3. CASE p \notin lost
      <4>1. AccountsOf(p)' = AccountsOf(p)
        BY <1>0, <2>2, <3>3 DEF AccountsOf
      <4>2. \A a \in AccountsOf(p) : accounts'[a] = accounts[a]
        BY <1>1, <4>1 DEF AccountsOf
      <4> QED
        BY <3>1, <4>1, <4>2
    <3> QED
      BY <1>0, <2>1, <3>2, <3>3
  <2> QED BY <2>5, <2>6
<1>6. CopiesApart'
  BY <1>0, <1>1 DEF IInv, CopiesApart
<1> QED
  BY <1>2, <1>3, <1>4, <1>5, <1>6 DEF IInv

-----------------------------------------------------------------------------
(* The invariant is inductive.                                             *)
LEMMA InitIInv ==
    ASSUME Init
    PROVE  IInv
<1>1. TypeOK
  BY DEF Init, TypeOK
<1>2. TokensApart
  BY DEF Init, TokensApart, Stored, Running
<1>3. RefreshInv
  BY DEF Init, RefreshInv, Stored, Running
<1>4. IdentityInv
  BY DEF Init, IdentityInv, AccountsOf, Stored, Searching, Signing
<1>5. CopiesApart
  BY DEF Init, CopiesApart, Running
<1> QED
  BY <1>1, <1>2, <1>3, <1>4, <1>5 DEF IInv

LEMMA StepKeeps ==
    ASSUME IInv, NEW r \in Requests, Start(r) \/ Step(r)
    PROVE  IInv'
<1>1. CASE Start(r)
  BY <1>1, CallbackKeeps, ACSKeeps, ReadTokensKeeps DEF Start, GetAccessToken, AccountInfo, RefreshToken
<1>2. CASE Step(r)
  BY <1>2, ExchangeKeeps, FindAccountKeeps, UpdateAccountKeeps, FindUserKeeps, OverrideUserInfoKeeps,
     ExchangeSSOKeeps, FindSSOAccountKeeps, UpdateSSOAccountKeeps, FindSSOUserByEmailKeeps,
     FindUserByEmailKeeps, CreateUserKeeps, CreateAccountKeeps, NewSessionKeeps, LinkAccountKeeps,
     AskKeeps, WriteUpdateKeeps, SaveTokensKeeps, SaveRefreshedKeeps, WriteTokensKeeps, StopKeeps
     DEF Step
<1> QED BY <1>1, <1>2

LEMMA NextIInv ==
    ASSUME IInv, [Next]_vars
    PROVE  IInv'
<1>1. CASE UNCHANGED vars
  BY <1>1, RowsKeep DEF vars, rows
<1>2. ASSUME NEW p \in SSOIds, NEW config \in Configs,
             CreateSSOProvider(p, config) \/ UpdateSSOProvider(p, config)
      PROVE  IInv'
  BY <1>2, SSOProviderKeeps
<1>3. ASSUME NEW p \in SSOIds, DeleteSSOProvider(p) \/ SignInSSO(p)
      PROVE  IInv'
  BY <1>3, SSOProviderKeeps, CreateStateKeeps DEF Configs, SignInSSO, buildSSOOIDCRedirectURL, Providers
<1>4. ASSUME NEW g \in Generic, SignInOAuth2(g) \/ \E u \in UserIds : LinkOAuth2(g, u)
      PROVE  IInv'
  BY <1>4, CreateStateKeeps DEF SignInOAuth2, LinkOAuth2, Providers
<1> QED
  BY <1>1, <1>2, <1>3, <1>4, StepKeeps, DeleteUserKeeps, SignUpKeeps DEF Next

(* Rows, requests and tokens keep their form, tokens have one owner, and   *)
(* refreshes and lookups stay apart where nothing is marked.               *)
THEOREM AlwaysIInv == Spec => []IInv
<1>1. Init => IInv
  BY InitIInv
<1>2. IInv /\ [Next]_vars => IInv'
  BY NextIInv
<1> QED
  BY <1>1, <1>2, PTL DEF Spec

(* The refresh token an account holds is one its provider honours, while   *)
(* the account is not marked and its new token is not being stored, though *)
(* every update writes a row back that was read before                     *)
(* (getValidAccessToken, handleRefreshToken and their counterparts, the    *)
(* UpdateAccount of the SQL store).                                        *)
THEOREM TokensStayHonoured == Spec => []TokenHonoured
<1>1. IInv => TokenHonoured
  BY DEF IInv, RefreshInv, TokenHonoured, Refreshing, Saving
<1> QED
  BY <1>1, AlwaysIInv, PTL

(* An identity nobody has mixed up signs in the one user of its account    *)
(* (ssoSessionFromOIDCUser, ssoSessionFromAssertion, genericOAuthSignInUser*)
(* and handleGenericOAuthLinkCallback).                                    *)
THEOREM IdentitiesKeepUsers == Spec => []IdentityKeepsUser
<1>1. IInv => IdentityKeepsUser
  BY DEF IInv, IdentityInv, IdentityKeepsUser, Signing
<1> QED
  BY <1>1, AlwaysIInv, PTL

=============================================================================
