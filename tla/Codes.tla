-------------------------------- MODULE Codes --------------------------------
(***************************************************************************)
(* One-time codes, links and tokens, and what using one does to the user   *)
(* it was sent to: the email OTP, phone number and magic link plugins, the *)
(* one-time token plugin, the cookie of a trusted device, which a sign-in  *)
(* takes for the second factor (auth/two_factor_challenge.go), and the     *)
(* signed links of /send-verification-email, /change-email and             *)
(* /verify-email (auth/routes_email.go, routes_email_change.go,            *)
(* routes_user.go).                                                        *)
(*                                                                         *)
(* A request is a process and a store call is a step, except that a read   *)
(* and the decision it feeds are one step.  A request may end at any stage *)
(* (Stop): a store call or a callback that fails, a password the reset     *)
(* does not accept, a server that stops.  A request that finds nothing     *)
(* changes nothing and is not modelled.                                    *)
(*                                                                         *)
(* A code is named by the request that makes it (two random codes are      *)
(* never equal) and a user by the request that signs it up.  A signed link *)
(* is not stored: it works until it expires, as often as it is used.  The  *)
(* session's user is read from the database; a deployment's own VerifyOTP  *)
(* callback is left out.                                                   *)
(***************************************************************************)
EXTENDS FiniteSets, Naturals

CONSTANTS Requests, OldCode, OldUser, None, Emails, Phones,
          TempEmail,       \* GetTempEmail: the address a phone sign-up gets
          Text,            \* Text[id]: the string identifier id is written as
          AllowedAttempts,
          Adapters, Configs,
          Beginnings       \* bound: what the database and the mail boxes start with

CodeNames == Requests \cup {OldCode}
Users == Requests \cup {OldUser}

EmailKinds == {"sign-in", "email-verification", "forget-password", "change-email"}
PhoneKinds == {"phone", "phone-reset"}
TokenKinds == {"magic-link", "one-time", "trust-device"}

(* The identifiers that are stored, by what they say, and those of signed  *)
(* links.  The table knows the string only.                                *)
StoredId ==
    [kind : EmailKinds, to : Emails, of : Emails \cup {TempEmail, None}]
        \cup [kind : PhoneKinds, to : Phones, of : {None}]
        \cup [kind : {"magic-link"}, to : Emails, of : CodeNames]
        \cup [kind : TokenKinds \ {"magic-link"}, to : Users, of : CodeNames]
AnyId == StoredId \cup [kind : {"signed-link"}, to : Emails, of : Emails \cup {TempEmail, None}]
                  \cup [kind : {"core-change"}, to : Emails, of : Emails \cup {TempEmail}]

CodeRow    == [id : StoredId, code : CodeNames, attempts : Nat, lapsed : BOOLEAN]
Person     == [email : Emails \cup {TempEmail}, verified : BOOLEAN, phone : Phones \cup {None},
               phoneVerified : BOOLEAN, password : Users \cup {None}]
SignedLink == [kind : {"verify", "confirm", "change"}, email : Emails \cup {TempEmail}, to : Emails]
Held       == [op : {"send", "rotate", "save", "redeem", "update", "check", "clear", "signIn", "change"},
               id : AnyId \cup {None}, row : CodeRow \cup {None}, user : Users \cup {None},
               seen : BOOLEAN, copy : Person \cup {None}]

ASSUME NameAssumption ==
    /\ OldCode \notin Requests /\ OldUser \notin Requests
    /\ Emails \cap Phones = {} /\ TempEmail \notin Emails \cup Phones
    /\ None \notin Users \cup CodeNames \cup Emails \cup Phones \cup {TempEmail}
    /\ None \notin AnyId /\ None \notin CodeRow /\ None \notin Person /\ None \notin Held
ASSUME OptionAssumption ==
    /\ AllowedAttempts \in Nat \ {0} /\ Adapters \subseteq {"memory", "sql"}
    /\ Configs \subseteq [signUp : BOOLEAN, revoke : BOOLEAN, direct : BOOLEAN, confirm : BOOLEAN]

(* A random token is written like nothing else.  The rest is strings put   *)
(* together (otpIdentifier, phoneVerificationIdentifier): "a-b" for a      *)
(* change from a to b may well be what another change is written as.       *)
ASSUME TextAssumption ==
    /\ Text = [i \in StoredId |-> Text[i]]
    /\ \A i, j \in StoredId : i.kind \in TokenKinds /\ Text[i] = Text[j] => i = j

(* What a row says is verified is an address somebody can have used a code *)
(* of; a token is its own identifier and is not guessed at.                *)
ASSUME BeginningAssumption ==
    \A b \in Beginnings :
       /\ b.user \in Person /\ b.links \subseteq SignedLink
       /\ b.user.verified => b.user.email # TempEmail
       /\ b.user.phoneVerified => b.user.phone # None
       /\ b.id \in StoredId \cup {None} /\ b.guesses \in Nat /\ b.lapsed \in BOOLEAN
       /\ b.id # None /\ b.id.kind \in TokenKinds => b.guesses = 0 /\ b.id.of = OldCode

VARIABLES
    adapter,
    options,   \* signUp: DisableSignUp is off; revoke: RevokeSessionsOnPasswordReset;
               \* direct: UpdateEmailWithoutVerification; confirm: SendChangeEmailConfirmation
    rows,      \* the verification table
    user,      \* user[u]: the row of u, or None
    byEmail,   \* byEmail[e]: the user FindUserByEmail returns, or None
    sessions,  \* pairs [by, of]: the session request `by' made for user `of'
    links,     \* the signed links sent so far
    pc, call,  \* how far a request got, and what it holds
    issued,    \* issued[c]: the identifier code c was made for, or None
    accepted,  \* accepted[r]: the code r accepted and what had become of it by then
    dead,      \* codes used up, replaced or dropped
    wrong,     \* wrong[c]: wrong guesses saved against c
    raced,     \* codes whose row changed while another request held a copy
    kept,      \* codes that outlived their use because the delete failed
    proved,    \* addresses a used code or link was sent to
    misread,   \* addresses a code was used for that had been sent to another
    stale      \* users that changed while another request held a copy

ghosts == <<issued, accepted, dead, wrong, raced, kept, proved, misread, stale>>
store  == <<rows, user, byEmail, sessions, links>>
vars   == <<adapter, options, store, pc, call, ghosts>>

(* Identifiers: otpIdentifier, the phone's two, and the random tokens.     *)
Id(kind, to, of) == [kind |-> kind, to |-> to, of |-> of]
Row(id, c, n)    == [id |-> id, code |-> c, attempts |-> n, lapsed |-> FALSE]
UserRow(e, verified, p, phoneVerified) ==
    [email |-> e, verified |-> verified, phone |-> p, phoneVerified |-> phoneVerified,
     password |-> None]
Link(kind, e, to) == [kind |-> kind, email |-> e, to |-> to]

At(id)          == {x \in rows : Text[x.id] = Text[id]}
Existing        == {u \in Users : user[u] # None}
WithPhone(p)    == {u \in Existing : user[u].phone = p}

-----------------------------------------------------------------------------
Init ==
    /\ adapter \in Adapters /\ options \in Configs
    /\ \E b \in Beginnings :
          /\ links = b.links
          /\ user = [u \in Users |-> IF u = OldUser THEN b.user ELSE None]
          /\ byEmail = [e \in Emails \cup {TempEmail} |-> IF e = b.user.email THEN OldUser ELSE None]
          /\ rows = IF b.id = None THEN {}
                    ELSE {[Row(b.id, OldCode, b.guesses) EXCEPT !.lapsed = b.lapsed]}
          /\ issued = [c \in CodeNames |-> IF c = OldCode THEN b.id ELSE None]
          /\ wrong = [c \in CodeNames |-> IF c = OldCode THEN b.guesses ELSE 0]
          /\ proved = {a \in Emails \cup Phones :
                         \/ a = b.user.email /\ b.user.verified
                         \/ a = b.user.phone /\ b.user.phoneVerified}
    /\ sessions = {}
    /\ pc = [r \in Requests |-> "idle"] /\ call = [r \in Requests |-> None]
    /\ accepted = [r \in Requests |-> None]
    /\ dead = {} /\ raced = {} /\ kept = {} /\ misread = {} /\ stale = {}

Keep(r, c, stage) ==
    /\ pc' = [pc EXCEPT ![r] = stage]
    /\ call' = [call EXCEPT ![r] = c]
Return(r)    == Keep(r, None, "done")
Go(r, stage) == pc' = [pc EXCEPT ![r] = stage] /\ UNCHANGED call

Ask(op, id, x, u) == [op |-> op, id |-> id, row |-> x, user |-> u, seen |-> FALSE, copy |-> None]
Only(rest) == UNCHANGED rest /\ UNCHANGED <<adapter, options>>

(* The row of an identifier changes: what was there is dead unless it is   *)
(* the code that goes on, and the copies others hold are old.              *)
HoldingCopy(id) == {q \in Requests : /\ pc[q] \in {"create", "consume"} /\ call[q].op # "send"
                                     /\ Text[call[q].id] = Text[id]}

(* Bug form: what was there stays next to the new row.                    *)
Put_KeepsOld(r, id, new, goesOn) ==
    /\ rows' = rows \cup new
    /\ dead' = dead \cup ({x.code : x \in At(id)} \ goesOn)
    /\ raced' = raced \cup {call[q].row.code : q \in HoldingCopy(id) \ {r}}

Put(r, id, new, goesOn) ==
    /\ rows' = (rows \ At(id)) \cup new
    /\ dead' = dead \cup ({x.code : x \in At(id)} \ goesOn)
    /\ raced' = raced \cup {call[q].row.code : q \in HoldingCopy(id) \ {r}}

(* UpdateUser.  In memory it changes the fields it is given under a lock;  *)
(* in SQL it reads the row first (FindCurrent) and then writes all of it.  *)
Updating   == {"mark", "changeEmail", "setPhone", "markPhone", "setEmail", "takeOff"}
Current(r) == IF adapter = "sql" THEN call[r].copy ELSE user[call[r].user]

FindCurrent(r) ==
    /\ adapter = "sql" /\ pc[r] \in Updating /\ call[r].copy = None
    /\ Keep(r, [call[r] EXCEPT !.copy = user[call[r].user]], pc[r])
    /\ Only(<<store, ghosts>>)

(* The unique column stops a second holder of an address in SQL, the map   *)
(* of the memory store follows whoever wrote last.                         *)
MayTake(u, e) == adapter = "sql" => \A v \in Existing \ {u} : user[v].email # e

(* What became of u since a request decided about it or copied its row.    *)
Acting == {"setPassword", "mark", "checkNew", "setEmail"}
Overtaken(r, u, new) ==
    \/ adapter = "sql" /\ [call[r].copy EXCEPT !.password = user[u].password] # user[u]
    \/ \E q \in Requests \ {r} :
          /\ pc[q] # "idle" /\ pc[q] # "done" /\ call[q].user = u
          /\ \/ pc[q] \in Acting /\ (new.email # user[u].email \/ new.verified # user[u].verified)
             \/ pc[q] = "markPhone" /\ new.phone # user[u].phone

Change(r, u, new) ==
    /\ adapter = "sql" => call[r].copy # None
    /\ MayTake(u, new.email)
    /\ user' = [user EXCEPT ![u] = [new EXCEPT !.password = user[u].password]]
    /\ stale' = IF Overtaken(r, u, new) THEN stale \cup {u} ELSE stale

ReIndexed(u, e) == [byEmail EXCEPT ![user[u].email] = None, ![e] = u]

(* An update that is not given an address writes the one of its copy.      *)
ChangeRest(r, u, new) ==
    /\ Change(r, u, new)
    /\ byEmail' = IF new.email = user[u].email THEN byEmail ELSE ReIndexed(u, new.email)

Advance(r, stage) == Keep(r, [call[r] EXCEPT !.copy = None], stage)

-----------------------------------------------------------------------------
(* Making a code.  /email-otp/send-verification-otp, /request-password-reset *)
(* and /request-email-change, /phone-number/send-otp, /request-password-   *)
(* reset, and /sign-in/phone-number of an unverified number, each write the *)
(* row first; so do /sign-in/magic-link and /one-time-token/generate.      *)
NewRow(r, op, id, u) ==
    /\ Keep(r, Ask(op, id, Row(id, r, 0), u), "create")
    /\ issued' = [issued EXCEPT ![r] = id]
    /\ Only(<<store, accepted, dead, wrong, raced, kept, proved, misread, stale>>)
Issue(r, id, u) == NewRow(r, "send", id, u)

sendOTPForType(r, kinds) == \E kind \in kinds, e \in Emails : Issue(r, Id(kind, e, None), None)

sendVerificationOTP(r)          == sendOTPForType(r, EmailKinds \ {"change-email"})
requestPasswordResetEmailOTP(r) == sendOTPForType(r, {"forget-password"})
requestEmailChangeOTP(r) ==
    \E u \in Existing, e \in Emails :
       e # user[u].email /\ Issue(r, Id("change-email", e, user[u].email), u)
sendPhoneOTP(r)      == \E p \in Phones : Issue(r, Id("phone", p, None), None)
requestPhoneReset(r) == \E p \in Phones : Issue(r, Id("phone-reset", p, None), None)
sendMagicLink(r)     == \E e \in Emails : Issue(r, Id("magic-link", e, r), None)
generateToken(r)     == \E u \in Existing : Issue(r, Id("one-time", u, r), u)

(* The end of a challenge that was met with trustDevice.                   *)
setTrustedDevice(r)  == \E u \in Existing : Issue(r, Id("trust-device", u, r), u)

(* Where RequireVerification is on, a number that is not verified gets a   *)
(* code instead of a session, whatever the password.                       *)
signInPhone(r) ==
    \E p \in Phones : \E u \in WithPhone(p) :
       \/ ~user[u].phoneVerified /\ Issue(r, Id("phone", p, None), u)
       \/ /\ user[u].password # None
          /\ Keep(r, Ask("signIn", Id("phone", p, None), None, u), "session")
          /\ Only(<<store, ghosts>>)

(* CreateVerification replaces the row: at once in memory, by a DELETE and *)
(* an INSERT in SQL, where a row that came in between makes the second     *)
(* fail.  `save' writes back the copy a wrong guess was compared with.     *)
AfterCreate(r) ==
    IF call[r].op = "rotate" THEN Go(r, "session")
    ELSE IF call[r].op = "send" /\ call[r].id.kind \in EmailKinds THEN Go(r, "lookup")
    ELSE Return(r)

CountGuess(r) ==
    wrong' = IF call[r].op = "save" THEN [wrong EXCEPT ![call[r].row.code] = @ + 1] ELSE wrong

CreateVerification(r) ==
    /\ pc[r] = "create"
    /\ \/ /\ adapter = "memory"
          /\ Put(r, call[r].id, {call[r].row}, {call[r].row.code})
          /\ CountGuess(r) /\ AfterCreate(r)
       \/ /\ adapter = "sql"
          /\ Put(r, call[r].id, {}, {call[r].row.code})
          /\ Go(r, "insert") /\ UNCHANGED wrong
    /\ Only(<<user, byEmail, sessions, links, issued, accepted, kept, proved, misread, stale>>)

InsertVerification(r) ==
    /\ pc[r] = "insert" /\ At(call[r].id) = {}
    /\ Put(r, call[r].id, {call[r].row}, {call[r].row.code})
    /\ CountGuess(r) /\ AfterCreate(r)
    /\ Only(<<user, byEmail, sessions, links, issued, accepted, kept, proved, misread, stale>>)

(* The email plugin looks the user up after the code is written, and takes *)
(* the code back when there is nobody to send it to (for a change of email, *)
(* when the new address is taken).                                         *)
Lookup(r) ==
    LET id == call[r].id IN
    /\ pc[r] = "lookup"
    /\ IF \/ id.kind = "change-email" /\ byEmail[id.to] # None
          \/ id.kind \in {"email-verification", "forget-password"} /\ byEmail[id.to] = None
          \/ id.kind = "sign-in" /\ byEmail[id.to] = None /\ ~options.signUp
       THEN Go(r, "drop") ELSE Return(r)
    /\ Only(<<store, ghosts>>)

(* DeleteVerificationByIdentifier takes whatever row is there by now.      *)
Drop(r) ==
    /\ pc[r] = "drop"
    /\ Put(r, call[r].id, {}, {}) /\ Return(r)
    /\ Only(<<user, byEmail, sessions, links, issued, accepted, wrong, kept, proved, misread, stale>>)

-----------------------------------------------------------------------------
(* Bug form: one guess more than allowed.                                  *)
TooMany_OneMore(x) == x.id.kind \notin TokenKinds /\ x.attempts > AllowedAttempts

(* verifyStoredOTP, consumePhoneOTP and ConsumeVerification: g is the code *)
(* the caller gives, None a wrong one.                                     *)
TooMany(x) == x.id.kind \notin TokenKinds /\ x.attempts >= AllowedAttempts

Accept(r, c) ==
    /\ accepted' = [accepted EXCEPT ![r] = [code |-> c, again |-> c \in dead, wrong |-> wrong[c]]]
    /\ proved' = proved \cup ({issued[c].to} \cap (Emails \cup Phones))

Attempt(r, op, id, g, u) ==
    \E x \in At(id) :
       \/ /\ x.lapsed \/ TooMany(x)
          /\ Keep(r, Ask(op, id, x, u), "drop")
          /\ Only(<<store, ghosts>>)
       \/ /\ ~x.lapsed /\ ~TooMany(x) /\ g # x.code
          /\ Keep(r, Ask("save", id, [x EXCEPT !.attempts = @ + 1], u), "create")
          /\ Only(<<store, ghosts>>)
       \/ /\ ~x.lapsed /\ ~TooMany(x) /\ g = x.code /\ op # "check"
          /\ Keep(r, Ask(op, id, x, u), "consume")
          /\ Only(<<store, ghosts>>)
       \/ /\ ~x.lapsed /\ ~TooMany(x) /\ g = x.code /\ op = "check"
          /\ Accept(r, g) /\ Return(r)
          /\ Only(<<store, issued, dead, wrong, raced, kept, misread, stale>>)

(* The identifiers of some kinds that the string of a stored row can be    *)
(* read as, and the codes somebody may give for one: those made for it.    *)
Readings(kinds) == {id \in StoredId : id.kind \in kinds /\ At(id) # {}}
Guesses(id)     == {None} \cup {c \in CodeNames : issued[c] # None /\ Text[issued[c]] = Text[id]}

(* /email-otp/check-verification-otp does not use the code up.             *)
checkOTP(r)    == \E id \in Readings(EmailKinds) : \E g \in Guesses(id) : Attempt(r, "check", id, g, None)

(* The handlers that do, for somebody without a session.                   *)
Redeem(r, kind) == \E id \in Readings({kind}) : \E g \in Guesses(id) : Attempt(r, "redeem", id, g, None)
signInEmailOTP(r)   == Redeem(r, "sign-in")
verifyEmailOTP(r)   == Redeem(r, "email-verification")
resetPasswordOTP(r) == Redeem(r, "forget-password")
verifyPhone(r)      == Redeem(r, "phone")
resetPhonePassword(r) == Redeem(r, "phone-reset")

(* A token is its own identifier: without the row there is nothing to ask. *)
RedeemToken(r, kind) == \E x \in rows : /\ x.id.kind = kind
                                        /\ Attempt(r, "redeem", x.id, x.code, None)
verifyMagicLink(r)    == RedeemToken(r, "magic-link")
verifyOneTimeToken(r) == RedeemToken(r, "one-time")

(* A sign-in from a trusted device uses its token up and is given another; *)
(* disabling the second factor forgets the device it is disabled from, and *)
(* no other.                                                               *)
presentDevice(r)      == RedeemToken(r, "trust-device")
ClearTrustedDevice(r) ==
    \E x \in rows :
       /\ x.id.kind = "trust-device"
       /\ Keep(r, Ask("clear", x.id, x, None), "drop")
       /\ Only(<<store, ghosts>>)

changeEmailOTP(r) ==
    \E id \in Readings({"change-email"}), u \in Existing :
       /\ id.of = user[u].email
       /\ \E g \in Guesses(id) : Attempt(r, "redeem", id, g, u)
(* /phone-number/verify with updatePhoneNumber.                            *)
updatePhone(r) ==
    \E id \in Readings({"phone"}), u \in Existing, g \in CodeNames \cup {None} :
       g \in Guesses(id) /\ Attempt(r, "update", id, g, u)

NextStage(c) ==
    CASE c.id.kind \in {"sign-in", "email-verification", "forget-password", "magic-link"} -> "findUser"
      [] c.id.kind = "change-email"                  -> "checkFree"
      [] c.id.kind = "phone" /\ c.op = "update"      -> "checkPhone"
      [] c.id.kind \in PhoneKinds /\ c.op = "redeem" -> "findPhone"
      [] c.id.kind = "one-time"                      -> "session"
      [] c.id.kind = "trust-device"                  -> "rotate"

(* The use counts when the row was there to delete, except that            *)
(* ConsumeVerification does not look at the outcome of its delete.  It is   *)
(* used for what the request took the identifier for.                      *)
Consume(r) ==
    LET id == call[r].id IN
    /\ pc[r] = "consume"
    /\ \/ At(id) # {} /\ Put(r, id, {}, {}) /\ UNCHANGED kept
       \/ /\ id.kind \in TokenKinds
          /\ dead' = dead \cup {call[r].row.code} /\ kept' = kept \cup {call[r].row.code}
          /\ UNCHANGED <<rows, raced>>
    /\ Accept(r, call[r].row.code)
    /\ misread' = IF issued[call[r].row.code] = id THEN misread ELSE misread \cup {id.to}
    /\ Keep(r, [call[r] EXCEPT !.user = IF id.kind \in {"one-time", "trust-device"} THEN id.to ELSE @],
            NextStage(call[r]))
    /\ Only(<<user, byEmail, sessions, links, issued, wrong, stale>>)

rotateTrustedDevice(r) ==
    LET u == call[r].user IN
    pc[r] = "rotate" /\ NewRow(r, "rotate", Id("trust-device", u, r), u)

-----------------------------------------------------------------------------
(* What follows the acceptance of a code, per handler.  The user is looked *)
(* up afresh, and the decision whether to mark it verified is taken there. *)
OnUser(r, u, stage) == Keep(r, [call[r] EXCEPT !.user = u, !.seen = user[u].verified], stage)

UserOf(id) == byEmail[id.to]
FindUser(r, kind) ==
    /\ pc[r] = "findUser" /\ call[r].id.kind = kind /\ UserOf(call[r].id) # None
    /\ Only(<<store, ghosts>>)
FindNobody(r, kind) ==
    /\ pc[r] = "findUser" /\ call[r].id.kind = kind /\ UserOf(call[r].id) = None
    /\ options.signUp /\ Go(r, "createUser")
    /\ Only(<<store, ghosts>>)

SignInOrMark(r) == LET u == UserOf(call[r].id) IN
                   OnUser(r, u, IF user[u].verified THEN "session" ELSE "mark")

FindSignInUser(r) ==
    \/ FindUser(r, "sign-in") /\ SignInOrMark(r)
    \/ FindNobody(r, "sign-in")
FindMagicUser(r) ==
    \/ FindUser(r, "magic-link") /\ SignInOrMark(r)
    \/ FindNobody(r, "magic-link")
FindVerifyUser(r) ==
    FindUser(r, "email-verification") /\ OnUser(r, UserOf(call[r].id), "mark")
FindResetUser(r) ==
    FindUser(r, "forget-password") /\ OnUser(r, UserOf(call[r].id), "setPassword")
FindLinkUser(r) ==
    /\ FindUser(r, "signed-link") /\ ~user[UserOf(call[r].id)].verified
    /\ OnUser(r, UserOf(call[r].id), "mark")

(* createEmailOTPUser writes an unverified user and marks it next, the     *)
(* magic link writes a verified one.  The address may be taken by now.     *)
CreateUser(r) ==
    LET id == call[r].id IN
    /\ pc[r] = "createUser" /\ byEmail[id.to] = None
    /\ user' = [user EXCEPT ![r] = UserRow(id.to, id.kind = "magic-link", None, FALSE)]
    /\ byEmail' = [byEmail EXCEPT ![id.to] = r]
    /\ Keep(r, [call[r] EXCEPT !.user = r], IF id.kind = "magic-link" THEN "session" ELSE "mark")
    /\ Only(<<rows, sessions, links, ghosts>>)

MarkVerified(r) ==
    LET u == call[r].user IN
    /\ pc[r] = "mark"
    /\ ChangeRest(r, u, [Current(r) EXCEPT !.verified = TRUE])
    /\ CASE call[r].id.kind \in {"sign-in", "magic-link"} -> Advance(r, "session")
         [] call[r].id.kind = "forget-password"           -> Advance(r, "revoke")
         [] OTHER                                         -> Return(r)
    /\ Only(<<rows, sessions, links, issued, accepted, dead, wrong, raced, kept, proved, misread>>)

NewSession(r) ==
    /\ pc[r] = "session"
    /\ sessions' = sessions \cup {[by |-> r, of |-> call[r].user]}
    /\ Return(r)
    /\ Only(<<rows, user, byEmail, links, ghosts>>)

(* SetCredentialPassword, then RevokeSessionsOnPasswordReset.              *)
SetCredentialPassword(r) ==
    LET u == call[r].user IN
    /\ pc[r] = "setPassword"
    /\ user' = [user EXCEPT ![u].password = r]
    /\ Go(r, IF call[r].id.kind = "forget-password" /\ ~call[r].seen THEN "mark" ELSE "revoke")
    /\ Only(<<rows, byEmail, sessions, links, ghosts>>)

RevokeSessions(r) ==
    /\ pc[r] = "revoke"
    /\ sessions' = IF options.revoke THEN {s \in sessions : s.of # call[r].user} ELSE sessions
    /\ Return(r)
    /\ Only(<<rows, user, byEmail, links, ghosts>>)

CheckFree(r) ==
    /\ pc[r] = "checkFree" /\ byEmail[call[r].id.to] = None
    /\ Go(r, "changeEmail")
    /\ Only(<<store, ghosts>>)

ChangeEmail(r) ==
    LET u == call[r].user
        e == call[r].id.to IN
    /\ pc[r] = "changeEmail"
    /\ Change(r, u, [Current(r) EXCEPT !.email = e, !.verified = TRUE])
    /\ byEmail' = ReIndexed(u, e)
    /\ Return(r)
    /\ Only(<<rows, sessions, links, issued, accepted, dead, wrong, raced, kept, proved, misread>>)

(* The phone plugin finds users by an additional field, which no index     *)
(* keeps unique.                                                           *)
CheckPhone(r) ==
    /\ pc[r] = "checkPhone" /\ WithPhone(call[r].id.to) = {}
    /\ Go(r, "setPhone")
    /\ Only(<<store, ghosts>>)

SetPhone(r) ==
    /\ pc[r] = "setPhone"
    /\ ChangeRest(r, call[r].user, [Current(r) EXCEPT !.phone = call[r].id.to, !.phoneVerified = TRUE])
    /\ Return(r)
    /\ Only(<<rows, sessions, links, issued, accepted, dead, wrong, raced, kept, proved, misread>>)

FindPhoneUser(r) ==
    LET found == WithPhone(call[r].id.to) IN
    /\ pc[r] = "findPhone" /\ call[r].id.kind = "phone"
    /\ \/ \E u \in found : OnUser(r, u, IF user[u].phoneVerified THEN "session" ELSE "markPhone")
       \/ found = {} /\ options.signUp /\ Go(r, "createPhoneUser")
    /\ Only(<<store, ghosts>>)

FindPhoneResetUser(r) ==
    /\ pc[r] = "findPhone" /\ call[r].id.kind = "phone-reset"
    /\ \E u \in WithPhone(call[r].id.to) : OnUser(r, u, "setPassword")
    /\ Only(<<store, ghosts>>)

createPhoneVerificationUser(r) ==
    /\ pc[r] = "createPhoneUser" /\ byEmail[TempEmail] = None
    /\ user' = [user EXCEPT ![r] = UserRow(TempEmail, FALSE, call[r].id.to, TRUE)]
    /\ byEmail' = [byEmail EXCEPT ![TempEmail] = r]
    /\ Keep(r, [call[r] EXCEPT !.user = r], "session")
    /\ Only(<<rows, sessions, links, ghosts>>)

MarkPhone(r) ==
    /\ pc[r] = "markPhone"
    /\ ChangeRest(r, call[r].user, [Current(r) EXCEPT !.phoneVerified = TRUE])
    /\ Advance(r, "session")
    /\ Only(<<rows, sessions, links, issued, accepted, dead, wrong, raced, kept, proved, misread>>)

(* /update-user may take the number off, and nothing else of what is here. *)
UpdateUser(r) ==
    \E u \in Existing :
       /\ user[u].phone # None
       /\ Keep(r, Ask("change", None, None, u), "takeOff")
       /\ Only(<<store, ghosts>>)

TakePhoneOff(r) ==
    /\ pc[r] = "takeOff"
    /\ ChangeRest(r, call[r].user, [Current(r) EXCEPT !.phone = None, !.phoneVerified = FALSE])
    /\ Return(r)
    /\ Only(<<rows, sessions, links, issued, accepted, dead, wrong, raced, kept, proved, misread>>)

-----------------------------------------------------------------------------
(* Signed links.  /send-verification-email signs the address of an         *)
(* unverified user; for anybody else the token goes nowhere.               *)
sendVerificationEmail(r) ==
    \E e \in Emails :
       /\ byEmail[e] # None /\ ~user[byEmail[e]].verified
       /\ links' = links \cup {Link("verify", e, e)}
       /\ Return(r)
       /\ Only(<<rows, user, byEmail, sessions, ghosts>>)

(* /change-email by user u, whose row the session was resolved with.       *)
RequestChange(r) ==
    \E u \in Existing, e \in Emails :
       /\ e # user[u].email
       /\ Keep(r, [Ask("change", Id("core-change", e, user[u].email), None, u)
                      EXCEPT !.seen = user[u].verified], "checkNew")
       /\ Only(<<store, ghosts>>)

(* Bug form: the option alone decides, not the state of the address.       *)
CheckNew_Verified(r) ==
    LET id == call[r].id IN
    /\ pc[r] = "checkNew" /\ byEmail[id.to] = None
    /\ IF options.direct
       THEN Go(r, "setEmail") /\ UNCHANGED links
       ELSE /\ links' = links \cup {Link(IF call[r].seen /\ options.confirm
                                         THEN "confirm" ELSE "change", id.of, id.to)}
            /\ Return(r)
    /\ Only(<<rows, user, byEmail, sessions, ghosts>>)

(* An unverified address is changed at once where the options allow it;    *)
(* otherwise a link goes out: to the new address, or for confirmation.     *)
CheckNew(r) ==
    LET id == call[r].id IN
    /\ pc[r] = "checkNew" /\ byEmail[id.to] = None
    /\ IF options.direct /\ ~call[r].seen
       THEN Go(r, "setEmail") /\ UNCHANGED links
       ELSE /\ links' = links \cup {Link(IF call[r].seen /\ options.confirm
                                         THEN "confirm" ELSE "change", id.of, id.to)}
            /\ Return(r)
    /\ Only(<<rows, user, byEmail, sessions, ghosts>>)

SetEmail(r) ==
    LET u == call[r].user
        e == call[r].id.to IN
    /\ pc[r] = "setEmail"
    /\ Change(r, u, [Current(r) EXCEPT !.email = e])
    /\ byEmail' = ReIndexed(u, e)
    /\ links' = links \cup {Link("verify", e, e)}
    /\ Return(r)
    /\ Only(<<rows, sessions, issued, accepted, dead, wrong, raced, kept, proved, misread>>)

(* /verify-email: the plain link marks the user of its address.            *)
VerifyEmail(r) ==
    \E l \in links :
       /\ l.kind = "verify"
       /\ Keep(r, Ask("redeem", Id("signed-link", l.to, None), None, None), "findUser")
       /\ proved' = proved \cup {l.to}
       /\ Only(<<store, issued, accepted, dead, wrong, raced, kept, misread, stale>>)

(* handleVerifyEmailChange: the address it is signed for still has a user, *)
(* who is the session's user if the browser has a session.  A confirmed    *)
(* change sends a second link; the second link makes the change, after     *)
(* signing in a browser without a session.                                 *)
VerifyEmailChange(r) ==
    \E l \in links :
       /\ byEmail[l.email] # None
       /\ \/ /\ l.kind = "confirm"
             /\ links' = links \cup {Link("change", l.email, l.to)}
             /\ Return(r)
             /\ UNCHANGED proved
          \/ /\ l.kind = "change"
             /\ \E stage \in {"linkSession", "changeEmail"} :
                   Keep(r, Ask("redeem", Id("signed-link", l.to, l.email), None, byEmail[l.email]),
                         stage)
             /\ proved' = proved \cup {l.to}
             /\ UNCHANGED links
       /\ Only(<<rows, user, byEmail, sessions, issued, accepted, dead, wrong, raced, kept, misread, stale>>)

LinkSession(r) ==
    /\ pc[r] = "linkSession"
    /\ sessions' = sessions \cup {[by |-> r, of |-> call[r].user]}
    /\ Go(r, "changeEmail")
    /\ Only(<<rows, user, byEmail, links, ghosts>>)

-----------------------------------------------------------------------------
(* Time passes for a stored code; a request ends without its next step.    *)
Lapse ==
    \E x \in rows :
       /\ ~x.lapsed
       /\ rows' = (rows \ {x}) \cup {[x EXCEPT !.lapsed = TRUE]}
       /\ UNCHANGED <<adapter, options, user, byEmail, sessions, links, pc, call, ghosts>>

Stop(r) ==
    /\ pc[r] \notin {"idle", "done"}
    /\ Return(r)
    /\ Only(<<store, ghosts>>)

Start(r) ==
    /\ pc[r] = "idle"
    /\ \/ sendVerificationOTP(r) \/ requestPasswordResetEmailOTP(r) \/ requestEmailChangeOTP(r)
       \/ sendPhoneOTP(r) \/ requestPhoneReset(r) \/ signInPhone(r)
       \/ sendMagicLink(r) \/ generateToken(r) \/ setTrustedDevice(r)
       \/ checkOTP(r) \/ signInEmailOTP(r) \/ verifyEmailOTP(r) \/ resetPasswordOTP(r)
       \/ verifyPhone(r) \/ resetPhonePassword(r) \/ verifyMagicLink(r) \/ verifyOneTimeToken(r)
       \/ presentDevice(r) \/ ClearTrustedDevice(r)
       \/ changeEmailOTP(r) \/ updatePhone(r)
       \/ UpdateUser(r) \/ sendVerificationEmail(r) \/ RequestChange(r)
       \/ VerifyEmail(r) \/ VerifyEmailChange(r)

Step(r) ==
    \/ CreateVerification(r) \/ InsertVerification(r) \/ Lookup(r) \/ Drop(r) \/ Consume(r)
    \/ rotateTrustedDevice(r)
    \/ FindSignInUser(r) \/ FindMagicUser(r) \/ FindVerifyUser(r) \/ FindResetUser(r)
    \/ FindLinkUser(r) \/ CreateUser(r) \/ MarkVerified(r) \/ NewSession(r)
    \/ SetCredentialPassword(r) \/ RevokeSessions(r) \/ CheckFree(r) \/ ChangeEmail(r)
    \/ CheckPhone(r) \/ SetPhone(r) \/ FindPhoneUser(r) \/ FindPhoneResetUser(r)
    \/ createPhoneVerificationUser(r) \/ MarkPhone(r) \/ TakePhoneOff(r) \/ FindCurrent(r)
    \/ CheckNew(r) \/ SetEmail(r) \/ LinkSession(r) \/ Stop(r)

Next == Lapse \/ \E r \in Requests : Start(r) \/ Step(r)

Spec == Init /\ [][Next]_vars

-----------------------------------------------------------------------------
(* A code that was used, replaced or taken back is neither stored nor      *)
(* accepted again, unless two requests overlapped on it (a wrong guess     *)
(* writes its stale copy back; two readers of a token both use it) or a    *)
(* token's row outlived its use because the delete's error is ignored      *)
(* (saveEmailOTPAttempts, savePhoneOTPAttempts, ConsumeVerification,       *)
(* rotateTrustedDevice).                                                   *)
CodeDies ==
    /\ \A x \in rows : x.code \in dead => x.code \in raced \cup kept
    /\ \A r \in Requests :
          accepted[r] # None /\ accepted[r].again => accepted[r].code \in raced \cup kept

(* A code is not accepted after AllowedAttempts wrong guesses were counted *)
(* against it, unless two guesses overlapped and one count was lost        *)
(* (verifyStoredOTP, consumePhoneOTP).                                     *)
GuessesBounded ==
    \A r \in Requests :
       accepted[r] # None => accepted[r].wrong < AllowedAttempts \/ accepted[r].code \in raced

(* A user's address or number counts as verified only when a code or link  *)
(* sent to that very address was used.  There are two exceptions: a user   *)
(* another request had read and was about to write when the address, the   *)
(* number or the mark changed; and an address that a code sent to another  *)
(* was used for, because the identifiers of the two read the same          *)
(* (handleChangeEmail, handleVerifyEmail, /phone-number/verify,            *)
(* handleUpdateUser, changeEmailOTPHandler).                               *)
VerifiedMeansProved ==
    \A u \in Existing :
       /\ user[u].verified => user[u].email \in proved \cup misread \/ u \in stale
       /\ user[u].phoneVerified => user[u].phone \in proved \cup misread \/ u \in stale
=============================================================================
