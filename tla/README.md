# Verification of betterauth-go

TLA+ models of betterauth-go, checked on small instances with TLC and proved in general with TLAPS. The modules are
translated from the Go source; `PROJECT.json` names, for every definition, the file and the lines it stands for.

1. [The system](#1-the-system) - components, state, operations, interactions, hazards
2. [How the code is modelled](#2-how-the-code-is-modelled)
3. [The modules](#3-the-modules) - state and actions against the code
4. [The runs](#4-the-runs) - what each shows, its bounds
5. [The proofs](#5-the-proofs)
6. [What the models found](#6-what-the-models-found)
7. [Left out, and the plan](#7-left-out-and-the-plan)

To repeat a check: `tlc -workers 2 -config MCSessions.cfg MCSessions`; to repeat a proof: `tlapm SessionsProofs.tla`.

## 1. The system

betterauth-go is an HTTP library for authentication. A request enters the router (`auth/router.go`), passes rate
limiting, origin checks and hooks, and reaches one handler. A handler keeps nothing in memory between requests: all
state is in a store (`store/store.go`, `store/extstore.go`), in the cookies of the browser, in signed links and in
the heads of identity providers. Any number of handlers run at the same time. None of them takes a lock or a
transaction around two store calls: **every pair of store calls of one handler is a place where other handlers run**,
and every store call is a place where a handler may stop with half of its work done. This is where the hard
behaviour of the system is, and what the models are built to reach.

| component (source) | state | operations | correct when | module |
|---|---|---|---|---|
| in-memory store, core rows (`store/memory/memory.go`) | users, accounts, sessions, verifications, seven index maps, one lock | create, find, update, delete, list | indexes never dangle; a deletion takes the dependent rows; it does what a table store does | MemoryStore |
| store contract (`store/store.go`) | the tables alone | the same | - (it is the specification) | StoreContract |
| SQL store, core rows (`store/sql/sql.go`) | the same tables, in a database with unique columns | single statements; some methods run several, without a transaction | it keeps the contract while calls overlap and statements fail | SQLStore |
| extended rows (`store/*/extstore.go`) | organizations, members, teams, roles, invitations, 2FA records, SSO providers; device codes, API keys, passkeys | the same | what belongs to a row goes with it | partly: with the plugins that use them |
| sessions, cookie cache (`auth/session*.go`, `routes_session.go`, `internal/cookie`) | session rows; `session_token`, `session_data`, `dont_remember` in a browser | sign-in, resolve and refresh, list, update, revoke, sign-out | revocation is final; short sessions stay short; the cache is bounded and of the right session | Sessions |
| email and password (`routes_sign.go`, `routes_password.go`, `routes_user.go`) | credential account, sessions, mailed tokens | sign-in, reset, change, set, delete the account | tokens are single use; no session outlives a revocation; a change replaces what was verified | Passwords |
| OAuth sign-in, linking (`oauth_*.go`, `routes_oauth.go`, `routes_account.go`, `account_link.go`) | state rows, accounts | start, callback, ID token, link, unlink | a state is single use; an identity has one account and one owner; the last way to sign in stays | Linking |
| generic OAuth, SSO by OIDC and SAML (`plugins/genericoauth.go`, `sso.go`) | registered providers, flows, accounts | register, update, delete; callback, assertion, link | an identity keeps signing in the user its account is of | Federation |
| provider tokens (`auth/account_tokens.go`, `routes_account.go`, `genericoauth.go`) | the refresh token in an account | get, refresh | the stored token is one the provider honours | Federation |
| email verification and change (`routes_email*.go`, `routes_user.go`) | signed links, the user's email and its flag | send, verify, change, confirm | the flag is about the email the row has | Codes |
| one-time tokens, magic link, email and phone OTP (`plugins/tokens.go`, `magiclink.go`, `emailotp.go`, `phonenumber.go`) | verification rows with an attempt count | issue, check, consume | single use, bounded attempts, nothing marked verified unproved | Codes |
| two-factor (`plugins/twofactor.go`, `auth/two_factor_challenge.go`) | secret, backup codes, challenges, attempt counters, account lock, trusted devices | enable, challenge, verify, disable | codes are single use; attempts are counted; a lock ends | TwoFactor; trusted devices in Codes |
| organization, access (`plugins/organization.go`, `access.go`) | organizations, members, roles, invitations, teams | create, invite, accept, update role, leave, delete | an owner remains; ownership is granted by owners; a declined invitation stays declined; nothing is left behind | Organizations |
| plugin API, hooks, hooked store (`auth/plugin*.go`, `hooks.go`, `hooked_store.go`) | none of its own | verifications, passwords, sessions for plugins; hooks around store calls | a hook that refuses stops the write | the calls, in Codes |
| admin, API keys, devices (`plugins/admin.go`, `apikey.go`, `misc.go`) | bans, impersonation, key counters, device codes | ban, impersonate, verify a key, approve and poll | counters count; a device code is decided once | - |
| rate limiter (`auth/ratelimit.go`) | a window and a count for each key, one lock | allow | no more than the limit in a window | - |
| SCIM, Stripe, passkeys, SIWE, OIDC, MCP, anonymous, username (`plugins/*.go`) | challenges, subscriptions | protocol translation with a few writes | a challenge is single use; webhooks may repeat | - |
| router, CSRF, origins, configuration (`auth/router.go`, `csrf.go`, `origin.go`, `config*.go`) | none | dispatch, checks | pure functions | - |
| fields, schemas, cookies' encoding, JWT, hashing, ids | none | encode, decode | taken as what they promise | - |
| identity providers (`provider/`) | outside | HTTP | inputs of Linking and Federation | - |
| command line, client, types, examples | none | - | - | - |

Interactions: handlers call the store (through `hooked_store.go` when hooks are configured) and the providers;
`createSession` is the end of every sign-in, whichever plugin it comes from; `requireSession` is the start of every
authenticated handler; `deleteUserSessions` and `DeleteUser` are the two ways in which one handler takes away what
another handler has read; the verification rows are shared by password reset, OAuth states, one-time codes, magic
links and pending second factors. Their identifiers are strings put together from a kind and what the row is about
(`plugins/emailotp.go:72`), a phone number as it is (`plugins/phonenumber.go:571`), or random tokens. The random ones
are apart; the others are read back only as whole strings, and two of them may read alike (section 3, Codes). The
hazards that follow from all this are in `PROJECT.json`, each at its line, with the properties that would catch it;
those without a property carry the reason.

## 2. How the code is modelled

* **A request is a process, a store call is an action.** `pc[r]` (or `req[r].pc`) says how far request `r` got,
  `seen`, `token`, `info`, `target` are the local variables that it carries over a store call. Work between two store
  calls touches nothing shared and belongs to the action of the call that precedes or follows it.
* **A store call may fail; the server may stop.** `Stop`, `End` and `Fail` end a request at any stage and leave what
  it has written. Where the code ignores an error and goes on, the action has that second outcome instead. A hook or
  a limit of the application that refuses is a call that fails.
* **The two stores differ** in what a statement may do: SQL has unique columns, cascades, and methods of several
  statements that others can come between; the in-memory store does each method under one lock but checks less.
  Organizations and Codes carry the choice in `adapter` and check both; SQLStore and MemoryStore are about the stores
  themselves. The SQL updates that read a row and then write all of it from that copy are two actions wherever a
  property could tell: `UpdateSession` in Sessions, `UpdateUser` in Codes, `UpdateAccount` in Federation. In memory
  nothing comes between the two, which is one of the interleavings.
* **Names.** A password, a session, an account, a user and a mailed token are named by the request that made them;
  `First` and `Old` name what was there before. Random tokens and ids are thereby fresh, as the code relies on.
* **Ghost variables** (`redeemed`, `replaced`, `revoked`, `vouched`, `latest`, `unwritten`, `remember`, `held`; `issued`,
  `accepted`, `dead`, `wrong`, `proved`; `met`, `wrongs`, `used`; `vetted`, `cut`; `excused` ...) are history only: no
  guard reads them, except that a new session takes a token that was never issued (`latest[t] = 0`). Federation's
  `revoked` is no ghost: it is what the provider keeps. `plan` and `events` keep the bounds.
* **`overtaken`**, and its counterparts `raced`, `stale`, `misread`, `mixed`, `spoilt` and `overlaps`, make the
  exceptions of the properties exact. They hold the requests in flight, or the rows, that something else changed or held
  at the same time. "A session outlives a revocation only if its request is in `overtaken`" says that overlapping
  requests are the only cause, so that any order mistake inside one handler is still caught. `kept` and `cut` do the
  same for the rows that a delete whose error is ignored, or a deletion that was cut short, left behind.
* **Fairness.** A client may never send the next request and a handler may die at any call, so nothing a handler owes
  is owed under fairness the code justifies, and no request is given any. The one thing that happens whatever callers
  do is that time passes: TwoFactor assumes `WF_vars(Tick)`, where a tick takes one unit from an account lock, and
  states that a lock ends although attempts keep coming.
* **Deadlock** is checked for MemoryStore, Sessions, SQLStore and Federation. In Passwords, Linking, Organizations and
  Codes a request runs once and the system rightly stops when all have; in TwoFactor a user without a second factor
  may simply not ask for one.

## 3. The modules

### StoreContract, MemoryStore

`StoreContract` is the abstract store: `users`, `accounts`, `sessions`, `verifications` as plain tables and a `reply`,
one action per method of the `Store` interface that writes. Where the lookups of the interface can reach only one of
several rows with the same key, `unlisted` (users no longer found by their email), `shadowed` and `detached`
(accounts not found by user and provider, or by provider and account id) say which are out of reach. A contract that
demanded unique keys would be stronger than any caller of the code may assume.

`MemoryStore` is `store/memory/memory.go`. Each map of the Go struct is a variable of the same name, a function whose
missing keys hold `None`; the nested maps are sets. Each method runs under the store's one lock, so it is one action,
with its early returns as alternatives: `CreateUser`, `UpdateUser`, `DeleteUser`, `CreateAccount`, `UpdateAccount`,
`DeleteAccount`, `UpdateAccountPassword`, `CreateSession`, `UpdateSession`, `DeleteSession`, the two deletions by user,
`CreateVerification` (which replaces), `DeleteVerificationByIdentifier`. `ImplementsContract` instantiates
`StoreContract` with the three sets computed from the index maps: the refinement says that the indexes do nothing but
decide what a lookup reaches.

### Passwords

One user and its credential account under `signIn`, `requestReset`, `reset`, `change`, `changeAndRevoke`, `set`,
`deleteByPassword`, `deleteFresh`, `requestDelete`, `deleteByToken` (`kind[r]`), the last four being the branches of
delete-user and its callback. Looking the session up and looking the token up are two actions (`Authenticate`,
`DeleteFindToken`); set-password takes any failed lookup of the account for an absent one (`SetFindAccount`) and goes
on to `SetCreateAccount`. Its other branch, for an account with an empty password, has the same effect and no handler
writes such an account. The mailed tokens are verification rows; a token can expire at any time. `config` holds
the two options that guards read. MemoryStore shows that the credential lookup reaches the last account written; its
password is `password`.

### Sessions

Browsers with cookie jars, requests that carry a copy of the cookies, and answers whose `Set-Cookie` headers arrive
late, in any order, or never. A get-session request walks through `arrive` (the cookie cache), `find` (the row),
`refresh` and `extend`, or `drop`, `serve`, `reply`, as `resolveSession` does, with the options of the caller
(`noCache`, `noRefresh`); the other endpoints follow the same path and then do their own writes. The store's
`UpdateSession` is two steps. A refresh finds the row (`RefreshFound`) and writes it (`RefreshSession`); if the row went
in between, the UPDATE of the SQL store touches nothing and answers ok, so the session is served, its cookies are set
and a copy is cached with an expiry that no row ever had (`RefreshGone`; `unwritten` remembers that expiry), or the
in-memory store or the SELECT fails (`RefreshFails`). update-session does the same with `UpdateFound`, the stage `store`
and `UpdateSession`. Sign-out and the deletion of an expired row do not look whether `DeleteSession` failed, so that the
row may stay (`SignOut`, `DropExpired`). `plan`, one of `Plans`, says which endpoints the requests still to come may
call. Time is a clock in ticks, with a copy valid until `until` and a row until its expiry; `Close` ends a browser
session and drops the cookies without `Max-Age`. The options that choose a branch (`cookieCache`, `deferRefresh`,
`disableRefresh`) are in `config`. A session override by a plugin, a corrupt cookie and a rotated secret are left out:
they lead to the branch without a copy, which `noCache` reaches.

### Linking

Users, accounts, state rows and requests: `StartFlow` (sign-in or link), the callback (`CallbackFindState`,
`CallbackDeleteState`, then `CallbackSignIn` or `LinkFindAccount`, `LinkSaveAccount`), the ID-token endpoints
(`IDTokenSignIn`, `IDTokenLink`, `OwnAccounts`), the sign-in of an existing user call by call (`ListAccounts`,
`UpdateTokens` or `SaveAccount`, `RefreshCopy`, `MarkVerified`, `OverrideUserInfo`, `CreateSession`) and of a new one
(`CreateUser`, `CreateUserAccount`), and unlinking (`UnlinkFindAccount`, `DeleteAccount`). What the provider says is
any `UserInfo`. Other handlers that write the same rows are `VerifyEmail`, `ChangeEmail` and `DeleteUser`, each one
step as the row sees it. The initial tables are any legal ones: users with different emails, each with at least one
account and at most one for each identity. All options that a guard reads are in `config`. The store is one that
keeps the contract and whose emails are unique, as the SQL schema says; each store call is atomic, which for the SQL
store's UpdateUser (it reads the row and writes all of it) SQLStore takes apart. Provider tokens are in Federation.

### SQLStore

`store/sql/sql.go`, a step per statement. A method of one statement is one action (`CreateAccount`, `CreateSession`,
`DeleteSession`, `UpdateAccountPassword`, ...); the others enter `call[c]` and leave it with their last statement:
`CreateUser` (look the email up, insert), `UpdateUser`, `UpdateAccount`, `UpdateSession` (read the row, write all of
it), `DeleteUser` (accounts, sessions, user) and `CreateVerification` (delete, insert; the outcome of the delete is
ignored). Any statement may fail. `ImplementsContract` shows the tables to `StoreContract` with the rows that a deletion
or replacement under way has already taken still in place, so that a call happens at its last statement. No row is ever
out of reach in SQL, so the three sets of the contract are empty. `excused` names, at the step, why the view is not the
contract's: `half` (another call meets a user or identifier that is half deleted), `gone` (the row an update had read
has gone; the UPDATE touches nothing and answers ok), `late` (an insert overtook a deletion), `failed` (a deletion
stopped half-way), `sharedKey` (two accounts share user and provider: SQL has no index that prefers the later one) and
`orphans` (a deletion takes the rows of a user that is gone). The lost update of `UpdateUser` itself is inside the
contract, which allows any new email.

### Organizations

`plugins/organization.go` over the extended rows: a request asks one of the plugin's operations of an organization and
goes through the stages of its handler (`pc`). Creation with creator member and default team and their undoing, whose
deletions may fail without anybody looking (`DropMember`, `DeleteTeam`);
deletion, in SQL statement by statement (`DeleteOrganization`, `PurgeMembers`, ...); inviting (pending invitations are
re-sent or cancelled), accepting with its rollback (`AcceptCheck`, `MarkAccepted`, `AcceptJoin`,
`createInvitationTeamMemberships`, `Reopen`), rejecting, cancelling; adding, removing and demoting members, leaving;
teams, their members, and dynamic roles. Permissions are computed as `organizationMemberHasPermissions` does, from
static and dynamic roles; limits on members, invitations, teams, team members, roles and organizations are constants.
`vetted` holds the requests whose caller was an owner when the handler looked. `CreateOrganizationRole` and
`UpdateOrganizationRole` look the name up and write in two statements of SQL; the unique index on organization and name
(`store/sql/schema.go:222`) refuses the write if a namesake has come in between, and a row that has gone is noticed by
`RowsAffected`, so that the write with that guard is one step.

### Codes

One verification table and the users it is about. An identifier is a record of what it says, and `Text` gives the string
it is written as; the table knows the string only. `Text` is any function that keeps random tokens apart
(`TextAssumption`). For the rest two records may be one string: a change-email code is stored under
`current + "-" + new`, and with addresses such as `x@y.z` and `x@y.z-x@y.z`, which `ValidateEmail` admits, the changes from the one to
the other and back are written alike (`MCText`). A handler reads a stored string as any record that is written so
(`Readings`), a code made for one is a guess at the other (`Guesses`), and `misread` holds the addresses that a code was
used for although it had been sent to another. `sendOTPForType`, `sendPhoneOTP`, `sendMagicLink`, `generateToken` and
the others make a row (`Issue`, then `CreateVerification`, in SQL also `InsertVerification`); a guess goes through
`Lookup` and `Attempt` (`CountGuess` writes the caller's copy back), acceptance through `Consume`, and then the
handler's own stages decide what happens to the user: `CreateUser`, `MarkVerified`, `ChangeEmail`, `SetPhone`,
`MarkPhone`, `SetCredentialPassword`, `RevokeSessions`, `NewSession`. In SQL each change of a user row but the
password's reads it first (`FindCurrent`) and then writes all of it from the copy, so that it may put back what another
request has changed; such users are `stale`. Trusted devices are rows of kind `trust-device` that `presentDevice` and
`rotateTrustedDevice` exchange. Signed links are not stored: `VerifyEmail` and `VerifyEmailChange` may follow one as
often as they like. `UpdateUser` is update-user as far as it takes a phone number off.

### TwoFactor

One user's `enabled` flag and record, pending challenges with the attempt rows (`tries`, `otp`), and requests that
come again and again. `Check` compares the guess, `CountTry`, `SaveTry` and `CountFailure` write the counters back
from the copies the request holds, `Unlock` clears a lock that has run out, `Spend` removes a backup code from the
copy of the record, `Complete`, `Consume` and `DropTries` end the challenge, `NewSession` is what it was for. `Enable`,
`Disable` and `GenerateBackupCodes` replace or delete the record under all of that.

### Federation

Generic providers and registered SSO providers (OIDC, SAML, or both after an update), one identity each, whose email
may be another at every sign-in. A callback goes through `Exchange`, `FindAccount` and `UpdateAccount`, or
`FindUserByEmail`, `CreateUser`, `CreateAccount`; SSO sign-ins have their own `FindSSOAccount` and
`FindSSOUserByEmail`, because they take every error of a lookup for an absent row. Token routes `Ask` the provider,
which rotates the refresh token, and then `SaveTokens` or `SaveRefreshed`. The store's `UpdateAccount` selects the row
(`SelectRow`) and then writes every token column, from that copy where there is no new one (`WriteUpdate` for a
sign-in, `WriteTokens` for a token route). A sign-in without a refresh token that read the row before a token route
stored the rotated one therefore puts the old, revoked one back; `spoilt` holds the account from then on (`PutsBack`).
`CreateAccount` makes a row under a new random id and no store answers that it exists already, so the handling of that
error in `plugins/sso.go:781` has no case here. `SignUp` and `DeleteUser` are what other
parts of the system do to the same users.

`MemoryStoreProofs`, `PasswordsProofs`, `SessionsProofs`, `LinkingProofs`, `SQLStoreProofs`, `OrganizationsProofs`,
`CodesProofs` and `FederationProofs` hold the inductive invariants, lemmas and theorems; `MC*` give the constants
their values.

Operators named `X_Y` with a comment "Bug form" are the mutants: the form that a plausible mistake would give the
definition after them. No specification uses them; each run fails when one of them takes the place of its
definition, so that every property is known to be able to fail.

## 4. The runs

| run | instance | distinct states | shows |
|---|---|---|---|
| `memory_store` | 2 users, emails, accounts, external ids, secrets, tokens; 1 provider, stamp, identifier, value | 11 thousand, up to symmetry | `TypeOK`; `EmailIndexSound`, `AccountIndexesSound`: every lookup that dereferences an index finds the row it looked for; `SessionIndexExact`: revoking by user misses nothing; `DeleteUserCascades`; `ImplementsContract` |
| `memory_store_emails` | 2 users, 2 emails | - | violation of `EmailUnique` (section 6) |
| `passwords` | 3 requests of any kinds, with and without a first password, all 4 configurations | 351 thousand | `ResetTokenRedeemedOnce`; `SessionsOutliveOnlyByOverlap`; `AfterDeleteOnce`; `ChangeReplacesVerified` |
| `sessions` | 1 browser, 2 parallel requests, 2 tokens, clock to 2; lifetimes 2 / 1 / 1 / 1; 3 requests of any kind, or 4 of the kinds in `Shadow` | 2.13 million, up to symmetry | `SensitiveNeedsRow`, `RevokedStaysRevoked`, `BriefNeverExtended`, `CacheMatchesToken`, `DeferredGetsOnlyRead`, `CacheServesUntilRefresh` |
| `sessions_brief` | 1 request at a time, 3 in all, clock to 3 | - | violation of `BriefSessionKept` (section 6) |
| `linking` | 2 requests, 2 older users and accounts, 1 flow, 2 emails, 1 identity, 1 change by another handler; the default configuration and a permissive one | 1.09 million | `StateRedeemedOnce`, `OneAccountPerIdentity`, `VerifiedWasProved`, `LastAccountKept`, `LinkKeepsOwner`, `SessionNeedsAccount`, `ImplicitLinkIsProved` |
| `linking_unlink` | the same without other handlers | - | violation of `NeverUnlinksLast` (section 6) |
| `sql_store` | 2 calls at once; 2 users, emails, accounts, stamps; 1 of the rest | 168 thousand, up to symmetry | `ImplementsContract`: as plain tables the store keeps the contract, but for the steps in `excused` |
| `organizations` | 2 requests of any kind, 2 users, both stores, 4 beginnings, 2 option sets; limits 1 to 3 | 658 thousand, up to symmetry | `OwnerRemains`, `OwnershipGranted`, `MemberOnce`, `DeclinedStays`, `DeletedLeavesNothing` |
| `codes` | 2 requests of any kind, 2 emails, 1 number, both stores, 4 option sets, 14 beginnings, two identifiers that read alike; 2 guesses | 976 thousand, up to symmetry | `CodeDies`, `GuessesBounded`, `VerifiedMeansProved` |
| `twofactor` | 2 requests without end, 1 challenge, 1 backup code, limits 1 and 2, a lock of 2 ticks | 1.99 million | `UsedOnce`, `LimitsHold`; `LockEnds` (liveness) |
| `federation` | 2 requests without end, 2 users, emails, accounts, tokens; 1 flow; a generic and an SSO provider, one at a time | 1.47 million, up to symmetry | `IdentityKeepsUser`, `TokenHonoured` |

Why the bounds are enough to be of use. *MemoryStore*: an index goes wrong through two rows that share a key and a third
operation on one of them; two of everything with one provider give all combinations of shared and distinct keys.
*Passwords*: each property is about a pair of requests; the third is the one that prepares or disturbs them (issues the
token, replaces the password). *Sessions*: two requests of one browser overlap, the third is the sign-in; two tokens let
a browser replace one session by another; two ticks separate the cache's age, the update age and the session's lifetime.
`MaxTime` bounds the clock, `Plans` the requests: `AnyThree` lets three be of any kind, `Shadow` has a fourth, because a
copy with an expiry that no row had takes a sign-in, a refresh and a sign-out that overlap, and a request that the copy
serves. *Linking*: two requests race, and since the initial tables are arbitrary no third request is needed to prepare
them; `MaxEvents` bounds the changes by other handlers. *SQLStore*: every divergence from the contract is between the
statements of one call and one other call; one token, identifier and provider is what two calls meet on, and two
accounts can share it. *Organizations*: the last owner is lost, or a user joins twice, by two requests; `FourBeginnings`
bounds what the first organization starts with (two owners; a member with a dynamic role and a team; an invitation into
a team; an invitation to own), so that no third request is needed to prepare it, and every limit is small enough to be
met. *Codes*: `Starts` does the same, with a code that is fresh, has one guess left, or none; two requests overlap on
it. `MCText` makes one pair of change-email identifiers read alike, in both directions of which a code may have been
mailed. *TwoFactor*: requests are not counted, so that a code can be spent, enabled anew and tried again; `Overlapping`
bounds which pending calls may run beside another one to the verification of backup codes, the ones that touch
challenge, record and counters all three (with more the state space no longer fits; the other calls interleave with
crashes and with time). *Federation*: `Alone` bounds the rows, users apart, the requests and what `mixed` remembers to
one provider at a time; the code reads no row of a provider for a request of another. No flow begins while both requests
are under way: a callback redeems only a state that is there when it starts. Symmetry is used on names that occur in no
asymmetric definition; the safety and action properties checked treat them alike.

Where a theorem exists for a property of a run (section 5) the bounds are only those of the check, not of the claim.

## 5. The proofs

Every proof is by an inductive invariant: `Init => IInv`, `IInv /\ [Next]_vars => IInv'`, `IInv => Inv`, with one
lemma per action or group of actions, and PTL in the last step only. Action properties follow from `IInv` at the step.

**MemoryStoreProofs.** `TypeCorrect`, `EmailIndexIsSound`, `AccountIndexesAreSound`, `SessionIndexIsExact`,
`DeleteUserIsCascading`, `MemoryStoreImplementsContract`. The conjunction of the type invariant with the index
invariants is already inductive (`IInv`), because a method never removes a row without its index entries under the
one lock. The refinement maps each action to the contract's action of the same name, or to a stutter of the rows.

**PasswordsProofs.** `TypeCorrect`, `ResetTokensAreSingleUse`, `RevocationMissesOnlyOverlaps`, `AfterDeleteRunsOnce`,
`ChangesAreNotBlind`. `IInv` adds what the properties rest on: a redeemed token's row is gone (`TokenInv`); a request
past the deletion implies that the user is gone and that no other request is there (`DeleteInv`); a name is used by
nobody before its request sets a password (`NameInv`); and the central one, `HoldingInv`: a request that verified a
password and may still insert a session holds the current one or is in `overtaken`. The properties alone are not
inductive: they are about the rows and say nothing of what a request that is under way will write.

**SessionsProofs.** `TypeCorrect`, `RevokedForGood`, `BriefIsBrief`, `DeferredGetsRead`, `CacheIsBounded`,
`SensitiveRefused`, `CacheMatches`. `IInv` is `TypeOK` with `StageInv` (what a request holds at each stage), `IssuedInv`
(every token in a jar, a copy, a request or a reply was issued; no copy says more than `Promised`, the latest expiry the
row had or that a refresh answered for a row that had gone; a row of a short sign-in keeps its one expiry, so that an
update that writes back what it read changes nothing), `BriefInv` (a token of a short sign-in travels only with
`dont_remember`: in the jar, in the request's copy and in the answer), `RevokedInv` (a request whose session was revoked
before it was sent has a token without a row) and `MatchInv` (the pending answers of a browser that is not in `mixed`
agree with its jar).

**LinkingProofs.** `TypeCorrect`, `StatesAreSingleUse`, `IdentitiesHaveOneAccount`, `VerifiedEmailsAreProved`,
`LastAccountIsKept`, `LinksKeepTheOwner`, `SessionsHaveAccounts`, `ImplicitLinksAreProved`: every property of the run.
`IInv` says what a request under way must hold for the tables to stay right: what it has at each stage (`StageInv`),
that a redeemed state is gone (`FlowInv`), that nothing refers to a row its request has yet to write (`NewUserInv`,
`NewAccountInv`), that what it may write into `verified` was proved (`ProofInv`), and that unless it is in `overtaken`
what it has checked still is so (`CurrentInv`, `LinkInv`, `SessionInv`, `UnlinkInv`). The proof first establishes what
any step does to the tables and to a request's variables (the Effect and Moves lemmas) and then preserves the parts
one by one. `LastAccountIsKept` needs that a set with a second element does not have cardinality one, the only fact
taken from the library of finite sets.

**SQLStoreProofs.** `RowsKeepForm` (an email has one user in every reachable state, which the in-memory store does
not keep, section 6) and `StoreKeepsContract`, the refinement. `IInv` says what the statements of overlapping calls
leave true: a user about to be inserted is known to its inserter only (`InsertInv`); what a deletion or replacement
has taken out of a table is its own, once, and not in the table (`TakenInv`); a deletion that no insert has overtaken
(`late`) has left nothing of the user in the tables it has been through (`EmptyInv`); the user of a session does not
change under a call that will write the row (`RenewInv`). With it each statement, seen through what the calls under way
have taken, is a step of the contract, a stutter, or one of those `excused` names.

**FederationProofs.** `AlwaysIInv`, `TokensStayHonoured`, `IdentitiesKeepUsers`. Besides types `IInv` has `TokensApart`
(no two rows or requests share a refresh token but an account and the requests that refresh it), `CopiesApart` (a token
that an update has copied from a row is in no other row, so that writing it back hurts that account only), `RefreshInv`
(an account that is not in `spoilt` is refreshed by one request at a time, which stores what the provider honours; a
stale copy that is written over the new token puts the account into `spoilt`) and `IdentityInv` (the identity of a
provider that is not in `mixed` has one account at most, one request at most looks for a user to give it one, and
whoever has found the account has found its user).

**CodesProofs.** `AlwaysIInv`, `DeadCodesStayDead`, `GuessingEnds`, `MarksAreProved`. `IInv` says whose a code is and
that one being made is nowhere yet (`NamesInv`), that a dead code is neither stored nor held unless it was raced for or
its delete failed (`DeadInv`), that a row and every copy of it count the wrong guesses made (`GuessInv`), and that a
request that will set a mark works on the user whose address was proved or is in `misread`, or on one that somebody
else has changed since (`ProvedInv`). It holds for every `Text` of `TextAssumption`, not only for the one of the run.

**OrganizationsProofs.** `AlwaysIInv`, `MembersAreMembersOnce`, `DeletionsLeaveNothing`, `OwnershipIsGranted`,
`OwnersRemain`, `DeclinedInvitationsStay`: every property of the run. The argument is one of rely and guarantee. `Form`
says what a request holds at each stage and `Fit` how that agrees with the rows there are: whoever is about to write a
row has found its organization there and its user not a member, whoever is about to take an owner away has counted
another, whoever accepts an invitation has found it open, unless it is in `overtaken`. `RowsMove` and `MarksMove` say
what a step may do to the tables as the others see it: a table gains at most the row of the request that steps, on the
organization it was called for, and whoever relied on what has changed is overtaken. `StepKeeps` concludes from the two
that a step keeps `IInv`; each action then has a lemma that shows its `RowsMove` and where it takes its own request.
The action properties follow at the few steps that write members (`MemberWriteForms`) or invitations
(`InvitationWrite`). Two formulas that TLC had passed at two requests turned out not to be inductive and, with three
requests, false; they are now stated with the exceptions that section 6 gives.

Assumptions: `NoneAssumption` (MemoryStore, StoreContract, SQLStore), `NameAssumption` (Passwords, Codes,
Organizations), `NamesAssumption` (Federation), `TimesAssumption`, `PlansAssumption` and `NoneAssumption` (Sessions),
`ConfigAssumption`, `BoundAssumption`, `NameAssumption`, `NoneIsNoRecord` (Linking), `OptionAssumption`,
`TextAssumption` and `BeginningAssumption` (Codes), `FiniteAssumption`, `RoleAssumption`, `AdapterAssumption`,
`LimitAssumption` and `BeginningAssumption` (Organizations). They say that `None` and the old names are not ids, tokens
or rows, that lifetimes, limits and bounds are positive, that implicit linking requires linking, that random tokens are
written like nothing else, that the creator role is a role, that rows are finitely many, and that what a database holds
at first has the form of rows and belongs to the first user or organization. TLC evaluates each of them in a run. No
theorem assumes a bound to be small: `MaxTime` and `MaxEvents` are arbitrary positive or natural numbers and `Plans` any
sequences, so that the theorems hold for runs of any length; the theorems are about any number of requests and any
beginnings of the form the assumptions give, not about `FourBeginnings` or `Starts`; and no proof uses the two bounds of
Federation (`Alone` and the one in `CreateState`).

Only model-checked: the three violations, which are counterexamples, and TwoFactor. Its `LockEnds` is liveness under
fairness, which the prover cannot do; `UsedOnce` and `LimitsHold` are action properties that still lack an inductive
invariant (section 7). Every property of the other passing runs is also proved, and `TypeOK` of each of their modules.

## 6. What the models found

* `memory_store_emails`: the in-memory `UpdateUser` (`store/memory/memory.go:120`) moves the email index to the new
  email without looking for another holder. Two users then hold one email and the first is no longer found by it,
  whereas `store/sql/sql.go:219` speaks of "unique email to match the in-memory adapter semantics".
* `sessions_brief`: with the cookie cache on, a browser that signed in with `rememberMe: false` is signed out by its
  third request although its session is live. `setSessionCache` gives its copy a lifetime of 0, the next request finds
  the copy lapsed, and `DeleteSessionCookies` takes the token along (`auth/session_resolve.go:72`).
* `linking_unlink`: two unlink requests at the same time both count two accounts and delete one each
  (`auth/routes_account.go:140`), against docs/authentication/account-management.md:58.

Properties of the passing runs name their exceptions, and each exception is behaviour that the code has:

* Sessions: a refresh that a revocation overtakes between the SELECT and the UPDATE of the SQL store
  (`store/sql/sql.go:754`, which does not look at the affected rows) is answered with the new expiry, and the cookie
  cache then serves the revoked session until that expiry, or until the refresh it promises falls due, renewing the
  copy at each hit (`auth/session_resolve.go:176`). Only requests in flight at the revocation can do so. When the user
  lookup of `createSession` fails, the copy of an earlier session stays beside the new token: `CacheMatchesToken`
  excuses it by `mixed`. Sign-out clears the cookies although its delete may have failed and the row then stays.
* One-time codes: a wrong guess writes its copy of the row back, so a code that was used or replaced meanwhile is
  stored again and two guesses at once count as one (`plugins/emailotp.go:579`). A magic link, one-time token or
  trusted device works for two readers at once, and again when its delete fails (`auth/plugin_api.go:183`).
* Verified marks: two change-email identifiers can be one string (`plugins/emailotp.go:310`), and a code mailed for one
  change then serves for the other without any overlap: the address is in `misread`. An address changed directly
  because it was not verified counts as verified if a link was used in between (`auth/routes_user.go:198`); in SQL a
  whole-row write puts back an address, mark or number that another request has just changed
  (`store/sql/sql.go:401`); a number that update-user takes off while phone-number/verify holds the user leaves the
  mark without a number.
* Second factor: guesses sent at once count as one, and a factor may be accepted while another request is writing the
  lock; a spent backup code comes back from an older copy of the record (`plugins/twofactor.go:435`, `:707`).
  `verify-otp` from a session without a record sets `twoFactorEnabled`, after which a pending sign-in cannot be met;
  disabling deletes the record before it clears the flag, and leaves trusted devices of other browsers.
* Organizations: two owners who leave, are removed or step down at once leave none; a user who accepts and is added at
  once is a member twice; the rollback of a failed acceptance reopens a cancelled invitation
  (`plugins/organization.go:1655`); rows written while the organization is deleted stay, and a member so written can
  go on to create roles of the organization that is gone (`plugins/organization.go:2895` never looks at it). In an
  organization without owners an accepted invitation to own makes one, and undoing the acceptance takes it away again
  without any other request. Both came out of the proofs and need three requests. Deleting an organization and
  removing a member leave team memberships; deleting a user leaves its memberships; renaming a role leaves members
  with the old name; cancel-invitation does not look at the status; the undo deletions ignore their errors.
* Federation: a lookup that fails counts as an absent account for SSO (`plugins/sso.go:741`), and the identity then
  has accounts of two users. A generic sign-up that stops between user and account leaves a user whom that provider
  no longer signs in unless accounts may be linked. A provider id registered anew inherits the accounts of the old
  one; update-provider adds a second configuration to the first, and SAML then decides the sign-in. A sign-in without
  a refresh token writes the token columns it has read before, over a token that was stored since
  (`store/sql/sql.go:576`).
* SQL store: `UpdateUser` writes whole rows it read before; an update of a row that has gone says ok; a `DeleteUser`
  that stops half-way or is overtaken by a sign-in leaves rows of no user (`store/sql/sql.go:473`).

They are stated as exceptions, so that the property says exactly when it holds; the three runs of the first list are the
ones where a comment or document contradicts what the code does in a single case. For most of the exceptions no
document promises otherwise. Two documents do speak more simply than the code, without the exceptions for requests that
overlap or deletes that fail: docs/plugins/other-plugins.md:28 calls one-time tokens "Single-use cross-domain tokens"
(also docs/plugins/overview.md:45), where `CodeDies` excepts `raced` and `kept`; and docs/plugins/two-factor.md:36-40
says that failed verifications "are counted" across the methods, that the account is locked "after the configured number
of consecutive failures" and that a challenge has a "five-attempt per-challenge budget", where `LimitsHold` excepts
guesses sent at once. Read to the letter these sentences do not hold; read as what a single client sees they do.

## 7. Left out, and the plan

What a further extension would take, the most important first:

1. Proofs about TwoFactor: an invariant that says which challenge, record and attempt rows a request's copies are of,
   from which `UsedOnce` and `LimitsHold` follow at the step.
2. More of SQLStore's view of the extended rows: `DeleteUser` beside the organization and two-factor tables.
3. A module for the counters and decisions of `plugins/apikey.go` and `misc.go`: the remaining uses of an API key are
   read and written back; an approved device code is not consumed by the poll that redeems it.
4. The rate limiter's window, as a function of the times of calls, against a reference definition.

Not modelled within the modules above: an organization's name, slug and metadata and the session's active organization
and team; listings; the VerifyOTP callback of a deployment; SSO providers fixed in the configuration, SSO domains and
the verified marks, names and images that a provider states; additional columns; a hook that rewrites a row.

Not to be modelled: SCIM, Stripe, passkeys, SIWE, OIDC, MCP, anonymous and username, which translate between protocols
with single writes and end in the session code of Sessions; admin, whose rows are written by single handlers; routing,
option defaults, field validation, encodings and cryptography (pure functions or input and output; the models take
from them that a signature verifies only what was signed, that ids are fresh and that a hash compares equal only for
the same password); the text of the SQL schema and of its dialects; identity providers, whose answers are inputs;
the command line, the client, the examples.
