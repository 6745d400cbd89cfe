------------------------------ MODULE Sessions ------------------------------
(***************************************************************************)
(* One user's sessions, the cookies that carry them and the requests that  *)
(* resolve, refresh and revoke them (auth/session.go, session_resolve.go,  *)
(* routes_session.go, internal/cookie).                                    *)
(*                                                                         *)
(* A browser sends its cookies as they are; the server answers from the    *)
(* cached copy in session_data or from the session row, one store call per *)
(* step; the Set-Cookie headers of the answer reach the browser later,     *)
(* after those of other requests perhaps, or never.  Time is counted in    *)
(* ticks: a cached copy holds until `until', a row until its expiry.       *)
(***************************************************************************)
EXTENDS Integers, FiniteSets, Sequences

CONSTANTS
    Clients, Requests, Tokens, None,
    SessionExpires,     \* session lifetime (cfg.sessionExpires)
    UpdateAge,          \* age at which a session is refreshed (cfg.sessionUpdateAge)
    DontRememberAge,    \* lifetime without rememberMe (cfg.dontRememberAge)
    CacheAge,           \* lifetime of the cached copy (cfg.cookieCache.maxAge)
    Configs,            \* options of Config.Session under which the server may run
    Queries,            \* options a client may put in the query of get-session
    MaxTime,            \* bound on the clock
    Plans               \* bound on the requests: what the first, the second ... may call

ASSUME TimesAssumption ==
    /\ {SessionExpires, UpdateAge, DontRememberAge, CacheAge, MaxTime} \subseteq Nat \ {0}
    /\ Clients # {} /\ None \notin Tokens
    /\ Configs \subseteq [cookieCache : BOOLEAN, deferRefresh : BOOLEAN, disableRefresh : BOOLEAN]
    /\ Queries \subseteq SUBSET {"noCache", "noRefresh"}

VARIABLES
    config,     \* the options of Config.Session that choose a branch
    now,
    rows,       \* rows[t]: expiry of the session row of token t, or None
    jar,        \* the browsers' cookies
    req,        \* the requests in flight
    plan,       \* what the requests still to come may call
    latest,     \* latest[t]: the latest expiry the row of t had, 0 before t is issued
    unwritten,  \* unwritten[t]: the latest expiry answered for t once its row was gone, or 0
    remember,   \* tokens issued with rememberMe
    mixed,      \* browsers that took cookies from overlapping or half failed requests
    held        \* the token a browser got when it last signed in, until it gives it up

ghosts == <<latest, unwritten, remember, mixed, held>>
vars   == <<config, now, rows, jar, req, plan, ghosts>>

Gets  == {"get", "list"}
Posts == {"post", "update", "revoke", "revokeAll", "revokeOthers", "signOut", "signIn", "signInBriefly"}
Kinds == Gets \cup Posts

(* What the first request, the second ... may call, as far as there are more. *)
Itinerary == Seq(SUBSET Kinds)

ASSUME PlansAssumption == Plans \subseteq Itinerary

(* SessionOpts: the client chooses them for get-session, the code elsewhere. *)
Options(kind) ==
    CASE kind \in {"get", "post"} -> Queries
      [] kind \in {"list", "revoke", "revokeAll", "revokeOthers"} -> {{"noCache"}}
      [] OTHER -> {{}}

Time  == 0..(MaxTime + SessionExpires + DontRememberAge + CacheAge)
Copy  == [token : Tokens, expires : Time, until : Time]
Token == Tokens \cup {None}

ASSUME NoneAssumption == None \notin Nat \cup Copy

(* session_token (lasting: with a Max-Age), dont_remember and session_data, *)
(* which the browser drops when the clock reaches `ends'.                   *)
Jar   == [token : Token, lasting : BOOLEAN, dontRemember : BOOLEAN,
          data : Copy \cup {None}, ends : Time \cup {None}]
EmptyJar == [token |-> None, lasting |-> FALSE, dontRemember |-> FALSE, data |-> None, ends |-> None]

(* The Set-Cookie headers of an answer: DeleteSessionCookies comes first.  *)
Reply == [clear : BOOLEAN, token : Token, dontRemember : BOOLEAN,
          data : Copy \cup {None}, age : {0, CacheAge}]
NoCookies == [clear |-> FALSE, token |-> None, dontRemember |-> FALSE, data |-> None, age |-> 0]
Cleared   == [NoCookies EXCEPT !.clear = TRUE]

Stages  == {"idle", "arrive", "find", "drop", "refresh", "extend", "serve", "store", "delete",
            "lookup", "reply"}
Request == [pc : Stages, kind : Kinds, opts : SUBSET {"noCache", "noRefresh"}, client : Clients,
            cookies : Jar, token : Token, expires : Time, reply : Reply,
            stale : BOOLEAN, revoked : BOOLEAN]

Idle == [pc |-> "idle", kind |-> "get", opts |-> {}, client |-> CHOOSE c \in Clients : TRUE,
         cookies |-> EmptyJar, token |-> None, expires |-> 0, reply |-> NoCookies,
         stale |-> FALSE, revoked |-> FALSE]

Init ==
    /\ config \in Configs
    /\ now = 0
    /\ rows = [t \in Tokens |-> None]
    /\ jar = [c \in Clients |-> EmptyJar]
    /\ req = [r \in Requests |-> Idle]
    /\ plan \in Plans
    /\ latest = [t \in Tokens |-> 0] /\ unwritten = [t \in Tokens |-> 0]
    /\ remember = {} /\ mixed = {} /\ held = [c \in Clients |-> None]

Row(t) == IF t = None THEN None ELSE rows[t]
Expired(expires) == IF expires = None THEN FALSE ELSE expires < now
Server == <<config, now, jar, plan, ghosts>>     \* what a step inside a handler leaves alone

-----------------------------------------------------------------------------
(* The browser.                                                            *)

Sent(c) == [jar[c] EXCEPT !.lasting = FALSE, !.ends = None,
                          !.data = IF jar[c].ends # None /\ jar[c].ends <= now THEN None ELSE @]

Send(r, c, kind, opts) ==
    /\ req[r].pc = "idle"
    /\ plan # <<>> /\ kind \in Head(plan) /\ plan' = Tail(plan)
    /\ kind = "post" => config.deferRefresh        \* POST get-session is refused without it
    /\ req' = [req EXCEPT ![r] =
           [Idle EXCEPT !.pc = "arrive", !.kind = kind, !.opts = opts, !.client = c, !.cookies = Sent(c),
                        !.revoked = jar[c].token # None /\ rows[jar[c].token] = None]]
    /\ UNCHANGED <<config, now, rows, jar, ghosts>>

SetToken(j, reply) ==
    IF reply.token = None THEN j
    ELSE [j EXCEPT !.token = reply.token, !.lasting = ~reply.dontRemember,
                   !.dontRemember = @ \/ reply.dontRemember]

SetData(j, reply) ==
    IF reply.data = None THEN j
    ELSE [j EXCEPT !.data = reply.data, !.ends = IF reply.age = 0 THEN None ELSE now + reply.age]

Apply(j, reply) == SetData(SetToken(IF reply.clear THEN EmptyJar ELSE j, reply), reply)

SignsIn(r) == req[r].kind \in {"signIn", "signInBriefly"}

(* The cookies of an answer replace those the browser has by then.         *)
Receive(r) ==
    LET c == req[r].client IN
    /\ req[r].pc = "reply"
    /\ jar' = [jar EXCEPT ![c] = Apply(@, req[r].reply)]
    /\ req' = [q \in Requests |->
                  IF q = r THEN Idle
                  ELSE IF req[q].client = c /\ req[r].reply # NoCookies
                  THEN [req[q] EXCEPT !.stale = TRUE] ELSE req[q]]
    /\ mixed' = IF req[r].reply # NoCookies /\ (req[r].stale \/ (SignsIn(r) /\ req[r].reply.data = None))
                THEN mixed \cup {c} ELSE mixed
    /\ held' = CASE SignsIn(r) -> [held EXCEPT ![c] = req[r].reply.token]
                 [] req[r].kind \in {"signOut", "revokeAll"} -> [held EXCEPT ![c] = None]
                 [] OTHER -> held
    /\ UNCHANGED <<config, now, rows, plan, latest, unwritten, remember>>

(* The answer is lost, or the server stops before it sends one.            *)
Lose(r) ==
    /\ req[r].pc # "idle"
    /\ req' = [req EXCEPT ![r] = Idle]
    /\ UNCHANGED <<config, now, rows, jar, plan, ghosts>>

(* The browser closes and drops the cookies that have no Max-Age.          *)
Close(c) ==
    /\ \A r \in Requests : req[r].pc # "idle" => req[r].client # c
    /\ jar' = [jar EXCEPT ![c] =
           [EmptyJar EXCEPT !.token = IF jar[c].lasting THEN jar[c].token ELSE None,
                            !.lasting = jar[c].lasting,
                            !.data = IF jar[c].ends = None THEN None ELSE jar[c].data,
                            !.ends = jar[c].ends]]
    /\ held' = [held EXCEPT ![c] = None]
    /\ UNCHANGED <<config, now, rows, req, plan, latest, unwritten, remember, mixed>>

Tick ==
    /\ now < MaxTime
    /\ now' = now + 1
    /\ UNCHANGED <<config, rows, jar, req, plan, ghosts>>

-----------------------------------------------------------------------------
(* resolveSession.                                                         *)

ReadOnly(r) == config.deferRefresh /\ req[r].kind \in Gets    \* deferSessionRefresh && !isPost
Resolves(r) == req[r].kind \notin {"signOut", "signIn", "signInBriefly"}

MayRefresh(r) ==
    /\ ~config.disableRefresh /\ "noRefresh" \notin req[r].opts
    /\ ~req[r].cookies.dontRemember

ShouldRefresh(r, expires) ==
    /\ MayRefresh(r)
    /\ now >= expires - SessionExpires + UpdateAge

(* setSessionCache goes by the dont_remember cookie of the request.        *)
WithCache(r, reply, token, expires) ==
    LET age == IF req[r].cookies.dontRemember THEN 0 ELSE CacheAge IN
    IF ~config.cookieCache THEN reply
    ELSE [reply EXCEPT !.data = [token |-> token, expires |-> expires, until |-> now + age],
                       !.age = age]

Serve(r, reply, token, expires) ==
    req' = [req EXCEPT ![r] = [@ EXCEPT !.pc = "serve", !.token = token,
                                        !.reply = WithCache(r, reply, token, expires)]]

Answer(r, reply) ==
    req' = [req EXCEPT ![r] = [Idle EXCEPT !.pc = "reply", !.reply = reply, !.kind = req[r].kind,
                                           !.client = req[r].client, !.stale = req[r].stale]]
Goto(r, pc)      == req' = [req EXCEPT ![r] = [@ EXCEPT !.pc = pc]]

(* Bug form: the endpoints that ask for the row are served from the cache too. *)
Cached_Always(r) == config.cookieCache /\ req[r].cookies.data # None

Cached(r) ==
    config.cookieCache /\ "noCache" \notin req[r].opts /\ req[r].cookies.data # None

CacheLapsed(r) ==
    req[r].cookies.data.until < now \/ Expired(req[r].cookies.data.expires)

CacheHitWith(r, expires) ==
    LET copy == req[r].cookies.data IN
    /\ req[r].pc = "arrive" /\ Resolves(r)
    /\ Cached(r) /\ ~CacheLapsed(r)
    /\ ReadOnly(r) \/ ~ShouldRefresh(r, copy.expires)
    /\ Serve(r, req[r].reply, copy.token, expires)
    /\ UNCHANGED <<rows, Server>>

(* Bug form: renewing the copy renews the expiry of the session in it.     *)
CacheHit_Extends(r) == CacheHitWith(r, now + SessionExpires)

(* sessionFromCache succeeds and the copy is young enough to be served.    *)
CacheHit(r) == CacheHitWith(r, req[r].cookies.data.expires)

(* A lapsed copy deletes all session cookies, the token too, and goes on.  *)
Dropped(r) == IF Cached(r) /\ CacheLapsed(r) THEN Cleared ELSE req[r].reply

CacheMiss(r) ==
    /\ req[r].pc = "arrive" /\ Resolves(r)
    /\ Cached(r) /\ ~CacheLapsed(r)
          => ~ReadOnly(r) /\ ShouldRefresh(r, req[r].cookies.data.expires)
    /\ req' = [req EXCEPT ![r] = [@ EXCEPT !.pc = "find", !.reply = Dropped(r)]]
    /\ UNCHANGED <<rows, Server>>

NotFound(r) ==
    /\ req[r].pc = "find"
    /\ Row(req[r].cookies.token) = None
    /\ Answer(r, req[r].reply)
    /\ UNCHANGED <<rows, Server>>

(* Bug form: an expired row is deleted on behalf of a deferred GET as well. *)
FoundExpired_Drops(r) ==
    /\ req[r].pc = "find" /\ Expired(Row(req[r].cookies.token))
    /\ req' = [req EXCEPT ![r] = [@ EXCEPT !.pc = "drop", !.reply = Cleared]]
    /\ UNCHANGED <<rows, Server>>

FoundExpired(r) ==
    /\ req[r].pc = "find" /\ Expired(Row(req[r].cookies.token))
    /\ req' = [req EXCEPT ![r] = [@ EXCEPT !.pc = IF ReadOnly(r) THEN "reply" ELSE "drop",
                                           !.reply = Cleared]]
    /\ UNCHANGED <<rows, Server>>

Without(t) == [rows EXCEPT ![t] = None]

(* DeleteSession, whatever became of the row since it was read; nobody     *)
(* looks whether it failed and the row stays.                              *)
DropExpired(r) ==
    /\ req[r].pc = "drop"
    /\ rows' \in {rows, Without(req[r].cookies.token)}
    /\ Goto(r, "reply")
    /\ UNCHANGED Server

FoundLive(r) ==
    LET t == req[r].cookies.token IN
    /\ req[r].pc = "find"
    /\ Row(t) # None /\ ~Expired(Row(t))
    /\ IF ReadOnly(r) \/ ~ShouldRefresh(r, rows[t])
       THEN Serve(r, req[r].reply, t, rows[t])
       ELSE Goto(r, "refresh")
    /\ UNCHANGED <<rows, Server>>

(* refreshSession: UpdateSession finds the row and takes the new expiry.   *)
RefreshFound(r) ==
    /\ req[r].pc = "refresh"
    /\ rows[req[r].cookies.token] # None
    /\ req' = [req EXCEPT ![r] = [@ EXCEPT !.pc = "extend", !.expires = now + SessionExpires]]
    /\ UNCHANGED <<rows, Server>>

Later(a, b) == IF a < b THEN b ELSE a

(* The answer carries the token again, and a copy with the new expiry.     *)
ServeRefreshed(r) ==
    LET t == req[r].cookies.token IN Serve(r, [req[r].reply EXCEPT !.token = t], t, req[r].expires)

Extend(r, t) ==
    /\ rows' = [rows EXCEPT ![t] = req[r].expires]
    /\ latest' = [latest EXCEPT ![t] = Later(@, req[r].expires)]
    /\ ServeRefreshed(r)
    /\ UNCHANGED <<config, now, jar, plan, unwritten, remember, mixed, held>>

(* Bug form: the update inserts the row if it is gone.                     *)
RefreshSession_Upsert(r) == req[r].pc = "extend" /\ Extend(r, req[r].cookies.token)

(* ... and writes it: one call under the lock of the in-memory store, a    *)
(* second statement in SQL.                                                *)
RefreshSession(r) ==
    /\ req[r].pc = "extend"
    /\ rows[req[r].cookies.token] # None
    /\ Extend(r, req[r].cookies.token)

(* The row went in between: the UPDATE of SQL touches none and says ok, and *)
(* the session is served and cached with an expiry that no row has.        *)
RefreshGone(r) ==
    LET t == req[r].cookies.token IN
    /\ req[r].pc = "extend"
    /\ rows[t] = None
    /\ unwritten' = [unwritten EXCEPT ![t] = Later(@, req[r].expires)]
    /\ ServeRefreshed(r)
    /\ UNCHANGED <<config, now, rows, jar, plan, latest, remember, mixed, held>>

(* UpdateSession finds no row, or one of its statements fails.             *)
RefreshFails(r) ==
    /\ req[r].pc \in {"refresh", "extend"}
    /\ Answer(r, Cleared)
    /\ UNCHANGED <<rows, Server>>

-----------------------------------------------------------------------------
(* The handlers, once the session is resolved.                             *)

(* handleGetSession and handleListSessions only answer; the others do so   *)
(* when the body or a store call is refused.                               *)
JustAnswer(r) ==
    /\ req[r].pc \in {"serve", "store"}
    /\ Answer(r, req[r].reply)
    /\ UNCHANGED <<rows, Server>>

(* handleUpdateSession: UpdateSession reads the row, of which the request   *)
(* changes other columns,                                                  *)
UpdateFound(r) ==
    /\ req[r].pc = "serve" /\ req[r].kind = "update"
    /\ rows[req[r].token] # None
    /\ req' = [req EXCEPT ![r] = [@ EXCEPT !.pc = "store", !.expires = rows[req[r].token]]]
    /\ UNCHANGED <<rows, Server>>

(* ... and writes all of it back, the expiry it read included, if the row  *)
(* is still there; the copy is of what it read and wrote.                  *)
UpdateSession(r) ==
    LET t == req[r].token IN
    /\ req[r].pc = "store"
    /\ rows' = IF rows[t] = None THEN rows ELSE [rows EXCEPT ![t] = req[r].expires]
    /\ Answer(r, WithCache(r, req[r].reply, t, req[r].expires))
    /\ UNCHANGED Server

(* handleRevokeSession: FindSessionByToken of a session of the same user.  *)
FindTarget(r, t) ==
    /\ req[r].pc = "serve" /\ req[r].kind = "revoke"
    /\ rows[t] # None
    /\ req' = [req EXCEPT ![r] = [@ EXCEPT !.pc = "delete", !.token = t]]
    /\ UNCHANGED <<rows, Server>>

DeleteTarget(r) ==
    /\ req[r].pc = "delete"
    /\ rows' = Without(req[r].token)
    /\ Answer(r, req[r].reply)
    /\ UNCHANGED Server

RevokeAll(r) ==
    /\ req[r].pc = "serve" /\ req[r].kind = "revokeAll"
    /\ rows' = [t \in Tokens |-> None]
    /\ Answer(r, Cleared)
    /\ UNCHANGED Server

RevokeOthers(r) ==
    /\ req[r].pc = "serve" /\ req[r].kind = "revokeOthers"
    /\ rows' = [t \in Tokens |-> IF t = req[r].token THEN rows[t] ELSE None]
    /\ Answer(r, req[r].reply)
    /\ UNCHANGED Server

(* handleSignOut clears the cookies even if DeleteSession fails.           *)
SignOut(r) ==
    LET t == req[r].cookies.token IN
    /\ req[r].pc = "arrive" /\ req[r].kind = "signOut"
    /\ rows' \in (IF t = None THEN {rows} ELSE {rows, Without(t)})
    /\ Answer(r, Cleared)
    /\ UNCHANGED Server

(* createSession, and the dont_remember cookie a short session comes with. *)
CreateWith(r, t, brief, reply) ==
    /\ req[r].pc = "arrive" /\ SignsIn(r)
    /\ latest[t] = 0
    /\ LET expires == now + (IF brief THEN DontRememberAge ELSE SessionExpires) IN
       /\ rows' = [rows EXCEPT ![t] = expires]
       /\ latest' = [latest EXCEPT ![t] = expires]
       /\ req' = [req EXCEPT ![r] = [@ EXCEPT !.pc = "lookup", !.token = t, !.expires = expires,
                                              !.reply = reply]]
    /\ remember' = IF brief THEN remember ELSE remember \cup {t}
    /\ UNCHANGED <<config, now, jar, plan, unwritten, mixed, held>>

Brief(r) == req[r].kind = "signInBriefly"

(* Bug form: a short session comes without the dont_remember cookie.       *)
CreateSession_Unmarked(r, t) == CreateWith(r, t, Brief(r), [NoCookies EXCEPT !.token = t])

CreateSession(r, t) ==
    CreateWith(r, t, Brief(r), [NoCookies EXCEPT !.token = t, !.dontRemember = Brief(r)])

(* Bug form: the copy carries the token of the request, not the new one.   *)
CacheNewSession_OfRequest(r) ==
    /\ req[r].pc = "lookup"
    /\ Answer(r, WithCache(r, req[r].reply, req[r].cookies.token, req[r].expires))
    /\ UNCHANGED <<rows, Server>>

(* FindUserByID succeeds: the new session is cached.                       *)
CacheNewSession(r) ==
    /\ req[r].pc = "lookup"
    /\ Answer(r, WithCache(r, req[r].reply, req[r].token, req[r].expires))
    /\ UNCHANGED <<rows, Server>>

(* FindUserByID fails and nobody looks: the old session_data stays.        *)
CacheNewSessionFails(r) ==
    /\ req[r].pc = "lookup"
    /\ Answer(r, req[r].reply)
    /\ UNCHANGED <<rows, Server>>

-----------------------------------------------------------------------------
Browser ==
    \/ \E r \in Requests, c \in Clients, k \in Kinds : \E o \in Options(k) : Send(r, c, k, o)
    \/ \E r \in Requests : Receive(r) \/ Lose(r)
    \/ \E c \in Clients : Close(c)

Resolve(r) ==
    \/ CacheHit(r) \/ CacheMiss(r) \/ NotFound(r) \/ FoundExpired(r) \/ DropExpired(r)
    \/ FoundLive(r) \/ RefreshFound(r) \/ RefreshSession(r) \/ RefreshGone(r) \/ RefreshFails(r)

Handle(r) ==
    \/ JustAnswer(r) \/ UpdateFound(r) \/ UpdateSession(r) \/ DeleteTarget(r)
    \/ RevokeAll(r) \/ RevokeOthers(r) \/ SignOut(r)
    \/ CacheNewSession(r) \/ CacheNewSessionFails(r)
    \/ \E t \in Tokens : FindTarget(r, t) \/ CreateSession(r, t)

Next == Browser \/ Tick \/ \E r \in Requests : Resolve(r) \/ Handle(r)

Spec == Init /\ [][Next]_vars

-----------------------------------------------------------------------------
(* Every row, cookie and request is in one of its states.                  *)
TypeOK ==
    /\ config \in Configs
    /\ now \in 0..MaxTime
    /\ plan \in Itinerary
    /\ rows \in [Tokens -> Time \cup {None}]
    /\ jar \in [Clients -> Jar]
    /\ req \in [Requests -> Request]
    /\ latest \in [Tokens -> Time] /\ unwritten \in [Tokens -> Time]
    /\ remember \subseteq Tokens /\ mixed \subseteq Clients
    /\ held \in [Clients -> Token]

(* A session that is gone never comes back: a refresh that read the row    *)
(* before it was revoked does not restore it (refreshSession).             *)
RevokedStaysRevoked ==
    [][\A t \in Tokens : latest[t] # 0 /\ rows[t] = None => rows'[t] = None]_vars

(* A session of a sign-in without rememberMe is never extended, however    *)
(* the answers of the browser's requests interleave and wherever a browser *)
(* closes: its token never travels without the dont_remember cookie.       *)
BriefNeverExtended ==
    [][\A t \in Tokens : latest[t] # 0 /\ t \notin remember => rows'[t] \in {rows[t], None}]_vars

(* With deferSessionRefresh no GET writes the store.                       *)
DeferredGetsOnlyRead ==
    [][\A r \in Requests :
          ReadOnly(r) /\ req[r].pc # "idle" /\ req'[r].pc # req[r].pc => rows' = rows]_vars

(* list-sessions and the revoke endpoints, which turn the cache off, are   *)
(* refused when the browser's token had been revoked before it asked.      *)
SensitiveNeedsRow ==
    \A r \in Requests :
        req[r].revoked /\ req[r].kind \in {"list", "revoke", "revokeAll", "revokeOthers"}
            => req[r].pc \notin {"refresh", "extend", "serve", "delete"}

(* The latest expiry a copy of t may carry: the latest its row had, or that *)
(* of a refresh whose write no longer met the row.                         *)
Promised(t) == Later(latest[t], unwritten[t])

(* The cookie cache serves a session, revoked or not, never beyond its     *)
(* latest expiry, and where refreshing is on only until the refresh falls  *)
(* due: each hit renews the copy but not the expiry in it.  A refresh that *)
(* a revocation overtakes (RefreshGone) counts with the expiry it answered; *)
(* it had found the row, so only what was in flight then can do so.        *)
CacheServesUntilRefresh ==
    [][\A r \in Requests :
          req[r].pc = "arrive" /\ req'[r].pc = "serve" =>
              /\ now <= Promised(req'[r].token)
              /\ \/ ReadOnly(r) \/ ~MayRefresh(r)
                 \/ now < Promised(req'[r].token) - SessionExpires + UpdateAge]_vars

(* The cached copy a browser holds is of the session whose token it holds, *)
(* unless answers overtook one another or a sign-in failed to cache.       *)
CacheMatchesToken ==
    \A c \in Clients :
        c \notin mixed /\ jar[c].token # None /\ jar[c].data # None
            => jar[c].data.token = jar[c].token

(* A browser that signed in without rememberMe and has not signed out, nor *)
(* been closed, keeps its token while the session row is live.             *)
BriefSessionKept ==
    \A c \in Clients :
        LET t == held[c] IN
        t # None /\ t \notin remember /\ c \notin mixed /\ rows[t] # None /\ ~Expired(rows[t])
            => jar[c].token = t
=============================================================================
