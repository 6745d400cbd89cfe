--------------------------- MODULE SessionsProofs ---------------------------
(***************************************************************************)
(* The theorems about Sessions, for any browsers, tokens, lifetimes,       *)
(* bounds, options and number of overlapping requests.                     *)
(*                                                                         *)
(* None of the properties is inductive: what a request may do depends on   *)
(* what it read some steps ago.  IInv says what that was: StageInv what a  *)
(* request holds at its stage; IssuedInv that tokens in cookies, requests  *)
(* and answers were issued and that no copy promises more than its session *)
(* got; BriefInv that the token of a short session travels with            *)
(* dont_remember; RevokedInv that a token revoked before a request was     *)
(* sent has no row during the request; MatchInv that a request no answer   *)
(* overtook has the browser's cookies and answers with a copy that matches. *)
(***************************************************************************)
EXTENDS Sessions, TLAPS

(* The endpoints that resolve the session without the cookie cache.        *)
Sensitive == {"list", "revoke", "revokeAll", "revokeOthers"}

(* What a request holds at the stage it is in.                             *)
StageInv ==
    \A r \in Requests :
       /\ req[r].pc \in {"drop", "refresh", "extend"} => req[r].cookies.token \in Tokens /\ ~ReadOnly(r)
       /\ req[r].pc \in {"serve", "store", "delete", "lookup"} => req[r].token \in Tokens
       /\ req[r].pc \in {"refresh", "extend"} => MayRefresh(r)
       /\ req[r].pc = "store" => req[r].kind = "update"
       /\ req[r].pc = "delete" => req[r].kind = "revoke"
       /\ req[r].pc = "lookup" => SignsIn(r)
       /\ req[r].pc \notin {"idle", "reply"} /\ req[r].kind \in Sensitive => "noCache" \in req[r].opts

(* A session token somewhere has been issued; a copy says no more than was  *)
(* promised; the expiry of a session that is not to be remembered never     *)
(* changes, so that whoever writes one back writes what is there.           *)
TokenIssued(t) == t \in Tokens => latest[t] # 0
CopyIssued(p)  == p # None => latest[p.token] # 0 /\ p.expires <= Promised(p.token)

JarIssued(j) == TokenIssued(j.token) /\ CopyIssued(j.data)

HeldIssued(q) ==
    /\ JarIssued(q.cookies) /\ JarIssued(q.reply) /\ TokenIssued(q.token)
    /\ q.pc \in {"lookup", "store"} => q.expires <= latest[q.token]
    /\ q.pc = "store" /\ q.token \notin remember => q.expires = latest[q.token]

IssuedInv ==
    /\ \A t \in Tokens : rows[t] # None => /\ latest[t] # 0 /\ rows[t] <= latest[t]
                                           /\ t \notin remember => rows[t] = latest[t]
    /\ \A t \in remember : latest[t] # 0
    /\ \A c \in Clients : JarIssued(jar[c])
    /\ \A r \in Requests : HeldIssued(req[r])

(* The token of a short session is a cookie without Max-Age and travels    *)
(* with dont_remember.                                                     *)
Short(t) == t \in Tokens /\ t \notin remember

BriefInv ==
    /\ \A c \in Clients : Short(jar[c].token) => jar[c].dontRemember /\ ~jar[c].lasting
    /\ \A r \in Requests :
          /\ Short(req[r].cookies.token) => req[r].cookies.dontRemember
          /\ Short(req[r].reply.token) => req[r].reply.dontRemember

(* The token that was revoked when a request was sent has no row since.    *)
RevokedInv ==
    \A r \in Requests :
       req[r].revoked => req[r].cookies.token \in Tokens /\ rows[req[r].cookies.token] = None

(* What the answer r makes of the token and the copy in the browser's jar. *)
TokenAfter(j, reply) ==
    IF reply.token # None THEN reply.token ELSE IF reply.clear THEN None ELSE j.token
DataAfter(j, reply) ==
    IF reply.data # None THEN reply.data ELSE IF reply.clear THEN None ELSE j.data
Agree(token, data) == token # None /\ data # None => data.token = token

(* A request that no answer overtook has the cookies the browser has, and  *)
(* its answer keeps token and copy together.                               *)
Fresh(r) == ~req[r].stale /\ req[r].client \notin mixed

Matches(r) ==
    LET q == req[r]  j == jar[q.client] IN
    /\ q.pc \in {"arrive", "find", "drop", "refresh", "extend"} => q.reply \in {NoCookies, Cleared}
    /\ q.pc = "lookup" => q.reply.token = q.token /\ q.reply.data = None /\ ~q.reply.clear
    /\ Fresh(r) /\ q.pc \notin {"idle", "reply"}
          => q.cookies.token = j.token /\ q.cookies.data \in {None, j.data}
    /\ Fresh(r) /\ q.pc \in {"serve", "store", "delete", "reply"}
          => \/ Agree(TokenAfter(j, q.reply), DataAfter(j, q.reply))
             \/ SignsIn(r) /\ q.reply.data = None
    /\ Fresh(r) /\ q.pc \in {"serve", "store"} => TokenAfter(j, q.reply) \in {None, q.token}

MatchInv == CacheMatchesToken /\ \A r \in Requests : Matches(r)

IInv == TypeOK /\ StageInv /\ IssuedInv /\ BriefInv /\ RevokedInv /\ MatchInv

(* What a step may do to the rows: only a session with rememberMe that is  *)
(* still there changes its expiry.                                         *)
RowsOnlyFall ==
    \A t \in Tokens : latest[t] # 0 => rows'[t] \in {rows[t], None} \/ (t \in remember /\ rows[t] # None)

DeferredRead ==
    \A q \in Requests :
       ReadOnly(q) /\ req[q].pc # "idle" /\ req'[q].pc # req[q].pc => rows' = rows

CacheServed ==
    \A q \in Requests :
       req[q].pc = "arrive" /\ req'[q].pc = "serve" =>
          /\ now <= Promised(req'[q].token)
          /\ \/ ReadOnly(q) \/ ~MayRefresh(q)
             \/ now < Promised(req'[q].token) - SessionExpires + UpdateAge

USE TimesAssumption

LEMMA TimeFacts ==
    /\ \A n \in 0..MaxTime : /\ n \in Time /\ n + SessionExpires \in Time
                             /\ n + DontRememberAge \in Time /\ n + CacheAge \in Time /\ n + 0 \in Time
    /\ 0 \in Time /\ Time \subseteq Int
BY DEF Time

LEMMA LaterType ==
    ASSUME NEW a \in Time, NEW b \in Time
    PROVE  Later(a, b) \in Time /\ a <= Later(a, b) /\ b <= Later(a, b) /\ Later(a, b) \in {a, b}
BY TimeFacts DEF Later, Time

LEMMA PromisedFacts ==
    ASSUME TypeOK, NEW t \in Tokens
    PROVE  /\ Promised(t) \in Time /\ Promised(t) \in Int /\ latest[t] \in Time
           /\ latest[t] <= Promised(t) /\ unwritten[t] <= Promised(t)
<1>1. latest[t] \in Time /\ unwritten[t] \in Time
  BY DEF TypeOK
<1> QED
  BY <1>1, LaterType, TimeFacts DEF Promised

LEMMA SamePromise ==
    ASSUME UNCHANGED <<latest, unwritten>>, NEW t
    PROVE  Promised(t)' = Promised(t)
BY DEF Promised, Later

LEMMA IdleType == Idle \in Request
<1>1. (CHOOSE c \in Clients : TRUE) \in Clients
  OBVIOUS
<1>2. EmptyJar \in Jar /\ NoCookies \in Reply
  BY DEF EmptyJar, NoCookies, Jar, Reply, Token
<1> QED
  BY <1>1, <1>2, TimeFacts DEF Idle, Request, Stages, Kinds, Gets, Posts, EmptyJar, Jar, NoCookies, Reply, Token

LEMMA WithCacheType ==
    ASSUME NEW r \in Requests, TypeOK, NEW reply \in Reply, NEW t \in Tokens, NEW e \in Time
    PROVE  WithCache(r, reply, t, e) \in Reply
BY TimeFacts DEF WithCache, Reply, Copy, TypeOK, Request, Jar

LEMMA ServeType ==
    ASSUME NEW r \in Requests, TypeOK, NEW reply \in Reply, NEW t \in Tokens, NEW e \in Time,
           Serve(r, reply, t, e)
    PROVE  req' \in [Requests -> Request]
<1>1. req[r] \in Request /\ WithCache(r, reply, t, e) \in Reply
  BY WithCacheType DEF TypeOK
<1>2. [req[r] EXCEPT !.pc = "serve", !.token = t, !.reply = WithCache(r, reply, t, e)] \in Request
  BY <1>1 DEF Request, Stages, Token
<1> QED
  BY <1>2 DEF Serve, TypeOK

LEMMA AnswerType ==
    ASSUME NEW r \in Requests, TypeOK, NEW reply \in Reply, Answer(r, reply)
    PROVE  req' \in [Requests -> Request]
<1>1. [Idle EXCEPT !.pc = "reply", !.reply = reply, !.kind = req[r].kind,
                   !.client = req[r].client, !.stale = req[r].stale] \in Request
  BY IdleType DEF TypeOK, Request, Stages
<1> QED
  BY <1>1 DEF Answer, TypeOK

LEMMA TypeStep == TypeOK /\ StageInv /\ [Next]_vars => TypeOK'
<1> SUFFICES ASSUME TypeOK, StageInv, [Next]_vars PROVE TypeOK'
  OBVIOUS
<1> USE DEF ghosts, Server
<1>1. CASE UNCHANGED vars
  BY <1>1 DEF vars, TypeOK
<1>2. ASSUME NEW r \in Requests, NEW c \in Clients, NEW k \in Kinds, NEW o \in Options(k), Send(r, c, k, o)
      PROVE  TypeOK'
  <2>1. Sent(c) \in Jar
    <3>1. jar[c] \in Jar
      BY DEF TypeOK
    <3> QED
      BY <3>1 DEF Sent, Jar
  <2>2. o \in SUBSET {"noCache", "noRefresh"}
    BY DEF Options
  <2>3. ASSUME NEW b \in BOOLEAN
        PROVE  [Idle EXCEPT !.pc = "arrive", !.kind = k, !.opts = o, !.client = c,
                            !.cookies = Sent(c), !.revoked = b] \in Request
    BY <2>1, <2>2, IdleType DEF Request, Stages
  <2>4. (jar[c].token # None /\ rows[jar[c].token] = None) \in BOOLEAN
    OBVIOUS
  <2>5. req' \in [Requests -> Request]
    BY <1>2, <2>3, <2>4 DEF Send, TypeOK
  <2>6. plan' \in Itinerary
    <3>1. plan \in Itinerary
      BY DEF TypeOK
    <3>2. plan # <<>> /\ plan' = Tail(plan)
      BY <1>2 DEF Send
    <3> QED
      BY <3>1, <3>2 DEF Itinerary
  <2> QED
    BY <1>2, <2>5, <2>6 DEF Send, TypeOK
<1>3. ASSUME NEW r \in Requests, Receive(r) PROVE TypeOK'
  <2>1. req[r].reply \in Reply /\ req[r].client \in Clients
    BY DEF TypeOK, Request
  <2>2. \A j \in Jar : Apply(j, req[r].reply) \in Jar
    <3>1. EmptyJar \in Jar
      BY TimeFacts DEF EmptyJar, Jar, Token
    <3>2. ASSUME NEW j \in Jar PROVE SetToken(j, req[r].reply) \in Jar
      BY <2>1 DEF SetToken, Jar, Reply
    <3>3. ASSUME NEW j \in Jar PROVE SetData(j, req[r].reply) \in Jar
      BY <2>1, TimeFacts DEF SetData, Jar, Reply, TypeOK
    <3> QED
      BY <3>1, <3>2, <3>3 DEF Apply
  <2>3. jar' \in [Clients -> Jar]
    BY <1>3, <2>1, <2>2 DEF Receive, TypeOK
  <2>4. req' \in [Requests -> Request]
    <3>1. ASSUME NEW q \in Requests
          PROVE  req[q] \in Request /\ [req[q] EXCEPT !.stale = TRUE] \in Request
      <4>1. req[q] \in Request
        BY DEF TypeOK
      <4> QED
        BY <4>1 DEF Request
    <3> QED
      BY <1>3, <3>1, IdleType DEF Receive
  <2>5. held' \in [Clients -> Token]
    BY <1>3, <2>1 DEF Receive, TypeOK, Reply, Token
  <2> QED
    BY <1>3, <2>1, <2>3, <2>4, <2>5 DEF Receive, TypeOK
<1>4. ASSUME NEW r \in Requests, Lose(r) PROVE TypeOK'
  BY <1>4, IdleType DEF Lose, TypeOK
<1>5. ASSUME NEW c \in Clients, Close(c) PROVE TypeOK'
  BY <1>5, TimeFacts DEF Close, TypeOK, Jar, EmptyJar, Token
<1>6. CASE Tick
  BY <1>6 DEF Tick, TypeOK
<1>7. ASSUME NEW r \in Requests, Resolve(r) PROVE TypeOK'
  <2> DEFINE q == req[r]
  <2>0. q \in Request /\ q.cookies \in Jar /\ q.reply \in Reply /\ Cleared \in Reply
    BY DEF TypeOK, Request, Cleared, NoCookies, Reply, Token
  <2> USE <2>0
  <2>1. CASE CacheHit(r)
    <3>1. q.cookies.data \in Copy
      BY <2>1 DEF CacheHit, CacheHitWith, Cached, Jar
    <3> QED
      BY <2>1, <3>1, ServeType DEF CacheHit, CacheHitWith, TypeOK, Copy
  <2>2. CASE CacheMiss(r)
    <3>1. Dropped(r) \in Reply
      BY DEF Dropped
    <3>2. [q EXCEPT !.pc = "find", !.reply = Dropped(r)] \in Request
      BY <3>1 DEF Request, Stages
    <3> QED
      BY <2>2, <3>2 DEF CacheMiss, TypeOK
  <2>3. CASE NotFound(r)
    BY <2>3, AnswerType DEF NotFound, TypeOK
  <2>4. CASE FoundExpired(r)
    BY <2>4 DEF FoundExpired, TypeOK, Request, Stages
  <2>5. CASE DropExpired(r)
    BY <2>5 DEF DropExpired, Without, Goto, TypeOK, Request, Stages
  <2>6. CASE FoundLive(r)
    <3>1. q.cookies.token \in Tokens /\ rows[q.cookies.token] \in Time
      BY <2>6 DEF FoundLive, Row, Jar, Token, TypeOK
    <3>2. CASE Serve(r, q.reply, q.cookies.token, rows[q.cookies.token])
      BY <2>6, <3>1, <3>2, ServeType DEF FoundLive, Row, TypeOK
    <3>3. CASE Goto(r, "refresh")
      BY <2>6, <3>3 DEF FoundLive, Goto, TypeOK, Request, Stages
    <3> QED
      BY <2>6, <3>1, <3>2, <3>3 DEF FoundLive, Row
  <2>7. CASE RefreshSession(r)
    <3>1. q.cookies.token \in Tokens /\ q.expires \in Time
      BY <2>7 DEF RefreshSession, StageInv, Request
    <3>2. [q.reply EXCEPT !.token = q.cookies.token] \in Reply
      BY <3>1 DEF Reply, Token
    <3>3. req' \in [Requests -> Request]
      BY <2>7, <3>1, <3>2, ServeType DEF RefreshSession, Extend, ServeRefreshed
    <3>4. Later(latest[q.cookies.token], q.expires) \in Time
      BY <3>1, LaterType DEF TypeOK
    <3> QED
      BY <2>7, <3>1, <3>3, <3>4 DEF RefreshSession, Extend, TypeOK
  <2>9. CASE RefreshFound(r)
    <3>1. now + SessionExpires \in Time
      BY TimeFacts DEF TypeOK
    <3>2. [q EXCEPT !.pc = "extend", !.expires = now + SessionExpires] \in Request
      BY <3>1 DEF Request, Stages
    <3> QED
      BY <2>9, <3>2 DEF RefreshFound, TypeOK
  <2>10. CASE RefreshGone(r)
    <3>1. q.cookies.token \in Tokens /\ q.expires \in Time
      BY <2>10 DEF RefreshGone, StageInv, Request
    <3>2. [q.reply EXCEPT !.token = q.cookies.token] \in Reply
      BY <3>1 DEF Reply, Token
    <3>3. req' \in [Requests -> Request]
      BY <2>10, <3>1, <3>2, ServeType DEF RefreshGone, ServeRefreshed
    <3>4. Later(unwritten[q.cookies.token], q.expires) \in Time
      BY <3>1, LaterType DEF TypeOK
    <3> QED
      BY <2>10, <3>1, <3>3, <3>4 DEF RefreshGone, TypeOK
  <2>8. CASE RefreshFails(r)
    BY <2>8, AnswerType DEF RefreshFails, TypeOK
  <2> QED
    BY <1>7, <2>1, <2>2, <2>3, <2>4, <2>5, <2>6, <2>7, <2>8, <2>9, <2>10 DEF Resolve
<1>8. ASSUME NEW r \in Requests, Handle(r) PROVE TypeOK'
  <2> DEFINE q == req[r]
  <2>0. q \in Request /\ q.cookies \in Jar /\ q.reply \in Reply /\ Cleared \in Reply
    BY DEF TypeOK, Request, Cleared, NoCookies, Reply, Token
  <2> USE <2>0
  <2>1. CASE JustAnswer(r)
    BY <2>1, AnswerType DEF JustAnswer, TypeOK
  <2>2. CASE UpdateSession(r)
    <3>1. q.token \in Tokens /\ q.expires \in Time
      BY <2>2 DEF UpdateSession, StageInv, Request
    <3>2. WithCache(r, q.reply, q.token, q.expires) \in Reply
      BY <3>1, WithCacheType
    <3>3. req' \in [Requests -> Request]
      BY <2>2, <3>2, AnswerType DEF UpdateSession
    <3> QED
      BY <2>2, <3>1, <3>3 DEF UpdateSession, TypeOK
  <2>11. CASE UpdateFound(r)
    <3>1. q.token \in Tokens /\ rows[q.token] \in Time
      BY <2>11 DEF UpdateFound, StageInv, TypeOK
    <3>2. [q EXCEPT !.pc = "store", !.expires = rows[q.token]] \in Request
      BY <3>1 DEF Request, Stages
    <3> QED
      BY <2>11, <3>2 DEF UpdateFound, TypeOK
  <2>3. CASE DeleteTarget(r)
    <3>1. rows' \in [Tokens -> Time \cup {None}]
      BY <2>3 DEF DeleteTarget, Without, TypeOK
    <3> QED
      BY <2>3, <3>1, AnswerType DEF DeleteTarget, TypeOK
  <2>4. CASE RevokeAll(r)
    BY <2>4, AnswerType DEF RevokeAll, TypeOK
  <2>5. CASE RevokeOthers(r)
    BY <2>5, AnswerType DEF RevokeOthers, TypeOK
  <2>6. CASE SignOut(r)
    BY <2>6, AnswerType DEF SignOut, Without, TypeOK
  <2>7. CASE CacheNewSession(r)
    <3>1. q.token \in Tokens /\ q.expires \in Time
      BY <2>7 DEF CacheNewSession, StageInv, Request
    <3> QED
      <4>1. WithCache(r, q.reply, q.token, q.expires) \in Reply
        BY <3>1, WithCacheType
      <4>2. req' \in [Requests -> Request]
        BY <2>7, <4>1, AnswerType DEF CacheNewSession
      <4> QED
        BY <2>7, <4>2 DEF CacheNewSession, TypeOK
  <2>8. CASE CacheNewSessionFails(r)
    BY <2>8, AnswerType DEF CacheNewSessionFails, TypeOK
  <2>9. ASSUME NEW t \in Tokens, FindTarget(r, t) PROVE TypeOK'
    BY <2>9 DEF FindTarget, TypeOK, Request, Stages, Token
  <2>10. ASSUME NEW t \in Tokens, CreateSession(r, t) PROVE TypeOK'
    <3>1. /\ now + (IF Brief(r) THEN DontRememberAge ELSE SessionExpires) \in Time
          /\ [NoCookies EXCEPT !.token = t, !.dontRemember = Brief(r)] \in Reply
      BY TimeFacts DEF TypeOK, NoCookies, Reply, Token, Brief
    <3> QED
      BY <2>10, <3>1 DEF CreateSession, CreateWith, TypeOK, Request, Stages, Token
  <2> QED
    BY <1>8, <2>1, <2>2, <2>3, <2>4, <2>5, <2>6, <2>7, <2>8, <2>9, <2>10, <2>11 DEF Handle
<1> QED
  BY <1>1, <1>2, <1>3, <1>4, <1>5, <1>6, <1>7, <1>8 DEF Next, Browser

LEMMA StageStep == TypeOK /\ StageInv /\ [Next]_vars => StageInv'
<1> SUFFICES ASSUME TypeOK, StageInv, [Next]_vars PROVE StageInv'
  OBVIOUS
<1> USE DEF TypeOK, StageInv, Request, ReadOnly, MayRefresh, SignsIn, Sensitive, Idle, ghosts, Server
<1>1. CASE UNCHANGED vars
  BY <1>1 DEF vars
<1>2. ASSUME NEW r \in Requests, NEW c \in Clients, NEW k \in Kinds, NEW o \in Options(k), Send(r, c, k, o)
      PROVE  StageInv'
  BY <1>2 DEF Send, Sent, Options, Gets, Posts, Kinds
<1>3. ASSUME NEW r \in Requests, Receive(r) PROVE StageInv'
  BY <1>3 DEF Receive, Apply, SetToken, SetData, SignsIn
<1>4. ASSUME NEW r \in Requests, Lose(r) PROVE StageInv'
  BY <1>4 DEF Lose
<1>5. ASSUME NEW c \in Clients, Close(c) PROVE StageInv'
  BY <1>5 DEF Close
<1>6. CASE Tick
  BY <1>6 DEF Tick
<1>7. ASSUME NEW r \in Requests, Resolve(r) PROVE StageInv'
  <2>1. CASE CacheHit(r)
    <3>1. req[r].cookies.data \in Copy
      BY <2>1 DEF CacheHit, CacheHitWith, Cached, Jar
    <3> QED
      BY <2>1, <3>1 DEF CacheHit, CacheHitWith, Cached, Resolves, Serve, WithCache, Copy
  <2>2. CASE CacheMiss(r)
    BY <2>2 DEF CacheMiss, Dropped, Resolves
  <2>3. CASE NotFound(r)
    BY <2>3 DEF NotFound, Answer, Row
  <2>4. CASE FoundExpired(r)
    <3>1. req[r].cookies.token \in Tokens
      BY <2>4 DEF FoundExpired, Row, Expired, Jar, Token
    <3> QED
      BY <2>4, <3>1 DEF FoundExpired
  <2>5. CASE DropExpired(r)
    BY <2>5 DEF DropExpired, Without, Goto
  <2>6. CASE FoundLive(r)
    <3>1. req[r].cookies.token \in Tokens
      BY <2>6 DEF FoundLive, Row, Serve, Goto, ShouldRefresh, WithCache, Jar, Token
    <3>2. CASE ReadOnly(r) \/ ~ShouldRefresh(r, rows[req[r].cookies.token])
      <4>1. Serve(r, req[r].reply, req[r].cookies.token, rows[req[r].cookies.token]) /\ UNCHANGED config
        BY <2>6, <3>2 DEF FoundLive
      <4> QED
        BY <2>6, <3>1, <4>1 DEF FoundLive, Serve
    <3>3. CASE ~ReadOnly(r) /\ ShouldRefresh(r, rows[req[r].cookies.token])
      BY <2>6, <3>1, <3>3 DEF FoundLive, Row, Goto, ShouldRefresh
    <3> QED
      BY <3>2, <3>3
  <2>7. CASE RefreshSession(r)
    BY <2>7 DEF RefreshSession, Extend, ServeRefreshed, Serve, WithCache
  <2>9. CASE RefreshFound(r)
    BY <2>9 DEF RefreshFound
  <2>10. CASE RefreshGone(r)
    BY <2>10 DEF RefreshGone, ServeRefreshed, Serve, WithCache
  <2>8. CASE RefreshFails(r)
    BY <2>8 DEF RefreshFails, Answer
  <2> QED
    BY <1>7, <2>1, <2>2, <2>3, <2>4, <2>5, <2>6, <2>7, <2>8, <2>9, <2>10 DEF Resolve
<1>8. ASSUME NEW r \in Requests, Handle(r) PROVE StageInv'
  <2>1. CASE JustAnswer(r)
    BY <2>1 DEF JustAnswer, Answer
  <2>2. CASE UpdateSession(r)
    BY <2>2 DEF UpdateSession, Answer, WithCache
  <2>11. CASE UpdateFound(r)
    BY <2>11 DEF UpdateFound
  <2>3. CASE DeleteTarget(r)
    BY <2>3 DEF DeleteTarget, Without, Answer
  <2>4. CASE RevokeAll(r)
    BY <2>4 DEF RevokeAll, Answer
  <2>5. CASE RevokeOthers(r)
    BY <2>5 DEF RevokeOthers, Answer
  <2>6. CASE SignOut(r)
    BY <2>6 DEF SignOut, Without, Answer
  <2>7. CASE CacheNewSession(r)
    BY <2>7 DEF CacheNewSession, Answer, WithCache
  <2>8. CASE CacheNewSessionFails(r)
    BY <2>8 DEF CacheNewSessionFails, Answer
  <2>9. ASSUME NEW t \in Tokens, FindTarget(r, t) PROVE StageInv'
    BY <2>9 DEF FindTarget
  <2>10. ASSUME NEW t \in Tokens, CreateSession(r, t) PROVE StageInv'
    BY <2>10 DEF CreateSession, CreateWith, SignsIn, Brief
  <2> QED
    BY <1>8, <2>1, <2>2, <2>3, <2>4, <2>5, <2>6, <2>7, <2>8, <2>9, <2>10, <2>11 DEF Handle
<1> QED
  BY <1>1, <1>2, <1>3, <1>4, <1>5, <1>6, <1>7, <1>8 DEF Next, Browser

(* What the steps that compose an answer leave of the request.             *)
Carries(new, old, t, e) ==
    /\ new.token = old.token /\ new.clear = old.clear /\ new.dontRemember = old.dontRemember
    /\ new.data = old.data \/ (new.data # None /\ new.data.token = t /\ new.data.expires = e)

LEMMA WithCacheCarries ==
    ASSUME NEW r \in Requests, TypeOK, NEW reply \in Reply, NEW t \in Tokens, NEW e \in Time
    PROVE  Carries(WithCache(r, reply, t, e), reply, t, e)
<1>1. \A n \in {0, CacheAge} : [token |-> t, expires |-> e, until |-> now + n] \in Copy
  BY TimeFacts DEF Copy, TypeOK
<1> QED
  BY <1>1, NoneAssumption DEF Carries, WithCache, Reply

LEMMA ServeEffect ==
    ASSUME NEW r \in Requests, TypeOK, NEW reply \in Reply, NEW t \in Tokens, NEW e \in Time,
           Serve(r, reply, t, e)
    PROVE  /\ \A q \in Requests \ {r} : req'[q] = req[q]
           /\ req'[r].pc = "serve" /\ req'[r].token = t
           /\ req'[r].kind = req[r].kind /\ req'[r].client = req[r].client
           /\ req'[r].cookies = req[r].cookies /\ req'[r].revoked = req[r].revoked
           /\ req'[r].stale = req[r].stale
           /\ Carries(req'[r].reply, reply, t, e)
<1>1. req[r] \in Request /\ req'[r] = [req[r] EXCEPT !.pc = "serve", !.token = t,
                                                      !.reply = WithCache(r, reply, t, e)]
  BY DEF Serve, TypeOK
<1>2. \A q \in Requests \ {r} : req'[q] = req[q]
  BY DEF Serve, TypeOK
<1>3. Carries(WithCache(r, reply, t, e), reply, t, e)
  BY WithCacheCarries
<1> HIDE DEF Serve
<1> QED
  BY <1>1, <1>2, <1>3 DEF Request

LEMMA AnswerEffect ==
    ASSUME NEW r \in Requests, TypeOK, NEW reply, Answer(r, reply)
    PROVE  /\ \A q \in Requests \ {r} : req'[q] = req[q]
           /\ req'[r].pc = "reply" /\ req'[r].reply = reply
           /\ req'[r].token = None /\ req'[r].cookies = EmptyJar /\ ~req'[r].revoked
           /\ req'[r].kind = req[r].kind /\ req'[r].client = req[r].client /\ req'[r].stale = req[r].stale
BY DEF Answer, TypeOK, Idle

LEMMA LiveEffect ==
    ASSUME NEW r \in Requests, TypeOK, FoundLive(r)
    PROVE  LET t == req[r].cookies.token IN
           /\ req[r].pc = "find" /\ t \in Tokens /\ rows[t] \in Time /\ rows[t] # None
           /\ UNCHANGED <<rows, Server>>
           /\ \A q \in Requests \ {r} : req'[q] = req[q]
           /\ req'[r].kind = req[r].kind /\ req'[r].client = req[r].client
           /\ req'[r].cookies = req[r].cookies /\ req'[r].revoked = req[r].revoked
           /\ req'[r].stale = req[r].stale
           /\ \/ req'[r].pc = "serve" /\ req'[r].token = t /\ Carries(req'[r].reply, req[r].reply, t, rows[t])
              \/ /\ req'[r].pc = "refresh" /\ req'[r].token = req[r].token
                 /\ req'[r].reply = req[r].reply
<1> DEFINE t == req[r].cookies.token
<1>1. t \in Tokens /\ req[r].pc = "find" /\ req[r].reply \in Reply /\ UNCHANGED <<rows, Server>>
  BY DEF FoundLive, Row, TypeOK, Request, Jar, Token
<1>2. rows[t] \in Time /\ rows[t] # None
  BY <1>1 DEF FoundLive, Row, TypeOK
<1>3. CASE Serve(r, req[r].reply, t, rows[t])
  BY <1>1, <1>2, <1>3, ServeEffect
<1>4. CASE Goto(r, "refresh")
  BY <1>1, <1>2, <1>4 DEF Goto, TypeOK, Request
<1> QED
  BY <1>1, <1>3, <1>4 DEF FoundLive, Row

LEMMA RefreshServed ==
    ASSUME NEW r \in Requests, TypeOK, StageInv, req[r].pc = "extend", ServeRefreshed(r)
    PROVE  LET t == req[r].cookies.token  e == req[r].expires IN
           /\ t \in Tokens /\ e \in Time
           /\ \A q \in Requests \ {r} : req'[q] = req[q]
           /\ req'[r].pc = "serve" /\ req'[r].token = t
           /\ req'[r].kind = req[r].kind /\ req'[r].client = req[r].client
           /\ req'[r].cookies = req[r].cookies /\ req'[r].revoked = req[r].revoked
           /\ req'[r].stale = req[r].stale
           /\ req'[r].reply.token = t /\ req'[r].reply.clear = req[r].reply.clear
           /\ req'[r].reply.data = req[r].reply.data
                \/ (req'[r].reply.data.token = t /\ req'[r].reply.data.expires = e)
<1> DEFINE t == req[r].cookies.token
           reply == [req[r].reply EXCEPT !.token = t]
<1>1. t \in Tokens /\ req[r].expires \in Time
  BY DEF StageInv, TypeOK, Request
<1>2. reply \in Reply
  BY <1>1 DEF TypeOK, Request, Reply, Token
<1>3. Serve(r, reply, t, req[r].expires)
  BY DEF ServeRefreshed
<1>4. reply.token = t /\ reply.clear = req[r].reply.clear /\ reply.data = req[r].reply.data
  BY DEF TypeOK, Request, Reply
<1> HIDE DEF reply
<1>5. /\ \A q \in Requests \ {r} : req'[q] = req[q]
      /\ req'[r].pc = "serve" /\ req'[r].token = t
      /\ req'[r].kind = req[r].kind /\ req'[r].client = req[r].client
      /\ req'[r].cookies = req[r].cookies /\ req'[r].revoked = req[r].revoked
      /\ req'[r].stale = req[r].stale
      /\ Carries(req'[r].reply, reply, t, req[r].expires)
  BY <1>1, <1>2, <1>3, ServeEffect
<1> QED
  BY <1>1, <1>4, <1>5 DEF Carries

(* A refresh is of a session to remember; it raises what was promised.     *)
LEMMA RefreshEffect ==
    ASSUME NEW r \in Requests, TypeOK, StageInv, BriefInv, IssuedInv, RefreshSession(r)
    PROVE  LET t == req[r].cookies.token  e == req[r].expires IN
           /\ req[r].pc = "extend" /\ t \in Tokens /\ t \in remember /\ rows[t] # None
           /\ e \in Time /\ ServeRefreshed(r)
           /\ UNCHANGED <<config, now, jar, plan, unwritten, remember, mixed, held>>
           /\ rows'[t] = e /\ e <= latest'[t]
           /\ \A u \in Tokens \ {t} : rows'[u] = rows[u] /\ latest'[u] = latest[u]
           /\ \A u \in Tokens : latest[u] \in Nat /\ latest'[u] \in Nat /\ latest[u] <= latest'[u]
<1> DEFINE t == req[r].cookies.token
<1>1. req[r].pc = "extend" /\ t \in Tokens /\ t \in remember /\ rows[t] # None /\ req[r].expires \in Time
  BY DEF RefreshSession, StageInv, BriefInv, Short, MayRefresh, TypeOK, Request
<1>2. \A u \in Tokens : latest[u] \in Time
  BY DEF TypeOK
<1>3. /\ latest'[t] = Later(latest[t], req[r].expires) /\ rows'[t] = req[r].expires
      /\ \A u \in Tokens \ {t} : rows'[u] = rows[u] /\ latest'[u] = latest[u]
  BY <1>1 DEF RefreshSession, Extend, TypeOK
<1>4. /\ latest'[t] \in Time /\ latest[t] <= latest'[t] /\ req[r].expires <= latest'[t]
  BY <1>1, <1>2, <1>3, LaterType
<1>5. \A u \in Tokens : latest[u] \in Nat /\ latest'[u] \in Nat /\ latest[u] <= latest'[u]
  BY <1>1, <1>2, <1>3, <1>4 DEF Time
<1> QED
  BY <1>1, <1>3, <1>4, <1>5 DEF RefreshSession, Extend

LEMMA GoneEffect ==
    ASSUME NEW r \in Requests, TypeOK, StageInv, RefreshGone(r)
    PROVE  LET t == req[r].cookies.token  e == req[r].expires IN
           /\ req[r].pc = "extend" /\ t \in Tokens /\ e \in Time /\ ServeRefreshed(r)
           /\ UNCHANGED <<config, now, rows, jar, plan, latest, remember, mixed, held>>
           /\ unwritten'[t] \in Time /\ unwritten[t] <= unwritten'[t] /\ e <= unwritten'[t]
           /\ \A u \in Tokens \ {t} : unwritten'[u] = unwritten[u]
<1> DEFINE t == req[r].cookies.token
<1>1. req[r].pc = "extend" /\ t \in Tokens /\ req[r].expires \in Time /\ unwritten[t] \in Time
  BY DEF RefreshGone, StageInv, TypeOK, Request
<1>2. /\ unwritten'[t] = Later(unwritten[t], req[r].expires)
      /\ \A u \in Tokens \ {t} : unwritten'[u] = unwritten[u]
  BY <1>1 DEF RefreshGone, TypeOK
<1> QED
  BY <1>1, <1>2, LaterType DEF RefreshGone

LEMMA UpdateEffect ==
    ASSUME NEW r \in Requests, TypeOK, StageInv, IssuedInv, UpdateSession(r)
    PROVE  LET t == req[r].token  e == req[r].expires IN
           /\ t \in Tokens /\ e \in Time /\ UNCHANGED Server
           /\ req[r].pc = "store" /\ req[r].kind = "update"
           /\ e <= latest[t] /\ latest[t] # 0 /\ (t \notin remember => e = latest[t])
           /\ \A u \in Tokens : rows'[u] = rows[u] \/ (u = t /\ rows[u] # None /\ rows'[u] = e)
           /\ Answer(r, req'[r].reply)
           /\ Carries(req'[r].reply, req[r].reply, t, e)
<1>1. /\ req[r].token \in Tokens /\ req[r].expires \in Time /\ req[r].reply \in Reply
      /\ UNCHANGED Server /\ req[r].pc = "store" /\ req[r].kind = "update"
  BY DEF UpdateSession, StageInv, TypeOK, Request
<1>2. LET t == req[r].token  e == req[r].expires IN
      e <= latest[t] /\ latest[t] # 0 /\ (t \notin remember => e = latest[t])
  BY <1>1 DEF IssuedInv, HeldIssued, JarIssued, TokenIssued
<1>3. \A u \in Tokens : rows'[u] = rows[u] \/ (u = req[r].token /\ rows[u] # None /\ rows'[u] = req[r].expires)
  BY <1>1 DEF UpdateSession, TypeOK
<1> DEFINE new == WithCache(r, req[r].reply, req[r].token, req[r].expires)
<1>4. Carries(new, req[r].reply, req[r].token, req[r].expires)
  BY <1>1, WithCacheCarries
<1>5. Answer(r, new)
  BY DEF UpdateSession
<1> HIDE DEF new
<1>6. req'[r].reply = new
  BY <1>5, AnswerEffect
<1> QED
  BY <1>1, <1>2, <1>3, <1>4, <1>5, <1>6

LEMMA NewSessionEffect ==
    ASSUME NEW r \in Requests, TypeOK, StageInv, CacheNewSession(r)
    PROVE  /\ req[r].token \in Tokens /\ UNCHANGED <<rows, Server>> /\ req[r].pc = "lookup"
           /\ Answer(r, req'[r].reply)
           /\ Carries(req'[r].reply, req[r].reply, req[r].token, req[r].expires)
<1>1. /\ req[r].token \in Tokens /\ req[r].expires \in Time /\ req[r].reply \in Reply
      /\ UNCHANGED <<rows, Server>> /\ req[r].pc = "lookup"
  BY DEF CacheNewSession, StageInv, TypeOK, Request
<1> DEFINE new == WithCache(r, req[r].reply, req[r].token, req[r].expires)
<1>2. Carries(new, req[r].reply, req[r].token, req[r].expires)
  BY <1>1, WithCacheCarries
<1>3. Answer(r, new)
  BY DEF CacheNewSession
<1> HIDE DEF new
<1> QED
  BY <1>1, <1>2, <1>3, AnswerEffect

LEMMA CreateEffect ==
    ASSUME NEW r \in Requests, NEW t \in Tokens, TypeOK, IssuedInv, CreateSession(r, t)
    PROVE  /\ req[r].pc = "arrive" /\ latest[t] = 0 /\ t \notin remember /\ rows[t] = None
           /\ \A q \in Requests \ {r} : req'[q] = req[q]
           /\ req'[r].pc = "lookup" /\ req'[r].token = t
           /\ req'[r].kind = req[r].kind /\ req'[r].client = req[r].client /\ req'[r].stale = req[r].stale
           /\ req'[r].cookies = req[r].cookies /\ req'[r].revoked = req[r].revoked
           /\ req'[r].reply.token = t /\ req'[r].reply.dontRemember = Brief(r)
           /\ req'[r].reply.data = None /\ ~req'[r].reply.clear
           /\ \A c \in Clients : jar[c].token # t
           /\ \A q \in Requests : req[q].cookies.token # t /\ req[q].reply.token # t
           /\ remember' = IF Brief(r) THEN remember ELSE remember \cup {t}
           /\ UNCHANGED <<config, now, jar, plan, unwritten, mixed, held>>
           /\ rows'[t] = latest'[t] /\ latest'[t] # 0 /\ req'[r].expires = latest'[t]
           /\ \A u \in Tokens \ {t} : rows'[u] = rows[u] /\ latest'[u] = latest[u]
BY TimeFacts DEF CreateSession, CreateWith, IssuedInv, HeldIssued, JarIssued, TokenIssued, TypeOK, Request,
                  NoCookies

(* Copies stay issued while what was promised grows.                       *)
LEMMA GrowingPromise ==
    ASSUME TypeOK, TypeOK', NEW p \in Copy \cup {None}, CopyIssued(p),
           \A u \in Tokens : latest[u] # 0 => latest'[u] # 0,
           \A u \in Tokens : latest[u] <= latest'[u] /\ unwritten[u] <= unwritten'[u]
    PROVE  CopyIssued(p)'
<1>1. CASE p = None
  BY <1>1 DEF CopyIssued
<1>2. CASE p # None
  <2>1. p.token \in Tokens /\ p.expires \in Int
    BY <1>2, TimeFacts DEF Copy
  <2> DEFINE u == p.token
  <2>2. /\ latest[u] \in Int /\ unwritten[u] \in Int /\ latest'[u] \in Int /\ unwritten'[u] \in Int
        /\ latest[u] <= latest'[u] /\ unwritten[u] <= unwritten'[u]
    BY <2>1, TimeFacts DEF TypeOK
  <2>3. latest[u] # 0 /\ p.expires <= Promised(u)
    BY <1>2 DEF CopyIssued
  <2>4. Promised(u)' = Later(latest'[u], unwritten'[u])
    BY DEF Promised, Later
  <2>5. p.expires <= Promised(u)'
    BY <2>1, <2>2, <2>3, <2>4 DEF Promised, Later
  <2> QED
    BY <2>1, <2>3, <2>5 DEF CopyIssued
<1> QED
  BY <1>1, <1>2

(* A refresh, whether its write met the row or not, leaves all issued: it   *)
(* raises what was promised, and the expiry of a session to remember only.  *)
LEMMA RefreshIssued ==
    ASSUME NEW r \in Requests, TypeOK, TypeOK', StageInv, IssuedInv,
           req[r].pc = "extend", ServeRefreshed(r), UNCHANGED <<jar, remember>>,
           \A u \in Tokens : latest[u] <= latest'[u] /\ unwritten[u] <= unwritten'[u],
           \A u \in Tokens : u \notin remember => latest'[u] = latest[u] /\ rows'[u] = rows[u],
           \A u \in Tokens : rows'[u] # None => rows[u] # None /\ rows'[u] <= latest'[u],
           req[r].expires <= Later(latest'[req[r].cookies.token], unwritten'[req[r].cookies.token])
    PROVE  IssuedInv'
<1>1. \A u \in Tokens : latest[u] # 0 => latest'[u] # 0
  <2> TAKE u \in Tokens
  <2>1. latest[u] \in Nat /\ latest'[u] \in Nat /\ latest[u] <= latest'[u]
    BY DEF TypeOK, Time
  <2> QED
    BY <2>1
<1>2. \A u : TokenIssued(u) => TokenIssued(u)'
  BY <1>1 DEF TokenIssued
<1>3. \A p \in Copy \cup {None} : CopyIssued(p) => CopyIssued(p)'
  BY <1>1, GrowingPromise
<1>4. \A t \in Tokens : rows'[t] # None =>
         latest'[t] # 0 /\ rows'[t] <= latest'[t] /\ (t \notin remember' => rows'[t] = latest'[t])
  BY <1>1 DEF IssuedInv, HeldIssued, JarIssued
<1>5. \A t \in remember' : latest'[t] # 0
  BY <1>1 DEF IssuedInv, HeldIssued, JarIssued, TypeOK
<1>6. ASSUME NEW c \in Clients PROVE TokenIssued(jar[c].token)' /\ CopyIssued(jar[c].data)'
  <2>1. jar'[c] = jar[c] /\ jar[c].data \in Copy \cup {None}
    BY DEF TypeOK, Jar
  <2>2. TokenIssued(jar[c].token) /\ CopyIssued(jar[c].data)
    BY DEF IssuedInv, HeldIssued, JarIssued
  <2>3. TokenIssued(jar[c].token)'
    BY <1>2, <2>1, <2>2 DEF TokenIssued
  <2>4. CopyIssued(jar[c].data)'
    BY <1>3, <2>1, <2>2 DEF CopyIssued
  <2> QED
    BY <2>3, <2>4
<1>7. ASSUME NEW q \in Requests \ {r}
      PROVE  /\ TokenIssued(req[q].cookies.token)' /\ CopyIssued(req[q].cookies.data)'
             /\ TokenIssued(req[q].reply.token)' /\ CopyIssued(req[q].reply.data)'
             /\ TokenIssued(req[q].token)'
             /\ (req'[q].pc \in {"lookup", "store"}) => req'[q].expires <= latest'[req'[q].token]
             /\ (req'[q].pc = "store" /\ req'[q].token \notin remember')
                   => req'[q].expires = latest'[req'[q].token]
  <2>1. /\ req'[q] = req[q] /\ req[q].expires \in Time
        /\ req[q].cookies.data \in Copy \cup {None} /\ req[q].reply.data \in Copy \cup {None}
    BY RefreshServed DEF TypeOK, Request, Jar, Reply
  <2>2. /\ TokenIssued(req[q].cookies.token) /\ CopyIssued(req[q].cookies.data)
        /\ TokenIssued(req[q].reply.token) /\ CopyIssued(req[q].reply.data) /\ TokenIssued(req[q].token)
        /\ req[q].pc \in {"lookup", "store"}
              => req[q].expires <= latest[req[q].token] /\ req[q].token \in Tokens
        /\ (req[q].pc = "store" /\ req[q].token \notin remember) => req[q].expires = latest[req[q].token]
    BY DEF IssuedInv, HeldIssued, JarIssued, StageInv
  <2>3. ASSUME req[q].pc \in {"lookup", "store"} PROVE req[q].expires <= latest'[req[q].token]
    <3>1. /\ req[q].expires \in Int /\ latest[req[q].token] \in Int /\ latest'[req[q].token] \in Int
          /\ latest[req[q].token] <= latest'[req[q].token] /\ req[q].expires <= latest[req[q].token]
      BY <2>1, <2>2, <2>3, TimeFacts DEF TypeOK
    <3> QED
      BY <3>1
  <2>4. CopyIssued(req[q].cookies.data)' /\ CopyIssued(req[q].reply.data)'
    BY <1>3, <2>1, <2>2 DEF CopyIssued
  <2>5. /\ TokenIssued(req[q].cookies.token)' /\ TokenIssued(req[q].reply.token)'
        /\ TokenIssued(req[q].token)'
    BY <1>2, <2>1, <2>2 DEF TokenIssued
  <2> QED
    BY <2>1, <2>2, <2>3, <2>4, <2>5
<1>8. /\ TokenIssued(req[r].cookies.token)' /\ CopyIssued(req[r].cookies.data)'
      /\ TokenIssued(req[r].reply.token)' /\ CopyIssued(req[r].reply.data)'
      /\ TokenIssued(req[r].token)' /\ req'[r].pc = "serve"
  <2>1. /\ TokenIssued(req[r].cookies.token) /\ CopyIssued(req[r].cookies.data)
        /\ CopyIssued(req[r].reply.data)
        /\ req[r].cookies.data \in Copy \cup {None} /\ req[r].reply.data \in Copy \cup {None}
    BY DEF IssuedInv, HeldIssued, JarIssued, TypeOK, Request, Jar, Reply
  <2>2. /\ req'[r].pc = "serve" /\ req'[r].token = req[r].cookies.token /\ req[r].cookies.token \in Tokens
        /\ req'[r].cookies = req[r].cookies /\ req'[r].reply.token = req[r].cookies.token
    BY RefreshServed
  <2>3. TokenIssued(req[r].cookies.token)'
    BY <1>2, <2>1, <2>2 DEF TokenIssued
  <2>4. CopyIssued(req[r].cookies.data)'
    BY <1>3, <2>1, <2>2 DEF CopyIssued
  <2>5. CopyIssued(req[r].reply.data)'
    <3>1. CASE req'[r].reply.data = req[r].reply.data
      BY <1>3, <2>1, <3>1 DEF CopyIssued
    <3>2. CASE req'[r].reply.data # req[r].reply.data
      <4>1. req'[r].reply.data.token = req[r].cookies.token /\ req'[r].reply.data.expires = req[r].expires
        BY <3>2, RefreshServed
      <4>2. latest'[req[r].cookies.token] # 0
        BY <1>1, <2>1, <2>2 DEF TokenIssued
      <4> QED
        BY <4>1, <4>2 DEF CopyIssued, Promised, Later
    <3> QED
      BY <3>1, <3>2
  <2>6. TokenIssued(req[r].reply.token)' /\ TokenIssued(req[r].token)'
    BY <2>2, <2>3 DEF TokenIssued
  <2> QED
    BY <2>2, <2>3, <2>4, <2>5, <2>6
<1> QED
  BY <1>4, <1>5, <1>6, <1>7, <1>8 DEF IssuedInv, HeldIssued, JarIssued

(* Steps that issue nothing and extend nothing.                            *)
LEMMA KeepIssued ==
    ASSUME IssuedInv, UNCHANGED <<latest, unwritten, remember>>,
           \A u \in Tokens : rows'[u] \in {rows[u], None},
           \A c \in Clients : JarIssued(jar'[c]),
           \A q \in Requests : HeldIssued(req'[q])
    PROVE  IssuedInv'
<1>1. \A u : Promised(u)' = Promised(u)
  BY SamePromise
<1>2. \A c \in Clients : JarIssued(jar[c])'
  BY <1>1 DEF JarIssued, TokenIssued, CopyIssued
<1>3. \A q \in Requests : HeldIssued(req[q])'
  BY <1>1 DEF HeldIssued, JarIssued, TokenIssued, CopyIssued
<1>4. /\ \A t \in Tokens : rows'[t] # None =>
         latest'[t] # 0 /\ rows'[t] <= latest'[t] /\ (t \notin remember' => rows'[t] = latest'[t])
      /\ \A t \in remember' : latest'[t] # 0
  BY DEF IssuedInv, HeldIssued, JarIssued
<1> QED
  BY <1>2, <1>3, <1>4 DEF IssuedInv, HeldIssued, JarIssued

(* ... of the request r alone.                                             *)
LEMMA OneIssued ==
    ASSUME NEW r \in Requests, IssuedInv, UNCHANGED <<jar, latest, unwritten, remember>>,
           \A u \in Tokens : rows'[u] \in {rows[u], None},
           \A q \in Requests \ {r} : req'[q] = req[q],
           HeldIssued(req'[r])
    PROVE  IssuedInv'
<1>1. \A q \in Requests : HeldIssued(req'[q])
  BY DEF IssuedInv, HeldIssued, JarIssued
<1>2. \A c \in Clients : JarIssued(jar'[c])
  BY DEF IssuedInv, HeldIssued, JarIssued
<1> QED
  BY <1>1, <1>2, KeepIssued

LEMMA NothingIssued ==
    JarIssued(EmptyJar) /\ JarIssued(NoCookies) /\ JarIssued(Cleared) /\ TokenIssued(None)
    /\ HeldIssued(Idle)
BY DEF JarIssued, HeldIssued, TokenIssued, CopyIssued, EmptyJar, NoCookies, Cleared, Idle

LEMMA AnswerIssued ==
    ASSUME NEW r \in Requests, TypeOK, IssuedInv, NEW reply, Answer(r, reply), JarIssued(reply),
           UNCHANGED <<jar, latest, unwritten, remember>>,
           \A u \in Tokens : rows'[u] \in {rows[u], None}
    PROVE  IssuedInv'
<1>1. HeldIssued(req'[r])
  BY AnswerEffect, NothingIssued DEF HeldIssued
<1> QED
  BY <1>1, AnswerEffect, OneIssued

(* A copy that carries an expiry the session had is issued.                *)
LEMMA CarriesIssued ==
    ASSUME TypeOK, NEW new, NEW old, NEW t \in Tokens, NEW e \in Time, Carries(new, old, t, e),
           JarIssued(old), latest[t] # 0, e <= Promised(t)
    PROVE  JarIssued(new)
BY DEF JarIssued, Carries, TokenIssued, CopyIssued

LEMMA LateIssued ==
    ASSUME TypeOK, NEW t \in Tokens, NEW e \in Time, e <= latest[t]
    PROVE  e <= Promised(t)
<1>1. e \in Int /\ latest[t] \in Int /\ Promised(t) \in Int /\ latest[t] <= Promised(t)
  BY PromisedFacts, TimeFacts
<1> QED
  BY <1>1

LEMMA IssuedStep == TypeOK /\ TypeOK' /\ StageInv /\ BriefInv /\ IssuedInv /\ [Next]_vars => IssuedInv'
<1> SUFFICES ASSUME TypeOK, TypeOK', StageInv, BriefInv, IssuedInv, [Next]_vars PROVE IssuedInv'
  OBVIOUS
<1> USE DEF ghosts, Server
<1>0. /\ \A q \in Requests : HeldIssued(req[q]) /\ JarIssued(req[q].cookies) /\ JarIssued(req[q].reply)
      /\ \A c \in Clients : JarIssued(jar[c])
  BY DEF IssuedInv, HeldIssued
<1>1. CASE UNCHANGED vars
  BY <1>0, <1>1, KeepIssued DEF vars
<1>2. ASSUME NEW r \in Requests, NEW c \in Clients, NEW k \in Kinds, NEW o \in Options(k), Send(r, c, k, o)
      PROVE  IssuedInv'
  <2>1. JarIssued(Sent(c))
    BY <1>0 DEF JarIssued, Sent, TypeOK, Jar, CopyIssued
  <2>2. /\ req'[r].cookies = Sent(c) /\ req'[r].reply = NoCookies /\ req'[r].token = None
        /\ req'[r].pc = "arrive" /\ \A q \in Requests \ {r} : req'[q] = req[q]
    BY <1>2 DEF Send, Idle, TypeOK
  <2>3. HeldIssued(req'[r])
    BY <2>1, <2>2, NothingIssued DEF HeldIssued
  <2> QED
    BY <1>2, <2>2, <2>3, OneIssued DEF Send
<1>3. ASSUME NEW r \in Requests, Receive(r) PROVE IssuedInv'
  <2> DEFINE c == req[r].client
  <2>1. c \in Clients /\ jar[c] \in Jar /\ req[r].reply \in Reply
    BY DEF TypeOK, Request
  <2>2. \A d \in Clients : jar'[d] = IF d = c THEN Apply(jar[c], req[r].reply) ELSE jar[d]
    BY <1>3, <2>1 DEF Receive, TypeOK
  <2>3. /\ Apply(jar[c], req[r].reply).token \in {None, jar[c].token, req[r].reply.token}
        /\ Apply(jar[c], req[r].reply).data \in {None, jar[c].data, req[r].reply.data}
    BY <2>1 DEF Apply, SetToken, SetData, Jar, Reply, EmptyJar
  <2>4. JarIssued(Apply(jar[c], req[r].reply))
    BY <1>0, <2>1, <2>3, NothingIssued DEF JarIssued, CopyIssued
  <2>5. \A d \in Clients : JarIssued(jar'[d])
    BY <1>0, <2>2, <2>4
  <2>6. ASSUME NEW q \in Requests PROVE HeldIssued(req'[q])
    <3>1. req[q] \in Request /\ req'[q] \in {Idle, req[q], [req[q] EXCEPT !.stale = TRUE]}
      BY <1>3 DEF Receive, TypeOK
    <3>2. HeldIssued([req[q] EXCEPT !.stale = TRUE])
      BY <1>0, <3>1 DEF HeldIssued, Request
    <3> QED
      BY <1>0, <3>1, <3>2, NothingIssued
  <2> QED
    BY <1>3, <2>5, <2>6, KeepIssued DEF Receive
<1>4. ASSUME NEW r \in Requests, Lose(r) PROVE IssuedInv'
  BY <1>0, <1>4, OneIssued, NothingIssued DEF Lose, TypeOK
<1>5. ASSUME NEW c \in Clients, Close(c) PROVE IssuedInv'
  <2>1. jar'[c].token \in {None, jar[c].token} /\ jar'[c].data \in {None, jar[c].data}
    BY <1>5 DEF Close, EmptyJar, TypeOK
  <2>2. (\A d \in Clients \ {c} : jar'[d] = jar[d]) /\ UNCHANGED <<req, rows, latest, unwritten, remember>>
    BY <1>5 DEF Close, TypeOK
  <2>3. JarIssued(jar'[c])
    BY <1>0, <2>1, NothingIssued DEF JarIssued, CopyIssued
  <2> QED
    BY <1>0, <2>2, <2>3, KeepIssued
<1>6. CASE Tick
  BY <1>0, <1>6, KeepIssued DEF Tick
<1>7. ASSUME NEW r \in Requests, Resolve(r) PROVE IssuedInv'
  <2> DEFINE t == req[r].cookies.token
  <2>1. CASE CacheHit(r)
    <3> DEFINE copy == req[r].cookies.data
    <3>1. /\ copy \in Copy /\ copy # None /\ copy.token \in Tokens /\ copy.expires \in Time
          /\ req[r].reply \in Reply
      BY <2>1 DEF CacheHit, CacheHitWith, Cached, Jar, Copy, Request, TypeOK
    <3>2. Serve(r, req[r].reply, copy.token, copy.expires) /\ UNCHANGED <<rows, Server>>
      BY <2>1 DEF CacheHit, CacheHitWith
    <3>3. latest[copy.token] # 0 /\ copy.expires <= Promised(copy.token)
      BY <1>0, <3>1 DEF JarIssued, CopyIssued
    <3> HIDE DEF copy
    <3>4. /\ \A q \in Requests \ {r} : req'[q] = req[q]
          /\ req'[r].pc = "serve" /\ req'[r].token = copy.token /\ req'[r].cookies = req[r].cookies
          /\ Carries(req'[r].reply, req[r].reply, copy.token, copy.expires)
      BY <3>1, <3>2, ServeEffect
    <3>5. JarIssued(req'[r].reply)
      BY <1>0, <3>1, <3>3, <3>4, CarriesIssued
    <3>6. HeldIssued(req'[r])
      BY <1>0, <3>3, <3>4, <3>5 DEF HeldIssued, TokenIssued
    <3> QED
      BY <3>2, <3>4, <3>6, OneIssued
  <2>2. CASE CacheMiss(r)
    <3>1. /\ \A q \in Requests \ {r} : req'[q] = req[q]
          /\ req'[r].pc = "find" /\ req'[r].reply \in {Cleared, req[r].reply}
          /\ req'[r].cookies = req[r].cookies /\ req'[r].token = req[r].token
      BY <2>2 DEF CacheMiss, Dropped, TypeOK, Request
    <3>2. HeldIssued(req'[r])
      BY <1>0, <3>1, NothingIssued DEF HeldIssued
    <3> QED
      BY <2>2, <3>1, <3>2, OneIssued DEF CacheMiss
  <2>3. CASE NotFound(r)
    BY <1>0, <2>3, AnswerIssued DEF NotFound
  <2>4. CASE FoundExpired(r)
    <3>1. /\ \A q \in Requests \ {r} : req'[q] = req[q]
          /\ req'[r].pc \in {"reply", "drop"} /\ req'[r].reply = Cleared
          /\ req'[r].cookies = req[r].cookies /\ req'[r].token = req[r].token
      BY <2>4 DEF FoundExpired, TypeOK, Request
    <3>2. HeldIssued(req'[r])
      BY <1>0, <3>1, NothingIssued DEF HeldIssued
    <3> QED
      BY <2>4, <3>1, <3>2, OneIssued DEF FoundExpired
  <2>5. CASE DropExpired(r)
    <3>1. /\ \A q \in Requests \ {r} : req'[q] = req[q]
          /\ req'[r].pc = "reply" /\ req'[r].reply = req[r].reply
          /\ req'[r].cookies = req[r].cookies /\ req'[r].token = req[r].token
      BY <2>5 DEF DropExpired, Goto, TypeOK, Request
    <3>2. HeldIssued(req'[r])
      BY <1>0, <3>1 DEF HeldIssued
    <3>3. \A u \in Tokens : rows'[u] \in {rows[u], None}
      BY <2>5 DEF DropExpired, Without, TypeOK
    <3> QED
      BY <2>5, <3>1, <3>2, <3>3, OneIssued DEF DropExpired
  <2>6. CASE FoundLive(r)
    <3>1. /\ t \in Tokens /\ rows[t] \in Time /\ latest[t] # 0 /\ rows[t] <= latest[t]
          /\ UNCHANGED <<rows, Server>> /\ req'[r].cookies = req[r].cookies
          /\ \A q \in Requests \ {r} : req'[q] = req[q]
      BY <2>6, LiveEffect DEF IssuedInv, HeldIssued, JarIssued
    <3>2. rows[t] <= Promised(t)
      BY <3>1, LateIssued
    <3>3. CASE req'[r].pc = "serve" /\ req'[r].token = t /\ Carries(req'[r].reply, req[r].reply, t, rows[t])
      <4>1. JarIssued(req'[r].reply)
        BY <1>0, <3>1, <3>2, <3>3, CarriesIssued
      <4>2. HeldIssued(req'[r])
        BY <1>0, <3>1, <3>3, <4>1 DEF HeldIssued, TokenIssued
      <4> QED
        BY <3>1, <4>2, OneIssued
    <3>4. CASE req'[r].pc = "refresh" /\ req'[r].token = req[r].token /\ req'[r].reply = req[r].reply
      <4>1. HeldIssued(req'[r])
        BY <1>0, <3>1, <3>4 DEF HeldIssued
      <4> QED
        BY <3>1, <4>1, OneIssued
    <3> QED
      BY <2>6, <3>3, <3>4, LiveEffect
  <2>7. CASE RefreshSession(r)
    <3>1. /\ t \in Tokens /\ req[r].expires \in Time /\ req[r].expires <= latest'[t]
          /\ UNCHANGED <<jar, remember, unwritten>> /\ req[r].pc = "extend" /\ ServeRefreshed(r)
          /\ t \in remember /\ rows[t] # None /\ rows'[t] = req[r].expires
          /\ \A u \in Tokens \ {t} : rows'[u] = rows[u] /\ latest'[u] = latest[u]
          /\ \A u \in Tokens : latest[u] \in Nat /\ latest'[u] \in Nat /\ latest[u] <= latest'[u]
      BY <2>7, RefreshEffect
    <3>2. /\ \A u \in Tokens : unwritten[u] \in Time /\ unwritten'[u] \in Time /\ latest'[u] \in Time
          /\ \A u \in Tokens : unwritten[u] <= unwritten'[u]
      BY <3>1, TimeFacts DEF TypeOK, Time
    <3>3. req[r].expires <= Later(latest'[t], unwritten'[t])
      <4>1. /\ latest'[t] \in Int /\ unwritten'[t] \in Int /\ req[r].expires \in Int
        BY <3>1, <3>2, TimeFacts
      <4> QED
        BY <3>1, <4>1 DEF Later
    <3>4. \A u \in Tokens : rows'[u] # None => rows[u] # None /\ rows'[u] <= latest'[u]
      BY <3>1 DEF IssuedInv, HeldIssued, JarIssued
    <3> QED
      BY <3>1, <3>2, <3>3, <3>4, RefreshIssued
  <2>9. CASE RefreshFound(r)
    <3>1. /\ \A q \in Requests \ {r} : req'[q] = req[q]
          /\ req'[r].pc = "extend" /\ req'[r].reply = req[r].reply
          /\ req'[r].cookies = req[r].cookies /\ req'[r].token = req[r].token
      BY <2>9 DEF RefreshFound, TypeOK, Request
    <3>2. HeldIssued(req'[r])
      BY <1>0, <3>1 DEF HeldIssued
    <3> QED
      BY <2>9, <3>1, <3>2, OneIssued DEF RefreshFound
  <2>10. CASE RefreshGone(r)
    <3>1. /\ t \in Tokens /\ req[r].expires \in Time /\ req[r].expires <= unwritten'[t]
          /\ UNCHANGED <<jar, remember, rows, latest>> /\ req[r].pc = "extend" /\ ServeRefreshed(r)
          /\ unwritten[t] <= unwritten'[t] /\ \A u \in Tokens \ {t} : unwritten'[u] = unwritten[u]
      BY <2>10, GoneEffect
    <3>2. /\ \A u \in Tokens : latest[u] \in Time /\ unwritten[u] \in Time /\ unwritten'[u] \in Time
      BY DEF TypeOK
    <3>3. \A u \in Tokens : latest[u] <= latest'[u] /\ unwritten[u] <= unwritten'[u]
      BY <3>1, <3>2, TimeFacts DEF Time
    <3>4. req[r].expires <= Later(latest'[t], unwritten'[t])
      <4>1. /\ latest'[t] \in Int /\ unwritten'[t] \in Int /\ req[r].expires \in Int
        BY <3>1, <3>2, TimeFacts
      <4> QED
        BY <3>1, <4>1 DEF Later
    <3>5. \A u \in Tokens : rows'[u] # None => rows[u] # None /\ rows'[u] <= latest'[u]
      BY <3>1 DEF IssuedInv, HeldIssued, JarIssued
    <3> QED
      BY <3>1, <3>3, <3>4, <3>5, RefreshIssued
  <2>8. CASE RefreshFails(r)
    BY <2>8, AnswerIssued, NothingIssued DEF RefreshFails
  <2> QED
    BY <1>7, <2>1, <2>2, <2>3, <2>4, <2>5, <2>6, <2>7, <2>8, <2>9, <2>10 DEF Resolve
<1>8. ASSUME NEW r \in Requests, Handle(r) PROVE IssuedInv'
  <2>1. CASE JustAnswer(r)
    BY <1>0, <2>1, AnswerIssued DEF JustAnswer
  <2>2. CASE UpdateSession(r)
    <3> DEFINE t == req[r].token
    <3>1. /\ t \in Tokens /\ req[r].expires \in Time /\ UNCHANGED Server
          /\ req[r].expires <= latest[t] /\ latest[t] # 0
          /\ Answer(r, req'[r].reply) /\ Carries(req'[r].reply, req[r].reply, t, req[r].expires)
      BY <2>2, UpdateEffect
    <3>2. JarIssued(req'[r].reply)
      BY <1>0, <3>1, LateIssued, CarriesIssued
    <3>3. HeldIssued(req'[r]) /\ \A q \in Requests \ {r} : req'[q] = req[q]
      BY <3>1, <3>2, AnswerEffect, NothingIssued DEF HeldIssued
    <3>4. \A q \in Requests : HeldIssued(req'[q])
      BY <1>0, <3>3
    <3>5. \A u : Promised(u)' = Promised(u)
      BY <3>1, SamePromise
    <3>6. \A q \in Requests : HeldIssued(req[q])'
      BY <3>1, <3>4, <3>5 DEF HeldIssued, JarIssued, TokenIssued, CopyIssued
    <3>7. \A c \in Clients : JarIssued(jar[c])'
      BY <1>0, <3>1, <3>5 DEF JarIssued, TokenIssued, CopyIssued
    <3>8. \A u \in Tokens : rows'[u] # None =>
         latest'[u] # 0 /\ rows'[u] <= latest'[u] /\ (u \notin remember' => rows'[u] = latest'[u])
      BY <2>2, <3>1, UpdateEffect DEF IssuedInv, HeldIssued, JarIssued
    <3>9. \A u \in remember' : latest'[u] # 0
      BY <3>1 DEF IssuedInv, HeldIssued, JarIssued
    <3> QED
      BY <3>6, <3>7, <3>8, <3>9 DEF IssuedInv, HeldIssued, JarIssued
  <2>11. CASE UpdateFound(r)
    <3>1. /\ \A q \in Requests \ {r} : req'[q] = req[q]
          /\ req'[r].pc = "store" /\ req'[r].reply = req[r].reply /\ req'[r].expires = rows[req[r].token]
          /\ req'[r].cookies = req[r].cookies /\ req'[r].token = req[r].token
          /\ req[r].token \in Tokens /\ rows[req[r].token] # None
      BY <2>11 DEF UpdateFound, StageInv, TypeOK, Request
    <3>2. HeldIssued(req'[r])
      BY <1>0, <3>1 DEF HeldIssued, IssuedInv
    <3> QED
      BY <2>11, <3>1, <3>2, OneIssued DEF UpdateFound
  <2>3. CASE DeleteTarget(r)
    <3>1. \A u \in Tokens : rows'[u] \in {rows[u], None}
      BY <2>3 DEF DeleteTarget, Without, TypeOK
    <3> QED
      BY <1>0, <2>3, <3>1, AnswerIssued DEF DeleteTarget
  <2>4. CASE RevokeAll(r)
    BY <2>4, AnswerIssued, NothingIssued DEF RevokeAll
  <2>5. CASE RevokeOthers(r)
    BY <1>0, <2>5, AnswerIssued DEF RevokeOthers
  <2>6. CASE SignOut(r)
    <3>1. \A u \in Tokens : rows'[u] \in {rows[u], None}
      BY <2>6 DEF SignOut, Without, TypeOK
    <3> QED
      BY <2>6, <3>1, AnswerIssued, NothingIssued DEF SignOut
  <2>7. CASE CacheNewSession(r)
    <3> DEFINE t == req[r].token
    <3>1. /\ t \in Tokens /\ req[r].expires \in Time /\ UNCHANGED <<rows, Server>> /\ req[r].pc = "lookup"
          /\ Answer(r, req'[r].reply) /\ Carries(req'[r].reply, req[r].reply, t, req[r].expires)
      BY <2>7, NewSessionEffect DEF TypeOK, Request
    <3>2. req[r].expires <= latest[t] /\ latest[t] # 0
      BY <1>0, <3>1 DEF HeldIssued, TokenIssued
    <3>3. JarIssued(req'[r].reply)
      BY <1>0, <3>1, <3>2, LateIssued, CarriesIssued
    <3> QED
      BY <3>1, <3>3, AnswerIssued
  <2>8. CASE CacheNewSessionFails(r)
    BY <1>0, <2>8, AnswerIssued DEF CacheNewSessionFails
  <2>9. ASSUME NEW t \in Tokens, FindTarget(r, t) PROVE IssuedInv'
    <3>1. /\ \A q \in Requests \ {r} : req'[q] = req[q]
          /\ req'[r].pc = "delete" /\ req'[r].reply = req[r].reply
          /\ req'[r].cookies = req[r].cookies /\ req'[r].token = t
      BY <2>9 DEF FindTarget, TypeOK, Request
    <3>2. latest[t] # 0
      BY <2>9 DEF FindTarget, IssuedInv, HeldIssued, JarIssued
    <3>3. HeldIssued(req'[r])
      BY <1>0, <3>1, <3>2 DEF HeldIssued, TokenIssued
    <3> QED
      BY <2>9, <3>1, <3>3, OneIssued DEF FindTarget
  <2>10. ASSUME NEW t \in Tokens, CreateSession(r, t) PROVE IssuedInv'
    <3>1. /\ \A q \in Requests \ {r} : req'[q] = req[q]
          /\ req'[r].pc = "lookup" /\ req'[r].token = t /\ req'[r].cookies = req[r].cookies
          /\ req'[r].reply.token = t /\ req'[r].reply.data = None /\ req'[r].expires = latest'[t]
          /\ UNCHANGED <<jar, unwritten>> /\ rows'[t] = latest'[t] /\ latest'[t] # 0 /\ latest[t] = 0
          /\ \A u \in Tokens \ {t} : rows'[u] = rows[u] /\ latest'[u] = latest[u]
          /\ remember' = IF Brief(r) THEN remember ELSE remember \cup {t}
      BY <2>10, CreateEffect
    <3>2. \A u : u # t => Promised(u)' = Promised(u) \/ u \notin Tokens
      BY <3>1 DEF Promised, Later
    <3>3. ASSUME NEW u, TokenIssued(u) PROVE TokenIssued(u)' /\ (u \in Tokens => u # t)
      BY <3>1, <3>3 DEF TokenIssued
    <3>4. ASSUME NEW p \in Copy \cup {None}, CopyIssued(p) PROVE CopyIssued(p)'
      BY <3>1, <3>2, <3>4 DEF CopyIssued, Copy
    <3>5. ASSUME NEW c \in Clients PROVE JarIssued(jar[c])'
      <4>1. /\ jar'[c] = jar[c] /\ jar[c].data \in Copy \cup {None}
            /\ TokenIssued(jar[c].token) /\ CopyIssued(jar[c].data)
        BY <1>0, <3>1 DEF TypeOK, Jar, JarIssued
      <4>2. TokenIssued(jar[c].token)'
        BY <3>3, <4>1 DEF TokenIssued
      <4>3. CopyIssued(jar[c].data)'
        BY <3>4, <4>1 DEF CopyIssued
      <4> QED
        BY <4>2, <4>3 DEF JarIssued
    <3>6. ASSUME NEW q \in Requests \ {r} PROVE HeldIssued(req[q])'
      <4>1. /\ req'[q] = req[q]
            /\ req[q].cookies.data \in Copy \cup {None} /\ req[q].reply.data \in Copy \cup {None}
            /\ TokenIssued(req[q].cookies.token) /\ CopyIssued(req[q].cookies.data)
            /\ TokenIssued(req[q].reply.token) /\ CopyIssued(req[q].reply.data) /\ TokenIssued(req[q].token)
        BY <1>0, <3>1 DEF TypeOK, Request, Jar, Reply, HeldIssued, JarIssued
      <4>2. TokenIssued(req[q].cookies.token)' /\ TokenIssued(req[q].reply.token)' /\ TokenIssued(req[q].token)'
        BY <3>3, <4>1 DEF TokenIssued
      <4>3. CopyIssued(req[q].cookies.data)' /\ CopyIssued(req[q].reply.data)'
        BY <3>4, <4>1 DEF CopyIssued
      <4>4. req[q].pc \in {"lookup", "store"} => req[q].token \in Tokens /\ req[q].token # t
        BY <3>3, <4>1 DEF StageInv
      <4>5. /\ req[q].pc \in {"lookup", "store"} => req[q].expires <= latest[req[q].token]
            /\ req[q].pc = "store" /\ req[q].token \notin remember => req[q].expires = latest[req[q].token]
        BY <1>0 DEF HeldIssued
      <4> QED
        BY <3>1, <4>1, <4>2, <4>3, <4>4, <4>5 DEF HeldIssued, JarIssued
    <3>7. HeldIssued(req[r])'
      <4>1. /\ req[r].cookies.data \in Copy \cup {None}
            /\ TokenIssued(req[r].cookies.token) /\ CopyIssued(req[r].cookies.data)
        BY <1>0 DEF TypeOK, Request, Jar, JarIssued
      <4>2. TokenIssued(req[r].cookies.token)' /\ CopyIssued(req[r].cookies.data)'
        BY <3>1, <3>3, <3>4, <4>1 DEF TokenIssued, CopyIssued
      <4>3. JarIssued(req[r].reply)' /\ TokenIssued(req[r].token)'
        BY <3>1 DEF JarIssued, TokenIssued, CopyIssued
      <4>4. latest'[t] \in Int
        BY TimeFacts DEF TypeOK
      <4> QED
        BY <3>1, <4>2, <4>3, <4>4 DEF HeldIssued, JarIssued
    <3>8. \A u \in Tokens : rows'[u] # None =>
         latest'[u] # 0 /\ rows'[u] <= latest'[u] /\ (u \notin remember' => rows'[u] = latest'[u])
      <4>1. latest'[t] \in Int
        BY TimeFacts DEF TypeOK
      <4> QED
        BY <3>1, <4>1 DEF IssuedInv, HeldIssued, JarIssued
    <3>9. \A u \in remember' : latest'[u] # 0
      BY <3>1 DEF IssuedInv, HeldIssued, JarIssued, TypeOK
    <3> QED
      BY <3>5, <3>6, <3>7, <3>8, <3>9 DEF IssuedInv, HeldIssued, JarIssued
  <2> QED
    BY <1>8, <2>1, <2>2, <2>3, <2>4, <2>5, <2>6, <2>7, <2>8, <2>9, <2>10, <2>11 DEF Handle
<1> QED
  BY <1>1, <1>2, <1>3, <1>4, <1>5, <1>6, <1>7, <1>8 DEF Next, Browser

LEMMA ApplyBrief ==
    ASSUME NEW j \in Jar, NEW reply \in Reply,
           Short(j.token) => j.dontRemember /\ ~j.lasting,
           Short(reply.token) => reply.dontRemember
    PROVE  LET k == Apply(j, reply) IN Short(k.token) => k.dontRemember /\ ~k.lasting
<1> DEFINE base == IF reply.clear THEN EmptyJar ELSE j
           next == SetToken(base, reply)
           Fine(k) == Short(k.token) => k.dontRemember /\ ~k.lasting
<1>1. base \in Jar /\ Fine(base)
  BY DEF EmptyJar, Jar, Token, Short
<1> HIDE DEF base
<1>2. next \in Jar /\ Fine(next)
  BY <1>1 DEF SetToken, Jar, Reply
<1> HIDE DEF next
<1>3. LET k == SetData(next, reply) IN
      k.token = next.token /\ k.dontRemember = next.dontRemember /\ k.lasting = next.lasting
  BY <1>2 DEF SetData, Jar
<1> QED
  BY <1>2, <1>3 DEF Apply, base, next

LEMMA BriefStep == TypeOK /\ StageInv /\ IssuedInv /\ BriefInv /\ [Next]_vars => BriefInv'
<1> SUFFICES ASSUME TypeOK, StageInv, IssuedInv, BriefInv, [Next]_vars PROVE BriefInv'
  OBVIOUS
<1> USE DEF TypeOK, BriefInv, Short, Request, Idle, NoCookies, Cleared, EmptyJar, ghosts, Server
<1>1. CASE UNCHANGED vars
  BY <1>1 DEF vars
<1>2. ASSUME NEW r \in Requests, NEW c \in Clients, NEW k \in Kinds, NEW o \in Options(k), Send(r, c, k, o)
      PROVE  BriefInv'
  BY <1>2 DEF Send, Sent
<1>3. ASSUME NEW r \in Requests, Receive(r) PROVE BriefInv'
  <3> DEFINE c == req[r].client
  <3>1. c \in Clients /\ jar[c] \in Jar /\ req[r].reply \in Reply
    OBVIOUS
  <3>2. \A d \in Clients : jar'[d] = IF d = c THEN Apply(jar[c], req[r].reply) ELSE jar[d]
    BY <1>3, <3>1 DEF Receive
  <3>3. Apply(jar[c], req[r].reply).token \in {None, jar[c].token, req[r].reply.token}
    BY <3>1 DEF Apply, SetToken, SetData, Jar, Reply
  <3>4. LET j == Apply(jar[c], req[r].reply) IN
        Short(j.token) => j.dontRemember /\ ~j.lasting
    BY <3>1, ApplyBrief
  <3>5. \A q \in Requests : /\ req'[q].cookies \in {EmptyJar, req[q].cookies}
                            /\ req'[q].reply \in {NoCookies, req[q].reply}
                            /\ req'[q].token \in {None, req[q].token}
                            /\ req'[q].pc \in {"idle", req[q].pc} /\ req'[q].expires \in {0, req[q].expires}
                            /\ req'[q].pc = "lookup" =>
                                  req'[q] = req[q] \/ req'[q] = [req[q] EXCEPT !.stale = TRUE]
    BY <1>3 DEF Receive
  <3> QED
    BY <1>3, <3>2, <3>3, <3>4, <3>5 DEF Receive
<1>4. ASSUME NEW r \in Requests, Lose(r) PROVE BriefInv'
  BY <1>4 DEF Lose
<1>5. ASSUME NEW c \in Clients, Close(c) PROVE BriefInv'
  BY <1>5 DEF Close
<1>6. CASE Tick
  BY <1>6 DEF Tick
<1>7. ASSUME NEW r \in Requests, Resolve(r) PROVE BriefInv'
  <2>1. CASE CacheHit(r)
    BY <2>1 DEF CacheHit, CacheHitWith, Cached, Resolves, Serve, WithCache
  <2>2. CASE CacheMiss(r)
    BY <2>2 DEF CacheMiss, Dropped, Resolves
  <2>3. CASE NotFound(r)
    BY <2>3 DEF NotFound, Answer, Row
  <2>4. CASE FoundExpired(r)
    BY <2>4 DEF FoundExpired, Row, Expired
  <2>5. CASE DropExpired(r)
    BY <2>5 DEF DropExpired, Without, Goto
  <2>6. CASE FoundLive(r)
    BY <2>6, LiveEffect DEF Carries
  <2>7. CASE RefreshSession(r)
    BY <2>7, RefreshEffect, RefreshServed
  <2>9. CASE RefreshFound(r)
    BY <2>9 DEF RefreshFound
  <2>10. CASE RefreshGone(r)
    <3>1. ~Short(req[r].cookies.token)
      BY <2>10, GoneEffect DEF StageInv, MayRefresh
    <3> QED
      BY <2>10, <3>1, GoneEffect, RefreshServed
  <2>8. CASE RefreshFails(r)
    BY <2>8 DEF RefreshFails, Answer
  <2> QED
    BY <1>7, <2>1, <2>2, <2>3, <2>4, <2>5, <2>6, <2>7, <2>8, <2>9, <2>10 DEF Resolve
<1>8. ASSUME NEW r \in Requests, Handle(r) PROVE BriefInv'
  <2>1. CASE JustAnswer(r)
    BY <2>1 DEF JustAnswer, Answer
  <2>2. CASE UpdateSession(r)
    BY <2>2, UpdateEffect, AnswerEffect DEF Carries
  <2>11. CASE UpdateFound(r)
    BY <2>11 DEF UpdateFound
  <2>3. CASE DeleteTarget(r)
    BY <2>3 DEF DeleteTarget, Without, Answer
  <2>4. CASE RevokeAll(r)
    BY <2>4 DEF RevokeAll, Answer
  <2>5. CASE RevokeOthers(r)
    BY <2>5 DEF RevokeOthers, Answer
  <2>6. CASE SignOut(r)
    BY <2>6 DEF SignOut, Without, Answer
  <2>7. CASE CacheNewSession(r)
    <3>1. /\ UNCHANGED <<rows, Server>> /\ req'[r].reply.token = req[r].reply.token
          /\ req'[r].reply.dontRemember = req[r].reply.dontRemember
          /\ \A q \in Requests \ {r} : req'[q] = req[q]
          /\ req'[r].cookies = EmptyJar
      BY <2>7, NewSessionEffect, AnswerEffect DEF Carries
    <3> QED
      BY <3>1
  <2>8. CASE CacheNewSessionFails(r)
    BY <2>8 DEF CacheNewSessionFails, Answer
  <2>9. ASSUME NEW t \in Tokens, FindTarget(r, t) PROVE BriefInv'
    BY <2>9 DEF FindTarget
  <2>10. ASSUME NEW t \in Tokens, CreateSession(r, t) PROVE BriefInv'
    <3>1. /\ \A c \in Clients : jar[c].token # t /\ jar'[c] = jar[c]
          /\ \A q \in Requests \ {r} : req'[q] = req[q]
          /\ \A q \in Requests : req[q].cookies.token # t /\ req[q].reply.token # t
          /\ req'[r].cookies = req[r].cookies
          /\ req'[r].reply.token = t /\ req'[r].reply.dontRemember = Brief(r)
          /\ remember' = IF Brief(r) THEN remember ELSE remember \cup {t}
      BY <2>10, CreateEffect
    <3>2. \A u \in Tokens \ {t} : Short(u)' => Short(u)
      BY <3>1
    <3>3. \A c \in Clients : Short(jar[c].token)' => jar'[c].dontRemember /\ ~jar'[c].lasting
      BY <3>1, <3>2
    <3>4. \A q \in Requests \ {r} : /\ Short(req[q].cookies.token)' => req'[q].cookies.dontRemember
                                    /\ Short(req[q].reply.token)' => req'[q].reply.dontRemember
      BY <3>1, <3>2
    <3>5. /\ Short(req[r].cookies.token)' => req'[r].cookies.dontRemember
          /\ Short(req[r].reply.token)' => req'[r].reply.dontRemember
      BY <3>1, <3>2
    <3> QED
      BY <3>3, <3>4, <3>5
  <2> QED
    BY <1>8, <2>1, <2>2, <2>3, <2>4, <2>5, <2>6, <2>7, <2>8, <2>9, <2>10, <2>11 DEF Handle
<1> QED
  BY <1>1, <1>2, <1>3, <1>4, <1>5, <1>6, <1>7, <1>8 DEF Next, Browser

LEMMA RevokedStep == TypeOK /\ StageInv /\ BriefInv /\ IssuedInv /\ RevokedInv /\ [Next]_vars => RevokedInv'
<1> SUFFICES ASSUME TypeOK, StageInv, BriefInv, IssuedInv, RevokedInv, [Next]_vars PROVE RevokedInv'
  OBVIOUS
<1> USE DEF TypeOK, RevokedInv, Request, Idle, EmptyJar, ghosts, Server
<1>1. CASE UNCHANGED vars
  BY <1>1 DEF vars
<1>2. ASSUME NEW r \in Requests, NEW c \in Clients, NEW k \in Kinds, NEW o \in Options(k), Send(r, c, k, o)
      PROVE  RevokedInv'
  <3>1. jar[c].token \in Token /\ Sent(c).token = jar[c].token
    BY DEF Sent, Jar
  <3>2. /\ \A q \in Requests \ {r} : req'[q] = req[q]
        /\ req'[r].cookies = Sent(c) /\ (req'[r].revoked <=> jar[c].token # None /\ rows[jar[c].token] = None)
    BY <1>2 DEF Send
  <3> QED
    BY <1>2, <3>1, <3>2 DEF Send, Token
<1>3. ASSUME NEW r \in Requests, Receive(r) PROVE RevokedInv'
  BY <1>3 DEF Receive, Apply, SetToken, SetData, SignsIn
<1>4. ASSUME NEW r \in Requests, Lose(r) PROVE RevokedInv'
  BY <1>4 DEF Lose
<1>5. ASSUME NEW c \in Clients, Close(c) PROVE RevokedInv'
  BY <1>5 DEF Close
<1>6. CASE Tick
  BY <1>6 DEF Tick
<1>7. ASSUME NEW r \in Requests, Resolve(r) PROVE RevokedInv'
  <2>1. CASE CacheHit(r)
    BY <2>1 DEF CacheHit, CacheHitWith, Cached, Resolves, Serve, WithCache
  <2>2. CASE CacheMiss(r)
    BY <2>2 DEF CacheMiss, Dropped, Resolves
  <2>3. CASE NotFound(r)
    BY <2>3 DEF NotFound, Answer, Row
  <2>4. CASE FoundExpired(r)
    BY <2>4 DEF FoundExpired, Row, Expired
  <2>5. CASE DropExpired(r)
    BY <2>5 DEF DropExpired, Without, Goto
  <2>6. CASE FoundLive(r)
    BY <2>6, LiveEffect DEF Carries
  <2>7. CASE RefreshSession(r)
    BY <2>7, RefreshEffect, RefreshServed
  <2>9. CASE RefreshFound(r)
    BY <2>9 DEF RefreshFound
  <2>10. CASE RefreshGone(r)
    BY <2>10, GoneEffect, RefreshServed
  <2>8. CASE RefreshFails(r)
    BY <2>8 DEF RefreshFails, Answer
  <2> QED
    BY <1>7, <2>1, <2>2, <2>3, <2>4, <2>5, <2>6, <2>7, <2>8, <2>9, <2>10 DEF Resolve
<1>8. ASSUME NEW r \in Requests, Handle(r) PROVE RevokedInv'
  <2>1. CASE JustAnswer(r)
    BY <2>1 DEF JustAnswer, Answer
  <2>2. CASE UpdateSession(r)
    <3>1. (\A u \in Tokens : rows[u] = None => rows'[u] = None) /\ Answer(r, req'[r].reply)
      BY <2>2, UpdateEffect
    <3>2. (\A q \in Requests \ {r} : req'[q] = req[q]) /\ ~req'[r].revoked
      BY <3>1, AnswerEffect
    <3> QED
      BY <3>1, <3>2
  <2>11. CASE UpdateFound(r)
    BY <2>11 DEF UpdateFound
  <2>3. CASE DeleteTarget(r)
    BY <2>3 DEF DeleteTarget, Without, Answer
  <2>4. CASE RevokeAll(r)
    BY <2>4 DEF RevokeAll, Answer
  <2>5. CASE RevokeOthers(r)
    BY <2>5 DEF RevokeOthers, Answer
  <2>6. CASE SignOut(r)
    BY <2>6 DEF SignOut, Without, Answer
  <2>7. CASE CacheNewSession(r)
    <3>1. /\ UNCHANGED <<rows, Server>> /\ ~req'[r].revoked
          /\ \A q \in Requests \ {r} : req'[q] = req[q]
      BY <2>7, NewSessionEffect, AnswerEffect
    <3> QED
      BY <3>1
  <2>8. CASE CacheNewSessionFails(r)
    BY <2>8 DEF CacheNewSessionFails, Answer
  <2>9. ASSUME NEW t \in Tokens, FindTarget(r, t) PROVE RevokedInv'
    BY <2>9 DEF FindTarget
  <2>10. ASSUME NEW t \in Tokens, CreateSession(r, t) PROVE RevokedInv'
    <3>1. /\ rows[t] = None /\ \A q \in Requests : req[q].cookies.token # t
          /\ \A q \in Requests \ {r} : req'[q] = req[q]
          /\ req'[r].cookies = req[r].cookies /\ req'[r].revoked = req[r].revoked
          /\ \A u \in Tokens \ {t} : rows'[u] = rows[u]
      BY <2>10, CreateEffect
    <3> QED
      BY <3>1
  <2> QED
    BY <1>8, <2>1, <2>2, <2>3, <2>4, <2>5, <2>6, <2>7, <2>8, <2>9, <2>10, <2>11 DEF Handle
<1> QED
  BY <1>1, <1>2, <1>3, <1>4, <1>5, <1>6, <1>7, <1>8 DEF Next, Browser

LEMMA RowsStep == TypeOK /\ StageInv /\ IssuedInv /\ BriefInv /\ RevokedInv /\ [Next]_vars => RowsOnlyFall
<1> SUFFICES ASSUME TypeOK, StageInv, IssuedInv, BriefInv, RevokedInv, [Next]_vars PROVE RowsOnlyFall
  OBVIOUS
<1> USE DEF TypeOK, RowsOnlyFall, ghosts, Server
<1>1. CASE UNCHANGED vars
  BY <1>1 DEF vars
<1>2. ASSUME NEW r \in Requests, NEW c \in Clients, NEW k \in Kinds, NEW o \in Options(k), Send(r, c, k, o)
      PROVE  RowsOnlyFall
  BY <1>2 DEF Send, Sent
<1>3. ASSUME NEW r \in Requests, Receive(r) PROVE RowsOnlyFall
  BY <1>3 DEF Receive, Apply, SetToken, SetData, SignsIn
<1>4. ASSUME NEW r \in Requests, Lose(r) PROVE RowsOnlyFall
  BY <1>4 DEF Lose
<1>5. ASSUME NEW c \in Clients, Close(c) PROVE RowsOnlyFall
  BY <1>5 DEF Close
<1>6. CASE Tick
  BY <1>6 DEF Tick
<1>7. ASSUME NEW r \in Requests, Resolve(r) PROVE RowsOnlyFall
  <2>1. CASE CacheHit(r)
    BY <2>1 DEF CacheHit, CacheHitWith, Cached, Resolves, Serve, WithCache
  <2>2. CASE CacheMiss(r)
    BY <2>2 DEF CacheMiss, Dropped, Resolves
  <2>3. CASE NotFound(r)
    BY <2>3 DEF NotFound, Answer, Row
  <2>4. CASE FoundExpired(r)
    BY <2>4 DEF FoundExpired, Row, Expired
  <2>5. CASE DropExpired(r)
    BY <2>5 DEF DropExpired, Without, Goto
  <2>6. CASE FoundLive(r)
    BY <2>6, LiveEffect
  <2>7. CASE RefreshSession(r)
    BY <2>7, RefreshEffect
  <2>9. CASE RefreshFound(r)
    BY <2>9 DEF RefreshFound
  <2>10. CASE RefreshGone(r)
    BY <2>10 DEF RefreshGone
  <2>8. CASE RefreshFails(r)
    BY <2>8 DEF RefreshFails, Answer
  <2> QED
    BY <1>7, <2>1, <2>2, <2>3, <2>4, <2>5, <2>6, <2>7, <2>8, <2>9, <2>10 DEF Resolve
<1>8. ASSUME NEW r \in Requests, Handle(r) PROVE RowsOnlyFall
  <2>1. CASE JustAnswer(r)
    BY <2>1 DEF JustAnswer, Answer
  <2>2. CASE UpdateSession(r)
    BY <2>2, UpdateEffect DEF IssuedInv, HeldIssued, JarIssued
  <2>11. CASE UpdateFound(r)
    BY <2>11 DEF UpdateFound
  <2>3. CASE DeleteTarget(r)
    BY <2>3 DEF DeleteTarget, Without, Answer
  <2>4. CASE RevokeAll(r)
    BY <2>4 DEF RevokeAll, Answer
  <2>5. CASE RevokeOthers(r)
    BY <2>5 DEF RevokeOthers, Answer
  <2>6. CASE SignOut(r)
    BY <2>6 DEF SignOut, Without, Answer
  <2>7. CASE CacheNewSession(r)
    BY <2>7 DEF CacheNewSession
  <2>8. CASE CacheNewSessionFails(r)
    BY <2>8 DEF CacheNewSessionFails, Answer
  <2>9. ASSUME NEW t \in Tokens, FindTarget(r, t) PROVE RowsOnlyFall
    BY <2>9 DEF FindTarget
  <2>10. ASSUME NEW t \in Tokens, CreateSession(r, t) PROVE RowsOnlyFall
    BY <2>10 DEF CreateSession, CreateWith, SignsIn, Brief
  <2> QED
    BY <1>8, <2>1, <2>2, <2>3, <2>4, <2>5, <2>6, <2>7, <2>8, <2>9, <2>10, <2>11 DEF Handle
<1> QED
  BY <1>1, <1>2, <1>3, <1>4, <1>5, <1>6, <1>7, <1>8 DEF Next, Browser

LEMMA DeferredStep == TypeOK /\ StageInv /\ IssuedInv /\ BriefInv /\ RevokedInv /\ [Next]_vars => DeferredRead
<1> SUFFICES ASSUME TypeOK, StageInv, IssuedInv, BriefInv, RevokedInv, [Next]_vars PROVE DeferredRead
  OBVIOUS
<1> USE DEF TypeOK, StageInv, DeferredRead, ReadOnly, Gets, Request, ghosts, Server
<1>1. CASE UNCHANGED vars
  BY <1>1 DEF vars
<1>2. ASSUME NEW r \in Requests, NEW c \in Clients, NEW k \in Kinds, NEW o \in Options(k), Send(r, c, k, o)
      PROVE  DeferredRead
  BY <1>2 DEF Send, Sent
<1>3. ASSUME NEW r \in Requests, Receive(r) PROVE DeferredRead
  BY <1>3 DEF Receive, Apply, SetToken, SetData, SignsIn
<1>4. ASSUME NEW r \in Requests, Lose(r) PROVE DeferredRead
  BY <1>4 DEF Lose
<1>5. ASSUME NEW c \in Clients, Close(c) PROVE DeferredRead
  BY <1>5 DEF Close
<1>6. CASE Tick
  BY <1>6 DEF Tick
<1>7. ASSUME NEW r \in Requests, Resolve(r) PROVE DeferredRead
  <2>1. CASE CacheHit(r)
    BY <2>1 DEF CacheHit, CacheHitWith, Cached, Resolves, Serve, WithCache
  <2>2. CASE CacheMiss(r)
    BY <2>2 DEF CacheMiss, Dropped, Resolves
  <2>3. CASE NotFound(r)
    BY <2>3 DEF NotFound, Answer, Row
  <2>4. CASE FoundExpired(r)
    BY <2>4 DEF FoundExpired, Row, Expired
  <2>5. CASE DropExpired(r)
    BY <2>5 DEF DropExpired, Without, Goto
  <2>6. CASE FoundLive(r)
    BY <2>6, LiveEffect
  <2>7. CASE RefreshSession(r)
    BY <2>7, RefreshEffect, RefreshServed
  <2>9. CASE RefreshFound(r)
    BY <2>9 DEF RefreshFound
  <2>10. CASE RefreshGone(r)
    BY <2>10 DEF RefreshGone
  <2>8. CASE RefreshFails(r)
    BY <2>8 DEF RefreshFails, Answer
  <2> QED
    BY <1>7, <2>1, <2>2, <2>3, <2>4, <2>5, <2>6, <2>7, <2>8, <2>9, <2>10 DEF Resolve
<1>8. ASSUME NEW r \in Requests, Handle(r) PROVE DeferredRead
  <2>1. CASE JustAnswer(r)
    BY <2>1 DEF JustAnswer, Answer
  <2>2. CASE UpdateSession(r)
    BY <2>2, UpdateEffect, AnswerEffect
  <2>11. CASE UpdateFound(r)
    BY <2>11 DEF UpdateFound
  <2>3. CASE DeleteTarget(r)
    BY <2>3 DEF DeleteTarget, Without, Answer
  <2>4. CASE RevokeAll(r)
    BY <2>4 DEF RevokeAll, Answer
  <2>5. CASE RevokeOthers(r)
    BY <2>5 DEF RevokeOthers, Answer
  <2>6. CASE SignOut(r)
    BY <2>6 DEF SignOut, Without, Answer
  <2>7. CASE CacheNewSession(r)
    BY <2>7 DEF CacheNewSession
  <2>8. CASE CacheNewSessionFails(r)
    BY <2>8 DEF CacheNewSessionFails, Answer
  <2>9. ASSUME NEW t \in Tokens, FindTarget(r, t) PROVE DeferredRead
    BY <2>9 DEF FindTarget
  <2>10. ASSUME NEW t \in Tokens, CreateSession(r, t) PROVE DeferredRead
    BY <2>10 DEF CreateSession, CreateWith, SignsIn, Brief
  <2> QED
    BY <1>8, <2>1, <2>2, <2>3, <2>4, <2>5, <2>6, <2>7, <2>8, <2>9, <2>10, <2>11 DEF Handle
<1> QED
  BY <1>1, <1>2, <1>3, <1>4, <1>5, <1>6, <1>7, <1>8 DEF Next, Browser

LEMMA CacheStep == TypeOK /\ StageInv /\ IssuedInv /\ BriefInv /\ RevokedInv /\ [Next]_vars => CacheServed
<1> SUFFICES ASSUME TypeOK, StageInv, IssuedInv, BriefInv, RevokedInv, [Next]_vars PROVE CacheServed
  OBVIOUS
<1> USE DEF TypeOK, StageInv, CacheServed, Request, ghosts, Server
<1>1. CASE UNCHANGED vars
  BY <1>1 DEF vars
<1>2. ASSUME NEW r \in Requests, NEW c \in Clients, NEW k \in Kinds, NEW o \in Options(k), Send(r, c, k, o)
      PROVE  CacheServed
  BY <1>2 DEF Send, Sent
<1>3. ASSUME NEW r \in Requests, Receive(r) PROVE CacheServed
  BY <1>3 DEF Receive, Apply, SetToken, SetData, SignsIn
<1>4. ASSUME NEW r \in Requests, Lose(r) PROVE CacheServed
  BY <1>4 DEF Lose, Idle
<1>5. ASSUME NEW c \in Clients, Close(c) PROVE CacheServed
  BY <1>5 DEF Close
<1>6. CASE Tick
  BY <1>6 DEF Tick
<1>7. ASSUME NEW r \in Requests, Resolve(r) PROVE CacheServed
  <2>1. CASE CacheHit(r)
    <3> DEFINE copy == req[r].cookies.data
    <3>1. /\ copy \in Copy /\ copy.token \in Tokens
          /\ copy.expires \in Time /\ copy.expires <= Promised(copy.token)
      BY <2>1 DEF CacheHit, CacheHitWith, Cached, Jar, IssuedInv, HeldIssued, JarIssued, CopyIssued, Copy
    <3>2. /\ ~CacheLapsed(r) /\ (ReadOnly(r) \/ ~ShouldRefresh(r, copy.expires))
      BY <2>1 DEF CacheHit, CacheHitWith
    <3>3. /\ now <= copy.expires
          /\ \/ ReadOnly(r) \/ ~MayRefresh(r)
             \/ now < copy.expires - SessionExpires + UpdateAge
      <4>1. /\ now \in Int /\ copy.expires \in Nat /\ SessionExpires \in Int /\ UpdateAge \in Int
            /\ copy.expires # None
        BY <3>1, NoneAssumption DEF Time
      <4>2. ~(copy.expires < now)
        BY <3>2, <4>1 DEF CacheLapsed, Expired
      <4>3. MayRefresh(r) => ReadOnly(r) \/ ~(now >= copy.expires - SessionExpires + UpdateAge)
        BY <3>2 DEF ShouldRefresh
      <4> QED
        BY <4>1, <4>2, <4>3
    <3>4. /\ \A q \in Requests \ {r} : req'[q] = req[q]
          /\ req'[r].token = copy.token
      BY <2>1 DEF CacheHit, CacheHitWith, Serve
    <3>5. now \in Int /\ Promised(copy.token) \in Int /\ copy.expires \in Int
      BY <3>1, TimeFacts, PromisedFacts
    <3> HIDE DEF copy
    <3> QED
      BY <3>1, <3>3, <3>4, <3>5
  <2>2. CASE CacheMiss(r)
    BY <2>2 DEF CacheMiss, Dropped, Resolves
  <2>3. CASE NotFound(r)
    BY <2>3 DEF NotFound, Answer, Row
  <2>4. CASE FoundExpired(r)
    BY <2>4 DEF FoundExpired, Row, Expired
  <2>5. CASE DropExpired(r)
    BY <2>5 DEF DropExpired, Without, Goto
  <2>6. CASE FoundLive(r)
    BY <2>6, LiveEffect
  <2>7. CASE RefreshSession(r)
    BY <2>7, RefreshEffect, RefreshServed
  <2>9. CASE RefreshFound(r)
    BY <2>9 DEF RefreshFound
  <2>10. CASE RefreshGone(r)
    BY <2>10, GoneEffect, RefreshServed
  <2>8. CASE RefreshFails(r)
    BY <2>8 DEF RefreshFails, Answer
  <2> QED
    BY <1>7, <2>1, <2>2, <2>3, <2>4, <2>5, <2>6, <2>7, <2>8, <2>9, <2>10 DEF Resolve
<1>8. ASSUME NEW r \in Requests, Handle(r) PROVE CacheServed
  <2>1. CASE JustAnswer(r)
    BY <2>1 DEF JustAnswer, Answer
  <2>2. CASE UpdateSession(r)
    BY <2>2, UpdateEffect, AnswerEffect
  <2>11. CASE UpdateFound(r)
    BY <2>11 DEF UpdateFound
  <2>3. CASE DeleteTarget(r)
    BY <2>3 DEF DeleteTarget, Without, Answer
  <2>4. CASE RevokeAll(r)
    BY <2>4 DEF RevokeAll, Answer
  <2>5. CASE RevokeOthers(r)
    BY <2>5 DEF RevokeOthers, Answer
  <2>6. CASE SignOut(r)
    BY <2>6 DEF SignOut, Without, Answer
  <2>7. CASE CacheNewSession(r)
    BY <2>7, NewSessionEffect, AnswerEffect
  <2>8. CASE CacheNewSessionFails(r)
    BY <2>8 DEF CacheNewSessionFails, Answer
  <2>9. ASSUME NEW t \in Tokens, FindTarget(r, t) PROVE CacheServed
    BY <2>9 DEF FindTarget
  <2>10. ASSUME NEW t \in Tokens, CreateSession(r, t) PROVE CacheServed
    BY <2>10 DEF CreateSession, CreateWith, SignsIn, Brief
  <2> QED
    BY <1>8, <2>1, <2>2, <2>3, <2>4, <2>5, <2>6, <2>7, <2>8, <2>9, <2>10, <2>11 DEF Handle
<1> QED
  BY <1>1, <1>2, <1>3, <1>4, <1>5, <1>6, <1>7, <1>8 DEF Next, Browser

LEMMA SensitiveStep ==
    TypeOK /\ StageInv /\ IssuedInv /\ BriefInv /\ RevokedInv /\ SensitiveNeedsRow /\ [Next]_vars
        => SensitiveNeedsRow'
<1> SUFFICES ASSUME TypeOK, StageInv, IssuedInv, BriefInv, RevokedInv, SensitiveNeedsRow, [Next]_vars
             PROVE  SensitiveNeedsRow'
  OBVIOUS
<1> USE DEF TypeOK, StageInv, SensitiveNeedsRow, Sensitive, Request, Idle, ghosts, Server
<1>1. CASE UNCHANGED vars
  BY <1>1 DEF vars
<1>2. ASSUME NEW r \in Requests, NEW c \in Clients, NEW k \in Kinds, NEW o \in Options(k), Send(r, c, k, o)
      PROVE  SensitiveNeedsRow'
  BY <1>2 DEF Send, Sent
<1>3. ASSUME NEW r \in Requests, Receive(r) PROVE SensitiveNeedsRow'
  BY <1>3 DEF Receive, Apply, SetToken, SetData, SignsIn
<1>4. ASSUME NEW r \in Requests, Lose(r) PROVE SensitiveNeedsRow'
  BY <1>4 DEF Lose
<1>5. ASSUME NEW c \in Clients, Close(c) PROVE SensitiveNeedsRow'
  BY <1>5 DEF Close
<1>6. CASE Tick
  BY <1>6 DEF Tick
<1>7. ASSUME NEW r \in Requests, Resolve(r) PROVE SensitiveNeedsRow'
  <2>1. CASE CacheHit(r)
    BY <2>1 DEF CacheHit, CacheHitWith, Cached, Resolves, Serve, WithCache
  <2>2. CASE CacheMiss(r)
    BY <2>2 DEF CacheMiss, Dropped, Resolves
  <2>3. CASE NotFound(r)
    BY <2>3 DEF NotFound, Answer, Row
  <2>4. CASE FoundExpired(r)
    BY <2>4 DEF FoundExpired, Row, Expired
  <2>5. CASE DropExpired(r)
    BY <2>5 DEF DropExpired, Without, Goto
  <2>6. CASE FoundLive(r)
    BY <2>6, LiveEffect DEF RevokedInv
  <2>7. CASE RefreshSession(r)
    BY <2>7, RefreshEffect, RefreshServed
  <2>9. CASE RefreshFound(r)
    BY <2>9 DEF RefreshFound
  <2>10. CASE RefreshGone(r)
    BY <2>10, GoneEffect, RefreshServed
  <2>8. CASE RefreshFails(r)
    BY <2>8 DEF RefreshFails, Answer
  <2> QED
    BY <1>7, <2>1, <2>2, <2>3, <2>4, <2>5, <2>6, <2>7, <2>8, <2>9, <2>10 DEF Resolve
<1>8. ASSUME NEW r \in Requests, Handle(r) PROVE SensitiveNeedsRow'
  <2>1. CASE JustAnswer(r)
    BY <2>1 DEF JustAnswer, Answer
  <2>2. CASE UpdateSession(r)
    BY <2>2, UpdateEffect, AnswerEffect
  <2>11. CASE UpdateFound(r)
    BY <2>11 DEF UpdateFound
  <2>3. CASE DeleteTarget(r)
    BY <2>3 DEF DeleteTarget, Without, Answer
  <2>4. CASE RevokeAll(r)
    BY <2>4 DEF RevokeAll, Answer
  <2>5. CASE RevokeOthers(r)
    BY <2>5 DEF RevokeOthers, Answer
  <2>6. CASE SignOut(r)
    BY <2>6 DEF SignOut, Without, Answer
  <2>7. CASE CacheNewSession(r)
    BY <2>7, NewSessionEffect, AnswerEffect
  <2>8. CASE CacheNewSessionFails(r)
    BY <2>8 DEF CacheNewSessionFails, Answer
  <2>9. ASSUME NEW t \in Tokens, FindTarget(r, t) PROVE SensitiveNeedsRow'
    BY <2>9 DEF FindTarget
  <2>10. ASSUME NEW t \in Tokens, CreateSession(r, t) PROVE SensitiveNeedsRow'
    BY <2>10, CreateEffect
  <2> QED
    BY <1>8, <2>1, <2>2, <2>3, <2>4, <2>5, <2>6, <2>7, <2>8, <2>9, <2>10, <2>11 DEF Handle
<1> QED
  BY <1>1, <1>2, <1>3, <1>4, <1>5, <1>6, <1>7, <1>8 DEF Next, Browser

LEMMA ApplyAfter ==
    ASSUME NEW j \in Jar, NEW reply \in Reply
    PROVE  /\ Apply(j, reply).token = TokenAfter(j, reply)
           /\ Apply(j, reply).data = DataAfter(j, reply)
<1> DEFINE base == IF reply.clear THEN EmptyJar ELSE j
           next == SetToken(base, reply)
<1>1. /\ base \in Jar
      /\ base.token = IF reply.clear THEN None ELSE j.token
      /\ base.data = IF reply.clear THEN None ELSE j.data
  BY DEF EmptyJar, Jar, Token
<1> HIDE DEF base
<1>2. /\ next \in Jar /\ next.data = base.data
      /\ next.token = IF reply.token = None THEN base.token ELSE reply.token
  BY <1>1 DEF SetToken, Jar, Reply
<1> HIDE DEF next
<1>3. /\ SetData(next, reply).token = next.token
      /\ SetData(next, reply).data = IF reply.data = None THEN next.data ELSE reply.data
  BY <1>2 DEF SetData, Jar
<1>4. Apply(j, reply) = SetData(next, reply)
  BY DEF Apply, next, base
<1> QED
  BY <1>1, <1>2, <1>3, <1>4 DEF TokenAfter, DataAfter

LEMMA NothingAfter ==
    ASSUME NEW j
    PROVE  /\ TokenAfter(j, NoCookies) = j.token /\ DataAfter(j, NoCookies) = j.data
           /\ TokenAfter(j, Cleared) = None /\ DataAfter(j, Cleared) = None
BY DEF TokenAfter, DataAfter, NoCookies, Cleared

LEMMA ReceiveEffect ==
    ASSUME NEW r \in Requests, TypeOK, Receive(r)
    PROVE  LET c == req[r].client IN
           /\ c \in Clients /\ req[r].pc = "reply" /\ req'[r].pc = "idle"
           /\ \A d \in Clients \ {c} : jar'[d] = jar[d]
           /\ jar'[c].token = TokenAfter(jar[c], req[r].reply)
           /\ jar'[c].data = DataAfter(jar[c], req[r].reply)
           /\ \A q \in Requests \ {r} :
                 /\ req'[q].pc = req[q].pc /\ req'[q].kind = req[q].kind /\ req'[q].client = req[q].client
                 /\ req'[q].cookies = req[q].cookies /\ req'[q].token = req[q].token
                 /\ req'[q].reply = req[q].reply
                 /\ ~req'[q].stale => ~req[q].stale /\ (req[q].client = c => req[r].reply = NoCookies)
           /\ mixed \subseteq mixed'
           /\ c \notin mixed' => \/ req[r].reply = NoCookies
                                 \/ ~req[r].stale /\ ~(SignsIn(r) /\ req[r].reply.data = None)
<1> DEFINE c == req[r].client
<1>1. c \in Clients /\ jar[c] \in Jar /\ req[r].reply \in Reply /\ req[r].pc = "reply"
  BY DEF TypeOK, Request, Receive
<1>2. /\ \A d \in Clients \ {c} : jar'[d] = jar[d]
      /\ jar'[c] = Apply(jar[c], req[r].reply)
  BY <1>1 DEF Receive, TypeOK
<1>3. req'[r].pc = "idle"
  <2>1. req'[r] = Idle
    BY DEF Receive
  <2> QED
    BY <2>1 DEF Idle
<1>4. \A q \in Requests \ {r} :
         req'[q] = IF req[q].client = c /\ req[r].reply # NoCookies
                   THEN [req[q] EXCEPT !.stale = TRUE] ELSE req[q]
  BY DEF Receive
<1>5. \A q \in Requests \ {r} :
         /\ req'[q].pc = req[q].pc /\ req'[q].kind = req[q].kind /\ req'[q].client = req[q].client
         /\ req'[q].cookies = req[q].cookies /\ req'[q].token = req[q].token
         /\ req'[q].reply = req[q].reply
         /\ ~req'[q].stale => ~req[q].stale /\ (req[q].client = c => req[r].reply = NoCookies)
  <2> TAKE q \in Requests \ {r}
  <2>1. req[q] \in Request
    BY DEF TypeOK
  <2>2. CASE req[q].client = c /\ req[r].reply # NoCookies
    <3>1. req'[q] = [req[q] EXCEPT !.stale = TRUE]
      BY <1>4, <2>2
    <3> QED
      BY <2>1, <3>1 DEF Request
  <2>3. CASE ~(req[q].client = c /\ req[r].reply # NoCookies)
    BY <1>4, <2>3
  <2> QED
    BY <2>2, <2>3
<1>6. /\ mixed \subseteq mixed'
      /\ c \notin mixed'
            => (req[r].reply = NoCookies) \/ (~req[r].stale /\ ~(SignsIn(r) /\ req[r].reply.data = None))
  BY <1>1 DEF Receive, TypeOK
<1> QED
  BY <1>1, <1>2, <1>3, <1>5, <1>6, ApplyAfter

LEMMA CacheAgrees == CacheMatchesToken <=> \A c \in Clients : c \notin mixed => Agree(jar[c].token, jar[c].data)
BY DEF CacheMatchesToken, Agree

(* A step that touches neither the jars nor another request. *)
LEMMA MatchOne ==
    ASSUME NEW r \in Requests, MatchInv, UNCHANGED <<jar, mixed>>,
           \A q \in Requests \ {r} : req'[q] = req[q], Matches(r)'
    PROVE  MatchInv'
<1>1. CacheMatchesToken'
  BY DEF MatchInv, CacheMatchesToken
<1>2. ASSUME NEW q \in Requests \ {r} PROVE Matches(q)'
  BY DEF MatchInv, Matches, Fresh, SignsIn
<1> QED
  BY <1>1, <1>2 DEF MatchInv

LEMMA AnswerMatches ==
    ASSUME NEW r \in Requests, TypeOK, MatchInv, NEW reply, Answer(r, reply), UNCHANGED <<jar, mixed>>,
           Fresh(r) => LET j == jar[req[r].client] IN
                       \/ Agree(TokenAfter(j, reply), DataAfter(j, reply))
                       \/ SignsIn(r) /\ reply.data = None
    PROVE  MatchInv'
<1>1. /\ \A q \in Requests \ {r} : req'[q] = req[q]
      /\ req'[r].pc = "reply" /\ req'[r].reply = reply
      /\ req'[r].kind = req[r].kind /\ req'[r].client = req[r].client /\ req'[r].stale = req[r].stale
  BY AnswerEffect
<1>2. Matches(r)'
  BY <1>1 DEF Matches, Fresh, SignsIn
<1> QED
  BY <1>1, <1>2, MatchOne

(* An answer that sets no cookie, or deletes them, is in agreement. *)
LEMMA PlainAgrees ==
    ASSUME NEW r \in Requests, TypeOK, MatchInv, NEW reply \in {NoCookies, Cleared}, Fresh(r)
    PROVE  LET j == jar[req[r].client] IN Agree(TokenAfter(j, reply), DataAfter(j, reply))
<1>1. req[r].client \in Clients /\ req[r].client \notin mixed
  BY DEF TypeOK, Request, Fresh
<1>2. Agree(jar[req[r].client].token, jar[req[r].client].data)
  BY <1>1, CacheAgrees DEF MatchInv
<1> QED
  BY <1>2, NothingAfter DEF Agree

(* What the handlers serve and cache is the session of the request. *)
LEMMA ServeMatches ==
    ASSUME NEW r \in Requests, TypeOK, MatchInv, UNCHANGED <<jar, mixed>>,
           NEW reply, NEW t \in Tokens, NEW e,
           \A q \in Requests \ {r} : req'[q] = req[q],
           req'[r].pc = "serve", req'[r].token = t,
           req'[r].client = req[r].client, req'[r].cookies = req[r].cookies,
           req'[r].stale = req[r].stale,
           req[r].pc \notin {"idle", "reply"},
           Carries(req'[r].reply, reply, t, e),
           \/ reply \in {NoCookies, Cleared}
           \/ reply.token = t /\ reply.data = None /\ (Fresh(r) => jar[req[r].client].token = t),
           Fresh(r) => jar[req[r].client].token \in {None, t}
    PROVE  MatchInv'
<1> DEFINE j == jar[req[r].client]
           new == req'[r].reply
<1>1. Matches(r) /\ (Fresh(r)' <=> Fresh(r))
  BY DEF MatchInv, Fresh
<1>2. Fresh(r) => TokenAfter(j, new) \in {None, t}
  BY DEF Carries, TokenAfter, NoCookies, Cleared
<1>3. Fresh(r) => Agree(j.token, j.data)
  BY CacheAgrees DEF MatchInv, Fresh, TypeOK, Request
<1>4. Fresh(r) => Agree(TokenAfter(j, new), DataAfter(j, new))
  BY <1>2, <1>3 DEF Carries, TokenAfter, DataAfter, NoCookies, Cleared, Agree
<1>5. Matches(r)'
  BY <1>1, <1>2, <1>4 DEF Matches
<1> QED
  BY <1>5, MatchOne

(* A refresh sends the token again and a copy that goes with it.           *)
LEMMA RefreshMatches ==
    ASSUME NEW r \in Requests, TypeOK, StageInv, MatchInv, UNCHANGED <<jar, mixed>>,
           req[r].pc = "extend", ServeRefreshed(r)
    PROVE  MatchInv'
<1> DEFINE t == req[r].cookies.token
           reply == [req[r].reply EXCEPT !.token = t]
<1>1. /\ t \in Tokens /\ req[r].expires \in Time /\ Matches(r)
      /\ req[r].reply \in {NoCookies, Cleared} /\ req[r].reply \in Reply
  BY DEF StageInv, MatchInv, Matches, TypeOK, Request
<1>2. reply.token = t /\ reply.data = None /\ reply \in Reply
  BY <1>1 DEF NoCookies, Cleared, Reply, Token
<1>3. Serve(r, reply, t, req[r].expires)
  BY DEF ServeRefreshed
<1>4. Fresh(r) => jar[req[r].client].token = t
  BY <1>1 DEF Matches
<1> HIDE DEF reply
<1>5. /\ \A q \in Requests \ {r} : req'[q] = req[q]
      /\ req'[r].pc = "serve" /\ req'[r].token = t
      /\ req'[r].client = req[r].client /\ req'[r].cookies = req[r].cookies
      /\ req'[r].stale = req[r].stale
      /\ Carries(req'[r].reply, reply, t, req[r].expires)
  BY <1>1, <1>2, <1>3, ServeEffect
<1>6. /\ req[r].pc \notin {"idle", "reply"}
      /\ reply.token = t /\ reply.data = None /\ (Fresh(r) => jar[req[r].client].token = t)
      /\ Fresh(r) => jar[req[r].client].token \in {None, t}
  BY <1>2, <1>4
<1> QED
  BY <1>1, <1>5, <1>6, ServeMatches

LEMMA MatchStep ==
    TypeOK /\ StageInv /\ IssuedInv /\ BriefInv /\ RevokedInv /\ MatchInv /\ [Next]_vars => MatchInv'
<1> SUFFICES ASSUME TypeOK, StageInv, IssuedInv, BriefInv, RevokedInv, MatchInv, [Next]_vars PROVE MatchInv'
  OBVIOUS
<1> USE DEF ghosts, Server
<1>1. CASE UNCHANGED vars
  BY <1>1 DEF vars, MatchInv, Matches, CacheMatchesToken, Fresh, SignsIn
<1>2. ASSUME NEW r \in Requests, NEW c \in Clients, NEW k \in Kinds, NEW o \in Options(k), Send(r, c, k, o)
      PROVE  MatchInv'
  <3>1. /\ \A q \in Requests \ {r} : req'[q] = req[q]
        /\ req'[r].pc = "arrive" /\ req'[r].cookies = Sent(c) /\ req'[r].client = c
        /\ req'[r].reply = NoCookies /\ UNCHANGED <<jar, mixed>>
    BY <1>2 DEF Send, Idle, TypeOK
  <3>2. Sent(c).token = jar[c].token /\ Sent(c).data \in {None, jar[c].data}
    BY DEF Sent, TypeOK, Jar
  <3>3. Matches(r)'
    BY <3>1, <3>2 DEF Matches
  <3>4. UNCHANGED <<jar, mixed>> /\ \A q \in Requests \ {r} : req'[q] = req[q]
    BY <3>1
  <3> HIDE DEF Server, ghosts
  <3> QED
    BY <3>3, <3>4, MatchOne
<1>3. ASSUME NEW r \in Requests, Receive(r) PROVE MatchInv'
  <3> DEFINE c == req[r].client
  <3>1. CASE req[r].reply = NoCookies
    <4>1. \A d \in Clients : jar'[d].token = jar[d].token /\ jar'[d].data = jar[d].data
      BY <1>3, <3>1, ReceiveEffect, NothingAfter
    <4>2. CacheMatchesToken'
      BY <1>3, <4>1, ReceiveEffect DEF MatchInv, CacheMatchesToken
    <4>3. ASSUME NEW q \in Requests \ {r} PROVE Matches(q)'
      <5>1. req[q].client \in Clients /\ Matches(q)
        BY DEF TypeOK, Request, MatchInv
      <5>2. Fresh(q)' => Fresh(q)
        BY <1>3, ReceiveEffect DEF Fresh
      <5>3. \A reply : /\ TokenAfter(jar'[req[q].client], reply) = TokenAfter(jar[req[q].client], reply)
                       /\ DataAfter(jar'[req[q].client], reply) = DataAfter(jar[req[q].client], reply)
        BY <4>1, <5>1 DEF TokenAfter, DataAfter
      <5> QED
        BY <1>3, <4>1, <5>1, <5>2, <5>3, ReceiveEffect DEF Matches, SignsIn
    <4>4. Matches(r)'
      BY <1>3, ReceiveEffect DEF Matches
    <4> QED
      BY <4>2, <4>3, <4>4 DEF MatchInv
  <3>2. CASE req[r].reply # NoCookies
    <4>1. c \notin mixed' => Agree(jar'[c].token, jar'[c].data)
      <5> SUFFICES ASSUME c \notin mixed' PROVE Agree(jar'[c].token, jar'[c].data)
        OBVIOUS
      <5>1. Fresh(r) /\ req[r].pc = "reply" /\ Matches(r) /\ ~(SignsIn(r) /\ req[r].reply.data = None)
        BY <1>3, <3>2, ReceiveEffect DEF Fresh, MatchInv
      <5>2. Agree(TokenAfter(jar[c], req[r].reply), DataAfter(jar[c], req[r].reply))
        BY <5>1 DEF Matches
      <5> QED
        BY <1>3, <5>2, ReceiveEffect
    <4>2. CacheMatchesToken'
      BY <1>3, <4>1, ReceiveEffect, CacheAgrees DEF MatchInv, CacheMatchesToken, Agree
    <4>3. ASSUME NEW q \in Requests \ {r} PROVE Matches(q)'
      <5>1. req[q].client \in Clients /\ Matches(q) /\ (Fresh(q)' => Fresh(q))
        BY <1>3, ReceiveEffect DEF TypeOK, Request, MatchInv, Fresh
      <5>2. Fresh(q)' => jar'[req[q].client] = jar[req[q].client]
        BY <1>3, <3>2, <5>1, ReceiveEffect DEF Fresh
      <5> QED
        BY <1>3, <5>1, <5>2, ReceiveEffect DEF Matches, SignsIn
    <4>4. Matches(r)'
      BY <1>3, ReceiveEffect DEF Matches
    <4> QED
      BY <4>2, <4>3, <4>4 DEF MatchInv
  <3> QED
    BY <3>1, <3>2
<1>4. ASSUME NEW r \in Requests, Lose(r) PROVE MatchInv'
  <3>1. /\ \A q \in Requests \ {r} : req'[q] = req[q]
        /\ req'[r].pc = "idle" /\ UNCHANGED <<jar, mixed>>
    BY <1>4 DEF Lose, Idle, TypeOK
  <3>2. Matches(r)'
    BY <3>1 DEF Matches
  <3> QED
    BY <3>1, <3>2, MatchOne
<1>5. ASSUME NEW c \in Clients, Close(c) PROVE MatchInv'
  <3>1. jar'[c].token \in {None, jar[c].token} /\ jar'[c].data \in {None, jar[c].data}
    BY <1>5 DEF Close, EmptyJar, TypeOK
  <3>2. (\A d \in Clients \ {c} : jar'[d] = jar[d]) /\ UNCHANGED <<req, mixed>>
    BY <1>5 DEF Close, TypeOK
  <3>3. \A q \in Requests : req[q].pc # "idle" => req[q].client # c
    BY <1>5 DEF Close
  <3>4. CacheMatchesToken'
    BY <3>1, <3>2 DEF MatchInv, CacheMatchesToken
  <3>5. ASSUME NEW q \in Requests PROVE Matches(q)'
    <4>1. req[q].client \in Clients /\ Matches(q)
      BY DEF TypeOK, Request, MatchInv
    <4> QED
      BY <3>2, <3>3, <4>1 DEF Matches, Fresh, SignsIn
  <3> QED
    BY <3>4, <3>5 DEF MatchInv
<1>6. CASE Tick
  BY <1>6 DEF Tick, MatchInv, Matches, CacheMatchesToken, Fresh, SignsIn
<1>7. ASSUME NEW r \in Requests, Resolve(r) PROVE MatchInv'
  <2>1. CASE CacheHit(r)
    <3> DEFINE copy == req[r].cookies.data
    <3>1. copy # None /\ copy \in Copy /\ copy.token \in Tokens /\ copy.expires \in Time
      BY <2>1 DEF CacheHit, CacheHitWith, Cached, Jar, Copy, Request, TypeOK
    <3>2. Serve(r, req[r].reply, copy.token, copy.expires)
      BY <2>1 DEF CacheHit, CacheHitWith, Cached
    <3>3. /\ req[r].reply \in {NoCookies, Cleared} /\ req[r].reply \in Reply /\ UNCHANGED <<jar, mixed>>
          /\ req[r].pc = "arrive" /\ req[r].client \in Clients /\ Matches(r)
      BY <2>1 DEF CacheHit, CacheHitWith, Request, TypeOK, MatchInv, Matches
    <3>4. Fresh(r) => jar[req[r].client].token \in {None, copy.token}
      BY <3>1, <3>3, CacheAgrees DEF MatchInv, Matches, Fresh, Agree
    <3> HIDE DEF copy
    <3>5. /\ \A q \in Requests \ {r} : req'[q] = req[q]
          /\ req'[r].pc = "serve" /\ req'[r].token = copy.token
          /\ req'[r].kind = req[r].kind /\ req'[r].client = req[r].client
          /\ req'[r].cookies = req[r].cookies /\ req'[r].stale = req[r].stale
          /\ Carries(req'[r].reply, req[r].reply, copy.token, copy.expires)
      BY <3>1, <3>2, <3>3, ServeEffect
    <3> QED
      BY <3>1, <3>3, <3>4, <3>5, ServeMatches
  <2>2. CASE CacheMiss(r)
    <3>1. /\ \A q \in Requests \ {r} : req'[q] = req[q]
          /\ req'[r].pc = "find" /\ req'[r].reply = Dropped(r) /\ req'[r].client = req[r].client
          /\ req'[r].cookies = req[r].cookies /\ req'[r].stale = req[r].stale /\ UNCHANGED <<jar, mixed>>
          /\ req[r].pc = "arrive" /\ Matches(r)
      BY <2>2 DEF CacheMiss, TypeOK, Request, MatchInv
    <3>2. Matches(r)'
      BY <3>1 DEF Matches, Dropped, Fresh
    <3> QED
      BY <3>1, <3>2, MatchOne
  <2>3. CASE NotFound(r)
    <3>1. req[r].reply \in {NoCookies, Cleared} /\ UNCHANGED <<jar, mixed>>
      BY <2>3 DEF NotFound, MatchInv, Matches
    <3>2. Answer(r, req[r].reply)
      BY <2>3 DEF NotFound
    <3> QED
      BY <3>1, <3>2, PlainAgrees, AnswerMatches
  <2>4. CASE FoundExpired(r)
    <3>1. /\ \A q \in Requests \ {r} : req'[q] = req[q]
          /\ req'[r].pc \in {"reply", "drop"} /\ req'[r].reply = Cleared /\ req'[r].client = req[r].client
          /\ req'[r].cookies = req[r].cookies /\ req'[r].stale = req[r].stale /\ UNCHANGED <<jar, mixed>>
          /\ req[r].pc = "find" /\ Matches(r)
      BY <2>4 DEF FoundExpired, TypeOK, Request, MatchInv
    <3>2. Matches(r)'
      BY <3>1, PlainAgrees, NothingAfter DEF Matches, Fresh, Agree
    <3> QED
      BY <3>1, <3>2, MatchOne
  <2>5. CASE DropExpired(r)
    <3>1. /\ \A q \in Requests \ {r} : req'[q] = req[q]
          /\ req'[r].pc = "reply" /\ req'[r].reply = req[r].reply /\ req'[r].client = req[r].client
          /\ req'[r].stale = req[r].stale /\ UNCHANGED <<jar, mixed>>
          /\ req[r].reply \in {NoCookies, Cleared}
      BY <2>5 DEF DropExpired, Without, Goto, TypeOK, Request, MatchInv, Matches
    <3>2. Matches(r)'
      BY <3>1, PlainAgrees DEF Matches, Fresh
    <3> QED
      BY <3>1, <3>2, MatchOne
  <2>6. CASE FoundLive(r)
    <3> DEFINE t == req[r].cookies.token
    <3>1. /\ \A q \in Requests \ {r} : req'[q] = req[q]
          /\ req'[r].client = req[r].client /\ req'[r].cookies = req[r].cookies
          /\ req'[r].stale = req[r].stale /\ UNCHANGED <<jar, mixed>>
          /\ req[r].pc = "find" /\ t \in Tokens /\ Matches(r) /\ req[r].reply \in {NoCookies, Cleared}
      BY <2>6, LiveEffect DEF MatchInv, Matches
    <3>2. CASE req'[r].pc = "refresh"
      <4>1. Matches(r)'
        BY <2>6, <3>1, <3>2, LiveEffect DEF Matches, Fresh
      <4> QED
        BY <3>1, <4>1, MatchOne
    <3>3. CASE req'[r].pc # "refresh"
      <4>1. /\ req'[r].pc = "serve" /\ req'[r].token = t
            /\ Carries(req'[r].reply, req[r].reply, t, rows[t])
        BY <2>6, <3>3, LiveEffect
      <4>2. Fresh(r) => jar[req[r].client].token \in {None, t}
        BY <3>1 DEF Matches
      <4>3. req[r].pc \notin {"idle", "reply"}
        BY <3>1
      <4> QED
        BY <3>1, <4>1, <4>2, <4>3, ServeMatches
    <3> QED
      BY <3>2, <3>3
  <2>7. CASE RefreshSession(r)
    <3>1. UNCHANGED <<jar, mixed>> /\ req[r].pc = "extend" /\ ServeRefreshed(r)
      BY <2>7, RefreshEffect
    <3> QED
      BY <3>1, RefreshMatches
  <2>9. CASE RefreshFound(r)
    <3>1. /\ \A q \in Requests \ {r} : req'[q] = req[q]
          /\ req'[r].pc = "extend" /\ req'[r].reply = req[r].reply /\ req'[r].client = req[r].client
          /\ req'[r].cookies = req[r].cookies /\ req'[r].stale = req[r].stale /\ UNCHANGED <<jar, mixed>>
          /\ req[r].pc = "refresh" /\ Matches(r)
      BY <2>9 DEF RefreshFound, TypeOK, Request, MatchInv
    <3>2. Matches(r)'
      BY <3>1 DEF Matches, Fresh
    <3> QED
      BY <3>1, <3>2, MatchOne
  <2>10. CASE RefreshGone(r)
    <3>1. UNCHANGED <<jar, mixed>> /\ req[r].pc = "extend" /\ ServeRefreshed(r)
      BY <2>10, GoneEffect
    <3> QED
      BY <3>1, RefreshMatches
  <2>8. CASE RefreshFails(r)
    <3>1. Answer(r, Cleared) /\ UNCHANGED <<jar, mixed>>
      BY <2>8 DEF RefreshFails
    <3> QED
      BY <3>1, PlainAgrees, AnswerMatches
  <2> QED
    BY <1>7, <2>1, <2>2, <2>3, <2>4, <2>5, <2>6, <2>7, <2>8, <2>9, <2>10 DEF Resolve
<1>8. ASSUME NEW r \in Requests, Handle(r) PROVE MatchInv'
  <2>1. CASE JustAnswer(r)
    <3>1. Answer(r, req[r].reply) /\ UNCHANGED <<jar, mixed>> /\ req[r].pc \in {"serve", "store"} /\ Matches(r)
      BY <2>1 DEF JustAnswer, MatchInv
    <3> QED
      BY <3>1, AnswerMatches DEF Matches
  <2>2. CASE UpdateSession(r)
    <3> DEFINE j == jar[req[r].client]
               new == req'[r].reply
    <3>1. /\ Answer(r, new) /\ UNCHANGED <<jar, mixed>> /\ req[r].pc = "store" /\ Matches(r)
          /\ Carries(new, req[r].reply, req[r].token, req[r].expires)
      BY <2>2, UpdateEffect DEF MatchInv
    <3>2. Fresh(r) => \/ Agree(TokenAfter(j, new), DataAfter(j, new))
                      \/ SignsIn(r) /\ new.data = None
      BY <3>1 DEF Matches, Carries, TokenAfter, DataAfter, Agree
    <3> QED
      BY <3>1, <3>2, AnswerMatches
  <2>11. CASE UpdateFound(r)
    <3>1. /\ \A q \in Requests \ {r} : req'[q] = req[q]
          /\ req'[r].pc = "store" /\ req'[r].reply = req[r].reply /\ req'[r].client = req[r].client
          /\ req'[r].stale = req[r].stale /\ UNCHANGED <<jar, mixed>> /\ req'[r].kind = req[r].kind
          /\ req'[r].token = req[r].token
          /\ req'[r].cookies = req[r].cookies /\ req[r].pc = "serve" /\ Matches(r)
      BY <2>11 DEF UpdateFound, TypeOK, Request, MatchInv
    <3>2. Matches(r)'
      BY <3>1 DEF Matches, Fresh, SignsIn
    <3> QED
      BY <3>1, <3>2, MatchOne
  <2>3. CASE DeleteTarget(r)
    <3>1. Answer(r, req[r].reply) /\ UNCHANGED <<jar, mixed>> /\ req[r].pc \in {"serve", "delete"} /\ Matches(r)
      BY <2>3 DEF DeleteTarget, MatchInv
    <3> QED
      BY <3>1, AnswerMatches DEF Matches
  <2>4. CASE RevokeAll(r)
    <3>1. Answer(r, Cleared) /\ UNCHANGED <<jar, mixed>>
      BY <2>4 DEF RevokeAll
    <3> QED
      BY <3>1, PlainAgrees, AnswerMatches
  <2>5. CASE RevokeOthers(r)
    <3>1. Answer(r, req[r].reply) /\ UNCHANGED <<jar, mixed>> /\ req[r].pc \in {"serve", "delete"} /\ Matches(r)
      BY <2>5 DEF RevokeOthers, MatchInv
    <3> QED
      BY <3>1, AnswerMatches DEF Matches
  <2>6. CASE SignOut(r)
    <3>1. Answer(r, Cleared) /\ UNCHANGED <<jar, mixed>>
      BY <2>6 DEF SignOut
    <3> QED
      BY <3>1, PlainAgrees, AnswerMatches
  <2>7. CASE CacheNewSession(r)
    <3> DEFINE j == jar[req[r].client]
               new == req'[r].reply
    <3>1. /\ Answer(r, new) /\ UNCHANGED <<jar, mixed>> /\ req[r].pc = "lookup"
          /\ Matches(r) /\ SignsIn(r) /\ req[r].token # None
          /\ Carries(new, req[r].reply, req[r].token, req[r].expires)
      BY <2>7, NewSessionEffect DEF MatchInv, StageInv
    <3>2. CASE new.data = None
      BY <3>1, <3>2, AnswerMatches
    <3>3. CASE new.data # None
      <4>1. new.data.token = req[r].token /\ new.token = req[r].token
        BY <3>1, <3>3 DEF Matches, Carries
      <4>2. Agree(TokenAfter(j, new), DataAfter(j, new))
        BY <3>1, <3>3, <4>1 DEF TokenAfter, DataAfter, Agree
      <4> QED
        BY <3>1, <4>2, AnswerMatches
    <3> QED
      BY <3>2, <3>3
  <2>8. CASE CacheNewSessionFails(r)
    <3>1. Answer(r, req[r].reply) /\ UNCHANGED <<jar, mixed>> /\ SignsIn(r) /\ req[r].reply.data = None
      BY <2>8 DEF CacheNewSessionFails, MatchInv, Matches, StageInv
    <3> QED
      BY <3>1, AnswerMatches
  <2>9. ASSUME NEW t \in Tokens, FindTarget(r, t) PROVE MatchInv'
    <3>1. /\ \A q \in Requests \ {r} : req'[q] = req[q]
          /\ req'[r].pc = "delete" /\ req'[r].reply = req[r].reply /\ req'[r].client = req[r].client
          /\ req'[r].stale = req[r].stale /\ UNCHANGED <<jar, mixed>> /\ req'[r].kind = req[r].kind
          /\ req'[r].cookies = req[r].cookies /\ req[r].pc = "serve" /\ Matches(r)
      BY <2>9 DEF FindTarget, TypeOK, Request, MatchInv
    <3>2. Matches(r)'
      BY <3>1 DEF Matches, Fresh, SignsIn
    <3> QED
      BY <3>1, <3>2, MatchOne
  <2>10. ASSUME NEW t \in Tokens, CreateSession(r, t) PROVE MatchInv'
    <3>1. /\ \A q \in Requests \ {r} : req'[q] = req[q]
          /\ req'[r].pc = "lookup" /\ req'[r].token = t /\ req'[r].client = req[r].client
          /\ req'[r].cookies = req[r].cookies /\ req'[r].stale = req[r].stale
          /\ req'[r].reply.token = t /\ req'[r].reply.data = None /\ ~req'[r].reply.clear
          /\ req[r].pc = "arrive"
      BY <2>10, CreateEffect
    <3>2. UNCHANGED <<jar, mixed>> /\ Matches(r)
      BY <2>10 DEF CreateSession, CreateWith, MatchInv
    <3>3. Matches(r)'
      BY <3>1, <3>2 DEF Matches, Fresh
    <3> QED
      BY <3>1, <3>2, <3>3, MatchOne
  <2> QED
    BY <1>8, <2>1, <2>2, <2>3, <2>4, <2>5, <2>6, <2>7, <2>8, <2>9, <2>10, <2>11 DEF Handle
<1> QED
  BY <1>1, <1>2, <1>3, <1>4, <1>5, <1>6, <1>7, <1>8 DEF Next, Browser

LEMMA InitIInv == Init => IInv
<1> SUFFICES ASSUME Init PROVE IInv
  OBVIOUS
<1>1. EmptyJar \in Jar /\ NoCookies \in Reply
  BY DEF EmptyJar, NoCookies, Jar, Reply, Token
<1>2. TypeOK
  BY <1>1, IdleType, TimeFacts, PlansAssumption DEF Init, TypeOK, Token
<1>3. \A r \in Requests : req[r] = Idle
  BY DEF Init
<1>4. StageInv /\ RevokedInv
  <2>1. Idle.pc = "idle" /\ Idle.revoked = FALSE
    BY DEF Idle
  <2>2. \A r \in Requests : req[r].pc = "idle" /\ req[r].revoked = FALSE
    BY <1>3, <2>1
  <2> QED
    BY <2>2 DEF StageInv, RevokedInv
<1>5. IssuedInv
  BY <1>3 DEF Init, IssuedInv, HeldIssued, JarIssued, TokenIssued, CopyIssued, Idle, EmptyJar, NoCookies
<1>6. BriefInv
  BY <1>3 DEF Init, BriefInv, Short, Idle, EmptyJar, NoCookies
<1>7. MatchInv
  <2>1. CacheMatchesToken
    BY DEF Init, CacheMatchesToken, EmptyJar
  <2>2. Idle.pc = "idle"
    BY DEF Idle
  <2> QED
    BY <1>3, <2>1, <2>2 DEF MatchInv, Matches
<1> QED
  BY <1>2, <1>4, <1>5, <1>6, <1>7 DEF IInv

LEMMA NextIInv == IInv /\ [Next]_vars => IInv'
BY TypeStep, StageStep, IssuedStep, BriefStep, RevokedStep, MatchStep DEF IInv

LEMMA Inductive == Spec => []IInv
<1>1. Init => IInv
  BY InitIInv
<1>2. IInv /\ [Next]_vars => IInv'
  BY NextIInv
<1> QED
  BY <1>1, <1>2, PTL DEF Spec

-----------------------------------------------------------------------------
(* Rows, cookies and the requests in flight keep their types through every *)
(* step of the handlers (resolveSession and the session routes).           *)
THEOREM TypeCorrect == Spec => []TypeOK
<1>1. IInv => TypeOK
  BY DEF IInv
<1> QED
  BY <1>1, Inductive, PTL

(* A revoked session stays revoked: the refresh of a request that read the *)
(* row before the revocation does not bring it back (refreshSession).      *)
THEOREM RevokedForGood == Spec => RevokedStaysRevoked
<1> DEFINE Returns == \E t \in Tokens : latest[t] # 0 /\ rows[t] = None /\ rows'[t] # None
<1>1. IInv /\ [Next]_vars => ~Returns
  BY RowsStep DEF IInv, RowsOnlyFall
<1>2. [~Returns]_vars => [\A t \in Tokens : latest[t] # 0 /\ rows[t] = None => rows'[t] = None]_vars
  OBVIOUS
<1> HIDE DEF Returns
<1> QED
  BY <1>1, <1>2, Inductive, PTL DEF Spec, RevokedStaysRevoked

(* A session created without rememberMe is never extended: dont_remember   *)
(* is in every request its token comes in (createSession, shouldRefresh).  *)
THEOREM BriefIsBrief == Spec => BriefNeverExtended
<1> DEFINE Extended == \E t \in Tokens : latest[t] # 0 /\ t \notin remember /\ rows'[t] \notin {rows[t], None}
<1>1. IInv /\ [Next]_vars => ~Extended
  BY RowsStep DEF IInv, RowsOnlyFall
<1>2. [~Extended]_vars =>
         [\A t \in Tokens : latest[t] # 0 /\ t \notin remember => rows'[t] \in {rows[t], None}]_vars
  OBVIOUS
<1> HIDE DEF Extended
<1> QED
  BY <1>1, <1>2, Inductive, PTL DEF Spec, BriefNeverExtended

(* With deferSessionRefresh no step of a GET writes the store, whatever    *)
(* the state of its session (resolveSession).                              *)
THEOREM DeferredGetsRead == Spec => DeferredGetsOnlyRead
<1> DEFINE Reads == \A r \in Requests :
                       ReadOnly(r) /\ req[r].pc # "idle" /\ req'[r].pc # req[r].pc => rows' = rows
<1>1. IInv /\ [Next]_vars => Reads
  BY DeferredStep DEF IInv, DeferredRead
<1>2. [Reads]_vars => [\A r \in Requests :
          ReadOnly(r) /\ req[r].pc # "idle" /\ req'[r].pc # req[r].pc => rows' = rows]_vars
  OBVIOUS
<1> HIDE DEF Reads
<1> QED
  BY <1>1, <1>2, Inductive, PTL DEF Spec, DeferredGetsOnlyRead

(* The cookie cache never serves a session beyond the latest expiry its     *)
(* row had, nor past the time its refresh falls due, a refresh counting with *)
(* the expiry it answered where a revocation overtook its write             *)
(* (sessionFromCache, refreshSession, UpdateSession of the SQL store).      *)
THEOREM CacheIsBounded == Spec => CacheServesUntilRefresh
<1>1. IInv /\ [Next]_vars => CacheServed
  BY CacheStep DEF IInv
<1>2. [CacheServed]_vars => [\A r \in Requests :
          req[r].pc = "arrive" /\ req'[r].pc = "serve" =>
              /\ now <= Promised(req'[r].token)
              /\ \/ ReadOnly(r) \/ ~MayRefresh(r)
                 \/ now < Promised(req'[r].token) - SessionExpires + UpdateAge]_vars
  BY DEF CacheServed
<1> QED
  BY <1>1, <1>2, Inductive, PTL DEF Spec, CacheServesUntilRefresh

(* An endpoint that turns the cookie cache off never serves a session that *)
(* was revoked before the request was sent (handleListSessions and the     *)
(* revoke handlers).                                                       *)
THEOREM SensitiveRefused == Spec => []SensitiveNeedsRow
<1>1. Init => SensitiveNeedsRow
  BY DEF Init, SensitiveNeedsRow, Idle
<1>2. IInv /\ SensitiveNeedsRow /\ [Next]_vars => SensitiveNeedsRow'
  BY SensitiveStep DEF IInv
<1> QED
  BY <1>1, <1>2, Inductive, PTL DEF Spec

(* The copy in session_data is of the session whose token the browser      *)
(* holds, but for answers that overtook one another and sign-ins that      *)
(* failed to cache (setSessionCache, DeleteSessionCookies).                *)
THEOREM CacheMatches == Spec => []CacheMatchesToken
<1>1. IInv => CacheMatchesToken
  BY DEF IInv, MatchInv
<1> QED
  BY <1>1, Inductive, PTL

=============================================================================
