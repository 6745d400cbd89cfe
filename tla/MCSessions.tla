----------------------------- MODULE MCSessions -----------------------------
(* Sessions with one browser of two tabs that signs in twice.              *)
EXTENDS Sessions, TLC

Symmetry == Permutations(Clients) \cup Permutations(Requests) \cup Permutations(Tokens)

(* The cache is on; with "noCache" a request sees the server without it.   *)
MCConfigs == [cookieCache : {TRUE}, deferRefresh : BOOLEAN, disableRefresh : {FALSE}]
MCQueries == {{}, {"noRefresh"}}

(* Three requests of any kind; and four: a sign-in, a refresh and a sign-out *)
(* that may overlap, and a request that the copy they left may serve.        *)
AnyThree == <<Kinds, Kinds, Kinds>>
Shadow   == <<{"signIn"}, {"get", "update"}, {"get", "update", "signOut"}, {"get", "update"}>>
MCPlans  == {AnyThree, Shadow}
ShortPlans == {AnyThree}
=============================================================================
