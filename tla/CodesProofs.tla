----------------------------- MODULE CodesProofs -----------------------------
(* Proofs about Codes, for any number of requests, addresses and allowed   *)
(* guesses, and whatever the database starts with.                         *)
EXTENDS Codes, TLAPS

(* Stages: those that hold a row, those that have accepted a code of an    *)
(* address, and those that act on a user.                                  *)
Writing  == {"create", "insert"}
Holding  == Writing \cup {"consume"}
Settling == {"findUser", "createUser", "checkFree", "linkSession", "changeEmail", "findPhone",
             "checkPhone", "setPhone", "createPhoneUser"}
ForUser  == Acting \cup {"checkFree", "linkSession", "changeEmail", "checkPhone", "setPhone", "markPhone",
                          "takeOff"}
Stages   == Holding \cup Settling \cup ForUser \cup {"lookup", "drop", "session", "rotate", "revoke"}

(* What request r holds at a stage.                                        *)
Form(r, c, stage) ==
    /\ stage \in Stages /\ c \in Held
    /\ stage = "takeOff" \/ c.id \in AnyId
    /\ stage \in Holding => c.row \in CodeRow /\ c.id \in StoredId /\ Text[c.row.id] = Text[c.id]
    /\ stage \in Writing =>
          /\ c.op \in {"send", "rotate", "save"}
          /\ c.op # "save" => c.row.code = r
          /\ c.op = "save" => c.row.id.kind \notin TokenKinds
    /\ stage = "consume" => /\ c.op \in {"redeem", "update"} /\ ~TooMany(c.row)
                            /\ c.op = "update" => c.id.kind = "phone"
    /\ stage = "findUser" => c.id.kind \in {"sign-in", "email-verification", "forget-password",
                                            "magic-link", "signed-link"}
    /\ stage = "createUser" => c.id.kind \in {"sign-in", "magic-link"}
    /\ stage \in {"checkFree", "linkSession", "changeEmail"} => c.id.kind \in {"change-email", "signed-link"}
    /\ stage \in {"findPhone", "checkPhone", "setPhone", "createPhoneUser"} => c.id.kind \in PhoneKinds
    /\ stage \in {"checkNew", "setEmail"} => c.id.kind = "core-change"
    /\ stage = "rotate" => c.user \in Users /\ c.op = "redeem"

(* Rows, users and requests have their form.                               *)
TypeOK ==
    /\ rows \subseteq CodeRow /\ links \subseteq SignedLink
    /\ user \in [Users -> Person \cup {None}]
    /\ byEmail \in [Emails \cup {TempEmail} -> Users \cup {None}]
    /\ pc \in [Requests -> Stages \cup {"idle", "done"}]
    /\ call \in [Requests -> Held \cup {None}]
    /\ \A r \in Requests : pc[r] \in {"idle", "done"} \/ Form(r, call[r], pc[r])
    /\ issued \in [CodeNames -> StoredId \cup {None}]
    /\ wrong \in [CodeNames -> Nat]
    /\ accepted \in [Requests -> [code : CodeNames, again : BOOLEAN, wrong : Nat] \cup {None}]

(* A code is of one identifier, a token's is its own, and one that is      *)
(* being made is nowhere yet.                                              *)
Making(r)  == pc[r] \in Writing /\ call[r].op # "save"
NotYet(r)  == pc[r] = "idle" \/ (pc[r] # "done" /\ call[r].op \notin {"send", "rotate"})
NamesInv ==
    /\ \A x \in rows : issued[x.code] = x.id
    /\ \A c \in dead : c \in CodeNames /\ issued[c] # None
    /\ \A c \in CodeNames : issued[c] # None /\ issued[c].kind \in TokenKinds => issued[c].of = c
    /\ \A r \in Requests : pc[r] \in Holding => issued[call[r].row.code] = call[r].row.id
    /\ \A r \in Requests : NotYet(r) => issued[r] = None
    /\ \A r \in Requests : Making(r) =>
          /\ r \notin dead /\ \A x \in rows : x.code # r
          /\ \A q \in Requests \ {r} : pc[q] \in Holding => call[q].row.code # r

(* A dead code is neither stored nor held nor was accepted, unless it was  *)
(* raced for or kept; two that hold one and of which one has deleted it    *)
(* have raced.                                                             *)
Known == raced \cup kept
DeadInv ==
    /\ CodeDies
    /\ \A r \in Requests : pc[r] \in Holding /\ call[r].row.code \in dead => call[r].row.code \in Known
    /\ \A r \in Requests : pc[r] = "insert" =>
          /\ \A x \in rows : x.code = call[r].row.code => x.code \in raced
          /\ \A q \in Requests \ {r} : pc[q] \in Holding /\ call[q].row.code = call[r].row.code =>
                call[q].row.code \in raced

(* A row counts the wrong guesses made at its code, unless it was raced for. *)
GuessInv ==
    /\ GuessesBounded
    /\ \A x \in rows : wrong[x.code] <= x.attempts \/ x.code \in raced
    /\ \A r \in Requests : pc[r] \in Holding =>
          \/ wrong[call[r].row.code] + (IF call[r].op = "save" THEN 1 ELSE 0) <= call[r].row.attempts
          \/ call[r].row.code \in raced
    /\ \A c \in CodeNames : issued[c] # None /\ issued[c].kind \in TokenKinds => wrong[c] = 0
    /\ \A r \in Requests : issued[r] = None => wrong[r] = 0

(* A request acts on the user its code or link proves the address of, or   *)
(* was misread as proving, or on one that somebody else has changed.       *)
Shown == proved \cup misread
Fit(c, stage) ==
    /\ stage \in Settling => c.id.to \in Shown
    /\ stage \in ForUser => c.user \in Existing
    /\ stage = "consume" /\ (c.id.kind = "change-email" \/ c.op = "update") => c.user \in Existing
    /\ stage = "mark" \/ (stage = "setPassword" /\ c.id.kind = "forget-password" /\ ~c.seen)
         => user[c.user].email \in Shown \/ c.user \in stale
    /\ stage = "markPhone" => user[c.user].phone \in Shown \/ c.user \in stale
    /\ stage = "setEmail" \/ (stage = "checkNew" /\ ~c.seen)
         => ~user[c.user].verified \/ c.user \in stale

ProvedInv ==
    /\ VerifiedMeansProved
    /\ \A e \in Emails \cup {TempEmail} : byEmail[e] # None =>
          byEmail[e] \in Existing /\ user[byEmail[e]].email = e
    /\ \A r \in Requests : user[r] # None => pc[r] \in {"mark", "session", "revoke", "done"}
    /\ \A r \in Requests : Fit(call[r], pc[r])

IInv == TypeOK /\ NamesInv /\ DeadInv /\ GuessInv /\ ProvedInv

-----------------------------------------------------------------------------
(* A request's step leaves what the others hold alone.                     *)
LEMMA KeepForm ==
    ASSUME TypeOK, NEW r \in Requests, NEW c, NEW stage, Keep(r, c, stage),
           (stage = "done" /\ c \in Held \cup {None}) \/ Form(r, c, stage)
    PROVE  /\ pc' \in [Requests -> Stages \cup {"idle", "done"}]
           /\ call' \in [Requests -> Held \cup {None}]
           /\ \A q \in Requests : pc'[q] \in {"idle", "done"} \/ Form(q, call'[q], pc'[q])
           /\ pc'[r] = stage /\ call'[r] = c
           /\ \A q \in Requests \ {r} : pc'[q] = pc[q] /\ call'[q] = call[q]
<1>1. /\ pc'[r] = stage /\ call'[r] = c
      /\ \A q \in Requests \ {r} : pc'[q] = pc[q] /\ call'[q] = call[q]
  BY DEF TypeOK, Keep
<1>2. \A q \in Requests : pc'[q] \in {"idle", "done"} \/ Form(q, call'[q], pc'[q])
  BY <1>1 DEF TypeOK
<1>3. stage \in Stages \cup {"done"} /\ c \in Held \cup {None}
  BY DEF Form
<1> QED
  BY <1>1, <1>2, <1>3 DEF TypeOK, Keep

LEMMA GoKeep ==
    ASSUME TypeOK, NEW r \in Requests, NEW stage, Go(r, stage)
    PROVE  Keep(r, call[r], stage)
BY DEF TypeOK, Go, Keep

LEMMA FormAt ==
    ASSUME IInv, NEW r \in Requests, pc[r] \notin {"idle", "done"}
    PROVE  Form(r, call[r], pc[r]) /\ call[r] \in Held
BY DEF IInv, TypeOK, Form

LEMMA PersonForm ==
    ASSUME IInv, NEW u \in Existing
    PROVE  user[u] \in Person /\ u \in Users
BY DEF IInv, TypeOK, Existing

(* A step that writes no row and accepts no code.                          *)
CodesQuiet == UNCHANGED <<rows, issued, accepted, dead, wrong, raced, kept>>

LEMMA CodesKeep ==
    ASSUME IInv, NEW r \in Requests, NEW c, NEW stage, Keep(r, c, stage),
           stage \notin Holding \cup {"idle"},
           stage = "done" \/ c.op \in {"send", "rotate"} \/ issued[r] = None,
           CodesQuiet
    PROVE  NamesInv' /\ DeadInv' /\ GuessInv'
<1>1. /\ pc'[r] = stage /\ call'[r] = c
      /\ \A q \in Requests \ {r} : pc'[q] = pc[q] /\ call'[q] = call[q]
  BY DEF IInv, TypeOK, Keep
<1>2. /\ \A q \in Requests : pc'[q] \in Holding => q # r /\ pc'[q] = pc[q] /\ call'[q] = call[q]
      /\ \A q \in Requests : Making(q)' => q # r /\ Making(q)
      /\ \A q \in Requests : NotYet(q)' => NotYet(q) \/ issued[q] = None
      /\ "insert" \in Holding
  BY <1>1 DEF Making, NotYet, Holding, Writing
<1>3. NamesInv'
  BY <1>1, <1>2 DEF IInv, NamesInv, CodesQuiet
<1>4. DeadInv'
  BY <1>1, <1>2 DEF IInv, DeadInv, CodeDies, Known, CodesQuiet
<1>5. GuessInv'
  BY <1>1, <1>2 DEF IInv, GuessInv, GuessesBounded, CodesQuiet
<1> QED BY <1>3, <1>4, <1>5

(* A step that changes no user.                                            *)
UsersQuiet == UNCHANGED <<user, byEmail, stale>> /\ proved \subseteq proved' /\ misread \subseteq misread'

LEMMA UsersKeep ==
    ASSUME IInv, NEW r \in Requests, NEW c, NEW stage, Keep(r, c, stage),
           Fit(c, stage)', user[r] = None \/ stage \in {"mark", "session", "revoke", "done"},
           UsersQuiet
    PROVE  ProvedInv'
<1>1. /\ pc'[r] = stage /\ call'[r] = c
      /\ \A q \in Requests \ {r} : pc'[q] = pc[q] /\ call'[q] = call[q]
  BY DEF IInv, TypeOK, Keep
<1>2. Existing' = Existing /\ UNCHANGED <<user, byEmail, stale>> /\ Shown \subseteq Shown'
  BY DEF UsersQuiet, Existing, Shown
<1>3. VerifiedMeansProved'
  BY <1>2 DEF Shown, IInv, ProvedInv, VerifiedMeansProved
<1>4. \A q \in Requests : Fit(call[q], pc[q])'
  <2>1. Fit(call[r], pc[r])'
    BY <1>1 DEF Fit
  <2>2. ASSUME NEW q \in Requests \ {r} PROVE Fit(call[q], pc[q])'
    BY <1>1, <1>2 DEF IInv, ProvedInv, Fit
  <2> QED BY <2>1, <2>2
<1> QED
  BY <1>1, <1>2, <1>3, <1>4 DEF IInv, ProvedInv

(* So both together keep the invariant.                                    *)
LEMMA QuietKeeps ==
    ASSUME IInv, NEW r \in Requests, NEW c, NEW stage, Keep(r, c, stage),
           (stage = "done" /\ c \in Held \cup {None}) \/ Form(r, c, stage),
           stage \notin Holding \cup {"idle"},
           stage = "done" \/ c.op \in {"send", "rotate"} \/ issued[r] = None,
           CodesQuiet, Fit(c, stage)', user[r] = None \/ stage \in {"mark", "session", "revoke", "done"},
           UsersQuiet, links' \subseteq SignedLink
    PROVE  IInv'
<1>1. TypeOK'
  BY KeepForm DEF IInv, TypeOK, CodesQuiet, UsersQuiet
<1> QED
  BY <1>1, CodesKeep, UsersKeep DEF IInv

LEMMA StopKeeps ==
    ASSUME IInv, NEW r \in Requests, Return(r), CodesQuiet, UsersQuiet, links' \subseteq SignedLink
    PROVE  IInv'
<1>1. Keep(r, None, "done") /\ Fit(None, "done")'
  BY DEF Return, Fit, Settling, ForUser, Acting
<1> QED
  BY <1>1, QuietKeeps DEF Holding, Writing

-----------------------------------------------------------------------------
(* Making a code: its name is new.                                         *)
LEMMA AskForm ==
    ASSUME NEW op, NEW id \in AnyId \cup {None}, NEW x \in CodeRow \cup {None}, NEW u \in Users \cup {None},
           op \in {"send", "rotate", "save", "redeem", "update", "check", "clear", "signIn", "change"}
    PROVE  /\ Ask(op, id, x, u) \in Held
           /\ Ask(op, id, x, u).op = op /\ Ask(op, id, x, u).id = id
           /\ Ask(op, id, x, u).row = x /\ Ask(op, id, x, u).user = u
BY DEF Ask, Held

LEMMA NewRowKeeps ==
    ASSUME IInv, NEW r \in Requests, NEW op \in {"send", "rotate"}, NEW id \in StoredId,
           NEW u \in Users \cup {None}, pc[r] \in {"idle", "rotate"}, NewRow(r, op, id, u),
           id.kind \in TokenKinds => id.of = r
    PROVE  IInv'
<1>1. PICK c : /\ c = Ask(op, id, Row(id, r, 0), u) /\ Keep(r, c, "create")
               /\ issued' = [issued EXCEPT ![r] = id]
               /\ UNCHANGED <<store, accepted, dead, wrong, raced, kept, proved, misread, stale>>
  BY DEF NewRow, Only
<1>2. Row(id, r, 0) \in CodeRow /\ Row(id, r, 0).code = r /\ Row(id, r, 0).attempts = 0 /\ Row(id, r, 0).id = id
  BY DEF Row, CodeRow, CodeNames
<1>3. /\ c \in Held /\ c.op = op /\ c.id = id
      /\ c.row \in CodeRow /\ c.row.code = r /\ c.row.attempts = 0 /\ c.row.id = id /\ c.id \in AnyId
  BY <1>1, <1>2, AskForm DEF AnyId
<1>4. Form(r, c, "create")
  BY <1>3 DEF Form, Stages, Holding, Writing, Settling, ForUser, Acting
<1>5. UNCHANGED <<rows, user, byEmail, sessions, links, accepted, dead, wrong, raced, kept, proved,
                  misread, stale>>
  BY <1>1 DEF store
<1>6. /\ pc'[r] = "create" /\ call'[r] = c
      /\ \A q \in Requests \ {r} : pc'[q] = pc[q] /\ call'[q] = call[q]
  BY <1>1, <1>4, KeepForm DEF IInv
<1>7. r \in CodeNames /\ id # None
  BY NameAssumption DEF CodeNames, AnyId
<1>8. issued[r] = None
  <2>1. pc[r] = "rotate" => call[r].op = "redeem"
    BY FormAt DEF Form
  <2> QED
    BY <2>1 DEF IInv, NamesInv, NotYet
<1>9. TypeOK'
  BY <1>1, <1>4, <1>5, KeepForm DEF IInv, TypeOK
<1>10. issued'[r] = id /\ \A d \in CodeNames \ {r} : issued'[d] = issued[d]
  BY <1>1, <1>7 DEF IInv, TypeOK
<1>11. /\ \A x \in rows : x.code \in CodeNames \ {r}
       /\ \A d \in dead : d \in CodeNames \ {r}
       /\ \A q \in Requests : pc[q] \in Holding => q # r /\ call[q].row.code \in CodeNames \ {r}
  <2>1. \A x \in rows : x.code \in CodeNames /\ x.id # None
    BY NameAssumption DEF IInv, TypeOK, CodeRow, AnyId
  <2>2. \A q \in Requests : pc[q] \in Holding =>
            q # r /\ call[q].row.code \in CodeNames /\ call[q].row.id # None
    <3> TAKE q \in Requests
    <3> HAVE pc[q] \in Holding
    <3>1. Form(q, call[q], pc[q]) /\ call[q].row \in CodeRow /\ call[q].row.id \in AnyId
      BY FormAt DEF Form, Holding, Writing, CodeRow, AnyId
    <3> QED
      BY <3>1, NameAssumption DEF CodeRow, Holding, Writing
  <2> QED
    BY <1>8, <2>1, <2>2 DEF IInv, NamesInv
<1>12. \A q \in Requests \ {r} : /\ Making(q)' <=> Making(q)
                                 /\ NotYet(q)' <=> NotYet(q)
  BY <1>6 DEF Making, NotYet
<1>13. NamesInv'
  <2>1. ~NotYet(r)'
    BY <1>3, <1>6 DEF NotYet
  <2>2. /\ \A q \in Requests : NotYet(q)' => issued'[q] = None
        /\ \A d \in CodeNames : issued'[d] # None /\ issued'[d].kind \in TokenKinds => issued'[d].of = d
    BY <1>10, <1>12, <2>1 DEF IInv, NamesInv, CodeNames
  <2>3. \A q \in Requests : pc'[q] \in Holding => issued'[call'[q].row.code] = call'[q].row.id
    BY <1>3, <1>6, <1>10, <1>11 DEF IInv, NamesInv
  <2>4. \A x \in rows : issued'[x.code] = x.id
    BY <1>10, <1>11 DEF IInv, NamesInv
  <2>5. \A d \in dead : d \in CodeNames /\ issued'[d] # None
    BY <1>10, <1>11 DEF IInv, NamesInv
  <2>6. \A q \in Requests : Making(q)' =>
          /\ q \notin dead /\ \A x \in rows : x.code # q
          /\ \A o \in Requests \ {q} : pc'[o] \in Holding => call'[o].row.code # q
    <3>1. CASE TRUE /\ \A q \in Requests : Making(q) => q # r
      BY <1>3, <1>6, <1>11, <1>12, <3>1 DEF IInv, NamesInv
    <3>2. ~Making(r)
      BY DEF Making, Writing
    <3> QED BY <3>1, <3>2
  <2> QED
    BY <1>5, <2>2, <2>3, <2>4, <2>5, <2>6 DEF NamesInv
<1>14. DeadInv'
  <2>1. /\ \A q \in Requests : pc'[q] \in Holding => q = r \/ pc[q] \in Holding
        /\ \A q \in Requests : pc'[q] = "insert" => q # r /\ pc[q] = "insert" /\ pc[q] \in Holding
    BY <1>6 DEF Holding, Writing
  <2>2. \A q \in Requests : pc'[q] \in Holding /\ call'[q].row.code \in dead => call'[q].row.code \in Known
    BY <1>3, <1>6, <1>11, <2>1 DEF IInv, DeadInv
  <2>3. \A q \in Requests : pc'[q] = "insert" =>
          /\ \A x \in rows : x.code = call'[q].row.code => x.code \in raced
          /\ \A o \in Requests \ {q} : pc'[o] \in Holding /\ call'[o].row.code = call'[q].row.code =>
                call'[o].row.code \in raced
    BY <1>3, <1>6, <1>11, <2>1 DEF IInv, DeadInv
  <2> QED
    BY <1>5, <2>2, <2>3 DEF IInv, DeadInv, CodeDies, Known
<1>15. GuessInv'
  <2>1. wrong[r] = 0
    BY <1>8 DEF IInv, GuessInv
  <2>2. \A q \in Requests : pc'[q] \in Holding =>
          \/ wrong[call'[q].row.code] + (IF call'[q].op = "save" THEN 1 ELSE 0) <= call'[q].row.attempts
          \/ call'[q].row.code \in raced
    BY <1>3, <1>6, <2>1 DEF IInv, GuessInv
  <2>3. \A d \in CodeNames : issued'[d] # None /\ issued'[d].kind \in TokenKinds => wrong[d] = 0
    BY <1>10, <2>1 DEF IInv, GuessInv
  <2>4. \A q \in Requests : issued'[q] = None => wrong[q] = 0
    BY <1>10, <2>1 DEF IInv, GuessInv, CodeNames
  <2> QED
    BY <1>5, <2>2, <2>3, <2>4 DEF IInv, GuessInv, GuessesBounded
<1>16. ProvedInv'
  <2>1. Fit(c, "create")'
    BY DEF Fit, Settling, ForUser, Acting
  <2>2. user[r] = None
    BY DEF IInv, ProvedInv
  <2> QED
    BY <1>1, <1>5, <2>1, <2>2, UsersKeep DEF UsersQuiet
<1> QED
  BY <1>9, <1>13, <1>14, <1>15, <1>16 DEF IInv

(* Reading a row: whoever holds a copy knows what its row knows.           *)
LEMMA CopyKeeps ==
    ASSUME IInv, NEW r \in Requests, NEW c, NEW stage, NEW x \in rows, Keep(r, c, stage), Form(r, c, stage),
           pc[r] = "idle", c.row.id = x.id, c.row.code = x.code,
           \/ stage = "create" /\ c.op = "save" /\ c.row.attempts = x.attempts + 1
           \/ stage = "consume" /\ c.op \in {"redeem", "update"} /\ c.row.attempts = x.attempts,
           CodesQuiet, Fit(c, stage)', UsersQuiet, UNCHANGED links
    PROVE  IInv'
<1>1. /\ pc'[r] = stage /\ call'[r] = c
      /\ \A q \in Requests \ {r} : pc'[q] = pc[q] /\ call'[q] = call[q]
  BY KeepForm DEF IInv
<1>2. TypeOK'
  BY KeepForm DEF IInv, TypeOK, CodesQuiet, UsersQuiet
<1>3. /\ \A q \in Requests : Making(q)' => q # r /\ Making(q)
      /\ \A q \in Requests : NotYet(q)' => NotYet(q)
      /\ stage # "insert"
  BY <1>1 DEF Making, NotYet, Writing
<1>4. NamesInv'
  BY <1>1, <1>3 DEF IInv, NamesInv, CodesQuiet
<1>5. DeadInv'
  BY <1>1, <1>3 DEF IInv, DeadInv, CodeDies, Known, CodesQuiet
<1>6. GuessInv'
  <2>1. x.attempts \in Nat /\ wrong[x.code] \in Nat
    BY DEF IInv, TypeOK, CodeRow
  <2>2. \/ wrong[c.row.code] + (IF c.op = "save" THEN 1 ELSE 0) <= c.row.attempts
        \/ c.row.code \in raced
    BY <2>1 DEF IInv, GuessInv
  <2> QED
    BY <1>1, <2>2 DEF IInv, GuessInv, GuessesBounded, CodesQuiet
<1>7. ProvedInv'
  <2>1. user[r] = None
    BY DEF IInv, ProvedInv
  <2> QED
    BY <2>1, UsersKeep
<1> QED
  BY <1>2, <1>4, <1>5, <1>6, <1>7 DEF IInv

LEMMA AttemptKeeps ==
    ASSUME IInv, NEW r \in Requests, pc[r] = "idle", NEW op \in {"redeem", "update", "check"},
           NEW id \in StoredId, NEW g, NEW u \in Existing \cup {None}, Attempt(r, op, id, g, u),
           id.kind \in TokenKinds => g = id.of,
           op = "update" => id.kind = "phone",
           op # "check" /\ (id.kind = "change-email" \/ op = "update") => u \in Existing
    PROVE  IInv'
<1>1. PICK x \in At(id) :
       \/ /\ x.lapsed \/ TooMany(x)
          /\ Keep(r, Ask(op, id, x, u), "drop")
          /\ Only(<<store, ghosts>>)
       \/ /\ ~x.lapsed /\ ~TooMany(x) /\ g # x.code
          /\ Keep(r, Ask("save", id, [x EXCEPT !.attempts = @ + 1], u), "create")
          /\ Only(<<store, ghosts>>)
       \/ /\ ~x.lapsed /\ ~TooMany(x) /\ g = x.code /\ op # "check"
          /\ Keep(r, Ask(op, id, x, u), "consume")
          /\ Only(<<store, ghosts>>)
       \/ /\ ~x.lapsed /\ ~TooMany(x) /\ g = x.code /\ op = "check"
          /\ Accept(r, g) /\ Return(r)
          /\ Only(<<store, issued, dead, wrong, raced, kept, misread, stale>>)
  BY DEF Attempt
<1>2. /\ x \in rows /\ x \in CodeRow /\ Text[x.id] = Text[id] /\ u \in Users \cup {None} /\ id \in AnyId
      /\ issued[r] = None /\ user[r] = None
  BY DEF At, IInv, TypeOK, Existing, AnyId, NamesInv, NotYet, ProvedInv
<1>token. x.id.kind \in TokenKinds => g = x.code
  <2>1. x.id \in StoredId /\ x.code \in CodeNames /\ issued[x.code] = x.id /\ x.id # None
    BY <1>2, NameAssumption DEF IInv, NamesInv, CodeRow, AnyId
  <2>2. x.id.kind \in TokenKinds => x.id = id
    BY <1>2, <2>1, TextAssumption
  <2> QED
    BY <2>1, <2>2 DEF IInv, NamesInv
<1>3. Only(<<store, ghosts>>) => CodesQuiet /\ UsersQuiet /\ UNCHANGED links
  BY DEF Only, store, ghosts, CodesQuiet, UsersQuiet
<1>4. CASE Keep(r, Ask(op, id, x, u), "drop") /\ Only(<<store, ghosts>>)
  <2>1. PICK c : c = Ask(op, id, x, u) /\ c \in Held /\ c.id = id
    BY <1>2, AskForm
  <2>2. Form(r, c, "drop")
    BY <1>2, <2>1 DEF Form, Stages, Holding, Writing, Settling, ForUser, Acting
  <2>3. Fit(c, "drop")'
    BY DEF Fit, Settling, ForUser, Acting
  <2>4. links' \subseteq SignedLink
    BY <1>3, <1>4 DEF IInv, TypeOK
  <2> QED
    BY <1>2, <1>3, <1>4, <2>1, <2>2, <2>3, <2>4, QuietKeeps DEF Holding, Writing
<1>5. ASSUME ~TooMany(x), g # x.code, Keep(r, Ask("save", id, [x EXCEPT !.attempts = @ + 1], u), "create"),
             Only(<<store, ghosts>>)
      PROVE  IInv'
  <2>1. PICK y : y = [x EXCEPT !.attempts = @ + 1] /\ y \in CodeRow /\ y.id = x.id /\ y.code = x.code
                 /\ y.attempts = x.attempts + 1
    <3>1. PICK n \in Nat : n = x.attempts + 1
      BY <1>2 DEF CodeRow
    <3>2. [x EXCEPT !.attempts = n] \in CodeRow
      BY <1>2 DEF CodeRow
    <3> QED
      BY <1>2, <3>1, <3>2 DEF CodeRow
  <2>2. PICK c : c = Ask("save", id, y, u) /\ c \in Held /\ c.op = "save" /\ c.id = id /\ c.row = y
    BY <1>2, <2>1, AskForm
  <2>3. Form(r, c, "create")
    BY <1>2, <1>5, <1>token, <2>1, <2>2 DEF Form, Stages, Holding, Writing, Settling, ForUser, Acting
  <2>4. Fit(c, "create")'
    BY DEF Fit, Settling, ForUser, Acting
  <2>5. Keep(r, c, "create")
    BY <1>5, <2>1, <2>2
  <2> QED
    BY <1>2, <1>3, <1>5, <2>1, <2>2, <2>3, <2>4, <2>5, CopyKeeps
<1>6. ASSUME ~TooMany(x), op # "check", Keep(r, Ask(op, id, x, u), "consume"), Only(<<store, ghosts>>)
      PROVE  IInv'
  <2>1. PICK c : c = Ask(op, id, x, u) /\ c \in Held /\ c.op = op /\ c.id = id /\ c.row = x /\ c.user = u
    BY <1>2, AskForm
  <2>2. Form(r, c, "consume")
    BY <1>2, <1>6, <2>1 DEF Form, Stages, Holding, Writing, Settling, ForUser, Acting
  <2>3. Fit(c, "consume")'
    <3>1. Existing' = Existing
      BY <1>3, <1>6 DEF Existing, UsersQuiet
    <3> QED
      BY <1>6, <2>1, <3>1 DEF Fit, Settling, ForUser, Acting
  <2> QED
    BY <1>2, <1>3, <1>6, <2>1, <2>2, <2>3, CopyKeeps
<1>7. ASSUME ~TooMany(x), g = x.code, op = "check", Accept(r, g), Return(r),
             Only(<<store, issued, dead, wrong, raced, kept, misread, stale>>)
      PROVE  IInv'
  <2>1. PICK d : /\ d = [code |-> x.code, again |-> x.code \in dead, wrong |-> wrong[x.code]]
                 /\ accepted' = [accepted EXCEPT ![r] = d]
    BY <1>7 DEF Accept
  <2>2. d \in [code : CodeNames, again : BOOLEAN, wrong : Nat]
    BY <1>2, <2>1 DEF IInv, TypeOK, CodeRow
  <2>3. /\ UNCHANGED <<rows, user, byEmail, links, issued, dead, wrong, raced, kept, misread, stale>>
        /\ proved \subseteq proved'
    BY <1>7 DEF Only, store, Accept
  <2>4. Keep(r, None, "done")
    BY <1>7 DEF Return
  <2>5. /\ pc'[r] = "done" /\ call'[r] = None
        /\ \A q \in Requests \ {r} : pc'[q] = pc[q] /\ call'[q] = call[q]
    BY <2>4, KeepForm DEF IInv
  <2>6. TypeOK'
    BY <2>1, <2>2, <2>3, <2>4, KeepForm DEF IInv, TypeOK
  <2>7. /\ \A q \in Requests : Making(q)' => q # r /\ Making(q)
        /\ \A q \in Requests : NotYet(q)' => NotYet(q)
        /\ "done" \notin Holding /\ "insert" \in Holding
        /\ \A q \in Requests : accepted'[q] = IF q = r THEN d ELSE accepted[q]
    BY <2>1, <2>5 DEF IInv, TypeOK, Making, NotYet, Holding, Writing
  <2>8. NamesInv'
    BY <2>3, <2>5, <2>7 DEF IInv, NamesInv
  <2>9. DeadInv'
    <3>1. d.again => d.code \in raced \cup kept
      BY <1>2, <2>1 DEF IInv, DeadInv, CodeDies
    <3> QED
      BY <2>3, <2>5, <2>7, <3>1 DEF IInv, DeadInv, CodeDies, Known
  <2>10. GuessInv'
    <3>1. d.wrong < AllowedAttempts \/ d.code \in raced
      <4>1. x.attempts \in Nat /\ wrong[x.code] \in Nat /\ AllowedAttempts \in Nat \ {0} /\ x.code \in CodeNames
        BY <1>2, OptionAssumption DEF IInv, TypeOK, CodeRow
      <4>2. CASE x.id.kind \in TokenKinds
        <5>1. issued[x.code] = x.id /\ x.id # None
          BY <1>2, NameAssumption DEF IInv, NamesInv, CodeRow, AnyId
        <5>2. wrong[x.code] = 0
          BY <4>1, <4>2, <5>1 DEF IInv, GuessInv
        <5> QED
          BY <2>1, <4>1, <5>2
      <4>3. CASE x.id.kind \notin TokenKinds
        <5>1. x.attempts < AllowedAttempts
          BY <1>2, <1>7, <4>1, <4>3 DEF TooMany
        <5>2. wrong[x.code] <= x.attempts \/ x.code \in raced
          BY <1>2 DEF IInv, GuessInv
        <5> QED
          BY <2>1, <4>1, <5>1, <5>2
      <4> QED BY <4>2, <4>3
    <3> QED
      BY <2>3, <2>5, <2>7, <3>1 DEF IInv, GuessInv, GuessesBounded
  <2>11. ProvedInv'
    <3>1. Fit(None, "done")'
      BY DEF Fit, Settling, ForUser, Acting
    <3> QED
      BY <2>3, <2>4, <3>1, UsersKeep DEF UsersQuiet
  <2> QED
    BY <2>6, <2>8, <2>9, <2>10, <2>11 DEF IInv
<1> QED
  BY <1>1, <1>4, <1>5, <1>6, <1>7

-----------------------------------------------------------------------------
(* Whoever holds a row holds a code of an identifier that reads like its.  *)
LEMMA HeldCode ==
    ASSUME IInv, NEW q \in Requests, pc[q] \in Holding
    PROVE  /\ call[q].row \in CodeRow /\ call[q].row.code \in CodeNames /\ call[q].row.attempts \in Nat
           /\ issued[call[q].row.code] = call[q].row.id /\ call[q].row.id # None
           /\ Text[call[q].row.id] = Text[call[q].id] /\ call[q].id \in StoredId
           /\ pc[q] \in Writing /\ ~Making(q) => call[q].op = "save"
           /\ Making(q) => call[q].row.code = q
           /\ pc[q] = "consume" => call[q].op \in {"redeem", "update"}
<1>1. Form(q, call[q], pc[q])
  BY FormAt DEF Holding, Writing
<1>2. /\ call[q].row \in CodeRow /\ call[q].row.id \in AnyId
      /\ Text[call[q].row.id] = Text[call[q].id] /\ call[q].id \in StoredId
      /\ pc[q] \in Writing => call[q].op \in {"send", "rotate", "save"}
      /\ pc[q] \in Writing /\ call[q].op # "save" => call[q].row.code = q
      /\ pc[q] = "consume" => call[q].op \in {"redeem", "update"}
  BY <1>1 DEF Form, CodeRow, AnyId
<1> QED
  BY <1>2, NameAssumption DEF CodeRow, Making, IInv, NamesInv

LEMMA PutFacts ==
    ASSUME IInv, NEW r \in Requests, NEW id, NEW new, NEW goesOn, Put(r, id, new, goesOn)
    PROVE  /\ rows' = (rows \ At(id)) \cup new
           /\ dead \subseteq dead' /\ raced \subseteq raced'
           /\ \A d \in dead' \ dead : /\ d \in CodeNames /\ d \notin goesOn /\ Text[issued[d]] = Text[id]
                                      /\ issued[d] # None
                                      /\ \E x \in At(id) : x.code = d
                                      /\ \A q \in Requests : Making(q) => d # q
           /\ \A q \in Requests \ {r} :
                 pc[q] \in {"create", "consume"} /\ call[q].op # "send" /\ Text[call[q].id] = Text[id] =>
                     call[q].row.code \in raced'
<1>1. /\ rows' = (rows \ At(id)) \cup new
      /\ dead' = dead \cup ({x.code : x \in At(id)} \ goesOn)
      /\ raced' = raced \cup {call[q].row.code : q \in HoldingCopy(id) \ {r}}
  BY DEF Put
<1>2. \A d \in dead' \ dead : d \notin goesOn /\ \E x \in At(id) : x.code = d
  BY <1>1
<1>3. \A x \in At(id) : /\ x \in rows /\ x \in CodeRow /\ Text[x.id] = Text[id]
                        /\ x.code \in CodeNames /\ issued[x.code] = x.id /\ x.id # None
  BY NameAssumption DEF At, IInv, TypeOK, NamesInv, CodeRow, AnyId
<1>4. \A x \in At(id), q \in Requests : Making(q) => x.code # q
  BY <1>3 DEF IInv, NamesInv
<1>5. \A q \in Requests \ {r} :
         pc[q] \in {"create", "consume"} /\ call[q].op # "send" /\ Text[call[q].id] = Text[id] =>
            call[q].row.code \in raced'
  BY <1>1 DEF HoldingCopy
<1> QED
  BY <1>1, <1>2, <1>3, <1>4, <1>5

(* Two that hold the same code: each knows when the other deletes it.      *)
LEMMA PutRaces ==
    ASSUME IInv, NEW r \in Requests, NEW id, NEW new, NEW goesOn, Put(r, id, new, goesOn),
           NEW q \in Requests \ {r}, pc[q] \in Holding, NEW d, call[q].row.code = d,
           Text[issued[d]] = Text[id], \E x \in rows : x.code = d
    PROVE  d \in raced'
<1>1. Text[call[q].id] = Text[id]
  BY HeldCode
<1>2. CASE pc[q] = "insert"
  BY <1>2, PutFacts DEF IInv, DeadInv
<1>3. CASE pc[q] \in {"create", "consume"}
  <2>1. ~Making(q)
    BY HeldCode DEF IInv, NamesInv
  <2>2. call[q].op # "send"
    BY <1>3, <2>1, HeldCode DEF Making, Writing
  <2> QED
    BY <1>1, <1>3, <2>2, PutFacts
<1> QED
  BY <1>2, <1>3 DEF Holding, Writing

(* A step that ends codes and writes no row.                               *)
Sound(d) ==
    /\ d \in [code : CodeNames, again : BOOLEAN, wrong : Nat]
    /\ d.again => d.code \in Known
    /\ d.wrong < AllowedAttempts \/ d.code \in raced

LEMMA EndKeeps ==
    ASSUME IInv, NEW r \in Requests, NEW c, NEW stage, Keep(r, c, stage),
           stage \notin Holding \cup {"idle"},
           stage = "done" \/ c.op \in {"send", "rotate"} \/ issued[r] = None,
           rows' \subseteq rows, dead \subseteq dead', raced \subseteq raced', kept \subseteq kept',
           \A d \in dead' \ dead :
              /\ d \in CodeNames /\ issued[d] # None
              /\ \A q \in Requests : Making(q) => d # q
              /\ \/ d \in kept'
                 \/ /\ \A x \in rows' : x.code # d
                    /\ \A q \in Requests \ {r} : pc[q] \in Holding /\ call[q].row.code = d => d \in raced',
           \A q \in Requests : accepted'[q] = accepted[q] \/ Sound(accepted'[q]),
           UNCHANGED <<issued, wrong>>
    PROVE  NamesInv' /\ DeadInv' /\ GuessInv'
<1>1. /\ pc'[r] = stage /\ call'[r] = c
      /\ \A q \in Requests \ {r} : pc'[q] = pc[q] /\ call'[q] = call[q]
  BY DEF IInv, TypeOK, Keep
<1>2. /\ \A q \in Requests : pc'[q] \in Holding => q # r /\ pc'[q] = pc[q] /\ call'[q] = call[q]
      /\ \A q \in Requests : Making(q)' => q # r /\ Making(q)
      /\ \A q \in Requests : NotYet(q)' => NotYet(q) \/ issued[q] = None
      /\ "insert" \in Holding
  BY <1>1 DEF Making, NotYet, Holding, Writing
<1>3. NamesInv'
  BY <1>1, <1>2 DEF IInv, NamesInv
<1>4. DeadInv'
  <2>1. \A x \in rows' : x.code \in dead' => x.code \in Known'
    BY DEF IInv, DeadInv, CodeDies, Known
  <2>2. \A q \in Requests : accepted'[q] # None /\ accepted'[q].again => accepted'[q].code \in Known'
    BY DEF IInv, DeadInv, CodeDies, Known, Sound
  <2>3. \A q \in Requests : pc'[q] \in Holding /\ call'[q].row.code \in dead' => call'[q].row.code \in Known'
    BY <1>2 DEF IInv, DeadInv, Known
  <2>4. \A q \in Requests : pc'[q] = "insert" =>
          /\ \A x \in rows' : x.code = call'[q].row.code => x.code \in raced'
          /\ \A o \in Requests \ {q} : pc'[o] \in Holding /\ call'[o].row.code = call'[q].row.code =>
                call'[o].row.code \in raced'
    BY <1>2 DEF IInv, DeadInv
  <2> QED
    BY <2>1, <2>2, <2>3, <2>4 DEF DeadInv, CodeDies, Known
<1>5. GuessInv'
  <2>1. \A q \in Requests : accepted'[q] # None =>
           accepted'[q].wrong < AllowedAttempts \/ accepted'[q].code \in raced'
    BY DEF IInv, GuessInv, GuessesBounded, Sound
  <2> QED
    BY <1>1, <1>2, <2>1 DEF IInv, GuessInv, GuessesBounded
<1> QED BY <1>3, <1>4, <1>5

LEMMA PutOut ==
    ASSUME IInv, NEW r \in Requests, NEW c, NEW stage, Keep(r, c, stage),
           stage \notin Holding \cup {"idle"},
           stage = "done" \/ c.op \in {"send", "rotate"} \/ issued[r] = None,
           NEW id, Put(r, id, {}, {}), kept \subseteq kept',
           \A q \in Requests : accepted'[q] = accepted[q] \/ Sound(accepted'[q]),
           UNCHANGED <<issued, wrong>>
    PROVE  rows' \subseteq rows /\ NamesInv' /\ DeadInv' /\ GuessInv'
<1>1. /\ rows' \subseteq rows /\ dead \subseteq dead' /\ raced \subseteq raced'
      /\ \A d \in dead' \ dead : /\ d \in CodeNames /\ Text[issued[d]] = Text[id] /\ issued[d] # None
                                 /\ \E x \in rows : x.code = d
                                 /\ \A q \in Requests : Making(q) => d # q
                                 /\ \A x \in rows' : x.code # d
  BY PutFacts DEF IInv, NamesInv, At
<1>2. \A d \in dead' \ dead : \A q \in Requests \ {r} :
         pc[q] \in Holding /\ call[q].row.code = d => d \in raced'
  BY <1>1, PutRaces
<1> QED
  BY <1>1, <1>2, EndKeeps

-----------------------------------------------------------------------------
(* Writing a row.                                                          *)
LEMMA PutDeletes ==
    ASSUME IInv, NEW r \in Requests, pc[r] = "create", Keep(r, call[r], "insert"),
           Put(r, call[r].id, {}, {call[r].row.code}),
           UNCHANGED <<issued, accepted, wrong, kept>>
    PROVE  rows' \subseteq rows /\ NamesInv' /\ DeadInv' /\ GuessInv'
<1> DEFINE c0 == call[r].row.code
<1>1. /\ pc'[r] = "insert" /\ call' = call
      /\ \A q \in Requests \ {r} : pc'[q] = pc[q]
  BY DEF IInv, TypeOK, Keep
<1>2. /\ \A q \in Requests : pc'[q] \in Holding <=> pc[q] \in Holding
      /\ \A q \in Requests : Making(q)' <=> Making(q)
      /\ \A q \in Requests : NotYet(q)' <=> NotYet(q)
      /\ pc[r] \in Holding
  BY <1>1 DEF Making, NotYet, Holding, Writing
<1>3. PICK id : id = call[r].id /\ Text[issued[c0]] = Text[id] /\ issued[c0] # None
  BY <1>2, HeldCode
<1>4. /\ rows' = rows \ At(id) /\ dead \subseteq dead' /\ raced \subseteq raced'
      /\ \A d \in dead' \ dead : /\ d \in CodeNames /\ Text[issued[d]] = Text[id] /\ d # c0
                                 /\ issued[d] # None
                                 /\ \E x \in rows : x.code = d
                                 /\ \A q \in Requests : Making(q) => d # q
                                 /\ \A x \in rows' : x.code # d
  BY <1>3, PutFacts DEF IInv, NamesInv, At
<1>5. \A d \in dead' \ dead : \A q \in Requests \ {r} :
         pc[q] \in Holding /\ call[q].row.code = d => d \in raced'
  BY <1>3, <1>4, PutRaces
<1>6. rows' \subseteq rows /\ \A x \in rows' : x.code # c0
  BY <1>3, <1>4 DEF IInv, NamesInv, At
<1>7. \A q \in Requests \ {r} : pc[q] \in Holding /\ call[q].row.code = c0 => c0 \in raced'
  <2> TAKE q \in Requests \ {r}
  <2> HAVE pc[q] \in Holding /\ call[q].row.code = c0
  <2>1. Text[call[q].id] = Text[id]
    BY <1>3, HeldCode
  <2>2. CASE pc[q] = "insert"
    BY <1>2, <1>4, <2>2 DEF IInv, DeadInv
  <2>3. CASE pc[q] \in {"create", "consume"}
    <3>1. ~Making(q)
      BY <1>2, HeldCode DEF IInv, NamesInv
    <3>2. call[q].op # "send"
      BY <2>3, <3>1, HeldCode DEF Making, Writing
    <3> QED
      BY <1>3, <2>1, <2>3, <3>2, PutFacts
  <2> QED
    BY <2>2, <2>3 DEF Holding, Writing
<1>8. NamesInv'
  BY <1>1, <1>2, <1>4, <1>6 DEF IInv, NamesInv
<1>9. DeadInv'
  <2>1. \A x \in rows' : x.code \in dead' => x.code \in Known'
    BY <1>4, <1>6 DEF IInv, DeadInv, CodeDies, Known
  <2>2. \A q \in Requests : accepted[q] # None /\ accepted[q].again => accepted[q].code \in Known'
    BY <1>4 DEF IInv, DeadInv, CodeDies, Known
  <2>3. \A q \in Requests : pc[q] \in Holding /\ call[q].row.code \in dead' => call[q].row.code \in Known'
    BY <1>2, <1>4, <1>5 DEF IInv, DeadInv, Known
  <2>4. \A q \in Requests : pc'[q] = "insert" =>
          /\ \A x \in rows' : x.code = call[q].row.code => x.code \in raced'
          /\ \A o \in Requests \ {q} : pc[o] \in Holding /\ call[o].row.code = call[q].row.code =>
                call[o].row.code \in raced'
    <3>1. ASSUME NEW q \in Requests \ {r}, pc[q] = "insert"
          PROVE  /\ \A x \in rows' : x.code = call[q].row.code => x.code \in raced'
                 /\ \A o \in Requests \ {q} : pc[o] \in Holding /\ call[o].row.code = call[q].row.code =>
                       call[o].row.code \in raced'
      BY <1>4, <1>6, <3>1 DEF IInv, DeadInv
    <3> QED
      BY <1>1, <1>6, <1>7, <3>1
  <2> QED
    BY <1>1, <1>2, <2>1, <2>2, <2>3, <2>4 DEF DeadInv, CodeDies, Known
<1>10. GuessInv'
  BY <1>1, <1>2, <1>4, <1>6 DEF IInv, GuessInv, GuessesBounded
<1> QED
  BY <1>6, <1>8, <1>9, <1>10

LEMMA PutWrites ==
    ASSUME IInv, NEW r \in Requests, pc[r] \in Writing, NEW c, NEW stage, Keep(r, c, stage),
           stage \notin Holding \cup {"idle"}, stage = "done" \/ c.op \in {"send", "rotate"},
           Put(r, call[r].id, {call[r].row}, {call[r].row.code}), CountGuess(r),
           UNCHANGED <<issued, accepted, kept>>
    PROVE  rows' \subseteq CodeRow /\ wrong' \in [CodeNames -> Nat] /\ NamesInv' /\ DeadInv' /\ GuessInv'
<1>1. /\ pc'[r] = stage /\ call'[r] = c
      /\ \A q \in Requests \ {r} : pc'[q] = pc[q] /\ call'[q] = call[q]
  BY DEF IInv, TypeOK, Keep
<1>2. /\ \A q \in Requests : pc'[q] \in Holding =>
            q # r /\ pc'[q] = pc[q] /\ call'[q] = call[q] /\ pc[q] \in Holding
      /\ \A q \in Requests : Making(q)' => q # r /\ Making(q)
      /\ \A q \in Requests : NotYet(q)' => NotYet(q)
      /\ "insert" \in Holding /\ pc[r] \in Holding
  BY <1>1 DEF Making, NotYet, Holding, Writing
<1>3. PICK id, row, c0 : /\ id = call[r].id /\ row = call[r].row /\ c0 = row.code
                         /\ row \in CodeRow /\ c0 \in CodeNames /\ row.attempts \in Nat
                         /\ Text[row.id] = Text[id] /\ issued[c0] = row.id /\ row.id # None
  BY <1>2, HeldCode
<1>4. /\ rows' = (rows \ At(id)) \cup {row} /\ dead \subseteq dead' /\ raced \subseteq raced'
      /\ \A d \in dead' \ dead : /\ d \in CodeNames /\ Text[issued[d]] = Text[id] /\ d # c0
                                 /\ issued[d] # None
                                 /\ \E x \in rows : x.code = d
                                 /\ \A q \in Requests : Making(q) => d # q
  BY <1>3, PutFacts DEF At
<1>5. \A d \in dead' \ dead : \A q \in Requests \ {r} :
         pc[q] \in Holding /\ call[q].row.code = d => d \in raced'
  BY <1>3, <1>4, PutRaces
<1>6. /\ rows' \subseteq CodeRow
      /\ \A x \in rows' : x = row \/ (x \in rows /\ x.code # c0 /\ Text[issued[x.code]] # Text[id])
  BY <1>3, <1>4 DEF IInv, NamesInv, At, TypeOK
<1>7. \A q \in Requests \ {r} : pc[q] \in Holding /\ call[q].row.code = c0 => c0 \in raced' /\ ~Making(q)
  <2> TAKE q \in Requests \ {r}
  <2> HAVE pc[q] \in Holding /\ call[q].row.code = c0
  <2>1. Text[call[q].id] = Text[id] /\ ~Making(q)
    BY <1>2, <1>3, HeldCode DEF IInv, NamesInv
  <2>2. CASE pc[q] = "insert"
    BY <1>2, <1>3, <1>4, <2>1, <2>2 DEF IInv, DeadInv
  <2>3. CASE pc[q] \in {"create", "consume"}
    <3>1. call[q].op # "send"
      BY <2>1, <2>3, HeldCode DEF Making, Writing
    <3> QED
      BY <1>3, <2>1, <2>3, <3>1, PutFacts
  <2> QED
    BY <2>2, <2>3 DEF Holding, Writing
<1>8. NamesInv'
  <2>1. \A x \in rows' : issued[x.code] = x.id
    BY <1>3, <1>6 DEF IInv, NamesInv
  <2>2. \A d \in dead' : d \in CodeNames /\ issued[d] # None
    BY <1>4 DEF IInv, NamesInv
  <2>3. \A q \in Requests : Making(q)' => q \notin dead' /\ \A x \in rows' : x.code # q
    BY <1>2, <1>3, <1>4, <1>6 DEF IInv, NamesInv
  <2> QED
    BY <1>2, <2>1, <2>2, <2>3 DEF IInv, NamesInv
<1>9. DeadInv'
  <2>1. \A x \in rows' : x.code \in dead' => x.code \in Known'
    <3> TAKE x \in rows'
    <3> HAVE x.code \in dead'
    <3>1. CASE x = row
      BY <1>2, <1>3, <1>4, <3>1 DEF IInv, DeadInv, Known
    <3>2. CASE x # row
      BY <1>4, <1>6, <3>2 DEF IInv, DeadInv, CodeDies, Known
    <3> QED BY <3>1, <3>2
  <2>2. \A q \in Requests : accepted[q] # None /\ accepted[q].again => accepted[q].code \in Known'
    BY <1>4 DEF IInv, DeadInv, CodeDies, Known
  <2>3. \A q \in Requests : pc'[q] \in Holding /\ call'[q].row.code \in dead' => call'[q].row.code \in Known'
    BY <1>2, <1>4, <1>5 DEF IInv, DeadInv, Known
  <2>4. ASSUME NEW q \in Requests, pc'[q] = "insert"
        PROVE  /\ \A x \in rows' : x.code = call'[q].row.code => x.code \in raced'
               /\ \A o \in Requests \ {q} : pc'[o] \in Holding /\ call'[o].row.code = call'[q].row.code =>
                     call'[o].row.code \in raced'
    <3>1. q # r /\ pc[q] = "insert" /\ call'[q] = call[q] /\ pc[q] \in Holding
      BY <1>2, <2>4
    <3>2. \A x \in rows' : x.code = call[q].row.code => x.code \in raced'
      BY <1>3, <1>4, <1>6, <1>7, <3>1 DEF IInv, DeadInv
    <3> QED
      BY <1>2, <1>4, <3>1, <3>2 DEF IInv, DeadInv
  <2> QED
    BY <2>1, <2>2, <2>3, <2>4 DEF DeadInv, CodeDies, Known
<1>10. /\ wrong' \in [CodeNames -> Nat]
       /\ \A d \in CodeNames \ {c0} : wrong'[d] = wrong[d]
       /\ call[r].op = "save" => wrong'[c0] = wrong[c0] + 1
       /\ call[r].op # "save" => wrong' = wrong
       /\ wrong[c0] \in Nat
  BY <1>3 DEF CountGuess, IInv, TypeOK
<1>11. GuessInv'
  <2>1. \A q \in Requests : accepted[q] # None =>
           accepted[q].wrong < AllowedAttempts \/ accepted[q].code \in raced'
    BY <1>4 DEF IInv, GuessInv, GuessesBounded
  <2>2. wrong'[c0] <= row.attempts \/ c0 \in raced
    BY <1>2, <1>3, <1>10 DEF IInv, GuessInv
  <2>3. \A x \in rows' : wrong'[x.code] <= x.attempts \/ x.code \in raced'
    BY <1>3, <1>4, <1>6, <1>10, <2>2 DEF IInv, GuessInv, CodeRow
  <2>4. ASSUME NEW q \in Requests, pc'[q] \in Holding
        PROVE  \/ wrong'[call'[q].row.code] + (IF call'[q].op = "save" THEN 1 ELSE 0) <= call'[q].row.attempts
               \/ call'[q].row.code \in raced'
    <3>1. q # r /\ call'[q] = call[q] /\ pc[q] \in Holding /\ call[q].row.code \in CodeNames
      BY <1>2, <2>4, HeldCode
    <3>2. CASE call[q].row.code = c0
      BY <1>7, <3>1, <3>2
    <3>3. CASE call[q].row.code # c0
      BY <1>4, <1>10, <3>1, <3>3 DEF IInv, GuessInv
    <3> QED BY <3>2, <3>3
  <2>5. \A d \in CodeNames : issued[d] # None /\ issued[d].kind \in TokenKinds => wrong'[d] = 0
    <3>1. call[r].op = "save" => row.id.kind \notin TokenKinds
      BY <1>3, FormAt DEF Form, Writing
    <3> QED
      BY <1>3, <1>10, <3>1 DEF IInv, GuessInv
  <2>6. \A q \in Requests : issued[q] = None => wrong'[q] = 0
    BY <1>3, <1>10 DEF IInv, GuessInv, CodeNames
  <2> QED
    BY <2>1, <2>3, <2>4, <2>5, <2>6 DEF GuessInv, GuessesBounded
<1> QED
  BY <1>6, <1>8, <1>9, <1>10, <1>11

LEMMA WrittenKeeps ==
    ASSUME IInv, NEW r \in Requests, pc[r] \in Writing,
           Put(r, call[r].id, {call[r].row}, {call[r].row.code}), CountGuess(r), AfterCreate(r),
           UNCHANGED <<user, byEmail, links, issued, accepted, kept, proved, misread, stale>>
    PROVE  IInv'
<1>1. Form(r, call[r], pc[r]) /\ call[r] \in Held /\ user[r] = None
  BY FormAt DEF Writing, IInv, ProvedInv
<1>2. PICK c, stage : /\ Keep(r, c, stage)
                      /\ \/ stage = "session" /\ c = call[r] /\ c.op = "rotate"
                         \/ stage = "lookup" /\ c = call[r] /\ c.op = "send"
                         \/ stage = "done" /\ c = None
  BY GoKeep DEF AfterCreate, Return, IInv
<1>3. /\ stage \notin Holding \cup {"idle"} /\ (stage = "done" \/ c.op \in {"send", "rotate"})
      /\ (stage = "done" /\ c \in Held \cup {None}) \/ Form(r, c, stage)
  BY <1>1, <1>2 DEF Form, Stages, Holding, Writing, Settling, ForUser, Acting
<1>4. Fit(c, stage)'
  BY <1>2 DEF Fit, Settling, ForUser, Acting
<1>5. rows' \subseteq CodeRow /\ wrong' \in [CodeNames -> Nat] /\ NamesInv' /\ DeadInv' /\ GuessInv'
  BY <1>2, <1>3, PutWrites
<1>6. TypeOK'
  BY <1>2, <1>3, <1>5, KeepForm DEF IInv, TypeOK
<1>7. ProvedInv'
  BY <1>1, <1>2, <1>4, UsersKeep DEF UsersQuiet
<1> QED
  BY <1>5, <1>6, <1>7 DEF IInv

LEMMA CreateVerificationKeeps ==
    ASSUME IInv, NEW r \in Requests, CreateVerification(r)
    PROVE  IInv'
<1>1. /\ pc[r] = "create" /\ pc[r] \in Writing
      /\ UNCHANGED <<user, byEmail, links, issued, accepted, kept, proved, misread, stale>>
  BY DEF CreateVerification, Only, Writing
<1>2. CASE Put(r, call[r].id, {call[r].row}, {call[r].row.code}) /\ CountGuess(r) /\ AfterCreate(r)
  BY <1>1, <1>2, WrittenKeeps
<1>3. ASSUME Put(r, call[r].id, {}, {call[r].row.code}), Go(r, "insert"), UNCHANGED wrong
      PROVE  IInv'
  <2>1. Form(r, call[r], "create") /\ user[r] = None
    BY <1>1, FormAt DEF IInv, ProvedInv
  <2>2. Keep(r, call[r], "insert") /\ Form(r, call[r], "insert")
    BY <1>3, <2>1, GoKeep DEF Form, Stages, Holding, Writing, Settling, ForUser, Acting, IInv
  <2>3. rows' \subseteq rows /\ NamesInv' /\ DeadInv' /\ GuessInv'
    BY <1>1, <1>3, <2>2, PutDeletes
  <2>4. TypeOK'
    BY <1>1, <1>3, <2>2, <2>3, KeepForm DEF IInv, TypeOK
  <2>5. PICK c : c = call[r] /\ Keep(r, c, "insert") /\ Fit(c, "insert")'
    BY <2>2 DEF Fit, Settling, ForUser, Acting
  <2>6. ProvedInv'
    BY <1>1, <2>1, <2>5, UsersKeep DEF UsersQuiet
  <2> QED
    BY <2>3, <2>4, <2>6 DEF IInv
<1> QED
  BY <1>2, <1>3 DEF CreateVerification

LEMMA InsertVerificationKeeps ==
    ASSUME IInv, NEW r \in Requests, InsertVerification(r)
    PROVE  IInv'
BY WrittenKeeps DEF InsertVerification, Only, Writing

-----------------------------------------------------------------------------
(* Taking a row.                                                           *)
LEMMA OpKept ==
    ASSUME IInv, NEW r \in Requests, pc[r] # "done"
    PROVE  call[r].op \in {"send", "rotate"} \/ issued[r] = None
BY DEF IInv, NamesInv, NotYet

LEMMA DropKeeps ==
    ASSUME IInv, NEW r \in Requests, Drop(r)
    PROVE  IInv'
<1>1. /\ Put(r, call[r].id, {}, {}) /\ Keep(r, None, "done")
      /\ UNCHANGED <<user, byEmail, sessions, links, issued, accepted, wrong, kept, proved, misread, stale>>
  BY DEF Drop, Only, Return
<1>2. rows' \subseteq rows /\ NamesInv' /\ DeadInv' /\ GuessInv'
  BY <1>1, PutOut DEF Holding, Writing
<1>3. TypeOK'
  BY <1>1, <1>2, KeepForm DEF IInv, TypeOK
<1>4. Fit(None, "done")'
  BY DEF Fit, Settling, ForUser, Acting
<1>5. ProvedInv'
  BY <1>1, <1>4, UsersKeep DEF UsersQuiet
<1> QED
  BY <1>2, <1>3, <1>5 DEF IInv

LEMMA NextForm ==
    ASSUME IInv, NEW r \in Requests, pc[r] = "consume", NEW c, NEW stage,
           c = [call[r] EXCEPT !.user = IF call[r].id.kind \in {"one-time", "trust-device"}
                                        THEN call[r].id.to ELSE @],
           stage = NextStage(call[r]), UNCHANGED user,
           call[r].id.to \in Emails \cup Phones => call[r].id.to \in Shown'
    PROVE  /\ Form(r, c, stage) /\ Fit(c, stage)' /\ c.op = call[r].op
           /\ stage \notin Holding \cup {"idle", "done"}
<1>1. /\ call[r] \in Held /\ call[r].id \in StoredId
      /\ call[r].op \in {"redeem", "update"}
      /\ call[r].op = "update" => call[r].id.kind = "phone"
      /\ call[r].id.kind = "change-email" \/ call[r].op = "update" => call[r].user \in Existing
  <2>1. Fit(call[r], "consume") /\ Form(r, call[r], "consume") /\ call[r] \in Held
    BY FormAt DEF IInv, ProvedInv
  <2>2. /\ call[r].id \in StoredId /\ call[r].op \in {"redeem", "update"}
        /\ call[r].op = "update" => call[r].id.kind = "phone"
    BY <2>1 DEF Form, Holding
  <2>3. call[r].id.kind = "change-email" \/ call[r].op = "update" => call[r].user \in Existing
    BY <2>1 DEF Fit
  <2> QED
    BY <2>1, <2>2, <2>3
<1>2. PICK id : id = call[r].id /\ id \in StoredId /\ id \in AnyId
  BY <1>1 DEF AnyId
<1>3. Existing' = Existing
  BY DEF Existing
<1>4. CASE id.kind \in {"one-time", "trust-device"}
  <2>1. id.to \in Users
    BY <1>2, <1>4 DEF StoredId, EmailKinds, PhoneKinds, TokenKinds
  <2>2. c \in Held /\ c.op = call[r].op /\ c.id = id /\ c.user = id.to
    BY <1>1, <1>2, <1>4, <2>1 DEF Held
  <2>3. stage = IF id.kind = "one-time" THEN "session" ELSE "rotate"
    BY <1>2, <1>4 DEF NextStage, PhoneKinds
  <2>4. call[r].op = "redeem"
    BY <1>1, <1>2, <1>4
  <2> QED
    BY <1>2, <2>1, <2>2, <2>3, <2>4 DEF Form, Fit, Stages, Holding, Writing, Settling, ForUser, Acting
<1>5. CASE id.kind \notin {"one-time", "trust-device"}
  <2>1. c = call[r]
    BY <1>1, <1>2, <1>5 DEF Held
  <2>2. CASE id.kind \in {"sign-in", "email-verification", "forget-password", "magic-link"}
    <3>1. stage = "findUser"
      BY <1>2, <2>2 DEF NextStage, PhoneKinds
    <3>2. id.to \in Emails
      BY <1>2, <2>2 DEF StoredId, EmailKinds, PhoneKinds, TokenKinds
    <3> QED
      BY <1>1, <1>2, <2>1, <2>2, <3>1, <3>2 DEF Form, Fit, Stages, Holding, Writing, Settling, ForUser, Acting
  <2>3. CASE id.kind = "change-email"
    <3>1. stage = "checkFree"
      BY <1>2, <2>3 DEF NextStage, PhoneKinds
    <3>2. id.to \in Emails
      BY <1>2, <2>3 DEF StoredId, EmailKinds, PhoneKinds, TokenKinds
    <3> QED
      BY <1>1, <1>2, <1>3, <2>1, <2>3, <3>1, <3>2
         DEF Form, Fit, Stages, Holding, Writing, Settling, ForUser, Acting
  <2>4. CASE id.kind \in PhoneKinds
    <3>1. stage = IF call[r].op = "update" THEN "checkPhone" ELSE "findPhone"
      BY <1>1, <1>2, <2>4 DEF NextStage, PhoneKinds
    <3>2. id.to \in Phones
      BY <1>2, <2>4 DEF StoredId, EmailKinds, PhoneKinds, TokenKinds
    <3> QED
      BY <1>1, <1>2, <1>3, <2>1, <2>4, <3>1, <3>2
         DEF Form, Fit, Stages, Holding, Writing, Settling, ForUser, Acting
  <2> QED
    BY <1>2, <1>5, <2>2, <2>3, <2>4 DEF StoredId, EmailKinds, PhoneKinds, TokenKinds
<1> QED BY <1>4, <1>5

LEMMA ConsumeKeeps ==
    ASSUME IInv, NEW r \in Requests, Consume(r)
    PROVE  IInv'
<1>1. PICK c, stage :
         /\ c = [call[r] EXCEPT !.user = IF call[r].id.kind \in {"one-time", "trust-device"}
                                         THEN call[r].id.to ELSE @]
         /\ stage = NextStage(call[r]) /\ Keep(r, c, stage)
         /\ pc[r] = "consume" /\ Accept(r, call[r].row.code)
         /\ misread' = IF issued[call[r].row.code] = call[r].id THEN misread ELSE misread \cup {call[r].id.to}
         /\ UNCHANGED <<user, byEmail, sessions, links, issued, wrong, stale>>
  BY DEF Consume, Only
<1>2. /\ call[r].row \in CodeRow /\ call[r].row.code \in CodeNames /\ call[r].row.attempts \in Nat
      /\ issued[call[r].row.code] = call[r].row.id /\ call[r].row.id # None
      /\ ~TooMany(call[r].row) /\ call[r].op \in {"redeem", "update"} /\ pc[r] \in Holding
  BY <1>1, HeldCode, FormAt DEF Form, Holding
<1>3. PICK d : /\ d = [code |-> call[r].row.code, again |-> call[r].row.code \in dead,
                       wrong |-> wrong[call[r].row.code]]
               /\ accepted' = [accepted EXCEPT ![r] = d]
               /\ proved' = proved \cup ({issued[call[r].row.code].to} \cap (Emails \cup Phones))
  BY <1>1, <1>2 DEF Accept
<1>4. Sound(d)
  <2>1. d \in [code : CodeNames, again : BOOLEAN, wrong : Nat]
    BY <1>2, <1>3 DEF IInv, TypeOK
  <2>2. d.again => d.code \in Known
    BY <1>2, <1>3 DEF IInv, DeadInv
  <2>3. d.wrong < AllowedAttempts \/ d.code \in raced
    <3>1. CASE call[r].row.id.kind \in TokenKinds
      BY <1>2, <1>3, <3>1, OptionAssumption DEF IInv, GuessInv
    <3>2. CASE call[r].row.id.kind \notin TokenKinds
      <4>1. call[r].row.attempts < AllowedAttempts
        BY <1>2, <3>2, OptionAssumption DEF TooMany
      <4>2. wrong[call[r].row.code] <= call[r].row.attempts \/ call[r].row.code \in raced
        BY <1>2 DEF IInv, GuessInv, TypeOK
      <4>3. wrong[call[r].row.code] \in Nat
        BY <1>2 DEF IInv, TypeOK
      <4> QED
        BY <1>2, <1>3, <4>1, <4>2, <4>3, OptionAssumption
    <3> QED BY <3>1, <3>2
  <2> QED
    BY <2>1, <2>2, <2>3 DEF Sound
<1>5. /\ Form(r, c, stage) /\ Fit(c, stage)' /\ c.op = call[r].op
      /\ stage \notin Holding \cup {"idle", "done"}
  <2>1. call[r].id.to \in Emails \cup Phones => call[r].id.to \in Shown'
    BY <1>1, <1>3 DEF Shown
  <2>2. UNCHANGED user
    BY <1>1
  <2> QED
    BY <1>1, <2>1, <2>2, NextForm
<1>6. issued[r] = None /\ user[r] = None
  BY <1>1, <1>2, OpKept DEF IInv, ProvedInv
<1>7. \A q \in Requests : accepted'[q] = accepted[q] \/ Sound(accepted'[q])
  BY <1>3, <1>4 DEF IInv, TypeOK
<1>8. rows' \subseteq rows /\ NamesInv' /\ DeadInv' /\ GuessInv'
  <2>1. CASE Put(r, call[r].id, {}, {}) /\ UNCHANGED kept
    BY <1>1, <1>5, <1>6, <1>7, <2>1, PutOut
  <2>2. CASE /\ dead' = dead \cup {call[r].row.code} /\ kept' = kept \cup {call[r].row.code}
             /\ UNCHANGED <<rows, raced>>
    <3>1. \A q \in Requests : Making(q) => call[r].row.code # q
      BY <1>1, <1>2 DEF IInv, NamesInv, Making, Writing
    <3>2. \A x \in dead' \ dead : /\ x \in CodeNames /\ issued[x] # None /\ x \in kept'
                                  /\ \A q \in Requests : Making(q) => x # q
      BY <1>2, <2>2, <3>1
    <3> QED
      BY <1>1, <1>5, <1>6, <1>7, <2>2, <3>2, EndKeeps
  <2> QED
    BY <2>1, <2>2 DEF Consume
<1>9. TypeOK'
  <2>1. d \in [code : CodeNames, again : BOOLEAN, wrong : Nat]
    BY <1>4 DEF Sound
  <2> QED
    BY <1>1, <1>3, <1>5, <1>8, <2>1, KeepForm DEF IInv, TypeOK
<1>10. ProvedInv'
  <2>1. UsersQuiet
    BY <1>1, <1>3 DEF UsersQuiet
  <2> QED
    BY <1>1, <1>5, <1>6, <2>1, UsersKeep
<1> QED
  BY <1>8, <1>9, <1>10 DEF IInv

LEMMA rotateTrustedDeviceKeeps ==
    ASSUME IInv, NEW r \in Requests, rotateTrustedDevice(r)
    PROVE  IInv'
<1>1. call[r].user \in Users /\ pc[r] = "rotate"
  BY FormAt DEF rotateTrustedDevice, Form
<1>2. Id("trust-device", call[r].user, r) \in StoredId
  BY <1>1 DEF Id, StoredId, TokenKinds, CodeNames
<1> QED
  BY <1>1, <1>2, NewRowKeeps DEF rotateTrustedDevice, Id

(* Time passes: the row stays what it is.                                  *)
LEMMA LapseKeeps ==
    ASSUME IInv, Lapse
    PROVE  IInv'
<1>1. PICK x, y : /\ x \in rows /\ y = [x EXCEPT !.lapsed = TRUE] /\ rows' = (rows \ {x}) \cup {y}
                 /\ UNCHANGED <<adapter, options, user, byEmail, sessions, links, pc, call, ghosts>>
  BY DEF Lapse
<1>2. y \in CodeRow /\ y.code = x.code /\ y.id = x.id /\ y.attempts = x.attempts
  BY <1>1 DEF IInv, TypeOK, CodeRow
<1>3. \A z \in rows' : \E o \in rows : z.code = o.code /\ z.id = o.id /\ z.attempts = o.attempts
  BY <1>1, <1>2
<1>4. UNCHANGED <<user, byEmail, links, pc, call, issued, accepted, dead, wrong, raced, kept, proved,
                  misread, stale>>
  BY <1>1 DEF ghosts
<1>5. TypeOK'
  BY <1>1, <1>2, <1>4 DEF IInv, TypeOK
<1>6. NamesInv'
  BY <1>3, <1>4 DEF IInv, NamesInv, Making, NotYet
<1>7. DeadInv'
  BY <1>3, <1>4 DEF IInv, DeadInv, CodeDies, Known
<1>8. GuessInv'
  BY <1>3, <1>4 DEF IInv, GuessInv, GuessesBounded
<1>9. ProvedInv'
  BY <1>4 DEF IInv, ProvedInv, VerifiedMeansProved, Existing, Fit, Shown
<1> QED
  BY <1>5, <1>6, <1>7, <1>8, <1>9 DEF IInv

-----------------------------------------------------------------------------
(* How a request starts: by making a code,                                 *)
LEMMA IdForm ==
    ASSUME NEW r \in Requests, NEW of \in Emails \cup {TempEmail, None}
    PROVE  /\ \A kind \in EmailKinds, e \in Emails : Id(kind, e, of) \in StoredId
           /\ \A kind \in PhoneKinds, p \in Phones : Id(kind, p, None) \in StoredId
           /\ \A e \in Emails : Id("magic-link", e, r) \in StoredId
           /\ \A kind \in {"one-time", "trust-device"}, u \in Users : Id(kind, u, r) \in StoredId
           /\ \A e \in Emails : Id("signed-link", e, of) \in AnyId
           /\ \A e \in Emails : of # None => Id("core-change", e, of) \in AnyId
           /\ \A kind, to, o : Id(kind, to, o).kind = kind /\ Id(kind, to, o).to = to /\ Id(kind, to, o).of = o
<1>1. \A kind \in EmailKinds, e \in Emails : Id(kind, e, of) \in StoredId
  BY DEF Id, StoredId
<1>2. \A kind \in PhoneKinds, p \in Phones : Id(kind, p, None) \in StoredId
  BY DEF Id, StoredId
<1>3. \A e \in Emails : Id("magic-link", e, r) \in StoredId
  BY DEF Id, StoredId, CodeNames
<1>4. \A kind \in {"one-time", "trust-device"}, u \in Users : Id(kind, u, r) \in StoredId
  BY DEF Id, StoredId, CodeNames, TokenKinds
<1>5. \A e \in Emails : Id("signed-link", e, of) \in AnyId
  BY DEF Id, AnyId
<1>6. \A e \in Emails : of # None => Id("core-change", e, of) \in AnyId
  BY DEF Id, AnyId
<1> QED
  BY <1>1, <1>2, <1>3, <1>4, <1>5, <1>6 DEF Id

LEMMA IssueKeeps ==
    ASSUME IInv, NEW r \in Requests, pc[r] = "idle", NEW id \in StoredId, NEW u \in Users \cup {None},
           Issue(r, id, u), id.kind \in TokenKinds => id.of = r
    PROVE  IInv'
BY NewRowKeeps DEF Issue

Sends(r) ==
    \/ sendVerificationOTP(r) \/ requestPasswordResetEmailOTP(r) \/ requestEmailChangeOTP(r)
    \/ sendPhoneOTP(r) \/ requestPhoneReset(r) \/ sendMagicLink(r) \/ generateToken(r)
    \/ setTrustedDevice(r)

LEMMA SendsKeep ==
    ASSUME IInv, NEW r \in Requests, pc[r] = "idle", Sends(r)
    PROVE  IInv'
<1>1. Existing \subseteq Users /\ \A u \in Existing : user[u].email \in Emails \cup {TempEmail}
  BY PersonForm DEF Existing, Person
<1>2. CASE sendVerificationOTP(r) \/ requestPasswordResetEmailOTP(r)
  <2>1. PICK kind \in EmailKinds, e \in Emails : Issue(r, Id(kind, e, None), None)
    BY <1>2 DEF sendVerificationOTP, requestPasswordResetEmailOTP, sendOTPForType, EmailKinds
  <2>2. Id(kind, e, None) \in StoredId /\ Id(kind, e, None).kind \notin TokenKinds
    BY IdForm DEF EmailKinds, TokenKinds
  <2> QED
    BY <2>1, <2>2, IssueKeeps
<1>3. CASE requestEmailChangeOTP(r)
  <2>1. PICK u \in Existing, e \in Emails : Issue(r, Id("change-email", e, user[u].email), u)
    BY <1>3 DEF requestEmailChangeOTP
  <2>2. /\ Id("change-email", e, user[u].email) \in StoredId
        /\ Id("change-email", e, user[u].email).kind \notin TokenKinds
    BY <1>1, IdForm DEF EmailKinds, TokenKinds
  <2> QED
    BY <1>1, <2>1, <2>2, IssueKeeps
<1>4. CASE sendPhoneOTP(r) \/ requestPhoneReset(r)
  <2>1. PICK kind \in PhoneKinds, p \in Phones : Issue(r, Id(kind, p, None), None)
    BY <1>4 DEF sendPhoneOTP, requestPhoneReset, PhoneKinds
  <2>2. Id(kind, p, None) \in StoredId /\ Id(kind, p, None).kind \notin TokenKinds
    BY IdForm DEF PhoneKinds, TokenKinds
  <2> QED
    BY <2>1, <2>2, IssueKeeps
<1>5. CASE sendMagicLink(r)
  <2>1. PICK e \in Emails : Issue(r, Id("magic-link", e, r), None)
    BY <1>5 DEF sendMagicLink
  <2>2. Id("magic-link", e, r) \in StoredId /\ Id("magic-link", e, r).of = r
    BY IdForm
  <2> QED
    BY <2>1, <2>2, IssueKeeps
<1>6. CASE generateToken(r) \/ setTrustedDevice(r)
  <2>1. PICK kind \in {"one-time", "trust-device"}, u \in Existing : Issue(r, Id(kind, u, r), u)
    BY <1>6 DEF generateToken, setTrustedDevice
  <2>2. Id(kind, u, r) \in StoredId /\ Id(kind, u, r).of = r
    BY <1>1, IdForm
  <2> QED
    BY <1>1, <2>1, <2>2, IssueKeeps
<1> QED
  BY <1>2, <1>3, <1>4, <1>5, <1>6 DEF Sends

(* by presenting one,                                                      *)
Presents(r) ==
    \/ checkOTP(r) \/ signInEmailOTP(r) \/ verifyEmailOTP(r) \/ resetPasswordOTP(r)
    \/ verifyPhone(r) \/ resetPhonePassword(r) \/ verifyMagicLink(r) \/ verifyOneTimeToken(r)
    \/ presentDevice(r) \/ changeEmailOTP(r) \/ updatePhone(r)

LEMMA PresentsKeep ==
    ASSUME IInv, NEW r \in Requests, pc[r] = "idle", Presents(r)
    PROVE  IInv'
<1>1. \A x \in rows : x.id \in StoredId /\ issued[x.code] = x.id /\ x.id # None /\ x.code \in CodeNames
  BY NameAssumption DEF IInv, TypeOK, NamesInv, CodeRow, AnyId
<1>2. CASE checkOTP(r)
  <2>1. PICK id \in Readings(EmailKinds) : \E g \in Guesses(id) : Attempt(r, "check", id, g, None)
    BY <1>2 DEF checkOTP
  <2>2. PICK g : Attempt(r, "check", id, g, None)
    BY <2>1
  <2> QED
    BY <2>2, AttemptKeeps DEF Readings, EmailKinds, TokenKinds
<1>3. ASSUME NEW kind \in (EmailKinds \ {"change-email"}) \cup PhoneKinds, Redeem(r, kind)
      PROVE  IInv'
  <2>1. PICK id \in Readings({kind}) : \E g \in Guesses(id) : Attempt(r, "redeem", id, g, None)
    BY <1>3 DEF Redeem
  <2>2. PICK g : Attempt(r, "redeem", id, g, None)
    BY <2>1
  <2> QED
    BY <2>2, AttemptKeeps DEF Readings, EmailKinds, PhoneKinds, TokenKinds
<1>4. ASSUME NEW kind \in TokenKinds, RedeemToken(r, kind)
      PROVE  IInv'
  <2>1. PICK x \in rows : x.id.kind = kind /\ Attempt(r, "redeem", x.id, x.code, None)
    BY <1>4 DEF RedeemToken
  <2>2. x.id.of = x.code
    BY <1>1, <2>1 DEF IInv, NamesInv
  <2> QED
    BY <1>1, <2>1, <2>2, AttemptKeeps DEF TokenKinds
<1>5. CASE changeEmailOTP(r)
  <2>1. PICK id \in Readings({"change-email"}), u \in Existing :
           \E g \in Guesses(id) : Attempt(r, "redeem", id, g, u)
    BY <1>5 DEF changeEmailOTP
  <2>2. PICK g : Attempt(r, "redeem", id, g, u)
    BY <2>1
  <2> QED
    BY <2>2, AttemptKeeps DEF Readings, TokenKinds
<1>6. CASE updatePhone(r)
  <2>1. PICK id \in Readings({"phone"}), u \in Existing, g \in CodeNames \cup {None} :
           Attempt(r, "update", id, g, u)
    BY <1>6 DEF updatePhone
  <2> QED
    BY <2>1, AttemptKeeps DEF Readings, TokenKinds
<1> QED
  BY <1>2, <1>3, <1>4, <1>5, <1>6
     DEF Presents, signInEmailOTP, verifyEmailOTP, resetPasswordOTP, verifyPhone, resetPhonePassword,
         verifyMagicLink, verifyOneTimeToken, presentDevice, EmailKinds, PhoneKinds, TokenKinds

(* or by something that needs neither.                                     *)
LEMMA StartKeeps ==
    ASSUME IInv, NEW r \in Requests, pc[r] = "idle", NEW c, NEW stage, Keep(r, c, stage),
           Form(r, c, stage), stage \notin Holding, Fit(c, stage)',
           CodesQuiet, UsersQuiet, links' \subseteq SignedLink
    PROVE  IInv'
<1>1. issued[r] = None /\ user[r] = None /\ stage # "idle"
  BY DEF IInv, NamesInv, NotYet, ProvedInv, Form, Stages, Holding, Writing, Settling, ForUser, Acting
<1> QED
  BY <1>1, QuietKeeps

Asks(r) ==
    \/ ClearTrustedDevice(r) \/ sendVerificationEmail(r) \/ RequestChange(r)
    \/ VerifyEmail(r) \/ VerifyEmailChange(r)

LEMMA signInPhoneKeeps ==
    ASSUME IInv, NEW r \in Requests, pc[r] = "idle", signInPhone(r)
    PROVE  IInv'
<1>1. PICK p \in Phones, u \in Existing :
         \/ Issue(r, Id("phone", p, None), u)
         \/ /\ Keep(r, Ask("signIn", Id("phone", p, None), None, u), "session")
            /\ Only(<<store, ghosts>>)
  BY DEF signInPhone, WithPhone
<1>2. Id("phone", p, None) \in StoredId /\ Id("phone", p, None).kind \notin TokenKinds /\ u \in Users
  BY IdForm DEF PhoneKinds, TokenKinds, Existing
<1>3. CASE Issue(r, Id("phone", p, None), u)
  BY <1>2, <1>3, IssueKeeps
<1>4. ASSUME Keep(r, Ask("signIn", Id("phone", p, None), None, u), "session"), Only(<<store, ghosts>>)
      PROVE  IInv'
  <2>1. PICK c : c = Ask("signIn", Id("phone", p, None), None, u) /\ c \in Held /\ c.id \in AnyId
    BY <1>2, AskForm DEF AnyId
  <2>2. Form(r, c, "session") /\ Fit(c, "session")'
    BY <2>1 DEF Form, Fit, Stages, Holding, Writing, Settling, ForUser, Acting
  <2>3. CodesQuiet /\ UsersQuiet /\ links' \subseteq SignedLink
    BY <1>4 DEF IInv, TypeOK, Only, store, ghosts, CodesQuiet, UsersQuiet
  <2> QED
    BY <1>4, <2>1, <2>2, <2>3, StartKeeps DEF Holding, Writing
<1> QED
  BY <1>1, <1>3, <1>4

LEMMA AsksKeep ==
    ASSUME IInv, NEW r \in Requests, pc[r] = "idle", Asks(r)
    PROVE  IInv'
<1>1. CASE ClearTrustedDevice(r)
  <2>1. PICK x \in rows : Keep(r, Ask("clear", x.id, x, None), "drop") /\ Only(<<store, ghosts>>)
    BY <1>1 DEF ClearTrustedDevice
  <2>2. x \in CodeRow /\ x.id \in AnyId
    BY DEF IInv, TypeOK, CodeRow, AnyId
  <2>3. PICK c : c = Ask("clear", x.id, x, None) /\ c \in Held /\ c.id \in AnyId
    BY <2>2, AskForm
  <2>4. Form(r, c, "drop") /\ Fit(c, "drop")'
    BY <2>3 DEF Form, Fit, Stages, Holding, Writing, Settling, ForUser, Acting
  <2>5. CodesQuiet /\ UsersQuiet /\ links' \subseteq SignedLink
    BY <2>1 DEF IInv, TypeOK, Only, store, ghosts, CodesQuiet, UsersQuiet
  <2> QED
    BY <2>1, <2>3, <2>4, <2>5, StartKeeps DEF Holding, Writing
<1>2. CASE sendVerificationEmail(r)
  <2>1. PICK e \in Emails : /\ links' = links \cup {Link("verify", e, e)} /\ Return(r)
                            /\ Only(<<rows, user, byEmail, sessions, ghosts>>)
    BY <1>2 DEF sendVerificationEmail
  <2>2. links' \subseteq SignedLink
    BY <2>1 DEF IInv, TypeOK, Link, SignedLink
  <2> QED
    BY <2>1, <2>2, StopKeeps DEF Only, ghosts, CodesQuiet, UsersQuiet
<1>3. CASE RequestChange(r)
  <2>1. PICK u \in Existing, e \in Emails :
           /\ Keep(r, [Ask("change", Id("core-change", e, user[u].email), None, u)
                          EXCEPT !.seen = user[u].verified], "checkNew")
           /\ Only(<<store, ghosts>>)
    BY <1>3 DEF RequestChange
  <2>2. user[u] \in Person /\ u \in Users /\ user[u].email \in Emails \cup {TempEmail}
    BY PersonForm DEF Person
  <2>3. PICK id : id = Id("core-change", e, user[u].email) /\ id \in AnyId /\ id.kind = "core-change"
    BY <2>2, IdForm, NameAssumption
  <2>4. PICK d : d = Ask("change", id, None, u) /\ d \in Held /\ d.id = id /\ d.user = u
    BY <2>2, <2>3, AskForm
  <2>5. PICK c : c = [d EXCEPT !.seen = user[u].verified]
    OBVIOUS
  <2>6. c \in Held /\ c.id = id /\ c.user = u /\ c.seen = user[u].verified
    BY <2>2, <2>4, <2>5 DEF Held, Person
  <2>7. Form(r, c, "checkNew")
    BY <2>3, <2>6 DEF Form, Stages, Holding, Writing, Settling, ForUser, Acting
  <2>8. CodesQuiet /\ UsersQuiet /\ links' \subseteq SignedLink /\ UNCHANGED user
    BY <2>1 DEF IInv, TypeOK, Only, store, ghosts, CodesQuiet, UsersQuiet
  <2>9. Fit(c, "checkNew")'
    BY <2>6, <2>8 DEF Fit, Settling, ForUser, Acting, Existing
  <2>10. Keep(r, c, "checkNew")
    BY <2>1, <2>3, <2>4, <2>5
  <2> QED
    BY <2>7, <2>8, <2>9, <2>10, StartKeeps DEF Holding, Writing
<1>4. CASE VerifyEmail(r)
  <2>1. PICK l \in links :
           /\ Keep(r, Ask("redeem", Id("signed-link", l.to, None), None, None), "findUser")
           /\ proved' = proved \cup {l.to}
           /\ Only(<<store, issued, accepted, dead, wrong, raced, kept, misread, stale>>)
    BY <1>4 DEF VerifyEmail
  <2>2. l.to \in Emails
    BY DEF IInv, TypeOK, SignedLink
  <2>3. PICK id : /\ id = Id("signed-link", l.to, None) /\ id \in AnyId /\ id.kind = "signed-link"
                  /\ id.to = l.to
    <3>1. Id("signed-link", l.to, None) \in AnyId
      BY <2>2 DEF Id, AnyId
    <3> QED
      BY <3>1 DEF Id
  <2>4. PICK c : c = Ask("redeem", id, None, None) /\ c \in Held /\ c.id = id
    BY <2>3, AskForm
  <2>5. Form(r, c, "findUser")
    BY <2>3, <2>4 DEF Form, Stages, Holding, Writing, Settling, ForUser, Acting
  <2>6. Fit(c, "findUser")'
    BY <2>1, <2>3, <2>4 DEF Shown, Fit, Settling, ForUser, Acting
  <2>7. CodesQuiet /\ UsersQuiet /\ links' \subseteq SignedLink
    BY <2>1 DEF IInv, TypeOK, Only, store, CodesQuiet, UsersQuiet
  <2> QED
    BY <2>1, <2>3, <2>4, <2>5, <2>6, <2>7, StartKeeps DEF Holding, Writing
<1>5. CASE VerifyEmailChange(r)
  <2>1. PICK l \in links :
         /\ byEmail[l.email] # None
         /\ \/ /\ links' = links \cup {Link("change", l.email, l.to)}
               /\ Return(r)
               /\ UNCHANGED proved
            \/ /\ \E stage \in {"linkSession", "changeEmail"} :
                     Keep(r, Ask("redeem", Id("signed-link", l.to, l.email), None, byEmail[l.email]),
                           stage)
               /\ proved' = proved \cup {l.to}
               /\ UNCHANGED links
         /\ Only(<<rows, user, byEmail, sessions, issued, accepted, dead, wrong, raced, kept, misread, stale>>)
    BY <1>5 DEF VerifyEmailChange
  <2>2. l \in SignedLink /\ l.to \in Emails /\ l.email \in Emails \cup {TempEmail}
    BY DEF IInv, TypeOK, SignedLink
  <2>3. CodesQuiet /\ UNCHANGED <<user, byEmail, misread, stale>>
    BY <2>1 DEF Only, CodesQuiet
  <2>4. CASE links' = links \cup {Link("change", l.email, l.to)} /\ Return(r) /\ UNCHANGED proved
    <3>1. links' \subseteq SignedLink
      BY <2>2, <2>4 DEF IInv, TypeOK, Link, SignedLink
    <3> QED
      BY <2>3, <2>4, <3>1, StopKeeps DEF UsersQuiet
  <2>5. ASSUME NEW stage \in {"linkSession", "changeEmail"},
               Keep(r, Ask("redeem", Id("signed-link", l.to, l.email), None, byEmail[l.email]), stage),
               proved' = proved \cup {l.to}, UNCHANGED links
        PROVE  IInv'
    <3>1. PICK id : /\ id = Id("signed-link", l.to, l.email) /\ id \in AnyId
                    /\ id.kind = "signed-link" /\ id.to = l.to
      BY <2>2, IdForm
    <3>2. PICK u : u = byEmail[l.email] /\ u \in Existing /\ u \in Users
      BY <2>1, <2>2 DEF IInv, ProvedInv, Existing
    <3>3. PICK c : c = Ask("redeem", id, None, u) /\ c \in Held /\ c.id = id /\ c.user = u
      BY <3>1, <3>2, AskForm
    <3>4. Form(r, c, stage)
      BY <3>1, <3>3 DEF Form, Stages, Holding, Writing, Settling, ForUser, Acting
    <3>5. Fit(c, stage)'
      BY <2>3, <2>5, <3>1, <3>2, <3>3 DEF Shown, Fit, Settling, ForUser, Acting, Existing
    <3>6. UsersQuiet /\ links' \subseteq SignedLink
      BY <2>3, <2>5 DEF IInv, TypeOK, UsersQuiet
    <3> QED
      BY <2>3, <2>5, <3>1, <3>2, <3>3, <3>4, <3>5, <3>6, StartKeeps DEF Holding, Writing
  <2> QED
    BY <2>1, <2>4, <2>5
<1> QED
  BY <1>1, <1>2, <1>3, <1>4, <1>5 DEF Asks

-----------------------------------------------------------------------------
(* A request goes on and changes no user.                                  *)
StoreStays ==
    UNCHANGED <<rows, user, byEmail, links, issued, accepted, dead, wrong, raced, kept, proved, misread, stale>>

LEMMA MoveKeeps ==
    ASSUME IInv, NEW r \in Requests, pc[r] \notin {"idle", "done"}, NEW c, NEW stage, Keep(r, c, stage),
           Form(r, c, stage), stage \notin Holding, Fit(c, stage), c.op = call[r].op,
           user[r] = None \/ stage \in {"mark", "session", "revoke"}, StoreStays
    PROVE  IInv'
<1>1. stage # "idle" /\ (c.op \in {"send", "rotate"} \/ issued[r] = None)
  BY OpKept DEF Form, Stages, Holding, Writing, Settling, ForUser, Acting
<1>2. CodesQuiet /\ UsersQuiet /\ links' \subseteq SignedLink
  BY DEF StoreStays, CodesQuiet, UsersQuiet, IInv, TypeOK
<1>3. Fit(c, stage)'
  BY DEF StoreStays, Fit, Existing, Shown
<1> QED
  BY <1>1, <1>2, <1>3, QuietKeeps

LEMMA EndsKeep ==
    ASSUME IInv, NEW r \in Requests, Return(r), StoreStays
    PROVE  IInv'
BY StopKeeps DEF StoreStays, CodesQuiet, UsersQuiet, IInv, TypeOK

LEMMA LookupKeeps ==
    ASSUME IInv, NEW r \in Requests, Lookup(r)
    PROVE  IInv'
<1>1. StoreStays /\ pc[r] = "lookup" /\ (Return(r) \/ Go(r, "drop"))
  BY DEF Lookup, Only, store, ghosts, StoreStays
<1>2. CASE Go(r, "drop")
  <2>1. PICK c : c = call[r] /\ Keep(r, c, "drop") /\ c \in Held /\ c.id \in AnyId
    BY <1>1, <1>2, GoKeep, FormAt DEF IInv, Form
  <2>2. Form(r, c, "drop") /\ Fit(c, "drop")
    BY <2>1 DEF Form, Fit, Stages, Holding, Writing, Settling, ForUser, Acting
  <2> QED
    BY <1>1, <2>1, <2>2, MoveKeeps DEF Holding, Writing, IInv, ProvedInv
<1> QED
  BY <1>1, <1>2, EndsKeep

LEMMA OnUserForm ==
    ASSUME NEW r \in Requests, call[r] \in Held, NEW u \in Users, user[u] \in Person, NEW stage,
           OnUser(r, u, stage)
    PROVE  \E c \in Held : /\ c.id = call[r].id /\ c.user = u /\ c.op = call[r].op
                           /\ Keep(r, c, stage)
<1>1. PICK h \in Held, w \in Person : h = call[r] /\ w = user[u]
  OBVIOUS
<1>2. PICK c : c = [h EXCEPT !.user = u, !.seen = w.verified]
  OBVIOUS
<1>3. PICK b \in BOOLEAN : b = w.verified
  BY DEF Person
<1>4. c \in Held /\ c.id = h.id /\ c.user = u /\ c.op = h.op
  BY <1>2, <1>3 DEF Held
<1>5. Keep(r, c, stage)
  BY <1>1, <1>2 DEF OnUser
<1> QED
  BY <1>1, <1>4, <1>5

LEMMA FoundKeeps ==
    ASSUME IInv, NEW r \in Requests, pc[r] = "findUser", UserOf(call[r].id) # None,
           NEW stage \in {"session", "mark", "setPassword"}, OnUser(r, UserOf(call[r].id), stage), StoreStays
    PROVE  IInv'
<1>1. Form(r, call[r], "findUser") /\ Fit(call[r], "findUser") /\ call[r] \in Held /\ user[r] = None
  BY FormAt DEF IInv, ProvedInv
<1>2. call[r].id \in AnyId /\ call[r].id.to \in Emails
  <2>1. call[r].id \in AnyId
    BY <1>1 DEF Form
  <2>2. call[r].id.kind \in {"sign-in", "email-verification", "forget-password", "magic-link", "signed-link"}
    BY <1>1 DEF Form
  <2> QED
    BY <2>1, <2>2 DEF AnyId, StoredId, EmailKinds, PhoneKinds, TokenKinds
<1>3. PICK u : /\ u = UserOf(call[r].id) /\ u \in Users /\ u \in Existing
               /\ user[u].email = call[r].id.to /\ user[u] \in Person
  BY <1>2, PersonForm DEF UserOf, IInv, ProvedInv
<1>4. PICK c \in Held : c.id = call[r].id /\ c.user = u /\ c.op = call[r].op /\ Keep(r, c, stage)
  BY <1>1, <1>3, OnUserForm
<1>6. Form(r, c, stage)
  BY <1>2, <1>4 DEF Form, Stages, Holding, Writing, Settling, ForUser, Acting
<1>7. Fit(c, stage)
  BY <1>1, <1>3, <1>4 DEF Fit, Settling, ForUser, Acting
<1> QED
  BY <1>1, <1>4, <1>6, <1>7, MoveKeeps DEF Holding, Writing

FindsUser(r) ==
    FindSignInUser(r) \/ FindMagicUser(r) \/ FindVerifyUser(r) \/ FindResetUser(r) \/ FindLinkUser(r)

LEMMA FindsUserKeep ==
    ASSUME IInv, NEW r \in Requests, FindsUser(r)
    PROVE  IInv'
<1>1. ASSUME NEW kind, FindUser(r, kind)
      PROVE  /\ pc[r] = "findUser" /\ UserOf(call[r].id) # None /\ StoreStays
  BY <1>1 DEF FindUser, Only, store, ghosts, StoreStays
<1>2. ASSUME NEW kind, FindUser(r, kind), SignInOrMark(r)
      PROVE  IInv'
  <2>1. PICK stage \in {"session", "mark"} : OnUser(r, UserOf(call[r].id), stage)
    BY <1>2 DEF SignInOrMark
  <2> QED
    BY <1>1, <1>2, <2>1, FoundKeeps
<1>3. ASSUME NEW kind, FindUser(r, kind), NEW stage \in {"mark", "setPassword"},
             OnUser(r, UserOf(call[r].id), stage)
      PROVE  IInv'
  BY <1>1, <1>3, FoundKeeps
<1>4. ASSUME NEW kind \in {"sign-in", "magic-link"}, FindNobody(r, kind)
      PROVE  IInv'
  <2>1. StoreStays /\ pc[r] = "findUser" /\ Go(r, "createUser") /\ call[r].id.kind = kind
    BY <1>4 DEF FindNobody, Only, store, ghosts, StoreStays
  <2>2. Fit(call[r], "findUser") /\ user[r] = None
    BY <2>1 DEF IInv, ProvedInv
  <2>3. PICK c : c = call[r] /\ Keep(r, c, "createUser") /\ c \in Held /\ c.id \in AnyId
    BY <2>1, GoKeep, FormAt DEF IInv, Form
  <2>4. Form(r, c, "createUser") /\ Fit(c, "createUser")
    BY <2>1, <2>2, <2>3 DEF Form, Fit, Stages, Holding, Writing, Settling, ForUser, Acting
  <2> QED
    BY <2>1, <2>2, <2>3, <2>4, MoveKeeps DEF Holding, Writing
<1>5. CASE FindSignInUser(r) \/ FindMagicUser(r)
  BY <1>2, <1>4, <1>5 DEF FindSignInUser, FindMagicUser
<1>6. CASE FindVerifyUser(r) \/ FindResetUser(r) \/ FindLinkUser(r)
  BY <1>3, <1>6 DEF FindVerifyUser, FindResetUser, FindLinkUser
<1> QED
  BY <1>5, <1>6 DEF FindsUser

(* The stage before a change of address or number.                         *)
LEMMA ChecksKeep ==
    ASSUME IInv, NEW r \in Requests, CheckFree(r) \/ LinkSession(r) \/ CheckPhone(r)
    PROVE  IInv'
<1>1. /\ StoreStays
      /\ \/ pc[r] \in {"checkFree", "linkSession"} /\ Go(r, "changeEmail")
         \/ pc[r] = "checkPhone" /\ Go(r, "setPhone")
  BY DEF CheckFree, LinkSession, CheckPhone, Only, store, ghosts, StoreStays
<1>2. /\ Form(r, call[r], pc[r]) /\ Fit(call[r], pc[r]) /\ user[r] = None /\ call[r] \in Held
      /\ pc[r] \notin {"idle", "done"}
  BY <1>1, FormAt DEF IInv, ProvedInv
<1>3. PICK c, stage : /\ c = call[r] /\ Keep(r, c, stage) /\ pc[r] \notin {"idle", "done"}
                      /\ \/ pc[r] \in {"checkFree", "linkSession"} /\ stage = "changeEmail"
                         \/ pc[r] = "checkPhone" /\ stage = "setPhone"
  BY <1>1, GoKeep DEF IInv
<1>4. Form(r, c, stage) /\ stage \notin Holding
  BY <1>2, <1>3 DEF Form, Stages, Holding, Writing, Settling, ForUser, Acting
<1>5. Fit(c, stage)
  BY <1>2, <1>3 DEF Fit, Settling, ForUser, Acting
<1> QED
  BY <1>1, <1>2, <1>3, <1>4, <1>5, MoveKeeps

LEMMA FindsPhoneKeep ==
    ASSUME IInv, NEW r \in Requests, FindPhoneUser(r) \/ FindPhoneResetUser(r)
    PROVE  IInv'
<1>1. /\ StoreStays /\ pc[r] = "findPhone"
      /\ \/ \E u \in WithPhone(call[r].id.to), stage \in {"session", "markPhone"} : OnUser(r, u, stage)
         \/ call[r].id.kind = "phone-reset" /\ \E u \in WithPhone(call[r].id.to) : OnUser(r, u, "setPassword")
         \/ Go(r, "createPhoneUser")
  BY DEF FindPhoneUser, FindPhoneResetUser, Only, store, ghosts, StoreStays
<1>2. /\ Form(r, call[r], "findPhone") /\ Fit(call[r], "findPhone") /\ user[r] = None /\ call[r] \in Held
  BY <1>1, FormAt DEF IInv, ProvedInv
<1>3. ASSUME NEW u \in WithPhone(call[r].id.to), NEW stage \in {"session", "markPhone", "setPassword"},
             stage = "setPassword" => call[r].id.kind = "phone-reset", OnUser(r, u, stage)
      PROVE  IInv'
  <2>1. u \in Users /\ u \in Existing /\ user[u].phone = call[r].id.to /\ user[u] \in Person
    BY PersonForm DEF WithPhone, Existing
  <2>2. PICK c \in Held : c.id = call[r].id /\ c.user = u /\ c.op = call[r].op /\ Keep(r, c, stage)
    BY <1>2, <1>3, <2>1, OnUserForm
  <2>4. Form(r, c, stage)
    BY <1>2, <2>2 DEF Form, Stages, Holding, Writing, Settling, ForUser, Acting
  <2>5. Fit(c, stage)
    BY <1>2, <1>3, <2>1, <2>2 DEF Fit, Settling, ForUser, Acting
  <2> QED
    BY <1>1, <1>2, <2>2, <2>4, <2>5, MoveKeeps DEF Holding, Writing
<1>4. CASE Go(r, "createPhoneUser")
  <2>1. PICK c : c = call[r] /\ Keep(r, c, "createPhoneUser")
    BY <1>4, GoKeep DEF IInv
  <2>2. Form(r, c, "createPhoneUser") /\ Fit(c, "createPhoneUser")
    BY <1>2, <2>1 DEF Form, Fit, Stages, Holding, Writing, Settling, ForUser, Acting
  <2> QED
    BY <1>1, <1>2, <2>1, <2>2, MoveKeeps DEF Holding, Writing
<1> QED
  BY <1>1, <1>3, <1>4

LEMMA CheckNewKeeps ==
    ASSUME IInv, NEW r \in Requests, CheckNew(r)
    PROVE  IInv'
<1>1. /\ pc[r] = "checkNew"
      /\ UNCHANGED <<rows, user, byEmail, issued, accepted, dead, wrong, raced, kept, proved, misread, stale>>
      /\ \/ ~call[r].seen /\ Go(r, "setEmail") /\ UNCHANGED links
         \/ \E kind \in {"confirm", "change"} :
               links' = links \cup {Link(kind, call[r].id.of, call[r].id.to)} /\ Return(r)
  BY DEF CheckNew, Only, ghosts
<1>2. /\ Form(r, call[r], "checkNew") /\ Fit(call[r], "checkNew") /\ user[r] = None /\ call[r] \in Held
  BY <1>1, FormAt DEF IInv, ProvedInv
<1>3. CASE ~call[r].seen /\ Go(r, "setEmail") /\ UNCHANGED links
  <2>1. PICK c : c = call[r] /\ Keep(r, c, "setEmail")
    BY <1>3, GoKeep DEF IInv
  <2>2. Form(r, c, "setEmail") /\ Fit(c, "setEmail")
    BY <1>2, <1>3, <2>1 DEF Form, Fit, Stages, Holding, Writing, Settling, ForUser, Acting
  <2> QED
    BY <1>1, <1>2, <1>3, <2>1, <2>2, MoveKeeps DEF Holding, Writing, StoreStays
<1>4. ASSUME NEW kind \in {"confirm", "change"}, Return(r),
             links' = links \cup {Link(kind, call[r].id.of, call[r].id.to)}
      PROVE  IInv'
  <2>1. call[r].id \in AnyId /\ call[r].id.kind = "core-change"
    BY <1>2 DEF Form
  <2>2. call[r].id.to \in Emails /\ call[r].id.of \in Emails \cup {TempEmail}
    BY <2>1 DEF AnyId, StoredId, EmailKinds, PhoneKinds, TokenKinds
  <2>3. links' \subseteq SignedLink
    BY <1>4, <2>2 DEF IInv, TypeOK, Link, SignedLink
  <2> QED
    BY <1>1, <1>4, <2>3, StopKeeps DEF CodesQuiet, UsersQuiet
<1> QED
  BY <1>1, <1>3, <1>4

Ends(r) == NewSession(r) \/ RevokeSessions(r) \/ Stop(r)

LEMMA EndingKeeps ==
    ASSUME IInv, NEW r \in Requests, Ends(r)
    PROVE  IInv'
<1>1. StoreStays /\ Return(r)
  BY DEF Ends, NewSession, RevokeSessions, Stop, Only, store, ghosts, StoreStays
<1> QED
  BY <1>1, EndsKeep

-----------------------------------------------------------------------------
(* A user changes: row u becomes w, which is verified only as far as it is *)
(* proved, and those that act on what they have read of u find it as it    *)
(* was or among the stale.                                                 *)
Backed(u, w) ==
    /\ w \in Person
    /\ w.verified => w.email \in Shown \/ u \in stale'
    /\ w.phoneVerified => w.phone \in Shown \/ u \in stale'
Leaves(r, u, w) ==
    \A q \in Requests \ {r} : user[u] # None /\ call[q].user = u =>
       /\ pc[q] \in Acting => u \in stale' \/ (w.email = user[u].email /\ w.verified = user[u].verified)
       /\ pc[q] = "markPhone" => u \in stale' \/ w.phone = user[u].phone
Indexed == \A e \in Emails \cup {TempEmail} : byEmail[e] # None =>
              byEmail[e] \in Existing /\ user[byEmail[e]].email = e

LEMMA ProvedStays ==
    ASSUME IInv, NEW r \in Requests, NEW c, NEW stage, Keep(r, c, stage), Fit(c, stage)',
           NEW u \in Users, NEW w, user' = [user EXCEPT ![u] = w], Backed(u, w), Leaves(r, u, w),
           u = r \/ u \in Existing, user[r] # None \/ u = r => stage \in {"mark", "session", "revoke", "done"},
           stale \subseteq stale', UNCHANGED <<proved, misread>>, Indexed'
    PROVE  ProvedInv'
<1>1. /\ pc'[r] = stage /\ call'[r] = c
      /\ \A q \in Requests \ {r} : pc'[q] = pc[q] /\ call'[q] = call[q]
  BY DEF IInv, TypeOK, Keep
<1>2. /\ user'[u] = w /\ w # None /\ \A v \in Users \ {u} : user'[v] = user[v]
      /\ Existing \subseteq Existing' /\ Existing' \subseteq Existing \cup {u}
  BY NameAssumption DEF IInv, TypeOK, Backed, Existing
<1>3. VerifiedMeansProved'
  <2> SUFFICES ASSUME NEW v \in Existing'
               PROVE  /\ user'[v].verified => user'[v].email \in Shown \/ v \in stale'
                      /\ user'[v].phoneVerified => user'[v].phone \in Shown \/ v \in stale'
    BY DEF VerifiedMeansProved, Shown
  <2>1. CASE v = u
    BY <1>2, <2>1 DEF Backed
  <2>2. CASE v # u
    BY <1>2, <2>2 DEF IInv, ProvedInv, VerifiedMeansProved, Existing, Shown
  <2> QED BY <2>1, <2>2
<1>shown. Shown' = Shown
  BY DEF Shown
<1>4. \A q \in Requests : Fit(call[q], pc[q])'
  <2>1. Fit(call[r], pc[r])'
    BY <1>1 DEF Fit
  <2>2. ASSUME NEW q \in Requests \ {r} PROVE Fit(call[q], pc[q])'
    <3>1. Fit(call[q], pc[q]) /\ pc'[q] = pc[q] /\ call'[q] = call[q]
      BY <1>1 DEF IInv, ProvedInv
    <3>2. CASE pc[q] \notin ForUser
      <4>1. pc[q] \notin {"mark", "setPassword", "markPhone", "setEmail", "checkNew"}
        BY <3>2 DEF ForUser, Acting
      <4> QED
        BY <1>2, <1>shown, <3>1, <3>2, <4>1 DEF Fit
    <3>3. CASE pc[q] \in ForUser
      <4>1. call[q].user \in Existing /\ call[q].user \in Users
        BY <3>1, <3>3 DEF Fit, Existing
      <4>2. CASE call[q].user # u
        <5>1. user'[call[q].user] = user[call[q].user]
          BY <1>2, <4>1, <4>2
        <5> QED
          BY <1>2, <1>shown, <3>1, <4>1, <5>1 DEF Fit
      <4>3. CASE call[q].user = u
        <5>1. user[u] # None
          BY <4>1, <4>3 DEF Existing
        <5>2. /\ pc[q] \in Acting => u \in stale' \/ (w.email = user[u].email /\ w.verified = user[u].verified)
              /\ pc[q] = "markPhone" => u \in stale' \/ w.phone = user[u].phone
          BY <4>3, <5>1 DEF Leaves
        <5> QED
          BY <1>2, <1>shown, <3>1, <4>1, <4>3, <5>2 DEF Fit, Acting
      <4> QED BY <4>2, <4>3
    <3> QED BY <3>2, <3>3
  <2> QED BY <2>1, <2>2
<1>5. \A q \in Requests : user'[q] # None => pc'[q] \in {"mark", "session", "revoke", "done"}
  BY <1>1, <1>2 DEF IInv, ProvedInv, Users, Existing
<1> QED
  BY <1>3, <1>4, <1>5 DEF ProvedInv, Indexed

LEMMA ChangedKeeps ==
    ASSUME IInv, NEW r \in Requests, NEW c, NEW stage, Keep(r, c, stage), Fit(c, stage)',
           (stage = "done" /\ c \in Held \cup {None}) \/ Form(r, c, stage),
           stage \notin Holding \cup {"idle"},
           stage = "done" \/ c.op \in {"send", "rotate"} \/ issued[r] = None,
           NEW u \in Users, NEW w, user' = [user EXCEPT ![u] = w], Backed(u, w), Leaves(r, u, w),
           u = r \/ u \in Existing, user[r] # None \/ u = r => stage \in {"mark", "session", "revoke", "done"},
           stale \subseteq stale', UNCHANGED <<proved, misread>>, Indexed',
           byEmail' \in [Emails \cup {TempEmail} -> Users \cup {None}],
           CodesQuiet, links' \subseteq SignedLink
    PROVE  IInv'
<1>1. user' \in [Users -> Person \cup {None}]
  BY DEF IInv, TypeOK, Backed
<1>2. TypeOK'
  BY <1>1, KeepForm DEF IInv, TypeOK, CodesQuiet
<1> QED
  BY <1>2, CodesKeep, ProvedStays DEF IInv

(* What an update starts from, and what it hands on.                       *)
LEMMA CurrentForm ==
    ASSUME IInv, NEW r \in Requests, pc[r] \in Updating, adapter = "sql" => call[r].copy # None
    PROVE  Current(r) \in Person
<1>1. Form(r, call[r], pc[r]) /\ Fit(call[r], pc[r]) /\ call[r] \in Held
  BY FormAt DEF Updating, IInv, ProvedInv
<1>2. call[r].user \in Existing
  BY <1>1 DEF Fit, Updating, ForUser, Acting
<1>3. user[call[r].user] \in Person
  BY <1>2, PersonForm
<1>4. call[r].copy \in Person \cup {None}
  BY <1>1 DEF Held
<1> QED
  BY <1>3, <1>4 DEF Current

LEMMA AdvanceForm ==
    ASSUME NEW r \in Requests, call[r] \in Held, NEW stage, Advance(r, stage)
    PROVE  \E c \in Held : /\ c.id = call[r].id /\ c.user = call[r].user /\ c.op = call[r].op
                           /\ Keep(r, c, stage)
<1>1. PICK c : c = [call[r] EXCEPT !.copy = None]
  OBVIOUS
<1>2. c \in Held /\ c.id = call[r].id /\ c.user = call[r].user /\ c.op = call[r].op
  BY <1>1 DEF Held
<1> QED
  BY <1>1, <1>2 DEF Advance

LEMMA FindCurrentKeeps ==
    ASSUME IInv, NEW r \in Requests, FindCurrent(r)
    PROVE  IInv'
<1>1. PICK u, c : /\ u = call[r].user /\ c = [call[r] EXCEPT !.copy = user[u]] /\ Keep(r, c, pc[r])
                  /\ pc[r] \in Updating /\ Only(<<store, ghosts>>)
  BY DEF FindCurrent
<1>2. /\ Form(r, call[r], pc[r]) /\ Fit(call[r], pc[r]) /\ call[r] \in Held
      /\ pc[r] \notin {"idle", "done"}
      /\ user[r] = None \/ pc[r] = "mark"
  BY <1>1, FormAt DEF Updating, IInv, ProvedInv
<1>3. u \in Existing
  BY <1>1, <1>2 DEF Fit, Updating, ForUser, Acting
<1>4. PICK w \in Person : w = user[u]
  BY <1>3, PersonForm
<1>5. /\ c \in Held /\ c.id = call[r].id /\ c.user = call[r].user /\ c.op = call[r].op
      /\ c.seen = call[r].seen
  BY <1>1, <1>2, <1>4 DEF Held
<1>6. Form(r, c, pc[r]) /\ pc[r] \notin Holding
  BY <1>1, <1>2, <1>5 DEF Form, Updating, Holding, Writing
<1>7. Fit(c, pc[r])
  BY <1>1, <1>2, <1>5 DEF Fit, Updating
<1>8. StoreStays
  BY <1>1 DEF Only, store, ghosts, StoreStays
<1> QED
  BY <1>1, <1>2, <1>5, <1>6, <1>7, <1>8, MoveKeeps

(* Whoever changes a user marks it for those that act on what they read,   *)
(* and an update from a copy marks the user when the copy is old.          *)
Alike(v, w) == /\ v.email = w.email /\ v.verified = w.verified
               /\ v.phone = w.phone /\ v.phoneVerified = w.phoneVerified

LEMMA ChangeMarks ==
    ASSUME IInv, NEW r \in Requests, pc[r] \in Updating, NEW u \in Existing, u = call[r].user,
           NEW new \in Person, Change(r, u, new)
    PROVE  \E w \in Person : /\ user' = [user EXCEPT ![u] = w] /\ Alike(w, new)
                             /\ stale \subseteq stale' /\ Leaves(r, u, w)
                             /\ u \in stale' \/ Alike(Current(r), user[u])
<1>1. /\ user[u] \in Person /\ u \in Users /\ Current(r) \in Person
      /\ adapter = "sql" => call[r].copy # None
  BY PersonForm, CurrentForm DEF Change
<1>2. PICK w : w = [new EXCEPT !.password = user[u].password]
  OBVIOUS
<1>3. w \in Person /\ Alike(w, new)
  BY <1>1, <1>2 DEF Person, Alike
<1>4. user' = [user EXCEPT ![u] = w] /\ stale \subseteq stale'
  BY <1>2 DEF Change
<1>5. Leaves(r, u, w)
  <2>1. ASSUME NEW q \in Requests \ {r}, call[q].user = u, u \notin stale'
        PROVE  /\ pc[q] \in Acting => new.email = user[u].email /\ new.verified = user[u].verified
               /\ pc[q] = "markPhone" => new.phone = user[u].phone
    <3>1. ~Overtaken(r, u, new)
      BY <2>1 DEF Change
    <3> QED
      BY <2>1, <3>1 DEF Overtaken, Acting
  <2> QED
    BY <1>3, <2>1 DEF Leaves, Alike
<1>6. u \in stale' \/ Alike(Current(r), user[u])
  <2>1. CASE adapter = "sql"
    <3>1. PICK h \in Person : h = call[r].copy /\ h = Current(r)
      BY <1>1, <2>1 DEF Current
    <3>2. u \in stale' \/ [h EXCEPT !.password = user[u].password] = user[u]
      BY <2>1, <3>1 DEF Change, Overtaken
    <3> QED
      BY <3>1, <3>2 DEF Person, Alike
  <2>2. CASE adapter # "sql"
    BY <2>2 DEF Current, Alike
  <2> QED BY <2>1, <2>2
<1> QED
  BY <1>3, <1>4, <1>5, <1>6

LEMMA SameIndex ==
    ASSUME IInv, NEW u \in Users, NEW w \in Person, user' = [user EXCEPT ![u] = w],
           user[u] = None \/ w.email = user[u].email, UNCHANGED byEmail
    PROVE  Indexed' /\ byEmail' \in [Emails \cup {TempEmail} -> Users \cup {None}]
<1>1. \A v \in Users : user[v] # None => user'[v] # None /\ user'[v].email = user[v].email
  BY NameAssumption DEF IInv, TypeOK
<1> QED
  BY <1>1 DEF IInv, TypeOK, ProvedInv, Indexed, Existing

LEMMA NewIndex ==
    ASSUME IInv, NEW u \in Users, NEW w \in Person, user' = [user EXCEPT ![u] = w],
           \/ user[u] = None /\ byEmail' = [byEmail EXCEPT ![w.email] = u]
           \/ user[u] # None /\ byEmail' = ReIndexed(u, w.email)
    PROVE  Indexed' /\ byEmail' \in [Emails \cup {TempEmail} -> Users \cup {None}]
<1>1. w.email \in Emails \cup {TempEmail} /\ w # None
  BY NameAssumption DEF Person
<1>2. user'[u] = w /\ \A v \in Users \ {u} : user'[v] = user[v]
  BY DEF IInv, TypeOK
<1>3. byEmail' \in [Emails \cup {TempEmail} -> Users \cup {None}] /\ byEmail'[w.email] = u
  BY <1>1 DEF IInv, TypeOK, ReIndexed
<1>4. ASSUME NEW e \in Emails \cup {TempEmail}, byEmail'[e] # None
      PROVE  byEmail'[e] \in Existing' /\ user'[byEmail'[e]].email = e
  <2>1. CASE e = w.email
    BY <1>1, <1>2, <1>3, <2>1 DEF Existing
  <2>2. CASE e # w.email
    <3>1. byEmail'[e] = byEmail[e] /\ (user[u] = None \/ user[u].email # e)
      BY <1>4, <2>2 DEF IInv, TypeOK, ReIndexed
    <3>2. byEmail[e] \in Existing /\ user[byEmail[e]].email = e
      BY <1>4, <3>1 DEF IInv, ProvedInv
    <3>3. byEmail[e] # u /\ byEmail[e] \in Users
      BY <3>1, <3>2 DEF Existing
    <3> QED
      BY <1>2, <3>1, <3>2, <3>3 DEF Existing
  <2> QED BY <2>1, <2>2
<1> QED
  BY <1>3, <1>4 DEF Indexed

LEMMA AtStage ==
    ASSUME IInv, NEW r \in Requests, pc[r] \in Settling \cup ForUser
    PROVE  /\ Form(r, call[r], pc[r]) /\ Fit(call[r], pc[r]) /\ call[r] \in Held
           /\ call[r].op \in {"send", "rotate"} \/ issued[r] = None
           /\ pc[r] \in ForUser =>
                 call[r].user \in Existing /\ call[r].user \in Users /\ user[call[r].user] \in Person
           /\ pc[r] \in {"findUser", "createUser", "checkFree", "linkSession", "changeEmail", "setEmail"} =>
                 call[r].id.to \in Emails
           /\ pc[r] \in {"findPhone", "checkPhone", "setPhone", "createPhoneUser"} =>
                 call[r].id.to \in Phones
           /\ pc[r] # "mark" => user[r] = None
<1>1. pc[r] \notin {"idle", "done"}
  BY DEF Settling, ForUser, Acting
<1>2. Form(r, call[r], pc[r]) /\ Fit(call[r], pc[r]) /\ call[r] \in Held
  BY <1>1, FormAt DEF IInv, ProvedInv
<1>3. call[r].op \in {"send", "rotate"} \/ issued[r] = None
  BY <1>1, OpKept
<1>4. pc[r] \in ForUser =>
         call[r].user \in Existing /\ call[r].user \in Users /\ user[call[r].user] \in Person
  BY <1>2, PersonForm DEF Fit
<1>5. pc[r] = "takeOff" \/ call[r].id \in AnyId
  BY <1>2 DEF Form
<1>6. pc[r] \in {"findUser", "createUser", "checkFree", "linkSession", "changeEmail", "setEmail"} =>
         call[r].id.to \in Emails
  BY <1>2, <1>5 DEF Form, AnyId, StoredId, EmailKinds, PhoneKinds, TokenKinds
<1>7. pc[r] \in {"findPhone", "checkPhone", "setPhone", "createPhoneUser"} => call[r].id.to \in Phones
  BY <1>2, <1>5 DEF Form, AnyId, StoredId, EmailKinds, PhoneKinds, TokenKinds
<1>8. pc[r] # "mark" => user[r] = None
  BY DEF IInv, ProvedInv, Settling, ForUser, Acting
<1> QED
  BY <1>2, <1>3, <1>4, <1>6, <1>7, <1>8

(* The index after an update that may write an address.                    *)
LEMMA RestIndex ==
    ASSUME IInv, NEW r \in Requests, NEW u \in Existing, NEW new, NEW w \in Person,
           ChangeRest(r, u, new), user' = [user EXCEPT ![u] = w], w.email = new.email
    PROVE  Indexed' /\ byEmail' \in [Emails \cup {TempEmail} -> Users \cup {None}]
<1>1. u \in Users /\ user[u] # None
  BY DEF Existing
<1>2. CASE new.email = user[u].email
  BY <1>1, <1>2, SameIndex DEF ChangeRest
<1>3. CASE new.email # user[u].email
  BY <1>1, <1>3, NewIndex DEF ChangeRest
<1> QED BY <1>2, <1>3

(* What was proved of the row an update starts from stays proved.          *)
LEMMA BackedIs ==
    ASSUME IInv, NEW u \in Existing, NEW w \in Person, NEW h \in Person, stale \subseteq stale',
           u \in stale' \/ Alike(h, user[u]),
           \/ w.email = h.email /\ w.verified = h.verified
           \/ w.email \in Shown
           \/ ~w.verified,
           \/ w.phone = h.phone /\ w.phoneVerified = h.phoneVerified
           \/ w.phone \in Shown
           \/ ~w.phoneVerified
    PROVE  Backed(u, w)
BY DEF Backed, Alike, IInv, ProvedInv, VerifiedMeansProved, Shown

LEMMA MarkVerifiedKeeps ==
    ASSUME IInv, NEW r \in Requests, MarkVerified(r)
    PROVE  IInv'
<1>1. PICK u, h, new : /\ u = call[r].user /\ h = Current(r) /\ new = [h EXCEPT !.verified = TRUE]
                       /\ ChangeRest(r, u, new) /\ Change(r, u, new)
                       /\ pc[r] = "mark" /\ UNCHANGED <<links, proved, misread>> /\ CodesQuiet
                       /\ Advance(r, "session") \/ Advance(r, "revoke") \/ Return(r)
  BY DEF MarkVerified, ChangeRest, Only, CodesQuiet
<1>2. /\ Form(r, call[r], "mark") /\ Fit(call[r], "mark") /\ call[r] \in Held
      /\ call[r].op \in {"send", "rotate"} \/ issued[r] = None
      /\ u \in Existing /\ u \in Users /\ user[u] \in Person /\ pc[r] \in Updating
  BY <1>1, AtStage DEF ForUser, Acting, Updating
<1>3. PICK c, stage : /\ Keep(r, c, stage)
                      /\ \/ /\ stage \in {"session", "revoke"} /\ c \in Held
                            /\ c.op = call[r].op /\ c.id = call[r].id
                         \/ stage = "done" /\ c = None
  BY <1>1, <1>2, AdvanceForm DEF Return
<1>4. h \in Person
  BY <1>1, <1>2, CurrentForm DEF Change
<1>5. new \in Person /\ new.email = h.email /\ new.phone = h.phone /\ new.phoneVerified = h.phoneVerified
  BY <1>1, <1>4 DEF Person
<1>6. PICK w \in Person : /\ user' = [user EXCEPT ![u] = w] /\ Alike(w, new)
                          /\ stale \subseteq stale' /\ Leaves(r, u, w)
                          /\ u \in stale' \/ Alike(h, user[u])
  BY <1>1, <1>2, <1>5, ChangeMarks
<1>7. Backed(u, w)
  <2>1. w.email \in Shown \/ u \in stale'
    BY <1>1, <1>2, <1>5, <1>6 DEF Fit, Alike
  <2>2. w.phoneVerified => w.phone \in Shown \/ u \in stale'
    BY <1>2, <1>5, <1>6 DEF IInv, ProvedInv, VerifiedMeansProved, Alike, Shown
  <2> QED
    BY <2>1, <2>2 DEF Backed
<1>8. /\ (stage = "done" /\ c \in Held \cup {None}) \/ Form(r, c, stage)
      /\ Fit(c, stage)' /\ stage \notin Holding \cup {"idle"}
      /\ stage = "done" \/ c.op \in {"send", "rotate"} \/ issued[r] = None
  BY <1>2, <1>3 DEF Form, Fit, Stages, Holding, Writing, Settling, ForUser, Acting
<1>9. Indexed' /\ byEmail' \in [Emails \cup {TempEmail} -> Users \cup {None}]
  BY <1>1, <1>2, <1>5, <1>6, RestIndex DEF Alike
<1>10. links' \subseteq SignedLink
  BY <1>1 DEF IInv, TypeOK
<1> QED
  BY <1>1, <1>2, <1>3, <1>6, <1>7, <1>8, <1>9, <1>10, ChangedKeeps

LEMMA SetCredentialPasswordKeeps ==
    ASSUME IInv, NEW r \in Requests, SetCredentialPassword(r)
    PROVE  IInv'
<1>1. PICK u, w, stage :
         /\ u = call[r].user /\ w = [user[u] EXCEPT !.password = r] /\ pc[r] = "setPassword"
         /\ user' = [user EXCEPT ![u].password = r] /\ Go(r, stage)
         /\ stage = IF call[r].id.kind = "forget-password" /\ ~call[r].seen THEN "mark" ELSE "revoke"
         /\ UNCHANGED <<byEmail, links, proved, misread, stale>> /\ CodesQuiet
  BY DEF SetCredentialPassword, Only, CodesQuiet, ghosts
<1>2. /\ Form(r, call[r], "setPassword") /\ Fit(call[r], "setPassword") /\ call[r] \in Held /\ user[r] = None
      /\ call[r].op \in {"send", "rotate"} \/ issued[r] = None
      /\ u \in Existing /\ u \in Users /\ user[u] \in Person
  BY <1>1, AtStage DEF ForUser, Acting
<1>3. PICK c : c = call[r] /\ Keep(r, c, stage)
  BY <1>1, GoKeep DEF IInv
<1>4. /\ w \in Person /\ w.email = user[u].email /\ w.phone = user[u].phone
      /\ w.verified = user[u].verified /\ w.phoneVerified = user[u].phoneVerified
  BY <1>1, <1>2 DEF Person, Users
<1>5. user' = [user EXCEPT ![u] = w] /\ stale \subseteq stale' /\ Leaves(r, u, w) /\ user'[u] = w
  BY <1>1, <1>2, <1>4 DEF Leaves, IInv, TypeOK
<1>6. Backed(u, w)
  BY <1>1, <1>2, <1>4 DEF Backed, IInv, ProvedInv, VerifiedMeansProved, Shown
<1>7. Form(r, c, stage) /\ stage \notin Holding \cup {"idle"}
  BY <1>1, <1>2, <1>3 DEF Form, Stages, Holding, Writing, Settling, ForUser, Acting
<1>8. Fit(c, stage)'
  <2>1. u \in Existing'
    BY <1>2, <1>4, <1>5, NameAssumption DEF Existing
  <2> QED
    BY <1>1, <1>2, <1>3, <1>4, <1>5, <2>1 DEF Fit, Settling, ForUser, Acting, Shown
<1>9. Indexed' /\ byEmail' \in [Emails \cup {TempEmail} -> Users \cup {None}]
  BY <1>1, <1>2, <1>4, <1>5, SameIndex
<1>10. links' \subseteq SignedLink /\ u # r
  BY <1>1, <1>2 DEF IInv, TypeOK, Existing
<1> QED
  BY <1>1, <1>2, <1>3, <1>5, <1>6, <1>7, <1>8, <1>9, <1>10, ChangedKeeps

LEMMA CreateUserKeeps ==
    ASSUME IInv, NEW r \in Requests, CreateUser(r)
    PROVE  IInv'
<1>1. PICK e, magic, c, stage :
         /\ e = call[r].id.to /\ magic \in BOOLEAN /\ magic = (call[r].id.kind = "magic-link")
         /\ c = [call[r] EXCEPT !.user = r] /\ stage = IF magic THEN "session" ELSE "mark"
         /\ pc[r] = "createUser" /\ Keep(r, c, stage)
         /\ user' = [user EXCEPT ![r] = UserRow(e, magic, None, FALSE)]
         /\ byEmail' = [byEmail EXCEPT ![e] = r]
         /\ UNCHANGED <<links, proved, misread, stale>> /\ CodesQuiet
  BY DEF CreateUser, Only, CodesQuiet, ghosts
<1>2. /\ Form(r, call[r], "createUser") /\ call[r] \in Held /\ user[r] = None
      /\ call[r].op \in {"send", "rotate"} \/ issued[r] = None
      /\ e \in Emails /\ e \in Shown
  BY <1>1, AtStage DEF Settling, Fit
<1>3. PICK w : w = UserRow(e, magic, None, FALSE)
  OBVIOUS
<1>4. w \in Person /\ w.email = e /\ w.phone = None /\ ~w.phoneVerified
  BY <1>1, <1>2, <1>3 DEF UserRow, Person
<1>5. r \in Users /\ c \in Held /\ c.user = r /\ c.op = call[r].op /\ c.id = call[r].id
  BY <1>1, <1>2 DEF Held, Users
<1>6. user'[r] = w /\ r \in Existing'
  BY <1>1, <1>3, <1>4, <1>5, NameAssumption DEF Existing, IInv, TypeOK
<1>7. Backed(r, w) /\ Leaves(r, r, w)
  BY <1>2, <1>4 DEF Backed, Leaves
<1>8. Form(r, c, stage) /\ stage \notin Holding \cup {"idle"}
  BY <1>1, <1>2, <1>5 DEF Form, Stages, Holding, Writing, Settling, ForUser, Acting
<1>9. Fit(c, stage)'
  <2>1. stage \in {"session", "mark"} /\ Shown' = Shown
    BY <1>1 DEF Shown
  <2> QED
    BY <1>2, <1>4, <1>5, <1>6, <2>1 DEF Fit, Settling, ForUser, Acting
<1>10. Indexed' /\ byEmail' \in [Emails \cup {TempEmail} -> Users \cup {None}]
  BY <1>1, <1>2, <1>3, <1>4, <1>5, NewIndex
<1>11. links' \subseteq SignedLink
  BY <1>1 DEF IInv, TypeOK
<1> QED
  BY <1>1, <1>2, <1>3, <1>5, <1>7, <1>8, <1>9, <1>10, <1>11, ChangedKeeps

LEMMA createPhoneVerificationUserKeeps ==
    ASSUME IInv, NEW r \in Requests, createPhoneVerificationUser(r)
    PROVE  IInv'
<1>1. PICK p, c :
         /\ p = call[r].id.to /\ c = [call[r] EXCEPT !.user = r]
         /\ pc[r] = "createPhoneUser" /\ Keep(r, c, "session")
         /\ user' = [user EXCEPT ![r] = UserRow(TempEmail, FALSE, p, TRUE)]
         /\ byEmail' = [byEmail EXCEPT ![TempEmail] = r]
         /\ UNCHANGED <<links, proved, misread, stale>> /\ CodesQuiet
  BY DEF createPhoneVerificationUser, Only, CodesQuiet, ghosts
<1>2. /\ Form(r, call[r], "createPhoneUser") /\ call[r] \in Held /\ user[r] = None
      /\ call[r].op \in {"send", "rotate"} \/ issued[r] = None
      /\ p \in Phones /\ p \in Shown
  BY <1>1, AtStage DEF Settling, Fit
<1>3. PICK w : w = UserRow(TempEmail, FALSE, p, TRUE)
  OBVIOUS
<1>4. w \in Person /\ w.email = TempEmail /\ ~w.verified /\ w.phone = p
  BY <1>1, <1>2, <1>3 DEF UserRow, Person
<1>5. r \in Users /\ c \in Held /\ c.user = r /\ c.op = call[r].op /\ c.id = call[r].id
  BY <1>1, <1>2 DEF Held, Users
<1>6. Backed(r, w) /\ Leaves(r, r, w)
  BY <1>2, <1>4 DEF Backed, Leaves
<1>7. Form(r, c, "session") /\ Fit(c, "session")'
  BY <1>2, <1>5 DEF Form, Fit, Stages, Holding, Writing, Settling, ForUser, Acting
<1>8. Indexed' /\ byEmail' \in [Emails \cup {TempEmail} -> Users \cup {None}]
  BY <1>1, <1>2, <1>3, <1>4, <1>5, NewIndex
<1>9. links' \subseteq SignedLink
  BY <1>1 DEF IInv, TypeOK
<1> QED
  BY <1>1, <1>2, <1>3, <1>5, <1>6, <1>7, <1>8, <1>9, ChangedKeeps DEF Holding, Writing

LEMMA ReturnForm ==
    ASSUME IInv, NEW r \in Requests, Return(r)
    PROVE  Keep(r, None, "done") /\ Fit(None, "done")' /\ "done" \notin Holding \cup {"idle"}
BY DEF Return, Fit, Holding, Writing, Settling, ForUser, Acting

LEMMA ChangeEmailKeeps ==
    ASSUME IInv, NEW r \in Requests, ChangeEmail(r)
    PROVE  IInv'
<1>1. PICK u, e, h, new :
         /\ u = call[r].user /\ e = call[r].id.to /\ pc[r] = "changeEmail" /\ h = Current(r)
         /\ new = [h EXCEPT !.email = e, !.verified = TRUE] /\ Change(r, u, new)
         /\ byEmail' = ReIndexed(u, e) /\ Return(r)
         /\ UNCHANGED <<links, proved, misread>> /\ CodesQuiet
  BY DEF ChangeEmail, Only, CodesQuiet
<1>2. /\ Fit(call[r], "changeEmail") /\ user[r] = None /\ e \in Emails
      /\ u \in Existing /\ u \in Users /\ user[u] \in Person /\ pc[r] \in Updating
  BY <1>1, AtStage DEF Settling, ForUser, Acting, Updating
<1>3. e \in Shown
  BY <1>1, <1>2 DEF Fit, Settling
<1>4. h \in Person
  BY <1>1, <1>2, CurrentForm DEF Change
<1>5. new \in Person /\ new.email = e /\ new.phone = h.phone /\ new.phoneVerified = h.phoneVerified
  BY <1>1, <1>2, <1>4 DEF Person
<1>6. PICK w \in Person : /\ user' = [user EXCEPT ![u] = w] /\ Alike(w, new)
                          /\ stale \subseteq stale' /\ Leaves(r, u, w)
                          /\ u \in stale' \/ Alike(h, user[u])
  BY <1>1, <1>2, <1>5, ChangeMarks
<1>7. Backed(u, w)
  BY <1>2, <1>3, <1>4, <1>5, <1>6, BackedIs DEF Alike
<1>8. Indexed' /\ byEmail' \in [Emails \cup {TempEmail} -> Users \cup {None}]
  <2>1. user[u] # None /\ byEmail' = ReIndexed(u, w.email)
    BY <1>1, <1>2, <1>5, <1>6 DEF Existing, Alike
  <2> QED
    BY <1>2, <1>6, <2>1, NewIndex
<1>9. links' \subseteq SignedLink /\ u # r
  BY <1>1, <1>2 DEF IInv, TypeOK, Existing
<1> QED
  BY <1>1, <1>2, <1>6, <1>7, <1>8, <1>9, ReturnForm, ChangedKeeps

LEMMA SetEmailKeeps ==
    ASSUME IInv, NEW r \in Requests, SetEmail(r)
    PROVE  IInv'
<1>1. PICK u, e, h, new :
         /\ u = call[r].user /\ e = call[r].id.to /\ pc[r] = "setEmail" /\ h = Current(r)
         /\ new = [h EXCEPT !.email = e] /\ Change(r, u, new)
         /\ byEmail' = ReIndexed(u, e) /\ Return(r)
         /\ links' = links \cup {Link("verify", e, e)}
         /\ UNCHANGED <<proved, misread>> /\ CodesQuiet
  BY DEF SetEmail, Only, CodesQuiet
<1>2. /\ Fit(call[r], "setEmail") /\ user[r] = None /\ e \in Emails
      /\ u \in Existing /\ u \in Users /\ user[u] \in Person /\ pc[r] \in Updating
  BY <1>1, AtStage DEF Settling, ForUser, Acting, Updating
<1>3. ~user[u].verified \/ u \in stale
  BY <1>1, <1>2 DEF Fit
<1>4. h \in Person
  BY <1>1, <1>2, CurrentForm DEF Change
<1>5. /\ new \in Person /\ new.email = e /\ new.verified = h.verified
      /\ new.phone = h.phone /\ new.phoneVerified = h.phoneVerified
  BY <1>1, <1>2, <1>4 DEF Person
<1>6. PICK w \in Person : /\ user' = [user EXCEPT ![u] = w] /\ Alike(w, new)
                          /\ stale \subseteq stale' /\ Leaves(r, u, w)
                          /\ u \in stale' \/ Alike(h, user[u])
  BY <1>1, <1>2, <1>5, ChangeMarks
<1>7. Backed(u, w)
  BY <1>2, <1>3, <1>5, <1>6 DEF Backed, Alike, IInv, ProvedInv, VerifiedMeansProved, Shown
<1>8. Indexed' /\ byEmail' \in [Emails \cup {TempEmail} -> Users \cup {None}]
  <2>1. user[u] # None /\ byEmail' = ReIndexed(u, w.email)
    BY <1>1, <1>2, <1>5, <1>6 DEF Existing, Alike
  <2> QED
    BY <1>2, <1>6, <2>1, NewIndex
<1>9. links' \subseteq SignedLink /\ u # r
  BY <1>1, <1>2 DEF IInv, TypeOK, Link, SignedLink, Existing
<1> QED
  BY <1>1, <1>2, <1>6, <1>7, <1>8, <1>9, ReturnForm, ChangedKeeps

LEMMA SetPhoneKeeps ==
    ASSUME IInv, NEW r \in Requests, SetPhone(r)
    PROVE  IInv'
<1>1. PICK u, p, h, new :
         /\ u = call[r].user /\ p = call[r].id.to /\ pc[r] = "setPhone" /\ h = Current(r)
         /\ new = [h EXCEPT !.phone = p, !.phoneVerified = TRUE]
         /\ ChangeRest(r, u, new) /\ Change(r, u, new)
         /\ Return(r) /\ UNCHANGED <<links, proved, misread>> /\ CodesQuiet
  BY DEF SetPhone, ChangeRest, Only, CodesQuiet
<1>2. /\ Fit(call[r], "setPhone") /\ user[r] = None /\ p \in Phones
      /\ u \in Existing /\ u \in Users /\ user[u] \in Person /\ pc[r] \in Updating
  BY <1>1, AtStage DEF Settling, ForUser, Updating
<1>3. p \in Shown
  BY <1>1, <1>2 DEF Fit, Settling
<1>4. h \in Person
  BY <1>1, <1>2, CurrentForm DEF Change
<1>5. new \in Person /\ new.email = h.email /\ new.verified = h.verified /\ new.phone = p
  BY <1>1, <1>2, <1>4 DEF Person
<1>6. PICK w \in Person : /\ user' = [user EXCEPT ![u] = w] /\ Alike(w, new)
                          /\ stale \subseteq stale' /\ Leaves(r, u, w)
                          /\ u \in stale' \/ Alike(h, user[u])
  BY <1>1, <1>2, <1>5, ChangeMarks
<1>7. Backed(u, w)
  BY <1>2, <1>3, <1>4, <1>5, <1>6, BackedIs DEF Alike
<1>8. Indexed' /\ byEmail' \in [Emails \cup {TempEmail} -> Users \cup {None}]
  BY <1>1, <1>2, <1>6, RestIndex DEF Alike
<1>9. links' \subseteq SignedLink /\ u # r
  BY <1>1, <1>2 DEF IInv, TypeOK, Existing
<1> QED
  BY <1>1, <1>2, <1>6, <1>7, <1>8, <1>9, ReturnForm, ChangedKeeps

LEMMA MarkPhoneKeeps ==
    ASSUME IInv, NEW r \in Requests, MarkPhone(r)
    PROVE  IInv'
<1>1. PICK u, h, new :
         /\ u = call[r].user /\ pc[r] = "markPhone" /\ h = Current(r)
         /\ new = [h EXCEPT !.phoneVerified = TRUE]
         /\ ChangeRest(r, u, new) /\ Change(r, u, new)
         /\ Advance(r, "session") /\ UNCHANGED <<links, proved, misread>> /\ CodesQuiet
  BY DEF MarkPhone, ChangeRest, Only, CodesQuiet
<1>2. /\ Form(r, call[r], "markPhone") /\ Fit(call[r], "markPhone") /\ user[r] = None
      /\ call[r] \in Held
      /\ call[r].op \in {"send", "rotate"} \/ issued[r] = None
      /\ u \in Existing /\ u \in Users /\ user[u] \in Person /\ pc[r] \in Updating
  BY <1>1, AtStage DEF ForUser, Updating
<1>3. user[u].phone \in Shown \/ u \in stale
  BY <1>1, <1>2 DEF Fit
<1>4. h \in Person
  BY <1>1, <1>2, CurrentForm DEF Change
<1>5. /\ new \in Person /\ new.email = h.email /\ new.verified = h.verified /\ new.phone = h.phone
  BY <1>1, <1>4 DEF Person
<1>6. PICK w \in Person : /\ user' = [user EXCEPT ![u] = w] /\ Alike(w, new)
                          /\ stale \subseteq stale' /\ Leaves(r, u, w)
                          /\ u \in stale' \/ Alike(h, user[u])
  BY <1>1, <1>2, <1>5, ChangeMarks
<1>7. Backed(u, w)
  BY <1>2, <1>3, <1>5, <1>6 DEF Backed, Alike, IInv, ProvedInv, VerifiedMeansProved, Shown
<1>8. Indexed' /\ byEmail' \in [Emails \cup {TempEmail} -> Users \cup {None}]
  BY <1>1, <1>2, <1>6, RestIndex DEF Alike
<1>9. links' \subseteq SignedLink /\ u # r
  BY <1>1, <1>2 DEF IInv, TypeOK, Existing
<1>10. PICK c \in Held : c.id = call[r].id /\ c.op = call[r].op /\ Keep(r, c, "session")
  BY <1>1, <1>2, AdvanceForm
<1>11. Form(r, c, "session") /\ Fit(c, "session")' /\ "session" \notin Holding \cup {"idle"}
  BY <1>2, <1>10 DEF Form, Fit, Stages, Holding, Writing, Settling, ForUser, Acting
<1> QED
  BY <1>1, <1>2, <1>6, <1>7, <1>8, <1>9, <1>10, <1>11, ChangedKeeps

LEMMA UpdateUserKeeps ==
    ASSUME IInv, NEW r \in Requests, pc[r] = "idle", UpdateUser(r)
    PROVE  IInv'
<1>1. PICK u \in Existing : Keep(r, Ask("change", None, None, u), "takeOff") /\ Only(<<store, ghosts>>)
  BY DEF UpdateUser
<1>2. u \in Users
  BY DEF Existing
<1>3. PICK c : c = Ask("change", None, None, u) /\ c \in Held /\ c.user = u
  BY <1>2, AskForm
<1>4. Form(r, c, "takeOff")
  BY <1>3 DEF Form, Stages, Holding, Writing, Settling, ForUser, Acting
<1>5. CodesQuiet /\ UsersQuiet /\ links' \subseteq SignedLink /\ UNCHANGED user
  BY <1>1 DEF IInv, TypeOK, Only, store, ghosts, CodesQuiet, UsersQuiet
<1>6. Fit(c, "takeOff")'
  BY <1>3, <1>5 DEF Fit, Settling, ForUser, Acting, Existing
<1> QED
  BY <1>1, <1>3, <1>4, <1>5, <1>6, StartKeeps DEF Holding, Writing

LEMMA TakePhoneOffKeeps ==
    ASSUME IInv, NEW r \in Requests, TakePhoneOff(r)
    PROVE  IInv'
<1>1. PICK u, h, new :
         /\ u = call[r].user /\ pc[r] = "takeOff" /\ h = Current(r)
         /\ new = [h EXCEPT !.phone = None, !.phoneVerified = FALSE]
         /\ ChangeRest(r, u, new) /\ Change(r, u, new)
         /\ Return(r) /\ UNCHANGED <<links, proved, misread>> /\ CodesQuiet
  BY DEF TakePhoneOff, ChangeRest, Only, CodesQuiet
<1>2. /\ user[r] = None /\ u \in Existing /\ u \in Users /\ user[u] \in Person /\ pc[r] \in Updating
  BY <1>1, AtStage DEF ForUser, Updating
<1>3. h \in Person
  BY <1>1, <1>2, CurrentForm DEF Change
<1>4. new \in Person /\ new.email = h.email /\ new.verified = h.verified /\ ~new.phoneVerified
  BY <1>1, <1>3 DEF Person
<1>5. PICK w \in Person : /\ user' = [user EXCEPT ![u] = w] /\ Alike(w, new)
                          /\ stale \subseteq stale' /\ Leaves(r, u, w)
                          /\ u \in stale' \/ Alike(h, user[u])
  BY <1>1, <1>2, <1>4, ChangeMarks
<1>6. Backed(u, w)
  BY <1>2, <1>3, <1>4, <1>5, BackedIs DEF Alike
<1>7. Indexed' /\ byEmail' \in [Emails \cup {TempEmail} -> Users \cup {None}]
  BY <1>1, <1>2, <1>5, RestIndex DEF Alike
<1>8. links' \subseteq SignedLink /\ u # r
  BY <1>1, <1>2 DEF IInv, TypeOK, Existing
<1> QED
  BY <1>1, <1>2, <1>5, <1>6, <1>7, <1>8, ReturnForm, ChangedKeeps

-----------------------------------------------------------------------------
(* The beginning and every step.                                           *)
LEMMA InitIInv == ASSUME Init PROVE IInv
<1>1. PICK b \in Beginnings :
         /\ links = b.links
         /\ user = [u \in Users |-> IF u = OldUser THEN b.user ELSE None]
         /\ byEmail = [e \in Emails \cup {TempEmail} |-> IF e = b.user.email THEN OldUser ELSE None]
         /\ rows = IF b.id = None THEN {}
                   ELSE {[Row(b.id, OldCode, b.guesses) EXCEPT !.lapsed = b.lapsed]}
         /\ issued = [c \in CodeNames |-> IF c = OldCode THEN b.id ELSE None]
         /\ wrong = [c \in CodeNames |-> IF c = OldCode THEN b.guesses ELSE 0]
         /\ proved = {a \in Emails \cup Phones :
                        \/ a = b.user.email /\ b.user.verified
                        \/ a = b.user.phone /\ b.user.phoneVerified}
  BY DEF Init
<1>2. /\ pc = [r \in Requests |-> "idle"] /\ call = [r \in Requests |-> None]
      /\ accepted = [r \in Requests |-> None]
      /\ dead = {} /\ raced = {} /\ kept = {} /\ misread = {} /\ stale = {}
  BY DEF Init
<1>3. /\ b.user \in Person /\ b.links \subseteq SignedLink
      /\ b.user.verified => b.user.email # TempEmail
      /\ b.user.phoneVerified => b.user.phone # None
      /\ b.id \in StoredId \cup {None} /\ b.guesses \in Nat /\ b.lapsed \in BOOLEAN
      /\ b.id # None /\ b.id.kind \in TokenKinds => b.guesses = 0 /\ b.id.of = OldCode
  BY BeginningAssumption
<1>4. OldCode \in CodeNames /\ OldUser \in Users /\ b.user # None
  BY <1>3, NameAssumption DEF CodeNames, Users
<1>5. \A x \in rows : /\ x \in CodeRow /\ x.id = b.id /\ x.code = OldCode /\ x.attempts = b.guesses
                      /\ b.id # None
  BY <1>1, <1>3, <1>4 DEF Row, CodeRow
<1>6. \A r \in Requests : r \in CodeNames /\ r # OldCode /\ r \in Users /\ r # OldUser
  BY NameAssumption DEF CodeNames, Users
<1>7. TypeOK
  <2>1. /\ user \in [Users -> Person \cup {None}]
        /\ byEmail \in [Emails \cup {TempEmail} -> Users \cup {None}]
        /\ rows \subseteq CodeRow /\ links \subseteq SignedLink
    BY <1>1, <1>3, <1>4, <1>5
  <2>2. /\ issued \in [CodeNames -> StoredId \cup {None}] /\ wrong \in [CodeNames -> Nat]
    BY <1>1, <1>3
  <2> QED
    BY <1>2, <2>1, <2>2 DEF TypeOK
<1>8. NamesInv
  BY <1>1, <1>2, <1>3, <1>4, <1>5, <1>6 DEF NamesInv, Making, NotYet, Holding, Writing
<1>9. DeadInv
  BY <1>2 DEF DeadInv, CodeDies, Holding, Writing
<1>10. GuessInv
  BY <1>1, <1>2, <1>3, <1>4, <1>5, <1>6 DEF GuessInv, GuessesBounded, Holding, Writing
<1>11. ProvedInv
  <2>1. Existing = {OldUser} /\ user[OldUser] = b.user
    BY <1>1, <1>4 DEF Existing
  <2>2. VerifiedMeansProved
    BY <1>1, <1>3, <2>1 DEF VerifiedMeansProved, Person
  <2>3. \A r \in Requests : Fit(call[r], pc[r])
    BY <1>2 DEF Fit, Settling, ForUser, Acting
  <2> QED
    BY <1>1, <1>2, <1>4, <1>6, <2>1, <2>2, <2>3, NameAssumption DEF ProvedInv
<1> QED
  BY <1>7, <1>8, <1>9, <1>10, <1>11 DEF IInv

LEMMA StutterKeeps == ASSUME IInv, UNCHANGED vars PROVE IInv'
<1>1. /\ UNCHANGED <<rows, user, byEmail, links, pc, call>>
      /\ UNCHANGED <<issued, accepted, dead, wrong, raced, kept, proved, misread, stale>>
  BY DEF vars, store, ghosts
<1>2. TypeOK'
  BY <1>1 DEF IInv, TypeOK
<1>3. NamesInv'
  BY <1>1 DEF IInv, NamesInv, Making, NotYet
<1>4. DeadInv'
  BY <1>1 DEF IInv, DeadInv, CodeDies, Known
<1>5. GuessInv'
  BY <1>1 DEF IInv, GuessInv, GuessesBounded
<1>6. ProvedInv'
  BY <1>1 DEF IInv, ProvedInv, VerifiedMeansProved, Existing, Fit, Shown
<1> QED
  BY <1>2, <1>3, <1>4, <1>5, <1>6 DEF IInv

LEMMA NextIInv == ASSUME IInv, [Next]_vars PROVE IInv'
<1>1. ASSUME NEW r \in Requests, Start(r) PROVE IInv'
  <2>1. /\ pc[r] = "idle"
        /\ Sends(r) \/ Presents(r) \/ Asks(r) \/ signInPhone(r) \/ UpdateUser(r)
    BY <1>1 DEF Start, Sends, Presents, Asks
  <2> QED
    BY <2>1, SendsKeep, PresentsKeep, AsksKeep, signInPhoneKeeps, UpdateUserKeeps
<1>2. ASSUME NEW r \in Requests, Step(r) PROVE IInv'
  <2>1. CASE \/ CreateVerification(r) \/ InsertVerification(r) \/ Lookup(r) \/ Drop(r) \/ Consume(r)
             \/ rotateTrustedDevice(r)
    BY <2>1, CreateVerificationKeeps, InsertVerificationKeeps, LookupKeeps, DropKeeps, ConsumeKeeps,
       rotateTrustedDeviceKeeps
  <2>2. CASE FindsUser(r) \/ CheckFree(r) \/ LinkSession(r) \/ CheckPhone(r) \/ CheckNew(r)
             \/ FindPhoneUser(r) \/ FindPhoneResetUser(r) \/ Ends(r)
    BY <2>2, FindsUserKeep, ChecksKeep, CheckNewKeeps, FindsPhoneKeep, EndingKeeps
  <2>3. CASE CreateUser(r) \/ createPhoneVerificationUser(r) \/ MarkVerified(r) \/ MarkPhone(r)
    BY <2>3, CreateUserKeeps, createPhoneVerificationUserKeeps, MarkVerifiedKeeps, MarkPhoneKeeps
  <2>4. CASE \/ SetCredentialPassword(r) \/ ChangeEmail(r) \/ SetEmail(r) \/ SetPhone(r)
             \/ FindCurrent(r) \/ TakePhoneOff(r)
    BY <2>4, SetCredentialPasswordKeeps, ChangeEmailKeeps, SetEmailKeeps, SetPhoneKeeps,
       FindCurrentKeeps, TakePhoneOffKeeps
  <2> QED
    BY <1>2, <2>1, <2>2, <2>3, <2>4 DEF Step, FindsUser, Ends
<1> QED
  BY <1>1, <1>2, LapseKeeps, StutterKeeps DEF Next

(* Every state of the system is one in which codes, copies and users fit   *)
(* together: rows and requests have their form, a code has one identifier  *)
(* and one maker, whoever holds a copy of a replaced code is known to, a   *)
(* row counts its wrong guesses, and whoever acts on a user has proved the *)
(* address it acts for.                                                    *)
THEOREM AlwaysIInv == Spec => []IInv
<1>1. Init => IInv
  BY InitIInv
<1>2. IInv /\ [Next]_vars => IInv'
  BY NextIInv
<1> QED
  BY <1>1, <1>2, PTL DEF Spec

(* A code that was used, replaced or taken back is neither stored nor      *)
(* accepted again, whoever asks for it in whatever order, except where two *)
(* requests overlapped on it or a failed delete left it (CreateVerification, *)
(* saveEmailOTPAttempts, savePhoneOTPAttempts, ConsumeVerification).       *)
THEOREM DeadCodesStayDead == Spec => []CodeDies
<1>1. IInv => CodeDies
  BY DEF IInv, DeadInv
<1> QED
  BY <1>1, AlwaysIInv, PTL

(* However many guesses are made, from however many requests, no code is   *)
(* accepted after AllowedAttempts wrong ones were counted against it       *)
(* unless two overlapped (verifyStoredOTP, consumePhoneOTP).               *)
THEOREM GuessingEnds == Spec => []GuessesBounded
<1>1. IInv => GuessesBounded
  BY DEF IInv, GuessInv
<1> QED
  BY <1>1, AlwaysIInv, PTL

(* No sequence of sign-ups, changes, confirmations and codes makes an      *)
(* address or a number count as verified that no used code or link was     *)
(* sent to, whatever the identifiers of codes look like, except for a user *)
(* that changed while another request was about to write it and for a code *)
(* that was sent under an identifier which reads the same                  *)
(* (handleChangeEmail, handleVerifyEmail, /phone-number/verify,            *)
(* changeEmailOTPHandler).                                                 *)
THEOREM MarksAreProved == Spec => []VerifiedMeansProved
<1>1. IInv => VerifiedMeansProved
  BY DEF IInv, ProvedInv
<1> QED
  BY <1>1, AlwaysIInv, PTL

==============================================================================
