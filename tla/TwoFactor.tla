------------------------------ MODULE TwoFactor ------------------------------
(***************************************************************************)
(* The second factor of one user: enabling and disabling it, the challenge *)
(* a sign-in leaves pending, its three ways to be met, and the counters    *)
(* that bound the guesses (plugins/twofactor.go,                           *)
(* auth/two_factor_challenge.go).                                          *)
(*                                                                         *)
(* A request is a process that serves one call after another.  The reads a *)
(* handler starts with are one step; every later read on which a decision  *)
(* hangs, and every write, is a step of its own.  A request may end at any *)
(* stage (Stop): a store call that fails, or a server that stops.          *)
(*                                                                         *)
(* Names (challenges, backup codes) come from small pools; one is given    *)
(* out anew when nothing refers to it any more, as random names never      *)
(* meet.  A TOTP or one-time code is right or wrong.  The row of a code    *)
(* sent to a session is left out: no limit here depends on it.  Other      *)
(* verification rows are replaced and deleted in one step, their two       *)
(* statements in SQL are a matter of Codes, and so are trusted devices.    *)
(* Passwords are right, and a sign-in without a second factor is a matter  *)
(* of Passwords.                                                           *)
(***************************************************************************)
EXTENDS FiniteSets, Naturals

CONSTANTS Requests, Challenges, BackupCodes, None,
          AllowedAttempts,    \* OTPAllowedAttempts
          MaxFailedAttempts,  \* of the account lockout
          Duration,           \* of the account lockout, in ticks
          Overlapping,        \* bound: the calls that may come while another runs
          SkipVerification    \* the values of SkipVerificationOnEnable

ASSUME LimitAssumption ==
    /\ {AllowedAttempts, MaxFailedAttempts, Duration} \subseteq Nat \ {0}
    /\ SkipVerification \subseteq BOOLEAN
    /\ None \notin Challenges \cup BackupCodes

VARIABLES
    enabled,    \* the user's twoFactorEnabled
    rec,        \* the twoFactor row, or None
    challenge,  \* the challenges whose row is stored
    tries,      \* tries[c]: the count in the attempts row of c, or None
    otp,        \* otp[c]: the attempts in the code row of c, or None
    pc, call,
    met,        \* met[c]: sessions that challenge c has led to
    wrongs,     \* wrongs[c]: wrong guesses counted against c
    used,       \* backup codes that were spent
    raced       \* challenges and backup codes that two requests held at once, or
                \* challenges whose row outlived its use because the delete failed

store  == <<enabled, rec, challenge, tries, otp>>
ghosts == <<met, wrongs, used, raced>>
vars   == <<store, pc, call, ghosts>>

Record == [codes : SUBSET BackupCodes, verified : BOOLEAN,
           failures : 0..MaxFailedAttempts, lock : (0..Duration) \cup {None}]
Locked == rec # None /\ rec.lock # None /\ rec.lock > 0

Running(r)  == call[r] # None
Holders(c)  == {q \in Requests : Running(q) /\ call[q].ch = c}
CopyOf(q)   == IF Running(q) /\ call[q].rec # None THEN call[q].rec.codes ELSE {}
RecCodes    == IF rec = None THEN {} ELSE rec.codes
FreshCodes  == BackupCodes \ (RecCodes \cup UNION {CopyOf(q) : q \in Requests})

Init ==
    /\ enabled \in BOOLEAN
    /\ rec = IF enabled THEN [codes |-> BackupCodes, verified |-> TRUE, failures |-> 0, lock |-> None]
             ELSE None
    /\ challenge = {}
    /\ tries = [c \in Challenges |-> None]
    /\ otp = [c \in Challenges |-> None]
    /\ pc = [r \in Requests |-> "idle"] /\ call = [r \in Requests |-> None]
    /\ met = [c \in Challenges |-> 0] /\ wrongs = [c \in Challenges |-> 0]
    /\ used = {} /\ raced = {}

Keep(r, c, stage) ==
    /\ pc' = [pc EXCEPT ![r] = stage]
    /\ call' = [call EXCEPT ![r] = c]
Go(r, stage) == pc' = [pc EXCEPT ![r] = stage] /\ UNCHANGED call
Return(r)    == Keep(r, None, "idle")

(* What a call keeps of what it read, as far as it goes on to use it.      *)
Copy(ch) ==
    IF rec = None THEN None
    ELSE [codes |-> rec.codes, verified |-> rec.verified,
          failures |-> IF ch = None THEN 0 ELSE rec.failures]

Ask(how, ch, guess) ==
    [how |-> how, ch |-> ch, guess |-> guess, rec |-> Copy(ch), count |-> 0,
     seen |-> enabled \/ how \notin {"totp", "otp", "enable"},
     overlaps |-> FALSE]

(* Every call starts here: whom it overlaps with, and on what.             *)
Begin(r, c, stage) ==
    LET others == {q \in Requests \ {r} : Running(q)} IN
    /\ pc[r] = "idle" /\ (others # {} => c.how \in Overlapping /\ c.ch # None)
    /\ pc' = [pc EXCEPT ![r] = stage]
    /\ call' = [q \in Requests |-> IF q = r THEN [c EXCEPT !.overlaps = others # {}]
                                 ELSE IF q \in others THEN [call[q] EXCEPT !.overlaps = TRUE]
                                 ELSE None]
    /\ raced' = raced \cup
          (IF c.ch \in Challenges /\ Holders(c.ch) # {} THEN {c.ch} ELSE {}) \cup
          (IF others = {} \/ c.rec = None THEN {} ELSE c.rec.codes)

Pending(r) == call[r].ch # None
-----------------------------------------------------------------------------
(* StartTwoFactorSignIn without a trusted device leaves a challenge        *)
(* pending, with its attempts row.                                         *)
SignIn(r) ==
    /\ enabled
    /\ \E c \in Challenges \ challenge :
          /\ Holders(c) = {}
          /\ Begin(r, [Ask("signIn", c, None) EXCEPT !.rec = None], "challenge")
    /\ UNCHANGED <<store, met, wrongs, used>>

createTwoFactorChallenge(r) ==
    LET c == call[r].ch IN
    /\ pc[r] = "challenge"
    /\ challenge' = challenge \cup {c}
    /\ tries' = [tries EXCEPT ![c] = None] /\ otp' = [otp EXCEPT ![c] = None]
    /\ met' = [met EXCEPT ![c] = 0] /\ wrongs' = [wrongs EXCEPT ![c] = 0]
    /\ raced' = raced \ {c}
    /\ Go(r, "attempts")
    /\ UNCHANGED <<enabled, rec, used>>

createAttempts(r) ==
    /\ pc[r] = "attempts"
    /\ tries' = [tries EXCEPT ![call[r].ch] = 0]
    /\ Return(r)
    /\ UNCHANGED <<enabled, rec, challenge, otp, ghosts>>

-----------------------------------------------------------------------------
(* ResolveTwoFactorChallenge: a session, or the challenge of the cookie.   *)
Resolved == challenge \cup {None}

(* Bug form: a refused attempt counts as one more failure.                 *)
AssertNotLocked_Counts(r, c, stage) ==
    LET locked == c.ch # None /\ rec # None /\ rec.lock # None IN
    \/ ~locked /\ Begin(r, c, stage)
    \/ locked /\ Begin(r, c, IF rec.lock = 0 THEN "unlock" ELSE "countFailure")

(* What the account's lock lets through: a pending challenge waits while   *)
(* it holds, and the first one after it has run out clears it.             *)
AssertNotLocked(r, c, stage) ==
    LET locked == c.ch # None /\ rec # None /\ rec.lock # None IN
    \/ ~locked /\ Begin(r, c, stage)
    \/ locked /\ rec.lock = 0 /\ Begin(r, c, "unlock")

VerifyTOTP(r) ==
    \E ch \in Resolved, guess \in BOOLEAN :
       /\ rec # None /\ (ch # None => rec.verified)
       /\ AssertNotLocked(r, Ask("totp", ch, guess), "check")
       /\ UNCHANGED <<store, met, wrongs, used>>

VerifyBackupCode(r) ==
    \E ch \in Resolved, guess \in BackupCodes \cup {None} :
       /\ rec # None
       /\ AssertNotLocked(r, Ask("backup", ch, guess), "check")
       /\ UNCHANGED <<store, met, wrongs, used>>

VerifyOTP(r) ==
    \E ch \in Resolved, guess \in BOOLEAN :
       /\ ch # None => rec # None
       /\ ch = None => guess
       /\ AssertNotLocked(r, Ask("otp", ch, guess), IF ch = None THEN "reset" ELSE "checkOTP")
       /\ UNCHANGED <<store, met, wrongs, used>>

SendOTP(r) ==
    \E ch \in challenge :
       /\ Begin(r, [Ask("send", ch, None) EXCEPT !.rec = None], "createOTP")
       /\ UNCHANGED <<store, met, wrongs, used>>

CreateOTP(r) ==
    /\ pc[r] = "createOTP"
    /\ otp' = [otp EXCEPT ![call[r].ch] = 0]
    /\ Return(r)
    /\ UNCHANGED <<enabled, rec, challenge, tries, ghosts>>

(* UpdateTwoFactorLockout writes two columns, UpdateTwoFactor the others.  *)
UpdateTwoFactorLockout(failures, lock) ==
    rec # None /\ rec' = [rec EXCEPT !.failures = failures, !.lock = lock]
UpdateTwoFactor(codes, verified) ==
    rec # None /\ rec' = [rec EXCEPT !.codes = codes, !.verified = verified]

Checking(r) == IF call[r].how = "otp" THEN "checkOTP" ELSE "check"
Unlock(r) ==
    /\ pc[r] = "unlock"
    /\ UpdateTwoFactorLockout(0, None)
    /\ Keep(r, [call[r] EXCEPT !.rec.failures = 0], Checking(r))
    /\ UNCHANGED <<enabled, challenge, tries, otp, ghosts>>

(* Bug form: the last attempt allowed is not the last.                     *)
AttemptAvailable_OneMore(c) == c # None => tries[c] # None /\ tries[c] <= AllowedAttempts

(* assertTwoFactorChallengeAttemptAvailable, then the guess is compared    *)
(* with the record as it was read.                                         *)
Right(r) ==
    IF call[r].how = "totp" THEN call[r].guess ELSE call[r].guess \in call[r].rec.codes
AttemptAvailable(c) == c # None => tries[c] # None /\ tries[c] < AllowedAttempts

Check(r) ==
    LET c == call[r].ch IN
    /\ pc[r] = "check"
    /\ \/ ~AttemptAvailable(c) /\ Go(r, "cancel")
       \/ AttemptAvailable(c) /\ Right(r) /\ Go(r, "reset")
       \/ AttemptAvailable(c) /\ ~Right(r) /\ (IF Pending(r) THEN Go(r, "countTry") ELSE Return(r))
    /\ UNCHANGED <<store, ghosts>>

(* recordTwoFactorChallengeAttempt reads the count and writes it back.     *)
CountTry(r) ==
    LET c == call[r].ch IN
    /\ pc[r] = "countTry"
    /\ \/ tries[c] = None /\ Go(r, "cancel")
       \/ tries[c] # None /\ Keep(r, [call[r] EXCEPT !.count = tries[c] + 1], "saveTry")
    /\ UNCHANGED <<store, ghosts>>

SaveTry(r) ==
    LET c == call[r].ch IN
    /\ pc[r] = "saveTry"
    /\ tries' = [tries EXCEPT ![c] = call[r].count]
    /\ wrongs' = [wrongs EXCEPT ![c] = IF c \in raced \/ @ = AllowedAttempts THEN @ ELSE @ + 1]
    /\ Keep(r, [call[r] EXCEPT !.count = 0], "countFailure")
    /\ UNCHANGED <<enabled, rec, challenge, otp, met, used, raced>>

(* recordTwoFactorFailure counts on from the copy of the record.           *)
CountFailure(r) ==
    LET count == call[r].rec.failures + 1 IN
    /\ pc[r] = "countFailure"
    /\ IF count >= MaxFailedAttempts THEN UpdateTwoFactorLockout(MaxFailedAttempts, Duration)
                                     ELSE UpdateTwoFactorLockout(count, None)
    /\ Return(r)
    /\ UNCHANGED <<enabled, challenge, tries, otp, ghosts>>

(* cancelTwoFactorChallenge; neither delete's error is looked at.          *)
Cancel(r) ==
    /\ pc[r] = "cancel"
    /\ challenge' \in {challenge, challenge \ {call[r].ch}}
    /\ Go(r, "dropTries")
    /\ UNCHANGED <<enabled, rec, tries, otp, ghosts>>

(* consumeTwoFactorOTP; a row that has expired is dropped like one with    *)
(* too many attempts.                                                      *)
CheckOTP(r) ==
    LET n == otp[call[r].ch] IN
    /\ pc[r] = "checkOTP" /\ n # None
    /\ \/ Go(r, "dropOTP")
       \/ n < AllowedAttempts /\ call[r].guess /\ Go(r, "consumeOTP")
       \/ n < AllowedAttempts /\ ~call[r].guess /\ Keep(r, [call[r] EXCEPT !.count = n + 1], "saveOTP")
    /\ UNCHANGED <<store, ghosts>>

DropOTP(r) ==
    /\ pc[r] = "dropOTP"
    /\ otp' = [otp EXCEPT ![call[r].ch] = None]
    /\ Return(r)
    /\ UNCHANGED <<enabled, rec, challenge, tries, ghosts>>

SaveOTP(r) ==
    /\ pc[r] = "saveOTP"
    /\ otp' = [otp EXCEPT ![call[r].ch] = call[r].count]
    /\ Keep(r, [call[r] EXCEPT !.count = 0], "countFailure")
    /\ UNCHANGED <<enabled, rec, challenge, tries, ghosts>>

ConsumeOTP(r) ==
    /\ pc[r] = "consumeOTP" /\ otp[call[r].ch] # None
    /\ otp' = [otp EXCEPT ![call[r].ch] = None]
    /\ Go(r, "reset")
    /\ UNCHANGED <<enabled, rec, challenge, tries, ghosts>>

-----------------------------------------------------------------------------
(* After a right guess: resetTwoFactorFailures for a pending challenge,    *)
(* the record, the user's mark, and the challenge itself.                  *)
ResetFailures(r) ==
    /\ pc[r] = "reset"
    /\ IF Pending(r) THEN UpdateTwoFactorLockout(0, None) ELSE UNCHANGED rec
    /\ Go(r, IF call[r].how = "backup" THEN "spend" ELSE "verify")
    /\ UNCHANGED <<enabled, challenge, tries, otp, ghosts>>

(* Bug form: the code that was found stays in the record.                  *)
Spend_Keeps(r) ==
    /\ pc[r] = "spend"
    /\ UpdateTwoFactor(call[r].rec.codes, call[r].rec.verified)
    /\ used' = used \cup ({call[r].guess} \ raced)
    /\ IF Pending(r) THEN Go(r, "complete") ELSE Return(r)
    /\ UNCHANGED <<enabled, challenge, tries, otp, met, wrongs, raced>>

Spend(r) ==
    /\ pc[r] = "spend"
    /\ UpdateTwoFactor(call[r].rec.codes \ {call[r].guess}, call[r].rec.verified)
    /\ used' = used \cup ({call[r].guess} \ raced)
    /\ IF Pending(r) THEN Go(r, "complete") ELSE Return(r)
    /\ UNCHANGED <<enabled, challenge, tries, otp, met, wrongs, raced>>

MarkVerified(r) ==
    /\ pc[r] = "verify"
    /\ IF call[r].rec # None /\ ~call[r].rec.verified
       THEN UpdateTwoFactor(call[r].rec.codes, TRUE) ELSE UNCHANGED rec
    /\ Go(r, "enableUser")
    /\ UNCHANGED <<enabled, challenge, tries, otp, ghosts>>

EnableUser(r) ==
    /\ pc[r] = "enableUser"
    /\ enabled' = (enabled \/ ~call[r].seen)
    /\ IF Pending(r) THEN Go(r, "complete") ELSE Return(r)
    /\ UNCHANGED <<rec, challenge, tries, otp, ghosts>>

(* CompleteTwoFactorChallenge: ConsumeVerification reads the challenge and *)
(* deletes it without looking at the outcome; the attempts row goes next.  *)
Complete(r) ==
    /\ pc[r] = "complete" /\ call[r].ch \in challenge
    /\ Go(r, "consume")
    /\ UNCHANGED <<store, ghosts>>

Consume(r) ==
    LET c == call[r].ch IN
    /\ pc[r] = "consume"
    /\ \/ challenge' = challenge \ {c} /\ UNCHANGED raced
       \/ raced' = raced \cup {c} /\ UNCHANGED challenge
    /\ Go(r, "clearTries")
    /\ UNCHANGED <<enabled, rec, tries, otp, met, wrongs, used>>

DropTries(r) ==
    /\ pc[r] \in {"dropTries", "clearTries"}
    /\ tries' \in {tries, [tries EXCEPT ![call[r].ch] = None]}
    /\ IF pc[r] = "clearTries" THEN Go(r, "session") ELSE Return(r)
    /\ UNCHANGED <<enabled, rec, challenge, otp, ghosts>>

NewSession(r) ==
    /\ pc[r] = "session"
    /\ met' = [met EXCEPT ![call[r].ch] = IF call[r].ch \in raced THEN @ ELSE @ + 1]
    /\ Return(r)
    /\ UNCHANGED <<store, wrongs, used, raced>>

-----------------------------------------------------------------------------
(* The management endpoints.  Enabling again replaces the record, with the *)
(* failures and the lock at zero; in SQL by a DELETE and an INSERT.        *)
NewCodes(codes) == used' = used \ codes /\ raced' = raced \ codes

Enable(r) ==
    /\ Begin(r, Ask("enable", None, None), "createRecord")
    /\ UNCHANGED <<store, met, wrongs, used>>

(* The adapter is in the step: in memory the record is replaced at once.   *)
InsertRecord(r) ==
    /\ FreshCodes # {}
    /\ NewCodes(FreshCodes)
    /\ \E skip \in SkipVerification :
          /\ rec' = [codes |-> FreshCodes, failures |-> 0, lock |-> None,
                     verified |-> skip \/ (call[r].rec # None /\ call[r].rec.verified)]
          /\ \/ skip /\ Go(r, "enableUser")
             \/ ~skip /\ Return(r)
    /\ UNCHANGED <<enabled, challenge, tries, otp, met, wrongs>>

CreateTwoFactor(r) == pc[r] = "createRecord" /\ InsertRecord(r)

DeleteOldRecord(r) ==
    /\ pc[r] = "createRecord"
    /\ rec' = None
    /\ Go(r, "insertRecord")
    /\ UNCHANGED <<enabled, challenge, tries, otp, ghosts>>

InsertTwoFactor(r) == pc[r] = "insertRecord" /\ rec = None /\ InsertRecord(r)

Disable(r) ==
    /\ Begin(r, [Ask("disable", None, None) EXCEPT !.rec = None], "deleteRecord")
    /\ UNCHANGED <<store, met, wrongs, used>>

DeleteTwoFactor(r) ==
    /\ pc[r] = "deleteRecord"
    /\ rec' = None
    /\ Go(r, "disableUser")
    /\ UNCHANGED <<enabled, challenge, tries, otp, ghosts>>

DisableUser(r) ==
    /\ pc[r] = "disableUser"
    /\ enabled' = FALSE
    /\ Return(r)
    /\ UNCHANGED <<rec, challenge, tries, otp, ghosts>>

GenerateBackupCodes(r) ==
    /\ enabled /\ rec # None
    /\ Begin(r, Ask("codes", None, None), "newCodes")
    /\ UNCHANGED <<store, met, wrongs, used>>

SaveBackupCodes(r) ==
    /\ pc[r] = "newCodes" /\ FreshCodes # {}
    /\ UpdateTwoFactor(FreshCodes, call[r].rec.verified)
    /\ NewCodes(FreshCodes)
    /\ Return(r)
    /\ UNCHANGED <<enabled, challenge, tries, otp, met, wrongs>>

-----------------------------------------------------------------------------
Tick ==
    /\ Locked
    /\ rec' = [rec EXCEPT !.lock = @ - 1]
    /\ UNCHANGED <<enabled, challenge, tries, otp, pc, call, ghosts>>

(* A challenge that has expired is as good as deleted.                     *)
Expire ==
    \E c \in challenge :
       /\ challenge' = challenge \ {c}
       /\ UNCHANGED <<enabled, rec, tries, otp, pc, call, ghosts>>

Stop(r) == pc[r] # "idle" /\ Return(r) /\ UNCHANGED <<store, ghosts>>

Start(r) ==
    \/ SignIn(r) \/ VerifyTOTP(r) \/ VerifyBackupCode(r) \/ VerifyOTP(r) \/ SendOTP(r)
    \/ Enable(r) \/ Disable(r) \/ GenerateBackupCodes(r)

Step(r) ==
    \/ createTwoFactorChallenge(r) \/ createAttempts(r)
    \/ CreateOTP(r) \/ Unlock(r) \/ Check(r) \/ CountTry(r) \/ SaveTry(r) \/ CountFailure(r)
    \/ Cancel(r) \/ CheckOTP(r) \/ DropOTP(r) \/ SaveOTP(r) \/ ConsumeOTP(r)
    \/ ResetFailures(r) \/ Spend(r) \/ MarkVerified(r) \/ EnableUser(r) \/ Complete(r)
    \/ Consume(r) \/ DropTries(r) \/ NewSession(r)
    \/ CreateTwoFactor(r) \/ DeleteOldRecord(r) \/ InsertTwoFactor(r)
    \/ DeleteTwoFactor(r) \/ DisableUser(r) \/ SaveBackupCodes(r) \/ Stop(r)

Next ==
    \/ Tick
    \/ Expire
    \/ \E r \in Requests : (pc[r] = "idle" /\ Start(r)) \/ Step(r)

(* Time passes, whatever the callers do; nobody has to send a request, and *)
(* no request has to come to its end.                                      *)
Spec == Init /\ [][Next]_vars /\ WF_vars(Tick)

-----------------------------------------------------------------------------
Accepts(r) == pc[r] \in {"check", "consumeOTP"} /\ pc'[r] = "reset"

(* A pending challenge leads to one session and a backup code is accepted  *)
(* once, unless two requests held it at once or the challenge's delete     *)
(* failed (CompleteTwoFactorChallenge, /two-factor/verify-backup-code).    *)
UsedOnce ==
    [][/\ \A c \in Challenges : met'[c] > 1 => c \in raced
       /\ \A r \in Requests : Accepts(r) /\ call[r].how = "backup" /\ call[r].guess \in used
             => call[r].guess \in raced]_vars

(* For a pending challenge no factor is accepted while the account is      *)
(* locked, and no TOTP or backup code after AllowedAttempts wrong ones,    *)
(* unless requests overlapped (assertTwoFactorNotLocked,                   *)
(* assertTwoFactorChallengeAttemptAvailable).                              *)
LimitsHold ==
    [][\A r \in Requests : Accepts(r) /\ Pending(r) =>
          /\ Locked => call[r].overlaps
          /\ call[r].how # "otp" => wrongs[call[r].ch] < AllowedAttempts \/ call[r].ch \in raced]_vars

(* A lock ends while time passes, however often the account is tried       *)
(* meanwhile: a refused attempt does not prolong it.                       *)
LockEnds == []<>~Locked
=============================================================================
