--------------------------- MODULE MfaChallenge ---------------------------
(***************************************************************************)
(* The second step of a login: challenge tokens, the factors that answer     *)
(* them and the sessions they mint (verify_mfa_challenge and                 *)
(* generate_tokens_or_mfa_challenge), with emailed one-time codes            *)
(* (email_mfa_service), for the user of MfaDevices, whose operations run     *)
(* beside them.                                                              *)
(*                                                                           *)
(* A transaction reads the snapshot of its first SELECT, so a login keeps    *)
(* what it read; a UPDATE ... WHERE and a UNIQUE insert see the rows as they *)
(* are.  One clock tick is one TOTP period.  The throttle in front of the    *)
(* challenge is the one of LoginThrottle and is left out.                    *)
(***************************************************************************)
EXTENDS MfaDevices

CONSTANTS
    Logins,        \* request slots for logins, challenges and resends
    Challenges,    \* challenge tokens, by jti
    Otps,          \* rows of mfa_email_otps
    NoChallenge, NoOtp,
    EmailMfa,      \* EMAIL_MFA_ENABLED
    MaxAttempts,   \* EMAIL_MFA_MAX_ATTEMPTS
    MaxSends,      \* EMAIL_MFA_MAX_SENDS_PER_HOUR
    Cooldown,      \* EMAIL_MFA_RESEND_COOLDOWN_SECONDS
    OtpTTL,        \* EMAIL_MFA_TTL_SECONDS
    Hour,
    MaxNow         \* bound on the clock

ASSUME MfaChallengeAssumption ==
    /\ NoChallenge \notin Challenges /\ NoOtp \notin Otps
    /\ EmailMfa \in BOOLEAN
    /\ {MaxAttempts, MaxSends, Cooldown, OtpTTL, Hour, MaxNow} \subseteq Nat
    /\ Codes \cap Otps = {}
    /\ (Devices \X (0..MaxNow)) \cap (Codes \cup Otps) = {}

VARIABLES
    now,
    stage,       \* required_stage of the challenges handed out
    revoked,     \* jtis of challenges in revoked_tokens
    usedSteps,   \* mfa_used_totp_steps
    otps,        \* mfa_email_otps rows
    login,       \* what each login request is doing
    minted,      \* sessions each challenge led to
    redeemed,    \* how often each factor was accepted
    wrongs       \* wrong codes compared with each emailed one

challengeVars == <<now, stage, revoked, usedSteps, otps, login, minted, redeemed, wrongs>>
mfaVars == <<challengeVars, deviceVars>>

Steps == 0..MaxNow
TotpCodes == Devices \X Steps
Factors == TotpCodes \cup Codes \cup Otps

OtpRow == [challenge : Challenges \cup {NoChallenge}, attempts : 0..MaxAttempts,
           created : 0..MaxNow, state : {"none", "live", "consumed", "invalidated"}]
NoOtpRow == [challenge |-> NoChallenge, attempts |-> 0, created |-> 0, state |-> "none"]

\* devices, codes, row, sent: what the request's snapshot holds of the tables.
Login == [pc : {"idle", "issue", "verify", "consume", "finish"},
          challenge : Challenges \cup {NoChallenge}, devices : SUBSET Devices,
          codes : SUBSET Codes, row : Otps \cup {NoOtp}, sent : SUBSET Otps]
IdleLogin == [pc |-> "idle", challenge |-> NoChallenge, devices |-> {}, codes |-> {},
              row |-> NoOtp, sent |-> {}]

Sent == {o \in Otps : otps[o].state # "none"}
Live == {o \in Otps : otps[o].state = "live"}
FreshOtps == Otps \ Sent
FreshChallenges == {c \in Challenges : stage[c] = "none"}

Expired(o) == otps[o].created + OtpTTL <= now

Proceed(l, state) == login' = [login EXCEPT ![l] = state]
Answer(l) == Proceed(l, IdleLogin)
Redeem(f) == redeemed' = [redeemed EXCEPT ![f] = @ + 1]

---------------------------------------------------------------------------
(* Handing out challenges and codes                                        *)

\* generate_tokens_or_mfa_challenge without email: TOTP or a recovery code.
\* (A user without any factor is not challenged; RefreshSessions takes over.)
LoginChallenge(l, c) ==
    /\ login[l].pc = "idle"
    /\ enabled /\ c \in FreshChallenges
    /\ stage' = [stage EXCEPT ![c] = "any"]
    /\ UNCHANGED <<now, revoked, usedSteps, otps, login, minted, redeemed, wrongs, deviceVars>>

\* The audit event commits; issue_code then starts from a new snapshot.
LoginEmail(l) ==
    /\ login[l].pc = "idle"
    /\ EmailMfa
    /\ Proceed(l, [IdleLogin EXCEPT !.pc = "issue", !.sent = Sent])
    /\ UNCHANGED <<now, stage, revoked, usedSteps, otps, minted, redeemed, wrongs, deviceVars>>

\* resend_code, for a challenge of a password login.
ResendRead(l, c) ==
    /\ login[l].pc = "idle"
    /\ EmailMfa
    /\ stage[c] \in {"email", "totp"} /\ c \notin revoked
    /\ Proceed(l, [IdleLogin EXCEPT !.pc = "issue", !.challenge = c, !.sent = Sent])
    /\ UNCHANGED <<now, stage, revoked, usedSteps, otps, minted, redeemed, wrongs, deviceVars>>

Latest(sent, o) == o \in sent /\ \A p \in sent : otps[p].created <= otps[o].created

\* The cooldown and the hourly limit, of the rows in the snapshot.
SendAllowed(sent, resend) ==
    /\ resend => \A o \in Otps : Latest(sent, o) => now - otps[o].created >= Cooldown
    /\ Cardinality({o \in sent : otps[o].created >= now - Hour}) < MaxSends

\* Mutant of Superseded: the rows to invalidate are those that were read.
SupersededAsRead(sent) == sent \cap Live

\* The UPDATE that invalidates older codes does not use the snapshot.
Superseded(sent) == Live

\* issue_code, with the user's row locked until the commit.
IssueCommit(l) ==
    LET resend == login[l].challenge # NoChallenge
        sent == login[l].sent
    IN  /\ login[l].pc = "issue"
        /\ SendAllowed(sent, resend)
        /\ \E o \in FreshOtps, c \in IF resend THEN {login[l].challenge} ELSE FreshChallenges :
              /\ otps' = [p \in Otps |->
                    IF p = o THEN [challenge |-> c, attempts |-> 0, created |-> now, state |-> "live"]
                    ELSE IF p \in Superseded(sent) THEN [otps[p] EXCEPT !.state = "invalidated"]
                    ELSE otps[p]]
              /\ stage' = IF resend THEN stage ELSE [stage EXCEPT ![c] = "email"]
        /\ Answer(l)
        /\ UNCHANGED <<now, revoked, usedSteps, minted, redeemed, wrongs, deviceVars>>

---------------------------------------------------------------------------
(* verify_mfa_challenge                                                    *)

\* The row verify_code will find in this snapshot.
Candidates(c) == {o \in Live : otps[o].challenge = c /\ otps[o].attempts < MaxAttempts}

VerifyStart(l, c) ==
    /\ login[l].pc = "idle"
    /\ stage[c] # "none" /\ c \notin revoked
    /\ enabled \/ EmailMfa
    /\ stage[c] = "totp" => enabled
    /\ \E o \in IF Candidates(c) = {} THEN {NoOtp} ELSE Candidates(c) :
          Proceed(l, [IdleLogin EXCEPT !.pc = "verify", !.challenge = c,
                        !.devices = Usable, !.codes = Unused, !.row = o])
    /\ UNCHANGED <<now, stage, revoked, usedSteps, otps, minted, redeemed, wrongs, deviceVars>>

Verifying(l) == login[l].pc = "verify"
StageOf(l) == stage[login[l].challenge]
Claimed(l) == Proceed(l, [login[l] EXCEPT !.pc = "consume"])

\* Mutant of TotpClaim: a code within the window is accepted again.
TotpClaimAgain(l) ==
    /\ Verifying(l) /\ StageOf(l) # "email"
    /\ \E d \in login[l].devices, s \in Steps :
          /\ s \in (now - 1)..(now + 1)
          /\ usedSteps' = usedSteps \cup {<<d, s>>}
          /\ Redeem(<<d, s>>)
    /\ Claimed(l)
    /\ UNCHANGED <<now, stage, revoked, otps, minted, wrongs, deviceVars>>

\* _try_claim_totp_step: UNIQUE(device_id, time_step) admits one request.
TotpClaim(l) ==
    /\ Verifying(l) /\ StageOf(l) # "email"
    /\ \E d \in login[l].devices, s \in Steps :
          /\ s \in (now - 1)..(now + 1)
          /\ <<d, s>> \notin usedSteps
          /\ usedSteps' = usedSteps \cup {<<d, s>>}
          /\ Redeem(<<d, s>>)
    /\ Claimed(l)
    /\ UNCHANGED <<now, stage, revoked, otps, minted, wrongs, deviceVars>>

\* Mutant of RecoveryClaim: the row is written as it was read.
RecoveryClaimUnconditional(l) ==
    /\ Verifying(l) /\ StageOf(l) # "email"
    /\ \E c \in login[l].codes : codes' = Spend({c}) /\ Redeem(c)
    /\ Claimed(l)
    /\ UNCHANGED <<now, stage, revoked, usedSteps, otps, minted, wrongs, enabled, devices, mgmt, disturbed>>

\* try_consume_recovery_code: UPDATE ... WHERE used_at IS NULL.
RecoveryClaim(l) ==
    /\ Verifying(l) /\ StageOf(l) # "email"
    /\ \E c \in login[l].codes : c \in Unused /\ codes' = Spend({c}) /\ Redeem(c)
    /\ Claimed(l)
    /\ UNCHANGED <<now, stage, revoked, usedSteps, otps, minted, wrongs, enabled, devices, mgmt, disturbed>>

\* verify_code with the right code.
EmailClaim(l) ==
    LET o == login[l].row
    IN  /\ Verifying(l) /\ StageOf(l) = "email" /\ EmailMfa
        /\ o \in Live /\ otps[o].attempts < MaxAttempts /\ ~Expired(o)
        /\ otps' = [otps EXCEPT ![o].state = "consumed"]
        /\ Redeem(o)
        /\ Claimed(l)
        /\ UNCHANGED <<now, stage, revoked, usedSteps, minted, wrongs, deviceVars>>

\* Mutant of Missed: the counter is written, not incremented.
MissedOnce(o) == [otps[o] EXCEPT !.attempts = 1]

\* One attempt more; the last one invalidates the code.
Missed(o) ==
    [otps[o] EXCEPT !.attempts = @ + 1,
        !.state = IF otps[o].attempts + 1 >= MaxAttempts THEN "invalidated" ELSE @]

\* verify_code with a wrong code: counted only on a row that is still live.
EmailWrong(l) ==
    LET o == login[l].row
    IN  /\ Verifying(l) /\ StageOf(l) = "email" /\ EmailMfa
        /\ o # NoOtp /\ ~Expired(o)
        /\ otps' = IF o \in Live /\ otps[o].attempts < MaxAttempts
                   THEN [otps EXCEPT ![o] = Missed(o)] ELSE otps
        /\ wrongs' = [wrongs EXCEPT ![o] = @ + 1]
        /\ Answer(l)
        /\ UNCHANGED <<now, stage, revoked, usedSteps, minted, redeemed, deviceVars>>

\* Mutant of ConsumeJti: the insert of a duplicate is ignored.
ConsumeJtiLoosely(l) ==
    /\ login[l].pc = "consume"
    /\ revoked' = revoked \cup {login[l].challenge}
    /\ Proceed(l, [login[l] EXCEPT !.pc = "finish"])
    /\ UNCHANGED <<now, stage, usedSteps, otps, minted, redeemed, wrongs, deviceVars>>

\* _consume_challenge_jti: UNIQUE(token_jti); the loser's factor stays spent.
ConsumeJti(l) ==
    /\ login[l].pc = "consume"
    /\ login[l].challenge \notin revoked
    /\ revoked' = revoked \cup {login[l].challenge}
    /\ Proceed(l, [login[l] EXCEPT !.pc = "finish"])
    /\ UNCHANGED <<now, stage, usedSteps, otps, minted, redeemed, wrongs, deviceVars>>

\* After the emailed code a user with TOTP is asked for it, too.
FinishNext(l) ==
    /\ login[l].pc = "finish"
    /\ StageOf(l) = "email" /\ enabled
    /\ \E c \in FreshChallenges : stage' = [stage EXCEPT ![c] = "totp"]
    /\ Answer(l)
    /\ UNCHANGED <<now, revoked, usedSteps, otps, minted, redeemed, wrongs, deviceVars>>

\* generate_tokens: see LoginCommit in RefreshSessions.
FinishMint(l) ==
    /\ login[l].pc = "finish"
    /\ ~(StageOf(l) = "email" /\ enabled)
    /\ minted' = [minted EXCEPT ![login[l].challenge] = @ + 1]
    /\ Answer(l)
    /\ UNCHANGED <<now, stage, revoked, usedSteps, otps, redeemed, wrongs, deviceVars>>

---------------------------------------------------------------------------
\* The code matches nothing, a limit refuses the request, the mail is not
\* delivered or the worker dies: whatever was not committed is rolled back.
LoginFails(l) ==
    /\ login[l].pc # "idle"
    /\ Answer(l)
    /\ UNCHANGED <<now, stage, revoked, usedSteps, otps, minted, redeemed, wrongs, deviceVars>>

Tick ==
    /\ now < MaxNow
    /\ now' = now + 1
    /\ UNCHANGED <<stage, revoked, usedSteps, otps, login, minted, redeemed, wrongs, deviceVars>>

Init ==
    /\ DevicesInit
    /\ now = 0
    /\ stage = [c \in Challenges |-> "none"]
    /\ revoked = {} /\ usedSteps = {}
    /\ otps = [o \in Otps |-> NoOtpRow]
    /\ login = [l \in Logins |-> IdleLogin]
    /\ minted = [c \in Challenges |-> 0]
    /\ redeemed = [f \in Factors |-> 0]
    /\ wrongs = [o \in Otps |-> 0]

LoginStep(l) ==
    \/ \E c \in Challenges : LoginChallenge(l, c) \/ ResendRead(l, c) \/ VerifyStart(l, c)
    \/ LoginEmail(l) \/ IssueCommit(l)
    \/ TotpClaim(l) \/ RecoveryClaim(l) \/ EmailClaim(l) \/ EmailWrong(l)
    \/ ConsumeJti(l) \/ FinishNext(l) \/ FinishMint(l)
    \/ LoginFails(l)

Next ==
    \/ \E l \in Logins : LoginStep(l)
    \/ DevicesNext /\ UNCHANGED challengeVars
    \/ Tick

Spec == Init /\ [][Next]_mfaVars

---------------------------------------------------------------------------
(* Properties                                                              *)

\* The challenge tables, the login requests and the histories have their types.
TypeOK ==
    /\ DevicesTypeOK
    /\ now \in 0..MaxNow
    /\ stage \in [Challenges -> {"none", "any", "email", "totp"}]
    /\ revoked \subseteq Challenges
    /\ usedSteps \subseteq TotpCodes
    /\ otps \in [Otps -> OtpRow]
    /\ login \in [Logins -> Login]
    /\ minted \in [Challenges -> Nat]
    /\ redeemed \in [Factors -> Nat]
    /\ wrongs \in [Otps -> Nat]

\* verify_mfa_challenge: a challenge leads to one session at most, also when
\* two requests answer it with two different valid factors.
ChallengeMintsOnce == \A c \in Challenges : minted[c] <= 1

\* No factor answers twice: a TOTP code, a recovery code and an emailed code
\* are each accepted for one challenge, and never for a second one.
FactorRedeemedOnce == \A f \in Factors : redeemed[f] <= 1

\* A recovery code that was invalidated (regenerated, reset) or an emailed
\* code that was superseded or used up is not accepted by a login that read
\* it while it was valid.
RedeemsLiveFactor ==
    [][/\ \A c \in Codes : redeemed'[c] # redeemed[c] => c \in Unused
       /\ \A o \in Otps : redeemed'[o] # redeemed[o] => o \in Live]_mfaVars

\* What a new code replaces is dead: issue_code leaves a user one live emailed
\* code at most, however logins and resends overlap, and
\* generate_recovery_codes one live batch.
OneLiveCode == Cardinality(Live) <= 1 /\ OneLiveBatch

\* verify_code: a code is accepted only if fewer than MaxAttempts wrong ones
\* were compared with it, however many requests compare at once.
OtpGuessesBounded ==
    [][\A o \in Otps : redeemed'[o] # redeemed[o] => wrongs[o] < MaxAttempts]_mfaVars

=============================================================================
