------------------------------ MODULE Session ------------------------------
(***************************************************************************)
(* Web sessions (internal/auth): login behind the attempt limiter, the     *)
(* session an operation is authenticated with, password changes that       *)
(* revoke every session, and the second factor with its recovery codes.    *)
(*                                                                         *)
(* One account, Owner, is registered; the others only knock.  A request    *)
(* reads the user or its session first and commits its transaction in a    *)
(* later step, on what it read.  Time is counted in steps of a TOTP        *)
(* counter.  A TOTP code is the secret of a factor and a counter; a        *)
(* recovery code is the generation it was issued with and a number.  The   *)
(* limiter of MFA attempts is a second instance of the limiter modelled    *)
(* for logins: here it may refuse any attempt.                             *)
(***************************************************************************)
EXTENDS Integers, Sequences, FiniteSetsExt

CONSTANTS
    Requests,      \* requests that can be under way at once
    Accounts,      \* normalized emails that try to log in
    Owner,         \* the email of the registered user
    Addresses,     \* client addresses
    AccountLimit, IpLimit, MaxEntries,
    Window,        \* length of a limiter window
    SessionTTL,
    Passwords,
    RecoveryCodes, \* the codes of one generation
    RequireAdminMFA,
    MaxFactors,    \* bound on enrollments
    MaxGenerations,\* bound on generations of recovery codes
    MaxTime,       \* bound on the clock
    MaxRequests    \* bound on requests

ASSUME SessionAssumption ==
    /\ Owner \in Accounts
    /\ {AccountLimit, IpLimit, Window, SessionTTL} \subseteq Nat \ {0}
    /\ MaxEntries \in Nat /\ MaxEntries >= 2
    /\ Passwords # {}
    /\ {MaxFactors, MaxTime} \subseteq Nat \ {0}
    /\ MaxRequests \in Nat /\ MaxGenerations \in Nat

VARIABLES
    now,
    entries,    \* the map of the limiter; no attempts where there is no entry
    user,       \* password, and whether its hash has older parameters
    session,    \* user_sessions
    factor,     \* the row of mfa_factors, id 0 if there is none
    codes,      \* recovery codes not consumed
    generation, \* generations issued
    request,    \* requests under way
    requests,   \* requests so far
    passed,     \* attempts on Owner let through in this window
    revocations \* transactions that revoked every session

vars == <<now, entries, user, session, factor, codes, generation, request, requests,
          passed, revocations>>

Identities == Accounts \cup Addresses
NoEntry == [attempts |-> 0, resetAt |-> 0]
NoFactor == [id |-> 0, enabled |-> FALSE, last |-> 0]
Idle == [pc |-> "idle"]

(* A user with a password only, or one whose factor is already enabled. *)
SessionInit ==
    /\ now = 1
    /\ entries = [k \in Identities |-> NoEntry]
    /\ user \in [password : {CHOOSE p \in Passwords : TRUE}, older : BOOLEAN]
    /\ session = <<>>
    /\ \/ factor = NoFactor /\ codes = {} /\ generation = 0
       \/ /\ factor = [id |-> 1, enabled |-> TRUE, last |-> 0]
          /\ codes = {1} \X RecoveryCodes /\ generation = 1
    /\ request = [r \in Requests |-> Idle]
    /\ requests = 0
    /\ passed = 0
    /\ revocations = 0

-----------------------------------------------------------------------------
(* The attempt limiter *)

Present(e) == {k \in Identities : e[k].attempts > 0}

ExpiredEarly(entry) == now + 1 >= entry.resetAt

Expired(entry) == now >= entry.resetAt

resetAt == (now \div Window) * Window + Window

Without(e, gone) == [k \in Identities |-> IF k \in gone THEN NoEntry ELSE e[k]]

(* evictEarliestReset, n times; map order decides between equals. *)
Evictions(e, n) ==
    {gone \in SUBSET Present(e) :
       /\ Cardinality(gone) = Min({n, Cardinality(Present(e))})
       /\ \A k \in gone, l \in Present(e) \ gone : e[k].resetAt <= e[l].resetAt}

(* How many entries stand in the way of the new ones. *)
Excess(e, new) == Cardinality(Present(e)) + new - MaxEntries

(* The map after room was made for an attempt: every outcome of the loop. *)
(* New entries are counted before it evicts, maybe one of the two in use.  *)
MadeRoom(keys) ==
    LET own == Without(entries, {k \in keys : Expired(entries[k])})
        new == Cardinality(keys \ Present(own))
        pruned == Without(own, {k \in Present(own) : Expired(own[k])})
    IN IF Excess(own, new) <= 0 THEN {own}
       ELSE {Without(pruned, gone) : gone \in Evictions(pruned, Max({0, Excess(pruned, new)}))}

Limit(k) == IF k \in Accounts THEN AccountLimit ELSE IpLimit

(* Counts stop one above the limit: from there on they all refuse. *)
Counted(e, keys) ==
    [k \in Identities |->
       IF k \notin keys THEN e[k]
       ELSE [attempts |-> Min({Limit(k) + 1, e[k].attempts + 1}),
             resetAt |-> IF e[k].attempts = 0 THEN resetAt ELSE e[k].resetAt]]

(* Allow, for an account from an address, with its verdict. *)
Allow(account, address, allowed) ==
    \E room \in MadeRoom({account, address}) :
       LET counted == Counted(room, {account, address})
           evicted == /\ room[Owner].attempts = 0 /\ entries[Owner].resetAt > now
                      /\ Cardinality(Present(entries) \cup {account, address}) > MaxEntries
           before == IF evicted THEN 0 ELSE passed
       IN /\ entries' = counted
          /\ allowed = \A k \in {account, address} : counted[k].attempts <= Limit(k)
          /\ passed' = IF account = Owner /\ allowed THEN before + 1 ELSE before

-----------------------------------------------------------------------------
(* Login *)

Begin == requests < MaxRequests /\ requests' = requests + 1

(* Login up to VerifyPassword.  Only the right password goes on. *)
Login(r, account, password, address, previous) ==
    /\ request[r] = Idle /\ Begin
    /\ \E allowed \in BOOLEAN :
          /\ Allow(account, address, allowed)
          /\ request' = [request EXCEPT ![r] =
                IF allowed /\ account = Owner /\ password = user.password
                  THEN [pc |-> "issue", password |-> password, rehash |-> user.older,
                        previous |-> previous, expires |-> now + SessionTTL]
                  ELSE Idle]
    /\ UNCHANGED <<now, user, session, factor, codes, generation, revocations>>

RevokedOne(i) == [s \in DOMAIN session |->
                    IF s = i THEN [session[s] EXCEPT !.revoked = TRUE] ELSE session[s]]

RevokedAll == [s \in DOMAIN session |-> [session[s] EXCEPT !.revoked = TRUE]]

(* insertSession.  by: the code that opened it; after: the revocations before it. *)
NewSession(verified, by, expires) ==
    [revoked |-> FALSE, verified |-> verified, expires |-> expires,
     by |-> by, after |-> revocations]

(* createLoginSession: stores the new hash if the old one had older *)
(* parameters, and replaces the session the browser came with.      *)
createLoginSession(r) ==
    /\ request[r].pc = "issue"
    /\ user' = IF request[r].rehash THEN [password |-> request[r].password, older |-> FALSE]
               ELSE user
    /\ session' = Append(RevokedOne(request[r].previous),
                         NewSession(FALSE, <<"password">>, request[r].expires))
    /\ request' = [request EXCEPT ![r] = Idle]
    /\ UNCHANGED <<now, entries, factor, codes, generation, requests, passed, revocations>>

(* findSession: the rest of the request works on what it returns. *)
Authenticate(r, i) ==
    /\ request[r] = Idle /\ Begin
    /\ ~session[i].revoked /\ session[i].expires > now
    /\ request' = [request EXCEPT ![r] =
          [pc |-> "act", session |-> i, enabled |-> factor.enabled,
           verified |-> session[i].verified]]
    /\ UNCHANGED <<now, entries, user, session, factor, codes, generation, passed, revocations>>

MFARequired(q) == q.enabled /\ ~q.verified
Acts(r) == request[r].pc = "act" /\ request' = [request EXCEPT ![r] = Idle]
ActsInFull(r) == Acts(r) /\ ~MFARequired(request[r])

(* GET session, and every request that is refused after it authenticated. *)
currentSession(r) ==
    /\ Acts(r)
    /\ UNCHANGED <<now, entries, user, session, factor, codes, generation, requests,
                   passed, revocations>>

Logout(r) ==
    /\ Acts(r)
    /\ session' = RevokedOne(request[r].session)
    /\ UNCHANGED <<now, entries, user, factor, codes, generation, requests, passed, revocations>>

revokeAllSessions ==
    /\ session' = RevokedAll
    /\ revocations' = revocations + 1

LogoutAll(r) ==
    /\ ActsInFull(r)
    /\ revokeAllSessions
    /\ UNCHANGED <<now, entries, user, factor, codes, generation, requests, passed>>

-----------------------------------------------------------------------------
(* Passwords *)

updatePassword(password) ==
    /\ user' = [password |-> password, older |-> FALSE]
    /\ revokeAllSessions
    /\ UNCHANGED <<now, entries, factor, codes, generation, passed>>

(* ChangePassword up to VerifyPassword. *)
ChangePassword(r, current) ==
    /\ request[r].pc = "act" /\ ~MFARequired(request[r])
    /\ current = user.password
    /\ request' = [request EXCEPT ![r] = [pc |-> "change"]]
    /\ UNCHANGED <<now, entries, user, session, factor, codes, generation, requests,
                   passed, revocations>>

PasswordChanged(r, new) ==
    /\ request[r].pc = "change"
    /\ request' = [request EXCEPT ![r] = Idle]
    /\ updatePassword(new) /\ UNCHANGED requests

(* AuthorizeRole, for a user who has the role of an admin. *)
AuthorizeRole(q) == ~MFARequired(q) /\ (RequireAdminMFA => q.enabled /\ q.verified)

AdminResetPassword(r, new) ==
    /\ Acts(r) /\ AuthorizeRole(request[r])
    /\ updatePassword(new) /\ UNCHANGED requests

LocalResetPassword(new) ==
    /\ Begin
    /\ updatePassword(new) /\ UNCHANGED request

-----------------------------------------------------------------------------
(* The second factor *)

ReplaceAny == TRUE

(* storePendingTOTP takes the place of a factor that was never confirmed. *)
Replaceable == ~factor.enabled

(* BeginTOTP; the session may have been read before a factor was enabled. *)
BeginTOTP(r) ==
    /\ ActsInFull(r)
    /\ ~request[r].enabled /\ Replaceable
    /\ factor.id < MaxFactors
    /\ factor' = [id |-> factor.id + 1, enabled |-> FALSE, last |-> 0]
    /\ codes' = {}
    /\ UNCHANGED <<now, entries, user, session, generation, requests, passed, revocations>>

ReplayedCounter(code) == code[2] = factor.id /\ code[3] \in {now - 1, now, now + 1}

(* validateTOTP: the present counter or one beside it, and a later one than *)
(* the last that was accepted.                                               *)
validateTOTP(code) ==
    /\ code[2] = factor.id
    /\ code[3] \in {now - 1, now, now + 1}
    /\ code[3] > factor.last

(* replaceRecoveryCodes *)
FreshCodes == {generation + 1} \X RecoveryCodes

(* The end of rotateWithMFA: a verified session in the place of the old one, *)
(* whether that is still open or not.                                        *)
RotatedSession(r, code) ==
    Append(RevokedOne(request[r].session), NewSession(TRUE, code, now + SessionTTL))

ConfirmTOTP(r, code) ==
    /\ ActsInFull(r)
    /\ factor.id > 0 /\ ~factor.enabled
    /\ generation < MaxGenerations
    /\ validateTOTP(code)
    /\ factor' = [factor EXCEPT !.enabled = TRUE, !.last = code[3]]
    /\ codes' = FreshCodes /\ generation' = generation + 1
    /\ session' = RotatedSession(r, code)
    /\ UNCHANGED <<now, entries, user, requests, passed, revocations>>

VerifyTOTP(r, code) ==
    /\ Acts(r) /\ MFARequired(request[r]) /\ factor.enabled
    /\ validateTOTP(code)
    /\ factor' = [factor EXCEPT !.last = code[3]]
    /\ session' = RotatedSession(r, code)
    /\ UNCHANGED <<now, entries, user, codes, generation, requests, passed, revocations>>

VerifyRecovery(r, code) ==
    /\ Acts(r) /\ MFARequired(request[r]) /\ factor.enabled
    /\ code \in codes
    /\ codes' = codes \ {code}
    /\ session' = RotatedSession(r, <<"recovery">> \o code)
    /\ UNCHANGED <<now, entries, user, factor, generation, requests, passed, revocations>>

RegenerateRecoveryCodes(r) ==
    /\ ActsInFull(r) /\ request[r].enabled /\ request[r].verified
    /\ factor.enabled
    /\ generation < MaxGenerations
    /\ codes' = FreshCodes /\ generation' = generation + 1
    /\ UNCHANGED <<now, entries, user, session, factor, requests, passed, revocations>>

Tick ==
    /\ now < MaxTime
    /\ now' = now + 1
    /\ passed' = IF now' % Window = 0 THEN 0 ELSE passed
    /\ UNCHANGED <<entries, user, session, factor, codes, generation, request, requests,
                   revocations>>

-----------------------------------------------------------------------------
TotpCodes == {"totp"} \X (1..MaxFactors) \X (1..MaxTime + 1)

SessionNext ==
    \/ \E r \in Requests :
          \/ \E account \in Accounts, password \in Passwords, address \in Addresses,
                previous \in 0..Len(session) : Login(r, account, password, address, previous)
          \/ createLoginSession(r)
          \/ \E i \in DOMAIN session : Authenticate(r, i)
          \/ currentSession(r) \/ Logout(r) \/ LogoutAll(r)
          \/ \E p \in Passwords : \/ ChangePassword(r, p) \/ PasswordChanged(r, p)
                                  \/ AdminResetPassword(r, p)
          \/ BeginTOTP(r)
          \/ \E code \in TotpCodes : ConfirmTOTP(r, code) \/ VerifyTOTP(r, code)
          \/ \E code \in codes : VerifyRecovery(r, code)
          \/ RegenerateRecoveryCodes(r)
    \/ \E p \in Passwords : LocalResetPassword(p)
    \/ Tick

SessionSpec == SessionInit /\ [][SessionNext]_vars

-----------------------------------------------------------------------------
(* Properties *)

(* Type correctness.  An entry that makeRoom could not keep out makes the   *)
(* map of the limiter (auth/limiter.go) one larger than maxEntries at most: *)
(* eviction may take an entry of the attempt itself, which then comes back. *)
SessionTypeOK ==
    /\ now \in 1..MaxTime
    /\ \A k \in Identities : entries[k].attempts \in 0..(Limit(k) + 1)
    /\ Cardinality(Present(entries)) <= MaxEntries + 1
    /\ user \in [password : Passwords, older : BOOLEAN]
    /\ factor.id \in 0..MaxFactors /\ factor.last \in 0..(MaxTime + 1)
    /\ codes \subseteq (1..generation) \X RecoveryCodes
    /\ \A r \in Requests : request[r].pc \in {"idle", "issue", "act", "change"}
    /\ requests \in 0..MaxRequests

(* A TOTP counter or a recovery code opens one session, also when two      *)
(* requests present it at once (rotateWithMFA locks the factor).           *)
CodeUsedOnce ==
    \A i, j \in DOMAIN session :
       i # j /\ session[i].by = session[j].by => session[i].by = <<"password">>

(* Once a factor is enabled it stays, and its counter never goes back: not  *)
(* even an enrollment that was authenticated before can replace it.         *)
FactorStays ==
    [][factor.enabled => factor'.id = factor.id /\ factor'.enabled
                         /\ factor'.last >= factor.last]_vars

(* Once new recovery codes were issued, no code of an older list opens a     *)
(* session any more (RegenerateRecoveryCodes, ConfirmTOTP).                  *)
OnlyNewestCodes == \A code \in codes : code[1] = generation

(* No session that was there when a password changed or everyone was       *)
(* logged out is open: what is open was inserted later (updatePassword,    *)
(* revokeAllSessions).                                                     *)
RevocationIsComplete ==
    \A i \in DOMAIN session : ~session[i].revoked => session[i].after = revocations

(* Sessions are safe: each was opened by a code nobody used before, old      *)
(* codes are gone, and no session survives a revocation it preceded.         *)
SessionSafety == SessionTypeOK /\ CodeUsedOnce /\ OnlyNewestCodes /\ RevocationIsComplete

(* In one window at most AccountLimit attempts on an account reach its      *)
(* password (LoginLimiter.Allow), counted from the last time that its entry *)
(* had to make room for others.                                             *)
AttemptsLimited == passed <= AccountLimit

(* A reset is the last word on the password: only another change sets it    *)
(* (LocalResetPassword, AdminResetPassword, ChangePassword).                *)
ResetHolds ==
    [][user'.password # user.password => revocations' > revocations]_vars
=============================================================================
