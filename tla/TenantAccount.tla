--------------------------- MODULE TenantAccount ---------------------------
(***************************************************************************)
(* One user of a tenant in auth-service: the row of the table users, the   *)
(* tokens issued for it, and the requests that log in and out, refresh     *)
(* tokens and change the password.                                         *)
(*                                                                         *)
(* Every handler reads the row or the token, decides, and writes in later  *)
(* statements, without a lock and without a transaction.  A password is    *)
(* compared and checked against the row that was read, so that the result  *)
(* is known with the read.                                                 *)
(***************************************************************************)
EXTENDS Naturals, Sequences, FiniteSets

CONSTANTS
    Passwords,      \* the passwords that are tried and set
    First,          \* the one the account starts with
    Tokens,         \* the pairs of an access and a refresh token
    Null,           \* no password, no token
    Requests,       \* the requests that may be processed at the same time
    Serial,         \* those of them that may refresh, and that may change the password
    maxAttempts,    \* loginAttempts of the tenant
    historyLimit,   \* passwordHistoryCount of the tenant, preventPasswordReuse being set
    MaxCount,       \* bound: logins start while the row counts fewer failures
    MaxFaults       \* bound: crashes, errors of the database, and wrong passwords at changePassword

ASSUME AccountAssumption ==
    /\ First \in Passwords /\ Null \notin Passwords /\ Null \notin Tokens
    /\ IsFiniteSet(Requests) /\ Serial \subseteq Requests
    /\ maxAttempts \in Nat \ {0} /\ historyLimit \in Nat \ {0}
    /\ MaxCount \in Nat /\ MaxFaults \in Nat

VARIABLES
    user,     \* the row of the user
    token,    \* the tables refresh_tokens and revoked_tokens
    op,       \* op[r]: what the request r is doing
    recent,   \* history: the last historyLimit + 1 passwords
    tries,    \* history: wrong passwords that logins compared since one was accepted
    probes,   \* history: wrong passwords that changePassword compared
    ended,    \* history: the logins of which all tokens have been revoked
    faults

account == <<user, token, op, recent, tries, ended, faults>>
vars == <<account, probes>>
-----------------------------------------------------------------------------
OrNull(S) == S \cup {Null}
User == [attempts : Nat, lock : {"none", "running", "lapsed"}, password : Passwords,
         history : Seq(Passwords), offered : BOOLEAN]
\* The root of a token is the one its login was given: a refresh hands it on.
Token == [state : {"none", "valid", "revoked"}, blocked : BOOLEAN, root : OrNull(Tokens)]
NoToken == [state |-> "none", blocked |-> FALSE, root |-> Null]

Stages == {"idle", "validate", "lock", "miss", "clear", "retire", "issue", "block", "write", "revokeAll"}
Op == [stage : Stages, guarded : BOOLEAN, password : OrNull(Passwords), token : OrNull(Tokens),
       root : OrNull(Tokens), old : OrNull(Passwords), history : Seq(Passwords), resets : BOOLEAN]
Idle == [stage |-> "idle", guarded |-> FALSE, password |-> Null, token |-> Null,
         root |-> Null, old |-> Null, history |-> <<>>, resets |-> FALSE]

Goes(r, next) == op' = [op EXCEPT ![r] = next]
Ends(r) == Goes(r, Idle)

Issued(t) == token[t].state # "none"
Valid(t) == token[t].state = "valid"

Init ==
    /\ user = [attempts |-> 0, lock |-> "none", password |-> First, history |-> <<>>, offered |-> FALSE]
    /\ token = [t \in Tokens |-> NoToken]
    /\ op = [r \in Requests |-> Idle]
    /\ recent = <<First>>
    /\ tries = 0
    /\ probes = 0
    /\ ended = {}
    /\ faults = 0
-----------------------------------------------------------------------------
(* Login.  validateTenantUser runs twice: in the guard, then in login.      *)

TooMany == user.attempts >= maxAttempts

\* What the row says of the password p: r is the request with the fields next.
Refuse(r) ==
    /\ user.lock = "running"
    /\ Ends(r) /\ UNCHANGED tries
BeginLock(r, next) ==
    /\ user.lock # "running" /\ TooMany
    /\ Goes(r, [next EXCEPT !.stage = "lock"]) /\ UNCHANGED tries
Compare(r, next, p) ==
    /\ user.lock # "running" /\ ~TooMany
    /\ IF p = user.password
       THEN Goes(r, [next EXCEPT !.stage = "clear"]) /\ UNCHANGED tries
       ELSE Goes(r, [next EXCEPT !.stage = "miss"]) /\ tries' = tries + 1
Validate(r, next, p) ==
    /\ Refuse(r) \/ BeginLock(r, next) \/ Compare(r, next, p)
    /\ UNCHANGED <<user, token, recent, ended, probes, faults>>

\* LocalAuthGuard, and login after it.
Login(r, p) ==
    /\ op[r] = Idle /\ user.attempts < MaxCount
    /\ Validate(r, [Idle EXCEPT !.password = p], p)
LoginAgain(r) ==
    /\ op[r].stage = "validate"
    /\ Validate(r, op[r], op[r].password)

Lock(r) ==
    /\ op[r].stage = "lock"
    /\ user' = [user EXCEPT !.attempts = @ + 1, !.lock = "running"]
    /\ Ends(r)
    /\ UNCHANGED <<token, recent, tries, ended, probes, faults>>

\* Mutant: the count is written only when the account gets locked.
MissUncounted(r) ==
    /\ op[r].stage = "miss"
    /\ Ends(r)
    /\ UNCHANGED <<user, token, recent, tries, ended, probes, faults>>
Miss(r) ==
    /\ op[r].stage = "miss"
    /\ user' = [user EXCEPT !.attempts = @ + 1]
    /\ Ends(r)
    /\ UNCHANGED <<token, recent, tries, ended, probes, faults>>

Clear(r) ==
    /\ op[r].stage = "clear"
    /\ user' = [user EXCEPT !.attempts = 0, !.lock = "none"]
    /\ tries' = 0
    /\ Goes(r, [op[r] EXCEPT !.stage = IF op[r].guarded THEN "issue" ELSE "validate", !.guarded = TRUE])
    /\ UNCHANGED <<token, recent, ended, probes, faults>>

\* locked_until passes.
LockLapses ==
    /\ user.lock = "running"
    /\ user' = [user EXCEPT !.lock = "lapsed"]
    /\ UNCHANGED <<token, op, recent, tries, ended, probes, faults>>
-----------------------------------------------------------------------------
(* Tokens.                                                                  *)

\* generateTokens: a refresh hands the root of the old token on.
Issue(r, t) ==
    /\ op[r].stage = "issue" /\ ~Issued(t)
    /\ token' = [token EXCEPT ![t] = [state |-> "valid", blocked |-> FALSE,
                                      root |-> IF op[r].root = Null THEN t ELSE op[r].root]]
    /\ Ends(r)
    /\ UNCHANGED <<user, recent, tries, ended, probes, faults>>

\* RefreshTokenStrategy looks for a token that is not revoked.
\* Mutant: for a token.
RefreshAny(r, t) ==
    /\ op[r] = Idle /\ Issued(t)
    /\ Goes(r, [Idle EXCEPT !.stage = "retire", !.token = t, !.root = token[t].root])
    /\ UNCHANGED <<user, token, recent, tries, ended, probes, faults>>
Refresh(r, t) ==
    /\ op[r] = Idle /\ Valid(t)
    /\ Goes(r, [Idle EXCEPT !.stage = "retire", !.token = t, !.root = token[t].root])
    /\ UNCHANGED <<user, token, recent, tries, ended, probes, faults>>

\* refreshToken: the old one is revoked before the new one is made.
\* Mutant: it is left to expire.
RetireNot(r) ==
    /\ op[r].stage = "retire"
    /\ Goes(r, [op[r] EXCEPT !.stage = "issue"])
    /\ UNCHANGED <<user, token, recent, tries, ended, probes, faults>>
Retire(r) ==
    /\ op[r].stage = "retire"
    /\ token' = [token EXCEPT ![op[r].token].state = "revoked"]
    /\ Goes(r, [op[r] EXCEPT !.stage = "issue"])
    /\ UNCHANGED <<user, recent, tries, ended, probes, faults>>

\* The logins whose token a refresh has read and not replaced yet.
InFlight == {op[r].root : r \in {q \in Requests : op[q].stage \in {"retire", "issue"}}}

\* The statement at the end of logout and of resetPassword.
RevokeAll(r) ==
    /\ op[r].stage = "revokeAll"
    /\ token' = [t \in Tokens |-> IF Valid(t) THEN [token[t] EXCEPT !.state = "revoked"] ELSE token[t]]
    /\ ended' = ended \cup ({token[t].root : t \in {u \in Tokens : Issued(u)}} \ InFlight)
    /\ Ends(r)
    /\ UNCHANGED <<user, recent, tries, probes, faults>>

\* JwtStrategy accepts an access token that is not listed in revoked_tokens.
\* The copy of the list in Redis only saves the query.
Authorised(t) == Issued(t) /\ ~token[t].blocked

Logout(r, t) ==
    /\ op[r] = Idle /\ Authorised(t)
    /\ Goes(r, [Idle EXCEPT !.stage = "block", !.token = t])
    /\ UNCHANGED <<user, token, recent, tries, ended, probes, faults>>
Block(r) ==
    /\ op[r].stage = "block"
    /\ token' = [token EXCEPT ![op[r].token].blocked = TRUE]
    /\ Goes(r, [op[r] EXCEPT !.stage = "revokeAll"])
    /\ UNCHANGED <<user, recent, tries, ended, probes, faults>>
-----------------------------------------------------------------------------
(* Passwords.                                                               *)

\* The link of an earlier request is replaced.
ForgotPassword ==
    /\ user' = [user EXCEPT !.offered = TRUE]
    /\ UNCHANGED <<token, op, recent, tries, ended, probes, faults>>
\* reset_password_expires passes.
OfferLapses ==
    /\ user.offered
    /\ user' = [user EXCEPT !.offered = FALSE]
    /\ UNCHANGED <<token, op, recent, tries, ended, probes, faults>>

\* The end of the sequence s, of at most n elements.
LastOf(s, n) == IF Len(s) > n THEN SubSeq(s, Len(s) - n + 1, Len(s)) ELSE s

Fresh(p) == p # user.password /\ \A i \in 1 .. Len(user.history) : user.history[i] # p

BeginWrite(r, p, resets) ==
    /\ Fresh(p)
    /\ Goes(r, [Idle EXCEPT !.stage = "write", !.password = p, !.old = user.password,
                            !.history = user.history, !.resets = resets])
    /\ UNCHANGED <<user, token, recent, tries, ended, probes, faults>>

\* With the link of forgotPassword, or with an access token and the current password.
ResetPassword(r, p) == op[r] = Idle /\ user.offered /\ BeginWrite(r, p, TRUE)
ChangePassword(r, t, p) == op[r] = Idle /\ Authorised(t) /\ BeginWrite(r, p, FALSE)

\* The current password is wrong: it is compared and refused, no lock is looked
\* at and nothing is counted.
ChangeRefused(r, t, p) ==
    /\ op[r] = Idle /\ Authorised(t) /\ p # user.password /\ probes + faults < MaxFaults
    /\ probes' = probes + 1
    /\ UNCHANGED account

\* Mutant: the history is never cut.
WriteUncut(r) ==
    /\ op[r].stage = "write"
    /\ user' = [user EXCEPT !.password = op[r].password, !.offered = @ /\ ~op[r].resets,
                            !.history = Append(op[r].history, op[r].old)]
    /\ recent' = LastOf(Append(recent, op[r].password), historyLimit + 1)
    /\ Goes(r, IF op[r].resets THEN [Idle EXCEPT !.stage = "revokeAll"] ELSE Idle)
    /\ UNCHANGED <<token, tries, ended, probes, faults>>
\* Mutant: the history is cut before the old password joins it.
WriteCutFirst(r) ==
    /\ op[r].stage = "write"
    /\ user' = [user EXCEPT !.password = op[r].password, !.offered = @ /\ ~op[r].resets,
                            !.history = Append(LastOf(op[r].history, historyLimit - 1), op[r].password)]
    /\ recent' = LastOf(Append(recent, op[r].password), historyLimit + 1)
    /\ Goes(r, IF op[r].resets THEN [Idle EXCEPT !.stage = "revokeAll"] ELSE Idle)
    /\ UNCHANGED <<token, tries, ended, probes, faults>>
Write(r) ==
    /\ op[r].stage = "write"
    /\ user' = [user EXCEPT !.password = op[r].password, !.offered = @ /\ ~op[r].resets,
                            !.history = LastOf(Append(op[r].history, op[r].old), historyLimit)]
    /\ recent' = LastOf(Append(recent, op[r].password), historyLimit + 1)
    /\ Goes(r, IF op[r].resets THEN [Idle EXCEPT !.stage = "revokeAll"] ELSE Idle)
    /\ UNCHANGED <<token, tries, ended, probes, faults>>

\* A statement fails, or the process stops: what was written stays.
Fails(r) ==
    /\ op[r] # Idle /\ probes + faults < MaxFaults
    /\ Ends(r)
    /\ faults' = faults + 1
    /\ UNCHANGED <<user, token, recent, tries, probes, ended>>
-----------------------------------------------------------------------------
LoginStep(r) ==
    \/ \E p \in Passwords : Login(r, p)
    \/ LoginAgain(r) \/ Lock(r) \/ Miss(r) \/ Clear(r)
TokenStep(r) ==
    \/ \E t \in Tokens : Issue(r, t) \/ Logout(r, t)
    \/ Retire(r) \/ Block(r) \/ RevokeAll(r)
SerialStep(r) ==
    \/ \E t \in Tokens : Refresh(r, t)
    \/ \E p \in Passwords : ResetPassword(r, p) \/ \E t \in Tokens : ChangePassword(r, t, p)

Next ==
    \/ \E r \in Requests : LoginStep(r) \/ TokenStep(r) \/ Write(r) \/ Fails(r)
    \/ \E r \in Serial : SerialStep(r)
    \/ \E r \in Requests, t \in Tokens, p \in Passwords : ChangeRefused(r, t, p)
    \/ LockLapses \/ ForgotPassword \/ OfferLapses

Spec == Init /\ [][Next]_vars
-----------------------------------------------------------------------------
\* The types of the row, the tokens and the requests.
RowsOK ==
    /\ user \in User /\ Len(user.history) <= historyLimit
    /\ token \in [Tokens -> Token]
    /\ op \in [Requests -> Op]
    /\ recent \in Seq(Passwords)
    /\ tries \in Nat /\ ended \subseteq Tokens /\ faults \in Nat
TypeOK == RowsOK /\ probes \in Nat

\* Between two accepted logins no more wrong passwords are compared by logins
\* than the tenant allows, plus one for every other request that read the row at
\* the same moment, plus one for every statement that failed: the increments of
\* failed_login_attempts by concurrent requests are not lost.  changePassword
\* compares the current password without counting or locking, so that there
\* guesses have no bound; they need an access token, and before the first login
\* was accepted no password is compared but by logins.
TriesBounded ==
    /\ tries + 1 <= maxAttempts + Cardinality(Requests) + faults
    /\ probes > 0 => \E t \in Tokens : Issued(t)

\* Once logout or resetPassword has revoked the refresh tokens, no token that
\* descends from a login before it is valid again - but for the refreshes that
\* had read theirs by then.
SessionsEnd == \A t \in Tokens : Valid(t) => token[t].root \notin ended

\* A login has one valid refresh token at a time, however often it is
\* refreshed, as long as the client does not refresh twice at once: the old
\* token is revoked before the new one is made.
OneTokenPerLogin ==
    Cardinality(Serial) <= 1 =>
        \A t, u \in Tokens : Valid(t) /\ Valid(u) /\ token[t].root = token[u].root => t = u

\* None of the last historyLimit + 1 passwords is used twice, as long as the
\* password is not changed twice at once: the history that was read, the
\* check, and the history that is written make one window.
NoReuse ==
    Cardinality(Serial) <= 1 =>
        \A i, j \in 1 .. Len(recent) : recent[i] = recent[j] => i = j
=============================================================================
