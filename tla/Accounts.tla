------------------------------ MODULE Accounts ------------------------------
(***************************************************************************)
(* User accounts, lockout, access tokens and the login rate limit          *)
(* (bmt_ai_os/controller/auth.py, auth_routes.py, user_routes.py,          *)
(* rate_limit.py, middleware.py and the user commands of cli.py).          *)
(*                                                                         *)
(* The controller serves these routes on one event loop and each of them   *)
(* runs to its end without awaiting, so two requests do not overlap.  The  *)
(* command line opens the same database from a process of its own, so its  *)
(* commands fall between the three transactions of a login.                *)
(*                                                                         *)
(* A time is kept as the number of ticks left, or, in the rate limiter, as *)
(* the ticks since; a count of failures is kept up to MaxFailed.           *)
(***************************************************************************)
EXTENDS Integers, Sequences, Folding

CONSTANTS
    Names,        \* user names, registered or not
    Tokens,       \* JWT ids; bounds the logins that succeed
    MaxFailed,    \* _MAX_FAILED_ATTEMPTS
    LockTime,     \* _LOCKOUT_DURATION_SECONDS, in ticks
    TokenLife,    \* _JWT_EXPIRY_SECONDS, in ticks
    LoginLimit,   \* logins allowed ...
    LoginWindow   \* ... in so many ticks

ASSUME AuthAssumption ==
    /\ {MaxFailed, LockTime, TokenLife, LoginLimit, LoginWindow} \subseteq Nat \ {0}
    /\ MaxFailed > 1
    /\ "none" \notin Names   \* the mark of no name

Roles == {"admin", "operator", "viewer"}

VARIABLES
    hasKey,     \* BMT_API_KEY is set
    account,    \* users: the role of each name, "none" without a row
    userLock,   \* users.locked_until
    attempts,   \* login_attempts
    token,      \* the tokens issued, by jti
    blacklist,  \* revoked_tokens
    bucket,     \* the login limiter's timestamps of one address
    login,      \* the login being served
    lockedOut,  \* history: ticks for which a name has to stay locked
    loggedOut   \* history: the tokens logged out

tables == <<account, userLock, attempts>>
sessions == <<token, blacklist, loggedOut>>
authVars == <<hasKey, tables, sessions, bucket, login, lockedOut>>

Unissued == [sub |-> "none", role |-> "none", left |-> 0]
NoAttempts == [count |-> 0, left |-> -1]
NoLogin == [step |-> "idle", name |-> "none", role |-> "none"]

AuthInit ==
    /\ hasKey \in BOOLEAN
    /\ account = [n \in Names |-> "none"]
    /\ userLock = [n \in Names |-> 0]
    /\ attempts = [n \in Names |-> NoAttempts]
    /\ token = [t \in Tokens |-> Unissued]
    /\ blacklist = {}
    /\ bucket = <<>>
    /\ login = NoLogin
    /\ lockedOut = [n \in Names |-> 0]
    /\ loggedOut = {}

----------------------------------------------------------------------------
(* The user store.                                                         *)

HasUsers == \E n \in Names : account[n] # "none"

Exists(n) == account[n] # "none"

\* An account that exists already, like an unknown role or a weak password,
\* is refused.  login_attempts is not touched.
CreateUser(n, r) ==
    /\ ~Exists(n)
    /\ account' = [account EXCEPT ![n] = r]
    /\ userLock' = [userLock EXCEPT ![n] = 0]
    /\ UNCHANGED <<attempts, lockedOut>>

DeleteUser(n) ==
    /\ Exists(n)
    /\ account' = [account EXCEPT ![n] = "none"]
    /\ userLock' = [userLock EXCEPT ![n] = 0]
    /\ UNCHANGED <<attempts, lockedOut>>

UpdateRole(n, r) ==
    /\ Exists(n)
    /\ account' = [account EXCEPT ![n] = r]
    /\ UNCHANGED <<userLock, attempts, lockedOut>>

\* login_attempts is written for a name without an account as well; a NULL
\* failed_count becomes the column's default.
LockAccount(n, d) ==
    /\ userLock' = IF Exists(n) THEN [userLock EXCEPT ![n] = d] ELSE userLock
    /\ attempts' = [attempts EXCEPT ![n] = [count |-> @.count, left |-> d]]
    /\ lockedOut' = [lockedOut EXCEPT ![n] = d]
    /\ UNCHANGED account

Clear(n) ==
    /\ userLock' = [userLock EXCEPT ![n] = 0]
    /\ attempts' = [attempts EXCEPT ![n] =
                      IF @ = NoAttempts THEN @ ELSE [count |-> 0, left |-> 0]]
    /\ lockedOut' = [lockedOut EXCEPT ![n] = 0]
    /\ UNCHANGED account

\* Faulty: login_attempts is not looked at.
IsLockedInUsers(n) == userLock[n] > 0

IsLocked(n) == userLock[n] > 0 \/ attempts[n].left > 0

\* The first failure never locks; the count survives the end of a lock.
RecordFailedLogin(n) ==
    LET first == attempts[n] = NoAttempts
        count == IF first THEN 1 ELSE IF attempts[n].count + 1 > MaxFailed THEN MaxFailed
                                      ELSE attempts[n].count + 1
        left  == IF ~first /\ count >= MaxFailed THEN LockTime ELSE 0
    IN IF attempts[n].left > 0
       THEN UNCHANGED <<tables, lockedOut>>
       ELSE /\ attempts' = [attempts EXCEPT ![n] = [count |-> count, left |-> left]]
            /\ userLock' = IF Exists(n) THEN [userLock EXCEPT ![n] = left] ELSE userLock
            /\ lockedOut' = [lockedOut EXCEPT ![n] = left]
            /\ UNCHANGED account

----------------------------------------------------------------------------
(* Tokens.                                                                 *)

Alive(t) == token[t].left > 0

Pruned == {e \in blacklist : e.left >= 0}

\* verify_token
IsValid(t) == Alive(t) /\ \A e \in Pruned : e.jti # t

\* Faulty: the entry expires at the time of the revocation.
RevokeUntilNow(t) ==
    blacklist' = {e \in blacklist : e.jti # t} \cup {[jti |-> t, left |-> 0]}

\* An expired token can be revoked too: its entry has expired already.
RevokeToken(t) ==
    blacklist' = {e \in blacklist : e.jti # t} \cup {[jti |-> t, left |-> token[t].left]}

----------------------------------------------------------------------------
(* A request: the API key middleware, then the JWT middleware.  A bearer   *)
(* is a token, "key" for the API key, or "none".                           *)

Bearers == Tokens \cup {"key", "none"}

Idle == login.step = "idle"

\* The role a request runs with, "none" when the middlewares leave it open,
\* "refused" when they answer 401.
RoleOf(b) ==
    IF hasKey /\ b # "key" THEN "refused"
    ELSE IF ~HasUsers THEN (IF hasKey THEN "none" ELSE "admin")
    ELSE IF b \in Tokens /\ IsValid(b) THEN token[b].role
    ELSE "refused"

\* verify_token prunes the blacklist once the token has been decoded.
Verified(b) ==
    /\ blacklist' = IF ~hasKey /\ HasUsers /\ b \in Tokens /\ Alive(b) THEN Pruned ELSE blacklist
    /\ UNCHANGED <<token, loggedOut>>

RoleAllows(role, kind) ==
    \/ role = "admin"
    \/ kind = "read"
    \/ role = "operator" /\ kind = "inference"

\* A request that is no account operation; with a role of "none" it is not
\* checked by RoleAllows.
Request(b, kind) ==
    /\ Idle
    /\ RoleOf(b) # "refused"
    /\ RoleOf(b) = "none" \/ RoleAllows(RoleOf(b), kind)
    /\ Verified(b)
    /\ UNCHANGED <<hasKey, tables, bucket, login, lockedOut>>

\* _require_admin
ByAdmin(b) ==
    /\ Idle
    /\ RoleOf(b) = "admin"
    /\ Verified(b)
    /\ UNCHANGED <<hasKey, bucket, login>>

CreateRoute(b, n, r) == ByAdmin(b) /\ CreateUser(n, r)
DeleteRoute(b, n) == ByAdmin(b) /\ DeleteUser(n)
RoleRoute(b, n, r) == ByAdmin(b) /\ UpdateRole(n, r)
LockRoute(b, n, d) == ByAdmin(b) /\ LockAccount(n, d)

\* Unlocking a name without an account answers 404 and still clears its row.
UnlockRoute(b, n) == ByAdmin(b) /\ Clear(n)

\* The same operations under /users.
UserRoutes(b, n, r) ==
    ByAdmin(b) /\ (CreateUser(n, r) \/ DeleteUser(n) \/ UpdateRole(n, r))

\* The path is exempt from the JWT middleware, not from the API key.
Logout(t) ==
    /\ Idle
    /\ ~hasKey
    /\ token[t] # Unissued
    /\ RevokeToken(t)
    /\ loggedOut' = loggedOut \cup {t}
    /\ UNCHANGED <<hasKey, tables, token, bucket, login, lockedOut>>

----------------------------------------------------------------------------
(* A login.                                                                *)

\* SlidingWindowRateLimiter.check evicts, and records the request if allowed.
RecentFailures == Kept(bucket, 0 .. LoginWindow, 0 .. LoginWindow - 1)

LoginLimited ==
    /\ Idle
    /\ Len(RecentFailures) >= LoginLimit
    /\ bucket' = RecentFailures
    /\ UNCHANGED <<hasKey, tables, sessions, login, lockedOut>>

\* is_account_locked; a locked account is answered without looking further.
LoginStart(n) ==
    /\ Idle
    /\ Len(RecentFailures) < LoginLimit
    /\ bucket' = Append(RecentFailures, 0)
    /\ login' = IF IsLocked(n) THEN login ELSE [NoLogin EXCEPT !.step = "fetch", !.name = n]
    /\ UNCHANGED <<hasKey, tables, sessions, lockedOut>>

\* get_user
LoginFetch ==
    /\ login.step = "fetch"
    /\ login' = [login EXCEPT !.step = "verify", !.role = account[login.name]]
    /\ UNCHANGED <<hasKey, tables, sessions, bucket, lockedOut>>

LoginFails ==
    /\ login.step = "verify"
    /\ RecordFailedLogin(login.name)
    /\ login' = NoLogin
    /\ UNCHANGED <<hasKey, sessions, bucket>>

\* The token carries the role that was read.
LoginSucceeds(t) ==
    /\ login.step = "verify"
    /\ login.role # "none"
    /\ token[t] = Unissued
    /\ Clear(login.name)
    /\ token' = [token EXCEPT ![t] = [sub |-> login.name, role |-> login.role, left |-> TokenLife]]
    /\ login' = NoLogin
    /\ UNCHANGED <<hasKey, blacklist, loggedOut, bucket>>

----------------------------------------------------------------------------
CliCreate(n, r) == CreateUser(n, r) /\ UNCHANGED <<hasKey, sessions, bucket, login>>

CliDelete(n) == DeleteUser(n) /\ UNCHANGED <<hasKey, sessions, bucket, login>>

Less(i) == IF i > 0 THEN i - 1 ELSE i

Tick ==
    /\ userLock' = [n \in Names |-> Less(userLock[n])]
    /\ attempts' = [n \in Names |-> [attempts[n] EXCEPT !.left = Less(@)]]
    /\ token' = [t \in Tokens |-> [token[t] EXCEPT !.left = Less(@)]]
    /\ blacklist' = {[e EXCEPT !.left = IF @ < 0 THEN @ ELSE @ - 1] : e \in blacklist}
    /\ bucket' = [i \in DOMAIN bucket |-> IF bucket[i] < LoginWindow THEN bucket[i] + 1 ELSE bucket[i]]
    /\ lockedOut' = [n \in Names |-> Less(lockedOut[n])]
    /\ UNCHANGED <<hasKey, account, login, loggedOut>>

AuthNext ==
    \/ \E b \in Bearers :
         \/ \E kind \in {"read", "inference", "write"} : Request(b, kind)
         \/ \E n \in Names :
              \/ DeleteRoute(b, n) \/ UnlockRoute(b, n)
              \/ \E d \in 1 .. LockTime : LockRoute(b, n, d)
              \/ \E r \in Roles : CreateRoute(b, n, r) \/ RoleRoute(b, n, r) \/ UserRoutes(b, n, r)
    \/ \E t \in Tokens : Logout(t) \/ LoginSucceeds(t)
    \/ \E n \in Names : LoginStart(n) \/ CliDelete(n) \/ \E r \in Roles : CliCreate(n, r)
    \/ LoginLimited \/ LoginFetch \/ LoginFails
    \/ Tick

AuthSpec == AuthInit /\ [][AuthNext]_authVars

----------------------------------------------------------------------------
AuthTypeOK ==
    /\ hasKey \in BOOLEAN
    /\ account \in [Names -> Roles \cup {"none"}]
    /\ userLock \in [Names -> 0 .. LockTime]
    /\ attempts \in [Names -> [count : 0 .. MaxFailed, left : -1 .. LockTime]]
    /\ token \in [Tokens -> [sub : Names \cup {"none"}, role : Roles \cup {"none"}, left : 0 .. TokenLife]]
    /\ blacklist \subseteq [jti : Tokens, left : -1 .. TokenLife]
    /\ bucket \in Seq(0 .. LoginWindow) /\ Len(bucket) <= LoginLimit
    /\ login \in [step : {"idle", "fetch", "verify"}, name : Names \cup {"none"},
                  role : Roles \cup {"none"}]
    /\ lockedOut \in [Names -> 0 .. LockTime]
    /\ loggedOut \subseteq Tokens

\* A name that was locked, by failures or by an administrator, stays locked
\* for the whole time, and no login for it is under way, whatever accounts
\* are deleted, created again or given another role meanwhile; only an
\* administrator ends a lock early.
LockoutHolds ==
    \A n \in Names : lockedOut[n] > 0 => IsLocked(n) /\ login.name # n

\* A token that was logged out is never accepted again, although its entry in
\* the blacklist is removed once it has expired.
LoggedOutStaysOut == \A t \in loggedOut : ~IsValid(t)
=============================================================================
