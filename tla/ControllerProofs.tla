------------------------- MODULE ControllerProofs ---------------------------
(***************************************************************************)
(* What is proved of the controller as a process and of access to it:      *)
(* accounts, lockout and tokens (module Accounts), the credentials of the  *)
(* cloud providers (ProviderKeys), the certificates (Certificates), starting *)
(* and stopping (Lifecycle), the plugins (Plugins) and the terminals       *)
(* (Terminals), for every set of names, tokens, keys, states, processes,   *)
(* services, plugins and sessions, and all durations.                      *)
(*                                                                         *)
(* Where a property is not inductive, the invariant behind it says what the *)
(* steps in progress still rely on: the pair a process is writing, the step *)
(* of the signal handler, the cache a manager has loaded, the jobs the     *)
(* executor holds.                                                         *)
(***************************************************************************)
EXTENDS Accounts, ProviderKeys, Certificates, Lifecycle, Plugins, Terminals, FoldingProofs,
        FiniteSetTheorems, SequenceTheorems, TLAPS

----------------------------------------------------------------------------
(* Accounts: types.                                                        *)

\* AuthTypeOK without the rate limiter's bucket, on which nothing below rests.
AccountsTyped ==
    /\ account \in [Names -> Roles \cup {"none"}]
    /\ userLock \in [Names -> 0 .. LockTime]
    /\ attempts \in [Names -> [count : 0 .. MaxFailed, left : -1 .. LockTime]]
    /\ token \in [Tokens -> [sub : Names \cup {"none"}, role : Roles \cup {"none"}, left : 0 .. TokenLife]]
    /\ blacklist \subseteq [jti : Tokens, left : -1 .. TokenLife]
    /\ login \in [step : {"idle", "fetch", "verify"}, name : Names \cup {"none"},
                  role : Roles \cup {"none"}]
    /\ lockedOut \in [Names -> 0 .. LockTime]
    /\ loggedOut \subseteq Tokens

\* A login that is being served has a name; none has one otherwise.
LoginHasName == IF Idle THEN login = NoLogin ELSE login.name \in Names

\* The invariant behind LockoutHolds: login_attempts alone keeps every lock,
\* for as long as it has to last, and a login under way has found no lock.
AttemptsKeepLocks ==
    \A n \in Names :
        /\ lockedOut[n] = IF attempts[n].left > 0 THEN attempts[n].left ELSE 0
        /\ ~Idle /\ login.name = n => lockedOut[n] = 0

\* The invariant behind LoggedOutStaysOut: the entry of a token that was
\* logged out lives as long as the token, and its jti is not issued again.
EntriesOutlive ==
    /\ \A t \in Tokens : token[t] = Unissued \/ token[t].role # "none"
    /\ \A t \in loggedOut :
          /\ token[t].role # "none"
          /\ Alive(t) => \E e \in blacklist : e.jti = t /\ e.left = token[t].left

AccountsInv == AccountsTyped /\ LoginHasName /\ AttemptsKeepLocks /\ EntriesOutlive

LEMMA AccountsInit == AuthInit => AccountsInv
<1> SUFFICES ASSUME AuthInit PROVE AccountsInv
  OBVIOUS
<1>1. {MaxFailed, LockTime, TokenLife} \subseteq Nat \ {0}
  BY AuthAssumption
<1>2. NoAttempts \in [count : 0 .. MaxFailed, left : -1 .. LockTime]
  BY <1>1 DEF NoAttempts
<1>3. Unissued \in [sub : Names \cup {"none"}, role : Roles \cup {"none"}, left : 0 .. TokenLife]
  BY <1>1 DEF Unissued
<1>4. NoLogin \in [step : {"idle", "fetch", "verify"}, name : Names \cup {"none"},
                   role : Roles \cup {"none"}]
  BY DEF NoLogin
<1>5. AccountsTyped
  BY <1>1, <1>2, <1>3, <1>4 DEF AuthInit, AccountsTyped
<1>6. LoginHasName /\ AttemptsKeepLocks
  BY DEF AuthInit, LoginHasName, AttemptsKeepLocks, Idle, NoLogin, NoAttempts
<1>7. EntriesOutlive
  BY DEF AuthInit, EntriesOutlive
<1> QED
  BY <1>5, <1>6, <1>7 DEF AccountsInv

\* The operations of the user store that an administrator or the command line
\* calls for a name no login is under way for.
LEMMA UserStoreTyped ==
    ASSUME AccountsTyped, NEW n \in Names, NEW r \in Roles, NEW d \in 1 .. LockTime,
           \/ CreateUser(n, r) \/ DeleteUser(n) \/ UpdateRole(n, r) \/ LockAccount(n, d)
           \/ Clear(n) \/ RecordFailedLogin(n)
    PROVE  /\ account' \in [Names -> Roles \cup {"none"}]
           /\ userLock' \in [Names -> 0 .. LockTime]
           /\ attempts' \in [Names -> [count : 0 .. MaxFailed, left : -1 .. LockTime]]
           /\ lockedOut' \in [Names -> 0 .. LockTime]
<1>1. /\ account \in [Names -> Roles \cup {"none"}]
      /\ userLock \in [Names -> 0 .. LockTime]
      /\ attempts \in [Names -> [count : 0 .. MaxFailed, left : -1 .. LockTime]]
      /\ lockedOut \in [Names -> 0 .. LockTime]
  BY DEF AccountsTyped
<1>2. {MaxFailed, LockTime} \subseteq Nat \ {0} /\ MaxFailed > 1
  BY AuthAssumption
<1>3. CASE CreateUser(n, r) \/ DeleteUser(n) \/ UpdateRole(n, r)
  BY <1>1, <1>2, <1>3 DEF CreateUser, DeleteUser, UpdateRole
<1>4. CASE LockAccount(n, d)
  <2>1. [count |-> attempts[n].count, left |-> d] \in [count : 0 .. MaxFailed, left : -1 .. LockTime]
    BY <1>1, <1>2
  <2> QED
    BY <1>1, <1>2, <1>4, <2>1 DEF LockAccount
<1>5. CASE Clear(n)
  <2>1. [count |-> 0, left |-> 0] \in [count : 0 .. MaxFailed, left : -1 .. LockTime]
    BY <1>1, <1>2
  <2> QED
    BY <1>1, <1>2, <1>5, <2>1 DEF Clear
<1>6. CASE RecordFailedLogin(n)
  <2>1. CASE attempts[n].left > 0
    BY <1>1, <1>6, <2>1 DEF RecordFailedLogin, tables
  <2>2. CASE ~(attempts[n].left > 0)
    <3>1. PICK count \in 0 .. MaxFailed, time \in 0 .. LockTime :
             /\ attempts' = [attempts EXCEPT ![n] = [count |-> count, left |-> time]]
             /\ userLock' = IF Exists(n) THEN [userLock EXCEPT ![n] = time] ELSE userLock
             /\ lockedOut' = [lockedOut EXCEPT ![n] = time]
             /\ UNCHANGED account
      <4>1. attempts[n].count \in 0 .. MaxFailed
        BY <1>1
      <4> QED
        BY <1>2, <1>6, <2>2, <4>1 DEF RecordFailedLogin
    <3>2. [count |-> count, left |-> time] \in [count : 0 .. MaxFailed, left : -1 .. LockTime]
      BY <1>2
    <3> QED
      BY <1>1, <3>1, <3>2
  <2> QED
    BY <2>1, <2>2
<1> QED
  BY <1>3, <1>4, <1>5, <1>6

----------------------------------------------------------------------------
(* Accounts: lockout.                                                      *)

\* The history of a lock and the row of login_attempts stay together.
LEMMA LockIsRecorded ==
    ASSUME AccountsTyped, NEW n \in Names, NEW d \in 1 .. LockTime,
           LockAccount(n, d) \/ Clear(n) \/ RecordFailedLogin(n),
           \A m \in Names : lockedOut[m] = IF attempts[m].left > 0 THEN attempts[m].left ELSE 0
    PROVE  \A m \in Names : lockedOut'[m] = IF attempts'[m].left > 0 THEN attempts'[m].left ELSE 0
<1>1. /\ attempts \in [Names -> [count : 0 .. MaxFailed, left : -1 .. LockTime]]
      /\ lockedOut \in [Names -> 0 .. LockTime]
  BY DEF AccountsTyped
<1>2. LockTime \in Nat \ {0}
  BY AuthAssumption
<1>3. CASE LockAccount(n, d)
  BY <1>1, <1>2, <1>3 DEF LockAccount
<1>4. CASE Clear(n)
  BY <1>1, <1>2, <1>4 DEF Clear, NoAttempts
<1>5. CASE RecordFailedLogin(n)
  <2>1. CASE attempts[n].left > 0
    BY <1>5, <2>1 DEF RecordFailedLogin, tables
  <2>2. CASE ~(attempts[n].left > 0)
    <3>1. PICK time \in {0, LockTime} :
             /\ \E count : attempts' = [attempts EXCEPT ![n] = [count |-> count, left |-> time]]
             /\ lockedOut' = [lockedOut EXCEPT ![n] = time]
      BY <1>5, <2>2 DEF RecordFailedLogin
    <3> QED
      BY <1>1, <1>2, <3>1
  <2> QED
    BY <2>1, <2>2
<1> QED
  BY <1>3, <1>4, <1>5

\* A tick takes the same from both.
LEMMA TickKeepsLocks ==
    ASSUME AccountsTyped, Tick,
           \A m \in Names : lockedOut[m] = IF attempts[m].left > 0 THEN attempts[m].left ELSE 0
    PROVE  \A m \in Names :
              /\ lockedOut'[m] = IF attempts'[m].left > 0 THEN attempts'[m].left ELSE 0
              /\ lockedOut[m] = 0 => lockedOut'[m] = 0
<1> SUFFICES ASSUME NEW m \in Names
             PROVE  /\ lockedOut'[m] = IF attempts'[m].left > 0 THEN attempts'[m].left ELSE 0
                    /\ lockedOut[m] = 0 => lockedOut'[m] = 0
  OBVIOUS
<1>1. attempts[m] \in [count : 0 .. MaxFailed, left : -1 .. LockTime] /\ LockTime \in Nat
  BY AuthAssumption DEF AccountsTyped
<1>2. attempts[m].left \in Int
  BY <1>1
<1>3. lockedOut'[m] = Less(lockedOut[m]) /\ attempts'[m].left = Less(attempts[m].left)
  BY <1>1 DEF Tick
<1> QED
  BY <1>2, <1>3 DEF Less

----------------------------------------------------------------------------
(* Accounts: tokens.                                                       *)

\* Pruning removes no entry whose token is alive.
LEMMA PruneKeepsEntries ==
    ASSUME AccountsTyped, EntriesOutlive, NEW b, Verified(b)
    PROVE  EntriesOutlive'
<1>1. /\ UNCHANGED <<token, loggedOut>>
      /\ \A e \in blacklist : e.left >= 0 => e \in blacklist'
  BY DEF Verified, Pruned
<1>2. \A t \in Tokens : Alive(t) => token[t].left >= 0
  BY DEF Alive, AccountsTyped
<1> QED
  BY <1>1, <1>2 DEF EntriesOutlive, Alive, AccountsTyped

\* Revoking a token replaces its entry and leaves the others.
LEMMA LogoutRevokes ==
    ASSUME AccountsTyped, EntriesOutlive, NEW t \in Tokens, Logout(t)
    PROVE  EntriesOutlive' /\ blacklist' \subseteq [jti : Tokens, left : -1 .. TokenLife]
<1> DEFINE entry == [jti |-> t, left |-> token[t].left]
<1>1. /\ UNCHANGED token /\ token[t] # Unissued /\ loggedOut' = loggedOut \cup {t}
      /\ blacklist' = {e \in blacklist : e.jti # t} \cup {entry}
  BY DEF Logout, RevokeToken
<1>2. token[t].left \in 0 .. TokenLife /\ TokenLife \in Nat
  BY AuthAssumption DEF AccountsTyped
<1>3. entry \in [jti : Tokens, left : -1 .. TokenLife] /\ entry.jti = t /\ entry.left = token[t].left
  BY <1>2
<1> HIDE DEF entry
<1>4. ASSUME NEW x \in loggedOut'
      PROVE  /\ token[x].role # "none"
             /\ Alive(x) => \E e \in blacklist' : e.jti = x /\ e.left = token[x].left
  <2>1. CASE x = t
    BY <1>1, <1>3, <2>1 DEF EntriesOutlive
  <2>2. CASE x # t
    BY <1>1, <1>4, <2>2 DEF EntriesOutlive
  <2> QED
    BY <2>1, <2>2
<1> QED
  BY <1>1, <1>3, <1>4 DEF EntriesOutlive, Alive, AccountsTyped

\* A login issues a token under a new jti.
LEMMA LoginIssues ==
    ASSUME AccountsTyped, LoginHasName, EntriesOutlive, NEW t \in Tokens, LoginSucceeds(t)
    PROVE  /\ EntriesOutlive'
           /\ token' \in [Tokens -> [sub : Names \cup {"none"}, role : Roles \cup {"none"},
                                     left : 0 .. TokenLife]]
<1> DEFINE issued == [sub |-> login.name, role |-> login.role, left |-> TokenLife]
<1>1. /\ token[t] = Unissued /\ login.role # "none" /\ token' = [token EXCEPT ![t] = issued]
      /\ UNCHANGED <<blacklist, loggedOut>>
  BY DEF LoginSucceeds
<1>2. t \notin loggedOut
  BY <1>1 DEF EntriesOutlive, Unissued
<1>3. /\ issued \in [sub : Names \cup {"none"}, role : Roles \cup {"none"}, left : 0 .. TokenLife]
      /\ issued.role # "none"
  BY <1>1, AuthAssumption DEF AccountsTyped
<1> HIDE DEF issued
<1> QED
  BY <1>1, <1>2, <1>3 DEF EntriesOutlive, Alive, AccountsTyped

\* A token and its entry grow old together.
LEMMA TickKeepsEntries ==
    ASSUME AccountsTyped, EntriesOutlive, Tick
    PROVE  /\ EntriesOutlive'
           /\ token' \in [Tokens -> [sub : Names \cup {"none"}, role : Roles \cup {"none"},
                                     left : 0 .. TokenLife]]
           /\ blacklist' \subseteq [jti : Tokens, left : -1 .. TokenLife]
<1>1. TokenLife \in Nat /\ loggedOut' = loggedOut
  BY AuthAssumption DEF Tick
<1>2. ASSUME NEW t \in Tokens
      PROVE  /\ token'[t] \in [sub : Names \cup {"none"}, role : Roles \cup {"none"}, left : 0 .. TokenLife]
             /\ token'[t].role = token[t].role /\ token'[t].left = Less(token[t].left)
             /\ token[t] = Unissued => token'[t] = Unissued
  <2>1. token[t] \in [sub : Names \cup {"none"}, role : Roles \cup {"none"}, left : 0 .. TokenLife]
    BY DEF AccountsTyped
  <2>2. token'[t] = [token[t] EXCEPT !.left = Less(@)]
    BY DEF Tick
  <2>3. Less(token[t].left) \in 0 .. TokenLife
    BY <1>1, <2>1 DEF Less
  <2>4. token[t] = Unissued => token'[t] = Unissued
    BY <2>2 DEF Unissued, Less
  <2> QED
    BY <2>1, <2>2, <2>3, <2>4
<1> DEFINE Aged(e) == [e EXCEPT !.left = IF @ < 0 THEN @ ELSE @ - 1]
<1>3. blacklist' = {Aged(e) : e \in blacklist}
  BY DEF Tick
<1>4. ASSUME NEW e \in blacklist
      PROVE  /\ Aged(e) \in [jti : Tokens, left : -1 .. TokenLife]
             /\ Aged(e).jti = e.jti /\ (e.left >= 0 => Aged(e).left = e.left - 1)
  <2>1. e \in [jti : Tokens, left : -1 .. TokenLife]
    BY DEF AccountsTyped
  <2>2. (IF e.left < 0 THEN e.left ELSE e.left - 1) \in -1 .. TokenLife
    BY <1>1, <2>1
  <2> QED
    BY <2>1, <2>2
<1> HIDE DEF Aged
<1>5. blacklist' \subseteq [jti : Tokens, left : -1 .. TokenLife]
  BY <1>3, <1>4
<1>6. token' \in [Tokens -> [sub : Names \cup {"none"}, role : Roles \cup {"none"}, left : 0 .. TokenLife]]
  BY <1>2 DEF Tick
<1>7. ASSUME NEW t \in loggedOut, token'[t].left > 0
      PROVE  \E e \in blacklist' : e.jti = t /\ e.left = token'[t].left
  <2>1. t \in Tokens /\ token[t].left \in 0 .. TokenLife
    BY DEF AccountsTyped
  <2>2. token[t].left > 0 /\ token'[t].left = token[t].left - 1
    BY <1>1, <1>2, <1>7, <2>1 DEF Less
  <2>3. PICK e \in blacklist : e.jti = t /\ e.left = token[t].left
    BY <2>2 DEF EntriesOutlive, Alive
  <2>4. Aged(e) \in blacklist' /\ Aged(e).jti = t /\ Aged(e).left = token'[t].left
    BY <1>1, <1>3, <1>4, <2>1, <2>2, <2>3
  <2> QED
    BY <2>4
<1>8. EntriesOutlive'
  BY <1>1, <1>2, <1>7 DEF EntriesOutlive, Alive, AccountsTyped
<1> QED
  BY <1>5, <1>6, <1>8

----------------------------------------------------------------------------
(* Accounts: every action.                                                 *)

\* An operation of the user store that is called while no login is served, or
\* that leaves the locks alone.
LEMMA StoreStep ==
    ASSUME AccountsInv, NEW n \in Names, NEW r \in Roles, NEW d \in 1 .. LockTime,
           \/ CreateUser(n, r) \/ DeleteUser(n) \/ UpdateRole(n, r)
           \/ Idle /\ (LockAccount(n, d) \/ Clear(n)),
           UNCHANGED <<token, loggedOut, login>>,
           blacklist' \subseteq blacklist, EntriesOutlive'
    PROVE  AccountsInv'
<1> USE DEF AccountsInv
<1>1. AccountsTyped'
  BY UserStoreTyped DEF AccountsTyped
<1>2. LoginHasName'
  BY DEF LoginHasName, Idle
<1>3. \A m \in Names : lockedOut[m] = IF attempts[m].left > 0 THEN attempts[m].left ELSE 0
  BY DEF AttemptsKeepLocks
<1>4. AttemptsKeepLocks'
  <2>1. CASE CreateUser(n, r) \/ DeleteUser(n) \/ UpdateRole(n, r)
    BY <2>1 DEF CreateUser, DeleteUser, UpdateRole, AttemptsKeepLocks, Idle
  <2>2. CASE Idle /\ (LockAccount(n, d) \/ Clear(n))
    BY <1>3, <2>2, LockIsRecorded DEF AttemptsKeepLocks, Idle
  <2> QED
    BY <2>1, <2>2
<1> QED
  BY <1>1, <1>2, <1>4

\* The request of an administrator.
LEMMA AdminStep ==
    ASSUME AccountsInv, NEW b \in Bearers, NEW n \in Names, NEW r \in Roles, NEW d \in 1 .. LockTime,
           \/ DeleteRoute(b, n) \/ UnlockRoute(b, n) \/ LockRoute(b, n, d)
           \/ CreateRoute(b, n, r) \/ RoleRoute(b, n, r) \/ UserRoutes(b, n, r)
    PROVE  AccountsInv'
<1>1. /\ ByAdmin(b)
      /\ \/ CreateUser(n, r) \/ DeleteUser(n) \/ UpdateRole(n, r)
         \/ LockAccount(n, d) \/ Clear(n)
  BY DEF DeleteRoute, UnlockRoute, LockRoute, CreateRoute, RoleRoute, UserRoutes
<1>2. /\ Idle /\ Verified(b) /\ UNCHANGED <<token, loggedOut, login>>
      /\ blacklist' \subseteq blacklist
  BY <1>1 DEF ByAdmin, Verified, Pruned
<1>3. EntriesOutlive'
  BY <1>2, PruneKeepsEntries DEF AccountsInv
<1> QED
  BY <1>1, <1>2, <1>3, StoreStep

\* A step of a login.
LEMMA LoginStep ==
    ASSUME AccountsInv,
           \/ \E n \in Names : LoginStart(n)
           \/ LoginLimited \/ LoginFetch \/ LoginFails
           \/ \E t \in Tokens : LoginSucceeds(t)
    PROVE  AccountsInv'
<1> USE DEF AccountsInv, sessions
<1>1. LockTime \in Nat \ {0}
  BY AuthAssumption
<1>2. CASE LoginLimited
  BY <1>2 DEF LoginLimited, tables, AccountsTyped, LoginHasName, AttemptsKeepLocks, EntriesOutlive,
     Idle, Alive
<1>3. ASSUME NEW n \in Names, LoginStart(n) PROVE AccountsInv'
  <2>1. /\ Idle /\ UNCHANGED <<tables, sessions, lockedOut>>
        /\ login' = IF IsLocked(n) THEN login ELSE [NoLogin EXCEPT !.step = "fetch", !.name = n]
    BY <1>3 DEF LoginStart
  <2>2. CASE IsLocked(n)
    BY <2>1, <2>2 DEF tables, AccountsTyped, LoginHasName, AttemptsKeepLocks, EntriesOutlive,
       Idle, Alive
  <2>3. CASE ~IsLocked(n)
    <3>1. /\ login'.step = "fetch" /\ login'.name = n
          /\ login' \in [step : {"idle", "fetch", "verify"}, name : Names \cup {"none"},
                         role : Roles \cup {"none"}]
      BY <2>1, <2>3 DEF NoLogin
    <3>2. lockedOut[n] = 0
      BY <2>3 DEF AttemptsKeepLocks, IsLocked
    <3>3. AccountsTyped'
      BY <2>1, <3>1 DEF tables, AccountsTyped
    <3>4. LoginHasName' /\ AttemptsKeepLocks'
      BY <2>1, <3>1, <3>2 DEF tables, LoginHasName, AttemptsKeepLocks, Idle
    <3> QED
      BY <2>1, <3>3, <3>4 DEF EntriesOutlive, Alive
  <2> QED
    BY <2>2, <2>3
<1>4. CASE LoginFetch
  <2>1. login.name \in Names /\ login.step = "fetch"
    BY <1>4 DEF LoginFetch, LoginHasName, Idle
  <2>2. account[login.name] \in Roles \cup {"none"}
    BY <2>1 DEF AccountsTyped
  <2>3. /\ login'.step = "verify" /\ login'.name = login.name
        /\ login' \in [step : {"idle", "fetch", "verify"}, name : Names \cup {"none"},
                       role : Roles \cup {"none"}]
    BY <1>4, <2>2 DEF LoginFetch, AccountsTyped
  <2>4. UNCHANGED <<tables, sessions, lockedOut>>
    BY <1>4 DEF LoginFetch
  <2>5. AccountsTyped' /\ LoginHasName' /\ AttemptsKeepLocks'
    BY <2>1, <2>3, <2>4 DEF tables, AccountsTyped, LoginHasName, AttemptsKeepLocks, Idle
  <2> QED
    BY <2>4, <2>5 DEF EntriesOutlive, Alive
<1>5. NoLogin \in [step : {"idle", "fetch", "verify"}, name : Names \cup {"none"},
                   role : Roles \cup {"none"}]
  BY DEF NoLogin
<1>6. ASSUME login.step = "verify", login' = NoLogin,
             RecordFailedLogin(login.name) \/ Clear(login.name)
      PROVE  LoginHasName' /\ AttemptsKeepLocks'
  <2>1. login.name \in Names
    BY <1>6 DEF LoginHasName, Idle
  <2>2. \A m \in Names : lockedOut[m] = IF attempts[m].left > 0 THEN attempts[m].left ELSE 0
    BY DEF AttemptsKeepLocks
  <2>3. \A m \in Names : lockedOut'[m] = IF attempts'[m].left > 0 THEN attempts'[m].left ELSE 0
    <3>1. 1 \in 1 .. LockTime
      BY <1>1
    <3> QED
      BY <1>6, <2>1, <2>2, <3>1, LockIsRecorded
  <2> QED
    BY <1>6, <2>3 DEF LoginHasName, AttemptsKeepLocks, Idle, NoLogin
<1>7. ASSUME login.step = "verify", RecordFailedLogin(login.name) \/ Clear(login.name)
      PROVE  /\ account' \in [Names -> Roles \cup {"none"}]
             /\ userLock' \in [Names -> 0 .. LockTime]
             /\ attempts' \in [Names -> [count : 0 .. MaxFailed, left : -1 .. LockTime]]
             /\ lockedOut' \in [Names -> 0 .. LockTime]
  <2>1. login.name \in Names /\ 1 \in 1 .. LockTime /\ "viewer" \in Roles
    BY <1>1, <1>7 DEF LoginHasName, Idle, Roles
  <2> QED
    BY <1>7, <2>1, UserStoreTyped
<1>8. CASE LoginFails
  <2>1. /\ login.step = "verify" /\ login' = NoLogin /\ RecordFailedLogin(login.name)
        /\ UNCHANGED <<token, blacklist, loggedOut>>
    BY <1>8 DEF LoginFails
  <2>2. AccountsTyped'
    BY <1>5, <1>7, <2>1 DEF AccountsTyped
  <2> QED
    BY <1>6, <2>1, <2>2 DEF EntriesOutlive, Alive
<1>9. ASSUME NEW t \in Tokens, LoginSucceeds(t) PROVE AccountsInv'
  <2>1. /\ login.step = "verify" /\ login' = NoLogin /\ Clear(login.name)
        /\ UNCHANGED <<blacklist, loggedOut>>
    BY <1>9 DEF LoginSucceeds
  <2>2. AccountsTyped'
    BY <1>5, <1>7, <1>9, <2>1, LoginIssues DEF AccountsTyped
  <2> QED
    BY <1>6, <1>9, <2>1, <2>2, LoginIssues
<1> QED
  BY <1>2, <1>3, <1>4, <1>8, <1>9

\* A tick.
LEMMA TickStep ==
    ASSUME AccountsInv, Tick
    PROVE  AccountsInv'
<1> USE DEF AccountsInv
<1>1. LockTime \in Nat
  BY AuthAssumption
<1>2. ASSUME NEW l \in -1 .. LockTime PROVE Less(l) \in -1 .. LockTime /\ (l >= 0 => Less(l) >= 0)
  BY <1>1 DEF Less
<1>3. /\ userLock' \in [Names -> 0 .. LockTime] /\ lockedOut' \in [Names -> 0 .. LockTime]
      /\ attempts' \in [Names -> [count : 0 .. MaxFailed, left : -1 .. LockTime]]
  <2>1. /\ userLock' \in [Names -> 0 .. LockTime] /\ lockedOut' \in [Names -> 0 .. LockTime]
    BY <1>1, <1>2 DEF AccountsTyped, Tick
  <2>2. ASSUME NEW n \in Names
        PROVE  [attempts[n] EXCEPT !.left = Less(@)] \in [count : 0 .. MaxFailed, left : -1 .. LockTime]
    <3>1. attempts[n] \in [count : 0 .. MaxFailed, left : -1 .. LockTime]
      BY DEF AccountsTyped
    <3> QED
      BY <1>2, <3>1
  <2> QED
    BY <2>1, <2>2 DEF Tick
<1>4. AccountsTyped'
  BY <1>3, TickKeepsEntries DEF AccountsTyped, Tick
<1>5. LoginHasName'
  BY DEF LoginHasName, Tick, Idle
<1>6. AttemptsKeepLocks'
  <2>1. \A m \in Names : lockedOut[m] = IF attempts[m].left > 0 THEN attempts[m].left ELSE 0
    BY DEF AttemptsKeepLocks
  <2> QED
    BY <2>1, TickKeepsLocks DEF AttemptsKeepLocks, Tick, Idle
<1> QED
  BY <1>4, <1>5, <1>6, TickKeepsEntries

\* Every action keeps the invariant.
LEMMA AccountsStep == AccountsInv /\ [AuthNext]_authVars => AccountsInv'
<1> SUFFICES ASSUME AccountsInv, [AuthNext]_authVars PROVE AccountsInv'
  OBVIOUS
<1>1. ASSUME NEW b \in Bearers, NEW kind, Request(b, kind) PROVE AccountsInv'
  <2>1. /\ UNCHANGED <<tables, login, lockedOut, token, loggedOut>> /\ blacklist' \subseteq blacklist
    BY <1>1 DEF Request, Verified, Pruned
  <2>2. EntriesOutlive'
    BY <1>1, PruneKeepsEntries DEF Request, AccountsInv
  <2> QED
    BY <2>1, <2>2 DEF AccountsInv, tables, AccountsTyped, LoginHasName, AttemptsKeepLocks, Idle
<1>2. ASSUME NEW b \in Bearers, NEW n \in Names,
             \/ DeleteRoute(b, n) \/ UnlockRoute(b, n)
             \/ \E d \in 1 .. LockTime : LockRoute(b, n, d)
             \/ \E r \in Roles : CreateRoute(b, n, r) \/ RoleRoute(b, n, r) \/ UserRoutes(b, n, r)
      PROVE  AccountsInv'
  <2>1. "viewer" \in Roles /\ 1 \in 1 .. LockTime
    BY AuthAssumption DEF Roles
  <2> QED
    BY <1>2, <2>1, AdminStep
<1>3. ASSUME NEW t \in Tokens, Logout(t) PROVE AccountsInv'
  <2>1. /\ UNCHANGED <<tables, token, login, lockedOut>> /\ loggedOut' = loggedOut \cup {t}
    BY <1>3 DEF Logout
  <2> QED
    BY <1>3, <2>1, LogoutRevokes
    DEF AccountsInv, tables, AccountsTyped, LoginHasName, AttemptsKeepLocks, Idle
<1>4. ASSUME NEW n \in Names, NEW r \in Roles, CliDelete(n) \/ CliCreate(n, r) PROVE AccountsInv'
  <2>1. /\ CreateUser(n, r) \/ DeleteUser(n)
        /\ UNCHANGED <<token, blacklist, loggedOut, login>> /\ 1 \in 1 .. LockTime
    BY <1>4, AuthAssumption DEF CliDelete, CliCreate, sessions
  <2>2. EntriesOutlive'
    BY <2>1 DEF AccountsInv, EntriesOutlive, Alive
  <2> QED
    BY <2>1, <2>2, StoreStep
<1>5. CASE UNCHANGED authVars
  BY <1>5 DEF authVars, tables, sessions, AccountsInv, AccountsTyped, LoginHasName,
     AttemptsKeepLocks, EntriesOutlive, Idle, Alive
<1>6. "viewer" \in Roles
  BY DEF Roles
<1> QED
  BY <1>1, <1>2, <1>3, <1>4, <1>5, <1>6, LoginStep, TickStep DEF AuthNext

THEOREM AccountsAlways == AuthSpec => []AccountsInv
<1>1. AuthInit => AccountsInv
  BY AccountsInit
<1>2. AccountsInv /\ [AuthNext]_authVars => AccountsInv'
  BY AccountsStep
<1> QED
  BY <1>1, <1>2, PTL DEF AuthSpec

\* A locked name stays locked for the whole time, and no login for it is under
\* way, whatever becomes of its account.
THEOREM LocksHold == AuthSpec => []LockoutHolds
<1>1. AccountsInv => LockoutHolds
  <2> SUFFICES ASSUME AccountsInv, NEW n \in Names, lockedOut[n] > 0
               PROVE  IsLocked(n) /\ login.name # n
    BY DEF LockoutHolds
  <2>1. attempts[n].left > 0
    BY DEF AccountsInv, AttemptsKeepLocks
  <2>2. ~(~Idle /\ login.name = n)
    BY DEF AccountsInv, AttemptsKeepLocks
  <2>3. login.name # n
    BY <2>2, AuthAssumption DEF AccountsInv, LoginHasName, NoLogin
  <2> QED
    BY <2>1, <2>3 DEF IsLocked
<1> QED
  BY <1>1, AccountsAlways, PTL

\* A token that was logged out is never accepted again.
THEOREM LogoutIsFinal == AuthSpec => []LoggedOutStaysOut
<1>1. AccountsInv => LoggedOutStaysOut
  <2> SUFFICES ASSUME AccountsInv, NEW t \in loggedOut, Alive(t)
               PROVE  \E e \in Pruned : e.jti = t
    BY DEF LoggedOutStaysOut, IsValid
  <2>1. token[t].left \in Int /\ token[t].left > 0
    BY DEF AccountsInv, AccountsTyped, Alive
  <2>2. PICK e \in blacklist : e.jti = t /\ e.left = token[t].left
    BY DEF AccountsInv, EntriesOutlive
  <2> QED
    BY <2>1, <2>2 DEF Pruned
<1> QED
  BY <1>1, AccountsAlways, PTL

\* What AuthTypeOK adds: the rate limiter holds no more logins than it allows,
\* none of them past the end of the window.
BucketFits ==
    /\ hasKey \in BOOLEAN
    /\ bucket \in Seq(0 .. LoginWindow) /\ Len(bucket) <= LoginLimit

\* The logins that still count are among those kept.
LEMMA RecentFacts ==
    ASSUME BucketFits
    PROVE  /\ RecentFailures \in Seq(0 .. LoginWindow) /\ Len(RecentFailures) <= Len(bucket)
           /\ 0 \in 0 .. LoginWindow /\ LoginLimit \in Nat /\ Len(RecentFailures) \in Nat
           /\ Len(bucket) \in Nat
<1>1. Selects(0 .. LoginWindow, 0 .. LoginWindow - 1)
  BY KeptFacts
<1>2. RecentFailures \in Seq(0 .. LoginWindow) /\ Len(RecentFailures) <= Len(bucket)
  BY <1>1, KeptShorter DEF BucketFits, RecentFailures, Selects
<1>3. 0 \in 0 .. LoginWindow /\ LoginLimit \in Nat
  BY AuthAssumption
<1>4. Len(RecentFailures) \in Nat /\ Len(bucket) \in Nat
  BY <1>2 DEF BucketFits
<1> QED
  BY <1>2, <1>3, <1>4

LEMMA BucketStep == BucketFits /\ [AuthNext]_authVars => BucketFits'
<1> SUFFICES ASSUME BucketFits, [AuthNext]_authVars PROVE BucketFits'
  OBVIOUS
<1>1. ASSUME NEW b \in Bearers, NEW kind, Request(b, kind) PROVE BucketFits'
  BY <1>1 DEF BucketFits, Request
<1>2. ASSUME NEW b \in Bearers, NEW n \in Names,
             \/ DeleteRoute(b, n) \/ UnlockRoute(b, n)
             \/ \E d \in 1 .. LockTime : LockRoute(b, n, d)
             \/ \E r \in Roles : CreateRoute(b, n, r) \/ RoleRoute(b, n, r) \/ UserRoutes(b, n, r)
      PROVE  BucketFits'
  BY <1>2 DEF BucketFits, DeleteRoute, UnlockRoute, LockRoute, CreateRoute, RoleRoute, UserRoutes, ByAdmin
<1>3. ASSUME NEW t \in Tokens, Logout(t) \/ LoginSucceeds(t) PROVE BucketFits'
  BY <1>3 DEF BucketFits, Logout, LoginSucceeds
<1>4. ASSUME NEW n \in Names, CliDelete(n) \/ \E r \in Roles : CliCreate(n, r) PROVE BucketFits'
  BY <1>4 DEF BucketFits, CliDelete, CliCreate
<1>5. CASE LoginFetch \/ LoginFails
  BY <1>5 DEF BucketFits, LoginFetch, LoginFails
\* A login is recorded only where the limit leaves room for it.
<1>6. ASSUME NEW n \in Names, LoginStart(n) PROVE BucketFits'
  <2>1. bucket' = Append(RecentFailures, 0) /\ Len(RecentFailures) < LoginLimit /\ hasKey' = hasKey
    BY <1>6 DEF LoginStart
  <2>2. bucket' \in Seq(0 .. LoginWindow) /\ Len(bucket') = Len(RecentFailures) + 1
    BY <2>1, RecentFacts
  <2> QED
    BY <2>1, <2>2, RecentFacts DEF BucketFits
<1>7. CASE LoginLimited
  BY <1>7, RecentFacts DEF BucketFits, LoginLimited
\* With time the logins leave the window and are counted no further.
<1>8. CASE Tick
  <2>1. /\ bucket' = [i \in DOMAIN bucket |-> IF bucket[i] < LoginWindow THEN bucket[i] + 1 ELSE bucket[i]]
        /\ hasKey' = hasKey /\ LoginWindow \in Nat
    BY <1>8, AuthAssumption DEF Tick
  <2>2. bucket \in Seq(0 .. LoginWindow) /\ Len(bucket) <= LoginLimit /\ hasKey \in BOOLEAN
    BY DEF BucketFits
  <2> DEFINE n == Len(bucket)
             A == 0 .. LoginWindow
  <2>3. \A S : \A s \in Seq(S) : DOMAIN s = 1 .. Len(s) /\ Len(s) \in Nat /\ \A i \in 1 .. Len(s) : s[i] \in S
    OBVIOUS
  <2>4. DOMAIN bucket = 1 .. n /\ n \in Nat /\ \A i \in 1 .. n : bucket[i] \in 0 .. LoginWindow
    BY <2>2, <2>3
  <2> HIDE DEF n
  <2>5. bucket' \in [1 .. n -> A]
    BY <2>1, <2>4
  <2> HIDE DEF A
  <2>6. \A s \in [1 .. n -> A] : s \in Seq(A) /\ Len(s) = n
    BY <2>4
  <2>7. bucket' \in Seq(0 .. LoginWindow) /\ Len(bucket') = n
    BY <2>5, <2>6 DEF A
  <2> QED
    BY <2>1, <2>2, <2>7 DEF BucketFits, n
<1>9. CASE UNCHANGED authVars
  BY <1>9 DEF BucketFits, authVars
<1> QED
  BY <1>1, <1>2, <1>3, <1>4, <1>5, <1>6, <1>7, <1>8, <1>9 DEF AuthNext

\* Every step keeps the tables, the tokens and the rate limiter in their types:
\* no more logins are admitted within a window than the limit allows.
THEOREM AuthTypeCorrect == AuthSpec => []AuthTypeOK
<1>1. AuthInit => BucketFits
  <2>1. \A S : <<>> \in Seq(S) /\ Len(<<>>) = 0
    OBVIOUS
  <2> QED
    BY <2>1, AuthAssumption DEF AuthInit, BucketFits
<1>2. AccountsInv /\ BucketFits => AuthTypeOK
  BY DEF AccountsInv, AccountsTyped, BucketFits, AuthTypeOK
<1> QED
  BY <1>1, <1>2, AccountsAlways, BucketStep, PTL DEF AuthSpec


----------------------------------------------------------------------------
(* Provider keys: the table.                                               *)

LEMMA KeysTypeInit == KeysInit => KeysTypeOK
<1> SUFFICES ASSUME KeysInit PROVE KeysTypeOK
  OBVIOUS
<1>1. keys \in Seq(KeyRow) /\ RowsAreUnique
  BY DEF KeysInit, RowsAreUnique
<1>2. age \in [OAuthStates -> -1 .. StateLife + 1]
  BY KeysAssumption DEF KeysInit
<1>3. exchanged \in [OAuthStates -> Exchanges]
  BY DEF KeysInit, Exchanges
<1> QED
  BY <1>1, <1>2, <1>3 DEF KeysInit, KeysTypeOK

\* Changing what a row counts keeps its provider and its credential.
LEMMA RowChanges ==
    ASSUME KeysTypeOK, NEW rows, rows \in Seq(KeyRow), keys' = rows,
           DOMAIN rows = DOMAIN keys,
           \A i \in DOMAIN keys : rows[i].provider = keys[i].provider /\ rows[i].raw = keys[i].raw
    PROVE  keys' \in Seq(KeyRow) /\ RowsAreUnique'
  BY DEF KeysTypeOK, RowsAreUnique

\* A new row is unique: the index refuses a duplicate.
LEMMA AddKeyUnique ==
    ASSUME KeysTypeOK, NEW p \in KeyProviders, NEW k \in RawKeys,
           NEW type \in {"api_key", "oauth"}, NEW d \in 0 .. Never, AddKey(p, k, type, d)
    PROVE  keys' \in Seq(KeyRow) /\ RowsAreUnique'
<1> DEFINE row == [provider |-> p, raw |-> k, type |-> type, left |-> d, uses |-> 0, cooldown |-> 0]
<1>1. row \in KeyRow /\ row.provider = p /\ row.raw = k
  BY KeysAssumption DEF KeyRow
<1>2. keys' = Append(keys, row) /\ ~IsDuplicate(p, k) /\ keys \in Seq(KeyRow)
  BY DEF AddKey, KeysTypeOK
<1> HIDE DEF row
<1>3. /\ keys' \in Seq(KeyRow) /\ Len(keys) \in Nat /\ DOMAIN keys = 1 .. Len(keys)
      /\ DOMAIN keys' = 1 .. Len(keys) + 1
      /\ \A i \in 1 .. Len(keys) : keys'[i] = keys[i]
      /\ keys'[Len(keys) + 1] = row
  BY <1>1, <1>2
<1>4. \A i \in 1 .. Len(keys) : ~(keys[i].provider = p /\ keys[i].raw = k)
  BY <1>2, <1>3 DEF IsDuplicate, RowsOf
<1>5. \A i \in 1 .. Len(keys) + 1 : i \in 1 .. Len(keys) \/ i = Len(keys) + 1
  BY <1>3
<1> QED
  BY <1>1, <1>3, <1>4, <1>5 DEF RowsAreUnique, KeysTypeOK

\* Deleting a row moves the later ones up.
LEMMA DeleteKeyUnique ==
    ASSUME KeysTypeOK, NEW i \in DOMAIN keys, DeleteKeyRoute(i)
    PROVE  keys' \in Seq(KeyRow) /\ RowsAreUnique'
<1>1. /\ keys \in Seq(KeyRow) /\ Len(keys) \in Nat \ {0} /\ DOMAIN keys = 1 .. Len(keys)
      /\ i \in 1 .. Len(keys)
  BY DEF KeysTypeOK
<1> DEFINE old(j) == IF j < i THEN j ELSE j + 1
<1>2. \A j \in 1 .. Len(keys) - 1 : old(j) \in 1 .. Len(keys)
  BY <1>1
<1>3. \A j, l \in 1 .. Len(keys) - 1 : old(j) = old(l) => j = l
  BY <1>1
<1>4. keys' = [j \in 1 .. Len(keys) - 1 |-> keys[old(j)]]
  BY DEF DeleteKeyRoute
<1> HIDE DEF old
<1>5. DOMAIN keys' = 1 .. Len(keys) - 1 /\ \A j \in DOMAIN keys' : keys'[j] = keys[old(j)]
  BY <1>4
<1>6. keys' \in Seq(KeyRow)
  <2>1. Len(keys) - 1 \in Nat /\ \A j \in 1 .. Len(keys) - 1 : keys[old(j)] \in KeyRow
    BY <1>1, <1>2
  <2> QED
    BY <1>4, <2>1
<1>7. RowsAreUnique'
  <2> SUFFICES ASSUME NEW j \in DOMAIN keys', NEW l \in DOMAIN keys',
                      keys'[j].provider = keys'[l].provider, keys'[j].raw = keys'[l].raw
               PROVE  j = l
    BY DEF RowsAreUnique
  <2>1. old(j) = old(l)
    BY <1>1, <1>2, <1>5 DEF RowsAreUnique, KeysTypeOK
  <2> QED
    BY <1>3, <1>5, <2>1
<1> QED
  BY <1>6, <1>7

\* Using a key, a refusal of the provider, new OAuth tokens and time change
\* rows in place.
LEMMA RowsInPlace ==
    ASSUME KeysTypeOK,
           \/ \E p \in KeyProviders : UseKey(p)
           \/ \E i \in DOMAIN keys : RecordRateLimit(i)
           \/ \E p \in KeyProviders, k \in RawKeys : UpdateOAuthTokens(p, k)
           \/ KeysTick
    PROVE  keys' \in Seq(KeyRow) /\ RowsAreUnique'
<1>1. /\ keys \in Seq(KeyRow) /\ \A i \in DOMAIN keys : keys[i] \in KeyRow
      /\ {KeyLife, CooldownTime, MaxUses} \subseteq Nat
  BY KeysAssumption DEF KeysTypeOK
<1>2. ASSUME NEW i \in DOMAIN keys, NEW row \in KeyRow, keys' = [keys EXCEPT ![i] = row],
             row.provider = keys[i].provider, row.raw = keys[i].raw
      PROVE  keys' \in Seq(KeyRow) /\ RowsAreUnique'
  <2>1. /\ keys' \in Seq(KeyRow) /\ DOMAIN keys' = DOMAIN keys
        /\ \A j \in DOMAIN keys : keys'[j].provider = keys[j].provider /\ keys'[j].raw = keys[j].raw
    BY <1>1, <1>2
  <2> QED
    BY <2>1, RowChanges
<1>3. ASSUME keys' = keys PROVE keys' \in Seq(KeyRow) /\ RowsAreUnique'
  BY <1>3 DEF KeysTypeOK, RowsAreUnique
<1>4. ASSUME NEW i, i \notin DOMAIN keys, NEW row, keys' = [keys EXCEPT ![i] = row]
      PROVE  keys' = keys
  BY <1>1, <1>4
<1>5. ASSUME NEW p \in KeyProviders, UseKey(p) PROVE keys' \in Seq(KeyRow) /\ RowsAreUnique'
  <2>1. PICK i : keys[i].uses < MaxUses /\ keys' = [keys EXCEPT ![i].uses = @ + 1]
    BY <1>5 DEF UseKey
  <2>2. CASE i \in DOMAIN keys
    <3> DEFINE row == [keys[i] EXCEPT !.uses = @ + 1]
    <3>1. keys[i].uses + 1 \in 0 .. MaxUses
      BY <1>1, <2>1, <2>2 DEF KeyRow
    <3>2. row \in KeyRow /\ row.provider = keys[i].provider /\ row.raw = keys[i].raw
      BY <1>1, <2>2, <3>1 DEF KeyRow
    <3>3. keys' = [keys EXCEPT ![i] = row]
      BY <2>1
    <3> QED
      BY <1>2, <2>2, <3>2, <3>3
  <2> QED
    BY <1>3, <1>4, <2>1, <2>2
<1>6. ASSUME NEW i \in DOMAIN keys, RecordRateLimit(i)
      PROVE  keys' \in Seq(KeyRow) /\ RowsAreUnique'
  <2> DEFINE row == [keys[i] EXCEPT !.cooldown = CooldownTime]
  <2>1. CooldownTime \in 0 .. CooldownTime /\ keys[i] \in KeyRow
    BY <1>1
  <2>2. row \in KeyRow /\ row.provider = keys[i].provider /\ row.raw = keys[i].raw
    BY <2>1 DEF KeyRow
  <2>3. keys' = [keys EXCEPT ![i] = row]
    BY <1>6 DEF RecordRateLimit
  <2> QED
    BY <1>2, <2>2, <2>3
<1>7. ASSUME NEW p \in KeyProviders, NEW k \in RawKeys, UpdateOAuthTokens(p, k)
      PROVE  keys' \in Seq(KeyRow) /\ RowsAreUnique'
  <2>1. CASE keys' = keys
    BY <1>3, <2>1
  <2>2. CASE \E i : keys' = [keys EXCEPT ![i].left = KeyLife]
    <3>1. PICK i : keys' = [keys EXCEPT ![i].left = KeyLife]
      BY <2>2
    <3>2. CASE i \in DOMAIN keys
      <4> DEFINE row == [keys[i] EXCEPT !.left = KeyLife]
      <4>1. KeyLife \in 0 .. Never
        BY <1>1 DEF Never
      <4>2. row \in KeyRow /\ row.provider = keys[i].provider /\ row.raw = keys[i].raw
        BY <1>1, <3>2, <4>1 DEF KeyRow
      <4>3. keys' = [keys EXCEPT ![i] = row]
        BY <3>1
      <4> QED
        BY <1>2, <3>2, <4>2, <4>3
    <3> QED
      BY <1>3, <1>4, <3>1, <3>2
  <2> QED
    BY <1>7, <2>1, <2>2 DEF UpdateOAuthTokens
<1>8. CASE KeysTick
  <2> DEFINE Aged(i) == [keys[i] EXCEPT !.cooldown = IF @ > 0 THEN @ - 1 ELSE 0,
                                        !.left = IF @ \in {0, Never} THEN @ ELSE @ - 1]
  <2>1. ASSUME NEW i \in DOMAIN keys
        PROVE  Aged(i) \in KeyRow /\ Aged(i).provider = keys[i].provider /\ Aged(i).raw = keys[i].raw
    <3>1. keys[i] \in KeyRow /\ CooldownTime \in Nat /\ Never \in Nat
      BY <1>1 DEF Never
    <3>2. keys[i].cooldown \in 0 .. CooldownTime /\ keys[i].left \in 0 .. Never
      BY <3>1 DEF KeyRow
    <3>3. (IF keys[i].cooldown > 0 THEN keys[i].cooldown - 1 ELSE 0) \in 0 .. CooldownTime
      BY <3>1, <3>2
    <3>4. (IF keys[i].left \in {0, Never} THEN keys[i].left ELSE keys[i].left - 1) \in 0 .. Never
      BY <3>1, <3>2
    <3> QED
      BY <3>1, <3>3, <3>4 DEF KeyRow
  <2>2. keys' = [i \in DOMAIN keys |-> Aged(i)]
    BY <1>8 DEF KeysTick
  <2> HIDE DEF Aged
  <2>3. keys' \in Seq(KeyRow) /\ DOMAIN keys' = DOMAIN keys
    BY <1>1, <2>1, <2>2
  <2>4. \A i \in DOMAIN keys : keys'[i].provider = keys[i].provider /\ keys'[i].raw = keys[i].raw
    BY <2>1, <2>2
  <2> QED
    BY <2>3, <2>4, RowChanges
<1> QED
  BY <1>5, <1>6, <1>7, <1>8

----------------------------------------------------------------------------
(* Provider keys: the OAuth flow.                                          *)

\* The invariant behind StatesAreSpentOnce: a known state is kept with the provider
\* it was made for and has not been exchanged, one that was never made is not known.
StatesInv ==
    /\ StatesAreSpentOnce
    /\ \A s \in OAuthStates :
          /\ s \in DOMAIN pending => Lower[pending[s]] = exchanged[s].made
          /\ age[s] = -1 => /\ s \notin DOMAIN pending
                            /\ exchanged[s].count = 0 /\ exchanged[s].age = 0 /\ exchanged[s].at = {}

LEMMA StatesInit == KeysInit => StatesInv
  BY KeysAssumption DEF KeysInit, StatesInv, StatesAreSpentOnce

\* A callback takes its state away, whether the exchange then succeeds or not.
LEMMA CallbackSpends ==
    ASSUME KeysTypeOK, StatesInv, NEW c \in Callbacks, NEW p \in KeyProviders,
           NEW s \in OAuthStates, CallbackStart(c, p, s)
    PROVE  /\ StatesInv'
           /\ DOMAIN pending' \subseteq OAuthStates
           /\ flight' \in [Callbacks -> [state : OAuthStates, provider : KeyProviders] \cup {NoFlight}]
           /\ exchanged' \in [OAuthStates -> Exchanges]
<1>1. /\ DOMAIN pending' \subseteq DOMAIN pending \ {s} /\ UNCHANGED age
      /\ \A x \in DOMAIN pending' : pending'[x] = pending[x]
  BY DEF CallbackStart, TakeState, Unexpired
<1>2. StateLife \in Nat /\ age[s] \in -1 .. StateLife + 1 /\ exchanged[s] \in Exchanges
  BY KeysAssumption DEF KeysTypeOK
<1>3. CASE UNCHANGED <<flight, exchanged>>
  BY <1>1, <1>3 DEF KeysTypeOK, StatesInv, StatesAreSpentOnce
<1>4. CASE ~UNCHANGED <<flight, exchanged>>
  <2> DEFINE old == exchanged[s]
             spent == [made |-> old.made, at |-> old.at \cup {Lower[p]}, count |-> old.count + 1,
                       age |-> IF old.age > age[s] THEN old.age ELSE age[s]]
  <2>1. /\ s \in DOMAIN pending /\ age[s] <= StateLife /\ Lower[pending[s]] = Lower[p]
        /\ flight' = [flight EXCEPT ![c] = [state |-> s, provider |-> p]]
        /\ exchanged' = [exchanged EXCEPT ![s] = spent]
    BY <1>4 DEF CallbackStart, FitsProvider, Unexpired
  <2>2. /\ age[s] # -1 /\ old.count = 0 /\ old.age <= StateLife
        /\ old.at \subseteq {old.made} /\ old.made = Lower[p]
    BY <2>1 DEF StatesInv, StatesAreSpentOnce
  <2>3. /\ spent \in Exchanges /\ spent.count = 1 /\ spent.age <= StateLife
        /\ spent.made = old.made /\ spent.at \subseteq {spent.made}
    <3>1. /\ old \in [made : LowerNames \cup {"none"}, at : SUBSET LowerNames, count : Nat, age : Nat]
          /\ Lower[p] \in LowerNames
      BY <1>2 DEF Exchanges, LowerNames
    <3>2. /\ spent.made = old.made /\ spent.at = old.at \cup {Lower[p]} /\ spent.count = 1
          /\ spent.age = IF old.age > age[s] THEN old.age ELSE age[s]
      BY <2>2
    <3>3. spent \in Exchanges
      BY <1>2, <3>1 DEF Exchanges
    <3> HIDE DEF old, spent
    <3> QED
      BY <1>2, <2>1, <2>2, <3>2, <3>3
  <2> HIDE DEF spent
  <2>4. /\ exchanged' \in [OAuthStates -> Exchanges] /\ exchanged'[s] = spent
        /\ \A x \in OAuthStates \ {s} : exchanged'[x] = exchanged[x]
    BY <2>1, <2>3 DEF KeysTypeOK
  <2>5. StatesInv'
    BY <1>1, <2>2, <2>3, <2>4 DEF StatesInv, StatesAreSpentOnce
  <2>6. flight' \in [Callbacks -> [state : OAuthStates, provider : KeyProviders] \cup {NoFlight}]
    BY <2>1 DEF KeysTypeOK
  <2> QED
    BY <1>1, <2>4, <2>5, <2>6 DEF KeysTypeOK
<1> QED
  BY <1>3, <1>4

\* Every action keeps the types and the invariant.
LEMMA KeysStep == KeysTypeOK /\ StatesInv /\ [KeysNext]_keyVars => (KeysTypeOK /\ StatesInv)'
<1> SUFFICES ASSUME KeysTypeOK, StatesInv, [KeysNext]_keyVars PROVE (KeysTypeOK /\ StatesInv)'
  OBVIOUS
<1>1. {StateLife, KeyLife, CooldownTime, MaxKeys, MaxUses} \subseteq Nat
  BY KeysAssumption
<1>2. ASSUME keys' \in Seq(KeyRow) /\ RowsAreUnique', UNCHANGED <<pending, age, exchanged>>,
             flight' \in [Callbacks -> [state : OAuthStates, provider : KeyProviders] \cup {NoFlight}]
      PROVE  (KeysTypeOK /\ StatesInv)'
  BY <1>2 DEF KeysTypeOK, StatesInv, StatesAreSpentOnce
<1>3. ASSUME keys' = keys PROVE keys' \in Seq(KeyRow) /\ RowsAreUnique'
  BY <1>3 DEF KeysTypeOK, RowsAreUnique
<1>4. flight \in [Callbacks -> [state : OAuthStates, provider : KeyProviders] \cup {NoFlight}]
  BY DEF KeysTypeOK
<1>5. ASSUME NEW p \in KeyProviders, NEW k \in RawKeys, NEW t \in {"api_key", "oauth"},
             AddKeyRoute(p, k, t)
      PROVE  (KeysTypeOK /\ StatesInv)'
  <2>1. AddKey(p, k, t, Never) /\ UNCHANGED <<pending, age, flight, exchanged>> /\ Never \in 0 .. Never
    BY <1>1, <1>5 DEF AddKeyRoute, Never
  <2> QED
    BY <1>2, <1>4, <2>1, AddKeyUnique
<1>6. ASSUME NEW i \in DOMAIN keys, DeleteKeyRoute(i) PROVE (KeysTypeOK /\ StatesInv)'
  BY <1>2, <1>4, <1>6, DeleteKeyUnique DEF DeleteKeyRoute
<1>7. ASSUME \/ \E p \in KeyProviders : UseKey(p)
             \/ \E i \in DOMAIN keys : RecordRateLimit(i)
      PROVE  (KeysTypeOK /\ StatesInv)'
  <2>1. UNCHANGED <<pending, age, flight, exchanged>>
    BY <1>7 DEF UseKey, RecordRateLimit
  <2> QED
    BY <1>2, <1>4, <1>7, <2>1, RowsInPlace
<1>8. CASE KeysTick
  <2>1. keys' \in Seq(KeyRow) /\ RowsAreUnique' /\ UNCHANGED <<pending, flight, exchanged>>
    BY <1>8, RowsInPlace DEF KeysTick
  <2>2. ASSUME NEW s \in OAuthStates
        PROVE  age'[s] \in -1 .. StateLife + 1 /\ (age'[s] = -1 => age[s] = -1)
    <3>1. age[s] \in -1 .. StateLife + 1
      BY DEF KeysTypeOK
    <3>2. age'[s] = IF age[s] \in {-1, StateLife + 1} THEN age[s] ELSE age[s] + 1
      BY <1>8 DEF KeysTick
    <3> QED
      BY <1>1, <3>1, <3>2
  <2>3. age' \in [OAuthStates -> -1 .. StateLife + 1]
    BY <1>8, <2>2 DEF KeysTick
  <2> QED
    BY <2>1, <2>2, <2>3 DEF KeysTypeOK, StatesInv, StatesAreSpentOnce
<1>9. ASSUME NEW p \in KeyProviders, NEW s \in OAuthStates, OAuthStart(p, s)
      PROVE  (KeysTypeOK /\ StatesInv)'
  <2>1. /\ age[s] = -1 /\ age' = [age EXCEPT ![s] = 0] /\ UNCHANGED <<keys, flight>>
        /\ exchanged' = [exchanged EXCEPT ![s].made = Lower[p]]
        /\ DOMAIN pending' \subseteq DOMAIN pending \cup {s}
        /\ \A x \in DOMAIN pending' : pending'[x] = IF x = s THEN p ELSE pending[x]
    BY <1>9 DEF OAuthStart, Unexpired
  <2>2. /\ age' \in [OAuthStates -> -1 .. StateLife + 1] /\ age'[s] = 0
        /\ \A x \in OAuthStates \ {s} : age'[x] = age[x]
    BY <1>1, <2>1 DEF KeysTypeOK
  <2>3. exchanged[s].count = 0 /\ exchanged[s].age = 0 /\ exchanged[s].at = {}
    BY <2>1 DEF StatesInv
  <2>4. /\ exchanged'[s] = [exchanged[s] EXCEPT !.made = Lower[p]]
        /\ exchanged' \in [OAuthStates -> Exchanges]
        /\ \A x \in OAuthStates \ {s} : exchanged'[x] = exchanged[x]
    <3>1. exchanged \in [OAuthStates -> Exchanges] /\ Lower[p] \in LowerNames
      BY DEF KeysTypeOK, LowerNames
    <3> QED
      BY <2>1, <3>1 DEF Exchanges
  <2>5. /\ exchanged'[s].made = Lower[p] /\ exchanged'[s].count = 0
        /\ exchanged'[s].age = 0 /\ exchanged'[s].at = {}
    <3>1. exchanged[s] \in Exchanges
      BY DEF KeysTypeOK
    <3> QED
      BY <2>3, <2>4, <3>1 DEF Exchanges
  <2>6. KeysTypeOK'
    BY <1>3, <2>1, <2>2, <2>4 DEF KeysTypeOK
  <2>7. StatesInv'
    BY <1>1, <2>1, <2>2, <2>4, <2>5 DEF StatesInv, StatesAreSpentOnce
  <2> QED
    BY <2>6, <2>7
<1>10. ASSUME NEW c \in Callbacks, NEW p \in KeyProviders, NEW s \in OAuthStates, CallbackStart(c, p, s)
       PROVE  (KeysTypeOK /\ StatesInv)'
  <2>1. UNCHANGED <<keys, age>>
    BY <1>10 DEF CallbackStart
  <2> QED
    BY <1>3, <1>10, <2>1, CallbackSpends DEF KeysTypeOK
<1>11. ASSUME NEW c \in Callbacks, CallbackFails(c) \/ \E k \in RawKeys : CallbackStores(c, k)
       PROVE  (KeysTypeOK /\ StatesInv)'
  <2>1. /\ flight[c] # NoFlight /\ flight' = [flight EXCEPT ![c] = NoFlight]
        /\ UNCHANGED <<pending, age, exchanged>>
    BY <1>11 DEF CallbackFails, CallbackStores
  <2>2. flight' \in [Callbacks -> [state : OAuthStates, provider : KeyProviders] \cup {NoFlight}]
    BY <1>4, <2>1
  <2>3. keys' \in Seq(KeyRow) /\ RowsAreUnique'
    <3>1. flight[c].provider \in KeyProviders /\ KeyLife \in 0 .. Never
      BY <1>1, <1>4, <2>1 DEF Never
    <3>2. CASE CallbackFails(c)
      BY <1>3, <3>2 DEF CallbackFails
    <3>3. ASSUME NEW k \in RawKeys, CallbackStores(c, k)
          PROVE  keys' \in Seq(KeyRow) /\ RowsAreUnique'
      BY <3>1, <3>3, AddKeyUnique, RowsInPlace DEF CallbackStores
    <3> QED
      BY <1>11, <3>2, <3>3
  <2> QED
    BY <1>2, <2>1, <2>2, <2>3
<1>12. CASE UNCHANGED keyVars
  BY <1>2, <1>3, <1>4, <1>12 DEF keyVars
<1> QED
  BY <1>5, <1>6, <1>7, <1>8, <1>9, <1>10, <1>11, <1>12 DEF KeysNext

THEOREM KeysAlways == KeysSpec => [](KeysTypeOK /\ StatesInv)
<1>1. KeysInit => KeysTypeOK /\ StatesInv
  BY KeysTypeInit, StatesInit
<1>2. KeysTypeOK /\ StatesInv /\ [KeysNext]_keyVars => (KeysTypeOK /\ StatesInv)'
  BY KeysStep
<1> QED
  BY <1>1, <1>2, PTL DEF KeysSpec

\* Every variable stays in its type and no provider has a credential twice.
THEOREM KeysTypeCorrect == KeysSpec => []KeysTypeOK
<1> QED
  BY KeysAlways, PTL

\* A state is exchanged once, within its life and at the provider it was made for
\* only, however callbacks overlap.
THEOREM NoStateIsSpentTwice == KeysSpec => []StatesAreSpentOnce
<1>1. StatesInv => StatesAreSpentOnce
  BY DEF StatesInv
<1> QED
  BY <1>1, KeysAlways, PTL

------------------------------------------------------------------------
(* Certificates: the controller's own.                                     *)

\* p has a file of the pair open, or one of the two still to write.
Issuing(p) == issuer[p].step \in {"key", "between", "cert"}

\* load_cert_chain would accept the pair.
Fits == IsKey(pair.cert) /\ pair.cert = pair.key

\* The invariant behind PairsAreWhole for the controller's pair: unless processes
\* disturbed one another only one of them is busy; once its key is written the key
\* file holds it, and its certificate is torn while it is written; when nobody
\* writes, a certificate that need not be renewed goes with the key; and the
\* controller loads a pair that fits.
Undisturbed ==
    /\ \A p, q \in Issuers : Busy(p) /\ Busy(q) => p = q
    /\ \A p \in Issuers : issuer[p].step \in {"between", "cert"} => pair.key = issuer[p].new
    /\ \A p \in Issuers : issuer[p].step = "cert" => pair.cert = Torn
    /\ (\A p \in Issuers : ~Issuing(p)) /\ ~NeedsRenewal => pair.cert = pair.key
    /\ issuer["controller"].step = "load" /\ ~given => Fits

TlsInv ==
    /\ TlsTypeOK
    /\ \A p \in Setups : issuer[p].step \in {"off", "key", "between", "cert"}
    /\ \A p \in Issuers : Issuing(p) => issuer[p].new > 0
    /\ issuer["controller"].step = "exited" /\ ~given => disturbed
    /\ ~disturbed => Undisturbed

\* A process takes its next step.
LEMMA StepFacts ==
    ASSUME TlsTypeOK, NEW p \in Issuers, NEW s \in Steps,
           issuer' = [issuer EXCEPT ![p].step = s]
    PROVE  /\ issuer' \in [Issuers -> [step : Steps, new : 0 .. made, days : 0 .. Validity]]
           /\ issuer'[p].step = s /\ issuer'[p].new = issuer[p].new
           /\ \A q \in Issuers \ {p} : issuer'[q] = issuer[q]
<1> DEFINE R == [step : Steps, new : 0 .. made, days : 0 .. Validity]
<1>1. issuer \in [Issuers -> R] /\ issuer[p] \in R
  BY DEF TlsTypeOK
<1>2. [issuer[p] EXCEPT !.step = s] \in R
  BY <1>1
<1>3. /\ issuer'[p] = [issuer[p] EXCEPT !.step = s]
      /\ \A q \in Issuers \ {p} : issuer'[q] = issuer[q]
  BY <1>1
<1>4. issuer' \in [Issuers -> R]
  BY <1>1, <1>2
<1>5. issuer'[p].step = s /\ issuer'[p].new = issuer[p].new
  BY <1>1, <1>3
<1> QED
  BY <1>3, <1>4, <1>5

\* One of the two files changes.
LEMMA PairFacts ==
    ASSUME TlsTypeOK, NEW content \in Torn .. made
    PROVE  /\ [pair EXCEPT !.cert = content] \in [cert : Torn .. made, key : Torn .. made]
           /\ [pair EXCEPT !.cert = content].cert = content
           /\ [pair EXCEPT !.cert = content].key = pair.key
           /\ [pair EXCEPT !.key = content] \in [cert : Torn .. made, key : Torn .. made]
           /\ [pair EXCEPT !.key = content].key = content
           /\ [pair EXCEPT !.key = content].cert = pair.cert
  BY DEF TlsTypeOK

\* generate_self_signed opens the key file: only a process that overlaps it is
\* disturbed.
LEMMA GenerateFacts ==
    ASSUME TlsInv, NEW p \in Issuers, NEW days \in 0 .. Validity, Generate(p, days)
    PROVE  TlsInv'
<1>1. /\ made \in Nat /\ made' = made + 1 /\ made' \in 0 .. MaxPairs /\ Torn = -1 /\ Validity \in Nat
      /\ pair \in [cert : Torn .. made, key : Torn .. made]
      /\ issuer \in [Issuers -> [step : Steps, new : 0 .. made, days : 0 .. Validity]]
      /\ pair' = [pair EXCEPT !.key = Torn]
      /\ issuer' = [issuer EXCEPT ![p] = [step |-> "key", new |-> made + 1, days |-> days]]
      /\ UNCHANGED <<given, left>> /\ disturbed' = (disturbed \/ Overlaps(p))
      /\ TlsTypeOK
  BY SMTT(60), CertificatesAssumption DEF TlsInv, TlsTypeOK, Generate, Torn
<1>2. pair' \in [cert : Torn .. made', key : Torn .. made'] /\ pair'.cert = pair.cert
  BY <1>1
<1>3. issuer' \in [Issuers -> [step : Steps, new : 0 .. made', days : 0 .. Validity]]
  <2> DEFINE R == [step : Steps, new : 0 .. made', days : 0 .. Validity]
  <2>1. [step |-> "key", new |-> made + 1, days |-> days] \in R
    BY <1>1 DEF Steps
  <2>2. \A q \in Issuers : issuer[q] \in R
    BY <1>1
  <2> HIDE DEF R
  <2>3. issuer' \in [Issuers -> R]
    BY <1>1, <2>1, <2>2
  <2> QED
    BY <2>3 DEF R
<1>4. TlsTypeOK'
  BY <1>1, <1>2, <1>3 DEF TlsTypeOK
<1>5. /\ issuer'[p].step = "key" /\ issuer'[p].new > 0
      /\ \A q \in Issuers \ {p} : issuer'[q] = issuer[q]
  BY <1>1
<1>6. ~disturbed' => Undisturbed'
  <2> SUFFICES ASSUME ~disturbed' PROVE Undisturbed'
    OBVIOUS
  <2>1. ~Overlaps(p)
    BY <1>1
  <2>2. \A q \in Issuers \ {p} : ~Busy(q) /\ ~Busy(q)'
    BY <1>5, <2>1 DEF Overlaps, Busy
  <2>3. Issuing(p)'
    BY <1>5 DEF Issuing
  <2>4. "controller" \in Issuers
    BY DEF Issuers
  <2> QED
    BY <1>5, <2>2, <2>3, <2>4 DEF Undisturbed, Busy
<1>7. /\ \A q \in Setups : issuer'[q].step \in {"off", "key", "between", "cert"}
      /\ \A q \in Issuers : Issuing(q)' => issuer'[q].new > 0
      /\ issuer'["controller"].step = "exited" /\ ~given' => disturbed'
  BY <1>1, <1>5 DEF TlsInv, Issuing, Issuers
<1> QED
  BY <1>4, <1>6, <1>7 DEF TlsInv

\* The key file is written, or the certificate's is opened.
LEMMA WriteKeeps ==
    ASSUME TlsInv, NEW p \in Issuers, KeyWritten(p) \/ OpenCert(p)
    PROVE  TlsInv'
<1> DEFINE s == IF issuer[p].step = "key" THEN "between" ELSE "cert"
<1>1. /\ TlsTypeOK /\ issuer[p].step \in {"key", "between"} /\ issuer[p].new > 0
      /\ issuer[p].new \in 0 .. made /\ made \in Nat
      /\ issuer' = [issuer EXCEPT ![p].step = s]
      /\ UNCHANGED <<given, left, made, disturbed>>
      /\ s \in {"between", "cert"}
  BY CertificatesAssumption DEF TlsInv, TlsTypeOK, KeyWritten, OpenCert, Issuing
<1>2. /\ issuer' \in [Issuers -> [step : Steps, new : 0 .. made, days : 0 .. Validity]]
      /\ issuer'[p].step = s /\ issuer'[p].new = issuer[p].new
      /\ \A q \in Issuers \ {p} : issuer'[q] = issuer[q]
  <2>1. s \in Steps
    BY <1>1 DEF Steps
  <2> HIDE DEF s
  <2> QED
    BY <1>1, <2>1, StepFacts
<1> HIDE DEF s
<1>3. /\ pair' \in [cert : Torn .. made, key : Torn .. made]
      /\ issuer[p].step = "key" => pair'.key = issuer[p].new
      /\ issuer[p].step = "between" => pair'.key = pair.key /\ pair'.cert = Torn
  <2>1. issuer[p].new \in Torn .. made /\ Torn \in Torn .. made
    BY <1>1 DEF Torn
  <2>2. CASE KeyWritten(p)
    <3>1. issuer[p].step = "key" /\ pair' = [pair EXCEPT !.key = issuer[p].new]
      BY <2>2 DEF KeyWritten
    <3> QED
      BY <1>1, <2>1, <3>1, PairFacts
  <2>3. CASE OpenCert(p)
    <3>1. issuer[p].step = "between" /\ pair' = [pair EXCEPT !.cert = Torn]
      BY <2>3 DEF OpenCert
    <3> QED
      BY <1>1, <2>1, <3>1, PairFacts
  <2> QED
    BY <2>2, <2>3
<1>4. TlsTypeOK'
  BY <1>1, <1>2, <1>3 DEF TlsTypeOK
<1>5. /\ \A q \in Setups : issuer'[q].step \in {"off", "key", "between", "cert"}
      /\ \A q \in Issuers : Issuing(q)' => issuer'[q].new > 0
      /\ issuer'["controller"].step = "exited" /\ ~given' => disturbed'
  BY <1>1, <1>2 DEF TlsInv, Issuing, Issuers
<1>6. ~disturbed' => Undisturbed'
  <2> SUFFICES ASSUME ~disturbed PROVE Undisturbed'
    BY <1>1
  <2>1. /\ Undisturbed /\ Busy(p)
        /\ \A q \in Issuers \ {p} : ~Busy(q) /\ ~Busy(q)'
    BY <1>1, <1>2 DEF TlsInv, Undisturbed, Busy
  <2>2. /\ Issuing(p)' /\ issuer'[p].new = pair'.key
        /\ issuer'[p].step = "cert" => pair'.cert = Torn
    BY <1>1, <1>2, <1>3, <2>1 DEF Undisturbed, Issuing, s
  <2>3. "controller" \in Issuers
    BY DEF Issuers
  <2> QED
    BY <1>1, <1>2, <2>1, <2>2, <2>3 DEF Undisturbed, Busy
<1> QED
  BY <1>4, <1>5, <1>6 DEF TlsInv

\* The certificate is written, and the pair fits.
LEMMA CertKeeps ==
    ASSUME TlsInv, NEW p \in Issuers, CertWritten(p)
    PROVE  TlsInv'
<1> DEFINE s == IF p = "controller" THEN "load" ELSE "off"
<1>1. /\ TlsTypeOK /\ issuer[p].step = "cert" /\ issuer[p].new > 0
      /\ issuer[p].new \in 0 .. made /\ made \in Nat /\ issuer[p].days \in 0 .. Validity
      /\ issuer' = [issuer EXCEPT ![p].step = s] /\ left' = issuer[p].days
      /\ pair' = [pair EXCEPT !.cert = issuer[p].new]
      /\ UNCHANGED <<given, made, disturbed>>
  BY CertificatesAssumption DEF TlsInv, TlsTypeOK, CertWritten, Issuing
<1>2. /\ issuer' \in [Issuers -> [step : Steps, new : 0 .. made, days : 0 .. Validity]]
      /\ issuer'[p].step = s /\ issuer'[p].new = issuer[p].new
      /\ \A q \in Issuers \ {p} : issuer'[q] = issuer[q]
  <2>1. s \in Steps
    BY DEF Steps
  <2> HIDE DEF s
  <2> QED
    BY <1>1, <2>1, StepFacts
<1>3. /\ pair' \in [cert : Torn .. made, key : Torn .. made]
      /\ pair'.cert = issuer[p].new /\ pair'.key = pair.key
  <2>1. issuer[p].new \in Torn .. made
    BY <1>1 DEF Torn
  <2> QED
    BY <1>1, <2>1, PairFacts
<1>4. TlsTypeOK'
  BY <1>1, <1>2, <1>3 DEF TlsTypeOK
<1>5. /\ \A q \in Setups : issuer'[q].step \in {"off", "key", "between", "cert"}
      /\ \A q \in Issuers : Issuing(q)' => issuer'[q].new > 0
      /\ issuer'["controller"].step = "exited" /\ ~given' => disturbed'
  BY <1>1, <1>2, CertificatesAssumption DEF TlsInv, Issuing, Issuers
<1>6. ~disturbed' => Undisturbed'
  <2> SUFFICES ASSUME ~disturbed PROVE Undisturbed'
    BY <1>1
  <2>1. /\ Undisturbed /\ Busy(p)
        /\ \A q \in Issuers \ {p} : ~Busy(q) /\ ~Busy(q)'
    BY <1>1, <1>2 DEF TlsInv, Undisturbed, Busy
  <2>2. pair'.cert = pair'.key /\ pair'.cert > 0
    BY <1>1, <1>3, <2>1 DEF Undisturbed
  <2>3. Fits' /\ issuer'[p].step \in {"load", "off"}
    BY <1>2, <2>2 DEF Fits, IsKey
  <2> QED
    BY <2>1, <2>2, <2>3 DEF Undisturbed, Busy
<1> QED
  BY <1>4, <1>5, <1>6 DEF TlsInv

\* A process is cut off: if it left a new key beside an old certificate, that one
\* is about to be renewed, or the step is a disturbance.
LEMMA CutKeeps ==
    ASSUME TlsInv, NEW p \in Issuers, Cut(p)
    PROVE  TlsInv'
<1>1. /\ TlsTypeOK /\ Busy(p) /\ UNCHANGED <<given, pair, left, made>>
      /\ issuer' = [issuer EXCEPT ![p].step = "off"]
      /\ disturbed' = (disturbed \/ (issuer[p].step \in {"key", "between"} /\ ~NeedsRenewal))
  BY DEF TlsInv, Cut
<1>2. /\ issuer' \in [Issuers -> [step : Steps, new : 0 .. made, days : 0 .. Validity]]
      /\ issuer'[p].step = "off"
      /\ \A q \in Issuers \ {p} : issuer'[q] = issuer[q]
  BY <1>1, StepFacts DEF Steps
<1>3. TlsTypeOK'
  BY <1>1, <1>2 DEF TlsTypeOK
<1>4. /\ \A q \in Setups : issuer'[q].step \in {"off", "key", "between", "cert"}
      /\ \A q \in Issuers : Issuing(q)' => issuer'[q].new > 0
      /\ issuer'["controller"].step = "exited" /\ ~given' => disturbed'
  BY <1>1, <1>2 DEF TlsInv, Issuing, Issuers
<1>5. ~disturbed' => Undisturbed'
  <2> SUFFICES ASSUME ~disturbed' PROVE Undisturbed'
    OBVIOUS
  <2>1. /\ Undisturbed /\ NeedsRenewal' = NeedsRenewal
        /\ issuer[p].step \in {"key", "between"} => NeedsRenewal
        /\ \A q \in Issuers \ {p} : ~Busy(q) /\ ~Busy(q)'
    BY <1>1, <1>2 DEF TlsInv, Undisturbed, Busy, NeedsRenewal
  <2>2. ~NeedsRenewal => pair.cert = pair.key
    <3>1. CASE issuer[p].step = "cert"
      BY <1>1, <2>1, <3>1 DEF Undisturbed, NeedsRenewal, IsKey, Torn
    <3>2. CASE issuer[p].step \in {"key", "between"}
      BY <2>1, <3>2
    <3>3. CASE issuer[p].step = "load"
      BY <2>1, <3>3 DEF Undisturbed, Issuing, Busy
    <3> QED
      BY <1>1, <3>1, <3>2, <3>3 DEF Busy, TlsTypeOK, Steps
  <2>3. /\ \A q \in Issuers : ~Busy(q)'
        /\ issuer'["controller"].step # "load"
    BY <1>2, <2>1 DEF Busy, Issuers
  <2> QED
    BY <1>1, <2>1, <2>2, <2>3 DEF Undisturbed, Busy
<1> QED
  BY <1>3, <1>4, <1>5 DEF TlsInv

\* load_tls_config uses the files there are, or has them generated.
LEMMA StartKeeps == TlsInv /\ StartController => TlsInv'
<1> SUFFICES ASSUME TlsInv, StartController PROVE TlsInv'
  OBVIOUS
<1>1. "controller" \in Issuers /\ TlsTypeOK
  BY DEF Issuers, TlsInv
<1>2. CASE given \/ (pair.key # Absent /\ ~NeedsRenewal)
  <2>1. /\ issuer["controller"].step \in {"off", "exited"}
        /\ issuer' = [issuer EXCEPT !["controller"].step = "load"]
        /\ disturbed' = (disturbed \/ Overlaps("controller"))
        /\ UNCHANGED <<given, pair, left, made>>
    BY <1>2 DEF StartController
  <2>2. /\ issuer' \in [Issuers -> [step : Steps, new : 0 .. made, days : 0 .. Validity]]
        /\ issuer'["controller"].step = "load"
        /\ \A q \in Issuers \ {"controller"} : issuer'[q] = issuer[q]
    BY <1>1, <2>1, StepFacts DEF Steps
  <2>3. TlsTypeOK'
    BY <1>1, <2>1, <2>2 DEF TlsTypeOK
  <2>4. /\ \A q \in Setups : issuer'[q].step \in {"off", "key", "between", "cert"}
        /\ \A q \in Issuers : Issuing(q)' => issuer'[q].new > 0
    BY <2>1, <2>2, CertificatesAssumption DEF TlsInv, Issuing, Issuers
  <2>5. ~disturbed' => Undisturbed'
    <3> SUFFICES ASSUME ~disturbed' PROVE Undisturbed'
      OBVIOUS
    <3>1. Undisturbed /\ \A q \in Issuers \ {"controller"} : ~Busy(q) /\ ~Busy(q)'
      BY <2>1, <2>2 DEF TlsInv, Overlaps, Busy
    <3>2. ~NeedsRenewal => Fits
      BY <2>1, <3>1 DEF Undisturbed, NeedsRenewal, Fits, Issuing, Busy
    <3> QED
      BY <1>2, <2>1, <2>2, <3>1, <3>2 DEF Undisturbed, Busy, Fits, NeedsRenewal, Issuing
  <2> QED
    BY <2>2, <2>3, <2>4, <2>5 DEF TlsInv
<1>3. CASE ~(given \/ (pair.key # Absent /\ ~NeedsRenewal))
  <2>1. Generate("controller", Validity)
    BY <1>3 DEF StartController
  <2>2. Validity \in 0 .. Validity
    BY CertificatesAssumption
  <2> QED
    BY <1>1, <2>1, <2>2, GenerateFacts
<1> QED
  BY <1>2, <1>3

\* The controller reads the pair: it ends only if the pair does not fit.
LEMMA LoadKeeps == TlsInv /\ (LoadPair \/ StopController) => TlsInv'
<1> SUFFICES ASSUME TlsInv, LoadPair \/ StopController PROVE TlsInv'
  OBVIOUS
<1> DEFINE s == IF StopController THEN "off" ELSE IF Fits THEN "serving" ELSE "exited"
<1>1. "controller" \in Issuers /\ TlsTypeOK
  BY DEF Issuers, TlsInv
<1>2. /\ issuer["controller"].step \in {"load", "serving"}
      /\ issuer' = [issuer EXCEPT !["controller"].step = s]
      /\ UNCHANGED <<given, pair, left, made>> /\ (disturbed => disturbed') /\ disturbed' \in BOOLEAN
      /\ s \in {"off", "serving", "exited"}
  BY <1>1 DEF LoadPair, StopController, Fits, TlsTypeOK
<1>3. s = "exited" /\ ~given /\ ~disturbed => FALSE
  BY <1>2 DEF TlsInv, Undisturbed, LoadPair, StopController
<1>4. /\ issuer' \in [Issuers -> [step : Steps, new : 0 .. made, days : 0 .. Validity]]
      /\ issuer'["controller"].step = s
      /\ \A q \in Issuers \ {"controller"} : issuer'[q] = issuer[q]
  <2>1. s \in Steps
    BY <1>2 DEF Steps
  <2> HIDE DEF s
  <2> QED
    BY <1>1, <1>2, <2>1, StepFacts
<1> HIDE DEF s
<1>5. TlsTypeOK'
  BY <1>1, <1>2, <1>4 DEF TlsTypeOK
<1>6. /\ \A q \in Setups : issuer'[q].step \in {"off", "key", "between", "cert"}
      /\ \A q \in Issuers : Issuing(q)' => issuer'[q].new > 0
      /\ issuer'["controller"].step = "exited" /\ ~given' => disturbed'
  BY <1>2, <1>3, <1>4, CertificatesAssumption DEF TlsInv, Issuing, Issuers
<1>7. ~disturbed' => Undisturbed'
  <2> SUFFICES ASSUME ~disturbed' PROVE Undisturbed'
    OBVIOUS
  <2>1. Undisturbed /\ \A q \in Issuers : Busy(q)' => q # "controller" /\ Busy(q)
    BY <1>2, <1>4 DEF TlsInv, Busy
  <2>2. (\A q \in Issuers : ~Issuing(q)') => \A q \in Issuers : ~Issuing(q)
    BY <1>2, <1>4 DEF Issuing
  <2> QED
    BY <1>1, <1>2, <1>4, <2>1, <2>2 DEF Undisturbed, NeedsRenewal
<1> QED
  BY <1>5, <1>6, <1>7 DEF TlsInv

\* Every action keeps the invariant.
LEMMA TlsStep == TlsInv /\ [TlsNext]_tlsVars => TlsInv'
<1> SUFFICES ASSUME TlsInv, [TlsNext]_tlsVars PROVE TlsInv'
  OBVIOUS
<1>1. CASE Day
  <2>1. left' = left - 1 /\ left > 0 /\ UNCHANGED <<given, pair, made, issuer, disturbed>>
    BY <1>1 DEF Day
  <2>2. left \in 0 .. Validity /\ Validity \in Nat /\ RenewDays \in Nat
    BY CertificatesAssumption DEF TlsInv, TlsTypeOK
  <2>3. TlsTypeOK'
    BY <2>1, <2>2 DEF TlsInv, TlsTypeOK
  <2>4. ~disturbed => Undisturbed'
    BY <2>1, <2>2 DEF TlsInv, Undisturbed, NeedsRenewal, Busy, Issuing, Fits
  <2> QED
    BY <2>1, <2>3, <2>4 DEF TlsInv, Issuing
<1>2. ASSUME NEW p \in Issuers, NEW force \in BOOLEAN, NEW days \in 1 .. Validity, Setup(p, force, days)
      PROVE  TlsInv'
  BY <1>2, GenerateFacts DEF Setup
<1>3. CASE UNCHANGED tlsVars
  BY <1>3 DEF tlsVars, TlsInv, TlsTypeOK, Undisturbed, NeedsRenewal, Busy, Issuing, Fits
<1> QED
  BY <1>1, <1>2, <1>3, WriteKeeps, CertKeeps, CutKeeps, StartKeeps, LoadKeeps DEF TlsNext

\* The controller's pair fits whenever it loads it undisturbed.
THEOREM TlsAlways == TlsSpec => []TlsInv
<1>1. TlsInit => TlsInv
  <2> SUFFICES ASSUME TlsInit PROVE TlsInv
    OBVIOUS
  <2>1. /\ issuer = [p \in Issuers |-> [step |-> "off", new |-> 0, days |-> 0]]
        /\ pair = [cert |-> Absent, key |-> Absent] /\ left = 0 /\ made = 0 /\ ~disturbed
        /\ given \in BOOLEAN /\ Setups \subseteq Issuers /\ "controller" \in Issuers
    BY DEF TlsInit, Issuers
  <2>2. TlsTypeOK
    <3>1. [cert |-> Absent, key |-> Absent] \in [cert : Torn .. 0, key : Torn .. 0]
      BY DEF Absent, Torn
    <3>2. [step |-> "off", new |-> 0, days |-> 0] \in [step : Steps, new : 0 .. 0, days : 0 .. Validity]
      BY CertificatesAssumption DEF Steps
    <3> DEFINE P == [cert : Torn .. 0, key : Torn .. 0]
               R == [step : Steps, new : 0 .. 0, days : 0 .. Validity]
    <3> HIDE DEF P, R
    <3>3. pair \in P /\ issuer \in [Issuers -> R]
      BY <2>1, <3>1, <3>2 DEF P, R
    <3>4. pair \in [cert : Torn .. made, key : Torn .. made]
      BY <2>1, <3>3 DEF P
    <3>5. issuer \in [Issuers -> [step : Steps, new : 0 .. made, days : 0 .. Validity]]
      BY <2>1, <3>3 DEF R
    <3>6. left \in 0 .. Validity /\ made \in 0 .. MaxPairs /\ disturbed = FALSE
      BY CertificatesAssumption DEF TlsInit
    <3> QED
      BY <2>1, <3>4, <3>5, <3>6 DEF TlsTypeOK
  <2>3. Undisturbed
    BY <2>1 DEF Undisturbed, Busy, NeedsRenewal, IsKey, Absent
  <2> QED
    BY <2>1, <2>2, <2>3 DEF TlsInv, Issuing
<1> QED
  BY <1>1, TlsStep, PTL DEF TlsSpec

------------------------------------------------------------------------
(* Certificates: the pairs of ensure_mtls_pki.                             *)

\* The key fits its certificate, and the CA's key has signed it.
Whole(p) ==
    /\ IsKey(pki[p].key) /\ pki[p].cert.key = pki[p].key
    /\ pki[p].cert.by = Authority.key

InWork(p) == writing # "no" /\ p = PkiOrder[at]

\* What a pair in work has got so far: the CA its key first, the others their
\* certificate, signed by a CA that is whole.
HalfWritten(p) ==
    IF IsCA(p)
    THEN /\ pki[p].key = IF writing = "first" THEN Torn ELSE pkiKeys
         /\ pki[p].cert = IF writing = "second" THEN TornCert ELSE NoCert
    ELSE /\ pki[p].cert = IF writing = "first" THEN TornCert
                          ELSE [key |-> pkiKeys, by |-> Authority.key]
         /\ pki[p].key = IF writing = "second" THEN Torn ELSE Absent
         /\ Whole(PkiOrder[1])

Sound(p) ==
    IF InWork(p) THEN HalfWritten(p)
    ELSE IF IsCA(p) THEN pki[p].cert = NoCert \/ Whole(p)
    ELSE pki[p].key = Absent \/ Whole(p)

\* As long as the CA is not whole no other pair has a key.
UnsignedIsUnused ==
    ~Whole(PkiOrder[1]) => \A p \in Range(PkiOrder) : ~IsCA(p) => pki[p].key = Absent

\* The pairs before the one in work are there.
EarlierAreMade ==
    \A i \in DOMAIN PkiOrder : i < at =>
        ~Missing(PkiOrder[i]) /\ (writing # "no" => PkiOrder[i] # PkiOrder[at])

\* The invariant behind PairsAreWhole.
PkiInv ==
    /\ PkiTypeOK
    /\ writing # "no" => at \in DOMAIN PkiOrder /\ pkiKeys > 0
    /\ ~pkiCut =>
          (\A p \in Range(PkiOrder) : Sound(p)) /\ UnsignedIsUnused /\ EarlierAreMade

\* PkiOrder is a sequence of pairs that is not empty.
LEMMA OrderFacts ==
    /\ Len(PkiOrder) \in Nat \ {0} /\ DOMAIN PkiOrder = 1 .. Len(PkiOrder)
    /\ \A i \in DOMAIN PkiOrder : PkiOrder[i] \in Range(PkiOrder)
    /\ \A p \in Range(PkiOrder) : \E i \in DOMAIN PkiOrder : p = PkiOrder[i]
<1>1. PkiOrder \in Seq(Range(PkiOrder)) /\ PkiOrder # <<>>
  BY CertificatesAssumption
<1>2. /\ \A i \in DOMAIN PkiOrder : PkiOrder[i] \in Range(PkiOrder)
      /\ \A p \in Range(PkiOrder) : \E i \in DOMAIN PkiOrder : p = PkiOrder[i]
  BY DEF Range
<1> QED
  BY <1>1, <1>2

\* What a file may hold, with a key more.
LEMMA FilesGrow == ASSUME NEW n \in Nat, NEW f \in PkiFiles(n) PROVE f \in PkiFiles(n + 1)
<1>1. (Torn .. n) \subseteq (Torn .. n + 1)
  BY DEF Torn
<1> QED
  BY <1>1 DEF PkiFiles

\* A torn certificate is there, an absent one is not, and neither has a key.
LEMMA CertFacts ==
    /\ NoCert.key = Absent /\ NoCert.by = Absent
    /\ TornCert.key = Torn /\ TornCert.by = Absent
    /\ NoCert # TornCert /\ Absent # Torn
    /\ \A n \in Nat : /\ NoCert \in [key : Torn .. n, by : Torn .. n]
                      /\ TornCert \in [key : Torn .. n, by : Torn .. n]
                      /\ Absent \in Torn .. n /\ Torn \in Torn .. n /\ n \in Torn .. n
    /\ \A k, b : IsKey(k) => [key |-> k, by |-> b] # NoCert
  BY DEF NoCert, TornCert, Absent, Torn, IsKey

\* A key file changes, and nothing else.
LEMMA KeyWrite ==
    ASSUME NEW n \in Nat, pki \in [Range(PkiOrder) -> PkiFiles(n)],
           NEW q \in Range(PkiOrder), NEW k \in Torn .. n, pki' = [pki EXCEPT ![q].key = k]
    PROVE  /\ pki' \in [Range(PkiOrder) -> PkiFiles(n)]
           /\ pki'[q].key = k /\ pki'[q].cert = pki[q].cert
           /\ \A p \in Range(PkiOrder) \ {q} : pki'[p] = pki[p]
<1> DEFINE F == PkiFiles(n)
           r == [pki[q] EXCEPT !.key = k]
<1>0. pki[q] \in PkiFiles(n) /\ NoCert \in [key : Torn .. n, by : Torn .. n]
  BY CertFacts
<1>1. r \in F /\ r.key = k /\ r.cert = pki[q].cert
  BY <1>0 DEF PkiFiles
<1>2. pki' = [pki EXCEPT ![q] = r]
  OBVIOUS
<1> HIDE DEF F, r
<1>3. pki \in [Range(PkiOrder) -> F]
  BY DEF F
<1>4. pki' \in [Range(PkiOrder) -> F] /\ pki'[q] = r /\ \A p \in Range(PkiOrder) \ {q} : pki'[p] = pki[p]
  BY <1>1, <1>2, <1>3
<1> QED
  BY <1>1, <1>4 DEF F

\* A certificate file changes, and nothing else.
LEMMA CertWrite ==
    ASSUME NEW n \in Nat, pki \in [Range(PkiOrder) -> PkiFiles(n)],
           NEW q \in Range(PkiOrder), NEW c \in [key : Torn .. n, by : Torn .. n],
           pki' = [pki EXCEPT ![q].cert = c]
    PROVE  /\ pki' \in [Range(PkiOrder) -> PkiFiles(n)]
           /\ pki'[q].cert = c /\ pki'[q].key = pki[q].key
           /\ \A p \in Range(PkiOrder) \ {q} : pki'[p] = pki[p]
<1> DEFINE F == PkiFiles(n)
           r == [pki[q] EXCEPT !.cert = c]
<1>0. pki[q] \in PkiFiles(n) /\ Torn \in Torn .. n
  BY CertFacts
<1>1. r \in F /\ r.key = pki[q].key /\ r.cert = c
  BY <1>0 DEF PkiFiles
<1>2. pki' = [pki EXCEPT ![q] = r]
  OBVIOUS
<1> HIDE DEF F, r
<1>3. pki \in [Range(PkiOrder) -> F]
  BY DEF F
<1>4. pki' \in [Range(PkiOrder) -> F] /\ pki'[q] = r /\ \A p \in Range(PkiOrder) \ {q} : pki'[p] = pki[p]
  BY <1>1, <1>2, <1>3
<1> QED
  BY <1>1, <1>4 DEF F

\* The pair at the place that has been reached is one of the pairs.
LEMMA PlaceFacts ==
    ASSUME PkiInv, at \in DOMAIN PkiOrder
    PROVE  /\ PkiOrder[at] \in Range(PkiOrder) /\ PkiOrder[1] \in Range(PkiOrder)
           /\ at \in 1 .. Len(PkiOrder) /\ Len(PkiOrder) \in Nat \ {0} /\ pkiKeys \in Nat
           /\ 1 \in DOMAIN PkiOrder /\ DOMAIN PkiOrder = 1 .. Len(PkiOrder)
           /\ pki \in [Range(PkiOrder) -> PkiFiles(pkiKeys)]
  BY OrderFacts, CertificatesAssumption DEF PkiInv, PkiTypeOK

\* Starting, passing a pair that is there and giving up leave the files alone.
LEMMA PkiStands ==
    ASSUME PkiInv, PkiStart \/ AlreadyPresent \/ CannotSign
    PROVE  PkiInv'
<1>0. UNCHANGED <<pki, pkiKeys, writing, pkiCut>>
  BY DEF PkiStart, AlreadyPresent, CannotSign
<1>1. writing = "no"
  BY OrderFacts DEF PkiStart, AlreadyPresent, CannotSign, PkiInv
<1>2. /\ at' \in 0 .. Len(PkiOrder) + 1
      /\ EarlierAreMade => \A i \in DOMAIN PkiOrder : i < at' => ~Missing(PkiOrder[i])
  BY OrderFacts DEF PkiStart, AlreadyPresent, CannotSign, PkiInv, PkiTypeOK, EarlierAreMade
<1>3. PkiTypeOK'
  BY <1>0, <1>2 DEF PkiInv, PkiTypeOK
<1>4. \A p \in Range(PkiOrder) : Sound(p) => Sound(p)'
  BY <1>0, <1>1 DEF Sound, InWork, Whole, Authority, IsCA
<1>5. UnsignedIsUnused => UnsignedIsUnused'
  BY <1>0 DEF UnsignedIsUnused, Whole, Authority, IsCA
<1>6. EarlierAreMade => EarlierAreMade'
  BY <1>0, <1>1, <1>2 DEF Missing, EarlierAreMade
<1> QED
  BY <1>0, <1>1, <1>3, <1>4, <1>5, <1>6 DEF PkiInv

\* A cut leaves a pair that is sound or counts as missing.
LEMMA CutStands == ASSUME PkiInv, PkiIsCut PROVE PkiInv'
<1>0. /\ at \in DOMAIN PkiOrder /\ at' = 0 /\ writing' = "no"
      /\ pkiCut' = (pkiCut \/ writing = "second") /\ UNCHANGED <<pki, pkiKeys>>
  BY DEF PkiIsCut
<1>1. PkiTypeOK'
  BY <1>0, OrderFacts DEF PkiInv, PkiTypeOK
<1>2. ASSUME ~pkiCut', NEW p \in Range(PkiOrder) PROVE Sound(p)'
  <2>1. ~pkiCut /\ writing # "second" /\ Sound(p)
    BY <1>0, <1>2 DEF PkiInv
  <2>2. CASE InWork(p)
    BY <1>0, <2>1, <2>2, CertFacts DEF Sound, InWork, HalfWritten, Whole, Authority, IsCA
  <2>3. CASE ~InWork(p)
    BY <1>0, <2>1, <2>3 DEF Sound, InWork, Whole, Authority, IsCA
  <2> QED
    BY <2>2, <2>3
<1>3. ~pkiCut' => UnsignedIsUnused'
  BY <1>0 DEF PkiInv, UnsignedIsUnused, Whole, Authority, IsCA
<1> QED
  BY <1>0, <1>1, <1>2, <1>3, OrderFacts DEF PkiInv, EarlierAreMade

\* A missing pair is begun: the CA's key is opened, or the certificate of another
\* pair, which only a CA that is whole has signed.
LEMMA OpenFirstKeeps == ASSUME PkiInv, OpenFirst PROVE PkiInv'
<1> DEFINE q == PkiOrder[at]
           n == pkiKeys + 1
<1>0. /\ at \in DOMAIN PkiOrder /\ writing = "no" /\ Missing(q)
      /\ IsCA(q) \/ (IsKey(Authority.cert.key) /\ IsKey(Authority.key))
      /\ pkiKeys < MaxPkiKeys /\ pkiKeys' = n /\ writing' = "first"
      /\ pki' = IF IsCA(q) THEN [pki EXCEPT ![q].key = Torn] ELSE [pki EXCEPT ![q].cert = TornCert]
      /\ UNCHANGED <<at, pkiCut>>
  BY DEF OpenFirst
<1>1. /\ q \in Range(PkiOrder) /\ PkiOrder[1] \in Range(PkiOrder)
      /\ pkiKeys \in Nat /\ n \in Nat /\ n > 0
  BY <1>0, PlaceFacts
<1>2. pki \in [Range(PkiOrder) -> PkiFiles(n)]
  BY <1>1, FilesGrow DEF PkiInv, PkiTypeOK
<1>3. /\ pki' \in [Range(PkiOrder) -> PkiFiles(n)]
      /\ \A p \in Range(PkiOrder) \ {q} : pki'[p] = pki[p]
      /\ IF IsCA(q) THEN pki'[q].key = Torn /\ pki'[q].cert = pki[q].cert
         ELSE pki'[q].cert = TornCert /\ pki'[q].key = pki[q].key
  <2>1. Torn \in Torn .. n /\ TornCert \in [key : Torn .. n, by : Torn .. n]
    BY <1>1, CertFacts
  <2>2. CASE IsCA(q)
    BY <1>0, <1>1, <1>2, <2>1, <2>2, KeyWrite
  <2>3. CASE ~IsCA(q)
    BY <1>0, <1>1, <1>2, <2>1, <2>3, CertWrite
  <2> QED
    BY <2>2, <2>3
<1>4. PkiTypeOK'
  BY <1>0, <1>1, <1>3, CertificatesAssumption DEF PkiInv, PkiTypeOK
<1>5. ~pkiCut' => EarlierAreMade'
  BY <1>0, <1>1, <1>3, OrderFacts DEF PkiInv, Missing, EarlierAreMade
<1>6. ASSUME ~pkiCut' PROVE (\A p \in Range(PkiOrder) : Sound(p)') /\ UnsignedIsUnused'
  <2>1. ~pkiCut /\ UnsignedIsUnused /\ \A p \in Range(PkiOrder) : Sound(p)
    BY <1>0, <1>6 DEF PkiInv
  <2>2. \A p \in Range(PkiOrder) : ~InWork(p) /\ (InWork(p)' <=> p = q)
    BY <1>0 DEF InWork
  <2>3. CASE IsCA(q)
    <3>1. pki[q].cert = NoCert /\ UnsignedIsUnused
      <4>1. CASE pki[q].cert = NoCert
        BY <2>1, <4>1
      <4>2. CASE pki[q].key = Absent
        BY <1>1, <2>1, <2>2, <2>3, <4>2, CertFacts DEF Sound, Whole, IsKey, Absent
      <4> QED
        BY <1>0, <4>1, <4>2 DEF Missing
    <3>2. ~Whole(q)
      BY <3>1, CertFacts DEF Whole, IsKey, Absent
    <3>3. \A p \in Range(PkiOrder) \ {q} : ~IsCA(p) /\ pki'[p].key = Absent
      BY <1>3, <2>1, <2>3, <3>2 DEF UnsignedIsUnused, IsCA
    <3>4. HalfWritten(q)'
      BY <1>0, <1>3, <2>3, <3>1 DEF HalfWritten, IsCA
    <3>5. \A p \in Range(PkiOrder) : Sound(p)'
      BY <1>0, <2>3, <3>3, <3>4 DEF Sound, InWork, IsCA
    <3> QED
      BY <2>3, <3>3, <3>5 DEF UnsignedIsUnused, IsCA
  <2>4. CASE ~IsCA(q)
    <3>1. PkiOrder[1] # q /\ Authority' = Authority
      BY <1>1, <1>3, <2>4 DEF Authority, IsCA
    <3>2. Whole(PkiOrder[1])
      <4>1. pki[PkiOrder[1]].cert # NoCert
        BY <1>0, <2>4, CertFacts DEF Authority, IsKey, Absent
      <4> QED
        BY <1>1, <2>1, <2>2, <4>1 DEF Sound, IsCA
    <3>3. \A p \in Range(PkiOrder) \ {q} : Whole(p) => Whole(p)'
      BY <1>3, <3>1 DEF Whole
    <3>4. pki[q].key = Absent
      <4>1. CASE pki[q].key = Absent
        BY <4>1
      <4>2. CASE pki[q].cert = NoCert
        BY <1>1, <2>1, <2>2, <2>4, <4>2, CertFacts DEF Sound, Whole, IsKey, Absent
      <4> QED
        BY <1>0, <4>1, <4>2 DEF Missing
    <3>5. Whole(PkiOrder[1])'
      BY <1>1, <3>1, <3>2, <3>3
    <3>6. HalfWritten(q)'
      BY <1>0, <1>3, <2>4, <3>4, <3>5 DEF HalfWritten, IsCA
    <3>7. ASSUME NEW p \in Range(PkiOrder) PROVE Sound(p)'
      <4>1. CASE p = q
        BY <1>0, <3>6, <4>1 DEF Sound, InWork, HalfWritten, IsCA
      <4>2. CASE p # q
        <5>1. Sound(p) /\ ~InWork(p) /\ ~InWork(p)'
          BY <1>0, <2>1, <4>2 DEF InWork
        <5> QED
          BY <1>3, <3>3, <4>2, <5>1 DEF Sound, IsCA
      <4> QED
        BY <4>1, <4>2
    <3>8. UnsignedIsUnused'
      BY <3>5 DEF UnsignedIsUnused
    <3> QED
      BY <3>7, <3>8
  <2> QED
    BY <2>3, <2>4
<1> QED
  BY <1>0, <1>1, <1>4, <1>5, <1>6 DEF PkiInv

\* The file that was opened gets its contents: the number of the new key.
LEMMA FirstWrittenKeeps == ASSUME PkiInv, FirstWritten PROVE PkiInv'
<1> DEFINE q == PkiOrder[at]
           c == [key |-> pkiKeys, by |-> Authority.key]
<1>0. /\ writing = "first" /\ writing' = "between" /\ UNCHANGED <<pkiKeys, at, pkiCut>>
      /\ pki' = IF IsCA(q) THEN [pki EXCEPT ![q].key = pkiKeys] ELSE [pki EXCEPT ![q].cert = c]
  BY DEF FirstWritten
<1>1. /\ at \in DOMAIN PkiOrder /\ q \in Range(PkiOrder) /\ PkiOrder[1] \in Range(PkiOrder)
      /\ pkiKeys \in Nat /\ pkiKeys > 0 /\ pki \in [Range(PkiOrder) -> PkiFiles(pkiKeys)]
  BY <1>0, PlaceFacts DEF PkiInv
<1>2. c \in [key : Torn .. pkiKeys, by : Torn .. pkiKeys] /\ pkiKeys \in Torn .. pkiKeys
  <2>1. Authority.key \in Torn .. pkiKeys
    BY <1>1 DEF Authority, PkiFiles
  <2> QED
    BY <1>1, <2>1, CertFacts
<1>3. /\ pki' \in [Range(PkiOrder) -> PkiFiles(pkiKeys)]
      /\ \A p \in Range(PkiOrder) \ {q} : pki'[p] = pki[p]
      /\ IF IsCA(q) THEN pki'[q].key = pkiKeys /\ pki'[q].cert = pki[q].cert
         ELSE pki'[q].cert = c /\ pki'[q].key = pki[q].key
  <2>2. CASE IsCA(q)
    BY <1>0, <1>1, <1>2, <2>2, KeyWrite
  <2>3. CASE ~IsCA(q)
    <3>1. pki' = [pki EXCEPT ![q].cert = c]
      BY <1>0, <2>3
    <3> HIDE DEF c
    <3> QED
      BY <1>1, <1>2, <2>3, <3>1, CertWrite
  <2> QED
    BY <2>2, <2>3
<1>4. PkiTypeOK'
  BY <1>0, <1>3 DEF PkiInv, PkiTypeOK
<1>5. ~pkiCut' => EarlierAreMade'
  BY <1>0, <1>1, <1>3, OrderFacts DEF PkiInv, Missing, EarlierAreMade
<1>6. ASSUME ~pkiCut' PROVE (\A p \in Range(PkiOrder) : Sound(p)') /\ UnsignedIsUnused'
  <2>1. ~pkiCut /\ UnsignedIsUnused /\ \A p \in Range(PkiOrder) : Sound(p)
    BY <1>0, <1>6 DEF PkiInv
  <2>2. HalfWritten(q)
    BY <1>0, <1>1, <2>1 DEF Sound, InWork
  <2>3. CASE IsCA(q)
    <3>1. ~Whole(q) /\ HalfWritten(q)'
      BY <1>0, <1>3, <2>2, <2>3, CertFacts DEF HalfWritten, IsCA, Whole, IsKey, Absent, Torn
    <3>2. \A p \in Range(PkiOrder) \ {q} : ~IsCA(p) /\ pki'[p].key = Absent
      BY <1>3, <2>1, <2>3, <3>1 DEF UnsignedIsUnused, IsCA
    <3>3. \A p \in Range(PkiOrder) : Sound(p)'
      BY <1>0, <2>3, <3>1, <3>2 DEF Sound, InWork, IsCA
    <3> QED
      BY <2>3, <3>2, <3>3 DEF UnsignedIsUnused, IsCA
  <2>4. CASE ~IsCA(q)
    <3>1. PkiOrder[1] # q /\ Authority' = Authority
      BY <1>1, <1>3, <2>4 DEF Authority, IsCA
    <3>2. \A p \in Range(PkiOrder) \ {q} : Whole(p) => Whole(p)'
      BY <1>3, <3>1 DEF Whole
    <3>3. Whole(PkiOrder[1])'
      BY <1>1, <2>2, <2>4, <3>1, <3>2 DEF HalfWritten
    <3>4. HalfWritten(q)'
      BY <1>0, <1>3, <2>2, <2>4, <3>1, <3>3 DEF HalfWritten, IsCA
    <3>5. ASSUME NEW p \in Range(PkiOrder) PROVE Sound(p)'
      <4>1. CASE p = q
        BY <1>0, <3>4, <4>1 DEF Sound, InWork, HalfWritten, IsCA
      <4>2. CASE p # q
        <5>1. Sound(p) /\ ~InWork(p) /\ ~InWork(p)'
          BY <1>0, <2>1, <4>2 DEF InWork
        <5> QED
          BY <1>3, <3>2, <4>2, <5>1 DEF Sound, IsCA
      <4> QED
        BY <4>1, <4>2
    <3>6. UnsignedIsUnused'
      BY <3>3 DEF UnsignedIsUnused
    <3> QED
      BY <3>5, <3>6
  <2> QED
    BY <2>3, <2>4
<1> QED
  BY <1>0, <1>1, <1>4, <1>5, <1>6 DEF PkiInv

\* The second file is opened, and is torn.
LEMMA OpenSecondKeeps == ASSUME PkiInv, OpenSecond PROVE PkiInv'
<1> DEFINE q == PkiOrder[at]
<1>0. /\ writing = "between" /\ writing' = "second" /\ UNCHANGED <<pkiKeys, at, pkiCut>>
      /\ pki' = IF IsCA(q) THEN [pki EXCEPT ![q].cert = TornCert] ELSE [pki EXCEPT ![q].key = Torn]
  BY DEF OpenSecond
<1>1. /\ at \in DOMAIN PkiOrder /\ q \in Range(PkiOrder) /\ PkiOrder[1] \in Range(PkiOrder)
      /\ pkiKeys \in Nat /\ pkiKeys > 0 /\ pki \in [Range(PkiOrder) -> PkiFiles(pkiKeys)]
  BY <1>0, PlaceFacts DEF PkiInv
<1>2. TornCert \in [key : Torn .. pkiKeys, by : Torn .. pkiKeys] /\ Torn \in Torn .. pkiKeys
  BY <1>1, CertFacts
<1>3. /\ pki' \in [Range(PkiOrder) -> PkiFiles(pkiKeys)]
      /\ \A p \in Range(PkiOrder) \ {q} : pki'[p] = pki[p]
      /\ IF IsCA(q) THEN pki'[q].cert = TornCert /\ pki'[q].key = pki[q].key
         ELSE pki'[q].key = Torn /\ pki'[q].cert = pki[q].cert
  <2>2. CASE IsCA(q)
    BY <1>0, <1>1, <1>2, <2>2, CertWrite
  <2>3. CASE ~IsCA(q)
    BY <1>0, <1>1, <1>2, <2>3, KeyWrite
  <2> QED
    BY <2>2, <2>3
<1>4. PkiTypeOK'
  BY <1>0, <1>3 DEF PkiInv, PkiTypeOK
<1>5. ~pkiCut' => EarlierAreMade'
  BY <1>0, <1>1, <1>3, OrderFacts DEF PkiInv, Missing, EarlierAreMade
<1>6. ASSUME ~pkiCut' PROVE (\A p \in Range(PkiOrder) : Sound(p)') /\ UnsignedIsUnused'
  <2>1. ~pkiCut /\ UnsignedIsUnused /\ \A p \in Range(PkiOrder) : Sound(p)
    BY <1>0, <1>6 DEF PkiInv
  <2>2. HalfWritten(q)
    BY <1>0, <1>1, <2>1 DEF Sound, InWork
  <2>3. CASE IsCA(q)
    <3>1. ~Whole(q) /\ HalfWritten(q)'
      BY <1>0, <1>1, <1>3, <2>2, <2>3, CertFacts DEF HalfWritten, IsCA, Whole, IsKey, Absent
    <3>2. \A p \in Range(PkiOrder) \ {q} : ~IsCA(p) /\ pki'[p].key = Absent
      BY <1>3, <2>1, <2>3, <3>1 DEF UnsignedIsUnused, IsCA
    <3>3. \A p \in Range(PkiOrder) : Sound(p)'
      BY <1>0, <2>3, <3>1, <3>2 DEF Sound, InWork, IsCA
    <3> QED
      BY <2>3, <3>2, <3>3 DEF UnsignedIsUnused, IsCA
  <2>4. CASE ~IsCA(q)
    <3>1. PkiOrder[1] # q /\ Authority' = Authority
      BY <1>1, <1>3, <2>4 DEF Authority, IsCA
    <3>2. \A p \in Range(PkiOrder) \ {q} : Whole(p) => Whole(p)'
      BY <1>3, <3>1 DEF Whole
    <3>3. Whole(PkiOrder[1])'
      BY <1>1, <2>2, <2>4, <3>1, <3>2 DEF HalfWritten
    <3>4. HalfWritten(q)'
      BY <1>0, <1>3, <2>2, <2>4, <3>1, <3>3 DEF HalfWritten, IsCA
    <3>5. ASSUME NEW p \in Range(PkiOrder) PROVE Sound(p)'
      <4>1. CASE p = q
        BY <1>0, <3>4, <4>1 DEF Sound, InWork, HalfWritten, IsCA
      <4>2. CASE p # q
        <5>1. Sound(p) /\ ~InWork(p) /\ ~InWork(p)'
          BY <1>0, <2>1, <4>2 DEF InWork
        <5> QED
          BY <1>3, <3>2, <4>2, <5>1 DEF Sound, IsCA
      <4> QED
        BY <4>1, <4>2
    <3>6. UnsignedIsUnused'
      BY <3>3 DEF UnsignedIsUnused
    <3> QED
      BY <3>5, <3>6
  <2> QED
    BY <2>3, <2>4
<1> QED
  BY <1>0, <1>1, <1>4, <1>5, <1>6 DEF PkiInv

\* The pair is there, and whole.
LEMMA SecondWrittenKeeps ==
    ASSUME PkiInv, SecondWritten, NEW q \in Range(PkiOrder), q = PkiOrder[at]
    PROVE  PkiInv'
<1> DEFINE c == [key |-> pkiKeys, by |-> pkiKeys]
<1>0. /\ writing = "second" /\ writing' = "no" /\ at' = at + 1 /\ UNCHANGED <<pkiKeys, pkiCut>>
      /\ pki' = IF IsCA(q) THEN [pki EXCEPT ![q].cert = c] ELSE [pki EXCEPT ![q].key = pkiKeys]
  BY DEF SecondWritten
<1>1. /\ at \in DOMAIN PkiOrder /\ PkiOrder[1] \in Range(PkiOrder)
      /\ pkiKeys \in Nat /\ pkiKeys > 0 /\ pki \in [Range(PkiOrder) -> PkiFiles(pkiKeys)]
      /\ at \in 1 .. Len(PkiOrder) /\ Len(PkiOrder) \in Nat
  BY <1>0, PlaceFacts DEF PkiInv
<1>2. c \in [key : Torn .. pkiKeys, by : Torn .. pkiKeys] /\ pkiKeys \in Torn .. pkiKeys
  BY <1>1, CertFacts
<1>3. /\ pki' \in [Range(PkiOrder) -> PkiFiles(pkiKeys)]
      /\ \A p \in Range(PkiOrder) \ {q} : pki'[p] = pki[p]
      /\ IF IsCA(q) THEN pki'[q].cert = c /\ pki'[q].key = pki[q].key
         ELSE pki'[q].key = pkiKeys /\ pki'[q].cert = pki[q].cert
  <2>2. CASE IsCA(q)
    <3>1. pki' = [pki EXCEPT ![q].cert = c]
      BY <1>0, <2>2
    <3> HIDE DEF c
    <3> QED
      BY <1>1, <1>2, <2>2, <3>1, CertWrite
  <2>3. CASE ~IsCA(q)
    BY ZenonT(60), <1>0, <1>1, <1>2, <2>3, KeyWrite
  <2> QED
    BY <2>2, <2>3
<1>4. PkiTypeOK'
  BY <1>0, <1>1, <1>3 DEF PkiInv, PkiTypeOK
<1>6. ASSUME ~pkiCut' PROVE (\A p \in Range(PkiOrder) : Sound(p)') /\ UnsignedIsUnused' /\ EarlierAreMade'
  <2>1. /\ ~pkiCut /\ UnsignedIsUnused /\ \A p \in Range(PkiOrder) : Sound(p)
        /\ \A i \in DOMAIN PkiOrder : i < at => ~Missing(PkiOrder[i])
    BY <1>0, <1>6 DEF PkiInv, EarlierAreMade
  <2>2. HalfWritten(q)
    BY <1>0, <1>1, <2>1 DEF Sound, InWork
  <2>3. Whole(q)'
    <3>1. CASE IsCA(q)
      BY <1>0, <1>1, <1>3, <2>2, <3>1 DEF HalfWritten, Whole, IsKey, Authority, IsCA
    <3>2. CASE ~IsCA(q)
      <4>1. Authority' = Authority
        BY <1>1, <1>3, <3>2 DEF Authority, IsCA
      <4> QED
        BY <1>0, <1>1, <1>3, <2>2, <3>2, <4>1 DEF HalfWritten, Whole, IsKey
    <3> QED
      BY <3>1, <3>2
  <2>4. Whole(PkiOrder[1])'
    <3>1. CASE IsCA(q)
      BY <2>3, <3>1 DEF IsCA, Whole, Authority
    <3>2. CASE ~IsCA(q)
      BY <1>1, <1>3, <2>2, <3>2 DEF HalfWritten, Whole, Authority, IsCA
    <3> QED
      BY <3>1, <3>2
  <2>5. ASSUME NEW p \in Range(PkiOrder), p # q PROVE Sound(p)'
    <3>1. Sound(p) /\ ~InWork(p) /\ ~InWork(p)'
      BY <1>0, <2>1, <2>5 DEF InWork
    <3>2. CASE IsCA(q)
      <4>1. ~Whole(q) /\ ~IsCA(p)
        BY <1>0, <2>2, <2>5, <3>2, CertFacts DEF HalfWritten, Whole, IsKey, Absent, Torn, IsCA
      <4>2. pki'[p].key = Absent
        BY <1>3, <2>1, <2>5, <3>2, <4>1 DEF UnsignedIsUnused, IsCA
      <4> QED
        BY <3>1, <4>1, <4>2 DEF Sound, IsCA
    <3>3. CASE ~IsCA(q)
      <4>1. Authority' = Authority
        BY <1>1, <1>3, <3>3 DEF Authority, IsCA
      <4> QED
        BY <1>3, <2>5, <3>1, <4>1 DEF Sound, Whole, IsCA
    <3> QED
      BY <3>2, <3>3
  <2>6. \A p \in Range(PkiOrder) : p = q => Sound(p)'
    BY <1>0, <2>3 DEF Sound, InWork, Whole, IsCA
  <2>7. \A p \in Range(PkiOrder) : ~Missing(p) \/ p = q => ~Missing(p)'
    <3>1. pki'[q].key # Absent /\ pki'[q].cert # NoCert
      BY <2>3, CertFacts DEF Whole, IsKey, Absent
    <3> QED
      BY <1>3, <3>1 DEF Missing
  <2>8. EarlierAreMade'
    BY <1>0, <1>1, <2>1, <2>7, OrderFacts DEF EarlierAreMade
  <2> QED
    BY <2>4, <2>5, <2>6, <2>8 DEF UnsignedIsUnused
<1> QED
  BY <1>0, <1>1, <1>4, <1>6 DEF PkiInv

\* Every action keeps the invariant.
LEMMA PkiStep == PkiInv /\ [PkiNext]_pkiVars => PkiInv'
<1> SUFFICES ASSUME PkiInv, [PkiNext]_pkiVars PROVE PkiInv'
  OBVIOUS
<1>1. CASE UNCHANGED pkiVars
  BY <1>1 DEF pkiVars, PkiInv, PkiTypeOK, Sound, InWork, HalfWritten, Whole, Authority,
              UnsignedIsUnused, EarlierAreMade, Missing
<1>2. CASE SecondWritten
  <2>1. PkiOrder[at] \in Range(PkiOrder)
    BY <1>2, PlaceFacts DEF PkiInv, SecondWritten
  <2> QED
    BY <1>2, <2>1, SecondWrittenKeeps
<1> QED
  BY <1>1, <1>2, PkiStands, CutStands, OpenFirstKeeps, FirstWrittenKeeps, OpenSecondKeeps
     DEF PkiNext

\* Every pair is sound, or in work, unless a run was cut off in a second file.
THEOREM PkiAlways == PkiSpec => []PkiInv
<1>1. PkiInit => PkiInv
  <2> SUFFICES ASSUME PkiInit PROVE PkiInv
    OBVIOUS
  <2>1. /\ pki = [p \in Range(PkiOrder) |-> [cert |-> NoCert, key |-> Absent]]
        /\ pkiKeys = 0 /\ at = 0 /\ writing = "no" /\ ~pkiCut /\ pkiCut \in BOOLEAN
    BY DEF PkiInit
  <2>2. [cert |-> NoCert, key |-> Absent] \in PkiFiles(0)
    BY CertFacts DEF PkiFiles
  <2>3. PkiTypeOK
    BY <2>1, <2>2, OrderFacts, CertificatesAssumption DEF PkiTypeOK
  <2>4. \A p \in Range(PkiOrder) : pki[p].key = Absent /\ pki[p].cert = NoCert
    BY <2>1
  <2> QED
    BY <2>1, <2>3, <2>4, OrderFacts DEF PkiInv, Sound, InWork, UnsignedIsUnused, EarlierAreMade
<1> QED
  BY <1>1, PkiStep, PTL DEF PkiSpec

\* Every variable stays in its type, and no file holds a key that was not made.
THEOREM TlsTypeCorrect == TlsSpec /\ PkiSpec => []CertificatesTypeOK
<1>1. TlsInv /\ PkiInv => CertificatesTypeOK
  BY DEF TlsInv, PkiInv, CertificatesTypeOK
<1> QED
  BY <1>1, TlsAlways, PkiAlways, PTL

\* When ensure_mtls_pki gets to its end nothing is missing and nothing in work.
LEMMA EndIsWhole ==
    ASSUME PkiInv, at > Len(PkiOrder), ~pkiCut, NEW p \in Range(PkiOrder)
    PROVE  Whole(p)
<1>1. ~InWork(p) /\ ~Missing(p) /\ Sound(p)
  BY OrderFacts DEF PkiInv, PkiTypeOK, InWork, EarlierAreMade
<1> QED
  BY <1>1 DEF Sound, Missing

\* A controller that looks after its certificate itself starts unless it was
\* disturbed, and a finished ensure_mtls_pki leaves pairs that fit and are signed
\* by the CA, for any number of processes, days and pairs.
THEOREM PairsFit == TlsSpec /\ PkiSpec => []PairsAreWhole
<1>1. TlsInv /\ PkiInv => PairsAreWhole
  <2> SUFFICES ASSUME TlsInv, PkiInv PROVE PairsAreWhole
    OBVIOUS
  <2>1. DOMAIN pki = Range(PkiOrder)
    BY DEF PkiInv, PkiTypeOK
  <2> QED
    BY <2>1, EndIsWhole DEF TlsInv, PairsAreWhole, Whole
<1> QED
  BY <1>1, TlsAlways, PkiAlways, PTL

----------------------------------------------------------------------------
(* Starting and stopping: types.                                           *)

\* LifeTypeOK holds initially.
LEMMA LifeTypeInit == LifeInit => LifeTypeOK
  BY DEF LifeInit, LifeTypeOK

\* Every step keeps LifeTypeOK.
LEMMA LifeTypeStep == LifeTypeOK /\ [LifeNext]_lifeVars => LifeTypeOK'
<1> SUFFICES ASSUME LifeTypeOK, [LifeNext]_lifeVars PROVE LifeTypeOK'
  OBVIOUS
<1> USE DEF LifeTypeOK, controllerVars, agentVars
<1>1. CASE StartStack
  BY <1>1 DEF StartStack, MainIsAt
<1>2. CASE RegisterAndDiscover
  BY <1>2 DEF RegisterAndDiscover, MainIsAt
<1>3. CASE StartThreads
  BY <1>3 DEF StartThreads, MainIsAt
<1>4. CASE Exit
  BY <1>4 DEF Exit, MainIsAt
<1>5. CASE Reboot
  BY <1>5 DEF Reboot
<1>6. CASE Signal
  BY <1>6 DEF Signal, FirstStep
<1>7. CASE Join
  BY <1>7 DEF Join
<1>8. CASE StopStack
  BY <1>8 DEF StopStack
<1>9. CASE HealthRound
  BY <1>9 DEF HealthRound
<1>10. CASE HealthRestart
  BY <1>10 DEF HealthRestart
<1>11. CASE AgentStop
  BY <1>11 DEF AgentStop
<1>12. CASE \E t \in AgentLoops : AgentRun(t) \/ AgentLoopEnds(t)
  BY <1>12 DEF AgentRun, AgentLoopEnds
<1>13. CASE UNCHANGED lifeVars
  BY <1>13 DEF lifeVars
<1> QED
  BY <1>1, <1>2, <1>3, <1>4, <1>5, <1>6, <1>7, <1>8, <1>9, <1>10, <1>11, <1>12, <1>13
  DEF LifeNext

\* The steps of main.py and of the agent's run and stop keep every variable in
\* its type.
THEOREM LifeTypeCorrect == LifeSpec => []LifeTypeOK
  BY LifeTypeInit, LifeTypeStep, PTL DEF LifeSpec

----------------------------------------------------------------------------
(* Starting and stopping: the controller.                                  *)

\* The invariant behind StackStaysDown.  The handler runs only after the event
\* has been set; from then on, unless the signal came during the start, run() is
\* past its server; and when the join has not given up, the health thread, which
\* alone could start containers again, is gone before the stack is stopped.
ShutdownInv ==
    /\ handler # "none" => shutdown
    /\ main = "exited" => handler = "none"
    /\ shutdown /\ ~early => main \in {"served", "exited"}
    /\ handler = "compose down" /\ ~gaveUp => health = "none"
    /\ shutdown /\ ~early /\ ~gaveUp /\ handler = "none" =>
          health = "none" /\ stack \in {"down", "failed"}

\* ShutdownInv holds initially and is kept by every step of the controller, its
\* handler and its health thread.
LEMMA ShutdownInit == LifeInit => ShutdownInv
  BY DEF LifeInit, ShutdownInv

LEMMA ShutdownStep == LifeTypeOK /\ ShutdownInv /\ [LifeNext]_lifeVars => ShutdownInv'
<1> SUFFICES ASSUME LifeTypeOK, ShutdownInv, [LifeNext]_lifeVars PROVE ShutdownInv'
  OBVIOUS
<1> USE DEF ShutdownInv
\* run() is at one of these steps only when no signal came, or one came early.
<1>1. CASE StartStack
  BY <1>1 DEF StartStack, MainIsAt
<1>2. CASE RegisterAndDiscover
  BY <1>2 DEF RegisterAndDiscover, MainIsAt
<1>3. CASE StartThreads
  BY <1>3 DEF StartThreads, MainIsAt
<1>4. CASE Exit
  BY <1>4 DEF Exit, MainIsAt
<1>5. CASE Reboot
  BY <1>5 DEF Reboot
<1>6. CASE Signal
  BY <1>6 DEF Signal, FirstStep, MainIsAt
<1>7. CASE Join
  BY <1>7 DEF Join
<1>8. CASE StopStack
  BY <1>8 DEF StopStack
\* The health thread acts only where it is alive.
<1>9. CASE HealthRound
  BY <1>9 DEF HealthRound
<1>10. CASE HealthRestart
  BY <1>10 DEF HealthRestart
<1>11. CASE UNCHANGED controllerVars
  BY <1>11 DEF controllerVars
<1>12. CASE AgentStop
  BY <1>11, <1>12 DEF AgentStop
<1>13. CASE \E t \in AgentLoops : AgentRun(t) \/ AgentLoopEnds(t)
  BY <1>11, <1>13 DEF AgentRun, AgentLoopEnds
<1>14. CASE UNCHANGED lifeVars
  BY <1>11, <1>14 DEF lifeVars
<1> QED
  BY <1>1, <1>2, <1>3, <1>4, <1>5, <1>6, <1>7, <1>8, <1>9, <1>10, <1>12, <1>13, <1>14
  DEF LifeNext

\* Once a shutdown is over the containers stay down, whatever the health thread
\* was doing when the signal came, unless its join timed out or the signal came
\* before the server was running.
THEOREM ShutdownSticks == LifeSpec => []StackStaysDown
<1>1. LifeInit => LifeTypeOK /\ ShutdownInv
  BY LifeTypeInit, ShutdownInit
<1>2. (LifeTypeOK /\ ShutdownInv) /\ [LifeNext]_lifeVars => (LifeTypeOK /\ ShutdownInv)'
  BY LifeTypeStep, ShutdownStep
<1>3. ShutdownInv => StackStaysDown
  BY DEF ShutdownInv, StackStaysDown
<1> QED
  BY <1>1, <1>2, <1>3, PTL DEF LifeSpec

----------------------------------------------------------------------------
(* Starting and stopping: the fleet agent.                                 *)

\* A loop that no stop has given up is the agent's current thread.
OnlyTheCurrentLoop == loops \ stale \subseteq {agent}

\* At most one loop of the agent runs that no stop has given up waiting for,
\* however run, stop and the ends of the loops interleave.
THEOREM AgentLoopIsSingle == LifeSpec => []OneAgentLoop
<1>1. LifeInit => OnlyTheCurrentLoop
  BY DEF LifeInit, OnlyTheCurrentLoop
<1>2. OnlyTheCurrentLoop /\ [LifeNext]_lifeVars => OnlyTheCurrentLoop'
  <2> SUFFICES ASSUME OnlyTheCurrentLoop, [LifeNext]_lifeVars PROVE OnlyTheCurrentLoop'
    OBVIOUS
  <2> USE DEF OnlyTheCurrentLoop
  \* run starts a thread only when the current one is not alive.
  <2>1. ASSUME NEW t \in AgentLoops, AgentRun(t) PROVE OnlyTheCurrentLoop'
    BY <2>1 DEF AgentRun, AgentIsFree
  \* stop forgets the thread when it has ended, or counts it as given up.
  <2>2. CASE AgentStop
    BY <2>2 DEF AgentStop
  <2>3. ASSUME NEW t \in AgentLoops, AgentLoopEnds(t) PROVE OnlyTheCurrentLoop'
    BY <2>3 DEF AgentLoopEnds
  <2>4. CASE UNCHANGED agentVars
    BY <2>4 DEF agentVars
  <2>5. CASE StartStack \/ RegisterAndDiscover \/ StartThreads \/ Exit \/ Reboot
              \/ Signal \/ Join \/ StopStack \/ HealthRound \/ HealthRestart
              \/ UNCHANGED lifeVars
    BY <2>4, <2>5 DEF StartStack, RegisterAndDiscover, StartThreads, Exit, Reboot, Signal, Join,
       StopStack, HealthRound, HealthRestart, lifeVars
  <2> QED
    BY <2>1, <2>2, <2>3, <2>5 DEF LifeNext
<1>3. OnlyTheCurrentLoop => OneAgentLoop
  <2> SUFFICES ASSUME OnlyTheCurrentLoop PROVE Cardinality(loops \ stale) <= 1
    BY DEF OneAgentLoop
  <2>1. loops \ stale = {} \/ loops \ stale = {agent}
    BY DEF OnlyTheCurrentLoop
  <2>2. CASE loops \ stale = {}
    BY <2>2, FS_EmptySet
  <2>3. CASE loops \ stale = {agent}
    <3>1. Cardinality({agent}) = 1
      BY FS_Singleton
    <3> QED
      BY <2>3, <3>1
  <2> QED
    BY <2>1, <2>2, <2>3
<1> QED
  BY <1>1, <1>2, <1>3, PTL DEF LifeSpec

----------------------------------------------------------------------------
(* Plugins.                                                                *)

\* The parts of PluginTypeOK the proof needs hold initially and are kept.
PluginsTyped ==
    /\ stateFile \in [PluginNames -> States] /\ DOMAIN cache = Managers
    /\ \A p \in Managers : Runs(p) => cache[p] \in [PluginNames -> States]
    /\ setting \in [PluginNames -> States]

LEMMA PluginsTypedInit == PluginInit => PluginsTyped
  BY DEF PluginInit, PluginsTyped, Runs, States, NoSettings

LEMMA PluginsTypedStep == PluginsTyped /\ [PluginNext]_pluginVars => PluginsTyped'
<1> SUFFICES ASSUME PluginsTyped, [PluginNext]_pluginVars PROVE PluginsTyped'
  OBVIOUS
<1> USE DEF PluginsTyped, Runs
<1>1. NoSettings \in [PluginNames -> States]
  BY DEF NoSettings, States
<1>2. ASSUME NEW p \in Managers, LoadState(p) \/ LoadStateFails(p) PROVE PluginsTyped'
  BY <1>1, <1>2 DEF LoadState, LoadStateFails
<1>3. ASSUME NEW p \in Managers, RegisterProviders(p) \/ ManagerExits(p) PROVE PluginsTyped'
  BY <1>3 DEF RegisterProviders, ManagerExits
<1>4. ASSUME NEW p \in Managers, NEW n \in PluginNames, NEW v \in {"on", "off"},
             SetEnabled(p, n, v) \/ SetEnabledUnsaved(p, n, v)
      PROVE  PluginsTyped'
  <2>1. v \in States /\ cache[p] \in [PluginNames -> States]
    BY <1>4 DEF SetEnabled, SetEnabledUnsaved, States
  <2>2. stateFile' = stateFile \/ stateFile' = [cache[p] EXCEPT ![n] = v]
    BY <1>4 DEF SetEnabled, SetEnabledUnsaved, SaveState
  <2>3. cache' = [cache EXCEPT ![p][n] = v] /\ setting' = [setting EXCEPT ![n] = v]
    BY <1>4 DEF SetEnabled, SetEnabledUnsaved
  <2>4. DOMAIN cache' = Managers /\ cache'[p] = [cache[p] EXCEPT ![n] = v]
        /\ \A q \in Managers \ {p} : cache'[q] = cache[q]
    BY <2>3
  <2> QED
    BY <2>1, <2>2, <2>3, <2>4
<1>5. CASE FileIsSpoilt
  BY <1>1, <1>5 DEF FileIsSpoilt
<1>6. CASE UNCHANGED pluginVars
  BY <1>6 DEF pluginVars
<1> QED
  BY <1>2, <1>3, <1>4, <1>5, <1>6 DEF PluginNext

\* The rest of PluginTypeOK: what is registered, saved or known is a plugin.
PluginsFit ==
    /\ DOMAIN providers = Managers /\ DOMAIN knows = Managers
    /\ \A p \in Managers : providers[p] \subseteq PluginNames /\ knows[p] \subseteq PluginNames
    /\ saved \subseteq PluginNames

LEMMA PluginsFitStep == PluginsFit /\ [PluginNext]_pluginVars => PluginsFit'
<1> SUFFICES ASSUME PluginsFit, [PluginNext]_pluginVars PROVE PluginsFit'
  OBVIOUS
<1> USE DEF PluginsFit
<1>1. ASSUME NEW p \in Managers, LoadState(p) \/ LoadStateFails(p) PROVE PluginsFit'
  BY <1>1 DEF LoadState, LoadStateFails
<1>2. ASSUME NEW p \in Managers, RegisterProviders(p) PROVE PluginsFit'
  <2>1. PICK fail \in SUBSET PluginNames :
           providers' = [providers EXCEPT ![p] = @ \cup
             {i.name : i \in {d \in Discovered : /\ d.hook = "provider"
                                                 /\ IsEnabled(p, d.name)
                                                 /\ IsLoadable(d.name)
                                                 /\ d.name \notin fail}}]
    BY <1>2 DEF RegisterProviders
  <2>2. saved' = saved /\ knows' = knows
    BY <1>2 DEF RegisterProviders
  <2> QED
    BY <2>1, <2>2 DEF PluginNames
<1>3. ASSUME NEW p \in Managers, ManagerExits(p) PROVE PluginsFit'
  BY <1>3 DEF ManagerExits
<1>4. ASSUME NEW p \in Managers, NEW n \in PluginNames, NEW v \in {"on", "off"},
             SetEnabled(p, n, v) \/ SetEnabledUnsaved(p, n, v)
      PROVE  PluginsFit'
  BY <1>4 DEF SetEnabled, SetEnabledUnsaved, Knowing
<1>5. CASE FileIsSpoilt
  BY <1>5 DEF FileIsSpoilt
<1>6. CASE UNCHANGED pluginVars
  BY <1>6 DEF pluginVars
<1> QED
  BY <1>1, <1>2, <1>3, <1>4, <1>5, <1>6 DEF PluginNext

\* The invariant behind SettingsAreKept: what a process knows of the settings is
\* what its cache holds, so that writing the whole of it loses none of them.
PluginInv ==
    /\ SettingsAreKept
    /\ \A p \in Managers : \A n \in knows[p] : cache[p][n] = setting[n]

LEMMA PluginInvStep ==
    PluginsTyped /\ PluginsFit /\ PluginInv /\ [PluginNext]_pluginVars => PluginInv'
<1> SUFFICES ASSUME PluginsTyped, PluginsFit, PluginInv, [PluginNext]_pluginVars PROVE PluginInv'
  OBVIOUS
<1> USE DEF PluginInv, SettingsAreKept
\* What a process can read when it starts is what was last set.
<1>1. ASSUME NEW p \in Managers, LoadState(p) \/ LoadStateFails(p) PROVE PluginInv'
  BY <1>1 DEF LoadState, LoadStateFails, PluginsTyped, PluginsFit
<1>2. ASSUME NEW p \in Managers, RegisterProviders(p) \/ ManagerExits(p) PROVE PluginInv'
  BY <1>2 DEF RegisterProviders, ManagerExits, PluginsTyped, PluginsFit
\* The process knows one setting more, all the others know it no longer.
<1>3. ASSUME NEW p \in Managers, NEW n \in PluginNames, NEW v \in {"on", "off"},
             SetEnabled(p, n, v) \/ SetEnabledUnsaved(p, n, v)
      PROVE  PluginInv'
  <2>1. cache[p] \in [PluginNames -> States] /\ setting \in [PluginNames -> States]
    BY <1>3 DEF SetEnabled, SetEnabledUnsaved, PluginsTyped
  <2>2. /\ cache' = [cache EXCEPT ![p][n] = v] /\ setting' = [setting EXCEPT ![n] = v]
        /\ knows' = Knowing(p, n)
    BY <1>3 DEF SetEnabled, SetEnabledUnsaved
  <2>3. /\ cache'[p] = [cache[p] EXCEPT ![n] = v]
        /\ \A q \in Managers \ {p} : cache'[q] = cache[q]
    BY <2>2 DEF PluginsTyped
  <2>4. ASSUME NEW m \in knows[p] \cup {n}
        PROVE  [cache[p] EXCEPT ![n] = v][m] = setting'[m]
    BY <2>1, <2>2, <2>4 DEF PluginsFit
  <2>5. ASSUME NEW q \in Managers, NEW m \in knows'[q] PROVE cache'[q][m] = setting'[m]
    <3>1. CASE q = p
      BY <2>2, <2>3, <2>4, <2>5, <3>1 DEF Knowing
    <3>2. CASE q # p
      <4>1. m \in knows[q] /\ m # n /\ m \in PluginNames
        BY <2>2, <2>5, <3>2 DEF Knowing, PluginsFit
      <4> QED
        BY <2>1, <2>2, <2>3, <3>2, <4>1
    <3> QED
      BY <3>1, <3>2
  <2>6. CASE SetEnabled(p, n, v)
    <3>1. stateFile' = [cache[p] EXCEPT ![n] = v] /\ saved' = knows[p] \cup {n}
      BY <2>6 DEF SetEnabled, SaveState
    <3> QED
      BY <2>4, <2>5, <3>1
  <2>7. CASE SetEnabledUnsaved(p, n, v)
    <3>1. stateFile' = stateFile /\ saved' = saved \ {n}
      BY <2>7 DEF SetEnabledUnsaved
    <3>2. \A m \in saved' : setting'[m] = setting[m]
      BY <2>1, <2>2, <3>1 DEF PluginsFit
    <3> QED
      BY <2>5, <3>1, <3>2
  <2> QED
    BY <1>3, <2>6, <2>7
<1>4. CASE FileIsSpoilt
  BY <1>4 DEF FileIsSpoilt
<1>5. CASE UNCHANGED pluginVars
  BY <1>5 DEF pluginVars
<1> QED
  BY <1>1, <1>2, <1>3, <1>4, <1>5 DEF PluginNext

LEMMA PluginsAlways == PluginSpec => [](PluginsTyped /\ PluginsFit /\ PluginInv)
<1>1. PluginInit => PluginsTyped /\ PluginsFit /\ PluginInv
  BY PluginsTypedInit DEF PluginInit, PluginsFit, PluginInv, SettingsAreKept
<1>2. (PluginsTyped /\ PluginsFit /\ PluginInv) /\ [PluginNext]_pluginVars
      => (PluginsTyped /\ PluginsFit /\ PluginInv)'
  BY PluginsTypedStep, PluginsFitStep, PluginInvStep
<1> QED
  BY <1>1, <1>2, PTL DEF PluginSpec

\* What was last set for a plugin is in the state file, however many processes
\* read and overwrite it, unless its own write failed, the file was spoilt, or a
\* process that did not know the setting has written since.
THEOREM PluginSettingsSurvive == PluginSpec => []SettingsAreKept
<1>1. PluginInv => SettingsAreKept
  BY DEF PluginInv
<1> QED
  BY <1>1, PluginsAlways, PTL

\* Only plugins that were discovered are ever registered, whatever processes run.
THEOREM PluginTypeCorrect == PluginSpec => []PluginTypeOK
<1>1. PluginsTyped /\ PluginsFit => PluginTypeOK
  BY DEF PluginsTyped, PluginsFit, PluginTypeOK, Runs
<1> QED
  BY <1>1, PluginsAlways, PTL


----------------------------------------------------------------------
(* Terminals.                                                              *)

PtyJobs == [session : Sessions, op : {"read", "write", "connect"}]

\* A job that waits does so once, and no thread has it.
Waiting(q) ==
    /\ q \in Seq(PtyJobs)
    /\ \A i, j \in DOMAIN q : q[i] = q[j] => i = j

\* The only copy of a job is withdrawn, and the others keep their order.
LEMMA WithdrawFacts ==
    ASSUME NEW q, Waiting(q), NEW e
    PROVE  /\ Waiting(RemoveFirst(q, e))
           /\ \A k \in DOMAIN RemoveFirst(q, e) :
                 RemoveFirst(q, e)[k] # e /\ \E i \in DOMAIN q : q[i] = RemoveFirst(q, e)[k]
           /\ \A i \in DOMAIN q : q[i] # e =>
                 \E k \in DOMAIN RemoveFirst(q, e) : RemoveFirst(q, e)[k] = q[i]
<1>1. /\ q \in Seq(PtyJobs) /\ Len(q) \in Nat /\ DOMAIN q = 1 .. Len(q)
      /\ \A i, j \in 1 .. Len(q) : q[i] = q[j] => i = j
      /\ \A i \in 1 .. Len(q) : q[i] \in PtyJobs
  BY DEF Waiting
<1> HIDE DEF PtyJobs
<1>2. CASE ~ \E i \in 1 .. Len(q) : q[i] = e
  <2>1. RemoveFirst(q, e) = q
    BY <1>2 DEF RemoveFirst
  <2> QED
    BY <1>1, <1>2, <2>1
<1>3. ASSUME NEW i \in 1 .. Len(q), q[i] = e
      PROVE  /\ Waiting(RemoveFirst(q, e))
             /\ \A k \in DOMAIN RemoveFirst(q, e) :
                   RemoveFirst(q, e)[k] # e /\ \E j \in DOMAIN q : q[j] = RemoveFirst(q, e)[k]
             /\ \A j \in DOMAIN q : q[j] # e =>
                   \E k \in DOMAIN RemoveFirst(q, e) : RemoveFirst(q, e)[k] = q[j]
  <2> DEFINE r == SubSeq(q, 1, i - 1) \o SubSeq(q, i + 1, Len(q))
  <2>1. SelectInSeq(q, LAMBDA v : v = e) = i
    <3>1. {k \in 1 .. Len(q) : q[k] = e} = {i}
      BY <1>1, <1>3
    <3>2. Min({i}) = i
      BY <1>3 DEF Min
    <3> QED
      BY <3>1, <3>2 DEF SelectInSeq
  <2>2. RemoveFirst(q, e) = r
    BY <1>3, <2>1 DEF RemoveFirst, RemoveAt
  <2>3. /\ r \in Seq(PtyJobs) /\ Len(r) = Len(q) - 1
        /\ \A k \in 1 .. Len(r) : r[k] = IF k < i THEN q[k] ELSE q[k + 1]
    <3> DEFINE a == SubSeq(q, 1, i - 1)
               b == SubSeq(q, i + 1, Len(q))
    <3>1. /\ a \in Seq(PtyJobs) /\ Len(a) = i - 1
          /\ \A k \in 1 .. i - 1 : a[k] = q[k]
      BY <1>1, <1>3
    <3>2. /\ i + 1 \in Int /\ Len(q) \in Int /\ \A k \in i + 1 .. Len(q) : q[k] \in PtyJobs
      BY <1>1, <1>3
    <3>3. /\ b \in Seq(PtyJobs) /\ Len(b) = IF i + 1 <= Len(q) THEN Len(q) - (i + 1) + 1 ELSE 0
          /\ \A k \in 1 .. Len(q) - (i + 1) + 1 : b[k] = q[i + 1 + k - 1]
      BY <3>2, SubSeqProperties
    <3> HIDE DEF a, b
    <3>4. Len(b) = Len(q) - i /\ \A k \in 1 .. Len(q) - i : b[k] = q[k + i]
      <4>1. Len(b) = Len(q) - i
        <5>1. Len(b) = IF i + 1 <= Len(q) THEN Len(q) - (i + 1) + 1 ELSE 0
          BY <3>3
        <5>2. Len(q) \in Nat /\ i \in Nat /\ i <= Len(q)
          BY <1>1, <1>3
        <5> QED
          BY <5>1, <5>2
      <4>2. ASSUME NEW k \in 1 .. Len(q) - i PROVE b[k] = q[k + i]
        <5>1. k \in 1 .. Len(q) - (i + 1) + 1 /\ i + 1 + k - 1 = k + i
          BY <1>1, <1>3, <4>2
        <5> QED
          BY <3>3, <5>1
      <4> QED
        BY <4>1, <4>2
    <3>5. /\ r \in Seq(PtyJobs) /\ Len(r) = Len(a) + Len(b)
          /\ \A k \in 1 .. Len(a) + Len(b) : r[k] = IF k <= Len(a) THEN a[k] ELSE b[k - Len(a)]
      BY <3>1, <3>3, ConcatProperties DEF a, b
    <3> HIDE DEF r
    <3>6. ASSUME NEW k \in 1 .. Len(r) PROVE r[k] = IF k < i THEN q[k] ELSE q[k + 1]
      BY <1>1, <1>3, <3>1, <3>4, <3>5, <3>6
    <3> QED
      BY <1>1, <1>3, <3>1, <3>4, <3>5, <3>6
  <2> HIDE DEF r
  <2>4. DOMAIN r = 1 .. Len(r) /\ Len(r) \in Nat
    BY <2>3
  <2>5. Waiting(r)
    BY <1>1, <1>3, <2>3, <2>4 DEF Waiting
  <2>6. ASSUME NEW k \in DOMAIN r
        PROVE  r[k] # e /\ \E j \in DOMAIN q : q[j] = r[k]
    BY <1>1, <1>3, <2>3, <2>4
  <2>7. ASSUME NEW j \in DOMAIN q, q[j] # e
        PROVE  \E k \in DOMAIN r : r[k] = q[j]
    <3>1. j \in 1 .. Len(q) /\ j # i
      BY <1>1, <1>3, <2>7
    <3>2. CASE j < i
      <4>1. j \in DOMAIN r /\ r[j] = q[j]
        BY <1>1, <1>3, <2>3, <2>4, <3>1, <3>2
      <4> QED
        BY <4>1
    <3>3. CASE j > i
      <4>1. j - 1 \in DOMAIN r /\ ~(j - 1 < i) /\ j - 1 + 1 = j
        BY <1>1, <1>3, <2>3, <2>4, <3>1, <3>3
      <4>2. r[j - 1] = q[j]
        BY <2>3, <2>4, <4>1
      <4> QED
        BY <4>1, <4>2
    <3> QED
      BY <1>1, <1>3, <3>1, <3>2, <3>3
  <2> QED
    BY <2>2, <2>5, <2>6, <2>7
<1> QED
  BY <1>2, <1>3

\* What the executor holds: R has the threads and q waits.
Executor(q, R) ==
    /\ Waiting(q)
    /\ R \subseteq PtyJobs /\ IsFiniteSet(R) /\ Cardinality(R) <= Workers
    /\ R \cap Range(q) = {}

\* A job that the executor does not hold yet is handed in.
LEMMA AddedFacts ==
    ASSUME NEW q, NEW R, Executor(q, R), NEW e \in PtyJobs, e \notin R \cup Range(q)
    PROVE  Executor(Append(q, e), R) /\ Range(Append(q, e)) = Range(q) \cup {e}
<1> HIDE DEF PtyJobs
<1>1. /\ q \in Seq(PtyJobs) /\ Len(q) \in Nat /\ DOMAIN q = 1 .. Len(q)
      /\ \A i, j \in DOMAIN q : q[i] = q[j] => i = j
      /\ \A i \in DOMAIN q : q[i] # e
  BY DEF Executor, Waiting, Range
<1> DEFINE r == Append(q, e)
<1>2. /\ r \in Seq(PtyJobs) /\ DOMAIN r = 1 .. Len(q) + 1 /\ r[Len(q) + 1] = e
      /\ \A i \in 1 .. Len(q) : r[i] = q[i]
  BY <1>1
<1> HIDE DEF r
<1>3. Waiting(r)
  BY <1>1, <1>2 DEF Waiting
<1>4. Range(r) = Range(q) \cup {e}
  BY <1>1, <1>2 DEF Range
<1> QED
  BY <1>3, <1>4 DEF r, Executor

\* A thread is done with its job.
LEMMA FinishedFacts ==
    ASSUME NEW q, NEW R, Executor(q, R), NEW e \in R
    PROVE  Executor(q, R \ {e}) /\ e \notin Range(q)
<1>1. IsFiniteSet(R \ {e}) /\ Cardinality(R \ {e}) = Cardinality(R) - 1 /\ Cardinality(R) \in Nat
  BY FS_RemoveElement, FS_CardinalityType DEF Executor
<1> QED
  BY <1>1, TerminalsAssumption DEF Executor

\* A thread takes the first job.
LEMMA StartedFacts ==
    ASSUME NEW q, NEW R, Executor(q, R), q # <<>>, Cardinality(R) < Workers
    PROVE  /\ Executor(Tail(q), R \cup {Head(q)})
           /\ Head(q) \in Range(q) /\ Range(q) = Range(Tail(q)) \cup {Head(q)}
<1> HIDE DEF PtyJobs
<1>1. /\ q \in Seq(PtyJobs) /\ Len(q) \in Nat \ {0} /\ DOMAIN q = 1 .. Len(q)
      /\ \A i, j \in DOMAIN q : q[i] = q[j] => i = j
      /\ \A i \in DOMAIN q : q[i] \notin R
  BY DEF Executor, Waiting, Range
<1> DEFINE r == Tail(q)
<1>2. /\ r \in Seq(PtyJobs) /\ DOMAIN r = 1 .. Len(q) - 1 /\ Head(q) = q[1] /\ Head(q) \in PtyJobs
      /\ \A i \in 1 .. Len(q) - 1 : r[i] = q[i + 1]
  BY <1>1
<1> HIDE DEF r
<1>3. Waiting(r)
  <2>1. ASSUME NEW i \in DOMAIN r, NEW j \in DOMAIN r, r[i] = r[j] PROVE i = j
    <3>1. i + 1 \in DOMAIN q /\ j + 1 \in DOMAIN q /\ q[i + 1] = q[j + 1] /\ i \in Int /\ j \in Int
      BY <1>1, <1>2, <2>1
    <3>2. i + 1 = j + 1
      BY <1>1, <3>1
    <3> QED
      BY <3>1, <3>2
  <2> QED
    BY <1>2, <2>1 DEF Waiting
<1>4. Head(q) \in Range(q) /\ Range(q) = Range(r) \cup {Head(q)} /\ Head(q) \notin Range(r)
  <2>1. 1 \in DOMAIN q /\ Head(q) = q[1]
    BY <1>1, <1>2
  <2>2. ASSUME NEW i \in DOMAIN r PROVE r[i] \in Range(q) /\ r[i] # Head(q)
    <3>1. i + 1 \in DOMAIN q /\ i + 1 # 1 /\ r[i] = q[i + 1]
      BY <1>1, <1>2
    <3>2. q[i + 1] # q[1]
      BY <1>1, <2>1, <3>1
    <3> QED
      BY <2>1, <3>1, <3>2 DEF Range
  <2>3. ASSUME NEW i \in DOMAIN q PROVE q[i] \in Range(r) \cup {Head(q)}
    <3>1. CASE i = 1
      BY <2>1, <3>1
    <3>2. CASE i # 1
      <4>1. i - 1 \in DOMAIN r /\ i - 1 + 1 = i
        BY <1>1, <1>2, <3>2
      <4>2. r[i - 1] = q[i]
        BY <1>1, <1>2, <4>1
      <4> QED
        BY <4>1, <4>2 DEF Range
    <3> QED
      BY <3>1, <3>2
  <2> QED
    BY <2>1, <2>2, <2>3 DEF Range
<1>5. Head(q) \notin R
  BY <1>1, <1>2
<1>6. /\ IsFiniteSet(R \cup {Head(q)}) /\ Cardinality(R \cup {Head(q)}) = Cardinality(R) + 1
      /\ Cardinality(R) \in Nat
  BY <1>5, FS_AddElement, FS_CardinalityType DEF Executor
<1>7. R \cup {Head(q)} \subseteq PtyJobs /\ Cardinality(R \cup {Head(q)}) <= Workers
  BY <1>2, <1>6, TerminalsAssumption DEF Executor
<1>8. (R \cup {Head(q)}) \cap Range(r) = {}
  BY <1>4 DEF Executor
<1> QED
  BY <1>3, <1>4, <1>6, <1>7, <1>8 DEF r, Executor

\* The jobs of a cancelled task that no thread has are withdrawn.
LEMMA WithdrawnFacts ==
    ASSUME NEW q, NEW R, Executor(q, R), NEW e
    PROVE  /\ Executor(RemoveFirst(q, e), R)
           /\ Range(RemoveFirst(q, e)) = Range(q) \ {e}
<1>1. Waiting(q)
  BY DEF Executor
<1>2. Waiting(RemoveFirst(q, e)) /\ Range(RemoveFirst(q, e)) = Range(q) \ {e}
  BY <1>1, WithdrawFacts DEF Range
<1> QED
  BY <1>2 DEF Executor

TermTyped ==
    /\ step \in [Sessions -> {"none", "connecting", "open", "closing", "closed"}]
    /\ client \in [Sessions -> BOOLEAN] /\ output \in [Sessions -> BOOLEAN]
    /\ sent \in [Sessions -> Seq(Kinds)] /\ taken \in [Sessions -> Nat] /\ got \in [Sessions -> Seq(Nat)]
    /\ shell \in [Sessions -> {"none", "running", "exited", "held"}]
    /\ Executor(queue, running)

HeldJobs == running \cup Range(queue)

\* Which jobs a session can have depends on how far its handler is, and so does
\* its shell.
HandlerFits(s) ==
    /\ step[s] = "none" => \A j \in HeldJobs : j.session # s
    /\ step[s] = "connecting" => Job(s, "read") \notin HeldJobs /\ Job(s, "write") \notin HeldJobs
    /\ step[s] \in {"open", "closing", "closed"} => Job(s, "connect") \notin HeldJobs
    /\ step[s] \in {"none", "connecting"} => shell[s] = "none"
    /\ step[s] = "closed" => shell[s] # "running" /\ \A j \in Range(queue) : j.session # s

\* What the shell has received was typed and taken before, and what is still being
\* written was typed and taken last.
InputFits(s) ==
    /\ taken[s] <= Len(sent[s]) /\ Len(sent[s]) <= MaxInput
    /\ \A i \in DOMAIN got[s] : got[s][i] \in 1 .. taken[s] /\ sent[s][got[s][i]] = "typed"
    /\ Job(s, "write") \in HeldJobs =>
         /\ taken[s] > 0 /\ sent[s][taken[s]] = "typed"
         /\ \A i \in DOMAIN got[s] : got[s][i] < taken[s]
    /\ \A i, j \in DOMAIN got[s] : i < j => got[s][i] < got[s][j]

TermInv ==
    /\ TermTyped
    /\ \A s \in Sessions : HandlerFits(s) /\ InputFits(s)

\* A job belongs to the session that handed it in.
LEMMA JobFacts ==
    ASSUME NEW s \in Sessions, NEW op \in {"read", "write", "connect"}
    PROVE  Job(s, op) \in PtyJobs /\ Job(s, op).session = s /\ Job(s, op).op = op
  BY DEF Job, PtyJobs

\* A session whose handler and shell stay, and which gets no new job, stays as it
\* fits.
LEMMA HandlerStays ==
    ASSUME NEW s \in Sessions, HandlerFits(s), step'[s] = step[s], shell'[s] = shell[s],
           \A j \in HeldJobs' : j.session = s => j \in HeldJobs,
           \A j \in Range(queue') : j.session = s => j \in Range(queue)
    PROVE  HandlerFits(s)'
<1>1. \A op \in {"read", "write", "connect"} : Job(s, op) \in HeldJobs' => Job(s, op) \in HeldJobs
  BY JobFacts
<1> QED
  BY <1>1 DEF HandlerFits

\* What a session has received stays in order while it writes nothing new.
LEMMA InputStays ==
    ASSUME NEW s \in Sessions, InputFits(s), taken'[s] = taken[s], sent'[s] = sent[s], got'[s] = got[s],
           Job(s, "write") \in HeldJobs' => Job(s, "write") \in HeldJobs
    PROVE  InputFits(s)'
  BY DEF InputFits

\* What a session does leaves the others as they fit.
LEMMA OthersStay ==
    ASSUME NEW s \in Sessions, HandlerFits(s), InputFits(s),
           step'[s] = step[s], shell'[s] = shell[s],
           taken'[s] = taken[s], sent'[s] = sent[s], got'[s] = got[s],
           \A j \in HeldJobs' : j.session = s => j \in HeldJobs,
           \A j \in Range(queue') : j.session = s => j \in Range(queue)
    PROVE  HandlerFits(s)' /\ InputFits(s)'
<1>1. Job(s, "write") \in HeldJobs' => Job(s, "write") \in HeldJobs
  BY JobFacts
<1> QED
  BY <1>1, HandlerStays, InputStays

\* The clients and the shells leave the executor alone.
LEMMA OutsideKeeps ==
    ASSUME TermInv, NEW s \in Sessions,
           \/ ClientSends(s) \/ ClientLeaves(s) \/ ShellExits(s)
           \/ ShellPrints(s) \/ NoticeLeft(s)
    PROVE  TermInv'
<1>1. queue' = queue /\ running' = running /\ HeldJobs' = HeldJobs /\ got' = got /\ taken' = taken
  BY DEF ClientSends, ClientLeaves, ShellExits, ShellPrints, NoticeLeft, HeldJobs, input, executor
<1>2. TermTyped'
  <2>1. CASE ClientSends(s)
    BY <1>1, <2>1 DEF ClientSends, TermInv, TermTyped, executor
  <2>5. CASE ShellPrints(s)
    BY <1>1, <2>5 DEF ShellPrints, TermInv, TermTyped, input, executor
  <2>2. CASE ClientLeaves(s)
    BY <1>1, <2>2 DEF ClientLeaves, TermInv, TermTyped, input, executor
  <2>3. CASE ShellExits(s)
    BY <1>1, <2>3 DEF ShellExits, TermInv, TermTyped, input, executor
  <2>4. CASE NoticeLeft(s)
    BY <1>1, <2>4 DEF NoticeLeft, TermInv, TermTyped, input, executor
  <2> QED
    BY <2>1, <2>2, <2>3, <2>4, <2>5
<1>3. ASSUME NEW c \in Sessions, c # s PROVE HandlerFits(c)' /\ InputFits(c)'
  <2>1. step'[c] = step[c] /\ shell'[c] = shell[c] /\ sent'[c] = sent[c]
    BY <1>3 DEF ClientSends, ClientLeaves, ShellExits, ShellPrints, NoticeLeft, input, executor, TermInv, TermTyped
  <2> QED
    BY <1>1, <2>1, OthersStay DEF TermInv
<1>4. HandlerFits(s)'
  <2>1. \/ step'[s] = step[s] /\ shell'[s] = shell[s]
        \/ step'[s] = step[s] /\ shell[s] = "running" /\ shell'[s] \in {"exited", "held"}
        \/ step[s] = "open" /\ step'[s] = "closing" /\ shell'[s] = shell[s]
    BY DEF ClientSends, ClientLeaves, ShellExits, ShellPrints, NoticeLeft, input, executor, TermInv, TermTyped
  <2> QED
    BY <1>1, <2>1 DEF TermInv, HandlerFits
<1>5. InputFits(s)'
  <2>1. CASE sent'[s] = sent[s]
    BY <1>1, <2>1, InputStays DEF TermInv
  <2>2. ASSUME NEW kind \in Kinds, Len(sent[s]) < MaxInput, sent'[s] = Append(sent[s], kind)
        PROVE  InputFits(s)'
    <3>1. sent[s] \in Seq(Kinds) /\ taken[s] \in Nat /\ MaxInput \in Nat
      BY TerminalsAssumption DEF TermInv, TermTyped
    <3>2. /\ Len(sent'[s]) = Len(sent[s]) + 1 /\ Len(sent[s]) \in Nat
          /\ \A n \in 1 .. Len(sent[s]) : sent'[s][n] = sent[s][n]
      BY <2>2, <3>1
    <3> QED
      BY <1>1, <2>2, <3>1, <3>2 DEF TermInv, InputFits
  <2>3. sent'[s] = sent[s] \/ ClientSends(s)
    BY DEF ClientSends, ClientLeaves, ShellExits, ShellPrints, NoticeLeft, input
  <2>4. ASSUME ClientSends(s)
        PROVE  Len(sent[s]) < MaxInput /\ \E kind \in Kinds : sent'[s] = Append(sent[s], kind)
    BY <2>4 DEF ClientSends, TermInv, TermTyped
  <2> QED
    BY <2>1, <2>2, <2>3, <2>4
<1> QED
  BY <1>2, <1>3, <1>4, <1>5 DEF TermInv

\* A thread takes a job that waits: the executor holds the same jobs.
LEMMA TermStartKeeps ==
    ASSUME TermInv, StartJob
    PROVE  TermInv'
<1>1. /\ queue # <<>> /\ Cardinality(running) < Workers /\ Executor(queue, running)
      /\ running' = running \cup {Head(queue)} /\ queue' = Tail(queue)
      /\ UNCHANGED <<step, client, sent, taken, got, shell, output>>
  BY DEF StartJob, input, TermInv, TermTyped
<1>2. /\ Executor(queue', running') /\ Head(queue) \in Range(queue)
      /\ Range(queue) = Range(queue') \cup {Head(queue)}
  BY <1>1, StartedFacts
<1>3. HeldJobs' = HeldJobs
  BY <1>1, <1>2 DEF HeldJobs
<1>4. TermTyped'
  BY <1>1, <1>2 DEF TermInv, TermTyped
<1>5. ASSUME NEW c \in Sessions PROVE HandlerFits(c)' /\ InputFits(c)'
  BY <1>1, <1>2, <1>3, OthersStay DEF TermInv
<1> QED
  BY <1>4, <1>5 DEF TermInv

\* A terminal opens with a first read, and an SSH session with its connection.
LEMMA OpenKeeps ==
    ASSUME TermInv, NEW s \in Sessions, OpenPty(s) \/ OpenSsh(s)
    PROVE  TermInv'
<1>1. /\ step[s] = "none" /\ shell[s] = "none" /\ \A j \in HeldJobs : j.session # s
      /\ UNCHANGED <<sent, taken, got, running>>
      /\ Executor(queue, running) /\ queue \in Seq(PtyJobs)
  BY DEF OpenPty, OpenSsh, input, TermInv, TermTyped, HandlerFits, Executor, Waiting
<1>2. \/ /\ step' = [step EXCEPT ![s] = "closed"] /\ UNCHANGED <<client, shell, output, queue>>
      \/ /\ step' = [step EXCEPT ![s] = "open"] /\ client' = [client EXCEPT ![s] = TRUE]
         /\ shell' = [shell EXCEPT ![s] = "running"] /\ output' = [output EXCEPT ![s] = TRUE]
         /\ queue' = Append(queue, Job(s, "read"))
      \/ /\ step' = [step EXCEPT ![s] = "connecting"] /\ client' = [client EXCEPT ![s] = TRUE]
         /\ UNCHANGED <<shell, output>>
         /\ queue' = Append(queue, Job(s, "connect"))
  BY DEF OpenPty, OpenSsh
<1>3. ASSUME NEW c \in Sessions, c # s PROVE step'[c] = step[c] /\ shell'[c] = shell[c]
  BY <1>2, <1>3 DEF TermInv, TermTyped
<1>4. CASE queue' = queue /\ step' = [step EXCEPT ![s] = "closed"] /\ UNCHANGED <<client, shell, output>>
  <2>1. HeldJobs' = HeldJobs /\ step'[s] = "closed" /\ shell'[s] = shell[s]
    BY <1>1, <1>4 DEF HeldJobs, TermInv, TermTyped
  <2>2. TermTyped'
    BY <1>1, <1>4 DEF TermInv, TermTyped
  <2>3. HandlerFits(s)'
    BY <1>1, <1>4, <2>1, JobFacts DEF HeldJobs, HandlerFits
  <2>4. InputFits(s)'
    BY <1>1, <2>1, InputStays DEF TermInv
  <2>5. ASSUME NEW c \in Sessions, c # s PROVE HandlerFits(c)' /\ InputFits(c)'
    BY <1>1, <1>3, <1>4, <2>1, <2>5, OthersStay DEF TermInv
  <2> QED
    BY <2>2, <2>3, <2>4, <2>5 DEF TermInv
<1>5. ASSUME NEW op \in {"read", "connect"}, queue' = Append(queue, Job(s, op)),
             step'[s] = IF op = "read" THEN "open" ELSE "connecting",
             shell'[s] = IF op = "read" THEN "running" ELSE "none",
             step' \in [Sessions -> {"none", "connecting", "open", "closing", "closed"}],
             shell' \in [Sessions -> {"none", "running", "exited", "held"}],
             client' \in [Sessions -> BOOLEAN], output' \in [Sessions -> BOOLEAN]
      PROVE  TermInv'
  <2>1. Job(s, op) \in PtyJobs /\ Job(s, op).session = s /\ Job(s, op).op = op
    BY JobFacts
  <2>2. Job(s, op) \notin running \cup Range(queue)
    BY <1>1, <2>1 DEF HeldJobs
  <2>3. Executor(queue', running') /\ Range(queue') = Range(queue) \cup {Job(s, op)}
    BY <1>1, <1>5, <2>1, <2>2, AddedFacts
  <2>4. HeldJobs' = HeldJobs \cup {Job(s, op)}
    BY <1>1, <2>3 DEF HeldJobs
  <2>5. TermTyped'
    BY <1>1, <1>5, <2>3 DEF TermInv, TermTyped
  <2>6. /\ Job(s, "write") \notin HeldJobs'
        /\ op = "read" => Job(s, "connect") \notin HeldJobs'
        /\ op = "connect" => Job(s, "read") \notin HeldJobs'
    BY <1>1, <2>1, <2>4, JobFacts
  <2>7. HandlerFits(s)'
    BY <1>5, <2>6 DEF HandlerFits
  <2>8. InputFits(s)'
    BY <1>1, <2>6, InputStays DEF TermInv
  <2>9. ASSUME NEW c \in Sessions, c # s PROVE HandlerFits(c)' /\ InputFits(c)'
    BY <1>1, <1>3, <2>1, <2>3, <2>4, <2>9, OthersStay DEF TermInv
  <2> QED
    BY <2>5, <2>7, <2>8, <2>9 DEF TermInv
<1>6. CASE step' = [step EXCEPT ![s] = "open"] /\ client' = [client EXCEPT ![s] = TRUE]
           /\ shell' = [shell EXCEPT ![s] = "running"] /\ output' = [output EXCEPT ![s] = TRUE]
           /\ queue' = Append(queue, Job(s, "read"))
  BY <1>5, <1>6 DEF TermInv, TermTyped
<1>7. CASE step' = [step EXCEPT ![s] = "connecting"] /\ client' = [client EXCEPT ![s] = TRUE]
           /\ UNCHANGED <<shell, output>> /\ queue' = Append(queue, Job(s, "connect"))
  BY <1>1, <1>5, <1>7 DEF TermInv, TermTyped
<1> QED
  BY <1>2, <1>4, <1>6, <1>7

\* Only the job for it is held while a session connects; the first read follows it.
LEMMA ConnectKeeps ==
    ASSUME TermInv, NEW s \in Sessions, SshConnects(s)
    PROVE  TermInv'
<1> DEFINE e == Job(s, "connect")
           f == Job(s, "read")
<1>1. /\ e \in running /\ running' = running \ {e} /\ Executor(queue, running)
      /\ UNCHANGED <<client, sent, taken, got>>
      /\ e.session = s /\ f.session = s /\ f \in PtyJobs /\ f # e /\ e \in HeldJobs
  BY JobFacts DEF SshConnects, input, TermInv, TermTyped, HeldJobs
<1>2. step[s] = "connecting" /\ shell[s] = "none" /\ f \notin HeldJobs /\ Job(s, "write") \notin HeldJobs
  <2>1. step[s] \in {"none", "connecting", "open", "closing", "closed"} /\ HandlerFits(s)
    BY DEF TermInv, TermTyped
  <2>2. step[s] = "connecting"
    BY <1>1, <2>1 DEF HandlerFits
  <2> QED
    BY <2>1, <2>2 DEF HandlerFits
<1>3. Executor(queue, running') /\ e \notin Range(queue)
  BY <1>1, FinishedFacts
<1>4. /\ step' \in [Sessions -> {"none", "connecting", "open", "closing", "closed"}]
      /\ shell' \in [Sessions -> {"none", "running", "exited", "held"}] /\ output' \in [Sessions -> BOOLEAN]
      /\ \A c \in Sessions : c # s => step'[c] = step[c] /\ shell'[c] = shell[c]
      /\ \/ step'[s] = "open" /\ queue' = Append(queue, f)
         \/ step'[s] = "closed" /\ queue' = queue /\ shell'[s] = shell[s]
  BY DEF SshConnects, TermInv, TermTyped
<1> HIDE DEF e, f
<1>5. /\ Executor(queue', running')
      /\ \/ step'[s] = "open" /\ Range(queue') = Range(queue) \cup {f}
         \/ step'[s] = "closed" /\ Range(queue') = Range(queue) /\ shell'[s] = shell[s]
  <2>1. f \notin running' \cup Range(queue)
    BY <1>1, <1>2 DEF HeldJobs
  <2>2. Executor(Append(queue, f), running') /\ Range(Append(queue, f)) = Range(queue) \cup {f}
    BY <1>1, <1>3, <2>1, AddedFacts
  <2> QED
    BY <1>3, <1>4, <2>2
<1>6. e \notin HeldJobs' /\ HeldJobs' \subseteq HeldJobs \cup {f} /\ (step'[s] = "closed" => HeldJobs' \subseteq HeldJobs)
  BY <1>1, <1>3, <1>5 DEF HeldJobs
<1>7. TermTyped'
  BY <1>1, <1>4, <1>5 DEF TermInv, TermTyped
<1>8. HandlerFits(s)'
  <2>1. CASE step'[s] = "open"
    BY <1>6, <2>1 DEF HandlerFits, e
  <2>2. CASE step'[s] = "closed"
    <3>1. ASSUME NEW j \in Range(queue'), j.session = s PROVE FALSE
      <4>1. j \in HeldJobs /\ j \in HeldJobs' /\ j \in Range(queue)
        BY <1>5, <2>2, <3>1 DEF HeldJobs
      <4>2. j \in PtyJobs
        <5>1. queue \in Seq(PtyJobs)
          BY <1>1 DEF Executor, Waiting
        <5> HIDE DEF PtyJobs
        <5> QED
          BY <4>1, <5>1 DEF Range
      <4>3. j = Job(s, "read") \/ j = Job(s, "write") \/ j = Job(s, "connect")
        BY <3>1, <4>2 DEF PtyJobs, Job
      <4> QED
        BY <1>2, <1>6, <4>1, <4>3 DEF e, f
    <3> QED
      BY <1>2, <1>5, <1>6, <2>2, <3>1 DEF HandlerFits, e
  <2> QED
    BY <1>5, <2>1, <2>2
<1>9. InputFits(s)'
  <2>1. Job(s, "write") \notin HeldJobs'
    BY <1>2, <1>6, JobFacts DEF f
  <2> QED
    BY <1>1, <2>1, InputStays DEF TermInv
<1>10. ASSUME NEW c \in Sessions, c # s PROVE HandlerFits(c)' /\ InputFits(c)'
  BY <1>1, <1>4, <1>5, <1>6, <1>10, OthersStay DEF TermInv
<1> QED
  BY <1>7, <1>8, <1>9, <1>10 DEF TermInv

\* The next read, if any, takes the place of the one that ends.
LEMMA ReadKeeps ==
    ASSUME TermInv, NEW s \in Sessions, ReadEnds(s)
    PROVE  TermInv'
<1> DEFINE e == Job(s, "read")
<1>1. /\ e \in running /\ running' = running \ {e} /\ Executor(queue, running)
      /\ UNCHANGED <<client, sent, taken, got, shell>>
      /\ e.session = s /\ e \in PtyJobs /\ e \in HeldJobs
  BY JobFacts DEF ReadEnds, input, TermInv, TermTyped, HeldJobs
<1>2. /\ step' \in [Sessions -> {"none", "connecting", "open", "closing", "closed"}]
      /\ output' \in [Sessions -> BOOLEAN]
      /\ \A c \in Sessions : c # s => step'[c] = step[c]
      /\ \/ step'[s] = step[s] /\ queue' = queue
         \/ step[s] = "open" /\ step'[s] = "open" /\ queue' = Append(queue, e)
         \/ step[s] = "open" /\ step'[s] = "closing" /\ queue' = queue
  <2>1. \/ UNCHANGED <<queue, step>>
        \/ step[s] = "open" /\ queue' = Append(queue, Job(s, "read")) /\ UNCHANGED step
        \/ step[s] = "open" /\ step' = [step EXCEPT ![s] = "closing"] /\ UNCHANGED queue
    BY DEF ReadEnds
  <2>2. output' = [output EXCEPT ![s] = FALSE]
    BY DEF ReadEnds
  <2> QED
    BY <2>1, <2>2 DEF TermInv, TermTyped
<1> HIDE DEF e
<1>3. Executor(queue, running') /\ e \notin Range(queue)
  BY <1>1, FinishedFacts
<1>4. Executor(queue', running') /\ HeldJobs' \subseteq HeldJobs
      /\ (Range(queue') = Range(queue) \/ step[s] = "open")
      /\ Range(queue') \subseteq Range(queue) \cup {e}
  <2>1. CASE queue' = queue
    BY <1>1, <1>3, <2>1 DEF HeldJobs
  <2>2. CASE queue' = Append(queue, e) /\ step[s] = "open"
    <3>1. Executor(queue', running') /\ Range(queue') = Range(queue) \cup {e}
      BY <1>1, <1>3, <2>2, AddedFacts
    <3> QED
      BY <1>1, <2>2, <3>1 DEF HeldJobs
  <2> QED
    BY <1>2, <2>1, <2>2
<1>5. TermTyped'
  BY <1>1, <1>2, <1>4 DEF TermInv, TermTyped
<1>6. HandlerFits(s)'
  <2>1. CASE step'[s] = step[s] /\ queue' = queue
    BY <1>1, <1>4, <2>1, HandlerStays DEF TermInv
  <2>2. CASE step[s] = "open" /\ step'[s] \in {"open", "closing"}
    BY <1>1, <1>4, <2>2 DEF TermInv, HandlerFits
  <2> QED
    BY <1>2, <2>1, <2>2
<1>7. InputFits(s)'
  BY <1>1, <1>4, InputStays DEF TermInv
<1>8. ASSUME NEW c \in Sessions, c # s PROVE HandlerFits(c)' /\ InputFits(c)'
  BY <1>1, <1>2, <1>4, <1>8, OthersStay DEF TermInv
<1> QED
  BY <1>5, <1>6, <1>7, <1>8 DEF TermInv

\* A message is taken when the one before it has been written.
LEMMA TakeKeeps ==
    ASSUME TermInv, NEW s \in Sessions, TakeInput(s)
    PROVE  TermInv'
<1> DEFINE e == Job(s, "write")
           g == Append(got[s], taken[s] + 1)
           kind == sent[s][taken[s] + 1]
<1>1. /\ taken \in [Sessions -> Nat] /\ sent \in [Sessions -> Seq(Kinds)] /\ got \in [Sessions -> Seq(Nat)]
      /\ HandlerFits(s) /\ InputFits(s) /\ Executor(queue, running)
  BY DEF TermInv, TermTyped
<1>2. /\ step[s] = "open" /\ taken[s] < Len(sent[s]) /\ e \notin HeldJobs
      /\ UNCHANGED <<client, sent, shell, running>>
      /\ taken' = [taken EXCEPT ![s] = @ + 1] /\ taken' \in [Sessions -> Nat]
      /\ taken'[s] = taken[s] + 1 /\ \A c \in Sessions : c # s => taken'[c] = taken[c]
      /\ e.session = s /\ e \in PtyJobs
  BY <1>1, JobFacts DEF TakeInput, ReadyForInput, Writing, HeldJobs, Range
<1>3. \/ kind = "typed" /\ queue' = Append(queue, e) /\ UNCHANGED <<step, got, output>>
      \/ UNCHANGED <<step, queue, got, output>>
      \/ /\ kind = "typed" /\ UNCHANGED <<step, queue>>
         /\ got' = [got EXCEPT ![s] = g]
         /\ output' = [output EXCEPT ![s] = shell[s] = "running"]
      \/ step' = [step EXCEPT ![s] = "closing"] /\ UNCHANGED <<queue, got, output>>
  <2>1. Handle(s, kind)
    BY <1>2 DEF TakeInput
  <2>2. ASSUME Forward(s), UNCHANGED step, kind = "typed"
        PROVE  \/ queue' = Append(queue, e) /\ UNCHANGED <<step, got, output>>
               \/ UNCHANGED <<step, queue, got, output>>
               \/ /\ UNCHANGED <<step, queue>> /\ got' = [got EXCEPT ![s] = g]
                  /\ output' = [output EXCEPT ![s] = shell[s] = "running"]
    BY <1>2, <2>2 DEF Forward
  <2> HIDE DEF e, g, kind
  <2> QED
    BY <2>1, <2>2 DEF Handle
<1>4. g \in Seq(Nat)
  BY <1>1
<1> HIDE DEF e, g, kind
<1>5. Executor(queue', running') /\ Range(queue') \subseteq Range(queue) \cup {e}
  <2>1. Executor(Append(queue, e), running) /\ Range(Append(queue, e)) = Range(queue) \cup {e}
    BY <1>1, <1>2, AddedFacts DEF HeldJobs
  <2> QED
    BY <1>1, <1>2, <1>3, <2>1
<1>6. HeldJobs' \subseteq HeldJobs \cup {e} /\ (queue' = queue => HeldJobs' = HeldJobs)
  BY <1>2, <1>5 DEF HeldJobs
<1>7. /\ output' \in [Sessions -> BOOLEAN] /\ got' \in [Sessions -> Seq(Nat)]
      /\ step' \in [Sessions -> {"none", "connecting", "open", "closing", "closed"}]
      /\ \A c \in Sessions : c # s => got'[c] = got[c] /\ step'[c] = step[c]
      /\ step'[s] \in {"open", "closing"}
  <2>1. output \in [Sessions -> BOOLEAN]
        /\ step \in [Sessions -> {"none", "connecting", "open", "closing", "closed"}]
    BY DEF TermInv, TermTyped
  <2>2. output' \in [Sessions -> BOOLEAN]
    BY <1>3, <2>1
  <2>3. got' = got \/ got' = [got EXCEPT ![s] = g]
    BY <1>3
  <2>4. step' = step \/ step' = [step EXCEPT ![s] = "closing"]
    BY <1>3
  <2>5. got' \in [Sessions -> Seq(Nat)] /\ \A c \in Sessions : c # s => got'[c] = got[c]
    BY <1>1, <1>4, <2>3
  <2> QED
    BY <1>2, <2>1, <2>2, <2>4, <2>5
<1>8. TermTyped'
  BY <1>2, <1>5, <1>7 DEF TermInv, TermTyped
<1>9. HandlerFits(s)'
  <2>1. Job(s, "connect") \notin HeldJobs'
    BY <1>1, <1>2, <1>6 DEF HandlerFits, e, Job
  <2> QED
    BY <1>7, <2>1 DEF HandlerFits
<1>10. /\ taken[s] \in Nat /\ sent[s] \in Seq(Kinds) /\ got[s] \in Seq(Nat)
       /\ Len(sent[s]) \in Nat /\ taken'[s] <= Len(sent'[s]) /\ Len(sent'[s]) <= MaxInput
  BY <1>1, <1>2 DEF InputFits
<1>11. InputFits(s)'
  <2>1. CASE kind = "typed" /\ got' = got /\ queue' = Append(queue, e)
    BY <1>1, <1>2, <1>10, <2>1 DEF InputFits, kind
  <2>2. CASE got' = got /\ queue' = queue
    BY <1>1, <1>2, <1>6, <1>10, <2>2 DEF InputFits, e
  <2>3. CASE kind = "typed" /\ got' = [got EXCEPT ![s] = g] /\ queue' = queue
    <3>1. HeldJobs' = HeldJobs /\ got'[s] = g
      BY <1>1, <1>6, <2>3
    <3>2. /\ DOMAIN got[s] = 1 .. Len(got[s]) /\ DOMAIN g = 1 .. Len(got[s]) + 1
          /\ Len(got[s]) \in Nat /\ g[Len(got[s]) + 1] = taken[s] + 1
          /\ \A i \in 1 .. Len(got[s]) : g[i] = got[s][i] /\ got[s][i] \in 1 .. taken[s]
      BY <1>1, <1>10 DEF InputFits, g
    <3>3. ASSUME NEW i \in DOMAIN g PROVE g[i] \in 1 .. taken'[s] /\ sent'[s][g[i]] = "typed"
      <4>1. CASE i \in 1 .. Len(got[s])
        BY <1>1, <1>2, <1>10, <3>2, <4>1 DEF InputFits
      <4>2. CASE i = Len(got[s]) + 1
        BY <1>2, <1>10, <2>3, <3>2, <4>2 DEF kind
      <4> QED
        BY <3>2, <4>1, <4>2
    <3>4. ASSUME NEW i \in DOMAIN g, NEW j \in DOMAIN g, i < j PROVE g[i] < g[j]
      <4>1. i \in 1 .. Len(got[s]) /\ (j \in 1 .. Len(got[s]) \/ j = Len(got[s]) + 1)
        BY <3>2, <3>4
      <4>2. CASE j \in 1 .. Len(got[s])
        BY <1>1, <3>2, <3>4, <4>1, <4>2 DEF InputFits
      <4>3. CASE j = Len(got[s]) + 1
        BY <1>10, <3>2, <4>1, <4>3
      <4> QED
        BY <4>1, <4>2, <4>3
    <3> QED
      BY <1>2, <1>10, <3>1, <3>3, <3>4 DEF InputFits, e
  <2> QED
    BY <1>3, <2>1, <2>2, <2>3
<1>12. ASSUME NEW c \in Sessions, c # s PROVE HandlerFits(c)' /\ InputFits(c)'
  BY <1>2, <1>5, <1>6, <1>7, <1>12, OthersStay DEF TermInv
<1> QED
  BY <1>8, <1>9, <1>11, <1>12 DEF TermInv

\* What is written is what was taken last, and there is no second copy of the job.
LEMMA TermWriteKeeps ==
    ASSUME TermInv, NEW s \in Sessions, WriteEnds(s)
    PROVE  TermInv'
<1> DEFINE e == Job(s, "write")
<1>1. /\ e \in running /\ running' = running \ {e} /\ Executor(queue, running)
      /\ UNCHANGED <<client, sent, taken, shell, queue>>
      /\ e.session = s /\ e \in PtyJobs /\ e \in HeldJobs
  BY JobFacts DEF WriteEnds, TermInv, TermTyped, HeldJobs
<1>2. /\ taken[s] \in Nat /\ got \in [Sessions -> Seq(Nat)] /\ got[s] \in Seq(Nat)
      /\ step \in [Sessions -> {"none", "connecting", "open", "closing", "closed"}]
      /\ HandlerFits(s) /\ InputFits(s)
  BY DEF TermInv, TermTyped
<1>3. \/ /\ got' = [got EXCEPT ![s] = Append(@, taken[s])] /\ output' = [output EXCEPT ![s] = TRUE]
         /\ step' = step
      \/ /\ step' = [step EXCEPT ![s] = IF @ = "open" THEN "closing" ELSE @]
         /\ got' = got /\ output' = output
  BY DEF WriteEnds
<1> HIDE DEF e
<1>4. Executor(queue', running') /\ e \notin HeldJobs' /\ HeldJobs' \subseteq HeldJobs
  <2>1. Executor(queue, running') /\ e \notin Range(queue)
    BY <1>1, FinishedFacts
  <2> QED
    BY <1>1, <2>1 DEF HeldJobs
<1>5. /\ step' \in [Sessions -> {"none", "connecting", "open", "closing", "closed"}]
      /\ \A c \in Sessions : c # s => step'[c] = step[c]
      /\ \/ step'[s] = step[s]
         \/ step[s] = "open" /\ step'[s] = "closing"
  BY <1>2, <1>3
<1> DEFINE g == Append(got[s], taken[s])
<1>6. /\ got' \in [Sessions -> Seq(Nat)]
      /\ \A c \in Sessions : c # s => got'[c] = got[c]
      /\ got'[s] = got[s] \/ got'[s] = g
  <2>1. g \in Seq(Nat)
    BY <1>2
  <2>2. got' = got \/ got' = [got EXCEPT ![s] = g]
    BY <1>3
  <2> HIDE DEF g
  <2> QED
    BY <1>2, <2>1, <2>2
<1>7. output' \in [Sessions -> BOOLEAN]
  BY <1>3 DEF TermInv, TermTyped
<1>8. TermTyped'
  BY <1>1, <1>4, <1>5, <1>6, <1>7 DEF TermInv, TermTyped
<1>9. HandlerFits(s)'
  <2>1. CASE step'[s] = step[s]
    BY <1>1, <1>2, <1>4, <2>1, HandlerStays
  <2>2. CASE step[s] = "open" /\ step'[s] = "closing"
    BY <1>2, <1>4, <2>2 DEF HandlerFits
  <2> QED
    BY <1>5, <2>1, <2>2
<1>10. InputFits(s)'
  <2>1. CASE got'[s] = got[s]
    BY <1>1, <1>2, <1>4, <2>1, InputStays DEF e
  <2>2. CASE got'[s] = Append(got[s], taken[s])
    <3>5. taken[s] > 0 /\ sent[s][taken[s]] = "typed" /\ sent'[s] = sent[s] /\ taken'[s] = taken[s]
      BY <1>1, <1>2 DEF InputFits, e
    <3>1. /\ DOMAIN got[s] = 1 .. Len(got[s]) /\ DOMAIN got'[s] = 1 .. Len(got[s]) + 1
          /\ Len(got[s]) \in Nat /\ got'[s][Len(got[s]) + 1] = taken[s]
          /\ \A i \in 1 .. Len(got[s]) : got'[s][i] = got[s][i] /\ got[s][i] \in Nat
      BY <1>2, <2>2
    <3>2. \A i \in 1 .. Len(got[s]) : got[s][i] < taken[s]
      BY <1>1, <1>2, <3>1 DEF InputFits, e
    <3>3. \A i \in DOMAIN got'[s] : got'[s][i] \in 1 .. taken[s] /\ sent[s][got'[s][i]] = "typed"
      <4> SUFFICES ASSUME NEW i \in DOMAIN got'[s]
                   PROVE  got'[s][i] \in 1 .. taken[s] /\ sent[s][got'[s][i]] = "typed"
        OBVIOUS
      <4>1. CASE i \in 1 .. Len(got[s])
        BY <1>2, <3>1, <4>1 DEF InputFits
      <4>2. CASE i = Len(got[s]) + 1
        BY <1>2, <3>1, <3>5, <4>2
      <4> QED
        BY <3>1, <4>1, <4>2
    <3>4. \A i, j \in DOMAIN got'[s] : i < j => got'[s][i] < got'[s][j]
      <4> SUFFICES ASSUME NEW i \in DOMAIN got'[s], NEW j \in DOMAIN got'[s], i < j
                   PROVE  got'[s][i] < got'[s][j]
        OBVIOUS
      <4>1. i \in 1 .. Len(got[s]) /\ (j \in 1 .. Len(got[s]) \/ j = Len(got[s]) + 1)
        BY <3>1
      <4>2. got'[s][i] = got[s][i]
        BY <3>1, <4>1
      <4>3. CASE j \in 1 .. Len(got[s])
        <5>1. got[s][i] < got[s][j]
          BY <1>2, <3>1, <4>1, <4>3 DEF InputFits
        <5> QED
          BY <3>1, <4>2, <4>3, <5>1
      <4>4. CASE j = Len(got[s]) + 1
        BY <3>1, <3>2, <4>1, <4>2, <4>4
      <4> QED
        BY <4>1, <4>3, <4>4
    <3> QED
      BY <1>1, <1>2, <1>4, <3>3, <3>4, <3>5 DEF InputFits, e
  <2> QED
    BY <1>6, <2>1, <2>2
<1>11. ASSUME NEW c \in Sessions, c # s PROVE HandlerFits(c)' /\ InputFits(c)'
  BY <1>1, <1>4, <1>5, <1>6, <1>11, OthersStay DEF TermInv
<1> QED
  BY <1>8, <1>9, <1>10, <1>11 DEF TermInv

\* The finally block withdraws both jobs a session may have waiting, and stops the
\* shell.
LEMMA CloseKeeps ==
    ASSUME TermInv, NEW s \in Sessions, Close(s)
    PROVE  TermInv'
<1> DEFINE e == Job(s, "read")
           f == Job(s, "write")
           q == RemoveFirst(queue, e)
<1>1. /\ step[s] = "closing" /\ step' = [step EXCEPT ![s] = "closed"]
      /\ queue' = RemoveFirst(q, f) /\ client' = [client EXCEPT ![s] = FALSE]
      /\ UNCHANGED <<sent, taken, got, output, running>>
      /\ Executor(queue, running) /\ HandlerFits(s) /\ InputFits(s)
  BY DEF Close, input, TermInv, TermTyped
<1>2. /\ step' \in [Sessions -> {"none", "connecting", "open", "closing", "closed"}]
      /\ step'[s] = "closed" /\ client' \in [Sessions -> BOOLEAN]
      /\ shell' \in [Sessions -> {"none", "running", "exited", "held"}] /\ shell'[s] # "running"
      /\ \A c \in Sessions : c # s => step'[c] = step[c] /\ shell'[c] = shell[c]
  BY ZenonT(60), <1>1 DEF Close, Stopped, TermInv, TermTyped
<1> HIDE DEF e, f
<1>3. Executor(q, running) /\ Range(q) \subseteq Range(queue) \ {e}
  BY <1>1, WithdrawnFacts
<1> HIDE DEF q
<1>4. Executor(queue', running') /\ Range(queue') \subseteq Range(queue) \ {e, f}
  BY <1>1, <1>3, WithdrawnFacts
<1>5. HeldJobs' \subseteq HeldJobs
  BY <1>1, <1>4 DEF HeldJobs
<1>6. TermTyped'
  BY <1>1, <1>2, <1>4 DEF TermInv, TermTyped
<1>7. HandlerFits(s)'
  <2>1. ASSUME NEW j \in Range(queue'), j.session = s PROVE FALSE
    <3>1. j \in HeldJobs /\ j \in Range(queue) /\ j # e /\ j # f
      BY <1>4, <2>1 DEF HeldJobs
    <3>2. j \in PtyJobs
      <4>1. queue \in Seq(PtyJobs)
        BY <1>1 DEF Executor, Waiting
      <4> HIDE DEF PtyJobs
      <4> QED
        BY <3>1, <4>1 DEF Range
    <3>3. j = Job(s, "read") \/ j = Job(s, "write") \/ j = Job(s, "connect")
      BY <2>1, <3>2 DEF PtyJobs, Job
    <3>4. Job(s, "connect") \notin HeldJobs
      BY <1>1 DEF HandlerFits
    <3> QED
      BY <3>1, <3>3, <3>4 DEF e, f
  <2>2. Job(s, "connect") \notin HeldJobs'
    BY <1>1, <1>5 DEF HandlerFits
  <2> QED
    BY <1>2, <2>1, <2>2 DEF HandlerFits
<1>8. InputFits(s)'
  BY <1>1, <1>5, InputStays
<1>9. ASSUME NEW c \in Sessions, c # s PROVE HandlerFits(c)' /\ InputFits(c)'
  BY <1>1, <1>2, <1>4, <1>5, <1>9, OthersStay DEF TermInv
<1> QED
  BY <1>6, <1>7, <1>8, <1>9 DEF TermInv

\* Every action keeps the invariant.
LEMMA TermStep == TermInv /\ [TermNext]_termVars => TermInv'
<1> SUFFICES ASSUME TermInv, [TermNext]_termVars PROVE TermInv'
  OBVIOUS
<1>1. CASE UNCHANGED termVars
  <2>1. HeldJobs' = HeldJobs /\ UNCHANGED <<step, client, sent, taken, got, shell, output, queue, running>>
    BY <1>1 DEF termVars, input, executor, HeldJobs
  <2>2. TermTyped'
    BY <2>1 DEF TermInv, TermTyped
  <2>3. ASSUME NEW c \in Sessions PROVE HandlerFits(c)' /\ InputFits(c)'
    BY <2>1, OthersStay DEF TermInv
  <2> QED
    BY <2>2, <2>3 DEF TermInv
<1>2. CASE StartJob
  BY <1>2, TermStartKeeps
<1>3. ASSUME NEW s \in Sessions, \/ ClientSends(s) \/ ClientLeaves(s) \/ ShellExits(s)
                                \/ ShellPrints(s) \/ NoticeLeft(s)
      PROVE  TermInv'
  BY <1>3, OutsideKeeps
<1>4. ASSUME NEW s \in Sessions, OpenPty(s) \/ OpenSsh(s) PROVE TermInv'
  BY <1>4, OpenKeeps
<1>5. ASSUME NEW s \in Sessions, SshConnects(s) \/ ReadEnds(s) \/ WriteEnds(s) PROVE TermInv'
  BY <1>5, ConnectKeeps, ReadKeeps, TermWriteKeeps
<1>6. ASSUME NEW s \in Sessions, TakeInput(s) \/ Close(s) PROVE TermInv'
  BY <1>6, TakeKeeps, CloseKeeps
<1> QED
  BY <1>1, <1>2, <1>3, <1>4, <1>5, <1>6 DEF TermNext, AllClosed

\* Every job is in the executor once, and has a handler that waits for it.
THEOREM TerminalsAlways == TermSpec => []TermInv
<1>1. TermInit => TermInv
  <2> SUFFICES ASSUME TermInit PROVE TermInv
    OBVIOUS
  <2>1. /\ queue = <<>> /\ running = {} /\ Range(queue) = {} /\ HeldJobs = {}
        /\ \A s \in Sessions : /\ step[s] = "none" /\ shell[s] = "none" /\ got[s] = <<>>
                               /\ sent[s] = <<>> /\ taken[s] = 0
    BY DEF TermInit, Range, HeldJobs
  <2>2. Executor(queue, running)
    BY <2>1, FS_EmptySet, TerminalsAssumption DEF Executor, Waiting
  <2>3. TermTyped
    BY <2>2 DEF TermInit, TermTyped
  <2>4. \A s \in Sessions : HandlerFits(s) /\ InputFits(s)
    BY <2>1, TerminalsAssumption DEF HandlerFits, InputFits
  <2> QED
    BY <2>3, <2>4 DEF TermInv
<1> QED
  BY <1>1, TermStep, PTL DEF TermSpec

\* Nothing that was taken from a client and belongs to the terminal is missing but
\* what is still to be written.
NothingLost(s) ==
    s \in PtySessions /\ step[s] \notin {"closing", "closed"} =>
        \A n \in 1 .. taken[s] :
            sent[s][n] = "typed" => n \in Range(got[s]) \/ (n = taken[s] /\ Job(s, "write") \in HeldJobs)

\* A terminal whose input stays where it is loses nothing.
LEMMA NothingLostStays ==
    ASSUME NEW s \in Sessions, NothingLost(s),
           step'[s] \notin {"closing", "closed"} => step[s] \notin {"closing", "closed"},
           taken'[s] = taken[s], got'[s] = got[s],
           \A n \in 1 .. taken[s] : sent'[s][n] = sent[s][n],
           step'[s] \notin {"closing", "closed"} /\ Job(s, "write") \in HeldJobs
             => Job(s, "write") \in HeldJobs'
    PROVE  NothingLost(s)'
  BY DEF NothingLost

\* The jobs that leave the executor while a session goes on, and what they were for.
LEMMA NothingLostElsewhere ==
    ASSUME TermInv, NEW s \in Sessions, NothingLost(s), [TermNext]_termVars,
           ~TakeInput(s), ~WriteEnds(s)
    PROVE  NothingLost(s)'
<1> DEFINE w == Job(s, "write")
<1>1. /\ taken \in [Sessions -> Nat] /\ sent \in [Sessions -> Seq(Kinds)] /\ got \in [Sessions -> Seq(Nat)]
      /\ step \in [Sessions -> {"none", "connecting", "open", "closing", "closed"}]
      /\ taken[s] <= Len(sent[s]) /\ Executor(queue, running) /\ queue \in Seq(PtyJobs)
  BY DEF TermInv, TermTyped, InputFits, Executor, Waiting
<1>2. ASSUME NEW e, w \in HeldJobs, w # e,
             running' = running \ {e}, queue' = queue \/ queue' = Append(queue, e)
                                       \/ \E f \in PtyJobs : queue' = Append(queue, f)
      PROVE  w \in HeldJobs'
  <2>1. queue \in Seq(PtyJobs)
    BY <1>1
  <2>2. \A f : Range(queue) \subseteq Range(Append(queue, f))
    <3> SUFFICES ASSUME NEW f, NEW i \in DOMAIN queue PROVE queue[i] \in Range(Append(queue, f))
      BY DEF Range
    <3>1. i \in DOMAIN Append(queue, f) /\ Append(queue, f)[i] = queue[i]
      BY <2>1
    <3> QED
      BY <3>1 DEF Range
  <2> QED
    BY <1>2, <2>2 DEF HeldJobs
<1>3. ASSUME UNCHANGED <<taken, got>>, sent'[s] = sent[s] \/ \E kind \in Kinds : sent'[s] = Append(sent[s], kind)
      PROVE  taken'[s] = taken[s] /\ got'[s] = got[s] /\ \A n \in 1 .. taken[s] : sent'[s][n] = sent[s][n]
  <2>1. sent[s] \in Seq(Kinds) /\ taken[s] \in Nat /\ taken[s] <= Len(sent[s])
    BY <1>1
  <2>2. ASSUME NEW kind \in Kinds, NEW n \in 1 .. taken[s] PROVE Append(sent[s], kind)[n] = sent[s][n]
    BY <2>1
  <2> QED
    BY <1>3, <2>2
<1>4. ASSUME NEW c \in Sessions, \/ ClientSends(c) \/ ClientLeaves(c) \/ ShellExits(c)
                                \/ ShellPrints(c) \/ NoticeLeft(c)
      PROVE  NothingLost(s)'
  <2>1. UNCHANGED <<taken, got, queue, running>> /\ HeldJobs' = HeldJobs
    BY <1>4 DEF ClientSends, ClientLeaves, ShellExits, ShellPrints, NoticeLeft, input, executor, HeldJobs
  <2>2. sent'[s] = sent[s] \/ \E kind \in Kinds : sent'[s] = Append(sent[s], kind)
    BY <1>1, <1>4 DEF ClientSends, ClientLeaves, ShellExits, ShellPrints, NoticeLeft, input
  <2>3. step'[s] = step[s] \/ step'[s] = "closing"
    BY <1>1, <1>4 DEF ClientSends, ClientLeaves, ShellExits, ShellPrints, NoticeLeft
  <2> QED
    BY <1>3, <2>1, <2>2, <2>3, NothingLostStays
<1>5. CASE StartJob
  <2>1. HeldJobs' = HeldJobs /\ UNCHANGED <<step, sent, taken, got>>
    BY <1>1, <1>5, StartedFacts DEF StartJob, input, HeldJobs
  <2> QED
    BY <1>3, <2>1, NothingLostStays
<1>6. ASSUME NEW c \in Sessions, OpenPty(c) \/ OpenSsh(c) PROVE NothingLost(s)'
  <2>1. /\ UNCHANGED <<sent, taken, got, running>> /\ step[c] = "none"
        /\ \/ queue' = queue
           \/ queue' = Append(queue, Job(c, "read")) \/ queue' = Append(queue, Job(c, "connect"))
    BY <1>6 DEF OpenPty, OpenSsh, input
  <2>2. step[s] \notin {"closing", "closed"} \/ step'[s] = step[s]
    BY <1>1, <1>6, <2>1 DEF OpenPty, OpenSsh
  <2>3. w \in HeldJobs => w \in HeldJobs'
    <3>1. running' = running \ {Job(c, "connect")} \/ Job(c, "connect") \in running
      BY <2>1
    <3>2. Job(c, "connect") \notin running
      BY <2>1, JobFacts DEF TermInv, HandlerFits, HeldJobs
    <3>3. w # Job(c, "connect") /\ Job(c, "connect") \in PtyJobs /\ Job(c, "read") \in PtyJobs
      BY JobFacts
    <3> QED
      BY <1>2, <2>1, <3>1, <3>2, <3>3
  <2> QED
    BY <1>3, <2>1, <2>2, <2>3, NothingLostStays
<1>7. ASSUME NEW c \in Sessions, SshConnects(c) PROVE NothingLost(s)'
  <2>1. /\ UNCHANGED <<sent, taken, got>> /\ running' = running \ {Job(c, "connect")}
        /\ queue' = queue \/ queue' = Append(queue, Job(c, "read"))
        /\ Job(c, "connect") \in running
    BY <1>7 DEF SshConnects, input
  <2>2. step[c] = "connecting"
    <3>1. Job(c, "connect") \in HeldJobs /\ HandlerFits(c) /\ Job(c, "connect").session = c
      BY <2>1, JobFacts DEF HeldJobs, TermInv
    <3> QED
      BY <1>1, <3>1 DEF HandlerFits
  <2>3. step[s] \notin {"closing", "closed"} \/ step'[s] = step[s]
    BY <1>1, <1>7, <2>2 DEF SshConnects
  <2>4. w # Job(c, "connect") /\ Job(c, "read") \in PtyJobs
    BY JobFacts
  <2> QED
    BY <1>2, <1>3, <2>1, <2>3, <2>4, NothingLostStays
<1>8. ASSUME NEW c \in Sessions, ReadEnds(c) PROVE NothingLost(s)'
  <2>1. /\ UNCHANGED <<sent, taken, got>> /\ running' = running \ {Job(c, "read")}
        /\ queue' = queue \/ queue' = Append(queue, Job(c, "read"))
        /\ step' = step \/ step' = [step EXCEPT ![c] = "closing"]
    BY <1>8 DEF ReadEnds, input
  <2>2. step'[s] = step[s] \/ step'[s] = "closing"
    BY <1>1, <2>1
  <2>3. w # Job(c, "read")
    BY JobFacts
  <2> QED
    BY <1>2, <1>3, <2>1, <2>2, <2>3, NothingLostStays
\* What another terminal takes, writes or gives up is no job of this one.
<1>9. ASSUME NEW c \in Sessions, c # s, TakeInput(c) \/ WriteEnds(c) PROVE NothingLost(s)'
  <2>1. /\ sent' = sent /\ taken'[s] = taken[s] /\ got'[s] = got[s]
        /\ step'[s] = step[s]
        /\ \/ running' = running /\ (queue' = queue \/ queue' = Append(queue, Job(c, "write")))
           \/ running' = running \ {Job(c, "write")} /\ queue' = queue
    <3>1. CASE TakeInput(c)
      <4>1. sent' = sent /\ running' = running /\ taken' = [taken EXCEPT ![c] = @ + 1]
        BY <3>1 DEF TakeInput
      <4>2. Handle(c, sent[c][taken'[c]])
        BY <3>1 DEF TakeInput
      <4>3. /\ step' = step \/ step' = [step EXCEPT ![c] = "closing"]
            /\ got' = got \/ got' = [got EXCEPT ![c] = Append(@, taken'[c])]
            /\ queue' = queue \/ queue' = Append(queue, Job(c, "write"))
        BY <4>2 DEF Handle, Forward
      <4> QED
        BY <1>1, <1>9, <4>1, <4>3
    <3>2. CASE WriteEnds(c)
      BY <1>1, <1>9, <3>2 DEF WriteEnds
    <3> QED
      BY <1>9, <3>1, <3>2
  <2>2. w # Job(c, "write") /\ Job(c, "write") \in PtyJobs
    BY <1>9, JobFacts
  <2>3. w \in HeldJobs => w \in HeldJobs'
    <3>1. CASE running' = running \ {Job(c, "write")} /\ queue' = queue
      BY <1>2, <2>2, <3>1
    <3>2. CASE running' = running
      <4>1. running' = running \ {<<>>} \/ <<>> \in running
        BY <3>2
      <4>2. <<>> \notin running /\ w # <<>>
        <5>1. \A j \in PtyJobs : j.session \in Sessions /\ j # <<>>
          BY DEF PtyJobs
        <5> QED
          BY <1>1, <5>1, JobFacts DEF Executor
      <4>3. queue' = queue \/ queue' = Append(queue, Job(c, "write"))
        BY <2>1
      <4> QED
        BY <1>2, <2>2, <4>1, <4>2, <4>3
    <3> QED
      BY <2>1, <3>1, <3>2
  <2> QED
    BY <2>1, <2>3, NothingLostStays
<1>10. ASSUME NEW c \in Sessions, Close(c) PROVE NothingLost(s)'
  <2>1. /\ UNCHANGED <<sent, taken, got, running>> /\ step' = [step EXCEPT ![c] = "closed"]
        /\ queue' = RemoveFirst(RemoveFirst(queue, Job(c, "read")), Job(c, "write"))
    BY <1>10 DEF Close, input
  <2>2. step'[s] \notin {"closing", "closed"} => step[s] \notin {"closing", "closed"} /\ c # s
    BY <1>1, <2>1
  <2>3. Range(queue') = (Range(queue) \ {Job(c, "read")}) \ {Job(c, "write")}
    BY <1>1, <2>1, WithdrawnFacts
  <2>4. c # s => w \notin {Job(c, "read"), Job(c, "write")}
    BY JobFacts
  <2>5. c # s /\ w \in HeldJobs => w \in HeldJobs'
    BY <2>1, <2>3, <2>4 DEF HeldJobs
  <2> HIDE DEF w
  <2> QED
    BY <2>1, <2>2, <2>5, NothingLostStays DEF w
<1>11. CASE UNCHANGED termVars
  BY <1>3, <1>11, NothingLostStays DEF termVars, input, executor, HeldJobs
<1> QED
  BY <1>4, <1>5, <1>6, <1>7, <1>8, <1>9, <1>10, <1>11 DEF TermNext, AllClosed

\* What is taken is typed and handed in, swallowed, or ends the connection; what has
\* been written is received, or the connection ends.
LEMMA NothingLostStep ==
    ASSUME TermInv, NEW s \in Sessions, NothingLost(s), [TermNext]_termVars
    PROVE  NothingLost(s)'
<1> DEFINE w == Job(s, "write")
<1>1. /\ taken \in [Sessions -> Nat] /\ sent \in [Sessions -> Seq(Kinds)] /\ got \in [Sessions -> Seq(Nat)]
      /\ step \in [Sessions -> {"none", "connecting", "open", "closing", "closed"}]
      /\ queue \in Seq(PtyJobs) /\ w \in PtyJobs /\ InputFits(s)
  BY JobFacts DEF TermInv, TermTyped, Executor, Waiting
<1>2. CASE TakeInput(s)
  <2>1. /\ taken'[s] = taken[s] + 1 /\ sent' = sent /\ w \notin HeldJobs /\ step[s] = "open"
        /\ running' = running
    BY <1>1, <1>2 DEF TakeInput, ReadyForInput, Writing, HeldJobs, Range
  <2>2. \/ step'[s] = "closing"
        \/ sent[s][taken[s] + 1] # "typed" /\ got' = got
        \/ s \notin PtySessions
        \/ queue' = Append(queue, w) /\ got' = got
    <3>1. Handle(s, sent[s][taken[s] + 1])
      BY <1>1, <1>2 DEF TakeInput
    <3>2. s \in PtySessions /\ Forward(s) => queue' = Append(queue, w) /\ got' = got
      BY TerminalsAssumption DEF Forward
    <3> QED
      BY <1>1, <3>1, <3>2 DEF Handle
  <2>3. ASSUME queue' = Append(queue, w) PROVE w \in HeldJobs'
    <3>1. Len(queue) + 1 \in DOMAIN Append(queue, w) /\ Append(queue, w)[Len(queue) + 1] = w
      BY <1>1
    <3> QED
      BY <2>3, <3>1 DEF HeldJobs, Range
  <2> SUFFICES ASSUME s \in PtySessions, step'[s] \notin {"closing", "closed"},
                      NEW n \in 1 .. taken'[s], sent'[s][n] = "typed"
               PROVE  n \in Range(got'[s]) \/ (n = taken'[s] /\ w \in HeldJobs')
    BY DEF NothingLost
  <2>4. got' = got
    BY <2>2
  <2>5. CASE n \in 1 .. taken[s]
    BY <2>1, <2>4, <2>5 DEF NothingLost
  <2>6. CASE n = taken[s] + 1
    BY <2>1, <2>2, <2>3, <2>6
  <2> QED
    BY <1>1, <2>1, <2>5, <2>6
<1>3. CASE WriteEnds(s)
  <2>1. /\ taken' = taken /\ sent' = sent /\ w \in HeldJobs
        /\ \/ step'[s] \in {"closing", "closed"}
           \/ step[s] \notin {"open", "closing", "closed"}
           \/ step'[s] = step[s] /\ got' = [got EXCEPT ![s] = Append(@, taken[s])]
    BY <1>1, <1>3 DEF WriteEnds, HeldJobs
  <2>2. step[s] \notin {"none", "connecting"}
    BY <2>1, JobFacts DEF TermInv, HandlerFits
  <2> DEFINE g == Append(got[s], taken[s])
  <2>3. /\ taken[s] \in Range(g) /\ Range(got[s]) \subseteq Range(g)
    <3>1. got[s] \in Seq(Nat) /\ taken[s] \in Nat
      BY <1>1
    <3>2. /\ DOMAIN g = 1 .. Len(got[s]) + 1 /\ g[Len(got[s]) + 1] = taken[s] /\ Len(got[s]) \in Nat
          /\ DOMAIN got[s] = 1 .. Len(got[s]) /\ \A i \in DOMAIN got[s] : g[i] = got[s][i]
      BY <3>1
    <3> HIDE DEF g
    <3> QED
      BY <3>2 DEF Range
  <2>4. \/ step'[s] \in {"closing", "closed"}
        \/ got'[s] = g /\ step'[s] = step[s]
    BY <1>1, <2>1, <2>2
  <2> HIDE DEF g
  <2> QED
    BY <2>1, <2>3, <2>4 DEF NothingLost
<1> QED
  BY <1>2, <1>3, NothingLostElsewhere

THEOREM NothingLostAlways == TermSpec => [](TermInv /\ \A s \in Sessions : NothingLost(s))
<1>1. TermInit => \A s \in Sessions : NothingLost(s)
  BY DEF TermInit, NothingLost
<1>2. /\ TermInv /\ TermInv' /\ (\A s \in Sessions : NothingLost(s)) /\ [TermNext]_termVars
      => (\A s \in Sessions : NothingLost(s))'
  BY NothingLostStep
<1> QED
  BY <1>1, <1>2, TerminalsAlways, PTL DEF TermSpec

\* A shell receives what its client typed in its order and nothing twice, a terminal
\* that stays open misses nothing of it, and neither a shell nor a waiting job outlives
\* its connection, for any number of sessions, of messages and of threads.
THEOREM TerminalsStayOrderly == TermSpec => []SessionsAreOrderly
<1>1. TermInv /\ (\A s \in Sessions : NothingLost(s)) => SessionsAreOrderly
  <2> SUFFICES ASSUME TermInv, NEW s \in Sessions, NothingLost(s)
               PROVE  /\ InputIsOrderly(s)
                      /\ step[s] = "closed" => /\ shell[s] # "running"
                                               /\ \A i \in DOMAIN queue : queue[i].session # s
    BY DEF SessionsAreOrderly
  <2>1. Writing(s) <=> Job(s, "write") \in HeldJobs
    BY DEF Writing, HeldJobs, Range
  <2>2. InputIsOrderly(s)
    BY <2>1 DEF TermInv, InputFits, NothingLost, InputIsOrderly
  <2>3. step[s] = "closed" => shell[s] # "running" /\ \A i \in DOMAIN queue : queue[i].session # s
    BY DEF TermInv, HandlerFits, Range
  <2> QED
    BY <2>2, <2>3
<1> QED
  BY <1>1, NothingLostAlways, PTL

\* The terminals stay in their types.
THEOREM TermTypeCorrect == TermSpec => []TermTypeOK
<1>1. TermInv => TermTypeOK
  BY DEF TermInv, TermTyped, TermTypeOK, InputFits, Executor
<1> QED
  BY <1>1, TerminalsAlways, PTL
=============================================================================
