------------------------------ MODULE AuthTokens ------------------------------
(***************************************************************************)
(* The tokens of the auth service: /users/login hands out a pair of JWTs,  *)
(* /users/refresh replaces a pair, /users/logout revokes one, and /users/me*)
(* or the gRPC call GetUserInfoByToken check an access token.  Tokens carry*)
(* their own end; revoked ones are kept in Redis, the blacklist, with a    *)
(* time to live.                                                           *)
(*                                                                         *)
(* Time is counted in ticks, Second of them to a second: Redis and the     *)
(* creation of tokens see ticks, the check of a JWT's end whole seconds.   *)
(* A token is named by the request that created it and its type.  A        *)
(* request waits for Redis before every step, so other requests and the    *)
(* clock move between its steps.                                           *)
(*                                                                         *)
(* Redis keeps its entries in memory and, a second later at the latest, in *)
(* a file (appendfsync everysec), which is what is left after a crash.     *)
(*                                                                         *)
(* revokers, when, undone and seen are history variables.  Definitions that*)
(* Next does not use (RevokeTooShort, LogoutAccessOnly, ...) are wrong     *)
(* variants under which a property below fails.                            *)
(***************************************************************************)
EXTENDS Integers

CONSTANTS
    Logins, Refreshes, Logouts, Uses, \* the requests of each kind
    Users,
    Second,    \* ticks in a second
    Lifetime,  \* Lifetime[type]: settings.*_token_expire, in seconds
    MaxClock,  \* the clock stops here
    MaxFaults  \* bound on Redis commands that fail and crashes of Redis

Types    == {"access", "refresh"}
Makers   == Logins \cup Refreshes
Requests == Makers \cup Logouts \cup Uses
Tokens   == Makers \X Types

ASSUME AuthTokensAssumption ==
    /\ Logins # {}  \* without a login there is no token
    /\ Logins \cap (Refreshes \cup Logouts \cup Uses) = {}
    /\ Refreshes \cap (Logouts \cup Uses) = {}
    /\ Logouts \cap Uses = {}
    /\ Second \in Nat \ {0}
    /\ Lifetime \in [Types -> Nat]
    /\ MaxClock \in Nat
    /\ MaxFaults \in Nat

VARIABLES
    clock,
    user,      \* user[q]: whose tokens request q creates (a login's: any user)
    exp,       \* exp[t]: the end of token t, -1 before it is created
    blacklist, \* blacklist[t]: when the Redis entry of t goes, -1: never made
    disk,      \* the blacklist as the file has it
    age,       \* ticks since memory and file began to differ
    arg,       \* arg[r]: the token(s) request r presents, by cookie name
    pc, code,
    revokers,  \* history: the requests that put each token on the blacklist
    when,      \* history: when request r last did so, -1: never
    undone,    \* history: the requests that did so too shortly before a crash
    seen,      \* history: the tokens that were revoked when r checked them
    faults

entries == <<blacklist, revokers, when>>
file    == <<disk, age, undone>>
vars    == <<clock, user, exp, entries, file, arg, pc, code, seen, faults>>

Created(t) == exp[t] >= 0

\* The steps at which a handler waits to check and to revoke its tokens.
CheckOf  == [access |-> "check_access", refresh |-> "check_refresh"]
RevokeOf == [access |-> "revoke_access", refresh |-> "revoke_refresh"]

TypeOK ==
    /\ clock \in 0 .. MaxClock
    /\ user \in [Makers -> Users]
    /\ exp \in [Tokens -> Int]
    /\ blacklist \in [Tokens -> Int]
    /\ disk \in [Tokens -> Int]
    /\ age \in 0 .. Second
    /\ arg \in [Requests -> [Types -> Tokens]]
    /\ pc \in [Requests -> {"idle", "check_refresh", "check_access", "revoke_access",
                            "revoke_refresh", "done"}]
    /\ code \in [Requests -> {0, 200, 403, 500}]
    /\ \A r \in Requests : code[r] # 0 <=> pc[r] = "done"
    /\ revokers \in [Tokens -> SUBSET (Refreshes \cup Logouts)]
    /\ when \in [Requests -> Int]
    /\ undone \subseteq Requests
    /\ seen \in [Requests -> SUBSET [token : Tokens, ended : BOOLEAN]]
    /\ faults \in 0 .. MaxFaults

Init ==
    /\ clock = 0
    /\ user \in [Makers -> Users]
    /\ exp = [t \in Tokens |-> -1]
    /\ blacklist = [t \in Tokens |-> -1]
    /\ disk = blacklist
    /\ age = 0
    /\ arg = [r \in Requests |-> [type \in Types |-> CHOOSE t \in Logins \X Types : TRUE]]
    /\ pc = [r \in Requests |-> "idle"]
    /\ code = [r \in Requests |-> 0]
    /\ revokers = [t \in Tokens |-> {}]
    /\ when = [r \in Requests |-> -1]
    /\ undone = {}
    /\ seen = [r \in Requests |-> {}]
    /\ faults = 0

Goto(r, label) ==
    /\ pc' = [pc EXCEPT ![r] = label]
    /\ UNCHANGED code

Answer(r, c) ==
    /\ pc' = [pc EXCEPT ![r] = "done"]
    /\ code' = [code EXCEPT ![r] = c]

-------------------------------------------------------------------------------
(* Tokens. *)

\* add_tokens_to_response: create_token twice, at this moment.
Issue(q, u) ==
    /\ exp' = [t \in Tokens |-> IF t[1] = q THEN clock + Lifetime[t[2]] * Second ELSE exp[t]]
    /\ user' = [user EXCEPT ![q] = u]

\* is_token_in_blacklist: the key exists until its time to live is over.
Listed(t) == blacklist[t] > clock

\* jwt.decode compares whole seconds, the second of the end included.
Expired(t) == exp[t] \div Second < clock \div Second

\* add_token_to_blacklist, with the full lifetime of a token of this type.
RevokeTooShort(r, t, type) ==
    /\ blacklist' = [blacklist EXCEPT ![t] = clock + Lifetime["access"] * Second]
    /\ revokers' = [revokers EXCEPT ![t] = @ \cup {r}]
    /\ when' = [when EXCEPT ![r] = clock]

Revoke(r, t, type) ==
    /\ blacklist' = [blacklist EXCEPT ![t] = clock + Lifetime[type] * Second]
    /\ revokers' = [revokers EXCEPT ![t] = @ \cup {r}]
    /\ when' = [when EXCEPT ![r] = clock]

\* get_access_token_data and get_refresh_token_data: not on the blacklist, not
\* expired, of the right type.
Good(t, type) == Created(t) /\ ~Listed(t) /\ ~Expired(t) /\ t[2] = type

\* Request r has read from Redis whether its token of this type is listed, and
\* decodes it.
Read(r, type) ==
    LET t == arg[r][type] IN
    seen' = IF revokers[t] \subseteq undone THEN seen
            ELSE [seen EXCEPT ![r] = @ \cup {[token |-> t, ended |-> clock >= exp[t]]}]

Check(r, type, next) ==
    /\ pc[r] = CheckOf[type]
    /\ Good(arg[r][type], type)
    /\ Read(r, type)
    /\ Goto(r, next)
    /\ UNCHANGED <<clock, user, exp, entries, arg, faults>>

RefuseAsUnauthorized(r, type) ==
    /\ pc[r] = CheckOf[type]
    /\ ~Good(arg[r][type], type)
    /\ Read(r, type)
    /\ Answer(r, 401)
    /\ UNCHANGED <<clock, user, exp, entries, arg, faults>>

Refuse(r, type) ==
    /\ pc[r] = CheckOf[type]
    /\ ~Good(arg[r][type], type)
    /\ Read(r, type)
    /\ Answer(r, 403)
    /\ UNCHANGED <<clock, user, exp, entries, arg, faults>>

\* A client presents tokens it was handed, one in each of the cookies used.
Begin(r, types, label) ==
    /\ pc[r] = "idle"
    /\ \E f \in [types -> {t \in Tokens : Created(t)}] :
          arg' = [arg EXCEPT ![r] = [type \in Types |-> IF type \in types THEN f[type] ELSE @[type]]]
    /\ Goto(r, label)
    /\ UNCHANGED <<clock, user, exp, entries, seen, faults>>

-------------------------------------------------------------------------------
(* The handlers. *)

\* login_user, once the password is verified.
Login(r) ==
    /\ pc[r] = "idle"
    /\ Issue(r, user[r])
    /\ Answer(r, 200)
    /\ UNCHANGED <<clock, entries, arg, seen, faults>>

\* get_user and GetUserInfoByToken answer as soon as the token is good.
Use(r) ==
    /\ pc[r] = "check_access"
    /\ Good(arg[r]["access"], "access")
    /\ Read(r, "access")
    /\ Answer(r, 200)
    /\ UNCHANGED <<clock, user, exp, entries, arg, faults>>

\* refresh_tokens: the old refresh token is revoked, then a pair is issued.
Refresh(r) ==
    /\ pc[r] = "revoke_refresh"
    /\ Revoke(r, arg[r]["refresh"], "refresh")
    /\ Issue(r, user[arg[r]["refresh"][1]])
    /\ Answer(r, 200)
    /\ UNCHANGED <<clock, arg, seen, faults>>

\* logout_user: the access token is revoked first, the refresh token next.
LogoutAccessOnly(r) ==
    /\ pc[r] = "revoke_access"
    /\ Revoke(r, arg[r]["access"], "access")
    /\ Answer(r, 200)
    /\ UNCHANGED <<clock, user, exp, arg, seen, faults>>

LogoutAccess(r) ==
    /\ pc[r] = "revoke_access"
    /\ Revoke(r, arg[r]["access"], "access")
    /\ Goto(r, "revoke_refresh")
    /\ UNCHANGED <<clock, user, exp, arg, seen, faults>>

LogoutRefresh(r) ==
    /\ pc[r] = "revoke_refresh"
    /\ Revoke(r, arg[r]["refresh"], "refresh")
    /\ Answer(r, 200)
    /\ UNCHANGED <<clock, user, exp, arg, seen, faults>>

\* Redis fails, after its retries, before the command took effect or after: 500.
RedisFails(r) ==
    /\ pc[r] \notin {"idle", "done"}
    /\ faults < MaxFaults
    /\ faults' = faults + 1
    /\ \/ UNCHANGED entries
       \/ \E type \in Types : pc[r] = RevokeOf[type] /\ Revoke(r, arg[r][type], type)
    /\ Answer(r, 500)
    /\ UNCHANGED <<clock, user, exp, arg, seen>>

Tick ==
    /\ clock < MaxClock
    /\ clock' = clock + 1
    /\ age' = IF disk = blacklist THEN 0 ELSE age + 1
    /\ age' <= Second
    /\ UNCHANGED <<user, exp, entries, disk, undone, arg, pc, code, seen, faults>>

\* appendfsync everysec: Tick waits for it when the file is a second behind.
Sync ==
    /\ disk # blacklist
    /\ disk' = blacklist
    /\ age' = 0
    /\ UNCHANGED <<clock, user, exp, entries, undone, arg, pc, code, seen, faults>>

\* Redis crashes and comes back with what is in the file.
Crash ==
    /\ disk # blacklist
    /\ faults < MaxFaults
    /\ faults' = faults + 1
    /\ blacklist' = disk
    /\ age' = 0
    /\ undone' = undone \cup {r \in Requests : when[r] >= 0 /\ when[r] + Second >= clock}
    /\ UNCHANGED <<clock, user, exp, disk, revokers, when, arg, pc, code, seen>>

ServeUse(r) ==
    \/ Begin(r, {"access"}, "check_access") \/ Use(r) \/ Refuse(r, "access")

ServeRefresh(r) ==
    \/ Begin(r, {"refresh"}, "check_refresh")
    \/ Check(r, "refresh", "revoke_refresh") \/ Refuse(r, "refresh")
    \/ Refresh(r)

\* The two dependencies of logout_user are resolved in the order of its
\* parameters.
ServeLogout(r) ==
    \/ Begin(r, Types, "check_refresh")
    \/ Check(r, "refresh", "check_access") \/ Check(r, "access", "revoke_access")
    \/ \E type \in Types : Refuse(r, type)
    \/ LogoutAccess(r) \/ LogoutRefresh(r)

Serve ==
    \/ \E r \in Logins : Login(r)
    \/ \E r \in Uses : ServeUse(r)
    \/ \E r \in Refreshes : ServeRefresh(r)
    \/ \E r \in Logouts : ServeLogout(r)
    \/ \E r \in Requests : RedisFails(r)

Next ==
    \/ Serve /\ UNCHANGED file
    \/ Tick \/ Sync \/ Crash

Spec == Init /\ [][Next]_vars

-------------------------------------------------------------------------------
(* Properties. *)

\* No request is served with a token that was on the blacklist, and not yet at
\* its end, when the request checked it: what two checks, two revocations of
\* one token and the time to live of its entry do to each other never makes a
\* revoked token good again before its end, and a crash of Redis only one that
\* was revoked in the second before it.
RevokedIsRefused ==
    \A r \in Requests : code[r] = 200 => \A s \in seen[r] : s.ended

\* A completed logout keeps both of its tokens listed until they end, although
\* other requests may write the same entries and Redis may crash once a second
\* has gone by; one that failed half-way has revoked the access token, never
\* the refresh token alone.
LogoutIsLasting ==
    \A r \in Logouts :
        /\ code[r] = 200 /\ r \notin undone => \A type \in Types :
              Listed(arg[r][type]) \/ clock >= exp[arg[r][type]]
        /\ r \in revokers[arg[r]["refresh"]] => r \in revokers[arg[r]["access"]]
===============================================================================
