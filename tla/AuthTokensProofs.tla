--------------------------- MODULE AuthTokensProofs ---------------------------
(***************************************************************************)
(* Theorems about AuthTokens for any number of requests, users and faults, *)
(* any lifetimes and any time.                                             *)
(*                                                                         *)
(* IInv is the inductive invariant: the types, what is true of each token  *)
(* (TokenOK) and what each request may rely on at each await (ReqOK).      *)
(***************************************************************************)
EXTENDS AuthTokens, TLAPS

Life(t) == Lifetime[t[2]] * Second

\* The bound on exp is what makes the entry of a revoked token, which gets a
\* full lifetime from the revocation on, outlive the token.  What was revoked
\* before memory and file began to differ is in the file too.
TokenOK(t) ==
    /\ exp[t] <= clock + Life(t)
    /\ Created(t) => pc[t[1]] = "done"
    /\ \A q \in revokers[t] :
          /\ Created(t) /\ when[q] >= 0
          /\ q \notin undone => exp[t] <= blacklist[t]
          /\ q \notin undone /\ when[q] < clock - age => exp[t] <= disk[t]

\* The token that r presents as one of this type is one.
Presents(r, type) == Created(arg[r][type]) /\ arg[r][type][2] = type

Unrevoking == {"idle", "check_refresh", "check_access", "revoke_access"}

LogoutOK(r) ==
    /\ pc[r] \in {"check_access", "revoke_access"} => Presents(r, "refresh")
    /\ pc[r] \in Unrevoking => \A t \in Tokens : r \notin revokers[t]
    /\ pc[r] = "revoke_refresh" => r \in revokers[arg[r]["access"]]
    /\ code[r] = 200 => \A type \in Types : r \in revokers[arg[r][type]]
    /\ r \in revokers[arg[r]["refresh"]] => r \in revokers[arg[r]["access"]]

ReqOK(r) ==
    /\ pc[r] \in {"revoke_access", "revoke_refresh"} => r \in Refreshes \cup Logouts
    /\ pc[r] = "revoke_refresh" => Presents(r, "refresh")
    /\ pc[r] = "revoke_access" => Presents(r, "access") /\ Presents(r, "refresh")
    /\ code[r] \in {0, 200} => \A s \in seen[r] : s.ended
    /\ r \in Logouts => LogoutOK(r)

IInv ==
    /\ TypeOK
    /\ \A t \in Tokens : TokenOK(t)
    /\ \A r \in Requests : ReqOK(r)

LEMMA LifeIsNat == \A t \in Tokens : Life(t) \in Nat
<1> SUFFICES ASSUME NEW t \in Tokens PROVE Life(t) \in Nat
  OBVIOUS
<1>1. t[2] \in Types
  BY DEF Tokens
<1>2. \A l \in Nat, n \in Nat : l * n \in Nat
  OBVIOUS
<1> QED
  BY <1>1, <1>2, AuthTokensAssumption DEF Life

LEMMA InitIInv == Init => IInv
<1> SUFFICES ASSUME Init PROVE IInv
  OBVIOUS
<1>1. TypeOK
  <2>1. \E t \in Logins \X Types : TRUE
    <3>1. PICK q \in Logins : TRUE
      BY AuthTokensAssumption
    <3>2. <<q, "access">> \in Logins \X Types
      BY DEF Types
    <3> QED
      BY <3>2
  <2>2. (CHOOSE t \in Logins \X Types : TRUE) \in Tokens
    <3>1. (CHOOSE t \in Logins \X Types : TRUE) \in Logins \X Types
      BY <2>1
    <3> QED
      BY <3>1 DEF Tokens, Makers
  <2>3. arg \in [Requests -> [Types -> Tokens]]
    BY <2>2, Zenon DEF Init
  <2>4. clock \in 0 .. MaxClock /\ faults \in 0 .. MaxFaults
    BY AuthTokensAssumption DEF Init
  <2>5. age \in 0 .. Second
    BY AuthTokensAssumption DEF Init
  <2>6. /\ user \in [Makers -> Users]
        /\ exp \in [Tokens -> Int] /\ blacklist \in [Tokens -> Int] /\ disk \in [Tokens -> Int]
        /\ revokers \in [Tokens -> SUBSET (Refreshes \cup Logouts)]
        /\ when \in [Requests -> Int] /\ undone \subseteq Requests
    BY DEF Init
  <2>7. /\ pc = [r \in Requests |-> "idle"] /\ code = [r \in Requests |-> 0]
        /\ seen = [r \in Requests |-> {}]
    BY DEF Init
  <2> QED
    BY <2>3, <2>4, <2>5, <2>6, <2>7 DEF TypeOK
<1>2. ASSUME NEW t \in Tokens PROVE TokenOK(t)
  <2>1. exp[t] = -1 /\ revokers[t] = {} /\ clock = 0
    BY DEF Init
  <2>2. Life(t) \in Nat
    BY LifeIsNat
  <2> QED
    BY <2>1, <2>2 DEF TokenOK, Created
<1>3. ASSUME NEW r \in Requests PROVE ReqOK(r)
  <2>1. pc[r] = "idle" /\ code[r] = 0 /\ seen[r] = {}
    BY DEF Init
  <2>2. \A t \in Tokens : revokers[t] = {}
    BY DEF Init
  <2>3. \A type \in Types : arg[r][type] \in Tokens
    BY <1>1 DEF TypeOK
  <2> QED
    BY <2>1, <2>2, <2>3 DEF ReqOK, LogoutOK, Types
<1> QED
  BY <1>1, <1>2, <1>3 DEF IInv

\* What a step of request r may do to the others: nothing but end tokens' lives
\* later, revoke tokens in its own name and issue its own.
Step(r) ==
    /\ clock' = clock
    /\ \A t \in Tokens : t[1] # r => exp'[t] = exp[t]
    /\ \A q \in Requests : q # r =>
          /\ pc'[q] = pc[q] /\ code'[q] = code[q] /\ arg'[q] = arg[q] /\ seen'[q] = seen[q]
          /\ when'[q] = when[q]
    /\ \A t \in Tokens : revokers'[t] = revokers[t] \/ revokers'[t] = revokers[t] \cup {r}
    /\ UNCHANGED <<disk, age, undone>>

\* Such a step leaves the others' part of the invariant alone.
LEMMA OthersKept ==
  ASSUME IInv, NEW r \in Requests, pc[r] # "done", Step(r),
         NEW q \in Requests, q # r
  PROVE  ReqOK(q)'
<1> USE DEF IInv
<1>1. ReqOK(q)
  OBVIOUS
<1>2. pc'[q] = pc[q] /\ code'[q] = code[q] /\ arg'[q] = arg[q] /\ seen'[q] = seen[q]
  BY DEF Step
<1>3. arg[q] \in [Types -> Tokens]
  BY DEF TypeOK
<1>4. \A t \in Tokens : q \in revokers'[t] <=> q \in revokers[t]
  BY DEF Step
<1>5. ASSUME NEW t \in Tokens, Created(t) PROVE exp'[t] = exp[t]
  <2>1. TokenOK(t)
    OBVIOUS
  <2>2. t[1] # r
    BY <2>1, <1>5 DEF TokenOK
  <2> QED
    BY <2>2 DEF Step
<1>6. ASSUME NEW type \in Types, Presents(q, type) PROVE Presents(q, type)'
  BY <1>2, <1>3, <1>5, <1>6 DEF Presents, Created
<1>7. LogoutOK(q) => LogoutOK(q)'
  BY <1>2, <1>3, <1>4, <1>6 DEF LogoutOK, Types
<1> QED
  BY <1>1, <1>2, <1>6, <1>7 DEF ReqOK, Types

\* A step that leaves the tokens alone.
LEMMA QuietStep ==
  ASSUME IInv, NEW r \in Requests, pc[r] # "done", Step(r),
         UNCHANGED <<exp, blacklist, revokers, when>>,
         TypeOK', ReqOK(r)'
  PROVE  IInv'
<1> USE DEF IInv
<1>1. ASSUME NEW t \in Tokens PROVE TokenOK(t)'
  <2>1. TokenOK(t)
    OBVIOUS
  <2>2. t[1] \in Requests
    BY DEF Tokens, Requests
  <2>3. Created(t) => t[1] # r
    BY <2>1 DEF TokenOK
  <2> QED
    BY <2>1, <2>2, <2>3 DEF Step, TokenOK, Created, Life
<1>2. ASSUME NEW q \in Requests PROVE ReqOK(q)'
  BY OthersKept
<1> QED
  BY <1>1, <1>2

\* Request r puts the token it presents on the blacklist, and may issue its own.
LEMMA RevokeStep ==
  ASSUME IInv, NEW r \in Refreshes \cup Logouts, pc[r] # "done", NEW type \in Types,
         Presents(r, type), Revoke(r, arg[r][type], type), Step(r),
         \/ exp' = exp
         \/ \E u : Issue(r, u) /\ pc'[r] = "done",
         TypeOK', ReqOK(r)'
  PROVE  IInv'
<1> USE DEF IInv
<1> DEFINE old == arg[r][type]
<1>0. r \in Requests
  BY DEF Requests, Makers
<1>1. old \in Tokens /\ old[2] = type /\ Created(old) /\ TokenOK(old)
  BY <1>0 DEF Presents, TypeOK
<1>2. old[1] # r
  BY <1>1 DEF TokenOK
<1>3. clock \in Int /\ clock' = clock /\ age \in Nat /\ age' = age /\ disk' = disk /\ undone' = undone
  BY AuthTokensAssumption DEF TypeOK, Step
<1>13. when'[r] = clock /\ \A q \in Requests : q # r => when'[q] = when[q]
  BY <1>0 DEF Revoke, TypeOK
<1>4. ASSUME NEW t \in Tokens PROVE TokenOK(t)'
  <2>1. TokenOK(t) /\ t[1] \in Requests
    BY DEF Tokens, Requests
  <2>2. blacklist'[t] = (IF t = old THEN clock + Life(old) ELSE blacklist[t])
    BY <1>1 DEF Revoke, TypeOK, Life
  <2>3. t # old => revokers'[t] = revokers[t]
    BY DEF Revoke, TypeOK
  <2>4. CASE t[1] # r
    <3>1. exp'[t] = exp[t] /\ pc'[t[1]] = pc[t[1]]
      BY <2>1, <2>4, <1>0 DEF Step
    <3>2. (exp[t] <= clock + Life(t))' <=> exp[t] <= clock + Life(t)
      BY <3>1, <1>3 DEF Life
    <3>3. Created(t)' <=> Created(t)
      BY <3>1 DEF Created
    <3>4. ASSUME NEW q \in revokers'[t]
          PROVE  /\ Created(t) /\ when'[q] >= 0
                 /\ q \notin undone => exp[t] <= blacklist'[t]
                 /\ q \notin undone /\ when'[q] < clock - age => exp[t] <= disk[t]
      <4>1. q \in Requests /\ exp[t] \in Int
        <5>1. revokers'[t] \subseteq Refreshes \cup Logouts
          BY DEF TypeOK
        <5> QED
          BY <5>1 DEF Requests, Makers, TypeOK
      <4>2. q = r \/ q \in revokers[t]
        BY DEF Step
      <4>3. q = r => t = old \/ q \in revokers[t]
        BY <2>3
      <4>4. Created(t)
        BY <2>1, <4>2, <4>3, <1>1 DEF TokenOK
      <4>5. q \notin undone => exp[t] <= blacklist'[t]
        <5>1. CASE t = old
          BY <5>1, <2>1, <2>2 DEF TokenOK
        <5>2. CASE t # old
          BY <5>2, <2>1, <2>2, <4>2, <4>3 DEF TokenOK
        <5> QED
          BY <5>1, <5>2
      <4>6. CASE q = r
        <5>1. when'[q] = clock /\ clock >= 0
          BY <4>6, <1>13 DEF TypeOK
        <5> QED
          BY <5>1, <4>4, <4>5, <1>3
      <4>7. CASE q # r
        <5>1. q \in revokers[t] /\ when'[q] = when[q]
          BY <4>1, <4>2, <4>7, <1>13
        <5> QED
          BY <5>1, <4>4, <4>5, <2>1 DEF TokenOK
      <4> QED
        BY <4>6, <4>7
    <3> QED
      BY <2>1, <3>1, <3>2, <3>3, <3>4, <1>3 DEF TokenOK
  <2>5. CASE t[1] = r
    <3>1. ~Created(t) /\ revokers[t] = {} /\ t # old
      BY <2>1, <2>5, <1>2 DEF TokenOK
    <3>2. revokers'[t] = {}
      BY <3>1, <2>3
    <3>3. \/ exp'[t] = exp[t]
          \/ exp'[t] = clock + Life(t) /\ pc'[r] = "done"
      BY <2>5 DEF Issue, Life
    <3> QED
      BY <2>1, <2>5, <3>1, <3>2, <3>3, <1>3, LifeIsNat DEF TokenOK, Created, Life, TypeOK
  <2> QED
    BY <2>4, <2>5
<1>5. ASSUME NEW q \in Requests PROVE ReqOK(q)'
  BY <1>0, OthersKept
<1> QED
  BY <1>4, <1>5

\* A request checks a token: what it has seen of a revoked one that is still
\* good is that its life is over.
LEMMA GoodHasEnded ==
  ASSUME IInv, NEW r \in Requests, NEW type \in Types,
         Good(arg[r][type], type), Read(r, type)
  PROVE  /\ Presents(r, type)
         /\ \A s \in seen'[r] : s \in seen[r] \/ s.ended
<1> DEFINE t == arg[r][type]
           new == [token |-> t, ended |-> clock >= exp[t]]
<1>1. t \in Tokens /\ TokenOK(t) /\ exp[t] \in Int /\ blacklist[t] \in Int /\ clock \in Int
  BY DEF IInv, TypeOK
<1>2. ~(revokers[t] \subseteq undone) => clock >= exp[t]
  BY <1>1 DEF Good, Listed, TokenOK
<1>3. \/ seen'[r] = seen[r]
      \/ ~(revokers[t] \subseteq undone) /\ seen'[r] = seen[r] \cup {new}
  BY DEF Read, IInv, TypeOK
<1>4. new.ended = (clock >= exp[t])
  OBVIOUS
<1> HIDE DEF new
<1>5. ASSUME NEW s \in seen'[r] PROVE s \in seen[r] \/ s.ended
  <2>1. CASE s \in seen[r]
    BY <2>1
  <2>2. CASE s = new /\ ~(revokers[t] \subseteq undone)
    BY <1>2, <1>4, <2>2
  <2> QED
    BY <1>3, <2>1, <2>2
<1> QED
  BY <1>5 DEF Good, Presents

\* What Read may change, whatever it reads.
LEMMA ReadType ==
  ASSUME IInv, NEW r \in Requests, NEW type \in Types, Read(r, type)
  PROVE  /\ seen' \in [Requests -> SUBSET [token : Tokens, ended : BOOLEAN]]
         /\ \A q \in Requests : q # r => seen'[q] = seen[q]
<1> DEFINE t == arg[r][type]
           new == [token |-> t, ended |-> clock >= exp[t]]
<1>1. t \in Tokens /\ exp[t] \in Int /\ clock \in Int
  BY DEF IInv, TypeOK
<1>2. new \in [token : Tokens, ended : BOOLEAN]
  BY <1>1
<1>3. seen' = seen \/ seen' = [seen EXCEPT ![r] = @ \cup {new}]
  BY DEF Read
<1> HIDE DEF new
<1> QED
  BY <1>2, <1>3 DEF IInv, TypeOK

Labels == {"idle", "check_refresh", "check_access", "revoke_access", "revoke_refresh", "done"}

\* Where a handler may go and what it may answer, typed.
Moved(r) ==
    /\ pc' \in [Requests -> Labels] /\ code' \in [Requests -> {0, 200, 403, 500}]
    /\ \A q \in Requests : code'[q] # 0 <=> pc'[q] = "done"
    /\ \A q \in Requests : q # r => pc'[q] = pc[q] /\ code'[q] = code[q]

LEMMA GotoMoves ==
  ASSUME TypeOK, NEW r \in Requests, pc[r] # "done",
         NEW l \in Labels, l # "done", Goto(r, l)
  PROVE  Moved(r)
<1>1. code' = code /\ code[r] = 0 /\ pc' = [pc EXCEPT ![r] = l]
  BY DEF Goto, TypeOK
<1> QED
  BY <1>1 DEF TypeOK, Moved, Labels

LEMMA AnswerMoves ==
  ASSUME TypeOK, NEW r \in Requests, NEW c \in {200, 403, 500}, Answer(r, c)
  PROVE  Moved(r)
BY DEF Answer, TypeOK, Moved, Labels

LEMMA BeginStep ==
  ASSUME IInv, NEW r \in Requests, NEW types \in SUBSET Types,
         NEW label \in {"check_access", "check_refresh"}, Begin(r, types, label),
         r \in Logouts => label = "check_refresh", UNCHANGED file
  PROVE  IInv'
<1> USE DEF IInv
<1>1. PICK f \in [types -> {t \in Tokens : Created(t)}] :
         arg' = [arg EXCEPT ![r] = [type \in Types |-> IF type \in types THEN f[type] ELSE @[type]]]
  BY DEF Begin
<1>2. arg'[r] \in [Types -> Tokens] /\ arg' \in [Requests -> [Types -> Tokens]]
  BY <1>1 DEF TypeOK
<1>3. TypeOK' /\ Step(r)
  BY <1>1, <1>2 DEF Begin, Goto, TypeOK, Step, entries, file
<1>4. pc'[r] = label /\ code'[r] = 0 /\ pc[r] = "idle" /\ code[r] = 0
  BY DEF Begin, Goto, TypeOK
<1>5. UNCHANGED <<exp, blacklist, revokers, when, seen>>
  BY DEF Begin, entries
<1>6. ASSUME r \in Logouts PROVE LogoutOK(r)'
  <2>1. \A t \in Tokens : r \notin revokers'[t]
    BY <1>4, <1>5, <1>6 DEF ReqOK, LogoutOK, Unrevoking
  <2> QED
    BY <1>2, <1>4, <1>6, <2>1 DEF LogoutOK, Types
<1>7. ReqOK(r)'
  BY <1>4, <1>5, <1>6 DEF ReqOK
<1> QED
  BY <1>3, <1>4, <1>5, <1>7, QuietStep

\* A request that has found its token good goes on to label, or is answered.
LEMMA CheckStep ==
  ASSUME IInv, NEW r \in Requests, NEW type \in Types, pc[r] = CheckOf[type],
         Good(arg[r][type], type), Read(r, type),
         UNCHANGED <<clock, user, exp, entries, file, arg, faults>>,
         \/ Goto(r, "revoke_refresh") /\ type = "refresh" /\ r \in Refreshes
         \/ Goto(r, "check_access") /\ type = "refresh"
         \/ Goto(r, "revoke_access") /\ type = "access" /\ r \in Logouts
         \/ Answer(r, 200) /\ r \notin Logouts
  PROVE  IInv'
<1> USE DEF IInv
<1>1. pc[r] \in {"check_access", "check_refresh"} /\ code[r] = 0
  BY DEF CheckOf, Types, TypeOK
<1>2. Presents(r, type)' /\ \A s \in seen'[r] : s.ended
  <2>1. Presents(r, type) /\ \A s \in seen'[r] : s \in seen[r] \/ s.ended
    BY GoodHasEnded
  <2>2. \A s \in seen[r] : s.ended
    BY <1>1 DEF ReqOK
  <2> QED
    BY <2>1, <2>2 DEF Presents, Created
<1>3. TypeOK' /\ Step(r)
  <2>1. /\ seen' \in [Requests -> SUBSET [token : Tokens, ended : BOOLEAN]]
        /\ \A q \in Requests : q # r => seen'[q] = seen[q]
    BY ReadType
  <2>2. Moved(r)
    BY <1>1, GotoMoves, AnswerMoves DEF Labels
  <2> QED
    BY <2>1, <2>2 DEF TypeOK, Step, Moved, Labels, entries, file
<1>4. ASSUME r \in Logouts PROVE LogoutOK(r)' /\ (pc'[r] = "revoke_access" => Presents(r, "refresh")')
  <2>1. LogoutOK(r) /\ \A t \in Tokens : r \notin revokers[t]
    BY <1>1, <1>4 DEF ReqOK, LogoutOK, Unrevoking
  <2>2. pc'[r] \in {"check_access", "revoke_access"} /\ code'[r] = 0
    BY <1>1, <1>4, AuthTokensAssumption DEF Goto, TypeOK
  <2>3. Presents(r, "refresh")'
    <3>1. CASE type = "refresh"
      BY <3>1, <1>2
    <3>2. CASE type = "access"
      BY <2>1, <3>2 DEF CheckOf, LogoutOK, Presents, Created
    <3> QED
      BY <3>1, <3>2 DEF Types
  <2>4. arg'[r]["refresh"] \in Tokens /\ revokers' = revokers
    BY DEF TypeOK, Types, entries
  <2> QED
    BY <2>1, <2>2, <2>3, <2>4 DEF LogoutOK
<1>5. ReqOK(r)'
  BY <1>1, <1>2, <1>4 DEF ReqOK, Goto, Answer, TypeOK
<1> QED
  BY <1>1, <1>3, <1>5, QuietStep DEF entries

LEMMA RefuseStep ==
  ASSUME IInv, NEW r \in Requests, NEW type \in Types, Refuse(r, type), UNCHANGED file
  PROVE  IInv'
<1> USE DEF IInv
<1>1. /\ pc[r] \in {"check_access", "check_refresh"} /\ code[r] = 0
      /\ pc'[r] = "done" /\ code'[r] = 403
  BY DEF Refuse, Answer, CheckOf, Types, TypeOK
<1>2. TypeOK' /\ Step(r) /\ UNCHANGED <<exp, blacklist, revokers, when, arg>>
  <2>1. /\ seen' \in [Requests -> SUBSET [token : Tokens, ended : BOOLEAN]]
        /\ \A q \in Requests : q # r => seen'[q] = seen[q]
    BY ReadType DEF Refuse
  <2>2. Moved(r)
    BY AnswerMoves DEF Refuse
  <2> QED
    BY <2>1, <2>2 DEF TypeOK, Step, Moved, Labels, Refuse, entries, file
<1>3. ASSUME r \in Logouts PROVE LogoutOK(r)'
  <2>1. \A t \in Tokens : r \notin revokers[t]
    BY <1>1, <1>3 DEF ReqOK, LogoutOK, Unrevoking
  <2>2. arg'[r]["refresh"] \in Tokens
    BY <1>2 DEF TypeOK, Types
  <2> QED
    BY <1>1, <1>2, <2>1, <2>2 DEF LogoutOK, Unrevoking
<1>4. ReqOK(r)'
  BY <1>1, <1>3 DEF ReqOK
<1> QED
  BY <1>1, <1>2, <1>4, QuietStep

LEMMA LoginStep ==
  ASSUME IInv, NEW r \in Logins, Login(r), UNCHANGED file
  PROVE  IInv'
<1> USE DEF IInv
<1>1. r \in Requests /\ r \in Makers /\ r \notin Logouts
  BY AuthTokensAssumption DEF Requests, Makers
<1>2. /\ pc[r] = "idle" /\ pc'[r] = "done" /\ code[r] = 0 /\ code'[r] = 200
      /\ Moved(r)
      /\ UNCHANGED <<clock, blacklist, when, disk, age, undone, arg, revokers, seen, faults>>
  <2>1. Answer(r, 200) /\ Moved(r)
    BY <1>1, AnswerMoves DEF Login
  <2> QED
    BY <1>1, <2>1 DEF Login, Answer, TypeOK, entries, file
<1>3. clock \in Int /\ \A t \in Tokens : Life(t) \in Nat
  BY LifeIsNat DEF TypeOK
<1>4. \A t \in Tokens : exp'[t] = IF t[1] = r THEN clock + Life(t) ELSE exp[t]
  BY DEF Login, Issue, Life
<1>5. TypeOK'
  <2>1. exp' \in [Tokens -> Int]
    BY <1>3 DEF Login, Issue, Life, TypeOK
  <2>2. user' \in [Makers -> Users]
    BY <1>1 DEF Login, Issue, TypeOK
  <2> QED
    BY <1>2, <2>1, <2>2 DEF TypeOK, Moved, Labels
<1>6. Step(r)
  BY <1>2, <1>4 DEF Step, Moved
<1>7. ASSUME NEW t \in Tokens PROVE TokenOK(t)'
  <2>1. TokenOK(t) /\ t[1] \in Requests /\ exp[t] \in Int
    BY DEF Tokens, Requests, TypeOK
  <2>2. Life(t)' = Life(t)
    BY DEF Life
  <2>3. CASE t[1] = r
    <3>1. revokers[t] = {}
      BY <1>2, <2>1, <2>3 DEF TokenOK
    <3> QED
      BY <1>2, <1>3, <1>4, <2>1, <2>2, <2>3, <3>1 DEF TokenOK
  <2>4. CASE t[1] # r
    BY <1>2, <1>4, <2>1, <2>2, <2>4 DEF TokenOK, Created, Moved
  <2> QED
    BY <2>3, <2>4
<1>8. ASSUME NEW q \in Requests PROVE ReqOK(q)'
  <2>1. CASE q = r
    BY <1>1, <1>2, <2>1 DEF ReqOK
  <2>2. CASE q # r
    BY <1>1, <1>2, <1>6, <2>2, OthersKept
  <2> QED
    BY <2>1, <2>2
<1> QED
  BY <1>5, <1>7, <1>8

\* What putting one token on the blacklist changes.
LEMMA RevokeType ==
  ASSUME TypeOK, NEW r \in Refreshes \cup Logouts, NEW type \in Types, Revoke(r, arg[r][type], type)
  PROVE  /\ blacklist' \in [Tokens -> Int] /\ when' \in [Requests -> Int]
         /\ \A q \in Requests : q # r => when'[q] = when[q]
         /\ revokers' \in [Tokens -> SUBSET (Refreshes \cup Logouts)]
         /\ r \in revokers'[arg[r][type]]
         /\ \A t \in Tokens : t # arg[r][type] => revokers'[t] = revokers[t]
         /\ \A t \in Tokens : revokers'[t] = revokers[t] \/ revokers'[t] = revokers[t] \cup {r}
<1>1. arg[r][type] \in Tokens
  BY DEF TypeOK, Requests, Makers
<1>2. clock + Lifetime[type] * Second \in Int /\ clock \in Int
  <2>1. \A l \in Nat, n \in Nat : l * n \in Int
    OBVIOUS
  <2> QED
    BY <2>1, AuthTokensAssumption DEF TypeOK
<1>3. r \in Requests
  BY DEF Requests, Makers
<1>4. when' \in [Requests -> Int] /\ \A q \in Requests : q # r => when'[q] = when[q]
  BY <1>2, <1>3 DEF Revoke, TypeOK
<1>5. blacklist' \in [Tokens -> Int]
  BY <1>1, <1>2 DEF Revoke, TypeOK
<1>6. /\ revokers' \in [Tokens -> SUBSET (Refreshes \cup Logouts)]
      /\ r \in revokers'[arg[r][type]]
      /\ \A t \in Tokens : t # arg[r][type] => revokers'[t] = revokers[t]
      /\ \A t \in Tokens : revokers'[t] = revokers[t] \/ revokers'[t] = revokers[t] \cup {r}
  BY <1>1 DEF Revoke, TypeOK
<1> QED
  BY <1>4, <1>5, <1>6

LEMMA RefreshStep ==
  ASSUME IInv, NEW r \in Refreshes, Refresh(r), UNCHANGED file
  PROVE  IInv'
<1> USE DEF IInv
<1>1. r \in Requests /\ r \in Makers /\ r \notin Logouts /\ "refresh" \in Types
  BY AuthTokensAssumption DEF Requests, Makers, Types
<1>2. /\ pc[r] = "revoke_refresh" /\ pc'[r] = "done" /\ code[r] = 0 /\ code'[r] = 200
      /\ Moved(r) /\ UNCHANGED <<clock, arg, seen, faults>>
  <2>1. Answer(r, 200) /\ Moved(r)
    BY <1>1, AnswerMoves DEF Refresh
  <2> QED
    BY <1>1, <2>1 DEF Refresh, Answer, TypeOK
<1>3. Presents(r, "refresh") /\ arg[r]["refresh"] \in Tokens
  BY <1>1, <1>2 DEF ReqOK, TypeOK
<1>4. /\ blacklist' \in [Tokens -> Int] /\ revokers' \in [Tokens -> SUBSET (Refreshes \cup Logouts)]
      /\ when' \in [Requests -> Int] /\ \A q \in Requests : q # r => when'[q] = when[q]
      /\ \A t \in Tokens : revokers'[t] = revokers[t] \/ revokers'[t] = revokers[t] \cup {r}
  BY <1>1, RevokeType DEF Refresh
<1>5. exp' \in [Tokens -> Int] /\ user' \in [Makers -> Users]
  <2>1. \A t \in Tokens : clock + Lifetime[t[2]] * Second \in Int
    BY LifeIsNat DEF Life, TypeOK
  <2>2. user[arg[r]["refresh"][1]] \in Users
    BY <1>3 DEF Tokens, TypeOK
  <2> QED
    BY <1>1, <2>1, <2>2 DEF Refresh, Issue, TypeOK
<1>6. TypeOK'
  BY <1>2, <1>4, <1>5 DEF TypeOK, Moved, Labels, file
<1>7. Step(r)
  BY <1>2, <1>4 DEF Step, Moved, Refresh, Issue, file
<1>8. ReqOK(r)'
  BY <1>1, <1>2 DEF ReqOK
<1> QED
  BY <1>1, <1>2, <1>3, <1>6, <1>7, <1>8, RevokeStep DEF Refresh

\* The other ways to write an entry: the two steps of a logout, and a Redis
\* command of which the handler never learns that it took effect.
LEMMA EntryStep ==
  ASSUME IInv, NEW r \in Refreshes \cup Logouts, NEW type \in Types, pc[r] = RevokeOf[type],
         Revoke(r, arg[r][type], type), UNCHANGED <<clock, user, exp, file, arg, seen>>,
         faults' \in 0 .. MaxFaults,
         \/ Goto(r, "revoke_refresh") /\ type = "access"
         \/ Answer(r, 200) /\ type = "refresh"
         \/ Answer(r, 500)
  PROVE  IInv'
<1> USE DEF IInv
<1>1. r \in Requests
  BY DEF Requests, Makers
<1>2. pc[r] # "done" /\ code[r] = 0 /\ pc[r] \notin {"idle", "check_access", "check_refresh"}
  BY <1>1 DEF RevokeOf, Types, TypeOK
<1>3. Moved(r)
  BY <1>1, <1>2, GotoMoves, AnswerMoves DEF Labels
<1>4. /\ blacklist' \in [Tokens -> Int] /\ revokers' \in [Tokens -> SUBSET (Refreshes \cup Logouts)]
      /\ when' \in [Requests -> Int] /\ \A q \in Requests : q # r => when'[q] = when[q]
      /\ r \in revokers'[arg[r][type]]
      /\ \A t \in Tokens : t # arg[r][type] => revokers'[t] = revokers[t]
      /\ \A t \in Tokens : revokers'[t] = revokers[t] \/ revokers'[t] = revokers[t] \cup {r}
  BY RevokeType
<1>5. TypeOK'
  BY <1>3, <1>4 DEF TypeOK, Moved, Labels, file
<1>6. Step(r)
  BY <1>3, <1>4 DEF Step, Moved, file
<1>7. Presents(r, type) /\ Presents(r, "refresh") /\ Presents(r, "refresh")'
  <2>1. CASE type = "access"
    BY <1>1, <2>1 DEF RevokeOf, ReqOK, Presents, Created
  <2>2. CASE type = "refresh"
    BY <1>1, <2>2 DEF RevokeOf, ReqOK, Presents, Created
  <2> QED
    BY <2>1, <2>2 DEF Types
<1>8. arg[r]["access"] \in Tokens /\ arg[r]["refresh"] \in Tokens
  BY <1>1 DEF TypeOK, Types
<1>9. r \in Logouts => r \in revokers'[arg[r]["access"]]
  <2>1. CASE type = "access"
    BY <2>1, <1>4
  <2>2. CASE type = "refresh"
    <3>1. r \in Logouts => r \in revokers[arg[r]["access"]]
      BY <1>1, <2>2 DEF RevokeOf, ReqOK, LogoutOK
    <3> QED
      BY <3>1, <1>4, <1>8
  <2> QED
    BY <2>1, <2>2 DEF Types
<1>10. /\ pc'[r] \in {"revoke_refresh", "done"} /\ code'[r] \in {0, 200, 500}
       /\ code'[r] = 200 => type = "refresh"
  BY <1>1, <1>2 DEF Goto, Answer, TypeOK
<1>11. r \in Logouts => LogoutOK(r)'
  BY <1>4, <1>9, <1>10 DEF LogoutOK, Unrevoking, Types
<1>12. ReqOK(r)'
  BY <1>1, <1>2, <1>7, <1>10, <1>11 DEF ReqOK
<1> QED
  BY <1>2, <1>5, <1>6, <1>7, <1>12, RevokeStep

LEMMA RedisFailsStep ==
  ASSUME IInv, NEW r \in Requests, RedisFails(r), UNCHANGED file
  PROVE  IInv'
<1> USE DEF IInv
<1>1. Answer(r, 500) /\ pc[r] # "done" /\ faults' \in 0 .. MaxFaults
      /\ UNCHANGED <<clock, user, exp, arg, seen>>
  BY AuthTokensAssumption DEF RedisFails, TypeOK
<1>2. CASE \E type \in Types : pc[r] = RevokeOf[type] /\ Revoke(r, arg[r][type], type)
  <2>1. PICK type \in Types : pc[r] = RevokeOf[type] /\ Revoke(r, arg[r][type], type)
    BY <1>2
  <2>2. r \in Refreshes \cup Logouts
    BY <2>1 DEF ReqOK, RevokeOf, Types
  <2> QED
    BY <1>1, <2>1, <2>2, EntryStep
<1>3. CASE UNCHANGED <<blacklist, revokers, when>>
  <2>1. Moved(r)
    BY <1>1, AnswerMoves
  <2>2. TypeOK' /\ Step(r)
    BY <1>1, <1>3, <2>1 DEF TypeOK, Step, Moved, Labels, file
  <2>3. pc'[r] = "done" /\ code'[r] = 500 /\ pc[r] \in Labels \ {"done"}
    BY <1>1 DEF Answer, TypeOK, Labels
  <2>4. ASSUME r \in Logouts PROVE LogoutOK(r)'
    <3>1. LogoutOK(r) /\ arg[r]["refresh"] \in Tokens
      BY <2>4 DEF ReqOK, TypeOK, Types
    <3> QED
      BY <1>1, <1>3, <2>3, <3>1 DEF LogoutOK, Unrevoking, Labels
  <2>5. ReqOK(r)'
    BY <2>3, <2>4 DEF ReqOK
  <2> QED
    BY <1>1, <1>3, <2>2, <2>5, QuietStep
<1> QED
  BY <1>2, <1>3 DEF RedisFails, entries

LEMMA TickStep == IInv /\ Tick => IInv'
<1> SUFFICES ASSUME IInv, Tick PROVE IInv'
  OBVIOUS
<1> USE DEF IInv
<1>1. TypeOK'
  <2>1. age' \in 0 .. Second
    BY AuthTokensAssumption DEF Tick, TypeOK
  <2> QED
    BY <2>1, AuthTokensAssumption DEF Tick, TypeOK, entries
<1>2. ASSUME NEW t \in Tokens PROVE TokenOK(t)'
  <2>1. TokenOK(t) /\ Life(t) \in Nat /\ exp[t] \in Int /\ clock \in Int
    BY LifeIsNat DEF TypeOK
  <2>2. /\ clock' = clock + 1
        /\ UNCHANGED <<exp, blacklist, disk, revokers, when, undone, pc>>
        /\ age' = IF disk = blacklist THEN 0 ELSE age + 1
    BY DEF Tick, entries
  <2>3. (exp[t] <= clock + Life(t))'
    BY <2>1, <2>2 DEF TokenOK, Life
  <2>4. (Created(t) => pc[t[1]] = "done")'
    BY <2>1, <2>2 DEF TokenOK, Created
  <2>5. ASSUME NEW q \in revokers[t], q \notin undone, when[q] < clock' - age'
        PROVE  exp[t] <= disk[t]
    <3>1. CASE disk = blacklist
      BY <2>1, <2>5, <3>1 DEF TokenOK
    <3>2. CASE disk # blacklist
      <4>1. when[q] < clock - age
        BY <2>1, <2>2, <2>5, <3>2 DEF TypeOK
      <4> QED
        BY <2>1, <2>5, <4>1 DEF TokenOK
    <3> QED
      BY <3>1, <3>2
  <2>6. ASSUME NEW q \in revokers[t]
        PROVE  Created(t)' /\ when[q] >= 0 /\ (q \notin undone => exp[t] <= blacklist[t])
    BY <2>1, <2>2 DEF TokenOK, Created
  <2> QED
    BY <2>2, <2>3, <2>4, <2>5, <2>6 DEF TokenOK
<1>3. ASSUME NEW r \in Requests PROVE ReqOK(r)'
  BY DEF Tick, ReqOK, LogoutOK, Presents, Created, entries
<1> QED
  BY <1>1, <1>2, <1>3

LEMMA SyncStep == IInv /\ Sync => IInv'
<1> SUFFICES ASSUME IInv, Sync PROVE IInv'
  OBVIOUS
<1> USE DEF IInv
<1>1. TypeOK'
  BY AuthTokensAssumption DEF Sync, TypeOK, entries
<1>2. ASSUME NEW t \in Tokens PROVE TokenOK(t)'
  <2>1. TokenOK(t)
    OBVIOUS
  <2> QED
    BY <2>1 DEF Sync, TokenOK, Created, Life, entries
<1>3. ASSUME NEW r \in Requests PROVE ReqOK(r)'
  BY DEF Sync, ReqOK, LogoutOK, Presents, Created, entries
<1> QED
  BY <1>1, <1>2, <1>3

\* A revocation that is not undone was made more than a second before, when the
\* file was at most a second behind.
LEMMA CrashStep == IInv /\ Crash => IInv'
<1> SUFFICES ASSUME IInv, Crash PROVE IInv'
  OBVIOUS
<1> USE DEF IInv
<1>1. TypeOK'
  BY AuthTokensAssumption DEF Crash, TypeOK
<1>2. ASSUME NEW t \in Tokens PROVE TokenOK(t)'
  <2>1. TokenOK(t)
    OBVIOUS
  <2>2. /\ UNCHANGED <<clock, exp, disk, revokers, when, pc>>
        /\ blacklist' = disk /\ age' = 0
        /\ undone' = undone \cup {r \in Requests : when[r] >= 0 /\ when[r] + Second >= clock}
    BY DEF Crash
  <2>3. ASSUME NEW q \in revokers[t], q \notin undone'
        PROVE  exp[t] <= disk[t]
    <3>1. q \in Requests
      <4>1. revokers[t] \subseteq Refreshes \cup Logouts
        BY DEF TypeOK
      <4> QED
        BY <4>1 DEF Requests, Makers
    <3>2. when[q] >= 0 /\ q \notin undone /\ when[q] \in Int
      BY <2>1, <2>2, <2>3, <3>1 DEF TokenOK, TypeOK
    <3>3. ~(when[q] + Second >= clock)
      BY <2>2, <2>3, <3>1, <3>2
    <3>4. when[q] < clock - age
      BY <3>2, <3>3, AuthTokensAssumption DEF TypeOK
    <3> QED
      BY <2>1, <3>2, <3>4 DEF TokenOK
  <2> QED
    BY <2>1, <2>2, <2>3 DEF TokenOK, Created, Life
<1>3. ASSUME NEW r \in Requests PROVE ReqOK(r)'
  BY DEF Crash, ReqOK, LogoutOK, Presents, Created
<1> QED
  BY <1>1, <1>2, <1>3

LEMMA NextIInv == IInv /\ [Next]_vars => IInv'
<1> SUFFICES ASSUME IInv, [Next]_vars PROVE IInv'
  OBVIOUS
<1>1. ASSUME NEW r \in Logins, Login(r), UNCHANGED file PROVE IInv'
  BY <1>1, LoginStep
<1>2. ASSUME NEW r \in Uses, ServeUse(r), UNCHANGED file PROVE IInv'
  <2>1. r \in Requests /\ r \notin Logouts /\ "access" \in Types
    BY AuthTokensAssumption DEF Requests, Types
  <2>2. CASE Begin(r, {"access"}, "check_access")
    <3>1. {"access"} \in SUBSET Types
      BY DEF Types
    <3> QED
      BY <1>2, <2>1, <2>2, <3>1, BeginStep
  <2>3. CASE Use(r)
    <3>1. pc[r] = CheckOf["access"]
      BY <2>3 DEF Use, CheckOf
    <3> QED
      BY <1>2, <2>1, <2>3, <3>1, CheckStep DEF Use
  <2>4. CASE Refuse(r, "access")
    BY <1>2, <2>1, <2>4, RefuseStep
  <2> QED
    BY <1>2, <2>2, <2>3, <2>4 DEF ServeUse
<1>3. ASSUME NEW r \in Refreshes, ServeRefresh(r), UNCHANGED file PROVE IInv'
  <2>1. r \in Requests /\ r \notin Logouts /\ "refresh" \in Types
    BY AuthTokensAssumption DEF Requests, Makers, Types
  <2>2. CASE Begin(r, {"refresh"}, "check_refresh")
    <3>1. {"refresh"} \in SUBSET Types
      BY DEF Types
    <3> QED
      BY <1>3, <2>1, <2>2, <3>1, BeginStep
  <2>3. CASE Check(r, "refresh", "revoke_refresh")
    BY <1>3, <2>1, <2>3, CheckStep DEF Check
  <2>4. CASE Refuse(r, "refresh")
    BY <1>3, <2>1, <2>4, RefuseStep
  <2>5. CASE Refresh(r)
    BY <1>3, <2>5, RefreshStep
  <2> QED
    BY <1>3, <2>2, <2>3, <2>4, <2>5 DEF ServeRefresh
<1>4. ASSUME NEW r \in Logouts, ServeLogout(r), UNCHANGED file PROVE IInv'
  <2>1. r \in Requests /\ "access" \in Types /\ "refresh" \in Types /\ Types \in SUBSET Types
    BY DEF Requests, Types
  <2>2. CASE Begin(r, Types, "check_refresh")
    BY <1>4, <2>1, <2>2, BeginStep
  <2>3. CASE Check(r, "refresh", "check_access")
    BY <1>4, <2>1, <2>3, CheckStep DEF Check
  <2>4. CASE Check(r, "access", "revoke_access")
    BY <1>4, <2>1, <2>4, CheckStep DEF Check
  <2>5. CASE \E type \in Types : Refuse(r, type)
    BY <1>4, <2>1, <2>5, RefuseStep
  <2>6. CASE LogoutAccess(r)
    <3>1. pc[r] = RevokeOf["access"] /\ faults' \in 0 .. MaxFaults
      BY <2>6 DEF LogoutAccess, RevokeOf, IInv, TypeOK
    <3> QED
      BY <1>4, <2>1, <2>6, <3>1, EntryStep DEF LogoutAccess
  <2>7. CASE LogoutRefresh(r)
    <3>1. pc[r] = RevokeOf["refresh"] /\ faults' \in 0 .. MaxFaults
      BY <2>7 DEF LogoutRefresh, RevokeOf, IInv, TypeOK
    <3> QED
      BY <1>4, <2>1, <2>7, <3>1, EntryStep DEF LogoutRefresh
  <2> QED
    BY <1>4, <2>2, <2>3, <2>4, <2>5, <2>6, <2>7 DEF ServeLogout
<1>5. ASSUME NEW r \in Requests, RedisFails(r), UNCHANGED file PROVE IInv'
  BY <1>5, RedisFailsStep
<1>6. CASE Tick
  BY <1>6, TickStep
<1>7. CASE UNCHANGED vars
  <2> USE <1>7 DEF vars, entries, file, IInv
  <2>1. TypeOK'
    BY DEF TypeOK
  <2>2. ASSUME NEW t \in Tokens PROVE TokenOK(t)'
    BY DEF TokenOK, Created, Life
  <2>3. ASSUME NEW r \in Requests PROVE ReqOK(r)'
    BY DEF ReqOK, LogoutOK, Presents, Created
  <2> QED
    BY <2>1, <2>2, <2>3
<1>8. CASE Sync
  BY <1>8, SyncStep
<1>9. CASE Crash
  BY <1>9, CrashStep
<1> QED
  BY <1>1, <1>2, <1>3, <1>4, <1>5, <1>6, <1>7, <1>8, <1>9 DEF Next, Serve

\* The inductive invariant holds in every state of every behaviour.
THEOREM Invariance == Spec => []IInv
<1> QED
  BY InitIInv, NextIInv, PTL DEF Spec

\* Clock, tokens, entries and requests keep their types in every behaviour.
THEOREM TypeCorrect == Spec => []TypeOK
<1>1. IInv => TypeOK
  BY DEF IInv
<1> QED
  BY <1>1, Invariance, PTL

\* Whatever the lifetimes, whoever revokes a token however often and whenever
\* the clock moves: a request that is served has checked no token (jwt.py's
\* get_access_token_data, get_refresh_token_data) that was revoked and still in
\* its life, unless Redis crashed within a second of every revocation of it.
THEOREM RevokedIsRefusedAlways == Spec => []RevokedIsRefused
<1>1. IInv => RevokedIsRefused
  BY DEF IInv, ReqOK, RevokedIsRefused
<1> QED
  BY <1>1, Invariance, PTL

\* logout_user that answered keeps both tokens out for the rest of their lives,
\* unless Redis crashes within a second; one that failed has not revoked the refresh token without the access token.
THEOREM LogoutIsLastingAlways == Spec => []LogoutIsLasting
<1>1. IInv => LogoutIsLasting
  <2> SUFFICES ASSUME IInv, NEW r \in Logouts
               PROVE  /\ code[r] = 200 /\ r \notin undone => \A type \in Types :
                            Listed(arg[r][type]) \/ clock >= exp[arg[r][type]]
                      /\ r \in revokers[arg[r]["refresh"]] => r \in revokers[arg[r]["access"]]
    BY DEF LogoutIsLasting
  <2>1. r \in Requests /\ LogoutOK(r)
    BY DEF IInv, ReqOK, Requests
  <2>2. ASSUME code[r] = 200, r \notin undone, NEW type \in Types
        PROVE  Listed(arg[r][type]) \/ clock >= exp[arg[r][type]]
    <3> DEFINE t == arg[r][type]
    <3>1. t \in Tokens /\ exp[t] \in Int /\ blacklist[t] \in Int /\ clock \in Int
      BY <2>1 DEF IInv, TypeOK
    <3>2. r \in revokers[t]
      BY <2>1, <2>2 DEF LogoutOK
    <3>3. exp[t] <= blacklist[t]
      BY <2>2, <3>1, <3>2 DEF IInv, TokenOK
    <3> QED
      BY <3>1, <3>3 DEF Listed
  <2> QED
    BY <2>1, <2>2 DEF LogoutOK
<1> QED
  BY <1>1, Invariance, PTL

===============================================================================
