--------------------------- MODULE AuthUsersProofs ---------------------------
(***************************************************************************)
(* Theorems about AuthUsers for any number of signups, logins, lookups and *)
(* failures, any bodies and any number of attempts.                        *)
(*                                                                         *)
(* IInv is the inductive invariant.  A step touches one request, and all   *)
(* it may do to the table is to insert the new account of that request     *)
(* (Touches): so each request is looked at when it steps itself, and when  *)
(* another one inserts.                                                    *)
(***************************************************************************)
EXTENDS AuthUsers, TLAPS

\* A row is what its signup was given: this and the unique contacts make a
\* second row of one signup impossible.
FromSignup(u) ==
    LET c == call[u.id[1]]
    IN  u.contact = c.contact /\ u.login = c.login /\ u.password = c.password

HasNone(r) == \A u \in users : u.id[1] # r

\* The check of contact k found nobody.
Checked(r, k) ==
    /\ call[r].contact[k] # None
    /\ pc[r] \in {"create", "refresh"} \/ (pc[r] = "phone" /\ k = "email")

NobodyBefore(r, k) ==
    \A u \in users : u.contact[k] = call[r].contact[k] /\ u.id[1] # r => u.id \notin before[r]

SignupOK(r) ==
    /\ pc[r] \in Contacts => call[r].contact[pc[r]] # None
    /\ pc[r] \in {"idle", "email", "phone"} => HasNone(r)
    /\ pc[r] = "create" /\ r \notin struck => HasNone(r)
    /\ pc[r] = "refresh" => NewAccount(r) \in users
    /\ \A k \in Contacts : Checked(r, k) => NobodyBefore(r, k)
    /\ SignupAnswer(r)

ReqOK(r) ==
    /\ pc[r] # "done" => code[r] = "none"
    /\ before[r] \subseteq Stored
    /\ r \in Signups => SignupOK(r)
    /\ r \in SignIns => SignInAnswer(r)
    /\ r \in Lookups => LookupAnswer(r)

IInv ==
    /\ TypeOK
    /\ OneAccountPerContact
    /\ \A u \in users : FromSignup(u)
    /\ \A r \in Requests : ReqOK(r)

-------------------------------------------------------------------------------
(* Types. *)

LEMMA CallTypes ==
    ASSUME TypeOK
    PROVE  /\ \A r \in Signups : /\ call[r].contact \in Contact
                                 /\ call[r].login \in LoginNames
                                 /\ call[r].password \in Data
                                 /\ Reachable(call[r].contact)
           /\ \A r \in SignIns : /\ call[r].contact \in Contact
                                 /\ Reachable(call[r].contact)
BY AuthUsersAssumption DEF TypeOK

LEMMA NewAccountType ==
    ASSUME TypeOK, NEW r \in Signups
    PROVE  NewAccount(r) \in Account
<1>1. tries[r] \in 0 .. Attempts - 1
  BY DEF TypeOK, Requests
<1> QED
  BY <1>1, CallTypes DEF NewAccount, Account, Ids

LEMMA GotoTypes ==
    ASSUME TypeOK, NEW r \in Requests, NEW label \in Awaits, Goto(r, label)
    PROVE  /\ pc' \in [Requests -> Awaits \cup Stops]
           /\ code' \in [Requests -> Codes]
           /\ tries' \in [Requests -> 0 .. Attempts - 1]
BY AuthUsersAssumption DEF TypeOK, Goto

LEMMA AnswerTypes ==
    ASSUME TypeOK, NEW r \in Requests, NEW c \in Codes, Answer(r, c)
    PROVE  /\ pc' \in [Requests -> Awaits \cup Stops]
           /\ code' \in [Requests -> Codes]
           /\ tries' \in [Requests -> 0 .. Attempts - 1]
BY DEF TypeOK, Answer, Stops

LEMMA StrikeTypes ==
    ASSUME TypeOK, NEW r \in Requests, Strike(r)
    PROVE  struck' \subseteq Requests /\ faults' \in 0 .. MaxFaults
BY AuthUsersAssumption DEF TypeOK, Strike

LEMMA CodesAre == {"200", "401", "409 email", "409 phone", "500", "OK", "NOT_FOUND",
                   "INVALID_ARGUMENT", "UNKNOWN", "UNAVAILABLE"} \subseteq Codes
BY DEF Codes

LEMMA InitType == Init => TypeOK
<1> SUFFICES ASSUME Init PROVE TypeOK
  OBVIOUS
<1>1. /\ DOMAIN call = Requests
      /\ \A r \in Signups : call[r] \in SignupCalls
      /\ \A r \in SignIns : call[r] \in SignInCalls
      /\ \A q \in Lookups : call[q] \in LookupCall
  <2>1. PICK f \in [Signups -> SignupCalls], g \in [SignIns -> SignInCalls],
             h \in [Lookups -> LookupCall] :
                call = [r \in Requests |-> IF r \in Signups THEN f[r]
                                           ELSE IF r \in SignIns THEN g[r] ELSE h[r]]
    BY DEF Init
  <2> QED
    BY <2>1, AuthUsersAssumption DEF Requests
<1>2. 0 \in 0 .. Attempts - 1 /\ 0 \in 0 .. MaxFaults
  BY AuthUsersAssumption
<1> QED
  BY <1>1, <1>2 DEF Init, TypeOK, Awaits, Stops, Codes

LEMMA NextType == TypeOK /\ [Next]_vars => TypeOK'
<1> SUFFICES ASSUME TypeOK, [Next]_vars PROVE TypeOK'
  OBVIOUS
<1>u. CASE UNCHANGED vars
  BY <1>u DEF TypeOK, vars
<1>1. ASSUME NEW r \in Requests, NEW label \in Awaits, Begin(r, label) PROVE TypeOK'
  <2>1. before' \in [Requests -> SUBSET Ids]
    BY <1>1 DEF Begin, TypeOK, Stored, Account
  <2> QED
    BY <1>1, <2>1, GotoTypes DEF Begin, TypeOK, Failures
<1>2. ASSUME NEW r \in Signups, Signup(r) PROVE TypeOK'
  <2> r \in Requests
    BY DEF Requests
  <2>1. CASE Begin(r, FirstCheck(r))
    BY <1>1, <2>1 DEF FirstCheck, Awaits
  <2>2. ASSUME NEW k \in Contacts, CheckFree(r, k) PROVE TypeOK'
    <3>1. NextCheck(r, k) \in Awaits
      BY DEF NextCheck, Awaits
    <3> QED
      BY <2>2, <3>1, GotoTypes DEF CheckFree, TypeOK, History, Failures
  <2>3. ASSUME NEW k \in Contacts, CheckTaken(r, k) PROVE TypeOK'
    <3>1. Conflict[k] \in Codes
      <4>1. k = "email" \/ k = "phone"
        BY DEF Contacts
      <4>2. Conflict["email"] = "409 email" /\ Conflict["phone"] = "409 phone"
        BY DEF Conflict
      <4> QED
        BY <4>1, <4>2, CodesAre
    <3> QED
      BY <2>3, <3>1, AnswerTypes DEF CheckTaken, TypeOK, History, Failures
  <2>4. CASE Create(r)
    BY <2>4, NewAccountType DEF Create, TypeOK, History, Failures, Awaits
  <2>5. CASE CreateCollides(r)
    BY <2>5, AnswerTypes, CodesAre DEF CreateCollides, TypeOK, History, Failures
  <2>6. CASE CreateUnconfirmed(r)
    BY <2>6, AnswerTypes, CodesAre, StrikeTypes, NewAccountType
    DEF CreateUnconfirmed, TypeOK, History
  <2>7. CASE Refresh(r)
    <3>1. <<r, tries[r]>> \in Ids
      BY DEF Ids, TypeOK
    <3> QED
      BY <2>7, <3>1, AnswerTypes, CodesAre DEF Refresh, TypeOK, History, Failures
  <2>8. CASE CreateAgain(r)
    <3>1. tries' \in [Requests -> 0 .. Attempts - 1]
      BY <2>8, AuthUsersAssumption DEF CreateAgain, TypeOK
    <3> QED
      BY <2>8, <3>1, StrikeTypes DEF CreateAgain, TypeOK, History, Awaits
  <2> QED
    BY <1>2, <2>1, <2>2, <2>3, <2>4, <2>5, <2>6, <2>7, <2>8 DEF Signup
<1>3. ASSUME NEW r \in SignIns, SignIn(r) PROVE TypeOK'
  <2> r \in Requests
    BY DEF Requests
  <2>1. CASE Begin(r, "read")
    BY <1>1, <2>1 DEF Awaits
  <2>2. CASE Authenticate(r)
    <3>1. found' \in [Requests -> Ids \cup {None}]
      BY <2>2 DEF Authenticate, TypeOK, Matches, Account
    <3> QED
      BY <2>2, <3>1, AnswerTypes, CodesAre DEF Authenticate, TypeOK, History, Failures
  <2>3. CASE Reject(r)
    BY <2>3, AnswerTypes, CodesAre DEF Reject, TypeOK, History, Failures
  <2> QED
    BY <1>3, <2>1, <2>2, <2>3 DEF SignIn
<1>4. ASSUME NEW q \in Lookups, LookUp(q) PROVE TypeOK'
  <2> q \in Requests
    BY DEF Requests
  <2>1. CASE Begin(q, "read")
    BY <1>1, <2>1 DEF Awaits
  <2>2. CASE RefuseId(q)
    BY <2>2, AnswerTypes, CodesAre DEF RefuseId, TypeOK, History, Failures
  <2>3. CASE GetUserByLogin(q)
    <3>1. found' \in [Requests -> Ids \cup {None}]
      BY <2>3 DEF GetUserByLogin, TypeOK, Account
    <3>2. Answer(q, "NOT_FOUND") \/ Answer(q, "OK")
      BY <2>3 DEF GetUserByLogin
    <3> QED
      BY <2>3, <3>1, <3>2, AnswerTypes, CodesAre DEF GetUserByLogin, TypeOK, History, Failures
  <2>4. CASE GetUserById(q)
    <3>1. found' \in [Requests -> Ids \cup {None}]
      BY <2>4 DEF GetUserById, TypeOK, Stored, Account
    <3>2. Answer(q, "NOT_FOUND") \/ Answer(q, "OK")
      BY <2>4 DEF GetUserById
    <3> QED
      BY <2>4, <3>1, <3>2, AnswerTypes, CodesAre DEF GetUserById, TypeOK, History, Failures
  <2>5. CASE AuthUnavailable(q)
    BY <2>5, AnswerTypes, CodesAre, StrikeTypes DEF AuthUnavailable, TypeOK, History
  <2> QED
    BY <1>4, <2>1, <2>2, <2>3, <2>4, <2>5 DEF LookUp
<1>5. ASSUME NEW r \in Requests, ReadAgain(r) PROVE TypeOK'
  <2>1. tries' \in [Requests -> 0 .. Attempts - 1]
    BY <1>5, AuthUsersAssumption DEF ReadAgain, TypeOK
  <2> QED
    BY <1>5, <2>1, StrikeTypes DEF ReadAgain, TypeOK, History
<1>6. ASSUME NEW r \in Requests, CallFails(r) PROVE TypeOK'
  <2>1. PICK c \in {"500", "UNKNOWN"} : Answer(r, c)
    BY <1>6 DEF CallFails
  <2> QED
    BY <1>6, <2>1, AnswerTypes, CodesAre, StrikeTypes DEF CallFails, TypeOK, History
<1> QED
  BY <1>u, <1>2, <1>3, <1>4, <1>5, <1>6 DEF Next

\* Every row, request and history variable has its type.
THEOREM TypeCorrect == Spec => []TypeOK
<1> QED
  BY InitType, NextType, PTL DEF Spec

-------------------------------------------------------------------------------
(* What a step does to the table and to the other requests. *)

Touches(r) ==
    /\ call' = call
    /\ users \subseteq users'
    /\ \A u \in users' \ users : r \in Signups /\ u = NewAccount(r) /\ Unique(u)
    /\ \A q \in Requests \ {r} :
          /\ pc'[q] = pc[q] /\ code'[q] = code[q] /\ tries'[q] = tries[q]
          /\ found'[q] = found[q] /\ before'[q] = before[q]
          /\ q \in struck' <=> q \in struck

LEMMA GotoOthers ==
    ASSUME TypeOK, NEW r \in Requests, NEW label, Goto(r, label)
    PROVE  /\ pc'[r] = label /\ code' = code
           /\ \A q \in Requests \ {r} : pc'[q] = pc[q] /\ tries'[q] = tries[q]
BY DEF TypeOK, Goto

LEMMA AnswerOthers ==
    ASSUME TypeOK, NEW r \in Requests, NEW c, Answer(r, c)
    PROVE  /\ pc'[r] = "done" /\ code'[r] = c /\ tries' = tries
           /\ \A q \in Requests \ {r} : pc'[q] = pc[q] /\ code'[q] = code[q]
BY DEF TypeOK, Answer

LEMMA StrikeOthers ==
    ASSUME NEW r \in Requests, Strike(r)
    PROVE  r \in struck' /\ \A q \in Requests \ {r} : q \in struck' <=> q \in struck
BY DEF Strike

LEMMA BeginTouches ==
    ASSUME TypeOK, NEW r \in Requests, NEW label, Begin(r, label)
    PROVE  Touches(r)
<1>1. \A q \in Requests \ {r} : before'[q] = before[q]
  BY DEF Begin, TypeOK
<1> QED
  BY <1>1, GotoOthers DEF Begin, Touches, Failures

LEMMA FailureTouches ==
    ASSUME TypeOK, NEW r \in Requests, ReadAgain(r) \/ CallFails(r)
    PROVE  Touches(r)
<1>1. CASE ReadAgain(r)
  <2>1. \A q \in Requests \ {r} : tries'[q] = tries[q]
    BY <1>1 DEF ReadAgain, TypeOK
  <2> QED
    BY <1>1, <2>1, StrikeOthers DEF ReadAgain, Touches, History
<1>2. CASE CallFails(r)
  BY <1>2, AnswerOthers, StrikeOthers DEF CallFails, Touches, History
<1> QED
  BY <1>1, <1>2

LEMMA SignupTouches ==
    ASSUME TypeOK, NEW r \in Signups, Signup(r)
    PROVE  Touches(r)
<1> r \in Requests
  BY DEF Requests
<1>1. CASE Begin(r, FirstCheck(r))
  BY <1>1, BeginTouches
<1>2. ASSUME NEW k \in Contacts, CheckFree(r, k) PROVE Touches(r)
  BY <1>2, GotoOthers DEF CheckFree, Touches, History, Failures
<1>3. ASSUME NEW k \in Contacts, CheckTaken(r, k) PROVE Touches(r)
  BY <1>3, AnswerOthers DEF CheckTaken, Touches, History, Failures
<1>4. CASE Create(r)
  <2>1. \A q \in Requests \ {r} : pc'[q] = pc[q]
    BY <1>4 DEF Create, TypeOK
  <2> QED
    BY <1>4, <2>1 DEF Create, Touches, History, Failures
<1>5. CASE CreateCollides(r)
  BY <1>5, AnswerOthers DEF CreateCollides, Touches, History, Failures
<1>6. CASE CreateUnconfirmed(r)
  BY <1>6, AnswerOthers, StrikeOthers DEF CreateUnconfirmed, Touches, History
<1>7. CASE Refresh(r)
  <2>1. \A q \in Requests \ {r} : found'[q] = found[q]
    BY <1>7 DEF Refresh, TypeOK
  <2> QED
    BY <1>7, <2>1, AnswerOthers DEF Refresh, Touches, History, Failures
<1>8. CASE CreateAgain(r)
  <2>1. \A q \in Requests \ {r} : pc'[q] = pc[q] /\ tries'[q] = tries[q]
    BY <1>8 DEF CreateAgain, TypeOK
  <2> QED
    BY <1>8, <2>1, StrikeOthers DEF CreateAgain, Touches, History
<1> QED
  BY <1>1, <1>2, <1>3, <1>4, <1>5, <1>6, <1>7, <1>8 DEF Signup

LEMMA SignInTouches ==
    ASSUME TypeOK, NEW r \in SignIns, SignIn(r)
    PROVE  Touches(r) /\ users' = users
<1> r \in Requests
  BY DEF Requests
<1>1. CASE Begin(r, "read")
  BY <1>1, BeginTouches DEF Begin
<1>2. CASE Authenticate(r)
  <2>1. \A q \in Requests \ {r} : found'[q] = found[q]
    BY <1>2 DEF Authenticate, TypeOK
  <2> QED
    BY <1>2, <2>1, AnswerOthers DEF Authenticate, Touches, History, Failures
<1>3. CASE Reject(r)
  BY <1>3, AnswerOthers DEF Reject, Touches, History, Failures
<1> QED
  BY <1>1, <1>2, <1>3 DEF SignIn

LEMMA LookUpTouches ==
    ASSUME TypeOK, NEW q \in Lookups, LookUp(q)
    PROVE  Touches(q) /\ users' = users
<1> q \in Requests
  BY DEF Requests
<1>1. CASE Begin(q, "read")
  BY <1>1, BeginTouches DEF Begin
<1>2. CASE RefuseId(q)
  BY <1>2, AnswerOthers DEF RefuseId, Touches, History, Failures
<1>3. CASE GetUserByLogin(q)
  <2>1. \A p \in Requests \ {q} : found'[p] = found[p]
    BY <1>3 DEF GetUserByLogin, TypeOK
  <2>2. PICK c : Answer(q, c)
    BY <1>3 DEF GetUserByLogin
  <2> QED
    BY <1>3, <2>1, <2>2, AnswerOthers DEF GetUserByLogin, Touches, History, Failures
<1>4. CASE GetUserById(q)
  <2>1. \A p \in Requests \ {q} : found'[p] = found[p]
    BY <1>4 DEF GetUserById, TypeOK
  <2>2. PICK c : Answer(q, c)
    BY <1>4 DEF GetUserById
  <2> QED
    BY <1>4, <2>1, <2>2, AnswerOthers DEF GetUserById, Touches, History, Failures
<1>5. CASE AuthUnavailable(q)
  BY <1>5, AnswerOthers, StrikeOthers DEF AuthUnavailable, Touches, History
<1> QED
  BY <1>1, <1>2, <1>3, <1>4, <1>5 DEF LookUp

\* One of the contacts of r is given, and a row of r would hold it.
LEMMA NewIsFirst ==
    ASSUME IInv, NEW r \in Signups, Unique(NewAccount(r))
    PROVE  HasNone(r)
<1> SUFFICES ASSUME NEW u \in users, u.id[1] = r PROVE FALSE
  BY DEF HasNone
<1>1. PICK k \in Contacts : call[r].contact[k] # None
  BY CallTypes DEF IInv, Reachable
<1>2. u.contact = call[r].contact
  BY DEF IInv, FromSignup
<1>3. NewAccount(r).contact = call[r].contact
  BY DEF NewAccount
<1> QED
  BY <1>1, <1>2, <1>3 DEF Unique

LEMMA NewRow ==
    ASSUME IInv, NEW r \in Requests, Touches(r), NEW u \in users' \ users
    PROVE  /\ r \in Signups /\ u = NewAccount(r) /\ Unique(u) /\ HasNone(r)
           /\ u.id[1] = r /\ u.id \notin Stored
<1>1. r \in Signups /\ u = NewAccount(r) /\ Unique(u)
  BY DEF Touches
<1>2. HasNone(r)
  BY <1>1, NewIsFirst
<1>3. u.id[1] = r
  BY <1>1 DEF NewAccount
<1> QED
  BY <1>1, <1>2, <1>3 DEF HasNone, Stored

LEMMA TableKept ==
    ASSUME IInv, NEW r \in Requests, Touches(r)
    PROVE  OneAccountPerContact' /\ \A u \in users' : FromSignup(u)'
<1>1. \A u \in users' : FromSignup(u)'
  <2> SUFFICES ASSUME NEW u \in users' PROVE FromSignup(u)'
    OBVIOUS
  <2>1. FromSignup(u)
    <3>1. CASE u \in users
      BY <3>1 DEF IInv
    <3>2. CASE u \notin users
      BY <3>2, NewRow DEF FromSignup, NewAccount
    <3> QED
      BY <3>1, <3>2
  <2> QED
    BY <2>1 DEF FromSignup, Touches
<1>2. OneAccountPerContact'
  <2> SUFFICES ASSUME NEW u \in users', NEW v \in users',
                      \/ \E k \in Contacts : u.contact[k] # None /\ u.contact[k] = v.contact[k]
                      \/ u.id[1] = v.id[1]
               PROVE  u = v
    BY DEF OneAccountPerContact
  <2>1. CASE u \in users /\ v \in users
    BY <2>1 DEF IInv, OneAccountPerContact
  <2>2. CASE u \notin users /\ v \notin users
    BY <2>2, NewRow
  <2>3. CASE u \notin users /\ v \in users
    BY <2>3, NewRow DEF Unique, HasNone
  <2>4. CASE u \in users /\ v \notin users
    <3>1. Unique(v) /\ HasNone(r) /\ v.id[1] = r
      BY <2>4, NewRow
    <3>2. u.id[1] # v.id[1]
      BY <2>4, <3>1 DEF HasNone
    <3>3. PICK k \in Contacts : u.contact[k] # None /\ u.contact[k] = v.contact[k]
      BY <3>2
    <3> QED
      BY <2>4, <3>1, <3>3 DEF Unique
  <2> QED
    BY <2>1, <2>2, <2>3, <2>4
<1> QED
  BY <1>1, <1>2

-------------------------------------------------------------------------------
(* Each request keeps what it relies on. *)

\* When another request steps, all that can happen to q is a new row, which no
\* request has in before.
LEMMA OtherKept ==
    ASSUME IInv, NEW r \in Requests, Touches(r), NEW q \in Requests \ {r}
    PROVE  ReqOK(q)'
<1>1. ReqOK(q)
  BY DEF IInv
<1>2. /\ call' = call /\ users \subseteq users'
      /\ pc'[q] = pc[q] /\ code'[q] = code[q] /\ tries'[q] = tries[q]
      /\ found'[q] = found[q] /\ before'[q] = before[q]
      /\ q \in struck' <=> q \in struck
  BY DEF Touches
<1>3. \A u \in users' : u \in users \/ (u.id \notin before[q] /\ u.id[1] # q)
  BY <1>1, NewRow DEF ReqOK
<1>4. before'[q] \subseteq Stored'
  BY <1>1, <1>2 DEF ReqOK, Stored
<1>5. ASSUME q \in Signups PROVE SignupOK(q)'
  <2>1. SignupOK(q)
    BY <1>1, <1>5 DEF ReqOK
  <2>2. HasNone(q) => HasNone(q)'
    BY <1>3 DEF HasNone
  <2>3. \A k \in Contacts : (Checked(q, k))' => NobodyBefore(q, k)'
    <3> SUFFICES ASSUME NEW k \in Contacts, (Checked(q, k))' PROVE NobodyBefore(q, k)'
      OBVIOUS
    <3>1. Checked(q, k)
      BY <1>2 DEF Checked
    <3>2. NobodyBefore(q, k)
      BY <2>1, <3>1 DEF SignupOK
    <3> QED
      BY <1>2, <1>3, <3>2 DEF NobodyBefore
  <2>4. NewAccount(q)' = NewAccount(q)
    BY <1>2 DEF NewAccount
  <2>5. SignupAnswer(q)'
    <3>1. SignupAnswer(q)
      BY <2>1 DEF SignupOK
    <3>2. \A u \in Holders(q) : u \in Holders(q)'
      BY <1>2 DEF Holders
    <3>3. \A u \in Holders(q)' : u \in Holders(q) \/ u.id \notin before[q]
      BY <1>2, <1>3 DEF Holders
    <3> QED
      BY <1>2, <3>1, <3>2, <3>3 DEF SignupAnswer
  <2> QED
    BY <1>2, <2>1, <2>2, <2>3, <2>4, <2>5 DEF SignupOK
<1>6. ASSUME q \in SignIns PROVE SignInAnswer(q)'
  <2>1. SignInAnswer(q)
    BY <1>1, <1>6 DEF ReqOK
  <2> QED
    BY <1>2, <1>3, <2>1 DEF SignInAnswer, Fits
<1>7. ASSUME q \in Lookups PROVE LookupAnswer(q)'
  <2>1. LookupAnswer(q)
    BY <1>1, <1>7 DEF ReqOK
  <2> QED
    BY <1>2, <1>3, <2>1 DEF LookupAnswer, HasKey
<1> QED
  BY <1>1, <1>2, <1>4, <1>5, <1>6, <1>7 DEF ReqOK

LEMMA BeforeKept ==
    ASSUME IInv, NEW r \in Requests, Touches(r), before' = before
    PROVE  before'[r] \subseteq Stored'
BY DEF IInv, ReqOK, Touches, Stored

LEMMA BeforeBegins ==
    ASSUME IInv, NEW r \in Requests, NEW label, Begin(r, label)
    PROVE  before'[r] = Stored' /\ pc[r] = "idle" /\ pc'[r] = label /\ code'[r] = "none"
<1>1. TypeOK /\ ReqOK(r)
  BY DEF IInv
<1>2. pc'[r] = label /\ code' = code
  BY <1>1, GotoOthers DEF Begin
<1>3. before'[r] = Stored /\ users' = users /\ pc[r] = "idle"
  BY <1>1 DEF Begin, TypeOK
<1> QED
  BY <1>1, <1>2, <1>3 DEF ReqOK, Stored

\* A request that fails is answered with an error, or is tried again.
LEMMA FailureKept ==
    ASSUME IInv, NEW r \in Requests, ReadAgain(r) \/ CallFails(r)
    PROVE  ReqOK(r)'
<1>t. TypeOK /\ ReqOK(r)
  BY DEF IInv
<1>b. before'[r] \subseteq Stored'
  BY <1>t, FailureTouches, BeforeKept DEF ReadAgain, CallFails, History
<1>1. CASE ReadAgain(r)
  <2>1. /\ UNCHANGED <<users, pc, code, found, call, before>> /\ r \in struck'
        /\ pc[r] \in {"email", "phone", "read"}
    BY <1>1, StrikeOthers DEF ReadAgain, History, FirstCheck
  <2>2. ASSUME r \in Signups PROVE SignupOK(r)'
    <3>1. SignupOK(r)
      BY <1>t, <2>2 DEF ReqOK
    <3>2. code[r] = "none"
      BY <1>t, <2>1 DEF ReqOK
    <3> QED
      BY <2>1, <3>1, <3>2
      DEF SignupOK, SignupAnswer, HasNone, Checked, NobodyBefore
  <2> QED
    BY <1>t, <1>b, <2>1, <2>2
    DEF ReqOK, SignInAnswer, Fits, LookupAnswer, HasKey
<1>2. CASE CallFails(r)
  <2>1. PICK c \in {"500", "UNKNOWN"} : Answer(r, c)
    BY <1>2 DEF CallFails
  <2>2. pc'[r] = "done" /\ code'[r] = c /\ r \in struck'
    BY <1>t, <1>2, <2>1, AnswerOthers, StrikeOthers DEF CallFails
  <2> QED
    BY <1>b, <2>2
    DEF ReqOK, SignupOK, SignupAnswer, Contacts, Checked, SignInAnswer, LookupAnswer
<1> QED
  BY <1>1, <1>2

LEMMA SignInKept ==
    ASSUME IInv, NEW r \in SignIns, SignIn(r)
    PROVE  ReqOK(r)'
<1> r \in Requests /\ r \notin Signups /\ r \notin Lookups
  BY AuthUsersAssumption DEF Requests
<1>t. TypeOK /\ ReqOK(r) /\ OneAccountPerContact
  BY DEF IInv
<1>k. Touches(r) /\ users' = users /\ call' = call
  BY <1>t, SignInTouches DEF Touches
<1>1. CASE Begin(r, "read")
  BY <1>1, BeforeBegins DEF ReqOK, SignInAnswer
<1>2. CASE Authenticate(r)
  <2>1. PICK u \in Matches(r) : u.password = call[r].password /\ found'[r] = u.id
    BY <1>t, <1>2 DEF Authenticate, TypeOK
  <2>2. Fits(u, r) /\ u \in users
    BY <2>1 DEF Matches, Fits
  <2>3. pc'[r] = "done" /\ code'[r] = "200"
    BY <1>t, <1>2, AnswerOthers DEF Authenticate
  <2>4. before'[r] \subseteq Stored'
    BY <1>k, <1>2, BeforeKept DEF Authenticate, History
  <2> QED
    BY <1>k, <2>1, <2>2, <2>3, <2>4 DEF ReqOK, SignInAnswer, Fits
<1>3. CASE Reject(r)
  <2>1. \A u \in users : ~Fits(u, r)
    <3> SUFFICES ASSUME NEW u \in users, Fits(u, r) PROVE FALSE
      OBVIOUS
    <3>1. u \in Matches(r)
      BY DEF Matches, Fits
    <3>2. PICK v \in Matches(r) : v.password # call[r].password
      BY <1>3, <3>1 DEF Reject
    <3>3. PICK k \in Contacts : call[r].contact[k] # None
      BY <1>t, CallTypes DEF Reachable
    <3>4. u.contact[k] = v.contact[k] /\ u.contact[k] # None /\ v \in users
      BY <3>1, <3>2, <3>3 DEF Matches
    <3>5. u = v
      BY <1>t, <3>4 DEF OneAccountPerContact
    <3> QED
      BY <3>2, <3>5 DEF Fits
  <2>2. pc'[r] = "done" /\ code'[r] = "401"
    BY <1>t, <1>3, AnswerOthers DEF Reject
  <2>3. before'[r] \subseteq Stored'
    BY <1>k, <1>3, BeforeKept DEF Reject, History
  <2> QED
    BY <1>k, <2>1, <2>2, <2>3 DEF ReqOK, SignInAnswer, Fits
<1> QED
  BY <1>1, <1>2, <1>3 DEF SignIn

LEMMA LookUpKept ==
    ASSUME IInv, NEW q \in Lookups, LookUp(q)
    PROVE  ReqOK(q)'
<1> q \in Requests /\ q \notin Signups /\ q \notin SignIns
  BY AuthUsersAssumption DEF Requests
<1>t. TypeOK /\ ReqOK(q)
  BY DEF IInv
<1>k. Touches(q) /\ users' = users /\ call' = call
  BY <1>t, LookUpTouches DEF Touches
<1>1. CASE Begin(q, "read")
  BY <1>1, BeforeBegins DEF ReqOK, LookupAnswer
<1>b. ASSUME before' = before PROVE before'[q] \subseteq Stored'
  BY <1>k, <1>b, BeforeKept
<1>2. CASE RefuseId(q) \/ AuthUnavailable(q)
  <2>1. PICK c \in {"INVALID_ARGUMENT", "UNAVAILABLE"} : Answer(q, c)
    BY <1>2 DEF RefuseId, AuthUnavailable
  <2>2. pc'[q] = "done" /\ code'[q] = c /\ before' = before
    BY <1>t, <1>2, <2>1, AnswerOthers DEF RefuseId, AuthUnavailable, History
  <2> QED
    BY <1>b, <2>2 DEF ReqOK, LookupAnswer
<1>3. CASE GetUserByLogin(q)
  <2>1. before' = before /\ call[q].by = "login"
    BY <1>3 DEF GetUserByLogin, History
  <2>2. CASE \A u \in users : u.login # call[q].key
    <3>1. Answer(q, "NOT_FOUND")
      BY <1>3, <2>2 DEF GetUserByLogin
    <3>2. pc'[q] = "done" /\ code'[q] = "NOT_FOUND"
      BY <1>t, <3>1, AnswerOthers
    <3> QED
      BY <1>b, <1>k, <2>1, <2>2, <3>2 DEF ReqOK, LookupAnswer, HasKey
  <2>3. CASE \E u \in users : u.login = call[q].key
    <3>1. PICK u \in users : /\ u.login = call[q].key /\ Answer(q, "OK")
                             /\ found' = [found EXCEPT ![q] = u.id]
      BY <1>3, <2>3 DEF GetUserByLogin
    <3>2. pc'[q] = "done" /\ code'[q] = "OK" /\ found'[q] = u.id
      BY <1>t, <3>1, AnswerOthers DEF TypeOK
    <3> QED
      BY <1>b, <1>k, <2>1, <3>1, <3>2 DEF ReqOK, LookupAnswer, HasKey
  <2> QED
    BY <2>2, <2>3
<1>4. CASE GetUserById(q)
  <2>1. before' = before /\ call[q].by = "id" /\ call[q].by # "login"
    BY <1>4 DEF GetUserById, History
  <2>2. CASE call[q].key \notin Stored
    <3>1. Answer(q, "NOT_FOUND")
      BY <1>4, <2>2 DEF GetUserById
    <3>2. pc'[q] = "done" /\ code'[q] = "NOT_FOUND"
      BY <1>t, <3>1, AnswerOthers
    <3> QED
      BY <1>b, <1>k, <2>1, <2>2, <3>2 DEF ReqOK, LookupAnswer, HasKey, Stored
  <2>3. CASE call[q].key \in Stored
    <3>1. Answer(q, "OK") /\ found' = [found EXCEPT ![q] = call[q].key]
      BY <1>4, <2>3 DEF GetUserById
    <3>2. pc'[q] = "done" /\ code'[q] = "OK" /\ found'[q] = call[q].key
      BY <1>t, <3>1, AnswerOthers DEF TypeOK
    <3> QED
      BY <1>b, <1>k, <2>1, <2>3, <3>2 DEF ReqOK, LookupAnswer, HasKey, Stored
  <2> QED
    BY <2>2, <2>3
<1> QED
  BY <1>1, <1>2, <1>3, <1>4 DEF LookUp

-------------------------------------------------------------------------------
(* A signup. *)

LEMMA SignupBegins ==
    ASSUME IInv, NEW r \in Signups, Begin(r, FirstCheck(r))
    PROVE  ReqOK(r)'
<1> r \in Requests /\ r \notin SignIns /\ r \notin Lookups
  BY AuthUsersAssumption DEF Requests
<1>1. TypeOK /\ ReqOK(r) /\ SignupOK(r)
  BY DEF IInv, ReqOK
<1>2. /\ pc[r] = "idle" /\ pc'[r] = FirstCheck(r) /\ code'[r] = "none"
      /\ before'[r] = Stored' /\ users' = users /\ call' = call
  BY BeforeBegins DEF Begin
<1>3. call[r].contact["email"] # None \/ call[r].contact["phone"] # None
  BY <1>1, CallTypes DEF Reachable, Contacts
<1>4. HasNone(r)'
  BY <1>1, <1>2 DEF SignupOK, HasNone
<1>5. \A k \in Contacts : ~(Checked(r, k))'
  BY <1>2 DEF Checked, FirstCheck, Contacts
<1>6. pc'[r] \in Contacts /\ call'[r].contact[pc'[r]] # None
  BY <1>2, <1>3 DEF FirstCheck, Contacts
<1>7. SignupAnswer(r)'
  BY <1>2 DEF SignupAnswer
<1>8. SignupOK(r)'
  BY <1>4, <1>5, <1>6, <1>7 DEF SignupOK, Contacts
<1> QED
  BY <1>2, <1>8 DEF ReqOK

LEMMA SignupChecksFree ==
    ASSUME IInv, NEW r \in Signups, NEW k \in Contacts, CheckFree(r, k)
    PROVE  SignupOK(r)' /\ code'[r] = "none" /\ pc'[r] # "done"
<1> r \in Requests
  BY DEF Requests
<1>1. TypeOK /\ ReqOK(r) /\ SignupOK(r)
  BY DEF IInv, ReqOK
<1>2. /\ pc[r] = k /\ pc'[r] = NextCheck(r, k) /\ code' = code
      /\ UNCHANGED <<users, call, before>>
  BY <1>1, GotoOthers DEF CheckFree, History
<1>3. k = "email" \/ k = "phone"
  BY DEF Contacts
<1>4. code'[r] = "none" /\ SignupAnswer(r)'
  BY <1>1, <1>2, <1>3 DEF ReqOK, SignupAnswer
<1>5. HasNone(r)'
  BY <1>1, <1>2, <1>3 DEF SignupOK, HasNone
<1>6. \A u \in users : u.contact[k] # call[r].contact[k]
  BY DEF CheckFree, Taken
<1>7. \A c \in Contacts : (Checked(r, c))' => NobodyBefore(r, c)'
  <2> SUFFICES ASSUME NEW c \in Contacts, (Checked(r, c))', c # k PROVE NobodyBefore(r, c)'
    BY <1>2, <1>6 DEF NobodyBefore
  <2>1. Checked(r, c)
    BY <1>2, <1>3 DEF Checked, NextCheck, Contacts
  <2>2. NobodyBefore(r, c)
    BY <1>1, <2>1 DEF SignupOK
  <2> QED
    BY <1>2, <2>2 DEF NobodyBefore
<1>8. /\ pc'[r] \in {"phone", "create"}
      /\ pc'[r] = "phone" => call'[r].contact["phone"] # None
  BY <1>2 DEF NextCheck
<1>9. pc'[r] \in Contacts => call'[r].contact[pc'[r]] # None
  BY <1>8 DEF Contacts
<1> QED
  BY <1>4, <1>5, <1>7, <1>8, <1>9 DEF SignupOK

\* Once a signup is answered, only the answer matters.
LEMMA SignupEnds ==
    ASSUME NEW r \in Signups, pc'[r] = "done", SignupAnswer(r)'
    PROVE  SignupOK(r)'
BY DEF SignupOK, Contacts, Checked

LEMMA SignupChecksTaken ==
    ASSUME IInv, NEW r \in Signups, NEW k \in Contacts, CheckTaken(r, k)
    PROVE  SignupOK(r)' /\ pc'[r] = "done"
<1> r \in Requests
  BY DEF Requests
<1>1. TypeOK /\ SignupOK(r)
  BY DEF IInv, ReqOK
<1>2. pc[r] = k /\ pc'[r] = "done" /\ code'[r] = Conflict[k] /\ UNCHANGED <<users, call>>
  BY <1>1, AnswerOthers DEF CheckTaken, History
<1>3. code'[r] \in {"409 email", "409 phone"}
  <2>1. Conflict["email"] = "409 email" /\ Conflict["phone"] = "409 phone"
    BY DEF Conflict
  <2> QED
    BY <1>2, <2>1 DEF Contacts
<1>4. PICK u \in users : u.contact[k] = call[r].contact[k]
  BY DEF CheckTaken, Taken
<1>5. call[r].contact[k] # None /\ u.id[1] # r
  BY <1>1, <1>2 DEF SignupOK, HasNone, Contacts
<1>6. Holders(r)' # {}
  BY <1>2, <1>4, <1>5 DEF Holders
<1> QED
  BY <1>2, <1>3, <1>6, SignupEnds DEF SignupAnswer

LEMMA SignupCreates ==
    ASSUME IInv, NEW r \in Signups, Create(r)
    PROVE  SignupOK(r)' /\ code'[r] = "none" /\ pc'[r] # "done"
<1> r \in Requests
  BY DEF Requests
<1>1. TypeOK /\ ReqOK(r) /\ SignupOK(r)
  BY DEF IInv, ReqOK
<1>2. /\ pc[r] = "create" /\ pc'[r] = "refresh"
      /\ users' = users \cup {NewAccount(r)}
      /\ UNCHANGED <<code, tries, call, before, struck>>
  BY <1>1 DEF Create, TypeOK, History, Failures
<1>3. code'[r] = "none" /\ SignupAnswer(r)'
  BY <1>1, <1>2 DEF ReqOK, SignupAnswer
<1>4. NewAccount(r)' \in users'
  BY <1>2 DEF NewAccount
<1>5. \A k \in Contacts : (Checked(r, k))' => NobodyBefore(r, k)'
  <2> SUFFICES ASSUME NEW k \in Contacts, (Checked(r, k))' PROVE NobodyBefore(r, k)'
    OBVIOUS
  <2>1. NobodyBefore(r, k)
    BY <1>1, <1>2 DEF Checked, SignupOK
  <2>2. NewAccount(r).id[1] = r
    BY DEF NewAccount
  <2> QED
    BY <1>2, <2>1, <2>2 DEF NobodyBefore
<1> QED
  BY <1>2, <1>3, <1>4, <1>5 DEF SignupOK, Contacts

LEMMA SignupCollides ==
    ASSUME IInv, NEW r \in Signups, CreateCollides(r)
    PROVE  SignupOK(r)' /\ pc'[r] = "done"
<1> r \in Requests
  BY DEF Requests
<1>1. TypeOK /\ SignupOK(r)
  BY DEF IInv, ReqOK
<1>2. /\ pc[r] = "create" /\ pc'[r] = "done" /\ code'[r] = "500"
      /\ UNCHANGED <<users, call, before, struck>>
  BY <1>1, AnswerOthers DEF CreateCollides, History, Failures
<1>3. ASSUME r \notin struck
      PROVE  Holders(r) # {} /\ \A u \in Holders(r) : u.id \notin before[r]
  <2>1. HasNone(r)
    BY <1>1, <1>2, <1>3 DEF SignupOK
  <2>2. PICK v \in users, k \in Contacts :
           call[r].contact[k] # None /\ v.contact[k] = call[r].contact[k]
    <3>1. NewAccount(r).contact = call[r].contact
      BY DEF NewAccount
    <3> QED
      BY <3>1 DEF CreateCollides, Unique
  <2>3. v \in Holders(r)
    BY <2>1, <2>2 DEF Holders, HasNone
  <2>4. ASSUME NEW u \in Holders(r) PROVE u.id \notin before[r]
    <3>1. PICK c \in Contacts : call[r].contact[c] # None /\ u.contact[c] = call[r].contact[c]
      BY DEF Holders
    <3>2. NobodyBefore(r, c)
      BY <1>1, <1>2, <3>1 DEF SignupOK, Checked
    <3> QED
      BY <3>1, <3>2 DEF NobodyBefore, Holders
  <2> QED
    BY <2>3, <2>4
<1>4. SignupAnswer(r)'
  BY <1>2, <1>3 DEF SignupAnswer, Holders
<1> QED
  BY <1>2, <1>4, SignupEnds

LEMMA SignupRefreshes ==
    ASSUME IInv, NEW r \in Signups, Refresh(r)
    PROVE  SignupOK(r)' /\ pc'[r] = "done"
<1> r \in Requests
  BY DEF Requests
<1>1. TypeOK /\ SignupOK(r)
  BY DEF IInv, ReqOK
<1>2. /\ pc[r] = "refresh" /\ pc'[r] = "done" /\ code'[r] = "200"
      /\ found'[r] = <<r, tries[r]>> /\ UNCHANGED <<users, call>>
  BY <1>1, AnswerOthers DEF Refresh, TypeOK, History
<1>3. NewAccount(r) \in users
  BY <1>1, <1>2 DEF SignupOK
<1>4. SignupAnswer(r)'
  BY <1>2, <1>3 DEF SignupAnswer, NewAccount
<1> QED
  BY <1>2, <1>4, SignupEnds

LEMMA SignupCreatesAgain ==
    ASSUME IInv, NEW r \in Signups, CreateAgain(r)
    PROVE  SignupOK(r)' /\ code'[r] = "none" /\ pc'[r] # "done"
<1> r \in Requests
  BY DEF Requests
<1>1. TypeOK /\ ReqOK(r) /\ SignupOK(r)
  BY DEF IInv, ReqOK
<1>2. /\ pc[r] = "refresh" /\ pc'[r] = "create" /\ r \in struck'
      /\ UNCHANGED <<users, code, call, before>>
  BY <1>1, StrikeOthers DEF CreateAgain, TypeOK, History
<1>3. code'[r] = "none" /\ SignupAnswer(r)'
  BY <1>1, <1>2 DEF ReqOK, SignupAnswer
<1>4. \A k \in Contacts : (Checked(r, k))' => NobodyBefore(r, k)'
  BY <1>1, <1>2 DEF SignupOK, Checked, NobodyBefore
<1> QED
  BY <1>2, <1>3, <1>4 DEF SignupOK, Contacts

LEMMA SignupKept ==
    ASSUME IInv, NEW r \in Signups, Signup(r)
    PROVE  ReqOK(r)'
<1> r \in Requests /\ r \notin SignIns /\ r \notin Lookups
  BY AuthUsersAssumption DEF Requests
<1>1. CASE Begin(r, FirstCheck(r))
  BY <1>1, SignupBegins
<1>2. CASE ~Begin(r, FirstCheck(r))
  <2>1. before' = before
    BY <1>2 DEF Signup, CheckFree, CheckTaken, Create, CreateCollides, CreateUnconfirmed,
                Refresh, CreateAgain, History
  <2>2. before'[r] \subseteq Stored'
    BY <2>1, SignupTouches, BeforeKept DEF IInv
  <2>3. SignupOK(r)' /\ (pc'[r] # "done" => code'[r] = "none")
    <3>1. CASE CreateUnconfirmed(r)
      <4>1. pc'[r] = "done" /\ code'[r] = "500" /\ r \in struck'
        BY <3>1, AnswerOthers, StrikeOthers DEF CreateUnconfirmed, IInv
      <4> QED
        BY <4>1, SignupEnds DEF SignupAnswer
    <3> QED
      BY <1>2, <3>1, SignupChecksFree, SignupChecksTaken, SignupCreates, SignupCollides,
         SignupRefreshes, SignupCreatesAgain DEF Signup
  <2> QED
    BY <2>2, <2>3 DEF ReqOK
<1> QED
  BY <1>1, <1>2

-------------------------------------------------------------------------------
(* The invariant. *)

LEMMA InitIInv == Init => IInv
<1> SUFFICES ASSUME Init PROVE IInv
  OBVIOUS
<1>1. TypeOK
  BY InitType
<1>2. ASSUME NEW r \in Requests PROVE ReqOK(r)
  BY DEF Init, ReqOK, SignupOK, SignupAnswer, SignInAnswer, LookupAnswer, HasNone, Checked,
         Contacts
<1> QED
  BY <1>1, <1>2 DEF Init, IInv, OneAccountPerContact

LEMMA NextIInv == IInv /\ [Next]_vars => IInv'
<1> SUFFICES ASSUME IInv, [Next]_vars PROVE IInv'
  OBVIOUS
<1>t. TypeOK /\ TypeOK'
  BY NextType DEF IInv
<1>1. CASE UNCHANGED vars
  <2> UNCHANGED <<users, call, pc, code, tries, found, before, struck>>
    BY <1>1 DEF vars
  <2>1. ASSUME NEW r \in Requests PROVE ReqOK(r)'
    <3>1. ReqOK(r)
      BY DEF IInv
    <3>2. \A k \in Contacts : /\ (Checked(r, k))' => Checked(r, k)
                              /\ NobodyBefore(r, k) => NobodyBefore(r, k)'
      BY DEF Checked, NobodyBefore
    <3>3. SignupAnswer(r) => SignupAnswer(r)'
      BY DEF SignupAnswer, Holders
    <3>4. (HasNone(r) => HasNone(r)') /\ NewAccount(r)' = NewAccount(r)
      BY DEF HasNone, NewAccount
    <3>5. SignupOK(r) => SignupOK(r)'
      BY <3>2, <3>3, <3>4 DEF SignupOK
    <3>6. SignInAnswer(r) => SignInAnswer(r)'
      BY DEF SignInAnswer, Fits
    <3>7. LookupAnswer(r) => LookupAnswer(r)'
      BY DEF LookupAnswer, HasKey
    <3> QED
      BY <3>1, <3>5, <3>6, <3>7 DEF ReqOK, Stored
  <2> QED
    BY <1>1, <1>t, <2>1 DEF IInv, vars, OneAccountPerContact, FromSignup
<1>2. CASE Next
  <2>1. PICK r \in Requests : Touches(r) /\ ReqOK(r)'
    BY <1>2, <1>t, SignupTouches, SignupKept, SignInTouches, SignInKept, LookUpTouches,
       LookUpKept, FailureTouches, FailureKept DEF Next, Requests
  <2>2. \A q \in Requests : ReqOK(q)'
    BY <2>1, OtherKept
  <2> QED
    BY <1>t, <2>1, <2>2, TableKept DEF IInv
<1> QED
  BY <1>1, <1>2 DEF Next

\* What holds of the table and of every request at each await.
THEOREM Invariance == Spec => []IInv
<1> QED
  BY InitIInv, NextIInv, PTL DEF Spec

\* No two accounts share an e-mail or a phone number, and no signup stores two,
\* however many signups race and however often create is repeated.
THEOREM OneAccountPerContactAlways == Spec => []OneAccountPerContact
<1>1. IInv => OneAccountPerContact
  BY DEF IInv
<1> QED
  BY <1>1, Invariance, PTL

\* A signup is answered 200 only with the account it asked for, 409 only if
\* another one holds a contact, and 500 without a failure only in a race.
THEOREM SignupAnswerIsTrueAlways == Spec => []SignupAnswerIsTrue
<1>1. IInv => SignupAnswerIsTrue
  BY DEF IInv, ReqOK, SignupOK, SignupAnswerIsTrue, Requests
<1> QED
  BY <1>1, Invariance, PTL

\* Logins and lookups answer with an account that fits, and miss none that was
\* stored before they began.
THEOREM LookupAnswerIsTrueAlways == Spec => []LookupAnswerIsTrue
<1>1. IInv => LookupAnswerIsTrue
  BY DEF IInv, ReqOK, LookupAnswerIsTrue, Requests
<1> QED
  BY <1>1, Invariance, PTL

===============================================================================
