------------------------------ MODULE AuthUsers ------------------------------
(***************************************************************************)
(* The accounts of the auth service: POST /users/signup stores one, POST   *)
(* /users/login verifies the password of one, and messenger asks over gRPC *)
(* for an account by its login or by its id.                               *)
(*                                                                         *)
(* A request steps from one await to the next: pc[r] names the await r is  *)
(* about to perform.  E-mails and phone numbers are stored as keyed hashes *)
(* that are equal exactly when the data is, so a hash stands for its data; *)
(* bodies that fail validation (422) never reach a handler.  The id of an  *)
(* account is a fresh uuid4 each time UsersRepository.create runs: request *)
(* and attempt name it.                                                    *)
(*                                                                         *)
(* before and struck are history variables.  Definitions that Next does    *)
(* not use (UniqueNothing, MatchesAny, ...) are wrong variants under which *)
(* a property below fails.                                                 *)
(***************************************************************************)
EXTENDS Integers

CONSTANTS
    Signups, SignIns,   \* requests POST /users/signup and /users/login
    Lookups,            \* messenger's calls GetUserByLogin and GetUserById
    Data,               \* e-mails, phone numbers and passwords
    LoginNames,         \* what the column login holds
    None,               \* a column or field that is null
    SignupCalls, SignInCalls, \* the bodies that are tried
    Attempts,           \* backoff_retries_count
    MaxFaults           \* bound on failures

Contacts == {"email", "phone"}
Contact  == [Contacts -> Data \cup {None}]

\* check_email_or_phone_number_exists: one of the two is given.
Reachable(contact) == \E k \in Contacts : contact[k] # None

Requests == Signups \cup SignIns \cup Lookups
Ids      == Signups \X (0 .. Attempts - 1)

ASSUME AuthUsersAssumption ==
    /\ Signups \cap (SignIns \cup Lookups) = {}
    /\ SignIns \cap Lookups = {}
    /\ None \notin Data
    /\ SignupCalls \subseteq [contact : Contact, login : LoginNames, password : Data]
    /\ SignInCalls \subseteq [contact : Contact, password : Data]
    /\ \A c \in SignupCalls \cup SignInCalls : Reachable(c.contact)
    /\ Attempts \in Nat \ {0}
    /\ MaxFaults \in Nat

VARIABLES
    users,     \* the table: [id, contact, login, password]
    call,      \* the body of each request; the login or id that is looked up
    pc, code,
    tries,     \* tries[r]: failed attempts of the repository call under way
    found,     \* the account a request answers with
    before,    \* history: the ids stored when each request began
    struck,    \* history: the requests that met a failure
    faults

vars == <<users, call, pc, code, tries, found, before, struck, faults>>

Account == [id : Ids, contact : Contact, login : LoginNames, password : Data]

\* A string that is no UUID is the id None.
LookupCall == [by : {"login"}, key : LoginNames] \cup [by : {"id"}, key : Ids \cup {None}]

Awaits == {"email", "phone", "create", "refresh", "read"}
Stops  == {"idle", "done"}
Codes  == {"none", "200", "401", "409 email", "409 phone", "500",
           "OK", "NOT_FOUND", "INVALID_ARGUMENT", "UNKNOWN", "UNAVAILABLE"}

TypeOK ==
    /\ users \subseteq Account
    /\ DOMAIN call = Requests
    /\ \A r \in Signups : call[r] \in SignupCalls
    /\ \A r \in SignIns : call[r] \in SignInCalls
    /\ \A q \in Lookups : call[q] \in LookupCall
    /\ pc \in [Requests -> Awaits \cup Stops]
    /\ code \in [Requests -> Codes]
    /\ tries \in [Requests -> 0 .. Attempts - 1]
    /\ found \in [Requests -> Ids \cup {None}]
    /\ before \in [Requests -> SUBSET Ids]
    /\ struck \subseteq Requests
    /\ faults \in 0 .. MaxFaults

Init ==
    /\ users = {}
    /\ \E f \in [Signups -> SignupCalls], g \in [SignIns -> SignInCalls],
          h \in [Lookups -> LookupCall] :
          call = [r \in Requests |-> IF r \in Signups THEN f[r]
                                     ELSE IF r \in SignIns THEN g[r] ELSE h[r]]
    /\ pc = [r \in Requests |-> "idle"]
    /\ code = [r \in Requests |-> "none"]
    /\ tries = [r \in Requests |-> 0]
    /\ found = [r \in Requests |-> None]
    /\ before = [r \in Requests |-> {}]
    /\ struck = {}
    /\ faults = 0

Stored == {u.id : u \in users}

Goto(r, label) ==
    /\ pc' = [pc EXCEPT ![r] = label]
    /\ tries' = [tries EXCEPT ![r] = 0]
    /\ UNCHANGED code

Answer(r, c) ==
    /\ pc' = [pc EXCEPT ![r] = "done"]
    /\ code' = [code EXCEPT ![r] = c]
    /\ UNCHANGED tries

History == <<call, before>>
Failures == <<struck, faults>>

Strike(r) ==
    /\ faults < MaxFaults
    /\ faults' = faults + 1
    /\ struck' = struck \cup {r}

\* A handler is entered, after the body was validated.
Begin(r, label) ==
    /\ pc[r] = "idle"
    /\ Goto(r, label)
    /\ before' = [before EXCEPT ![r] = Stored]
    /\ UNCHANGED <<users, call, found, Failures>>

-------------------------------------------------------------------------------
(* POST /users/signup.                                                     *)

\* UsersService.create looks for the e-mail first, then for the phone number,
\* each if it was given.
FirstCheck(r) == IF call[r].contact["email"] # None THEN "email" ELSE "phone"

NextCheckEmailOnly(r, k) == "create"
NextCheck(r, k) ==
    IF k = "email" /\ call[r].contact["phone"] # None THEN "phone" ELSE "create"

Taken(k, d) == \E u \in users : u.contact[k] = d

CheckFree(r, k) ==
    /\ pc[r] = k
    /\ ~Taken(k, call[r].contact[k])
    /\ Goto(r, NextCheck(r, k))
    /\ UNCHANGED <<users, found, History, Failures>>

Conflict == [email |-> "409 email", phone |-> "409 phone"]

CheckTaken(r, k) ==
    /\ pc[r] = k
    /\ Taken(k, call[r].contact[k])
    /\ Answer(r, Conflict[k])
    /\ UNCHANGED <<users, found, History, Failures>>

\* The object that this attempt of UsersRepository.create inserts.
NewAccount(r) ==
    [id |-> <<r, tries[r]>>, contact |-> call[r].contact,
     login |-> call[r].login, password |-> call[r].password]

\* The unique constraints; the nulls of a column are no duplicates.
UniqueNothing(u) == u.id \in Ids
Unique(u) == \A v \in users, k \in Contacts :
                u.contact[k] # None => v.contact[k] # u.contact[k]

\* INSERT and COMMIT; the refresh that follows opens a new transaction.
Create(r) ==
    /\ pc[r] = "create"
    /\ Unique(NewAccount(r))
    /\ users' = users \cup {NewAccount(r)}
    /\ pc' = [pc EXCEPT ![r] = "refresh"]
    /\ UNCHANGED <<code, tries, found, History, Failures>>

\* Only UserAlreadyExists becomes a 409: the IntegrityError is raised on.
CreateCollides(r) ==
    /\ pc[r] = "create"
    /\ ~Unique(NewAccount(r))
    /\ Answer(r, "500")
    /\ UNCHANGED <<users, found, History, Failures>>

\* The COMMIT takes effect, its answer is lost.  A further attempt on the
\* broken transaction raises as well: 500 in either case.
CreateUnconfirmed(r) ==
    /\ pc[r] = "create"
    /\ Unique(NewAccount(r))
    /\ users' = users \cup {NewAccount(r)}
    /\ Strike(r)
    /\ Answer(r, "500")
    /\ UNCHANGED <<found, History>>

\* The account is read back and its tokens are put in the answer.
Refresh(r) ==
    /\ pc[r] = "refresh"
    /\ found' = [found EXCEPT ![r] = <<r, tries[r]>>]
    /\ Answer(r, "200")
    /\ UNCHANGED <<users, History, Failures>>

\* No connection for the refresh: the whole of create is tried again, with a
\* new object, although the first one is stored.
CreateAgain(r) ==
    /\ pc[r] = "refresh"
    /\ tries[r] + 1 < Attempts
    /\ Strike(r)
    /\ pc' = [pc EXCEPT ![r] = "create"]
    /\ tries' = [tries EXCEPT ![r] = @ + 1]
    /\ UNCHANGED <<users, code, found, History>>

-------------------------------------------------------------------------------
(* POST /users/login, and the lookups of messenger.                        *)

\* The accounts that UsersRepository.read finds for the given contacts.
MatchesAny(r) ==
    {u \in users : \E k \in Contacts :
        call[r].contact[k] # None /\ u.contact[k] = call[r].contact[k]}
Matches(r) ==
    {u \in users : \A k \in Contacts :
        call[r].contact[k] # None => u.contact[k] = call[r].contact[k]}

\* Only the first row is tried, whichever that is.
Authenticate(r) ==
    /\ pc[r] = "read"
    /\ \E u \in Matches(r) :
          /\ u.password = call[r].password
          /\ found' = [found EXCEPT ![r] = u.id]
    /\ Answer(r, "200")
    /\ UNCHANGED <<users, History, Failures>>

RejectAsForbidden(r) ==
    /\ pc[r] = "read"
    /\ Matches(r) = {} \/ \E u \in Matches(r) : u.password # call[r].password
    /\ Answer(r, "403")
    /\ UNCHANGED <<users, found, History, Failures>>

Reject(r) ==
    /\ pc[r] = "read"
    /\ Matches(r) = {} \/ \E u \in Matches(r) : u.password # call[r].password
    /\ Answer(r, "401")
    /\ UNCHANGED <<users, found, History, Failures>>

\* Logins are not unique: one of the rows is the answer.
GetUserByLogin(q) ==
    /\ pc[q] = "read"
    /\ call[q].by = "login"
    /\ LET rows == {u \in users : u.login = call[q].key} IN
          \/ /\ rows = {}
             /\ Answer(q, "NOT_FOUND")
             /\ UNCHANGED found
          \/ \E u \in rows :
                /\ found' = [found EXCEPT ![q] = u.id]
                /\ Answer(q, "OK")
    /\ UNCHANGED <<users, History, Failures>>

GetUserById(q) ==
    /\ pc[q] = "read"
    /\ call[q].by = "id"
    /\ IF call[q].key \in Stored
       THEN Answer(q, "OK") /\ found' = [found EXCEPT ![q] = call[q].key]
       ELSE Answer(q, "NOT_FOUND") /\ UNCHANGED found
    /\ UNCHANGED <<users, History, Failures>>

Malformed(q) == call[q].by = "id" /\ call[q].key = None

\* What is no UUID is refused before the database is asked.
RefuseId(q) ==
    /\ pc[q] = "idle"
    /\ Malformed(q)
    /\ Answer(q, "INVALID_ARGUMENT")
    /\ UNCHANGED <<users, found, History, Failures>>

\* get_user_id_by_login and get_login_by_user_id: auth is not reached.
AuthUnavailable(q) ==
    /\ pc[q] \in {"idle", "read"}
    /\ Strike(q)
    /\ Answer(q, "UNAVAILABLE")
    /\ UNCHANGED <<users, found, History>>

-------------------------------------------------------------------------------
(* Failures of the database.                                               *)

\* The first statement of a session finds no connection and is tried again;
\* a later one meets its own broken transaction.
ReadAgain(r) ==
    /\ pc[r] = IF r \in Signups THEN FirstCheck(r) ELSE "read"
    /\ tries[r] + 1 < Attempts
    /\ Strike(r)
    /\ tries' = [tries EXCEPT ![r] = @ + 1]
    /\ UNCHANGED <<users, pc, code, found, History>>

\* The session is closed, or rolled back, and the exception raised on.
CallFails(r) ==
    /\ pc[r] \in Awaits
    /\ Strike(r)
    /\ Answer(r, IF r \in Signups \cup SignIns THEN "500" ELSE "UNKNOWN")
    /\ UNCHANGED <<users, found, History>>

-------------------------------------------------------------------------------

Signup(r) ==
    \/ Begin(r, FirstCheck(r))
    \/ \E k \in Contacts : CheckFree(r, k) \/ CheckTaken(r, k)
    \/ Create(r) \/ CreateCollides(r) \/ CreateUnconfirmed(r)
    \/ Refresh(r) \/ CreateAgain(r)

SignIn(r) == Begin(r, "read") \/ Authenticate(r) \/ Reject(r)

LookUp(q) ==
    \/ ~Malformed(q) /\ Begin(q, "read")
    \/ RefuseId(q) \/ GetUserByLogin(q) \/ GetUserById(q) \/ AuthUnavailable(q)

Next ==
    \/ \E r \in Signups : Signup(r)
    \/ \E r \in SignIns : SignIn(r)
    \/ \E q \in Lookups : LookUp(q)
    \/ \E r \in Requests : ReadAgain(r) \/ CallFails(r)

Spec == Init /\ [][Next]_vars

-------------------------------------------------------------------------------
(* Properties. *)

\* No two accounts share an e-mail or a phone number, however many signups
\* with it passed the check together, and no signup stores two accounts,
\* although create is repeated after a COMMIT that took effect.
OneAccountPerContact ==
    \A u, v \in users :
        (\/ \E k \in Contacts : u.contact[k] # None /\ u.contact[k] = v.contact[k]
         \/ u.id[1] = v.id[1]) => u = v

Holders(r) ==
    {u \in users : u.id[1] # r /\
        \E k \in Contacts : call[r].contact[k] # None /\ u.contact[k] = call[r].contact[k]}

\* A signup that is answered 200 has stored what it was given and is logged in
\* to just that account.  A 409 or an unexplained 500 means that another
\* request holds one of the contacts; with a 500 all such accounts were stored
\* while this request was under way, so a contact known before is a 409.
SignupAnswer(r) ==
    /\ code[r] = "200" =>
          [id |-> found[r], contact |-> call[r].contact,
           login |-> call[r].login, password |-> call[r].password] \in users
    /\ code[r] \in {"409 email", "409 phone"} => Holders(r) # {}
    /\ code[r] = "500" /\ r \notin struck =>
          Holders(r) # {} /\ \A u \in Holders(r) : u.id \notin before[r]

SignupAnswerIsTrue == \A r \in Signups : SignupAnswer(r)

\* The account has the password, and every contact that is given.
Fits(u, r) ==
    /\ u.password = call[r].password
    /\ \A k \in Contacts : call[r].contact[k] \in {None, u.contact[k]}

SignInAnswer(r) ==
    /\ code[r] = "200" => \E u \in users : u.id = found[r] /\ Fits(u, r)
    /\ code[r] = "401" => \A u \in users : Fits(u, r) => u.id \notin before[r]

HasKey(u, q) == IF call[q].by = "login" THEN u.login = call[q].key ELSE u.id = call[q].key

LookupAnswer(q) ==
    /\ code[q] = "OK" => \E u \in users : u.id = found[q] /\ HasKey(u, q)
    /\ code[q] = "NOT_FOUND" => \A u \in users : HasKey(u, q) => u.id \notin before[q]

\* A login is answered with an account that has every contact given and the
\* password; it is refused only if no such account was there when it began.
\* A lookup likewise finds what was stored before it, by the right key: the
\* subject of a token handed out earlier can always be resolved to a login.
LookupAnswerIsTrue ==
    /\ \A r \in SignIns : SignInAnswer(r)
    /\ \A q \in Lookups : LookupAnswer(q)

===============================================================================
