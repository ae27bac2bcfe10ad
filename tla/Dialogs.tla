------------------------------- MODULE Dialogs -------------------------------
(***************************************************************************)
(* POST /dialogs/direct: create the direct dialog of the caller and the    *)
(* user of a login, or return the one they have.                           *)
(*                                                                         *)
(* As in Messages, a handler steps from one await to the next; pc[r] names *)
(* the await request r is about to perform.  The dialog that request r     *)
(* inserts gets a fresh uuid4, so r names it.  No constraint of the        *)
(* database keeps two dialogs of one pair apart.                           *)
(*                                                                         *)
(* seen[r] is a history variable: the dialogs stored when r looked.        *)
(* Definitions that Next does not use (MatchesOneWay, ...) are wrong       *)
(* variants under which a property below fails.                            *)
(***************************************************************************)
EXTENDS Integers

CONSTANTS
    Creates,   \* requests POST /dialogs/direct; also the dialog ids
    Users,     \* the registered users, each known by one login
    Unknown,   \* a login of nobody
    MaxFaults  \* bound on failures

ASSUME DialogsAssumption ==
    /\ Unknown \notin Users
    /\ MaxFaults \in Nat

VARIABLES
    dialogs,   \* dialogs with their participants: [id, users]
    call,      \* the caller and the target login of each request
    pc, code,  \* as in Messages
    found,     \* the dialog a request found or created
    seen,      \* the dialogs each request could see when it looked
    announced, \* the requests that broadcast new_dialog
    faults

vars == <<dialogs, call, pc, code, found, seen, announced, faults>>

Call == [user : Users, target : Users \cup {Unknown}]

Awaits == {"resolve", "find", "create", "response", "broadcast"}
Stops  == {"idle", "done"}
Codes  == {0, 200, 400, 403, 404, 500, 503}

TypeOK ==
    /\ dialogs \subseteq [id : Creates, users : SUBSET Users]
    /\ call \in [Creates -> Call]
    /\ pc \in [Creates -> Awaits \cup Stops]
    /\ code \in [Creates -> Codes]
    /\ found \in [Creates -> Creates]
    /\ seen \in [Creates -> SUBSET Creates]
    /\ announced \subseteq Creates
    /\ faults \in 0 .. MaxFaults

Init ==
    /\ dialogs = {}
    /\ call \in [Creates -> Call]
    /\ pc = [r \in Creates |-> "idle"]
    /\ code = [r \in Creates |-> 0]
    /\ found = [r \in Creates |-> r]
    /\ seen = [r \in Creates |-> {}]
    /\ announced = {}
    /\ faults = 0

Goto(r, label) ==
    /\ pc' = [pc EXCEPT ![r] = label]
    /\ UNCHANGED code

Answer(r, c) ==
    /\ pc' = [pc EXCEPT ![r] = "done"]
    /\ code' = [code EXCEPT ![r] = c]

Fault ==
    /\ faults < MaxFaults
    /\ faults' = faults + 1

Locals == <<call, found, seen>>

-------------------------------------------------------------------------------
(* The caller's token, then the target's login, are resolved by auth.      *)

Authenticate(r) ==
    /\ pc[r] = "idle"
    /\ Goto(r, "resolve")
    /\ UNCHANGED <<dialogs, Locals, announced, faults>>

RejectToken(r) ==
    /\ pc[r] = "idle"
    /\ Answer(r, 403)
    /\ UNCHANGED <<dialogs, Locals, announced, faults>>

\* Auth is down: 503 from either call.  A failure of the login lookup that is
\* none of UNAVAILABLE, DEADLINE_EXCEEDED and INTERNAL is raised on: 500.
AuthFails(r) ==
    /\ pc[r] \in {"idle", "resolve"}
    /\ Fault
    /\ \E c \in {503, 500} : (pc[r] = "idle" => c = 503) /\ Answer(r, c)
    /\ UNCHANGED <<dialogs, Locals, announced>>

Acceptable(r) == call[r].target \in Users \ {call[r].user}

RefuseAsInvalid(r) ==
    /\ pc[r] = "resolve"
    /\ ~Acceptable(r)
    /\ Answer(r, 422)
    /\ UNCHANGED <<dialogs, Locals, announced, faults>>

\* UserNotFoundError 404, SelfDialogError 400.
Refuse(r) ==
    /\ pc[r] = "resolve"
    /\ ~Acceptable(r)
    /\ Answer(r, IF call[r].target = call[r].user THEN 400 ELSE 404)
    /\ UNCHANGED <<dialogs, Locals, announced, faults>>

Accept(r) ==
    /\ pc[r] = "resolve"
    /\ Acceptable(r)
    /\ Goto(r, "find")
    /\ UNCHANGED <<dialogs, Locals, announced, faults>>

-------------------------------------------------------------------------------
(* DialogsService.create_or_get_direct: look, then insert.                 *)

\* get_direct_dialog joins the participants twice, so either user may come
\* first.  A wrong variant: only the dialogs the caller created.
MatchesOneWay(r) == {d \in dialogs : d.users = {call[r].user, call[r].target}
                                     /\ call[d.id].user = call[r].user}
Matches(r) == {d \in dialogs : d.users = {call[r].user, call[r].target}}

Look(r) == seen' = [seen EXCEPT ![r] = {d.id : d \in dialogs}]

FindOne(r) ==
    /\ pc[r] = "find"
    /\ \E d \in dialogs : Matches(r) = {d} /\ found' = [found EXCEPT ![r] = d.id]
    /\ Look(r)
    /\ Goto(r, "response")
    /\ UNCHANGED <<dialogs, call, announced, faults>>

FindNone(r) ==
    /\ pc[r] = "find"
    /\ Matches(r) = {}
    /\ Look(r)
    /\ Goto(r, "create")
    /\ UNCHANGED <<dialogs, call, found, announced, faults>>

\* scalar_one_or_none raises MultipleResultsFound on a second row: 500.
FindMany(r) ==
    /\ pc[r] = "find"
    /\ \E d, e \in Matches(r) : d # e
    /\ Look(r)
    /\ Answer(r, 500)
    /\ UNCHANGED <<dialogs, call, found, announced, faults>>

\* create_with_participants: the dialog and both participants, one commit.
Store(r) ==
    dialogs' = dialogs \cup {[id |-> r, users |-> {call[r].user, call[r].target}]}

Create(r) ==
    /\ pc[r] = "create"
    /\ Store(r)
    /\ found' = [found EXCEPT ![r] = r]
    /\ Goto(r, "response")
    /\ UNCHANGED <<call, seen, announced, faults>>

CreateUnconfirmed(r) ==
    /\ pc[r] = "create"
    /\ Fault
    /\ Store(r)
    /\ Answer(r, 500)
    /\ UNCHANGED <<Locals, announced>>

\* A statement fails and is rolled back, or publish raises (see PubSub): 500.
CallFails(r) ==
    /\ pc[r] \in {"find", "create", "broadcast"}
    /\ Fault
    /\ Answer(r, 500)
    /\ UNCHANGED <<dialogs, Locals, announced>>

-------------------------------------------------------------------------------
(* The route after the service: logins of the participants, new_dialog.    *)

RespondQuietly(r) ==
    /\ pc[r] = "response"
    /\ Answer(r, 200)
    /\ UNCHANGED <<dialogs, Locals, announced, faults>>

\* Only the request that created the dialog announces it.
Respond(r) ==
    /\ pc[r] = "response"
    /\ IF found[r] = r THEN Goto(r, "broadcast") ELSE Answer(r, 200)
    /\ UNCHANGED <<dialogs, Locals, announced, faults>>

\* _dialog_to_response is outside the try block: 500, nobody is told.
RespondFails(r) ==
    /\ pc[r] = "response"
    /\ Fault
    /\ Answer(r, 500)
    /\ UNCHANGED <<dialogs, Locals, announced>>

Broadcast(r) ==
    /\ pc[r] = "broadcast"
    /\ announced' = announced \cup {r}
    /\ Answer(r, 200)
    /\ UNCHANGED <<dialogs, Locals, faults>>

-------------------------------------------------------------------------------
Serve(r) ==
    \/ Authenticate(r) \/ RejectToken(r) \/ AuthFails(r) \/ Refuse(r) \/ Accept(r)
    \/ FindOne(r) \/ FindNone(r) \/ FindMany(r)
    \/ Create(r) \/ CreateUnconfirmed(r) \/ CallFails(r)
    \/ Respond(r) \/ RespondFails(r) \/ Broadcast(r)

Next == \E r \in Creates : Serve(r)

Spec == Init /\ [][Next]_vars

-------------------------------------------------------------------------------
(* Properties. *)

Stored(d) == \E x \in dialogs : x.id = d

\* A 200 names a stored dialog of exactly the caller and the target, another
\* user, and no other dialog has its id; when the request created that dialog
\* both were told of it; nobody is told of a dialog that is not stored.
AnswerIsTrue ==
    /\ \A r \in Creates : code[r] = 200 =>
          /\ call[r].user # call[r].target
          /\ {d \in dialogs : d.id = found[r]} =
                {[id |-> found[r], users |-> {call[r].user, call[r].target}]}
          /\ found[r] = r => r \in announced
    /\ \A r \in announced : Stored(r)

\* When two dialogs of one pair exist, neither creator could see the other's
\* dialog when it looked: only a race of two creations makes a duplicate,
\* whichever of the two users made the earlier call.
DuplicatesOnlyFromRaces ==
    \A d, e \in dialogs : d.users = e.users => d.id \notin seen[e.id]

\* What docs/PRD.md:94 says: creating a dialog between the same users again
\* makes no duplicate.
OneDialogPerPair == \A d, e \in dialogs : d.users = e.users => d = e
===============================================================================
