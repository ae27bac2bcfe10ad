------------------------------- MODULE Messages -------------------------------
(***************************************************************************)
(* POST /dialogs/{id}/messages and POST /messages/{id}/read, from the      *)
(* route handler down to the SQL statements, run by any number of clients  *)
(* at once on several workers over one PostgreSQL database.                *)
(*                                                                         *)
(* A handler is a coroutine: it steps from one await to the next, and      *)
(* anything may happen in between.  pc[r] names the await request r is     *)
(* about to perform.  A message that send request s inserts gets a fresh   *)
(* uuid4, so s itself names it.                                            *)
(*                                                                         *)
(* The environment: the auth service and the database may fail a call, a   *)
(* worker may die with its requests and its sockets, WebSocket sessions    *)
(* come and go.  Faults are capped by MaxFaults.                           *)
(*                                                                         *)
(* Next to some definitions stands a wrong variant of it that Next does    *)
(* not use (RefuseSendAsBad, FindExistingSilently, NoUniqueIndex, ...):    *)
(* with it in place of the definition a property below fails.              *)
(***************************************************************************)
EXTENDS Integers

CONSTANTS
    Sends,        \* requests POST /dialogs/{id}/messages; also the message ids
    Reads,        \* requests POST /messages/{id}/read
    Users,
    DialogIds,    \* dialog ids clients may name, existing or not
    Participants, \* the two user ids of each existing dialog (see Dialogs)
    ClientIds,    \* client_message_id values
    Workers,      \* gunicorn workers, each with its own connection manager
    SendCalls,    \* the send calls clients may make
    ReadCalls,    \* the read calls clients may make
    Listeners,    \* the users who may open WebSocket sessions
    MaxFaults     \* bound on failures and crashes

Requests == Sends \cup Reads

SendCall == [user : Users, worker : Workers, dialog : DialogIds,
             client_message_id : ClientIds]
ReadCall == [user : Users, worker : Workers, message : Sends]

ASSUME MessagesAssumption ==
    /\ Sends \cap Reads = {}
    /\ DOMAIN Participants \subseteq DialogIds
    /\ \A d \in DOMAIN Participants :
          \E u, v \in Users : u # v /\ Participants[d] = {u, v}
    /\ SendCalls \subseteq SendCall
    /\ ReadCalls \subseteq ReadCall
    /\ Listeners \subseteq Users
    /\ MaxFaults \in Nat

Message == [id : Sends, dialog : DialogIds, sender : Users,
            client_message_id : ClientIds]

Status == {"none", "sent", "delivered", "read"}

\* _STATUS_ORDER; "none" stands for the absence of a row.
Order == [st \in Status |-> CASE st = "none"      -> 0
                              [] st = "sent"      -> 1
                              [] st = "delivered" -> 2
                              [] st = "read"      -> 3]

VARIABLES
    messages,  \* table messages
    status,    \* table message_statuses, as status[<<message, user>>]
    call,      \* the parameters of each request
    pc,        \* the await each request is about to perform
    found,     \* the message a send request found or created
    todo,      \* the users a send request has still to mark delivered
    code,      \* the HTTP status each request was answered with, 0 before
    announced, \* the requests that broadcast their event
    conn,      \* conn[w]: the users with a WebSocket session on worker w
    faults     \* failures so far

vars == <<messages, status, call, pc, found, todo, code, announced, conn, faults>>

SendAwaits == {"lookup", "create", "response", "broadcast", "connected", "deliver"}
ReadAwaits == {"lookup", "set_read", "broadcast"}
Stops      == {"idle", "done", "crashed"}
Running(r) == pc[r] \notin Stops

\* The HTTP codes of both routes; 0: not answered yet.
Codes == {0, 403, 404, 500, 503}

TypeOK ==
    /\ messages \subseteq Message
    /\ status \in [Sends \X Users -> Status]
    /\ DOMAIN call = Requests
    /\ \A s \in Sends : call[s] \in SendCalls
    /\ \A r \in Reads : call[r] \in ReadCalls
    /\ pc \in [Requests -> SendAwaits \cup ReadAwaits \cup Stops]
    /\ \A s \in Sends : pc[s] \in SendAwaits \cup Stops
    /\ \A r \in Reads : pc[r] \in ReadAwaits \cup Stops
    /\ found \in [Sends -> Sends]
    /\ todo \in [Sends -> SUBSET Users]
    /\ code \in [Requests -> Codes \cup {200, 201, 409}]
    /\ \A s \in Sends : code[s] \in Codes \cup {201, 409}
    /\ \A r \in Reads : code[r] \in Codes \cup {200}
    /\ announced \subseteq Requests
    /\ conn \in [Workers -> SUBSET Users]
    /\ faults \in 0 .. MaxFaults

Init ==
    /\ messages = {}
    /\ status = [p \in Sends \X Users |-> "none"]
    /\ \E f \in [Sends -> SendCalls], g \in [Reads -> ReadCalls] :
          call = [r \in Requests |-> IF r \in Sends THEN f[r] ELSE g[r]]
    /\ pc = [r \in Requests |-> "idle"]
    /\ found = [s \in Sends |-> s]
    /\ todo = [s \in Sends |-> {}]
    /\ code = [r \in Requests |-> 0]
    /\ announced = {}
    /\ conn = [w \in Workers |-> {}]
    /\ faults = 0

-------------------------------------------------------------------------------
(* Control flow of a handler. *)

Goto(r, label) ==
    /\ pc' = [pc EXCEPT ![r] = label]
    /\ UNCHANGED code

Answer(r, c) ==
    /\ pc' = [pc EXCEPT ![r] = "done"]
    /\ code' = [code EXCEPT ![r] = c]

Fault ==
    /\ faults < MaxFaults
    /\ faults' = faults + 1

Database == <<messages, status>>
Session  == <<found, todo>>
World    == <<call, announced, conn>>

-------------------------------------------------------------------------------
(* Authentication, the first await of both handlers. *)

\* The token is good: the handler body starts.
Authenticate(r) ==
    /\ pc[r] = "idle"
    /\ Goto(r, "lookup")
    /\ UNCHANGED <<Database, Session, World, faults>>

\* An invalid or revoked token is answered 403.
RejectToken(r) ==
    /\ pc[r] = "idle"
    /\ Answer(r, 403)
    /\ UNCHANGED <<Database, Session, World, faults>>

\* The auth service cannot be reached: 503.
AuthUnavailable(r) ==
    /\ pc[r] = "idle"
    /\ Fault
    /\ Answer(r, 503)
    /\ UNCHANGED <<Database, Session, World>>

-------------------------------------------------------------------------------
(* MessagesService.send_message: dialog, participant and client id checks. *)

DialogExists(d) == d \in DOMAIN Participants
IsParticipant(u, d) == DialogExists(d) /\ u \in Participants[d]

\* get_by_client_message_id: client_message_id alone is the key.
WithClientId(cid) == {m \in messages : m.client_message_id = cid}

\* A repeated send is one of the same sender to the same dialog.
IsRepeat(s, m) == m.dialog = call[s].dialog /\ m.sender = call[s].user

RefuseSendAsBad(s) ==
    /\ pc[s] = "lookup"
    /\ ~IsParticipant(call[s].user, call[s].dialog)
    /\ Answer(s, 400)
    /\ UNCHANGED <<Database, Session, World, faults>>

\* 404 when the dialog is missing, 403 when the user is not in it.
RefuseSend(s) ==
    /\ pc[s] = "lookup"
    /\ ~IsParticipant(call[s].user, call[s].dialog)
    /\ Answer(s, IF DialogExists(call[s].dialog) THEN 403 ELSE 404)
    /\ UNCHANGED <<Database, Session, World, faults>>

FindExistingSilently(s) ==
    /\ pc[s] = "lookup"
    /\ IsParticipant(call[s].user, call[s].dialog)
    /\ \E m \in WithClientId(call[s].client_message_id) :
          /\ IsRepeat(s, m)
          /\ found' = [found EXCEPT ![s] = m.id]
    /\ Answer(s, 201)
    /\ UNCHANGED <<Database, todo, World, faults>>

\* The message is already stored: answer with it, announcing it again.
FindExisting(s) ==
    /\ pc[s] = "lookup"
    /\ IsParticipant(call[s].user, call[s].dialog)
    /\ \E m \in WithClientId(call[s].client_message_id) :
          /\ IsRepeat(s, m)
          /\ found' = [found EXCEPT ![s] = m.id]
    /\ Goto(s, "response")
    /\ UNCHANGED <<Database, todo, World, faults>>

\* The client id was used by another sender or in another dialog: 409.
FindConflict(s) ==
    /\ pc[s] = "lookup"
    /\ IsParticipant(call[s].user, call[s].dialog)
    /\ \E m \in WithClientId(call[s].client_message_id) : ~IsRepeat(s, m)
    /\ Answer(s, 409)
    /\ UNCHANGED <<Database, Session, World, faults>>

FindNothing(s) ==
    /\ pc[s] = "lookup"
    /\ IsParticipant(call[s].user, call[s].dialog)
    /\ WithClientId(call[s].client_message_id) = {}
    /\ Goto(s, "create")
    /\ UNCHANGED <<Database, Session, World, faults>>

-------------------------------------------------------------------------------
(* MessagesRepository.create: INSERT and COMMIT, under the unique index.   *)

NoUniqueIndex(s) == TRUE
ClientIdFree(s) == WithClientId(call[s].client_message_id) = {}

Insert(s) ==
    messages' = messages \cup
        {[id |-> s, dialog |-> call[s].dialog, sender |-> call[s].user,
          client_message_id |-> call[s].client_message_id]}

Create(s) ==
    /\ pc[s] = "create"
    /\ ClientIdFree(s)
    /\ Insert(s)
    /\ found' = [found EXCEPT ![s] = s]
    /\ Goto(s, "response")
    /\ UNCHANGED <<status, todo, World, faults>>

\* IntegrityError: another request inserted the client id since the lookup.
\* Nobody catches it, so the caller gets a 500.
CreateCollides(s) ==
    /\ pc[s] = "create"
    /\ ~ClientIdFree(s)
    /\ Answer(s, 500)
    /\ UNCHANGED <<Database, Session, World, faults>>

\* The commit took effect but its acknowledgement, or the refresh after it,
\* was lost with the database connection.
CreateUnconfirmed(s) ==
    /\ pc[s] = "create"
    /\ ClientIdFree(s)
    /\ Fault
    /\ Insert(s)
    /\ Answer(s, 500)
    /\ UNCHANGED <<status, Session, World>>

-------------------------------------------------------------------------------
(* The rest of the send_message route: response, broadcast, delivered.     *)

\* _message_to_response asks the auth service for the sender's login.
LoginFoundMarkFirst(s) ==
    /\ pc[s] = "response"
    /\ Goto(s, "connected")
    /\ UNCHANGED <<Database, Session, World, faults>>

LoginFound(s) ==
    /\ pc[s] = "response"
    /\ Goto(s, "broadcast")
    /\ UNCHANGED <<Database, Session, World, faults>>

\* That call is outside the try block: its AuthServiceUnavailableError
\* becomes a 500, the stored message is neither announced nor marked.
LoginFails(s) ==
    /\ pc[s] = "response"
    /\ Fault
    /\ Answer(s, 500)
    /\ UNCHANGED <<Database, Session, World>>

\* new_message goes to every participant, the sender's own sessions included.
BroadcastMessage(s) ==
    /\ pc[s] = "broadcast"
    /\ announced' = announced \cup {s}
    /\ Goto(s, "connected")
    /\ UNCHANGED <<Database, Session, call, conn, faults>>

\* get_connected_user_ids asks the connection manager of this worker only.
Connected(s) ==
    (Participants[call[s].dialog] \cap conn[call[s].worker]) \ {call[s].user}

GetConnected(s) ==
    /\ pc[s] = "connected"
    /\ todo' = [todo EXCEPT ![s] = Connected(s)]
    /\ IF Connected(s) = {} THEN Answer(s, 201) ELSE Goto(s, "deliver")
    /\ UNCHANGED <<Database, found, World, faults>>

\* The rows ON CONFLICT DO UPDATE may overwrite: its WHERE clause.  A
\* missing row is inserted.
DeliverOverAnything == {"sent", "delivered", "read"}
DeliverOver == {"sent"}
ReadOver == {"sent", "delivered"}
Upserts(m, u, over) == status[<<m, u>>] \in {"none"} \cup over

Delivered(s, u) ==
    /\ todo' = [todo EXCEPT ![s] = @ \ {u}]
    /\ IF todo[s] = {u} THEN Answer(s, 201) ELSE Goto(s, "deliver")

SetDelivered(s, u) ==
    /\ pc[s] = "deliver"
    /\ u \in todo[s]
    /\ status' = IF Upserts(found[s], u, DeliverOver)
                 THEN [status EXCEPT ![<<found[s], u>>] = "delivered"]
                 ELSE status
    /\ Delivered(s, u)
    /\ UNCHANGED <<messages, found, World, faults>>

\* A database error here is logged and the loop goes on.
SetDeliveredFails(s, u) ==
    /\ pc[s] = "deliver"
    /\ u \in todo[s]
    /\ Fault
    /\ Delivered(s, u)
    /\ UNCHANGED <<Database, found, World>>

\* The row is written, but the connection is lost at its commit or at the
\* refresh that follows.  The commit has expired the message object, so after
\* it the log call, which reads message.id, raises in its turn: 500.
SetDeliveredUnconfirmed(s, u) ==
    /\ pc[s] = "deliver"
    /\ u \in todo[s]
    /\ Upserts(found[s], u, DeliverOver)
    /\ Fault
    /\ status' = [status EXCEPT ![<<found[s], u>>] = "delivered"]
    /\ Delivered(s, u) \/ (Answer(s, 500) /\ UNCHANGED todo)
    /\ UNCHANGED <<messages, found, World>>

-------------------------------------------------------------------------------
(* MessagesService.mark_as_read and the mark_message_read route.           *)

Stored(id) == \E m \in messages : m.id = id
DialogOf(id) == (CHOOSE m \in messages : m.id = id).dialog

MayReadIfStored(r) == Stored(call[r].message)
MayRead(r) ==
    /\ Stored(call[r].message)
    /\ IsParticipant(call[r].user, DialogOf(call[r].message))

\* 404 when the message is missing, 403 when the user is not in its dialog.
RefuseRead(r) ==
    /\ pc[r] = "lookup"
    /\ ~MayRead(r)
    /\ Answer(r, IF Stored(call[r].message) THEN 403 ELSE 404)
    /\ UNCHANGED <<Database, Session, World, faults>>

AllowRead(r) ==
    /\ pc[r] = "lookup"
    /\ MayRead(r)
    /\ Goto(r, "set_read")
    /\ UNCHANGED <<Database, Session, World, faults>>

WriteRead(r) == status' = [status EXCEPT ![<<call[r].message, call[r].user>>] = "read"]

SetReadAlwaysAnnounced(r) ==
    /\ pc[r] = "set_read"
    /\ WriteRead(r)
    /\ Goto(r, "broadcast")
    /\ UNCHANGED <<messages, Session, World, faults>>

SetReadQuietly(r) ==
    /\ pc[r] = "set_read"
    /\ Upserts(call[r].message, call[r].user, ReadOver)
    /\ WriteRead(r)
    /\ Answer(r, 200)
    /\ UNCHANGED <<messages, Session, World, faults>>

SetRead(r) ==
    /\ pc[r] = "set_read"
    /\ Upserts(call[r].message, call[r].user, ReadOver)
    /\ WriteRead(r)
    /\ Goto(r, "broadcast")
    /\ UNCHANGED <<messages, Session, World, faults>>

\* No row changed: already read, so nothing is announced.
AlreadyRead(r) ==
    /\ pc[r] = "set_read"
    /\ ~Upserts(call[r].message, call[r].user, ReadOver)
    /\ Answer(r, 200)
    /\ UNCHANGED <<Database, Session, World, faults>>

\* The update was committed and the connection lost before the answer.
SetReadUnconfirmed(r) ==
    /\ pc[r] = "set_read"
    /\ Upserts(call[r].message, call[r].user, ReadOver)
    /\ Fault
    /\ WriteRead(r)
    /\ Answer(r, 500)
    /\ UNCHANGED <<messages, Session, World>>

BroadcastRead(r) ==
    /\ pc[r] = "broadcast"
    /\ announced' = announced \cup {r}
    /\ Answer(r, 200)
    /\ UNCHANGED <<Database, Session, call, conn, faults>>

-------------------------------------------------------------------------------
(* The environment. *)

\* A statement fails before it took effect and is rolled back, or publish
\* raises (see PubSub): 500.
CallFails(r) ==
    /\ pc[r] \in {"lookup", "create", "set_read", "broadcast"}
    /\ Fault
    /\ Answer(r, 500)
    /\ UNCHANGED <<Database, Session, World>>

Connect(w, u) ==
    /\ u \notin conn[w]
    /\ conn' = [conn EXCEPT ![w] = @ \cup {u}]
    /\ UNCHANGED <<Database, Session, call, announced, pc, code, faults>>

Disconnect(w, u) ==
    /\ u \in conn[w]
    /\ conn' = [conn EXCEPT ![w] = @ \ {u}]
    /\ UNCHANGED <<Database, Session, call, announced, pc, code, faults>>

\* Worker w dies and is restarted: its requests are never answered.
Crash(w) ==
    /\ Fault
    /\ pc' = [r \in Requests |->
                 IF Running(r) /\ call[r].worker = w THEN "crashed" ELSE pc[r]]
    /\ conn' = [conn EXCEPT ![w] = {}]
    /\ UNCHANGED <<Database, Session, call, announced, code>>

-------------------------------------------------------------------------------
Serve(r) ==
    \/ Authenticate(r) \/ RejectToken(r) \/ AuthUnavailable(r) \/ CallFails(r)

ServeSend(s) ==
    \/ RefuseSend(s) \/ FindExisting(s) \/ FindConflict(s) \/ FindNothing(s)
    \/ Create(s) \/ CreateCollides(s) \/ CreateUnconfirmed(s)
    \/ LoginFound(s) \/ LoginFails(s) \/ BroadcastMessage(s) \/ GetConnected(s)
    \/ \E u \in Users :
          SetDelivered(s, u) \/ SetDeliveredFails(s, u) \/ SetDeliveredUnconfirmed(s, u)

ServeRead(r) ==
    \/ RefuseRead(r) \/ AllowRead(r)
    \/ SetRead(r) \/ AlreadyRead(r) \/ SetReadUnconfirmed(r) \/ BroadcastRead(r)

Next ==
    \/ \E r \in Requests : Serve(r)
    \/ \E s \in Sends : ServeSend(s)
    \/ \E r \in Reads : ServeRead(r)
    \/ \E w \in Workers, u \in Listeners : Connect(w, u) \/ Disconnect(w, u)
    \/ \E w \in Workers : Crash(w)

Spec == Init /\ [][Next]_vars

\* Once started, a handler is resumed until it answers: the event loop runs
\* every ready coroutine, and each database or gRPC call returns or fails.
\* Nothing obliges a client to issue a request.
Fairness ==
    /\ \A s \in Sends : WF_vars(ServeSend(s))
    /\ \A r \in Reads : WF_vars(ServeRead(r))

FairSpec == Spec /\ Fairness
-------------------------------------------------------------------------------
(* Safety. *)

\* A client_message_id names at most one stored message, and so does an id,
\* however the lookups and inserts of concurrent and repeated sends
\* interleave.
StoredOnce ==
    \A m, n \in messages :
        m.client_message_id = n.client_message_id \/ m.id = n.id => m = n

\* A send is answered 201 only with the stored message of its own sender,
\* dialog and client id, so that two sends of one client id that are both
\* answered 201 were given the same message and asked for the same thing; and
\* only after announcing it, on the repeat of a send whose first attempt
\* stored the message and died before the broadcast too.
AckIsTrue ==
    \A s \in Sends : code[s] = 201 =>
        /\ s \in announced
        /\ \E m \in messages :
              /\ m.id = found[s]
              /\ m.dialog = call[s].dialog
              /\ m.sender = call[s].user
              /\ m.client_message_id = call[s].client_message_id

\* Both sides of a stored message belong to its dialog: its sender, and
\* everyone who has a status row for it; nobody is told of an event about a
\* message that is not stored.
ParticipantsOnly ==
    /\ \A m \in messages : IsParticipant(m.sender, m.dialog)
    /\ \A id \in Sends, u \in Users : status[<<id, u>>] # "none" =>
          \E m \in messages : m.id = id /\ IsParticipant(u, m.dialog)
    /\ \A s \in announced \cap Sends : Stored(found[s])

\* Only a user other than the sender is marked delivered, and only for a
\* message that was announced before, although the marking runs after two
\* awaits and may belong to a repeated send.
DeliveredAfterAnnounced ==
    \A m \in messages, u \in Users : status[<<m.id, u>>] = "delivered" =>
        /\ u # m.sender
        /\ \E s \in announced \cap Sends : found[s] = m.id

\* A message is announced as read at most once per user, and only when it is
\* read, however many read requests of that user race.
ReadAnnouncedOnce ==
    \A r \in announced \cap Reads :
        /\ status[<<call[r].message, call[r].user>>] = "read"
        /\ \A q \in announced \cap Reads :
              call[q].message = call[r].message /\ call[q].user = call[r].user => q = r

\* The status of a message never falls back: a delivered mark that arrives
\* after the recipient has read the message changes nothing.
StatusNeverFalls ==
    [][\A p \in Sends \X Users : Order[status'[p]] >= Order[status[p]]]_vars

\* What docs/PRD.md:109 and docs/codebase-documentation.md:548 say of a send
\* with a known client_message_id: it is answered with the stored message.
\* So without a fault no send is answered 500.
SendIsIdempotent ==
    faults = 0 => \A s \in Sends : code[s] # 500

-------------------------------------------------------------------------------
(* Liveness. *)

\* The sender sees a status change to read (docs/tickets.md:97): when a
\* message is read, some request announces it, unless a read request of that
\* user failed or died after the change: repeating it announces nothing.
ReadReachesSender ==
    \A id \in Sends, u \in Users :
        status[<<id, u>>] = "read" ~>
            \E r \in Reads :
                /\ call[r].message = id /\ call[r].user = u
                /\ r \in announced \/ pc[r] = "crashed" \/ code[r] = 500

\* A stored message is announced to its dialog, unless the request that stored
\* it failed or died.
StoredIsAnnounced ==
    \A id \in Sends :
        Stored(id) ~>
            \/ \E s \in announced \cap Sends : found[s] = id
            \/ pc[id] = "crashed" \/ code[id] = 500

-------------------------------------------------------------------------------
(* The requests implement the message store.  A request that broadcast its *)
(* event accounts for one notice.                                          *)

NoticeStore == INSTANCE MessageStore WITH
    Calls <- Requests, MessageIds <- Sends, messages <- messages, status <- status,
    notices <-
        {<<"new_message", found[s], s>> : s \in announced \cap Sends} \cup
        {<<"message_read", call[r].message, call[r].user, r>> : r \in announced \cap Reads}

\* Every step of the handlers is a step of the message store or leaves it
\* alone: unique storage, rising statuses and single read notices, together.
ImplementsMessageStore == NoticeStore!Spec
===============================================================================
