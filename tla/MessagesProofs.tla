---------------------------- MODULE MessagesProofs ----------------------------
(* Theorems about Messages for any number of requests, users, dialogs,       *)
(* client ids, workers and faults.                                           *)
EXTENDS Messages, TLAPS

(* Every variable keeps its type: in particular no handler is at an await it *)
(* does not have and no call is answered with a code its route does not give. *)
LEMMA TypeInit == Init => TypeOK
  BY MessagesAssumption
  DEF Init, TypeOK, Requests, SendCall, ReadCall, Message, Status, SendAwaits, ReadAwaits, Stops, Codes

LEMMA TypeStep == TypeOK /\ [Next]_vars => TypeOK'
<1> SUFFICES ASSUME TypeOK, [Next]_vars PROVE TypeOK'
  OBVIOUS
<1> USE MessagesAssumption DEF TypeOK, Requests, SendAwaits, ReadAwaits, Stops,
        Codes, Goto, Answer, Fault,
        Database, Session, World
<1>1. ASSUME NEW r \in Requests, Serve(r) PROVE TypeOK'
  BY <1>1 DEF Serve, Authenticate, RejectToken, AuthUnavailable, CallFails
<1>2. ASSUME NEW s \in Sends, ServeSend(s) PROVE TypeOK'
  <2> s \in Requests
    OBVIOUS
  <2>1. CASE RefuseSend(s)
    BY <2>1 DEF RefuseSend
  <2>2. CASE FindExisting(s) \/ FindConflict(s) \/ FindNothing(s)
    BY <2>2 DEF FindExisting, FindConflict, FindNothing, WithClientId, Message
  <2>3. CASE Create(s) \/ CreateCollides(s) \/ CreateUnconfirmed(s)
    <3>1. call[s].user \in Users /\ call[s].dialog \in DialogIds
            /\ call[s].client_message_id \in ClientIds
      BY DEF SendCall
    <3> QED
      BY <2>3, <3>1 DEF Create, CreateCollides, CreateUnconfirmed, Insert, Message
  <2>4. CASE LoginFound(s) \/ LoginFails(s) \/ BroadcastMessage(s)
    BY <2>4 DEF LoginFound, LoginFails, BroadcastMessage
  <2>5. CASE GetConnected(s)
    <3>1. Connected(s) \subseteq Users
      <4>1. call[s].worker \in Workers
        BY DEF SendCall
      <4> QED
        BY <4>1 DEF Connected
    <3>2. todo' \in [Sends -> SUBSET Users]
      BY <2>5, <3>1 DEF GetConnected
    <3>3. /\ UNCHANGED <<messages, status, found, call, announced, conn, faults>>
          /\ \/ pc' = [pc EXCEPT ![s] = "done"] /\ code' = [code EXCEPT ![s] = 201]
             \/ pc' = [pc EXCEPT ![s] = "deliver"] /\ code' = code
      <4> HIDE DEF Answer, Goto, TypeOK
      <4>1. Answer(s, 201) \/ Goto(s, "deliver")
        BY <2>5 DEF GetConnected
      <4>2. UNCHANGED <<messages, status, found, call, announced, conn, faults>>
        BY <2>5 DEF GetConnected
      <4> QED
        BY <4>1, <4>2 DEF Answer, Goto
    <3> QED
      BY <3>2, <3>3
  <2>6. ASSUME NEW u \in Users,
               \/ SetDelivered(s, u) \/ SetDeliveredFails(s, u) \/ SetDeliveredUnconfirmed(s, u)
        PROVE TypeOK'
    <3>1. /\ UNCHANGED <<messages, found, call, announced, conn>>
          /\ faults' = faults \/ (faults < MaxFaults /\ faults' = faults + 1)
      BY <2>6 DEF SetDelivered, SetDeliveredFails, SetDeliveredUnconfirmed
    <3>2. status' = status \/ status' = [status EXCEPT ![<<found[s], u>>] = "delivered"]
      BY <2>6 DEF SetDelivered, SetDeliveredFails, SetDeliveredUnconfirmed
    <3>3. todo' = todo \/ todo' = [todo EXCEPT ![s] = @ \ {u}]
      BY <2>6 DEF SetDelivered, SetDeliveredFails, SetDeliveredUnconfirmed, Delivered
    <3>4. Goto(s, "deliver") \/ \E c \in {201, 500} : Answer(s, c)
      <4> HIDE DEF Goto, Answer, TypeOK
      <4>1. Delivered(s, u) \/ Answer(s, 500)
        BY <2>6 DEF SetDelivered, SetDeliveredFails, SetDeliveredUnconfirmed
      <4>2. Delivered(s, u) => Goto(s, "deliver") \/ Answer(s, 201)
        BY DEF Delivered
      <4> QED
        BY <4>1, <4>2
    <3>5. /\ pc' \in [Requests -> SendAwaits \cup ReadAwaits \cup Stops]
          /\ \A q \in Sends : pc'[q] \in SendAwaits \cup Stops
          /\ \A q \in Reads : pc'[q] \in ReadAwaits \cup Stops
          /\ code' \in [Requests -> Codes \cup {200, 201, 409}]
          /\ \A q \in Sends : code'[q] \in Codes \cup {201, 409}
          /\ \A q \in Reads : code'[q] \in Codes \cup {200}
      <4>1. CASE Goto(s, "deliver")
        BY <4>1
      <4>2. ASSUME NEW c \in {201, 500}, Answer(s, c) PROVE <3>5!:
        BY <4>2
      <4> QED
        BY <3>4, <4>1, <4>2
    <3> QED
      BY <3>1, <3>2, <3>3, <3>5 DEF Status
  <2> QED
    BY <1>2, <2>1, <2>2, <2>3, <2>4, <2>5, <2>6 DEF ServeSend
<1>3. ASSUME NEW r \in Reads, ServeRead(r) PROVE TypeOK'
  <2> r \in Requests
    OBVIOUS
  <2>1. CASE RefuseRead(r) \/ AllowRead(r) \/ AlreadyRead(r) \/ BroadcastRead(r)
    BY <2>1 DEF RefuseRead, AllowRead, AlreadyRead, BroadcastRead
  <2>2. CASE SetRead(r) \/ SetReadUnconfirmed(r)
    BY <2>2 DEF SetRead, SetReadUnconfirmed, WriteRead, Status
  <2> QED
    BY <1>3, <2>1, <2>2 DEF ServeRead
<1>4. ASSUME NEW w \in Workers, NEW u \in Listeners, Connect(w, u) \/ Disconnect(w, u)
      PROVE TypeOK'
  BY <1>4 DEF Connect, Disconnect
<1>5. ASSUME NEW w \in Workers, Crash(w) PROVE TypeOK'
  BY <1>5 DEF Crash, Running
<1>6. CASE UNCHANGED vars
  BY <1>6 DEF vars
<1> QED
  BY <1>1, <1>2, <1>3, <1>4, <1>5, <1>6 DEF Next

THEOREM TypeCorrect == Spec => []TypeOK
  BY TypeInit, TypeStep, PTL DEF Spec
-------------------------------------------------------------------------------
(* The inductive invariant.  What a request may rely on depends on how far   *)
(* its handler has got, so each part ties pc to the database.                *)

\* The message s found or created is stored, and is the one it asked for.
OwnMessage(s) ==
    \E m \in messages :
        /\ m.id = found[s]
        /\ m.dialog = call[s].dialog
        /\ m.sender = call[s].user
        /\ m.client_message_id = call[s].client_message_id

SendsInv ==
    /\ \A r \in Requests : code[r] # 0 => pc[r] = "done"
    /\ \A s \in Sends : pc[s] \in {"idle", "lookup", "create"} =>
          ~Stored(s) /\ s \notin announced
    /\ \A s \in Sends : pc[s] = "create" => IsParticipant(call[s].user, call[s].dialog)
    /\ \A s \in Sends : pc[s] \in {"response", "broadcast"} \/ s \in announced => OwnMessage(s)
    /\ \A s \in Sends : pc[s] \in {"connected", "deliver"} \/ code[s] = 201 => s \in announced
    /\ \A s \in Sends : \A u \in todo[s] :
          IsParticipant(u, call[s].dialog) /\ u # call[s].user

\* A read that changed the row and has announced it, or is about to.
Won(r) == pc[r] = "broadcast" \/ r \in announced

ReadsInv ==
    /\ \A r \in Reads : pc[r] = "set_read" =>
          \E m \in messages : m.id = call[r].message /\ IsParticipant(call[r].user, m.dialog)
    /\ \A r \in Reads : Won(r) => status[<<call[r].message, call[r].user>>] = "read"
    /\ \A q, r \in Reads :
          /\ Won(q)
          /\ Won(r)
          /\ call[q].message = call[r].message
          /\ call[q].user = call[r].user
          => q = r

IInv == TypeOK /\ StoredOnce /\ SendsInv /\ ReadsInv /\ ParticipantsOnly /\ DeliveredAfterAnnounced
LEMMA IInvInit == Init => IInv
<1> SUFFICES ASSUME Init PROVE IInv
  OBVIOUS
<1>1. TypeOK
  BY TypeInit
<1>2. \A r \in Requests : pc[r] = "idle" /\ code[r] = 0
  BY DEF Init
<1>3. StoredOnce /\ ParticipantsOnly /\ DeliveredAfterAnnounced
  BY DEF Init, StoredOnce, ParticipantsOnly, DeliveredAfterAnnounced
<1>4. SendsInv /\ ReadsInv
  BY <1>2 DEF Init, SendsInv, ReadsInv, Won, Stored, Requests
<1> QED
  BY <1>1, <1>3, <1>4 DEF IInv

(* The insert of a send keeps the invariant: the unique index admits no      *)
(* second row for the client id, and the row's fresh id has no status yet.   *)
LEMMA InsertStep ==
  ASSUME IInv, TypeOK', NEW s \in Sends, Create(s) \/ CreateUnconfirmed(s)
  PROVE  IInv'
<1> s \in Requests
  BY DEF Requests
<1> DEFINE row == [id |-> s, dialog |-> call[s].dialog, sender |-> call[s].user,
                   client_message_id |-> call[s].client_message_id]
<1>1. /\ messages' = messages \cup {row}
      /\ pc[s] = "create"
      /\ \A m \in messages : m.client_message_id # row.client_message_id
      /\ status' = status /\ announced' = announced /\ call' = call /\ todo' = todo
      /\ pc'[s] \in {"response", "done"} /\ (pc'[s] = "response" => found'[s] = s)
      /\ code'[s] \in {code[s], 500} /\ (code'[s] = 500 => pc'[s] = "done")
      /\ \A r \in Requests : r # s => pc'[r] = pc[r] /\ code'[r] = code[r]
      /\ \A x \in Sends : x # s => found'[x] = found[x]
  <2>1. /\ messages' = messages \cup {row}
        /\ pc[s] = "create"
        /\ status' = status /\ announced' = announced /\ call' = call /\ todo' = todo
    BY DEF Create, CreateUnconfirmed, Session, World, Insert
  <2>2. \A m \in messages : m.client_message_id # row.client_message_id
    BY DEF Create, CreateUnconfirmed, ClientIdFree, WithClientId
  <2>3. /\ pc \in [Requests -> SendAwaits \cup ReadAwaits \cup Stops]
        /\ found \in [Sends -> Sends]
        /\ code \in [Requests -> Codes \cup {200, 201, 409}]
    BY DEF IInv, TypeOK
  <2>4. CASE Create(s)
    <3>1. code[s] = 0
      BY <2>1 DEF IInv, SendsInv
    <3> QED
      BY <2>1, <2>2, <2>3, <2>4, <3>1 DEF Create, Goto
  <2>5. CASE CreateUnconfirmed(s)
    <3>1. found' = found
      BY <2>5 DEF CreateUnconfirmed, Session
    <3>2. /\ pc' = [pc EXCEPT ![s] = "done"]
          /\ code' = [code EXCEPT ![s] = 500]
      BY <2>5 DEF CreateUnconfirmed, Answer
    <3> HIDE DEF row
    <3> QED
      BY <2>1, <2>2, <2>3, <3>1, <3>2
  <2> QED
    BY <2>4, <2>5
<1>2. row.id = s /\ row.dialog = call[s].dialog /\ row.sender = call[s].user
        /\ row.client_message_id = call[s].client_message_id
  OBVIOUS
<1>3. /\ \A m \in messages : m.id # s
      /\ s \notin announced
      /\ IsParticipant(call[s].user, call[s].dialog)
  BY <1>1 DEF IInv, SendsInv, Stored
<1> HIDE DEF row
<1>4. StoredOnce'
  BY <1>1, <1>2, <1>3 DEF IInv, StoredOnce
<1>5. SendsInv'
  <2>1. \A x \in Sends : x # s /\ OwnMessage(x) => OwnMessage(x)'
    BY <1>1 DEF OwnMessage
  <2>2. pc'[s] = "response" => OwnMessage(s)'
    BY <1>1, <1>2 DEF OwnMessage
  <2>3. \A x \in Sends : x # s /\ ~Stored(x) => ~Stored(x)'
    BY <1>1, <1>2 DEF Stored
  <2>4. code[s] = 0
    BY <1>1 DEF IInv, SendsInv
  <2> QED
    BY <1>1, <1>3, <2>1, <2>2, <2>3, <2>4
    DEF IInv, SendsInv, IsParticipant, DialogExists, Requests
<1>6. ReadsInv'
  <2>1. \A r \in Reads : pc'[r] = pc[r]
    BY <1>1, MessagesAssumption DEF Requests
  <2> QED
    BY <1>1, <2>1 DEF IInv, ReadsInv, Won, IsParticipant, DialogExists
<1>7. ParticipantsOnly'
  <2>1. \A x \in announced \cap Sends : Stored(found[x])'
    <3>1. \A x \in announced \cap Sends : found'[x] = found[x] /\ Stored(found[x])
      BY <1>1, <1>3 DEF IInv, ParticipantsOnly
    <3> QED
      BY <1>1, <3>1 DEF Stored
  <2> QED
    BY <1>1, <1>2, <1>3, <2>1 DEF IInv, ParticipantsOnly, IsParticipant, DialogExists
<1>8. DeliveredAfterAnnounced'
  BY <1>1, <1>2, <1>3 DEF IInv, ParticipantsOnly, DeliveredAfterAnnounced
<1> QED
  BY <1>4, <1>5, <1>6, <1>7, <1>8 DEF IInv
(* A step that leaves the tables, the calls and the announcements alone      *)
(* keeps the invariant when the requests it moves may be where they get to.  *)
LEMMA QuietStep ==
  ASSUME IInv, TypeOK', UNCHANGED <<messages, status, call, announced>>,
         \A s \in announced \cap Sends : found'[s] = found[s],
         \A r \in Reads : pc'[r] = "broadcast" => pc[r] = "broadcast",
         \A r \in Reads : pc'[r] = "set_read" => pc[r] = "set_read" \/ MayRead(r),
         SendsInv'
  PROVE  IInv'
<1>1. StoredOnce'
  BY DEF IInv, StoredOnce
<1>2. ReadsInv'
  <2>1. \A r \in Reads : MayRead(r) =>
          \E m \in messages : m.id = call[r].message /\ IsParticipant(call[r].user, m.dialog)
    BY DEF MayRead, Stored, DialogOf
  <2>2. \A r \in Reads : Won(r)' => Won(r)
    BY DEF Won
  <2> QED
    BY <2>1, <2>2 DEF IInv, ReadsInv, IsParticipant, DialogExists
<1>3. ParticipantsOnly'
  BY DEF IInv, ParticipantsOnly, IsParticipant, DialogExists, Stored
<1>4. DeliveredAfterAnnounced'
  BY DEF IInv, DeliveredAfterAnnounced
<1> QED
  BY <1>1, <1>2, <1>3, <1>4 DEF IInv

(* SendsInv of every request but r follows when only r moves.                *)
LEMMA SendsInvOfOthers ==
  ASSUME IInv, TypeOK', UNCHANGED <<messages, call>>, NEW r \in Requests,
         announced' \in {announced, announced \cup {r}},
         \A x \in Requests : x # r => pc'[x] = pc[x] /\ code'[x] = code[x],
         \A x \in Sends : x # r => found'[x] = found[x] /\ todo'[x] = todo[x],
         code'[r] # 0 => pc'[r] = "done",
         r \in Sends =>
            /\ pc'[r] \in {"idle", "lookup", "create"} => ~Stored(r) /\ r \notin announced'
            /\ pc'[r] = "create" => IsParticipant(call[r].user, call[r].dialog)
            /\ pc'[r] \in {"response", "broadcast"} \/ r \in announced' => OwnMessage(r)'
            /\ pc'[r] \in {"connected", "deliver"} \/ code'[r] = 201 => r \in announced'
            /\ \A u \in todo'[r] : IsParticipant(u, call[r].dialog) /\ u # call[r].user
  PROVE  SendsInv'
<1>1. \A x \in Sends : Stored(x)' = Stored(x)
  BY DEF Stored
<1>2. \A x \in Sends : x # r /\ OwnMessage(x) => OwnMessage(x)'
  BY DEF OwnMessage
<1> QED
  BY <1>1, <1>2 DEF IInv, SendsInv, Requests, IsParticipant, DialogExists
LEMMA ServeStep ==
  ASSUME IInv, TypeOK', NEW r \in Requests, Serve(r)
  PROVE  IInv'
<1>1. /\ UNCHANGED <<messages, status, call, announced, found, todo>>
      /\ pc[r] \in {"idle", "lookup", "create", "set_read", "broadcast"}
      /\ \/ pc[r] = "idle" /\ pc' = [pc EXCEPT ![r] = "lookup"] /\ code' = code
         \/ \E c \in {403, 500, 503} :
               pc' = [pc EXCEPT ![r] = "done"] /\ code' = [code EXCEPT ![r] = c]
  BY DEF Serve, Authenticate, RejectToken, AuthUnavailable, CallFails,
         Goto, Answer, Fault, Database, Session, World
<1>2. /\ pc \in [Requests -> SendAwaits \cup ReadAwaits \cup Stops]
      /\ code \in [Requests -> Codes \cup {200, 201, 409}]
      /\ code[r] = 0
  BY <1>1 DEF IInv, TypeOK, SendsInv
<1>3. /\ \A x \in Requests : x # r => pc'[x] = pc[x] /\ code'[x] = code[x]
      /\ pc'[r] \in {"lookup", "done"} /\ (pc'[r] = "lookup" => pc[r] = "idle")
      /\ code'[r] \in {0, 403, 500, 503} /\ (code'[r] # 0 => pc'[r] = "done")
  BY <1>1, <1>2
<1>5. SendsInv'
  <2>1. r \in Sends =>
          /\ pc[r] = "idle" => ~Stored(r) /\ r \notin announced
          /\ r \in announced => OwnMessage(r)
    BY DEF IInv, SendsInv
  <2>3. r \in Sends =>
          /\ pc'[r] \in {"idle", "lookup", "create"} => ~Stored(r) /\ r \notin announced
          /\ r \in announced => OwnMessage(r)'
    BY <1>1, <1>3, <2>1 DEF OwnMessage
  <2>2. r \in Sends => todo[r] = todo'[r] /\ \A u \in todo[r] :
          IsParticipant(u, call[r].dialog) /\ u # call[r].user
    BY <1>1 DEF IInv, SendsInv
  <2> QED
    BY <1>1, <1>3, <2>2, <2>3, SendsInvOfOthers
<1>6. \A x \in Reads : pc'[x] \in {"broadcast", "set_read"} => pc'[x] = pc[x]
  BY <1>3 DEF Requests
<1> QED
  BY <1>1, <1>5, <1>6, QuietStep
(* The lookup of a send: whatever it finds is the sender's own message.      *)
LEMMA LookupStep ==
  ASSUME IInv, TypeOK', NEW s \in Sends,
         RefuseSend(s) \/ FindExisting(s) \/ FindConflict(s) \/ FindNothing(s)
  PROVE  IInv'
<1> s \in Requests
  BY DEF Requests
<1>1. /\ UNCHANGED <<messages, status, call, announced, todo>>
      /\ pc[s] = "lookup"
  BY DEF RefuseSend, FindExisting, FindConflict, FindNothing, Database, Session, World
<1>2. /\ pc \in [Requests -> SendAwaits \cup ReadAwaits \cup Stops]
      /\ code \in [Requests -> Codes \cup {200, 201, 409}]
      /\ found \in [Sends -> Sends]
      /\ code[s] = 0 /\ ~Stored(s) /\ s \notin announced
  BY <1>1 DEF IInv, TypeOK, SendsInv
<1>3. /\ \A x \in Requests : x # s => pc'[x] = pc[x] /\ code'[x] = code[x]
      /\ \A x \in Sends : x # s => found'[x] = found[x]
      /\ \/ pc'[s] = "done" /\ code'[s] \in {403, 404, 409}
         \/ pc'[s] = "response" /\ code'[s] = 0 /\ OwnMessage(s)'
         \/ pc'[s] = "create" /\ code'[s] = 0 /\ IsParticipant(call[s].user, call[s].dialog)
  <2>1. CASE RefuseSend(s)
    BY <1>2, <2>1 DEF RefuseSend, Answer, Session
  <2>2. CASE FindExisting(s)
    BY <1>1, <1>2, <2>2 DEF FindExisting, Goto, WithClientId, IsRepeat, OwnMessage
  <2>3. CASE FindConflict(s)
    BY <1>2, <2>3 DEF FindConflict, Answer, Session
  <2>4. CASE FindNothing(s)
    BY <1>2, <2>4 DEF FindNothing, Goto, Session
  <2> QED
    BY <2>1, <2>2, <2>3, <2>4
<1>4. SendsInv'
  <2>1. todo'[s] = todo[s] /\ \A u \in todo[s] :
          IsParticipant(u, call[s].dialog) /\ u # call[s].user
    BY <1>1 DEF IInv, SendsInv
  <2> QED
    BY <1>1, <1>2, <1>3, <2>1, SendsInvOfOthers
<1>5. \A x \in Reads : pc'[x] = pc[x]
  BY <1>3, MessagesAssumption DEF Requests
<1> QED
  BY <1>1, <1>2, <1>3, <1>4, <1>5, QuietStep

(* After the message is found: login, broadcast, snapshot of the connections. *)
LEMMA AnnounceStep ==
  ASSUME IInv, TypeOK', NEW s \in Sends,
         LoginFound(s) \/ LoginFails(s) \/ CreateCollides(s) \/ GetConnected(s)
  PROVE  IInv'
<1> s \in Requests
  BY DEF Requests
<1>1. /\ UNCHANGED <<messages, status, call, announced, found>>
      /\ pc[s] \in {"response", "create", "connected"}
  BY DEF LoginFound, LoginFails, CreateCollides, GetConnected, Database, Session, World
<1>2. /\ pc \in [Requests -> SendAwaits \cup ReadAwaits \cup Stops]
      /\ code \in [Requests -> Codes \cup {200, 201, 409}]
      /\ todo \in [Sends -> SUBSET Users]
      /\ code[s] = 0
      /\ pc[s] = "response" \/ s \in announced => OwnMessage(s)
      /\ pc[s] = "connected" => s \in announced
      /\ \A u \in todo[s] : IsParticipant(u, call[s].dialog) /\ u # call[s].user
  BY <1>1 DEF IInv, TypeOK, SendsInv
<1>3. /\ \A x \in Requests : x # s => pc'[x] = pc[x] /\ code'[x] = code[x]
      /\ \A x \in Sends : x # s => todo'[x] = todo[x]
      /\ \A u \in todo'[s] : IsParticipant(u, call[s].dialog) /\ u # call[s].user
      /\ \/ pc'[s] = "done" /\ code'[s] = 500
         \/ pc[s] = "response" /\ pc'[s] = "broadcast" /\ code'[s] = 0
         \/ pc[s] = "connected" /\ pc'[s] = "deliver" /\ code'[s] = 0
         \/ pc[s] = "connected" /\ pc'[s] = "done" /\ code'[s] = 201
  <2>1. CASE LoginFound(s)
    BY <1>2, <2>1 DEF LoginFound, Goto, Session
  <2>2. CASE LoginFails(s) \/ CreateCollides(s)
    BY <1>2, <2>2 DEF LoginFails, CreateCollides, Answer, Session
  <2>3. CASE GetConnected(s)
    <3>1. \A u \in Connected(s) : IsParticipant(u, call[s].dialog) /\ u # call[s].user
      <4>1. IsParticipant(call[s].user, call[s].dialog)
        BY <1>2, <2>3 DEF GetConnected, IInv, OwnMessage, ParticipantsOnly
      <4> QED
        BY <4>1 DEF Connected, IsParticipant
    <3>2. /\ pc[s] = "connected"
          /\ todo' = [todo EXCEPT ![s] = Connected(s)]
          /\ \/ pc' = [pc EXCEPT ![s] = "done"] /\ code' = [code EXCEPT ![s] = 201]
             \/ pc' = [pc EXCEPT ![s] = "deliver"] /\ code' = code
      BY <2>3 DEF GetConnected, Goto, Answer
    <3> QED
      BY <1>2, <3>1, <3>2
  <2> QED
    BY <2>1, <2>2, <2>3
<1>4. SendsInv'
  <2>1. OwnMessage(s) => OwnMessage(s)'
    BY <1>1 DEF OwnMessage
  <2> QED
    BY <1>1, <1>2, <1>3, <2>1, SendsInvOfOthers
<1>5. \A x \in Reads : pc'[x] = pc[x]
  BY <1>3, MessagesAssumption DEF Requests
<1> QED
  BY <1>1, <1>2, <1>3, <1>4, <1>5, QuietStep
LEMMA BroadcastMessageStep ==
  ASSUME IInv, TypeOK', NEW s \in Sends, BroadcastMessage(s)
  PROVE  IInv'
<1> s \in Requests
  BY DEF Requests
<1>1. /\ UNCHANGED <<messages, status, call, code, found, todo>>
      /\ announced' = announced \cup {s}
      /\ pc[s] = "broadcast"
      /\ pc' = [pc EXCEPT ![s] = "connected"]
  BY DEF BroadcastMessage, Goto, Database, Session
<1>2. /\ pc \in [Requests -> SendAwaits \cup ReadAwaits \cup Stops]
      /\ code[s] = 0
      /\ OwnMessage(s)
      /\ \A u \in todo[s] : IsParticipant(u, call[s].dialog) /\ u # call[s].user
  BY <1>1 DEF IInv, TypeOK, SendsInv
<1>3. SendsInv'
  <2>1. OwnMessage(s)'
    BY <1>1, <1>2 DEF OwnMessage
  <2>2. pc'[s] = "connected" /\ \A x \in Requests : x # s => pc'[x] = pc[x]
    BY <1>1, <1>2
  <2> QED
    BY <1>1, <1>2, <2>1, <2>2, SendsInvOfOthers
<1>4. StoredOnce'
  BY <1>1 DEF IInv, StoredOnce
<1>5. ReadsInv'
  <2>1. \A r \in Reads : r # s /\ pc'[r] = pc[r]
    BY <1>1, <1>2, MessagesAssumption DEF Requests
  <2>2. \A r \in Reads : Won(r)' = Won(r)
    BY <1>1, <2>1 DEF Won
  <2> QED
    BY <1>1, <2>1, <2>2 DEF IInv, ReadsInv, IsParticipant, DialogExists
<1>6. ParticipantsOnly'
  <2>1. Stored(found[s])
    BY <1>2 DEF OwnMessage, Stored
  <2> QED
    BY <1>1, <2>1 DEF IInv, ParticipantsOnly, IsParticipant, DialogExists, Stored
<1>7. DeliveredAfterAnnounced'
  BY <1>1 DEF IInv, DeliveredAfterAnnounced
<1> QED
  BY <1>3, <1>4, <1>5, <1>6, <1>7 DEF IInv

(* One turn of the delivered loop: the user is a participant other than the  *)
(* sender, the message was announced, and a read row is left alone.          *)
LEMMA SetDeliveredStep ==
  ASSUME IInv, TypeOK', NEW s \in Sends, NEW u \in Users,
         SetDelivered(s, u) \/ SetDeliveredFails(s, u) \/ SetDeliveredUnconfirmed(s, u)
  PROVE  IInv'
<1> s \in Requests
  BY DEF Requests
<1>1. /\ UNCHANGED <<messages, call, announced, found>>
      /\ pc[s] = "deliver" /\ u \in todo[s]
      /\ \/ status' = status
         \/ /\ status[<<found[s], u>>] \in {"none", "sent"}
            /\ status' = [status EXCEPT ![<<found[s], u>>] = "delivered"]
      /\ todo' = todo \/ todo' = [todo EXCEPT ![s] = @ \ {u}]
      /\ \/ /\ pc' = [pc EXCEPT ![s] = "done"]
            /\ code' = [code EXCEPT ![s] = 201] \/ code' = [code EXCEPT ![s] = 500]
         \/ pc' = [pc EXCEPT ![s] = "deliver"] /\ code' = code
  BY DEF SetDelivered, SetDeliveredFails, SetDeliveredUnconfirmed, Delivered, Goto, Answer, Database, World,
         Upserts, DeliverOver
<1>2. /\ pc \in [Requests -> SendAwaits \cup ReadAwaits \cup Stops]
      /\ code \in [Requests -> Codes \cup {200, 201, 409}]
      /\ status \in [Sends \X Users -> Status]
      /\ todo \in [Sends -> SUBSET Users]
      /\ found[s] \in Sends
      /\ \A r \in Reads : call[r].message \in Sends /\ call[r].user \in Users
  BY MessagesAssumption DEF IInv, TypeOK, ReadCall
<1>3. /\ code[s] = 0
      /\ s \in announced
      /\ OwnMessage(s)
      /\ \A v \in todo[s] : IsParticipant(v, call[s].dialog) /\ v # call[s].user
  BY <1>1 DEF IInv, SendsInv
<1>4. /\ \A x \in Requests : x # s => pc'[x] = pc[x] /\ code'[x] = code[x]
      /\ \A x \in Sends : x # s => todo'[x] = todo[x]
      /\ todo'[s] \subseteq todo[s]
      /\ pc'[s] \in {"done", "deliver"} /\ code'[s] \in {0, 201, 500}
      /\ code'[s] # 0 => pc'[s] = "done"
  BY <1>1, <1>2, <1>3
<1>5. SendsInv'
  <2>1. OwnMessage(s)'
    BY <1>1, <1>3 DEF OwnMessage
  <2> QED
    BY <1>1, <1>3, <1>4, <2>1, SendsInvOfOthers
<1>6. StoredOnce'
  BY <1>1 DEF IInv, StoredOnce
<1>7. ReadsInv'
  <2>1. \A r \in Reads : pc'[r] = pc[r]
    BY <1>4, MessagesAssumption DEF Requests
  <2>2. \A r \in Reads : Won(r)' = Won(r)
    BY <1>1, <2>1 DEF Won
  <2>3. \A p \in Sends \X Users : status[p] = "read" => status'[p] = "read"
    BY <1>1, <1>2
  <2> QED
    BY <1>1, <1>2, <2>1, <2>2, <2>3 DEF IInv, ReadsInv, IsParticipant, DialogExists
<1>8. PICK m \in messages : m.id = found[s] /\ m.dialog = call[s].dialog /\ m.sender = call[s].user
  BY <1>3 DEF OwnMessage
<1>9. ParticipantsOnly'
  <2>1. \A id \in Sends, v \in Users :
          status'[<<id, v>>] # status[<<id, v>>] => id = m.id /\ v = u
    BY <1>1, <1>2, <1>8
  <2>2. IsParticipant(u, m.dialog)
    BY <1>1, <1>3, <1>8
  <2> QED
    BY <1>1, <2>1, <2>2 DEF IInv, ParticipantsOnly, IsParticipant, DialogExists, Stored
<1>10. DeliveredAfterAnnounced'
  <2>1. \A n \in messages, v \in Users : n.id \in Sends /\
          (status'[<<n.id, v>>] # status[<<n.id, v>>] => n = m /\ v = u)
    BY <1>1, <1>2, <1>8 DEF IInv, TypeOK, StoredOnce, Message
  <2>2. u # m.sender
    BY <1>1, <1>3, <1>8
  <2> QED
    BY <1>1, <1>3, <1>8, <2>1, <2>2 DEF IInv, DeliveredAfterAnnounced
<1> QED
  BY <1>5, <1>6, <1>7, <1>9, <1>10 DEF IInv
LEMMA ReadLookupStep ==
  ASSUME IInv, TypeOK', NEW r \in Reads, RefuseRead(r) \/ AllowRead(r) \/ AlreadyRead(r)
  PROVE  IInv'
<1> r \in Requests /\ r \notin Sends
  BY MessagesAssumption DEF Requests
<1>1. /\ UNCHANGED <<messages, status, call, announced, found, todo>>
      /\ \/ /\ \E c \in {200, 403, 404} : code' = [code EXCEPT ![r] = c]
            /\ pc' = [pc EXCEPT ![r] = "done"]
         \/ MayRead(r) /\ pc' = [pc EXCEPT ![r] = "set_read"] /\ code' = code
      /\ pc[r] \in {"lookup", "set_read"}
  BY DEF RefuseRead, AllowRead, AlreadyRead, Goto, Answer, Database, Session, World
<1>2. /\ pc \in [Requests -> SendAwaits \cup ReadAwaits \cup Stops]
      /\ code \in [Requests -> Codes \cup {200, 201, 409}]
      /\ code[r] = 0
  BY <1>1 DEF IInv, TypeOK, SendsInv
<1>3. /\ \A x \in Requests : x # r => pc'[x] = pc[x] /\ code'[x] = code[x]
      /\ pc'[r] \in {"done", "set_read"} /\ (pc'[r] = "set_read" => MayRead(r))
      /\ code'[r] # 0 => pc'[r] = "done"
  BY <1>1, <1>2
<1>4. SendsInv'
  BY <1>1, <1>3, SendsInvOfOthers
<1>5. \A x \in Reads : /\ pc'[x] = "broadcast" => pc[x] = "broadcast"
                       /\ pc'[x] = "set_read" => pc[x] = "set_read" \/ MayRead(x)
  BY <1>3 DEF Requests
<1> QED
  BY <1>1, <1>4, <1>5, QuietStep

(* The winning read: the row was not read before, so no other read of this   *)
(* user can have announced it.                                               *)
LEMMA SetReadStep ==
  ASSUME IInv, TypeOK', NEW r \in Reads, SetRead(r) \/ SetReadUnconfirmed(r)
  PROVE  IInv'
<1> r \in Requests /\ r \notin Sends
  BY MessagesAssumption DEF Requests
<1> DEFINE row == <<call[r].message, call[r].user>>
<1>1. /\ UNCHANGED <<messages, call, announced, found, todo>>
      /\ status' = [status EXCEPT ![row] = "read"]
      /\ status[row] # "read"
      /\ pc[r] = "set_read"
      /\ \/ pc' = [pc EXCEPT ![r] = "broadcast"] /\ code' = code
         \/ pc' = [pc EXCEPT ![r] = "done"] /\ code' = [code EXCEPT ![r] = 500]
  BY DEF SetRead, SetReadUnconfirmed, WriteRead, Upserts, ReadOver, Goto, Answer, Session, World
<1>2. /\ pc \in [Requests -> SendAwaits \cup ReadAwaits \cup Stops]
      /\ code \in [Requests -> Codes \cup {200, 201, 409}]
      /\ status \in [Sends \X Users -> Status]
      /\ \A x \in Reads : call[x].message \in Sends /\ call[x].user \in Users
      /\ code[r] = 0
  BY <1>1, MessagesAssumption DEF IInv, TypeOK, ReadCall, SendsInv
<1>3. /\ \A x \in Requests : x # r => pc'[x] = pc[x] /\ code'[x] = code[x]
      /\ pc'[r] \in {"done", "broadcast"} /\ (code'[r] # 0 => pc'[r] = "done")
  BY <1>1, <1>2
<1>4. /\ status'[row] = "read"
      /\ \A p \in Sends \X Users : p # row => status'[p] = status[p]
  BY <1>1, <1>2
<1>5. PICK m \in messages : m.id = call[r].message /\ IsParticipant(call[r].user, m.dialog)
  BY <1>1 DEF IInv, ReadsInv
<1>6. SendsInv'
  BY <1>1, <1>3, SendsInvOfOthers
<1>7. StoredOnce'
  BY <1>1 DEF IInv, StoredOnce
<1>8. ReadsInv'
  <2>1. \A x \in Reads : Won(x) => <<call[x].message, call[x].user>> # row
    BY <1>1 DEF IInv, ReadsInv
  <2>2. \A x \in Reads : Won(x)' => Won(x) \/ x = r
    BY <1>1, <1>3 DEF Won, Requests
  <2>3. \A x \in Reads : pc'[x] = "set_read" => pc[x] = "set_read"
    BY <1>3 DEF Requests
  <2>4. \A x \in Reads : pc'[x] = "set_read" =>
          \E n \in messages' : n.id = call'[x].message /\ IsParticipant(call'[x].user, n.dialog)
    BY <1>1, <2>3 DEF IInv, ReadsInv
  <2>5. \A x \in Reads : Won(x)' => status'[<<call[x].message, call[x].user>>] = "read"
    BY <1>2, <1>4, <2>2 DEF IInv, ReadsInv
  <2>6. \A x, y \in Reads :
          Won(x)' /\ Won(y)' /\ call[x].message = call[y].message /\ call[x].user = call[y].user
          => x = y
    BY <2>1, <2>2 DEF IInv, ReadsInv
  <2> QED
    BY <1>1, <2>4, <2>5, <2>6 DEF ReadsInv, IsParticipant, DialogExists
<1>9. ParticipantsOnly'
  <2>1. \A id \in Sends, v \in Users :
          status'[<<id, v>>] # status[<<id, v>>] => id = m.id /\ v = call[r].user
    BY <1>2, <1>4, <1>5
  <2> QED
    BY <1>1, <1>5, <2>1 DEF IInv, ParticipantsOnly, IsParticipant, DialogExists, Stored
<1>10. DeliveredAfterAnnounced'
  <2>1. \A n \in messages, v \in Users :
          status'[<<n.id, v>>] = "delivered" => status[<<n.id, v>>] = "delivered"
    <3>1. \A n \in messages : n.id \in Sends
      BY DEF IInv, TypeOK, Message
    <3>2. \A p \in Sends \X Users : status'[p] = "delivered" => status[p] = "delivered"
      BY <1>4
    <3> QED
      BY <3>1, <3>2
  <2> QED
    BY <1>1, <2>1 DEF IInv, DeliveredAfterAnnounced
<1> QED
  BY <1>6, <1>7, <1>8, <1>9, <1>10 DEF IInv

LEMMA BroadcastReadStep ==
  ASSUME IInv, TypeOK', NEW r \in Reads, BroadcastRead(r)
  PROVE  IInv'
<1> r \in Requests /\ r \notin Sends
  BY MessagesAssumption DEF Requests
<1>1. /\ UNCHANGED <<messages, status, call, found, todo>>
      /\ announced' = announced \cup {r}
      /\ pc[r] = "broadcast"
      /\ pc' = [pc EXCEPT ![r] = "done"]
      /\ code' = [code EXCEPT ![r] = 200]
  BY DEF BroadcastRead, Answer, Database, Session
<1>2. /\ \A x \in Requests : x # r => pc'[x] = pc[x] /\ code'[x] = code[x]
      /\ pc'[r] = "done"
  BY <1>1 DEF IInv, TypeOK
<1>3. SendsInv'
  BY <1>1, <1>2, SendsInvOfOthers
<1>4. StoredOnce'
  BY <1>1 DEF IInv, StoredOnce
<1>5. ReadsInv'
  <2>1. \A x \in Reads : Won(x)' => Won(x)
    BY <1>1, <1>2 DEF Won, Requests
  <2>2. \A x \in Reads : pc'[x] = "set_read" => pc[x] = "set_read"
    BY <1>2 DEF Requests
  <2> QED
    BY <1>1, <2>1, <2>2 DEF IInv, ReadsInv, IsParticipant, DialogExists
<1>6. ParticipantsOnly'
  BY <1>1 DEF IInv, ParticipantsOnly, IsParticipant, DialogExists, Stored
<1>7. DeliveredAfterAnnounced'
  BY <1>1 DEF IInv, DeliveredAfterAnnounced
<1> QED
  BY <1>3, <1>4, <1>5, <1>6, <1>7 DEF IInv

(* Sessions open and close, and a worker dies, without touching the tables.  *)
LEMMA EnvironmentStep ==
  ASSUME IInv, TypeOK', NEW w \in Workers,
         Crash(w) \/ \E u \in Listeners : Connect(w, u) \/ Disconnect(w, u)
  PROVE  IInv'
<1>1. UNCHANGED <<messages, status, call, announced, found, todo, code>>
  BY DEF Crash, Connect, Disconnect, Database, Session
<1>2. \A r \in Requests : pc'[r] = pc[r] \/ (pc'[r] = "crashed" /\ pc[r] \notin Stops)
  <2> SUFFICES ASSUME NEW r \in Requests
               PROVE  pc'[r] = pc[r] \/ (pc'[r] = "crashed" /\ pc[r] \notin Stops)
    OBVIOUS
  <2>1. CASE Crash(w)
    <3>1. pc'[r] = IF Running(r) /\ call[r].worker = w THEN "crashed" ELSE pc[r]
      BY <2>1 DEF Crash
    <3> QED
      BY <3>1 DEF Running
  <2>2. CASE \E u \in Listeners : Connect(w, u) \/ Disconnect(w, u)
    BY <2>2 DEF Connect, Disconnect
  <2> QED
    BY <2>1, <2>2
<1>3. SendsInv'
  <2>1. \A s \in Sends : Stored(s)' = Stored(s) /\ OwnMessage(s)' = OwnMessage(s)
    BY <1>1 DEF Stored, OwnMessage
  <2> QED
    BY <1>1, <1>2, <2>1 DEF IInv, SendsInv, Requests, Stops, IsParticipant, DialogExists
<1>4. \A r \in Reads : pc'[r] \in {"broadcast", "set_read"} => pc'[r] = pc[r]
  BY <1>2 DEF Requests
<1> QED
  BY <1>1, <1>3, <1>4, QuietStep

LEMMA StutterStep ==
  ASSUME IInv, TypeOK', UNCHANGED vars
  PROVE  IInv'
<1>1. UNCHANGED <<messages, status, call, announced, found, todo, code, pc>>
  BY DEF vars
<1>2. SendsInv'
  BY <1>1 DEF IInv, SendsInv, Stored, OwnMessage, IsParticipant, DialogExists
<1> QED
  BY <1>1, <1>2, QuietStep

LEMMA IInvStep == IInv /\ [Next]_vars => IInv'
<1> SUFFICES ASSUME IInv, [Next]_vars PROVE IInv'
  OBVIOUS
<1>1. TypeOK'
  BY TypeStep DEF IInv
<1>2. ASSUME NEW r \in Requests, Serve(r) PROVE IInv'
  BY <1>1, <1>2, ServeStep
<1>3. ASSUME NEW s \in Sends, ServeSend(s) PROVE IInv'
  BY <1>1, <1>3, LookupStep, InsertStep, AnnounceStep, BroadcastMessageStep, SetDeliveredStep
  DEF ServeSend
<1>4. ASSUME NEW r \in Reads, ServeRead(r) PROVE IInv'
  BY <1>1, <1>4, ReadLookupStep, SetReadStep, BroadcastReadStep DEF ServeRead
<1>5. ASSUME NEW w \in Workers,
             Crash(w) \/ \E u \in Listeners : Connect(w, u) \/ Disconnect(w, u)
      PROVE  IInv'
  BY <1>1, <1>5, EnvironmentStep
<1>6. CASE UNCHANGED vars
  BY <1>1, <1>6, StutterStep
<1> QED
  BY <1>2, <1>3, <1>4, <1>5, <1>6 DEF Next

THEOREM Invariance == Spec => []IInv
  BY IInvInit, IInvStep, PTL DEF Spec
-------------------------------------------------------------------------------
(* The properties that follow. *)

(* A client id names one stored message in every reachable state, for any    *)
(* number of concurrent and repeated sends.                                  *)
THEOREM StoredOnceAlways == Spec => []StoredOnce
  BY Invariance, PTL DEF IInv

(* An acknowledged send is stored, is the caller's own, and was announced.   *)
THEOREM AckIsTrueAlways == Spec => []AckIsTrue
<1>1. IInv => AckIsTrue
  BY DEF IInv, SendsInv, OwnMessage, AckIsTrue
<1> QED
  BY <1>1, Invariance, PTL

(* Only participants have status rows, and only stored messages are announced. *)
THEOREM ParticipantsOnlyAlways == Spec => []ParticipantsOnly
  BY Invariance, PTL DEF IInv

(* Only recipients are marked delivered, and only after the announcement.    *)
THEOREM DeliveredAfterAnnouncedAlways == Spec => []DeliveredAfterAnnounced
  BY Invariance, PTL DEF IInv

(* A message is announced as read once per user at most.                     *)
THEOREM ReadAnnouncedOnceAlways == Spec => []ReadAnnouncedOnce
<1>1. IInv => ReadAnnouncedOnce
  BY DEF IInv, ReadsInv, Won, ReadAnnouncedOnce
<1> QED
  BY <1>1, Invariance, PTL

(* What one step does to a status: nothing, or it sets a higher one.         *)
LEMMA StatusStep ==
  ASSUME TypeOK, [Next]_vars, status' # status
  PROVE  \/ \E s \in Sends, u \in Users :
               /\ SetDelivered(s, u) \/ SetDeliveredUnconfirmed(s, u)
               /\ status[<<found[s], u>>] \in {"none", "sent"}
               /\ status' = [status EXCEPT ![<<found[s], u>>] = "delivered"]
         \/ \E r \in Reads :
               /\ SetRead(r) \/ SetReadUnconfirmed(r)
               /\ status[<<call[r].message, call[r].user>>] # "read"
               /\ status' = [status EXCEPT ![<<call[r].message, call[r].user>>] = "read"]
<1>1. ASSUME NEW r \in Requests, Serve(r) PROVE FALSE
  BY <1>1 DEF Serve, Authenticate, RejectToken, AuthUnavailable, CallFails, Database
<1>2. ASSUME NEW s \in Sends, ServeSend(s)
      PROVE  \E u \in Users :
               /\ SetDelivered(s, u) \/ SetDeliveredUnconfirmed(s, u)
               /\ status[<<found[s], u>>] \in {"none", "sent"}
               /\ status' = [status EXCEPT ![<<found[s], u>>] = "delivered"]
  <2>1. PICK u \in Users : SetDelivered(s, u) \/ SetDeliveredUnconfirmed(s, u)
    BY <1>2 DEF ServeSend, RefuseSend, FindExisting, FindConflict, FindNothing, Create,
       CreateCollides, CreateUnconfirmed, LoginFound, LoginFails, BroadcastMessage,
       GetConnected, SetDeliveredFails, Database
  <2> QED
    BY <2>1 DEF SetDelivered, SetDeliveredUnconfirmed, Upserts, DeliverOver
<1>3. ASSUME NEW r \in Reads, ServeRead(r)
      PROVE  /\ SetRead(r) \/ SetReadUnconfirmed(r)
             /\ status[<<call[r].message, call[r].user>>] # "read"
             /\ status' = [status EXCEPT ![<<call[r].message, call[r].user>>] = "read"]
  BY <1>3 DEF ServeRead, RefuseRead, AllowRead, AlreadyRead, BroadcastRead, SetRead,
     SetReadUnconfirmed, WriteRead, Upserts, ReadOver, Database
<1>4. ASSUME NEW w \in Workers,
             Crash(w) \/ \E u \in Listeners : Connect(w, u) \/ Disconnect(w, u)
      PROVE  FALSE
  BY <1>4 DEF Crash, Connect, Disconnect, Database
<1>5. CASE UNCHANGED vars
  BY <1>5 DEF vars
<1> QED
  BY <1>1, <1>2, <1>3, <1>4, <1>5 DEF Next

(* The status of a message for a user never falls back.                      *)
THEOREM StatusNeverFallsEver == Spec => StatusNeverFalls
<1>1. TypeOK /\ [Next]_vars =>
        [\A p \in Sends \X Users : Order[status'[p]] >= Order[status[p]]]_vars
  <2> SUFFICES ASSUME TypeOK, [Next]_vars, NEW p \in Sends \X Users
               PROVE  Order[status'[p]] >= Order[status[p]]
    OBVIOUS
  <2>1. \A st \in Status : Order[st] \in 0 .. 3 /\ (st # "read" => Order[st] \in 0 .. 2)
    BY DEF Order, Status
  <2>2. Order["none"] = 0 /\ Order["sent"] = 1 /\ Order["delivered"] = 2 /\ Order["read"] = 3
    BY DEF Order, Status
  <2>3. status[p] \in Status
    BY DEF TypeOK
  <2>4. CASE status' = status
    BY <2>1, <2>3, <2>4
  <2>5. CASE status' # status
    <3>1. PICK q : \/ /\ status' = [status EXCEPT ![q] = "delivered"]
                      /\ status[q] \in {"none", "sent"}
                   \/ status' = [status EXCEPT ![q] = "read"]
      BY <2>5, StatusStep
    <3>2. \/ status'[p] = status[p]
          \/ status'[p] = "read"
          \/ status'[p] = "delivered" /\ status[p] \in {"none", "sent"}
      BY <3>1 DEF TypeOK
    <3> QED
      BY <2>1, <2>2, <2>3, <3>2
  <2> QED
    BY <2>4, <2>5
<1> QED
  BY <1>1, TypeCorrect, PTL DEF Spec, StatusNeverFalls

-------------------------------------------------------------------------------
(* The request handlers implement the message store: every step of Messages  *)
(* is, under the refinement mapping of NoticeStore, a step of MessageStore   *)
(* or leaves the store as it is.                                             *)

(* The notices of MessageStore, as NoticeStore maps them.                    *)
Notices ==
    {<<"new_message", found[s], s>> : s \in announced \cap Sends} \cup
    {<<"message_read", call[r].message, call[r].user, r>> : r \in announced \cap Reads}

LEMMA StoreInit == Init => NoticeStore!Init
  BY DEF Init, NoticeStore!Init

(* A step that keeps the tables and the announcements keeps the store; what  *)
(* an announced send found no longer changes.                                *)
LEMMA NoticesKept ==
  ASSUME UNCHANGED <<call, announced>>,
         \A s \in announced \cap Sends : found'[s] = found[s]
  PROVE  Notices' = Notices
  BY DEF Notices

LEMMA InsertIsStore ==
  ASSUME IInv, TypeOK', NEW s \in Sends, Create(s) \/ CreateUnconfirmed(s)
  PROVE  NoticeStore!Next
<1> DEFINE row == [id |-> s, dialog |-> call[s].dialog, sender |-> call[s].user,
                   client_message_id |-> call[s].client_message_id]
<1>1. /\ messages' = messages \cup {row}
      /\ UNCHANGED <<status, call, announced>>
      /\ found' = found \/ found' = [found EXCEPT ![s] = s]
      /\ pc[s] = "create"
      /\ \A m \in messages : m.client_message_id # row.client_message_id
  BY DEF Create, CreateUnconfirmed, Session, World, Insert, ClientIdFree, WithClientId
<1>2. s \notin announced /\ \A m \in messages : m.id # s
  BY <1>1 DEF IInv, SendsInv, Stored
<1>3. \A x \in announced \cap Sends : found'[x] = found[x]
  BY <1>1, <1>2 DEF IInv, TypeOK
<1>4. row \in NoticeStore!Message
  BY MessagesAssumption DEF IInv, TypeOK, SendCall, NoticeStore!Message
<1>5. Notices' = Notices
  BY <1>1, <1>3, NoticesKept
<1>6. NoticeStore!Store(row)
  <2> row.id = s
    OBVIOUS
  <2> HIDE DEF row
  <2> QED
    BY <1>1, <1>2, <1>5 DEF NoticeStore!Store, Notices
<1> QED
  BY <1>4, <1>6 DEF NoticeStore!Next

LEMMA StatusIsAdvance ==
  ASSUME IInv, [Next]_vars, status' # status
  PROVE  NoticeStore!Next
<1>1. NoticeStore!Order["none"] < NoticeStore!Order["delivered"]
      /\ NoticeStore!Order["sent"] < NoticeStore!Order["delivered"]
      /\ \A st \in NoticeStore!Status : st # "read" => NoticeStore!Order[st] < NoticeStore!Order["read"]
  BY DEF NoticeStore!Order, NoticeStore!Status
<1>2. status \in [Sends \X Users -> NoticeStore!Status]
  BY DEF IInv, TypeOK, Status, NoticeStore!Status
<1>3. ASSUME NEW s \in Sends, NEW u \in Users, SetDelivered(s, u) \/ SetDeliveredUnconfirmed(s, u),
             status[<<found[s], u>>] \in {"none", "sent"},
             status' = [status EXCEPT ![<<found[s], u>>] = "delivered"]
      PROVE  NoticeStore!Next
  <2>1. UNCHANGED <<messages, found, call, announced>> /\ pc[s] = "deliver"
    BY <1>3 DEF SetDelivered, SetDeliveredUnconfirmed, World
  <2>2. found[s] \in Sends /\ \E m \in messages : m.id = found[s]
    BY <2>1 DEF IInv, TypeOK, SendsInv, OwnMessage
  <2>3. Notices' = Notices
    BY <2>1, NoticesKept
  <2>4. NoticeStore!Advance(found[s], u, "delivered")
    BY <1>1, <1>3, <2>1, <2>2, <2>3 DEF NoticeStore!Advance, Notices
  <2>5. "delivered" \in NoticeStore!Status
    BY DEF NoticeStore!Status
  <2> QED
    BY <2>2, <2>4, <2>5 DEF NoticeStore!Next
<1>4. ASSUME NEW r \in Reads, SetRead(r) \/ SetReadUnconfirmed(r),
             status[<<call[r].message, call[r].user>>] # "read",
             status' = [status EXCEPT ![<<call[r].message, call[r].user>>] = "read"]
      PROVE  NoticeStore!Next
  <2>1. UNCHANGED <<messages, found, call, announced>> /\ pc[r] = "set_read"
    BY <1>4 DEF SetRead, SetReadUnconfirmed, Session, World
  <2>2. /\ call[r].message \in Sends
        /\ call[r].user \in Users
        /\ \E m \in messages : m.id = call[r].message
    BY <2>1, MessagesAssumption DEF IInv, TypeOK, ReadCall, ReadsInv
  <2>3. Notices' = Notices
    BY <2>1, NoticesKept
  <2>4. NoticeStore!Advance(call[r].message, call[r].user, "read")
    BY <1>1, <1>2, <1>4, <2>1, <2>2, <2>3 DEF NoticeStore!Advance, Notices
  <2>5. "read" \in NoticeStore!Status
    BY DEF NoticeStore!Status
  <2> QED
    BY <2>2, <2>4, <2>5 DEF NoticeStore!Next
<1> QED
  BY <1>3, <1>4, StatusStep DEF IInv

LEMMA BroadcastMessageIsAnnounce ==
  ASSUME IInv, NEW s \in Sends, BroadcastMessage(s)
  PROVE  NoticeStore!Next
<1>1. UNCHANGED <<messages, status, call, found>> /\ announced' = announced \cup {s}
        /\ pc[s] = "broadcast"
  BY DEF BroadcastMessage, Database, Session
<1>2. found[s] \in Sends /\ \E m \in messages : m.id = found[s]
  BY <1>1 DEF IInv, TypeOK, SendsInv, OwnMessage
<1>3. Notices' = Notices \cup {<<"new_message", found[s], s>>}
  BY <1>1, MessagesAssumption DEF Notices
<1>4. NoticeStore!AnnounceMessage(found[s], s)
  BY <1>1, <1>2, <1>3 DEF NoticeStore!AnnounceMessage, NoticeStore!NewMessage, Notices
<1> QED
  BY <1>2, <1>4 DEF NoticeStore!Next, Requests

LEMMA BroadcastReadIsAnnounce ==
  ASSUME IInv, NEW r \in Reads, BroadcastRead(r), r \notin announced
  PROVE  NoticeStore!Next
<1>1. UNCHANGED <<messages, status, call, found>> /\ announced' = announced \cup {r}
        /\ pc[r] = "broadcast"
  BY DEF BroadcastRead, Database, Session
<1>2. call[r].message \in Sends /\ call[r].user \in Users
  BY MessagesAssumption DEF IInv, TypeOK, ReadCall
<1>3. Notices' = Notices \cup {<<"message_read", call[r].message, call[r].user, r>>}
  BY <1>1, MessagesAssumption DEF Notices
<1>4. \A d \in Requests : <<"message_read", call[r].message, call[r].user, d>> \notin Notices
  <2> SUFFICES ASSUME NEW d \in Requests,
                      <<"message_read", call[r].message, call[r].user, d>> \in Notices
               PROVE  FALSE
    OBVIOUS
  <2>1. PICK q \in announced \cap Reads :
          <<"message_read", call[r].message, call[r].user, d>>
            = <<"message_read", call[q].message, call[q].user, q>>
    BY DEF Notices
  <2>2. Won(q) /\ Won(r) /\ q # r
    BY <1>1, <2>1 DEF Won
  <2> QED
    BY <2>1, <2>2 DEF IInv, ReadsInv
<1>5. status[<<call[r].message, call[r].user>>] = "read"
  BY <1>1 DEF IInv, ReadsInv, Won
<1>6. NoticeStore!AnnounceRead(call[r].message, call[r].user, r)
  BY <1>1, <1>3, <1>4, <1>5 DEF NoticeStore!AnnounceRead, NoticeStore!MessageRead, Notices
<1> QED
  BY <1>2, <1>6 DEF NoticeStore!Next, Requests
(* All other steps leave the store alone.                                    *)
LEMMA OthersKeepStore ==
  ASSUME IInv, [Next]_vars, UNCHANGED <<messages, status, announced>>
  PROVE  UNCHANGED NoticeStore!vars
<1>1. call' = call /\ \A s \in announced \cap Sends : found'[s] = found[s]
  <2>1. ASSUME NEW r \in Requests, Serve(r) PROVE UNCHANGED <<call, found>>
    BY <2>1 DEF Serve, Authenticate, RejectToken, AuthUnavailable, CallFails, Session, World
  <2>2. ASSUME NEW s \in Sends, ServeSend(s)
        PROVE  /\ call' = call
               /\ \A x \in announced \cap Sends : found'[x] = found[x]
    <3>1. CASE FindExisting(s) \/ Create(s)
      <4>1. /\ call' = call /\ pc[s] \in {"lookup", "create"}
            /\ \E m : found' = [found EXCEPT ![s] = m]
        BY <3>1 DEF FindExisting, Create, World
      <4>2. s \notin announced
        BY <4>1 DEF IInv, SendsInv
      <4> QED
        BY <4>1, <4>2 DEF IInv, TypeOK
    <3>2. CASE UNCHANGED <<call, found>>
      BY <3>2
    <3> QED
      BY <2>2, <3>1, <3>2 DEF ServeSend, RefuseSend, FindConflict, FindNothing,
         CreateCollides, CreateUnconfirmed, LoginFound, LoginFails, BroadcastMessage,
         GetConnected, SetDelivered, SetDeliveredFails, SetDeliveredUnconfirmed, Session, World
  <2>3. ASSUME NEW r \in Reads, ServeRead(r) PROVE UNCHANGED <<call, found>>
    BY <2>3 DEF ServeRead, RefuseRead, AllowRead, AlreadyRead, SetRead, SetReadUnconfirmed,
       BroadcastRead, Session, World
  <2>4. ASSUME NEW w \in Workers,
               Crash(w) \/ \E u \in Listeners : Connect(w, u) \/ Disconnect(w, u)
        PROVE  UNCHANGED <<call, found>>
    BY <2>4 DEF Crash, Connect, Disconnect, Session
  <2>5. CASE UNCHANGED vars
    BY <2>5 DEF vars
  <2> QED
    BY <2>1, <2>2, <2>3, <2>4, <2>5 DEF Next
<1>2. Notices' = Notices
  BY <1>1, NoticesKept
<1> QED
  BY <1>2 DEF NoticeStore!vars, Notices

(* Which steps touch the messages or the announcements.                      *)
LEMMA TableStep ==
  ASSUME [Next]_vars, ~UNCHANGED <<messages, announced>>
  PROVE  \/ \E s \in Sends : Create(s) \/ CreateUnconfirmed(s) \/ BroadcastMessage(s)
         \/ \E r \in Reads : BroadcastRead(r)
<1>1. ASSUME NEW r \in Requests, Serve(r) PROVE FALSE
  BY <1>1 DEF Serve, Authenticate, RejectToken, AuthUnavailable, CallFails, Database, World
<1>2. ASSUME NEW s \in Sends, ServeSend(s)
      PROVE  Create(s) \/ CreateUnconfirmed(s) \/ BroadcastMessage(s)
  BY <1>2 DEF ServeSend, RefuseSend, FindExisting, FindConflict, FindNothing, CreateCollides,
     LoginFound, LoginFails, GetConnected, SetDelivered, SetDeliveredFails, SetDeliveredUnconfirmed,
     Database, World
<1>3. ASSUME NEW r \in Reads, ServeRead(r) PROVE BroadcastRead(r)
  BY <1>3 DEF ServeRead, RefuseRead, AllowRead, AlreadyRead, SetRead, SetReadUnconfirmed,
     Database, World
<1>4. ASSUME NEW w \in Workers,
             Crash(w) \/ \E u \in Listeners : Connect(w, u) \/ Disconnect(w, u)
      PROVE  FALSE
  BY <1>4 DEF Crash, Connect, Disconnect, Database
<1>5. CASE UNCHANGED vars
  BY <1>5 DEF vars
<1> QED
  BY <1>1, <1>2, <1>3, <1>4, <1>5 DEF Next

LEMMA StoreStep == IInv /\ [Next]_vars => [NoticeStore!Next]_(NoticeStore!vars)
<1> SUFFICES ASSUME IInv, [Next]_vars
             PROVE  NoticeStore!Next \/ UNCHANGED NoticeStore!vars
  OBVIOUS
<1>1. CASE status' # status
  BY <1>1, StatusIsAdvance
<1>2. CASE UNCHANGED <<messages, status, announced>>
  BY <1>2, OthersKeepStore
<1>3. CASE ~UNCHANGED <<messages, announced>>
  <2>1. TypeOK'
    BY TypeStep DEF IInv
  <2>2. ASSUME NEW s \in Sends, Create(s) \/ CreateUnconfirmed(s) \/ BroadcastMessage(s)
        PROVE  NoticeStore!Next
    BY <2>1, <2>2, InsertIsStore, BroadcastMessageIsAnnounce
  <2>3. ASSUME NEW r \in Reads, BroadcastRead(r) PROVE NoticeStore!Next
    <3>1. UNCHANGED messages /\ announced' = announced \cup {r}
      BY <2>3 DEF BroadcastRead, Database
    <3>2. r \notin announced
      BY <1>3, <3>1
    <3> QED
      BY <2>3, <3>2, BroadcastReadIsAnnounce
  <2> QED
    BY <1>3, <2>2, <2>3, TableStep
<1> QED
  BY <1>1, <1>2, <1>3

(* Any run of the request handlers, with faults, crashes and concurrent      *)
(* repeats, is a run of the message store.                                   *)
THEOREM Implementation == Spec => ImplementsMessageStore
<1>1. Spec => NoticeStore!Init /\ [][NoticeStore!Next]_(NoticeStore!vars)
  BY StoreInit, StoreStep, Invariance, PTL DEF Spec
<1> QED
  BY <1>1 DEF ImplementsMessageStore, NoticeStore!Spec
===============================================================================
