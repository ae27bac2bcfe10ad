----------------------------- MODULE MessageStore -----------------------------
(***************************************************************************)
(* What the messenger promises about messages, without requests, workers   *)
(* or faults: a message is stored at most once per client_message_id and   *)
(* is never changed or removed; the status of a message for a user only    *)
(* climbs sent < delivered < read; an event is announced only for a stored *)
(* message, and a message_read event at most once per message and user.    *)
(***************************************************************************)
EXTENDS Naturals

CONSTANTS
    Calls,      \* what an announcement is made by: one HTTP call
    MessageIds, \* messages.id
    Users, DialogIds, ClientIds

Message == [id : MessageIds, dialog : DialogIds, sender : Users,
            client_message_id : ClientIds]

Status == {"none", "sent", "delivered", "read"}

\* The order of message statuses; "none" stands for the absence of a row.
Order == [st \in Status |-> CASE st = "none"      -> 0
                              [] st = "sent"      -> 1
                              [] st = "delivered" -> 2
                              [] st = "read"      -> 3]

NewMessage(m, c)     == <<"new_message", m, c>>
MessageRead(m, u, c) == <<"message_read", m, u, c>>

VARIABLES
    messages, \* the stored messages
    status,   \* status[<<m, u>>]: the status of message m for user u
    notices   \* the events announced so far

vars == <<messages, status, notices>>

Init ==
    /\ messages = {}
    /\ status = [p \in MessageIds \X Users |-> "none"]
    /\ notices = {}

Store(m) ==
    /\ \A x \in messages : x.id # m.id /\ x.client_message_id # m.client_message_id
    /\ messages' = messages \cup {m}
    /\ UNCHANGED <<status, notices>>

Advance(id, u, st) ==
    /\ \E m \in messages : m.id = id
    /\ Order[st] > Order[status[<<id, u>>]]
    /\ status' = [status EXCEPT ![<<id, u>>] = st]
    /\ UNCHANGED <<messages, notices>>

AnnounceMessage(id, c) ==
    /\ \E m \in messages : m.id = id
    /\ notices' = notices \cup {NewMessage(id, c)}
    /\ UNCHANGED <<messages, status>>

AnnounceRead(id, u, c) ==
    /\ status[<<id, u>>] = "read"
    /\ \A d \in Calls : MessageRead(id, u, d) \notin notices
    /\ notices' = notices \cup {MessageRead(id, u, c)}
    /\ UNCHANGED <<messages, status>>

Next ==
    \/ \E m \in Message : Store(m)
    \/ \E id \in MessageIds, u \in Users, st \in Status : Advance(id, u, st)
    \/ \E id \in MessageIds, c \in Calls : AnnounceMessage(id, c)
    \/ \E id \in MessageIds, u \in Users, c \in Calls : AnnounceRead(id, u, c)

Spec == Init /\ [][Next]_vars
===============================================================================
