-------------------------- MODULE ConnectionManager --------------------------
(***************************************************************************)
(* The WebSocket side of one worker: the endpoint /messenger/ws, its       *)
(* heartbeat, and the ConnectionManager that lists the sockets of each     *)
(* user and sends events to them.                                          *)
(*                                                                         *)
(* Every coroutine steps from one await to the next: the handler of a      *)
(* socket, its heartbeat task, and for each event one _send_to_user task   *)
(* per addressee, run side by side by asyncio.gather.  The socket object   *)
(* of a handler is registered once and never again.                        *)
(*                                                                         *)
(* An asyncio.Lock is a FIFO: queue[ws] lists the tasks that hold (first)  *)
(* or await the lock of ws.  locks is the key set of the manager's _locks, *)
(* so a lock can outlive its entry in the hands of the tasks it serves.    *)
(*                                                                         *)
(* snap[t] is a history variable: the sockets task t found listed.         *)
(* Definitions that Next does not use (RegisterNoEvict, GoOnUnlocked, ...) *)
(* are wrong variants under which a property below fails.                  *)
(***************************************************************************)
EXTENDS Integers, Sequences, SequencesExt

CONSTANTS
    Sockets,  \* WebSocket connections a client may open to this worker
    Users,
    Owner,    \* Owner[ws]: the user whose token comes with socket ws
    Limit,    \* settings.max_ws_connections_per_user
    Events,   \* events to broadcast
    To        \* To[e]: the addressees of event e

ASSUME ConnectionAssumption ==
    /\ Owner \in [Sockets -> Users]
    /\ Limit \in Nat \ {0}
    /\ To \in [Events -> SUBSET Users]

VARIABLES
    connections, \* connections[u]: the listed sockets of u, oldest first
    locks,       \* the sockets that have an entry in _locks
    queue,       \* holder and waiters of each socket's lock
    handler,     \* the await the endpoint of each socket is at
    excess,      \* the older sockets a handler has still to close
    link,        \* the transport of each socket
    heart,       \* the heartbeat task of each socket
    started,     \* the events broadcast on this worker, in order
    step,        \* the await each _send_to_user task is at
    todo,        \* the sockets a task has still to serve
    dead,        \* the sockets a task failed to write to
    received,    \* the events each client received, in order
    snap         \* history: the sockets a task found listed

registry == <<connections, locks>>
endpoint == <<handler, excess, heart>>
sending  == <<queue, started, step, todo, dead, received, snap>>
vars     == <<registry, endpoint, link, sending>>

Tasks == {t \in Events \X Users : t[2] \in To[t[1]]}

Listed(u) == ToSet(connections[u])

\* A handler that has registered its socket, and one that still serves it.
Serving(ws)    == handler[ws] \in {"evict", "receive", "leaving"}
Registered(ws) == Serving(ws) \/ handler[ws] = "ended"

TypeOK ==
    /\ connections \in [Users -> Seq(Sockets)]
    /\ \A u \in Users : Len(connections[u]) <= Limit
    /\ locks \subseteq Sockets
    /\ queue \in [Sockets -> Seq(Tasks)]
    /\ handler \in [Sockets -> {"new", "auth", "accept", "rejected", "evict",
                                "receive", "leaving", "ended"}]
    /\ excess \in [Sockets -> Seq(Sockets)]
    /\ link \in [Sockets -> {"none", "open", "closed"}]
    /\ heart \in [Sockets -> {"off", "sleep", "ping", "stopped"}]
    /\ started \in Seq(Events)
    /\ step \in [Tasks -> {"none", "ready", "wait", "send", "done"}]
    /\ todo \in [Tasks -> Seq(Sockets)]
    /\ dead \in [Tasks -> SUBSET Sockets]
    /\ received \in [Sockets -> Seq(Events)]
    /\ snap \in [Tasks -> SUBSET Sockets]

Init ==
    /\ connections = [u \in Users |-> <<>>]
    /\ locks = {}
    /\ queue = [ws \in Sockets |-> <<>>]
    /\ handler = [ws \in Sockets |-> "new"]
    /\ excess = [ws \in Sockets |-> <<>>]
    /\ link = [ws \in Sockets |-> "none"]
    /\ heart = [ws \in Sockets |-> "off"]
    /\ started = <<>>
    /\ step = [t \in Tasks |-> "none"]
    /\ todo = [t \in Tasks |-> <<>>]
    /\ dead = [t \in Tasks |-> {}]
    /\ received = [ws \in Sockets |-> <<>>]
    /\ snap = [t \in Tasks |-> {}]

-------------------------------------------------------------------------------
(* The endpoint websocket_connect. *)

\* The cookie carries an access_token: ask the auth service about it.
Arrive(ws) ==
    /\ handler[ws] = "new"
    /\ handler' = [handler EXCEPT ![ws] = "auth"]
    /\ UNCHANGED <<registry, excess, heart, link, sending>>

\* No cookie (4001), or the auth service refuses or fails (4003).
Reject(ws) ==
    /\ handler[ws] \in {"new", "auth"}
    /\ handler' = [handler EXCEPT ![ws] = "rejected"]
    /\ UNCHANGED <<registry, excess, heart, link, sending>>

Authenticate(ws) ==
    /\ handler[ws] = "auth"
    /\ handler' = [handler EXCEPT ![ws] = "accept"]
    /\ UNCHANGED <<registry, excess, heart, link, sending>>

\* register drops the oldest sockets of the user beyond Limit.
RegisterNoEvict(ws) ==
    /\ connections' = [connections EXCEPT ![Owner[ws]] = Append(@, ws)]
    /\ locks' = locks \cup {ws}
    /\ excess' = excess

Register(ws) ==
    LET all  == Append(connections[Owner[ws]], ws)
        over == IF Len(all) > Limit THEN Len(all) - Limit ELSE 0
        old  == SubSeq(all, 1, over)
    IN  /\ connections' = [connections EXCEPT ![Owner[ws]] = SubSeq(all, over + 1, Len(all))]
        /\ locks' = (locks \cup {ws}) \ ToSet(old)
        /\ excess' = [excess EXCEPT ![ws] = old]

\* The heartbeat starts with the receive loop, after every old socket is closed.
Receive(ws) ==
    /\ handler' = [handler EXCEPT ![ws] = "receive"]
    /\ heart' = [heart EXCEPT ![ws] = "sleep"]

\* accept() returns; registering follows with no await in between.
Accept(ws) ==
    /\ handler[ws] = "accept"
    /\ link' = [link EXCEPT ![ws] = "open"]
    /\ Register(ws)
    /\ IF excess'[ws] = <<>>
       THEN Receive(ws)
       ELSE handler' = [handler EXCEPT ![ws] = "evict"] /\ UNCHANGED heart
    /\ UNCHANGED sending

\* The client is gone before accept() returns.
AcceptFails(ws) ==
    /\ handler[ws] = "accept"
    /\ handler' = [handler EXCEPT ![ws] = "rejected"]
    /\ UNCHANGED <<registry, excess, heart, link, sending>>

\* old_ws.close(4008), which takes no lock; a failure to close is ignored.
CloseOldNever(ws) ==
    /\ handler[ws] = "evict"
    /\ excess' = [excess EXCEPT ![ws] = Tail(@)]
    /\ IF excess'[ws] = <<>> THEN Receive(ws) ELSE UNCHANGED <<handler, heart>>
    /\ UNCHANGED <<registry, link, sending>>

CloseOld(ws) ==
    /\ handler[ws] = "evict"
    /\ link' = [link EXCEPT ![Head(excess[ws])] = "closed"]
    /\ excess' = [excess EXCEPT ![ws] = Tail(@)]
    /\ IF excess'[ws] = <<>> THEN Receive(ws) ELSE UNCHANGED <<handler, heart>>
    /\ UNCHANGED <<registry, sending>>

\* The client closes its socket, or the network does.
Drop(ws) ==
    /\ link[ws] = "open"
    /\ link' = [link EXCEPT ![ws] = "closed"]
    /\ UNCHANGED <<registry, endpoint, sending>>

\* receive_text raises WebSocketDisconnect; the finally clause cancels the
\* heartbeat and awaits its end.
Leave(ws) ==
    /\ handler[ws] = "receive"
    /\ link[ws] = "closed"
    /\ handler' = [handler EXCEPT ![ws] = "leaving"]
    /\ UNCHANGED <<registry, excess, heart, link, sending>>

\* unregister(Owner[ws], lost), for one socket or several.
UnregisterAll(u, lost) ==
    /\ connections' = [connections EXCEPT ![u] = <<>>]
    /\ locks' = locks \ lost

\* list.remove: the sockets that stay, at increasing places of the old list.
Unregister(u, lost) ==
    /\ LET all  == connections[u]
           stay == {i \in DOMAIN all : all[i] \notin lost}
       IN  \E n \in 0 .. Len(all) : \E place \in Surjection(1 .. n, stay) :
              /\ \A i, j \in 1 .. n : i < j => place[i] < place[j]
              /\ connections' = [connections EXCEPT ![u] = [i \in 1 .. n |-> all[place[i]]]]
    /\ locks' = locks \ lost

End(ws) ==
    /\ handler[ws] = "leaving"
    /\ heart[ws] = "stopped"
    /\ Unregister(Owner[ws], {ws})
    /\ handler' = [handler EXCEPT ![ws] = "ended"]
    /\ UNCHANGED <<excess, heart, link, sending>>

-------------------------------------------------------------------------------
(* _heartbeat *)

\* The sleep is over: send a ping, without the lock of the socket.
Wake(ws) ==
    /\ heart[ws] = "sleep"
    /\ handler[ws] = "receive"
    /\ heart' = [heart EXCEPT ![ws] = "ping"]
    /\ UNCHANGED <<registry, handler, excess, link, sending>>

Ping(ws) ==
    /\ heart[ws] = "ping"
    /\ heart' = [heart EXCEPT ![ws] = "sleep"]
    /\ UNCHANGED <<registry, handler, excess, link, sending>>

StopHeartIfAwake(ws) ==
    /\ heart[ws] = "ping"
    /\ heart' = [heart EXCEPT ![ws] = "stopped"]
    /\ UNCHANGED <<registry, handler, excess, link, sending>>

\* The ping fails or takes too long, or the handler cancels the task.  The
\* socket itself is left as it is.
StopHeart(ws) ==
    /\ heart[ws] = "ping" \/ (heart[ws] = "sleep" /\ handler[ws] = "leaving")
    /\ heart' = [heart EXCEPT ![ws] = "stopped"]
    /\ UNCHANGED <<registry, handler, excess, link, sending>>

-------------------------------------------------------------------------------
(* local_broadcast_to_users and _send_to_user. *)

\* One task per addressee is created; tasks start in the order of creation.
Broadcast(e) ==
    /\ e \notin ToSet(started)
    /\ started' = Append(started, e)
    /\ step' = [t \in Tasks |-> IF t[1] = e THEN "ready" ELSE step[t]]
    /\ UNCHANGED <<registry, endpoint, link, queue, todo, dead, received, snap>>

\* The task takes the lock of the next socket that still has one: it holds it
\* at once when nobody else has it or waits for it.
GoOnUnlocked(t, rest, q) ==
    \E i \in DOMAIN rest :
        /\ rest[i] \in locks
        /\ \A j \in 1 .. i - 1 : rest[j] \notin locks
        /\ todo' = [todo EXCEPT ![t] = SubSeq(rest, i, Len(rest))]
        /\ queue' = [q EXCEPT ![rest[i]] = Append(@, t)]
        /\ step' = [step EXCEPT ![t] = "send"]
        /\ UNCHANGED registry

GoOn(t, rest, q) ==
    \E i \in DOMAIN rest :
        /\ rest[i] \in locks
        /\ \A j \in 1 .. i - 1 : rest[j] \notin locks
        /\ todo' = [todo EXCEPT ![t] = SubSeq(rest, i, Len(rest))]
        /\ queue' = [q EXCEPT ![rest[i]] = Append(@, t)]
        /\ step' = [step EXCEPT ![t] = IF q[rest[i]] = <<>> THEN "send" ELSE "wait"]
        /\ UNCHANGED registry

\* After the last socket the task drops those it failed to write to.
Finish(t, rest, q, lost) ==
    /\ \A i \in DOMAIN rest : rest[i] \notin locks
    /\ todo' = [todo EXCEPT ![t] = <<>>]
    /\ queue' = q
    /\ step' = [step EXCEPT ![t] = "done"]
    /\ Unregister(t[2], lost)

Serve(t, rest, q, lost) ==
    /\ GoOn(t, rest, q) \/ Finish(t, rest, q, lost)
    /\ dead' = [dead EXCEPT ![t] = lost]

\* Event e was broadcast before event f.
Before(e, f) == \E i, j \in DOMAIN started : i < j /\ started[i] = e /\ started[j] = f

\* The task starts: it copies the list of sockets.
Start(t) ==
    /\ step[t] = "ready"
    /\ \A x \in Tasks : Before(x[1], t[1]) => step[x] # "ready"
    /\ snap' = [snap EXCEPT ![t] = Listed(t[2])]
    /\ Serve(t, connections[t[2]], queue, {})
    /\ UNCHANGED <<endpoint, link, started, received>>

Acquire(t) ==
    /\ step[t] = "wait"
    /\ Head(queue[Head(todo[t])]) = t
    /\ step' = [step EXCEPT ![t] = "send"]
    /\ UNCHANGED <<registry, endpoint, link, queue, started, todo, dead, received, snap>>

ReleaseNever(t) == queue

Release(t) == [queue EXCEPT ![Head(todo[t])] = Tail(@)]

\* send_json returns; the client has the event unless its socket is gone.
Send(t) ==
    LET ws == Head(todo[t]) IN
    /\ step[t] = "send"
    /\ received' = IF link[ws] = "open"
                   THEN [received EXCEPT ![ws] = Append(@, t[1])]
                   ELSE received
    /\ Serve(t, Tail(todo[t]), Release(t), dead[t])
    /\ UNCHANGED <<endpoint, link, started, snap>>

SendFailsAll(t) ==
    /\ step[t] = "send"
    /\ link[Head(todo[t])] = "closed"
    /\ Serve(t, <<>>, Release(t), dead[t] \cup {Head(todo[t])})
    /\ UNCHANGED <<endpoint, link, started, received, snap>>

\* send_json raises: the socket is closed.
SendFails(t) ==
    LET ws == Head(todo[t]) IN
    /\ step[t] = "send"
    /\ link[ws] = "closed"
    /\ Serve(t, Tail(todo[t]), Release(t), dead[t] \cup {ws})
    /\ UNCHANGED <<endpoint, link, started, received, snap>>

-------------------------------------------------------------------------------
Endpoint(ws) ==
    \/ Arrive(ws) \/ Reject(ws) \/ Authenticate(ws) \/ Accept(ws) \/ AcceptFails(ws)
    \/ CloseOld(ws) \/ Leave(ws) \/ End(ws)

Heartbeat(ws) == Wake(ws) \/ Ping(ws) \/ StopHeart(ws)

SendToUser(t) == Start(t) \/ Acquire(t) \/ Send(t) \/ SendFails(t)

Next ==
    \/ \E ws \in Sockets : Endpoint(ws) \/ Heartbeat(ws) \/ Drop(ws)
    \/ \E e \in Events : Broadcast(e)
    \/ \E t \in Tasks : SendToUser(t)

Spec == Init /\ [][Next]_vars

\* The event loop resumes every coroutine: a send or a close returns or fails
\* (uvicorn itself pings its peers and drops the silent ones), and a cancelled
\* heartbeat stops.  Nothing obliges a client to come, to leave or to write.
Fairness ==
    /\ \A ws \in Sockets :
          /\ WF_vars(CloseOld(ws)) /\ WF_vars(Leave(ws)) /\ WF_vars(End(ws))
          /\ WF_vars(handler[ws] = "leaving" /\ StopHeart(ws))
    /\ \A t \in Tasks : WF_vars(SendToUser(t))

FairSpec == Spec /\ Fairness

-------------------------------------------------------------------------------
(* Safety. *)

\* The two dictionaries of the manager agree through every register, eviction
\* and unregister, whoever removes a socket first: the sockets with a lock are
\* the listed ones, each listed once, under its own user, with a handler that
\* still runs and will unregister it.
RegistryConsistent ==
    /\ \A u \in Users :
          /\ IsInjective(connections[u])
          /\ \A ws \in Listed(u) : Owner[ws] = u /\ Serving(ws)
    /\ locks = UNION {Listed(u) : u \in Users}

\* A client whose socket is open is listed, or a newer handler of the same
\* user is about to close it: no failure of another socket, no eviction and no
\* late unregister drops a live socket and leaves it silent.
OpenIsListed ==
    \A ws \in Sockets :
        Registered(ws) /\ link[ws] = "open" =>
            \/ ws \in Listed(Owner[ws])
            \/ \E new \in Sockets : Owner[new] = Owner[ws] /\ ws \in ToSet(excess[new])

\* When a task is done, every socket it found listed has the event, unless the
\* socket is gone or left the registry meanwhile: one failing socket or
\* a changing list never makes the task skip another.
NobodySkipped ==
    \A t \in Tasks : step[t] = "done" =>
        \A ws \in snap[t] \cap Listed(t[2]) :
            link[ws] = "open" => t[1] \in ToSet(received[ws])

\* No event reaches a socket twice, and while no socket of the user has left
\* the registry, events reach each socket in the order they were broadcast,
\* although broadcasts run concurrently and any send may be slow.
InOrder ==
    \A ws \in Sockets :
        /\ IsInjective(received[ws])
        /\ (\A x \in Sockets : Owner[x] = Owner[ws] /\ Registered(x) => x \in locks) =>
              \A i, j \in DOMAIN received[ws] :
                  i < j => Before(received[ws][i], received[ws][j])

-------------------------------------------------------------------------------
(* Liveness. *)

\* Every task that was created ends: no lock is kept by a task that is done
\* and no two tasks wait for each other.
EverySendEnds == \A t \in Tasks : step[t] = "ready" ~> step[t] = "done"

\* A socket that is gone leaves the registry, and an evicted one is closed.
ClosedIsForgotten ==
    \A ws \in Sockets :
        /\ link[ws] = "closed" ~> ws \notin locks
        /\ Registered(ws) /\ ws \notin locks ~> link[ws] = "closed"
===============================================================================
