---------------------------- MODULE DeliveryProofs ----------------------------
(***************************************************************************)
(* Proofs that the tasks of ConnectionManager skip nobody and send events  *)
(* in order, on the base of ConnectionManagerProofs.                       *)
(*                                                                         *)
(* Order needs an argument about all sockets of a user at once.  While     *)
(* none of them has left the registry (Steady), the tasks of that user     *)
(* walk the same list from its head, so a later task that stood at or past *)
(* a socket an earlier one has still to serve would have had to pass it on *)
(* the way, in the queue of some lock.                                     *)
(***************************************************************************)
EXTENDS ConnectionManagerProofs

Begun(t) == step[t] \notin {"none", "ready"}

\* Each socket has an event at most once, from the task of its user, which
\* does not have this socket before it any more.
ReceivedOnce ==
    /\ \A ws \in Sockets : IsInjective(received[ws])
    /\ \A ws \in Sockets : \A e \in ToSet(received[ws]) :
          <<e, Owner[ws]>> \in Tasks /\ Begun(<<e, Owner[ws]>>)
    /\ \A t \in Tasks : \A x \in ToSet(todo[t]) : t[1] \notin ToSet(received[x])

\* An open socket that a task found listed is served or still to be served.
Covered(t) ==
    /\ \A x \in snap[t] : Registered(x)
    /\ Begun(t) => \A x \in snap[t] \cap Listed(t[2]) :
          link[x] = "open" => t[1] \in ToSet(received[x]) \/ x \in ToSet(todo[t])

\* A task serves in the order of the list.
ListOrder(t) ==
    \A x, y \in ToSet(todo[t]) \cap Listed(t[2]) :
        Precedes(todo[t], x, y) => Older(t[2], x, y)

\* Tasks of one user start in the order in which the events were broadcast.
BroadcastOrder ==
    /\ IsInjective(started)
    /\ \A t1, t2 \in Tasks :
          t1[2] = t2[2] /\ Before(t1[1], t2[1]) /\ Begun(t2) => Begun(t1)

Steady(u) == \A x \in Sockets : Owner[x] = u /\ Registered(x) => x \in locks

\* What an earlier task has still to serve, a later one has too, and at the
\* same socket the earlier one is ahead in the queue.
NotOvertaken(t1, t2) ==
    /\ ToSet(todo[t1]) \subseteq ToSet(todo[t2])
    /\ todo[t1] # <<>> /\ todo[t2][1] = todo[t1][1] =>
          Precedes(queue[todo[t1][1]], t1, t2)

Follows(t1, t2) == t1[2] = t2[2] /\ Before(t1[1], t2[1]) /\ Begun(t2) /\ Steady(t1[2])

NoOvertaking == \A t1, t2 \in Tasks : Follows(t1, t2) => NotOvertaken(t1, t2)

ReceivedInOrder ==
    \A ws \in Sockets : Steady(Owner[ws]) =>
        \A i, j \in DOMAIN received[ws] : i < j => Before(received[ws][i], received[ws][j])

DInv ==
    /\ ReceivedOnce
    /\ \A t \in Tasks : Covered(t) /\ ListOrder(t)
    /\ BroadcastOrder
    /\ NoOvertaking
    /\ ReceivedInOrder

-------------------------------------------------------------------------------
(* Facts about single states. *)

LEMMA HeadFirst ==
    ASSUME NEW S, NEW s \in Seq(S), NEW x \in ToSet(s), x # s[1]
    PROVE  Precedes(s, s[1], x)
<1>1. PICK i \in DOMAIN s : s[i] = x
  BY DEF ToSet
<1>2. 1 \in DOMAIN s /\ 1 < i
  BY <1>1
<1> QED BY <1>1, <1>2 DEF Precedes

LEMMA TaskPair ==
    ASSUME NEW t \in Tasks
    PROVE  t = <<t[1], t[2]>>
BY DEF Tasks

LEMMA BeforeStarted ==
    ASSUME TypeOK, NEW e \in ToSet(started), NEW f \in ToSet(started), e # f
    PROVE  Before(e, f) \/ Before(f, e)
<1>1. PICK i, j \in DOMAIN started : started[i] = e /\ started[j] = f
  BY DEF ToSet
<1>2. i \in Int /\ j \in Int /\ i # j
  BY <1>1 DEF TypeOK
<1>3. i < j \/ j < i
  BY <1>2
<1> QED BY <1>1, <1>3 DEF Before

LEMMA BeforeIrreflexive ==
    ASSUME TypeOK, IsInjective(started), NEW e, Before(e, e)
    PROVE  FALSE
<1>1. PICK i, j \in DOMAIN started : i < j /\ started[i] = e /\ started[j] = e
  BY DEF Before
<1>2. i = j /\ i \in Int
  BY <1>1 DEF IsInjective, TypeOK
<1> QED BY <1>1, <1>2

\* While nobody has left, what a task has still to serve is listed.
LEMMA SteadyListed ==
    ASSUME BInv, NEW t \in Tasks, Steady(t[2])
    PROVE  ToSet(todo[t]) \subseteq Listed(t[2]) /\ ToSet(todo[t]) \subseteq locks
<1> SUFFICES ASSUME NEW x \in ToSet(todo[t])
             PROVE  x \in Listed(t[2]) /\ x \in locks
  OBVIOUS
<1>1. todo[t] \in Seq(Sockets)
  BY DEF BInv, TypeOK
<1>2. x \in Sockets
  BY <1>1 DEF ToSet
<1>3. Owner[x] = t[2] /\ Registered(x)
  BY DEF BInv, TaskOK
<1>4. x \in locks
  BY <1>2, <1>3 DEF Steady
<1>5. PICK u \in Users : x \in Listed(u)
  BY <1>4 DEF BInv, RegistryConsistent
<1>6. Owner[x] = u
  BY <1>5 DEF BInv, RegistryConsistent
<1> QED BY <1>3, <1>4, <1>5, <1>6

\* Two tasks of one steady user that share a head and another socket agree on
\* which of the two comes first.
LEMMA SameList ==
    ASSUME BInv, NEW t1 \in Tasks, NEW t2 \in Tasks, t1[2] = t2[2], Steady(t1[2]),
           ListOrder(t1), ListOrder(t2), NEW x \in ToSet(todo[t1]),
           x \in ToSet(todo[t2]), todo[t1][1] \in ToSet(todo[t2]), todo[t2][1] = x
    PROVE  x = todo[t1][1]
<1> SUFFICES ASSUME x # todo[t1][1]
             PROVE  FALSE
  OBVIOUS
<1> DEFINE h == todo[t1][1]
           u == t1[2]
<1>1. todo[t1] \in Seq(Sockets) /\ todo[t2] \in Seq(Sockets)
  BY DEF BInv, TypeOK
<1>2. h \in ToSet(todo[t1])
  <2>1. todo[t1] # <<>>
    BY DEF ToSet
  <2> QED BY <1>1, <2>1 DEF ToSet
<1>3. Precedes(todo[t1], h, x)
  BY <1>1, HeadFirst
<1>4. Precedes(todo[t2], x, h)
  BY <1>1, HeadFirst
<1>5. ToSet(todo[t1]) \subseteq Listed(u) /\ ToSet(todo[t2]) \subseteq Listed(u)
  BY SteadyListed
<1>6. Older(u, h, x) /\ Older(u, x, h)
  BY <1>2, <1>3, <1>4, <1>5 DEF ListOrder
<1>7. u \in Users
  BY TaskTyped
<1>8. connections[u] \in Seq(Sockets) /\ IsInjective(connections[u])
  BY <1>7 DEF BInv, TypeOK, RegistryConsistent
<1> QED BY <1>6, <1>8, PrecedesOneWay DEF Older

\* The queue of a lock after its holder has gone on.
LEMMA ReleaseKeeps ==
    ASSUME BInv, NEW t \in Tasks, step[t] = "send", NEW ws \in Sockets
    PROVE  /\ Release(t) \in [Sockets -> Seq(Tasks)]
           /\ ws # todo[t][1] => Release(t)[ws] = queue[ws]
           /\ \A x, y : x # t /\ y # t /\ Precedes(queue[ws], x, y) => Precedes(Release(t)[ws], x, y)
<1> DEFINE h == todo[t][1]
           s == queue[h]
           r == Tail(s)
<1>1. h \in Sockets /\ Head(todo[t]) = h
  BY HeadOfTodo DEF BInv, Waiting
<1>2. queue \in [Sockets -> Seq(Tasks)] /\ s[1] = t /\ t \in ToSet(s)
  BY DEF BInv, Queues, Waiting
<1>3. Release(t) = [queue EXCEPT ![h] = r]
  BY <1>1 DEF Release
<1>4. s \in Seq(Tasks) /\ s # <<>>
  BY <1>1, <1>2 DEF ToSet
<1>5. /\ r \in Seq(Tasks) /\ Len(s) \in Nat \ {0} /\ DOMAIN s = 1 .. Len(s)
      /\ DOMAIN r = 1 .. Len(s) - 1 /\ \A i \in 1 .. Len(s) - 1 : r[i] = s[i + 1]
  BY <1>4
<1>6. Release(t)[h] = r /\ \A x \in Sockets \ {h} : Release(t)[x] = queue[x]
  BY <1>1, <1>2, <1>3
<1>7. ASSUME NEW x, NEW y, x # t, y # t, Precedes(s, x, y)
      PROVE  Precedes(r, x, y)
  <2>1. PICK i, j \in DOMAIN s : i < j /\ s[i] = x /\ s[j] = y
    BY <1>7 DEF Precedes
  <2>2. i # 1 /\ j # 1
    BY <1>2, <1>7, <2>1
  <2>3. /\ i - 1 \in 1 .. Len(s) - 1 /\ j - 1 \in 1 .. Len(s) - 1 /\ i - 1 < j - 1
        /\ (i - 1) + 1 = i /\ (j - 1) + 1 = j
    BY <1>5, <2>1, <2>2
  <2>4. r[i - 1] = x /\ r[j - 1] = y
    BY <1>5, <2>1, <2>3
  <2> QED BY <1>5, <2>3, <2>4 DEF Precedes
<1> HIDE DEF h, s, r
<1>8. Release(t) \in [Sockets -> Seq(Tasks)]
  BY <1>1, <1>2, <1>3, <1>5
<1>9. CASE ws = h
  BY <1>6, <1>7, <1>8, <1>9 DEF h, s
<1>10. CASE ws # h
  BY <1>6, <1>8, <1>10 DEF h
<1> QED BY <1>9, <1>10

-------------------------------------------------------------------------------
(* Steps of the endpoints, which send nothing. *)

\* No socket comes back to the registry, none is reopened.
Quiet ==
    /\ UNCHANGED sending
    /\ \A x \in Sockets : Registered(x) =>
          /\ Registered(x)'
          /\ link'[x] = "open" => link[x] = "open"
          /\ x \in locks' => x \in locks
          /\ \A u \in Users : x \in Listed(u)' => x \in Listed(u)
    /\ \A u \in Users : \A x, y \in Listed(u)' : Older(u, x, y) => Older(u, x, y)'

LEMMA QuietKept ==
    ASSUME UNCHANGED <<registry, sending>>,
           \A x \in Sockets : Registered(x) =>
              Registered(x)' /\ (link'[x] = "open" => link[x] = "open")
    PROVE  Quiet
<1>1. connections' = connections /\ locks' = locks
  BY DEF registry
<1> QED BY <1>1 DEF Quiet, Listed, Older

LEMMA AcceptQuiet ==
    ASSUME BInv, NEW ws \in Sockets, Accept(ws)
    PROVE  Quiet
<1> DEFINE u == Owner[ws]
<1>1. /\ handler[ws] = "accept" /\ Register(ws) /\ link' = [link EXCEPT ![ws] = "open"]
      /\ UNCHANGED sending
      /\ \E h \in {"receive", "evict"} : handler' = [handler EXCEPT ![ws] = h]
  BY DEF Accept, Receive
<1>2. ~Registered(ws) /\ \A v \in Users : ws \notin Listed(v)
  BY <1>1 DEF BInv, RegistryConsistent, Registered, Serving
<1>3. u \in Users
  BY ConnectionAssumption
<1>4. /\ \A v \in Users \ {u} : connections'[v] = connections[v]
      /\ ToSet(connections'[u]) = (Listed(u) \cup {ws}) \ ToSet(excess'[ws])
      /\ locks' = (locks \cup {ws}) \ ToSet(excess'[ws])
      /\ \A x, y \in ToSet(connections'[u]) : Older(u, x, y) => Precedes(connections'[u], x, y)
  BY <1>1, <1>2, <1>3, RegisterEffect, ListsHold DEF BInv, TypeOK
<1>5. ASSUME NEW x \in Sockets, Registered(x)
      PROVE  /\ Registered(x)' /\ x # ws
             /\ link'[x] = "open" => link[x] = "open"
             /\ x \in locks' => x \in locks
  <2>1. x # ws
    BY <1>2, <1>5
  <2>2. handler'[x] = handler[x] /\ link'[x] = link[x]
    BY <1>1, <2>1 DEF BInv, TypeOK
  <2> QED BY <1>4, <1>5, <2>1, <2>2 DEF Registered, Serving
<1>6. ASSUME NEW v \in Users
      PROVE  /\ \A x \in Sockets : Registered(x) /\ x \in Listed(v)' => x \in Listed(v)
             /\ \A x, y \in Listed(v)' : Older(v, x, y) => Older(v, x, y)'
  <2>1. CASE v = u
    BY <1>4, <1>5, <2>1 DEF Listed, Older
  <2>2. CASE v # u
    BY <1>4, <2>2 DEF Listed, Older
  <2> QED BY <2>1, <2>2
<1> QED BY <1>1, <1>5, <1>6 DEF Quiet

LEMMA EndQuiet ==
    ASSUME BInv, NEW ws \in Sockets, End(ws)
    PROVE  Quiet
<1> DEFINE u == Owner[ws]
<1>1. /\ handler[ws] = "leaving" /\ Unregister(u, {ws}) /\ handler' = [handler EXCEPT ![ws] = "ended"]
      /\ UNCHANGED <<link, sending>>
  BY DEF End
<1>2. u \in Users
  BY ConnectionAssumption
<1>3. /\ \A v \in Users \ {u} : connections'[v] = connections[v]
      /\ ToSet(connections'[u]) = Listed(u) \ {ws}
      /\ locks' = locks \ {ws}
      /\ \A x, y \in ToSet(connections'[u]) : Older(u, x, y) => Precedes(connections'[u], x, y)
  BY <1>1, <1>2, UnregisterEffect, ListsHold DEF BInv
<1>4. \A x \in Sockets : Registered(x) => Registered(x)'
  BY <1>1 DEF BInv, TypeOK, Registered, Serving
<1>5. ASSUME NEW v \in Users
      PROVE  /\ \A x \in Listed(v)' : x \in Listed(v)
             /\ \A x, y \in Listed(v)' : Older(v, x, y) => Older(v, x, y)'
  <2>1. CASE v = u
    BY <1>3, <2>1 DEF Listed, Older
  <2>2. CASE v # u
    BY <1>3, <2>2 DEF Listed, Older
  <2> QED BY <2>1, <2>2
<1> QED BY <1>1, <1>3, <1>4, <1>5 DEF Quiet

LEMMA EndpointQuiet ==
    ASSUME BInv, NEW ws \in Sockets, Endpoint(ws) \/ Heartbeat(ws) \/ Drop(ws)
    PROVE  Quiet
<1>1. CASE Arrive(ws) \/ Reject(ws) \/ Authenticate(ws) \/ AcceptFails(ws)
  <2>1. /\ handler[ws] \in {"new", "auth", "accept"}
        /\ \E h \in {"auth", "rejected", "accept"} : handler' = [handler EXCEPT ![ws] = h]
        /\ UNCHANGED <<registry, link, sending>>
    BY <1>1 DEF Arrive, Reject, Authenticate, AcceptFails
  <2> QED BY <2>1, QuietKept DEF BInv, TypeOK, Registered, Serving
<1>2. CASE CloseOld(ws)
  <2>1. /\ handler[ws] = "evict" /\ link' = [link EXCEPT ![Head(excess[ws])] = "closed"]
        /\ handler' = handler \/ handler' = [handler EXCEPT ![ws] = "receive"]
        /\ UNCHANGED <<registry, sending>>
    BY <1>2 DEF CloseOld, Receive
  <2>2. \A x \in Sockets : link'[x] = "open" => link[x] = "open"
    BY <2>1 DEF BInv, TypeOK
  <2>3. \A x \in Sockets : Registered(x) => Registered(x)'
    BY <2>1 DEF BInv, TypeOK, Registered, Serving
  <2> QED BY <2>1, <2>2, <2>3, QuietKept
<1>3. CASE Leave(ws)
  <2>1. /\ handler[ws] = "receive" /\ handler' = [handler EXCEPT ![ws] = "leaving"]
        /\ UNCHANGED <<registry, link, sending>>
    BY <1>3 DEF Leave
  <2> QED BY <2>1, QuietKept DEF BInv, TypeOK, Registered, Serving
<1>4. CASE Heartbeat(ws) \/ Drop(ws)
  <2>1. /\ UNCHANGED <<registry, handler, sending>>
        /\ link' = link \/ link' = [link EXCEPT ![ws] = "closed"]
    BY <1>4 DEF Heartbeat, Wake, Ping, StopHeart, Drop, endpoint
  <2>2. \A x \in Sockets : link'[x] = "open" => link[x] = "open"
    BY <2>1 DEF BInv, TypeOK
  <2> QED BY <2>1, <2>2, QuietKept DEF Registered, Serving
<1> QED BY <1>1, <1>2, <1>3, <1>4, AcceptQuiet, EndQuiet DEF Endpoint

LEMMA QuietDelivery ==
    ASSUME BInv, BInv', DInv, Quiet
    PROVE  DInv'
<1>1. /\ queue' = queue /\ started' = started /\ step' = step /\ todo' = todo
      /\ received' = received /\ snap' = snap
  BY DEF Quiet, sending
<1>2. \A t \in Tasks : Begun(t)' = Begun(t)
  BY <1>1 DEF Begun
<1>3. \A e, f : Before(e, f)' = Before(e, f)
  BY <1>1 DEF Before
<1>4. ReceivedOnce'
  BY <1>1, <1>2 DEF DInv, ReceivedOnce
<1>5. ASSUME NEW t \in Tasks
      PROVE  Covered(t)' /\ ListOrder(t)'
  <2>1. Covered(t) /\ ListOrder(t) /\ TaskOK(t) /\ t[2] \in Users
    BY TaskTyped DEF DInv, BInv
  <2>2. ToSet(todo[t]) \subseteq Sockets
    <3>1. todo[t] \in Seq(Sockets)
      BY DEF BInv, TypeOK
    <3> QED BY <3>1 DEF ToSet
  <2>3. snap[t] \subseteq Sockets
    BY DEF BInv, TypeOK
  <2>4. Covered(t)'
    BY <1>1, <1>2, <2>1, <2>3 DEF Covered, Quiet
  <2>5. ListOrder(t)'
    <3>1. ASSUME NEW x \in ToSet(todo[t]) \cap Listed(t[2])', NEW y \in ToSet(todo[t]) \cap Listed(t[2])',
                 Precedes(todo[t], x, y)
          PROVE  Older(t[2], x, y)'
      <4>1. x \in Listed(t[2]) /\ y \in Listed(t[2])
        BY <2>1, <2>2 DEF TaskOK, Quiet
      <4>2. Older(t[2], x, y)
        BY <2>1, <3>1, <4>1 DEF ListOrder
      <4> QED BY <2>1, <4>2 DEF Quiet
    <3> QED BY <1>1, <3>1 DEF ListOrder
  <2> QED BY <2>4, <2>5
<1>6. BroadcastOrder'
  <2>1. IsInjective(started)'
    BY <1>1 DEF DInv, BroadcastOrder
  <2> QED BY <1>2, <1>3, <2>1 DEF DInv, BroadcastOrder
<1>7. \A u \in Users : Steady(u)' => Steady(u)
  BY DEF Quiet, Steady
<1>8. NoOvertaking'
  <2>1. ASSUME NEW t1 \in Tasks, NEW t2 \in Tasks, Follows(t1, t2)'
        PROVE  NotOvertaken(t1, t2)'
    <3>1. Follows(t1, t2)
      BY <1>2, <1>3, <1>7, <2>1, TaskTyped DEF Follows
    <3>2. NotOvertaken(t1, t2)
      BY <3>1 DEF DInv, NoOvertaking
    <3> QED BY <1>1, <3>2 DEF NotOvertaken
  <2> QED BY <2>1 DEF NoOvertaking
<1>9. ReceivedInOrder'
  <2>1. \A ws \in Sockets : Owner[ws] \in Users
    BY ConnectionAssumption
  <2> QED BY <1>1, <1>3, <1>7, <2>1 DEF DInv, ReceivedInOrder
<1> QED BY <1>4, <1>5, <1>6, <1>8, <1>9 DEF DInv

-------------------------------------------------------------------------------
(* Steps of the tasks. *)

\* A step that begins no task, serves no socket and appends at most a new
\* event to those that were broadcast.
LEMMA IdleDelivery ==
    ASSUME BInv, BInv', DInv, UNCHANGED <<registry, handler, link, queue, todo, received, snap>>,
           \A t \in Tasks : Begun(t)' = Begun(t),
           \A e, f : Before(e, f) => Before(e, f)',
           \A t \in Tasks : \A e : Begun(t) /\ Before(e, t[1])' => Before(e, t[1]),
           IsInjective(started)'
    PROVE  DInv'
<1>1. /\ connections' = connections /\ locks' = locks /\ handler' = handler /\ link' = link
      /\ queue' = queue /\ todo' = todo /\ received' = received /\ snap' = snap
  BY DEF registry
<1>2. ReceivedOnce'
  BY <1>1 DEF DInv, ReceivedOnce
<1>3. \A u : Listed(u)' = Listed(u) /\ Steady(u)' = Steady(u)
  BY <1>1 DEF Listed, Steady, Registered, Serving
<1>4. \A u, x, y : Older(u, x, y)' = Older(u, x, y)
  BY <1>1 DEF Older
<1>5. ASSUME NEW t \in Tasks
      PROVE  Covered(t)' /\ ListOrder(t)'
  <2>1. Covered(t) /\ ListOrder(t)
    BY DEF DInv
  <2>2. Covered(t)'
    BY <1>1, <1>3, <2>1 DEF Covered, Registered, Serving
  <2>3. ListOrder(t)'
    BY <1>1, <1>3, <1>4, <2>1 DEF ListOrder
  <2> QED BY <2>2, <2>3
<1>6. BroadcastOrder'
  BY DEF DInv, BroadcastOrder
<1>7. NoOvertaking'
  <2>1. ASSUME NEW t1 \in Tasks, NEW t2 \in Tasks, Follows(t1, t2)'
        PROVE  NotOvertaken(t1, t2)'
    <3>1. Follows(t1, t2)
      BY <1>3, <2>1 DEF Follows
    <3>2. NotOvertaken(t1, t2)
      BY <3>1 DEF DInv, NoOvertaking
    <3> QED BY <1>1, <3>2 DEF NotOvertaken
  <2> QED BY <2>1 DEF NoOvertaking
<1>8. ReceivedInOrder'
  BY <1>1, <1>3 DEF DInv, ReceivedInOrder
<1> QED BY <1>2, <1>5, <1>6, <1>7, <1>8 DEF DInv

LEMMA AcquireDelivery ==
    ASSUME BInv, BInv', DInv, NEW t \in Tasks, Acquire(t)
    PROVE  DInv'
<1>1. /\ step[t] = "wait" /\ step' = [step EXCEPT ![t] = "send"]
      /\ UNCHANGED <<registry, endpoint, link, queue, started, todo, received, snap>>
  BY DEF Acquire
<1>2. handler' = handler
  BY <1>1 DEF endpoint
<1>3. \A x \in Tasks : Begun(x)' = Begun(x)
  BY <1>1 DEF Begun, BInv, TypeOK
<1>4. \A e, f : Before(e, f)' = Before(e, f)
  BY <1>1 DEF Before
<1>5. IsInjective(started)'
  BY <1>1 DEF DInv, BroadcastOrder
<1> QED BY <1>1, <1>2, <1>3, <1>4, <1>5, IdleDelivery

LEMMA BroadcastDelivery ==
    ASSUME BInv, BInv', DInv, NEW e \in Events, Broadcast(e)
    PROVE  DInv'
<1>1. /\ e \notin ToSet(started) /\ started' = Append(started, e)
      /\ step' = [t \in Tasks |-> IF t[1] = e THEN "ready" ELSE step[t]]
      /\ UNCHANGED <<registry, endpoint, link, queue, todo, received, snap>>
  BY DEF Broadcast
<1>2. handler' = handler
  BY <1>1 DEF endpoint
<1>3. \A t \in Tasks : (t[1] = e => step[t] = "none") /\ (step[t] # "none" => t[1] \in ToSet(started))
  BY <1>1 DEF BInv, TaskOK
<1>4. \A t \in Tasks : Begun(t)' = Begun(t)
  BY <1>1, <1>3 DEF Begun
<1>5. /\ started \in Seq(Events) /\ IsInjective(started)
      /\ Len(started) \in Nat /\ DOMAIN started = 1 .. Len(started)
      /\ DOMAIN started' = 1 .. Len(started) + 1 /\ started'[Len(started) + 1] = e
      /\ \A i \in 1 .. Len(started) : started'[i] = started[i]
  <2>1. started \in Seq(Events) /\ IsInjective(started)
    BY DEF BInv, TypeOK, DInv, BroadcastOrder
  <2> QED BY <1>1, <2>1
<1>6. IsInjective(started')
  BY <1>1, <1>5, AppendList
<1>7. \A a, b : Before(a, b) => Before(a, b)'
  BY <1>5 DEF Before
<1>8. ASSUME NEW t \in Tasks, NEW a, Begun(t), Before(a, t[1])'
      PROVE  Before(a, t[1])
  <2>1. t[1] # e
    BY <1>3, <1>8 DEF Begun
  <2>2. PICK i, j \in DOMAIN started' : i < j /\ started'[i] = a /\ started'[j] = t[1]
    BY <1>8 DEF Before
  <2>3. j # Len(started) + 1
    BY <1>5, <2>1, <2>2
  <2>4. i \in DOMAIN started /\ j \in DOMAIN started
    BY <1>5, <2>2, <2>3
  <2>5. started[i] = a /\ started[j] = t[1]
    BY <1>5, <2>2, <2>4
  <2> QED BY <2>2, <2>4, <2>5 DEF Before
<1> QED BY <1>1, <1>2, <1>4, <1>6, <1>7, <1>8, IdleDelivery

\* What a move of task t leaves to the other tasks.
LEMMA OthersKept ==
    ASSUME BInv, NEW t \in Tasks, NEW rest \in Seq(Sockets), NEW q,
           NEW lost \in SUBSET Sockets, Serve(t, rest, q, lost)
    PROVE  /\ \A x \in Tasks \ {t} : todo'[x] = todo[x] /\ (Begun(x)' <=> Begun(x))
           /\ Begun(t)'
           /\ locks' \subseteq locks
           /\ \A u \in Users : Listed(u)' \subseteq Listed(u)
           /\ \A u \in Users : Listed(u) \ lost \subseteq Listed(u)'
           /\ \A u \in Users : \A x, y \in Listed(u)' : Older(u, x, y) => Older(u, x, y)'
           /\ \/ /\ todo'[t] # <<>> /\ todo'[t][1] \in Sockets
                 /\ queue' = [q EXCEPT ![todo'[t][1]] = Append(@, t)]
              \/ todo'[t] = <<>> /\ queue' = q
<1>1. /\ \A x \in Tasks \ {t} : todo'[x] = todo[x] /\ step'[x] = step[x]
      /\ \/ /\ todo'[t] # <<>> /\ todo'[t][1] \in Sockets
            /\ queue' = [q EXCEPT ![todo'[t][1]] = Append(@, t)]
            /\ step'[t] = IF q[todo'[t][1]] = <<>> THEN "send" ELSE "wait"
            /\ UNCHANGED registry
         \/ /\ todo'[t] = <<>>
            /\ queue' = q
            /\ step'[t] = "done"
            /\ Unregister(t[2], lost)
  BY ServeEffect DEF BInv
<1>2. Begun(t)'
  BY <1>1 DEF Begun
<1>3. \A x \in Tasks \ {t} : Begun(x)' <=> Begun(x)
  BY <1>1 DEF Begun
<1>4. /\ locks' \subseteq locks
      /\ \A u \in Users : Listed(u)' \subseteq Listed(u)
      /\ \A u \in Users : Listed(u) \ lost \subseteq Listed(u)'
      /\ \A u \in Users : \A x, y \in Listed(u)' : Older(u, x, y) => Older(u, x, y)'
  <2>1. CASE UNCHANGED registry
    <3>1. connections' = connections /\ locks' = locks
      BY <2>1 DEF registry
    <3> QED BY <3>1 DEF Listed, Older
  <2>2. CASE Unregister(t[2], lost)
    <3>1. t[2] \in Users
      BY TaskTyped
    <3>2. /\ \A v \in Users \ {t[2]} : connections'[v] = connections[v]
          /\ ToSet(connections'[t[2]]) = Listed(t[2]) \ lost
          /\ locks' = locks \ lost
          /\ \A x, y \in ToSet(connections'[t[2]]) : Older(t[2], x, y) => Precedes(connections'[t[2]], x, y)
      BY <2>2, <3>1, UnregisterEffect, ListsHold DEF BInv
    <3>3. ASSUME NEW u \in Users
          PROVE  /\ Listed(u)' \subseteq Listed(u) /\ Listed(u) \ lost \subseteq Listed(u)'
                 /\ \A x, y \in Listed(u)' : Older(u, x, y) => Older(u, x, y)'
      <4>1. CASE u = t[2]
        BY <3>2, <4>1 DEF Listed, Older
      <4>2. CASE u # t[2]
        BY <3>2, <4>2 DEF Listed, Older
      <4> QED BY <4>1, <4>2
    <3> QED BY <3>2, <3>3
  <2> QED BY <1>1, <2>1, <2>2
<1> QED BY <1>1, <1>2, <1>3, <1>4

\* A queue only grows at its end by the task that moved.
LEMMA QueueGrows ==
    ASSUME NEW t \in Tasks, NEW q \in [Sockets -> Seq(Tasks)], NEW ws \in Sockets,
           \/ /\ todo'[t] # <<>> /\ todo'[t][1] \in Sockets
              /\ queue' = [q EXCEPT ![todo'[t][1]] = Append(@, t)]
           \/ todo'[t] = <<>> /\ queue' = q
    PROVE  /\ \A x, y : Precedes(q[ws], x, y) => Precedes(queue'[ws], x, y)
           /\ todo'[t] # <<>> /\ todo'[t][1] = ws =>
                 \A x \in ToSet(q[ws]) : Precedes(queue'[ws], x, t)
<1> DEFINE s == q[ws]
<1>1. s \in Seq(Tasks)
  OBVIOUS
<1>2. queue'[ws] = s \/ queue'[ws] = Append(s, t)
  OBVIOUS
<1>3. todo'[t] # <<>> /\ todo'[t][1] = ws => queue'[ws] = Append(s, t)
  OBVIOUS
<1> HIDE DEF s
<1>4. /\ \A x \in ToSet(s) : Precedes(Append(s, t), x, t)
      /\ \A x, y : Precedes(s, x, y) => Precedes(Append(s, t), x, y)
  BY <1>1, AppendList
<1>5. \A x, y : Precedes(s, x, y) => Precedes(queue'[ws], x, y)
  BY <1>2, <1>4
<1>6. todo'[t] # <<>> /\ todo'[t][1] = ws => \A x \in ToSet(s) : Precedes(queue'[ws], x, t)
  BY <1>3, <1>4
<1> QED BY <1>5, <1>6 DEF s

\* A task with sockets left to serve stands in the queue of the first one.
LEMMA HeadQueued ==
    ASSUME BInv, NEW t \in Tasks, todo[t] # <<>>
    PROVE  todo[t][1] \in Sockets /\ todo[t][1] \in ToSet(todo[t]) /\ t \in ToSet(queue[todo[t][1]])
<1>1. Waiting(t)
  BY DEF BInv, Progress
<1> QED BY <1>1, HeadOfTodo DEF BInv, Queues

LEMMA StartDelivery ==
    ASSUME BInv, BInv', DInv, NEW t \in Tasks, Start(t)
    PROVE  DInv'
<1> DEFINE u == t[2]
           rest == connections[u]
<1>1. /\ step[t] = "ready" /\ Serve(t, rest, queue, {})
      /\ \A x \in Tasks : Before(x[1], t[1]) => step[x] # "ready"
      /\ snap' = [snap EXCEPT ![t] = Listed(u)]
      /\ handler' = handler /\ link' = link /\ started' = started /\ received' = received
  BY DEF Start, endpoint
<1>2. u \in Users /\ rest \in Seq(Sockets)
  BY TaskTyped DEF BInv, TypeOK
<1>3. /\ \A x \in Tasks \ {t} : todo'[x] = todo[x] /\ (Begun(x)' <=> Begun(x))
      /\ Begun(t)'
      /\ locks' \subseteq locks
      /\ \A v \in Users : Listed(v)' \subseteq Listed(v)
      /\ \A v \in Users : \A x, y \in Listed(v)' : Older(v, x, y) => Older(v, x, y)'
      /\ \/ /\ todo'[t] # <<>> /\ todo'[t][1] \in Sockets
            /\ queue' = [queue EXCEPT ![todo'[t][1]] = Append(@, t)]
         \/ todo'[t] = <<>> /\ queue' = queue
  BY <1>1, <1>2, OthersKept
<1>4. /\ ToSet(todo'[t]) \subseteq Listed(u)
      /\ \A x \in Listed(u) : x \in locks => x \in ToSet(todo'[t])
      /\ \A x, y : Precedes(todo'[t], x, y) => Older(u, x, y)
  BY <1>1, <1>2, ServeEffect DEF BInv, Listed, Older
<1>5. ~Begun(t) /\ queue \in [Sockets -> Seq(Tasks)]
  BY <1>1 DEF Begun, BInv, TypeOK
<1>6. \A e, f : Before(e, f)' = Before(e, f)
  BY <1>1 DEF Before
<1>7. Listed(u) \subseteq Sockets /\ \A x \in Listed(u) : Owner[x] = u /\ Registered(x) /\ x \in locks
  BY <1>2, ListedTyped, ListsHold DEF BInv, RegistryConsistent, Registered
<1>8. \A v \in Users : Steady(v)' => Steady(v)
  BY <1>1, <1>3 DEF Steady, Registered, Serving
<1>9. ReceivedOnce'
  <2>1. \A ws \in Sockets : \A e \in ToSet(received[ws]) :
           <<e, Owner[ws]>> \in Tasks /\ Begun(<<e, Owner[ws]>>)'
    BY <1>3, <1>5 DEF DInv, ReceivedOnce
  <2>2. ASSUME NEW x \in ToSet(todo'[t])
        PROVE  t[1] \notin ToSet(received[x])
    <3>1. x \in Sockets /\ Owner[x] = u
      BY <1>4, <1>7, <2>2
    <3>2. t[1] \in ToSet(received[x]) => Begun(<<t[1], u>>)
      BY <3>1 DEF DInv, ReceivedOnce
    <3> QED BY <1>5, <3>2, TaskPair
  <2>3. \A s \in Tasks \ {t} : \A x \in ToSet(todo'[s]) : s[1] \notin ToSet(received[x])
    BY <1>3 DEF DInv, ReceivedOnce
  <2> QED BY <1>1, <2>1, <2>2, <2>3 DEF DInv, ReceivedOnce
<1>10. ASSUME NEW s \in Tasks
       PROVE  Covered(s)' /\ ListOrder(s)'
  <2>1. Covered(s) /\ ListOrder(s) /\ s[2] \in Users
    BY TaskTyped DEF DInv
  <2>2. CASE s = t
    <3>1. snap'[t] = Listed(u)
      BY <1>1 DEF BInv, TypeOK
    <3>2. Covered(t)'
      BY <1>1, <1>4, <1>7, <3>1 DEF Covered, Registered, Serving
    <3>3. ListOrder(t)'
      BY <1>2, <1>3, <1>4 DEF ListOrder
    <3> QED BY <2>2, <3>2, <3>3
  <2>3. CASE s # t
    <3>1. snap'[s] = snap[s] /\ todo'[s] = todo[s] /\ (Begun(s)' <=> Begun(s))
      BY <1>1, <1>3, <2>3 DEF BInv, TypeOK
    <3>2. Covered(s)'
      BY <1>1, <1>3, <2>1, <3>1 DEF Covered, Registered, Serving
    <3>3. ListOrder(s)'
      BY <1>3, <2>1, <3>1 DEF ListOrder
    <3> QED BY <3>2, <3>3
  <2> QED BY <2>2, <2>3
<1>11. ASSUME NEW t1 \in Tasks, Before(t1[1], t[1])
       PROVE  Begun(t1)
  <2>1. t1[1] \in ToSet(started)
    BY <1>11 DEF Before, ToSet
  <2>2. step[t1] # "none" /\ step[t1] # "ready"
    BY <1>1, <1>11, <2>1 DEF BInv, TaskOK
  <2> QED BY <2>2 DEF Begun
<1>12. BroadcastOrder'
  BY <1>1, <1>3, <1>6, <1>11 DEF DInv, BroadcastOrder
<1>13. ASSUME NEW t1 \in Tasks, NEW t2 \in Tasks, Follows(t1, t2)'
       PROVE  NotOvertaken(t1, t2)'
  <2>1. t1[2] = t2[2] /\ Before(t1[1], t2[1]) /\ Begun(t2)' /\ Steady(t1[2]) /\ t1[2] \in Users
    BY <1>6, <1>8, <1>13, TaskTyped DEF Follows
  <2>2. t1 # t2
    BY <2>1, BeforeIrreflexive DEF BInv, DInv, BroadcastOrder
  <2>3. t1 # t
    BY <1>3, <1>5, <2>1, <2>2 DEF DInv, BroadcastOrder
  <2>4. todo'[t1] = todo[t1]
    BY <1>3, <2>3
  <2>5. todo[t1] # <<>> => /\ todo[t1][1] \in Sockets
                           /\ t1 \in ToSet(queue[todo[t1][1]])
    BY HeadQueued
  <2>6. CASE t2 = t
    <3>1. ToSet(todo[t1]) \subseteq ToSet(todo'[t])
      BY <1>4, <2>1, <2>6, SteadyListed
    <3>2. ASSUME todo[t1] # <<>>, todo'[t][1] = todo[t1][1]
          PROVE  Precedes(queue'[todo[t1][1]], t1, t)
      <4>1. todo[t1][1] \in ToSet(todo'[t])
        BY <3>1, <3>2, HeadQueued
      <4>2. todo'[t] # <<>>
        BY <4>1 DEF ToSet
      <4> QED BY <1>3, <1>5, <2>5, <3>2, <4>2, QueueGrows
    <3> QED BY <2>4, <2>6, <3>1, <3>2 DEF NotOvertaken
  <2>7. CASE t2 # t
    <3>1. todo'[t2] = todo[t2] /\ Begun(t2)
      BY <1>3, <2>1, <2>7
    <3>2. NotOvertaken(t1, t2)
      BY <2>1, <3>1 DEF DInv, NoOvertaking, Follows
    <3>3. todo[t1] # <<>> /\ todo[t2][1] = todo[t1][1] => Precedes(queue'[todo[t1][1]], t1, t2)
      BY <1>3, <1>5, <2>5, <3>2, QueueGrows DEF NotOvertaken
    <3> QED BY <2>4, <3>1, <3>2, <3>3 DEF NotOvertaken
  <2> QED BY <2>6, <2>7
<1>14. ReceivedInOrder'
  <2>1. \A ws \in Sockets : Owner[ws] \in Users
    BY ConnectionAssumption
  <2> QED BY <1>1, <1>6, <1>8, <2>1 DEF DInv, ReceivedInOrder
<1> QED BY <1>9, <1>10, <1>12, <1>13, <1>14 DEF DInv, NoOvertaking

-------------------------------------------------------------------------------
(* A task sends. *)

\* The client of the head socket has the event now, unless it is gone.
Delivers(t) ==
    \/ /\ link[todo[t][1]] = "open"
       /\ received' = [received EXCEPT ![todo[t][1]] = Append(received[todo[t][1]], t[1])]
    \/ link[todo[t][1]] # "open" /\ received' = received

\* What is left to a task that has sent: all but the head that still has a lock.
Writes(t) ==
    LET h == todo[t][1] IN
    /\ todo[t] # <<>> /\ Owner[h] = t[2]
    /\ step[t] = "send" /\ Begun(t) /\ Begun(t)'
    /\ \A x \in Tasks \ {t} : todo'[x] = todo[x] /\ (Begun(x)' <=> Begun(x))
    /\ todo'[t] \in Seq(Sockets)
    /\ ToSet(todo'[t]) \subseteq ToSet(todo[t]) \ {h}
    /\ \A x \in ToSet(todo[t]) : x # h /\ x \in locks => x \in ToSet(todo'[t])
    /\ \A x, y : Precedes(todo'[t], x, y) => Precedes(todo[t], x, y)
    /\ locks' \subseteq locks
    /\ \A u \in Users : Listed(u)' \subseteq Listed(u)
    /\ \A u \in Users : \A x, y \in Listed(u)' : Older(u, x, y) => Older(u, x, y)'
    /\ \/ /\ todo'[t] # <<>> /\ todo'[t][1] \in Sockets
          /\ queue' = [Release(t) EXCEPT ![todo'[t][1]] = Append(@, t)]
       \/ todo'[t] = <<>> /\ queue' = Release(t)
    /\ Delivers(t)
    /\ UNCHANGED <<handler, link, started, snap>>

LEMMA WriteEffect ==
    ASSUME BInv, NEW t \in Tasks, NEW lost \in SUBSET Sockets, step[t] = "send",
           Serve(t, Tail(todo[t]), Release(t), lost), Delivers(t),
           UNCHANGED <<endpoint, link, started, snap>>
    PROVE  Writes(t)
<1> DEFINE s == todo[t]
           h == s[1]
           rest == Tail(s)
<1>1. s \in Seq(Sockets) /\ s # <<>> /\ IsInjective(s) /\ h \in ToSet(s) /\ h \in Sockets
      /\ Owner[h] = t[2]
  <2>1. todo[t] \in Seq(Sockets) /\ Len(todo[t]) \in Nat \ {0} /\ todo[t][1] \in ToSet(todo[t])
        /\ todo[t][1] \in Sockets
    BY HeadOfTodo DEF BInv, Waiting
  <2> QED BY <2>1 DEF BInv, TaskOK
<1>2. /\ rest \in Seq(Sockets) /\ Len(s) \in Nat \ {0} /\ DOMAIN s = 1 .. Len(s)
      /\ DOMAIN rest = 1 .. Len(s) - 1
      /\ \A i \in 1 .. Len(s) - 1 : rest[i] = s[i + 1]
  BY <1>1
<1>3. ASSUME NEW x \in ToSet(s), x # h
      PROVE  x \in ToSet(rest)
  <2>1. PICK i \in 1 .. Len(s) : s[i] = x
    BY <1>2 DEF ToSet
  <2>2. i # 1
    BY <1>3, <2>1
  <2>3. i - 1 \in 1 .. Len(s) - 1 /\ (i - 1) + 1 = i
    BY <1>2, <2>1, <2>2
  <2>4. rest[i - 1] = x
    BY <1>2, <2>1, <2>3
  <2> QED BY <1>2, <2>3, <2>4 DEF ToSet
<1>4. ASSUME NEW x \in ToSet(rest)
      PROVE  x \in ToSet(s) \ {h}
  <2>1. PICK i \in 1 .. Len(s) - 1 : rest[i] = x
    BY <1>2 DEF ToSet
  <2>2. i + 1 \in DOMAIN s /\ s[i + 1] = x /\ i + 1 # 1 /\ 1 \in DOMAIN s
    BY <1>2, <2>1
  <2>3. x # h
    BY <1>1, <2>2 DEF IsInjective
  <2> QED BY <2>2, <2>3 DEF ToSet
<1>5. ASSUME NEW x, NEW y, Precedes(rest, x, y)
      PROVE  Precedes(s, x, y)
  <2>1. PICK i, j \in 1 .. Len(s) - 1 : i < j /\ rest[i] = x /\ rest[j] = y
    BY <1>2, <1>5 DEF Precedes
  <2>2. i + 1 \in DOMAIN s /\ j + 1 \in DOMAIN s /\ i + 1 < j + 1 /\ s[i + 1] = x /\ s[j + 1] = y
    BY <1>2, <2>1
  <2> QED BY <2>2 DEF Precedes
<1> HIDE DEF rest
<1>6. Serve(t, rest, Release(t), lost)
  BY DEF rest
<1>7. /\ \A x \in Tasks \ {t} : todo'[x] = todo[x] /\ (Begun(x)' <=> Begun(x))
      /\ Begun(t)'
      /\ locks' \subseteq locks
      /\ \A u \in Users : Listed(u)' \subseteq Listed(u)
      /\ \A u \in Users : \A x, y \in Listed(u)' : Older(u, x, y) => Older(u, x, y)'
      /\ \/ /\ todo'[t] # <<>> /\ todo'[t][1] \in Sockets
            /\ queue' = [Release(t) EXCEPT ![todo'[t][1]] = Append(@, t)]
         \/ todo'[t] = <<>> /\ queue' = Release(t)
  BY <1>2, <1>6, OthersKept
<1>8. /\ todo'[t] \in Seq(Sockets) /\ ToSet(todo'[t]) \subseteq ToSet(rest)
      /\ \A x \in ToSet(rest) : x \in locks => x \in ToSet(todo'[t])
      /\ \A x, y : Precedes(todo'[t], x, y) => Precedes(rest, x, y)
  BY <1>2, <1>6, ServeEffect DEF BInv
<1>9. Begun(t) /\ UNCHANGED <<handler, link, started, snap>>
  BY DEF Begun, endpoint
<1>10. /\ ToSet(todo'[t]) \subseteq ToSet(s) \ {h}
       /\ \A x \in ToSet(s) : x # h /\ x \in locks => x \in ToSet(todo'[t])
       /\ \A x, y : Precedes(todo'[t], x, y) => Precedes(s, x, y)
  BY <1>3, <1>4, <1>5, <1>8
<1> QED BY <1>1, <1>7, <1>8, <1>9, <1>10 DEF Writes

\* No earlier task is left behind a task that has sent, and no later one is
\* level with it.
LEMMA WriteOvertakesNobody ==
    ASSUME BInv, DInv, NEW t \in Tasks, Writes(t),
           NEW t1 \in Tasks, NEW t2 \in Tasks, Follows(t1, t2)
    PROVE  NotOvertaken(t1, t2)'
<1> DEFINE h == todo[t][1]
           h1 == todo[t1][1]
           q == Release(t)
<1>1. /\ t1 # t2 /\ t1[2] = t2[2] /\ Steady(t1[2])
      /\ NotOvertaken(t1, t2) /\ ListOrder(t1) /\ ListOrder(t2)
  <2>1. t1 # t2
    BY BeforeIrreflexive DEF Follows, BInv, DInv, BroadcastOrder
  <2> QED BY <2>1 DEF DInv, NoOvertaking, Follows
<1>2. ToSet(todo[t1]) \subseteq ToSet(todo[t2])
  BY <1>1 DEF NotOvertaken
<1>3. /\ todo[t] # <<>> /\ step[t] = "send"
      /\ \A x \in Tasks \ {t} : todo'[x] = todo[x]
      /\ ToSet(todo'[t]) \subseteq ToSet(todo[t]) \ {h}
      /\ \A x \in ToSet(todo[t]) : x # h /\ x \in locks => x \in ToSet(todo'[t])
      /\ \/ /\ todo'[t] # <<>> /\ todo'[t][1] \in Sockets
            /\ queue' = [q EXCEPT ![todo'[t][1]] = Append(@, t)]
         \/ todo'[t] = <<>> /\ queue' = q
  BY DEF Writes
<1>4. h \in Sockets /\ h \in ToSet(todo[t])
  BY <1>3, HeadQueued
<1>5. todo[t1] # <<>> => h1 \in Sockets /\ h1 \in ToSet(todo[t1]) /\ t1 \in ToSet(queue[h1])
  BY HeadQueued
<1>6. q \in [Sockets -> Seq(Tasks)]
  BY <1>3, <1>4, ReleaseKeeps
<1>7. ASSUME NEW ws \in Sockets
      PROVE  /\ ws # h => q[ws] = queue[ws]
             /\ \A x, y : x # t /\ y # t /\ Precedes(queue[ws], x, y) => Precedes(q[ws], x, y)
             /\ \A x, y : Precedes(q[ws], x, y) => Precedes(queue'[ws], x, y)
             /\ todo'[t] # <<>> /\ todo'[t][1] = ws =>
                   \A x \in ToSet(q[ws]) : Precedes(queue'[ws], x, t)
  <2>1. /\ ws # h => q[ws] = queue[ws]
        /\ \A x, y : x # t /\ y # t /\ Precedes(queue[ws], x, y) => Precedes(q[ws], x, y)
    BY <1>3, ReleaseKeeps
  <2> HIDE DEF q
  <2>2. /\ \A x, y : Precedes(q[ws], x, y) => Precedes(queue'[ws], x, y)
        /\ todo'[t] # <<>> /\ todo'[t][1] = ws =>
              \A x \in ToSet(q[ws]) : Precedes(queue'[ws], x, t)
    BY <1>3, <1>6, QueueGrows
  <2> QED BY <2>1, <2>2
<1> HIDE DEF q
<1>8. CASE t1 # t /\ t2 # t
  <2>1. todo'[t1] = todo[t1] /\ todo'[t2] = todo[t2]
    BY <1>3, <1>8
  <2>2. todo[t1] # <<>> /\ todo[t2][1] = h1 => Precedes(queue'[h1], t1, t2)
    BY <1>1, <1>5, <1>7, <1>8 DEF NotOvertaken
  <2> QED BY <1>2, <2>1, <2>2 DEF NotOvertaken
<1>9. CASE t1 = t /\ t2 # t
  <2>1. todo'[t2] = todo[t2]
    BY <1>3, <1>9
  <2>2. ToSet(todo'[t]) \subseteq ToSet(todo[t2])
    BY <1>2, <1>3, <1>9
  <2>3. ASSUME todo'[t] # <<>>, todo[t2][1] = todo'[t][1]
        PROVE  FALSE
    <3> DEFINE x == todo'[t][1]
    <3>1. x \in ToSet(todo'[t])
      <4>1. todo'[t] \in Seq(Sockets)
        BY DEF Writes
      <4> QED BY <2>3, <4>1 DEF ToSet
    <3>2. x \in ToSet(todo[t]) /\ x # h /\ x \in ToSet(todo[t2]) /\ h \in ToSet(todo[t2])
      BY <1>2, <1>3, <1>4, <1>9, <2>2, <3>1
    <3>3. x = h
      BY <1>1, <1>9, <2>3, <3>2, SameList
    <3> QED BY <3>2, <3>3
  <2> QED BY <1>9, <2>1, <2>2, <2>3 DEF NotOvertaken
<1>10. CASE t1 # t /\ t2 = t
  <2>1. todo'[t1] = todo[t1]
    BY <1>3, <1>10
  <2>2. ASSUME h \in ToSet(todo[t1])
        PROVE  FALSE
    <3>1. todo[t1] # <<>>
      BY <2>2 DEF ToSet
    <3>2. h1 \in ToSet(todo[t])
      BY <1>2, <1>5, <1>10, <3>1
    <3>3. h = h1
      BY <1>1, <1>4, <1>10, <2>2, <3>2, SameList
    <3>4. Precedes(queue[h], t1, t)
      BY <1>1, <1>10, <3>1, <3>3 DEF NotOvertaken
    <3>5. queue[h][1] = t /\ queue[h] \in Seq(Tasks) /\ IsInjective(queue[h])
      BY <1>3, <1>4 DEF BInv, Queues
    <3>6. PICK i, j \in DOMAIN queue[h] : i < j /\ queue[h][i] = t1 /\ queue[h][j] = t
      BY <3>4 DEF Precedes
    <3>7. 1 \in DOMAIN queue[h] /\ j # 1
      BY <3>5, <3>6
    <3> QED BY <3>5, <3>6, <3>7 DEF IsInjective
  <2>3. ToSet(todo[t1]) \subseteq ToSet(todo'[t])
    BY <1>1, <1>2, <1>3, <1>10, <2>2, SteadyListed
  <2>4. ASSUME todo[t1] # <<>>, todo'[t][1] = h1
        PROVE  Precedes(queue'[h1], t1, t)
    <3>1. h1 # h /\ h1 \in ToSet(todo'[t])
      BY <1>5, <2>2, <2>3, <2>4
    <3>2. todo'[t] # <<>>
      BY <3>1 DEF ToSet
    <3> QED BY <1>5, <1>7, <2>4, <3>1, <3>2
  <2> QED BY <1>10, <2>1, <2>3, <2>4 DEF NotOvertaken
<1> QED BY <1>1, <1>8, <1>9, <1>10

LEMMA WriteDelivery ==
    ASSUME BInv, BInv', DInv, NEW t \in Tasks, Writes(t)
    PROVE  DInv'
<1> DEFINE h == todo[t][1]
           u == t[2]
           e == t[1]
<1>1. /\ todo[t] # <<>> /\ Owner[h] = u
      /\ Begun(t) /\ Begun(t)'
      /\ \A x \in Tasks \ {t} : todo'[x] = todo[x] /\ (Begun(x)' <=> Begun(x))
      /\ ToSet(todo'[t]) \subseteq ToSet(todo[t]) \ {h}
      /\ \A x \in ToSet(todo[t]) : x # h /\ x \in locks => x \in ToSet(todo'[t])
      /\ \A x, y : Precedes(todo'[t], x, y) => Precedes(todo[t], x, y)
      /\ locks' \subseteq locks
      /\ \A v \in Users : Listed(v)' \subseteq Listed(v)
      /\ \A v \in Users : \A x, y \in Listed(v)' : Older(v, x, y) => Older(v, x, y)'
      /\ handler' = handler /\ link' = link /\ started' = started /\ snap' = snap
  BY DEF Writes
<1>2. h \in Sockets /\ h \in ToSet(todo[t]) /\ u \in Users /\ e \in Events /\ t = <<e, u>>
  BY <1>1, HeadQueued, TaskTyped, TaskPair
<1>3. received \in [Sockets -> Seq(Events)] /\ e \notin ToSet(received[h])
  BY <1>2 DEF BInv, TypeOK, DInv, ReceivedOnce
<1>4. \/ link[h] = "open" /\ received' = [received EXCEPT ![h] = Append(received[h], e)]
      \/ link[h] # "open" /\ received' = received
  BY DEF Writes, Delivers
<1>5. /\ received[h] \in Seq(Events) /\ IsInjective(received[h])
      /\ Append(received[h], e) \in Seq(Events)
      /\ ToSet(Append(received[h], e)) = ToSet(received[h]) \cup {e}
      /\ IsInjective(Append(received[h], e))
  <2>1. received[h] \in Seq(Events) /\ IsInjective(received[h])
    BY <1>2, <1>3 DEF DInv, ReceivedOnce
  <2> QED BY <1>2, <1>3, <2>1, AppendList
<1> HIDE DEF h, u, e
<1>6. /\ \A x \in Sockets \ {h} : received'[x] = received[x]
      /\ \A x \in Sockets : ToSet(received[x]) \subseteq ToSet(received'[x])
      /\ ToSet(received'[h]) \subseteq ToSet(received[h]) \cup {e}
      /\ link[h] = "open" => e \in ToSet(received'[h])
      /\ received'[h] = received[h] \/ received'[h] = Append(received[h], e)
  <2>1. CASE received' = received /\ link[h] # "open"
    BY <2>1
  <2>2. CASE received' = [received EXCEPT ![h] = Append(received[h], e)]
    <3>1. received'[h] = Append(received[h], e) /\ \A x \in Sockets \ {h} : received'[x] = received[x]
      BY <1>2, <1>3, <2>2
    <3>2. ToSet(received'[h]) = ToSet(received[h]) \cup {e}
      BY <1>5, <3>1
    <3> QED BY <3>1, <3>2
  <2> QED BY <1>4, <2>1, <2>2
<1>7. \A a, b : Before(a, b)' = Before(a, b)
  BY <1>1 DEF Before
<1>8. \A v \in Users : Steady(v)' => Steady(v)
  BY <1>1 DEF Steady, Registered, Serving
<1>9. \A x \in Tasks : Begun(x)' <=> Begun(x)
  BY <1>1
<1>10. ASSUME NEW s \in Tasks, NEW x \in ToSet(todo'[s])
       PROVE  x \in Sockets /\ x \in ToSet(todo[s]) /\ Owner[x] = s[2] /\ (s = t => x # h)
  <2>1. x \in ToSet(todo[s]) /\ (s = t => x # h)
    BY <1>1, <1>10 DEF h
  <2>2. todo[s] \in Seq(Sockets)
    BY DEF BInv, TypeOK
  <2> QED BY <2>1, <2>2 DEF BInv, TaskOK, ToSet
<1>11. ReceivedOnce'
  <2>1. ASSUME NEW ws \in Sockets
        PROVE  /\ IsInjective(received'[ws])
               /\ \A f \in ToSet(received'[ws]) : <<f, Owner[ws]>> \in Tasks /\ Begun(<<f, Owner[ws]>>)'
    <3>1. CASE ws # h
      BY <1>6, <1>9, <3>1 DEF DInv, ReceivedOnce
    <3>2. CASE ws = h
      <4>1. IsInjective(received'[h])
        BY <1>5, <1>6
      <4>2. ASSUME NEW f \in ToSet(received'[h])
            PROVE  <<f, u>> \in Tasks /\ Begun(<<f, u>>)'
        <5>1. CASE f = e
          BY <1>1, <1>2, <5>1
        <5>2. CASE f # e
          <6>1. f \in ToSet(received[h])
            BY <1>6, <5>2
          <6>2. <<f, u>> \in Tasks /\ Begun(<<f, u>>)
            BY <1>1, <1>2, <6>1 DEF DInv, ReceivedOnce
          <6> QED BY <1>9, <6>2
        <5> QED BY <5>1, <5>2
      <4> QED BY <1>1, <3>2, <4>1, <4>2
    <3> QED BY <3>1, <3>2
  <2>2. ASSUME NEW s \in Tasks, NEW x \in ToSet(todo'[s])
        PROVE  s[1] \notin ToSet(received'[x])
    <3>1. s[1] \notin ToSet(received[x])
      BY <1>10, <2>2 DEF DInv, ReceivedOnce
    <3>2. CASE x = h
      <4>1. s # t /\ s[2] = u
        BY <1>1, <1>10, <2>2, <3>2
      <4>2. s[1] # e
        BY <1>2, <4>1, TaskPair
      <4> QED BY <1>6, <3>1, <3>2, <4>2
    <3>3. CASE x # h
      BY <1>6, <1>10, <2>2, <3>1, <3>3
    <3> QED BY <3>2, <3>3
  <2> QED BY <2>1, <2>2 DEF ReceivedOnce
<1>12. ASSUME NEW s \in Tasks
       PROVE  Covered(s)' /\ ListOrder(s)'
  <2>1. Covered(s) /\ ListOrder(s) /\ s[2] \in Users /\ snap[s] \subseteq Sockets
    BY TaskTyped DEF DInv, BInv, TypeOK
  <2>2. ASSUME NEW x \in snap[s] \cap Listed(s[2])', link[x] = "open", Begun(s)'
        PROVE  s[1] \in ToSet(received'[x]) \/ x \in ToSet(todo'[s])
    <3>1. x \in Sockets /\ x \in Listed(s[2]) /\ Begun(s)
      BY <1>1, <1>9, <2>1, <2>2
    <3>2. s[1] \in ToSet(received[x]) \/ x \in ToSet(todo[s])
      BY <2>1, <2>2, <3>1 DEF Covered
    <3>3. x \in locks
      BY <2>1, <3>1 DEF BInv, RegistryConsistent
    <3>4. CASE s[1] \in ToSet(received[x])
      BY <1>6, <3>1, <3>4
    <3>5. CASE x \in ToSet(todo[s]) /\ s # t
      BY <1>1, <3>5
    <3>6. CASE x \in ToSet(todo[s]) /\ s = t /\ x # h
      BY <1>1, <3>3, <3>6 DEF h
    <3>7. CASE s = t /\ x = h
      BY <1>6, <2>2, <3>7 DEF e
    <3> QED BY <3>2, <3>4, <3>5, <3>6, <3>7
  <2>3. \A x \in snap[s] : Registered(x)'
    BY <1>1, <2>1 DEF Covered, Registered, Serving
  <2>4. Covered(s)'
    BY <1>1, <2>2, <2>3 DEF Covered
  <2>5. ASSUME NEW x \in ToSet(todo'[s]) \cap Listed(s[2])', NEW y \in ToSet(todo'[s]) \cap Listed(s[2])',
               Precedes(todo'[s], x, y)
        PROVE  Older(s[2], x, y)'
    <3>1. Precedes(todo[s], x, y)
      BY <1>1, <2>5
    <3>2. x \in ToSet(todo[s]) \cap Listed(s[2]) /\ y \in ToSet(todo[s]) \cap Listed(s[2])
      BY <1>1, <1>10, <2>1, <2>5
    <3> QED BY <1>1, <2>1, <2>5, <3>1, <3>2 DEF ListOrder
  <2> QED BY <2>4, <2>5 DEF ListOrder
<1>13. BroadcastOrder'
  BY <1>1, <1>7, <1>9 DEF DInv, BroadcastOrder
<1>14. NoOvertaking'
  <2>1. ASSUME NEW t1 \in Tasks, NEW t2 \in Tasks, Follows(t1, t2)'
        PROVE  NotOvertaken(t1, t2)'
    <3>1. Follows(t1, t2)
      BY <1>7, <1>8, <1>9, <2>1, TaskTyped DEF Follows
    <3> QED BY <3>1, WriteOvertakesNobody
  <2> QED BY <2>1 DEF NoOvertaking
<1>15. ASSUME Steady(u), NEW f \in ToSet(received[h])
       PROVE  Before(f, e)
  <2>1. <<f, u>> \in Tasks /\ Begun(<<f, u>>)
    BY <1>1, <1>2, <1>15 DEF DInv, ReceivedOnce
  <2>2. f # e
    BY <1>3, <1>15
  <2>3. \A s \in Tasks : Begun(s) => s[1] \in ToSet(started)
    BY DEF BInv, TaskOK, Begun
  <2>4. f \in ToSet(started) /\ e \in ToSet(started)
    BY <1>1, <2>1, <2>3 DEF e
  <2>5. ASSUME Before(e, f)
        PROVE  FALSE
    <3> DEFINE s == <<f, u>>
    <3>1. Follows(t, s)
      BY <1>15, <2>1, <2>5 DEF Follows, e, u
    <3>2. h \in ToSet(todo[s])
      BY <1>2, <2>1, <3>1 DEF DInv, NoOvertaking, NotOvertaken
    <3>3. s[1] \notin ToSet(received[h])
      BY <2>1, <3>2 DEF DInv, ReceivedOnce
    <3> QED BY <1>15, <3>3
  <2> QED BY <2>2, <2>4, <2>5, BeforeStarted DEF BInv
<1>16. ASSUME NEW ws \in Sockets, Steady(Owner[ws])',
              NEW i \in DOMAIN received'[ws], NEW j \in DOMAIN received'[ws], i < j
       PROVE  Before(received'[ws][i], received'[ws][j])
  <2>1. Steady(Owner[ws])
    <3>1. Owner[ws] \in Users
      BY ConnectionAssumption
    <3> QED BY <1>8, <1>16, <3>1
  <2>2. \A k, l \in DOMAIN received[ws] : k < l => Before(received[ws][k], received[ws][l])
    BY <2>1 DEF DInv, ReceivedInOrder
  <2>3. CASE received'[ws] = received[ws]
    BY <1>16, <2>2, <2>3
  <2>4. CASE ws = h /\ received'[ws] = Append(received[h], e)
    <3> DEFINE s == received[h]
    <3>1. /\ DOMAIN s = 1 .. Len(s) /\ Len(s) \in Nat /\ DOMAIN received'[ws] = 1 .. Len(s) + 1
          /\ received'[ws][Len(s) + 1] = e
          /\ \A k \in 1 .. Len(s) : received'[ws][k] = s[k]
      BY <1>5, <2>4
    <3>2. i \in 1 .. Len(s)
      BY <1>16, <3>1
    <3>3. CASE j = Len(s) + 1
      <4>1. s[i] \in ToSet(s)
        BY <3>1, <3>2 DEF ToSet
      <4> QED BY <1>1, <1>15, <2>1, <2>4, <3>1, <3>2, <3>3, <4>1
    <3>4. CASE j # Len(s) + 1
      <4>1. j \in 1 .. Len(s)
        BY <1>16, <3>1, <3>4
      <4> QED BY <1>16, <2>2, <2>4, <3>1, <3>2, <4>1
    <3> QED BY <3>3, <3>4
  <2> QED BY <1>6, <2>3, <2>4
<1>17. ReceivedInOrder'
  BY <1>7, <1>16 DEF ReceivedInOrder
<1> QED BY <1>11, <1>12, <1>13, <1>14, <1>17 DEF DInv

LEMMA SendDelivery ==
    ASSUME BInv, BInv', DInv, NEW t \in Tasks, Send(t) \/ SendFails(t)
    PROVE  DInv'
<1>1. CASE Send(t)
  <2>1. Writes(t)
    BY <1>1, SendEffect, WriteEffect DEF Delivers
  <2> QED BY <2>1, WriteDelivery
<1>2. CASE SendFails(t)
  <2> DEFINE ws == todo[t][1]
  <2>1. step[t] = "send" /\ Head(todo[t]) = ws /\ ws \in Sockets
    BY <1>2, HeadOfTodo DEF BInv, Waiting, SendFails
  <2>2. /\ link[ws] = "closed" /\ Serve(t, Tail(todo[t]), Release(t), dead[t] \cup {ws})
        /\ UNCHANGED <<endpoint, link, started, received, snap>>
    BY <1>2, <2>1 DEF SendFails
  <2>3. dead[t] \cup {ws} \in SUBSET Sockets
    BY <2>1 DEF BInv, TypeOK
  <2>4. Delivers(t)
    BY <2>2 DEF Delivers
  <2>5. Writes(t)
    BY <2>1, <2>2, <2>3, <2>4, WriteEffect
  <2> QED BY <2>5, WriteDelivery
<1> QED BY <1>1, <1>2

-------------------------------------------------------------------------------
(* The theorems. *)

LEMMA InitDelivery == Init => DInv
<1> SUFFICES ASSUME Init
             PROVE  DInv
  OBVIOUS
<1>1. DOMAIN <<>> = {} /\ ToSet(<<>>) = {} /\ IsInjective(<<>>)
  BY DEF ToSet, IsInjective
<1>2. \A t \in Tasks : todo[t] = <<>> /\ snap[t] = {} /\ ~Begun(t)
  BY DEF Init, Begun
<1>3. \A ws \in Sockets : received[ws] = <<>>
  BY DEF Init
<1>4. started = <<>>
  BY DEF Init
<1>5. ReceivedOnce
  BY <1>1, <1>2, <1>3 DEF ReceivedOnce
<1>6. \A t \in Tasks : Covered(t) /\ ListOrder(t)
  BY <1>1, <1>2 DEF Covered, ListOrder
<1>7. BroadcastOrder
  BY <1>1, <1>2, <1>4 DEF BroadcastOrder
<1>8. NoOvertaking
  BY <1>2 DEF NoOvertaking, Follows
<1>9. ReceivedInOrder
  BY <1>1, <1>3 DEF ReceivedInOrder
<1> QED BY <1>5, <1>6, <1>7, <1>8, <1>9 DEF DInv

LEMMA NextDelivery == BInv /\ BInv' /\ DInv /\ [Next]_vars => DInv'
<1> SUFFICES ASSUME BInv, BInv', DInv, [Next]_vars
             PROVE  DInv'
  OBVIOUS
<1>1. ASSUME NEW ws \in Sockets, Endpoint(ws) \/ Heartbeat(ws) \/ Drop(ws)
      PROVE  DInv'
  BY <1>1, EndpointQuiet, QuietDelivery
<1>2. ASSUME NEW e \in Events, Broadcast(e)
      PROVE  DInv'
  BY <1>2, BroadcastDelivery
<1>3. ASSUME NEW t \in Tasks, SendToUser(t)
      PROVE  DInv'
  BY <1>3, StartDelivery, AcquireDelivery, SendDelivery DEF SendToUser
<1>4. CASE UNCHANGED vars
  <2>1. UNCHANGED <<registry, sending>> /\ handler' = handler /\ link' = link
    BY <1>4 DEF vars, endpoint
  <2>2. Quiet
    BY <2>1, QuietKept DEF Registered, Serving
  <2> QED BY <2>2, QuietDelivery
<1> QED BY <1>1, <1>2, <1>3, <1>4 DEF Next

\* The invariant behind the two properties of delivery.
THEOREM DeliveryInvariance == Spec => [](BInv /\ DInv)
<1>1. Init => DInv
  BY InitDelivery
<1>2. BInv /\ BInv' /\ DInv /\ [Next]_vars => DInv'
  BY NextDelivery
<1> QED BY <1>1, <1>2, BaseInvariance, PTL DEF Spec

\* A task that is done has sent its event to every socket it found listed that
\* is still listed and open.
THEOREM NobodySkippedAlways == Spec => []NobodySkipped
<1>1. BInv /\ DInv => NobodySkipped
  <2> SUFFICES ASSUME BInv, DInv, NEW t \in Tasks, step[t] = "done",
                      NEW ws \in snap[t] \cap Listed(t[2]), link[ws] = "open"
               PROVE  t[1] \in ToSet(received[ws])
    BY DEF NobodySkipped
  <2>1. ~Waiting(t) /\ Begun(t)
    BY DEF Waiting, Begun
  <2>2. todo[t] = <<>>
    BY <2>1 DEF BInv, Progress
  <2>3. ToSet(todo[t]) = {}
    BY <2>2 DEF ToSet
  <2> QED BY <2>1, <2>3 DEF DInv, Covered
<1> QED BY <1>1, DeliveryInvariance, PTL

\* No socket receives an event twice, and while nobody has left, each receives
\* events in the order in which they were broadcast.
THEOREM InOrderAlways == Spec => []InOrder
<1>1. BInv /\ DInv => InOrder
  BY DEF DInv, ReceivedOnce, ReceivedInOrder, Steady, InOrder
<1> QED BY <1>1, DeliveryInvariance, PTL
===============================================================================
