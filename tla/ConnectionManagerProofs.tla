----------------------- MODULE ConnectionManagerProofs -----------------------
(***************************************************************************)
(* Proofs about the registry and the locks of ConnectionManager, for any   *)
(* number of sockets, users, events and any limit: the dictionaries agree, *)
(* one task at a time writes to a socket, and none waits in vain.          *)
(***************************************************************************)
EXTENDS ConnectionManager, TLAPS

Handlers == {"new", "auth", "accept", "rejected", "evict", "receive", "leaving", "ended"}
Hearts   == {"off", "sleep", "ping", "stopped"}
Steps    == {"none", "ready", "wait", "send", "done"}

-------------------------------------------------------------------------------
(* Lists of sockets. *)

\* x stands somewhere before y in s.
Precedes(s, x, y) == \E i, j \in DOMAIN s : i < j /\ s[i] = x /\ s[j] = y

\* In a list without repetitions only one of two elements precedes the other.
LEMMA PrecedesOneWay ==
    ASSUME NEW S, NEW s \in Seq(S), IsInjective(s), NEW x, NEW y, Precedes(s, x, y)
    PROVE  ~Precedes(s, y, x) /\ x # y
<1>1. PICK i, j \in DOMAIN s : i < j /\ s[i] = x /\ s[j] = y
  BY DEF Precedes
<1>2. \A k, l \in DOMAIN s : s[k] = s[l] => k = l
  BY DEF IsInjective
<1>3. DOMAIN s = 1 .. Len(s)
  OBVIOUS
<1>4. x # y
  BY <1>1, <1>2, <1>3
<1>5. ASSUME NEW k \in DOMAIN s, NEW l \in DOMAIN s, k < l, s[k] = y, s[l] = x
      PROVE  FALSE
  <2>1. k = j /\ l = i
    BY <1>1, <1>2, <1>5
  <2> QED BY <1>1, <1>3, <1>5, <2>1
<1> QED BY <1>4, <1>5 DEF Precedes

LEMMA AppendList ==
    ASSUME NEW S, NEW s \in Seq(S), NEW x \in S
    PROVE  /\ Append(s, x) \in Seq(S)
           /\ Len(Append(s, x)) = Len(s) + 1
           /\ ToSet(Append(s, x)) = ToSet(s) \cup {x}
           /\ \A y \in ToSet(s) : Precedes(Append(s, x), y, x)
           /\ \A y, z : Precedes(s, y, z) => Precedes(Append(s, x), y, z)
           /\ IsInjective(s) /\ x \notin ToSet(s) => IsInjective(Append(s, x))
<1> DEFINE t == Append(s, x)
<1>1. /\ t \in Seq(S) /\ DOMAIN s = 1 .. Len(s) /\ DOMAIN t = 1 .. Len(s) + 1 /\ Len(s) \in Nat
      /\ t[Len(s) + 1] = x /\ \A i \in 1 .. Len(s) : t[i] = s[i]
      /\ Len(t) = Len(s) + 1
  OBVIOUS
<1> HIDE DEF t
<1>2. ToSet(t) = ToSet(s) \cup {x}
  <2>1. \A e \in ToSet(t) : e \in ToSet(s) \cup {x}
    BY <1>1 DEF ToSet
  <2>2. \A e \in ToSet(s) : e \in ToSet(t)
    BY <1>1 DEF ToSet
  <2>3. x \in ToSet(t)
    <3>1. Len(s) + 1 \in DOMAIN t
      BY <1>1
    <3> QED BY <3>1, <1>1 DEF ToSet
  <2> QED BY <2>1, <2>2, <2>3
<1>3. ASSUME NEW y, NEW z, Precedes(s, y, z)
      PROVE  Precedes(t, y, z)
  <2>1. PICK i, j \in DOMAIN s : i < j /\ s[i] = y /\ s[j] = z
    BY <1>3 DEF Precedes
  <2>2. i \in DOMAIN t /\ j \in DOMAIN t /\ t[i] = y /\ t[j] = z
    BY <1>1, <2>1
  <2> QED BY <2>1, <2>2 DEF Precedes
<1>4. ASSUME NEW y \in ToSet(s)
      PROVE  Precedes(t, y, x)
  <2>1. PICK i \in DOMAIN s : s[i] = y
    BY DEF ToSet
  <2>2. /\ i \in DOMAIN t /\ Len(s) + 1 \in DOMAIN t /\ i < Len(s) + 1
        /\ t[i] = y /\ t[Len(s) + 1] = x
    BY <1>1, <2>1
  <2> QED BY <2>2 DEF Precedes
<1>5. ASSUME IsInjective(s), x \notin ToSet(s)
      PROVE  IsInjective(t)
  <2>1. \A k \in DOMAIN s : s[k] # x
    BY <1>5 DEF ToSet
  <2>2. ASSUME NEW i \in DOMAIN t, NEW j \in DOMAIN t, t[i] = t[j]
        PROVE  i = j
    <3>1. CASE i \in DOMAIN s /\ j \in DOMAIN s
      BY <1>1, <1>5, <2>2, <3>1 DEF IsInjective
    <3>2. CASE i \notin DOMAIN s \/ j \notin DOMAIN s
      BY <1>1, <2>1, <2>2, <3>2
    <3> QED BY <3>1, <3>2
  <2> QED BY <2>2 DEF IsInjective
<1> QED BY <1>1, <1>2, <1>3, <1>4, <1>5 DEF t

\* Cutting an injective list in two: the second part keeps the order, and no
\* element is in both.
LEMMA CutList ==
    ASSUME NEW S, NEW s \in Seq(S), NEW m \in 0 .. Len(s)
    PROVE  LET front == SubSeq(s, 1, m)
               rest  == SubSeq(s, m + 1, Len(s))
           IN  /\ front \in Seq(S) /\ Len(front) = m
               /\ rest \in Seq(S) /\ Len(rest) = Len(s) - m
               /\ \A i \in 1 .. m : front[i] = s[i]
               /\ \A i \in 1 .. Len(s) - m : rest[i] = s[m + i]
               /\ ToSet(s) = ToSet(front) \cup ToSet(rest)
               /\ IsInjective(s) => /\ IsInjective(front) /\ IsInjective(rest)
                                    /\ ToSet(front) \cap ToSet(rest) = {}
               /\ \A x, y : Precedes(rest, x, y) => Precedes(s, x, y)
               /\ IsInjective(s) => \A x, y \in ToSet(rest) :
                                       Precedes(s, x, y) => Precedes(rest, x, y)
<1> DEFINE front == SubSeq(s, 1, m)
           rest  == SubSeq(s, m + 1, Len(s))
           n == Len(s)
<1>1. /\ n \in Nat /\ DOMAIN s = 1 .. n /\ m \in 0 .. n
      /\ front \in Seq(S) /\ Len(front) = m /\ DOMAIN front = 1 .. m
      /\ rest \in Seq(S) /\ Len(rest) = n - m /\ DOMAIN rest = 1 .. n - m
      /\ \A i \in 1 .. m : front[i] = s[i]
      /\ \A i \in 1 .. n - m : rest[i] = s[m + i]
  OBVIOUS
<1> HIDE DEF front, rest, n
<1>2. ToSet(s) = ToSet(front) \cup ToSet(rest)
  <2>1. ASSUME NEW i \in DOMAIN s
        PROVE  i \in DOMAIN front \/ (i - m \in DOMAIN rest /\ rest[i - m] = s[i])
    <3>1. i \in 1 .. n /\ m \in Int
      BY <1>1
    <3>2. i > m => i - m \in 1 .. n - m /\ m + (i - m) = i
      BY <1>1, <3>1
    <3> QED BY <1>1, <3>1, <3>2
  <2>2. \A x \in ToSet(s) : x \in ToSet(front) \cup ToSet(rest)
    BY <1>1, <2>1 DEF ToSet
  <2>3. \A i \in DOMAIN front : i \in DOMAIN s /\ front[i] = s[i]
    BY <1>1
  <2>4. \A i \in DOMAIN rest : m + i \in DOMAIN s /\ rest[i] = s[m + i]
    BY <1>1
  <2>5. \A x \in ToSet(front) \cup ToSet(rest) : x \in ToSet(s)
    BY <2>3, <2>4 DEF ToSet
  <2> QED BY <2>2, <2>5
<1>3. ASSUME IsInjective(s)
      PROVE  /\ IsInjective(front) /\ IsInjective(rest)
             /\ ToSet(front) \cap ToSet(rest) = {}
  <2>0. \A k, l \in 1 .. n : s[k] = s[l] => k = l
    BY <1>1, <1>3 DEF IsInjective
  <2>1. IsInjective(front)
    BY <1>1, <2>0 DEF IsInjective
  <2>2. IsInjective(rest)
    <3>1. ASSUME NEW i \in DOMAIN rest, NEW j \in DOMAIN rest, rest[i] = rest[j]
          PROVE  i = j
      <4>1. m + i \in 1 .. n /\ m + j \in 1 .. n /\ s[m + i] = s[m + j]
        BY <1>1, <3>1
      <4>2. m + i = m + j
        BY <2>0, <4>1
      <4> QED BY <1>1, <4>2
    <3> QED BY <3>1 DEF IsInjective
  <2>3. ASSUME NEW i \in DOMAIN front, NEW j \in DOMAIN rest, front[i] = rest[j]
        PROVE  FALSE
    <3>1. i \in 1 .. n /\ m + j \in 1 .. n /\ s[i] = s[m + j]
      BY <1>1, <2>3
    <3>2. i = m + j
      BY <2>0, <3>1
    <3> QED BY <1>1, <3>2
  <2> QED BY <2>1, <2>2, <2>3 DEF ToSet
<1>4. ASSUME NEW x, NEW y, Precedes(rest, x, y)
      PROVE  Precedes(s, x, y)
  <2>1. PICK i, j \in DOMAIN rest : i < j /\ rest[i] = x /\ rest[j] = y
    BY <1>4 DEF Precedes
  <2>2. m + i \in DOMAIN s /\ m + j \in DOMAIN s /\ m + i < m + j /\ s[m + i] = x /\ s[m + j] = y
    BY <1>1, <2>1
  <2> QED BY <2>2 DEF Precedes
<1>5. ASSUME IsInjective(s), NEW x \in ToSet(rest), NEW y \in ToSet(rest), Precedes(s, x, y)
      PROVE  Precedes(rest, x, y)
  <2>1. PICK i, j \in DOMAIN s : i < j /\ s[i] = x /\ s[j] = y
    BY <1>5 DEF Precedes
  <2>2. PICK k, l \in DOMAIN rest : rest[k] = x /\ rest[l] = y
    BY DEF ToSet
  <2>3. m + k \in DOMAIN s /\ m + l \in DOMAIN s /\ s[m + k] = x /\ s[m + l] = y
    BY <1>1, <2>2
  <2>4. m + k = i /\ m + l = j
    BY <1>5, <2>1, <2>3 DEF IsInjective
  <2>5. k < l
    BY <1>1, <2>1, <2>4
  <2> QED BY <2>2, <2>5 DEF Precedes
<1> QED BY <1>1, <1>2, <1>3, <1>4, <1>5 DEF front, rest, n

-------------------------------------------------------------------------------
(* register, unregister and the loop over the sockets, by what they change. *)

Lists ==
    /\ connections \in [Users -> Seq(Sockets)]
    /\ \A u \in Users : Len(connections[u]) <= Limit /\ IsInjective(connections[u])

\* Of two sockets of user u the first stands before the second in the list.
Older(u, x, y) == Precedes(connections[u], x, y)

\* Registering a new socket keeps it and drops old ones, which the handler
\* gets to close; the others keep their order.
LEMMA RegisterEffect ==
    ASSUME Lists, excess \in [Sockets -> Seq(Sockets)], NEW ws \in Sockets,
           ws \notin Listed(Owner[ws]), Register(ws)
    PROVE  LET u == Owner[ws] IN
           /\ u \in Users
           /\ Lists'
           /\ \A v \in Users \ {u} : connections'[v] = connections[v]
           /\ excess' \in [Sockets -> Seq(Sockets)]
           /\ \A x \in Sockets \ {ws} : excess'[x] = excess[x]
           /\ ToSet(excess'[ws]) \subseteq Listed(u)
           /\ ToSet(connections'[u]) = (Listed(u) \cup {ws}) \ ToSet(excess'[ws])
           /\ locks' = (locks \cup {ws}) \ ToSet(excess'[ws])
           /\ \A x, y \in ToSet(connections'[u]) : Older(u, x, y) => Precedes(connections'[u], x, y)
           /\ \A x \in Listed(u) \cap ToSet(connections'[u]) : Precedes(connections'[u], x, ws)
<1> DEFINE u == Owner[ws]
           s == connections[u]
           all == Append(s, ws)
           over == IF Len(all) > Limit THEN Len(all) - Limit ELSE 0
           old == SubSeq(all, 1, over)
           new == SubSeq(all, over + 1, Len(all))
<1>1. u \in Users /\ Limit \in Nat /\ Limit # 0
  BY ConnectionAssumption
<1>2. /\ connections' = [connections EXCEPT ![u] = new]
      /\ locks' = (locks \cup {ws}) \ ToSet(old)
      /\ excess' = [excess EXCEPT ![ws] = old]
  BY DEF Register
<1>3. s \in Seq(Sockets) /\ Len(s) <= Limit /\ IsInjective(s) /\ Listed(u) = ToSet(s)
  BY <1>1 DEF Lists, Listed
<1> HIDE DEF s, u
<1>4. /\ all \in Seq(Sockets) /\ Len(all) = Len(s) + 1 /\ ToSet(all) = ToSet(s) \cup {ws}
      /\ IsInjective(all)
      /\ \A y \in ToSet(s) : Precedes(all, y, ws)
      /\ \A y, z : Precedes(s, y, z) => Precedes(all, y, z)
  BY <1>3, AppendList DEF u
<1> HIDE DEF all
<1>5. over \in 0 .. Len(all) /\ over < Len(all) /\ Len(all) - over <= Limit
  <2>1. Len(s) \in Nat
    BY <1>3
  <2> QED BY <1>1, <1>3, <1>4, <2>1
<1> HIDE DEF over
<1>6. /\ old \in Seq(Sockets) /\ Len(old) = over
      /\ new \in Seq(Sockets) /\ Len(new) = Len(all) - over
      /\ \A i \in 1 .. over : old[i] = all[i]
      /\ \A i \in 1 .. Len(all) - over : new[i] = all[over + i]
      /\ ToSet(all) = ToSet(old) \cup ToSet(new)
      /\ IsInjective(old) /\ IsInjective(new) /\ ToSet(old) \cap ToSet(new) = {}
      /\ \A x, y \in ToSet(new) : Precedes(all, x, y) => Precedes(new, x, y)
  <2>1. all \in Seq(Sockets) /\ over \in 0 .. Len(all) /\ IsInjective(all)
    BY <1>4, <1>5
  <2> QED BY <2>1, CutList
<1>7. ws \in ToSet(new)
  <2>1. \A i \in DOMAIN s : all[i] = s[i] /\ s[i] # ws
    BY <1>3 DEF all, ToSet, u
  <2>2. \A i \in 1 .. over : i \in DOMAIN s /\ old[i] = all[i]
    BY <1>3, <1>4, <1>5, <1>6
  <2>3. DOMAIN old = 1 .. over
    BY <1>5, <1>6
  <2> HIDE DEF old, new
  <2>4. ws \notin ToSet(old)
    BY <2>1, <2>2, <2>3 DEF ToSet
  <2> QED BY <1>4, <1>6, <2>4
<1> HIDE DEF old, new
<1>8. /\ connections'[u] = new /\ excess'[ws] = old
      /\ \A v \in Users \ {u} : connections'[v] = connections[v]
      /\ \A x \in Sockets \ {ws} : excess'[x] = excess[x]
      /\ connections' \in [Users -> Seq(Sockets)]
      /\ excess' \in [Sockets -> Seq(Sockets)]
  BY <1>1, <1>2, <1>6 DEF Lists
<1>9. Lists'
  BY <1>5, <1>6, <1>8 DEF Lists
<1>10. ToSet(old) \subseteq ToSet(s)
  BY <1>4, <1>6, <1>7
<1>11. ToSet(new) = (ToSet(s) \cup {ws}) \ ToSet(old)
  BY <1>4, <1>6
<1>12. \A x, y \in ToSet(new) : Precedes(s, x, y) => Precedes(new, x, y)
  BY <1>4, <1>6
<1>13. \A x \in ToSet(s) \cap ToSet(new) : Precedes(new, x, ws)
  BY <1>4, <1>6, <1>7
<1> QED BY <1>1, <1>2, <1>3, <1>8, <1>9, <1>10, <1>11, <1>12, <1>13 DEF Older, u, s

\* Unregistering keeps the order of the sockets that stay.
LEMMA UnregisterEffect ==
    ASSUME Lists, NEW u \in Users, NEW lost \in SUBSET Sockets, Unregister(u, lost)
    PROVE  /\ Lists'
           /\ \A v \in Users \ {u} : connections'[v] = connections[v]
           /\ ToSet(connections'[u]) = Listed(u) \ lost
           /\ locks' = locks \ lost
           /\ \A x, y \in ToSet(connections'[u]) : Older(u, x, y) => Precedes(connections'[u], x, y)
<1> DEFINE s == connections[u]
           stay == {i \in DOMAIN s : s[i] \notin lost}
<1>0. PICK n \in 0 .. Len(s) : \E place \in Surjection(1 .. n, stay) :
          /\ \A i, j \in 1 .. n : i < j => place[i] < place[j]
          /\ connections' = [connections EXCEPT ![u] = [i \in 1 .. n |-> s[place[i]]]]
  BY DEF Unregister
<1>1. PICK place \in Surjection(1 .. n, stay) :
          /\ \A i, j \in 1 .. n : i < j => place[i] < place[j]
          /\ connections' = [connections EXCEPT ![u] = [i \in 1 .. n |-> s[place[i]]]]
  BY <1>0
<1> DEFINE new == [i \in 1 .. n |-> s[place[i]]]
<1>2. s \in Seq(Sockets) /\ Len(s) <= Limit /\ IsInjective(s) /\ Listed(u) = ToSet(s)
      /\ Limit \in Nat
  BY ConnectionAssumption DEF Lists, Listed
<1> HIDE DEF s
<1>3. n \in Nat /\ n <= Limit /\ DOMAIN s = 1 .. Len(s)
  BY <1>1, <1>2
<1>4. /\ place \in [1 .. n -> stay] /\ \A k \in stay : \E i \in 1 .. n : place[i] = k
  BY <1>1 DEF Surjection
<1>5. \A i \in 1 .. n : place[i] \in DOMAIN s /\ s[place[i]] \in Sockets /\ s[place[i]] \notin lost
  BY <1>2, <1>4
<1>6. new \in Seq(Sockets) /\ Len(new) = n /\ DOMAIN new = 1 .. n
      /\ \A i \in 1 .. n : new[i] = s[place[i]]
  BY <1>3, <1>5
<1> HIDE DEF new
<1>7. IsInjective(new)
  <2> SUFFICES ASSUME NEW i \in 1 .. n, NEW j \in 1 .. n, new[i] = new[j]
               PROVE  i = j
    BY <1>6 DEF IsInjective
  <2>1. place[i] = place[j]
    BY <1>2, <1>5, <1>6 DEF IsInjective
  <2>2. place[i] \in Int
    BY <1>3, <1>5
  <2>3. ~(place[i] < place[j]) /\ ~(place[j] < place[i])
    BY <2>1, <2>2
  <2>4. ~(i < j) /\ ~(j < i)
    BY <1>1, <2>3
  <2> QED BY <2>4
<1>8. ToSet(new) = ToSet(s) \ lost
  <2>1. \A x \in ToSet(new) : x \in ToSet(s) \ lost
    BY <1>5, <1>6 DEF ToSet
  <2>2. ASSUME NEW x \in ToSet(s) \ lost
        PROVE  x \in ToSet(new)
    <3>1. PICK k \in DOMAIN s : s[k] = x
      BY DEF ToSet
    <3>2. k \in stay
      BY <3>1
    <3>3. PICK i \in 1 .. n : place[i] = k
      BY <1>4, <3>2
    <3> QED BY <1>6, <3>1, <3>3 DEF ToSet
  <2> QED BY <2>1, <2>2
<1>9. ASSUME NEW x \in ToSet(new), NEW y \in ToSet(new), Precedes(s, x, y)
      PROVE  Precedes(new, x, y)
  <2>1. PICK k, l \in DOMAIN s : k < l /\ s[k] = x /\ s[l] = y
    BY <1>9 DEF Precedes
  <2>2. PICK i, j \in 1 .. n : new[i] = x /\ new[j] = y
    BY <1>6 DEF ToSet
  <2>3. place[i] = k /\ place[j] = l
    BY <1>2, <1>5, <1>6, <2>1, <2>2 DEF IsInjective
  <2>4. ~(j < i) /\ i # j
    <3>1. k \in Int /\ l \in Int
      BY <1>3
    <3> QED BY <1>1, <2>1, <2>3, <3>1
  <2>5. i < j
    BY <2>4
  <2> QED BY <1>6, <2>2, <2>5 DEF Precedes
<1>10. /\ connections'[u] = new
       /\ \A v \in Users \ {u} : connections'[v] = connections[v]
       /\ connections' \in [Users -> Seq(Sockets)]
  BY <1>1, <1>6 DEF Lists, new
<1>11. Lists'
  <2>1. ASSUME NEW v \in Users
        PROVE  Len(connections'[v]) <= Limit /\ IsInjective(connections'[v])
    <3>1. CASE v = u
      BY <1>3, <1>6, <1>7, <1>10, <3>1
    <3>2. CASE v # u
      BY <1>10, <3>2 DEF Lists
    <3> QED BY <3>1, <3>2
  <2> QED BY <1>10, <2>1 DEF Lists
<1>12. locks' = locks \ lost
  BY DEF Unregister
<1> QED BY <1>2, <1>8, <1>9, <1>10, <1>11, <1>12 DEF Older, s

-------------------------------------------------------------------------------
(* Locks. *)

Waiting(t) == step[t] \in {"wait", "send"}

\* The queue of a lock, seen without task t: those in it wait for this lock,
\* each once, all who wait for a lock stand in its queue, and the one that
\* sends stands first.
QueueOfOthers(t, q) ==
    /\ q \in [Sockets -> Seq(Tasks)]
    /\ \A ws \in Sockets : IsInjective(q[ws])
    /\ \A ws \in Sockets : \A x \in ToSet(q[ws]) : x # t /\ Waiting(x) /\ todo[x][1] = ws
    /\ \A x \in Tasks : x # t /\ Waiting(x) => x \in ToSet(q[todo[x][1]])
    /\ \A x \in Tasks : x # t /\ step[x] = "send" => q[todo[x][1]][1] = x

Queues ==
    /\ queue \in [Sockets -> Seq(Tasks)]
    /\ \A ws \in Sockets : IsInjective(queue[ws])
    /\ \A ws \in Sockets : \A x \in ToSet(queue[ws]) : Waiting(x) /\ todo[x][1] = ws
    /\ \A x \in Tasks : Waiting(x) => x \in ToSet(queue[todo[x][1]])
    /\ \A x \in Tasks : step[x] = "send" => queue[todo[x][1]][1] = x

Progress ==
    /\ step \in [Tasks -> Steps]
    /\ todo \in [Tasks -> Seq(Sockets)]
    /\ \A t \in Tasks : Waiting(t) <=> todo[t] # <<>>

LEMMA HeadOfTodo ==
    ASSUME Progress, NEW t \in Tasks, Waiting(t)
    PROVE  /\ todo[t] \in Seq(Sockets) /\ Len(todo[t]) \in Nat \ {0}
           /\ Head(todo[t]) = todo[t][1] /\ todo[t][1] \in Sockets
           /\ todo[t][1] \in ToSet(todo[t])
<1>1. todo[t] \in Seq(Sockets) /\ todo[t] # <<>>
  BY DEF Progress
<1>2. 1 \in DOMAIN todo[t] /\ Len(todo[t]) \in Nat \ {0} /\ Head(todo[t]) = todo[t][1]
      /\ todo[t][1] \in Sockets
  BY <1>1
<1> QED BY <1>1, <1>2 DEF ToSet

LEMMA StartQueue ==
    ASSUME Queues, NEW t \in Tasks, ~Waiting(t)
    PROVE  QueueOfOthers(t, queue)
BY DEF Queues, QueueOfOthers

LEMMA ReleaseQueue ==
    ASSUME Queues, Progress, NEW t \in Tasks, step[t] = "send"
    PROVE  QueueOfOthers(t, Release(t))
<1> DEFINE ws == todo[t][1]
           s  == queue[ws]
           q  == Release(t)
<1>1. ws \in Sockets /\ Head(todo[t]) = ws
  BY HeadOfTodo DEF Waiting
<1>2. q = [queue EXCEPT ![ws] = Tail(s)]
  BY <1>1 DEF Release
<1>3. s \in Seq(Tasks) /\ IsInjective(s) /\ t \in ToSet(s) /\ s[1] = t
  BY <1>1 DEF Queues, Waiting
<1>4. /\ Len(s) \in Nat \ {0} /\ Tail(s) \in Seq(Tasks) /\ DOMAIN s = 1 .. Len(s)
      /\ DOMAIN Tail(s) = 1 .. Len(s) - 1
      /\ \A i \in 1 .. Len(s) - 1 : Tail(s)[i] = s[i + 1]
  <2>1. s # <<>>
    BY <1>3 DEF ToSet
  <2> QED BY <1>3, <2>1
<1>5. \A i, j \in DOMAIN s : s[i] = s[j] => i = j
  BY <1>3 DEF IsInjective
<1> HIDE DEF q, s
<1>6. IsInjective(Tail(s))
  <2>1. \A i, j \in 1 .. Len(s) - 1 : s[i + 1] = s[j + 1] => i = j
    BY <1>4, <1>5
  <2> QED BY <1>4, <2>1 DEF IsInjective
<1>7. \A x : x \in ToSet(Tail(s)) <=> x \in ToSet(s) /\ x # t
  <2>1. \A i \in DOMAIN Tail(s) : i + 1 \in DOMAIN s /\ Tail(s)[i] = s[i + 1] /\ s[i + 1] # t
    BY <1>3, <1>4, <1>5
  <2>2. \A i \in DOMAIN s : s[i] # t => i - 1 \in DOMAIN Tail(s) /\ Tail(s)[i - 1] = s[i]
    BY <1>3, <1>4
  <2>3. \A x \in ToSet(Tail(s)) : x \in ToSet(s) /\ x # t
    BY <2>1 DEF ToSet
  <2>4. \A x \in ToSet(s) : x # t => x \in ToSet(Tail(s))
    BY <2>2 DEF ToSet
  <2> QED BY <2>3, <2>4
<1>8. /\ q \in [Sockets -> Seq(Tasks)] /\ q[ws] = Tail(s)
      /\ \A v \in Sockets \ {ws} : q[v] = queue[v]
  BY <1>1, <1>2, <1>4 DEF Queues
<1>9. ASSUME NEW v \in Sockets, NEW x \in ToSet(q[v])
      PROVE  x # t /\ Waiting(x) /\ todo[x][1] = v
  <2>1. CASE v = ws
    <3>1. x \in ToSet(queue[ws]) /\ x # t
      BY <1>7, <1>8, <1>9, <2>1 DEF s
    <3> QED BY <1>1, <2>1, <3>1 DEF Queues
  <2>2. CASE v # ws
    BY <1>8, <1>9, <2>2 DEF Queues
  <2> QED BY <2>1, <2>2
<1>10. ASSUME NEW x \in Tasks, x # t, Waiting(x)
       PROVE  x \in ToSet(q[todo[x][1]])
  <2>1. todo[x][1] \in Sockets /\ x \in ToSet(queue[todo[x][1]])
    BY <1>10, HeadOfTodo DEF Queues
  <2> QED BY <1>7, <1>8, <1>10, <2>1 DEF s
<1>11. ASSUME NEW x \in Tasks, x # t, step[x] = "send"
       PROVE  q[todo[x][1]][1] = x
  <2>1. todo[x][1] \in Sockets /\ queue[todo[x][1]][1] = x
    BY <1>11, HeadOfTodo DEF Queues, Waiting
  <2>2. todo[x][1] # ws
    BY <1>3, <1>11, <2>1 DEF s
  <2> QED BY <1>8, <2>1, <2>2
<1>12. \A v \in Sockets : IsInjective(q[v])
  BY <1>6, <1>8 DEF Queues
<1> QED BY <1>8, <1>9, <1>10, <1>11, <1>12 DEF QueueOfOthers, q

\* The task goes on to the first socket of rest that has a lock, or finishes.
LEMMA ServeEffect ==
    ASSUME Progress, NEW t \in Tasks, NEW rest \in Seq(Sockets), NEW q, NEW lost, Serve(t, rest, q, lost)
    PROVE  /\ Progress'
           /\ todo'[t] \in Seq(Sockets)
           /\ ToSet(todo'[t]) \subseteq ToSet(rest)
           /\ \A x \in ToSet(rest) : x \in locks => x \in ToSet(todo'[t])
           /\ IsInjective(rest) => IsInjective(todo'[t])
           /\ \A x, y : Precedes(todo'[t], x, y) => Precedes(rest, x, y)
           /\ \A x \in Tasks \ {t} : todo'[x] = todo[x] /\ step'[x] = step[x]
           /\ \/ /\ todo'[t] # <<>> /\ todo'[t][1] \in Sockets
                 /\ queue' = [q EXCEPT ![todo'[t][1]] = Append(@, t)]
                 /\ step'[t] = IF q[todo'[t][1]] = <<>> THEN "send" ELSE "wait"
                 /\ UNCHANGED registry
              \/ /\ todo'[t] = <<>>
                 /\ queue' = q
                 /\ step'[t] = "done"
                 /\ Unregister(t[2], lost)
<1>1. CASE GoOn(t, rest, q)
  <2>1. PICK i \in DOMAIN rest :
            /\ rest[i] \in locks
            /\ \A j \in 1 .. i - 1 : rest[j] \notin locks
            /\ todo' = [todo EXCEPT ![t] = SubSeq(rest, i, Len(rest))]
            /\ queue' = [q EXCEPT ![rest[i]] = Append(@, t)]
            /\ step' = [step EXCEPT ![t] = IF q[rest[i]] = <<>> THEN "send" ELSE "wait"]
            /\ UNCHANGED registry
    BY <1>1 DEF GoOn
  <2> DEFINE m == i - 1
             front == SubSeq(rest, 1, m)
             new == SubSeq(rest, m + 1, Len(rest))
  <2>2. i \in 1 .. Len(rest) /\ Len(rest) \in Nat /\ m \in 0 .. Len(rest) /\ m + 1 = i
    OBVIOUS
  <2> HIDE DEF m
  <2>3. /\ front \in Seq(Sockets) /\ Len(front) = m
        /\ new \in Seq(Sockets) /\ Len(new) = Len(rest) - m
        /\ \A k \in 1 .. m : front[k] = rest[k]
        /\ \A k \in 1 .. Len(rest) - m : new[k] = rest[m + k]
        /\ ToSet(rest) = ToSet(front) \cup ToSet(new)
        /\ IsInjective(rest) => IsInjective(new)
        /\ \A x, y : Precedes(new, x, y) => Precedes(rest, x, y)
    BY <2>2, CutList
  <2>10. new = SubSeq(rest, i, Len(rest))
    BY <2>2
  <2> HIDE DEF front, new
  <2>4. new # <<>> /\ new[1] = rest[i] /\ new[1] \in Sockets
    BY <2>2, <2>3
  <2>5. \A x \in ToSet(front) : x \notin locks
    <3>1. DOMAIN front = 1 .. m /\ m = i - 1
      BY <2>2, <2>3
    <3> QED BY <2>1, <2>3, <3>1 DEF ToSet
  <2>6. /\ todo'[t] = new /\ \A x \in Tasks \ {t} : todo'[x] = todo[x]
        /\ todo' \in [Tasks -> Seq(Sockets)]
    BY <2>1, <2>3, <2>10 DEF Progress
  <2>7. /\ step' \in [Tasks -> Steps]
        /\ step'[t] = (IF q[rest[i]] = <<>> THEN "send" ELSE "wait")
        /\ \A x \in Tasks \ {t} : step'[x] = step[x]
    BY <2>1 DEF Progress, Steps
  <2>8. Progress'
    BY <2>4, <2>6, <2>7 DEF Progress, Waiting
  <2>9. /\ ToSet(todo'[t]) \subseteq ToSet(rest)
        /\ \A x \in ToSet(rest) : x \in locks => x \in ToSet(todo'[t])
    BY <2>3, <2>5, <2>6
  <2> QED BY <2>1, <2>3, <2>4, <2>6, <2>7, <2>8, <2>9
<1>2. CASE Finish(t, rest, q, lost)
  <2>1. /\ \A i \in DOMAIN rest : rest[i] \notin locks
        /\ todo' = [todo EXCEPT ![t] = <<>>] /\ step' = [step EXCEPT ![t] = "done"]
        /\ queue' = q /\ Unregister(t[2], lost)
    BY <1>2 DEF Finish
  <2>2. <<>> \in Seq(Sockets) /\ DOMAIN <<>> = {}
    OBVIOUS
  <2>3. todo'[t] = <<>> /\ todo' \in [Tasks -> Seq(Sockets)]
        /\ \A x \in Tasks \ {t} : todo'[x] = todo[x]
    BY <2>1, <2>2 DEF Progress
  <2>4. step'[t] = "done" /\ step' \in [Tasks -> Steps]
        /\ \A x \in Tasks \ {t} : step'[x] = step[x]
    BY <2>1 DEF Progress, Steps
  <2>5. Progress'
    BY <2>3, <2>4 DEF Progress, Waiting
  <2>6. ToSet(todo'[t]) = {} /\ IsInjective(todo'[t]) /\ \A x, y : ~Precedes(todo'[t], x, y)
    BY <2>2, <2>3 DEF ToSet, IsInjective, Precedes
  <2>7. \A x \in ToSet(rest) : x \notin locks
    BY <2>1 DEF ToSet
  <2> QED BY <2>1, <2>2, <2>3, <2>4, <2>5, <2>6, <2>7
<1> QED BY <1>1, <1>2 DEF Serve

\* The queues are right again when the task has moved on.
LEMMA ServeQueues ==
    ASSUME Progress, NEW t \in Tasks, NEW rest \in Seq(Sockets), NEW q, NEW lost, Serve(t, rest, q, lost),
           QueueOfOthers(t, q)
    PROVE  Queues'
<1>1. /\ Progress'
      /\ \A x \in Tasks \ {t} : todo'[x] = todo[x] /\ step'[x] = step[x]
  BY ServeEffect
<1>2. \A x \in Tasks \ {t} : (Waiting(x)' <=> Waiting(x))
  BY <1>1 DEF Waiting
<1>3. \A ws \in Sockets : \A x \in ToSet(q[ws]) : x \in Tasks
  <2>1. \A ws \in Sockets : q[ws] \in Seq(Tasks)
    BY DEF QueueOfOthers
  <2> QED BY <2>1 DEF ToSet
<1>4. CASE todo'[t] = <<>> /\ queue' = q /\ step'[t] = "done"
  <2>1. ~Waiting(t)' /\ step'[t] # "send"
    BY <1>4 DEF Waiting
  <2>2. \A ws \in Sockets : \A x \in ToSet(q[ws]) : Waiting(x)' /\ todo'[x][1] = ws
    BY <1>1, <1>2, <1>3 DEF QueueOfOthers
  <2>3. \A x \in Tasks : Waiting(x)' => x \in ToSet(q[todo'[x][1]])
    BY <1>1, <1>2, <2>1 DEF QueueOfOthers
  <2>4. \A x \in Tasks : step'[x] = "send" => q[todo'[x][1]][1] = x
    BY <1>1, <2>1 DEF QueueOfOthers
  <2> QED BY <1>4, <2>2, <2>3, <2>4 DEF QueueOfOthers, Queues
<1>5. CASE /\ todo'[t] # <<>> /\ todo'[t][1] \in Sockets
           /\ queue' = [q EXCEPT ![todo'[t][1]] = Append(@, t)]
           /\ step'[t] = IF q[todo'[t][1]] = <<>> THEN "send" ELSE "wait"
  <2> DEFINE ws == todo'[t][1]
             s == q[ws]
  <2>1. s \in Seq(Tasks) /\ ws \in Sockets /\ t \notin ToSet(s) /\ IsInjective(s)
    BY <1>5 DEF QueueOfOthers
  <2>2. /\ queue'[ws] = Append(s, t) /\ \A v \in Sockets \ {ws} : queue'[v] = q[v]
        /\ queue' \in [Sockets -> Seq(Tasks)]
    BY <1>5 DEF QueueOfOthers
  <2> HIDE DEF s, ws
  <2>3. /\ ToSet(Append(s, t)) = ToSet(s) \cup {t} /\ IsInjective(Append(s, t))
    BY <2>1, AppendList
  <2>4. /\ s = <<>> => Append(s, t)[1] = t
        /\ s # <<>> => Append(s, t)[1] = s[1]
    BY <2>1
  <2>5. Waiting(t)'
    BY <1>5 DEF Waiting
  <2>6. \A v \in Sockets : IsInjective(queue'[v])
    BY <2>2, <2>3 DEF QueueOfOthers
  <2>7. ASSUME NEW v \in Sockets, NEW x \in ToSet(queue'[v])
        PROVE  Waiting(x)' /\ todo'[x][1] = v
    <3>1. CASE x = t
      <4>1. v # ws => FALSE
        BY <2>2, <2>7, <3>1 DEF QueueOfOthers
      <4> QED BY <2>5, <3>1, <4>1 DEF ws
    <3>2. CASE x # t
      <4>1. x \in ToSet(q[v])
        BY <2>2, <2>3, <2>7, <3>2 DEF s
      <4>2. x \in Tasks \ {t} /\ Waiting(x) /\ todo[x][1] = v
        BY <1>3, <3>2, <4>1 DEF QueueOfOthers
      <4> QED BY <1>1, <1>2, <4>2
    <3> QED BY <3>1, <3>2
  <2>8. ASSUME NEW x \in Tasks, Waiting(x)'
        PROVE  x \in ToSet(queue'[todo'[x][1]])
    <3>1. CASE x = t
      BY <2>2, <2>3, <3>1 DEF ws
    <3>2. CASE x # t
      <4>1. Waiting(x) /\ todo'[x] = todo[x] /\ x \in ToSet(q[todo[x][1]])
        BY <1>1, <1>2, <2>8, <3>2 DEF QueueOfOthers
      <4>2. todo[x][1] \in Sockets
        BY <4>1, HeadOfTodo
      <4> QED BY <2>2, <2>3, <4>1, <4>2 DEF s
    <3> QED BY <3>1, <3>2
  <2>9. ASSUME NEW x \in Tasks, step'[x] = "send"
        PROVE  queue'[todo'[x][1]][1] = x
    <3>1. CASE x = t
      <4>1. s = <<>>
        BY <1>5, <2>9, <3>1 DEF s, ws
      <4> QED BY <2>2, <2>4, <3>1, <4>1 DEF ws
    <3>2. CASE x # t
      <4>1. /\ step[x] = "send" /\ todo'[x] = todo[x] /\ Waiting(x)
            /\ q[todo[x][1]][1] = x /\ x \in ToSet(q[todo[x][1]])
        BY <1>1, <2>9, <3>2 DEF QueueOfOthers, Waiting
      <4>2. todo[x][1] \in Sockets
        BY <4>1, HeadOfTodo
      <4>3. q[todo[x][1]] # <<>>
        BY <4>1 DEF ToSet
      <4> QED BY <2>2, <2>4, <4>1, <4>2, <4>3 DEF s
    <3> QED BY <3>1, <3>2
  <2> QED BY <2>2, <2>6, <2>7, <2>8, <2>9 DEF Queues
<1> QED BY <1>4, <1>5, ServeEffect

-------------------------------------------------------------------------------
(* The registry. *)

\* What a handler's position says of its socket.
EndpointOK(ws) ==
    /\ excess[ws] # <<>> <=> handler[ws] = "evict"
    /\ \A x \in ToSet(excess[ws]) : Registered(x)
    /\ ~Registered(ws) => link[ws] = "none"
    /\ handler[ws] \in {"leaving", "ended"} => link[ws] = "closed"

\* What a task serves, and has failed to serve, are sockets of its user.
TaskOK(t) ==
    /\ step[t] = "none" <=> t[1] \notin ToSet(started)
    /\ IsInjective(todo[t])
    /\ \A x \in ToSet(todo[t]) : Owner[x] = t[2] /\ Registered(x)
    /\ \A x \in dead[t] : Owner[x] = t[2] /\ Registered(x) /\ link[x] = "closed"

BInv ==
    /\ TypeOK
    /\ RegistryConsistent
    /\ OpenIsListed
    /\ Queues
    /\ Progress
    /\ \A ws \in Sockets : EndpointOK(ws)
    /\ \A t \in Tasks : TaskOK(t)

LEMMA ListsHold ==
    ASSUME TypeOK, RegistryConsistent
    PROVE  Lists
BY DEF TypeOK, RegistryConsistent, Lists

LEMMA TaskTyped ==
    ASSUME NEW t \in Tasks
    PROVE  t[1] \in Events /\ t[2] \in Users
BY DEF Tasks

LEMMA ListedTyped ==
    ASSUME Lists, NEW u \in Users
    PROVE  Listed(u) \subseteq Sockets
<1>1. connections[u] \in Seq(Sockets)
  BY DEF Lists
<1> QED BY <1>1 DEF Listed, ToSet

LEMMA ExcessTyped ==
    ASSUME TypeOK, NEW ws \in Sockets
    PROVE  ToSet(excess[ws]) \subseteq Sockets
<1>1. excess[ws] \in Seq(Sockets)
  BY DEF TypeOK
<1> QED BY <1>1 DEF ToSet

\* A list that is left alone stays consistent while its handlers serve.
LEMMA RegistryKept ==
    ASSUME Lists, RegistryConsistent, UNCHANGED registry,
           \A x \in Sockets : Serving(x) => Serving(x)'
    PROVE  Lists' /\ RegistryConsistent' /\ \A u \in Users : Listed(u)' = Listed(u)
<1>1. connections' = connections /\ locks' = locks
  BY DEF registry
<1>2. \A u \in Users : Listed(u)' = Listed(u)
  BY <1>1 DEF Listed
<1>3. ASSUME NEW u \in Users, NEW x \in Listed(u)
      PROVE  Owner[x] = u /\ Serving(x)'
  BY ListedTyped, <1>3 DEF RegistryConsistent
<1>4. RegistryConsistent'
  <2>1. \A u \in Users : IsInjective(connections'[u])
    BY <1>1 DEF RegistryConsistent
  <2>2. locks' = UNION {Listed(u)' : u \in Users}
    BY <1>1, <1>2 DEF RegistryConsistent
  <2> QED BY <1>2, <1>3, <2>1, <2>2 DEF RegistryConsistent
<1>5. Lists'
  BY <1>1 DEF Lists
<1> QED BY <1>2, <1>4, <1>5

\* Removing sockets of one user, whoever does it.
LEMMA RegistryUnregister ==
    ASSUME Lists, RegistryConsistent, NEW u \in Users, NEW lost \in SUBSET Sockets,
           Unregister(u, lost), \A x \in lost : Owner[x] = u,
           \A x \in Sockets \ lost : Serving(x) => Serving(x)'
    PROVE  Lists' /\ RegistryConsistent' /\ \A v \in Users : Listed(v)' = Listed(v) \ lost
<1>1. /\ Lists'
      /\ \A v \in Users \ {u} : connections'[v] = connections[v]
      /\ ToSet(connections'[u]) = Listed(u) \ lost
      /\ locks' = locks \ lost
  BY UnregisterEffect
<1>2. ASSUME NEW v \in Users
      PROVE  Listed(v)' = Listed(v) \ lost
  <2>1. CASE v = u
    BY <1>1, <2>1 DEF Listed
  <2>2. CASE v # u
    <3>1. Listed(v)' = Listed(v)
      BY <1>1, <2>2 DEF Listed
    <3>2. \A x \in Listed(v) : x \notin lost
      BY <2>2 DEF RegistryConsistent
    <3> QED BY <3>1, <3>2
  <2> QED BY <2>1, <2>2
<1>3. ASSUME NEW v \in Users, NEW x \in Listed(v), x \notin lost
      PROVE  Owner[x] = v /\ Serving(x)'
  BY ListedTyped, <1>3 DEF RegistryConsistent
<1>4. locks' = UNION {Listed(v)' : v \in Users}
  <2>1. locks = UNION {Listed(v) : v \in Users}
    BY DEF RegistryConsistent
  <2> QED BY <1>1, <1>2, <2>1
<1>5. \A v \in Users : IsInjective(connections'[v])
  BY <1>1 DEF Lists
<1>6. RegistryConsistent'
  BY <1>2, <1>3, <1>4, <1>5 DEF RegistryConsistent
<1> QED BY <1>1, <1>2, <1>6

\* An open socket stays listed, or some handler's to close, when only closed
\* sockets leave the lists.
LEMMA OpenKept ==
    ASSUME OpenIsListed, excess' = excess,
           \A ws \in Sockets : Registered(ws)' /\ link'[ws] = "open" =>
              /\ Registered(ws) /\ link[ws] = "open"
              /\ ws \in Listed(Owner[ws]) => ws \in Listed(Owner[ws])'
    PROVE  OpenIsListed'
BY DEF OpenIsListed

-------------------------------------------------------------------------------
(* Base invariant: a task moves on. *)

LEMMA ServeKeepsBase ==
    ASSUME BInv, NEW t \in Tasks, NEW rest \in Seq(Sockets), NEW q, NEW lost \in SUBSET Sockets,
           Serve(t, rest, q, lost), QueueOfOthers(t, q),
           IsInjective(rest), \A x \in ToSet(rest) : Owner[x] = t[2] /\ Registered(x),
           \A x \in lost : Owner[x] = t[2] /\ Registered(x) /\ link[x] = "closed",
           step[t] # "none", UNCHANGED <<endpoint, link, started>>
    PROVE  /\ RegistryConsistent' /\ OpenIsListed' /\ Queues' /\ Progress' /\ Lists'
           /\ \A ws \in Sockets : EndpointOK(ws)'
           /\ \A x \in Tasks : TaskOK(x)'
           /\ locks' \subseteq Sockets /\ dead' \in [Tasks -> SUBSET Sockets]
           /\ \A u \in Users : Listed(u) \ lost \subseteq Listed(u)'
<1> TypeOK /\ RegistryConsistent /\ OpenIsListed /\ Queues /\ Progress /\ Lists
  BY ListsHold DEF BInv
<1>1. Queues' /\ Progress'
  BY ServeQueues, ServeEffect
<1>2. handler' = handler /\ excess' = excess /\ link' = link /\ started' = started
  BY DEF endpoint
<1>3. \A x : Serving(x)' = Serving(x) /\ Registered(x)' = Registered(x)
  BY <1>2 DEF Serving, Registered
<1>4. t[2] \in Users
  BY TaskTyped
<1>5. /\ Lists' /\ RegistryConsistent' /\ locks' \subseteq locks
      /\ \A u \in Users : Listed(u) \ lost \subseteq Listed(u)'
  <2>1. CASE UNCHANGED registry
    BY <1>3, <2>1, RegistryKept DEF registry
  <2>2. CASE Unregister(t[2], lost)
    <3>1. Lists' /\ RegistryConsistent' /\ \A u \in Users : Listed(u)' = Listed(u) \ lost
      BY <1>3, <1>4, <2>2, RegistryUnregister
    <3>2. locks' = locks \ lost
      BY <2>2 DEF Unregister
    <3> QED BY <3>1, <3>2
  <2> QED BY <2>1, <2>2, ServeEffect
<1>6. OpenIsListed'
  <2>1. \A ws \in Sockets : Owner[ws] \in Users
    BY ConnectionAssumption
  <2>2. \A ws \in Sockets : link[ws] = "open" => ws \notin lost
    OBVIOUS
  <2>3. \A ws \in Sockets : link[ws] = "open" /\ ws \in Listed(Owner[ws]) => ws \in Listed(Owner[ws])'
    BY <1>5, <2>1, <2>2
  <2> QED BY <1>2, <1>3, <2>3, OpenKept
<1>7. ASSUME NEW ws \in Sockets
      PROVE  EndpointOK(ws)'
  <2>1. EndpointOK(ws)
    BY DEF BInv
  <2> QED BY <1>2, <1>3, <2>1 DEF EndpointOK
<1>8. dead' = [dead EXCEPT ![t] = lost] /\ dead' \in [Tasks -> SUBSET Sockets]
  BY DEF Serve, TypeOK
<1>9. ASSUME NEW x \in Tasks
      PROVE  TaskOK(x)'
  <2>0. TaskOK(x)
    BY DEF BInv
  <2>1. CASE x = t
    <3>1. /\ ToSet(todo'[t]) \subseteq ToSet(rest) /\ IsInjective(todo'[t]) /\ step'[t] # "none"
      BY ServeEffect
    <3>2. dead'[t] = lost
      BY <1>8 DEF TypeOK
    <3> QED BY <1>2, <1>3, <2>0, <2>1, <3>1, <3>2 DEF TaskOK
  <2>2. CASE x # t
    <3>1. todo'[x] = todo[x] /\ step'[x] = step[x]
      BY <2>2, ServeEffect
    <3>2. dead'[x] = dead[x]
      BY <1>8, <2>2 DEF TypeOK
    <3> QED BY <1>2, <1>3, <2>0, <2>2, <3>1, <3>2 DEF TaskOK
  <2> QED BY <2>1, <2>2
<1>10. locks' \subseteq Sockets
  BY <1>5 DEF TypeOK
<1> QED BY <1>1, <1>5, <1>6, <1>7, <1>8, <1>9, <1>10

LEMMA StartBase ==
    ASSUME BInv, NEW t \in Tasks, Start(t)
    PROVE  BInv'
<1> TypeOK /\ RegistryConsistent /\ Queues /\ Progress /\ Lists
  BY ListsHold DEF BInv
<1> DEFINE rest == connections[t[2]]
<1>1. /\ step[t] = "ready" /\ Serve(t, rest, queue, {})
      /\ snap' = [snap EXCEPT ![t] = Listed(t[2])]
      /\ UNCHANGED <<endpoint, link, started, received>>
  BY DEF Start
<1>2. QueueOfOthers(t, queue)
  BY <1>1, StartQueue DEF Waiting
<1>3. t[2] \in Users /\ rest \in Seq(Sockets) /\ IsInjective(rest) /\ ToSet(rest) = Listed(t[2])
  BY TaskTyped DEF Lists, Listed
<1>4. \A x \in ToSet(rest) : Owner[x] = t[2] /\ Registered(x)
  BY <1>3 DEF RegistryConsistent, Registered
<1> HIDE DEF rest
<1>5. /\ RegistryConsistent' /\ OpenIsListed' /\ Queues' /\ Progress' /\ Lists'
      /\ \A ws \in Sockets : EndpointOK(ws)'
      /\ \A x \in Tasks : TaskOK(x)'
      /\ locks' \subseteq Sockets /\ dead' \in [Tasks -> SUBSET Sockets]
  BY <1>1, <1>2, <1>3, <1>4, ServeKeepsBase
<1>6. snap' \in [Tasks -> SUBSET Sockets]
  BY <1>1, <1>3, ListedTyped DEF TypeOK
<1>7. TypeOK'
  BY <1>1, <1>5, <1>6 DEF TypeOK, Lists, Queues, Progress, Steps, endpoint
<1> QED BY <1>5, <1>7 DEF BInv

\* The common part of a write that returns and one that raises.
LEMMA WriteBase ==
    ASSUME BInv, NEW t \in Tasks, NEW lost \in SUBSET Sockets, step[t] = "send",
           Serve(t, Tail(todo[t]), Release(t), lost),
           lost = dead[t] \/ (lost = dead[t] \cup {todo[t][1]} /\ link[todo[t][1]] = "closed"),
           UNCHANGED <<endpoint, link, started, snap>>, received' \in [Sockets -> Seq(Events)]
    PROVE  /\ BInv'
           /\ \A u \in Users : Listed(u) \ lost \subseteq Listed(u)'
           /\ \A x \in lost : Owner[x] = t[2] /\ link[x] = "closed"
<1> TypeOK /\ RegistryConsistent /\ Queues /\ Progress /\ TaskOK(t)
  BY DEF BInv
<1> DEFINE rest == Tail(todo[t])
<1>1. QueueOfOthers(t, Release(t))
  BY ReleaseQueue
<1>2. todo[t] \in Seq(Sockets) /\ Len(todo[t]) \in Nat \ {0} /\ todo[t][1] \in ToSet(todo[t])
  BY HeadOfTodo DEF Waiting
<1>3. /\ rest \in Seq(Sockets)
      /\ DOMAIN rest = 1 .. Len(todo[t]) - 1
      /\ \A i \in 1 .. Len(todo[t]) - 1 : i + 1 \in DOMAIN todo[t] /\ rest[i] = todo[t][i + 1]
  BY <1>2
<1> HIDE DEF rest
<1>4. IsInjective(rest)
  <2>1. \A i, j \in DOMAIN rest : rest[i] = rest[j] => i + 1 = j + 1
    <3>1. \A i, j \in DOMAIN todo[t] : todo[t][i] = todo[t][j] => i = j
      BY DEF TaskOK, IsInjective
    <3>2. \A i \in DOMAIN rest : i + 1 \in DOMAIN todo[t] /\ rest[i] = todo[t][i + 1]
      BY <1>3
    <3> QED BY <3>1, <3>2
  <2>2. \A i \in DOMAIN rest : i \in Int
    BY <1>2, <1>3
  <2> QED BY <2>1, <2>2 DEF IsInjective
<1>5. \A x \in ToSet(rest) : x \in ToSet(todo[t])
  BY <1>3 DEF ToSet
<1>6. \A x \in ToSet(rest) : Owner[x] = t[2] /\ Registered(x)
  BY <1>5 DEF TaskOK
<1>7. \A x \in lost : Owner[x] = t[2] /\ Registered(x) /\ link[x] = "closed"
  BY <1>2 DEF TaskOK
<1>8. /\ RegistryConsistent' /\ OpenIsListed' /\ Queues' /\ Progress' /\ Lists'
      /\ \A ws \in Sockets : EndpointOK(ws)'
      /\ \A x \in Tasks : TaskOK(x)'
      /\ locks' \subseteq Sockets /\ dead' \in [Tasks -> SUBSET Sockets]
      /\ \A u \in Users : Listed(u) \ lost \subseteq Listed(u)'
  BY <1>1, <1>3, <1>4, <1>6, <1>7, ServeKeepsBase DEF rest
<1>9. TypeOK'
  BY <1>8 DEF TypeOK, Lists, Queues, Progress, Steps, endpoint
<1> QED BY <1>7, <1>8, <1>9 DEF BInv

LEMMA SendEffect ==
    ASSUME BInv, NEW t \in Tasks, Send(t)
    PROVE  LET ws == todo[t][1] IN
           /\ step[t] = "send" /\ ws \in Sockets /\ dead[t] \in SUBSET Sockets
           /\ \/ link[ws] = "open" /\ received' = [received EXCEPT ![ws] = Append(received[ws], t[1])]
              \/ link[ws] # "open" /\ received' = received
           /\ received' \in [Sockets -> Seq(Events)]
           /\ Serve(t, Tail(todo[t]), Release(t), dead[t])
           /\ UNCHANGED <<endpoint, link, started, snap>>
<1> DEFINE ws == todo[t][1]
<1>1. step[t] = "send" /\ Head(todo[t]) = ws /\ ws \in Sockets
  BY HeadOfTodo DEF BInv, Waiting, Send
<1> HIDE DEF ws
<1>2. \/ link[ws] = "open" /\ received' = [received EXCEPT ![ws] = Append(received[ws], t[1])]
      \/ link[ws] # "open" /\ received' = received
  BY <1>1 DEF Send
<1>3. received' \in [Sockets -> Seq(Events)]
  <2>1. received \in [Sockets -> Seq(Events)] /\ t[1] \in Events
    BY TaskTyped DEF BInv, TypeOK
  <2>2. Append(received[ws], t[1]) \in Seq(Events)
    BY <1>1, <2>1
  <2> QED BY <1>2, <2>1, <2>2
<1> QED BY <1>1, <1>2, <1>3 DEF Send, BInv, TypeOK, ws

LEMMA SendBase ==
    ASSUME BInv, NEW t \in Tasks, Send(t) \/ SendFails(t)
    PROVE  BInv'
<1>1. CASE Send(t)
  BY <1>1, SendEffect, WriteBase
<1>2. CASE SendFails(t)
  <2> DEFINE ws == todo[t][1]
  <2>1. step[t] = "send" /\ Head(todo[t]) = ws /\ ws \in Sockets
    BY <1>2, HeadOfTodo DEF BInv, Waiting, SendFails
  <2>2. /\ link[ws] = "closed" /\ Serve(t, Tail(todo[t]), Release(t), dead[t] \cup {ws})
        /\ UNCHANGED <<endpoint, link, started, received, snap>>
    BY <1>2, <2>1 DEF SendFails
  <2>3. received' \in [Sockets -> Seq(Events)] /\ dead[t] \cup {ws} \in SUBSET Sockets
    BY <2>1, <2>2 DEF BInv, TypeOK
  <2> QED BY <2>1, <2>2, <2>3, WriteBase
<1> QED BY <1>1, <1>2

LEMMA AcquireBase ==
    ASSUME BInv, NEW t \in Tasks, Acquire(t)
    PROVE  BInv'
<1> TypeOK /\ RegistryConsistent /\ OpenIsListed /\ Queues /\ Progress /\ Lists
  BY ListsHold DEF BInv
<1>1. /\ step[t] = "wait" /\ Head(queue[Head(todo[t])]) = t
      /\ step' = [step EXCEPT ![t] = "send"]
      /\ UNCHANGED <<registry, endpoint, link, queue, started, todo, dead, received, snap>>
  BY DEF Acquire
<1>2. /\ step' \in [Tasks -> Steps] /\ step'[t] = "send"
      /\ \A x \in Tasks \ {t} : step'[x] = step[x]
  BY <1>1 DEF Progress, Steps
<1>3. \A x \in Tasks : Waiting(x)' = Waiting(x)
  BY <1>1, <1>2 DEF Waiting
<1>4. queue[todo[t][1]][1] = t
  <2>1. Head(todo[t]) = todo[t][1] /\ todo[t][1] \in Sockets
    BY <1>1, HeadOfTodo DEF Waiting
  <2>2. queue[todo[t][1]] \in Seq(Tasks) /\ queue[todo[t][1]] # <<>>
    BY <1>1, <2>1 DEF Queues, Waiting, ToSet
  <2> QED BY <1>1, <2>1, <2>2
<1>5. Queues'
  <2>1. \A ws \in Sockets : \A x \in ToSet(queue[ws]) : x \in Tasks
    <3>1. \A ws \in Sockets : queue[ws] \in Seq(Tasks)
      BY DEF Queues
    <3> QED BY <3>1 DEF ToSet
  <2>2. \A ws \in Sockets : \A x \in ToSet(queue[ws]) : Waiting(x)' /\ todo[x][1] = ws
    BY <1>3, <2>1 DEF Queues
  <2>3. \A x \in Tasks : Waiting(x)' => x \in ToSet(queue[todo[x][1]])
    BY <1>3 DEF Queues
  <2>4. \A x \in Tasks : step'[x] = "send" => queue[todo[x][1]][1] = x
    BY <1>2, <1>4 DEF Queues
  <2> QED BY <1>1, <2>2, <2>3, <2>4 DEF Queues
<1>6. Progress'
  BY <1>1, <1>2, <1>3 DEF Progress
<1>7. RegistryConsistent' /\ OpenIsListed' /\ \A ws \in Sockets : EndpointOK(ws)'
  <2>1. RegistryConsistent' /\ \A u \in Users : Listed(u)' = Listed(u)
    BY <1>1, RegistryKept DEF endpoint, Serving
  <2>2. \A ws \in Sockets : Owner[ws] \in Users
    BY ConnectionAssumption
  <2>3. OpenIsListed'
    BY <1>1, <2>1, <2>2, OpenKept DEF endpoint, Registered, Serving
  <2>4. \A ws \in Sockets : EndpointOK(ws)'
    BY <1>1 DEF BInv, EndpointOK, endpoint, Registered, Serving
  <2> QED BY <2>1, <2>3, <2>4
<1>8. \A x \in Tasks : TaskOK(x)'
  <2>1. \A x \in Tasks : step'[x] = "none" <=> step[x] = "none"
    BY <1>1, <1>2
  <2> QED BY <1>1, <2>1 DEF BInv, TaskOK, endpoint, Registered, Serving
<1>9. TypeOK'
  BY <1>1, <1>2 DEF TypeOK, Steps, registry, endpoint
<1> QED BY <1>5, <1>6, <1>7, <1>8, <1>9 DEF BInv

LEMMA BroadcastBase ==
    ASSUME BInv, NEW e \in Events, Broadcast(e)
    PROVE  BInv'
<1> TypeOK /\ RegistryConsistent /\ OpenIsListed /\ Queues /\ Progress /\ Lists
  BY ListsHold DEF BInv
<1>1. /\ e \notin ToSet(started) /\ started' = Append(started, e)
      /\ step' = [t \in Tasks |-> IF t[1] = e THEN "ready" ELSE step[t]]
      /\ UNCHANGED <<registry, endpoint, link, queue, todo, dead, received, snap>>
  BY DEF Broadcast
<1>2. started' \in Seq(Events) /\ ToSet(started') = ToSet(started) \cup {e}
  BY <1>1, AppendList DEF TypeOK
<1>3. \A t \in Tasks : t[1] = e => step[t] = "none" /\ step'[t] = "ready"
  BY <1>1 DEF BInv, TaskOK
<1>4. \A t \in Tasks : t[1] # e => step'[t] = step[t]
  BY <1>1
<1>5. step' \in [Tasks -> Steps]
  BY <1>1 DEF Progress, Steps
<1>6. \A x \in Tasks : Waiting(x)' = Waiting(x) /\ (step'[x] = "send" <=> step[x] = "send")
  BY <1>3, <1>4 DEF Waiting
<1>7. Queues'
  <2>1. \A ws \in Sockets : \A x \in ToSet(queue[ws]) : x \in Tasks
    <3>1. \A ws \in Sockets : queue[ws] \in Seq(Tasks)
      BY DEF Queues
    <3> QED BY <3>1 DEF ToSet
  <2>2. \A ws \in Sockets : \A x \in ToSet(queue[ws]) : Waiting(x)' /\ todo[x][1] = ws
    BY <1>6, <2>1 DEF Queues
  <2> QED BY <1>1, <1>6, <2>2 DEF Queues
<1>8. Progress'
  BY <1>1, <1>5, <1>6 DEF Progress
<1>9. RegistryConsistent' /\ OpenIsListed' /\ \A ws \in Sockets : EndpointOK(ws)'
  <2>1. RegistryConsistent' /\ \A u \in Users : Listed(u)' = Listed(u)
    BY <1>1, RegistryKept DEF endpoint, Serving
  <2>2. \A ws \in Sockets : Owner[ws] \in Users
    BY ConnectionAssumption
  <2>3. OpenIsListed'
    BY <1>1, <2>1, <2>2, OpenKept DEF endpoint, Registered, Serving
  <2>4. \A ws \in Sockets : EndpointOK(ws)'
    BY <1>1 DEF BInv, EndpointOK, endpoint, Registered, Serving
  <2> QED BY <2>1, <2>3, <2>4
<1>10. ASSUME NEW t \in Tasks
       PROVE  TaskOK(t)'
  <2>1. TaskOK(t)
    BY DEF BInv
  <2>2. step'[t] = "none" <=> t[1] \notin ToSet(started')
    BY <1>2, <1>3, <1>4, <2>1 DEF TaskOK
  <2> QED BY <1>1, <2>1, <2>2 DEF TaskOK, endpoint, Registered, Serving
<1>11. TypeOK'
  BY <1>1, <1>2, <1>5 DEF TypeOK, Steps, registry, endpoint
<1> QED BY <1>7, <1>8, <1>9, <1>10, <1>11 DEF BInv

-------------------------------------------------------------------------------
(* Base invariant: a handler or a heartbeat moves on. *)

\* Tasks do not notice, while registered sockets stay registered and closed
\* ones closed.
LEMMA TasksKept ==
    ASSUME BInv, UNCHANGED sending,
           \A x \in Sockets : Registered(x) => Registered(x)',
           \A x \in Sockets : Registered(x) /\ link[x] = "closed" => link'[x] = "closed"
    PROVE  Queues' /\ Progress' /\ \A t \in Tasks : TaskOK(t)'
<1>1. /\ queue' = queue /\ started' = started /\ step' = step /\ todo' = todo /\ dead' = dead
  BY DEF sending
<1>2. Queues' /\ Progress'
  BY <1>1 DEF BInv, Queues, Progress, Waiting
<1>3. ASSUME NEW t \in Tasks
      PROVE  TaskOK(t)'
  <2>1. TaskOK(t) /\ ToSet(todo[t]) \subseteq Sockets /\ dead[t] \subseteq Sockets
    <3>1. todo[t] \in Seq(Sockets) /\ dead[t] \subseteq Sockets /\ TaskOK(t)
      BY DEF BInv, TypeOK
    <3> QED BY <3>1 DEF ToSet
  <2> QED BY <1>1, <2>1 DEF TaskOK
<1> QED BY <1>2, <1>3

\* Before its socket is registered a handler changes nothing but its position.
LEMMA ArriveBase ==
    ASSUME BInv, NEW ws \in Sockets,
           Arrive(ws) \/ Reject(ws) \/ Authenticate(ws) \/ AcceptFails(ws)
    PROVE  BInv'
<1> TypeOK /\ RegistryConsistent /\ OpenIsListed /\ Lists
  BY ListsHold DEF BInv
<1>1. /\ handler[ws] \in {"new", "auth", "accept"}
      /\ \E h \in {"auth", "rejected", "accept"} : handler' = [handler EXCEPT ![ws] = h]
      /\ UNCHANGED <<registry, excess, heart, link, sending>>
  BY DEF Arrive, Reject, Authenticate, AcceptFails
<1>2. /\ handler' \in [Sockets -> Handlers] /\ handler'[ws] \in {"auth", "rejected", "accept"}
      /\ \A x \in Sockets \ {ws} : handler'[x] = handler[x]
  BY <1>1 DEF TypeOK, Handlers
<1>3. \A x \in Sockets : Serving(x)' = Serving(x) /\ Registered(x)' = Registered(x)
  BY <1>1, <1>2 DEF Serving, Registered
<1>4. RegistryConsistent' /\ \A u \in Users : Listed(u)' = Listed(u)
  BY <1>1, <1>3, RegistryKept
<1>5. OpenIsListed'
  <2>1. \A x \in Sockets : Owner[x] \in Users
    BY ConnectionAssumption
  <2> QED BY <1>1, <1>3, <1>4, <2>1, OpenKept
<1>6. ASSUME NEW x \in Sockets
      PROVE  EndpointOK(x)'
  <2>1. EndpointOK(x)
    BY DEF BInv
  <2>2. \A y \in ToSet(excess[x]) : Registered(y)'
    BY <1>3, <2>1, ExcessTyped DEF EndpointOK
  <2> QED BY <1>1, <1>2, <1>3, <2>1, <2>2 DEF EndpointOK
<1>7. Queues' /\ Progress' /\ \A t \in Tasks : TaskOK(t)'
  BY <1>1, <1>3, TasksKept
<1>8. TypeOK'
  BY <1>1, <1>2 DEF TypeOK, Handlers, registry, sending
<1> QED BY <1>4, <1>5, <1>6, <1>7, <1>8 DEF BInv

LEMMA AcceptBase ==
    ASSUME BInv, NEW ws \in Sockets, Accept(ws)
    PROVE  BInv'
<1> TypeOK /\ RegistryConsistent /\ OpenIsListed /\ Lists
  BY ListsHold DEF BInv
<1> DEFINE u == Owner[ws]
           old == ToSet(excess'[ws])
<1>1. /\ handler[ws] = "accept" /\ Register(ws) /\ link' = [link EXCEPT ![ws] = "open"]
      /\ UNCHANGED sending
      /\ \/ /\ excess'[ws] = <<>> /\ handler' = [handler EXCEPT ![ws] = "receive"]
            /\ heart' = [heart EXCEPT ![ws] = "sleep"]
         \/ /\ excess'[ws] # <<>> /\ handler' = [handler EXCEPT ![ws] = "evict"]
            /\ heart' = heart
  BY DEF Accept, Receive
<1>2. /\ handler' \in [Sockets -> Handlers] /\ heart' \in [Sockets -> Hearts]
      /\ handler'[ws] \in {"receive", "evict"}
      /\ excess'[ws] # <<>> <=> handler'[ws] = "evict"
      /\ \A x \in Sockets \ {ws} : handler'[x] = handler[x]
  <2>1. CASE /\ excess'[ws] = <<>> /\ handler' = [handler EXCEPT ![ws] = "receive"]
             /\ heart' = [heart EXCEPT ![ws] = "sleep"]
    BY <2>1 DEF TypeOK, Handlers, Hearts
  <2>2. CASE /\ excess'[ws] # <<>> /\ handler' = [handler EXCEPT ![ws] = "evict"]
             /\ heart' = heart
    BY <2>2 DEF TypeOK, Handlers, Hearts
  <2> QED BY <1>1, <2>1, <2>2
<1>3. /\ link' \in [Sockets -> {"none", "open", "closed"}] /\ link'[ws] = "open"
      /\ \A x \in Sockets \ {ws} : link'[x] = link[x]
  BY <1>1 DEF TypeOK
<1>4. ~Serving(ws) /\ ~Registered(ws) /\ u \in Users
  BY <1>1, ConnectionAssumption DEF Serving, Registered
<1>5. \A v \in Users : ws \notin Listed(v)
  BY <1>4 DEF RegistryConsistent
<1>6. /\ Lists'
      /\ \A v \in Users \ {u} : connections'[v] = connections[v]
      /\ excess' \in [Sockets -> Seq(Sockets)]
      /\ \A x \in Sockets \ {ws} : excess'[x] = excess[x]
      /\ old \subseteq Listed(u)
      /\ ToSet(connections'[u]) = (Listed(u) \cup {ws}) \ old
      /\ locks' = (locks \cup {ws}) \ old
  BY <1>1, <1>4, <1>5, RegisterEffect DEF TypeOK
<1> HIDE DEF u, old
<1>7. /\ Serving(ws)' /\ Registered(ws)'
      /\ \A x \in Sockets \ {ws} : Serving(x)' = Serving(x) /\ Registered(x)' = Registered(x)
  BY <1>2 DEF Serving, Registered
<1>8. /\ Listed(u)' = (Listed(u) \cup {ws}) \ old
      /\ \A v \in Users \ {u} : Listed(v)' = Listed(v)
  BY <1>6 DEF Listed
<1>9. ws \notin old
  BY <1>4, <1>5, <1>6
<1>10. RegistryConsistent'
  <2>1. ASSUME NEW v \in Users, NEW x \in Listed(v)'
        PROVE  Owner[x] = v /\ Serving(x)'
    <3>1. CASE x = ws
      BY <1>5, <1>7, <1>8, <2>1, <3>1 DEF u
    <3>2. CASE x # ws
      <4>1. x \in Listed(v)
        BY <1>8, <2>1, <3>2
      <4>2. x \in Sockets /\ Owner[x] = v /\ Serving(x)
        BY <4>1, ListedTyped DEF RegistryConsistent
      <4> QED BY <1>7, <3>2, <4>2
    <3> QED BY <3>1, <3>2
  <2>2. locks' = UNION {Listed(v)' : v \in Users}
    <3>1. locks = UNION {Listed(v) : v \in Users}
      BY DEF RegistryConsistent
    <3>2. \A v \in Users \ {u} : Listed(v) \cap old = {}
      BY <1>4, <1>6 DEF RegistryConsistent
    <3>3. \A x \in locks' : \E v \in Users : x \in Listed(v)'
      BY <1>4, <1>6, <1>8, <1>9, <3>1
    <3>4. \A v \in Users : \A x \in Listed(v)' : x \in locks'
      BY <1>4, <1>6, <1>8, <3>1, <3>2
    <3> QED BY <3>3, <3>4
  <2>3. \A v \in Users : IsInjective(connections'[v])
    BY <1>6 DEF Lists
  <2> QED BY <2>1, <2>2, <2>3 DEF RegistryConsistent
<1>11. OpenIsListed'
  <2> SUFFICES ASSUME NEW x \in Sockets, Registered(x)', link'[x] = "open"
               PROVE  \/ x \in Listed(Owner[x])'
                      \/ \E new \in Sockets : Owner[new] = Owner[x] /\ x \in ToSet(excess'[new])
    BY DEF OpenIsListed
  <2>1. CASE x = ws
    BY <1>8, <1>9, <2>1 DEF u
  <2>2. CASE x # ws
    <3>1. /\ Registered(x) /\ link[x] = "open" /\ Owner[x] \in Users
      BY <1>3, <1>7, <2>2, ConnectionAssumption
    <3>2. CASE x \in Listed(Owner[x])
      <4>1. CASE x \in old
        <5>1. Owner[x] = u
          BY <1>4, <1>6, <4>1 DEF RegistryConsistent
        <5> QED BY <4>1, <5>1 DEF u, old
      <4>2. CASE x \notin old
        BY <1>8, <3>1, <3>2, <4>2
      <4> QED BY <4>1, <4>2
    <3>3. CASE \E new \in Sockets : Owner[new] = Owner[x] /\ x \in ToSet(excess[new])
      <4>1. PICK new \in Sockets : Owner[new] = Owner[x] /\ x \in ToSet(excess[new])
        BY <3>3
      <4>2. excess[ws] = <<>>
        BY <1>1 DEF BInv, EndpointOK
      <4>3. new # ws
        BY <4>1, <4>2 DEF ToSet
      <4> QED BY <1>6, <4>1, <4>3
    <3> QED BY <3>1, <3>2, <3>3 DEF OpenIsListed
  <2> QED BY <2>1, <2>2
<1>12. \A x \in Sockets : EndpointOK(x)'
  <2>1. EndpointOK(ws)'
    <3>1. \A y \in old : y \in Sockets /\ Registered(y)
      BY <1>4, <1>6, ListedTyped DEF RegistryConsistent, Registered
    <3>2. \A y \in ToSet(excess'[ws]) : Registered(y)'
      BY <1>7, <3>1 DEF old
    <3> QED BY <1>2, <1>3, <1>7, <3>2 DEF EndpointOK
  <2>2. ASSUME NEW x \in Sockets \ {ws}
        PROVE  EndpointOK(x)'
    <3>1. EndpointOK(x)
      BY DEF BInv
    <3>2. \A y \in ToSet(excess[x]) : Registered(y)'
      BY <1>7, <3>1, ExcessTyped DEF EndpointOK
    <3> QED BY <1>2, <1>3, <1>6, <1>7, <3>1, <3>2 DEF EndpointOK
  <2> QED BY <2>1, <2>2
<1>13. Queues' /\ Progress' /\ \A t \in Tasks : TaskOK(t)'
  BY <1>1, <1>3, <1>4, <1>7, TasksKept
<1>14. TypeOK'
  <2>1. locks' \subseteq Sockets
    BY <1>6 DEF TypeOK
  <2> QED BY <1>1, <1>2, <1>3, <1>6, <2>1 DEF TypeOK, Lists, Handlers, Hearts, sending
<1> QED BY <1>10, <1>11, <1>12, <1>13, <1>14 DEF BInv

\* Closing the next socket a handler has evicted.
LEMMA CloseOldBase ==
    ASSUME BInv, NEW ws \in Sockets, CloseOld(ws)
    PROVE  BInv'
<1> TypeOK /\ RegistryConsistent /\ OpenIsListed /\ Lists
  BY ListsHold DEF BInv
<1> DEFINE s == excess[ws]
<1>1. /\ handler[ws] = "evict" /\ link' = [link EXCEPT ![Head(s)] = "closed"]
      /\ excess' = [excess EXCEPT ![ws] = Tail(s)]
      /\ UNCHANGED <<registry, sending>>
      /\ \/ /\ excess'[ws] = <<>> /\ handler' = [handler EXCEPT ![ws] = "receive"]
            /\ heart' = [heart EXCEPT ![ws] = "sleep"]
         \/ excess'[ws] # <<>> /\ handler' = handler /\ heart' = heart
  BY DEF CloseOld, Receive
<1>2. s \in Seq(Sockets) /\ s # <<>>
  BY <1>1 DEF TypeOK, BInv, EndpointOK
<1> HIDE DEF s
<1>3. /\ Head(s) \in Sockets /\ Tail(s) \in Seq(Sockets)
      /\ \A x \in ToSet(s) : x = Head(s) \/ x \in ToSet(Tail(s))
      /\ Head(s) \in ToSet(s) /\ ToSet(Tail(s)) \subseteq ToSet(s)
  <2>1. /\ Len(s) \in Nat \ {0} /\ DOMAIN s = 1 .. Len(s) /\ DOMAIN Tail(s) = 1 .. Len(s) - 1
        /\ Tail(s) \in Seq(Sockets) /\ Head(s) = s[1] /\ s[1] \in Sockets
        /\ \A i \in 1 .. Len(s) - 1 : Tail(s)[i] = s[i + 1]
    BY <1>2
  <2>2. \A i \in DOMAIN s : i # 1 => i - 1 \in DOMAIN Tail(s) /\ Tail(s)[i - 1] = s[i]
    BY <2>1
  <2>3. ASSUME NEW x \in ToSet(s), x # s[1]
        PROVE  x \in ToSet(Tail(s))
    <3>1. PICK i \in DOMAIN s : s[i] = x /\ i # 1
      BY <2>3 DEF ToSet
    <3> QED BY <2>2, <3>1 DEF ToSet
  <2>4. Head(s) \in ToSet(s)
    BY <2>1 DEF ToSet
  <2>5. \A i \in DOMAIN Tail(s) : i + 1 \in DOMAIN s /\ Tail(s)[i] = s[i + 1]
    BY <2>1
  <2>6. ToSet(Tail(s)) \subseteq ToSet(s)
    BY <2>5 DEF ToSet
  <2> QED BY <2>1, <2>3, <2>4, <2>6
<1>4. /\ handler' \in [Sockets -> Handlers] /\ heart' \in [Sockets -> Hearts]
      /\ excess' \in [Sockets -> Seq(Sockets)] /\ excess'[ws] = Tail(s)
      /\ handler'[ws] \in {"receive", "evict"}
      /\ excess'[ws] # <<>> <=> handler'[ws] = "evict"
      /\ \A x \in Sockets \ {ws} : handler'[x] = handler[x] /\ excess'[x] = excess[x]
  <2>1. /\ excess' \in [Sockets -> Seq(Sockets)] /\ excess'[ws] = Tail(s)
        /\ \A x \in Sockets \ {ws} : excess'[x] = excess[x]
    BY <1>1, <1>3 DEF TypeOK
  <2>2. CASE /\ excess'[ws] = <<>> /\ handler' = [handler EXCEPT ![ws] = "receive"]
             /\ heart' = [heart EXCEPT ![ws] = "sleep"]
    BY <2>1, <2>2 DEF TypeOK, Handlers, Hearts
  <2>3. CASE excess'[ws] # <<>> /\ handler' = handler /\ heart' = heart
    BY <1>1, <2>1, <2>3 DEF TypeOK, Handlers, Hearts
  <2> QED BY <1>1, <2>2, <2>3
<1>5. /\ link' \in [Sockets -> {"none", "open", "closed"}] /\ link'[Head(s)] = "closed"
      /\ \A x \in Sockets \ {Head(s)} : link'[x] = link[x]
  BY <1>1, <1>3 DEF TypeOK
<1>6. \A x \in Sockets : Serving(x)' = Serving(x) /\ Registered(x)' = Registered(x)
  BY <1>1, <1>4 DEF Serving, Registered
<1>7. RegistryConsistent' /\ \A u \in Users : Listed(u)' = Listed(u)
  BY <1>1, <1>6, RegistryKept
<1>8. OpenIsListed'
  <2> SUFFICES ASSUME NEW x \in Sockets, Registered(x)', link'[x] = "open"
               PROVE  \/ x \in Listed(Owner[x])'
                      \/ \E new \in Sockets : Owner[new] = Owner[x] /\ x \in ToSet(excess'[new])
    BY DEF OpenIsListed
  <2>1. x # Head(s) /\ link[x] = "open" /\ Registered(x) /\ Owner[x] \in Users
    BY <1>5, <1>6, ConnectionAssumption
  <2>2. CASE \E new \in Sockets : Owner[new] = Owner[x] /\ x \in ToSet(excess[new])
    <3>1. PICK new \in Sockets : Owner[new] = Owner[x] /\ x \in ToSet(excess[new])
      BY <2>2
    <3>2. x \in ToSet(excess'[new])
      BY <1>3, <1>4, <2>1, <3>1 DEF s
    <3> QED BY <3>1, <3>2
  <2> QED BY <1>7, <2>1, <2>2 DEF OpenIsListed
<1>10. Queues' /\ Progress' /\ \A t \in Tasks : TaskOK(t)'
  BY <1>1, <1>5, <1>6, TasksKept
<1>11. TypeOK'
  BY <1>1, <1>4, <1>5 DEF TypeOK, Handlers, Hearts, registry, sending
<1>12. ASSUME NEW x \in Sockets
       PROVE  EndpointOK(x)'
  <2>0. EndpointOK(x) /\ EndpointOK(ws)
    BY DEF BInv
  <2>1. Registered(Head(s)) /\ \A y \in ToSet(s) : y \in Sockets /\ Registered(y)
    BY <1>3, <2>0, ExcessTyped DEF EndpointOK, s
  <2>2. \A y \in ToSet(excess'[x]) : Registered(y)'
    <3>1. CASE x = ws
      BY <1>3, <1>4, <1>6, <2>1, <3>1
    <3>2. CASE x # ws
      BY <1>4, <1>6, <2>0, <3>2, ExcessTyped DEF EndpointOK
    <3> QED BY <3>1, <3>2
  <2>3. ~Registered(x)' => link'[x] = "none"
    BY <1>5, <1>6, <2>0, <2>1 DEF EndpointOK
  <2>4. excess'[x] # <<>> <=> handler'[x] = "evict"
    BY <1>4, <2>0 DEF EndpointOK
  <2>5. handler'[x] \in {"leaving", "ended"} => link'[x] = "closed"
    BY <1>4, <1>5, <2>0 DEF EndpointOK
  <2> QED BY <2>2, <2>3, <2>4, <2>5 DEF EndpointOK
<1> QED BY <1>7, <1>8, <1>10, <1>11, <1>12 DEF BInv

\* A registered handler whose socket is closed leaves and unregisters it.
LEMMA LeaveBase ==
    ASSUME BInv, NEW ws \in Sockets, Leave(ws) \/ End(ws)
    PROVE  BInv'
<1> TypeOK /\ RegistryConsistent /\ OpenIsListed /\ Lists /\ EndpointOK(ws)
  BY ListsHold DEF BInv
<1>1. /\ UNCHANGED <<excess, heart, link, sending>>
      /\ \/ /\ Leave(ws) /\ handler[ws] = "receive" /\ link[ws] = "closed"
            /\ handler' = [handler EXCEPT ![ws] = "leaving"] /\ UNCHANGED registry
         \/ /\ End(ws) /\ handler[ws] = "leaving" /\ Unregister(Owner[ws], {ws})
            /\ handler' = [handler EXCEPT ![ws] = "ended"]
  BY DEF Leave, End
<1>2. /\ handler' \in [Sockets -> Handlers] /\ handler'[ws] \in {"leaving", "ended"}
      /\ \A x \in Sockets \ {ws} : handler'[x] = handler[x]
  BY <1>1 DEF TypeOK, Handlers
<1>3. \A x \in Sockets : Registered(x)' = Registered(x)
  BY <1>1, <1>2 DEF Registered, Serving
<1>4. /\ RegistryConsistent' /\ Lists' /\ locks' \subseteq locks
      /\ \A u \in Users : Listed(u) \ {ws} \subseteq Listed(u)'
  <2>1. CASE Leave(ws)
    <3>1. UNCHANGED registry /\ handler' = [handler EXCEPT ![ws] = "leaving"]
      BY <2>1 DEF Leave
    <3>2. \A x \in Sockets : Serving(x) => Serving(x)'
      BY <3>1, <1>2 DEF Serving, TypeOK
    <3> QED BY <3>1, <3>2, RegistryKept DEF registry
  <2>2. CASE End(ws)
    <3>1. Unregister(Owner[ws], {ws}) /\ Owner[ws] \in Users
      BY <2>2, ConnectionAssumption DEF End
    <3>2. \A x \in Sockets \ {ws} : Serving(x) => Serving(x)'
      BY <1>2 DEF Serving
    <3>3. {ws} \in SUBSET Sockets /\ \A x \in {ws} : Owner[x] = Owner[ws]
      OBVIOUS
    <3>4. RegistryConsistent' /\ Lists' /\ \A v \in Users : Listed(v)' = Listed(v) \ {ws}
      BY <3>1, <3>2, <3>3, RegistryUnregister
    <3>5. locks' = locks \ {ws}
      BY <3>1 DEF Unregister
    <3> QED BY <3>4, <3>5
  <2> QED BY <1>1, <2>1, <2>2
<1>5. link[ws] = "closed"
  BY <1>1 DEF EndpointOK
<1>6. OpenIsListed'
  <2>1. \A x \in Sockets : Owner[x] \in Users
    BY ConnectionAssumption
  <2> QED BY <1>1, <1>3, <1>4, <1>5, <2>1, OpenKept
<1>7. ASSUME NEW x \in Sockets
      PROVE  EndpointOK(x)'
  <2>1. EndpointOK(x)
    BY DEF BInv
  <2>2. \A y \in ToSet(excess[x]) : Registered(y)'
    BY <1>3, <2>1, ExcessTyped DEF EndpointOK
  <2>3. excess[x] # <<>> <=> handler'[x] = "evict"
    BY <1>1, <1>2, <2>1 DEF EndpointOK
  <2> QED BY <1>1, <1>2, <1>3, <1>5, <2>1, <2>2, <2>3 DEF EndpointOK
<1>8. Queues' /\ Progress' /\ \A t \in Tasks : TaskOK(t)'
  BY <1>1, <1>3, TasksKept
<1>9. TypeOK'
  BY <1>1, <1>2, <1>4 DEF TypeOK, Handlers, Lists, sending
<1> QED BY <1>4, <1>6, <1>7, <1>8, <1>9 DEF BInv

\* Heartbeats touch nothing else; a client or the network closes a socket.
LEMMA HeartbeatBase ==
    ASSUME BInv, NEW ws \in Sockets, Heartbeat(ws) \/ Drop(ws)
    PROVE  BInv'
<1> TypeOK /\ RegistryConsistent /\ OpenIsListed /\ Lists
  BY ListsHold DEF BInv
<1>1. /\ UNCHANGED <<registry, handler, excess, sending>>
      /\ heart' \in [Sockets -> Hearts]
      /\ link' \in [Sockets -> {"none", "open", "closed"}]
      /\ \A x \in Sockets : link'[x] = link[x] \/ (link[x] = "open" /\ link'[x] = "closed")
  <2>1. CASE Heartbeat(ws)
    <3>1. /\ UNCHANGED <<registry, handler, excess, link, sending>>
          /\ \E h \in Hearts : heart' = [heart EXCEPT ![ws] = h]
      BY <2>1 DEF Heartbeat, Wake, Ping, StopHeart, Hearts
    <3> QED BY <3>1 DEF TypeOK, Hearts
  <2>2. CASE Drop(ws)
    BY <2>2 DEF Drop, TypeOK, Hearts, endpoint
  <2> QED BY <2>1, <2>2
<1>2. \A x : Serving(x)' = Serving(x) /\ Registered(x)' = Registered(x)
  BY <1>1 DEF Serving, Registered
<1>3. RegistryConsistent' /\ \A u \in Users : Listed(u)' = Listed(u)
  BY <1>1, <1>2, RegistryKept
<1>4. OpenIsListed'
  <2>1. \A x \in Sockets : Owner[x] \in Users
    BY ConnectionAssumption
  <2> QED BY <1>1, <1>2, <1>3, <2>1, OpenKept
<1>5. \A x \in Sockets : EndpointOK(x)'
  BY <1>1, <1>2 DEF BInv, EndpointOK
<1>6. Queues' /\ Progress' /\ \A t \in Tasks : TaskOK(t)'
  BY <1>1, <1>2, TasksKept
<1>7. TypeOK'
  BY <1>1 DEF TypeOK, Hearts, registry, sending
<1> QED BY <1>3, <1>4, <1>5, <1>6, <1>7 DEF BInv

-------------------------------------------------------------------------------
(* The registry theorems. *)

LEMMA InitBase == Init => BInv
<1> SUFFICES ASSUME Init
             PROVE  BInv
  OBVIOUS
<1>0. Limit \in Nat /\ DOMAIN <<>> = {} /\ Len(<<>>) = 0
  BY ConnectionAssumption
<1>1. TypeOK
  <2>1. \A S : <<>> \in Seq(S)
    OBVIOUS
  <2> QED BY <1>0, <2>1 DEF Init, TypeOK
<1>2. \A u \in Users : connections[u] = <<>> /\ Listed(u) = {}
  BY <1>0 DEF Init, Listed, ToSet
<1>3. RegistryConsistent
  <2>1. \A u \in Users : IsInjective(connections[u])
    BY <1>0, <1>2 DEF IsInjective
  <2> QED BY <1>2, <2>1 DEF RegistryConsistent, Init
<1>4. OpenIsListed
  BY DEF Init, OpenIsListed
<1>5. \A ws \in Sockets : queue[ws] = <<>> /\ ToSet(queue[ws]) = {} /\ IsInjective(queue[ws])
  BY <1>0 DEF Init, ToSet, IsInjective
<1>6. \A t \in Tasks : step[t] = "none" /\ todo[t] = <<>> /\ dead[t] = {}
  BY DEF Init
<1>7. Queues
  BY <1>1, <1>5, <1>6 DEF Queues, TypeOK, Waiting
<1>8. Progress
  BY <1>1, <1>6 DEF Progress, TypeOK, Waiting, Steps
<1>9. \A ws \in Sockets : EndpointOK(ws)
  <2>1. \A ws \in Sockets : excess[ws] = <<>> /\ ToSet(excess[ws]) = {}
    BY <1>0 DEF Init, ToSet
  <2> QED BY <2>1 DEF Init, EndpointOK
<1>10. \A t \in Tasks : TaskOK(t)
  <2>1. ToSet(started) = {} /\ \A t \in Tasks : ToSet(todo[t]) = {} /\ IsInjective(todo[t])
    BY <1>0, <1>6 DEF Init, ToSet, IsInjective
  <2> QED BY <1>6, <2>1 DEF TaskOK
<1> QED BY <1>1, <1>3, <1>4, <1>7, <1>8, <1>9, <1>10 DEF BInv

LEMMA StutterBase ==
    ASSUME BInv, UNCHANGED vars
    PROVE  BInv'
<1>1. UNCHANGED <<connections, locks, handler, excess, heart, link, queue, started, step, todo,
                  dead, received, snap>>
  BY DEF vars, registry, endpoint, sending
<1>2. TypeOK'
  BY <1>1 DEF BInv, TypeOK
<1>3. RegistryConsistent' /\ OpenIsListed'
  BY <1>1 DEF BInv, RegistryConsistent, OpenIsListed, Listed, Serving, Registered
<1>4. Queues' /\ Progress'
  BY <1>1 DEF BInv, Queues, Progress, Waiting
<1>5. \A ws \in Sockets : EndpointOK(ws)'
  BY <1>1 DEF BInv, EndpointOK, Serving, Registered
<1>6. \A t \in Tasks : TaskOK(t)'
  BY <1>1 DEF BInv, TaskOK, Serving, Registered
<1> QED BY <1>2, <1>3, <1>4, <1>5, <1>6 DEF BInv

LEMMA NextBase == BInv /\ [Next]_vars => BInv'
<1> SUFFICES ASSUME BInv, [Next]_vars
             PROVE  BInv'
  OBVIOUS
<1>1. ASSUME NEW ws \in Sockets, Endpoint(ws) \/ Heartbeat(ws) \/ Drop(ws)
      PROVE  BInv'
  BY <1>1, ArriveBase, AcceptBase, CloseOldBase, LeaveBase, HeartbeatBase DEF Endpoint
<1>2. ASSUME NEW t \in Tasks, SendToUser(t)
      PROVE  BInv'
  BY <1>2, StartBase, AcquireBase, SendBase DEF SendToUser
<1> QED BY <1>1, <1>2, BroadcastBase, StutterBase DEF Next

\* The invariant behind the registry and the locks.
THEOREM BaseInvariance == Spec => []BInv
BY InitBase, NextBase, PTL DEF Spec

\* Every variable of ConnectionManager keeps its type, no list exceeds Limit.
THEOREM TypeCorrect == Spec => []TypeOK
<1>1. BInv => TypeOK
  BY DEF BInv
<1> QED BY <1>1, BaseInvariance, PTL

\* The two dictionaries of the manager agree, whoever removes a socket first.
THEOREM RegistryConsistentAlways == Spec => []RegistryConsistent
<1>1. BInv => RegistryConsistent
  BY DEF BInv
<1> QED BY <1>1, BaseInvariance, PTL

\* An open socket is listed or about to be closed.
THEOREM OpenIsListedAlways == Spec => []OpenIsListed
<1>1. BInv => OpenIsListed
  BY DEF BInv
<1> QED BY <1>1, BaseInvariance, PTL

-------------------------------------------------------------------------------
(* No task waits in vain. *)

\* Two send tasks never write to one socket at the same time, which is what
\* docs/issues.md:411 brought the locks in for.
OneWriter ==
    \A x, y \in Tasks :
        step[x] = "send" /\ step[y] = "send" /\ Head(todo[x]) = Head(todo[y]) => x = y

\* Task t needs no other task for its next step: it writes, or stands first in
\* the queue of its lock.
CanMove(t) == step[t] = "send" \/ (step[t] = "wait" /\ Head(queue[Head(todo[t])]) = t)

\* The task a waiting one waits for can itself move, so no tasks wait for each
\* other in a circle and no lock is kept by a task that is done.
NobodyStuck ==
    \A t \in Tasks : step[t] = "wait" =>
        \E x \in Tasks : CanMove(x) /\ Head(todo[x]) = Head(todo[t])

\* What a task that has started may do in a step, whoever makes it: nothing,
\* get its lock, or strike the socket it has written to off its list for good.
\* So a task with n sockets to serve makes at most 2 n moves until it is done.
OnlyOnwards(t) ==
    \/ todo'[t] = todo[t] /\ step'[t] = step[t]
    \/ todo'[t] = todo[t] /\ step[t] = "wait" /\ step'[t] = "send"
    \/ /\ step[t] = "send" /\ step'[t] \in {"wait", "send", "done"}
       /\ ToSet(todo'[t]) \subseteq ToSet(todo[t]) \ {Head(todo[t])}

WalksOn == [][\A t \in Tasks : step[t] \notin {"none", "ready"} => OnlyOnwards(t)]_vars

\* One coroutine at a time writes an event to a socket.
THEOREM OneWriterAlways == Spec => []OneWriter
<1>1. BInv => OneWriter
  <2> SUFFICES ASSUME BInv, NEW x \in Tasks, NEW y \in Tasks,
                      step[x] = "send", step[y] = "send", Head(todo[x]) = Head(todo[y])
               PROVE  x = y
    BY DEF OneWriter
  <2>1. Head(todo[x]) = todo[x][1] /\ Head(todo[y]) = todo[y][1]
    BY HeadOfTodo DEF BInv, Waiting
  <2>2. queue[todo[x][1]][1] = x /\ queue[todo[y][1]][1] = y
    BY DEF BInv, Queues
  <2> QED BY <2>1, <2>2
<1> QED BY <1>1, BaseInvariance, PTL

\* Whoever waits for a lock waits for a task that can move.
THEOREM NobodyStuckAlways == Spec => []NobodyStuck
<1>1. BInv => NobodyStuck
  <2> SUFFICES ASSUME BInv, NEW t \in Tasks, step[t] = "wait"
               PROVE  \E x \in Tasks : CanMove(x) /\ Head(todo[x]) = Head(todo[t])
    BY DEF NobodyStuck
  <2> DEFINE ws == todo[t][1]
             x  == Head(queue[ws])
  <2>1. ws \in Sockets /\ Head(todo[t]) = ws /\ t \in ToSet(queue[ws])
    BY HeadOfTodo DEF BInv, Waiting, Queues
  <2>2. queue[ws] \in Seq(Tasks) /\ queue[ws] # <<>>
    BY <2>1 DEF BInv, Queues, ToSet
  <2>3. x \in Tasks /\ x \in ToSet(queue[ws])
    <3>1. 1 \in DOMAIN queue[ws] /\ x = queue[ws][1]
      BY <2>2
    <3> QED BY <2>2, <3>1 DEF ToSet
  <2>4. Waiting(x) /\ todo[x][1] = ws
    BY <2>1, <2>3 DEF BInv, Queues
  <2>5. Head(todo[x]) = ws
    BY <2>3, <2>4, HeadOfTodo DEF BInv
  <2>6. CanMove(x)
    BY <2>4, <2>5 DEF CanMove, Waiting
  <2> QED BY <2>1, <2>3, <2>5, <2>6
<1> QED BY <1>1, BaseInvariance, PTL

\* A write strikes its socket off the list of the task.
LEMMA WriteWalksOn ==
    ASSUME BInv, NEW t \in Tasks, Send(t) \/ SendFails(t)
    PROVE  OnlyOnwards(t) /\ \A x \in Tasks \ {t} : OnlyOnwards(x)
<1> DEFINE rest == Tail(todo[t])
<1>1. step[t] = "send" /\ \E q, lost : Serve(t, rest, q, lost)
  BY DEF Send, SendFails
<1>2. /\ todo[t] \in Seq(Sockets) /\ Len(todo[t]) \in Nat \ {0} /\ Head(todo[t]) = todo[t][1]
      /\ DOMAIN todo[t] = 1 .. Len(todo[t]) /\ IsInjective(todo[t])
  BY <1>1, HeadOfTodo DEF BInv, Waiting, TaskOK
<1>3. /\ rest \in Seq(Sockets) /\ DOMAIN rest = 1 .. Len(todo[t]) - 1
      /\ \A i \in 1 .. Len(todo[t]) - 1 : rest[i] = todo[t][i + 1]
  BY <1>2
<1> HIDE DEF rest
<1>4. ToSet(rest) \subseteq ToSet(todo[t]) \ {Head(todo[t])}
  <2>1. \A i \in 1 .. Len(todo[t]) - 1 :
            /\ i + 1 \in DOMAIN todo[t] /\ 1 \in DOMAIN todo[t]
            /\ i + 1 # 1 /\ rest[i] = todo[t][i + 1]
    BY <1>2, <1>3
  <2>2. \A i \in DOMAIN rest : rest[i] # todo[t][1]
    BY <1>2, <1>3, <2>1 DEF IsInjective
  <2> QED BY <1>2, <1>3, <2>1, <2>2 DEF ToSet
<1>5. PICK q, lost : Serve(t, rest, q, lost)
  BY <1>1
<1>6. /\ ToSet(todo'[t]) \subseteq ToSet(rest) /\ step'[t] \in {"wait", "send", "done"}
      /\ \A x \in Tasks \ {t} : todo'[x] = todo[x] /\ step'[x] = step[x]
  BY <1>3, <1>5, ServeEffect DEF BInv
<1> QED BY <1>1, <1>4, <1>6 DEF OnlyOnwards

LEMMA StepWalksOn ==
    ASSUME BInv, [Next]_vars, NEW t \in Tasks, step[t] \notin {"none", "ready"}
    PROVE  OnlyOnwards(t)
<1>1. CASE UNCHANGED <<step, todo>>
  BY <1>1 DEF OnlyOnwards
<1>2. ASSUME NEW ws \in Sockets, Endpoint(ws) \/ Heartbeat(ws) \/ Drop(ws)
      PROVE  OnlyOnwards(t)
  BY <1>1, <1>2 DEF Endpoint, Arrive, Reject, Authenticate, Accept, AcceptFails, CloseOld, Leave,
                    End, Heartbeat, Wake, Ping, StopHeart, Drop, sending
<1>3. ASSUME NEW e \in Events, Broadcast(e)
      PROVE  OnlyOnwards(t)
  <2>1. t[1] # e
    BY <1>3 DEF Broadcast, BInv, TaskOK
  <2> QED BY <1>3, <2>1 DEF Broadcast, OnlyOnwards
<1>4. ASSUME NEW x \in Tasks, SendToUser(x)
      PROVE  OnlyOnwards(t)
  <2>1. CASE Start(x)
    <3>1. x # t /\ Serve(x, connections[x[2]], queue, {})
      BY <2>1 DEF Start
    <3>2. connections[x[2]] \in Seq(Sockets)
      BY TaskTyped DEF BInv, TypeOK
    <3>3. todo'[t] = todo[t] /\ step'[t] = step[t]
      BY <3>1, <3>2, ServeEffect DEF BInv
    <3> QED BY <3>3 DEF OnlyOnwards
  <2>2. CASE Acquire(x)
    BY <2>2 DEF Acquire, OnlyOnwards, BInv, Progress
  <2>3. CASE Send(x) \/ SendFails(x)
    BY <2>3, WriteWalksOn
  <2> QED BY <1>4, <2>1, <2>2, <2>3 DEF SendToUser
<1> QED BY <1>1, <1>2, <1>3, <1>4 DEF Next, vars, sending

\* No step of anybody sets a task back.
THEOREM WalksOnEver == Spec => WalksOn
<1>1. BInv /\ [Next]_vars =>
          [\A t \in Tasks : step[t] \notin {"none", "ready"} => OnlyOnwards(t)]_vars
  BY StepWalksOn
<1> QED BY <1>1, BaseInvariance, PTL DEF Spec, WalksOn
===============================================================================
