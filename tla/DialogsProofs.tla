---------------------------- MODULE DialogsProofs ----------------------------
(***************************************************************************)
(* Theorems about Dialogs for any number of requests, users and faults.    *)
(*                                                                         *)
(* IInv is the inductive invariant: the types, what request r may rely on  *)
(* at each of its awaits (ReqOK), and two facts about the table.           *)
(***************************************************************************)
EXTENDS Dialogs, TLAPS

Early == {"idle", "resolve", "find", "create"}

Pair(r) == {call[r].user, call[r].target}

\* A direct dialog has two different participants, and its id is its own.
TwoParticipants ==
    \A d \in dialogs :
        /\ \E u, v \in Users : u # v /\ d.users = {u, v}
        /\ \A e \in dialogs : e.id = d.id => e = d

ReqOK(r) ==
    /\ pc[r] \in Early => ~Stored(r)
    /\ pc[r] \in {"find", "create"} => Acceptable(r)
    /\ \A d \in seen[r] : Stored(d)
    /\ pc[r] = "create" => \A d \in dialogs : d.users = Pair(r) => d.id \notin seen[r]
    /\ pc[r] \in {"response", "broadcast"} \/ code[r] = 200 =>
          [id |-> found[r], users |-> Pair(r)] \in dialogs
    /\ pc[r] = "broadcast" => found[r] = r
    /\ code[r] # 0 => pc[r] = "done"
    /\ code[r] = 200 /\ found[r] = r => r \in announced
    /\ r \in announced => Stored(r)

IInv ==
    /\ TypeOK
    /\ \A r \in Creates : ReqOK(r)
    /\ TwoParticipants
    /\ DuplicatesOnlyFromRaces

LEMMA InitIInv == Init => IInv
<1> SUFFICES ASSUME Init PROVE IInv
  OBVIOUS
<1>1. TypeOK
  BY DialogsAssumption DEF Init, TypeOK, Awaits, Stops, Codes
<1>2. \A r \in Creates : ReqOK(r)
  <2> SUFFICES ASSUME NEW r \in Creates PROVE ReqOK(r)
    OBVIOUS
  <2>1. pc[r] = "idle" /\ code[r] = 0 /\ seen[r] = {} /\ announced = {} /\ dialogs = {}
    BY DEF Init
  <2> QED
    BY <2>1 DEF ReqOK, Stored
<1>3. TwoParticipants /\ DuplicatesOnlyFromRaces
  BY DEF Init, TwoParticipants, DuplicatesOnlyFromRaces
<1> QED
  BY <1>1, <1>2, <1>3 DEF IInv

\* A step of request r that leaves the table alone: what it may change, and
\* what r itself must keep for the invariant to hold after it.
Quiet(r) ==
    /\ UNCHANGED <<dialogs, call>>
    /\ faults' \in 0 .. MaxFaults
    /\ \E l \in Awaits \cup Stops : pc' = [pc EXCEPT ![r] = l]
    /\ \E c \in Codes : code' = [code EXCEPT ![r] = c]
    /\ \E x \in Creates : found' = [found EXCEPT ![r] = x]
    /\ seen' = seen \/ (pc[r] \in Early /\ Look(r))
    /\ announced' = announced \/ announced' = announced \cup {r}

LEMMA QuietStep ==
  ASSUME IInv, NEW r \in Creates, Quiet(r), ReqOK(r)'
  PROVE  IInv'
<1> USE DEF IInv
<1>1. TypeOK'
  <2>1. seen' \in [Creates -> SUBSET Creates]
    BY DEF Quiet, Look, TypeOK
  <2>2. found' \in [Creates -> Creates] /\ announced' \subseteq Creates
    BY DEF Quiet, TypeOK
  <2>3. pc' \in [Creates -> Awaits \cup Stops] /\ code' \in [Creates -> Codes]
    BY DEF Quiet, TypeOK
  <2> QED
    BY <2>1, <2>2, <2>3 DEF Quiet, TypeOK
<1>2. ASSUME NEW q \in Creates, q # r PROVE ReqOK(q)'
  <2>1. ReqOK(q) /\ pc'[q] = pc[q] /\ code'[q] = code[q] /\ found'[q] = found[q]
    BY <1>2 DEF Quiet, TypeOK
  <2>2. seen'[q] = seen[q] /\ (q \in announced' <=> q \in announced)
    BY <1>2 DEF Quiet, TypeOK, Look
  <2>3. call' = call /\ dialogs' = dialogs
    BY DEF Quiet
  <2> QED
    BY <2>1, <2>2, <2>3 DEF ReqOK, Stored, Acceptable, Pair
<1>3. TwoParticipants'
  BY DEF TwoParticipants, Quiet
<1>4. DuplicatesOnlyFromRaces'
  <2> SUFFICES ASSUME NEW d \in dialogs, NEW e \in dialogs, d.users = e.users
               PROVE  d.id \notin seen'[e.id]
    BY DEF DuplicatesOnlyFromRaces, Quiet
  <2>1. d.id \notin seen[e.id] /\ e.id \in Creates
    BY DEF DuplicatesOnlyFromRaces, TypeOK
  <2>2. CASE seen' = seen
    BY <2>1, <2>2
  <2>3. CASE pc[r] \in Early /\ Look(r)
    <3>1. ReqOK(r) /\ ~Stored(r)
      BY <2>3 DEF ReqOK
    <3>2. e.id # r
      BY <3>1 DEF Stored
    <3> QED
      BY <2>1, <2>3, <3>2 DEF Look, TypeOK
  <2> QED
    BY <2>2, <2>3 DEF Quiet
<1> QED
  BY <1>1, <1>2, <1>3, <1>4

\* The insert: the new row is the only one with its id, its two users differ,
\* and nobody could have seen it.
LEMMA StoreStep ==
  ASSUME IInv, NEW r \in Creates, pc[r] = "create", Store(r), UNCHANGED <<call, seen, announced>>,
         faults' \in 0 .. MaxFaults,
         \/ pc' = [pc EXCEPT ![r] = "response"] /\ code' = code /\ found' = [found EXCEPT ![r] = r]
         \/ pc' = [pc EXCEPT ![r] = "done"] /\ code' = [code EXCEPT ![r] = 500] /\ found' = found
  PROVE  IInv'
<1> USE DEF IInv
<1> DEFINE new == [id |-> r, users |-> Pair(r)]
<1>1. /\ dialogs' = dialogs \cup {new}
      /\ new.id = r /\ new.users = Pair(r)
      /\ ~Stored(r) /\ Acceptable(r)
  BY DEF Store, ReqOK, Early, Pair
<1>2. /\ call[r].user \in Users /\ call[r].target \in Users
      /\ call[r].user # call[r].target
  BY <1>1 DEF TypeOK, Call, Acceptable
<1>3. new \in [id : Creates, users : SUBSET Users]
  BY <1>2 DEF Pair
<1> HIDE DEF new
<1>3a. \A d : Stored(d) => Stored(d)'
  BY <1>1 DEF Stored
<1>4. TypeOK'
  <2>1. dialogs' \subseteq [id : Creates, users : SUBSET Users]
    BY <1>1, <1>3 DEF TypeOK
  <2>3. /\ pc' \in [Creates -> Awaits \cup Stops]
        /\ code' \in [Creates -> Codes]
        /\ found' \in [Creates -> Creates]
    BY DEF TypeOK, Awaits, Stops, Codes
  <2> QED
    BY <2>1, <2>3 DEF TypeOK
<1>5. ASSUME NEW q \in Creates, q # r PROVE ReqOK(q)'
  <2>1. /\ ReqOK(q) /\ pc'[q] = pc[q] /\ code'[q] = code[q] /\ found'[q] = found[q]
        /\ call' = call /\ seen' = seen /\ announced' = announced
    BY <1>5 DEF TypeOK
  <2>2. Stored(q)' <=> Stored(q)
    BY <1>1, <1>5 DEF Stored
  <2>3. \A d \in seen[q] : Stored(d)' /\ d # r
    <3>1. \A d \in seen[q] : Stored(d)
      BY <2>1 DEF ReqOK
    <3> QED
      BY <1>1, <1>3a, <3>1
  <2>4. pc[q] = "create" => \A d \in dialogs' : d.users = Pair(q) => d.id \notin seen[q]
    BY <1>1, <2>1, <2>3 DEF ReqOK
  <2>5. [id |-> found[q], users |-> Pair(q)] \in dialogs =>
          [id |-> found[q], users |-> Pair(q)] \in dialogs'
    BY <1>1
  <2> QED
    BY <2>1, <2>2, <2>3, <2>4, <2>5 DEF ReqOK, Acceptable, Pair
<1>6. ReqOK(r)'
  <2>0. ReqOK(r) /\ code[r] = 0
    BY DEF ReqOK
  <2>1. /\ pc'[r] \in {"response", "done"} /\ pc'[r] \notin Early
        /\ code[r] = 0 /\ call' = call /\ seen' = seen /\ announced' = announced
    BY <2>0 DEF TypeOK, Early
  <2>2. Stored(r)'
    BY <1>1 DEF Stored
  <2>3. \A d \in seen[r] : Stored(d)'
    <3>1. \A d \in seen[r] : Stored(d)
      BY <2>0 DEF ReqOK
    <3> QED
      BY <1>3a, <3>1
  <2>4. CASE pc' = [pc EXCEPT ![r] = "response"] /\ code' = code /\ found' = [found EXCEPT ![r] = r]
    <3>1. pc'[r] = "response" /\ code'[r] = 0 /\ found'[r] = r
      BY <2>1, <2>4 DEF TypeOK
    <3>2. [id |-> found'[r], users |-> Pair(r)] \in dialogs'
      BY <1>1, <3>1 DEF new
    <3> QED
      BY <2>1, <2>2, <2>3, <3>1, <3>2 DEF ReqOK, Pair
  <2>5. CASE pc' = [pc EXCEPT ![r] = "done"] /\ code' = [code EXCEPT ![r] = 500] /\ found' = found
    <3>1. pc'[r] = "done" /\ code'[r] = 500
      BY <2>5 DEF TypeOK
    <3> QED
      BY <2>1, <2>2, <2>3, <3>1 DEF ReqOK, Pair
  <2> QED
    BY <2>4, <2>5
<1>7. TwoParticipants'
  <2> SUFFICES ASSUME NEW d \in dialogs'
               PROVE  /\ \E u, v \in Users : u # v /\ d.users = {u, v}
                      /\ \A e \in dialogs' : e.id = d.id => e = d
    BY DEF TwoParticipants
  <2>1. \E u, v \in Users : u # v /\ d.users = {u, v}
    BY <1>1, <1>2 DEF TwoParticipants, Pair
  <2>2. \A e \in dialogs' : e.id = d.id => e = d
    BY <1>1 DEF TwoParticipants, Stored
  <2> QED
    BY <2>1, <2>2
<1>8. DuplicatesOnlyFromRaces'
  <2> SUFFICES ASSUME NEW d \in dialogs', NEW e \in dialogs', d.users = e.users
               PROVE  d.id \notin seen[e.id]
    BY DEF DuplicatesOnlyFromRaces
  <2>1. CASE d \in dialogs /\ e \in dialogs
    BY <2>1 DEF DuplicatesOnlyFromRaces
  <2>2. CASE d = new
    <3>1. e.id \in Creates /\ d.id = r
      BY <1>1, <1>3, <2>2 DEF TypeOK
    <3>2. \A x \in seen[e.id] : Stored(x)
      BY <3>1 DEF ReqOK
    <3> QED
      BY <1>1, <3>1, <3>2
  <2>3. CASE d \in dialogs /\ e = new
    BY <1>1, <2>3 DEF ReqOK
  <2> QED
    BY <1>1, <2>1, <2>2, <2>3
<1> QED
  BY <1>4, <1>5, <1>6, <1>7, <1>8

LEMMA StepIInv == IInv /\ [Next]_vars => IInv'
<1> SUFFICES ASSUME IInv, [Next]_vars PROVE IInv'
  OBVIOUS
<1> USE DEF IInv, Goto, Answer
<1>1. ASSUME NEW r \in Creates,
             Authenticate(r) \/ RejectToken(r) \/ AuthFails(r) \/ Refuse(r) \/ Accept(r)
      PROVE  IInv'
  <2>1. /\ UNCHANGED <<dialogs, Locals, announced>> /\ faults' \in 0 .. MaxFaults
        /\ pc[r] \in {"idle", "resolve"} /\ code[r] = 0
        /\ \/ /\ code' = code
              /\ \/ pc' = [pc EXCEPT ![r] = "resolve"]
                 \/ pc' = [pc EXCEPT ![r] = "find"] /\ Acceptable(r)
           \/ \E c \in {400, 403, 404, 500, 503} :
                /\ pc' = [pc EXCEPT ![r] = "done"]
                /\ code' = [code EXCEPT ![r] = c]
    <3>1. pc[r] \in {"idle", "resolve"}
      BY <1>1 DEF Authenticate, RejectToken, AuthFails, Refuse, Accept
    <3>2. ReqOK(r) /\ code[r] = 0
      BY <3>1 DEF ReqOK
    <3>3. CASE Authenticate(r) \/ RejectToken(r)
      BY <3>1, <3>2, <3>3 DEF Authenticate, RejectToken, TypeOK
    <3>4. CASE AuthFails(r)
      <4>1. Answer(r, 503) \/ Answer(r, 500)
        <5> HIDE DEF Answer, IInv
        <5>1. PICK c \in {503, 500} : Answer(r, c)
          BY <3>4 DEF AuthFails
        <5>2. c = 503 \/ c = 500
          OBVIOUS
        <5> QED
          BY <5>1, <5>2
      <4>2. UNCHANGED <<dialogs, Locals, announced>> /\ faults' \in 0 .. MaxFaults
        BY <3>4, DialogsAssumption DEF AuthFails, Fault, TypeOK
      <4>3. CASE Answer(r, 503)
        BY <3>1, <3>2, <4>2, <4>3
      <4>4. CASE Answer(r, 500)
        BY <3>1, <3>2, <4>2, <4>4
      <4> QED
        BY <4>1, <4>3, <4>4
    <3>5. CASE Refuse(r)
      <4>1. CASE call[r].target = call[r].user
        BY <3>1, <3>2, <3>5, <4>1 DEF Refuse, TypeOK
      <4>2. CASE call[r].target # call[r].user
        BY <3>1, <3>2, <3>5, <4>2 DEF Refuse, TypeOK
      <4> QED
        BY <4>1, <4>2
    <3>6. CASE Accept(r)
      BY <3>1, <3>2, <3>6 DEF Accept, TypeOK
    <3> QED
      BY <1>1, <3>3, <3>4, <3>5, <3>6
  <2>2. Quiet(r)
    <3>1. \E l \in Awaits \cup Stops : pc' = [pc EXCEPT ![r] = l]
      BY <2>1 DEF Awaits, Stops
    <3>2. \E c \in Codes : code' = [code EXCEPT ![r] = c]
      BY <2>1 DEF Codes, TypeOK
    <3>3. \E x \in Creates : found' = [found EXCEPT ![r] = x]
      BY <2>1 DEF Locals, TypeOK
    <3> QED
      BY <2>1, <3>1, <3>2, <3>3 DEF Quiet, Locals, TypeOK
  <2>3. ReqOK(r)'
    <3>1. /\ dialogs' = dialogs /\ call' = call /\ seen' = seen /\ announced' = announced
          /\ ReqOK(r) /\ code'[r] # 200
          /\ pc'[r] \in {"resolve", "find", "done"}
          /\ pc'[r] = "find" => Acceptable(r)
          /\ code'[r] # 0 => pc'[r] = "done"
      BY <2>1 DEF Locals, TypeOK
    <3> QED
      BY <2>1, <3>1 DEF ReqOK, Stored, Acceptable, Pair, Early
  <2> QED
    BY <2>2, <2>3, QuietStep
<1>2. ASSUME NEW r \in Creates, FindOne(r) \/ FindNone(r) \/ FindMany(r)
      PROVE  IInv'
  <2>1. /\ UNCHANGED <<dialogs, call, announced, faults>> /\ Look(r)
        /\ pc[r] = "find" /\ code[r] = 0
        /\ \/ /\ pc' = [pc EXCEPT ![r] = "response"] /\ code' = code
              /\ \E d \in dialogs : Matches(r) = {d} /\ found' = [found EXCEPT ![r] = d.id]
           \/ /\ pc' = [pc EXCEPT ![r] = "create"] /\ code' = code /\ found' = found
              /\ Matches(r) = {}
           \/ /\ pc' = [pc EXCEPT ![r] = "done"] /\ code' = [code EXCEPT ![r] = 500]
              /\ found' = found
    BY <1>2 DEF FindOne, FindNone, FindMany, ReqOK
  <2>2. Quiet(r)
    <3>1. \E l \in Awaits \cup Stops : pc' = [pc EXCEPT ![r] = l]
      BY <2>1 DEF Awaits, Stops
    <3>2. \E c \in Codes : code' = [code EXCEPT ![r] = c]
      BY <2>1 DEF Codes, TypeOK
    <3>3. \E x \in Creates : found' = [found EXCEPT ![r] = x]
      BY <2>1 DEF TypeOK
    <3>4. pc[r] \in Early
      BY <2>1 DEF Early
    <3> QED
      BY <2>1, <3>1, <3>2, <3>3, <3>4 DEF Quiet, TypeOK
  <2>3. ReqOK(r)'
    <3>1. /\ dialogs' = dialogs /\ call' = call /\ announced' = announced
          /\ ReqOK(r) /\ ~Stored(r) /\ Acceptable(r)
          /\ seen'[r] = {d.id : d \in dialogs}
      <4>1. dialogs' = dialogs /\ call' = call /\ announced' = announced
        BY <2>1
      <4>2. ReqOK(r) /\ ~Stored(r) /\ Acceptable(r)
        <5>1. ReqOK(r)
          OBVIOUS
        <5> QED
          BY <2>1, <5>1 DEF ReqOK, Early
      <4>3. seen'[r] = {d.id : d \in dialogs}
        BY <2>1 DEF Look, TypeOK
      <4> QED
        BY <4>1, <4>2, <4>3
    <3>2. \A d \in seen'[r] : Stored(d)'
      BY <3>1 DEF Stored
    <3>3. CASE /\ pc' = [pc EXCEPT ![r] = "response"] /\ code' = code
               /\ \E d \in dialogs : Matches(r) = {d} /\ found' = [found EXCEPT ![r] = d.id]
      <4>1. pc'[r] = "response" /\ code'[r] = 0
        BY <2>1, <3>3 DEF TypeOK
      <4>2. PICK d \in dialogs : d \in Matches(r) /\ found'[r] = d.id
        BY <3>3 DEF TypeOK
      <4>3. d = [id |-> d.id, users |-> Pair(r)]
        BY <4>2 DEF Matches, Pair, TypeOK
      <4>4. [id |-> found'[r], users |-> Pair(r)] \in dialogs
        BY <4>2, <4>3
      <4>5. r \notin announced'
        BY <3>1 DEF ReqOK
      <4> QED
        BY <3>1, <3>2, <4>1, <4>4, <4>5 DEF ReqOK, Pair, Early
    <3>4. CASE /\ pc' = [pc EXCEPT ![r] = "create"] /\ code' = code /\ found' = found
               /\ Matches(r) = {}
      <4>1. pc'[r] = "create" /\ code'[r] = 0
        BY <2>1, <3>4 DEF TypeOK
      <4>2. \A d \in dialogs : d.users # Pair(r)
        BY <3>4 DEF Matches, Pair
      <4> QED
        BY <3>1, <3>2, <4>1, <4>2 DEF ReqOK, Pair, Early, Stored, Acceptable
    <3>5. CASE pc' = [pc EXCEPT ![r] = "done"] /\ code' = [code EXCEPT ![r] = 500]
      <4>1. pc'[r] = "done" /\ code'[r] = 500
        BY <3>5 DEF TypeOK
      <4> QED
        BY <3>1, <3>2, <4>1 DEF ReqOK, Pair, Early, Stored
    <3> QED
      BY <2>1, <3>3, <3>4, <3>5
  <2> QED
    BY <2>2, <2>3, QuietStep
<1>3. ASSUME NEW r \in Creates, Create(r) \/ CreateUnconfirmed(r)
      PROVE  IInv'
  <2>1. /\ pc[r] = "create" /\ Store(r) /\ UNCHANGED <<call, seen, announced>>
        /\ faults' \in 0 .. MaxFaults
        /\ \/ pc' = [pc EXCEPT ![r] = "response"] /\ code' = code
              /\ found' = [found EXCEPT ![r] = r]
           \/ pc' = [pc EXCEPT ![r] = "done"] /\ code' = [code EXCEPT ![r] = 500]
              /\ found' = found
    BY <1>3, DialogsAssumption DEF Create, CreateUnconfirmed, Fault, Locals, TypeOK
  <2> QED
    BY <2>1, StoreStep
<1>4. ASSUME NEW r \in Creates,
             CallFails(r) \/ Respond(r) \/ RespondFails(r) \/ Broadcast(r)
      PROVE  IInv'
  <2>1. /\ UNCHANGED <<dialogs, Locals>> /\ faults' \in 0 .. MaxFaults
        /\ \/ /\ pc[r] \in {"find", "create", "response", "broadcast"} /\ announced' = announced
              /\ pc' = [pc EXCEPT ![r] = "done"] /\ code' = [code EXCEPT ![r] = 500]
           \/ /\ pc[r] = "response" /\ announced' = announced /\ found[r] = r
              /\ pc' = [pc EXCEPT ![r] = "broadcast"] /\ code' = code
           \/ /\ pc[r] = "response" /\ announced' = announced /\ found[r] # r
              /\ pc' = [pc EXCEPT ![r] = "done"] /\ code' = [code EXCEPT ![r] = 200]
           \/ /\ pc[r] = "broadcast" /\ announced' = announced \cup {r}
              /\ pc' = [pc EXCEPT ![r] = "done"] /\ code' = [code EXCEPT ![r] = 200]
    BY <1>4, DialogsAssumption
    DEF CallFails, Respond, RespondFails, Broadcast, Fault, TypeOK
  <2>2. Quiet(r)
    <3>1. \E l \in Awaits \cup Stops : pc' = [pc EXCEPT ![r] = l]
      BY <2>1 DEF Awaits, Stops
    <3>2. \E c \in Codes : code' = [code EXCEPT ![r] = c]
      BY <2>1 DEF Codes, TypeOK
    <3>3. \E x \in Creates : found' = [found EXCEPT ![r] = x]
      BY <2>1 DEF Locals, TypeOK
    <3> QED
      BY <2>1, <3>1, <3>2, <3>3 DEF Quiet, Locals, TypeOK
  <2>3. ReqOK(r)'
    <3>1. /\ dialogs' = dialogs /\ call' = call /\ seen' = seen /\ found' = found
          /\ ReqOK(r) /\ pc[r] # "done" /\ code[r] = 0
      BY <2>1 DEF Locals, TypeOK, ReqOK
    <3>2. CASE /\ announced' = announced
               /\ pc' = [pc EXCEPT ![r] = "done"] /\ code' = [code EXCEPT ![r] = 500]
      <4>1. pc'[r] = "done" /\ code'[r] = 500
        BY <3>2 DEF TypeOK
      <4> QED
        BY <3>1, <3>2, <4>1 DEF ReqOK, Pair, Early, Stored
    <3>3. CASE /\ pc[r] = "response" /\ announced' = announced /\ found[r] = r
               /\ pc' = [pc EXCEPT ![r] = "broadcast"] /\ code' = code
      <4>1. pc'[r] = "broadcast" /\ code'[r] = 0
        BY <3>1, <3>3 DEF TypeOK
      <4> QED
        BY <3>1, <3>3, <4>1 DEF ReqOK, Pair, Early, Stored
    <3>4. CASE /\ pc[r] = "response" /\ announced' = announced /\ found[r] # r
               /\ pc' = [pc EXCEPT ![r] = "done"] /\ code' = [code EXCEPT ![r] = 200]
      <4>1. pc'[r] = "done" /\ code'[r] = 200
        BY <3>4 DEF TypeOK
      <4> QED
        BY <3>1, <3>4, <4>1 DEF ReqOK, Pair, Early, Stored
    <3>5. CASE /\ pc[r] = "broadcast" /\ announced' = announced \cup {r}
               /\ pc' = [pc EXCEPT ![r] = "done"] /\ code' = [code EXCEPT ![r] = 200]
      <4>1. pc'[r] = "done" /\ code'[r] = 200
        BY <3>5 DEF TypeOK
      <4>2. Stored(r)
        BY <3>1, <3>5 DEF ReqOK, Stored, Pair
      <4> QED
        BY <3>1, <3>5, <4>1, <4>2 DEF ReqOK, Pair, Early, Stored
    <3> QED
      BY <2>1, <3>2, <3>3, <3>4, <3>5
  <2> QED
    BY <2>2, <2>3, QuietStep
<1>6. CASE UNCHANGED vars
  BY <1>6 DEF vars, TypeOK, ReqOK, Stored, Acceptable, Pair, TwoParticipants,
              DuplicatesOnlyFromRaces
<1> QED
  BY <1>1, <1>2, <1>3, <1>4, <1>6 DEF Next, Serve

THEOREM Invariance == Spec => []IInv
<1>1. Init => IInv
  BY InitIInv
<1>2. IInv /\ [Next]_vars => IInv'
  BY StepIInv
<1> QED
  BY <1>1, <1>2, PTL DEF Spec

\* The tables and the locals of the handlers keep their types.
THEOREM TypeCorrect == Spec => []TypeOK
<1>1. IInv => TypeOK
  BY DEF IInv
<1> QED
  BY <1>1, Invariance, PTL

\* A 200 from POST /dialogs/direct tells the truth, and a creator that gets
\* one has announced its dialog (api/v1/dialogs.py).
THEOREM AnswerIsTrueAlways == Spec => []AnswerIsTrue
<1>1. IInv => AnswerIsTrue
  <2> SUFFICES ASSUME IInv
               PROVE  AnswerIsTrue
    OBVIOUS
  <2>1. ASSUME NEW r \in Creates, code[r] = 200
        PROVE  /\ call[r].user # call[r].target
               /\ {d \in dialogs : d.id = found[r]} = {[id |-> found[r], users |-> Pair(r)]}
               /\ found[r] = r => r \in announced
    <3> DEFINE x == [id |-> found[r], users |-> Pair(r)]
    <3>1. x \in dialogs /\ x.id = found[r] /\ x.users = Pair(r)
      BY <2>1 DEF IInv, ReqOK
    <3>2. found[r] = r => r \in announced
      BY <2>1 DEF IInv, ReqOK
    <3> HIDE DEF x
    <3>3. \A d \in dialogs : d.id = found[r] => d = x
      BY <3>1 DEF IInv, TwoParticipants
    <3>4. PICK u, v \in Users : u # v /\ Pair(r) = {u, v}
      BY <3>1 DEF IInv, TwoParticipants
    <3>5. call[r].user # call[r].target
      BY <3>4 DEF Pair
    <3>6. {d \in dialogs : d.id = found[r]} = {x}
      BY <3>1, <3>3
    <3> QED
      BY <3>2, <3>5, <3>6 DEF x
  <2>2. \A r \in announced : Stored(r)
    BY DEF IInv, ReqOK, TypeOK
  <2> QED
    BY <2>1, <2>2 DEF AnswerIsTrue, Pair
<1> QED
  BY <1>1, Invariance, PTL

\* Every stored dialog has exactly two different participants, both of them
\* registered users, and an id of its own (services/dialogs.py).
THEOREM TwoParticipantsAlways == Spec => []TwoParticipants
<1>1. IInv => TwoParticipants
  BY DEF IInv
<1> QED
  BY <1>1, Invariance, PTL

\* Two dialogs of one pair exist only when both creators looked before the
\* other's commit (services/dialogs.py: look, then insert).
THEOREM DuplicatesOnlyFromRacesAlways == Spec => []DuplicatesOnlyFromRaces
<1>1. IInv => DuplicatesOnlyFromRaces
  BY DEF IInv
<1> QED
  BY <1>1, Invariance, PTL
===============================================================================
