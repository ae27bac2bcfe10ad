--------------------------- MODULE WebClientProofs ---------------------------
(* Theorems about WebClient for any number of users, dialogs, messages,       *)
(* sockets, loads and faults, and any size of a page.                         *)
EXTENDS WebClient, FiniteSetTheorems, TLAPS

-------------------------------------------------------------------------------
(* What a page of messages holds.                                            *)

DistinctIds(q) == \A i, j \in DOMAIN q : q[i].id = q[j].id => i = j

(* A set of numbers has a least one.                                          *)
LEMMA LeastNumber ==
  ASSUME NEW T \in SUBSET Nat, T # {}
  PROVE  \E n \in T : \A m \in T : n <= m
<1> DEFINE R == OpToRel(<, Nat)
<1>1. IsWellFoundedOn(R, Nat)
  BY NatLessThanWellFounded
<1>2. \A m, n \in Nat : m < n => <<m, n>> \in R
  BY DEF OpToRel
<1> HIDE DEF R
<1>3. PICK n \in T : \A m \in T : ~ (<<m, n>> \in R)
  BY <1>1, WFMin
<1>4. ASSUME NEW m \in T PROVE n <= m
  <2>1. ~ (m < n)
    BY <1>2, <1>3
  <2> QED
    BY <2>1
<1> QED
  BY <1>4

LEMMA OfDialogFinite ==
  ASSUME NEW S, NEW q \in Seq(S), NEW d, NEW T \in SUBSET OfDialog(q, d)
  PROVE  IsFiniteSet(T) /\ Cardinality(T) \in Nat
<1>1. IsFiniteSet(1 .. Len(q)) /\ T \in SUBSET (1 .. Len(q))
  BY FS_Interval DEF OfDialog
<1> QED
  BY <1>1, FS_Subset, FS_CardinalityType

(* The messages of a dialog have the places 1, 2, ... in the order in which   *)
(* they are stored.                                                           *)
LEMMA PlaceGrows ==
  ASSUME NEW S, NEW q \in Seq(S), NEW d, NEW i \in OfDialog(q, d)
  PROVE  /\ Place(q, i) \in Nat \ {0}
         /\ \A j \in OfDialog(q, d) : i < j => Place(q, i) < Place(q, j)
<1> DEFINE Upto(m) == {j \in OfDialog(q, d) : j <= m}
<1>1. \A m : IsFiniteSet(Upto(m)) /\ Cardinality(Upto(m)) \in Nat
  BY OfDialogFinite
<1>2. \A j \in OfDialog(q, d) : Place(q, j) = Cardinality(Upto(j))
  BY DEF Place, OfDialog
<1>3. OfDialog(q, d) \subseteq Nat
  BY DEF OfDialog
<1>4. Cardinality(Upto(i)) # 0
  <2>1. i \in Upto(i)
    BY <1>3
  <2> HIDE DEF Upto
  <2> QED
    BY <1>1, <2>1, FS_EmptySet
<1>5. ASSUME NEW j \in OfDialog(q, d), i < j PROVE Place(q, i) < Place(q, j)
  <2>1. Upto(i) \subseteq Upto(j) /\ j \in Upto(j) /\ j \notin Upto(i)
    BY <1>3, <1>5
  <2> HIDE DEF Upto
  <2>2. Cardinality(Upto(i)) <= Cardinality(Upto(j))
        /\ Cardinality(Upto(i)) # Cardinality(Upto(j))
    BY <1>1, <2>1, FS_Subset
  <2> QED
    BY <1>1, <1>2, <2>2
<1> QED
  BY <1>1, <1>2, <1>4, <1>5

LEMMA PlaceFilled ==
  ASSUME NEW S, NEW q \in Seq(S), NEW d,
         NEW k \in 1 .. Cardinality(OfDialog(q, d))
  PROVE  \E i \in OfDialog(q, d) : Place(q, i) = k
<1> DEFINE Upto(m) == {j \in OfDialog(q, d) : j <= m}
           T == {m \in Nat : k <= Cardinality(Upto(m))}
<1>1. \A m : IsFiniteSet(Upto(m)) /\ Cardinality(Upto(m)) \in Nat
  BY OfDialogFinite
<1>2. \A j \in OfDialog(q, d) : Place(q, j) = Cardinality(Upto(j))
  BY DEF Place, OfDialog
<1>3. OfDialog(q, d) \subseteq 1 .. Len(q) /\ Len(q) \in Nat /\ k \in Nat /\ k # 0
  BY OfDialogFinite DEF OfDialog
<1>4. Upto(Len(q)) = OfDialog(q, d) /\ Upto(0) = {}
  BY <1>3
<1>5. ASSUME NEW m \in Nat, m # 0
      PROVE  /\ m \notin Upto(m - 1)
             /\ Upto(m) = IF m \in OfDialog(q, d) THEN Upto(m - 1) \cup {m} ELSE Upto(m - 1)
  BY <1>3, <1>5
<1> HIDE DEF Upto
<1>6. Len(q) \in T /\ 0 \notin T
  BY <1>1, <1>3, <1>4, FS_EmptySet
<1>7. PICK m \in T : \A n \in T : m <= n
  <2> HIDE DEF T
  <2>1. T \in SUBSET Nat
    BY DEF T
  <2> QED
    BY <1>6, <2>1, LeastNumber
<1>8. m \in Nat /\ m # 0 /\ m - 1 \in Nat /\ m - 1 \notin T /\ k <= Cardinality(Upto(m))
  BY <1>6, <1>7
<1>9. Cardinality(Upto(m - 1)) \in Nat /\ Cardinality(Upto(m - 1)) < k
  BY <1>1, <1>3, <1>8
<1>10. Cardinality(Upto(m - 1) \cup {m}) = Cardinality(Upto(m - 1)) + 1
  BY <1>1, <1>5, <1>8, FS_AddElement
<1>11. m \in OfDialog(q, d) /\ Cardinality(Upto(m)) = k
  <2>1. CASE m \in OfDialog(q, d)
    <3>1. Upto(m) = Upto(m - 1) \cup {m}
      BY <1>5, <1>8, <2>1
    <3>2. Cardinality(Upto(m)) = Cardinality(Upto(m - 1)) + 1
      BY <1>10, <3>1
    <3> QED
      BY <1>3, <1>8, <1>9, <2>1, <3>2
  <2>2. CASE m \notin OfDialog(q, d)
    <3>1. Upto(m) = Upto(m - 1)
      BY <1>5, <1>8, <2>2
    <3> QED
      BY <1>3, <1>8, <1>9, <3>1
  <2> QED
    BY <2>1, <2>2
<1> QED
  BY <1>2, <1>11

(* The page of a dialog holds its messages up to place PageSize, each at its  *)
(* place.                                                                     *)
LEMMA PageByPlace ==
  ASSUME NEW S, NEW q \in Seq(S), NEW d
  PROVE  /\ \E n \in Nat : Page(q, d) = [k \in 1 .. n |-> Page(q, d)[k]]
         /\ \A k \in DOMAIN Page(q, d) :
               /\ k \in 1 .. PageSize
               /\ \E i \in OfDialog(q, d) : Place(q, i) = k /\ Page(q, d)[k] = q[i].id
         /\ \A i \in OfDialog(q, d) : Place(q, i) <= PageSize =>
               Place(q, i) \in DOMAIN Page(q, d) /\ Page(q, d)[Place(q, i)] = q[i].id
<1> DEFINE of == OfDialog(q, d)
           c == Cardinality(of)
           n == Min({c, PageSize})
<1>1. c \in Nat /\ PageSize \in Nat /\ IsFiniteSet(of)
  BY OfDialogFinite, WebClientAssumption
<1>2. n \in Nat /\ n <= c /\ n <= PageSize /\ n \in {c, PageSize}
  <2> HIDE DEF c
  <2>1. \E x \in {c, PageSize} : \A y \in {c, PageSize} : x <= y
    BY <1>1
  <2> QED
    BY <1>1, <2>1 DEF Min
<1>3. Page(q, d) = [k \in 1 .. n |-> q[CHOOSE i \in of : Place(q, i) = k].id]
  BY DEF Page
<1> HIDE DEF n
<1>4. ASSUME NEW k \in 1 .. n
      PROVE  \E i \in of : Place(q, i) = k /\ Page(q, d)[k] = q[i].id
  <2>1. \E i \in of : Place(q, i) = k
    BY <1>1, <1>2, PlaceFilled
  <2> QED
    BY <1>3, <2>1
<1>5. ASSUME NEW i \in of, Place(q, i) <= PageSize
      PROVE  Place(q, i) \in 1 .. n /\ Page(q, d)[Place(q, i)] = q[i].id
  <2>1. Place(q, i) \in Nat \ {0}
    BY PlaceGrows
  <2>2. Place(q, i) <= c
    <3>1. {j \in of : j <= i} \in SUBSET of
      OBVIOUS
    <3>2. Cardinality({j \in of : j <= i}) <= c
      BY <1>1, <3>1, FS_Subset
    <3> QED
      BY <3>2 DEF Place, OfDialog
  <2>3. Place(q, i) \in 1 .. n
    BY <1>1, <1>2, <1>5, <2>1, <2>2
  <2>4. PICK j \in of : Place(q, j) = Place(q, i) /\ Page(q, d)[Place(q, i)] = q[j].id
    BY <1>4, <2>3
  <2>5. i \in Int /\ j \in Int
    BY DEF OfDialog
  <2>6. ~ (i < j) /\ ~ (j < i)
    <3>1. \A x, y \in of : x < y => Place(q, x) < Place(q, y)
      BY PlaceGrows
    <3> QED
      BY <2>1, <2>4, <3>1
  <2> QED
    BY <2>3, <2>4, <2>5, <2>6
<1> HIDE DEF of, c
<1>6. DOMAIN Page(q, d) = 1 .. n
  BY <1>3
<1>7. Page(q, d) = [k \in 1 .. n |-> Page(q, d)[k]]
  BY <1>3
<1>8. \A k \in DOMAIN Page(q, d) :
         /\ k \in 1 .. PageSize
         /\ \E i \in of : Place(q, i) = k /\ Page(q, d)[k] = q[i].id
  BY <1>1, <1>2, <1>4, <1>6
<1> QED
  BY <1>2, <1>5, <1>6, <1>7, <1>8 DEF of

LEMMA PageMembers ==
  ASSUME NEW S, NEW q \in Seq(S), NEW d, DistinctIds(q), NEW i \in DOMAIN q
  PROVE  q[i].id \in ToSet(Page(q, d)) <=>
            DialogOf[q[i].id] = d /\ Place(q, i) <= PageSize
<1>1. ASSUME q[i].id \in ToSet(Page(q, d))
      PROVE  DialogOf[q[i].id] = d /\ Place(q, i) <= PageSize
  <2>1. PICK k \in DOMAIN Page(q, d) : Page(q, d)[k] = q[i].id
    BY <1>1 DEF ToSet
  <2>2. PICK j \in OfDialog(q, d) : Place(q, j) = k /\ Page(q, d)[k] = q[j].id
    BY PageByPlace
  <2>3. j = i
    BY <2>1, <2>2 DEF DistinctIds, OfDialog
  <2>4. k \in 1 .. PageSize
    BY PageByPlace
  <2> QED
    BY <2>2, <2>3, <2>4, WebClientAssumption DEF OfDialog
<1>2. ASSUME DialogOf[q[i].id] = d, Place(q, i) <= PageSize
      PROVE  q[i].id \in ToSet(Page(q, d))
  <2>1. i \in OfDialog(q, d)
    BY <1>2 DEF OfDialog
  <2>2. Place(q, i) \in DOMAIN Page(q, d) /\ Page(q, d)[Place(q, i)] = q[i].id
    BY <1>2, <2>1, PageByPlace
  <2> QED
    BY <2>2 DEF ToSet
<1> QED
  BY <1>1, <1>2

LEMMA PageShows ==
  ASSUME NEW S, NEW q \in Seq(S), NEW d, DistinctIds(q),
         \A i \in DOMAIN q : q[i].id \in Messages
  PROVE  /\ Page(q, d) \in Seq(Messages)
         /\ IsInjective(Page(q, d))
         /\ \A m \in ToSet(Page(q, d)) : DialogOf[m] = d
<1>1. ASSUME NEW k \in DOMAIN Page(q, d)
      PROVE  Page(q, d)[k] \in Messages /\ DialogOf[Page(q, d)[k]] = d
  <2>1. PICK j \in OfDialog(q, d) : Place(q, j) = k /\ Page(q, d)[k] = q[j].id
    BY PageByPlace
  <2> QED
    BY <2>1 DEF OfDialog
<1>2. Page(q, d) \in Seq(Messages)
  <2>1. PICK n \in Nat : Page(q, d) = [k \in 1 .. n |-> Page(q, d)[k]]
    BY PageByPlace
  <2> DEFINE page == Page(q, d)
  <2>2. DOMAIN page = 1 .. n /\ \A k \in 1 .. n : page[k] \in Messages
    BY <1>1, <2>1
  <2>3. page \in [1 .. n -> Messages]
    <3> HIDE DEF page
    <3>1. page = [k \in 1 .. n |-> page[k]]
      BY <2>1 DEF page
    <3> QED
      BY <2>2, <3>1
  <2> QED
    BY <2>3
<1>3. ASSUME NEW k \in DOMAIN Page(q, d), NEW x \in DOMAIN Page(q, d),
             Page(q, d)[k] = Page(q, d)[x]
      PROVE  k = x
  <2>1. PICK j \in OfDialog(q, d) : Place(q, j) = k /\ Page(q, d)[k] = q[j].id
    BY PageByPlace
  <2>2. PICK y \in OfDialog(q, d) : Place(q, y) = x /\ Page(q, d)[x] = q[y].id
    BY PageByPlace
  <2> QED
    BY <1>3, <2>1, <2>2 DEF DistinctIds, OfDialog
<1> QED
  BY <1>1, <1>2, <1>3 DEF IsInjective, ToSet

(* Messages stored later change nobody's place.                               *)
LEMMA PlaceKept ==
  ASSUME NEW S, NEW q \in Seq(S), NEW r \in Seq(S), Len(q) <= Len(r),
         \A j \in DOMAIN q : r[j] = q[j],
         NEW i \in DOMAIN q
  PROVE  Place(r, i) = Place(q, i)
<1>1. {j \in OfDialog(r, DialogOf[r[i].id]) : j <= i}
        = {j \in OfDialog(q, DialogOf[q[i].id]) : j <= i}
  BY DEF OfDialog
<1> QED
  BY <1>1 DEF Place

-------------------------------------------------------------------------------
TypedIds == {typed[i].id : i \in DOMAIN typed}

(* The cookie is that of the user the page shows, or is gone.  A timer runs   *)
(* and a dialog is open only for a user.                                      *)
AccountInv ==
    /\ me # None => cookie \in {me, None}
    /\ timer => me # None
    /\ screen # "auth" => session # 0
    /\ open # None => me # None /\ me \in Participants[open]

SocketInv ==
    /\ ws # None => owner[ws] \in {me, None}
    /\ \A s \in Sockets : sock[s] = "registered" => owner[s] # None

(* An id is typed, and stored, at most once, and announced after that; what a *)
(* post that was given up may still store is not stored, and nobody's turn.   *)
IdsInv ==
    /\ \A i, j \in DOMAIN stored : stored[i].id = stored[j].id => i = j
    /\ \A i, j \in DOMAIN typed : typed[i].id = typed[j].id => i = j
    /\ StoredIds \cap Own \subseteq TypedIds
    /\ \A m \in Messages \ StoredIds : news[m] = "due"
    /\ adrift \subseteq lost /\ adrift \cap (pending \cup StoredIds) = {}

(* The messages of a login are those of the user whose cookie it has, and     *)
(* while one is pending the later ones wait.                                  *)
ChainInv ==
    /\ \A i \in DOMAIN typed :
          /\ typed[i].session <= session
          /\ typed[i].session = session => cookie \in {typed[i].by, None}
    /\ \A i, j \in DOMAIN typed :
          i < j /\ typed[i].session = typed[j].session /\ typed[i].id \in pending
             => typed[j].id \in pending \ StoredIds

(* stored[i] is shown, or one of the reasons of MissesOnlyKnown holds.        *)
Got(i) == stored[i].id \in ToSet(view) \/ Cut(i) \/ (i > read /\ Excused(i))

(* What will still bring stored[i] to the page: its announcement, the answer  *)
(* of a load, an event of the socket, or the load that follows when a socket  *)
(* opens.                                                                     *)
InLoad(l, i) ==
    /\ load[l].dialog = open
    /\ \/ load[l].step \in {"asked", "denied", "again"}
       \/ load[l].step = "answered" /\ i <= load[l].upto

SocketUp == ws # None /\ sock[ws] = "registered" /\ "open" \notin ToSet(inbox[ws])

BySocket(i) ==
    /\ again
    /\ SocketUp => stored[i].id \in ToSet(inbox[ws])

Due(i) == stored[i].session = session /\ news[stored[i].id] = "due"

Coming(i) == Due(i) \/ BySocket(i) \/ \E l \in Loads : InLoad(l, i)

NothingForgotten ==
    open # None => \A i \in DOMAIN stored :
        DialogOf[stored[i].id] = open => Got(i) \/ (i > read /\ Coming(i))

IInv ==
    /\ TypeOK /\ AccountInv /\ SocketInv /\ IdsInv /\ ChainInv
    /\ ViewIsTrue /\ NothingForgotten /\ PostedAsTyped /\ OneSocket

-------------------------------------------------------------------------------
(* Which steps change which variables.                                        *)
Stores ==
    \/ \E m \in Others : PostElsewhere(m)
    \/ \E i \in DOMAIN typed : ServePost(i) \/ ServeAdrift(i)

Answers ==
    \E i \in DOMAIN typed : RefusePost(i) \/ PostAnswered(i) \/ PostLost(i)

WhoChanges ==
    /\ UNCHANGED scope
    /\ UNCHANGED faults \/ Fault
    /\ fresh' \in {fresh, TRUE, FALSE}
    /\ \/ UNCHANGED <<screen, me, session>>
       \/ SignIn \/ enterApp \/ EnterFails \/ doLogout
    /\ \/ UNCHANGED cookie
       \/ SignIn \/ ServeLogout \/ RefreshToken
    /\ UNCHANGED stored \/ Stores
    /\ UNCHANGED news \/ (\E m \in Messages : Announce(m) \/ AnnounceFails(m))
    /\ \/ UNCHANGED <<open, reasons>>
       \/ SignIn \/ doLogout \/ (\E d \in Dialogs : openDialog(d))
       \/ (\E l \in Loads : LoadFails(l) \/ ApplyLoad(l))
    /\ \/ UNCHANGED view
       \/ SignIn \/ doLogout \/ (\E s \in Sockets : Heard(s))
       \/ (\E l \in Loads : ApplyLoad(l)) \/ (\E i \in DOMAIN typed : PostAnswered(i))
    /\ \/ UNCHANGED load
       \/ (\E d \in Dialogs : openDialog(d)) \/ (\E s \in Sockets : Opened(s))
       \/ (\E l \in Loads : LoadMessages(l))
    /\ UNCHANGED typed \/ (\E m \in Own : sendMessage(m))
    /\ UNCHANGED <<pending, lost>> \/ (\E m \in Own : sendMessage(m)) \/ Answers
    /\ UNCHANGED attempt \/ (\E i \in DOMAIN typed : DenyPost(i) \/ RenewPost(i))
    /\ \/ UNCHANGED adrift
       \/ ServeLogout \/ Expire
       \/ (\E i \in DOMAIN typed : ServeAdrift(i) \/ PostLost(i))
    /\ \/ UNCHANGED <<ws, timer, orphans>>
       \/ SignIn \/ doLogout \/ enterApp \/ Timeout \/ (\E s \in Sockets : onclose(s))
    /\ \/ UNCHANGED again
       \/ SignIn \/ doLogout \/ (\E s \in Sockets : Opened(s))
    /\ \/ UNCHANGED owner
       \/ enterApp \/ Timeout \/ (\E s \in Sockets : onclose(s))
    /\ \/ UNCHANGED sock
       \/ SignIn \/ doLogout \/ enterApp \/ Timeout
       \/ (\E s \in Sockets : Accept(s) \/ End(s) \/ onclose(s))
    /\ \/ UNCHANGED inbox
       \/ SignIn \/ doLogout \/ enterApp \/ Timeout \/ (\E m \in Messages : Announce(m))
       \/ (\E s \in Sockets : Accept(s) \/ End(s) \/ Opened(s) \/ Heard(s) \/ onclose(s))

LEMMA Steps ==
  ASSUME [Next]_vars
  PROVE  WhoChanges
<1> USE DEF Fault
<1>1. CASE SignIn \/ doLogout
  BY <1>1 DEF WhoChanges, SignIn, doLogout, resetAppState, reasons, budget
<1>2. CASE enterApp
  BY <1>2 DEF WhoChanges, enterApp, server, chat, reasons, outbox, budget
<1>3. CASE EnterFails \/ ServeLogout
  BY <1>3 DEF WhoChanges, EnterFails, ServeLogout,
              server, account, chat, reasons, outbox, sockets, link, budget
<1>4. ASSUME NEW d \in Dialogs, openDialog(d) PROVE WhoChanges
  BY <1>4 DEF WhoChanges, openDialog, server, account, outbox, sockets, link, budget
<1>5. ASSUME NEW m \in Own, sendMessage(m) PROVE WhoChanges
  BY <1>5 DEF WhoChanges, sendMessage, server, account, chat, reasons, sockets, link, budget
<1>6. ASSUME NEW m \in Others, PostElsewhere(m) PROVE WhoChanges
  BY <1>6 DEF WhoChanges, Stores, PostElsewhere,
              account, chat, reasons, outbox, sockets, link, budget
<1>7. ASSUME NEW i \in DOMAIN typed, ServePost(i) \/ ServeAdrift(i) PROVE WhoChanges
  BY <1>7 DEF WhoChanges, Stores, ServePost, ServeAdrift,
              account, chat, reasons, outbox, sockets, link, budget
<1>8. ASSUME NEW i \in DOMAIN typed, RefusePost(i) \/ PostAnswered(i) \/ PostLost(i)
      PROVE  WhoChanges
  BY <1>8 DEF WhoChanges, Answers, RefusePost, PostAnswered, PostLost,
              server, account, chat, reasons, sockets, link, budget
<1>16. ASSUME NEW i \in DOMAIN typed, DenyPost(i) \/ RenewPost(i) PROVE WhoChanges
  BY <1>16 DEF WhoChanges, DenyPost, RenewPost,
               server, account, chat, reasons, sockets, link, budget
<1>17. ASSUME NEW m \in Messages, Announce(m) \/ AnnounceFails(m) PROVE WhoChanges
  BY <1>17 DEF WhoChanges, Announce, AnnounceFails, AnnounceAs,
               account, chat, reasons, outbox, link, budget
<1>9. ASSUME NEW l \in Loads, LoadMessages(l) PROVE WhoChanges
  BY <1>9 DEF WhoChanges, LoadMessages, ServeLoad, DenyLoad, RenewLoad, LoadFails, ApplyLoad,
              server, account, chat, reasons, outbox, sockets, link, budget
<1>10. ASSUME NEW s \in Sockets, Accept(s) \/ Refuse(s) \/ Closed(s) \/ Break(s)
       PROVE  WhoChanges
  <2>1. CASE Accept(s)
    BY <2>1 DEF WhoChanges, Accept, server, account, chat, reasons, outbox, link, budget
  <2>2. CASE Refuse(s) \/ Closed(s) \/ Break(s)
    <3>1. End(s) /\ UNCHANGED scope /\ (UNCHANGED faults \/ Fault)
      BY <2>2 DEF Refuse, Closed, Break, budget
    <3> HIDE DEF Fault
    <3> QED
      BY <3>1 DEF WhoChanges, End, server, account, chat, reasons, outbox, link
  <2> QED
    BY <1>10, <2>1, <2>2
<1>11. ASSUME NEW s \in Sockets, Opened(s) PROVE WhoChanges
  BY <1>11 DEF WhoChanges, Opened, server, account, chat, reasons, outbox, budget
<1>12. ASSUME NEW s \in Sockets, Heard(s) PROVE WhoChanges
  BY <1>12 DEF WhoChanges, Heard, server, account, outbox, link, budget
<1>13. ASSUME NEW s \in Sockets, onclose(s) PROVE WhoChanges
  BY <1>13 DEF WhoChanges, onclose, server, account, chat, reasons, outbox, budget
<1>14. CASE Timeout \/ Expire \/ RefreshToken
  BY <1>14 DEF WhoChanges, Timeout, Expire, RefreshToken,
               server, account, chat, reasons, outbox, sockets, link, budget
<1>15. CASE UNCHANGED vars
  BY <1>15 DEF WhoChanges, vars, server, account, chat, reasons, outbox, sockets, link, budget
<1> QED
  BY <1>1, <1>2, <1>3, <1>4, <1>5, <1>6, <1>7, <1>8, <1>9, <1>10, <1>11, <1>12, <1>13,
     <1>14, <1>15, <1>16, <1>17 DEF Next, Post, Socket

(* Every variable keeps its type; the page shows the app for a user, and only *)
(* then.  The parts of TypeOK, by the variables that change together:         *)
Row    == [id : Messages, author : Users \cup {None},
           session : 0 .. Len(scope.accounts)]
Entry  == [id : Own, by : Users, session : 1 .. Len(scope.accounts)]
Answer == [step : {"free", "asked", "denied", "again", "answered"}, dialog : Dialogs \cup {None},
           upto : 0 .. Len(stored)]
States == {"free", "connecting", "registered", "closing", "closed"}
Events == Messages \cup {"open", "close"}

AccountType ==
    /\ scope \in Scopes
    /\ cookie \in Users \cup {None} /\ fresh \in BOOLEAN
    /\ screen \in {"auth", "entering", "app"}
    /\ me \in Users \cup {None} /\ (me # None <=> screen = "app")
    /\ session \in 0 .. Len(scope.accounts) /\ faults \in 0 .. scope.faults

ViewType ==
    /\ open \in Dialogs \cup {None}
    /\ view \in Seq(Messages) /\ wiped \subseteq Messages
    /\ crossed \in BOOLEAN /\ read \in 0 .. Len(stored) /\ failed \in 0 .. Len(stored) + 1

LinkType ==
    /\ ws \in Sockets \cup {None} /\ orphans \subseteq Sockets
    /\ timer \in BOOLEAN /\ again \in BOOLEAN

SocketType ==
    sock \in [Sockets -> States] /\ owner \in [Sockets -> Users \cup {None}]

OutboxType ==
    /\ typed \in Seq(Entry)
    /\ attempt \in [Own -> {"asked", "denied", "again"}]
    /\ pending \cup adrift \cup lost \subseteq TypedIds

StoredType == stored \in Seq(Row)
NewsType   == news \in [Messages -> {"due", "said", "early", "unsaid", "lost"}]
LoadType   == load \in [Loads -> Answer]
InboxType  == inbox \in [Sockets -> Seq(Events)]

LEMMA TypeParts ==
  TypeOK <=> /\ AccountType /\ StoredType /\ NewsType /\ ViewType /\ LoadType /\ OutboxType
             /\ LinkType /\ SocketType /\ InboxType
  BY DEF TypeOK, AccountType, StoredType, NewsType, ViewType, LoadType, OutboxType, LinkType,
         SocketType, InboxType, Row, Entry, Answer, States, Events, TypedIds

LEMMA ScopeType ==
  ASSUME scope \in Scopes
  PROVE  scope.accounts \in Seq(Users) /\ Len(scope.accounts) \in Nat /\ scope.faults \in Nat
  BY WebClientAssumption

LEMMA TypeInit == Init => TypeOK
<1> SUFFICES ASSUME Init PROVE TypeOK
  OBVIOUS
<1>1. AccountType
  BY ScopeType DEF Init, AccountType
<1>2. ViewType
  <2>1. view \in Seq(Messages) /\ Len(stored) = 0
    BY DEF Init
  <2>2. 0 \in 0 .. Len(stored) /\ 0 \in 0 .. Len(stored) + 1
    BY <2>1
  <2> QED
    BY <2>1, <2>2 DEF Init, ViewType
<1>6. LinkType
  BY DEF Init, LinkType
<1>3. StoredType /\ NewsType /\ InboxType
  BY DEF Init, StoredType, NewsType, InboxType
<1>5. OutboxType
  BY DEF Init, OutboxType
<1>4. LoadType /\ SocketType
  BY DEF Init, LoadType, SocketType, NoLoad, Answer, States
<1> QED
  BY <1>1, <1>2, <1>3, <1>4, <1>5, <1>6, TypeParts

LEMMA EntryIs ==
  ASSUME TypeOK, NEW i \in DOMAIN typed
  PROVE  /\ typed[i].id \in Own /\ typed[i].id \in Messages
         /\ typed[i].by \in Users /\ typed[i].session \in Nat
<1>1. typed[i] \in Entry
  BY TypeParts DEF OutboxType
<1> QED
  BY <1>1 DEF Entry, Messages

LEMMA RowIs ==
  ASSUME TypeOK, NEW i \in DOMAIN stored
  PROVE  /\ stored[i].id \in Messages /\ stored[i].author \in Users \cup {None}
         /\ stored[i].session \in Nat
<1>1. stored[i] \in Row
  BY TypeParts DEF StoredType
<1> QED
  BY <1>1 DEF Row

LEMMA ResetIs ==
  ASSUME SignIn \/ doLogout
  PROVE  /\ ws' = None /\ timer' = FALSE /\ again' = FALSE
         /\ me' = None /\ open' = None /\ view' = <<>>
         /\ crossed' = FALSE /\ read' = 0 /\ wiped' = {} /\ failed' = 0
         /\ UNCHANGED <<stored, news, load, typed, pending, attempt, lost, owner, orphans>>
  BY DEF SignIn, doLogout, resetAppState

LEMMA AccountTypeStep ==
  ASSUME TypeOK, AccountInv, [Next]_vars
  PROVE  AccountType'
<1>0. AccountType /\ UNCHANGED scope /\ Len(scope.accounts) \in Nat
  <2>1. AccountType
    BY TypeParts
  <2>2. UNCHANGED scope
    BY Steps DEF WhoChanges
  <2> QED
    BY <2>1, <2>2, ScopeType DEF AccountType
<1>1. faults' \in 0 .. scope.faults
  <2>1. CASE Fault
    BY <1>0, <2>1, ScopeType DEF AccountType, Fault
  <2>2. CASE UNCHANGED faults
    BY <1>0, <2>2 DEF AccountType
  <2> QED
    BY <2>1, <2>2, Steps DEF WhoChanges
<1>2. fresh' \in BOOLEAN
  BY <1>0, Steps DEF WhoChanges, AccountType
<1>3. CASE SignIn
  <2>1. scope.accounts \in Seq(Users)
    BY <1>0, ScopeType DEF AccountType
  <2>2. cookie' \in Users /\ session' \in 0 .. Len(scope.accounts)
    BY <1>0, <1>3, <2>1 DEF SignIn, AccountType
  <2> QED
    BY <1>0, <1>1, <1>2, <1>3, <2>2 DEF SignIn, resetAppState, AccountType
<1>4. CASE enterApp
  BY <1>0, <1>1, <1>2, <1>4 DEF enterApp, AccountType, AccountInv, server
<1>5. CASE EnterFails
  BY <1>0, <1>1, <1>2, <1>5 DEF EnterFails, AccountType, server
<1>6. CASE doLogout
  BY <1>0, <1>1, <1>2, <1>6 DEF doLogout, resetAppState, AccountType
<1>7. CASE ServeLogout
  BY <1>0, <1>1, <1>2, <1>7 DEF ServeLogout, account, AccountType
<1>8. CASE UNCHANGED <<screen, me, session, cookie>>
  BY <1>0, <1>1, <1>2, <1>8 DEF AccountType
<1>9. CASE RefreshToken
  BY <1>0, <1>1, <1>2, <1>9 DEF RefreshToken, account, AccountType
<1> QED
  BY <1>3, <1>4, <1>5, <1>6, <1>7, <1>8, <1>9, Steps DEF WhoChanges

(* A message that the server stores is a new one.                             *)
LEMMA StoresOne ==
  ASSUME TypeOK, IdsInv, Stores
  PROVE  \E m \in Messages, u \in Users \cup {None} : Store(m, u) /\ m \notin StoredIds
<1>1. ASSUME NEW m \in Others, PostElsewhere(m)
      PROVE  m \in Messages /\ Store(m, None) /\ m \notin StoredIds
  BY <1>1 DEF PostElsewhere, Messages
<1>2. ASSUME NEW i \in DOMAIN typed, ServePost(i) \/ ServeAdrift(i)
      PROVE  /\ typed[i].id \in Messages /\ cookie \in Users \cup {None}
             /\ Store(typed[i].id, cookie) /\ typed[i].id \notin StoredIds
  <2>1. typed[i] \in Entry /\ cookie \in Users \cup {None}
    BY TypeParts DEF OutboxType, AccountType
  <2>2. Store(typed[i].id, cookie) /\ typed[i].id \notin StoredIds
    BY <1>2 DEF ServePost, ServeAdrift, IdsInv
  <2> QED
    BY <2>1, <2>2 DEF Entry, Messages
<1> QED
  BY <1>1, <1>2 DEF Stores

LEMMA StoreType ==
  ASSUME TypeOK, NEW m \in Messages, NEW u \in Users \cup {None}, Store(m, u)
  PROVE  /\ stored' \in Seq(Row) /\ Len(stored') = Len(stored) + 1
         /\ Len(stored) \in Nat /\ DOMAIN stored = 1 .. Len(stored)
         /\ DOMAIN stored' = DOMAIN stored \cup {Len(stored) + 1}
         /\ \A i \in DOMAIN stored : stored'[i] = stored[i]
         /\ stored'[Len(stored) + 1].id = m /\ stored'[Len(stored) + 1].author = u
         /\ stored'[Len(stored) + 1].session = session
<1> DEFINE row == [id |-> m, author |-> u, session |-> session]
<1>1. row \in Row
  BY TypeParts DEF Row, AccountType
<1>2. stored \in Seq(Row) /\ stored' = Append(stored, row)
  BY TypeParts DEF StoredType, Store
<1>3. row.id = m /\ row.author = u /\ row.session = session
  OBVIOUS
<1> HIDE DEF row
<1>4. /\ stored' \in Seq(Row) /\ Len(stored') = Len(stored) + 1
      /\ Len(stored) \in Nat /\ DOMAIN stored = 1 .. Len(stored)
      /\ DOMAIN stored' = DOMAIN stored \cup {Len(stored) + 1}
      /\ \A i \in DOMAIN stored : stored'[i] = stored[i]
      /\ stored'[Len(stored) + 1] = row
  BY <1>1, <1>2
<1> QED
  BY <1>3, <1>4

LEMMA StoredTypeStep ==
  ASSUME TypeOK, IdsInv, [Next]_vars
  PROVE  StoredType' /\ Len(stored') \in Nat /\ Len(stored) <= Len(stored')
<1>0. StoredType /\ UNCHANGED scope /\ Row' = Row
  BY TypeParts, Steps DEF WhoChanges, Row
<1>1. CASE UNCHANGED stored
  BY <1>0, <1>1 DEF StoredType
<1>2. CASE Stores
  <2>1. PICK m \in Messages, u \in Users \cup {None} : Store(m, u)
    BY <1>2, StoresOne
  <2>2. stored' \in Seq(Row) /\ Len(stored') = Len(stored) + 1
    BY <2>1, StoreType
  <2> QED
    BY <1>0, <2>2 DEF StoredType
<1> QED
  BY <1>1, <1>2, Steps DEF WhoChanges

LEMMA NewsTypeStep ==
  ASSUME TypeOK, [Next]_vars
  PROVE  NewsType'
<1>0. NewsType
  BY TypeParts
<1>1. ASSUME NEW m \in Messages, Announce(m) \/ AnnounceFails(m) PROVE NewsType'
  BY <1>0, <1>1 DEF Announce, AnnounceFails, AnnounceAs, NewsType
<1> QED
  BY <1>0, <1>1, Steps DEF WhoChanges, NewsType

LEMMA OutboxTypeStep ==
  ASSUME TypeOK, AccountInv, [Next]_vars
  PROVE  OutboxType'
<1>0. OutboxType /\ UNCHANGED scope /\ Entry' = Entry
  BY TypeParts, Steps DEF WhoChanges, Entry
<1>1. ASSUME NEW m \in Own, sendMessage(m) PROVE OutboxType'
  <2> DEFINE row == [id |-> m, by |-> me, session |-> session]
  <2>1. me \in Users /\ session \in 1 .. Len(scope.accounts)
    BY <1>1, TypeParts, ScopeType DEF sendMessage, AccountType, AccountInv
  <2>2. row \in Entry
    BY <2>1 DEF Entry
  <2>3. typed' = Append(typed, row) /\ typed \in Seq(Entry)
    BY <1>0, <1>1 DEF sendMessage, OutboxType
  <2> HIDE DEF row
  <2>4. typed' \in Seq(Entry) /\ DOMAIN typed' = DOMAIN typed \cup {Len(typed')}
        /\ typed'[Len(typed')] = row /\ \A i \in DOMAIN typed : typed'[i] = typed[i]
    <3> DEFINE n == Len(typed)
    <3>1. /\ n \in Nat /\ DOMAIN typed = 1 .. n /\ typed' \in Seq(Entry)
          /\ Len(typed') = n + 1 /\ DOMAIN typed' = 1 .. n + 1 /\ typed'[n + 1] = row
          /\ \A i \in 1 .. n : typed'[i] = typed[i]
      BY <2>2, <2>3
    <3> HIDE DEF n
    <3>2. 1 .. n + 1 = (1 .. n) \cup {n + 1}
      BY <3>1
    <3> QED
      BY <3>1, <3>2
  <2>5. TypedIds \cup {m} \subseteq TypedIds'
    <3>1. typed'[Len(typed')].id = m
      BY <2>4 DEF row
    <3> QED
      BY <2>4, <3>1, Zenon DEF TypedIds
  <2>6. pending' \cup adrift' \cup lost' \subseteq TypedIds \cup {m}
    BY <1>0, <1>1 DEF sendMessage, OutboxType
  <2>7. UNCHANGED attempt
    BY <1>1 DEF sendMessage
  <2> QED
    BY <1>0, <2>4, <2>5, <2>6, <2>7 DEF OutboxType
<1>2. CASE UNCHANGED typed
  <2>1. typed' \in Seq(Entry) /\ TypedIds' = TypedIds
    BY <1>0, <1>2 DEF OutboxType, TypedIds
  <2>2. pending' \cup lost' \subseteq TypedIds
    <3>1. CASE Answers
      BY <1>0, <3>1 DEF Answers, RefusePost, PostAnswered, PostLost, OutboxType, TypedIds
    <3>2. CASE UNCHANGED <<pending, lost>>
      BY <1>0, <3>2 DEF OutboxType
    <3>3. ASSUME NEW m \in Own, sendMessage(m) PROVE FALSE
      <4>1. Len(typed') = Len(typed) + 1
        BY <1>0, <3>3 DEF sendMessage, OutboxType
      <4> QED
        BY <1>0, <1>2, <4>1 DEF OutboxType
    <3> QED
      BY <3>1, <3>2, <3>3, Steps DEF WhoChanges
  <2>3. adrift' \subseteq TypedIds
    <3>1. ASSUME NEW i \in DOMAIN typed, ServeAdrift(i) \/ PostLost(i)
          PROVE  adrift' \subseteq TypedIds
      BY <1>0, <3>1 DEF ServeAdrift, PostLost, OutboxType, TypedIds
    <3>2. CASE ServeLogout \/ Expire
      BY <3>2 DEF ServeLogout, Expire
    <3>3. CASE UNCHANGED adrift
      BY <1>0, <3>3 DEF OutboxType
    <3> QED
      BY <3>1, <3>2, <3>3, Steps DEF WhoChanges
  <2>4. attempt' \in [Own -> {"asked", "denied", "again"}]
    <3>1. ASSUME NEW i \in DOMAIN typed, DenyPost(i) \/ RenewPost(i)
          PROVE  attempt' \in [Own -> {"asked", "denied", "again"}]
      BY <1>0, <3>1 DEF DenyPost, RenewPost, OutboxType
    <3> QED
      BY <1>0, <3>1, Steps DEF WhoChanges, OutboxType
  <2> QED
    BY <1>0, <2>1, <2>2, <2>3, <2>4 DEF OutboxType
<1> QED
  BY <1>1, <1>2, Steps DEF WhoChanges

(* The answer of a load is cut from what was stored when it was served.       *)
Served(l) == SubSeq(stored, 1, load[l].upto)

LEMMA ServedIs ==
  ASSUME TypeOK, IdsInv, NEW l \in Loads
  PROVE  /\ Served(l) \in Seq(Row) /\ DOMAIN Served(l) = 1 .. load[l].upto
         /\ load[l].upto \in Nat /\ load[l].upto <= Len(stored)
         /\ \A i \in DOMAIN Served(l) : i \in DOMAIN stored /\ Served(l)[i] = stored[i]
         /\ DistinctIds(Served(l))
         /\ \A i \in DOMAIN Served(l) : Served(l)[i].id \in Messages
<1>1. stored \in Seq(Row) /\ load[l].upto \in 0 .. Len(stored)
  BY TypeParts DEF StoredType, LoadType, Answer
<1>2. Served(l) \in Seq(Row) /\ Len(Served(l)) = load[l].upto
      /\ \A i \in 1 .. load[l].upto : Served(l)[i] = stored[i]
  BY <1>1 DEF Served
<1>3. DOMAIN Served(l) = 1 .. load[l].upto
  BY <1>2
<1>4. \A i \in DOMAIN Served(l) : i \in DOMAIN stored /\ Served(l)[i] = stored[i]
  BY <1>1, <1>2, <1>3
<1>5. DistinctIds(Served(l))
  BY <1>4 DEF DistinctIds, IdsInv
<1>6. \A i \in DOMAIN Served(l) : Served(l)[i].id \in Messages
  <2>1. \A i \in DOMAIN Served(l) : Served(l)[i] \in Row
    BY <1>2
  <2> QED
    BY <2>1 DEF Row
<1> QED
  BY <1>1, <1>2, <1>3, <1>4, <1>5, <1>6

LEMMA ApplyShows ==
  ASSUME TypeOK, IdsInv, NEW l \in Loads, ApplyLoad(l)
  PROVE  /\ view' \in Seq(Messages) /\ IsInjective(view')
         /\ \A m \in ToSet(view') : DialogOf[m] = load[l].dialog
         /\ view' = Page(Served(l), load[l].dialog)
<1>1. view' = Page(Served(l), load[l].dialog)
  BY DEF ApplyLoad, Served
<1> QED
  BY <1>1, ServedIs, PageShows

LEMMA appendMessageShows ==
  ASSUME TypeOK, IsInjective(view), NEW m \in Messages
  PROVE  /\ appendMessage(m) \in Seq(Messages)
         /\ IsInjective(appendMessage(m))
         /\ ToSet(appendMessage(m)) = ToSet(view) \cup {m}
<1>1. view \in Seq(Messages)
  BY TypeParts DEF ViewType
<1>2. CASE m \in ToSet(view)
  BY <1>1, <1>2 DEF appendMessage
<1>3. CASE m \notin ToSet(view)
  <2>1. appendMessage(m) = Append(view, m)
    BY <1>3 DEF appendMessage
  <2>2. Append(view, m) \in Seq(Messages)
        /\ DOMAIN Append(view, m) = DOMAIN view \cup {Len(view) + 1}
        /\ \A i \in DOMAIN view : Append(view, m)[i] = view[i]
        /\ Append(view, m)[Len(view) + 1] = m
    BY <1>1
  <2>3. \A i \in DOMAIN view : view[i] # m
    BY <1>3 DEF ToSet
  <2> DEFINE longer == Append(view, m)
  <2> HIDE DEF longer
  <2>4. IsInjective(longer)
    BY <2>2, <2>3 DEF IsInjective, longer
  <2>5. ToSet(longer) = ToSet(view) \cup {m}
    BY <2>2 DEF ToSet, longer
  <2> QED
    BY <2>1, <2>2, <2>4, <2>5 DEF longer
<1> QED
  BY <1>2, <1>3

LEMMA ViewTypeStep ==
  ASSUME TypeOK, IdsInv, ViewIsTrue, [Next]_vars
  PROVE  ViewType'
<1>0. ViewType /\ Len(stored) \in Nat /\ Len(stored') \in Nat /\ Len(stored) <= Len(stored')
  BY TypeParts, StoredTypeStep DEF StoredType
<1>4. /\ 0 .. Len(stored) \subseteq 0 .. Len(stored')
      /\ 0 .. Len(stored) + 1 \subseteq 0 .. Len(stored') + 1
      /\ 0 \in 0 .. Len(stored') /\ 0 \in 0 .. Len(stored') + 1
      /\ Len(stored) + 1 \in 0 .. Len(stored') + 1
  BY <1>0
<1> DEFINE Typed == /\ open' \in Dialogs \cup {None} /\ crossed' \in BOOLEAN
                    /\ read' \in 0 .. Len(stored') /\ failed' \in 0 .. Len(stored') + 1
<1>1. Typed
  <2>1. CASE SignIn \/ doLogout
    BY <1>4, <2>1, ResetIs
  <2>2. ASSUME NEW d \in Dialogs, openDialog(d) PROVE Typed
    BY <1>4, <2>2 DEF openDialog, ViewType
  <2>3. ASSUME NEW l \in Loads, LoadFails(l) \/ ApplyLoad(l) PROVE Typed
    <3>1. load[l].upto \in 0 .. Len(stored)
      BY TypeParts DEF LoadType, Answer
    <3> QED
      BY <1>0, <1>4, <2>3, <3>1 DEF LoadFails, ApplyLoad, ViewType
  <2>4. CASE UNCHANGED <<open, reasons>>
    BY <1>0, <1>4, <2>4 DEF ViewType, reasons
  <2> QED
    BY <2>1, <2>2, <2>3, <2>4, Steps DEF WhoChanges
<1>2. wiped' \subseteq Messages
  <2>1. CASE SignIn \/ doLogout
    BY <2>1, ResetIs
  <2>2. ASSUME NEW d \in Dialogs, openDialog(d) PROVE wiped' \subseteq Messages
    BY <2>2 DEF openDialog
  <2>3. ASSUME NEW l \in Loads, LoadFails(l) PROVE wiped' \subseteq Messages
    BY <1>0, <2>3 DEF LoadFails, ViewType
  <2>4. ASSUME NEW l \in Loads, ApplyLoad(l) PROVE wiped' \subseteq Messages
    <3>1. ToSet(view) \subseteq Messages
      BY <1>0 DEF ViewType, ToSet
    <3> QED
      BY <1>0, <2>4, <3>1 DEF ApplyLoad, ViewType
  <2>5. CASE UNCHANGED <<open, reasons>>
    BY <1>0, <2>5 DEF ViewType, reasons
  <2> QED
    BY <2>1, <2>2, <2>3, <2>4, <2>5, Steps DEF WhoChanges
<1>3. view' \in Seq(Messages)
  <2>1. CASE SignIn \/ doLogout
    <3>1. view' = <<>>
      BY <2>1, ResetIs
    <3> QED
      BY <3>1
  <2>2. ASSUME NEW s \in Sockets, Heard(s) PROVE view' \in Seq(Messages)
    BY <1>0, <2>2, appendMessageShows DEF Heard, ViewType, ViewIsTrue
  <2>3. ASSUME NEW l \in Loads, ApplyLoad(l) PROVE view' \in Seq(Messages)
    BY <2>3, ApplyShows
  <2>4. ASSUME NEW i \in DOMAIN typed, PostAnswered(i) PROVE view' \in Seq(Messages)
    <3>1. typed[i].id \in Messages
      BY EntryIs
    <3> QED
      BY <1>0, <2>4, <3>1, appendMessageShows DEF PostAnswered, ViewType, ViewIsTrue
  <2>5. CASE UNCHANGED view
    BY <1>0, <2>5 DEF ViewType
  <2> QED
    BY <2>1, <2>2, <2>3, <2>4, <2>5, Steps DEF WhoChanges
<1> QED
  BY <1>1, <1>2, <1>3 DEF ViewType

LEMMA LoadTypeStep ==
  ASSUME TypeOK, IdsInv, [Next]_vars
  PROVE  LoadType'
<1>0. LoadType /\ Len(stored) \in Nat /\ Len(stored') \in Nat /\ Len(stored) <= Len(stored')
  BY TypeParts, StoredTypeStep DEF StoredType
<1>1. Answer \subseteq Answer' /\ NoLoad \in Answer'
  BY <1>0 DEF Answer, NoLoad
<1>2. ASSUME NEW d \in Dialogs, Ask(d) PROVE LoadType'
  <2>1. [step |-> "asked", dialog |-> d, upto |-> 0] \in Answer'
    BY <1>0 DEF Answer
  <2> QED
    BY <1>0, <1>1, <1>2, <2>1 DEF Ask, LoadType
<1>3. CASE UNCHANGED load
  BY <1>0, <1>1, <1>3 DEF LoadType
<1>4. ASSUME NEW l \in Loads, LoadMessages(l) PROVE LoadType'
  <2>1. CASE ServeLoad(l)
    <3>1. load[l] \in Answer
      BY <1>0 DEF LoadType
    <3>2. Len(stored) \in 0 .. Len(stored')
      BY <1>0
    <3>4. [load[l] EXCEPT !.step = "answered", !.upto = Len(stored)] \in Answer'
      BY <3>1, <3>2 DEF Answer
    <3>3. load' = [load EXCEPT ![l] = [load[l] EXCEPT !.step = "answered", !.upto = Len(stored)]]
      BY <1>0, <2>1 DEF ServeLoad, LoadType
    <3> QED
      BY <1>0, <1>1, <3>3, <3>4 DEF LoadType
  <2>2. CASE LoadFails(l) \/ ApplyLoad(l)
    BY <1>0, <1>1, <2>2 DEF LoadFails, ApplyLoad, LoadType
  <2>3. ASSUME NEW step \in {"denied", "again"}, load' = [load EXCEPT ![l].step = step]
        PROVE  LoadType'
    <3>1. [load[l] EXCEPT !.step = step] \in Answer
      BY <1>0 DEF LoadType, Answer
    <3> QED
      BY <1>0, <1>1, <2>3, <3>1 DEF LoadType
  <2>4. CASE DenyLoad(l) \/ RenewLoad(l)
    BY <2>3, <2>4 DEF DenyLoad, RenewLoad
  <2> QED
    BY <1>4, <2>1, <2>2, <2>4 DEF LoadMessages
<1>5. ASSUME NEW d \in Dialogs, openDialog(d) PROVE LoadType'
  BY <1>2, <1>5 DEF openDialog
<1>6. ASSUME NEW s \in Sockets, Opened(s) PROVE LoadType'
  <2>1. open \in Dialogs \cup {None}
    BY TypeParts DEF ViewType
  <2> QED
    BY <1>2, <1>3, <1>6, <2>1 DEF Opened, Reload
<1> QED
  BY <1>3, <1>4, <1>5, <1>6, Steps DEF WhoChanges

LEMMA LinkTypeStep ==
  ASSUME TypeOK, [Next]_vars
  PROVE  LinkType'
<1>0. LinkType
  BY TypeParts
<1>1. again' \in BOOLEAN
  <2>1. CASE SignIn \/ doLogout
    BY <2>1, ResetIs
  <2>2. ASSUME NEW s \in Sockets, Opened(s) PROVE again' \in BOOLEAN
    BY <2>2 DEF Opened
  <2> QED
    BY <1>0, <2>1, <2>2, Steps DEF WhoChanges, LinkType
<1>2. ws' \in Sockets \cup {None} /\ timer' \in BOOLEAN /\ orphans' \subseteq Sockets
  <2> DEFINE G == ws' \in Sockets \cup {None} /\ timer' \in BOOLEAN /\ orphans' \subseteq Sockets
  <2>1. CASE SignIn \/ doLogout
    BY <1>0, <2>1, ResetIs DEF LinkType
  <2>2. CASE enterApp
    BY <1>0, <2>2 DEF enterApp, connectWs, LinkType
  <2>3. CASE Timeout
    BY <1>0, <2>3 DEF Timeout, connectWs, LinkType
  <2>4. ASSUME NEW s \in Sockets, onclose(s) PROVE G
    BY <1>0, <2>4 DEF onclose, Retries, LinkType
  <2>5. CASE UNCHANGED <<ws, timer, orphans>>
    BY <1>0, <2>5 DEF LinkType
  <2> QED
    BY <2>1, <2>2, <2>3, <2>4, <2>5, Steps DEF WhoChanges
<1> QED
  BY <1>1, <1>2 DEF LinkType

LEMMA OnlyCloseType ==
  ASSUME NEW q
  PROVE  OnlyClose(q) \in Seq(Events)
<1>1. "close" \in Events
  BY DEF Events
<1>2. <<"close">> \in Seq(Events) /\ <<>> \in Seq(Events)
  BY <1>1
<1> QED
  BY <1>2 DEF OnlyClose

(* What connectWs and close() make of the sockets.                            *)
LEMMA ConnectIs ==
  ASSUME TypeOK, connectWs
  PROVE  \E s \in Sockets :
           /\ sock[s] = "free" /\ ws' = s /\ orphans' = orphans
           /\ sock' \in [Sockets -> States] /\ owner' \in [Sockets -> Users \cup {None}]
           /\ inbox' \in [Sockets -> Seq(Events)]
           /\ sock'[s] = "connecting" /\ owner'[s] \in {cookie, None}
           /\ \A x \in Sockets \ {s} :
                 /\ owner'[x] = owner[x]
                 /\ x # ws => sock'[x] = sock[x] /\ inbox'[x] = inbox[x]
                 /\ x = ws => sock'[x] \in {"closing", "closed"}
<1>0. SocketType /\ InboxType
  BY TypeParts
<1>1. PICK s \in Sockets :
        /\ sock[s] = "free"
        /\ sock' = [x \in Sockets |-> IF x = s THEN "connecting"
                                      ELSE IF x = ws THEN Closing(x) ELSE sock[x]]
        /\ inbox' = [x \in Sockets |-> IF x = ws THEN OnlyClose(inbox[x]) ELSE inbox[x]]
        /\ owner' = [owner EXCEPT ![s] = IF fresh THEN cookie ELSE None]
        /\ ws' = s /\ orphans' = orphans
  BY DEF connectWs
<1>2. \A x \in Sockets : Closing(x) \in {"closing", "closed"}
  BY DEF Closing
<1>3. sock' \in [Sockets -> States] /\ sock'[s] = "connecting"
      /\ \A x \in Sockets \ {s} : /\ x # ws => sock'[x] = sock[x]
                                  /\ x = ws => sock'[x] \in {"closing", "closed"}
  BY <1>0, <1>1, <1>2 DEF SocketType, States
<1>4. cookie \in Users \cup {None}
  BY TypeParts DEF AccountType
<1>5. owner' \in [Sockets -> Users \cup {None}] /\ owner'[s] \in {cookie, None}
      /\ \A x \in Sockets \ {s} : owner'[x] = owner[x]
  BY <1>0, <1>1, <1>4 DEF SocketType
<1>6. \A x \in Sockets : OnlyClose(inbox[x]) \in Seq(Events)
  BY OnlyCloseType
<1>7. inbox' \in [Sockets -> Seq(Events)] /\ \A x \in Sockets : x # ws => inbox'[x] = inbox[x]
  BY <1>0, <1>1, <1>6 DEF InboxType
<1> QED
  BY <1>1, <1>3, <1>5, <1>7

LEMMA CloseIs ==
  ASSUME TypeOK, SignIn \/ doLogout
  PROVE  /\ sock' \in [Sockets -> States] /\ inbox' \in [Sockets -> Seq(Events)]
         /\ \A x \in Sockets : /\ x # ws => sock'[x] = sock[x] /\ inbox'[x] = inbox[x]
                               /\ x = ws => sock'[x] \in {"closing", "closed"}
<1>0. SocketType /\ InboxType
  BY TypeParts
<1>1. resetAppState
  BY DEF SignIn, doLogout
<1>2. CASE ws = None
  <2>1. UNCHANGED <<sock, inbox>> /\ ws \notin Sockets
    BY <1>1, <1>2, WebClientAssumption DEF resetAppState
  <2> QED
    BY <1>0, <2>1 DEF SocketType, InboxType
<1>3. CASE ws # None
  <2>1. Close(ws)
    BY <1>1, <1>3 DEF resetAppState
  <2>2. \A x \in Sockets : Closing(x) \in {"closing", "closed"}
    BY DEF Closing
  <2>3. \A x \in Sockets : OnlyClose(inbox[x]) \in Seq(Events)
    BY OnlyCloseType
  <2>4. sock' = [sock EXCEPT ![ws] = Closing(ws)]
        /\ inbox' = [inbox EXCEPT ![ws] = OnlyClose(inbox[ws])]
    BY <2>1 DEF Close
  <2>5. sock' \in [Sockets -> States]
        /\ \A x \in Sockets : /\ x # ws => sock'[x] = sock[x]
                              /\ x = ws => sock'[x] \in {"closing", "closed"}
    BY <1>0, <2>2, <2>4 DEF SocketType, States
  <2>6. inbox' \in [Sockets -> Seq(Events)]
        /\ \A x \in Sockets : x # ws => inbox'[x] = inbox[x]
    BY <1>0, <2>3, <2>4 DEF InboxType
  <2> QED
    BY <2>5, <2>6
<1> QED
  BY <1>2, <1>3

LEMMA SocketTypeStep ==
  ASSUME TypeOK, [Next]_vars
  PROVE  SocketType'
<1>0. SocketType
  BY TypeParts
<1>1. owner' \in [Sockets -> Users \cup {None}]
  <2>1. CASE enterApp \/ Timeout
    <3>1. connectWs
      BY <2>1 DEF enterApp, Timeout
    <3> QED
      BY <3>1, ConnectIs
  <2>2. ASSUME NEW s \in Sockets, onclose(s)
        PROVE  owner' \in [Sockets -> Users \cup {None}]
    BY <1>0, <2>2 DEF onclose, SocketType
  <2>3. CASE UNCHANGED owner
    BY <1>0, <2>3 DEF SocketType
  <2> QED
    BY <2>1, <2>2, <2>3, Steps DEF WhoChanges
<1>2. sock' \in [Sockets -> States]
  <2>1. CASE enterApp \/ Timeout
    <3>1. connectWs
      BY <2>1 DEF enterApp, Timeout
    <3> QED
      BY <3>1, ConnectIs
  <2>2. CASE SignIn \/ doLogout
    BY <2>2, CloseIs
  <2>3. ASSUME NEW s \in Sockets, Accept(s) \/ End(s) \/ onclose(s)
        PROVE  sock' \in [Sockets -> States]
    BY <1>0, <2>3 DEF Accept, End, onclose, SocketType, States
  <2>4. CASE UNCHANGED sock
    BY <1>0, <2>4 DEF SocketType
  <2> QED
    BY <2>1, <2>2, <2>3, <2>4, Steps DEF WhoChanges
<1> QED
  BY <1>1, <1>2 DEF SocketType

LEMMA InboxTypeStep ==
  ASSUME TypeOK, IdsInv, [Next]_vars
  PROVE  InboxType'
<1>0. InboxType /\ "open" \in Events /\ "close" \in Events
  BY TypeParts DEF Events
<1>1. CASE enterApp \/ Timeout
  <2>1. connectWs
    BY <1>1 DEF enterApp, Timeout
  <2> QED
    BY <2>1, ConnectIs DEF InboxType
<1>2. CASE SignIn \/ doLogout
  BY <1>2, CloseIs DEF InboxType
<1>3. ASSUME NEW s \in Sockets, Accept(s) \/ End(s) PROVE InboxType'
  <2>1. PICK e \in {"open", "close"} : inbox' = [inbox EXCEPT ![s] = Append(@, e)]
    BY <1>3 DEF Accept, End
  <2>2. Append(inbox[s], e) \in Seq(Events)
    BY <1>0, <2>1 DEF InboxType
  <2> QED
    BY <1>0, <2>1, <2>2 DEF InboxType
<1>4. ASSUME NEW s \in Sockets, Opened(s) \/ Heard(s) \/ onclose(s) PROVE InboxType'
  <2>1. inbox' = [inbox EXCEPT ![s] = Tail(@)] /\ inbox[s] # <<>>
    BY <1>4 DEF Opened, Heard, onclose, Dispatch
  <2>2. Tail(inbox[s]) \in Seq(Events)
    BY <1>0, <2>1 DEF InboxType
  <2> QED
    BY <1>0, <2>1, <2>2 DEF InboxType
<1>5. ASSUME NEW m \in Messages, Announce(m) PROVE InboxType'
  <2>1. \A s \in Sockets : Append(inbox[s], m) \in Seq(Events)
    BY <1>0 DEF InboxType, Events
  <2> QED
    BY <1>0, <1>5, <2>1 DEF Announce, InboxType
<1>6. CASE UNCHANGED inbox
  BY <1>0, <1>6 DEF InboxType
<1> QED
  BY <1>1, <1>2, <1>3, <1>4, <1>5, <1>6, Steps DEF WhoChanges

LEMMA TypeStep ==
  ASSUME TypeOK, AccountInv, IdsInv, ViewIsTrue, [Next]_vars
  PROVE  TypeOK'
<1>1. AccountType' /\ StoredType' /\ NewsType' /\ ViewType' /\ LoadType' /\ OutboxType'
      /\ LinkType' /\ SocketType' /\ InboxType'
  BY AccountTypeStep, StoredTypeStep, NewsTypeStep, ViewTypeStep, LoadTypeStep, OutboxTypeStep,
     LinkTypeStep, SocketTypeStep, InboxTypeStep
<1> QED
  BY <1>1, TypeParts, PTL

-------------------------------------------------------------------------------
(* Each part of the inductive invariant is kept.                              *)
LEMMA AccountStep ==
  ASSUME TypeOK, AccountInv, TypeOK', [Next]_vars
  PROVE  AccountInv'
<1>0. AccountType /\ AccountType' /\ ViewType
  BY TypeParts, PTL
<1>1. /\ me' # None => cookie' \in {me', None}
      /\ screen' # "auth" => session' # 0
  <2>0. session \in Nat /\ session' \in Nat
    BY <1>0, ScopeType DEF AccountType
  <2>1. CASE SignIn
    <3>1. scope.accounts[session + 1] \in Users
      <4>1. session + 1 \in 1 .. Len(scope.accounts) /\ scope.accounts \in Seq(Users)
        BY <1>0, <2>0, <2>1, ScopeType DEF SignIn, AccountType
      <4> QED
        BY <4>1
    <3>2. me' = None
      BY <2>1, ResetIs
    <3>3. cookie' \in Users /\ session' = session + 1
      BY <2>1, <3>1 DEF SignIn
    <3> QED
      BY <2>0, <3>2, <3>3, WebClientAssumption
  <2>2. CASE enterApp
    BY <2>2 DEF enterApp, server, AccountInv
  <2>3. CASE EnterFails
    BY <1>0, <2>3 DEF EnterFails, AccountInv, server, AccountType
  <2>4. CASE doLogout
    BY <2>0, <2>4, ResetIs DEF doLogout
  <2>5. CASE ServeLogout
    BY <1>0, <2>5 DEF ServeLogout, AccountInv, account
  <2>6. CASE UNCHANGED <<screen, me, session>> /\ UNCHANGED cookie
    BY <2>6 DEF AccountInv
  <2>7. CASE RefreshToken
    BY <2>7 DEF RefreshToken, AccountInv, account
  <2> QED
    BY <2>1, <2>2, <2>3, <2>4, <2>5, <2>6, <2>7, Steps DEF WhoChanges
<1>2. timer' => me' # None
  <2>1. CASE SignIn \/ doLogout
    BY <2>1, ResetIs
  <2>2. CASE enterApp
    BY <1>0, <2>2 DEF enterApp, AccountInv, AccountType
  <2>3. CASE Timeout
    BY <2>3 DEF Timeout
  <2>4. ASSUME NEW s \in Sockets, onclose(s) PROVE timer' => me' # None
    BY <2>4 DEF onclose, AccountInv, Retries, account
  <2>5. CASE EnterFails
    BY <2>5 DEF EnterFails, AccountInv, link
  <2>6. CASE UNCHANGED <<screen, me, session>> /\ UNCHANGED <<ws, timer, orphans>>
    BY <2>6 DEF AccountInv
  <2> QED
    BY <2>1, <2>2, <2>3, <2>4, <2>5, <2>6, Steps DEF WhoChanges
<1>3. open' # None => me' # None /\ me' \in Participants[open']
  <2>1. CASE SignIn \/ doLogout
    BY <2>1, ResetIs
  <2>2. CASE enterApp
    BY <1>0, <2>2 DEF enterApp, AccountInv, AccountType, chat
  <2>3. CASE EnterFails
    BY <2>3 DEF EnterFails, AccountInv, chat
  <2>4. ASSUME NEW d \in Dialogs, openDialog(d)
        PROVE  open' # None => me' # None /\ me' \in Participants[open']
    BY <2>4 DEF openDialog, account
  <2>5. ASSUME NEW l \in Loads, LoadFails(l) \/ ApplyLoad(l)
        PROVE  open' # None => me' # None /\ me' \in Participants[open']
    BY <2>5 DEF LoadFails, ApplyLoad, AccountInv, account
  <2>6. CASE UNCHANGED <<screen, me, session>> /\ UNCHANGED <<open, reasons>>
    BY <2>6 DEF AccountInv, reasons
  <2> QED
    BY <2>1, <2>2, <2>3, <2>4, <2>5, <2>6, Steps DEF WhoChanges
<1> QED
  BY <1>1, <1>2, <1>3 DEF AccountInv

LEMMA SocketStep ==
  ASSUME TypeOK, AccountInv, SocketInv, [Next]_vars
  PROVE  SocketInv'
<1>0. SocketType /\ LinkType /\ AccountType
  BY TypeParts
<1>1. CASE SignIn \/ doLogout
  <2>1. ws' = None /\ UNCHANGED owner
    BY <1>1, ResetIs
  <2>2. \A s \in Sockets : sock'[s] = "registered" => sock[s] = "registered"
    BY <1>1, CloseIs
  <2> QED
    BY <2>1, <2>2 DEF SocketInv
<1>2. CASE enterApp \/ Timeout
  <2>1. connectWs
    BY <1>2 DEF enterApp, Timeout
  <2>2. PICK s \in Sockets :
          /\ ws' = s /\ sock'[s] = "connecting" /\ owner'[s] \in {cookie, None}
          /\ \A x \in Sockets \ {s} :
               /\ owner'[x] = owner[x]
               /\ x # ws => sock'[x] = sock[x]
               /\ x = ws => sock'[x] \in {"closing", "closed"}
    BY <2>1, ConnectIs
  <2>3. owner'[s] \in {me', None}
    <3>1. CASE enterApp
      BY <2>2, <3>1 DEF enterApp
    <3>2. CASE Timeout
      BY <2>2, <3>2 DEF Timeout, AccountInv, account
    <3> QED
      BY <1>2, <3>1, <3>2
  <2> QED
    BY <2>2, <2>3 DEF SocketInv
<1>3. ASSUME NEW s \in Sockets, Accept(s) PROVE SocketInv'
  BY <1>0, <1>3 DEF Accept, SocketInv, SocketType, account, link
<1>4. ASSUME NEW s \in Sockets, End(s) PROVE SocketInv'
  BY <1>0, <1>4 DEF End, SocketInv, SocketType, account, link
<1>5. ASSUME NEW s \in Sockets, onclose(s) PROVE SocketInv'
  BY <1>0, <1>5 DEF onclose, SocketInv, SocketType
<1>6. CASE EnterFails
  BY <1>0, <1>6 DEF EnterFails, SocketInv, sockets, link, server
<1>7. CASE UNCHANGED <<screen, me, session>> /\ UNCHANGED <<ws, timer, orphans>>
           /\ UNCHANGED owner /\ UNCHANGED sock
  BY <1>7 DEF SocketInv
<1> QED
  BY <1>1, <1>2, <1>3, <1>4, <1>5, <1>6, <1>7, Steps DEF WhoChanges

LEMMA OneSocketStep ==
  ASSUME TypeOK, AccountInv, OneSocket, [Next]_vars
  PROVE  OneSocket'
<1>0. SocketType /\ LinkType /\ AccountType
  BY TypeParts
<1>1. CASE SignIn \/ doLogout
  <2>1. UNCHANGED <<owner, orphans>>
    BY <1>1, ResetIs
  <2>2. \A s \in Sockets : /\ s # ws => sock'[s] = sock[s]
                           /\ s = ws => sock'[s] \in {"closing", "closed"}
    BY <1>1, CloseIs
  <2> QED
    BY <2>1, <2>2 DEF OneSocket, Live
<1>2. CASE enterApp \/ Timeout
  <2>1. connectWs
    BY <1>2 DEF enterApp, Timeout
  <2>2. PICK s \in Sockets :
          /\ ws' = s /\ owner'[s] \in {cookie, None} /\ orphans' = orphans
          /\ \A x \in Sockets \ {s} :
               /\ x # ws => sock'[x] = sock[x]
               /\ x = ws => sock'[x] \in {"closing", "closed"}
    BY <2>1, ConnectIs
  <2>3. owner'[s] \in {me', None}
    <3>1. CASE enterApp
      BY <2>2, <3>1 DEF enterApp
    <3>2. CASE Timeout
      BY <2>2, <3>2 DEF Timeout, AccountInv, account
    <3> QED
      BY <1>2, <3>1, <3>2
  <2> QED
    BY <2>2, <2>3 DEF OneSocket, Live
<1>3. ASSUME NEW s \in Sockets, Accept(s) PROVE OneSocket'
  BY <1>0, <1>3 DEF Accept, OneSocket, Live, SocketType, account, link
<1>4. ASSUME NEW s \in Sockets, End(s) PROVE OneSocket'
  BY <1>0, <1>4 DEF End, OneSocket, Live, SocketType, account, link
<1>5. ASSUME NEW s \in Sockets, onclose(s) PROVE OneSocket'
  BY <1>0, <1>5, WebClientAssumption DEF onclose, OneSocket, Live, SocketType
<1>6. CASE EnterFails
  BY <1>0, <1>6 DEF EnterFails, OneSocket, Live, sockets, link
<1>7. CASE UNCHANGED <<screen, me, session>> /\ UNCHANGED <<ws, timer, orphans>>
           /\ UNCHANGED owner /\ UNCHANGED sock
  BY <1>7 DEF OneSocket, Live
<1> QED
  BY <1>1, <1>2, <1>3, <1>4, <1>5, <1>6, <1>7, Steps DEF WhoChanges

(* The steps of the queue of posts.                                           *)
LEMMA OutboxSteps ==
  ASSUME [Next]_vars
  PROVE  \/ UNCHANGED <<stored, typed, pending, lost, adrift>>
         \/ ServeLogout \/ Expire
         \/ \E m \in Own : sendMessage(m)
         \/ \E m \in Others : PostElsewhere(m)
         \/ \E i \in DOMAIN typed : ServePost(i) \/ ServeAdrift(i)
         \/ \E i \in DOMAIN typed : RefusePost(i) \/ PostAnswered(i) \/ PostLost(i)
  BY Steps DEF WhoChanges, Stores, Answers

LEMMA StoredGrows ==
  ASSUME TypeOK, NEW m \in Messages, NEW u \in Users \cup {None}, Store(m, u)
  PROVE  StoredIds' = StoredIds \cup {m}
<1>1. /\ \A i \in DOMAIN stored : stored'[i] = stored[i]
      /\ stored'[Len(stored) + 1].id = m
      /\ DOMAIN stored' = DOMAIN stored \cup {Len(stored) + 1}
  BY StoreType
<1> QED
  BY <1>1 DEF StoredIds

LEMMA TypedGrows ==
  ASSUME TypeOK, NEW m \in Own, sendMessage(m)
  PROVE  /\ TypedIds' = TypedIds \cup {m} /\ m \notin TypedIds
         /\ Len(typed) \in Nat /\ DOMAIN typed = 1 .. Len(typed)
         /\ DOMAIN typed' = DOMAIN typed \cup {Len(typed) + 1}
         /\ \A i \in DOMAIN typed : typed'[i] = typed[i]
         /\ typed'[Len(typed) + 1].id = m
         /\ typed'[Len(typed) + 1].by = me /\ typed'[Len(typed) + 1].session = session
<1> DEFINE row == [id |-> m, by |-> me, session |-> session]
<1>1. typed' = Append(typed, row) /\ typed \in Seq(Entry)
  BY TypeParts DEF sendMessage, OutboxType
<1> HIDE DEF row
<1>2. /\ Len(typed) \in Nat /\ DOMAIN typed = 1 .. Len(typed)
      /\ DOMAIN typed' = DOMAIN typed \cup {Len(typed) + 1}
      /\ \A i \in DOMAIN typed : typed'[i] = typed[i]
      /\ typed'[Len(typed) + 1] = row
  BY <1>1
<1>3. row.id = m /\ row.by = me /\ row.session = session
  BY DEF row
<1>4. TypedIds' = TypedIds \cup {m}
  BY <1>2, <1>3 DEF TypedIds
<1>5. m \notin TypedIds
  BY DEF sendMessage, TypedIds
<1> QED
  BY <1>2, <1>3, <1>4, <1>5

LEMMA IdsStep ==
  ASSUME TypeOK, IdsInv, [Next]_vars
  PROVE  IdsInv'
<1>0. /\ pending \cup adrift \cup lost \subseteq TypedIds /\ TypedIds \subseteq Own
      /\ Own \cap Others = {}
  BY TypeParts, EntryIs, WebClientAssumption DEF OutboxType, TypedIds
<1>1. ASSUME NEW m \in Messages, NEW u \in Users \cup {None}, Store(m, u), m \notin StoredIds,
             UNCHANGED <<news, typed, pending, lost>>, adrift' = adrift \ {m},
             m \in Own => m \in TypedIds
      PROVE  IdsInv'
  <2>1. \A i, j \in DOMAIN stored' : stored'[i].id = stored'[j].id => i = j
    <3>1. /\ \A i \in DOMAIN stored : stored'[i] = stored[i]
          /\ stored'[Len(stored) + 1].id = m
          /\ DOMAIN stored' = DOMAIN stored \cup {Len(stored) + 1}
      BY <1>1, StoreType
    <3> QED
      BY <1>1, <3>1 DEF IdsInv, StoredIds
  <2>2. StoredIds' = StoredIds \cup {m} /\ TypedIds' = TypedIds
    BY <1>1, StoredGrows DEF TypedIds
  <2> QED
    BY <1>1, <2>1, <2>2 DEF IdsInv
<1>2. ASSUME NEW m \in Others, PostElsewhere(m) PROVE IdsInv'
  <2>1. m \in Messages /\ Store(m, None) /\ m \notin StoredIds /\ m \notin adrift
        /\ UNCHANGED <<news, typed, pending, lost, adrift>>
    BY <1>0, <1>2 DEF PostElsewhere, Messages, outbox
  <2> QED
    BY <1>0, <1>1, <2>1
<1>3. ASSUME NEW i \in DOMAIN typed, ServePost(i) \/ ServeAdrift(i) PROVE IdsInv'
  <2>1. typed[i].id \in Messages /\ typed[i].id \in TypedIds /\ cookie \in Users \cup {None}
    BY EntryIs, TypeParts DEF TypedIds, AccountType
  <2>2. Store(typed[i].id, cookie) /\ typed[i].id \notin StoredIds
        /\ UNCHANGED <<news, typed, pending, lost>> /\ adrift' = adrift \ {typed[i].id}
    BY <1>3 DEF ServePost, ServeAdrift, IdsInv, InTurn, outbox
  <2> QED
    BY <1>1, <2>1, <2>2
<1>4. CASE UNCHANGED <<stored, typed>>
  <2>1. StoredIds' = StoredIds /\ TypedIds' = TypedIds
    BY <1>4 DEF StoredIds, TypedIds
  <2>2. adrift' \subseteq lost' /\ adrift' \cap (pending' \cup StoredIds) = {}
    <3>1. CASE UNCHANGED <<stored, typed, pending, lost, adrift>>
      BY <3>1 DEF IdsInv
    <3>2. CASE ServeLogout \/ Expire
      BY <3>2 DEF ServeLogout, Expire
    <3>3. ASSUME NEW i \in DOMAIN typed, RefusePost(i) \/ PostAnswered(i) \/ PostLost(i)
          PROVE  adrift' \subseteq lost' /\ adrift' \cap (pending' \cup StoredIds) = {}
      BY <3>3 DEF RefusePost, PostAnswered, PostLost, IdsInv
    <3>4. ASSUME NEW m \in Own, sendMessage(m) PROVE FALSE
      BY <1>4, <2>1, <3>4, TypedGrows
    <3> QED
      BY <1>2, <1>3, <2>1, <3>1, <3>2, <3>3, <3>4, OutboxSteps DEF IdsInv
  <2>3. \A m \in Messages \ StoredIds : news'[m] = "due"
    <3>1. ASSUME NEW n \in Messages, Announce(n) \/ AnnounceFails(n)
          PROVE  n \in StoredIds /\ \E what : news' = [news EXCEPT ![n] = what]
      BY <3>1 DEF Announce, AnnounceFails, AnnounceAs
    <3>2. news \in [Messages -> {"due", "said", "early", "unsaid", "lost"}]
      BY TypeParts DEF NewsType
    <3> QED
      BY <3>1, <3>2, Steps DEF WhoChanges, IdsInv
  <2> QED
    BY <1>4, <2>1, <2>2, <2>3 DEF IdsInv
<1>5. ASSUME NEW m \in Own, sendMessage(m) PROVE IdsInv'
  <2>1. UNCHANGED <<stored, news, adrift, lost>> /\ pending' = pending \cup {m}
    BY <1>5 DEF sendMessage, server
  <2>2. StoredIds' = StoredIds
    BY <2>1 DEF StoredIds
  <2>3. \A i, j \in DOMAIN typed' : typed'[i].id = typed'[j].id => i = j
    BY <1>5, TypedGrows DEF IdsInv, TypedIds
  <2>4. TypedIds' = TypedIds \cup {m} /\ m \notin TypedIds
    BY <1>5, TypedGrows
  <2> QED
    BY <1>0, <2>1, <2>2, <2>3, <2>4 DEF IdsInv
<1>6. CASE ServeLogout \/ Expire
  <2>1. UNCHANGED <<stored, typed>>
    BY <1>6 DEF ServeLogout, Expire
  <2> QED
    BY <1>4, <2>1
<1>7. ASSUME NEW i \in DOMAIN typed, RefusePost(i) \/ PostAnswered(i) \/ PostLost(i)
      PROVE  IdsInv'
  <2>1. UNCHANGED <<stored, typed>>
    BY <1>7 DEF RefusePost, PostAnswered, PostLost, server
  <2> QED
    BY <1>4, <2>1
<1> QED
  BY <1>2, <1>3, <1>4, <1>5, <1>6, <1>7, OutboxSteps

(* Nobody's turn comes while an earlier message of the login is pending.      *)
LEMMA ChainStep ==
  ASSUME TypeOK, AccountInv, IdsInv, ChainInv, [Next]_vars
  PROVE  ChainInv'
<1>0. /\ pending \cup adrift \cup lost \subseteq TypedIds /\ session \in Nat
      /\ Own \cap Others = {}
      /\ \A i \in DOMAIN typed : typed[i].id \in Own /\ typed[i].session \in Nat
                                 /\ typed[i].by \in Users
  <2>1. OutboxType /\ AccountType /\ Own \cap Others = {}
    BY TypeParts, WebClientAssumption
  <2>2. session \in Nat
    BY <2>1, ScopeType DEF AccountType
  <2>3. \A i \in DOMAIN typed : typed[i].id \in Own /\ typed[i].session \in Nat
                                /\ typed[i].by \in Users
    BY EntryIs
  <2> QED
    BY <2>1, <2>2, <2>3 DEF OutboxType
<1>1. \A i \in DOMAIN typed' :
         /\ typed'[i].session <= session'
         /\ typed'[i].session = session' => cookie' \in {typed'[i].by, None}
  <2> DEFINE G == \A i \in DOMAIN typed' :
                     /\ typed'[i].session <= session'
                     /\ typed'[i].session = session' => cookie' \in {typed'[i].by, None}
  <2>1. ASSUME NEW m \in Own, sendMessage(m) PROVE G
    <3>1. UNCHANGED <<session, cookie>> /\ cookie \in {me, None}
      BY <2>1 DEF sendMessage, server, account, AccountInv
    <3>2. /\ DOMAIN typed' = DOMAIN typed \cup {Len(typed) + 1}
          /\ \A i \in DOMAIN typed : typed'[i] = typed[i]
          /\ typed'[Len(typed) + 1].by = me /\ typed'[Len(typed) + 1].session = session
      BY <2>1, TypedGrows
    <3> QED
      BY <1>0, <3>1, <3>2 DEF ChainInv
  <2>2. CASE UNCHANGED typed
    <3>1. CASE SignIn
      BY <1>0, <2>2, <3>1 DEF SignIn, ChainInv
    <3>2. CASE enterApp \/ EnterFails
      BY <2>2, <3>2 DEF enterApp, EnterFails, server, ChainInv
    <3>3. CASE doLogout \/ ServeLogout
      BY <2>2, <3>3 DEF doLogout, ServeLogout, account, ChainInv
    <3>4. CASE UNCHANGED <<screen, me, session>> /\ UNCHANGED cookie
      BY <2>2, <3>4 DEF ChainInv
    <3>5. CASE RefreshToken
      BY <2>2, <3>5 DEF RefreshToken, account, ChainInv
    <3> QED
      BY <3>1, <3>2, <3>3, <3>4, <3>5, Steps DEF WhoChanges
  <2> QED
    BY <2>1, <2>2, Steps DEF WhoChanges
<1>2. \A i, j \in DOMAIN typed' :
         i < j /\ typed'[i].session = typed'[j].session /\ typed'[i].id \in pending'
            => typed'[j].id \in pending' \ StoredIds'
  <2> DEFINE P == \A i, j \in DOMAIN typed' :
                    i < j /\ typed'[i].session = typed'[j].session /\ typed'[i].id \in pending'
                       => typed'[j].id \in pending' \ StoredIds'
  <2>1. ASSUME NEW m \in Own, sendMessage(m) PROVE P
    <3>1. StoredIds' = StoredIds /\ pending' = pending \cup {m} /\ m \notin StoredIds
      <4>1. UNCHANGED stored /\ pending' = pending \cup {m}
        BY <2>1 DEF sendMessage, server
      <4>2. m \notin TypedIds
        BY <2>1, TypedGrows
      <4> QED
        BY <4>1, <4>2 DEF StoredIds, IdsInv
    <3>2. /\ DOMAIN typed' = DOMAIN typed \cup {Len(typed) + 1}
          /\ DOMAIN typed = 1 .. Len(typed) /\ Len(typed) \in Nat
          /\ \A i \in DOMAIN typed : typed'[i] = typed[i] /\ typed[i].id # m
          /\ typed'[Len(typed) + 1].id = m
      BY <2>1, TypedGrows DEF sendMessage
    <3> QED
      BY <3>1, <3>2 DEF ChainInv
  <2>2. CASE UNCHANGED <<stored, typed, pending, lost, adrift>>
               \/ ServeLogout \/ Expire
    <3>1. UNCHANGED <<stored, typed, pending>>
      BY <2>2 DEF ServeLogout, Expire
    <3> QED
      BY <3>1 DEF ChainInv, StoredIds
  <2>3. ASSUME NEW m \in Others, PostElsewhere(m) PROVE P
    <3>1. UNCHANGED <<typed, pending>> /\ StoredIds' = StoredIds \cup {m}
      BY <2>3, StoredGrows DEF PostElsewhere, outbox, Messages
    <3> QED
      BY <1>0, <3>1 DEF ChainInv
  <2>4. ASSUME NEW k \in DOMAIN typed, ServePost(k) \/ ServeAdrift(k) PROVE P
    <3>1. UNCHANGED <<typed, pending>> /\ Store(typed[k].id, cookie)
      BY <2>4 DEF ServePost, ServeAdrift, outbox
    <3>2. StoredIds' = StoredIds \cup {typed[k].id}
      BY <3>1, StoredGrows, EntryIs, TypeParts DEF AccountType
    <3>3. ASSUME NEW i \in DOMAIN typed, i < k, typed[i].session = typed[k].session,
                 typed[i].id \in pending
          PROVE  FALSE
      <4>1. CASE ServePost(k)
        <5>1. k \in Nat /\ i \in Nat /\ i \in 1 .. k - 1
          <6>1. DOMAIN typed = 1 .. Len(typed) /\ Len(typed) \in Nat
            BY TypeParts DEF OutboxType
          <6> QED
            BY <3>3, <6>1
        <5> QED
          BY <3>3, <4>1, <5>1 DEF ServePost, InTurn
      <4>2. CASE ServeAdrift(k)
        BY <3>3, <4>2 DEF ServeAdrift, ChainInv, IdsInv
      <4> QED
        BY <2>4, <4>1, <4>2
    <3>4. \A j \in DOMAIN typed : typed[j].id = typed[k].id => j = k
      BY DEF IdsInv
    <3> QED
      BY <3>1, <3>2, <3>3, <3>4 DEF ChainInv
  <2>5. ASSUME NEW k \in DOMAIN typed, RefusePost(k) \/ PostAnswered(k) \/ PostLost(k) PROVE P
    <3>1. UNCHANGED <<stored, typed>> /\ pending' = pending \ {typed[k].id} /\ InTurn(k)
      BY <2>5 DEF RefusePost, PostAnswered, PostLost, server
    <3>2. StoredIds' = StoredIds
      BY <3>1 DEF StoredIds
    <3>3. ASSUME NEW i \in DOMAIN typed, i < k, typed[i].session = typed[k].session
          PROVE  typed[i].id \notin pending
      <4>1. DOMAIN typed = 1 .. Len(typed) /\ Len(typed) \in Nat
        BY TypeParts DEF OutboxType
      <4>2. i \in 1 .. k - 1
        BY <3>3, <4>1
      <4> QED
        BY <3>1, <3>3, <4>2 DEF InTurn
    <3>4. \A j \in DOMAIN typed : typed[j].id = typed[k].id => j = k
      BY DEF IdsInv
    <3> QED
      BY <3>1, <3>2, <3>3, <3>4 DEF ChainInv
  <2> QED
    BY <2>1, <2>2, <2>3, <2>4, <2>5, OutboxSteps
<1> QED
  BY <1>1, <1>2 DEF ChainInv

(* PostedAsTyped, said of places in typed rather than of ids.                *)
StoredInOrder ==
    \A a, b \in DOMAIN typed : a < b /\ typed[a].session = typed[b].session =>
        \A i, j \in DOMAIN stored :
            stored[i].id = typed[a].id /\ stored[j].id = typed[b].id =>
                i < j \/ stored[i].id \in lost

StoredAsOwn ==
    \A i \in DOMAIN stored, j \in DOMAIN typed :
        stored[i].id = typed[j].id =>
            stored[i].author = typed[j].by \/ stored[i].session # typed[j].session

LEMMA PostedAsTypedParts == PostedAsTyped <=> StoredInOrder /\ StoredAsOwn
  BY DEF PostedAsTyped, TypedBefore, StoredInOrder, StoredAsOwn

LEMMA StoredInOrderStep ==
  ASSUME TypeOK, IdsInv, ChainInv, StoredInOrder, [Next]_vars
  PROVE  StoredInOrder'
<1>0. /\ \A k \in DOMAIN typed : typed[k].id \in Own /\ typed[k].id \in Messages
      /\ Own \cap Others = {} /\ cookie \in Users \cup {None}
      /\ \A a, b \in DOMAIN typed : typed[a].id = typed[b].id => a = b
  BY TypeParts, EntryIs, WebClientAssumption DEF AccountType, IdsInv
<1>1. ASSUME NEW m \in Messages, NEW u \in Users \cup {None}, Store(m, u),
             UNCHANGED <<typed, lost>>,
             \A a, b \in DOMAIN typed :
                a < b /\ typed[a].session = typed[b].session /\ typed[a].id = m =>
                   m \in lost \/ typed[b].id \notin StoredIds
      PROVE  StoredInOrder'
  <2>1. /\ Len(stored) \in Nat /\ DOMAIN stored = 1 .. Len(stored)
        /\ DOMAIN stored' = DOMAIN stored \cup {Len(stored) + 1}
        /\ \A i \in DOMAIN stored : stored'[i] = stored[i]
        /\ stored'[Len(stored) + 1].id = m
    BY <1>1, StoreType
  <2> SUFFICES ASSUME NEW a \in DOMAIN typed, NEW b \in DOMAIN typed, a < b,
                      typed[a].session = typed[b].session,
                      NEW i \in DOMAIN stored', NEW j \in DOMAIN stored',
                      stored'[i].id = typed[a].id, stored'[j].id = typed[b].id
               PROVE  i < j \/ stored'[i].id \in lost
    BY <1>1 DEF StoredInOrder
  <2>2. a # b /\ typed[a].id # typed[b].id
    <3>1. DOMAIN typed = 1 .. Len(typed) /\ Len(typed) \in Nat
      BY TypeParts DEF OutboxType
    <3>2. a # b
      BY <3>1
    <3> QED
      BY <1>0, <3>2
  <2>3. CASE i \in DOMAIN stored /\ j \in DOMAIN stored
    <3>1. stored[i].id = typed[a].id /\ stored[j].id = typed[b].id
      BY <2>1, <2>3
    <3> QED
      BY <2>1, <2>3, <3>1 DEF StoredInOrder
  <2>4. CASE i \in DOMAIN stored /\ j = Len(stored) + 1
    BY <2>1, <2>4
  <2>5. CASE i = Len(stored) + 1 /\ j \in DOMAIN stored
    <3>1. typed[a].id = m /\ typed[b].id \in StoredIds
      BY <2>1, <2>5 DEF StoredIds
    <3> QED
      BY <1>1, <2>1, <2>5, <3>1
  <2>6. ~ (i = Len(stored) + 1 /\ j = Len(stored) + 1)
    BY <2>2
  <2> QED
    BY <2>1, <2>3, <2>4, <2>5, <2>6
<1>2. ASSUME NEW m \in Others, PostElsewhere(m) PROVE StoredInOrder'
  <2>1. m \in Messages /\ Store(m, None) /\ UNCHANGED <<typed, lost>>
    BY <1>2 DEF PostElsewhere, Messages, outbox
  <2> QED
    BY <1>0, <1>1, <2>1
<1>3. ASSUME NEW k \in DOMAIN typed, ServePost(k) \/ ServeAdrift(k) PROVE StoredInOrder'
  <2>1. Store(typed[k].id, cookie) /\ UNCHANGED <<typed, lost>>
    BY <1>3 DEF ServePost, ServeAdrift, outbox
  <2>2. CASE ServeAdrift(k)
    <3>1. typed[k].id \in lost
      BY <2>2 DEF ServeAdrift, IdsInv
    <3> QED
      BY <1>0, <1>1, <2>1, <3>1
  <2>3. CASE ServePost(k)
    <3>1. typed[k].id \in pending
      BY <2>3 DEF ServePost, InTurn
    <3>2. \A b \in DOMAIN typed : k < b /\ typed[k].session = typed[b].session =>
             typed[b].id \notin StoredIds
      BY <3>1 DEF ChainInv
    <3> QED
      BY <1>0, <1>1, <2>1, <3>2
  <2> QED
    BY <1>3, <2>2, <2>3
<1>4. ASSUME NEW m \in Own, sendMessage(m) PROVE StoredInOrder'
  <2>1. UNCHANGED <<stored, lost>>
    BY <1>4 DEF sendMessage, server
  <2>2. /\ Len(typed) \in Nat /\ DOMAIN typed = 1 .. Len(typed)
        /\ DOMAIN typed' = DOMAIN typed \cup {Len(typed) + 1}
        /\ \A i \in DOMAIN typed : typed'[i] = typed[i]
        /\ typed'[Len(typed) + 1].id = m /\ m \notin TypedIds
    BY <1>4, TypedGrows
  <2>3. \A i \in DOMAIN stored : stored[i].id # m
    BY <2>2 DEF IdsInv, StoredIds
  <2> SUFFICES ASSUME NEW a \in DOMAIN typed', NEW b \in DOMAIN typed', a < b,
                      typed'[a].session = typed'[b].session,
                      NEW i \in DOMAIN stored, NEW j \in DOMAIN stored,
                      stored[i].id = typed'[a].id, stored[j].id = typed'[b].id
               PROVE  i < j \/ stored[i].id \in lost
    BY <2>1 DEF StoredInOrder
  <2>4. a \in DOMAIN typed /\ b \in DOMAIN typed
    BY <2>2, <2>3
  <2> QED
    BY <2>2, <2>4 DEF StoredInOrder
<1>5. ASSUME NEW k \in DOMAIN typed, RefusePost(k) \/ PostAnswered(k) \/ PostLost(k)
      PROVE  StoredInOrder'
  <2>1. UNCHANGED <<stored, typed>> /\ lost \subseteq lost'
    BY <1>5 DEF RefusePost, PostAnswered, PostLost, server
  <2> QED
    BY <2>1 DEF StoredInOrder
<1>6. CASE UNCHANGED <<stored, typed, pending, lost, adrift>> \/ ServeLogout \/ Expire
  <2>1. UNCHANGED <<stored, typed, lost>>
    BY <1>6 DEF ServeLogout, Expire
  <2> QED
    BY <2>1 DEF StoredInOrder
<1> QED
  BY <1>2, <1>3, <1>4, <1>5, <1>6, OutboxSteps

LEMMA StoredAsOwnStep ==
  ASSUME TypeOK, IdsInv, ChainInv, StoredAsOwn, [Next]_vars
  PROVE  StoredAsOwn'
<1>0. /\ \A k \in DOMAIN typed : typed[k].id \in Own /\ typed[k].id \in Messages
      /\ Own \cap Others = {} /\ cookie \in Users \cup {None}
      /\ \A a, b \in DOMAIN typed : typed[a].id = typed[b].id => a = b
  BY TypeParts, EntryIs, WebClientAssumption DEF AccountType, IdsInv
<1>1. ASSUME NEW m \in Messages, NEW u \in Users \cup {None}, Store(m, u), UNCHANGED typed,
             \A k \in DOMAIN typed : typed[k].id = m /\ typed[k].session = session =>
                u = typed[k].by
      PROVE  StoredAsOwn'
  <2>1. /\ DOMAIN stored' = DOMAIN stored \cup {Len(stored) + 1}
        /\ \A i \in DOMAIN stored : stored'[i] = stored[i]
        /\ stored'[Len(stored) + 1].id = m /\ stored'[Len(stored) + 1].author = u
        /\ stored'[Len(stored) + 1].session = session
    BY <1>1, StoreType
  <2> QED
    BY <1>1, <2>1 DEF StoredAsOwn
<1>2. ASSUME NEW m \in Others, PostElsewhere(m) PROVE StoredAsOwn'
  <2>1. m \in Messages /\ Store(m, None) /\ UNCHANGED typed
    BY <1>2 DEF PostElsewhere, Messages, outbox
  <2> QED
    BY <1>0, <1>1, <2>1
<1>3. ASSUME NEW k \in DOMAIN typed, ServePost(k) \/ ServeAdrift(k) PROVE StoredAsOwn'
  <2>1. Store(typed[k].id, cookie) /\ UNCHANGED typed /\ cookie # None
    BY <1>3 DEF ServePost, Serves, ServeAdrift, outbox, MayAct
  <2>2. typed[k].session = session => cookie = typed[k].by
    BY <2>1 DEF ChainInv
  <2> QED
    BY <1>0, <1>1, <2>1, <2>2
<1>4. ASSUME NEW m \in Own, sendMessage(m) PROVE StoredAsOwn'
  <2>1. UNCHANGED stored
    BY <1>4 DEF sendMessage, server
  <2>2. /\ DOMAIN typed' = DOMAIN typed \cup {Len(typed) + 1}
        /\ \A i \in DOMAIN typed : typed'[i] = typed[i]
        /\ typed'[Len(typed) + 1].id = m /\ m \notin TypedIds
    BY <1>4, TypedGrows
  <2>3. \A i \in DOMAIN stored : stored[i].id # m
    BY <2>2 DEF IdsInv, StoredIds
  <2> QED
    BY <2>1, <2>2, <2>3 DEF StoredAsOwn
<1>5. CASE UNCHANGED <<stored, typed>>
  BY <1>5 DEF StoredAsOwn
<1>6. CASE ServeLogout \/ Expire
           \/ \E k \in DOMAIN typed : RefusePost(k) \/ PostAnswered(k) \/ PostLost(k)
  <2>1. UNCHANGED <<stored, typed>>
    BY <1>6 DEF ServeLogout, Expire, RefusePost, PostAnswered, PostLost, server
  <2> QED
    BY <1>5, <2>1
<1> QED
  BY <1>2, <1>3, <1>4, <1>5, <1>6, OutboxSteps

(* What is shown stays without doubles, and of the open dialog unless one of  *)
(* the reasons of ViewIsTrue holds.                                           *)
LEMMA ViewIsTrueStep ==
  ASSUME TypeOK, IdsInv, ViewIsTrue, [Next]_vars
  PROVE  ViewIsTrue'
<1>0. LoadType /\ ViewType
  BY TypeParts
<1>1. CASE SignIn \/ doLogout
  <2>1. view' = <<>>
    BY <1>1, ResetIs
  <2>2. ToSet(<<>>) = {} /\ IsInjective(<<>>)
    BY DEF ToSet, IsInjective
  <2> QED
    BY <2>1, <2>2 DEF ViewIsTrue
<1>2. ASSUME NEW d \in Dialogs, openDialog(d) PROVE ViewIsTrue'
  <2>1. UNCHANGED view /\ open' = d
    BY <1>2 DEF openDialog
  <2>2. PICK l \in Loads : load' = [load EXCEPT ![l] = [step |-> "asked", dialog |-> d, upto |-> 0]]
    <3>1. Ask(d)
      BY <1>2 DEF openDialog
    <3>2. \A l \in 1 .. scope.loads : l \in Loads
      BY WebClientAssumption, TypeParts DEF AccountType, Loads
    <3> QED
      BY <3>1, <3>2 DEF Ask
  <2>3. Loading(open)'
    BY <1>0, <2>1, <2>2 DEF Loading, LoadType
  <2> QED
    BY <2>1, <2>3 DEF ViewIsTrue
<1>3. ASSUME NEW l \in Loads, ApplyLoad(l) PROVE ViewIsTrue'
  <2>1. /\ IsInjective(view') /\ open' = open /\ crossed' = (load[l].dialog # open)
        /\ \A m \in ToSet(view') : DialogOf[m] = load[l].dialog
    BY <1>3, ApplyShows DEF ApplyLoad
  <2> QED
    BY <2>1 DEF ViewIsTrue
<1>4. ASSUME NEW l \in Loads, LoadFails(l) PROVE ViewIsTrue'
  <2>1. UNCHANGED <<open, view, crossed>> /\ load' = [load EXCEPT ![l] = NoLoad]
        /\ failed' = IF load[l].dialog = open THEN Len(stored) + 1 ELSE failed
    BY <1>4 DEF LoadFails
  <2>2. Len(stored) + 1 # 0
    BY TypeParts DEF StoredType
  <2>3. load[l].dialog # open /\ Loading(open) => Loading(open)'
    BY <1>0, <2>1 DEF Loading, LoadType
  <2> QED
    BY <2>1, <2>2, <2>3 DEF ViewIsTrue
<1>5. ASSUME UNCHANGED <<open, reasons>>, Loading(open) => Loading(open)',
             \/ UNCHANGED view
             \/ \E m \in Messages :
                   view' = IF DialogOf[m] = open THEN appendMessage(m) ELSE view
      PROVE  ViewIsTrue'
  <2>1. CASE UNCHANGED view
    BY <1>5, <2>1 DEF ViewIsTrue, reasons
  <2>2. ASSUME NEW m \in Messages, DialogOf[m] = open, view' = appendMessage(m)
        PROVE  ViewIsTrue'
    <3>1. IsInjective(view') /\ ToSet(view') = ToSet(view) \cup {m}
      BY <2>2, appendMessageShows DEF ViewIsTrue
    <3> QED
      BY <1>5, <2>2, <3>1 DEF ViewIsTrue, reasons
  <2> QED
    BY <1>5, <2>1, <2>2
<1>6. ASSUME NEW s \in Sockets, Heard(s) PROVE ViewIsTrue'
  <2>1. /\ UNCHANGED <<open, reasons>> /\ UNCHANGED load
        /\ \E m \in Messages :
              view' = IF DialogOf[m] = open THEN appendMessage(m) ELSE view
    BY <1>6 DEF Heard, reasons
  <2> QED
    BY <1>5, <2>1 DEF Loading
<1>7. ASSUME NEW i \in DOMAIN typed, PostAnswered(i) PROVE ViewIsTrue'
  <2>1. /\ UNCHANGED <<open, reasons>> /\ UNCHANGED load
        /\ view' = IF DialogOf[typed[i].id] = open THEN appendMessage(typed[i].id) ELSE view
    BY <1>7 DEF PostAnswered, reasons
  <2> QED
    BY <1>5, <2>1, EntryIs DEF Loading
<1>8. CASE UNCHANGED view /\ UNCHANGED <<open, reasons>>
  <2>1. ASSUME NEW l \in Loads, ServeLoad(l) PROVE ViewIsTrue'
    <3>1. load' = [load EXCEPT ![l].step = "answered", ![l].upto = Len(stored)]
      BY <2>1 DEF ServeLoad
    <3>2. \A x \in Loads : load'[x].dialog = load[x].dialog
             /\ (load[x].step # "free" => load'[x].step # "free")
      BY <1>0, <3>1 DEF LoadType, Answer
    <3> QED
      BY <1>5, <1>8, <3>2 DEF Loading
  <2>2. ASSUME NEW s \in Sockets, Opened(s) PROVE ViewIsTrue'
    <3>1. UNCHANGED load \/ \E l \in Loads, r \in [step : {"asked"}, dialog : {open}, upto : {0}] :
             load[l].step = "free" /\ load' = [load EXCEPT ![l] = r]
      <4>1. \A l \in 1 .. scope.loads : l \in Loads
        BY WebClientAssumption, TypeParts DEF AccountType, Loads
      <4> QED
        BY <2>2, <4>1 DEF Opened, Reload, Ask
    <3>2. \A x \in Loads : load[x].step # "free" => load'[x] = load[x]
      BY <1>0, <3>1 DEF LoadType
    <3> QED
      BY <1>5, <1>8, <3>2 DEF Loading
  <2>3. CASE UNCHANGED load
    BY <1>5, <1>8, <2>3 DEF Loading
  <2>4. ASSUME NEW l \in Loads, DenyLoad(l) \/ RenewLoad(l) PROVE ViewIsTrue'
    <3>1. PICK step \in {"denied", "again"} : load' = [load EXCEPT ![l].step = step]
      BY <2>4 DEF DenyLoad, RenewLoad
    <3>2. \A x \in Loads : load'[x].dialog = load[x].dialog
             /\ (load[x].step # "free" => load'[x].step # "free")
      BY <1>0, <3>1 DEF LoadType, Answer
    <3> QED
      BY <1>5, <1>8, <3>2 DEF Loading
  <2> QED
    BY <1>2, <1>3, <1>4, <2>1, <2>2, <2>3, <2>4, Steps DEF WhoChanges, LoadMessages
<1> QED
  BY <1>1, <1>2, <1>3, <1>4, <1>6, <1>7, <1>8, Steps DEF WhoChanges

(* No message of the open dialog is forgotten.                                *)
LEMMA StoredKept ==
  ASSUME TypeOK, IdsInv, [Next]_vars, NEW i \in DOMAIN stored
  PROVE  i \in DOMAIN stored' /\ stored'[i] = stored[i]
<1>1. CASE UNCHANGED stored
  BY <1>1
<1>2. CASE Stores
  <2>1. PICK m \in Messages, u \in Users \cup {None} : Store(m, u)
    BY <1>2, StoresOne
  <2> QED
    BY <2>1, StoreType
<1> QED
  BY <1>1, <1>2, Steps DEF WhoChanges

(* A message cut off stays so: what is stored later is younger.               *)
LEMMA CutIs ==
  ASSUME TypeOK, IdsInv, NEW i \in DOMAIN stored, DialogOf[stored[i].id] = open
  PROVE  Cut(i) <=> ~ Place(stored, i) <= PageSize
<1>1. stored \in Seq(Row) /\ DistinctIds(stored)
  BY TypeParts DEF StoredType, IdsInv, DistinctIds
<1> QED
  BY <1>1, PageMembers DEF Cut

LEMMA CutKept ==
  ASSUME TypeOK, IdsInv, TypeOK', IdsInv', [Next]_vars, UNCHANGED open,
         NEW i \in DOMAIN stored, DialogOf[stored[i].id] = open, Cut(i)
  PROVE  Cut(i)'
<1>1. i \in DOMAIN stored' /\ stored'[i] = stored[i]
  BY StoredKept
<1>2. stored \in Seq(Row) /\ stored' \in Seq(Row) /\ Len(stored) <= Len(stored')
      /\ DistinctIds(stored')
  <2>1. StoredType /\ StoredType' /\ Len(stored) <= Len(stored')
    BY TypeParts, StoredTypeStep
  <2>2. Row' = Row
    BY Steps DEF WhoChanges, Row
  <2> QED
    BY <2>1, <2>2 DEF StoredType, IdsInv, DistinctIds
<1>3. \A j \in DOMAIN stored : stored'[j] = stored[j]
  BY StoredKept
<1>4. Place(stored', i) = Place(stored, i)
  BY <1>2, <1>3, PlaceKept
<1>5. ~ Place(stored', i) <= PageSize
  BY <1>4, CutIs
<1>6. ~ stored'[i].id \in ToSet(Page(stored', open'))
  BY <1>1, <1>2, <1>5, PageMembers
<1> QED
  BY <1>6 DEF Cut

(* What became of an announcement is settled once.                            *)
LEMMA NewsKept ==
  ASSUME TypeOK, [Next]_vars, NEW m \in Messages, news[m] # "due"
  PROVE  news'[m] = news[m]
<1>0. news \in [Messages -> {"due", "said", "early", "unsaid", "lost"}]
  BY TypeParts DEF NewsType
<1>1. ASSUME NEW n \in Messages, Announce(n) \/ AnnounceFails(n)
      PROVE  news[n] = "due" /\ \E what : news' = [news EXCEPT ![n] = what]
  BY <1>1 DEF Announce, AnnounceFails, AnnounceAs
<1> QED
  BY <1>0, <1>1, Steps DEF WhoChanges

LEMMA GotKept ==
  ASSUME TypeOK, IdsInv, TypeOK', IdsInv', [Next]_vars, UNCHANGED <<open, session, read>>,
         ToSet(view) \subseteq ToSet(view'), wiped \subseteq wiped', failed' = failed,
         NEW i \in DOMAIN stored, DialogOf[stored[i].id] = open, Got(i)
  PROVE  Got(i)'
<1>1. stored'[i] = stored[i] /\ stored[i].id \in Messages
  BY StoredKept, RowIs
<1>2. Cut(i) => Cut(i)'
  BY CutKept
<1>3. news[stored[i].id] # "due" => news'[stored[i].id] = news[stored[i].id]
  BY <1>1, NewsKept
<1>4. Excused(i) => Excused(i)'
  BY <1>1, <1>3 DEF Excused, Early, Unheard
<1> QED
  BY <1>1, <1>2, <1>4 DEF Got

LEMMA BySocketKept ==
  ASSUME NEW i, stored'[i] = stored[i], again => again',
         SocketUp' => SocketUp /\ ToSet(inbox[ws]) \subseteq ToSet(inbox[ws])',
         BySocket(i)
  PROVE  BySocket(i)'
  BY DEF BySocket

LEMMA InLoadKept ==
  ASSUME NEW i, UNCHANGED <<load, open>>, \E l \in Loads : InLoad(l, i)
  PROVE  (\E l \in Loads : InLoad(l, i))'
  BY DEF InLoad

LEMMA AskWaits ==
  ASSUME TypeOK, NEW d, Ask(d)
  PROVE  \E l \in Loads : /\ load[l].step = "free"
                          /\ load' = [load EXCEPT ![l] = [step |-> "asked", dialog |-> d, upto |-> 0]]
                          /\ load'[l].step = "asked" /\ load'[l].dialog = d
<1>1. \A l \in 1 .. scope.loads : l \in Loads
  BY WebClientAssumption, TypeParts DEF AccountType, Loads
<1>2. PICK l \in Loads :
        /\ load[l].step = "free"
        /\ load' = [load EXCEPT ![l] = [step |-> "asked", dialog |-> d, upto |-> 0]]
  BY <1>1 DEF Ask
<1>3. load \in [Loads -> Answer]
  BY TypeParts DEF LoadType
<1>4. load'[l] = [step |-> "asked", dialog |-> d, upto |-> 0]
  BY <1>2, <1>3
<1>5. load'[l].step = "asked" /\ load'[l].dialog = d
  BY <1>4
<1> QED
  BY <1>2, <1>5

(* An answer for the open dialog shows the message or shows it to be cut off.  *)
LEMMA ApplyGets ==
  ASSUME TypeOK, IdsInv, NEW l \in Loads, ApplyLoad(l), NEW i \in DOMAIN stored,
         DialogOf[stored[i].id] = open, InLoad(l, i)
  PROVE  stored[i].id \in ToSet(view') \/ Cut(i)
<1>1. load[l].dialog = open /\ i <= load[l].upto
  BY DEF InLoad, ApplyLoad
<1>2. /\ Served(l) \in Seq(Row) /\ stored \in Seq(Row) /\ DistinctIds(Served(l))
      /\ i \in DOMAIN Served(l) /\ Served(l)[i] = stored[i] /\ Len(Served(l)) <= Len(stored)
      /\ \A j \in DOMAIN Served(l) : stored[j] = Served(l)[j]
  <2>1. stored \in Seq(Row)
    BY TypeParts DEF StoredType
  <2>2. i \in 1 .. load[l].upto
    BY <1>1, <2>1, ServedIs
  <2>3. Len(Served(l)) = load[l].upto
    BY ServedIs
  <2> QED
    BY <2>1, <2>2, <2>3, ServedIs
<1>3. Place(stored, i) = Place(Served(l), i)
  BY <1>2, PlaceKept
<1>4. view' = Page(Served(l), open)
  BY <1>1, ApplyShows
<1>5. Place(Served(l), i) <= PageSize => stored[i].id \in ToSet(view')
  BY <1>2, <1>4, PageMembers
<1> QED
  BY <1>3, <1>5, CutIs

LEMMA HeadTail ==
  ASSUME NEW S, NEW q \in Seq(S), q # <<>>
  PROVE  ToSet(q) = {Head(q)} \cup ToSet(Tail(q))
<1>1. /\ Len(q) \in Nat \ {0} /\ DOMAIN q = 1 .. Len(q) /\ Head(q) = q[1]
      /\ DOMAIN Tail(q) = 1 .. (Len(q) - 1)
      /\ \A k \in 1 .. (Len(q) - 1) : Tail(q)[k] = q[k + 1]
  OBVIOUS
<1>2. ASSUME NEW k \in 1 .. Len(q), k # 1
      PROVE  k - 1 \in 1 .. (Len(q) - 1) /\ Tail(q)[k - 1] = q[k]
  <2>1. k - 1 \in 1 .. (Len(q) - 1) /\ (k - 1) + 1 = k
    BY <1>1, <1>2
  <2> QED
    BY <1>1, <2>1
<1>3. \A k \in 1 .. (Len(q) - 1) : k + 1 \in 1 .. Len(q)
  BY <1>1
<1> DEFINE t == Tail(q)
<1> HIDE DEF t
<1>4. ASSUME NEW x \in ToSet(q) PROVE x \in {q[1]} \cup ToSet(t)
  <2>1. PICK k \in 1 .. Len(q) : x = q[k]
    BY <1>1 DEF ToSet
  <2>2. CASE k # 1
    <3>1. k - 1 \in DOMAIN t /\ t[k - 1] = x
      BY <1>1, <1>2, <2>1, <2>2 DEF t
    <3> QED
      BY <3>1 DEF ToSet
  <2> QED
    BY <2>1, <2>2
<1>5. {q[1]} \cup ToSet(t) \subseteq ToSet(q)
  BY <1>1, <1>3 DEF ToSet, t
<1> QED
  BY <1>1, <1>4, <1>5 DEF t

LEMMA NothingForgottenStep ==
  ASSUME TypeOK, AccountInv, SocketInv, IdsInv, NothingForgotten, TypeOK', IdsInv', [Next]_vars
  PROVE  NothingForgotten'
<1>0. /\ AccountType /\ StoredType /\ NewsType /\ LoadType /\ LinkType /\ SocketType
      /\ InboxType /\ ViewType
  BY TypeParts
<1>1. CASE SignIn \/ doLogout
  BY <1>1, ResetIs DEF NothingForgotten
<1>2. CASE enterApp
  BY <1>0, <1>2 DEF enterApp, AccountInv, AccountType, NothingForgotten, chat
<1>3. ASSUME NEW d \in Dialogs, openDialog(d) PROVE NothingForgotten'
  <2>1. /\ open' = d /\ read' = 0 /\ UNCHANGED stored
        /\ \E l \in Loads : load'[l].step = "asked" /\ load'[l].dialog = d
    BY <1>3, AskWaits DEF openDialog, server
  <2>2. \A i \in DOMAIN stored : i > 0
    BY <1>0 DEF StoredType
  <2> QED
    BY <2>1, <2>2 DEF NothingForgotten, Coming, InLoad
<1>4. ASSUME NEW l \in Loads, LoadFails(l) PROVE NothingForgotten'
  <2>1. /\ UNCHANGED <<stored, news, open, view, session, read, wiped, again, ws, sock, inbox>>
        /\ failed' = IF load[l].dialog = open THEN Len(stored) + 1 ELSE failed
        /\ load' = [load EXCEPT ![l] = NoLoad]
    BY <1>4 DEF LoadFails, server, account, sockets, link
  <2> SUFFICES ASSUME open # None, NEW i \in DOMAIN stored, DialogOf[stored[i].id] = open
               PROVE  (Got(i) \/ (i > read /\ Coming(i)))'
    BY <2>1 DEF NothingForgotten
  <2>2. Got(i) \/ (i > read /\ Coming(i))
    BY DEF NothingForgotten
  <2>3. CASE load[l].dialog = open
    <3>1. i < failed'
      BY <1>0, <2>1, <2>3 DEF StoredType
    <3> QED
      BY <2>1, <2>2, <3>1 DEF Got, Cut, Excused
  <2>4. CASE load[l].dialog # open
    <3>1. Got(i) => Got(i)'
      BY <2>1, <2>4 DEF Got, Cut, Excused, Early, Unheard
    <3>2. \A x \in Loads : InLoad(x, i) => load'[x] = load[x]
      BY <1>0, <2>1, <2>4 DEF LoadType, InLoad
    <3>3. Coming(i) => Coming(i)'
      BY <2>1, <3>2 DEF Coming, Due, BySocket, SocketUp, InLoad
    <3> QED
      BY <2>1, <2>2, <3>1, <3>3
  <2> QED
    BY <2>3, <2>4
<1>5. ASSUME NEW l \in Loads, ApplyLoad(l) PROVE NothingForgotten'
  <2>1. /\ UNCHANGED <<stored, news, open, session, failed, again, ws, sock, inbox>>
        /\ wiped' = {m \in (ToSet(view) \cup wiped) \ ToSet(view') : DialogOf[m] = open}
        /\ read' = IF load[l].dialog = open THEN load[l].upto ELSE 0
        /\ load' = [load EXCEPT ![l] = NoLoad] /\ load[l].step = "answered"
    BY <1>5 DEF ApplyLoad, server, account, sockets, link
  <2> SUFFICES ASSUME open # None, NEW i \in DOMAIN stored, DialogOf[stored[i].id] = open
               PROVE  (Got(i) \/ (i > read /\ Coming(i)))'
    BY <2>1 DEF NothingForgotten
  <2>2. Got(i) \/ Coming(i)
    BY DEF NothingForgotten
  <2>3. CASE InLoad(l, i)
    <3>1. stored[i].id \in ToSet(view') \/ Cut(i)
      BY <1>5, <2>3, ApplyGets
    <3> QED
      BY <2>1, <3>1 DEF Got, Cut
  <2>4. CASE ~ InLoad(l, i)
    <3>1. i > read'
      <4>1. i \in Nat /\ i > 0 /\ load[l].upto \in Nat
        BY <1>0 DEF StoredType, LoadType, Answer
      <4> QED
        BY <2>1, <2>4, <4>1 DEF InLoad
    <3>2. CASE Got(i)
      <4>1. stored[i].id \in ToSet(view) \cup wiped =>
               stored[i].id \in ToSet(view') \cup wiped'
        BY <2>1
      <4>2. (Cut(i) => Cut(i)') /\ (Early(i) => Early(i)') /\ (Unheard(i) => Unheard(i)')
        BY <2>1 DEF Cut, Early, Unheard
      <4> QED
        BY <2>1, <3>1, <3>2, <4>1, <4>2 DEF Got, Excused
    <3>3. \A x \in Loads : InLoad(x, i) => load'[x] = load[x]
      BY <1>0, <2>1, <2>4 DEF LoadType
    <3>4. Coming(i) => Coming(i)'
      BY <2>1, <3>3 DEF Coming, Due, BySocket, SocketUp, InLoad
    <3> QED
      BY <2>2, <3>1, <3>2, <3>4
  <2> QED
    BY <2>3, <2>4
(* In the other steps what is shown, and why something is not, only grows.    *)
<1> DEFINE Carried(i) == BySocket(i) \/ \E l \in Loads : InLoad(l, i)
<1>6. ASSUME UNCHANGED <<stored, news, open, session, read, failed, wiped>>,
             ToSet(view) \subseteq ToSet(view'),
             \A i \in DOMAIN stored :
                open # None /\ DialogOf[stored[i].id] = open /\ Carried(i) =>
                   (Got(i) \/ Carried(i))'
      PROVE  NothingForgotten'
  <2> SUFFICES ASSUME open # None, NEW i \in DOMAIN stored, DialogOf[stored[i].id] = open
               PROVE  (Got(i) \/ (i > read /\ Coming(i)))'
    BY <1>6 DEF NothingForgotten
  <2>1. Got(i) => Got(i)'
    BY <1>6, GotKept
  <2>2. Got(i) \/ (i > read /\ (Due(i) \/ Carried(i)))
    BY DEF NothingForgotten, Coming
  <2>3. Due(i) => Due(i)'
    BY <1>6 DEF Due
  <2> QED
    BY <1>6, <2>1, <2>2, <2>3 DEF Coming
<1>7. ASSUME NEW l \in Loads, ServeLoad(l) PROVE NothingForgotten'
  <2>1. /\ UNCHANGED <<stored, news, open, view, session, read, failed, wiped, again, ws, sock, inbox>>
        /\ load' = [load EXCEPT ![l].step = "answered", ![l].upto = Len(stored)]
    BY <1>7 DEF ServeLoad, server, account, chat, reasons, sockets, link
  <2>2. ASSUME NEW i \in DOMAIN stored, NEW x \in Loads, InLoad(x, i)
        PROVE  InLoad(x, i)'
    <3>1. CASE x = l
      <4>1. load'[l].dialog = load[l].dialog /\ load'[l].step = "answered"
            /\ load'[l].upto = Len(stored)
        BY <1>0, <2>1 DEF LoadType, Answer
      <4>2. i <= Len(stored)
        BY TypeParts DEF StoredType
      <4> QED
        BY <2>1, <2>2, <3>1, <4>1, <4>2 DEF InLoad
    <3>2. CASE x # l
      <4>1. load'[x] = load[x]
        BY <1>0, <2>1, <3>2 DEF LoadType
      <4> QED
        BY <2>1, <2>2, <4>1 DEF InLoad
    <3> QED
      BY <3>1, <3>2
  <2>3. \A i : BySocket(i) => BySocket(i)'
    BY <2>1 DEF BySocket, SocketUp
  <2> QED
    BY <1>6, <2>1, <2>2, <2>3
<1>8. ASSUME NEW s \in Sockets, Opened(s) PROVE NothingForgotten'
  <2>1. UNCHANGED <<stored, news, open, view, session, read, failed, wiped>>
    BY <1>8 DEF Opened, server, account, chat, reasons
  <2>2. CASE again /\ open # None
    <3>1. \E l \in Loads : load'[l].step = "asked" /\ load'[l].dialog = open
      BY <1>8, <2>2, AskWaits DEF Opened, Reload
    <3>2. \A i : Carried(i)'
      BY <2>1, <3>1 DEF InLoad
    <3> QED
      BY <1>6, <2>1, <3>2
  <2>3. CASE ~ again /\ open # None
    <3>1. UNCHANGED load /\ \A i : ~ BySocket(i)
      BY <1>8, <2>3 DEF Opened, Reload, BySocket
    <3> QED
      BY <1>6, <2>1, <3>1, InLoadKept
  <2>4. CASE open = None
    BY <2>1, <2>4 DEF NothingForgotten
  <2> QED
    BY <2>2, <2>3, <2>4
<1>9. ASSUME NEW s \in Sockets, Heard(s) PROVE NothingForgotten'
  <2>1. PICK m \in Messages :
          /\ inbox[s] # <<>> /\ Head(inbox[s]) = m /\ inbox' = [inbox EXCEPT ![s] = Tail(@)]
          /\ view' = IF DialogOf[m] = open THEN appendMessage(m) ELSE view
    BY <1>9 DEF Heard, Dispatch
  <2>2. UNCHANGED <<stored, news, open, session, read, failed, wiped, load, again, ws, sock>>
    BY <1>9 DEF Heard, server, account, reasons, link
  <2>3. /\ ToSet(view) \subseteq ToSet(view')
        /\ DialogOf[m] = open => m \in ToSet(view')
    BY <1>0, <2>1 DEF appendMessage, ToSet, ViewType
  <2>4. ToSet(inbox[s]) = {m} \cup ToSet(inbox'[s])
    <3>1. inbox[s] \in Seq(Events) /\ inbox'[s] = Tail(inbox[s])
      BY <1>0, <2>1 DEF InboxType
    <3> QED
      BY <2>1, <3>1, HeadTail
  <2>5. ASSUME open # None, NEW i \in DOMAIN stored, DialogOf[stored[i].id] = open,
               BySocket(i)
        PROVE  (Got(i) \/ BySocket(i))'
    <3>1. CASE s = ws
      <4>1. SocketUp' => SocketUp
        <5>1. m # "open"
          BY WebClientAssumption
        <5> QED
          BY <2>2, <2>4, <3>1, <5>1 DEF SocketUp
      <4>2. CASE stored[i].id = m
        BY <2>2, <2>3, <2>5, <4>2 DEF Got
      <4>3. CASE stored[i].id # m
        BY <2>2, <2>4, <2>5, <3>1, <4>1, <4>3 DEF BySocket
      <4> QED
        BY <4>2, <4>3
    <3>2. CASE s # ws
      <4>1. ws # None => inbox'[ws] = inbox[ws]
        BY <1>0, <2>1, <3>2 DEF InboxType, LinkType
      <4> QED
        BY <2>2, <2>5, <4>1 DEF BySocket, SocketUp
    <3> QED
      BY <3>1, <3>2
  <2> QED
    BY <1>6, <2>2, <2>3, <2>5, InLoadKept
<1>10. ASSUME NEW i \in DOMAIN typed, PostAnswered(i) PROVE NothingForgotten'
  <2>1. UNCHANGED <<stored, news, open, session, read, failed, wiped, load, again, ws, sock, inbox>>
    BY <1>10 DEF PostAnswered, server, account, reasons, sockets, link
  <2>2. ToSet(view) \subseteq ToSet(view')
    BY <1>0, <1>10 DEF PostAnswered, appendMessage, ToSet, ViewType
  <2>3. \A k : BySocket(k) => BySocket(k)'
    BY <2>1 DEF BySocket, SocketUp
  <2> QED
    BY <1>6, <2>1, <2>2, <2>3, InLoadKept
<1>11. CASE Stores
  <2>1. UNCHANGED <<news, open, view, session, read, failed, wiped, load, again, ws, sock, inbox>>
    BY <1>11 DEF Stores, PostElsewhere, ServePost, ServeAdrift, account, chat, reasons,
                 sockets, link
  <2>2. PICK m \in Messages, u \in Users \cup {None} : Store(m, u) /\ m \notin StoredIds
    BY <1>11, StoresOne
  <2>3. /\ Len(stored) \in Nat /\ DOMAIN stored' = DOMAIN stored \cup {Len(stored) + 1}
        /\ \A i \in DOMAIN stored : stored'[i] = stored[i]
        /\ stored'[Len(stored) + 1].id = m
        /\ stored'[Len(stored) + 1].session = session
    BY <2>2, StoreType
  <2> SUFFICES ASSUME open # None, NEW i \in DOMAIN stored', DialogOf[stored'[i].id] = open
               PROVE  (Got(i) \/ (i > read /\ Coming(i)))'
    BY <2>1 DEF NothingForgotten
  <2>4. CASE i \in DOMAIN stored
    <3>1. DialogOf[stored[i].id] = open /\ stored'[i] = stored[i]
      BY <2>3, <2>4
    <3>2. Got(i) => Got(i)'
      BY <2>1, <2>4, <3>1, GotKept
    <3>3. Coming(i) => Coming(i)'
      BY <2>1, <3>1 DEF Coming, Due, BySocket, SocketUp, InLoad
    <3>4. Got(i) \/ (i > read /\ Coming(i))
      BY <2>4, <3>1 DEF NothingForgotten
    <3> QED
      BY <2>1, <3>2, <3>3, <3>4
  <2>5. CASE i = Len(stored) + 1
    <3>1. news[m] = "due"
      BY <2>2 DEF IdsInv
    <3>2. Due(i)'
      BY <2>1, <2>3, <2>5, <3>1 DEF Due
    <3>3. i > read
      BY <1>0, <2>3, <2>5 DEF ViewType
    <3> QED
      BY <2>1, <3>2, <3>3 DEF Coming
  <2> QED
    BY <2>3, <2>4, <2>5
(* A message is announced to a page whose socket is up or will open again, or *)
(* before the first socket of the login.                                      *)
<1>20. ASSUME NEW m \in Messages, Announce(m) PROVE NothingForgotten'
  <2>1. /\ UNCHANGED <<stored, open, view, session, read, failed, wiped, load, again, ws, sock, owner, me>>
        /\ news' = [news EXCEPT ![m] = IF again THEN "said" ELSE "early"]
        /\ inbox' = [s \in Sockets |->
              IF sock[s] = "registered" /\ MayAct(owner[s], DialogOf[m])
              THEN Append(inbox[s], m) ELSE inbox[s]]
    BY <1>20 DEF Announce, AnnounceAs, account, chat, reasons, link
  <2>2. \A s \in Sockets :
          /\ ToSet(inbox[s]) \subseteq ToSet(inbox'[s])
          /\ sock[s] = "registered" /\ MayAct(owner[s], DialogOf[m]) => m \in ToSet(inbox'[s])
    <3> TAKE s \in Sockets
    <3>1. inbox'[s] = IF sock[s] = "registered" /\ MayAct(owner[s], DialogOf[m])
                      THEN Append(inbox[s], m) ELSE inbox[s]
      BY <2>1
    <3>2. inbox[s] \in Seq(Events)
      BY <1>0 DEF InboxType
    <3> DEFINE q == inbox[s]
               r == Append(q, m)
    <3>3. DOMAIN r = DOMAIN q \cup {Len(q) + 1} /\ r[Len(q) + 1] = m
          /\ \A k \in DOMAIN q : r[k] = q[k]
      BY <3>2
    <3> HIDE DEF q, r
    <3>4. ToSet(q) \subseteq ToSet(r) /\ m \in ToSet(r)
      BY <3>3 DEF ToSet
    <3> QED
      BY <3>1, <3>4 DEF q, r
  <2>3. SocketUp' => SocketUp /\ ToSet(inbox[ws]) \subseteq ToSet(inbox[ws])'
    BY <1>0, <2>1, <2>2 DEF SocketUp, LinkType
  <2> SUFFICES ASSUME open # None, NEW i \in DOMAIN stored, DialogOf[stored[i].id] = open
               PROVE  (Got(i) \/ (i > read /\ Coming(i)))'
    BY <2>1 DEF NothingForgotten
  <2>4. Got(i) \/ (i > read /\ Coming(i))
    BY DEF NothingForgotten
  <2>5. Got(i) => Got(i)'
    BY <2>1, GotKept
  <2>6. BySocket(i) => BySocket(i)'
    BY <2>1, <2>3, BySocketKept
  <2>7. (\E l \in Loads : InLoad(l, i)) => (\E l \in Loads : InLoad(l, i))'
    BY <2>1, InLoadKept
  <2>8. CASE Due(i) /\ i > read
    <3>1. CASE stored[i].id # m
      <4>1. news'[stored[i].id] = news[stored[i].id]
        BY <1>0, <2>1, <3>1, RowIs DEF NewsType
      <4> QED
        BY <2>1, <2>8, <4>1 DEF Coming, Due
    <3>2. CASE stored[i].id = m /\ ~ again
      <4>1. news'[m] = "early"
        BY <1>0, <2>1, <3>2 DEF NewsType
      <4> QED
        BY <2>1, <2>8, <3>2, <4>1 DEF Got, Excused, Early, Due
    <3>3. CASE stored[i].id = m /\ again
      <4>1. DialogOf[m] = open /\ me # None /\ me \in Participants[open]
        BY <3>3 DEF AccountInv
      <4>2. ASSUME SocketUp' PROVE m \in ToSet(inbox[ws])'
        <5>1. ws \in Sockets /\ sock[ws] = "registered"
          BY <1>0, <2>1, <4>2 DEF SocketUp, LinkType
        <5>2. owner[ws] = me
          BY <1>0, <5>1, WebClientAssumption DEF SocketInv
        <5> QED
          BY <2>1, <2>2, <4>1, <5>1, <5>2 DEF MayAct
      <4>3. BySocket(i)'
        BY <2>1, <3>3, <4>2 DEF BySocket
      <4> QED
        BY <2>1, <2>8, <4>3 DEF Coming
    <3> QED
      BY <3>1, <3>2, <3>3
  <2> QED
    BY <2>1, <2>4, <2>5, <2>6, <2>7, <2>8 DEF Coming
<1>21. ASSUME NEW m \in Messages, AnnounceFails(m) PROVE NothingForgotten'
  <2>1. /\ UNCHANGED <<stored, open, view, session, read, failed, wiped, load, again, ws, sock, inbox>>
        /\ \E what \in {"unsaid", "lost"} : news' = [news EXCEPT ![m] = what]
    BY <1>21 DEF AnnounceFails, AnnounceAs, account, chat, reasons, link
  <2> SUFFICES ASSUME open # None, NEW i \in DOMAIN stored, DialogOf[stored[i].id] = open
               PROVE  (Got(i) \/ (i > read /\ Coming(i)))'
    BY <2>1 DEF NothingForgotten
  <2>2. Got(i) \/ (i > read /\ Coming(i))
    BY DEF NothingForgotten
  <2>3. Got(i) => Got(i)'
    BY <2>1, GotKept
  <2>4. Carried(i) => Carried(i)'
    BY <2>1 DEF BySocket, SocketUp, InLoad
  <2>5. Due(i) => Due(i)' \/ Unheard(i)'
    BY <1>0, <2>1, RowIs DEF Due, Unheard, NewsType
  <2> QED
    BY <2>1, <2>2, <2>3, <2>4, <2>5 DEF Coming, Got, Excused
<1>22. ASSUME NEW l \in Loads, DenyLoad(l) \/ RenewLoad(l) PROVE NothingForgotten'
  <2>1. UNCHANGED <<stored, news, open, view, session, read, failed, wiped, again, ws, sock, inbox>>
    BY <1>22 DEF DenyLoad, RenewLoad, server, account, chat, reasons, sockets, link
  <2>2. PICK step \in {"denied", "again"} :
          load' = [load EXCEPT ![l].step = step] /\ load[l].step # "answered"
    BY <1>22 DEF DenyLoad, RenewLoad, Denies, Renews
  <2>3. \A i, x : x \in Loads /\ InLoad(x, i) => InLoad(x, i)'
    BY <1>0, <2>1, <2>2 DEF InLoad, LoadType, Answer
  <2>4. \A i : BySocket(i) => BySocket(i)'
    BY <2>1 DEF BySocket, SocketUp
  <2> QED
    BY <1>6, <2>1, <2>3, <2>4
(* A step of a socket: if it is the current one, it is not up afterwards.     *)
<1>12. ASSUME UNCHANGED <<stored, news, open, view, session, read, failed, wiped, load, again>>,
              SocketUp' => SocketUp /\ ToSet(inbox[ws]) \subseteq ToSet(inbox[ws])'
       PROVE  NothingForgotten'
  BY <1>6, <1>12, InLoadKept, BySocketKept
<1>13. ASSUME NEW s \in Sockets, Accept(s) \/ End(s) PROVE NothingForgotten'
  <2>1. PICK state \in States, e \in {"open", "close"} :
          /\ sock' = [sock EXCEPT ![s] = state] /\ inbox' = [inbox EXCEPT ![s] = Append(@, e)]
          /\ state = "registered" => e = "open"
    BY <1>13 DEF Accept, End, States
  <2>2. UNCHANGED <<stored, news, open, view, session, read, failed, wiped, load, again, ws>>
    BY <1>13 DEF Accept, End, server, account, chat, reasons, link
  <2>3. CASE s = ws
    <3>1. sock'[ws] = state /\ inbox'[ws] = Append(inbox[ws], e)
      BY <1>0, <2>1, <2>3 DEF SocketType, InboxType
    <3>2. e \in ToSet(Append(inbox[ws], e))
      <4>1. inbox[ws] \in Seq(Events)
        BY <1>0, <2>3 DEF InboxType
      <4>2. Len(inbox[ws]) + 1 \in DOMAIN Append(inbox[ws], e)
            /\ Append(inbox[ws], e)[Len(inbox[ws]) + 1] = e
        BY <4>1
      <4> QED
        BY <4>2 DEF ToSet
    <3> QED
      BY <1>12, <2>1, <2>2, <3>1, <3>2 DEF SocketUp
  <2>4. CASE s # ws
    <3>1. ws # None => sock'[ws] = sock[ws] /\ inbox'[ws] = inbox[ws]
      BY <1>0, <2>1, <2>4 DEF SocketType, InboxType, LinkType
    <3> QED
      BY <1>12, <2>2, <3>1 DEF SocketUp
  <2> QED
    BY <2>3, <2>4
<1>14. ASSUME NEW s \in Sockets, onclose(s) PROVE NothingForgotten'
  <2>1. UNCHANGED <<stored, news, open, view, session, read, failed, wiped, load, again>> /\ ws' = None
    BY <1>14 DEF onclose, server, account, chat, reasons
  <2> QED
    BY <1>12, <2>1 DEF SocketUp
<1>15. CASE Timeout
  <2>1. UNCHANGED <<stored, news, open, view, session, read, failed, wiped, load, again>>
    BY <1>15 DEF Timeout, server, account, chat, reasons
  <2>2. sock'[ws'] = "connecting"
    BY <1>15, ConnectIs DEF Timeout
  <2> QED
    BY <1>12, <2>1, <2>2 DEF SocketUp
<1>16. CASE UNCHANGED <<stored, news, open, view, session, read, failed, wiped, load, again, ws, sock, inbox>>
  BY <1>12, <1>16 DEF SocketUp
<1>17. CASE EnterFails \/ ServeLogout \/ Expire \/ RefreshToken \/ UNCHANGED vars
  BY <1>16, <1>17 DEF EnterFails, ServeLogout, Expire, RefreshToken, vars,
                      server, account, chat, reasons, sockets, link
<1>18. ASSUME NEW m \in Own, sendMessage(m) PROVE NothingForgotten'
  BY <1>16, <1>18 DEF sendMessage, server, account, chat, reasons, sockets, link
<1>19. ASSUME NEW i \in DOMAIN typed, RefusePost(i) \/ PostLost(i) PROVE NothingForgotten'
  BY <1>16, <1>19 DEF RefusePost, PostLost, server, account, chat, reasons, sockets, link
<1>23. ASSUME NEW i \in DOMAIN typed, DenyPost(i) \/ RenewPost(i) PROVE NothingForgotten'
  BY <1>16, <1>23 DEF DenyPost, RenewPost, server, account, chat, reasons, sockets, link
<1> QED
  BY <1>1, <1>2, <1>3, <1>4, <1>5, <1>7, <1>8, <1>9, <1>10, <1>11, <1>13, <1>14, <1>15,
     <1>17, <1>18, <1>19, <1>20, <1>21, <1>22, <1>23
  DEF Next, Post, LoadMessages, Socket, Stores, Refuse, Closed, Break

(* The initial states satisfy the inductive invariant: nothing is stored,     *)
(* shown or open, and every socket and load is free.                          *)
LEMMA IInvInit == Init => IInv
<1> SUFFICES ASSUME Init PROVE IInv
  OBVIOUS
<1>1. TypeOK
  BY TypeInit
<1>2. AccountInv
  BY DEF Init, AccountInv
<1>3. SocketInv
  BY DEF Init, SocketInv
<1>4. IdsInv
  <2>1. StoredIds = {} /\ DOMAIN stored = {} /\ DOMAIN typed = {}
        /\ \A m \in Messages : news[m] = "due"
    BY DEF Init, StoredIds
  <2> QED
    BY <2>1 DEF Init, IdsInv
<1>5. ChainInv
  BY DEF Init, ChainInv
<1>6. ViewIsTrue
  <2>1. ToSet(<<>>) = {} /\ IsInjective(<<>>)
    BY DEF ToSet, IsInjective
  <2> QED
    BY <2>1 DEF Init, ViewIsTrue
<1>7. NothingForgotten
  BY DEF Init, NothingForgotten
<1>8. PostedAsTyped
  BY DEF Init, PostedAsTyped
<1>9. OneSocket
  BY DEF Init, OneSocket, Live
<1> QED
  BY <1>1, <1>2, <1>3, <1>4, <1>5, <1>6, <1>7, <1>8, <1>9 DEF IInv

(* Every step of the page, of the browser and of the server keeps it.         *)
LEMMA IInvStep == IInv /\ [Next]_vars => IInv'
<1> SUFFICES ASSUME IInv, [Next]_vars PROVE IInv'
  OBVIOUS
<1>0. /\ TypeOK /\ AccountInv /\ SocketInv /\ IdsInv /\ ChainInv
      /\ ViewIsTrue /\ NothingForgotten /\ PostedAsTyped /\ OneSocket
  BY DEF IInv
<1>1. TypeOK'
  BY <1>0, TypeStep
<1>2. IdsInv'
  BY <1>0, IdsStep
<1>3. AccountInv' /\ SocketInv' /\ ChainInv' /\ ViewIsTrue' /\ OneSocket'
  BY <1>0, <1>1, AccountStep, SocketStep, ChainStep, ViewIsTrueStep, OneSocketStep
<1>4. NothingForgotten'
  BY <1>0, <1>1, <1>2, NothingForgottenStep
<1>5. PostedAsTyped'
  <2>1. StoredInOrder' /\ StoredAsOwn'
    BY <1>0, PostedAsTypedParts, StoredInOrderStep, StoredAsOwnStep
  <2> QED
    BY <2>1, PostedAsTypedParts, PTL
<1> QED
  BY <1>1, <1>2, <1>3, <1>4, <1>5 DEF IInv

THEOREM Inductive == Spec => []IInv
  BY IInvInit, IInvStep, PTL DEF Spec

(* At rest no load is under way, nothing is left to announce, and every event *)
(* has been dispatched, so that nothing more will come.                       *)
LEMMA AtRest == IInv => MissesOnlyKnown
<1> SUFFICES ASSUME IInv, Settled, NEW i \in DOMAIN stored, DialogOf[stored[i].id] = open
             PROVE  Got(i)
  BY DEF MissesOnlyKnown, Got
<1>1. Got(i) \/ Due(i) \/ BySocket(i) \/ \E l \in Loads : InLoad(l, i)
  BY DEF IInv, NothingForgotten, Coming, Settled
<1>2. \A l \in Loads : ~ InLoad(l, i)
  BY DEF Settled, InLoad
<1>3. ToSet(inbox[ws]) = {}
  BY DEF Settled, ToSet
<1>4. ~ BySocket(i)
  BY <1>3 DEF BySocket, SocketUp, Settled
<1>5. ~ Due(i)
  BY DEF Settled, Due, StoredIds
<1> QED
  BY <1>1, <1>2, <1>4, <1>5

-------------------------------------------------------------------------------
(* The theorems.                                                             *)

(* The variables of index.html keep their types; currentUserId is set exactly *)
(* while the app is shown, and a post that sendQueue holds, has given up or   *)
(* lost was typed on the page.                                                *)
THEOREM TypeCorrect == Spec => []TypeOK
<1>1. IInv => TypeOK
  BY DEF IInv
<1> QED
  BY <1>1, Inductive, PTL

(* appendMessage and the answers of loadMessages never show a message twice;  *)
(* what is shown is of the open dialog, unless its messages are awaited, were *)
(* not given, or an answer for another dialog came last.                      *)
THEOREM ViewAlwaysTrue == Spec => []ViewIsTrue
<1>1. IInv => ViewIsTrue
  BY DEF IInv
<1> QED
  BY <1>1, Inductive, PTL

(* When the page is at rest with its socket up, it shows every message of the *)
(* open dialog that the answer of get_messages could give, and the events or  *)
(* onopen's reload have brought those stored since; a later one is missing    *)
(* only for a reason that MissesOnlyKnown names, as when send_message stored  *)
(* it and failed before the broadcast.                                        *)
THEOREM NoMessageMissed == Spec => []MissesOnlyKnown
  BY AtRest, Inductive, PTL

(* sendQueue stores the messages of a login in the order typed, as messages   *)
(* of the user who typed them, with the exceptions that PostedAsTyped names.  *)
THEOREM PostsInOrder == Spec => []PostedAsTyped
<1>1. IInv => PostedAsTyped
  BY DEF IInv
<1> QED
  BY <1>1, Inductive, PTL

(* connectWs keeps one live socket, the user's own, but for those that a late *)
(* onclose took from ws.                                                      *)
THEOREM KeepsOneSocket == Spec => []OneSocket
<1>1. IInv => OneSocket
  BY DEF IInv
<1> QED
  BY <1>1, Inductive, PTL

===============================================================================
