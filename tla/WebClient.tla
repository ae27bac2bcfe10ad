------------------------------ MODULE WebClient ------------------------------
(***************************************************************************)
(* The page web/index.html in one browser tab, with the server behind it:  *)
(* signing in and out, opening dialogs and loading their messages, the     *)
(* queue of messages to send, and the WebSocket with its reconnection.     *)
(*                                                                         *)
(* A step is one callback of the page, or one request that the server      *)
(* serves.  Requests overlap, and their answers arrive in any order.       *)
(* inbox[s] is the browser's queue of the events of socket s.  A request   *)
(* is served with the cookies that are good by then; api() answers a 403   *)
(* with a refresh and a second attempt.  A message is stored and announced *)
(* in two steps of its request, which may fail between them.               *)
(*                                                                         *)
(* Left out: the list of dialogs in the sidebar (any dialog of the user    *)
(* may be opened), the marks of read messages (see Messages), and sockets  *)
(* whose loss the browser does not report.                                 *)
(*                                                                         *)
(* crossed, read, wiped, failed, orphans and lost are history variables.   *)
(* Definitions that Next does not use (AppendTwice, ...) are wrong         *)
(* variants under which a property below fails.                            *)
(***************************************************************************)
EXTENDS Integers, Sequences, SequencesExt

CONSTANTS
    Users, Dialogs,
    Participants,  \* Participants[d]: the users of dialog d
    Own, Others,   \* ids of messages typed on this page, and posted elsewhere
    DialogOf,      \* DialogOf[m]: the dialog message m is for
    None,
    PageSize,      \* limit=50: the messages loadMessages asks for
    MaxSockets,    \* bound on WebSocket objects alive at a time
    MaxLoads,      \* bound on answers of loadMessages outstanding at a time
    Scopes         \* the bounds on a behaviour: who logs in, one after the other,
                   \* which messages there are, how many loads overlap, and how
                   \* often something fails or the token expires

Sockets  == 1 .. MaxSockets
Loads    == 1 .. MaxLoads
Messages == Own \cup Others

ASSUME WebClientAssumption ==
    /\ Participants \in [Dialogs -> SUBSET Users]
    /\ Own \cap Others = {} /\ {"open", "close"} \cap Messages = {}
    /\ None \notin Users \cup Dialogs \cup Messages /\ None \notin Sockets
    /\ {PageSize, MaxSockets, MaxLoads} \subseteq Nat \ {0}
    /\ Scopes \subseteq [accounts : Seq(Users), messages : SUBSET Messages,
                         loads : 0 .. MaxLoads, faults : Nat]
    /\ DialogOf \in [Messages -> Dialogs]

VARIABLES
    scope,    \* one of Scopes
    cookie,   \* the user whose tokens the browser holds, None: none or revoked
    fresh,    \* the access token has not expired
    stored,   \* the server's messages, in the order of created_at
    news,     \* what became of the announcement of a message: "due" until its
              \* request makes it, then "said", or "early" before the first
              \* socket of a login has opened; "unsaid" if the request fails
              \* first, "lost" if it reaches no socket
    screen,   \* "auth", "entering" (enterApp awaits /users/me) or "app"
    me,       \* currentUserId
    open,     \* currentDialogId
    view,     \* the children of #messages
    load,     \* the calls of loadMessages under way
    typed,    \* the messages typed, in order
    pending,  \* those that the chains of sendQueue still hold
    adrift,   \* posts the page has given up that may yet reach the server
    ws, timer, again, \* ws, wsReconnectTimer set, wsIsReconnect
    sock,     \* the state of each WebSocket object
    owner,    \* the user a socket was opened for, None: its token had expired
    inbox,    \* the events of each socket that wait to be dispatched
    session,  \* number of logins
    faults,
    \* History, since the dialog was opened.
    crossed,  \* the answer applied last was not for the open dialog
    read,     \* the messages stored when the answer shown was given
    wiped,    \* messages of the open dialog that answers have removed
    failed,   \* 0, or the next place in stored when a load of it last failed
    orphans,  \* history: sockets that another one's close event took from ws
    attempt,  \* how far api() is with each post of the page
    lost      \* history: posts the page has given up

server  == <<cookie, fresh, stored, news>>
account == <<screen, me, session>>
reasons == <<crossed, read, wiped, failed>>
chat    == <<open, view, reasons>>
outbox  == <<typed, pending, adrift, attempt, lost>>
sockets == <<sock, owner, inbox>>
link    == <<ws, timer, again, orphans>>
budget  == <<faults, scope>>
vars    == <<server, account, chat, load, outbox, sockets, link, budget>>

NoLoad == [step |-> "free", dialog |-> None, upto |-> 0]

StoredIds == {stored[i].id : i \in DOMAIN stored}

TypeOK ==
    /\ scope \in Scopes
    /\ cookie \in Users \cup {None} /\ fresh \in BOOLEAN
    /\ stored \in Seq([id : Messages, author : Users \cup {None},
                       session : 0 .. Len(scope.accounts)])
    /\ news \in [Messages -> {"due", "said", "early", "unsaid", "lost"}]
    /\ screen \in {"auth", "entering", "app"}
    /\ me \in Users \cup {None} /\ open \in Dialogs \cup {None}
    /\ me # None <=> screen = "app"
    /\ view \in Seq(Messages) /\ wiped \subseteq Messages
    /\ crossed \in BOOLEAN /\ read \in 0 .. Len(stored) /\ failed \in 0 .. Len(stored) + 1
    /\ load \in [Loads -> [step : {"free", "asked", "denied", "again", "answered"},
                           dialog : Dialogs \cup {None}, upto : 0 .. Len(stored)]]
    /\ typed \in Seq([id : Own, by : Users, session : 1 .. Len(scope.accounts)])
    /\ attempt \in [Own -> {"asked", "denied", "again"}]
    /\ pending \cup adrift \cup lost \subseteq {typed[i].id : i \in DOMAIN typed}
    /\ ws \in Sockets \cup {None} /\ orphans \subseteq Sockets
    /\ timer \in BOOLEAN /\ again \in BOOLEAN
    /\ sock \in [Sockets -> {"free", "connecting", "registered", "closing", "closed"}]
    /\ owner \in [Sockets -> Users \cup {None}]
    /\ inbox \in [Sockets -> Seq(Messages \cup {"open", "close"})]
    /\ session \in 0 .. Len(scope.accounts) /\ faults \in 0 .. scope.faults

Init ==
    /\ scope \in Scopes
    /\ cookie = None /\ fresh = TRUE
    /\ stored = <<>> /\ news = [m \in Messages |-> "due"]
    /\ screen = "auth" /\ me = None /\ open = None /\ view = <<>>
    /\ load = [l \in Loads |-> NoLoad]
    /\ typed = <<>> /\ pending = {} /\ adrift = {} /\ lost = {}
    /\ attempt = [m \in Own |-> "asked"]
    /\ ws = None /\ timer = FALSE /\ again = FALSE
    /\ sock = [s \in Sockets |-> "free"]
    /\ owner = [s \in Sockets |-> None]
    /\ inbox = [s \in Sockets |-> <<>>]
    /\ session = 0 /\ faults = 0
    /\ crossed = FALSE /\ read = 0 /\ wiped = {} /\ failed = 0 /\ orphans = {}

Fault ==
    /\ faults < scope.faults
    /\ faults' = faults + 1
    /\ UNCHANGED scope

-------------------------------------------------------------------------------
(* The server.                                                             *)

\* Where the messages of dialog d are among rows, the messages stored.
OfDialog(rows, d) == {i \in DOMAIN rows : DialogOf[rows[i].id] = d}

\* The place of rows[i] in its dialog.
Place(rows, i) == Cardinality({j \in OfDialog(rows, DialogOf[rows[i].id]) : j <= i})

\* get_messages for one of the participants: the oldest messages of the dialog.
Page(rows, d) ==
    [k \in 1 .. Min({Cardinality(OfDialog(rows, d)), PageSize}) |->
        rows[CHOOSE i \in OfDialog(rows, d) : Place(rows, i) = k].id]

MayAct(u, d) == u # None /\ u \in Participants[d]

\* Up to the commit of send_message.
Store(m, u) == stored' = Append(stored, [id |-> m, author |-> u, session |-> session])

\* What send_message does after the commit: it looks up the sender's login and
\* broadcasts to the sockets registered for the dialog.  A socket that the page
\* is closing dispatches no message any more.
AnnounceAs(m, what) ==
    /\ m \in StoredIds /\ news[m] = "due"
    /\ news' = [news EXCEPT ![m] = what]
    /\ UNCHANGED <<cookie, fresh, stored, account, chat, load, outbox, sock, owner, link>>

Announce(m) ==
    /\ AnnounceAs(m, IF again THEN "said" ELSE "early")
    /\ inbox' = [s \in Sockets |->
          IF sock[s] = "registered" /\ MayAct(owner[s], DialogOf[m])
          THEN Append(inbox[s], m) ELSE inbox[s]]
    /\ UNCHANGED budget

\* The lookup fails outside the try block, the publish raises or the worker
\* dies; or the worker that has the socket does not hear the channel.
AnnounceFails(m) ==
    /\ AnnounceAs(m, "unsaid") \/ AnnounceAs(m, "lost")
    /\ Fault
    /\ UNCHANGED inbox

PostElsewhere(m) ==
    /\ m \in (Others \cap scope.messages) \ StoredIds
    /\ Store(m, None)
    /\ UNCHANGED <<cookie, fresh, news, account, chat, load, outbox, sockets, link, budget>>

\* A post on its way carries a token that is no longer good.
Expire ==
    /\ fresh /\ cookie # None
    /\ Fault
    /\ fresh' = FALSE
    /\ adrift' = {}
    /\ UNCHANGED <<cookie, stored, news, account, chat, load, typed, pending, attempt, lost,
                   sockets, link>>

\* Any other call of api() renews an expired token, or loses the answer that
\* brings the new ones, when the old refresh token is revoked.
RefreshToken ==
    /\ ~fresh /\ cookie # None
    /\ \/ fresh' = TRUE /\ UNCHANGED <<cookie, budget>>
       \/ cookie' = None /\ Fault /\ UNCHANGED fresh
    /\ UNCHANGED <<stored, news, account, chat, load, outbox, sockets, link>>

\* api(), for a call about dialog d that is at step: the first attempt is served,
\* or denied because the token has expired; then the token is refreshed and the
\* second attempt is served or denied.
Serves(step, d)  == step \in {"asked", "again"} /\ fresh /\ MayAct(cookie, d)
Denies(step)     == step = "asked" /\ ~fresh /\ cookie # None
Renews(step)     == step = "denied" /\ cookie # None

\* The last answer is a 403: the user may not see the dialog, another call was
\* faster and has used up the refresh token, or the token has expired again.
Refuses(step, d) ==
    \/ step # "answered" /\ ~MayAct(cookie, d)
    \/ step = "denied" /\ fresh
    \/ step = "again" /\ ~fresh

-------------------------------------------------------------------------------
(* The WebSocket.                                                          *)

\* close(): the browser drops what it has not dispatched yet, and reports the
\* close event once, when the handshake is over.
OnlyClose(q) == IF "close" \in ToSet(q) THEN <<"close">> ELSE <<>>
Closing(s)   == IF sock[s] = "closed" THEN "closed" ELSE "closing"

CloseNot(s) == UNCHANGED <<sock, inbox>>
Close(s) ==
    /\ sock' = [sock EXCEPT ![s] = Closing(s)]
    /\ inbox' = [inbox EXCEPT ![s] = OnlyClose(@)]

\* connectWs: close the socket in ws, if any, and open a new one, with the
\* cookies as they are: nothing refreshes the token here.
connectWs ==
    \E s \in Sockets :
        /\ sock[s] = "free" /\ \A x \in 1 .. s - 1 : sock[x] # "free"
        /\ sock' = [x \in Sockets |-> IF x = s THEN "connecting"
                                      ELSE IF x = ws THEN Closing(x) ELSE sock[x]]
        /\ inbox' = [x \in Sockets |-> IF x = ws THEN OnlyClose(inbox[x]) ELSE inbox[x]]
        /\ owner' = [owner EXCEPT ![s] = IF fresh THEN cookie ELSE None]
        /\ ws' = s
        /\ UNCHANGED orphans

\* websocket_connect: accepted and registered, or refused for its token.
Accept(s) ==
    /\ sock[s] = "connecting" /\ owner[s] # None
    /\ sock' = [sock EXCEPT ![s] = "registered"]
    /\ inbox' = [inbox EXCEPT ![s] = Append(@, "open")]
    /\ UNCHANGED <<server, account, chat, load, outbox, owner, link, budget>>

End(s) ==
    /\ sock' = [sock EXCEPT ![s] = "closed"]
    /\ inbox' = [inbox EXCEPT ![s] = Append(@, "close")]
    /\ UNCHANGED <<server, account, chat, load, outbox, owner, link>>

Refuse(s) == sock[s] = "connecting" /\ owner[s] = None /\ End(s) /\ UNCHANGED budget

Break(s) == sock[s] \in {"connecting", "registered"} /\ Fault /\ End(s)

Closed(s) == sock[s] = "closing" /\ End(s) /\ UNCHANGED budget

\* The browser dispatches the next event of socket s.
Dispatch(s, event) ==
    /\ inbox[s] # <<>> /\ Head(inbox[s]) = event
    /\ inbox' = [inbox EXCEPT ![s] = Tail(@)]

\* loadMessages: the answer of call l is awaited.
Ask(d) == \E l \in 1 .. scope.loads :
    /\ load[l].step = "free" /\ \A x \in 1 .. l - 1 : load[x].step # "free"
    /\ load' = [load EXCEPT ![l] = [step |-> "asked", dialog |-> d, upto |-> 0]]

\* onopen: a page that had a socket before reads the open dialog again.
ReloadNever == UNCHANGED load
Reload == IF again /\ open # None THEN Ask(open) ELSE UNCHANGED load

Opened(s) ==
    /\ Dispatch(s, "open")
    /\ Reload
    /\ again' = TRUE
    /\ UNCHANGED <<server, account, chat, outbox, sock, owner, ws, timer, orphans, budget>>

\* appendMessage: unless it is shown already.
AppendTwice(m) == Append(view, m)
appendMessage(m) == IF m \in ToSet(view) THEN view ELSE Append(view, m)

Heard(s) ==
    /\ \E m \in Messages :
          /\ Dispatch(s, m)
          /\ view' = IF DialogOf[m] = open THEN appendMessage(m) ELSE view
    /\ UNCHANGED <<server, account, open, reasons, load, outbox, sock, owner, link, budget>>

\* onclose takes any closed socket for the current one.
RetriesIfOpened == me # None /\ again
Retries == me # None

onclose(s) ==
    /\ Dispatch(s, "close")
    /\ ws' = None
    /\ timer' = (timer \/ Retries)
    /\ orphans' = (orphans \ {s}) \cup (IF ws = s THEN {} ELSE {ws} \ {None})
    /\ sock' = [sock EXCEPT ![s] = "free"]
    /\ owner' = [owner EXCEPT ![s] = None]
    /\ UNCHANGED <<server, account, chat, load, outbox, again, budget>>

Timeout ==
    /\ timer
    /\ timer' = FALSE
    /\ connectWs
    /\ UNCHANGED <<server, account, chat, load, outbox, again, budget>>

-------------------------------------------------------------------------------
(* Signing in and out.                                                     *)

\* resetAppState, which leaves calls of loadMessages and the old chain of
\* sendQueue to themselves.
resetAppState ==
    /\ IF ws = None THEN UNCHANGED <<sock, inbox>> ELSE Close(ws)
    /\ ws' = None /\ timer' = FALSE /\ again' = FALSE
    /\ me' = None /\ open' = None /\ view' = <<>>
    /\ crossed' = FALSE /\ read' = 0 /\ wiped' = {} /\ failed' = 0
    /\ UNCHANGED <<stored, news, load, typed, pending, attempt, lost, owner, orphans>>

\* doLogin and doSignup: the answer brings the cookies.
SignIn ==
    /\ screen = "auth" /\ session < Len(scope.accounts)
    /\ session' = session + 1
    /\ screen' = "entering"
    /\ cookie' = scope.accounts[session + 1] /\ fresh' = TRUE
    /\ resetAppState
    /\ UNCHANGED <<adrift, budget>>

enterApp ==
    /\ screen = "entering" /\ cookie # None
    /\ screen' = "app" /\ me' = cookie
    /\ connectWs
    /\ UNCHANGED <<server, session, chat, load, outbox, timer, again, budget>>

\* enterApp returns when /users/me is not answered.
EnterRegardless ==
    /\ screen = "entering" /\ Fault
    /\ screen' = "app"
    /\ UNCHANGED <<server, me, session, chat, load, outbox, sockets, link>>

EnterFails ==
    /\ screen = "entering"
    /\ (cookie = None /\ UNCHANGED budget) \/ Fault
    /\ screen' = "auth"
    /\ UNCHANGED <<server, me, session, chat, load, outbox, sockets, link>>

\* The tokens are revoked.  If fetch raises then, nothing is reset.
ServeLogout ==
    /\ screen = "app" /\ cookie # None
    /\ cookie' = None /\ adrift' = {}
    /\ UNCHANGED <<fresh, stored, news, account, chat, load, typed, pending, attempt, lost,
                   sockets, link, budget>>

\* Whatever the answer is the page is reset, also when a failed request has
\* revoked nothing and the cookies are still good.
doLogout ==
    /\ screen = "app"
    /\ (cookie = None /\ UNCHANGED budget) \/ Fault
    /\ screen' = "auth"
    /\ resetAppState
    /\ UNCHANGED <<cookie, fresh, adrift, session>>

-------------------------------------------------------------------------------
(* Showing the messages of a dialog.                                       *)

openDialog(d) ==
    /\ me # None /\ me \in Participants[d]
    /\ open' = d
    /\ Ask(d)
    /\ crossed' = FALSE /\ read' = 0 /\ wiped' = {} /\ failed' = 0
    /\ UNCHANGED <<server, account, view, outbox, sockets, link, budget>>

ServeLoad(l) ==
    /\ Serves(load[l].step, load[l].dialog)
    /\ load' = [load EXCEPT ![l].step = "answered", ![l].upto = Len(stored)]
    /\ UNCHANGED <<server, account, chat, outbox, sockets, link, budget>>

DenyLoad(l) ==
    /\ Denies(load[l].step)
    /\ load' = [load EXCEPT ![l].step = "denied"]
    /\ UNCHANGED <<server, account, chat, outbox, sockets, link, budget>>

RenewLoad(l) ==
    /\ Renews(load[l].step)
    /\ fresh' = TRUE
    /\ load' = [load EXCEPT ![l].step = "again"]
    /\ UNCHANGED <<cookie, stored, news, account, chat, outbox, sockets, link, budget>>

\* An answer that is not ok leaves the page as it is, as does an exception.
LoadFails(l) ==
    /\ load[l].step \in {"asked", "denied", "again"}
    /\ (Refuses(load[l].step, load[l].dialog) /\ UNCHANGED budget) \/ Fault
    /\ load' = [load EXCEPT ![l] = NoLoad]
    /\ failed' = IF load[l].dialog = open THEN Len(stored) + 1 ELSE failed
    /\ UNCHANGED <<server, account, open, view, crossed, read, wiped, outbox, sockets, link>>

\* The answer replaces what is shown, whichever dialog is open by now.
ApplyLoad(l) ==
    LET page == Page(SubSeq(stored, 1, load[l].upto), load[l].dialog) IN
    /\ load[l].step = "answered"
    /\ view' = page
    /\ crossed' = (load[l].dialog # open)
    /\ read' = IF load[l].dialog = open THEN load[l].upto ELSE 0
    /\ wiped' = {m \in (ToSet(view) \cup wiped) \ ToSet(page) : DialogOf[m] = open}
    /\ load' = [load EXCEPT ![l] = NoLoad]
    /\ UNCHANGED <<server, account, open, failed, outbox, sockets, link, budget>>

-------------------------------------------------------------------------------
(* Sending.                                                                *)

\* The message is put behind the earlier ones of its login.
sendMessage(m) ==
    /\ me # None /\ open = DialogOf[m]
    /\ m \in Own \cap scope.messages /\ \A i \in DOMAIN typed : typed[i].id # m
    /\ typed' = Append(typed, [id |-> m, by |-> me, session |-> session])
    /\ pending' = pending \cup {m}
    /\ UNCHANGED <<server, account, chat, load, adrift, attempt, lost, sockets, link, budget>>

\* The first message of a chain is the one being posted.
InTurnAny(i) == typed[i].id \in pending
InTurn(i) ==
    /\ typed[i].id \in pending
    /\ \A j \in 1 .. i - 1 : typed[j].session = typed[i].session => typed[j].id \notin pending

ServePost(i) ==
    LET p == typed[i] IN
    /\ InTurn(i) /\ p.id \notin StoredIds
    /\ Serves(attempt[p.id], DialogOf[p.id])
    /\ Store(p.id, cookie)
    /\ UNCHANGED <<cookie, fresh, news, account, chat, load, outbox, sockets, link, budget>>

DenyPost(i) ==
    /\ InTurn(i) /\ typed[i].id \notin StoredIds
    /\ Denies(attempt[typed[i].id])
    /\ attempt' = [attempt EXCEPT ![typed[i].id] = "denied"]
    /\ UNCHANGED <<server, account, chat, load, typed, pending, adrift, lost,
                   sockets, link, budget>>

RenewPost(i) ==
    /\ InTurn(i) /\ typed[i].id \notin StoredIds
    /\ Renews(attempt[typed[i].id])
    /\ fresh' = TRUE
    /\ attempt' = [attempt EXCEPT ![typed[i].id] = "again"]
    /\ UNCHANGED <<cookie, stored, news, account, chat, load, typed, pending, adrift, lost,
                   sockets, link, budget>>

\* Not ok: nothing is shown.
RefusePost(i) ==
    LET p == typed[i] IN
    /\ InTurn(i)
    /\ IF p.id \in StoredIds THEN news[p.id] = "unsaid"
                             ELSE Refuses(attempt[p.id], DialogOf[p.id])
    /\ pending' = pending \ {p.id}
    /\ UNCHANGED <<server, account, chat, load, typed, adrift, attempt, lost,
                   sockets, link, budget>>

PostAnswered(i) ==
    LET m == typed[i].id IN
    /\ InTurn(i) /\ m \in StoredIds /\ news[m] \notin {"due", "unsaid"}
    /\ pending' = pending \ {m}
    /\ view' = IF DialogOf[m] = open THEN appendMessage(m) ELSE view
    /\ UNCHANGED <<server, account, open, reasons, load, typed, adrift, attempt, lost,
                   sockets, link, budget>>

\* fetch raises: the next message has its turn, whatever becomes of this one.
PostLost(i) ==
    LET m == typed[i].id IN
    /\ InTurn(i) /\ Fault
    /\ pending' = pending \ {m}
    /\ lost' = lost \cup {m}
    /\ adrift' = IF m \in StoredIds \/ attempt[m] = "denied" THEN adrift ELSE adrift \cup {m}
    /\ UNCHANGED <<server, account, chat, load, typed, attempt, sockets, link>>

ServeAdrift(i) ==
    LET p == typed[i] IN
    /\ p.id \in adrift
    /\ MayAct(cookie, DialogOf[p.id])
    /\ adrift' = adrift \ {p.id}
    /\ Store(p.id, cookie)
    /\ UNCHANGED <<cookie, fresh, news, account, chat, load, typed, pending, attempt, lost,
                   sockets, link, budget>>

-------------------------------------------------------------------------------
Socket(s) ==
    \/ Accept(s) \/ Refuse(s) \/ Closed(s)
    \/ Opened(s) \/ Heard(s) \/ onclose(s)

LoadMessages(l) ==
    ServeLoad(l) \/ DenyLoad(l) \/ RenewLoad(l) \/ LoadFails(l) \/ ApplyLoad(l)

Post(i) ==
    \/ ServePost(i) \/ DenyPost(i) \/ RenewPost(i) \/ RefusePost(i)
    \/ PostAnswered(i) \/ PostLost(i) \/ ServeAdrift(i)

Next ==
    \/ SignIn \/ enterApp \/ EnterFails \/ ServeLogout \/ doLogout
    \/ \E d \in Dialogs : openDialog(d)
    \/ \E m \in Own : sendMessage(m)
    \/ \E m \in Others : PostElsewhere(m)
    \/ \E m \in Messages : Announce(m) \/ AnnounceFails(m)
    \/ \E i \in DOMAIN typed : Post(i)
    \/ \E l \in Loads : LoadMessages(l)
    \/ \E s \in Sockets : Socket(s) \/ Break(s)
    \/ Timeout \/ Expire \/ RefreshToken

Spec == Init /\ [][Next]_vars

\* The browser dispatches events, timers and answers, and a handshake or a
\* close is answered.  Nothing obliges the user to do anything.
FairSpec ==
    /\ Spec
    /\ \A s \in Sockets : WF_vars(Socket(s))
    /\ \A l \in Loads : WF_vars(LoadMessages(l))
    /\ WF_vars(Timeout)

-------------------------------------------------------------------------------
(* Properties.                                                             *)

Loading(d) == \E l \in Loads : load[l].step # "free" /\ load[l].dialog = d

\* No message is shown twice, although it comes with an answer, an event and
\* the answer of its own post.  What is shown belongs to the open dialog, or
\* its messages are still awaited, or were not given, or answers overtook
\* each other.
ViewIsTrue ==
    /\ IsInjective(view)
    /\ \A m \in ToSet(view) :
          DialogOf[m] = open \/ Loading(open) \/ failed # 0 \/ crossed

\* The page has come to rest, with its socket up, and no broadcast is due.
Settled ==
    /\ open # None /\ \A l \in Loads : load[l].step = "free"
    /\ ws # None /\ sock[ws] = "registered" /\ inbox[ws] = <<>>
    /\ \A m \in StoredIds : news[m] # "due"

\* Beyond the oldest messages, which are all that loadMessages asks for.
Cut(i) == stored[i].id \notin ToSet(Page(stored, open))

\* Announced before the first socket of this login had opened: that one reads
\* nothing again.
Early(i) == stored[i].session = session /\ news[stored[i].id] = "early"

\* No event of it has come.
Unheard(i) == news[stored[i].id] \in {"unsaid", "lost"}

\* Why a message may be missing that no answer has given since.
Excused(i) == Early(i) \/ Unheard(i) \/ stored[i].id \in wiped \/ i < failed

\* Once the page has come to rest, it shows every message of the open dialog
\* that was stored when the answer it shows was given, as far as a page reaches.
\* A message stored later is missing only for one of these reasons: its request
\* failed before the broadcast or the broadcast did not reach the socket, it was
\* announced before the login's first socket opened, an older answer removed it
\* again, or a load has failed since it was stored.  So what passed while a
\* socket was down is always read again.
MissesOnlyKnown ==
    Settled => \A i \in DOMAIN stored :
        DialogOf[stored[i].id] = open /\ stored[i].id \notin ToSet(view) =>
            Cut(i) \/ (i > read /\ Excused(i))

TypedBefore(m, n) ==
    \E i, j \in DOMAIN typed :
        i < j /\ typed[i].id = m /\ typed[j].id = n /\ typed[i].session = typed[j].session

\* Messages of one login are stored in the order they were typed, unless the
\* page has given up the earlier; and as messages of the user who typed them,
\* unless he had logged out and another one in while they were queued.
PostedAsTyped ==
    /\ \A i, j \in DOMAIN stored :
          TypedBefore(stored[i].id, stored[j].id) => i < j \/ stored[i].id \in lost
    /\ \A i \in DOMAIN stored, j \in DOMAIN typed :
          stored[i].id = typed[j].id =>
             stored[i].author = typed[j].by \/ stored[i].session # typed[j].session

Live(s) == sock[s] \in {"connecting", "registered"}

\* A tab keeps one socket, that of its user: another one is live only when the
\* close event of an earlier socket came late and took it from ws.
OneSocket ==
    \A s \in Sockets : Live(s) =>
        s \in orphans \/ (s = ws /\ owner[s] \in {me, None})

\* A signed-in page gets a socket again, however often it breaks, while its
\* token is good.  Once the token has expired, connectWs is refused until
\* some other call renews it.
Reconnects ==
    []<>(me = None \/ cookie = None \/ ~fresh \/ \E s \in Sockets : sock[s] = "registered")

===============================================================================
