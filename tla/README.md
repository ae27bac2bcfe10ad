# A specification of friendsyashki

TLA+ modules for the two services of this repository, `messenger` (dialogs,
messages, statuses, WebSocket delivery) and `auth` (accounts, tokens and their
blacklist), and for the page `web/index.html` that uses them, with the TLC runs
that check them on small instances and proofs for TLAPS.

Every definition is translated from the code under `src/`; `PROJECT.json` names
the lines behind each of them. The sections below say what the system consists
of, how the modules correspond to it, what the runs and the proofs show, what is
left out, and what comes next.

## 1. The system

| Part | State | Operations | Talks to |
|---|---|---|---|
| Messages and statuses (`messenger/src/api/v1/messages.py`, `statuses.py`, `services/messages.py`, `repositories/messages.py`) | tables `messages`, `message_statuses` | send, mark delivered, mark read, history | PostgreSQL, auth (gRPC), connection manager |
| Dialogs (`api/v1/dialogs.py`, `services/dialogs.py`, `repositories/dialogs.py`) | tables `dialogs`, `dialog_participants` | create or get a direct dialog, list | PostgreSQL, auth, connection manager |
| WebSocket endpoint and connection manager (`ws/router.py`, `ws/manager.py`) | per worker: sockets of each user, a lock per socket, a heartbeat task per socket | register, evict, unregister, send to user, broadcast | clients, pub/sub, auth |
| Redis pub/sub (`ws/pubsub.py`) | per worker: publisher, subscription, listener task | publish with reconnection and local fallback, listen, resubscribe | Redis, connection manager |
| Tokens (`auth/src/api/v1/users.py`, `dependencies/jwt.py`, `repositories/jwt_token.py`, `utils/jwt.py`) | JWTs held by clients, the blacklist in Redis and its append-only file | login, refresh, logout, check | Redis |
| Users (`auth/src/services/users.py`, `repositories/users.py`, `schemas/v1/users.py`) | table `users`, with a unique index for each contact | signup, password check, lookup by login and by id, each statement retried | PostgreSQL |
| gRPC server and client (`auth/src/gRPC`, `messenger/src/gRPC`) | one channel per worker | user by token, by login, by id | tokens, users |
| Web client (`web/index.html`) | the user, the open dialog and what it shows, one WebSocket and its timer, the chain of posts | sign in and out, open dialog, load, send, reconnect | all HTTP routes and the WebSocket |

A request to the messenger is a coroutine. It first asks auth about its cookie,
then runs a service over one database session, and after the commit asks auth
for logins and broadcasts an event: to Redis, from where every worker's listener
hands it to its own sockets, or, when Redis fails, to the sockets of this worker
only. Several workers (`gunicorn.conf.py`) share the database and Redis and
nothing else. The page has one thread, whose callbacks (answers, socket events,
timers) come in an order nobody controls.

**What is hard about it.** Everything that happens between two awaits of one
coroutine: checks and inserts that are two steps (a dialog, a client message id,
an e-mail, a refresh token), work left undone by a failure after a commit or done
again by a retry, a registry that changes under a task that walks it, an
attribute read again after an await, an event delivered twice or not at all
around a Redis failure, statuses that arrive late, entries that expire or are
forgotten by a crash, answers that come after the user has moved on. The list is
`hazards` in `PROJECT.json`, each at its line and with the properties that would
show it go wrong.

**What makes each part correct.**
Messages: one row per client id, a 201 that tells the truth and implies the
announcement, statuses that only climb, one announcement per read. Dialogs: a 200
that names a dialog of exactly the two, duplicates from races only. Connection
manager: list and locks agree, an open socket is listed or about to be closed,
one bad socket costs nobody else an event, order per socket. Pub/sub: no event
twice, none lost on a Redis error, the order of the channel, resubscription.
Tokens: a revoked token stays refused until its end, a logout lasts. Users: one
account per e-mail and phone number, answers that say what happened, logins and
lookups that miss no account. Web client: what is shown is of the open dialog and
complete once the page rests, posts go out in order and as their author, one
socket, which comes back.

## 2. The modules

| Module | Models | Role |
|---|---|---|
| `MessageStore` | what the messenger promises about messages | abstract specification |
| `EventChannel` | what the pub/sub promises about events: one log, read forward | abstract specification |
| `Messages` | send and read requests, statement by statement | refines `MessageStore` |
| `Dialogs` | `POST /dialogs/direct` | component |
| `ConnectionManager` | the WebSocket side of one worker | component |
| `PubSub` | publishers and listeners of all workers over Redis | refines `EventChannel` |
| `AuthTokens` | login, refresh, logout, token checks, blacklist, time | component |
| `AuthUsers` | signup, password check, lookups over gRPC, the table `users` | component |
| `WebClient` | one browser tab, and the server as far as the page sees it | component |
| `MC*` | the constants of the instances TLC checks | model checking |
| `MessagesProofs`, `DialogsProofs`, `AuthTokensProofs`, `AuthUsersProofs`, `PubSubProofs`, `ConnectionManagerProofs`, `DeliveryProofs`, `WebClientProofs` | theorems | proofs |

**Requests.** In `Messages`, `Dialogs` and `AuthUsers`, `pc[r]` is the await
request `r` is about to perform; one action is the code between two awaits, with
the effect of the call it waits for. An early return or an exception that becomes
an HTTP answer is `Answer(r, code)`. A database call that fails is either rolled
back (`CallFails`) or took effect without telling (`...Unconfirmed`). A message or a
dialog is named by the request that inserted it, since its id is a fresh uuid4;
an account by request and attempt, since a repeated `create` makes a new object.

**Sockets and tasks.** In `ConnectionManager`, handlers, heartbeats and send tasks
each have such a position (`handler`, `heart`, `step`). `connections[u]` is the list
of `_connections`, `locks` the keys of `_locks`, and `queue` the FIFO of an
`asyncio.Lock`, which lives on in the hands of its tasks after `_locks` has
forgotten it. `_send_to_user` walks a copy of the list and takes the first socket
in it that still has a lock; `Unregister` takes one socket out and keeps the
others in their order. In `PubSub`, `publisher` is the set of workers whose
`_publisher` is not `None`, which is all the code asks of it. Its history variables
say how long the log was when a worker last subscribed (`since`), which publishes
saw an error for an event that Redis took (`lost`), and which workers have lost a
subscription (`missed`). A subscription may also break without a word: its worker
is then `silent`, and hears nothing, until the connection reports its end
(`Report`), which it need not do.

**Time and Redis.** In `AuthTokens` time runs in ticks, `Second` of them to a second,
since Redis and `time.time()` see fractions and `jwt.decode` compares whole seconds.
The blacklist is what Redis has in memory, `disk` what its file has
(`appendonly yes`, `appendfsync everysec`, `infra/configs/redis/redis.conf:67-76`):
`Sync` may come at any time and comes before memory and file have differed for
a second, `Crash` leaves what is in the file. `undone` collects the requests that
revoked within the second before a crash; they are the only ones of which a
token may be good again. Entries that have expired stay in both until then, which
makes no difference to `Listed`.

**The page.** A step of `WebClient` is one callback of the script, or one request
that the server serves; between the two an answer waits (`load`, `pending`), and
`inbox[s]` holds the events of a socket that the browser has not dispatched yet.
A message is stored (`ServePost`, `PostElsewhere`) and announced (`Announce`) in two
steps, and the second may fail: the login lookup or the publish raises, which the
sender sees as a failure, or the event does not reach the socket (`AnnounceFails`).
`news[m]` says what became of it. `load[l].step` and `attempt[m]` say how far `api()`
is with a request: a first attempt that meets an expired token is denied, one
refresh and a second attempt follow, and the call fails when another one was
faster with the refresh token. `ServeLogout` is the request and `doLogout` its
answer, which resets the page whatever it says, also when the tokens were not
revoked and the cookies stay good. The history variables remember what the code
does to itself: `read`, what was stored when the answer shown was given; `crossed`,
when an answer was applied that was not for the open dialog; `wiped`, the messages
an answer removed; `failed`, a load that failed; `lost`, a post the page gave up;
`orphans`, the sockets that the late close event of another one took out of `ws`.

**Retries.** The decorator on the repositories of auth repeats a method on
`OperationalError` and `DisconnectionError`. Inside a transaction a failed statement
leaves the session waiting for a rollback that nobody makes, so the repeat raises
again and the request ends in 500 (`CallFails`). A repeat gets somewhere in two
places: when the first statement finds no connection (`ReadAgain`), and when the
refresh after a COMMIT does, which runs the whole of `create` again (`CreateAgain`)
with a new object that then collides with the row of the first. Every body has an
e-mail or a phone number, so there always is a unique index to collide with.

**The expired message.** `async_session` is created without
`expire_on_commit=False` (`db/postgres.py:22`; the tests set it,
`tests/conftest.py:103`), so after the commit of a delivered mark `message` is
expired, and reading `message.id` in the error handler raises. That is
`SetDeliveredUnconfirmed`: a send that was stored and announced is then answered
500.

**Wrong variants.** Some definitions have a neighbour that no action uses, such as
`NoUniqueIndex` beside `ClientIdFree`: a mistake the code could plausibly have.
With it in place of the definition the property named for it in `PROJECT.json`
(`mutants`) fails, which shows that the property depends on that code.

**Abstractions.** Texts, titles, timestamps of rows and response bodies are left
out. Dialogs are a constant of `Messages`: creating one is atomic and no code
removes one, and every dialog is direct (`TwoParticipants` in `DialogsProofs`; the
repository methods that would make a group have no caller). The two reads at the
start of a send (dialog, then client id) are one step, because dialogs never
change. Broadcasting is one step of `Messages` and `Dialogs`; `PubSub` and
`ConnectionManager` say what becomes of it. Handing an event to the local sockets
is one step of `PubSub`. Names of tokens stand for signed strings: a client
presents tokens it was handed. The keyed hashes of contacts are equal exactly
when the contacts are, and a password fits the hash made of it and no other. In
`WebClient` the refresh of a token is one step, calls of `api()` other than loads
and posts are `RefreshToken`, and a socket that breaks is reported to the page by
a close event.

## 3. The runs

All runs use two TLC workers; the longest, `web_client`, takes about two minutes. Deadlock
checking is off everywhere: requests are used once and a page may be left alone,
so every model may come to rest.

| Run | Instance | Shows |
|---|---|---|
| `messages_sends` | 3 sends over 7 calls that meet every outcome of the lookup, 2 workers, 1 fault, symmetric sends | `TypeOK`, `StoredOnce`, `AckIsTrue` |
| `messages_status` | the same message sent twice, 2 reads by the recipient or a stranger, the recipient's sockets, 1 fault, fair | `ParticipantsOnly`, `DeliveredAfterAnnounced`, `ReadAnnouncedOnce`, `StatusNeverFalls`, `ReadReachesSender`, `StoredIsAnnounced`, and the refinement `ImplementsMessageStore` |
| `messages_duplicate_500` | 2 sends, no fault | violation of `SendIsIdempotent` |
| `dialogs_create` | 3 creations between any of 3 users or to nobody, 1 fault, symmetric creations and users | `TypeOK`, `AnswerIsTrue`, `DuplicatesOnlyFromRaces` |
| `dialogs_duplicate` | 2 creations, no fault | violation of `OneDialogPerPair` |
| `ws_delivery` | 3 symmetric sockets of one user, limit 2, 2 events | `TypeOK`, `RegistryConsistent`, `OpenIsListed`, `NobodySkipped`, `InOrder` |
| `ws_end` | 2 sockets, limit 1, 2 events, fair | `EverySendEnds`, `ClosedIsForgotten` |
| `pubsub_delivery` | 2 workers, 2 events published by one, 2 faults, silent breaks, fair listeners | `TypeOK`, `DeliveredOnce`, `DoneIsPublished`, `ChannelOrder`, `SubscriberHears`, `Resubscribes`, and the refinement `ImplementsEventChannel` |
| `pubsub_raises` | the same | violation of `AlwaysFallsBack` |
| `tokens` | a login, 2 symmetric refreshes, a logout, a use, 2 ticks a second, access tokens of 1 s, refresh tokens of 2 s, clock to 3 ticks, 1 fault: a Redis command or a crash | `TypeOK`, `RevokedIsRefused`, `LogoutIsLasting` |
| `users` | 2 signups over 4 bodies that share an e-mail, a phone number or nothing, a login with a right or wrong password, a lookup by login or id, 2 attempts, 1 failure | `TypeOK`, `OneAccountPerContact`, `SignupAnswerIsTrue`, `LookupAnswerIsTrue` |
| `web_client` | 2 users in one tab, 2 dialogs, a page of 2 messages, 3 sockets, 2 loads at a time, 9 scopes, fair | `TypeOK`, `ViewIsTrue`, `MissesOnlyKnown`, `PostedAsTyped`, `OneSocket`, `Reconnects` |

**Bounds.** The faults of each model share one budget (`MaxFaults`): one or two
failures, anywhere. Three sends are what a duplicate, its retry and a stranger's
conflict need; two reads are what a race for the announcement needs. Three
users are the least among whom a dialog may be of the wrong two. Three
sockets over a limit of two have an eviction while two stay listed, and two
events are the least that can be reordered. Two publishes of one worker are what
the shared `_publisher` needs, the second worker only listens. Three ticks see an
access token reach its end, its blacklist entry go and the token still pass in
its last whole second, and a crash more than a second after a revocation; two
refreshes and a logout may hold the same refresh token. Two attempts (`Attempts`) are enough for a create to be
repeated after its commit, two signups for both to find a contact free.

The page is too large to let all of it run free at once. So `Scopes` is a set of
small bounds, one of which a behaviour chooses at its start: who signs in, which
messages there are, how many loads overlap, how often something fails. Each of
the nine lets one part of the page run free: the sockets over three logins,
answers against events, more messages than a page holds, two posts, and what one
user leaves to the next. `PageSize` is 2 for the 50 of the code, `MaxSockets` and
`MaxLoads` bound what is alive at a time, not how often it is made.

**Fairness.** A handler that has begun is resumed until it answers, and so are
send tasks, the end of a cancelled heartbeat and the close of evicted sockets: the
event loop runs every ready coroutine, and it is assumed that each call it awaits
returns or raises. That is an assumption on the peers: something is sent, so a
dead connection fails at the latest when TCP gives up sending it again, but no
client is configured with a timeout (`ws/pubsub.py:39-46,157-160` has none), and a
peer that takes a call and never answers would stop it. A write to a socket ends
since uvicorn pings its peers and drops silent ones.

The listener of `PubSub` is different: `listen()` (`ws/pubsub.py:196`) only reads, so
a connection that dies without a word is never noticed. Fairness of `Listening`
therefore covers SUBSCRIBE, the pauses, and breaks that the connection reports. A
`silent` worker need not ever go on, and `Resubscribes` says so. Publishes need no
fairness: no property of `PubSub` waits for one. Redis need not come back;
`Resubscribes` speaks of the runs in which it does for good.

Of the browser it is assumed that events and timers are dispatched, a handshake
or a close is answered, a load too, and that a broken socket is reported:
`Reconnects` says nothing of half-open sockets, on which the page waits like the
listener does. Nothing is assumed of clients and users: they need not call,
connect, read, sign in or leave. Workers may crash and calls may fail under
fairness too.

## 4. Where code and documents disagree

* **Duplicate dialogs** (`dialogs_duplicate`). `docs/PRD.md:94` promises none. Two
  concurrent creations of a pair both look, find nothing, and insert
  (`services/dialogs.py:37-41`). Afterwards `scalar_one_or_none` raises for the
  pair, so every later creation is answered 500. `DuplicatesOnlyFromRaces` is what
  remains true.
* **Concurrent sends of one client id** (`messages_duplicate_500`). `docs/PRD.md:109`
  promises idempotency. The unique index keeps the second row out, but nobody
  catches the `IntegrityError`: 500 instead of the stored message. A later repeat
  gets it.
* **A publish that raises** (`pubsub_raises`). `docs/issues.md:463` promises the
  fallback on a Redis error. When two publishes of a worker find Redis gone, one
  sets `_publisher` to `None` while the other still has to close it: an
  `AttributeError`, which no clause catches (`ws/pubsub.py:100`), and a 500 for a
  message that is stored.

Seen while modelling, without a run of their own.

* Messenger. `docs/tickets.md:83` marks a message delivered when the recipient has
  an active WebSocket; the code asks the manager of its own worker only
  (`api/v1/messages.py:135`). `docs/PRD.md:95` sorts the dialogs by their last
  message, the query by `dialogs.updated_at`, which a message does not touch
  (`repositories/dialogs.py:54`). Pings and closes write to a socket without its
  lock (`ws/router.py:29,61`; `docs/issues.md:411`). The history answers 500, not 503,
  when auth fails while its logins are looked up: that loop is outside the `try`
  (`api/v1/messages.py:86-88`). So is the lookup before a broadcast
  (`api/v1/messages.py:130`, `api/v1/dialogs.py:108`): when it fails, a message or a
  dialog is stored of which nobody hears. The repeat of a send announces the message
  after all, but the page never repeats one. A subscription that dies silently
  leaves its worker without events until the connection reports its end.
* Auth. The entry of a revoked token gets the full lifetime, not the rest
  (`docs/codebase-documentation.md:348`). Two overlapping refreshes with one token
  are both served when both check it before either revokes it; otherwise the later
  is refused, and so is the call of the page that needed it. At its memory limit
  Redis may evict blacklist entries (`maxmemory-policy volatile-lru`,
  `redis.conf:115-116`; all entries have an end), and a revoked token is good again.
  Logins are not unique, although
  `docs/codebase-documentation.md:233` says so: a dialog with "joe" is with any of
  them. A signup that loses the race for a contact is answered 500 where the
  check would have said 409, and so is one whose create is repeated after its own
  commit, though its account is there.
* Page. An answer of `loadMessages` that comes late replaces what is shown: it
  removes messages that events have shown, or puts them under another dialog.
  Only the oldest 50 messages of a dialog are ever read. The first socket of a
  login reads nothing again, although `docs/issues.md:458` says every connection does,
  so what is announced before it opens is missed. A message that is queued at a
  logout is posted with the cookies of whoever signs in next
  (`docs/issues.md:434-438` reset `sendQueue`, but the chain of promises goes on).
  A logout that is answered 403 or 500 resets the page like any other, and the
  cookies stay good; one that gets no answer resets nothing (`index.html:265-270`).
  The late close event of an old socket sets `ws` to `null` and leaves the new one
  running beside its successor. When the access token has expired, reconnecting
  is refused until some other call renews it.

## 5. The proofs

The proofs hold for any number of requests, users, dialogs, sockets, events,
workers and faults, under the assumptions the modules name: requests are of one
kind, calls and bodies are well typed (`MessagesAssumption`, `DialogsAssumption`,
`AuthTokensAssumption`, `AuthUsersAssumption`), every socket has an owner and the limit
is positive (`ConnectionAssumption`), every event an origin (`PubSubAssumption`), a page holds at
least one message and every message belongs to a dialog (`WebClientAssumption`).
None of the properties is inductive alone; each part below says what had to be added.

**Messages.** `AckIsTrue` needs to
know that a request past its broadcast has announced, `DeliveredAfterAnnounced`
that the users still to be marked are participants other than the sender of a
message that is stored and the request's own, `ReadAnnouncedOnce` that the read
which changed the row is the only one that may announce. So `IInv` conjoins
`TypeOK`, `StoredOnce`, `ParticipantsOnly`, `DeliveredAfterAnnounced` with
`SendsInv` and `ReadsInv`, which tie `pc[r]` to the rows: `OwnMessage(s)` holds from
the moment the message is found or stored, `Won(r)` marks the one read that
changed the row. One lemma per group of actions shows that `IInv` is kept. From it
follow `StoredOnceAlways`, `AckIsTrueAlways`, `ParticipantsOnlyAlways`,
`DeliveredAfterAnnouncedAlways`, `ReadAnnouncedOnceAlways` and, as an action
property, `StatusNeverFallsEver`.

**Message store.** `MessagesProofs!Implementation`: every behaviour of `Messages`,
with its faults and crashes, is one of `MessageStore` when an announcement is
counted as a notice of the request that made it. A status write is `Advance`, an
insert `Store`, a broadcast a notice, all else a stutter; each needs `IInv`.

**Dialogs.** The inductive invariant says what each await knows of the row, and
that a dialog somebody has looked past is not one of the dialogs he saw:
`found[r]` names a stored dialog of the two from `response` on, and between `find`
and `create` the dialogs in `seen[r]` are not of the pair. That an answer names the
only dialog of its id, with exactly the caller and somebody else in it, rests on
`TwoParticipantsAlways`. It gives `AnswerIsTrueAlways` and
`DuplicatesOnlyFromRacesAlways`.

**Tokens.** A blacklist entry gets a full lifetime from the revocation on
(`Revoke`), a token one from its issue. So `TokenOK` says that a token ends at most
a lifetime from now, that one which exists is not issued again, that the
entry of a token whose revocation is not undone goes no earlier than the token's
end, and that the same holds of the file for what was revoked before memory and
file began to differ. At a crash the file is at most a second behind, so what it
lacks was revoked within that second, and is undone. `ReqOK` says what a handler
has found out about its tokens at each await, and `LogoutOK` which of them it has
revoked. They give `RevokedIsRefusedAlways` and `LogoutIsLastingAlways` for all
lifetimes and any grain of the clock.

**Users.** A step touches one request and may insert one row, the next new account
of that request (`Touches`), so each request is looked at when it steps and when
another one inserts. The invariant adds to `OneAccountPerContact` that a row is
what its signup was given (`FromSignup`): a second row of one signup would share its
contact with the first. `Checked` remembers which contacts a signup has found
free: nobody who was stored before it began has them, which is why a 500 without
a failure means a race. It gives `OneAccountPerContactAlways`,
`SignupAnswerIsTrueAlways` and `LookupAnswerIsTrueAlways`.

**Pub/sub.** Redis takes an event at most once, from a publish that then is done
or about to fall back with a lost answer (`AcceptedOnce`); the fallback is the last
step of a publish, on its own worker (`LocalOnce`). An event is on its way to a
worker first in `inbox`, then in `hearing`, then in `delivered`, and the three, read
from the last to the first, follow the order of `accepted` (`Ordered`), also when a
subscription is cut or made anew. It gives `DeliveredOnceAlways`,
`DoneIsPublishedAlways` and `ChannelOrderAlways`.

**Event channel.** `PubSubProofs!Implementation`: publishers, listeners and a Redis
that breaks behave like one log, which each worker reads forward, from where it
joined, skipping nothing while its subscription holds. A PUBLISH that Redis takes
is `Enter`, the fallback `FallBack`, the `AttributeError` `Raise`, a subscription `Join`,
what the listener hands over `Deliver`, a cut or the end of Redis `Break`; all else
leaves the log alone. `Deliver` needs to know that what a worker has handed over,
hears and has still to read is all that Redis took since it subscribed (`NoGap`).
This holds only with the order of the channel beside it, so `Gapless` proves the
two together. `Join` needs the other half of `NoGap`: a subscribed worker is never
on its way to subscribe unless its subscription has broken.

**Registry.** `BInv` in `ConnectionManagerProofs` says that the lists are without
repetition and hold sockets of their user whose handlers serve them, that the
keys of `_locks` are the members of the lists, that the tasks in a lock's queue are
those that stand at its socket, and how the positions of handlers and heartbeats
go with the state of the connection. It gives `RegistryConsistentAlways` and
`OpenIsListedAlways`. The queues also show what `docs/issues.md:411` brought the locks
in for: one task at a time writes to a socket (`OneWriterAlways`). They give the
safety half of `EverySendEnds`, for any number of tasks. A waiting task waits for one
that needs no other task to go on (`NobodyStuckAlways`), and no step sets a task back:
a write strikes its socket off the list for good (`WalksOnEver`). So a task with `n`
sockets to serve makes at most `2n` moves.

**Delivery.** `DeliveryProofs` adds `DInv`. `NobodySkippedAlways` needs only that a
socket a task found listed is either served or still in its list (`Covered`), as
long as it stays open and listed. `InOrderAlways` needs an argument about all sockets of a user
at once. While none of them has left the registry (`Steady`), all tasks of that
user walk the same list from its head. So if an earlier task has a socket still
to serve, a later one has it too, and where both stand at the same socket the
earlier one is ahead in its lock's queue (`NoOvertaking`): to get past it, the later
task would have had to overtake it in some queue. Once a socket has left, the
two lists differ, and order is no longer promised; the model has such runs.

**Web client.** Answers and events change what the page shows in any order. The
inductive invariant ties the user the page shows to the cookie, the screen and
the open dialog (`AccountInv`), the sockets to their users (`SocketInv`), says that an
id is typed and stored at most once (`IdsInv`), and that while one message of a
login is pending the later ones wait, all with the cookie of their author
(`ChainInv`). With these `ViewIsTrue`, `PostedAsTyped` and `OneSocket` are inductive.
Completeness is not: that nothing is missing at rest says nothing of a page that
is busy. `NothingForgotten` says at any time where each message of the open dialog
is: shown or excused (`Got`), or still to come (`Coming`): about to be announced
(`Due`), in the inbox of the socket or to be read again when one opens (`BySocket`),
or in a load under way (`InLoad`). A message may be stored and never announced. So
the excuses count only for what was stored after the answer shown was given
(`read`), which had everything before; and a message not stored yet has no news
(`IdsInv`), so that its announcement is still due when it is. At rest nothing is to
come (`AtRest`), which leaves `MissesOnlyKnown`. An answer is the first page of the
messages of a dialog by their place in the table; the lemmas about it use the least
number of a set to find the message at a place.
The theorems are `ViewAlwaysTrue`, `NoMessageMissed`, `PostsInOrder` and
`KeepsOneSocket`.

**Model-checked only.** All liveness, which is beyond the prover: `ReadReachesSender`,
`StoredIsAnnounced`, `EverySendEnds`, `ClosedIsForgotten`, `SubscriberHears`,
`Resubscribes` and `Reconnects`; and the violations, which need one behaviour each.
Every invariant and every action property of the passing runs is also a theorem.

## 6. What is not modelled, and the plan

Left, in the order planned:

1. `Realtime`, a composition of `PubSub` with the connection managers of several
   workers and an abstract specification of delivery that both refine; the limit
   of sockets per worker rather than per user belongs there.
2. `WebClient`: the sidebar (`loadDialogs`, `createDialog`, previews) and the marks
   of read messages.
3. `History`: offset pages over an order by `created_at` that is set before the
   commit. The page of this repository reads the first one only.
4. The start and the shutdown of a worker (`main.py`, `RedisPubSub.stop`, the gRPC
   channel) around requests that are still under way.

Assumed away: eviction of blacklist entries at the memory limit of Redis (16 GB), and
half-open sockets at the browser, see sections 3 and 4.

Not planned: migrations (run once, alone, before the service), logging, TLS set-up,
proxies and container files, generated protobuf code, and the cryptography of
tokens and personal data, which have no control flow to check.
