-------------------------------- MODULE PubSub --------------------------------
(***************************************************************************)
(* RedisPubSub: each worker publishes the events of its own requests on    *)
(* one Redis channel and hands the events it hears there, its own          *)
(* included, to its local sockets, one event after the other.              *)
(*                                                                         *)
(* publish(e) runs once for each event, on worker Origin[e], and the       *)
(* publishes of one worker overlap: they share the attribute _publisher,   *)
(* of which only being None matters, since a redis client reconnects by    *)
(* itself.  pc[e] is the await publish(e) is at.  Handing an event to the  *)
(* local sockets (local_broadcast_to_users, see ConnectionManager) is      *)
(* one step here.                                                          *)
(*                                                                         *)
(* Redis is modelled from its use: PUBLISH hands an event to the workers   *)
(* subscribed at that moment and keeps nothing.  Its failures, and those   *)
(* of single commands and subscriptions, are capped by MaxFaults.          *)
(*                                                                         *)
(* since, lost and missed are history variables.  Definitions that Next    *)
(* does not use (PublishFailsUnseen, HearNewest, ...) are wrong variants   *)
(* under which a property below fails.                                     *)
(***************************************************************************)
EXTENDS Integers, Sequences, SequencesExt

CONSTANTS
    Workers,
    Events,
    Origin,   \* Origin[e]: the worker that publishes event e
    MaxFaults

ASSUME PubSubAssumption ==
    /\ Origin \in [Events -> Workers]
    /\ MaxFaults \in Nat

VARIABLES
    up,         \* whether Redis answers
    subscribed, \* the workers whose subscription Redis knows
    accepted,   \* the events Redis has published, in order
    inbox,      \* inbox[w]: events on their way to worker w
    silent,     \* the workers whose connection broke and does not say so
    since,      \* history: length of accepted when worker w last subscribed
    listener,   \* the await the listener task of each worker is at
    hearing,    \* the event the listener is handing over
    publisher,  \* the workers whose _publisher is not None
    pc,
    delivered,  \* delivered[w]: [event, via] handed to the sockets of w
    faults,
    lost,       \* history: events accepted while publish saw an error
    missed      \* history: the workers that lost events with a subscription

redis == <<up, subscribed, accepted, inbox, silent, since>>
vars  == <<redis, listener, hearing, publisher, pc, delivered, faults, lost, missed>>

Delivery == [event : Events, via : {"channel", "local"}]

TypeOK ==
    /\ up \in BOOLEAN
    /\ subscribed \subseteq Workers
    /\ accepted \in Seq(Events)
    /\ inbox \in [Workers -> Seq(Events)]
    /\ silent \subseteq Workers
    /\ since \in [Workers -> 0 .. Len(accepted)]
    /\ listener \in [Workers -> {"subscribe", "listen", "handle", "backoff"}]
    /\ hearing \in [Workers -> SUBSET Events]
    /\ publisher \subseteq Workers
    /\ pc \in [Events -> {"idle", "ping", "close", "reping", "publish", "local",
                          "done", "raised"}]
    /\ delivered \in [Workers -> Seq(Delivery)]
    /\ faults \in 0 .. MaxFaults
    /\ lost \subseteq Events
    /\ missed \subseteq Workers

\* start() creates the publisher and the listener; its ping is only logged.
Init ==
    /\ up \in BOOLEAN
    /\ subscribed = {}
    /\ accepted = <<>>
    /\ inbox = [w \in Workers |-> <<>>]
    /\ silent = {}
    /\ since = [w \in Workers |-> 0]
    /\ listener = [w \in Workers |-> "subscribe"]
    /\ hearing = [w \in Workers |-> {}]
    /\ publisher = Workers
    /\ pc = [e \in Events |-> "idle"]
    /\ delivered = [w \in Workers |-> <<>>]
    /\ faults = 0
    /\ lost = {}
    /\ missed = {}

Fault ==
    /\ faults < MaxFaults
    /\ faults' = faults + 1

\* A Redis command answers only while Redis is up; it fails when Redis is down
\* or its connection breaks.
Answers == up /\ UNCHANGED faults
Breaks  == (~up /\ UNCHANGED faults) \/ (up /\ Fault)

Goto(e, label) == pc' = [pc EXCEPT ![e] = label]

listening == <<listener, hearing>>

-------------------------------------------------------------------------------
(* publish and _ensure_publisher. *)

\* With a publisher, ping it; without one, connect anew.
Publish(e) ==
    /\ pc[e] = "idle"
    /\ Goto(e, IF Origin[e] \in publisher THEN "ping" ELSE "reping")
    /\ UNCHANGED <<redis, listening, publisher, delivered, faults, lost, missed>>

\* "return self._publisher" reads the attribute after the await: another
\* publish may have set it to None, and then this one delivers locally.
PingOk(e) ==
    /\ pc[e] = "ping"
    /\ Answers
    /\ Goto(e, IF Origin[e] \in publisher THEN "publish" ELSE "local")
    /\ UNCHANGED <<redis, listening, publisher, delivered, lost, missed>>

\* "await self._publisher.aclose()" reads it again: on None this is an
\* AttributeError, which no except clause catches.
PingFails(e) ==
    /\ pc[e] = "ping"
    /\ Breaks
    /\ Goto(e, IF Origin[e] \in publisher THEN "close" ELSE "raised")
    /\ UNCHANGED <<redis, listening, publisher, delivered, lost, missed>>

\* aclose() returns, or fails with an error that is ignored.
Closed(e) ==
    /\ pc[e] = "close"
    /\ Goto(e, "reping")
    /\ UNCHANGED <<redis, listening, publisher, delivered, faults, lost, missed>>

RepingOk(e) ==
    /\ pc[e] = "reping"
    /\ Answers
    /\ publisher' = publisher \cup {Origin[e]}
    /\ Goto(e, "publish")
    /\ UNCHANGED <<redis, listening, delivered, lost, missed>>

RepingFails(e) ==
    /\ pc[e] = "reping"
    /\ Breaks
    /\ publisher' = publisher \ {Origin[e]}
    /\ Goto(e, "local")
    /\ UNCHANGED <<redis, listening, delivered, lost, missed>>

\* Redis takes the event and passes it to every subscription it has.
Accept(e) ==
    /\ accepted' = Append(accepted, e)
    /\ inbox' = [w \in Workers |->
                    IF w \in subscribed THEN Append(inbox[w], e) ELSE inbox[w]]
    /\ UNCHANGED <<up, subscribed, silent, since>>

PublishAndDeliver(e) ==
    /\ pc[e] = "publish"
    /\ Answers
    /\ Accept(e)
    /\ Goto(e, "local")
    /\ UNCHANGED <<listening, publisher, delivered, lost, missed>>

PublishOk(e) ==
    /\ pc[e] = "publish"
    /\ Answers
    /\ Accept(e)
    /\ Goto(e, "done")
    /\ UNCHANGED <<listening, publisher, delivered, lost, missed>>

\* The answer is lost after Redis took the event: publish cannot tell.
PublishUnanswered(e) ==
    /\ pc[e] = "publish"
    /\ up
    /\ Fault
    /\ Accept(e)
    /\ lost' = lost \cup {e}
    /\ Goto(e, "local")
    /\ UNCHANGED <<listening, publisher, delivered, missed>>

PublishFailsUnseen(e) ==
    /\ pc[e] = "publish"
    /\ Breaks
    /\ Goto(e, "done")
    /\ UNCHANGED <<redis, listening, publisher, delivered, lost, missed>>

PublishFails(e) ==
    /\ pc[e] = "publish"
    /\ Breaks
    /\ Goto(e, "local")
    /\ UNCHANGED <<redis, listening, publisher, delivered, lost, missed>>

Hand(w, e, how) == delivered' = [delivered EXCEPT ![w] = Append(@, [event |-> e, via |-> how])]

\* The fallback: only the sockets of this worker get the event.
DeliverLocally(e) ==
    /\ pc[e] = "local"
    /\ Hand(Origin[e], e, "local")
    /\ Goto(e, "done")
    /\ UNCHANGED <<redis, listening, publisher, faults, lost, missed>>

-------------------------------------------------------------------------------
(* _listen and _subscribe_and_process. *)

Subscribe(w) ==
    /\ listener[w] = "subscribe"
    /\ Answers
    /\ subscribed' = subscribed \cup {w}
    /\ inbox' = [inbox EXCEPT ![w] = <<>>]
    /\ since' = [since EXCEPT ![w] = Len(accepted)]
    /\ listener' = [listener EXCEPT ![w] = "listen"]
    /\ UNCHANGED <<up, accepted, silent, hearing, publisher, pc, delivered, lost, missed>>

SubscribeFails(w) ==
    /\ listener[w] = "subscribe"
    /\ Breaks
    /\ listener' = [listener EXCEPT ![w] = "backoff"]
    /\ UNCHANGED <<redis, hearing, publisher, pc, delivered, lost, missed>>

HearNewest(w) ==
    /\ listener[w] = "listen"
    /\ inbox[w] # <<>>
    /\ hearing' = [hearing EXCEPT ![w] = {Last(inbox[w])}]
    /\ inbox' = [inbox EXCEPT ![w] = Front(@)]
    /\ listener' = [listener EXCEPT ![w] = "handle"]
    /\ UNCHANGED <<up, subscribed, accepted, silent, since, publisher, pc, delivered, faults,
                   lost, missed>>

Hear(w) ==
    /\ listener[w] = "listen"
    /\ inbox[w] # <<>>
    /\ hearing' = [hearing EXCEPT ![w] = {Head(inbox[w])}]
    /\ inbox' = [inbox EXCEPT ![w] = Tail(@)]
    /\ listener' = [listener EXCEPT ![w] = "handle"]
    /\ UNCHANGED <<up, subscribed, accepted, silent, since, publisher, pc, delivered, faults,
                   lost, missed>>

HandleNothing(w) ==
    /\ listener[w] = "handle"
    /\ hearing' = [hearing EXCEPT ![w] = {}]
    /\ listener' = [listener EXCEPT ![w] = "listen"]
    /\ UNCHANGED <<redis, publisher, pc, delivered, faults, lost, missed>>

\* _handle_message is awaited before the next event is read.
Handle(w) ==
    /\ listener[w] = "handle"
    /\ \E e \in hearing[w] : Hand(w, e, "channel")
    /\ hearing' = [hearing EXCEPT ![w] = {}]
    /\ listener' = [listener EXCEPT ![w] = "listen"]
    /\ UNCHANGED <<redis, publisher, pc, faults, lost, missed>>

ListenFailsForGood(w) ==
    /\ listener[w] = "listen"
    /\ w \notin subscribed \cup silent
    /\ inbox[w] = <<>>
    /\ listener' = [listener EXCEPT ![w] = "stopped"]
    /\ UNCHANGED <<redis, hearing, publisher, pc, delivered, faults, lost, missed>>

\* The broken subscription is noticed once what had arrived is read, unless
\* the connection is silent: the listener sends nothing, and its client has no
\* timeout, keepalive or health check.
ListenFails(w) ==
    /\ listener[w] = "listen"
    /\ w \notin subscribed \cup silent
    /\ inbox[w] = <<>>
    /\ listener' = [listener EXCEPT ![w] = "backoff"]
    /\ UNCHANGED <<redis, hearing, publisher, pc, delivered, faults, lost, missed>>

\* After the pause a new client is made and the channel subscribed again.
Reconnect(w) ==
    /\ listener[w] = "backoff"
    /\ listener' = [listener EXCEPT ![w] = "subscribe"]
    /\ UNCHANGED <<redis, hearing, publisher, pc, delivered, faults, lost, missed>>

-------------------------------------------------------------------------------
(* Redis. *)

\* The subscriptions of the workers in cut break, some of them silently: the
\* last events on their way are gone.
Break(cut) ==
    /\ subscribed' = subscribed \ cut
    /\ missed' = missed \cup cut
    /\ \E quiet \in SUBSET cut : silent' = silent \cup quiet
    /\ \E kept \in [Workers -> 0 .. Len(accepted)] :
          /\ \A w \in Workers : kept[w] <= Len(inbox[w])
          /\ \A w \in Workers \ cut : kept[w] = Len(inbox[w])
          /\ inbox' = [w \in Workers |-> SubSeq(inbox[w], 1, kept[w])]
    /\ UNCHANGED <<accepted, since, listening, publisher, pc, delivered, lost>>

CutSubscription(w) ==
    /\ w \in subscribed
    /\ Fault
    /\ Break({w})
    /\ UNCHANGED up

\* The connection of w reports its end after all.
Report(w) ==
    /\ w \in silent
    /\ silent' = silent \ {w}
    /\ UNCHANGED <<up, subscribed, accepted, inbox, since, listening, publisher, pc, delivered,
                   faults, lost, missed>>

RedisDown ==
    /\ up
    /\ Fault
    /\ up' = FALSE
    /\ Break(subscribed)

RedisUp ==
    /\ ~up
    /\ up' = TRUE
    /\ UNCHANGED <<subscribed, accepted, inbox, silent, since, listening, publisher, pc, delivered,
                   faults, lost, missed>>

-------------------------------------------------------------------------------
Publishing(e) ==
    \/ PingOk(e) \/ PingFails(e) \/ Closed(e) \/ RepingOk(e) \/ RepingFails(e)
    \/ PublishOk(e) \/ PublishUnanswered(e) \/ PublishFails(e) \/ DeliverLocally(e)

Listening(w) ==
    \/ Subscribe(w) \/ SubscribeFails(w) \/ Hear(w) \/ Handle(w)
    \/ ListenFails(w) \/ Reconnect(w)

Next ==
    \/ \E e \in Events : Publish(e) \/ Publishing(e)
    \/ \E w \in Workers : Listening(w) \/ CutSubscription(w) \/ Report(w)
    \/ RedisDown \/ RedisUp

Spec == Init /\ [][Next]_vars

\* The event loop resumes every listener: SUBSCRIBE answers or fails, each
\* pause is over, and a break that the connection reports is noticed.  Redis
\* need not come back, a silent connection need not ever report its end.
FairSpec == Spec /\ \A w \in Workers : WF_vars(Listening(w))

-------------------------------------------------------------------------------
(* Safety. *)

Times(w, e) == {i \in DOMAIN delivered[w] : delivered[w][i].event = e}

\* No worker hands an event to its sockets twice, whatever fails and however
\* its publishes and its listener interleave, unless the answer to PUBLISH was
\* lost: then, and only on the worker that published it, once from the channel
\* and once by the fallback.
DeliveredOnce ==
    \A w \in Workers, e \in Events : \A i, j \in Times(w, e) :
        i # j => /\ e \in lost /\ w = Origin[e]
                 /\ delivered[w][i].via # delivered[w][j].via

\* A publish that has ended without an error handed its event to Redis or to
\* the local sockets: a Redis error is never the end of an event.
DoneIsPublished ==
    \A e \in Events : pc[e] = "done" =>
        e \in ToSet(accepted) \/ Times(Origin[e], e) # {}

Before(s, e, f) == \E i, j \in DOMAIN s : i < j /\ s[i] = e /\ s[j] = f

\* Events from the channel reach the sockets of every worker in the one order
\* in which Redis took them, over broken and renewed subscriptions.
ChannelOrder ==
    \A w \in Workers : \A i, j \in DOMAIN delivered[w] :
        i < j /\ delivered[w][i].via = "channel" /\ delivered[w][j].via = "channel" =>
            Before(accepted, delivered[w][i].event, delivered[w][j].event)

\* What docs/issues.md:463 says of a Redis error: publish falls back to the
\* local sockets.  So publish itself never raises.
AlwaysFallsBack == \A e \in Events : pc[e] # "raised"

-------------------------------------------------------------------------------
(* Liveness. *)

\* A worker that keeps its subscription hands every event that was on its way
\* to it to its sockets.
SubscriberHears ==
    \A w \in Workers, e \in Events :
        e \in ToSet(inbox[w]) ~> Times(w, e) # {} \/ w \in missed

\* Once Redis stays up every worker subscribes again and stays subscribed,
\* unless its old connection has gone dead without a report: listen() has no
\* timeout and waits on it for good.
Resubscribes ==
    <>[]up => \A w \in Workers : <>[](w \in subscribed) \/ <>[](w \in silent)

-------------------------------------------------------------------------------
(* The abstract specification. *)

Ended(e) == pc[e] \in {"done", "raised"}

Promise == INSTANCE EventChannel WITH
    log <- accepted, got <- delivered, doubt <- lost, start <- since,
    joined <- subscribed \cup missed, broken <- missed,
    fate <- [e \in Events |-> IF Ended(e) THEN pc[e] ELSE "open"]

\* Every step of publishers, listeners and Redis is a step of the abstract
\* channel or leaves it alone.  So as long as its subscription holds a worker
\* hands over every event that Redis took since it subscribed, and nothing
\* twice.
ImplementsEventChannel == Promise!Spec
===============================================================================
