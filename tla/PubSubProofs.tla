---------------------------- MODULE PubSubProofs ----------------------------
(***************************************************************************)
(* Proofs that no event of PubSub is handed over twice, swallowed by a     *)
(* Redis error or heard out of order, for any number of workers, events    *)
(* and faults.                                                             *)
(*                                                                         *)
(* An event is on its way to a worker first in inbox[w], then in           *)
(* hearing[w], then in delivered[w].  The invariant says that these three, *)
(* read in that order from the last to the first, follow the order of      *)
(* accepted, in which no event stands twice.                               *)
(***************************************************************************)
EXTENDS PubSub, TLAPS

Labels == {"idle", "ping", "close", "reping", "publish", "local", "done", "raised"}

\* Redis takes an event at most once, from a publish that then is done or,
\* when it could not tell, about to fall back.
AcceptedOnce ==
    /\ \A i, j \in DOMAIN accepted : accepted[i] = accepted[j] => i = j
    /\ \A e \in ToSet(accepted) : pc[e] = "done" \/ (pc[e] = "local" /\ e \in lost)

FellBack(w, i) == delivered[w][i].via = "local"

\* The fallback is the last step of a publish, on its own worker, and meets an
\* event that Redis took only when the answer was lost.
LocalOnce ==
    \A w \in Workers : \A i \in DOMAIN delivered[w] : FellBack(w, i) =>
        /\ w = Origin[delivered[w][i].event]
        /\ pc[delivered[w][i].event] = "done"
        /\ delivered[w][i].event \in ToSet(accepted) => delivered[w][i].event \in lost
        /\ \A j \in DOMAIN delivered[w] :
              FellBack(w, j) /\ delivered[w][i].event = delivered[w][j].event => i = j

FromChannel(w, i) == delivered[w][i].via = "channel"

\* The listener hears one event at a time, and only what Redis has taken.
HeardIsAccepted(w) ==
    /\ \A e, f \in hearing[w] : e = f
    /\ listener[w] # "handle" => hearing[w] = {}
    /\ hearing[w] \subseteq ToSet(accepted)
    /\ \A k \in DOMAIN inbox[w] : inbox[w][k] \in ToSet(accepted)
    /\ \A i \in DOMAIN delivered[w] :
          FromChannel(w, i) => delivered[w][i].event \in ToSet(accepted)

Ahead(e, f) == Before(accepted, e, f)

\* What w has handed over, hears and has still to read follows the channel.
Ordered(w) ==
    /\ \A k, l \in DOMAIN inbox[w] : k < l => Ahead(inbox[w][k], inbox[w][l])
    /\ \A e \in hearing[w] : \A k \in DOMAIN inbox[w] : Ahead(e, inbox[w][k])
    /\ \A i \in DOMAIN delivered[w] : FromChannel(w, i) =>
          /\ \A k \in DOMAIN inbox[w] : Ahead(delivered[w][i].event, inbox[w][k])
          /\ \A e \in hearing[w] : Ahead(delivered[w][i].event, e)
          /\ \A j \in DOMAIN delivered[w] : i < j /\ FromChannel(w, j) =>
                Ahead(delivered[w][i].event, delivered[w][j].event)

IInv ==
    /\ TypeOK
    /\ AcceptedOnce
    /\ LocalOnce
    /\ DoneIsPublished
    /\ \A w \in Workers : HeardIsAccepted(w) /\ Ordered(w)

-------------------------------------------------------------------------------
(* Sequences. *)

\* What is in a sequence stays in it, and in its place, when another element
\* is appended, which then comes after all of them.
LEMMA AppendOrder ==
    ASSUME NEW S, NEW s \in Seq(S), NEW g \in S
    PROVE  /\ Append(s, g) \in Seq(S)
           /\ ToSet(Append(s, g)) = ToSet(s) \cup {g}
           /\ \A e, f : Before(s, e, f) => Before(Append(s, g), e, f)
           /\ \A e \in ToSet(s) : Before(Append(s, g), e, g)
<1> DEFINE t == Append(s, g)
<1>1. /\ t \in Seq(S) /\ DOMAIN s = 1 .. Len(s) /\ DOMAIN t = 1 .. Len(s) + 1 /\ Len(s) \in Nat
      /\ t[Len(s) + 1] = g /\ \A i \in 1 .. Len(s) : t[i] = s[i]
  OBVIOUS
<1> HIDE DEF t
<1>2. ToSet(t) = ToSet(s) \cup {g}
  <2>1. \A e \in ToSet(t) : e \in ToSet(s) \cup {g}
    BY <1>1 DEF ToSet
  <2>2. \A e \in ToSet(s) : e \in ToSet(t)
    BY <1>1 DEF ToSet
  <2>3. g \in ToSet(t)
    <3>1. Len(s) + 1 \in DOMAIN t
      BY <1>1
    <3> QED BY <3>1, <1>1 DEF ToSet
  <2> QED BY <2>1, <2>2, <2>3
<1>3. \A e, f : Before(s, e, f) => Before(t, e, f)
  <2> SUFFICES ASSUME NEW e, NEW f, Before(s, e, f)
               PROVE  Before(t, e, f)
    OBVIOUS
  <2>1. PICK i, j \in DOMAIN s : i < j /\ s[i] = e /\ s[j] = f
    BY DEF Before
  <2>2. i \in DOMAIN t /\ j \in DOMAIN t /\ t[i] = e /\ t[j] = f
    BY <1>1, <2>1
  <2> QED BY <2>1, <2>2 DEF Before
<1>4. \A e \in ToSet(s) : Before(t, e, g)
  <2> SUFFICES ASSUME NEW e \in ToSet(s)
               PROVE  Before(t, e, g)
    OBVIOUS
  <2>1. PICK i \in DOMAIN s : s[i] = e
    BY DEF ToSet
  <2>2. /\ i \in DOMAIN t /\ Len(s) + 1 \in DOMAIN t /\ i < Len(s) + 1
        /\ t[i] = e /\ t[Len(s) + 1] = g
    BY <1>1, <2>1
  <2> QED BY <2>2 DEF Before
<1> QED BY <1>1, <1>2, <1>3, <1>4 DEF t

\* In a sequence without repetition nothing comes before itself.
LEMMA StrictlyAhead ==
    ASSUME AcceptedOnce, TypeOK, NEW e, Ahead(e, e)
    PROVE  FALSE
<1>1. PICK i, j \in DOMAIN accepted : i < j /\ accepted[i] = e /\ accepted[j] = e
  BY DEF Ahead, Before
<1>2. i = j
  BY <1>1 DEF AcceptedOnce
<1>3. i \in Int /\ j \in Int
  BY DEF TypeOK
<1> QED BY <1>1, <1>2, <1>3

\* The deliveries of w after one more.
LEMMA HandOver ==
    ASSUME TypeOK, NEW w \in Workers, NEW e \in Events, NEW how \in {"channel", "local"},
           Hand(w, e, how)
    PROVE  /\ delivered' \in [Workers -> Seq(Delivery)]
           /\ \A v \in Workers \ {w} : delivered'[v] = delivered[v]
           /\ LET n == Len(delivered[w]) + 1
              IN  /\ n \in Nat \ {0}
                  /\ DOMAIN delivered[w] = 1 .. n - 1
                  /\ DOMAIN delivered'[w] = 1 .. n
                  /\ delivered'[w][n] = [event |-> e, via |-> how]
                  /\ \A i \in 1 .. n - 1 : delivered'[w][i] = delivered[w][i]
<1>1. [event |-> e, via |-> how] \in Delivery /\ delivered[w] \in Seq(Delivery)
  BY DEF TypeOK, Delivery
<1>2. delivered' = [delivered EXCEPT ![w] = Append(delivered[w], [event |-> e, via |-> how])]
  BY DEF Hand
<1>3. delivered'[w] = Append(delivered[w], [event |-> e, via |-> how])
  BY <1>2 DEF TypeOK
<1>4. \A v \in Workers \ {w} : delivered'[v] = delivered[v]
  BY <1>2 DEF TypeOK
<1>5. delivered' \in [Workers -> Seq(Delivery)]
  BY <1>1, <1>2 DEF TypeOK
<1> QED BY <1>1, <1>3, <1>4, <1>5

\* What has been handed over is an event, by one of the two ways.
LEMMA DeliveredTyped ==
    ASSUME TypeOK, NEW w \in Workers, NEW i \in DOMAIN delivered[w]
    PROVE  delivered[w][i].event \in Events /\ delivered[w][i].via \in {"channel", "local"}
<1>1. delivered[w] \in Seq(Delivery)
  BY DEF TypeOK
<1>2. delivered[w][i] \in Delivery
  BY <1>1
<1> QED BY <1>2 DEF Delivery

-------------------------------------------------------------------------------
(* Types. *)

\* A pc or a listener that moves stays well typed.
LEMMA GotoTyped ==
    ASSUME TypeOK, NEW e \in Events, NEW label \in Labels, Goto(e, label)
    PROVE  /\ pc' \in [Events -> Labels]
           /\ pc'[e] = label
           /\ \A f \in Events \ {e} : pc'[f] = pc[f]
BY DEF TypeOK, Goto, Labels

LEMMA FaultTyped ==
    ASSUME TypeOK, Fault \/ Answers \/ Breaks
    PROVE  faults' \in 0 .. MaxFaults
BY PubSubAssumption DEF TypeOK, Fault, Answers, Breaks

\* Redis takes event e: it is appended to accepted and to the inbox of every
\* subscribed worker.
LEMMA AcceptTyped ==
    ASSUME TypeOK, NEW e \in Events, Accept(e)
    PROVE  /\ accepted' \in Seq(Events)
           /\ inbox' \in [Workers -> Seq(Events)]
           /\ since' \in [Workers -> 0 .. Len(accepted')]
           /\ \A w \in Workers : inbox'[w] = Append(inbox[w], e) \/ inbox'[w] = inbox[w]
<1>1. accepted' \in Seq(Events)
  BY DEF TypeOK, Accept
<1>2. \A w \in Workers : inbox[w] \in Seq(Events)
  BY DEF TypeOK
<1>3. \A w \in Workers : Append(inbox[w], e) \in Seq(Events)
  BY <1>2
<1>4. inbox' = [w \in Workers |->
                    IF w \in subscribed THEN Append(inbox[w], e) ELSE inbox[w]]
  BY DEF Accept
<1>5. since' \in [Workers -> 0 .. Len(accepted')]
  <2>1. Len(accepted) \in Nat /\ Len(accepted') = Len(accepted) + 1 /\ since' = since
    BY DEF TypeOK, Accept
  <2>2. 0 .. Len(accepted) \subseteq 0 .. Len(accepted')
    BY <2>1
  <2> QED BY <2>1, <2>2 DEF TypeOK
<1> QED BY <1>1, <1>2, <1>3, <1>4, <1>5

\* Subscriptions break: of each inbox a prefix is left.
LEMMA BreakTyped ==
    ASSUME TypeOK, NEW cut \in SUBSET Workers, Break(cut)
    PROVE  /\ inbox' \in [Workers -> Seq(Events)]
           /\ \A w \in Workers : \E n \in Nat :
                 /\ DOMAIN inbox'[w] = 1 .. n /\ n <= Len(inbox[w])
                 /\ \A k \in 1 .. n : inbox'[w][k] = inbox[w][k]
<1>1. PICK kept \in [Workers -> 0 .. Len(accepted)] :
          /\ \A w \in Workers : kept[w] <= Len(inbox[w])
          /\ inbox' = [w \in Workers |-> SubSeq(inbox[w], 1, kept[w])]
  BY DEF Break
<1>2. Len(accepted) \in Nat
  BY DEF TypeOK
<1>3. ASSUME NEW w \in Workers
      PROVE  /\ inbox'[w] = SubSeq(inbox[w], 1, kept[w])
             /\ inbox[w] \in Seq(Events) /\ kept[w] \in Nat /\ kept[w] <= Len(inbox[w])
  BY <1>1, <1>2, <1>3 DEF TypeOK
<1>4. ASSUME NEW w \in Workers
      PROVE  /\ inbox'[w] \in Seq(Events)
             /\ DOMAIN inbox'[w] = 1 .. kept[w]
             /\ \A k \in 1 .. kept[w] : inbox'[w][k] = inbox[w][k]
  <2>1. /\ inbox'[w] = SubSeq(inbox[w], 1, kept[w])
        /\ inbox[w] \in Seq(Events) /\ kept[w] \in Nat /\ kept[w] <= Len(inbox[w])
    BY <1>3
  <2> QED BY <2>1
<1> QED BY <1>1, <1>3, <1>4

THEOREM InitTyped == Init => TypeOK
<1> SUFFICES ASSUME Init
             PROVE  TypeOK
  OBVIOUS
<1>1. Len(accepted) = 0 /\ 0 \in 0 .. Len(accepted)
  BY DEF Init
<1> QED BY <1>1, PubSubAssumption DEF Init, TypeOK

LEMMA PublishingTyped ==
    ASSUME TypeOK, NEW e \in Events, Publish(e) \/ Publishing(e)
    PROVE  TypeOK'
<1>1. Origin[e] \in Workers
  BY PubSubAssumption
<1>2. CASE Publish(e)
  <2>1. \E label \in Labels : Goto(e, label)
    BY <1>2 DEF Publish, Labels
  <2>2. pc' \in [Events -> Labels]
    BY <2>1, GotoTyped
  <2> QED BY <1>2, <2>2 DEF Publish, TypeOK, Labels, redis, listening
<1>3. CASE PingOk(e) \/ PingFails(e) \/ Closed(e) \/ PublishFails(e)
  <2>1. \E label \in Labels : Goto(e, label)
    BY <1>3 DEF PingOk, PingFails, Closed, PublishFails, Labels
  <2>2. pc' \in [Events -> Labels]
    BY <2>1, GotoTyped
  <2>3. faults' \in 0 .. MaxFaults
    BY <1>3, FaultTyped DEF PingOk, PingFails, Closed, PublishFails, TypeOK
  <2> QED BY <1>3, <2>2, <2>3
          DEF PingOk, PingFails, Closed, PublishFails, TypeOK, Labels, redis, listening
<1>4. CASE RepingOk(e) \/ RepingFails(e)
  <2>1. \E label \in Labels : Goto(e, label)
    BY <1>4 DEF RepingOk, RepingFails, Labels
  <2>2. pc' \in [Events -> Labels]
    BY <2>1, GotoTyped
  <2>3. faults' \in 0 .. MaxFaults
    BY <1>4, FaultTyped DEF RepingOk, RepingFails
  <2> QED BY <1>1, <1>4, <2>2, <2>3
          DEF RepingOk, RepingFails, TypeOK, Labels, redis, listening
<1>5. CASE PublishOk(e) \/ PublishUnanswered(e)
  <2>1. Accept(e) /\ \E label \in Labels : Goto(e, label)
    BY <1>5 DEF PublishOk, PublishUnanswered, Labels
  <2>2. pc' \in [Events -> Labels]
    BY <2>1, GotoTyped
  <2>3. faults' \in 0 .. MaxFaults
    BY <1>5, FaultTyped DEF PublishOk, PublishUnanswered
  <2>4. /\ accepted' \in Seq(Events) /\ inbox' \in [Workers -> Seq(Events)]
        /\ since' \in [Workers -> 0 .. Len(accepted')]
    BY <2>1, AcceptTyped
  <2> QED BY <1>5, <2>2, <2>3, <2>4
          DEF PublishOk, PublishUnanswered, Accept, TypeOK, Labels, listening
<1>6. CASE DeliverLocally(e)
  <2>1. Hand(Origin[e], e, "local") /\ Goto(e, "done")
    BY <1>6 DEF DeliverLocally
  <2>2. pc' \in [Events -> Labels]
    BY <2>1, GotoTyped DEF Labels
  <2>3. delivered' \in [Workers -> Seq(Delivery)]
    BY <1>1, <2>1, HandOver
  <2> QED BY <1>6, <2>2, <2>3 DEF DeliverLocally, TypeOK, Labels, redis, listening
<1> QED BY <1>2, <1>3, <1>4, <1>5, <1>6 DEF Publishing

LEMMA ListeningTyped ==
    ASSUME TypeOK, NEW w \in Workers, Listening(w)
    PROVE  TypeOK'
<1>1. CASE Subscribe(w) \/ SubscribeFails(w)
  <2>1. faults' \in 0 .. MaxFaults
    BY <1>1, FaultTyped DEF Subscribe, SubscribeFails
  <2>2. CASE Subscribe(w)
    <3>1. <<>> \in Seq(Events)
      OBVIOUS
    <3>2. inbox' \in [Workers -> Seq(Events)]
      BY <2>2, <3>1 DEF Subscribe, TypeOK
    <3>3. Len(accepted) \in 0 .. Len(accepted)
      BY DEF TypeOK
    <3>4. since' \in [Workers -> 0 .. Len(accepted)]
      BY <2>2, <3>3 DEF Subscribe, TypeOK
    <3> QED BY <2>1, <2>2, <3>2, <3>4 DEF Subscribe, TypeOK
  <2>3. CASE SubscribeFails(w)
    BY <2>1, <2>3 DEF SubscribeFails, TypeOK, redis
  <2> QED BY <1>1, <2>2, <2>3
<1>2. CASE Hear(w)
  <2>1. inbox[w] \in Seq(Events) /\ inbox[w] # <<>>
    BY <1>2 DEF Hear, TypeOK
  <2>2. Head(inbox[w]) \in Events /\ Tail(inbox[w]) \in Seq(Events)
    BY <2>1
  <2> QED BY <1>2, <2>2 DEF Hear, TypeOK
<1>3. CASE Handle(w)
  <2>1. PICK e \in hearing[w] : Hand(w, e, "channel")
    BY <1>3 DEF Handle
  <2>2. e \in Events
    BY <2>1 DEF TypeOK
  <2>3. delivered' \in [Workers -> Seq(Delivery)]
    BY <2>1, <2>2, HandOver
  <2> QED BY <1>3, <2>3 DEF Handle, TypeOK, redis
<1>4. CASE ListenFails(w) \/ Reconnect(w)
  BY <1>4 DEF ListenFails, Reconnect, TypeOK, redis
<1> QED BY <1>1, <1>2, <1>3, <1>4 DEF Listening

\* Redis comes back, or a connection reports its end: no event moves.
Stirs == RedisUp \/ \E w \in Workers : Report(w)

Redis == RedisDown \/ Stirs \/ \E w \in Workers : CutSubscription(w)

LEMMA RedisTyped ==
    ASSUME TypeOK, Redis
    PROVE  TypeOK'
<1> USE DEF Redis
<1>1. CASE Stirs
  BY <1>1 DEF Stirs, RedisUp, Report, TypeOK, listening
<1>2. CASE ~Stirs
  <2>1. PICK cut \in SUBSET Workers : Break(cut) /\ Fault /\ up' \in BOOLEAN
    BY <1>2 DEF RedisDown, CutSubscription, TypeOK
  <2>2. inbox' \in [Workers -> Seq(Events)] /\ faults' \in 0 .. MaxFaults
    BY <2>1, BreakTyped, FaultTyped
  <2> QED BY <2>1, <2>2 DEF Break, TypeOK, listening
<1> QED BY <1>1, <1>2

\* What every step of the specification is, for the lemmas below.
LEMMA NextTyped == TypeOK /\ [Next]_vars => TypeOK'
<1> SUFFICES ASSUME TypeOK, [Next]_vars
             PROVE  TypeOK'
  OBVIOUS
<1>1. CASE UNCHANGED vars
  BY <1>1 DEF vars, redis, TypeOK
<1>2. CASE Next
  BY <1>2, PublishingTyped, ListeningTyped, RedisTyped DEF Next, Redis, Stirs
<1> QED BY <1>1, <1>2

\* Every variable of PubSub keeps its type.
THEOREM TypeCorrect == Spec => []TypeOK
BY InitTyped, NextTyped, PTL DEF Spec

-------------------------------------------------------------------------------
(* The invariant without its types. *)

Once == AcceptedOnce /\ LocalOnce /\ DoneIsPublished

Channel(w) == HeardIsAccepted(w) /\ Ordered(w)

events == <<accepted, inbox, hearing, delivered>>

\* A worker whose events stay as they are keeps its order.
LEMMA ChannelKept ==
    ASSUME NEW w \in Workers, Channel(w), accepted' = accepted, inbox'[w] = inbox[w],
           hearing'[w] = hearing[w], delivered'[w] = delivered[w],
           listener'[w] = listener[w] \/ listener[w] # "handle"
    PROVE  Channel(w)'
<1>1. HeardIsAccepted(w)'
  BY DEF Channel, HeardIsAccepted, FromChannel
<1>2. Ordered(w)'
  BY DEF Channel, Ordered, FromChannel, Ahead
<1> QED BY <1>1, <1>2 DEF Channel

\* A publish that moves on without handing anything to anybody.
LEMMA QuietPublish ==
    ASSUME TypeOK, Once, NEW e \in Events, NEW label \in Labels \ {"done"}, Goto(e, label),
           pc[e] \notin {"local", "done"}, UNCHANGED <<events, lost>>
    PROVE  Once'
<1>1. /\ pc'[e] = label /\ label # "done"
      /\ \A f \in Events \ {e} : pc'[f] = pc[f]
  BY GotoTyped
<1>2. e \notin ToSet(accepted) /\ ToSet(accepted) \subseteq Events
  BY DEF Once, AcceptedOnce, TypeOK, ToSet
<1>3. AcceptedOnce'
  <2>1. \A f \in ToSet(accepted) : pc'[f] = pc[f]
    BY <1>1, <1>2
  <2> QED BY <2>1 DEF Once, AcceptedOnce, events
<1>4. LocalOnce'
  <2>1. \A w \in Workers : \A i \in DOMAIN delivered[w] : delivered[w][i].event \in Events
    BY DeliveredTyped
  <2>2. \A w \in Workers : \A i \in DOMAIN delivered[w] :
            FellBack(w, i) => pc'[delivered[w][i].event] = "done"
    BY <1>1, <2>1 DEF Once, LocalOnce
  <2> QED BY <2>2 DEF Once, LocalOnce, FellBack, events
<1>5. DoneIsPublished'
  <2>1. \A f \in Events : pc'[f] = "done" => pc[f] = "done"
    BY <1>1
  <2> QED BY <2>1 DEF Once, DoneIsPublished, Times, events
<1> QED BY <1>3, <1>4, <1>5 DEF Once

\* The listener's steps leave the publishes alone.
LEMMA OnceKept ==
    ASSUME Once, UNCHANGED <<pc, accepted, delivered, lost>>
    PROVE  Once'
<1>1. AcceptedOnce'
  BY DEF Once, AcceptedOnce
<1>2. LocalOnce'
  BY DEF Once, LocalOnce, FellBack
<1>3. DoneIsPublished'
  BY DEF Once, DoneIsPublished, Times
<1> QED BY <1>1, <1>2, <1>3 DEF Once

-------------------------------------------------------------------------------
(* Redis takes an event. *)

LEMMA AcceptKeeps ==
    ASSUME IInv, TypeOK', NEW e \in Events, PublishOk(e) \/ PublishUnanswered(e)
    PROVE  Once' /\ \A w \in Workers : Channel(w)'
<1> TypeOK /\ Once /\ \A w \in Workers : Channel(w)
  BY DEF IInv, Once, Channel
<1>1. /\ pc[e] = "publish" /\ Accept(e) /\ accepted' = Append(accepted, e)
      /\ UNCHANGED <<listening, delivered>>
      /\ \/ Goto(e, "done") /\ lost' = lost
         \/ Goto(e, "local") /\ lost' = lost \cup {e}
  BY DEF PublishOk, PublishUnanswered, Accept
<1>2. /\ \A f \in Events \ {e} : pc'[f] = pc[f]
      /\ \/ pc'[e] = "done" /\ lost' = lost
         \/ pc'[e] = "local" /\ lost' = lost \cup {e}
  BY <1>1, GotoTyped DEF Labels
<1>3. accepted \in Seq(Events) /\ accepted' \in Seq(Events)
  BY DEF TypeOK
<1>4. /\ ToSet(accepted') = ToSet(accepted) \cup {e}
      /\ \A f, g : Ahead(f, g) => Before(accepted', f, g)
      /\ \A f \in ToSet(accepted) : Before(accepted', f, e)
  <2>1. \A f, g : Before(accepted, f, g) => Before(accepted', f, g)
    BY <1>1, <1>3, AppendOrder
  <2>2. \A f \in ToSet(accepted) : Before(accepted', f, e)
    BY <1>1, <1>3, AppendOrder
  <2>3. ToSet(accepted') = ToSet(accepted) \cup {e}
    BY <1>1, <1>3, AppendOrder
  <2> QED BY <2>1, <2>2, <2>3 DEF Ahead
<1>5. e \notin ToSet(accepted) /\ ToSet(accepted) \subseteq Events
  BY <1>1, <1>3 DEF Once, AcceptedOnce, ToSet
<1>6. AcceptedOnce'
  <2>1. \A f \in ToSet(accepted') : pc'[f] = "done" \/ (pc'[f] = "local" /\ f \in lost')
    BY <1>2, <1>4, <1>5 DEF Once, AcceptedOnce
  <2>2. ASSUME NEW i \in DOMAIN accepted', NEW j \in DOMAIN accepted', accepted'[i] = accepted'[j]
        PROVE  i = j
    <3>1. /\ DOMAIN accepted = 1 .. Len(accepted) /\ Len(accepted) \in Nat
          /\ DOMAIN accepted' = 1 .. Len(accepted) + 1
          /\ accepted'[Len(accepted) + 1] = e
          /\ \A k \in DOMAIN accepted : accepted'[k] = accepted[k] /\ accepted[k] # e
      BY <1>1, <1>3, <1>5 DEF ToSet
    <3>2. CASE i \in DOMAIN accepted /\ j \in DOMAIN accepted
      <4>1. accepted[i] = accepted[j]
        BY <2>2, <3>1, <3>2
      <4> QED BY <3>2, <4>1 DEF Once, AcceptedOnce
    <3>3. CASE i \notin DOMAIN accepted \/ j \notin DOMAIN accepted
      BY <2>2, <3>1, <3>3
    <3> QED BY <3>2, <3>3
  <2> QED BY <2>1, <2>2 DEF AcceptedOnce
<1>7. LocalOnce'
  <2>1. \A w \in Workers : \A i \in DOMAIN delivered[w] : FellBack(w, i) =>
            delivered[w][i].event # e
    BY <1>1 DEF Once, LocalOnce
  <2>2. \A w \in Workers : \A i \in DOMAIN delivered[w] : delivered[w][i].event \in Events
    BY DeliveredTyped
  <2>3. \A w \in Workers : \A i \in DOMAIN delivered[w] : FellBack(w, i) =>
          /\ pc'[delivered[w][i].event] = "done"
          /\ delivered[w][i].event \in ToSet(accepted') => delivered[w][i].event \in lost'
    BY <1>2, <1>4, <2>1, <2>2 DEF Once, LocalOnce
  <2> QED BY <1>1, <2>3 DEF Once, LocalOnce, FellBack
<1>8. DoneIsPublished'
  <2>1. \A f \in Events : pc'[f] = "done" => f = e \/ pc[f] = "done"
    BY <1>2
  <2> QED BY <1>1, <1>4, <2>1 DEF Once, DoneIsPublished, Times
<1>9. ASSUME NEW w \in Workers
      PROVE  Channel(w)'
  <2>0. Channel(w)
    OBVIOUS
  <2>1. listener' = listener /\ hearing' = hearing /\ delivered' = delivered
    BY <1>1 DEF listening
  <2>2. CASE inbox'[w] = inbox[w]
    <3>1. HeardIsAccepted(w)'
      BY <1>4, <2>0, <2>1, <2>2 DEF Channel, HeardIsAccepted, FromChannel
    <3>2. Ordered(w)'
      BY <1>4, <2>0, <2>1, <2>2 DEF Channel, Ordered, FromChannel, Ahead
    <3> QED BY <3>1, <3>2 DEF Channel
  <2>3. CASE inbox'[w] = Append(inbox[w], e)
    <3>1. /\ DOMAIN inbox[w] = 1 .. Len(inbox[w]) /\ Len(inbox[w]) \in Nat
          /\ DOMAIN inbox'[w] = 1 .. Len(inbox[w]) + 1
          /\ inbox'[w][Len(inbox[w]) + 1] = e
          /\ \A k \in DOMAIN inbox[w] : inbox'[w][k] = inbox[w][k]
      <4>1. inbox[w] \in Seq(Events)
        BY DEF TypeOK
      <4> QED BY <2>3, <4>1
    <3>2. \A k \in DOMAIN inbox'[w] :
              \/ k \in DOMAIN inbox[w] /\ inbox'[w][k] = inbox[w][k]
              \/ k = Len(inbox[w]) + 1 /\ inbox'[w][k] = e
      BY <3>1
    <3>3. HeardIsAccepted(w)'
      BY <1>4, <2>0, <2>1, <3>2 DEF Channel, HeardIsAccepted, FromChannel
    <3>4. ASSUME NEW k \in DOMAIN inbox'[w], NEW l \in DOMAIN inbox'[w], k < l
          PROVE  Before(accepted', inbox'[w][k], inbox'[w][l])
      <4>1. k \in DOMAIN inbox[w]
        BY <3>1, <3>4
      <4>2. CASE l \in DOMAIN inbox[w]
        BY <1>4, <2>0, <3>1, <3>4, <4>1, <4>2 DEF Channel, Ordered
      <4>3. CASE l = Len(inbox[w]) + 1
        BY <1>4, <2>0, <3>1, <4>1, <4>3 DEF Channel, HeardIsAccepted
      <4> QED BY <3>2, <4>2, <4>3
    <3>5. \A f \in ToSet(accepted) : (\A k \in DOMAIN inbox[w] : Ahead(f, inbox[w][k])) =>
              \A k \in DOMAIN inbox'[w] : Before(accepted', f, inbox'[w][k])
      BY <1>4, <3>2
    <3>6. Ordered(w)'
      BY <1>4, <2>0, <2>1, <3>4, <3>5 DEF Channel, Ordered, HeardIsAccepted, FromChannel, Ahead
    <3> QED BY <3>3, <3>6 DEF Channel
  <2> QED BY <1>1, <2>2, <2>3, AcceptTyped
<1> QED BY <1>6, <1>7, <1>8, <1>9 DEF Once

-------------------------------------------------------------------------------
(* Events are handed over. *)

LEMMA DeliverLocallyKeeps ==
    ASSUME IInv, TypeOK', NEW e \in Events, DeliverLocally(e)
    PROVE  Once' /\ \A w \in Workers : Channel(w)'
<1> TypeOK /\ Once /\ \A w \in Workers : Channel(w)
  BY DEF IInv, Once, Channel
<1> DEFINE o == Origin[e]
           n == Len(delivered[o]) + 1
<1>0. o \in Workers
  BY PubSubAssumption
<1>1. /\ pc[e] = "local" /\ Hand(o, e, "local") /\ Goto(e, "done")
      /\ UNCHANGED <<redis, listening, lost>>
  BY DEF DeliverLocally
<1>2. pc'[e] = "done" /\ \A f \in Events \ {e} : pc'[f] = pc[f]
  BY <1>1, GotoTyped DEF Labels
<1>3. /\ \A v \in Workers \ {o} : delivered'[v] = delivered[v]
      /\ n \in Nat \ {0} /\ DOMAIN delivered[o] = 1 .. n - 1 /\ DOMAIN delivered'[o] = 1 .. n
      /\ delivered'[o][n] = [event |-> e, via |-> "local"]
      /\ \A i \in 1 .. n - 1 : delivered'[o][i] = delivered[o][i]
  BY <1>0, <1>1, HandOver
<1> HIDE DEF n, o
<1>4. accepted' = accepted /\ inbox' = inbox /\ hearing' = hearing /\ listener' = listener
  BY <1>1 DEF redis, listening
<1>5. \A w \in Workers : \A i \in DOMAIN delivered[w] :
          /\ i \in DOMAIN delivered'[w] /\ delivered'[w][i] = delivered[w][i]
          /\ delivered[w][i].event \in Events
          /\ FellBack(w, i) => delivered[w][i].event # e
  BY <1>1, <1>3, DeliveredTyped DEF Once, LocalOnce
<1>6. \A w \in Workers : \A i \in DOMAIN delivered'[w] :
          i \in DOMAIN delivered[w] \/ (w = o /\ i = n)
  BY <1>3
<1>7. AcceptedOnce'
  <2>1. \A f \in ToSet(accepted) : f \in Events
    BY DEF TypeOK, ToSet
  <2>2. \A f \in ToSet(accepted) : pc'[f] = "done"
        \/ (pc'[f] = "local" /\ f \in lost)
    BY <1>2, <2>1 DEF Once, AcceptedOnce
  <2> QED BY <1>1, <1>4, <2>2 DEF Once, AcceptedOnce
<1>8. LocalOnce'
  <2> SUFFICES ASSUME NEW w \in Workers, NEW i \in DOMAIN delivered'[w],
                      delivered'[w][i].via = "local"
               PROVE  /\ w = Origin[delivered'[w][i].event]
                      /\ pc'[delivered'[w][i].event] = "done"
                      /\ delivered'[w][i].event \in ToSet(accepted)
                            => delivered'[w][i].event \in lost
                      /\ \A j \in DOMAIN delivered'[w] :
                            /\ delivered'[w][j].via = "local"
                            /\ delivered'[w][i].event = delivered'[w][j].event
                            => i = j
    BY <1>1, <1>4 DEF LocalOnce, FellBack
  <2>1. CASE i \in DOMAIN delivered[w]
    <3>1. /\ w = Origin[delivered[w][i].event]
          /\ pc[delivered[w][i].event] = "done"
          /\ delivered[w][i].event \in ToSet(accepted) => delivered[w][i].event \in lost
          /\ \A j \in DOMAIN delivered[w] :
                FellBack(w, j) /\ delivered[w][i].event = delivered[w][j].event => i = j
      BY <1>5, <2>1 DEF Once, LocalOnce, FellBack
    <3>2. delivered'[w][i] = delivered[w][i] /\ delivered[w][i].event # e
      BY <1>5, <2>1 DEF FellBack
    <3>3. pc'[delivered[w][i].event] = "done"
      BY <1>2, <1>5, <2>1, <3>1, <3>2
    <3>4. ASSUME NEW j \in DOMAIN delivered'[w], delivered'[w][j].via = "local",
                 delivered'[w][i].event = delivered'[w][j].event
          PROVE  i = j
      <4>1. CASE j \in DOMAIN delivered[w]
        BY <1>5, <3>1, <3>2, <3>4, <4>1 DEF FellBack
      <4>2. CASE w = o /\ j = n
        BY <1>3, <3>2, <3>4, <4>2
      <4> QED BY <1>6, <4>1, <4>2
    <3> QED BY <3>1, <3>2, <3>3, <3>4
  <2>2. CASE w = o /\ i = n
    <3>1. delivered'[w][i].event = e
      BY <1>3, <2>2
    <3>2. e \in ToSet(accepted) => e \in lost
      BY <1>1 DEF Once, AcceptedOnce
    <3>3. ASSUME NEW j \in DOMAIN delivered'[w], delivered'[w][j].via = "local",
                 delivered'[w][j].event = e
          PROVE  j = n
      BY <1>5, <1>6, <3>3 DEF FellBack
    <3> QED BY <1>2, <2>2, <3>1, <3>2, <3>3 DEF o
  <2> QED BY <1>6, <2>1, <2>2
<1>9. DoneIsPublished'
  <2> SUFFICES ASSUME NEW f \in Events, pc'[f] = "done", f \notin ToSet(accepted)
               PROVE  \E i \in DOMAIN delivered'[Origin[f]] :
                          delivered'[Origin[f]][i].event = f
    BY <1>4 DEF DoneIsPublished, Times
  <2>1. CASE f = e
    <3>1. n \in DOMAIN delivered'[o] /\ delivered'[o][n].event = e
      BY <1>3
    <3> QED BY <2>1, <3>1 DEF o
  <2>2. CASE f # e
    <3>1. Origin[f] \in Workers
      BY PubSubAssumption
    <3>2. \E i \in DOMAIN delivered[Origin[f]] : delivered[Origin[f]][i].event = f
      BY <1>2, <2>2 DEF Once, DoneIsPublished, Times
    <3> QED BY <1>5, <3>1, <3>2
  <2> QED BY <2>1, <2>2
<1>10. ASSUME NEW w \in Workers
       PROVE  Channel(w)'
  <2>0. Channel(w)
    OBVIOUS
  <2>1. \A i \in DOMAIN delivered'[w] : delivered'[w][i].via = "channel" =>
            i \in DOMAIN delivered[w] /\ delivered'[w][i] = delivered[w][i]
    BY <1>3, <1>5, <1>6
  <2>2. HeardIsAccepted(w)'
    BY <1>4, <2>0, <2>1 DEF Channel, HeardIsAccepted, FromChannel
  <2>3. Ordered(w)'
    BY <1>4, <2>0, <2>1 DEF Channel, Ordered, FromChannel, Ahead
  <2> QED BY <2>2, <2>3 DEF Channel
<1> QED BY <1>7, <1>8, <1>9, <1>10 DEF Once

LEMMA HandleKeeps ==
    ASSUME IInv, TypeOK', NEW w \in Workers, Handle(w)
    PROVE  Once' /\ \A v \in Workers : Channel(v)'
<1> TypeOK /\ Once /\ \A v \in Workers : Channel(v)
  BY DEF IInv, Once, Channel
<1> DEFINE n == Len(delivered[w]) + 1
<1>1. PICK e \in hearing[w] : Hand(w, e, "channel")
  BY DEF Handle
<1>2. e \in Events
  BY DEF TypeOK
<1>3. /\ \A v \in Workers \ {w} : delivered'[v] = delivered[v]
      /\ n \in Nat \ {0} /\ DOMAIN delivered[w] = 1 .. n - 1 /\ DOMAIN delivered'[w] = 1 .. n
      /\ delivered'[w][n] = [event |-> e, via |-> "channel"]
      /\ \A i \in 1 .. n - 1 : delivered'[w][i] = delivered[w][i]
  BY <1>1, <1>2, HandOver
<1> HIDE DEF n
<1>4. /\ accepted' = accepted /\ inbox' = inbox /\ pc' = pc /\ lost' = lost
      /\ hearing' = [hearing EXCEPT ![w] = {}] /\ listener' = [listener EXCEPT ![w] = "listen"]
  BY DEF Handle, redis
<1>5. \A v \in Workers : \A i \in DOMAIN delivered[v] :
          i \in DOMAIN delivered'[v] /\ delivered'[v][i] = delivered[v][i]
  BY <1>3
<1>6. \A v \in Workers : \A i \in DOMAIN delivered'[v] :
          i \in DOMAIN delivered[v] \/ (v = w /\ i = n)
  BY <1>3
<1>7. AcceptedOnce'
  BY <1>4 DEF Once, AcceptedOnce
<1>8. LocalOnce'
  <2>1. \A v \in Workers : \A i \in DOMAIN delivered'[v] : delivered'[v][i].via = "local" =>
            i \in DOMAIN delivered[v] /\ delivered'[v][i] = delivered[v][i]
    BY <1>3, <1>5, <1>6
  <2> QED BY <1>4, <2>1 DEF Once, LocalOnce, FellBack
<1>9. DoneIsPublished'
  <2>1. \A f \in Events : Origin[f] \in Workers
    BY PubSubAssumption
  <2>2. \A f \in Events : Times(Origin[f], f) # {} => Times(Origin[f], f)' # {}
    BY <1>5, <2>1 DEF Times
  <2> QED BY <1>4, <2>2 DEF Once, DoneIsPublished
<1>10. ASSUME NEW v \in Workers \ {w}
       PROVE  Channel(v)'
  BY <1>3, <1>4, ChannelKept DEF TypeOK
<1>11. Channel(w)'
  <2>0. Channel(w)
    OBVIOUS
  <2>1. hearing'[w] = {}
    BY <1>4 DEF TypeOK
  <2>2. \A i \in DOMAIN delivered'[w] :
            \/ i \in 1 .. n - 1 /\ i \in DOMAIN delivered[w] /\ delivered'[w][i] = delivered[w][i]
            \/ i = n /\ delivered'[w][i].event = e
    BY <1>3
  <2>3. HeardIsAccepted(w)'
    BY <1>4, <2>0, <2>1, <2>2 DEF Channel, HeardIsAccepted, FromChannel
  <2>4. ASSUME NEW i \in DOMAIN delivered'[w], delivered'[w][i].via = "channel"
        PROVE  \A k \in DOMAIN inbox[w] : Ahead(delivered'[w][i].event, inbox[w][k])
    BY <2>0, <2>2, <2>4 DEF Channel, Ordered, FromChannel
  <2>5. ASSUME NEW i \in DOMAIN delivered'[w], NEW j \in DOMAIN delivered'[w], i < j,
               delivered'[w][i].via = "channel", delivered'[w][j].via = "channel"
        PROVE  Ahead(delivered'[w][i].event, delivered'[w][j].event)
    <3>1. i \in DOMAIN delivered[w] /\ delivered'[w][i] = delivered[w][i]
      BY <1>3, <2>2, <2>5
    <3>2. CASE j = n
      BY <2>0, <1>3, <2>5, <3>1, <3>2 DEF Channel, Ordered, FromChannel
    <3>3. CASE j \in DOMAIN delivered[w] /\ delivered'[w][j] = delivered[w][j]
      BY <2>0, <2>5, <3>1, <3>3 DEF Channel, Ordered, FromChannel
    <3> QED BY <2>2, <3>2, <3>3
  <2>6. Ordered(w)'
    BY <1>4, <2>0, <2>1, <2>4, <2>5 DEF Channel, Ordered, FromChannel, Ahead
  <2> QED BY <2>3, <2>6 DEF Channel
<1> QED BY <1>7, <1>8, <1>9, <1>10, <1>11 DEF Once

-------------------------------------------------------------------------------
(* Events move from Redis to a listener, or are lost on the way. *)

LEMMA HearKeeps ==
    ASSUME IInv, TypeOK', NEW w \in Workers, Hear(w)
    PROVE  Once' /\ \A v \in Workers : Channel(v)'
<1> TypeOK /\ Once /\ \A v \in Workers : Channel(v)
  BY DEF IInv, Once, Channel
<1>1. /\ listener[w] = "listen" /\ inbox[w] # <<>>
      /\ hearing' = [hearing EXCEPT ![w] = {Head(inbox[w])}]
      /\ inbox' = [inbox EXCEPT ![w] = Tail(inbox[w])]
      /\ listener' = [listener EXCEPT ![w] = "handle"]
      /\ UNCHANGED <<pc, accepted, delivered, lost>>
  BY DEF Hear
<1>2. Once'
  BY <1>1, OnceKept
<1>3. ASSUME NEW v \in Workers \ {w}
      PROVE  Channel(v)'
  BY <1>1, ChannelKept DEF TypeOK
<1>4. Channel(w)'
  <2> DEFINE n == Len(inbox[w])
  <2>0. Channel(w)
    OBVIOUS
  <2>1. /\ hearing'[w] = {inbox[w][1]} /\ listener'[w] = "handle"
        /\ inbox'[w] = Tail(inbox[w])
    BY <1>1 DEF TypeOK
  <2>2. /\ n \in Nat /\ n > 0 /\ DOMAIN inbox[w] = 1 .. n
        /\ DOMAIN Tail(inbox[w]) = 1 .. n - 1
        /\ \A k \in 1 .. n - 1 : Tail(inbox[w])[k] = inbox[w][k + 1]
    <3>1. inbox[w] \in Seq(Events) /\ inbox[w] # <<>>
      BY <1>1 DEF TypeOK
    <3> QED BY <3>1
  <2> HIDE DEF n
  <2>3. /\ 1 \in DOMAIN inbox[w]
        /\ DOMAIN inbox'[w] = 1 .. n - 1
        /\ \A k \in DOMAIN inbox'[w] :
              k \in Int /\ k + 1 \in DOMAIN inbox[w] /\ 1 < k + 1 /\ inbox'[w][k] = inbox[w][k + 1]
    BY <2>1, <2>2
  <2>4. HeardIsAccepted(w)'
    BY <1>1, <2>0, <2>1, <2>3 DEF Channel, HeardIsAccepted, FromChannel
  <2>5. \A k, l \in DOMAIN inbox'[w] : k < l => Ahead(inbox'[w][k], inbox'[w][l])
    BY <2>0, <2>3 DEF Channel, Ordered
  <2>6. \A k \in DOMAIN inbox'[w] : Ahead(inbox[w][1], inbox'[w][k])
    BY <2>0, <2>3 DEF Channel, Ordered
  <2>7. \A i \in DOMAIN delivered[w] : FromChannel(w, i) =>
            /\ \A k \in DOMAIN inbox'[w] : Ahead(delivered[w][i].event, inbox'[w][k])
            /\ Ahead(delivered[w][i].event, inbox[w][1])
    BY <2>0, <2>3 DEF Channel, Ordered
  <2>8. Ordered(w)'
    BY <1>1, <2>0, <2>1, <2>5, <2>6, <2>7 DEF Channel, Ordered, FromChannel, Ahead
  <2> QED BY <2>4, <2>8 DEF Channel
<1> QED BY <1>2, <1>3, <1>4

\* An inbox that keeps only a prefix of itself keeps the order.
LEMMA PrefixKeeps ==
    ASSUME NEW w \in Workers, Channel(w), UNCHANGED <<accepted, hearing, delivered>>,
           listener'[w] = listener[w] \/ listener[w] # "handle",
           DOMAIN inbox'[w] \subseteq DOMAIN inbox[w],
           \A k \in DOMAIN inbox'[w] : inbox'[w][k] = inbox[w][k]
    PROVE  Channel(w)'
<1>1. HeardIsAccepted(w)'
  BY DEF Channel, HeardIsAccepted, FromChannel
<1>2. Ordered(w)'
  BY DEF Channel, Ordered, FromChannel, Ahead
<1> QED BY <1>1, <1>2 DEF Channel

LEMMA SubscribeKeeps ==
    ASSUME IInv, TypeOK', NEW w \in Workers, Subscribe(w)
    PROVE  Once' /\ \A v \in Workers : Channel(v)'
<1> TypeOK /\ Once /\ \A v \in Workers : Channel(v)
  BY DEF IInv, Once, Channel
<1>1. /\ listener[w] = "subscribe" /\ inbox' = [inbox EXCEPT ![w] = <<>>]
      /\ listener' = [listener EXCEPT ![w] = "listen"]
      /\ UNCHANGED <<pc, accepted, hearing, delivered, lost>>
  BY DEF Subscribe
<1>2. Once'
  BY <1>1, OnceKept
<1>3. ASSUME NEW v \in Workers
      PROVE  Channel(v)'
  <2>1. listener'[v] = listener[v] \/ listener[v] # "handle"
    BY <1>1 DEF TypeOK
  <2>2. inbox'[v] = inbox[v] \/ inbox'[v] = <<>>
    BY <1>1 DEF TypeOK
  <2>3. /\ DOMAIN inbox'[v] \subseteq DOMAIN inbox[v]
        /\ \A k \in DOMAIN inbox'[v] : inbox'[v][k] = inbox[v][k]
    BY <2>2
  <2> QED BY <1>1, <2>1, <2>3, PrefixKeeps
<1> QED BY <1>2, <1>3

LEMMA RedisKeeps ==
    ASSUME IInv, TypeOK', Redis
    PROVE  Once' /\ \A v \in Workers : Channel(v)'
<1> TypeOK /\ Once /\ \A v \in Workers : Channel(v)
  BY DEF IInv, Once, Channel
<1>1. UNCHANGED <<pc, accepted, delivered, lost, hearing, listener>>
  BY DEF Redis, Stirs, RedisDown, RedisUp, Report, CutSubscription, Break, listening
<1>2. Once'
  BY <1>1, OnceKept
<1>3. ASSUME NEW v \in Workers
      PROVE  /\ DOMAIN inbox'[v] \subseteq DOMAIN inbox[v]
             /\ \A k \in DOMAIN inbox'[v] : inbox'[v][k] = inbox[v][k]
  <2>1. CASE Stirs
    BY <2>1 DEF Stirs, RedisUp, Report
  <2>2. CASE ~Stirs
    <3>1. PICK cut \in SUBSET Workers : Break(cut)
      BY <2>2 DEF Redis, RedisDown, CutSubscription, TypeOK
    <3>2. PICK n \in Nat : /\ DOMAIN inbox'[v] = 1 .. n /\ n <= Len(inbox[v])
                           /\ \A k \in 1 .. n : inbox'[v][k] = inbox[v][k]
      BY <3>1, BreakTyped
    <3>3. inbox[v] \in Seq(Events)
      BY DEF TypeOK
    <3> QED BY <3>2, <3>3
  <2> QED BY <2>1, <2>2
<1> QED BY <1>1, <1>2, <1>3, PrefixKeeps

-------------------------------------------------------------------------------
(* The theorems. *)

LEMMA InitHolds == Init => IInv
<1> SUFFICES ASSUME Init
             PROVE  IInv
  OBVIOUS
<1>1. TypeOK
  BY InitTyped
<1>2. /\ DOMAIN accepted = {} /\ ToSet(accepted) = {}
      /\ \A w \in Workers : DOMAIN inbox[w] = {} /\ DOMAIN delivered[w] = {} /\ hearing[w] = {}
  BY DEF Init, ToSet
<1>3. AcceptedOnce /\ LocalOnce
  BY <1>2 DEF AcceptedOnce, LocalOnce
<1>4. DoneIsPublished
  BY DEF Init, DoneIsPublished
<1>5. \A w \in Workers : HeardIsAccepted(w) /\ Ordered(w)
  BY <1>2 DEF HeardIsAccepted, Ordered
<1> QED BY <1>1, <1>3, <1>4, <1>5 DEF IInv

LEMMA PublishingKeeps ==
    ASSUME IInv, TypeOK', NEW e \in Events, Publish(e) \/ Publishing(e)
    PROVE  Once' /\ \A w \in Workers : Channel(w)'
<1> TypeOK /\ Once /\ \A w \in Workers : Channel(w)
  BY DEF IInv, Once, Channel
<1>1. CASE PublishOk(e) \/ PublishUnanswered(e)
  BY <1>1, AcceptKeeps
<1>2. CASE DeliverLocally(e)
  BY <1>2, DeliverLocallyKeeps
<1>3. CASE \/ Publish(e) \/ PingOk(e) \/ PingFails(e) \/ Closed(e)
           \/ RepingOk(e) \/ RepingFails(e) \/ PublishFails(e)
  <2>1. /\ pc[e] \notin {"local", "done"}
        /\ \E label \in Labels \ {"done"} : Goto(e, label)
    BY <1>3 DEF Publish, PingOk, PingFails, Closed, RepingOk, RepingFails, PublishFails, Labels
  <2>2. UNCHANGED <<redis, listening, delivered, lost>>
    BY <1>3 DEF Publish, PingOk, PingFails, Closed, RepingOk, RepingFails, PublishFails
  <2>3. UNCHANGED <<accepted, inbox, hearing, listener, delivered, lost>>
    BY <2>2 DEF redis, listening
  <2>4. Once'
    BY <2>1, <2>3, QuietPublish DEF events
  <2> QED BY <2>3, <2>4, ChannelKept
<1> QED BY <1>1, <1>2, <1>3 DEF Publishing

LEMMA ListeningKeeps ==
    ASSUME IInv, TypeOK', NEW w \in Workers, Listening(w)
    PROVE  Once' /\ \A v \in Workers : Channel(v)'
<1> TypeOK /\ Once /\ \A v \in Workers : Channel(v)
  BY DEF IInv, Once, Channel
<1>1. CASE Subscribe(w) \/ Hear(w) \/ Handle(w)
  BY <1>1, SubscribeKeeps, HearKeeps, HandleKeeps
<1>2. CASE SubscribeFails(w) \/ ListenFails(w) \/ Reconnect(w)
  <2>1. UNCHANGED <<pc, accepted, inbox, hearing, delivered, lost>>
    BY <1>2 DEF SubscribeFails, ListenFails, Reconnect, redis
  <2>2. \A v \in Workers : listener'[v] = listener[v] \/ listener[v] # "handle"
    BY <1>2 DEF SubscribeFails, ListenFails, Reconnect, TypeOK
  <2> QED BY <2>1, <2>2, OnceKept, ChannelKept
<1> QED BY <1>1, <1>2 DEF Listening

LEMMA NextHolds == IInv /\ [Next]_vars => IInv'
<1> SUFFICES ASSUME IInv, [Next]_vars
             PROVE  IInv'
  OBVIOUS
<1>1. TypeOK'
  BY NextTyped DEF IInv
<1>2. Once' /\ \A w \in Workers : Channel(w)'
  <2>1. CASE UNCHANGED vars
    <3>1. UNCHANGED <<pc, accepted, inbox, hearing, delivered, lost, listener>>
      BY <2>1 DEF vars, redis
    <3> QED BY <3>1, OnceKept, ChannelKept DEF IInv, Once, Channel
  <2>2. CASE Next
    BY <1>1, <2>2, PublishingKeeps, ListeningKeeps, RedisKeeps DEF Next, Redis, Stirs
  <2> QED BY <2>1, <2>2
<1> QED BY <1>1, <1>2 DEF IInv, Once, Channel

\* The invariant that the three theorems below rest on.
THEOREM Invariance == Spec => []IInv
BY InitHolds, NextHolds, PTL DEF Spec

\* Two deliveries of one event on one worker are the event from the channel
\* and its fallback, after an answer to PUBLISH that was lost.
LEMMA OnceFollows == IInv => DeliveredOnce
<1> SUFFICES ASSUME IInv, NEW w \in Workers, NEW e \in Events,
                    NEW i \in Times(w, e), NEW j \in Times(w, e), i # j
             PROVE  /\ e \in lost /\ w = Origin[e]
                    /\ delivered[w][i].via # delivered[w][j].via
  BY DEF DeliveredOnce
<1> TypeOK /\ AcceptedOnce /\ LocalOnce /\ HeardIsAccepted(w) /\ Ordered(w)
  BY DEF IInv
<1>1. /\ i \in DOMAIN delivered[w] /\ delivered[w][i].event = e
      /\ j \in DOMAIN delivered[w] /\ delivered[w][j].event = e
  BY DEF Times
<1>2. i \in Int /\ j \in Int
  <2>1. delivered[w] \in Seq(Delivery)
    BY DEF TypeOK
  <2> QED BY <1>1, <2>1
<1>3. ~(FromChannel(w, i) /\ FromChannel(w, j))
  <2>1. FromChannel(w, i) /\ FromChannel(w, j) /\ i < j => Ahead(e, e)
    BY <1>1 DEF Ordered
  <2>2. FromChannel(w, i) /\ FromChannel(w, j) /\ j < i => Ahead(e, e)
    BY <1>1 DEF Ordered
  <2> QED BY <1>2, <2>1, <2>2, StrictlyAhead
<1>4. ~(FellBack(w, i) /\ FellBack(w, j))
  BY <1>1 DEF LocalOnce
<1>5. /\ FromChannel(w, i) \/ FellBack(w, i)
      /\ FromChannel(w, j) \/ FellBack(w, j)
  BY <1>1, DeliveredTyped DEF FromChannel, FellBack
<1>6. e \in ToSet(accepted)
  BY <1>1, <1>4, <1>5 DEF HeardIsAccepted
<1>7. e \in lost /\ w = Origin[e]
  BY <1>1, <1>3, <1>5, <1>6 DEF LocalOnce
<1> QED BY <1>3, <1>4, <1>5, <1>7 DEF FromChannel, FellBack

\* No event is handed twice to the sockets of a worker, except once from the
\* channel and once by the fallback when the answer to PUBLISH was lost.
THEOREM DeliveredOnceAlways == Spec => []DeliveredOnce
BY Invariance, OnceFollows, PTL

\* A publish that ends without raising handed its event to Redis or to the
\* sockets of its own worker.
THEOREM DoneIsPublishedAlways == Spec => []DoneIsPublished
<1>1. IInv => DoneIsPublished
  BY DEF IInv
<1> QED BY <1>1, Invariance, PTL

\* Every worker hands the events of the channel over in the order in which
\* Redis took them, whatever breaks in between.
THEOREM ChannelOrderAlways == Spec => []ChannelOrder
<1>1. IInv => ChannelOrder
  BY DEF IInv, Ordered, ChannelOrder, FromChannel, Ahead
<1> QED BY <1>1, Invariance, PTL

-------------------------------------------------------------------------------
(* No gap in what a worker gets. *)

Handed(w) == {delivered[w][i].event : i \in {j \in DOMAIN delivered[w] : FromChannel(w, j)}}

\* The events of the channel that w has handed over, hears or has still to read.
Reached(w) == ToSet(inbox[w]) \cup hearing[w] \cup Handed(w)

\* A worker whose subscription has never broken listens and has reached all
\* that Redis took since it subscribed, or has not subscribed yet.
NoGap(w) ==
    w \notin missed =>
        IF w \in subscribed
        THEN /\ listener[w] \in {"listen", "handle"}
             /\ Reached(w) = {accepted[i] : i \in since[w] + 1 .. Len(accepted)}
        ELSE Reached(w) = {}

LEMMA HandedGrows ==
    ASSUME TypeOK, NEW v \in Workers, NEW e \in Events, NEW how \in {"channel", "local"},
           Hand(v, e, how), NEW w \in Workers
    PROVE  Handed(w)' = Handed(w) \cup (IF w = v /\ how = "channel" THEN {e} ELSE {})
<1>1. CASE w # v
  <2>1. delivered'[w] = delivered[w]
    BY <1>1, HandOver
  <2> QED BY <1>1, <2>1 DEF Handed, FromChannel
<1>2. CASE w = v
  <2> DEFINE n == Len(delivered[w]) + 1
  <2>1. /\ n \in Nat \ {0} /\ DOMAIN delivered[w] = 1 .. n - 1
        /\ DOMAIN delivered'[w] = 1 .. n
        /\ delivered'[w][n] = [event |-> e, via |-> how]
        /\ \A i \in 1 .. n - 1 : delivered'[w][i] = delivered[w][i]
    BY <1>2, HandOver
  <2> HIDE DEF n
  <2>2. /\ n \in DOMAIN delivered'[w] /\ delivered'[w][n].event = e
        /\ delivered'[w][n].via = how
        /\ \A i \in DOMAIN delivered[w] :
              i \in DOMAIN delivered'[w] /\ delivered'[w][i] = delivered[w][i]
        /\ \A i \in DOMAIN delivered'[w] : i = n \/ i \in DOMAIN delivered[w]
    BY <2>1
  <2>3. CASE how = "channel"
    BY <1>2, <2>2, <2>3 DEF Handed, FromChannel
  <2>4. CASE how = "local"
    BY <1>2, <2>2, <2>4 DEF Handed, FromChannel
  <2> QED BY <2>3, <2>4
<1> QED BY <1>1, <1>2

LEMMA NoGapKept ==
    ASSUME NEW w \in Workers, NoGap(w), UNCHANGED <<accepted, subscribed, since, missed>>,
           Reached(w)' = Reached(w),
           listener'[w] = listener[w] \/ listener'[w] \in {"listen", "handle"}
             \/ w \notin subscribed \/ w \in missed
    PROVE  NoGap(w)'
BY DEF NoGap

\* Redis hands an event to those who are subscribed; of the others those who
\* have missed nothing have had nothing.
LEMMA AcceptLeavesNoGap ==
    ASSUME TypeOK, NEW w \in Workers, NoGap(w), NEW e \in Events, Accept(e),
           UNCHANGED <<listening, delivered, missed>>
    PROVE  NoGap(w)'
<1>1. /\ accepted \in Seq(Events) /\ accepted' = Append(accepted, e)
      /\ UNCHANGED <<subscribed, since>>
      /\ inbox'[w] = IF w \in subscribed THEN Append(inbox[w], e) ELSE inbox[w]
      /\ inbox[w] \in Seq(Events)
  BY DEF Accept, TypeOK
<1>2. Handed(w)' = Handed(w) /\ hearing' = hearing /\ listener' = listener
  BY DEF listening, Handed, FromChannel
<1>3. CASE w \in subscribed
  <2>1. ToSet(inbox'[w]) = ToSet(inbox[w]) \cup {e}
    BY <1>1, <1>3, AppendOrder
  <2>2. Reached(w)' = Reached(w) \cup {e}
    BY <1>2, <2>1 DEF Reached
  <2> DEFINE n == Len(accepted)
             m == since[w]
  <2>3. /\ n \in Nat /\ m \in 0 .. n /\ Len(accepted') = n + 1 /\ accepted'[n + 1] = e
        /\ \A i \in 1 .. n : accepted'[i] = accepted[i]
    BY <1>1 DEF TypeOK
  <2> HIDE DEF n, m
  <2>4. {accepted'[i] : i \in m + 1 .. n + 1} = {accepted[i] : i \in m + 1 .. n} \cup {e}
    <3>1. /\ m + 1 .. n + 1 = (m + 1 .. n) \cup {n + 1}
          /\ m + 1 .. n \subseteq 1 .. n
      BY <2>3
    <3>2. {accepted'[i] : i \in m + 1 .. n + 1}
             = {accepted'[i] : i \in m + 1 .. n} \cup {accepted'[n + 1]}
      BY <3>1
    <3>3. {accepted'[i] : i \in m + 1 .. n} = {accepted[i] : i \in m + 1 .. n}
      BY <2>3, <3>1
    <3> QED BY <2>3, <3>2, <3>3
  <2> QED BY <1>1, <1>2, <1>3, <2>2, <2>3, <2>4 DEF NoGap, n, m
<1>4. CASE w \notin subscribed
  <2>1. Reached(w)' = Reached(w)
    BY <1>1, <1>2, <1>4 DEF Reached
  <2> QED BY <1>1, <1>2, <1>4, <2>1 DEF NoGap
<1> QED BY <1>3, <1>4

LEMMA HearLeavesNoGap ==
    ASSUME IInv, NEW w \in Workers, NoGap(w), NEW v \in Workers, Hear(v)
    PROVE  NoGap(w)'
<1>1. /\ TypeOK /\ HeardIsAccepted(w) /\ listener[v] = "listen" /\ inbox[v] # <<>>
      /\ hearing' = [hearing EXCEPT ![v] = {Head(inbox[v])}]
      /\ inbox' = [inbox EXCEPT ![v] = Tail(inbox[v])]
      /\ listener' = [listener EXCEPT ![v] = "handle"]
      /\ UNCHANGED <<accepted, subscribed, since, delivered, missed>>
  BY DEF Hear, IInv
<1>2. Handed(w)' = Handed(w)
  BY <1>1 DEF Handed, FromChannel
<1>3. CASE w = v
  <2>1. /\ hearing[w] = {} /\ hearing'[w] = {Head(inbox[w])} /\ inbox'[w] = Tail(inbox[w])
        /\ inbox[w] \in Seq(Events) /\ inbox[w] # <<>> /\ listener'[w] = "handle"
    BY <1>1, <1>3 DEF TypeOK, HeardIsAccepted
  <2>2. ToSet(inbox[w]) = ToSet(Tail(inbox[w])) \cup {Head(inbox[w])}
    <3> DEFINE q == inbox[w]
               t == Tail(q)
    <3>1. /\ Len(q) \in Nat \ {0} /\ DOMAIN q = 1 .. Len(q) /\ Head(q) = q[1]
          /\ DOMAIN t = 1 .. Len(q) - 1
          /\ \A k \in 1 .. Len(q) - 1 : t[k] = q[k + 1]
      BY <2>1
    <3> HIDE DEF q, t
    <3>2. \A k \in DOMAIN t : k + 1 \in DOMAIN q /\ t[k] = q[k + 1]
      BY <3>1
    <3>3. ASSUME NEW k \in DOMAIN q
          PROVE  q[k] = Head(q) \/ (k - 1 \in DOMAIN t /\ t[k - 1] = q[k])
      <4>1. k = 1 \/ (k - 1 \in 1 .. Len(q) - 1 /\ (k - 1) + 1 = k)
        BY <3>1
      <4> QED BY <3>1, <4>1
    <3>4. 1 \in DOMAIN q
      BY <3>1
    <3>5. ToSet(q) = ToSet(t) \cup {Head(q)}
      BY <3>1, <3>2, <3>3, <3>4 DEF ToSet
    <3> QED BY <3>5 DEF q, t
  <2>3. Reached(w)' = Reached(w)
    BY <1>2, <2>1, <2>2 DEF Reached
  <2> QED BY <1>1, <2>1, <2>3, NoGapKept
<1>4. CASE w # v
  <2>1. inbox'[w] = inbox[w] /\ hearing'[w] = hearing[w] /\ listener'[w] = listener[w]
    BY <1>1, <1>4 DEF TypeOK
  <2>2. Reached(w)' = Reached(w)
    BY <1>2, <2>1 DEF Reached
  <2> QED BY <1>1, <2>1, <2>2, NoGapKept
<1> QED BY <1>3, <1>4

LEMMA HandleLeavesNoGap ==
    ASSUME IInv, NEW w \in Workers, NoGap(w), NEW v \in Workers, Handle(v)
    PROVE  NoGap(w)'
<1>1. /\ TypeOK /\ HeardIsAccepted(v) /\ hearing' = [hearing EXCEPT ![v] = {}]
      /\ listener' = [listener EXCEPT ![v] = "listen"]
      /\ UNCHANGED <<accepted, subscribed, since, inbox, missed>>
  BY DEF Handle, IInv, redis
<1>2. PICK e \in hearing[v] : Hand(v, e, "channel")
  BY DEF Handle
<1>3. e \in Events /\ hearing[v] = {e}
  BY <1>1, <1>2 DEF TypeOK, HeardIsAccepted
<1>4. Handed(w)' = Handed(w) \cup (IF w = v THEN {e} ELSE {})
  BY <1>1, <1>2, <1>3, HandedGrows
<1>5. /\ hearing'[w] = IF w = v THEN {} ELSE hearing[w]
      /\ listener'[w] = IF w = v THEN "listen" ELSE listener[w]
  BY <1>1 DEF TypeOK
<1>6. Reached(w)' = Reached(w)
  BY <1>1, <1>3, <1>4, <1>5 DEF Reached
<1> QED BY <1>1, <1>5, <1>6, NoGapKept

\* A new subscription starts where the log ends.
LEMMA SubscribeLeavesNoGap ==
    ASSUME TypeOK, NEW w \in Workers, NoGap(w), NEW v \in Workers, Subscribe(v)
    PROVE  NoGap(w)'
<1>1. /\ listener[v] = "subscribe" /\ subscribed' = subscribed \cup {v}
      /\ inbox' = [inbox EXCEPT ![v] = <<>>] /\ listener' = [listener EXCEPT ![v] = "listen"]
      /\ since' = [since EXCEPT ![v] = Len(accepted)]
      /\ UNCHANGED <<accepted, hearing, delivered, missed>>
  BY DEF Subscribe
<1>2. Handed(w)' = Handed(w)
  BY <1>1 DEF Handed, FromChannel
<1>3. CASE w = v
  <2>1. /\ inbox'[w] = <<>> /\ listener'[w] = "listen" /\ ToSet(<<>>) = {}
        /\ since'[w] = Len(accepted) /\ Len(accepted) \in Nat
    BY <1>1, <1>3 DEF TypeOK, ToSet
  <2>2. Reached(w)' \subseteq Reached(w)
    BY <1>1, <1>2, <2>1 DEF Reached
  <2>3. w \notin missed => Reached(w) = {}
    BY <1>1, <1>3 DEF NoGap
  <2>4. since'[w] + 1 .. Len(accepted) = {}
    BY <2>1
  <2>5. {accepted[i] : i \in since'[w] + 1 .. Len(accepted)} = {}
    BY <2>4
  <2> QED BY <1>1, <1>3, <2>1, <2>2, <2>3, <2>5 DEF NoGap
<1>4. CASE w # v
  <2>1. inbox'[w] = inbox[w] /\ listener'[w] = listener[w] /\ since'[w] = since[w]
    BY <1>1, <1>4 DEF TypeOK
  <2>2. Reached(w)' = Reached(w)
    BY <1>1, <1>2, <2>1 DEF Reached
  <2> QED BY <1>1, <1>4, <2>1, <2>2 DEF NoGap
<1> QED BY <1>3, <1>4

\* A break costs only the workers it cuts off.
LEMMA BreakLeavesNoGap ==
    ASSUME TypeOK, NEW w \in Workers, NoGap(w), NEW cut \in SUBSET Workers, Break(cut)
    PROVE  NoGap(w)'
<1>1. /\ subscribed' = subscribed \ cut /\ missed' = missed \cup cut
      /\ UNCHANGED <<accepted, since, listening, delivered>>
  BY DEF Break
<1>2. ASSUME w \notin cut
      PROVE  ToSet(inbox'[w]) = ToSet(inbox[w])
  <2>1. PICK kept \in [Workers -> 0 .. Len(accepted)] :
          /\ \A x \in Workers \ cut : kept[x] = Len(inbox[x])
          /\ inbox' = [x \in Workers |-> SubSeq(inbox[x], 1, kept[x])]
    BY DEF Break
  <2>2. inbox[w] \in Seq(Events) /\ inbox'[w] = SubSeq(inbox[w], 1, Len(inbox[w]))
    BY <1>2, <2>1 DEF TypeOK
  <2>3. /\ DOMAIN inbox'[w] = DOMAIN inbox[w]
        /\ \A k \in DOMAIN inbox[w] : inbox'[w][k] = inbox[w][k]
    BY <2>2
  <2> QED BY <2>3 DEF ToSet
<1>3. w \notin cut => Reached(w)' = Reached(w)
  BY <1>1, <1>2 DEF Reached, Handed, FromChannel, listening
<1> QED BY <1>1, <1>3 DEF NoGap, listening

LEMMA NoGapStep ==
    ASSUME IInv, NEW w \in Workers, NoGap(w), [Next]_vars
    PROVE  NoGap(w)'
<1> TypeOK
  BY DEF IInv
<1>1. CASE /\ UNCHANGED <<accepted, subscribed, since, inbox, hearing, delivered, missed>>
           /\ listener'[w] = listener[w] \/ w \notin subscribed \/ w \in missed
  <2>1. Reached(w)' = Reached(w)
    BY <1>1 DEF Reached, Handed, FromChannel
  <2> QED BY <1>1, <2>1 DEF NoGap
<1>2. ASSUME NEW e \in Events, Publish(e) \/ Publishing(e)
      PROVE  NoGap(w)'
  <2>1. CASE PublishOk(e) \/ PublishUnanswered(e)
    BY <2>1, AcceptLeavesNoGap DEF PublishOk, PublishUnanswered
  <2>2. CASE DeliverLocally(e)
    <3>1. Hand(Origin[e], e, "local") /\ Origin[e] \in Workers
      BY <2>2, PubSubAssumption DEF DeliverLocally
    <3>2. Handed(w)' = Handed(w)
      BY <3>1, HandedGrows
    <3>3. UNCHANGED <<accepted, subscribed, since, inbox, hearing, listener, missed>>
      BY <2>2 DEF DeliverLocally, redis, listening
    <3>4. Reached(w)' = Reached(w)
      BY <3>2, <3>3 DEF Reached
    <3> QED BY <3>3, <3>4, NoGapKept
  <2>3. CASE \/ Publish(e) \/ PingOk(e) \/ PingFails(e) \/ Closed(e)
             \/ RepingOk(e) \/ RepingFails(e) \/ PublishFails(e)
    BY <1>1, <2>3 DEF Publish, PingOk, PingFails, Closed, RepingOk, RepingFails, PublishFails,
                      redis, listening
  <2> QED BY <1>2, <2>1, <2>2, <2>3 DEF Publishing
<1>3. ASSUME NEW v \in Workers, Listening(v)
      PROVE  NoGap(w)'
  <2>1. CASE Subscribe(v) \/ Hear(v) \/ Handle(v)
    BY <2>1, SubscribeLeavesNoGap, HearLeavesNoGap, HandleLeavesNoGap
  <2>2. CASE SubscribeFails(v) \/ ListenFails(v) \/ Reconnect(v)
    <3>1. UNCHANGED <<accepted, subscribed, since, inbox, hearing, delivered, missed>>
      BY <2>2 DEF SubscribeFails, ListenFails, Reconnect, redis
    <3>2. listener'[w] = listener[w] \/ w \notin subscribed \/ w \in missed
      BY <2>2 DEF SubscribeFails, ListenFails, Reconnect, TypeOK, NoGap
    <3> QED BY <1>1, <3>1, <3>2
  <2> QED BY <1>3, <2>1, <2>2 DEF Listening
<1>4. CASE Stirs
  BY <1>1, <1>4 DEF Stirs, RedisUp, Report, listening
<1>5. ASSUME NEW cut \in SUBSET Workers, Break(cut)
      PROVE  NoGap(w)'
  BY <1>5, BreakLeavesNoGap
<1>6. CASE RedisDown \/ \E v \in Workers : CutSubscription(v)
  <2>1. \E cut \in SUBSET Workers : Break(cut)
    BY <1>6 DEF RedisDown, CutSubscription, TypeOK
  <2> QED BY <1>5, <2>1
<1>7. CASE UNCHANGED vars
  BY <1>1, <1>7 DEF vars, redis
<1> QED BY <1>2, <1>3, <1>4, <1>6, <1>7 DEF Next, Stirs

\* Both invariants together, which is what the refinement needs.
GInv == IInv /\ \A w \in Workers : NoGap(w)

THEOREM Gapless == Spec => []GInv
<1>1. Init => GInv
  <2> SUFFICES ASSUME Init
               PROVE  GInv
    OBVIOUS
  <2>1. \A w \in Workers : NoGap(w)
    <3>1. \A w \in Workers : Reached(w) = {} /\ w \notin subscribed
      BY DEF Init, Reached, Handed, ToSet
    <3> QED BY <3>1 DEF NoGap
  <2> QED BY <2>1, InitHolds DEF GInv
<1>2. GInv /\ [Next]_vars => GInv'
  <2> SUFFICES ASSUME GInv, [Next]_vars
               PROVE  GInv'
    OBVIOUS
  <2>1. IInv'
    BY NextHolds DEF GInv
  <2>2. \A w \in Workers : NoGap(w)'
    BY NoGapStep DEF GInv
  <2> QED BY <2>1, <2>2 DEF GInv
<1> QED BY <1>1, <1>2, PTL DEF Spec

-------------------------------------------------------------------------------
(* The pub/sub implements EventChannel. *)

\* The state of each publish, as Promise maps it.
Fate == [e \in Events |-> IF Ended(e) THEN pc[e] ELSE "open"]

Joined == subscribed \cup missed
Mapped == <<accepted, delivered, Fate, lost, Joined, since, missed>>

LEMMA PromiseInit == Init => Promise!Init
<1> SUFFICES ASSUME Init
             PROVE  Promise!Init
  OBVIOUS
<1>1. subscribed \cup missed = {}
  BY DEF Init
<1> QED BY <1>1 DEF Init, Promise!Init, Ended

\* A publish that moves on leaves the fate of the others alone.
LEMMA FateOf ==
    ASSUME TypeOK, NEW e \in Events, NEW label \in Labels, Goto(e, label)
    PROVE  Fate' = [Fate EXCEPT ![e] = IF label \in {"done", "raised"} THEN label ELSE "open"]
<1>1. pc'[e] = label /\ \A f \in Events \ {e} : pc'[f] = pc[f]
  BY GotoTyped
<1> QED BY <1>1 DEF Fate, Ended

LEMMA AcceptIsEnter ==
    ASSUME IInv, NEW e \in Events, PublishOk(e) \/ PublishUnanswered(e)
    PROVE  Promise!Next
<1> TypeOK /\ AcceptedOnce
  BY DEF IInv
<1>1. /\ pc[e] = "publish" /\ accepted' = Append(accepted, e)
      /\ UNCHANGED <<delivered, Joined, since, missed>>
      /\ \/ Goto(e, "done") /\ lost' = lost
         \/ Goto(e, "local") /\ lost' = lost \cup {e}
  BY DEF PublishOk, PublishUnanswered, Accept, Joined
<1>2. Fate[e] = "open" /\ e \notin ToSet(accepted)
  BY <1>1 DEF Fate, Ended, AcceptedOnce
<1>3. \/ Fate' = [Fate EXCEPT ![e] = "done"] /\ lost' = lost
      \/ Fate' = Fate /\ lost' = lost \cup {e}
  <2>1. CASE Goto(e, "done") /\ lost' = lost
    BY <2>1, FateOf DEF Labels
  <2>2. CASE Goto(e, "local") /\ lost' = lost \cup {e}
    <3>1. Fate' = [Fate EXCEPT ![e] = "open"]
      BY <2>2, FateOf DEF Labels
    <3> QED BY <1>2, <2>2, <3>1 DEF Fate
  <2> QED BY <1>1, <2>1, <2>2
<1>4. Promise!Enter(e)
  BY <1>1, <1>2, <1>3 DEF Promise!Enter, Promise!ToSet, Promise!reading, ToSet, Fate, Joined
<1> QED BY <1>4 DEF Promise!Next

LEMMA DeliverLocallyIsFallBack ==
    ASSUME IInv, NEW e \in Events, DeliverLocally(e)
    PROVE  Promise!Next
<1> TypeOK /\ AcceptedOnce
  BY DEF IInv
<1>1. /\ pc[e] = "local" /\ Goto(e, "done") /\ Hand(Origin[e], e, "local")
      /\ UNCHANGED <<accepted, lost, Joined, since, missed>>
  BY DEF DeliverLocally, redis, Joined
<1>2. Fate[e] = "open" /\ (e \in ToSet(accepted) => e \in lost)
  BY <1>1 DEF Fate, Ended, AcceptedOnce
<1>3. Fate' = [Fate EXCEPT ![e] = "done"]
  BY <1>1, FateOf DEF Labels
<1>4. Promise!FallBack(e)
  BY <1>1, <1>2, <1>3 DEF Promise!FallBack, Promise!Hand, Promise!ToSet, Promise!reading,
                               Hand, ToSet, Fate, Joined
<1> QED BY <1>4 DEF Promise!Next

LEMMA PingFailsIsRaise ==
    ASSUME IInv, NEW e \in Events, PingFails(e)
    PROVE  Promise!Next \/ UNCHANGED Mapped
<1> TypeOK /\ AcceptedOnce
  BY DEF IInv
<1>1. /\ pc[e] = "ping" /\ UNCHANGED <<accepted, delivered, lost, Joined, since, missed>>
      /\ Goto(e, "close") \/ Goto(e, "raised")
  BY DEF PingFails, redis, Joined
<1>2. Fate[e] = "open" /\ e \notin ToSet(accepted)
  BY <1>1 DEF Fate, Ended, AcceptedOnce
<1>3. CASE Goto(e, "close")
  <2>1. Fate' = [Fate EXCEPT ![e] = "open"]
    BY <1>3, FateOf DEF Labels
  <2>2. Fate' = Fate
    BY <1>2, <2>1 DEF Fate
  <2> QED BY <1>1, <2>2 DEF Mapped
<1>4. CASE Goto(e, "raised")
  <2>1. Fate' = [Fate EXCEPT ![e] = "raised"]
    BY <1>4, FateOf DEF Labels
  <2>2. Promise!Raise(e)
    BY <1>1, <1>2, <2>1 DEF Promise!Raise, Promise!ToSet, Promise!reading, ToSet, Fate, Joined
  <2> QED BY <2>2 DEF Promise!Next
<1> QED BY <1>1, <1>3, <1>4

\* Two events of the channel stand in it as Before says.
LEMMA PlacesInOrder ==
    ASSUME TypeOK, AcceptedOnce, NEW j \in DOMAIN accepted, NEW k \in DOMAIN accepted,
           Ahead(accepted[j], accepted[k])
    PROVE  j < k
<1>1. PICK i, l \in DOMAIN accepted : i < l /\ accepted[i] = accepted[j] /\ accepted[l] = accepted[k]
  BY DEF Ahead, Before
<1>2. i = j /\ l = k
  BY <1>1 DEF AcceptedOnce
<1> QED BY <1>1, <1>2

\* What a worker hears that has never lost its subscription was taken after it
\* subscribed.
LEMMA HeardSinceJoined ==
    ASSUME TypeOK, AcceptedOnce, NEW w \in Workers, NoGap(w), w \notin missed,
           NEW k \in DOMAIN accepted, accepted[k] \in Reached(w)
    PROVE  w \in subscribed /\ k > since[w]
<1>1. /\ w \in subscribed
      /\ Reached(w) = {accepted[i] : i \in since[w] + 1 .. Len(accepted)}
  BY DEF NoGap
<1>2. PICK i \in since[w] + 1 .. Len(accepted) : accepted[i] = accepted[k]
  BY <1>1
<1>3. since[w] \in Nat /\ Len(accepted) \in Nat /\ DOMAIN accepted = 1 .. Len(accepted)
  BY DEF TypeOK
<1>4. i \in DOMAIN accepted /\ i > since[w]
  BY <1>2, <1>3
<1>5. i = k
  BY <1>2, <1>4 DEF AcceptedOnce
<1> QED BY <1>1, <1>4, <1>5

\* What a listener hands over comes after all it has handed over, and next to
\* them unless it has lost a subscription.
LEMMA HandleIsDeliver ==
    ASSUME GInv, NEW w \in Workers, Handle(w)
    PROVE  Promise!Next
<1> TypeOK /\ AcceptedOnce /\ HeardIsAccepted(w) /\ Ordered(w) /\ NoGap(w)
  BY DEF GInv, IInv
<1>1. PICK e \in hearing[w] : Hand(w, e, "channel")
  BY DEF Handle
<1>2. UNCHANGED <<accepted, pc, lost, Joined, since, missed>>
  BY DEF Handle, redis, Joined
<1>3. PICK k \in DOMAIN accepted : accepted[k] = e
  BY <1>1 DEF HeardIsAccepted, ToSet
<1>4. \A x \in Handed(w) : Ahead(x, e)
  BY <1>1 DEF Ordered, Handed
<1>5. \A j \in DOMAIN accepted : accepted[j] \in Handed(w) => j < k
  BY <1>3, <1>4, PlacesInOrder
<1>6. accepted[k] \in Reached(w)
  BY <1>1, <1>3 DEF Reached
<1>7. w \in Joined /\ (w \notin missed => w \in subscribed /\ k > since[w])
  BY <1>6, HeardSinceJoined DEF Joined
<1>8. ASSUME w \notin missed, NEW j \in since[w] + 1 .. k - 1
      PROVE  accepted[j] \in Handed(w)
  <2>1. /\ since[w] \in Nat /\ Len(accepted) \in Nat /\ k \in 1 .. Len(accepted)
        /\ DOMAIN accepted = 1 .. Len(accepted)
    BY DEF TypeOK
  <2>2. j \in since[w] + 1 .. Len(accepted) /\ j \in DOMAIN accepted /\ j < k /\ ~ (k < j)
    BY <2>1
  <2>3. accepted[j] \in Reached(w)
    BY <1>7, <1>8, <2>2 DEF NoGap
  <2>4. accepted[j] \notin hearing[w]
    BY <1>1, <1>3, <2>1, <2>2 DEF HeardIsAccepted, AcceptedOnce
  <2>5. accepted[j] \notin ToSet(inbox[w])
    <3>1. \A x \in ToSet(inbox[w]) : Ahead(e, x)
      BY <1>1 DEF Ordered, ToSet
    <3> QED BY <1>3, <2>2, <3>1, PlacesInOrder
  <2> QED BY <2>3, <2>4, <2>5 DEF Reached
<1>9. Promise!Read(w) = Handed(w)
  BY DEF Promise!Read, Handed, FromChannel
<1>10. Promise!Hand(w, accepted[k], "channel")
  BY <1>1, <1>3 DEF Promise!Hand, Hand
<1>11. Fate' = Fate
  BY <1>2 DEF Fate, Ended
<1>12. Promise!Deliver(w)
  BY <1>2, <1>5, <1>7, <1>8, <1>9, <1>10, <1>11
     DEF Promise!Deliver, Promise!reading, Fate, Joined
<1> QED BY <1>12 DEF Promise!Next

\* Only a worker that has lost its subscription subscribes a second time.
LEMMA SubscribeIsJoin ==
    ASSUME NEW w \in Workers, NoGap(w), Subscribe(w)
    PROVE  Promise!Next
<1>1. /\ listener[w] = "subscribe" /\ subscribed' = subscribed \cup {w}
      /\ since' = [since EXCEPT ![w] = Len(accepted)]
      /\ UNCHANGED <<accepted, delivered, pc, lost, missed>>
  BY DEF Subscribe
<1>2. w \in Joined => w \in missed
  BY <1>1 DEF NoGap, Joined
<1>3. Joined' = Joined \cup {w}
  BY <1>1 DEF Joined
<1>4. Fate' = Fate
  BY <1>1 DEF Fate, Ended
<1>5. Promise!Join(w)
  BY <1>1, <1>2, <1>3, <1>4 DEF Promise!Join, Fate, Joined
<1> QED BY <1>5 DEF Promise!Next

LEMMA BreakIsBreak ==
    ASSUME TypeOK, NEW cut \in SUBSET subscribed, Break(cut)
    PROVE  Promise!Next
<1>1. /\ subscribed' = subscribed \ cut /\ missed' = missed \cup cut
      /\ UNCHANGED <<accepted, delivered, pc, lost, since>>
  BY DEF Break
<1>2. cut \subseteq Joined /\ Joined' = Joined
  BY <1>1 DEF Joined
<1>3. Fate' = Fate
  BY <1>1 DEF Fate, Ended
<1>4. Promise!Break(cut)
  BY <1>1, <1>2, <1>3 DEF Promise!Break, Fate, Joined
<1>5. cut \in SUBSET Workers
  BY DEF TypeOK
<1> QED BY <1>4, <1>5 DEF Promise!Next

LEMMA PromiseStep == GInv /\ [Next]_vars => [Promise!Next]_(Promise!vars)
<1> SUFFICES ASSUME GInv, [Next]_vars
             PROVE  Promise!Next \/ UNCHANGED Mapped
  BY DEF Promise!vars, Promise!reading, Mapped, Joined, Fate
<1> TypeOK /\ IInv
  BY DEF GInv, IInv
<1>1. ASSUME NEW e \in Events, Publish(e) \/ Publishing(e)
      PROVE  Promise!Next \/ UNCHANGED Mapped
  <2>1. CASE PublishOk(e) \/ PublishUnanswered(e)
    BY <2>1, AcceptIsEnter
  <2>2. CASE DeliverLocally(e)
    BY <2>2, DeliverLocallyIsFallBack
  <2>3. CASE PingFails(e)
    BY <2>3, PingFailsIsRaise
  <2>4. CASE \/ Publish(e) \/ PingOk(e) \/ Closed(e) \/ RepingOk(e)
             \/ RepingFails(e) \/ PublishFails(e)
    <3>1. UNCHANGED <<accepted, delivered, lost, Joined, since, missed>>
      BY <2>4 DEF Publish, PingOk, Closed, RepingOk, RepingFails, PublishFails, redis, Joined
    <3>2. ~Ended(e) /\ \E label \in Labels \ {"done", "raised"} : Goto(e, label)
      BY <2>4 DEF Publish, PingOk, Closed, RepingOk, RepingFails, PublishFails, Labels, Ended
    <3>3. Fate[e] = "open" /\ Fate' = [Fate EXCEPT ![e] = "open"]
      BY <3>2, FateOf DEF Fate
    <3>4. Fate' = Fate
      BY <3>3 DEF Fate
    <3> QED BY <3>1, <3>4 DEF Mapped
  <2> QED BY <1>1, <2>1, <2>2, <2>3, <2>4 DEF Publishing
<1>2. CASE UNCHANGED <<accepted, delivered, pc, lost, subscribed, since, missed>>
  BY <1>2 DEF Mapped, Fate, Ended, Joined
<1>3. ASSUME NEW w \in Workers, Listening(w)
      PROVE  Promise!Next \/ UNCHANGED Mapped
  <2>1. CASE Handle(w)
    BY <2>1, HandleIsDeliver
  <2>2. CASE Subscribe(w)
    BY <2>2, SubscribeIsJoin DEF GInv
  <2>3. CASE SubscribeFails(w) \/ Hear(w) \/ ListenFails(w) \/ Reconnect(w)
    BY <1>2, <2>3 DEF SubscribeFails, Hear, ListenFails, Reconnect, redis
  <2> QED BY <1>3, <2>1, <2>2, <2>3 DEF Listening
<1>4. CASE Stirs \/ UNCHANGED vars
  BY <1>2, <1>4 DEF Stirs, RedisUp, Report, vars, redis
<1>5. CASE RedisDown \/ \E w \in Workers : CutSubscription(w)
  <2>1. \E cut \in SUBSET subscribed : Break(cut)
    BY <1>5 DEF RedisDown, CutSubscription
  <2> QED BY <2>1, BreakIsBreak
<1> QED BY <1>1, <1>3, <1>4, <1>5 DEF Next, Stirs

\* Any run of publishers and listeners over a Redis that breaks is a run of
\* the abstract channel: a worker whose subscription holds hands over every
\* event that Redis took since it subscribed, in the order of the channel.
THEOREM Implementation == Spec => ImplementsEventChannel
<1>1. Spec => Promise!Init /\ [][Promise!Next]_(Promise!vars)
  BY PromiseInit, PromiseStep, Gapless, PTL DEF Spec
<1> QED BY <1>1 DEF ImplementsEventChannel, Promise!Spec
===============================================================================
