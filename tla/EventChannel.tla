----------------------------- MODULE EventChannel -----------------------------
(***************************************************************************)
(* What the pub/sub of the workers promises about events, without Redis,   *)
(* connections or tasks.  There is one log.  A worker reads it forward,    *)
(* each event at most once, and from where it joined on it skips none      *)
(* unless its subscription has broken.  An event ends in the log, or is    *)
(* handed over once by the worker that published it, or its publish        *)
(* raises; both of the first happen only when the answer to the publish    *)
(* was lost.                                                               *)
(***************************************************************************)
EXTENDS Naturals, Sequences, SequencesExt

CONSTANTS Workers, Events, Origin

VARIABLES
    log,    \* the events of the channel, in order
    got,    \* got[w]: [event, via] handed to the sockets of worker w
    fate,   \* of each publish: "open", "done" or "raised"
    doubt,  \* the events whose publish cannot tell that they are in the log
    joined, \* the workers that have joined
    start,  \* start[w]: the length of the log when worker w last joined
    broken  \* the workers whose subscription has broken at some time

reading == <<joined, start, broken>>
vars    == <<log, got, fate, doubt, reading>>

Init ==
    /\ log = <<>>
    /\ got = [w \in Workers |-> <<>>]
    /\ fate = [e \in Events |-> "open"]
    /\ doubt = {}
    /\ joined = {}
    /\ start = [w \in Workers |-> 0]
    /\ broken = {}

\* What worker w has read from the log.
Read(w) == {got[w][i].event : i \in {j \in DOMAIN got[w] : got[w][j].via = "channel"}}

Hand(w, e, how) == got' = [got EXCEPT ![w] = Append(@, [event |-> e, via |-> how])]

Enter(e) ==
    /\ fate[e] = "open" /\ e \notin ToSet(log)
    /\ log' = Append(log, e)
    /\ \/ fate' = [fate EXCEPT ![e] = "done"] /\ UNCHANGED doubt
       \/ doubt' = doubt \cup {e} /\ UNCHANGED fate
    /\ UNCHANGED <<got, reading>>

\* Who has lost his place joins again where the log ends.
Join(w) ==
    /\ w \in joined => w \in broken
    /\ joined' = joined \cup {w}
    /\ start' = [start EXCEPT ![w] = Len(log)]
    /\ UNCHANGED <<log, got, fate, doubt, broken>>

Deliver(w) ==
    /\ w \in joined
    /\ \E k \in DOMAIN log :
          /\ \A j \in DOMAIN log : log[j] \in Read(w) => j < k
          /\ w \notin broken =>
                k > start[w] /\ \A j \in start[w] + 1 .. k - 1 : log[j] \in Read(w)
          /\ Hand(w, log[k], "channel")
    /\ UNCHANGED <<log, fate, doubt, reading>>

FallBack(e) ==
    /\ fate[e] = "open" /\ (e \in ToSet(log) => e \in doubt)
    /\ fate' = [fate EXCEPT ![e] = "done"]
    /\ Hand(Origin[e], e, "local")
    /\ UNCHANGED <<log, doubt, reading>>

Raise(e) ==
    /\ fate[e] = "open" /\ e \notin ToSet(log)
    /\ fate' = [fate EXCEPT ![e] = "raised"]
    /\ UNCHANGED <<log, got, doubt, reading>>

Break(some) ==
    /\ some \subseteq joined
    /\ broken' = broken \cup some
    /\ UNCHANGED <<log, got, fate, doubt, joined, start>>

Next ==
    \/ \E e \in Events : Enter(e) \/ FallBack(e) \/ Raise(e)
    \/ \E w \in Workers : Join(w) \/ Deliver(w)
    \/ \E some \in SUBSET Workers : Break(some)

Spec == Init /\ [][Next]_vars
===============================================================================
