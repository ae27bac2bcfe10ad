------------------------------ MODULE MCMessages ------------------------------
(* Small instances of Messages: a direct dialog d1 of ann and bob, another   *)
(* one, d2, of ann and eve, and an id, d0, that names no dialog.             *)
EXTENDS Messages, TLC

MCSendSymmetry == Permutations(Sends)

MCParticipants == [d \in {"d1", "d2"} |-> IF d = "d1" THEN {"ann", "bob"} ELSE {"ann", "eve"}]

MCSend(u, w, d, c) == [user |-> u, worker |-> w, dialog |-> d, client_message_id |-> c]
MCRead(u, w, m)    == [user |-> u, worker |-> w, message |-> m]

MCNoCalls == {}

\* Sends that meet every outcome of the lookup: ann repeating herself on
\* either worker or with a new client id, bob in the same dialog and ann in
\* another one taking her client id, bob in a dialog of others, a missing
\* dialog.
MCSendCalls ==
    {MCSend(u, "w1", d, "c1") : u \in {"ann", "bob"}, d \in {"d1", "d2"}}
    \cup {MCSend("ann", "w2", "d1", c) : c \in {"c1", "c2"}}
    \cup {MCSend("ann", "w1", "d0", "c1")}

\* ann writes to bob: with two sends, the same message twice.
MCAnnToBob == {MCSend("ann", "w1", "d1", "c1")}

\* bob, or eve, who is not in the dialog, reads message s1.
MCReads == {MCRead(u, "w1", "s1") : u \in {"bob", "eve"}}
===============================================================================
