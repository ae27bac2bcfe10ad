----------------------------- MODULE MCWebClient -----------------------------
(* A small instance of WebClient: ann, who writes to bob in d1 and to eve in  *)
(* d2, and bob after her in the same tab.  All messages are for d1.           *)
EXTENDS WebClient

MCParticipants == [d \in Dialogs |-> IF d = "d1" THEN {"ann", "bob"} ELSE {"ann"}]
MCDialogOf     == [m \in Messages |-> "d1"]

MCScope(who, what, overlapping, failing) ==
    [accounts |-> who, messages |-> what, loads |-> overlapping, faults |-> failing]

\* Small scopes, each of which lets one part of the page run free.
MCScopes ==
    {   \* sockets over three logins
        MCScope(<<"ann", "ann", "bob">>, {}, 0, 2),
        \* answers, events and a failure in one login with two dialogs
        MCScope(<<"ann">>, {"m1"}, 2, 1), MCScope(<<"ann">>, {"p1"}, 2, 1),
        \* and with one dialog and two messages
        MCScope(<<"bob">>, {"m1", "p1"}, 2, 0), MCScope(<<"bob">>, {"m1", "p1"}, 1, 1),
        \* more messages than a page holds
        MCScope(<<"bob">>, {"p1", "p2", "p3"}, 1, 0),
        \* the order of two posts
        MCScope(<<"bob">>, {"m1", "m2"}, 1, 1),
        \* what one user leaves behind for the next
        MCScope(<<"ann", "bob">>, {"m1"}, 1, 0), MCScope(<<"ann", "bob">>, {"p1"}, 2, 0)
    }
===============================================================================
