------------------------- MODULE MCConnectionManager -------------------------
(* Small instances of ConnectionManager. *)
EXTENDS ConnectionManager, TLC

\* Ann opens a1, a2, ..., bob opens b1.
MCOwner == [ws \in Sockets |-> IF ws = "b1" THEN "bob" ELSE "ann"]

\* Every event is for all users.
MCTo == [e \in Events |-> Users]

\* Sockets of one user differ in name only (model values, safety runs only).
MCSymmetry == Permutations(Sockets)
===============================================================================
