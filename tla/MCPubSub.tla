------------------------------- MODULE MCPubSub -------------------------------
(* Small instances of PubSub: worker w1 publishes every event but e3. *)
EXTENDS PubSub, TLC

MCOrigin == [e \in Events |-> IF e = "e3" THEN "w2" ELSE "w1"]
===============================================================================
