----------------------------- MODULE MCAuthUsers -----------------------------
(* Small instances of AuthUsers: signups and logins of two people, ann with   *)
(* an e-mail and bob with a phone number, who both want the login "joe".      *)
EXTENDS AuthUsers

MCContact(e, p) == [k \in Contacts |-> IF k = "email" THEN e ELSE p]

MCSignup(e, p, pass) == [contact |-> MCContact(e, p), login |-> "joe", password |-> pass]
MCSignIn(e, p, pass) == [contact |-> MCContact(e, p), password |-> pass]

MCSignupCalls ==
    {MCSignup("a@", None, "ann's"), MCSignup(None, "+1", "bob's"),
     MCSignup("a@", "+1", "ann's"), MCSignup("b@", "+1", "bob's")}

MCSignInCalls ==
    {MCSignIn("a@", None, "ann's"), MCSignIn(None, "+1", "ann's"), MCSignIn("a@", "+1", "bob's")}
===============================================================================
