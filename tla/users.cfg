SPECIFICATION Spec
CONSTANTS
    Signups = {"s1", "s2"}
    SignIns = {"l1"}
    Lookups = {"q1"}
    Data = {"a@", "b@", "+1", "ann's", "bob's"}
    LoginNames = {"joe"}
    None = None
    SignupCalls <- MCSignupCalls
    SignInCalls <- MCSignInCalls
    Attempts = 2
    MaxFaults = 1
INVARIANTS TypeOK OneAccountPerContact SignupAnswerIsTrue LookupAnswerIsTrue
CHECK_DEADLOCK FALSE
