SPECIFICATION Spec
CONSTANTS
  Calls = {c1, c2, c3, c4}
  Passwords = {"old", "new"}
  Seed = "old"
  MaxFailures = 2
  Window = 1
  Ttl = 1
  MaxTime = 1
  MaxRestarts = 1
SYMMETRY AnyCall
INVARIANTS
  SignedOutStaysOut
  AnsweredIsFiled
  ThrottleKeepsItsWord
