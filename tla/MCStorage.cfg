SPECIFICATION FairSpec
CONSTANTS
  alice = alice
  bob = bob
  pass = pass
  word = word
  Conns = {c1, c2}
  Users = {alice, bob}
  UserSetIDs = {u1, u2}
  Passwords = {pass, word}
  Stored <- MCStored
  Plans <- MCPlans
  MaxMembers = 2
  None = None
  MaxFaults = 1
INVARIANTS ShardIDsDiffer AnsweredSetsComplete
PROPERTIES ImplementsAbstractStorage RequestsAnswered
CHECK_DEADLOCK FALSE
