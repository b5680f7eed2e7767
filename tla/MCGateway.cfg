SPECIFICATION GSpec
CONSTANTS
  p1 = p1
  p2 = p2
  q1 = q1
  alice = alice
  blank = blank
  absent = absent
  c1 = c1
  Alice = Alice
  ALICE = ALICE
  Spaces = Spaces
  C1 = C1
  Procs = {p1, p2}
  OTPProcs = {q1}
  Spellings = {Alice, ALICE, Spaces}
  Names = {alice, blank}
  Addresses = {alice}
  Normalize <- MCNormalize
  CodeSpellings = {C1}
  Codes = {c1}
  Trim <- MCTrim
  Blank = blank
  NoChallenge = absent
  TTL = 1
  MaxTime = 1
  MaxChallenges = 2
  Limit = 1
  MaxRefills = 1
  MaxOTPs = 2
  MaxRestarts = 1
INVARIANTS
  GTypeOK
  CodesWithinBudget
