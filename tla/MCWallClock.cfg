SPECIFICATION WSpec
CONSTANTS
  p1 = p1
  p2 = p2
  alice = alice
  blank = blank
  absent = absent
  c1 = c1
  Alice = Alice
  C1 = C1
  Procs = {p1, p2}
  Spellings = {Alice}
  Names = {alice, blank}
  Addresses = {alice}
  Normalize <- MCNormalize
  CodeSpellings = {C1}
  Codes = {c1}
  Trim <- MCTrim
  Blank = blank
  NoChallenge = absent
  TTL = 1
  MaxTime = 2
  MaxChallenges = 2
  MaxElapsed = 3
  MaxBack = 1
INVARIANT
  LateByNoMoreThanSetBack
PROPERTY
  ImplementsOneTimeCode
