SPECIFICATION FairSpec
CONSTANTS
  p1 = p1
  p2 = p2
  alice = alice
  label = label
  blank = blank
  absent = absent
  c1 = c1
  c2 = c2
  Alice = Alice
  ALICE = ALICE
  Label = Label
  Spaces = Spaces
  C1 = C1
  PaddedC1 = PaddedC1
  C2 = C2
  NoCode = NoCode
  Procs = {p1, p2}
  Spellings = {Alice, ALICE, Label, Spaces}
  Names = {alice, label, blank}
  Addresses = {alice}
  Normalize <- MCNormalize
  CodeSpellings = {C1, PaddedC1, C2, NoCode}
  Codes = {c1, c2}
  Trim <- MCTrim
  Blank = blank
  NoChallenge = absent
  TTL = 1
  MaxTime = 2
  MaxChallenges = 2
INVARIANTS
  TypeOK
  OneProofPerChallenge
  ProofWithinTTL
PROPERTIES
  ImplementsOneTimeCode
  RightCodeSettles
