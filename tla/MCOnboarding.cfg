SPECIFICATION Spec
CONSTANTS
  p1 = p1
  p2 = p2
  none = none
  Procs = {p1, p2}
  Inputs <- HeaderInputs
  TrimSpace <- MCTrimSpace
  NormalizeUID <- MCNormalizeUID
  None = none
  MaxClaims = 4
INVARIANTS
  TypeOK
  AnswersAreWhole
  RetryIsReplay
  SettledKeyStays
