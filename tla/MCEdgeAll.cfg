SPECIFICATION FairSpec
CONSTANTS
  p1 = p1
  p2 = p2
  none = none
  ip1 = ip1
  noip = noip
  o1 = o1
  noorg = noorg
  a = a
  label = label
  blank = blank
  A1 = A1
  A2 = A2
  Label = Label
  Spaces = Spaces
  empty = empty
  Procs = {p1}
  Pipeline <- RouteTable
  Requests <- AllRequests
  Spellings = {A1, A2, Label, Spaces, empty}
  Names = {a, label, blank}
  Normalize <- MCNormalize
  Addresses = {a}
  Empty = empty
  Blank = blank
  NoIP = noip
  NoOrg = noorg
  None = none
  Limit <- Tight
  MaxRequests = 2
  MaxRefills = 0
CHECK_DEADLOCK FALSE
INVARIANTS
  TypeOK
  ServedOnlyIfAdmitted
  RefusalIsFinal
  SuccessShowsLastBudget
  DetailOnlyOnClientErrors
  MalformedSpendsNoOthersBudget
PROPERTY
  AnsweredOrUpstream
