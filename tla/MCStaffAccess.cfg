SPECIFICATION FairSpec
CONSTANTS
  Procs = {1, 2}
  Requests <- AllRequests
  Configs <- AllConfigs
  Empty = ""
  MaxRequests = 2
INVARIANTS
  TypeOK
  OnlyEntitledHandled
  SameIdentityInEveryNesting
  KnownCallerIsForbidden
  AuditComplete
  AuditTruthful
  BreakGlassRecorded
PROPERTY
  HandledIsRecorded
