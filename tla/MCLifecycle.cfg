SPECIFICATION FairSpec
CONSTANTS
  p1 = p1
  p2 = p2
  Procs = {p1, p2}
  Envs <- AllEnvs
INVARIANTS
  TypeOK
  ServesOnlyConfigured
  FailedStartIsSilent
  OrderlyShutdown
PROPERTY
  SignalEndsProcess
