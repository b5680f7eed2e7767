SPECIFICATION Spec
CONSTANTS
  Profiles = {"zshrc", "profile"}
  Releases = {"v1", "v2"}
  MaxRuns = 2
CHECK_DEADLOCK FALSE
INVARIANTS
  TypeOK
  SuccessIsComplete
  NothingBeforeDownload
