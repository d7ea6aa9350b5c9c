CONSTANTS
  NULL = NULL
  Exps = {2, 3}
  DHParams <- OneGroup
  DEFAULT_BITS = 1024
  CredValues = {768}
  InitialCred = 768
  AllocFailures = FALSE
  Truncation = FALSE
  InitialAuth = {"NONE"}
  MaxHandshakes = 2
SPECIFICATION Spec
CHECK_DEADLOCK FALSE
INVARIANT SecretsReleased
