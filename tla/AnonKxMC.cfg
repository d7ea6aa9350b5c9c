CONSTANTS
  NULL = NULL
  Exps = {2, 3, 4}
  DHParams <- OneGroup
  DEFAULT_BITS = 1024
  CredValues = {NULL, 768}
  InitialCred = 768
  AllocFailures = TRUE
  Truncation = TRUE
  InitialAuth = {"NONE", "ANON", "CERTIFICATE"}
  MaxHandshakes = 2
SPECIFICATION Spec
CHECK_DEADLOCK FALSE
INVARIANT TypeOK
INVARIANT KeyAgreement
INVARIANT DoneHoldsNoEphemera
INVARIANT NegotiatedBitsAgree
PROPERTY KeyExchangeRefinement
