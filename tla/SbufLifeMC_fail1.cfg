\* No allocation fails and every name fits; a handshake may fail.
CONSTANTS
  NULL = NULL
  s1 = s1
  s2 = s2
  s3 = s3
  b1 = b1
  b2 = b2
  x1 = x1
  x2 = x2
  Sessions <- MCSessions
  Sbufs <- MCSbufs
  Xcreds <- MCXcreds
  VMethods = {"SYSTEM_CAS", "TOFU"}
  AllocFailures = FALSE
  LongNames = FALSE
SPECIFICATION Spec
CHECK_DEADLOCK FALSE
INVARIANT SessionOwnership
