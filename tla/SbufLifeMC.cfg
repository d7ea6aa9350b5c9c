\* Three sessions, two sbufs, two xcreds; allocations may fail. A crash
\* ends the program, so a behaviour may stop.
CONSTANTS
  NULL = NULL
  s1 = s1
  s2 = s2
  s3 = s3
  b1 = b1
  b2 = b2
  x1 = x1
  x2 = x2
  Sessions <- MCSessions
  Sbufs <- MCSbufs
  Xcreds <- MCXcreds
  VMethods = {"SYSTEM_CAS", "TOFU"}
  AllocFailures = TRUE
  LongNames = TRUE
SPECIFICATION Spec
CHECK_DEADLOCK FALSE
INVARIANT TypeOK
INVARIANT SbufWrapsLiveSession
INVARIANT CredentialsOwnXcred
