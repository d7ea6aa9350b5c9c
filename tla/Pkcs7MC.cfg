\* Two certificates of 2 and 3 bytes, up to three entries, indexes -1..2,
\* buffers of 0 and 2 bytes; allocations may fail.
CONSTANTS
  NULL = NULL
  c1 = c1
  c2 = c2
  Certs <- MCCerts
  DerLen <- MCDerLen
  DerRank <- MCDerRank
  Docs <- MCDocs
  Indexes <- MCIndexes
  BufSizes = {0, 2}
  MaxCerts = 3
  AllocFailures = TRUE
SPECIFICATION Spec
INVARIANT TypeOK
PROPERTY CertSetRefinement
PROPERTY ShortBufferRetry
