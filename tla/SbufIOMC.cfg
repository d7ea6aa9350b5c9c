\* One sbuf with GNUTLS_SBUF_WRITE_FLUSHES, 2-byte records, writes of 1 to
\* 3 bytes up to 6 bytes in all, reads of 1 or 2 bytes, a peer sending 2.
CONSTANTS
  MaxRecord = 2
  WriteSizes = {1, 3}
  MaxWritten = 6
  Flushes = TRUE
  ReadSizes = {1, 2}
  MaxPeer = 2
SPECIFICATION Spec
CHECK_DEADLOCK FALSE
INVARIANT TypeOK
INVARIANT FlushesBoundBuffer
INVARIANT FlushReportsSent
PROPERTY StreamRefinement
