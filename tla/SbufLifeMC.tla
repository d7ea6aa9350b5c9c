----------------------------- MODULE SbufLifeMC -----------------------------
EXTENDS SbufLife

CONSTANTS s1, s2, s3, b1, b2, x1, x2

\* Objects the library can hand out: three sessions, two sbufs, two xcreds.
MCSessions == {s1, s2, s3}
MCSbufs == {b1, b2}
MCXcreds == {x1, x2}
=============================================================================
