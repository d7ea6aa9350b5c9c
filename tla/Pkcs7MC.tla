------------------------------ MODULE Pkcs7MC -------------------------------
EXTENDS Pkcs7, TLC

CONSTANTS c1, c2

MCCerts == {c1, c2}

\* indx values: -1, the two entries and one past them.
MCIndexes == -1..2

\* Certificates of 2 and 3 bytes.
MCDerLen == (c1 :> 2) @@ (c2 :> 3)

\* DER order: a certificate is a SEQUENCE (tag 0x30) and sorts before the
\* other choices (context tags from 0xA0); c1's encoding sorts before c2's.
MCDerRank ==
  [e \in [kind : {"certificate", "other"}, der : MCCerts] |->
     (IF e.kind = "certificate" THEN 0 ELSE 2) + (IF e.der = c1 THEN 1 ELSE 2)]

\* Imported structures: a SignedData with another choice before a
\* certificate (BER input need not be in DER order), a ContentInfo of another type, a SignedData whose content does
\* not decode, and input that is not DER at all.
MCDocs ==
  { [ctype |-> "SIGNED", decodes |-> TRUE,
     content |-> << [kind |-> "other", der |-> c2],
                    [kind |-> "certificate", der |-> c1] >>],
    [ctype |-> "OTHER", decodes |-> TRUE, content |-> <<>>],
    [ctype |-> "SIGNED", decodes |-> FALSE, content |-> <<>>],
    [ctype |-> "MALFORMED", decodes |-> FALSE, content |-> <<>>] }
=============================================================================
