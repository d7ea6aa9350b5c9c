------------------------------- MODULE Pkcs7 --------------------------------
(***************************************************************************)
(* The gnutls_pkcs7 object of src/lib/x509/pkcs7.c: gnutls_pkcs7_init,     *)
(* _deinit, _import, _get_certificate, _get_certificate_count and          *)
(* _set_certificate (with create_empty_signed_data). Each call is one step *)
(* with every early return and goto cleanup a disjunct.                    *)
(*                                                                         *)
(* The ASN.1 structure pkcs7->pkcs7 (libtasn1, outside src/) is abstracted *)
(* to what the calls read: its contentType (not set, id-signedData or      *)
(* another OID; "EMPTY" for ASN1_TYPE_EMPTY) and its content, a SignedData *)
(* that decodes or not, holding a list of CertificateChoices entries, each *)
(* certificate (with its DER) or another choice. libtasn1 is modelled by   *)
(* its contract: reading "certificates.?N" past the list gives             *)
(* ASN1_VALUE_NOT_FOUND, a failed asn1_der_decoding deletes the structure  *)
(* (it becomes ASN1_TYPE_EMPTY, on which every later call fails with       *)
(* ASN1_ELEMENT_NOT_FOUND), and any call that allocates can fail when      *)
(* AllocFailures. The DER of a certificate is a model value whose length   *)
(* is DerLen. libtasn1's DER coding of a SET OF (CertificateSet) puts the  *)
(* elements in the order of their encodings; DerRank gives that order.     *)
(***************************************************************************)
EXTENDS Integers, Sequences, TLC

CONSTANTS
  NULL,
  Certs,          \* DER certificates
  DerLen,         \* [Certs -> length of the DER in bytes]
  Docs,           \* structures an import decodes to; ctype "MALFORMED": none
  Indexes,        \* indx values the application passes
  BufSizes,       \* *certificate_size values the application passes
  DerRank,        \* [entries -> Nat]: the byte order of their DER encodings
  MaxCerts,       \* bound on the entries set_certificate builds
  AllocFailures   \* allocations (gnutls_malloc, asn1_create_element, ...) fail

ASSUME AllocFailures \in BOOLEAN /\ MaxCerts \in Nat

VARIABLES
  pk,       \* the gnutls_pkcs7 the application holds: NULL or [asn]
  leaked,   \* a gnutls_pkcs7 was allocated and never returned or freed
  last      \* the last call: [op, ret, indx, asked, size, cert, n]

vars == <<pk, leaked, last>>

\* ASN1_TYPE_EMPTY, and a ContentInfo whose contentType is not set.
EMPTY == [ctype |-> "EMPTY", decodes |-> FALSE, content |-> <<>>]
Unset == [ctype |-> "NONE", decodes |-> TRUE, content |-> <<>>]

\* A result of a call; fields a call does not set are "NONE" or 0.
Ret(op, ret) ==
  [op |-> op, ret |-> ret, indx |-> 0, asked |-> 0, size |-> 0, cert |-> "NONE",
   n |-> 0]

MayFail == IF AllocFailures THEN {TRUE, FALSE} ELSE {FALSE}

\* The structure holds a SignedData that decodes to a list.
Signed(asn) ==
  asn.ctype = "SIGNED" /\ asn.decodes

\* gnutls_pkcs7_init: calloc the structure and store it in *pkcs7, then
\* asn1_create_element of PKIX1.ContentInfo; if that fails the error is
\* returned, the structure is not freed and the caller, told the call
\* failed, does not use or free the pointer it was handed.
PkInit ==
  /\ pk = NULL
  /\ \E callocFails, createFails \in MayFail :
       \/ /\ callocFails
          /\ last' = Ret("init", "MEMORY") /\ UNCHANGED <<pk, leaked>>
       \/ /\ ~callocFails /\ createFails
          /\ leaked' = TRUE
          /\ last' = Ret("init", "ERR") /\ UNCHANGED pk
       \/ /\ ~callocFails /\ ~createFails
          /\ pk' = [asn |-> Unset]
          /\ last' = Ret("init", "OK") /\ UNCHANGED leaked

\* gnutls_pkcs7_deinit: delete the ASN.1 structure if any, free.
PkDeinit ==
  /\ pk # NULL
  /\ pk' = NULL
  /\ last' = Ret("deinit", "OK")
  /\ UNCHANGED leaked

\* Mutant: the decoding error ignored, the undecodable document kept.
ImportKeepsMalformed(doc, pem, format) ==
  /\ pk # NULL
  /\ \/ /\ format = "PEM" /\ ~pem
        /\ last' = Ret("import", "ERR") /\ UNCHANGED pk
     \/ /\ format = "PEM" => pem
        /\ IF pk.asn.ctype = "EMPTY"
           THEN last' = Ret("import", "ERR") /\ UNCHANGED pk
           ELSE pk' = [asn |-> doc] /\ last' = Ret("import", "OK")
  /\ UNCHANGED leaked

(***************************************************************************)
(* gnutls_pkcs7_import(pkcs7, data, format): a PEM input is base64-decoded *)
(* first (which fails unless the input is PEM with a "PKCS7" header), then *)
(* asn1_der_decoding into pkcs7->pkcs7. A DER-format input that is PEM     *)
(* text does not decode.                                                   *)
(***************************************************************************)
Import(doc, pem, format) ==
  /\ pk # NULL
  /\ \/ /\ format = "PEM" /\ ~pem
        /\ last' = Ret("import", "ERR") /\ UNCHANGED pk
     \/ /\ format = "PEM" => pem
        /\ IF pk.asn.ctype = "EMPTY"
           THEN last' = Ret("import", "ERR") /\ UNCHANGED pk
           ELSE IF doc.ctype = "MALFORMED" \/ (format = "DER" /\ pem)
           THEN pk' = [asn |-> EMPTY] /\ last' = Ret("import", "ERR")
           ELSE pk' = [asn |-> doc] /\ last' = Ret("import", "OK")
  /\ UNCHANGED leaked

(***************************************************************************)
(* The start shared by get_certificate and get_certificate_count: read     *)
(* "contentType" (fails on ASN1_TYPE_EMPTY or when not set), require       *)
(* id-signedData (else GNUTLS_E_REQUESTED_DATA_NOT_AVAILABLE), malloc the  *)
(* "content" buffer, asn1_create_element of PKIX1.SignedData and decode    *)
(* the content into it. The outcomes: an error, or the list of entries.    *)
(***************************************************************************)
Failed(code) == [ret |-> code, list |-> <<>>]

ContentOutcomes(asn) ==
  IF asn.ctype \in {"EMPTY", "NONE"} THEN {Failed("ERR")}
  ELSE IF asn.ctype # "SIGNED" THEN {Failed("NOT_AVAILABLE")}
  ELSE \* gnutls_malloc of the content, asn1_create_element of SignedData
       (IF AllocFailures THEN {Failed("MEMORY"), Failed("ERR")} ELSE {})
       \cup IF ~asn.decodes THEN {Failed("ERR")}
            ELSE {[ret |-> "OK", list |-> asn.content]}

\* The entry "certificates.?<indx+1>" and whether libtasn1 finds one.
InList(list, indx) == indx + 1 \in 1..Len(list)
Entry(list, indx) == list[indx + 1]

\* asn1_der_decoding_startEnd gives the entry's first and last offsets in
\* the content; the code's length is end - start + 1.
DerSpan(e) == [start |-> 1, end |-> DerLen[e.der]]
CertSize(e) == DerSpan(e).end - DerSpan(e).start + 1

GetRet(ret, indx, asked, size, cert) ==
  [op |-> "get", ret |-> ret, indx |-> indx, asked |-> asked, size |-> size,
   cert |-> cert, n |-> 0]

\* Mutant: the size asked for is stored before "end = end-start+1".
GetCertificateShortOff(indx, size, buffer) ==
  /\ pk # NULL
  /\ UNCHANGED <<pk, leaked>>
  /\ \/ size = NULL /\ last' = GetRet("INVALID", indx, 0, 0, "NONE")
     \/ size # NULL
        /\ \E o \in ContentOutcomes(pk.asn) :
           \/ o.ret # "OK" /\ last' = GetRet(o.ret, indx, size, size, "NONE")
           \/ o.ret = "OK" /\ ~InList(o.list, indx)
              /\ last' = GetRet("NOT_AVAILABLE", indx, size, size, "NONE")
           \/ o.ret = "OK" /\ InList(o.list, indx)
              /\ LET e == Entry(o.list, indx) IN
                   \/ e.kind # "certificate"
                      /\ last' = GetRet("UNSUPPORTED", indx, size, size, "NONE")
                   \/ e.kind = "certificate" /\ CertSize(e) > size
                      /\ last' = GetRet("SHORT", indx, size, CertSize(e) - 1, "NONE")
                   \/ e.kind = "certificate" /\ CertSize(e) <= size
                      /\ last' = GetRet("OK", indx, size, CertSize(e),
                                        IF buffer THEN e.der ELSE "NONE")

(***************************************************************************)
(* gnutls_pkcs7_get_certificate(pkcs7, indx, certificate,                  *)
(* certificate_size): after the common start, read the choice of entry     *)
(* indx+1 (past the list: GNUTLS_E_REQUESTED_DATA_NOT_AVAILABLE); for a    *)
(* "certificate", if it is longer than *certificate_size store its length  *)
(* there and return GNUTLS_E_SHORT_MEMORY_BUFFER, else copy it when        *)
(* certificate is not NULL (buffer) and store its length; another choice   *)
(* is GNUTLS_E_UNSUPPORTED_CERTIFICATE_TYPE. A NULL certificate_size is    *)
(* GNUTLS_E_INVALID_REQUEST (size = NULL).                                 *)
(***************************************************************************)
GetCertificate(indx, size, buffer) ==
  /\ pk # NULL
  /\ UNCHANGED <<pk, leaked>>
  /\ \/ size = NULL /\ last' = GetRet("INVALID", indx, 0, 0, "NONE")
     \/ size # NULL
        /\ \E o \in ContentOutcomes(pk.asn) :
           \/ o.ret # "OK" /\ last' = GetRet(o.ret, indx, size, size, "NONE")
           \/ o.ret = "OK" /\ ~InList(o.list, indx)
              /\ last' = GetRet("NOT_AVAILABLE", indx, size, size, "NONE")
           \/ o.ret = "OK" /\ InList(o.list, indx)
              /\ LET e == Entry(o.list, indx) IN
                   \/ e.kind # "certificate"
                      /\ last' = GetRet("UNSUPPORTED", indx, size, size, "NONE")
                   \/ e.kind = "certificate" /\ CertSize(e) > size
                      /\ last' = GetRet("SHORT", indx, size, CertSize(e), "NONE")
                   \/ e.kind = "certificate" /\ CertSize(e) <= size
                      /\ last' = GetRet("OK", indx, size, CertSize(e),
                                        IF buffer THEN e.der ELSE "NONE")

\* gnutls_pkcs7_get_certificate_count: after the common start,
\* asn1_number_of_elements of "certificates"; none gives 0.
GetCertificateCount ==
  /\ pk # NULL
  /\ UNCHANGED <<pk, leaked>>
  /\ \E o \in ContentOutcomes(pk.asn) :
       last' = [Ret("count", o.ret) EXCEPT !.n = Len(o.list)]

NewCert(c) == [kind |-> "certificate", der |-> c]

\* create_empty_signed_data: a SignedData of version 1 with no digest
\* algorithms, id-data content, no certificates, CRLs or signer infos,
\* copied into "content", and contentType set to id-signedData.
EmptySignedData == [Unset EXCEPT !.ctype = "SIGNED"]

\* Mutant: "certificates.?LAST" written without the "NEW" element first,
\* overwriting the last entry.
AppendOverLast(base, c) ==
  [base EXCEPT !.content = IF @ = <<>> THEN <<NewCert(c)>>
                           ELSE [@ EXCEPT ![Len(@)] = NewCert(c)]]

\* Step 2 of set_certificate on the SignedData base: write "certificates"
\* NEW, the choice "certificate" at ?LAST and its DER.
AppendCert(base, c) ==
  [base EXCEPT !.content = Append(@, NewCert(c))]

\* _gnutls_x509_der_encode_and_copy(c2, "", pkcs7->pkcs7, "content"): the
\* SignedData is DER-encoded, its SET OF certificates in encoding order.
DerEncode(sd) ==
  [sd EXCEPT !.content = SortSeq(@, LAMBDA a, b : DerRank[a] < DerRank[b])]

(***************************************************************************)
(* Step 1 and 3 of set_certificate on the SignedData base (the structure   *)
(* as contentType left it): asn1_create_element, malloc and read of the    *)
(* content, asn1_der_decoding, the writes of step 2 and the re-encoding    *)
(* into "content" by _gnutls_x509_der_encode_and_copy. A failure leaves    *)
(* the structure as base.                                                  *)
(***************************************************************************)
AddToSignedData(base, c) ==
  \/ /\ AllocFailures
     /\ pk' = [asn |-> base]
     /\ \E code \in {"ERR", "MEMORY"} : last' = Ret("set", code)
  \/ /\ ~base.decodes
     /\ pk' = [asn |-> base] /\ last' = Ret("set", "ERR")
  \/ /\ base.decodes
     /\ pk' = [asn |-> DerEncode(AppendCert(base, c))]
     /\ last' = [Ret("set", "OK") EXCEPT !.cert = c]

(***************************************************************************)
(* gnutls_pkcs7_set_certificate(pkcs7, crt): read "contentType"; when it   *)
(* is not set, create_empty_signed_data writes an empty SignedData into    *)
(* "content" and then contentType (either write can fail, the second       *)
(* after the content was copied); another type than id-signedData is       *)
(* GNUTLS_E_UNKNOWN_PKCS7_CONTENT_TYPE. The file has "#error FIX THAT."    *)
(* before the write of the DER; the model is of the code as written.       *)
(***************************************************************************)
SetCertificate(c) ==
  /\ pk # NULL
  /\ Signed(pk.asn) => Len(pk.asn.content) < MaxCerts
  /\ UNCHANGED leaked
  /\ LET asn == pk.asn IN
       \/ /\ asn.ctype = "EMPTY"
          /\ last' = Ret("set", "ERR") /\ UNCHANGED pk
       \/ /\ asn.ctype = "OTHER"
          /\ last' = Ret("set", "UNKNOWN_TYPE") /\ UNCHANGED pk
       \* create_empty_signed_data fails; the empty content it may already
       \* have copied is not read while contentType is not set
       \/ /\ asn.ctype = "NONE" /\ AllocFailures
          /\ last' = Ret("set", "ERR") /\ UNCHANGED pk
       \/ /\ asn.ctype = "NONE"
          /\ AddToSignedData(EmptySignedData, c)
       \/ /\ asn.ctype = "SIGNED"
          /\ AddToSignedData(asn, c)

Init ==
  /\ pk = NULL
  /\ leaked = FALSE
  /\ last = Ret("none", "OK")

Next ==
  \/ PkInit
  \/ PkDeinit
  \/ \E doc \in Docs, pem \in BOOLEAN, format \in {"DER", "PEM"} :
       Import(doc, pem, format)
  \/ \E indx \in Indexes, buffer \in BOOLEAN,
        size \in BufSizes \cup {NULL} \cup (IF last.ret = "SHORT" THEN {last.size} ELSE {}) :
       GetCertificate(indx, size, buffer)
  \/ GetCertificateCount
  \/ \E c \in Certs : SetCertificate(c)

Spec == Init /\ [][Next]_vars

-----------------------------------------------------------------------------
Entries == [kind : {"certificate", "other"}, der : Certs]

TypeOK ==
  /\ \/ pk = NULL
     \/ /\ pk.asn.ctype \in {"EMPTY", "NONE", "SIGNED", "OTHER"}
        /\ pk.asn.content \in Seq(Entries)
  /\ leaked \in BOOLEAN
  /\ last.size \in Nat /\ last.n \in Nat /\ last.cert \in Certs \cup {"NONE"}

\* The entries the object holds, as the calls that read it see them.
Listed ==
  IF pk = NULL \/ ~Signed(pk.asn) THEN <<>> ELSE pk.asn.content

(***************************************************************************)
(* The object implements the certificate set: get_certificate(indx)        *)
(* answers with entry indx+1 and ends the list only past its end, the      *)
(* count is the number of entries, set_certificate adds one certificate    *)
(* and keeps every entry (in the order the DER re-encoding gives them),    *)
(* and a failed call other than an import leaves the entries as they were  *)
(* (through the partial writes of create_empty_signed_data).               *)
(***************************************************************************)
Set == INSTANCE CertSet WITH certs <- Listed, answer <- last

CertSetRefinement == Set!Spec

\* The two-call idiom of get_certificate: retried with the size that a
\* GNUTLS_E_SHORT_MEMORY_BUFFER answer stored in *certificate_size, on the
\* same entry of an unchanged object, the call does not answer
\* GNUTLS_E_SHORT_MEMORY_BUFFER again, and when it succeeds the length it
\* stores is that size.
ShortBufferRetry ==
  [][ (/\ last.op = "get" /\ last.ret = "SHORT"
       /\ last'.op = "get" /\ last'.indx = last.indx
       /\ last'.asked = last.size /\ pk' = pk)
      => /\ last'.ret # "SHORT"
         /\ last'.ret = "OK" => last'.size = last.size ]_vars
=============================================================================
