------------------------------ MODULE CertSet -------------------------------
(***************************************************************************)
(* What a PKCS#7 certificate set object promises its caller: it holds a    *)
(* list of entries (a certificate or another choice); adding a certificate *)
(* gives a list of the entries it held and the new certificate, in an      *)
(* order the object chooses (the set is re-encoded in DER, which orders a  *)
(* SET OF); reading entry i answers with that entry's                      *)
(* certificate, says the list has ended only past its end, and a count is  *)
(* the number of entries. Any call may fail instead; a failed call that is *)
(* not an import leaves the list as it was. An import replaces the list.   *)
(***************************************************************************)
EXTENDS Integers, Sequences
LOCAL INSTANCE SequencesExt

CONSTANTS Entries   \* the entries a list can hold: [kind, der]

VARIABLES
  certs,    \* the list the object holds
  answer    \* the last call and its answer: [op, ret, indx, cert, n]

vars == <<certs, answer>>

Init == certs = <<>>

\* Reading entry indx (counted from 0).
Get ==
  /\ answer'.op = "get"
  /\ UNCHANGED certs
  /\ LET i == answer'.indx + 1 IN
       \/ answer'.ret \notin {"OK", "NOT_AVAILABLE", "UNSUPPORTED"}
       \/ /\ answer'.ret = "NOT_AVAILABLE"
          /\ i \notin 1..Len(certs)
       \/ /\ i \in 1..Len(certs)
          /\ \/ answer'.ret = "OK" /\ certs[i].kind = "certificate"
                /\ answer'.cert \in {certs[i].der, "NONE"}
             \/ answer'.ret = "UNSUPPORTED" /\ certs[i].kind # "certificate"

Count ==
  /\ answer'.op = "count"
  /\ UNCHANGED certs
  /\ answer'.ret = "OK" => answer'.n = Len(certs)

\* Adding a certificate: the same entries, as a bag, with the new one.
Add ==
  /\ answer'.op = "set"
  /\ IF answer'.ret = "OK"
     THEN ToBag(certs') = ToBag(Append(certs, [kind |-> "certificate", der |-> answer'.cert]))
     ELSE UNCHANGED certs

\* An import, or the object made or freed.
Replace ==
  /\ answer'.op \in {"import", "init", "deinit"}
  /\ certs' \in Seq(Entries)

Next == Get \/ Count \/ Add \/ Replace

Spec == Init /\ [][Next]_vars
=============================================================================
