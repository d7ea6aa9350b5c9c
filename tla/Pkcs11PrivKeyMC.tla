-------------------------- MODULE Pkcs11PrivKeyMC --------------------------
(***************************************************************************)
(* Token contents for checking Pkcs11PrivKey: an RSA key, a DSA key, a key *)
(* of a type gnutls cannot map, a private key without CKA_ID and a         *)
(* certificate.                                                            *)
(***************************************************************************)
EXTENDS Pkcs11PrivKey, TLC

Obj(c, i, t) == [class |-> c, id |-> i, type |-> t]

\* Keys whose types gnutls knows, and a certificate.
KnownObjs ==
  [u \in {"rsa", "dsa", "cert"} |->
     CASE u = "rsa"  -> Obj("PRIVATE_KEY", TRUE, "RSA")
       [] u = "dsa"  -> Obj("PRIVATE_KEY", TRUE, "DSA")
       [] u = "cert" -> Obj("CERTIFICATE", TRUE, "NONE")]

\* Adds a GOST key and a private key without an ID.
AllObjs ==
  [u \in {"rsa", "dsa", "cert", "gost", "noid"} |->
     CASE u = "gost" -> Obj("PRIVATE_KEY", TRUE, "GOSTR3410")
       [] u = "noid" -> Obj("PRIVATE_KEY", FALSE, "RSA")
       [] OTHER      -> KnownObjs[u]]
\* Without the DSA key: a GOST key is the other non-RSA key.
FewObjs == [u \in {"rsa", "cert", "gost", "noid"} |-> AllObjs[u]]


=============================================================================
