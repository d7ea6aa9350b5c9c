--------------------------- MODULE Pkcs11PrivKey ---------------------------
(***************************************************************************)
(* The PKCS#11 private key of src/lib/pkcs11_privkey.c, used by several    *)
(* application threads: gnutls_pkcs11_privkey_import_url, the internal     *)
(* _gnutls_pkcs11_privkey_sign_hash and _gnutls_pkcs11_privkey_decrypt_data*)
(* and gnutls_pkcs11_privkey_generate.                                     *)
(*                                                                         *)
(* An operation opens a session on the token (FIND_OBJECT, or              *)
(* pkcs11_open_session), issues its calls on it and closes it. A thread    *)
(* is "find" while FIND_OBJECT runs and "work" while it holds a session;   *)
(* the calls of one operation after FIND_OBJECT are one step. The token    *)
(* module (outside src/) is modelled from the PKCS#11 contract: session    *)
(* handles are fresh numbers 1..MaxHandles, a call on a handle that is not *)
(* an open session fails, removing the token closes all its sessions, and  *)
(* a key refuses a mechanism of another key type. What sign_hash,          *)
(* decrypt_data and generate return is output to the caller; of it, the    *)
(* model keeps the state of the caller's signature or plaintext datum      *)
(* ("out"), and the session they open and close. The result of          *)
(* import_url is kept in lastImport.                                      *)
(* gnutls_pkcs11_privkey_get_pk_algorithm and _export_url read the key and *)
(* change nothing; they are the operators PkAlgorithm and ExportUrl.       *)
(***************************************************************************)
EXTENDS Integers, FiniteSets

CONSTANTS
  NONE,          \* no thread / no value
  Threads,       \* application threads sharing the key
  MaxHandles,    \* session handles the module can ever hand out
  Urls,          \* URLs of token objects; "BAD" does not parse
  ObjOf,         \* [Urls -> [class, id, type]]: the object a URL names
  TokenFunc,     \* an application token callback is installed
  DeviceErrors,  \* a token call may fail with CKR_DEVICE_ERROR
  AllocFailures  \* gnutls_malloc may fail

ASSUME MaxHandles \in Nat \ {0}
ASSUME TokenFunc \in BOOLEAN /\ DeviceErrors \in BOOLEAN /\ AllocFailures \in BOOLEAN

VARIABLES
  key,        \* the gnutls_pkcs11_privkey_st: [live, info, pk_algorithm]
  th,         \* [thread -> its operation in progress or last returned]
  owner,      \* [handle -> thread that opened the session, NONE: closed]
  next,       \* the next session handle the module will hand out
  tokenIn,    \* the token is in its slot
  lastImport  \* the URL and result of the last import_url that returned

vars == << key, th, owner, next, tokenIn, lastImport >>

Handles == 1..MaxHandles
PkAlgs  == {"RSA", "DSA", "EC"}
Ops     == {"sign", "decrypt", "import"}
Rets    == {"OK", "DATA_NOT_AVAILABLE", "INVALID_REQUEST", "UNKNOWN_ALGORITHM",
            "PKCS11_ERROR", "PARSE_ERROR"}

\* Mutant: a key type with no gnutls algorithm is passed through unmapped.
MechToPkRaw(t) == t

\* mech_to_pk: the gnutls algorithm of a PKCS#11 key type.
MechToPk(t) == IF t \in PkAlgs THEN t ELSE "UNKNOWN"

SessionOpen(h) == h \in Handles /\ owner[h] # NONE

\* pkcs11_close_session(module, pks): closes h, whoever opened it.
CloseSession(h) == owner' = IF SessionOpen(h) THEN [owner EXCEPT ![h] = NONE] ELSE owner

\* The thread's record once its call returns.
Returned(t) == [th[t] EXCEPT !.pc = "idle", !.pks = 0, !.obj = NONE]

\* ... and with the caller's datum in state o.
ReturnedWith(t, o) == [Returned(t) EXCEPT !.out = o]

\* gnutls_pkcs11_privkey_init: calloc'd, so pk_algorithm is 0 (UNKNOWN),
\* with an empty URI.
Init ==
  /\ key = [live |-> TRUE, info |-> NONE, pk_algorithm |-> "UNKNOWN"]
  /\ th = [t \in Threads |-> [pc |-> "idle", op |-> NONE, pks |-> 0, opened |-> 0,
                              obj |-> NONE, out |-> "untouched"]]
  /\ owner = [h \in Handles |-> NONE]
  /\ next = 1
  /\ tokenIn \in BOOLEAN
  /\ lastImport = NONE

(***************************************************************************)
(* Entry of sign_hash and decrypt_data: straight into FIND_OBJECT. The     *)
(* application does not use the key while it is importing into it.         *)
(***************************************************************************)
StartUse(t) ==
  /\ key.live /\ th[t].pc = "idle"
  /\ \A u \in Threads : th[u].op = "import" => th[u].pc = "idle"
  /\ \E op \in {"sign", "decrypt"} :
       th' = [th EXCEPT ![t] = [pc |-> "find", op |-> op, pks |-> 0, opened |-> 0,
                                obj |-> NONE, out |-> "untouched"]]
  /\ UNCHANGED << key, owner, next, tokenIn, lastImport >>

(***************************************************************************)
(* import_url up to FIND_OBJECT: parse the URL into pkey->info, store the  *)
(* flags (read by nothing modelled), then require a private-key class and  *)
(* an ID. The application does not import while another thread uses the    *)
(* key.                                                                    *)
(***************************************************************************)
StartImport(t) ==
  /\ key.live
  /\ \A u \in Threads : th[u].pc = "idle"
  /\ \E url \in Urls \cup {"BAD"} :
       LET k   == [key EXCEPT !.info = url]
           new == [pc |-> "find", op |-> "import", pks |-> 0, opened |-> 0,
                   obj |-> NONE, out |-> "untouched"]
           fail(ret) == /\ th' = [th EXCEPT ![t] = [new EXCEPT !.pc = "idle"]]
                        /\ lastImport' = [url |-> url, ret |-> ret]
       IN  \/ /\ url = "BAD"                                 \* pkcs11_url_to_info
              /\ fail("PARSE_ERROR") /\ UNCHANGED key
           \/ /\ url # "BAD" /\ key' = k
              /\ \/ /\ ObjOf[url].class # "PRIVATE_KEY"      \* CKA_CLASS
                    /\ fail("INVALID_REQUEST")
                 \/ /\ ObjOf[url].class = "PRIVATE_KEY" /\ ~ObjOf[url].id  \* CKA_ID
                    /\ fail("DATA_NOT_AVAILABLE")
                 \/ /\ ObjOf[url].class = "PRIVATE_KEY" /\ ObjOf[url].id
                    /\ th' = [th EXCEPT ![t] = new] /\ UNCHANGED lastImport
  /\ UNCHANGED << owner, next, tokenIn >>

(***************************************************************************)
(* "if (rret == 0) continue;" inside do { } while (0) leaves the loop: the *)
(* operation goes on with module, pks and obj never assigned. Their values *)
(* are whatever the stack held: any handle number and any object.          *)
(***************************************************************************)
ContinueExits(t) ==
  \E h \in 0..MaxHandles, o \in Urls :
    th' = [th EXCEPT ![t].pc = "work", ![t].pks = h, ![t].obj = o]

\* pkcs11_find_object found the object: a fresh session handle is now open
\* for t, and module, pks and obj are set.
OpenSession(t, url) ==
  /\ owner' = [owner EXCEPT ![next] = t]
  /\ next' = next + 1
  /\ th' = [th EXCEPT ![t].pc = "work", ![t].pks = next, ![t].opened = next,
                      ![t].obj = url]

(***************************************************************************)
(* FIND_OBJECT: pkcs11_find_object opens a session and finds the object    *)
(* key->info names (closing the session again when there is none). On      *)
(* REQUESTED_DATA_NOT_AVAILABLE the token callback, if installed, may ask  *)
(* the user to insert the token.                                           *)
(***************************************************************************)
FindObject(t) ==
  LET url   == key.info
      found == tokenIn /\ url \in Urls
  IN  /\ th[t].pc = "find"
      /\ \/ /\ found /\ next <= MaxHandles
            /\ OpenSession(t, url)
            /\ UNCHANGED tokenIn
         \/ /\ found /\ next > MaxHandles                   \* CKR_SESSION_COUNT
            /\ th' = [th EXCEPT ![t] = Returned(t)]
            /\ UNCHANGED << owner, next, tokenIn >>
         \/ /\ ~found
            /\ \/ /\ th' = [th EXCEPT ![t] = Returned(t)]
                  /\ UNCHANGED tokenIn
               \/ /\ TokenFunc                              \* rret == 0
                  /\ \E ins \in BOOLEAN : tokenIn' = (tokenIn \/ ins)
                  /\ ContinueExits(t)
            /\ UNCHANGED << owner, next >>
      /\ UNCHANGED << key, lastImport >>

(***************************************************************************)
(* The calls on session h that fill the caller's datum (the signature, or  *)
(* the plaintext): the init call, a length query, an unchecked             *)
(* gnutls_malloc, the call into the buffer. All fail on a closed session.  *)
(* With a NULL buffer the last call is a second length query and succeeds  *)
(* ("null": 0 returned, no data); a failing last call frees the buffer and *)
(* leaves the datum pointing at it ("freed").                              *)
(***************************************************************************)
DatumOutcomes(h) ==
  IF ~SessionOpen(h) THEN {"untouched"}
  ELSE {"filled"} \cup (IF DeviceErrors THEN {"untouched", "freed"} ELSE {})
                  \cup (IF AllocFailures THEN {"null"} ELSE {})

SignHash(t) ==
  LET h == th[t].pks IN
  /\ th[t].op = "sign"
  /\ \E o \in DatumOutcomes(h) : th' = [th EXCEPT ![t] = ReturnedWith(t, o)]
  /\ CloseSession(h)
  /\ UNCHANGED << key, lastImport >>

\* decrypt_data after FIND_OBJECT: a non-RSA key returns INVALID_REQUEST
\* at once, without pkcs11_close_session; otherwise as sign_hash.
DecryptData(t) ==
  LET h == th[t].pks IN
  /\ th[t].op = "decrypt"
  /\ \/ /\ key.pk_algorithm # "RSA"
        /\ th' = [th EXCEPT ![t] = Returned(t)]
        /\ UNCHANGED owner
     \/ /\ key.pk_algorithm = "RSA"
        /\ \E o \in DatumOutcomes(h) : th' = [th EXCEPT ![t] = ReturnedWith(t, o)]
        /\ CloseSession(h)
  /\ UNCHANGED << key, lastImport >>

\* import_url after FIND_OBJECT: read CKA_KEY_TYPE; when that call fails the
\* algorithm is left as it was and the import still returns 0.
ImportKeyType(t) ==
  LET h      == th[t].pks
      kt     == ObjOf[th[t].obj].type
      done(r) == /\ th' = [th EXCEPT ![t] = Returned(t)]
                 /\ lastImport' = [url |-> key.info, ret |-> r]
  IN  /\ th[t].op = "import"
      /\ \/ /\ SessionOpen(h)                               \* CKR_OK
            /\ key' = [key EXCEPT !.pk_algorithm = MechToPk(kt)]
            /\ done(IF MechToPk(kt) = "UNKNOWN" THEN "UNKNOWN_ALGORITHM" ELSE "OK")
         \/ /\ ~SessionOpen(h) \/ DeviceErrors
            /\ done("OK") /\ UNCHANGED key
      /\ CloseSession(h)

Work(t) ==
  /\ th[t].pc = "work"
  /\ SignHash(t) \/ DecryptData(t) \/ ImportKeyType(t)
  /\ UNCHANGED << next, tokenIn >>

(***************************************************************************)
(* gnutls_pkcs11_privkey_generate, in one step: parse the token URL, open  *)
(* a read-write session; then every path (an algorithm other than RSA, DSA *)
(* or EC, a failed or a successful key-pair generation) reaches cleanup,   *)
(* which closes the session if pks != 0.                                   *)
(***************************************************************************)
Generate(t) ==
  /\ th[t].pc = "idle"
  /\ \E url \in {"TOKEN", "BAD"} :
       LET gen(h) == th' = [th EXCEPT ![t] = [pc |-> "idle", op |-> "generate",
                                 pks |-> 0, opened |-> h, obj |-> NONE,
                                 out |-> "untouched"]]
           opens == url # "BAD" /\ tokenIn /\ next <= MaxHandles
       IN  \/ /\ ~opens                       \* url_to_info or open_session fails
              /\ gen(0)
              /\ UNCHANGED next
           \/ /\ opens /\ next' = next + 1    \* opened, then closed at cleanup
              /\ gen(next)
  /\ UNCHANGED << key, owner, tokenIn, lastImport >>

\* gnutls_pkcs11_privkey_deinit: p11_kit_uri_free(info), then the key is
\* freed. The application does not deinit a key a call is still using.
PrivKeyDeinit ==
  /\ key.live
  /\ \A t \in Threads : th[t].pc = "idle"
  /\ key' = [key EXCEPT !.live = FALSE, !.info = NONE]
  /\ UNCHANGED << th, owner, next, tokenIn, lastImport >>

\* gnutls_pkcs11_privkey_get_pk_algorithm: key->pk_algorithm (bits: 0).
PkAlgorithm == key.pk_algorithm

\* gnutls_pkcs11_privkey_export_url: the URL pkcs11_info_to_url prints
\* from key->info.
ExportUrl == key.info

\* The token is pulled out, closing every session on it, or put back.
RemoveToken ==
  /\ tokenIn
  /\ tokenIn' = FALSE /\ owner' = [h \in Handles |-> NONE]
  /\ UNCHANGED << key, th, next, lastImport >>

InsertToken ==
  /\ ~tokenIn /\ tokenIn' = TRUE
  /\ UNCHANGED << key, th, owner, next, lastImport >>

Next ==
  \/ \E t \in Threads :
       StartUse(t) \/ StartImport(t) \/ FindObject(t) \/ Work(t) \/ Generate(t)
  \/ PrivKeyDeinit \/ RemoveToken \/ InsertToken

\* A thread inside the library runs to its return; the application and the
\* user owe nothing.
Fairness == \A t \in Threads : WF_vars(FindObject(t)) /\ WF_vars(Work(t))

Spec == Init /\ [][Next]_vars /\ Fairness

-----------------------------------------------------------------------------
TypeOK ==
  /\ key \in [live : BOOLEAN, info : Urls \cup {NONE}, pk_algorithm : PkAlgs \cup {"UNKNOWN"}]
  /\ th \in [Threads -> [pc : {"idle", "find", "work"},
                         op : Ops \cup {"generate", NONE},
                         pks : 0..MaxHandles, opened : 0..MaxHandles,
                         obj : Urls \cup {NONE},
                         out : {"untouched", "filled", "null", "freed"}]]
  /\ owner \in [Handles -> Threads \cup {NONE}]
  /\ next \in 1..MaxHandles + 1
  /\ lastImport \in {NONE} \cup [url : Urls \cup {"BAD"}, ret : Rets]

(***************************************************************************)
(* A session is closed only by the call that opened it, as that call       *)
(* returns, or by pulling the token out: no step of sign_hash,             *)
(* decrypt_data or import_url closes (after issuing its token calls on     *)
(* it) a session another thread opened and is still working on.            *)
(***************************************************************************)
SessionUseOwned ==
  [][\A h \in Handles :
       SessionOpen(h) /\ ~SessionOpen(h)' /\ tokenIn'
         => th[owner[h]].pks = h /\ th'[owner[h]].pc = "idle"]_vars

KeyDescribesObject ==
  (\A t \in Threads : th[t].op = "import" => th[t].pc = "idle") /\ ExportUrl \in Urls
    => PkAlgorithm = MechToPk(ObjOf[ExportUrl].type)
=============================================================================
