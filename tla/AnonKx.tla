------------------------------- MODULE AnonKx -------------------------------
(***************************************************************************)
(* The anonymous Diffie-Hellman key exchange of src/lib/auth_anon.c: the   *)
(* four handlers gen_anon_server_kx, proc_anon_server_kx,                  *)
(* gen_anon_client_kx and proc_anon_client_kx, run by one server session   *)
(* and one client session that exchange the two messages.                  *)
(*                                                                         *)
(* Each session owns a gnutls_key record (gkey). Its MPI fields hold a     *)
(* value or NULL; an MPI that goes out of scope without                    *)
(* _gnutls_mpi_release is recorded in "leaked". The handshake layer that   *)
(* calls the handlers in order is the per-role phase "pc". Integers are    *)
(* small: a group is a small prime p with a generator g.                   *)
(***************************************************************************)
EXTENDS Integers, Sequences, SequencesExt, FiniteSets, WireCodec

CONSTANTS
  NULL,           \* an unset MPI or auth_info pointer
  Exps,           \* private exponents gnutls_calc_dh_secret may draw
  DHParams,       \* gnutls_get_dh_params: requested bits -> [p, g]
  DEFAULT_BITS,   \* bits used when no anonymous credential is set
  CredValues,     \* values the server credential's dh_bits may take (NULL: none)
  InitialCred,    \* the credential's dh_bits when the handshake starts
  AllocFailures,  \* whether an allocation may fail
  Truncation,     \* whether a message may arrive cut short
  InitialAuth,    \* auth_info types left by an earlier handshake ("NONE": none)
  MaxHandshakes   \* bound on the handshakes run on the two sessions

ASSUME DEFAULT_BITS \in DOMAIN DHParams
ASSUME CredValues \subseteq (DOMAIN DHParams \cup {NULL})
ASSUME InitialCred \in CredValues
ASSUME AllocFailures \in BOOLEAN /\ Truncation \in BOOLEAN
ASSUME MaxHandshakes \in Nat \ {0}

VARIABLES
  gkey,      \* [role -> gnutls_key fields]
  pc,        \* [role -> phase of the handshake]
  toClient,  \* the server's message, once written, else NULL
  toServer,  \* the client's message, once written, else NULL
  credBits,  \* dh_bits of the server's anonymous credential, or NULL
  leaked,    \* MPIs and key buffers dropped without release: [role, mpi, onError]
  handshakes \* the handshakes begun on the two sessions

vars == << gkey, pc, toClient, toServer, credBits, leaked, handshakes >>

Server == "server"
Client == "client"
Roles  == {Server, Client}
Peer(r) == IF r = Server THEN Client ELSE Server

\* gnutls_auth_get_type(state): the kx negotiated for this handshake is ANON.
AuthGetType == "ANON"

PowMod(b, e, m) == (b ^ e) % m

\* gcry_mpi_get_nbits
RECURSIVE NBits(_)
NBits(n) == IF n = 0 THEN 0 ELSE 1 + NBits(n \div 2)

Delivered(m) == IF Truncation THEN Prefixes(m) ELSE {m}

Leak(r, mpis, onError) == {[role |-> r, mpi |-> x, onError |-> onError] : x \in mpis}

\* The handler of role r returns with phase ph, key record k, leaks lk and
\* the message out it wrote (NULL: none).
Return(r, ph, k, lk, out) ==
  /\ pc' = [pc EXCEPT ![r] = ph]
  /\ gkey' = [gkey EXCEPT ![r] = k]
  /\ leaked' = leaked \cup lk
  /\ toClient' = IF r = Server /\ out # NULL THEN out ELSE toClient
  /\ toServer' = IF r = Client /\ out # NULL THEN out ELSE toServer
  /\ UNCHANGED << credBits, handshakes >>

\* _gnutls_get_cred(..., GNUTLS_ANON, ...) then cred->dh_bits or DEFAULT_BITS.
ConfiguredBits == IF credBits = NULL THEN DEFAULT_BITS ELSE credBits

\* The auth_info check shared by both handlers that set it: absent, or of
\* the type of the current kx.
AuthMatches(k) == IF k.auth_info = NULL THEN TRUE ELSE k.auth_info.type = AuthGetType

\* Mutant: the allocated auth_info never gets its type.
SetAuthInfoUntyped(k, p) == [k EXCEPT !.auth_info = [dh_bits |-> NBits(p)]]

\* Mutant: an auth_info left by an earlier handshake is not refreshed.
SetAuthInfoOnlyNew(k, p) ==
  IF k.auth_info = NULL
  THEN [k EXCEPT !.auth_info = [type |-> AuthGetType, dh_bits |-> NBits(p)]]
  ELSE k

\* auth_info after it is set: allocated if absent, dh_bits from p.
SetAuthInfo(k, p) ==
  [k EXCEPT !.auth_info = [type |-> AuthGetType, dh_bits |-> NBits(p)]]

\* _gnutls_generate_key: the session key bytes are the printed MPI KEY.
GenerateKey(K) == MpiPrint(K)

\* "key->key.data = gnutls_secure_malloc(...)" overwrites the buffer of an
\* earlier handshake without freeing it, whether or not the malloc fails.
KeyDropped(r, k) == IF k.key = NULL THEN {} ELSE Leak(r, {"key"}, FALSE)

\* Mutant: the key is computed from g instead of the server's Y.
ClientKeyFromG(k, x) == PowMod(k.client_g, x, k.client_p)

\* gen_anon_client_kx: the key from the server's Y and the own exponent.
ClientKey(k, x) == PowMod(k.client_Y, x, k.client_p)

\* "THESE SHOULD BE DISCARDED": client_Y, client_p, client_g released.
ReleaseClientParams(k) ==
  [k EXCEPT !.client_Y = NULL, !.client_p = NULL, !.client_g = NULL]

\* Mutant: _gnutls_mpi_release(&dh_secret) is missing.
ReleaseServerSecretKeepX(k) == [k EXCEPT !.client_Y = NULL]

\* proc_anon_client_kx: client_Y and dh_secret released after derivation.
ReleaseServerSecret(k) == [k EXCEPT !.client_Y = NULL, !.dh_secret = NULL]

\* A gnutls_key with no MPI set and the auth_info left by an earlier handshake.
EmptyKey(t) ==
  [dh_secret |-> NULL, client_Y |-> NULL, client_g |-> NULL, client_p |-> NULL,
   key |-> NULL,
   auth_info |-> IF t = "NONE" THEN NULL ELSE [type |-> t, dh_bits |-> 0]]

Init ==
  /\ \E a \in [Roles -> InitialAuth] : gkey = [r \in Roles |-> EmptyKey(a[r])]
  /\ pc = [r \in Roles |-> "start"]
  /\ toClient = NULL /\ toServer = NULL
  /\ credBits = InitialCred
  /\ leaked = {}
  /\ handshakes = 1

(***************************************************************************)
(* gen_anon_server_kx: fetch (g, p) for the configured bits, set auth_info,*)
(* draw x and X = g^x mod p, keep x as dh_secret and write (p, g, X).      *)
(* Each early return is a disjunct, with the MPIs it drops unreleased.     *)
(***************************************************************************)
GenAnonServerKx ==
  LET k  == gkey[Server]
      p  == DHParams[ConfiguredBits].p
      g  == DHParams[ConfiguredBits].g
      ka == SetAuthInfo(k, p)
  IN  /\ pc[Server] = "start"
      /\ \/ /\ AllocFailures                         \* g == NULL || p == NULL
            /\ \E got \in {{}, {"g"}, {"p"}} : Return(Server, "failed", k, Leak(Server, got, TRUE), NULL)
         \/ /\ AllocFailures /\ k.auth_info = NULL   \* malloc of auth_info
            /\ Return(Server, "failed", k, Leak(Server, {"g", "p"}, TRUE), NULL)
         \/ /\ ~AuthMatches(k)                       \* GNUTLS_E_INVALID_REQUEST
            /\ Return(Server, "failed", k, Leak(Server, {"g", "p"}, TRUE), NULL)
         \/ /\ AuthMatches(k) /\ AllocFailures       \* gnutls_calc_dh_secret
            /\ Return(Server, "failed", ka, {}, NULL)
         \/ /\ AuthMatches(k)
            /\ \E x \in Exps :
                 \/ /\ AllocFailures                 \* malloc of the message
                    /\ Return(Server, "failed", [ka EXCEPT !.dh_secret = x], {}, NULL)
                 \/ Return(Server, "sent", [ka EXCEPT !.dh_secret = x], {},
                           EncodeServerKx(p, g, PowMod(g, x, p)))

(***************************************************************************)
(* proc_anon_server_kx: decode (p, g, Y), scan Y, g and p in that order    *)
(* into client_Y, client_g, client_p, then check or allocate auth_info and *)
(* record the bits of p. A failed scan or auth_info check returns with the *)
(* values scanned before it still stored.                                  *)
(***************************************************************************)
ProcAnonServerKx ==
  /\ pc[Client] = "start"
  /\ toClient # NULL
  /\ \E m \in Delivered(toClient) :
       LET d      == DecodeServerKx(m)
           k      == gkey[Client]
           val(i) == MpiScan(d.vals[i])
           \* the key after the first n of the scans of Y, g, p succeeded
           scanned(n) == [k EXCEPT !.client_Y = IF n >= 1 THEN val(3) ELSE @,
                                   !.client_g = IF n >= 2 THEN val(2) ELSE @,
                                   !.client_p = IF n >= 3 THEN val(1) ELSE @]
       IN  \/ /\ d.err # "OK"                        \* DECR_LEN or line 204
              /\ Return(Client, "failed", k, {}, NULL)
           \/ /\ d.err = "OK" /\ AllocFailures       \* _gnutls_mpi_scan
              /\ \E n \in 0..2 : Return(Client, "failed", scanned(n), {}, NULL)
           \/ /\ d.err = "OK" /\ AllocFailures /\ k.auth_info = NULL
              /\ Return(Client, "failed", scanned(3), {}, NULL)
           \/ /\ d.err = "OK" /\ ~AuthMatches(k)
              /\ Return(Client, "failed", scanned(3), {}, NULL)
           \/ /\ d.err = "OK" /\ AuthMatches(k)
              /\ Return(Client, "params", SetAuthInfo(scanned(3), val(1)), {}, NULL)

(***************************************************************************)
(* gen_anon_client_kx: X = g^x mod p from the stored (g, p), write X, then *)
(* KEY = Y^x mod p, release Y, p, g, copy KEY into key and release KEY.    *)
(* The local x is never released, on success or on any later error path.  *)
(***************************************************************************)
GenAnonClientKx ==
  LET k == gkey[Client] IN
  /\ pc[Client] = "params"
  /\ \/ /\ AllocFailures                             \* gnutls_calc_dh_secret
        /\ Return(Client, "failed", k, {}, NULL)
     \/ /\ AllocFailures                             \* malloc of the message
        /\ Return(Client, "failed", k, Leak(Client, {"x", "X"}, TRUE), NULL)
     \/ /\ AllocFailures                             \* gnutls_calc_dh_key
        /\ Return(Client, "failed", k, Leak(Client, {"x"}, TRUE), NULL)
     \/ /\ AllocFailures                             \* _gnutls_generate_key
        /\ Return(Client, "failed", [ReleaseClientParams(k) EXCEPT !.key = NULL],
                  Leak(Client, {"x"}, TRUE) \cup KeyDropped(Client, k), NULL)
     \/ \E x \in Exps :
          Return(Client, "done",
                 [ReleaseClientParams(k) EXCEPT !.key = GenerateKey(ClientKey(k, x))],
                 Leak(Client, {"x"}, FALSE) \cup KeyDropped(Client, k),
                 EncodeClientKx(PowMod(k.client_g, x, k.client_p)))

(***************************************************************************)
(* proc_anon_client_kx: decode Y, scan it into client_Y, fetch (g, p)      *)
(* again for the bits configured NOW, KEY = Y^dh_secret mod p, release     *)
(* client_Y, dh_secret, p and g, copy KEY into key and release KEY.        *)
(***************************************************************************)
ProcAnonClientKx ==
  /\ pc[Server] = "sent"
  /\ toServer # NULL
  /\ \E m \in Delivered(toServer) :
       LET d  == DecodeClientKx(m)
           k  == gkey[Server]
           kY == [k EXCEPT !.client_Y = MpiScan(d.vals[1])]
           p  == DHParams[ConfiguredBits].p
       IN  \/ /\ d.err # "OK"                        \* DECR_LEN
              /\ Return(Server, "failed", k, {}, NULL)
           \/ /\ d.err = "OK" /\ AllocFailures
              /\ \/ Return(Server, "failed", k, {}, NULL)                  \* scan
                 \/ \E lk \in {{}, {"p"}} :                                \* g == NULL
                      Return(Server, "failed", kY, Leak(Server, lk, TRUE), NULL)
                 \/ Return(Server, "failed", kY, Leak(Server, {"g", "p"}, TRUE), NULL) \* KEY
                 \/ Return(Server, "failed", [ReleaseServerSecret(kY) EXCEPT !.key = NULL],
                           KeyDropped(Server, k), NULL)                   \* generate_key
           \/ /\ d.err = "OK"
              /\ Return(Server, "done",
                        [ReleaseServerSecret(kY) EXCEPT
                           !.key = GenerateKey(PowMod(kY.client_Y, k.dh_secret, p))],
                        KeyDropped(Server, k), NULL)

(***************************************************************************)
(* The surroundings. The handshake layer aborts a session that waits for a *)
(* message from a peer that has failed (fatal alert, EOF or the handshake  *)
(* timeout). The application may change the credential's dh_bits, or      *)
(* install or drop the credential, at any time.                            *)
(***************************************************************************)
\* Mutant: the handshake layer stops waiting only before its first message.
WaitingAtStart(r) == pc[r] = "start"
Waiting(r) == pc[r] \in {"start", "sent"}

Abort(r) ==
  /\ Waiting(r)
  /\ pc[Peer(r)] = "failed"
  /\ pc' = [pc EXCEPT ![r] = "failed"]
  /\ UNCHANGED << gkey, toClient, toServer, credBits, leaked, handshakes >>

SetDhBits ==
  /\ \E b \in CredValues \ {credBits} : credBits' = b
  /\ UNCHANGED << gkey, pc, toClient, toServer, leaked, handshakes >>

(***************************************************************************)
(* A new handshake on two sessions that completed one (gnutls_rehandshake  *)
(* and gnutls_handshake, outside src/): the handlers run again on the      *)
(* gnutls_key records as the last handshake left them, with its auth_info *)
(* and its key buffer.                                                     *)
(***************************************************************************)
Rehandshake ==
  /\ \A r \in Roles : pc[r] = "done"
  /\ handshakes < MaxHandshakes
  /\ handshakes' = handshakes + 1
  /\ pc' = [r \in Roles |-> "start"]
  /\ toClient' = NULL /\ toServer' = NULL
  /\ UNCHANGED << gkey, credBits, leaked >>

Next ==
  \/ GenAnonServerKx
  \/ ProcAnonServerKx
  \/ GenAnonClientKx
  \/ ProcAnonClientKx
  \/ \E r \in Roles : Abort(r)
  \/ SetDhBits
  \/ Rehandshake

\* The handshake layer calls each handler as soon as its input is there and
\* aborts on a failed peer; the application owes nothing.
Fairness ==
  /\ WF_vars(GenAnonServerKx)
  /\ WF_vars(ProcAnonServerKx)
  /\ WF_vars(GenAnonClientKx)
  /\ WF_vars(ProcAnonClientKx)
  /\ \A r \in Roles : WF_vars(Abort(r))

Spec == Init /\ [][Next]_vars /\ Fairness

-----------------------------------------------------------------------------
Phases == {"start", "sent", "params", "done", "failed"}
MpiOrNull == Nat \cup {NULL}

TypeOK ==
  /\ pc \in [Roles -> Phases]
  /\ \A r \in Roles :
       /\ \A f \in {"dh_secret", "client_Y", "client_g", "client_p"} :
            gkey[r][f] \in MpiOrNull
       /\ gkey[r].key = NULL \/ gkey[r].key \in Seq(0..255)
       /\ gkey[r].auth_info = NULL
            \/ gkey[r].auth_info \in [type : {"ANON", "CERTIFICATE"}, dh_bits : Nat]
  /\ toClient = NULL \/ toClient \in Seq(0..255)
  /\ toServer = NULL \/ toServer \in Seq(0..255)
  /\ leaked \subseteq [role : Roles, mpi : {"x", "X", "g", "p", "key"}, onError : BOOLEAN]
  /\ handshakes \in 1..MaxHandshakes

(***************************************************************************)
(* Agreement (spec section 8): when both sessions have completed, the key  *)
(* the client derived in gen_anon_client_kx equals the key the server      *)
(* derived in proc_anon_client_kx from the modulus it fetched again.       *)
(***************************************************************************)
KeyAgreement ==
  pc[Server] = "done" /\ pc[Client] = "done" => gkey[Server].key = gkey[Client].key

(***************************************************************************)
(* A session that completed holds no ephemeral DH value any more: the      *)
(* server released dh_secret and client_Y, the client released client_Y,  *)
(* client_g and client_p (spec 4.4, "must not persist past this point").   *)
(***************************************************************************)
DoneHoldsNoEphemera ==
  \A r \in Roles : pc[r] = "done" =>
    \A f \in {"dh_secret", "client_Y", "client_g", "client_p"} : gkey[r][f] = NULL

(***************************************************************************)
(* Both sessions record the same negotiated modulus size (NegotiatedInfo): *)
(* the server from the p it sent, the client from the p it scanned.        *)
(***************************************************************************)
NegotiatedBitsAgree ==
  pc[Server] \in {"sent", "done"} /\ pc[Client] \in {"params", "done"} =>
    gkey[Server].auth_info.dh_bits = gkey[Client].auth_info.dh_bits

(***************************************************************************)
(* The handlers implement the key exchange (KeyExchange): a session that   *)
(* completes after its peer holds the peer's key, completing and failing  *)
(* are final until both sessions start a rehandshake, and every handshake *)
(* ends, also when the peer failed at any of the error returns. The key    *)
(* of a session is the key buffer _gnutls_generate_key filled, and is      *)
(* visible only once the session is done.                                  *)
(***************************************************************************)
Status(r) ==
  CASE pc[r] = "done" -> "completed"
    [] pc[r] = "failed" -> "failed"
    [] OTHER -> "running"

Exchange == INSTANCE KeyExchange WITH
  Parties <- Roles, NoKey <- NULL,
  status <- [r \in Roles |-> Status(r)],
  key <- [r \in Roles |-> IF pc[r] = "done" THEN gkey[r].key ELSE NULL]

KeyExchangeRefinement == Exchange!Spec

(***************************************************************************)
(* No secret is dropped unreleased (spec 3 and 7: every BigInt is          *)
(* "explicitly released once no longer needed", on error paths too; 4.4:   *)
(* "the local private exponent is released immediately after             *)
(* derivation"): no MPI and no key buffer goes out of reach unreleased,    *)
(* on any path of any handshake.                                           *)
(***************************************************************************)
SecretsReleased == leaked = {}
=============================================================================
