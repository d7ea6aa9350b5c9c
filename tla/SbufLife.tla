------------------------------ MODULE SbufLife ------------------------------
(***************************************************************************)
(* The objects of src/lib/sbuf.c and their lifetimes: the credentials      *)
(* structure and the certificate credential (xcred) it owns, the sbuf      *)
(* objects and the sessions they wrap. The operations are                  *)
(* gnutls_credentials_init/set_trust/deinit, gnutls_sbuf_sinit,            *)
(* gnutls_sbuf_client_init, gnutls_sbuf_server_init and gnutls_sbuf_deinit,*)
(* each one step with every early return and goto fail1 a disjunct, and    *)
(* the verify callback _verify_certificate_callback run by the client's    *)
(* handshake.                                                              *)
(*                                                                         *)
(* The application follows the library's rules: it frees the credentials   *)
(* only when no live session uses its xcred, and, as the documentation of  *)
(* gnutls_sbuf_deinit says ("The GnuTLS session associated with the        *)
(* structure is left intact"), it deinitialises a session it gave to       *)
(* gnutls_sbuf_sinit after the sbuf. Objects are model values; a freed one *)
(* is never reused, so a use after free is visible.                        *)
(***************************************************************************)
EXTENDS Integers, FiniteSets

CONSTANTS
  NULL,
  Sessions,       \* gnutls_session_t objects gnutls_init can hand out
  Sbufs,          \* struct gnutls_sbuf_st objects the allocator can hand out
  Xcreds,         \* gnutls_certificate_credentials_t objects
  VMethods,       \* GNUTLS_VMETHOD_* flags: "SYSTEM_CAS", "GIVEN_CAS", "TOFU"
  AllocFailures,  \* gnutls_init, calloc and the allocators can fail
  LongNames       \* the application may pass a hostname or service that
                  \* does not fit sb->server_name or sb->service_name

ASSUME AllocFailures \in BOOLEAN /\ LongNames \in BOOLEAN /\ NULL \notin Sessions \cup Sbufs \cup Xcreds

VARIABLES
  cred,      \* the gnutls_credentials_t: [st, xcred]
  xc,        \* [Xcreds -> "unalloc" | "live" | "freed"]
  xverify,   \* [Xcreds -> BOOLEAN]: set_verify_function was called on it
  sess,      \* [Sessions -> "unalloc" | "live" | "freed"]
  sessX,     \* [Sessions -> the xcred set on it by gnutls_credentials_set]
  deinits,   \* [Sessions -> number of gnutls_deinit calls on it]
  sb,        \* [Sbufs -> [st, session, cred]]
  held,      \* the sbufs returned to the application and not deinitialised
  appSess,   \* sessions the application made for gnutls_sbuf_sinit
  crashed,   \* the program dereferenced NULL
  last       \* the call that returned last and its result

vars == <<cred, xc, xverify, sess, sessX, deinits, sb, held, appSess, crashed,
          last>>

States == {"unalloc", "live", "freed"}

\* An allocation that may fail, when AllocFailures.
MayFail == IF AllocFailures THEN {TRUE, FALSE} ELSE {FALSE}

Fresh(f) == {o \in DOMAIN f : f[o] = "unalloc"}
FreshSb == {b \in Sbufs : sb[b].st = "unalloc"}

\* gnutls_deinit(s): one more deinit of s, which is freed.
Deinit(s) ==
  /\ sess' = [sess EXCEPT ![s] = "freed"]
  /\ deinits' = [deinits EXCEPT ![s] = @ + 1]

\* Mutant: gnutls_free(sb) missing.
SbufDeinitOfKeepSb(b, s) ==
  /\ Deinit(s)
  /\ UNCHANGED sb

\* gnutls_sbuf_deinit(b) on an sbuf wrapping the session s: gnutls_bye and
\* gnutls_deinit of s, the buffer cleared, b freed.
SbufDeinitOf(b, s) ==
  /\ Deinit(s)
  /\ sb' = [sb EXCEPT ![b].st = "freed"]

\* gnutls_credentials_init: calloc of the structure, xcred NULL.
CredentialsInit ==
  /\ cred.st # "live"
  /\ \E fail \in MayFail :
       /\ cred' = IF fail THEN cred ELSE [st |-> "live", xcred |-> NULL]
       /\ last' = [op |-> "credentials_init", ok |-> ~fail]
  /\ UNCHANGED <<xc, xverify, sess, sessX, deinits, sb, held, appSess, crashed>>

\* Mutant: gnutls_certificate_free_credentials(cred->xcred) missing.
CredentialsDeinitKeepXcred ==
  /\ cred.st = "live"
  /\ \A s \in Sessions : sess[s] = "live" => sessX[s] # cred.xcred
  /\ cred' = [cred EXCEPT !.st = "freed"]
  /\ last' = [op |-> "credentials_deinit", ok |-> TRUE]
  /\ UNCHANGED <<xc, xverify, sess, sessX, deinits, sb, held, appSess, crashed>>

\* gnutls_credentials_deinit: free the xcred if any, then the structure.
CredentialsDeinit ==
  /\ cred.st = "live"
  /\ \A s \in Sessions : sess[s] = "live" => sessX[s] # cred.xcred
  /\ cred' = [cred EXCEPT !.st = "freed"]
  /\ xc' = IF cred.xcred = NULL THEN xc ELSE [xc EXCEPT ![cred.xcred] = "freed"]
  /\ last' = [op |-> "credentials_deinit", ok |-> TRUE]
  /\ UNCHANGED <<xverify, sess, sessX, deinits, sb, held, appSess, crashed>>

(***************************************************************************)
(* gnutls_credentials_set_trust(cred, vflags, aux): allocate cred->xcred   *)
(* if it is NULL (a failure returns at once); load the system CAs, the     *)
(* given CA and CRL files and the TOFU file name as vflags asks, any of    *)
(* which can fail on its input; on success set the verify callback on the  *)
(* xcred. On a failure after the allocation, fail1 frees cred->xcred,      *)
(* whether it was just allocated or already set by an earlier call and in  *)
(* use by sessions, and sets it to NULL. vflags itself is not stored.      *)
(***************************************************************************)
SetTrust(vflags) ==
  /\ cred.st = "live"
  /\ \/ /\ cred.xcred = NULL /\ AllocFailures
        /\ last' = [op |-> "set_trust", ok |-> FALSE]
        /\ UNCHANGED <<cred, xc, xverify>>
     \/ \E x \in IF cred.xcred = NULL THEN Fresh(xc) ELSE {cred.xcred} :
        \E fails \in IF vflags = {} THEN {FALSE} ELSE BOOLEAN :
          /\ xc' = [xc EXCEPT ![x] = IF fails THEN "freed" ELSE "live"]
          /\ cred' = [cred EXCEPT !.xcred = IF fails THEN NULL ELSE x]
          /\ xverify' = IF fails THEN xverify ELSE [xverify EXCEPT ![x] = TRUE]
          /\ last' = [op |-> "set_trust", ok |-> ~fails]
  /\ UNCHANGED <<sess, sessX, deinits, sb, held, appSess, crashed>>

(***************************************************************************)
(* The ends of gnutls_sbuf_client_init and gnutls_sbuf_server_init once    *)
(* gnutls_init has made the session s and calloc the sbuf b. sb->cred is   *)
(* never assigned, so it stays NULL from calloc.                           *)
(***************************************************************************)
Opened(s, b, st) ==
  sb' = [sb EXCEPT ![b] = [st |-> st, session |-> s, cred |-> NULL]]

\* Mutant: gnutls_deinit called a third time on the way out.
Fail1Thrice(s, b, credSet) ==
  /\ Opened(s, b, "freed")
  /\ sess' = [sess EXCEPT ![s] = "freed"]
  /\ deinits' = [deinits EXCEPT ![s] = @ + 3]
  /\ sessX' = IF credSet THEN [sessX EXCEPT ![s] = cred.xcred] ELSE sessX
  /\ UNCHANGED <<held, crashed>>

\* goto fail1: gnutls_sbuf_deinit(sb), which deinitialises sb->session and
\* frees sb, then gnutls_deinit(session) on the same session. credSet says
\* whether gnutls_credentials_set had been reached.
Fail1(s, b, credSet) ==
  /\ Opened(s, b, "freed")
  /\ sess' = [sess EXCEPT ![s] = "freed"]
  /\ deinits' = [deinits EXCEPT ![s] = @ + 2]
  /\ sessX' = IF credSet THEN [sessX EXCEPT ![s] = cred.xcred] ELSE sessX
  /\ UNCHANGED <<held, crashed>>

\* A plain "return" after sb was allocated: s and b stay allocated and the
\* application gets no handle on them.
Abandon(s, b) ==
  /\ Opened(s, b, "live")
  /\ sess' = [sess EXCEPT ![s] = "live"]
  /\ sessX' = [sessX EXCEPT ![s] = cred.xcred]
  /\ UNCHANGED <<deinits, held, crashed>>

\* The handshake completed: *isb = sb.
Done(s, b) ==
  /\ Opened(s, b, "live")
  /\ sess' = [sess EXCEPT ![s] = "live"]
  /\ sessX' = [sessX EXCEPT ![s] = cred.xcred]
  /\ held' = held \cup {b}
  /\ UNCHANGED <<deinits, crashed>>

\* The client's handshake calls _verify_certificate_callback when the xcred
\* has it; the callback reads sb->cred->tofu_file and sb->cred->vflags.
CallbackRuns == cred.xcred # NULL /\ xverify[cred.xcred]

\* _verify_certificate_callback dereferences sb->cred, which is NULL.
Callback(s, b) ==
  /\ Opened(s, b, "live")
  /\ sess' = [sess EXCEPT ![s] = "live"]
  /\ sessX' = [sessX EXCEPT ![s] = cred.xcred]
  /\ crashed' = (sb'[b].cred = NULL)
  /\ UNCHANGED <<deinits, held>>

\* gnutls_init fails, or calloc of sb fails and fail1 (sb NULL) deinits the
\* session once.
EarlyFail(s) ==
  /\ AllocFailures
  /\ \/ UNCHANGED <<sess, deinits>>
     \/ Deinit(s)
  /\ UNCHANGED <<sessX, sb, held, crashed>>

\* gnutls_sbuf_client_init(isb, hostname, service, fd, priority, cred, flags)
ClientInit ==
  /\ cred.st = "live"
  /\ \E s \in Fresh(sess), b \in FreshSb :
       /\ \/ EarlyFail(s)
          \* priority_set_direct or gnutls_credentials_set fails
          \/ AllocFailures /\ Fail1(s, b, FALSE)
          \* hostname or service does not fit sb->server_name/service_name
          \/ LongNames /\ Abandon(s, b)
          \* gnutls_server_name_set fails, or the handshake fails fatally
          \/ Fail1(s, b, TRUE)
          \/ CallbackRuns /\ Callback(s, b)
          \/ ~CallbackRuns /\ Done(s, b)
       /\ last' = [op |-> "client_init", ok |-> b \in held']
  /\ UNCHANGED <<cred, xc, xverify, appSess>>

\* gnutls_sbuf_server_init(isb, fd, priority, cred, flags): the same
\* without the names; the server does not verify a client certificate.
ServerInit ==
  /\ cred.st = "live"
  /\ \E s \in Fresh(sess), b \in FreshSb :
       /\ \/ EarlyFail(s)
          \/ AllocFailures /\ Fail1(s, b, FALSE)
          \/ Fail1(s, b, TRUE)
          \/ Done(s, b)
       /\ last' = [op |-> "server_init", ok |-> b \in held']
  /\ UNCHANGED <<cred, xc, xverify, appSess>>

\* gnutls_sbuf_sinit(isb, session, flags): malloc of sb (which can fail),
\* the buffer initialised, sb->session = session. sb->cred is left
\* uninitialised; it is read only by the callback, which needs the session
\* pointer that sinit does not set.
Sinit(s) ==
  /\ s \in appSess /\ sess[s] = "live"
  /\ \A b \in held : sb[b].session # s
  /\ \E b \in FreshSb, fail \in MayFail :
       /\ sb' = IF fail THEN sb
                ELSE [sb EXCEPT ![b] = [st |-> "live", session |-> s, cred |-> NULL]]
       /\ held' = IF fail THEN held ELSE held \cup {b}
       /\ last' = [op |-> "sinit", ok |-> ~fail]
  /\ UNCHANGED <<cred, xc, xverify, sess, sessX, deinits, appSess, crashed>>

\* gnutls_sbuf_deinit(sb) on a handle the application holds.
SbufDeinit(b) ==
  /\ b \in held
  /\ SbufDeinitOf(b, sb[b].session)
  /\ held' = held \ {b}
  /\ last' = [op |-> "sbuf_deinit", ok |-> TRUE]
  /\ UNCHANGED <<cred, xc, xverify, sessX, appSess, crashed>>

\* The application makes a session for gnutls_sbuf_sinit, and deinits it
\* once no sbuf it holds wraps it.
AppSessionInit ==
  /\ \E s \in Fresh(sess) :
       /\ sess' = [sess EXCEPT ![s] = "live"]
       /\ appSess' = appSess \cup {s}
  /\ last' = [op |-> "app_init", ok |-> TRUE]
  /\ UNCHANGED <<cred, xc, xverify, sessX, deinits, sb, held, crashed>>

AppSessionDeinit(s) ==
  /\ s \in appSess
  /\ \A b \in held : sb[b].session # s
  /\ Deinit(s)
  /\ appSess' = appSess \ {s}
  /\ last' = [op |-> "app_deinit", ok |-> TRUE]
  /\ UNCHANGED <<cred, xc, xverify, sessX, sb, held, crashed>>

Init ==
  /\ cred = [st |-> "none", xcred |-> NULL]
  /\ xc = [x \in Xcreds |-> "unalloc"]
  /\ xverify = [x \in Xcreds |-> FALSE]
  /\ sess = [s \in Sessions |-> "unalloc"]
  /\ sessX = [s \in Sessions |-> NULL]
  /\ deinits = [s \in Sessions |-> 0]
  /\ sb = [b \in Sbufs |-> [st |-> "unalloc", session |-> NULL, cred |-> NULL]]
  /\ held = {} /\ appSess = {} /\ crashed = FALSE
  /\ last = [op |-> "none", ok |-> TRUE]

\* A NULL dereference ends the program.
Next ==
  /\ ~crashed
  /\ \/ CredentialsInit \/ CredentialsDeinit
     \/ \E v \in SUBSET VMethods : SetTrust(v)
     \/ ClientInit \/ ServerInit
     \/ \E s \in Sessions : Sinit(s) \/ AppSessionDeinit(s)
     \/ AppSessionInit
     \/ \E b \in Sbufs : SbufDeinit(b)

Spec == Init /\ [][Next]_vars

-----------------------------------------------------------------------------
TypeOK ==
  /\ cred.st \in {"none", "live", "freed"}
  /\ cred.xcred \in Xcreds \cup {NULL}
  /\ xc \in [Xcreds -> States] /\ xverify \in [Xcreds -> BOOLEAN]
  /\ sess \in [Sessions -> States] /\ sessX \in [Sessions -> Xcreds \cup {NULL}]
  /\ deinits \in [Sessions -> 0..2]
  /\ \A b \in Sbufs : sb[b].st \in States /\ sb[b].session \in Sessions \cup {NULL}
  /\ held \subseteq Sbufs /\ appSess \subseteq Sessions /\ crashed \in BOOLEAN

\* gnutls_sbuf_get_session: sb->session.
GetSession(b) == sb[b].session

\* No sbuf outlives the session it wraps: the session gnutls_sbuf_get_session
\* returns for a live sbuf is live. gnutls_sbuf_deinit deinits the session
\* and frees the sbuf together, and every fail1 of the init functions frees
\* the sbuf it deinits.
SbufWrapsLiveSession ==
  \A b \in Sbufs : sb[b].st = "live" => sess[GetSession(b)] = "live"

(***************************************************************************)
(* The live credentials own exactly the live xcreds. An xcred is only      *)
(* allocated into cred->xcred by set_trust, a later set_trust reuses it,   *)
(* set_trust's fail1 frees it and sets cred->xcred to NULL, and            *)
(* credentials_deinit frees it with the structure: across any sequence of  *)
(* these calls the credentials never point at a freed xcred and no live    *)
(* xcred is left unreachable.                                              *)
(***************************************************************************)
CredentialsOwnXcred ==
  \A x \in Xcreds : xc[x] = "live" <=> (cred.st = "live" /\ cred.xcred = x)

(***************************************************************************)
(* Every session has one owner, who frees it once: gnutls_deinit runs at   *)
(* most once on it (fail1 of the init functions calls gnutls_sbuf_deinit,  *)
(* which deinits sb->session, then gnutls_deinit(session)); a live session *)
(* is held by the application or wrapped by an sbuf the application holds  *)
(* (the plain returns on a too long hostname or service); and a session    *)
(* the application gave to gnutls_sbuf_sinit stays live until it           *)
(* deinitialises it ("left intact" by gnutls_sbuf_deinit).                 *)
(***************************************************************************)
SessionOwnership ==
  /\ \A s \in Sessions : deinits[s] <= 1
  /\ \A s \in Sessions :
       sess[s] = "live" => s \in appSess \/ \E b \in held : sb[b].session = s
  /\ \A s \in appSess : sess[s] = "live"

(***************************************************************************)
(* A session the application holds, through an sbuf returned to it, only   *)
(* uses a live xcred: no call frees the certificate credential that        *)
(* gnutls_credentials_set gave to a session still in use. set_trust's      *)
(* fail1 frees cred->xcred, and sets it to NULL, also when an earlier      *)
(* successful call set it up and a server session made since uses it.      *)
(***************************************************************************)
SessionXcredLive ==
  \A b \in held :
    sessX[GetSession(b)] # NULL => xc[sessX[GetSession(b)]] = "live"
=============================================================================
