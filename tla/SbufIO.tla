------------------------------- MODULE SbufIO -------------------------------
(***************************************************************************)
(* The I/O calls of one gnutls_sbuf_t of src/lib/sbuf.c on an established  *)
(* session: gnutls_sbuf_write, gnutls_sbuf_printf, gnutls_sbuf_flush,      *)
(* gnutls_sbuf_read, gnutls_sbuf_handshake and gnutls_sbuf_deinit. The     *)
(* object is used by one thread on a blocking socket, so each call is one  *)
(* step, its retry loops included.                                         *)
(*                                                                         *)
(* gnutls_record_send (outside src/) is modelled by its contract: it sends *)
(* between 1 byte and one record (MaxRecord) of what it is given, fails    *)
(* non-fatally (the callers retry), or fails fatally, after which the      *)
(* session is invalid and every record call fails. Byte values are their   *)
(* positions in the stream the application writes, so a lost, repeated or *)
(* reordered byte is visible. Bytes the peer sends are only counted.       *)
(***************************************************************************)
EXTENDS Integers, Sequences, SequencesExt

CONSTANTS
  MaxRecord,    \* MAX_RECORD_SEND_SIZE(session): bytes of one record
  WriteSizes,   \* data_size values the application passes to write
  MaxWritten,   \* bound on the bytes the application writes in total
  Flushes,      \* sb->flags has GNUTLS_SBUF_WRITE_FLUSHES
  ReadSizes,    \* data_size values the application passes to read
  MaxPeer       \* bound on the bytes the peer sends

ASSUME MaxRecord \in Nat \ {0} /\ Flushes \in BOOLEAN
ASSUME WriteSizes \subseteq Nat \ {0} /\ ReadSizes \subseteq Nat \ {0}

VARIABLES
  buf,       \* sb->buf: the bytes queued and not yet sent
  wire,      \* the bytes gnutls_record_send has sent to the peer
  written,   \* the bytes appended to sb->buf by write, in order
  broken,    \* a record call failed fatally: the session is invalid
  open,      \* gnutls_sbuf_deinit has not been called
  inbox,     \* bytes the peer has sent and the application not read
  peerSent,  \* bytes the peer has sent in total
  peerEof,   \* the peer has closed its side
  last       \* the call that returned last: [op, ret, sent, got]

vars == <<buf, wire, written, broken, open, inbox, peerSent, peerEof, last>>

\* A negative error code, as the calls return it.
ERR == -1

MinOf(a, b) == IF a < b THEN a ELSE b

\* What one call of gnutls_record_send on the bytes b can send.
RecordSend(b) == 1..MinOf(Len(b), MaxRecord)

(***************************************************************************)
(* The loop "while (length >= min) { do ret = gnutls_record_send(...)      *)
(* while (non-fatal); if (ret < 0) return ret; data += ret; length -= ret; *)
(* total += ret; }" shared by write and flush: the set of its outcomes on  *)
(* the queued bytes b with the running total, as the bytes left, the bytes *)
(* sent in order, the total and whether it returned a fatal error. Once    *)
(* the session is invalid every call fails.                                *)
(***************************************************************************)
\* Mutant: "data += ret + 1", one byte skipped after every send.
SendStepSkip(b, r) == SubSeq(b, r + 2, Len(b))

SendStep(b, r) == SubSeq(b, r + 1, Len(b))

\* Mutant: the running total is not advanced ("total = ret" lost).
RECURSIVE SendLoopNoTotal(_, _, _, _)
SendLoopNoTotal(b, min, total, dead) ==
  IF Len(b) < min
  THEN {[rest |-> b, out |-> <<>>, total |-> total, err |-> FALSE]}
  ELSE {[rest |-> b, out |-> <<>>, total |-> total, err |-> TRUE]}
       \cup
       IF dead THEN {}
       ELSE UNION {{[o EXCEPT !.out = SubSeq(b, 1, r) \o @]
                      : o \in SendLoopNoTotal(SendStep(b, r), min, total, FALSE)}
                   : r \in RecordSend(b)}

RECURSIVE SendLoop(_, _, _, _)
SendLoop(b, min, total, dead) ==
  IF Len(b) < min
  THEN {[rest |-> b, out |-> <<>>, total |-> total, err |-> FALSE]}
  ELSE {[rest |-> b, out |-> <<>>, total |-> total, err |-> TRUE]}
       \cup
       IF dead THEN {}
       ELSE UNION {{[o EXCEPT !.out = SubSeq(b, 1, r) \o @]
                      : o \in SendLoop(SendStep(b, r), min, total + r, FALSE)}
                   : r \in RecordSend(b)}

\* Apply an outcome of the send loop to the state; the session is invalid
\* after a fatal error.
Sent(o) ==
  /\ buf' = o.rest
  /\ wire' = wire \o o.out
  /\ broken' = (broken \/ o.err)

\* The n next bytes of the application's stream.
Data(n) == [k \in 1..n |-> Len(written) + k]

\* Mutant: the flushing loop runs while length > the record size.
WriteGt(n) ==
  /\ open
  /\ Len(written) + n <= MaxWritten
  /\ written' = written \o Data(n)
  /\ \E o \in SendLoop(buf \o Data(n),
                       IF Flushes THEN MaxRecord + 1 ELSE Len(buf) + n + 1,
                       0, broken) :
       /\ Sent(o)
       /\ last' = [op |-> "write", ret |-> IF o.err THEN ERR ELSE n,
                   sent |-> Len(o.out), got |-> 0]
  /\ UNCHANGED <<open, inbox, peerSent, peerEof>>

\* gnutls_sbuf_write: append to sb->buf (the append can fail on memory),
\* then, with GNUTLS_SBUF_WRITE_FLUSHES, send while a full record is
\* queued. Returns data_size, or the error of a fatal send.
Write(n) ==
  /\ open
  /\ Len(written) + n <= MaxWritten
  /\ \/ /\ last' = [op |-> "write", ret |-> ERR, sent |-> 0, got |-> 0]
        /\ UNCHANGED <<buf, wire, written, broken>>
     \/ /\ written' = written \o Data(n)
        /\ \E o \in SendLoop(buf \o Data(n),
                             IF Flushes THEN MaxRecord ELSE Len(buf) + n + 1,
                             0, broken) :
             /\ Sent(o)
             /\ last' = [op |-> "write", ret |-> IF o.err THEN ERR ELSE n,
                         sent |-> Len(o.out), got |-> 0]
  /\ UNCHANGED <<open, inbox, peerSent, peerEof>>

\* gnutls_sbuf_printf: vasprintf the string (which can fail on memory),
\* then gnutls_sbuf_write it.
Printf(n) ==
  \/ /\ open
     /\ last' = [op |-> "printf", ret |-> ERR, sent |-> 0, got |-> 0]
     /\ UNCHANGED <<buf, wire, written, broken, open, inbox, peerSent, peerEof>>
  \/ Write(n)

\* gnutls_sbuf_flush: send while bytes are queued, adding up what was
\* sent. Returns the total, or the error of a fatal send.
Flush ==
  /\ open
  /\ \E o \in SendLoop(buf, 1, 0, broken) :
       /\ Sent(o)
       /\ last' = [op |-> "flush", ret |-> IF o.err THEN ERR ELSE o.total,
                   sent |-> Len(o.out), got |-> 0]
  /\ UNCHANGED <<written, open, inbox, peerSent, peerEof>>

\* Mutant: the bytes consumed are counted as data_size, not as received.
ReadConsumesSize(size) ==
  /\ open
  /\ \/ \E got \in 1..MinOf(size, inbox) :
          /\ ~broken
          /\ inbox' = inbox - size
          /\ last' = [op |-> "read", ret |-> 0, sent |-> 0, got |-> got]
          /\ UNCHANGED broken
     \/ /\ ~broken /\ inbox = 0 /\ peerEof
        /\ last' = [op |-> "read", ret |-> 0, sent |-> 0, got |-> 0]
        /\ UNCHANGED <<inbox, broken>>
     \/ /\ broken' = TRUE
        /\ last' = [op |-> "read", ret |-> ERR, sent |-> 0, got |-> 0]
        /\ UNCHANGED inbox
  /\ UNCHANGED <<buf, wire, written, open, peerSent, peerEof>>

\* gnutls_sbuf_read: gnutls_record_recv, retried on non-fatal errors. It
\* receives up to data_size of the bytes the peer sent, 0 at the peer's
\* EOF, or fails fatally; it blocks while nothing has arrived. A fatal
\* error is returned; otherwise the code returns 0.
Read(size) ==
  /\ open
  /\ \/ \E got \in 1..MinOf(size, inbox) :
          /\ ~broken
          /\ inbox' = inbox - got
          /\ last' = [op |-> "read", ret |-> 0, sent |-> 0, got |-> got]
          /\ UNCHANGED broken
     \/ /\ ~broken /\ inbox = 0 /\ peerEof
        /\ last' = [op |-> "read", ret |-> 0, sent |-> 0, got |-> 0]
        /\ UNCHANGED <<inbox, broken>>
     \/ /\ broken' = TRUE
        /\ last' = [op |-> "read", ret |-> ERR, sent |-> 0, got |-> 0]
        /\ UNCHANGED inbox
  /\ UNCHANGED <<buf, wire, written, open, peerSent, peerEof>>

\* gnutls_sbuf_handshake: a new handshake on the session, retried on
\* non-fatal errors; on a fatal one an alert is sent (retried likewise)
\* and the error returned.
Handshake ==
  /\ open
  /\ \/ /\ ~broken
        /\ last' = [op |-> "handshake", ret |-> 0, sent |-> 0, got |-> 0]
        /\ UNCHANGED broken
     \/ /\ broken' = TRUE
        /\ last' = [op |-> "handshake", ret |-> ERR, sent |-> 0, got |-> 0]
  /\ UNCHANGED <<buf, wire, written, open, inbox, peerSent, peerEof>>

\* gnutls_sbuf_deinit: gnutls_bye and gnutls_deinit on the session, then
\* _gnutls_buffer_clear drops what is still queued and sb is freed.
Deinit ==
  /\ open
  /\ open' = FALSE
  /\ buf' = <<>>
  /\ last' = [op |-> "deinit", ret |-> 0, sent |-> 0, got |-> 0]
  /\ UNCHANGED <<wire, written, broken, inbox, peerSent, peerEof>>

\* The peer sends a byte, or closes its side.
PeerSend ==
  /\ peerSent < MaxPeer /\ ~peerEof
  /\ peerSent' = peerSent + 1
  /\ inbox' = inbox + 1
  /\ UNCHANGED <<buf, wire, written, broken, open, peerEof, last>>

PeerClose ==
  /\ ~peerEof
  /\ peerEof' = TRUE
  /\ UNCHANGED <<buf, wire, written, broken, open, inbox, peerSent, last>>

Init ==
  /\ buf = <<>> /\ wire = <<>> /\ written = <<>>
  /\ broken = FALSE /\ open = TRUE
  /\ inbox = 0 /\ peerSent = 0 /\ peerEof = FALSE
  /\ last = [op |-> "none", ret |-> 0, sent |-> 0, got |-> 0]

Next ==
  \/ \E n \in WriteSizes : Write(n) \/ Printf(n)
  \/ Flush
  \/ \E size \in ReadSizes : Read(size)
  \/ Handshake
  \/ Deinit
  \/ PeerSend
  \/ PeerClose

Spec == Init /\ [][Next]_vars

-----------------------------------------------------------------------------
TypeOK ==
  /\ buf \in Seq(Nat) /\ wire \in Seq(Nat) /\ written \in Seq(Nat)
  /\ broken \in BOOLEAN /\ open \in BOOLEAN /\ peerEof \in BOOLEAN
  /\ inbox \in 0..MaxPeer /\ peerSent \in 0..MaxPeer
  /\ last.ret \in Nat \cup {ERR}

(***************************************************************************)
(* The send buffer implements the byte stream: what gnutls_record_send has *)
(* sent is always a prefix of what write appended to sb->buf, across       *)
(* partial sends, retries, fatal errors and deinit ("data += ret; length   *)
(* -= ret" in write and flush).                                            *)
(***************************************************************************)
Stream == INSTANCE ByteStream WITH accepted <- written, delivered <- wire

StreamRefinement == Stream!Spec

\* With GNUTLS_SBUF_WRITE_FLUSHES, while the session is valid no call of
\* write, printf, flush or read leaves a full record queued in sb->buf:
\* the loop of gnutls_sbuf_write runs while length >= the record size.
FlushesBoundBuffer == (Flushes /\ ~broken) => Len(buf) < MaxRecord

\* A flush that returns a count has emptied sb->buf and returns exactly
\* the number of bytes it handed to gnutls_record_send over all its
\* partial sends (the "total += ret" of gnutls_sbuf_flush).
FlushReportsSent ==
  (last.op = "flush" /\ last.ret # ERR) =>
      /\ last.ret = last.sent
      /\ buf = <<>>
=============================================================================
