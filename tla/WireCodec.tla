----------------------------- MODULE WireCodec -----------------------------
(***************************************************************************)
(* The wire codec of the anonymous Diffie-Hellman key exchange             *)
(* (src/lib/auth_anon.c): a message is a sequence of big integers, each    *)
(* written as a 2-byte big-endian length followed by the minimal           *)
(* big-endian bytes of the value.                                          *)
(*                                                                         *)
(* Bytes are naturals in 0..255 and a message is a sequence of bytes.      *)
(* The decoders are the code's own cursor arithmetic (DECR_LEN on the      *)
(* remaining size, an offset i), and they record every index they read so *)
(* that reads past the end of the buffer are visible.                      *)
(***************************************************************************)
EXTENDS Integers, Sequences, SequencesExt

\* WRITEuint16: the 2-byte big-endian form of n.
WRITEuint16(n) == << n \div 256, n % 256 >>

\* The byte at 1-based position j. A read past the end is undefined in C;
\* its value is irrelevant because every such read is recorded in "reads".
ByteAt(data, j) == IF j \in 1..Len(data) THEN data[j] ELSE 0

\* READuint16 at 0-based offset i.
READuint16(data, i) == ByteAt(data, i + 1) * 256 + ByteAt(data, i + 2)

\* _gnutls_mpi_print (gcry_mpi_print, unsigned format): the minimal
\* big-endian bytes of v; the value 0 prints as no bytes.
RECURSIVE MpiPrint(_)
MpiPrint(v) == IF v = 0 THEN << >> ELSE MpiPrint(v \div 256) \o << v % 256 >>

\* _gnutls_mpi_scan (unsigned format): the value of a big-endian byte run.
MpiScan(bytes) == FoldLeft(LAMBDA acc, b : acc * 256 + b, 0, bytes)

\* One length-prefixed field, as gen_anon_server_kx and gen_anon_client_kx
\* lay it out: _gnutls_mpi_print into &data[2], then WRITEuint16 of n before it.
Field(v) == WRITEuint16(Len(MpiPrint(v))) \o MpiPrint(v)

\* The server's message: len(p) | p | len(g) | g | len(X) | X.
EncodeServerKx(p, g, X) == Field(p) \o Field(g) \o Field(X)

\* The client's message: len(X) | X. The code first stores 1 in data[0]
\* and then overwrites data[0..1] with WRITEuint16; only the length remains.
EncodeClientKx(X) == Field(X)

Ok(vals, reads) == [err |-> "OK", vals |-> vals, reads |-> reads]
Fail(reads) == [err |-> "UNEXPECTED_PACKET_LENGTH", vals |-> << >>, reads |-> reads]

\* DECR_LEN(data_size, 2) passes: the 2-byte length is there.
\* Mutant: the DECR_LEN before READuint16 is missing.
LenFitsUnchecked(rem) == TRUE
LenFits(rem) == rem - 2 >= 0

\* The offset after a field of n bytes: "i += 2" then "i += n".
\* Mutant: "i += n" is missing.
NextOffsetNoSkip(i, n) == i + 2
NextOffset(i, n) == i + 2 + n

(***************************************************************************)
(* The decoders of proc_anon_server_kx and proc_anon_client_kx. For field  *)
(* k of count, at 0-based offset i, with rem bytes left of data_size:      *)
(*   DECR_LEN(data_size, 2); n = READuint16(&data[i]); i += 2;             *)
(*   DECR_LEN(data_size, n); data_k = &data[i]; i += n;                    *)
(* and, after the first field of the server message only (line 204),       *)
(*   if (i > data_size) return GNUTLS_E_UNEXPECTED_PACKET_LENGTH;          *)
(* which compares an offset with a remaining length. DECR_LEN returns      *)
(* UNEXPECTED_PACKET_LENGTH once data_size drops below 0. The value bytes  *)
(* are read later by _gnutls_mpi_scan and are recorded as reads.           *)
(***************************************************************************)
RECURSIVE DecodeFields(_, _, _, _, _)
DecodeFields(data, rem, i, k, count) ==
  LET n        == READuint16(data, i)
      lenReads == {i + 1, i + 2}
      valReads == {i + 2 + j : j \in 1..n}
      rest     == DecodeFields(data, rem - 2 - n, NextOffset(i, n), k + 1, count)
  IN  IF k > count THEN Ok(<< >>, {})
      ELSE IF ~LenFits(rem) THEN Fail({})
      ELSE IF rem - 2 - n < 0 THEN Fail(lenReads)
      ELSE IF count = 3 /\ k = 1 /\ NextOffset(i, n) > rem - 2 - n THEN Fail(lenReads)
      ELSE [rest EXCEPT !.vals  = << SubSeq(data, i + 3, i + 2 + n) >> \o @,
                        !.reads = lenReads \cup valReads \cup @]

\* Lines 196-222: the three fields p, g, Y of the server's message.
DecodeServerKx(data) == DecodeFields(data, Len(data), 0, 1, 3)

\* Mutant: the 2 bytes of the length are subtracted from data_size twice.
DecodeClientKxTwice(data) == DecodeFields(data, Len(data) - 2, 0, 1, 1)

\* Lines 277-282: the single field Y of the client's message.
DecodeClientKx(data) == DecodeFields(data, Len(data), 0, 1, 1)

(***************************************************************************)
(* The reference decoder of the spec (section 9): a cursor over the buffer *)
(* whose take(n) fails when fewer than n bytes remain; count fields are    *)
(* read left to right, and nothing is delivered on failure.                *)
(***************************************************************************)
RECURSIVE RefDecode(_, _)
RefDecode(data, count) ==
  IF count = 0 THEN [ok |-> TRUE, vals |-> << >>]
  ELSE IF Len(data) < 2 THEN [ok |-> FALSE, vals |-> << >>]
  ELSE LET n    == data[1] * 256 + data[2]
           rest == RefDecode(SubSeq(data, 3 + n, Len(data)), count - 1)
       IN  IF Len(data) - 2 < n THEN [ok |-> FALSE, vals |-> << >>]
           ELSE IF ~rest.ok THEN rest
           ELSE [ok |-> TRUE, vals |-> << SubSeq(data, 3, 2 + n) >> \o rest.vals]
=============================================================================
