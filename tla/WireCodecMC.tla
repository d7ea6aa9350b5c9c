---------------------------- MODULE WireCodecMC ----------------------------
(***************************************************************************)
(* Checks the decoders of WireCodec against the reference decoder over a   *)
(* bounded set of inputs: every server message whose three fields have     *)
(* 0..MaxField value bytes, every prefix of one, every short buffer over a *)
(* small alphabet that includes the oversized length byte 255, and every   *)
(* buffer of MaxBinary bytes of 0 and 1 (non-minimal, zero-length fields). *)
(* The input is fixed by Init; the properties are invariants over it.      *)
(***************************************************************************)
EXTENDS WireCodec, FiniteSets

CONSTANTS
  MaxField,   \* the largest value length, in bytes, of a generated field
  Alphabet,   \* the byte values of the short arbitrary buffers
  MaxGarbage, \* the length of the longest arbitrary buffer over Alphabet
  MaxBinary   \* the length of the longest arbitrary buffer over {0, 1}

VARIABLE input

\* A value of n bytes whose minimal encoding has n bytes.
ValueOfLen(n) == MpiScan([j \in 1..n |-> 1])

ValidServerMsgs ==
  { EncodeServerKx(ValueOfLen(a), ValueOfLen(b), ValueOfLen(c)) :
      a, b, c \in 0..MaxField }

Inputs ==
  UNION { Prefixes(m) : m \in ValidServerMsgs }
    \cup BoundedSeq(Alphabet, MaxGarbage) \cup BoundedSeq({0, 1}, MaxBinary)

Init == input \in Inputs

Next == UNCHANGED input

Spec == Init /\ [][Next]_input

\* Values of a decoded field list.
Values(fields) == [j \in DOMAIN fields |-> MpiScan(fields[j])]

(***************************************************************************)
(* Soundness of proc_anon_server_kx's decoder: whenever it accepts a       *)
(* buffer, the buffer is a well-formed three-field message and the code    *)
(* delivers exactly the fields the reference decoder reads. In particular  *)
(* every prefix-truncation of a valid message is rejected.                 *)
(***************************************************************************)
ServerDecodeSound ==
  LET code == DecodeServerKx(input)
      ref  == RefDecode(input, 3)
  IN  code.err = "OK" => ref.ok /\ Values(code.vals) = Values(ref.vals)

(***************************************************************************)
(* Neither decoder reads a byte at or past the end of the buffer, for any  *)
(* buffer, including declared lengths up to 65535 with few bytes present.  *)
(***************************************************************************)
ReadsInBounds ==
  /\ \A j \in DecodeServerKx(input).reads : j \in 1..Len(input)
  /\ \A j \in DecodeClientKx(input).reads : j \in 1..Len(input)

(***************************************************************************)
(* proc_anon_client_kx's decoder accepts exactly what the reference        *)
(* accepts and yields the same value of Y.                                 *)
(***************************************************************************)
ClientDecodeExact ==
  LET code == DecodeClientKx(input)
      ref  == RefDecode(input, 1)
  IN  /\ (code.err = "OK") = ref.ok
      /\ ref.ok => Values(code.vals) = Values(ref.vals)

(***************************************************************************)
(* Round trip of the server message (spec section 8): every message that   *)
(* gen_anon_server_kx can write is accepted by proc_anon_server_kx with    *)
(* the same three values.                                                  *)
(***************************************************************************)
ServerRoundTrip ==
  input \in ValidServerMsgs =>
    LET code == DecodeServerKx(input)
    IN  code.err = "OK" /\ Values(code.vals) = Values(RefDecode(input, 3).vals)
=============================================================================
