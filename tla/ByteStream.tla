----------------------------- MODULE ByteStream -----------------------------
(***************************************************************************)
(* What a buffered writer over a record connection promises its peer: the  *)
(* bytes the peer has been sent are always a prefix of the bytes the       *)
(* application handed to the writer. Bytes are accepted at the end of the  *)
(* stream, and the peer's part grows by sending the next accepted bytes,   *)
(* never by skipping, repeating or reordering any. A step may do both, as  *)
(* a write that flushes full records does.                                 *)
(***************************************************************************)
EXTENDS Sequences, SequencesExt

VARIABLES
  accepted,   \* every byte the application has handed over, in order
  delivered   \* every byte the peer has been sent, in order

vars == <<accepted, delivered>>

Init == accepted = <<>> /\ delivered = <<>>

\* Accept some bytes at the end of the stream and deliver some of the
\* accepted ones that were not yet delivered.
AcceptAndDeliver ==
  /\ IsPrefix(accepted, accepted')
  /\ IsPrefix(delivered, delivered')
  /\ IsPrefix(delivered', accepted')

Spec == Init /\ [][AcceptAndDeliver]_vars
=============================================================================
