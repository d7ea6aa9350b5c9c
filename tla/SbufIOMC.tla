------------------------------ MODULE SbufIOMC ------------------------------
(* Model of one sbuf: records of 2 bytes, writes of 1 to 3 bytes. *)
EXTENDS SbufIO
=============================================================================
