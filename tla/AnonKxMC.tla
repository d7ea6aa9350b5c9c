------------------------------ MODULE AnonKxMC ------------------------------
(***************************************************************************)
(* Instantiates AnonKx for TLC. Groups are small primes with a generator;  *)
(* bit requests are the parameter source's size classes. In OneGroup every *)
(* request is served by the same group (the source's single size class);   *)
(* in TwoGroups 768 and 1024 bits get different moduli.                    *)
(***************************************************************************)
EXTENDS AnonKx

Group11 == [p |-> 11, g |-> 2]
Group7  == [p |-> 7, g |-> 3]

OneGroup  == [b \in {768, 1024} |-> Group11]
TwoGroups == (768 :> Group7) @@ (1024 :> Group11)
=============================================================================
