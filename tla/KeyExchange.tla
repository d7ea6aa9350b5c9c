----------------------------- MODULE KeyExchange -----------------------------
(***************************************************************************)
(* What a two-party key exchange promises the handshake layer above it.    *)
(* Each party runs until it completes with a key or fails. A party that    *)
(* completes after its peer completed holds the peer's key. Completed and  *)
(* failed are final for the handshake; once both parties have completed, a *)
(* new handshake may start on the same sessions. Key material is visible   *)
(* only for a completed party. Every running party eventually completes or *)
(* fails.                                                                  *)
(***************************************************************************)
CONSTANTS
  Parties,   \* the two parties
  NoKey      \* the key of a party that has not completed

VARIABLES
  status,    \* [Parties -> {"running", "completed", "failed"}]
  key        \* [Parties -> the key a completed party holds, else NoKey]

vars == <<status, key>>

Init ==
  /\ status = [p \in Parties |-> "running"]
  /\ key = [p \in Parties |-> NoKey]

\* Party p completes; if another party already completed, with its key.
Complete(p) ==
  /\ status[p] = "running"
  /\ status' = [status EXCEPT ![p] = "completed"]
  /\ key'[p] # NoKey
  /\ key' = [key EXCEPT ![p] = key'[p]]
  /\ \A q \in Parties : status[q] = "completed" => key'[p] = key[q]

Fail(p) ==
  /\ status[p] = "running"
  /\ status' = [status EXCEPT ![p] = "failed"]
  /\ UNCHANGED key

\* A new handshake on sessions that both completed the last one.
Restart ==
  /\ \A p \in Parties : status[p] = "completed"
  /\ Init'

Next == Restart \/ \E p \in Parties : Complete(p) \/ Fail(p)

\* The promise of progress, stated directly rather than as fairness on the
\* actions: a running party does not stay running.
Ends == \A p \in Parties : (status[p] = "running") ~> (status[p] # "running")

Spec == Init /\ [][Next]_vars /\ Ends
=============================================================================
