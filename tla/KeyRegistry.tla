----------------------------- MODULE KeyRegistry -----------------------------
(***************************************************************************)
(* What the API key store promises its clients: a durable set of keys,     *)
(* each added once and revoked for good, and never without an active key   *)
(* once it had one.                                                        *)
(***************************************************************************)
CONSTANT Secrets
VARIABLE status   \* secret |-> "unknown", "active" or "revoked"

Active == {k \in Secrets : status[k] = "active"}

RegInit == status = [k \in Secrets |-> "unknown"]

RegAdd(k) == status[k] = "unknown" /\ status' = [status EXCEPT ![k] = "active"]

RegRevoke(k) ==
  /\ status[k] = "active" /\ Active \ {k} # {}
  /\ status' = [status EXCEPT ![k] = "revoked"]

RegNext == \E k \in Secrets : RegAdd(k) \/ RegRevoke(k)

RegSpec == RegInit /\ [][RegNext]_status
=============================================================================
