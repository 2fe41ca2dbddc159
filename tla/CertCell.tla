------------------------------- MODULE CertCell -------------------------------
(***************************************************************************)
(* What a certEntry promises to the rest of the server, whoever renews it: *)
(* renewals happen one at a time, only when the cached certificate is not  *)
(* valid, each one counts one version, and a renewal is handed to the      *)
(* cache file writer (or given up) before the next one begins.             *)
(***************************************************************************)
EXTENDS Naturals

VARIABLES
  cert,     \* the cached certificate, by the number of its issuance
  valid,    \* whether it is valid now
  version,  \* renewals since the process started
  handing   \* the renewed certificate not yet handed over, or 0

cellVars == <<cert, valid, version, handing>>

Init ==
  /\ \/ cert = 0 /\ valid = FALSE
     \/ cert = 1 /\ valid = TRUE
  /\ version = 0
  /\ handing = 0

Expire ==
  /\ valid
  /\ valid' = FALSE
  /\ UNCHANGED <<cert, version, handing>>

Renew ==
  /\ ~valid
  /\ handing = 0
  /\ cert' = cert + 1
  /\ valid' = TRUE
  /\ version' = version + 1
  /\ handing' = cert + 1

Settle ==
  /\ handing # 0
  /\ handing' = 0
  /\ UNCHANGED <<cert, valid, version>>

Next == Expire \/ Renew \/ Settle

Spec == Init /\ [][Next]_cellVars
=============================================================================
