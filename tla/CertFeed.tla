------------------------------- MODULE CertFeed -------------------------------
(***************************************************************************)
(* What one SDS stream promises to the programs that use the certificates: *)
(* for each pack the client applies certificates the server has issued,    *)
(* each newer than the one before.  It may skip some.                      *)
(***************************************************************************)
EXTENDS Naturals

CONSTANT Packs

VARIABLES
  issued,   \* the newest certificate of each pack, by number
  applied   \* the one each watcher took last, 0 before the first

feedVars == <<issued, applied>>

Init ==
  /\ issued \in [Packs -> Nat]
  /\ applied = [p \in Packs |-> 0]

Issue(p) ==
  /\ issued' = [issued EXCEPT ![p] = @ + 1]
  /\ UNCHANGED applied

Apply(p) ==
  /\ \E v \in (applied[p] + 1) .. issued[p] : applied' = [applied EXCEPT ![p] = v]
  /\ UNCHANGED issued

Next == \E p \in Packs : Issue(p) \/ Apply(p)

Spec == Init /\ [][Next]_feedVars
=============================================================================
