----------------------------- MODULE MCCertEntry -----------------------------
(* Instances of CertEntry for TLC. *)
EXTENDS CertEntry, TLC

\* Goroutines of a kind are interchangeable.
Symmetry == Permutations(Streams) \cup Permutations(Renewers)
=============================================================================
