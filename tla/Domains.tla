------------------------------- MODULE Domains -------------------------------
(***************************************************************************)
(* pkg/domain: names, the keys of domain sets and the allow-list.  A name  *)
(* is the sequence of its labels as they are written, in upper case or     *)
(* not, with or without a trailing root dot.                               *)
(***************************************************************************)
EXTENDS Sequences, SequencesExt

Name(labels, upper, dot) == [labels |-> labels, upper |-> upper, dot |-> dot]

toLower(n) == [n EXCEPT !.upper = FALSE]

\* Lower case, without the trailing dot.
normalizeName(n) == [toLower(n) EXCEPT !.dot = FALSE]

\* The empty string.
isEmpty(n) == n.labels = <<>> /\ ~n.dot

\* The hash of the sorted, de-duplicated normal forms, empty ones left out; two sets
\* never collide here.
AsKey(domains) == {n \in {normalizeName(domains[i]) : i \in DOMAIN domains} : ~isEmpty(n)}

\* The name is an allowed one, or ends in a dot and an allowed one.
IsSubdomain(d, allowedDomains) ==
  \E i \in DOMAIN allowedDomains :
    LET parent == normalizeName(allowedDomains[i]).labels
        labels == normalizeName(d).labels
    IN labels = parent \/ (parent # <<>> /\ IsSuffix(parent, labels))

AllAllowed(allowedList, toCheck) ==
  \A i \in DOMAIN toCheck : IsSubdomain(toCheck[i], allowedList)
=============================================================================
