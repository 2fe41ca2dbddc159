---------------------------- MODULE MCUpdaterTasks ----------------------------
(* Instances of UpdaterTasks for TLC. *)
EXTENDS UpdaterTasks, TLC

A == Name(<<"a", "com">>, FALSE, FALSE)
ADot == Name(<<"a", "com">>, FALSE, TRUE)
WwwA == Name(<<"www", "a", "com">>, TRUE, FALSE)
B == Name(<<"b", "com">>, FALSE, FALSE)

\* No name; one name in two spellings; with one below it; with one outside the
\* allow-list; a repeated name, which matches both of these.
MCDomainLists == {<<>>, <<A>>, <<ADot>>, <<WwwA, A>>, <<A, B>>, <<A, A>>}
MCConfigured == {<<A>>}
=============================================================================
