--------------------------- MODULE MCPublication ---------------------------
(* Small instances of Publication for TLC. *)
EXTENDS Publication

CONSTANTS t1, t2, a, b

\* The token changes with the manifest.
MCRequests == {[token |-> t1, items |-> {a}], [token |-> t2, items |-> {a, b}]}
=============================================================================
