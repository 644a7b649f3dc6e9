--------------------------- MODULE MCRollingCache ---------------------------
(* Small instances of RollingCache for TLC. *)
EXTENDS RollingCache, TLC

CONSTANTS movie, show, r1, r2, h1

\* With two-byte chunks: an object of three chunks whose last one is short beside an
\* object of one chunk, the first of them alone, and one object of two full chunks.
MCSizeTwo == (movie :> 5) @@ (show :> 2)
MCSizeShort == movie :> 5
MCSizeFull == movie :> 4
MCObjectOf == h1 :> movie

\* Reads across a chunk boundary and up to the end of the object.
MCReads == {<<0, 3>>, <<3, 2>>}
MCReadsFull == {<<0, 3>>, <<2, 2>>}

ReaderSymmetry == Permutations(Readers)
=============================================================================
