------------------------------ MODULE MCLines ------------------------------
(* Lines on small instances: which addresses, and what clients send.       *)
EXTENDS Lines, TLC

CONSTANTS a, nl, nul, h1, h2, h3

MCHandle2 == {h1, h2}
MCHandle3 == {h1, h2, h3}

\* An end of a line with a beginning, a NUL that a whole line follows, a NUL alone.
MCChunk == {<<nl, a>>, <<nl, nul, nl>>, <<nul>>}
\* Ends of lines only, for runs about who is served and when.
MCChunkEnds == {<<nl>>}

\* Addresses are interchangeable: find_line only compares them.
SymHandle2 == Permutations(MCHandle2)
SymHandle3 == Permutations(MCHandle3)
=============================================================================
