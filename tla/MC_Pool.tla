------------------------------- MODULE MC_Pool -------------------------------
EXTENDS Pool, TLC

CONSTANTS s1, s2, a, b, d, c1, c2

\* This machine and one of two peers; an edit swaps the peer for the other.
PoolValues == {<<a, b>>, <<a, d>>}
Rows == (s1 :> <<a, b>>) @@ (s2 :> <<a, b>>)
\* Both servers start with the same row and may be edited to the same pools.
Symmetry == Permutations({s1, s2}) \cup Permutations({c1, c2})
=============================================================================
