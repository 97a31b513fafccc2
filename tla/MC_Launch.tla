----------------------------- MODULE MC_Launch -----------------------------
(* Two servers, one here and one on a peer, whose larger engines do not    *)
(* fit one machine together once an edit has moved one to the other's.     *)
EXTENDS Launch, TLC

CONSTANTS s1, s2, here, peer, x1, x2

Pools == [n \in Node |-> Built(4, 1, FALSE)]
Rows == (s1 :> [engine |-> "vllm", node |-> here])
        @@ (s2 :> [engine |-> "llamacpp", node |-> peer])
Fractions == [s \in Server |-> [util |-> 50, parallel |-> 1, kv |-> 0, offload |-> 0]]
Files == [s \in Server |-> IF s = s1 THEN 1 ELSE 2]
Drafts == [s \in Server |-> IF s = s1 THEN 1 ELSE 0]

Symmetry == Permutations({x1, x2})
=============================================================================
