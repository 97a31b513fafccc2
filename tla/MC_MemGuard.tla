----------------------------- MODULE MC_MemGuard -----------------------------
EXTENDS MemGuard, TLC

CONSTANTS single, pooled

Containers == {[engine |-> single, host |-> "here"],
               [engine |-> pooled, host |-> "here"], [engine |-> pooled, host |-> "peer"]}
Sizes == (single :> 2) @@ (pooled :> 3)

\* A machine with one memory, a measured graphics card, and one where the
\* operator chose to kill although the card was found and not measured.
Machines ==
    {[pool |-> "unified", measured |-> TRUE, setting |-> "auto"],
     [pool |-> "discrete", measured |-> TRUE, setting |-> "kill"],
     [pool |-> "discrete", measured |-> FALSE, setting |-> "kill"]}
=============================================================================
