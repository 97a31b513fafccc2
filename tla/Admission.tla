----------------------------- MODULE Admission -----------------------------
(***************************************************************************)
(* app/safety.py, with app/accel.py and app/vllm_spec.py under it: may an  *)
(* engine that asks for some memory be launched on a machine whose memory  *)
(* was just surveyed?  Utilisation fractions are whole percents, the unit  *)
(* the form offers; memory is a natural number of units.                   *)
(***************************************************************************)
EXTENDS Naturals

CONSTANTS
    MemReserve,      \* settings.mem_reserve_gib
    MemWarnReserve,  \* settings.mem_warn_reserve_gib
    DefaultUtil      \* vLLM's own default for --gpu-memory-utilization

ASSUME AdmissionAssumption ==
    /\ MemReserve \in Nat
    /\ MemWarnReserve \in Nat
    /\ DefaultUtil \in 0..100

NoUtil == 101

Smaller(a, b) == IF a <= b THEN a ELSE b
Larger(a, b) == IF a >= b THEN a ELSE b
\* max(0, a - b)
Less(a, b) == IF a > b THEN a - b ELSE 0

-----------------------------------------------------------------------------
(* Pools: what accel says about a machine's memory.                        *)

Pool == [total : Nat, reserve : Nat, warn : Nat, devices : Nat \ {0},
         discrete : BOOLEAN]

\* The OS lives in a unified pool, so part of it is held back, no more than a
\* share of what could be read; a framebuffer is not where the OS lives.
HeldBack(gib, percent, total, discrete) ==
    IF discrete THEN 0
    ELSE IF total = 0 THEN gib ELSE Smaller(gib, (percent * total) \div 100)

Built(total, devices, discrete) ==
    [total |-> total, devices |-> devices, discrete |-> discrete,
     reserve |-> HeldBack(MemReserve, 30, total, discrete),
     warn |-> HeldBack(MemWarnReserve, 35, total, discrete)]

\* What a peer that does not answer is reported to have.
Unread == [total |-> 0, devices |-> 1, discrete |-> FALSE, reserve |-> 0, warn |-> 0]

-----------------------------------------------------------------------------
(* What an engine asks for.                                                *)

Args == [util : 0..NoUtil, parallel : Nat \ {0}, kv : Nat, offload : Nat]

\* The cards one engine's ranks cover; one card's share is total / devices.
Spanned(args, pool) == IF pool.devices > 1 THEN args.parallel ELSE 1

\* What the command of a running container is read for, which is not the
\* number of cards its ranks cover.
Apparent(args) == [args EXCEPT !.parallel = 1]

Footprint(args, pool) ==
    LET util == IF args.util = NoUtil THEN DefaultUtil ELSE args.util
        share == (util * pool.total * Spanned(args, pool)) \div (100 * pool.devices)
    IN  Larger(share, args.kv) + args.offload

-----------------------------------------------------------------------------
(* The survey of a machine.  "committed" sums the footprints of the engine *)
(* containers that run there, "measured" is what processes are seen to     *)
(* hold (0 for a peer), "excluded" what the container about to be replaced *)
(* will give back.                                                         *)

Budget == [pool : Pool, available : Nat, committed : Nat, measured : Nat,
           excluded : Nat]

Occupied(b) == Larger(b.committed, Less(b.measured, b.excluded))

AvailableAfterReplacement(b) == Smaller(b.pool.total, b.available + b.excluded)

MaxBytes(b) == Less(b.pool.total, b.pool.reserve)

FreeToCommit(b) == Less(MaxBytes(b), Occupied(b))

\* The reserve forgotten.
OverPool(b, requested) == Occupied(b) + requested > b.pool.total

OverCapacity(b, requested) ==
    Occupied(b) + requested + b.pool.reserve > b.pool.total

OverAvailable(b, requested) == requested > AvailableAfterReplacement(b)

\* DRIFT_MARGIN: within three percent of what is available.
CloseToAvailable(b, requested) ==
    100 * requested > 97 * AvailableAfterReplacement(b)

Tight(b, requested) == Occupied(b) + requested + b.pool.warn > b.pool.total

-----------------------------------------------------------------------------
(* check_launch and its twin for engines that state bytes.                 *)

VllmBlocks(b, requested) ==
    \/ OverCapacity(b, requested) /\ ~b.pool.discrete
    \/ ~OverCapacity(b, requested) /\ OverAvailable(b, requested)

BytesBlocks(b, requested) ==
    /\ ~b.pool.discrete
    /\ OverCapacity(b, requested) \/ OverAvailable(b, requested)

Warns(b, requested) ==
    \/ OverCapacity(b, requested)
    \/ OverAvailable(b, requested)
    \/ CloseToAvailable(b, requested)
    \/ Tight(b, requested)

VllmVerdict(b, requested) ==
    IF VllmBlocks(b, requested) THEN "block"
    ELSE IF Warns(b, requested) THEN "warn" ELSE "ok"

\* A configuration whose weights cannot be read asks for nothing it can name.
BytesVerdict(b, requested, sized) ==
    IF BytesBlocks(b, requested) THEN "block"
    ELSE IF ~sized \/ Warns(b, requested) THEN "warn" ELSE "ok"

\* The fraction a refusal offers, floored to a percent.
Suggested(b, args) ==
    Smaller(100, (100 * FreeToCommit(b) * b.pool.devices)
                   \div (b.pool.total * Spanned(args, b.pool)))
=============================================================================
