------------------------------- MODULE Accel -------------------------------
(***************************************************************************)
(* app/accel.py: from what nvidia-smi and /proc/meminfo answered, here or  *)
(* over ssh, to the pool that every memory decision is about, and to the   *)
(* figures of a budget.  An answer may be missing, cut short or declined,  *)
(* as a whole or field by field.                                           *)
(***************************************************************************)
EXTENDS Admission, Integers, Sequences, FiniteSets, FiniteSetsExt, Functions

CONSTANT AccelMode  \* settings.accel_mode, "" when the operator says nothing

\* A figure the driver declines to give, [N/A] and its kin.
Unsaid == -1

Kinds == {"unified", "discrete", "none", "unknown"}

\* A line of the device query, which may be cut short, and may not say which
\* device it is about.
Row == [whole : BOOLEAN, index : Nat \cup {Unsaid}, total : Nat \cup {Unsaid},
        used : Nat \cup {Unsaid}, free : Nat \cup {Unsaid}, mig : BOOLEAN]

Host == [total : Nat, available : Nat]

\* ok: nvidia-smi exited with 0; otherwise it printed a complaint, if anything.
\* modes: what the second query says of the devices it names.  apps: what the
\* processes on this machine hold.
IsAnswer(a) == /\ a = [ok |-> a.ok, rows |-> a.rows, modes |-> a.modes, apps |-> a.apps,
                       host |-> a.host]
               /\ a.rows \in Seq(Row) /\ a.host \in Host
               /\ a.ok \in BOOLEAN /\ a.apps \in Nat
               /\ a.modes \in [DOMAIN a.modes -> STRING]
               /\ ~a.ok => \A i \in DOMAIN a.rows : ~a.rows[i].whole

\* Rows that cannot be read are dropped, one by one.
Device(row, modes) ==
    [index |-> row.index, total |-> row.total, used |-> row.used,
     free |-> row.free, mig |-> row.mig,
     ats |-> row.index \in DOMAIN modes /\ modes[row.index] = "ATS"]

Readable(rows) == {i \in DOMAIN rows : rows[i].whole /\ rows[i].index # Unsaid}

Devices(a) == [i \in Readable(a.rows) |-> Device(a.rows[i], a.modes)]

-----------------------------------------------------------------------------
(* classify.  devs is a function from rows to devices.                     *)

\* UNIFIED_RATIO: even the smallest device is within a tenth of the host.
SizeOfHost(devs, host) ==
    host.total # 0 /\ \A i \in DOMAIN devs : 10 * devs[i].total > 9 * host.total

\* Only the free memory looked for: a total that is not said counts as nothing.
MeasuredOfFree(devs, host) ==
    LET free == {i \in DOMAIN devs : devs[i].free # Unsaid}
    IN  IF \E i \in DOMAIN devs : devs[i].mig THEN "unknown"
        ELSE IF free = {} THEN "unified"
        ELSE IF free # DOMAIN devs THEN "unknown"
        ELSE IF \/ \E i \in DOMAIN devs : devs[i].ats
                \/ SizeOfHost(devs, host) THEN "unified"
        ELSE "discrete"

Measured(devs, host) ==
    LET totals == {i \in DOMAIN devs : devs[i].total # Unsaid}
    IN  IF \E i \in DOMAIN devs : devs[i].mig THEN "unknown"
        ELSE IF totals = {} THEN "unified"
        ELSE IF \/ totals # DOMAIN devs
                \/ \E i \in DOMAIN devs : devs[i].free = Unsaid THEN "unknown"
        ELSE IF \/ \E i \in DOMAIN devs : devs[i].ats
                \/ SizeOfHost(devs, host) THEN "unified"
        ELSE "discrete"

Classified(devs, host, ok, said) ==
    IF AccelMode # "" THEN AccelMode
    ELSE IF ~ok THEN "unified"
    ELSE IF DOMAIN devs = {} THEN IF said THEN "unified" ELSE "none"
    ELSE Measured(devs, host)

Kind(a) == Classified(Devices(a), a.host, a.ok, a.rows # <<>>)

-----------------------------------------------------------------------------
(* build: the pool, and from it the figures of a budget.                   *)

Figure(n) == IF n = Unsaid THEN 0 ELSE n

SumOf(devs, figure(_)) == SumFunction([i \in DOMAIN devs |-> Figure(figure(devs[i]))])

\* One card's framebuffer, the smallest.
OneCard(devs) == Min({Figure(devs[i].total) : i \in DOMAIN devs})

PoolFigures(kind, devs, host, apps) ==
    IF kind = "discrete"
    THEN [kind |-> kind, devices |-> Cardinality(DOMAIN devs),
          total |-> SumOf(devs, LAMBDA d : d.total),
          available |-> SumOf(devs, LAMBDA d : d.free),
          measured |-> SumOf(devs, LAMBDA d : d.used),
          card |-> IF DOMAIN devs = {} THEN 0 ELSE OneCard(devs)]
    ELSE [kind |-> kind, devices |-> Cardinality(DOMAIN devs),
          total |-> host.total, available |-> host.available,
          measured |-> apps, card |-> host.total]

\* The devices as they were counted, none perhaps.
BudgetOfCounted(pool, here, committed, excluded) ==
    [pool |-> Built(pool.total, pool.devices, pool.kind = "discrete"),
     available |-> pool.available, committed |-> committed,
     measured |-> IF here THEN pool.measured ELSE 0, excluded |-> excluded]

\* The budget takes the devices of the pool whatever kind the pool is.
\* What processes hold is only known of this machine.
BudgetOf(pool, here, committed, excluded) ==
    [pool |-> Built(pool.total, Larger(1, pool.devices), pool.kind = "discrete"),
     available |-> pool.available, committed |-> committed,
     measured |-> IF here THEN pool.measured ELSE 0, excluded |-> excluded]

\* local_pool, and current_budget's figures for this machine.
LocalPool(a) == PoolFigures(Kind(a), Devices(a), a.host, a.apps)

-----------------------------------------------------------------------------
(* A peer is asked over ssh.  Its processes are not counted.               *)

\* The script of a launch ends its query with "|| true", so that its exit code
\* is always 0 and nothing said means nothing there.
AskedByLaunch(a) == [a EXCEPT !.ok = TRUE, !.apps = 0]

\* The script of the telemetry sweep reports the exit code.
AskedBySweep(a) == [a EXCEPT !.apps = 0]

UnreadPool == [kind |-> "unknown", devices |-> 0, total |-> 0, available |-> 0,
               measured |-> 0, card |-> 0]

RemotePool(reached, a) ==
    IF reached THEN LocalPool(AskedByLaunch(a)) ELSE UnreadPool

-----------------------------------------------------------------------------
(* What "fail unified" is about: the same machine, asked on a worse day.   *)

\* What may be left of a line of the device query: cut short, without the index
\* or a figure, or with a MIG mode that is not said, which reads as none.
Left(row) ==
    [whole : {row.whole, FALSE}, index : {row.index, Unsaid}, total : {row.total, Unsaid},
     used : {row.used, Unsaid}, free : {row.free, Unsaid}, mig : {row.mig, FALSE}]

\* What may be left of an answer, any of it or all: lines one by one or the
\* whole query, the answer to the second query, whose exit code nobody reads,
\* and what is read of /proc/meminfo.  Over ssh the exit code may be lost too.
Worse(a) ==
    LET lines == {r \in [DOMAIN a.rows -> UNION {Left(a.rows[i]) : i \in DOMAIN a.rows}] :
                     \A i \in DOMAIN a.rows : r[i] \in Left(a.rows[i])}
    IN  [ok : BOOLEAN, rows : lines \cup {<<>>},
         modes : {Restrict(a.modes, named) : named \in SUBSET DOMAIN a.modes},
         apps : {a.apps, 0},
         host : [total : {a.host.total, 0}, available : {a.host.available, 0}]]

\* A device with a memory of its own, as far as its line can show.
Framebuffer(row, host) ==
    /\ row.total # Unsaid /\ row.free # Unsaid
    /\ host.total # 0 => 10 * row.total <= 9 * host.total

\* Whatever is left of the answer, a machine is only taken for one with a card of
\* its own on what one of its devices said to be a framebuffer.
OnlyByProof(a) ==
    \A b \in Worse(a) : AccelMode = "" /\ Kind(b) = "discrete" =>
        \E i \in Readable(a.rows) : Framebuffer(a.rows[i], b.host)
=============================================================================
