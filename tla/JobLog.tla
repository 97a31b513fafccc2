------------------------------- MODULE JobLog -------------------------------
(***************************************************************************)
(* What becomes of one job's output when the dashboard restarts under it:  *)
(* _follow and _resume_cursor of app/jobs.py.  The container prints lines  *)
(* whether or not anybody reads them; the follower writes each into the    *)
(* log file and parses it; after a restart it resumes at the file's mtime  *)
(* less a fixed overlap.  Time is counted in ticks.                        *)
(***************************************************************************)
EXTENDS Naturals, Sequences, SequencesExt

CONSTANTS
    MaxLines,      \* bound on the lines the container prints
    MaxTime,       \* bound on the clock
    MaxRestarts,   \* bound on how often the dashboard goes down
    Metrics,       \* the lines that carry an entry of a progress series
    Overlap,       \* what _resume_cursor takes off the mtime (5 s)
    PublishGap,    \* progress is stored when more than this has passed (0.4 s)
    MaxLag,        \* how far behind a follower runs that has caught up
    MidReplay      \* whether the dashboard may go down during a replay

Line == 1..MaxLines
Time == 0..MaxTime

ASSUME JobLogAssumption ==
    /\ MaxLines \in Nat /\ MaxTime \in Nat /\ MaxRestarts \in Nat
    /\ Metrics \subseteq Line
    /\ Overlap \in Nat /\ PublishGap \in Nat /\ MaxLag \in Nat
    /\ MidReplay \in BOOLEAN

VARIABLES
    clock,
    running,     \* the container
    printed,     \* how many lines it has printed
    at,          \* when it printed each: the timestamp docker keeps
    phase,       \* the dashboard: "follow", "down" or "done"
    restarts,
    unread,      \* what `docker logs -f --since` has still to hand over
    caught,      \* ghost: the follower has reached the end of the log once
    ingested,    \* the lines in the log file
    mtime,       \* of the log file
    series,      \* the series in the follower's progress dict
    saved,       \* the series in the row
    published    \* when the follower last stored its progress, if it did

container == <<running, printed, at>>
file == <<ingested, mtime>>
follower == <<unread, caught, series, published>>
vars == <<clock, container, phase, restarts, file, follower, saved>>

Init ==
    /\ clock = 0
    /\ running = TRUE
    /\ printed = 0
    /\ at = [i \in Line |-> 0]
    /\ phase = "follow"
    /\ restarts = 0
    /\ unread = {}
    /\ caught = TRUE
    /\ ingested = {}
    /\ mtime = 0           \* _run wrote the command line it was about to run
    /\ series = <<>>
    /\ saved = <<>>
    /\ published = {}

-----------------------------------------------------------------------------
(* The container, and time                                                 *)

Prints ==
    /\ running
    /\ printed < MaxLines
    /\ printed' = printed + 1
    /\ at' = [at EXCEPT ![printed + 1] = clock]
    /\ unread' = unread \cup {printed + 1}
    /\ UNCHANGED <<clock, running, phase, restarts, file, caught, series,
                   published, saved>>

Exits ==
    /\ running
    /\ running' = FALSE
    /\ UNCHANGED <<clock, printed, at, phase, restarts, file, follower, saved>>

\* A follower that has caught up stays within MaxLag of the container.
Tick ==
    /\ clock < MaxTime
    /\ phase = "follow" /\ caught => \A i \in unread : clock < at[i] + MaxLag
    /\ clock' = clock + 1
    /\ UNCHANGED <<container, phase, restarts, file, follower, saved>>

-----------------------------------------------------------------------------
(* _follow                                                                 *)

\* Fault for TLC: replayed entries are entered once more.
EnterTwice(s, i) == IF i \in Metrics THEN Append(s, i) ELSE s

\* The parser adds an entry and _dedupe_series keeps one per step, where the
\* first one stood.
Enter(s, i) ==
    IF i \in Metrics /\ i \notin Range(s) THEN Append(s, i) ELSE s

\* now - last_publish > 0.4, and the first update of a follower always.
StoresNow == \A t \in published : clock > t + PublishGap

\* One turn of the loop over stream_logs: write, parse, perhaps store.
Ingest(i) ==
    /\ phase = "follow"
    /\ i \in unread
    /\ \A k \in unread : i <= k
    /\ unread' = unread \ {i}
    /\ caught' = (caught \/ unread' = {})
    /\ ingested' = ingested \cup {i}
    /\ mtime' = clock
    /\ series' = Enter(series, i)
    /\ IF i \in Metrics /\ StoresNow
       THEN saved' = series' /\ published' = {clock}
       ELSE UNCHANGED <<saved, published>>
    /\ UNCHANGED <<clock, container, phase, restarts>>

\* cancel() notes the request in the log before it stops the container.
CancelRequested ==
    /\ phase = "follow"
    /\ mtime' = clock
    /\ UNCHANGED <<clock, container, phase, restarts, ingested, follower, saved>>

\* The stream ended: the progress is stored once more, the outcome recorded
\* and the container removed, with the output nobody read.
Ends ==
    /\ phase = "follow"
    /\ ~running
    /\ unread = {}
    /\ phase' = "done"
    /\ saved' = IF series = <<>> THEN saved ELSE series
    /\ UNCHANGED <<clock, container, restarts, file, follower>>

-----------------------------------------------------------------------------
(* A restart of the dashboard                                              *)

GoesDown ==
    /\ phase = "follow"
    /\ restarts < MaxRestarts
    /\ caught \/ MidReplay
    /\ phase' = "down"
    /\ restarts' = restarts + 1
    /\ UNCHANGED <<clock, container, file, follower, saved>>

\* Fault for TLC: no overlap, and lines of the mtime's own tick are taken for read.
AfterMtime(i) == at[i] > mtime

\* --since <mtime - 5 s>
SinceCursor(i) == at[i] + Overlap >= mtime

\* reconcile(): the cursor is read first; reattaching to a container that still
\* runs is then noted in the log.
Reattach ==
    /\ phase = "down"
    /\ phase' = "follow"
    /\ unread' = {i \in 1..printed : SinceCursor(i)}
    /\ caught' = FALSE
    /\ mtime' = IF running THEN clock ELSE mtime
    /\ series' = saved
    /\ published' = {}
    /\ UNCHANGED <<clock, container, restarts, ingested, saved>>

-----------------------------------------------------------------------------
Next ==
    \/ Prints \/ Exits \/ Tick
    \/ \E i \in Line : Ingest(i)
    \/ CancelRequested \/ Ends \/ GoesDown \/ Reattach

Spec == Init /\ [][Next]_vars

-----------------------------------------------------------------------------
(* Properties                                                              *)

TypeOK ==
    /\ clock \in Time
    /\ running \in BOOLEAN
    /\ printed \in 0..MaxLines
    /\ at \in [Line -> Time]
    /\ phase \in {"follow", "down", "done"}
    /\ restarts \in 0..MaxRestarts
    /\ unread \subseteq 1..printed
    /\ caught \in BOOLEAN
    /\ ingested \subseteq 1..printed
    /\ mtime \in Time
    /\ series \in Seq(Metrics)
    /\ saved \in Seq(Metrics)
    /\ published \subseteq Time

\* A finished job's log file holds every line its container printed, the
\* @@RESULT@@ line included (ARCHITECTURE.md, "a few lines are duplicated and
\* none are lost").
NoLineLost == phase = "done" => ingested = 1..printed

\* Replay is idempotent: a series has one entry per step, in the order of the
\* run, however often parts of the log were parsed again.
SeriesInOrder == \A i, k \in DOMAIN saved : i < k => saved[i] < saved[k]
=============================================================================
