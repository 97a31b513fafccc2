-------------------------------- MODULE Jobs --------------------------------
(***************************************************************************)
(* app/jobs.py: JobManager.  A job is one row, at most one asyncio task,   *)
(* and - unless it is adopted - one detached container that outlives the   *)
(* dashboard.  Every `await` of the code is a point where other tasks run, *)
(* so a task is a program counter naming the call it is waiting for.       *)
(***************************************************************************)
EXTENDS Naturals

CONSTANTS
    ContainerJobs,  \* jobs started by submit(): one detached container each
    AdoptedJobs,    \* jobs handed to adopt(): image builds, syncs, launches
    RemoteJobs,     \* container jobs whose spec.host names a peer
    Faults,         \* environment faults this instance allows
    MaxRestarts     \* bound on how often the dashboard process goes down

Job == ContainerJobs \cup AdoptedJobs

LocalJobs == ContainerJobs \ RemoteJobs

\* log_break: `docker logs -f` ends while its container still runs.
\* half_run:  the docker CLI is killed between creating and starting a container.
\* peer_down: `docker inspect` against a peer fails, which reads as "absent".
\* term_clean: a program answers `docker stop` with exit code 0.
FaultKinds == {"log_break", "half_run", "peer_down", "term_clean"}

ASSUME JobsAssumption ==
    /\ ContainerJobs \cap AdoptedJobs = {}
    /\ RemoteJobs \subseteq ContainerJobs
    /\ Faults \subseteq FaultKinds
    /\ MaxRestarts \in Nat

VARIABLES
    up,         \* the dashboard process: "down", "boot" (reconcile) or "up"
    restarts,   \* how often it went down so far
    todo,       \* rows reconcile() has still to look at
    row,        \* the status column of the jobs table, on disk
    task,       \* what each job's asyncio task is waiting for
    seen,       \* the ContainerState the follower got from `docker inspect`
    cancelled,  \* JobManager._cancelled
    cancel,     \* how far a cancel() call for the job has come
    early,      \* ghost: jobs cancelled before their docker run was through
    docker,     \* the job's container, on the machine that runs it
    inflight,   \* `docker run` commands that have not finished
    fate        \* ghost: how the job's own work ended

db == row
process == <<up, restarts, todo>>
tasks == <<task, seen>>
cancels == <<cancelled, cancel, early>>
containers == <<docker, inflight, fate>>
vars == <<process, db, tasks, cancels, containers>>

TERMINAL == {"succeeded", "failed", "cancelled"}
Unsettled == {"pending", "running"}
Status == {"none"} \cup Unsettled \cup TERMINAL

\* "created": created, never started (exit code 0); "broken": start refused.
Container == {"absent", "created", "broken", "running", "exit0", "exit1"}

\* _run: clean, launch, started, refused; _follow: follow, inspect, judge,
\* remove; an adopted driver: begin, drive.
TaskAt == {"none", "clean", "launch", "started", "refused",
           "follow", "inspect", "judge", "remove", "begin", "drive"}

\* _run has not heard back from docker run yet.
Launching == {"clean", "launch", "started"}

CancelAt == {"none", "inspect", "found", "missing", "stop", "stop_untracked",
             "await"}

\* `docker inspect` prints ExitCode 0 for a container that has not exited.
ExitCodeZero(state) == state \in {"exit0", "running", "created"}

-----------------------------------------------------------------------------
Init ==
    /\ up = "up"
    /\ restarts = 0
    /\ todo = {}
    /\ row = [j \in Job |-> "none"]
    /\ task = [j \in Job |-> "none"]
    /\ seen = [j \in Job |-> "absent"]
    /\ cancelled = {}
    /\ cancel = [j \in Job |-> "none"]
    /\ early = {}
    /\ docker = [j \in Job |-> "absent"]
    /\ inflight = {}
    /\ fate = [j \in Job |-> "unknown"]

-----------------------------------------------------------------------------
(* Submission and _run                                                     *)

\* submit() = create() + start(); adopt() after create().
Submit(j) ==
    /\ up = "up"
    /\ row[j] = "none"
    /\ row' = [row EXCEPT ![j] = "pending"]
    /\ task' = [task EXCEPT ![j] = IF j \in ContainerJobs THEN "clean" ELSE "begin"]
    /\ UNCHANGED <<process, seen, cancels, containers>>

\* _run removes a leftover container on the job's host, then calls docker run.
Clean(j) ==
    /\ task[j] = "clean"
    /\ docker' = [docker EXCEPT ![j] = "absent"]
    /\ inflight' = inflight \cup {j}
    /\ task' = [task EXCEPT ![j] = "launch"]
    /\ UNCHANGED <<process, db, seen, cancels, fate>>

\* The daemon creates the container for a `docker run -d` ...
DockerCreates(j) ==
    /\ j \in inflight
    /\ docker[j] = "absent"
    /\ docker' = [docker EXCEPT ![j] = "created"]
    /\ UNCHANGED <<process, db, tasks, cancels, inflight, fate>>

\* What the task learns when its `docker run` ends; nothing if it was cancelled.
ClientReturns(j, outcome) ==
    /\ inflight' = inflight \ {j}
    /\ task' = [task EXCEPT ![j] = IF @ = "launch" THEN outcome ELSE @]

\* ... and starts it,
DockerStarts(j) ==
    /\ j \in inflight
    /\ docker[j] = "created"
    /\ docker' = [docker EXCEPT ![j] = "running"]
    /\ ClientReturns(j, "started")
    /\ UNCHANGED <<process, db, seen, cancels, fate>>

\* or refuses: no such image (nothing created), or the start itself failed.
DockerRefuses(j) ==
    /\ j \in inflight
    /\ docker[j] \in {"absent", "created"}
    /\ docker' = [docker EXCEPT ![j] = IF @ = "created" THEN "broken" ELSE @]
    /\ ClientReturns(j, "refused")
    /\ UNCHANGED <<process, db, seen, cancels, fate>>

\* run_detached returned: the row is running and the log is followed.
RunStarted(j) ==
    /\ task[j] = "started"
    /\ row' = [row EXCEPT ![j] = "running"]
    /\ task' = [task EXCEPT ![j] = "follow"]
    /\ UNCHANGED <<process, seen, cancels, containers>>

\* Fault for TLC: the except branch without its `return`.
RunRefusedGoesOn(j) ==
    /\ task[j] = "refused"
    /\ row' = [row EXCEPT ![j] = "failed"]
    /\ task' = [task EXCEPT ![j] = "started"]
    /\ UNCHANGED <<process, seen, cancels, containers>>

\* run_detached raised DockerError: failed, whatever _cancelled says.
RunRefused(j) ==
    /\ task[j] = "refused"
    /\ row' = [row EXCEPT ![j] = "failed"]
    /\ task' = [task EXCEPT ![j] = "none"]
    /\ UNCHANGED <<process, seen, cancels, containers>>

\* The dashboard died under the CLI: the daemon got some of the calls or none.
ClientKilled(j) ==
    /\ up = "down"
    /\ j \in inflight
    /\ docker[j] = "created" => "half_run" \in Faults
    /\ inflight' = inflight \ {j}
    /\ UNCHANGED <<process, db, tasks, cancels, docker, fate>>

-----------------------------------------------------------------------------
(* The container's own program, and _follow                                *)

ContainerExits(j) ==
    /\ docker[j] = "running"
    /\ \E code \in {"exit0", "exit1"} :
         /\ docker' = [docker EXCEPT ![j] = code]
         /\ fate' = [fate EXCEPT ![j] = IF code = "exit0" THEN "ok" ELSE "bad"]
    /\ UNCHANGED <<process, db, tasks, cancels, inflight>>

\* Fault for TLC: `docker logs` without `-f`.
LogEndsAnyTime(j) ==
    /\ task[j] = "follow"
    /\ task' = [task EXCEPT ![j] = "inspect"]
    /\ UNCHANGED <<process, db, seen, cancels, containers>>

\* `docker logs -f` ends with its container.
LogEnds(j) ==
    /\ task[j] = "follow"
    /\ docker[j] # "running" \/ "log_break" \in Faults
    /\ task' = [task EXCEPT ![j] = "inspect"]
    /\ UNCHANGED <<process, db, seen, cancels, containers>>

Reads(j, state) ==
    \/ state = docker[j]
    \/ state = "absent" /\ j \in RemoteJobs /\ "peer_down" \in Faults

\* state = await docker_ctl.state(container, host)
Inspect(j) ==
    /\ task[j] = "inspect"
    /\ \E state \in Container : Reads(j, state) /\ seen' = [seen EXCEPT ![j] = state]
    /\ task' = [task EXCEPT ![j] = "judge"]
    /\ UNCHANGED <<process, db, cancels, containers>>

Verdict(j) ==
    CASE j \in cancelled -> "cancelled"
      [] j \notin cancelled /\ ExitCodeZero(seen[j]) -> "succeeded"
      [] OTHER -> "failed"

\* Fault for TLC: the row gets the container's status for its own.
JudgeByContainer(j) ==
    /\ task[j] = "judge"
    /\ row' = [row EXCEPT ![j] = seen[j]]
    /\ cancelled' = cancelled \ {j}
    /\ task' = [task EXCEPT ![j] = "remove"]
    /\ UNCHANGED <<process, seen, cancel, early, containers>>

\* The outcome is recorded in the same step that consumes the cancel flag.
Judge(j) ==
    /\ task[j] = "judge"
    /\ row' = [row EXCEPT ![j] = Verdict(j)]
    /\ cancelled' = cancelled \ {j}
    /\ task' = [task EXCEPT ![j] = "remove"]
    /\ UNCHANGED <<process, seen, cancel, early, containers>>

\* docker_ctl.remove(container, force=True): no host, so always this machine.
Remove(j) ==
    /\ task[j] = "remove"
    /\ IF j \in LocalJobs
       THEN /\ docker' = [docker EXCEPT ![j] = "absent"]
            /\ fate' = [fate EXCEPT ![j] = IF docker[j] = "running" THEN "bad" ELSE @]
       ELSE UNCHANGED <<docker, fate>>
    /\ task' = [task EXCEPT ![j] = "none"]
    /\ UNCHANGED <<process, db, seen, cancels, inflight>>

-----------------------------------------------------------------------------
(* Adopted drivers: begin(), the work, finish()                            *)

DriverBegins(j) ==
    /\ task[j] = "begin"
    /\ row' = [row EXCEPT ![j] = "running"]
    /\ task' = [task EXCEPT ![j] = "drive"]
    /\ UNCHANGED <<process, seen, cancels, containers>>

\* The driver calls finish() whether or not a cancel is on its way.
DriverFinishes(j) ==
    /\ task[j] = "drive"
    /\ \E ok \in BOOLEAN :
         /\ row' = [row EXCEPT ![j] = IF ok THEN "succeeded" ELSE "failed"]
         /\ fate' = [fate EXCEPT ![j] = IF ok THEN "ok" ELSE "bad"]
    /\ task' = [task EXCEPT ![j] = "none"]
    /\ UNCHANGED <<process, seen, cancels, docker, inflight>>

-----------------------------------------------------------------------------
(* cancel()                                                                *)

CancelRequested(j) ==
    /\ up = "up"
    /\ cancel[j] = "none"
    /\ row[j] \in Unsettled
    /\ cancelled' = cancelled \cup {j}
    /\ cancel' = [cancel EXCEPT ![j] = "inspect"]
    /\ early' = IF task[j] \in Launching THEN early \cup {j} ELSE early
    /\ UNCHANGED <<process, db, tasks, containers>>

\* docker_ctl.state(row["container_name"]): no host, so always this machine.
CancelInspects(j) ==
    /\ cancel[j] = "inspect"
    /\ cancel' = [cancel EXCEPT ![j] =
           IF j \in LocalJobs /\ docker[j] # "absent" THEN "found" ELSE "missing"]
    /\ UNCHANGED <<process, db, tasks, cancelled, early, containers>>

\* task = self._tasks.get(job_id), then await docker_ctl.stop(...).
CancelFound(j) ==
    /\ cancel[j] = "found"
    /\ cancel' = [cancel EXCEPT ![j] =
           IF task[j] = "none" THEN "stop_untracked" ELSE "stop"]
    /\ UNCHANGED <<process, db, tasks, cancelled, early, containers>>

\* docker stop returns when the container has stopped.
Stopped(j) ==
    IF docker[j] = "running"
    THEN \E code \in {"exit0", "exit1"} :
           /\ code = "exit0" => "term_clean" \in Faults
           /\ docker' = [docker EXCEPT ![j] = code]
           /\ fate' = [fate EXCEPT ![j] = "bad"]
    ELSE UNCHANGED <<docker, fate>>

\* Fault for TLC: the row is written, the container is not stopped.
CancelStopsNothing(j) ==
    /\ cancel[j] \in {"stop", "stop_untracked"}
    /\ row' = [row EXCEPT ![j] = "cancelled"]
    /\ cancel' = [cancel EXCEPT ![j] = "none"]
    /\ UNCHANGED <<process, tasks, cancelled, early, containers>>

\* Fault for TLC: cancel() leaves it to the follower and stops nothing.
CancelStopsLater(j) ==
    /\ cancel[j] \in {"stop", "stop_untracked"}
    /\ cancel' = [cancel EXCEPT ![j] = "none"]
    /\ UNCHANGED <<process, db, tasks, cancelled, early, containers>>

CancelStops(j) ==
    /\ cancel[j] \in {"stop", "stop_untracked"}
    /\ Stopped(j)
    /\ row' = [row EXCEPT ![j] =
           IF cancel[j] = "stop_untracked" THEN "cancelled" ELSE @]
    /\ cancel' = [cancel EXCEPT ![j] = "none"]
    /\ UNCHANGED <<process, tasks, cancelled, early, inflight>>

\* Fault for TLC: the task of an adopted job is not cancelled.
CancelMissingKeepsTask(j) ==
    /\ cancel[j] = "missing"
    /\ cancel' = [cancel EXCEPT ![j] = "await"]
    /\ UNCHANGED <<process, db, tasks, cancelled, early, containers>>

\* No container here: cancel the task, if there is one, and wait for it.  The
\* CancelledError abandons whatever call the task was waiting for.
CancelMissing(j) ==
    /\ cancel[j] = "missing"
    /\ fate' = [fate EXCEPT ![j] = IF task[j] = "drive" THEN "bad" ELSE @]
    /\ task' = [task EXCEPT ![j] = "none"]
    /\ cancel' = [cancel EXCEPT ![j] = "await"]
    /\ UNCHANGED <<process, db, seen, cancelled, early, docker, inflight>>

CancelWrites(j) ==
    /\ cancel[j] = "await"
    /\ row' = [row EXCEPT ![j] = "cancelled"]
    /\ cancel' = [cancel EXCEPT ![j] = "none"]
    /\ UNCHANGED <<process, tasks, cancelled, early, containers>>

-----------------------------------------------------------------------------
(* The process: shutdown or crash, and reconcile() at the next start       *)

\* Tasks are cancelled without writing their rows; adopted work dies with them.
GoesDown ==
    /\ up # "down"
    /\ restarts < MaxRestarts
    /\ up' = "down"
    /\ restarts' = restarts + 1
    /\ todo' = {}
    /\ fate' = [j \in Job |-> IF task[j] = "drive" THEN "bad" ELSE fate[j]]
    /\ task' = [j \in Job |-> "none"]
    /\ cancelled' = {}
    /\ cancel' = [j \in Job |-> "none"]
    /\ UNCHANGED <<db, seen, early, docker, inflight>>

\* Fault for TLC: reconcile() looks at running rows only.
BootsForRunning ==
    /\ up = "down"
    /\ inflight = {}
    /\ up' = "boot"
    /\ todo' = {j \in Job : row[j] = "running"}
    /\ UNCHANGED <<restarts, db, tasks, cancels, containers>>

\* systemd restarts the process once its children, the docker CLIs, are gone
\* with it (KillMode=mixed in deploy/llm-dashboard.service.in).
Boots ==
    /\ up = "down"
    /\ inflight = {}
    /\ up' = "boot"
    /\ todo' = {j \in Job : row[j] \in Unsettled}
    /\ UNCHANGED <<restarts, db, tasks, cancels, containers>>

\* The follow of a stopped container is awaited inline, in the boot loop.
BootWaits == \E j \in Job : task[j] # "none" /\ j \in todo

\* One turn of the loop over the unsettled rows: follow what runs, follow what
\* stopped before looking at the next row, fail what is gone.
ReconcileRow(j) ==
    /\ up = "boot"
    /\ j \in todo
    /\ row[j] \in Unsettled
    /\ ~BootWaits
    /\ \E state \in Container :
         /\ Reads(j, state)
         /\ IF state = "absent"
            THEN /\ row' = [row EXCEPT ![j] = "failed"]
                 /\ UNCHANGED task
            ELSE /\ task' = [task EXCEPT ![j] = "follow"]
                 /\ UNCHANGED row
         /\ todo' = IF state \in {"running", "absent"} THEN todo \ {j} ELSE todo
    /\ UNCHANGED <<up, restarts, seen, cancels, containers>>

\* The inline follow returned, and the loop goes on.
ReconcileNext(j) ==
    /\ up = "boot"
    /\ j \in todo
    /\ task[j] = "none"
    /\ row[j] \in TERMINAL
    /\ todo' = todo \ {j}
    /\ UNCHANGED <<up, restarts, db, tasks, cancels, containers>>

Serves ==
    /\ up = "boot"
    /\ todo = {}
    /\ up' = "up"
    /\ UNCHANGED <<restarts, todo, db, tasks, cancels, containers>>

-----------------------------------------------------------------------------
Run(j) == Clean(j) \/ RunStarted(j) \/ RunRefused(j)

Follow(j) == LogEnds(j) \/ Inspect(j) \/ Judge(j) \/ Remove(j)

Drive(j) == DriverBegins(j) \/ DriverFinishes(j)

Cancel(j) ==
    \/ CancelInspects(j) \/ CancelFound(j) \/ CancelStops(j)
    \/ CancelMissing(j) \/ CancelWrites(j)

DockerRun(j) == DockerCreates(j) \/ DockerStarts(j) \/ DockerRefuses(j)

Reconcile(j) == ReconcileRow(j) \/ ReconcileNext(j)

Next ==
    \/ \E j \in Job :
         \/ Submit(j) \/ CancelRequested(j)
         \/ Run(j) \/ Follow(j) \/ Drive(j) \/ Cancel(j)
         \/ DockerRun(j) \/ ClientKilled(j) \/ ContainerExits(j)
         \/ Reconcile(j)
    \/ GoesDown \/ Boots \/ Serves

Spec == Init /\ [][Next]_vars

\* The event loop runs every ready task, the docker CLI returns, systemd
\* restarts the process.  Nothing makes a user submit or cancel.
Scheduling ==
    /\ \A j \in Job :
         /\ WF_vars(Run(j)) /\ WF_vars(Follow(j)) /\ WF_vars(DriverBegins(j))
         /\ WF_vars(Cancel(j)) /\ WF_vars(DockerRun(j))
         /\ WF_vars(ClientKilled(j)) /\ WF_vars(Reconcile(j))
    /\ WF_vars(Boots) /\ WF_vars(Serves)

\* The work inside a job may run for ever.
FairSpec == Spec /\ Scheduling

-----------------------------------------------------------------------------
(* Properties                                                              *)

TypeOK ==
    /\ up \in {"down", "boot", "up"}
    /\ restarts \in 0..MaxRestarts
    /\ todo \subseteq Job
    /\ row \in [Job -> Status]
    /\ task \in [Job -> TaskAt]
    /\ seen \in [Job -> Container]
    /\ cancelled \subseteq Job
    /\ cancel \in [Job -> CancelAt]
    /\ early \subseteq Job
    /\ docker \in [Job -> Container]
    /\ inflight \subseteq Job
    /\ fate \in [Job -> {"unknown", "ok", "bad"}]

\* Nothing that could still write a verdict is running for a job whose row has
\* one: neither _run, _follow nor an adopted driver, on any order of a job's
\* end, its cancellation and a restart.
NoTaskForSettledRow ==
    \A j \in Job : row[j] \in TERMINAL => task[j] \in {"none", "remove"}

\* While the dashboard serves, a row that says pending or running has a task
\* that will settle it, or a cancel() that is about to.
UnsettledRowHasOwner ==
    up = "up" => \A j \in Job :
        row[j] \in Unsettled => task[j] # "none" \/ cancel[j] = "await"

\* A job that is reported as succeeded ended by itself and well.
SucceededMeansDone == \A j \in Job : row[j] = "succeeded" => fate[j] = "ok"

\* A job on this machine that was cancelled after its container was up has no
\* container running behind a row that says cancelled.
CancelledAfterStop ==
    \A j \in LocalJobs \ early : row[j] = "cancelled" => docker[j] # "running"

\* The jobs table keeps the lifecycle every reader of it relies on: one
\* verdict per job, which only an accepted cancel() may overrule.
Lifecycle == INSTANCE JobLifecycle WITH status <- row

ImplementsLifecycle == Lifecycle!Spec

\* Work that ended, was lost or never started: nothing is left to wait for.
Over(j) == docker[j] # "running" /\ task[j] # "drive"

\* A job whose work is not under way gets its verdict or gets under way,
\* whatever is cancelled and however often the dashboard goes down.
EveryJobSettles ==
    \A j \in Job : (row[j] \in Unsettled /\ Over(j))
                       ~> (row[j] \in TERMINAL \/ ~Over(j))

\* Cancelling a running job ends it even if its own work never would.
CancelSettles ==
    \A j \in Job : (row[j] = "running" /\ cancel[j] # "none")
                       ~> (row[j] \in TERMINAL \/ up = "down")
=============================================================================
