----------------------------- MODULE JobsProofs -----------------------------
(***************************************************************************)
(* Proofs about Jobs for every set of jobs, every set of faults and any    *)
(* bound on restarts.                                                      *)
(***************************************************************************)
EXTENDS Jobs, TLAPS

\* What a task may find in its row.  _run and begin() start from pending, a
\* follower or driver still owes the verdict, and only the removal follows it.
TaskFitsRow ==
    \A j \in Job :
        /\ task[j] \in {"clean", "launch", "started", "refused", "begin"}
               => row[j] = "pending"
        /\ task[j] \in {"follow", "inspect", "judge", "drive"}
               => row[j] \in Unsettled
        /\ task[j] = "remove" => row[j] \in TERMINAL

\* cancel() runs only while the dashboard serves, for a row that exists, and
\* writes a verdict itself only once the job's task is gone.
CancelFitsTask ==
    \A j \in Job :
        /\ cancel[j] # "none" => up = "up" /\ row[j] # "none"
        /\ cancel[j] \in {"stop_untracked", "await"} => task[j] = "none"

\* The boot loop has not passed an unsettled row without giving it a task.
BootCovers ==
    up = "boot" => \A j \in Job :
        row[j] \in Unsettled => task[j] # "none" \/ j \in todo

IInv ==
    /\ TypeOK
    /\ TaskFitsRow
    /\ CancelFitsTask
    /\ BootCovers
    /\ UnsettledRowHasOwner

-----------------------------------------------------------------------------
\* The table starts empty, and so does everything the invariant ties to it.
LEMMA InitIInv == Init => IInv
BY JobsAssumption
   DEF Init, IInv, TypeOK, TaskFitsRow, CancelFitsTask, BootCovers,
       UnsettledRowHasOwner, Status, Unsettled, TERMINAL, TaskAt, CancelAt,
       Container

\* Every action of JobManager and of docker keeps each row's status in step
\* with the position of the task that owns it.
LEMMA NextIInv == IInv /\ [Next]_vars => IInv'
<1> SUFFICES ASSUME IInv, [Next]_vars PROVE IInv'
    OBVIOUS
<1> USE JobsAssumption
    DEF IInv, TypeOK, TaskFitsRow, CancelFitsTask, BootCovers,
        UnsettledRowHasOwner, Status, Unsettled, TERMINAL, TaskAt, CancelAt,
        Container, process, db, tasks, cancels, containers
<1>1. ASSUME NEW j \in Job, Submit(j) PROVE IInv'
    BY <1>1 DEF Submit
<1>2. ASSUME NEW j \in Job, CancelRequested(j) PROVE IInv'
    BY <1>2 DEF CancelRequested
<1>3. ASSUME NEW j \in Job, Run(j) PROVE IInv'
    <2>1. CASE Clean(j)
        BY <2>1 DEF Clean
    <2>2. CASE RunStarted(j)
        BY <2>2 DEF RunStarted
    <2>3. CASE RunRefused(j)
        BY <2>3 DEF RunRefused
    <2> QED
        BY <1>3, <2>1, <2>2, <2>3 DEF Run
<1>4. ASSUME NEW j \in Job, Follow(j) PROVE IInv'
    <2>1. CASE LogEnds(j)
        BY <2>1 DEF LogEnds
    <2>2. CASE Inspect(j)
        BY <2>2 DEF Inspect
    <2>3. CASE Judge(j)
        <3>1. Verdict(j) \in {"succeeded", "failed", "cancelled"}
            BY DEF Verdict
        <3> QED
            BY <2>3, <3>1 DEF Judge
    <2>4. CASE Remove(j)
        BY <2>4 DEF Remove
    <2> QED
        BY <1>4, <2>1, <2>2, <2>3, <2>4 DEF Follow
<1>5. ASSUME NEW j \in Job, Drive(j) PROVE IInv'
    <2>1. CASE DriverBegins(j)
        BY <2>1 DEF DriverBegins
    <2>2. CASE DriverFinishes(j)
        BY <2>2 DEF DriverFinishes
    <2> QED
        BY <1>5, <2>1, <2>2 DEF Drive
<1>6. ASSUME NEW j \in Job, Cancel(j) PROVE IInv'
    <2>1. CASE CancelInspects(j)
        BY <2>1 DEF CancelInspects
    <2>2. CASE CancelFound(j)
        BY <2>2 DEF CancelFound
    <2>3. CASE CancelStops(j)
        BY <2>3 DEF CancelStops, Stopped
    <2>4. CASE CancelMissing(j)
        BY <2>4 DEF CancelMissing
    <2>5. CASE CancelWrites(j)
        BY <2>5 DEF CancelWrites
    <2> QED
        BY <1>6, <2>1, <2>2, <2>3, <2>4, <2>5 DEF Cancel
<1>7. ASSUME NEW j \in Job, DockerRun(j) PROVE IInv'
    <2>1. CASE DockerCreates(j)
        BY <2>1 DEF DockerCreates
    <2>2. CASE DockerStarts(j)
        BY <2>2 DEF DockerStarts, ClientReturns
    <2>3. CASE DockerRefuses(j)
        BY <2>3 DEF DockerRefuses, ClientReturns
    <2> QED
        BY <1>7, <2>1, <2>2, <2>3 DEF DockerRun
<1>8. ASSUME NEW j \in Job, ClientKilled(j) PROVE IInv'
    BY <1>8 DEF ClientKilled
<1>9. ASSUME NEW j \in Job, ContainerExits(j) PROVE IInv'
    BY <1>9 DEF ContainerExits
<1>10. ASSUME NEW j \in Job, Reconcile(j) PROVE IInv'
    <2>1. CASE ReconcileRow(j)
        BY <2>1 DEF ReconcileRow, BootWaits
    <2>2. CASE ReconcileNext(j)
        BY <2>2 DEF ReconcileNext
    <2> QED
        BY <1>10, <2>1, <2>2 DEF Reconcile
<1>11. CASE GoesDown
    BY <1>11 DEF GoesDown
<1>12. CASE Boots
    BY <1>12 DEF Boots
<1>13. CASE Serves
    BY <1>13 DEF Serves
<1>14. CASE UNCHANGED vars
    BY <1>14 DEF vars
<1> QED
    BY <1>1, <1>2, <1>3, <1>4, <1>5, <1>6, <1>7, <1>8, <1>9, <1>10, <1>11,
       <1>12, <1>13, <1>14 DEF Next

\* Row, task and cancel positions agree in every reachable state.
THEOREM Invariant == Spec => []IInv
<1>1. Init => IInv
    BY InitIInv
<1>2. IInv /\ [Next]_vars => IInv'
    BY NextIInv
<1> QED
    BY <1>1, <1>2, PTL DEF Spec

\* Every variable keeps its type, for any set of jobs.
THEOREM TypeCorrect == Spec => []TypeOK
<1>1. IInv => TypeOK
    BY DEF IInv
<1> QED
    BY <1>1, Invariant, PTL

\* No job that has its verdict still has a task that could write another one
\* (_run, _follow, the adopted drivers against cancel() and reconcile()).
THEOREM SettledForGood == Spec => []NoTaskForSettledRow
<1>1. IInv => NoTaskForSettledRow
    BY DEF IInv, TypeOK, TaskFitsRow, NoTaskForSettledRow, TaskAt, Unsettled,
           TERMINAL
<1> QED
    BY <1>1, Invariant, PTL

\* While the dashboard serves, no unsettled row is without somebody to settle it.
THEOREM NoneForgotten == Spec => []UnsettledRowHasOwner
<1>1. IInv => UnsettledRowHasOwner
    BY DEF IInv
<1> QED
    BY <1>1, Invariant, PTL

-----------------------------------------------------------------------------
(* The status column implements JobLifecycle.                              *)

\* A write of a terminal status is a Settle or an Overrule of the lifecycle.
LEMMA SettleStep ==
    ASSUME IInv, NEW j \in Job, NEW s \in TERMINAL, row[j] # "none",
           row' = [row EXCEPT ![j] = s],
           row[j] \in Unsettled \/ s = "cancelled"
    PROVE  Lifecycle!Next
<1>1. CASE row[j] \in Unsettled
    BY <1>1 DEF Lifecycle!Next, Lifecycle!Settle, Lifecycle!Unsettled,
                Lifecycle!TERMINAL, Unsettled, TERMINAL
<1>2. CASE row[j] \notin Unsettled
    BY <1>2 DEF Lifecycle!Next, Lifecycle!Overrule, Lifecycle!TERMINAL,
                IInv, TypeOK, Status, Unsettled, TERMINAL
<1> QED
    BY <1>1, <1>2

\* Every step moves the status column as the lifecycle allows.
LEMMA LifecycleStep == IInv /\ [Next]_vars => [Lifecycle!Next]_row
<1> SUFFICES ASSUME IInv, [Next]_vars PROVE Lifecycle!Next \/ row' = row
    OBVIOUS
<1> USE DEF process, db, tasks, cancels, containers
<1>1. ASSUME NEW j \in Job, Submit(j) PROVE Lifecycle!Next
    BY <1>1 DEF Submit, Lifecycle!Next, Lifecycle!Submit
<1>2. ASSUME NEW j \in Job, Run(j) PROVE Lifecycle!Next \/ row' = row
    <2>1. CASE Clean(j)
        BY <2>1 DEF Clean
    <2>2. CASE RunStarted(j)
        BY <2>2 DEF RunStarted, IInv, TaskFitsRow, Lifecycle!Next, Lifecycle!Begin
    <2>3. CASE RunRefused(j)
        BY <2>3, SettleStep
           DEF RunRefused, IInv, TaskFitsRow, Unsettled, TERMINAL
    <2> QED
        BY <1>2, <2>1, <2>2, <2>3 DEF Run
<1>3. ASSUME NEW j \in Job, Follow(j) PROVE Lifecycle!Next \/ row' = row
    <2>1. CASE Judge(j)
        <3>1. Verdict(j) \in TERMINAL
            BY DEF Verdict, TERMINAL
        <3>2. row[j] \in Unsettled /\ row[j] # "none"
            BY <2>1 DEF Judge, IInv, TaskFitsRow, Unsettled
        <3> QED
            BY <2>1, <3>1, <3>2, SettleStep DEF Judge
    <2>2. CASE LogEnds(j) \/ Inspect(j) \/ Remove(j)
        BY <2>2 DEF LogEnds, Inspect, Remove
    <2> QED
        BY <1>3, <2>1, <2>2 DEF Follow
<1>4. ASSUME NEW j \in Job, Drive(j) PROVE Lifecycle!Next \/ row' = row
    <2>1. CASE DriverBegins(j)
        BY <2>1 DEF DriverBegins, IInv, TaskFitsRow, Lifecycle!Next, Lifecycle!Begin
    <2>2. CASE DriverFinishes(j)
        BY <2>2, SettleStep
           DEF DriverFinishes, IInv, TaskFitsRow, Unsettled, TERMINAL
    <2> QED
        BY <1>4, <2>1, <2>2 DEF Drive
<1>5. ASSUME NEW j \in Job, Cancel(j) PROVE Lifecycle!Next \/ row' = row
    <2>1. CASE CancelStops(j)
        <3>1. CASE cancel[j] = "stop_untracked"
            BY <2>1, <3>1, SettleStep
               DEF CancelStops, IInv, CancelFitsTask, TERMINAL
        <3>2. CASE cancel[j] # "stop_untracked"
            BY <2>1, <3>2 DEF CancelStops, IInv, TypeOK
        <3> QED
            BY <3>1, <3>2
    <2>2. CASE CancelWrites(j)
        BY <2>2, SettleStep DEF CancelWrites, IInv, CancelFitsTask, TERMINAL
    <2>3. CASE CancelInspects(j) \/ CancelFound(j) \/ CancelMissing(j)
        BY <2>3 DEF CancelInspects, CancelFound, CancelMissing
    <2> QED
        BY <1>5, <2>1, <2>2, <2>3 DEF Cancel
<1>6. ASSUME NEW j \in Job, Reconcile(j) PROVE Lifecycle!Next \/ row' = row
    <2>1. CASE ReconcileRow(j)
        BY <2>1, SettleStep DEF ReconcileRow, Unsettled, TERMINAL
    <2>2. CASE ReconcileNext(j)
        BY <2>2 DEF ReconcileNext
    <2> QED
        BY <1>6, <2>1, <2>2 DEF Reconcile
<1>7. ASSUME NEW j \in Job,
             CancelRequested(j) \/ DockerRun(j) \/ ClientKilled(j) \/ ContainerExits(j)
      PROVE  row' = row
    BY <1>7 DEF CancelRequested, DockerRun, DockerCreates, DockerStarts,
                DockerRefuses, ClientKilled, ContainerExits
<1>8. CASE GoesDown \/ Boots \/ Serves \/ UNCHANGED vars
    BY <1>8 DEF GoesDown, Boots, Serves, vars
<1> QED
    BY <1>1, <1>2, <1>3, <1>4, <1>5, <1>6, <1>7, <1>8 DEF Next

\* A job settles once; only a cancel() accepted before may overrule its verdict,
\* whatever is submitted, cancelled, lost or restarted around it.
THEOREM LifecycleImplemented == Spec => ImplementsLifecycle
<1>1. Init => Lifecycle!Init
    BY DEF Init, Lifecycle!Init
<1>2. IInv /\ [Next]_vars => [Lifecycle!Next]_row
    BY LifecycleStep
<1> QED
    BY <1>1, <1>2, Invariant, PTL DEF Spec, ImplementsLifecycle, Lifecycle!Spec

-----------------------------------------------------------------------------
(* With docker reliable a verdict tells the truth about the container.     *)

\* Logs, launches and stops go as they should; peers may drop off the network.
ReliableDocker == Faults \subseteq {"peer_down"}

\* Only a docker run under way leaves a created container or starts one later,
\* and none is under way when the dashboard boots.
LaunchesTracked ==
    \A j \in Job :
        /\ j \in inflight => /\ task[j] \in {"launch", "none"}
                             /\ row[j] # "none"
                             /\ up # "boot"
        /\ docker[j] = "created" => j \in inflight
        /\ task[j] \in Launching => up = "up"

\* A container belongs to a container job; driving is what adopted jobs do.
ContainersOfContainerJobs ==
    \A j \in Job :
        /\ j \in inflight \/ docker[j] # "absent" => j \in ContainerJobs
        /\ task[j] \in {"clean", "launch", "started", "refused"} => j \in ContainerJobs
        /\ task[j] \in {"begin", "drive"} => j \in AdoptedJobs

\* What the follower goes by when it judges.
FollowerKnows ==
    \A j \in Job :
        /\ task[j] \in {"inspect", "judge", "remove"} => docker[j] # "running"
        /\ docker[j] = "exit0" => fate[j] = "ok"
        /\ task[j] = "judge" /\ ExitCodeZero(seen[j]) => fate[j] = "ok"
        /\ row[j] = "succeeded" =>
               fate[j] = "ok" /\ docker[j] # "running" /\ j \notin inflight

\* What a cancel() that came after the launch can rely on.
CancelKnows ==
    \A j \in Job \ early :
        /\ cancel[j] # "none" => task[j] \notin Launching /\ j \notin inflight
        /\ j \notin RemoteJobs /\ cancel[j] \in {"missing", "await"}
               => docker[j] # "running"
        /\ j \notin RemoteJobs /\ row[j] = "cancelled"
               => docker[j] # "running" /\ j \notin inflight

VInv ==
    /\ LaunchesTracked
    /\ ContainersOfContainerJobs
    /\ FollowerKnows
    /\ CancelKnows

\* No container runs before a job is submitted.
LEMMA InitVInv == Init => VInv
BY JobsAssumption
   DEF Init, VInv, LaunchesTracked, Launching, ContainersOfContainerJobs, FollowerKnows,
       CancelKnows

\* With docker reliable, every action keeps what followers and cancels know of
\* a container true of it.
LEMMA NextVInv ==
    ASSUME ReliableDocker, IInv, VInv, [Next]_vars
    PROVE  VInv'
<1> USE JobsAssumption
    DEF IInv, TypeOK, TaskFitsRow, CancelFitsTask, BootCovers,
        UnsettledRowHasOwner, Status, Unsettled, TERMINAL, TaskAt, CancelAt,
        Container, process, db, tasks, cancels, containers, Job, LocalJobs,
        VInv, LaunchesTracked, ContainersOfContainerJobs, FollowerKnows,
        CancelKnows, Launching, ExitCodeZero, ReliableDocker
<1>1. ASSUME NEW j \in Job, Submit(j) PROVE VInv'
    BY <1>1 DEF Submit
<1>2. ASSUME NEW j \in Job, CancelRequested(j) PROVE VInv'
    BY <1>2 DEF CancelRequested
<1>3. ASSUME NEW j \in Job, Run(j) PROVE VInv'
    <2>1. CASE Clean(j)
        BY <2>1 DEF Clean
    <2>2. CASE RunStarted(j)
        BY <2>2 DEF RunStarted
    <2>3. CASE RunRefused(j)
        BY <2>3 DEF RunRefused
    <2> QED
        BY <1>3, <2>1, <2>2, <2>3 DEF Run
<1>4. ASSUME NEW j \in Job, Follow(j) PROVE VInv'
    <2>1. CASE LogEnds(j)
        BY <2>1 DEF LogEnds
    <2>2. CASE Inspect(j)
        BY <2>2 DEF Inspect, Reads
    <2>3. CASE Judge(j)
        <3>1. /\ Verdict(j) \in {"succeeded", "failed", "cancelled"}
              /\ Verdict(j) = "succeeded" => ExitCodeZero(seen[j])
            BY DEF Verdict
        <3> QED
            BY <2>3, <3>1 DEF Judge
    <2>4. CASE Remove(j)
        BY <2>4 DEF Remove
    <2> QED
        BY <1>4, <2>1, <2>2, <2>3, <2>4 DEF Follow
<1>5. ASSUME NEW j \in Job, Drive(j) PROVE VInv'
    <2>1. CASE DriverBegins(j)
        BY <2>1 DEF DriverBegins
    <2>2. CASE DriverFinishes(j)
        BY <2>2 DEF DriverFinishes
    <2> QED
        BY <1>5, <2>1, <2>2 DEF Drive
<1>6. ASSUME NEW j \in Job, Cancel(j) PROVE VInv'
    <2>1. CASE CancelInspects(j)
        BY <2>1 DEF CancelInspects
    <2>2. CASE CancelFound(j)
        BY <2>2 DEF CancelFound
    <2>3. CASE CancelStops(j)
        BY <2>3 DEF CancelStops, Stopped
    <2>4. CASE CancelMissing(j)
        BY <2>4 DEF CancelMissing
    <2>5. CASE CancelWrites(j)
        BY <2>5 DEF CancelWrites
    <2> QED
        BY <1>6, <2>1, <2>2, <2>3, <2>4, <2>5 DEF Cancel
<1>7. ASSUME NEW j \in Job, DockerRun(j) PROVE VInv'
    <2>1. CASE DockerCreates(j)
        BY <2>1 DEF DockerCreates
    <2>2. CASE DockerStarts(j)
        BY <2>2 DEF DockerStarts, ClientReturns
    <2>3. CASE DockerRefuses(j)
        BY <2>3 DEF DockerRefuses, ClientReturns
    <2> QED
        BY <1>7, <2>1, <2>2, <2>3 DEF DockerRun
<1>8. ASSUME NEW j \in Job, ClientKilled(j) PROVE VInv'
    BY <1>8 DEF ClientKilled
<1>9. ASSUME NEW j \in Job, ContainerExits(j) PROVE VInv'
    BY <1>9 DEF ContainerExits
<1>10. ASSUME NEW j \in Job, Reconcile(j) PROVE VInv'
    <2>1. CASE ReconcileRow(j)
        BY <2>1 DEF ReconcileRow, BootWaits, Reads
    <2>2. CASE ReconcileNext(j)
        BY <2>2 DEF ReconcileNext
    <2> QED
        BY <1>10, <2>1, <2>2 DEF Reconcile
<1>11. CASE GoesDown
    BY <1>11 DEF GoesDown
<1>12. CASE Boots
    BY <1>12 DEF Boots
<1>13. CASE Serves
    BY <1>13 DEF Serves
<1>14. CASE UNCHANGED vars
    BY <1>14 DEF vars
<1> QED
    BY <1>1, <1>2, <1>3, <1>4, <1>5, <1>6, <1>7, <1>8, <1>9, <1>10, <1>11,
       <1>12, <1>13, <1>14 DEF Next

\* What ReliableDocker buys: every judgement rests on a container that ended.
THEOREM ReliableInvariant ==
    ASSUME ReliableDocker
    PROVE  Spec => []VInv
<1>1. Init => VInv
    BY InitVInv
<1>2. IInv /\ VInv /\ [Next]_vars => VInv'
    BY NextVInv
<1> QED
    BY <1>1, <1>2, Invariant, PTL DEF Spec

\* With docker reliable, a row says succeeded only for work that ran to its own
\* good end: not one cut short by a cancel(), a restart or a lost follower.
THEOREM SuccessIsEarned ==
    ASSUME ReliableDocker
    PROVE  Spec => []SucceededMeansDone
<1>1. VInv => SucceededMeansDone
    BY DEF VInv, FollowerKnows, SucceededMeansDone
<1> QED
    BY <1>1, ReliableInvariant, PTL

\* On this machine, a job cancelled after its launch has really been stopped.
THEOREM CancelIsReal ==
    ASSUME ReliableDocker
    PROVE  Spec => []CancelledAfterStop
<1>1. VInv => CancelledAfterStop
    BY DEF VInv, CancelKnows, CancelledAfterStop, LocalJobs, Job
<1> QED
    BY <1>1, ReliableInvariant, PTL
=============================================================================
