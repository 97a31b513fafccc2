------------------------------- MODULE Cache -------------------------------
(***************************************************************************)
(* One repository in the model caches of this machine and its peers, and   *)
(* everything that writes there: downloads (hf.py), copies to a peer       *)
(* (sync.py), deletions, and launches over a pool that copy first          *)
(* (servers.py).  How a job's row follows its container is in Jobs.tla;    *)
(* here a row is settled in one step once the program is over.             *)
(***************************************************************************)
EXTENDS Naturals, FiniteSets, Sequences, SequencesExt

CONSTANTS
    Here, Peers,             \* this machine and the others
    Pool,                    \* the machines of the server that is launched
    MaxRequests,             \* bound on downloads, copies and launches asked for
    MaxMishaps               \* bound on deletions, cancels and restarts

Node == {Here} \cup Peers

ASSUME CacheAssumption ==
    /\ Here \notin Peers
    /\ Here \in Pool /\ Pool \subseteq Node
    /\ MaxRequests \in Nat /\ MaxMishaps \in Nat

VARIABLES
    cache,      \* the repository's directory on each machine
    deleting,   \* machines where an rm -rf of it is running
    call,       \* the requests that wait: for what, and what they saw before
    job,        \* the jobs in the order of their creation
    requests, mishaps

vars == <<cache, deleting, call, job, requests, mishaps>>

TERMINAL == {"succeeded", "failed", "cancelled"}

\* torn: what the program reads or writes was deleted under it, or was not
\* whole when it began.  stopped: _cancelled holds the job.  saw, orphan and
\* sound are ghosts: the jobs there were when the download looked; that the
\* row was settled before the program; that what the launch found was whole
\* and is not deleted since.
Job == [kind : {"download", "sync", "launch"}, node : Node,
        row : {"pending", "running"} \cup TERMINAL,
        program : {"none", "ordered", "on", "good", "bad"},
        torn : BOOLEAN, stopped : BOOLEAN, saw : SUBSET Nat, orphan : BOOLEAN,
        at : {"off", "check", "copy", "await", "start"}, todo : SUBSET Node,
        child : Nat, sound : BOOLEAN]

New(kind, node, program) ==
    [kind |-> kind, node |-> node, row |-> "pending", program |-> program,
     torn |-> FALSE, stopped |-> FALSE, saw |-> {}, orphan |-> FALSE,
     at |-> "off", todo |-> {}, child |-> 0, sound |-> FALSE]

Init ==
    /\ cache \in [Node -> {"none", "whole"}]
    /\ deleting = {}
    /\ call = <<>>
    /\ job = <<>>
    /\ requests = 0 /\ mishaps = 0

Request == requests < MaxRequests /\ requests' = requests + 1 /\ UNCHANGED mishaps
Mishap == mishaps < MaxMishaps /\ mishaps' = mishaps + 1 /\ UNCHANGED requests
counts == <<requests, mishaps>>

Live(i) == job[i].row \notin TERMINAL

-----------------------------------------------------------------------------
(* hf.submit_download                                                      *)

\* Only what already runs.
RunningDownloadStarted(n) ==
    {i \in DOMAIN job : job[i].kind = "download" /\ job[i].node = n /\ job[i].row = "running"}

\* _running_download: "already being pulled onto this node".
RunningDownload(n) ==
    {i \in DOMAIN job : job[i].kind = "download" /\ job[i].node = n /\ Live(i)}

\* The look; a clash is a 409.  Then the token and the worker are awaited.
AsksForDownload(n) ==
    /\ RunningDownload(n) = {}
    /\ call' = Append(call, [for |-> "download", node |-> n, saw |-> DOMAIN job])
    /\ Request
    /\ UNCHANGED <<cache, deleting, job>>

\* sync.preflight looks for the directory here, then awaits its size and the peer.
AsksForSync(n) ==
    /\ n # Here /\ cache[Here] # "none"
    /\ call' = Append(call, [for |-> "sync", node |-> n, saw |-> {}])
    /\ Request
    /\ UNCHANGED <<cache, deleting, job>>

\* What was awaited is there: manager.submit, or create and adopt.
Submits(c) ==
    /\ job' = Append(job, [New(call[c].for, call[c].node, "ordered") EXCEPT !.saw = call[c].saw])
    /\ call' = RemoveAt(call, c)
    /\ UNCHANGED <<cache, deleting, counts>>

\* The peer is not reached, or its cache cannot take the repository.
Refuses(c) ==
    /\ call[c].node # Here
    /\ call' = RemoveAt(call, c)
    /\ UNCHANGED <<cache, deleting, job, counts>>

-----------------------------------------------------------------------------
(* The programs: a download container, or rsync on the peer that pulls.    *)

ProgramStarts(i) ==
    /\ job[i].program = "ordered"
    /\ LET source == job[i].kind = "download" \/ cache[Here] = "whole"
       IN job' = [job EXCEPT ![i].program = "on", ![i].torn = ~source,
                             ![i].row = IF Live(i) THEN "running" ELSE @]
    /\ cache' = [cache EXCEPT ![job[i].node] = IF @ = "none" THEN "partial" ELSE @]
    /\ UNCHANGED <<deleting, call, counts>>

\* docker run, or ssh, is refused.
NeverStarts(i) ==
    /\ job[i].program = "ordered"
    /\ job' = [job EXCEPT ![i].program = "bad", ![i].row = IF Live(i) THEN "failed" ELSE @]
    /\ UNCHANGED <<cache, deleting, call, counts>>

EndsWell(i) ==
    /\ job[i].program = "on"
    /\ job' = [job EXCEPT ![i].program = "good"]
    /\ cache' = [cache EXCEPT ![job[i].node] =
                    IF ~job[i].torn THEN "whole" ELSE IF @ = "none" THEN "partial" ELSE @]
    /\ UNCHANGED <<deleting, call, counts>>

\* The hub, the disk or the link gave out; what is there stays there.
EndsBadly(i) ==
    /\ job[i].program = "on"
    /\ job' = [job EXCEPT ![i].program = "bad"]
    /\ UNCHANGED <<cache, deleting, call, counts>>

\* _follow and sync._drive, once the program is over.
Settles(i) ==
    /\ job[i].program \in {"good", "bad"} /\ Live(i)
    /\ job' = [job EXCEPT ![i].row = IF job[i].stopped THEN "cancelled"
                                     ELSE IF job[i].program = "good" THEN "succeeded" ELSE "failed"]
    /\ UNCHANGED <<cache, deleting, call, counts>>

-----------------------------------------------------------------------------
(* hf.delete_local and _delete_remote: rm -rf as root, whatever else runs.  *)

Tears(n, j) == j.kind # "launch" /\ j.program = "on" /\ (j.node = n \/ (j.kind = "sync" /\ n = Here))

Tearing(n) == job' = [i \in DOMAIN job |->
                [job[i] EXCEPT !.torn = @ \/ Tears(n, job[i]), !.sound = @ /\ n \notin Pool]]

Deletes(n) ==
    /\ cache[n] # "none"
    /\ n \notin deleting
    /\ Mishap
    /\ deleting' = deleting \cup {n}
    /\ cache' = [cache EXCEPT ![n] = "partial"]
    /\ Tearing(n)
    /\ UNCHANGED call

Deleted(n) ==
    /\ n \in deleting
    /\ deleting' = deleting \ {n}
    /\ cache' = [cache EXCEPT ![n] = "none"]
    /\ Tearing(n)
    /\ UNCHANGED <<call, counts>>

-----------------------------------------------------------------------------
(* servers.submit_launch and _drive_launch                                 *)

SubmitsLaunch ==
    /\ Request
    /\ job' = Append(job, [New("launch", Here, "none") EXCEPT !.row = "running", !.at = "check"])
    /\ UNCHANGED <<cache, deleting, call>>

\* missing_model: test -d on every machine; one that is not reached lacks it.
Checks(i) ==
    /\ job[i].at = "check" /\ Live(i)
    /\ \E missing \in SUBSET Pool :
          /\ {n \in Pool : cache[n] = "none"} \subseteq missing
          /\ cache[Here] # "none" => Here \notin missing
          /\ job' = [job EXCEPT ![i].at = "copy", ![i].todo = missing,
                       ![i].sound = /\ \A n \in Pool \ missing : cache[n] = "whole"
                                    /\ cache[Here] = "whole"]
    /\ UNCHANGED <<cache, deleting, call, counts>>

\* sync.submit raises for this machine and for a copy that cannot work.
CannotCopy(i) ==
    /\ job[i].at = "copy" /\ Live(i) /\ job[i].todo # {}
    /\ job' = [job EXCEPT ![i].at = "off", ![i].row = "failed"]
    /\ UNCHANGED <<cache, deleting, call, counts>>

\* The loop goes machine by machine.
Copies(i, n) ==
    /\ job[i].at = "copy" /\ Live(i) /\ n \in job[i].todo /\ n # Here
    /\ job' = Append([job EXCEPT ![i].at = "await", ![i].child = Len(job) + 1,
                                 ![i].todo = @ \ {n}],
                     New("sync", n, "ordered"))
    /\ UNCHANGED <<cache, deleting, call, counts>>

\* A child that is over, however it went.
AwaitsOver(i) ==
    /\ job[i].at = "await" /\ Live(i) /\ ~Live(job[i].child)
    /\ job' = [job EXCEPT ![i].at = "copy"]
    /\ UNCHANGED <<cache, deleting, call, counts>>

\* Waits for the success alone.
AwaitsSuccess(i) ==
    /\ job[i].at = "await" /\ Live(i) /\ job[job[i].child].row = "succeeded"
    /\ job' = [job EXCEPT ![i].at = "copy"]
    /\ UNCHANGED <<cache, deleting, call, counts>>

\* _await_job: a poll that finds the child's row terminal.
Awaits(i) ==
    /\ job[i].at = "await" /\ Live(i) /\ ~Live(job[i].child)
    /\ job' = IF job[job[i].child].row = "succeeded" THEN [job EXCEPT ![i].at = "copy"]
              ELSE [job EXCEPT ![i].at = "off", ![i].row = "failed"]
    /\ UNCHANGED <<cache, deleting, call, counts>>

Starts(i) ==
    /\ job[i].at = "copy" /\ Live(i) /\ job[i].todo = {}
    /\ job' = [job EXCEPT ![i].at = "start"]
    /\ UNCHANGED <<cache, deleting, call, counts>>

\* start() returned, or raised.
Started(i) ==
    /\ job[i].at = "start" /\ Live(i)
    /\ \E row \in {"succeeded", "failed"} :
          job' = [job EXCEPT ![i].at = "off", ![i].row = row]
    /\ UNCHANGED <<cache, deleting, call, counts>>

-----------------------------------------------------------------------------
(* JobManager.cancel, and a restart of the dashboard.                      *)

\* A container found on this machine is stopped, and its follower writes the
\* row.  Otherwise the task is cancelled and the row written: a download on a
\* peer, a docker run in flight, an rsync behind a killed ssh may go on.
Cancels(i) ==
    /\ Live(i)
    /\ Mishap
    /\ IF job[i].kind = "download" /\ job[i].node = Here /\ job[i].program # "ordered"
       THEN job' = [job EXCEPT ![i].stopped = TRUE, ![i].program = IF @ = "on" THEN "bad" ELSE @]
       ELSE \E ends \in BOOLEAN :
              /\ ends => job[i].kind = "sync" /\ job[i].program = "on"
              /\ job' = [job EXCEPT ![i].row = "cancelled", ![i].at = "off", ![i].orphan = TRUE,
                                    ![i].program = IF ends THEN "bad" ELSE @]
    /\ UNCHANGED <<cache, deleting, call>>

\* reconcile(): a download's container is taken up again where there is one;
\* every other live row fails.  Requests and _cancelled are gone.
Restarts ==
    /\ Mishap
    /\ call' = <<>>
    /\ job' = [i \in DOMAIN job |->
                 IF ~Live(i) THEN job[i]
                 ELSE IF job[i].kind = "download" /\ job[i].program # "ordered"
                 THEN [job[i] EXCEPT !.stopped = FALSE]
                 ELSE [job[i] EXCEPT !.row = "failed", !.at = "off", !.orphan = TRUE]]
    /\ UNCHANGED <<cache, deleting>>

-----------------------------------------------------------------------------
Requests ==
    \/ \E n \in Node : AsksForDownload(n) \/ AsksForSync(n)
    \/ \E c \in DOMAIN call : Submits(c) \/ Refuses(c)
    \/ SubmitsLaunch

Ends(i) == EndsWell(i) \/ EndsBadly(i)
Begins(i) == ProgramStarts(i) \/ NeverStarts(i)
Drives(i) == \/ Checks(i) \/ CannotCopy(i) \/ (\E n \in Peers : Copies(i, n))
             \/ Awaits(i) \/ Starts(i) \/ Started(i)

Next ==
    \/ Requests
    \/ \E i \in DOMAIN job : Begins(i) \/ Ends(i) \/ Settles(i) \/ Drives(i) \/ Cancels(i)
    \/ \E n \in Node : Deletes(n) \/ Deleted(n)
    \/ Restarts

Spec == Init /\ [][Next]_vars

MaxJobs == MaxRequests * (1 + Cardinality(Peers))

\* Programs begin and end, the end of one is noticed, a launch polls.  Nobody
\* has to ask for anything, to cancel or to delete.
Fairness ==
    \A i \in 1..MaxJobs :
        /\ WF_vars(i \in DOMAIN job /\ Begins(i))
        /\ WF_vars(i \in DOMAIN job /\ Ends(i))
        /\ WF_vars(i \in DOMAIN job /\ Settles(i))
        /\ WF_vars(i \in DOMAIN job /\ Drives(i))

FairSpec == Spec /\ Fairness

-----------------------------------------------------------------------------
\* "Two containers writing one repo's blobs interleave badly": a download does
\* not run beside an older one on the same machine that it could see when it
\* looked, unless that one's row was settled without its container - a cancel
\* on a peer, or one that overtook docker run.
OneWriter ==
    \A i, j \in DOMAIN job :
        /\ job[i].kind = "download" /\ job[j].kind = "download"
        /\ job[i].node = job[j].node /\ i \in job[j].saw
        /\ job[i].program = "on" /\ job[j].program = "on"
        => job[i].orphan

\* "Making that part of the launch means the user asks for a server and gets a
\* server": when a launch goes on to start its engine, every machine of the
\* pool has the whole model, if the copies it found and copied from were whole
\* and no one deleted one since.
SoundStart ==
    \A i \in DOMAIN job :
        job[i].at = "start" /\ Live(i) /\ job[i].sound => \A n \in Pool : cache[n] = "whole"

\* Every job gets a verdict: a launch whose copy fails or is cancelled, a copy
\* whose launch was cancelled, a download, across restarts.
Verdict ==
    \A i \in 1..MaxJobs :
        (i \in DOMAIN job /\ Live(i)) ~> (i \in DOMAIN job /\ ~Live(i))
=============================================================================
