------------------------------- MODULE Launch -------------------------------
(***************************************************************************)
(* app/servers.py and app/routers/servers.py: the life of a server that    *)
(* runs on one machine.  A server is a row naming an engine and a node; its *)
(* container's name is made of both ids, so it is the row that says which   *)
(* container is the server's.  Requests run concurrently and are suspended  *)
(* wherever the code awaits a docker command; what they read from the row   *)
(* before that may be stale after it.                                       *)
(***************************************************************************)
EXTENDS Admission, FiniteSets, Functions

CONSTANTS
    Server,      \* rows of the servers table
    Node,        \* machines
    Peer,        \* those reached over ssh
    Call,        \* requests that may be in flight at once
    Faults,      \* "cancel": launch jobs are cancelled; "deaf": peers do not answer
    NodePool,    \* the memory pool of each machine
    Created,     \* the rows as they were created
    VllmArgs,    \* each server's arguments under vLLM
    Weights,     \* what each server takes under llama.cpp
    Companions,  \* the part of it that is in its other files, if any
    MaxAbandoned, \* bound on abandoned docker commands at a time
    MaxEdits,    \* bound on requests that change a row's engine or node
    None         \* no call, no row, no container

Engine == {"vllm", "llamacpp"}

Row == [engine : Engine, node : Node]

\* settings.container_name(engine, id), on the machine that has it.
Container == [server : Server, engine : Engine, node : Node]

Deaf(n) == n \in Peer /\ "deaf" \in Faults

\* What a launch is priced at, from the row.
Need(k, pool) == IF k.engine = "vllm" THEN Footprint(VllmArgs[k.server], pool)
                                      ELSE Weights[k.server]

\* What a container that runs is priced at, from its command, of which neither
\* the cards it spans nor a draft model or a projector is read.
Seen(k, pool) ==
    IF k.engine = "vllm" THEN Footprint(Apparent(VllmArgs[k.server]), pool)
                         ELSE Less(Weights[k.server], Companions[k.server])

SeenWhole(pool) == {k \in Container : Seen(k, pool) = Need(k, pool)}

\* What a set of containers counts for in a survey.
Load(C, pool) == SumFunctionOnSet([k \in Container |-> Seen(k, pool)], C)

ASSUME LaunchAssumption ==
    /\ IsFiniteSet(Server) /\ IsFiniteSet(Node)
    /\ None \notin Call \cup Row \cup Container
    /\ Peer \subseteq Node
    /\ Faults \subseteq {"cancel", "deaf"}
    /\ NodePool \in [Node -> Pool]
    /\ Created \in [Server -> Row]
    /\ VllmArgs \in [Server -> Args]
    /\ Weights \in [Server -> Nat]
    /\ Companions \in [Server -> Nat]
    /\ MaxAbandoned \in Nat
    /\ MaxEdits \in Nat

VARIABLES
    row,        \* the servers table; None once a row is deleted
    edits,      \* how many edits were requested so far
    running,    \* the engine containers that run
    holder,     \* the call that holds LAUNCH_LOCK
    call,       \* what each request is waiting for
    abandoned,  \* docker commands whose request was cancelled
    surveyed,   \* ghost: the containers the holder's survey counted
    unsure,     \* ghost: running containers started without a sound verdict
    mixed,      \* ghost: servers whose requests overlapped or went astray
    misread     \* ghost: servers switched as a silent peer hid their container

marks == <<mixed, misread>>
ghosts == <<unsure, marks>>
rows == <<row, edits>>
lock == <<holder, surveyed>>
vars == <<rows, running, lock, call, abandoned, ghosts>>

Idle == [op |-> "none", at |-> "idle", server |-> None, target |-> None,
         sound |-> FALSE]

Op == {"launch", "restart", "stop", "delete", "engine"}
Holding == {"remove", "run"}
CallAt == {"idle", "lock", "stop", "rm", "drop", "available", "state", "write"} \cup Holding

Pending == [op : Op \cup {"none"}, at : CallAt, server : Server \cup {None},
            target : Container \cup {None}, sound : BOOLEAN]

\* container_name and node_of, read off the row.
Named(s) == [server |-> s, engine |-> row[s].engine, node |-> row[s].node]

Alive(s) == row[s] # None

InFlight(s) == {c \in Call : call[c].server = s}

RunningOn(n) == {k \in running : k.node = n}

-----------------------------------------------------------------------------
Init ==
    /\ row = Created
    /\ edits = 0
    /\ running = {}
    /\ holder = None
    /\ call = [c \in Call |-> Idle]
    /\ abandoned = {}
    /\ surveyed = {}
    /\ unsure = {}
    /\ mixed = {}
    /\ misread = {}

\* A peer is asked whether it answers before it is asked for a container.
FirstAwait(op, n) ==
    CASE op = "launch" -> "lock"
      [] op \in {"stop", "restart"} -> "stop"
      [] op = "delete" -> "rm"
      [] op = "engine" -> IF n \in Peer THEN "available" ELSE "state"

\* A request arrives and reads the row.  autostart() and POST start make the
\* calls of a launch job that nobody cancels.
Request(c, op, s) ==
    /\ call[c] = Idle
    /\ Alive(s)
    /\ call' = [call EXCEPT ![c] =
                  [op |-> op, at |-> FirstAwait(op, row[s].node), server |-> s,
                   target |-> Named(s), sound |-> FALSE]]
    /\ mixed' = mixed \cup (IF InFlight(s) = {} THEN {} ELSE {s})
    /\ edits' = edits + (IF op = "engine" THEN 1 ELSE 0)
    /\ edits' <= MaxEdits
    /\ UNCHANGED <<row, running, lock, abandoned, unsure, misread>>

Goes(c, at) == call' = [call EXCEPT ![c].at = at]
Answers(c) == call' = [call EXCEPT ![c] = Idle]

Ends(k) == running' = running \ {k} /\ unsure' = unsure \ {k}

Release == holder' = None /\ surveyed' = {}

-----------------------------------------------------------------------------
(* start(): everything from the survey to docker run under LAUNCH_LOCK     *)

\* What the container to be replaced gives back: an estimate from its command,
\* which unless it declares a fraction is capped by what is measured.
Credit(target, pool, measured) ==
    LET estimated == target.engine = "llamacpp" \/ VllmArgs[target.server].util = NoUtil
    IN  IF estimated /\ measured > 0 THEN Smaller(Seen(target, pool), measured)
                                     ELSE Seen(target, pool)

\* current_budget, given which containers `docker ps` shows.  The container
\* to be replaced is no tenant.
Survey(target, pool, shown, available, measured) ==
    [pool |-> pool, available |-> available, measured |-> measured,
     committed |-> Load(shown \ {target}, pool),
     excluded |-> IF target \in shown THEN Credit(target, pool, measured) ELSE 0]

Blocks(target, b) ==
    IF target.engine = "vllm" THEN VllmBlocks(b, Need(target, b.pool))
                              ELSE BytesBlocks(b, Need(target, b.pool))

\* What the survey reads as the pool and its containers.  The two are asked
\* for separately, and a peer that does not answer has nothing of either.
Views(n) ==
    {<<NodePool[n], RunningOn(n)>>}
      \cup IF Deaf(n) THEN {NodePool[n], Unread} \X {RunningOn(n), {}} ELSE {}

\* What the check may say, with what is available and measured at that moment.
\* Nothing is measured on a peer.
Verdicts(k, view) ==
    {Blocks(k, Survey(k, view[1], view[2], available, measured)) :
        available \in 0..view[1].total,
        measured \in IF k.node \in Peer THEN {0} ELSE 0..view[1].total}

\* The same without the lock: two launches measure in their own time.
MeasuresUnlocked(c, force) ==
    LET k == call[c].target
    IN  /\ call[c].at = "lock"
        /\ ~Blocks(k, Survey(k, NodePool[k.node], RunningOn(k.node), NodePool[k.node].total, 0))
        /\ call' = [call EXCEPT ![c].at = "remove", ![c].sound = TRUE]
        /\ surveyed' = RunningOn(k.node)
        /\ holder' = c
        /\ UNCHANGED <<rows, running, abandoned, ghosts>>

\* The verdict, and then the look for the image, which reads nothing else.
Measures(c, force) ==
    LET k == call[c].target
    IN  /\ call[c].at = "lock"
        /\ holder = None
        /\ \E view \in Views(k.node) : \E blocked \in Verdicts(k, view) :
              /\ blocked => force
              /\ call' = [call EXCEPT ![c].at = "remove",
                    ![c].sound = /\ ~blocked
                                 /\ view = <<NodePool[k.node], RunningOn(k.node)>>]
              /\ surveyed' = view[2]
        /\ holder' = c
        /\ UNCHANGED <<rows, running, abandoned, ghosts>>

\* Refused by the verdict, or its image is not built; the lock is free again.
Refuses(c) ==
    /\ call[c].at = "lock"
    /\ holder = None
    /\ Answers(c)
    /\ UNCHANGED <<rows, running, lock, abandoned, ghosts>>

\* docker stop and docker rm -f do not report failure; towards a peer that
\* does not answer they do nothing.
TakenDown(c) ==
    \/ Ends(call[c].target) /\ UNCHANGED marks
    \/ /\ Deaf(call[c].target.node)
       /\ mixed' = mixed \cup {call[c].server}
       /\ UNCHANGED <<running, unsure, misread>>

Removes(c) ==
    /\ call[c].at = "remove"
    /\ TakenDown(c)
    /\ Goes(c, "run")
    /\ UNCHANGED <<rows, lock, abandoned>>

Runs(c) ==
    LET k == call[c].target
    IN  /\ call[c].at = "run"
        /\ k \notin running
        /\ running' = running \cup {k}
        /\ unsure' = IF call[c].sound THEN unsure \ {k} ELSE unsure \cup {k}
        /\ Answers(c)
        /\ Release
        /\ UNCHANGED <<rows, abandoned, marks>>

\* DockerError: a bound port, a name in use, a peer that went away.
RunRefused(c) ==
    /\ call[c].at = "run"
    /\ Answers(c)
    /\ Release
    /\ UNCHANGED <<rows, running, abandoned, ghosts>>

Start(c) ==
    \/ \E force \in BOOLEAN : Measures(c, force)
    \/ Refuses(c)
    \/ Removes(c)
    \/ Runs(c) \/ RunRefused(c)

-----------------------------------------------------------------------------
(* A launch job is cancelled: the lock is released, the docker command it  *)
(* was waiting for goes on.                                                *)

Cancels(c) ==
    LET k == call[c].target
    IN  /\ "cancel" \in Faults
        /\ call[c].op = "launch"
        /\ Cardinality(abandoned) < MaxAbandoned
        /\ Answers(c)
        /\ IF holder = c THEN Release ELSE UNCHANGED lock
        /\ abandoned' = abandoned \cup
             (IF call[c].at \in {"remove", "run"} THEN {<<call[c].at, k>>} ELSE {})
        /\ mixed' = mixed \cup {call[c].server}
        /\ UNCHANGED <<rows, running, unsure, misread>>

AbandonedRemoves(k) ==
    /\ <<"remove", k>> \in abandoned
    /\ abandoned' = abandoned \ {<<"remove", k>>}
    /\ Ends(k)
    /\ UNCHANGED <<rows, lock, call, marks>>

AbandonedRuns(k) ==
    /\ <<"run", k>> \in abandoned
    /\ abandoned' = abandoned \ {<<"run", k>>}
    /\ running' = running \cup {k}
    /\ unsure' = IF k \in running THEN unsure ELSE unsure \cup {k}
    /\ UNCHANGED <<rows, lock, call, marks>>

-----------------------------------------------------------------------------
(* stop, restart, delete, and the two edits that rename the container      *)

Stops(c) ==
    /\ call[c].at = "stop"
    /\ TakenDown(c)
    /\ IF call[c].op = "restart" /\ Alive(call[c].server)
       THEN call' = [call EXCEPT ![c].at = "lock", ![c].target = Named(call[c].server)]
       ELSE Answers(c)
    /\ UNCHANGED <<rows, lock, abandoned>>

Deletes(c) ==
    /\ call[c].at = "rm"
    /\ TakenDown(c)
    /\ Goes(c, "drop")
    /\ UNCHANGED <<rows, lock, abandoned>>

Drops(c) ==
    /\ call[c].at = "drop"
    /\ row' = [row EXCEPT ![call[c].server] = None]
    /\ Answers(c)
    /\ UNCHANGED <<edits, running, lock, abandoned, ghosts>>

\* container_running on a peer: `docker version` fails, which is None and
\* refuses too, or it answers and the peer is asked for the container.
Unavailable(c) ==
    /\ call[c].at = "available"
    /\ Deaf(call[c].target.node)
    /\ Answers(c)
    /\ UNCHANGED <<rows, running, lock, abandoned, ghosts>>

Available(c) ==
    /\ call[c].at = "available"
    /\ Goes(c, "state")
    /\ UNCHANGED <<rows, running, lock, abandoned, ghosts>>

InspectsRefused(c) ==
    /\ call[c].at = "state"
    /\ call[c].target \in running
    /\ Answers(c)
    /\ UNCHANGED <<rows, running, lock, abandoned, ghosts>>

\* The refusal gone: the switch is written whatever runs.
InspectsNothing(c) ==
    /\ call[c].at = "state"
    /\ Goes(c, "write")
    /\ UNCHANGED <<rows, running, lock, abandoned, ghosts>>

\* `docker inspect` finds no container that runs, or fails, which docker_ctl
\* reads as no container: a peer may fall silent after it was available.
Inspects(c) ==
    /\ call[c].at = "state"
    /\ \/ call[c].target \notin running /\ UNCHANGED misread
       \/ /\ call[c].target \in running /\ Deaf(call[c].target.node)
          /\ misread' = misread \cup {call[c].server}
    /\ Goes(c, "write")
    /\ UNCHANGED <<rows, running, lock, abandoned, unsure, mixed>>

\* The engine's label where its name belongs.
OtherLabel(engine) == IF engine = "vllm" THEN "llama.cpp" ELSE "vLLM"

Other(engine) == CHOOSE e \in Engine : e # engine

Writes(c) ==
    /\ call[c].at = "write"
    /\ row' = IF Alive(call[c].server)
              THEN [row EXCEPT ![call[c].server].engine = Other(call[c].target.engine)]
              ELSE row
    /\ Answers(c)
    /\ UNCHANGED <<edits, running, lock, abandoned, ghosts>>

\* The same PATCH with another node: nothing is asked of docker.
SetNode(s, n) ==
    /\ Alive(s)
    /\ n # row[s].node
    /\ edits < MaxEdits
    /\ edits' = edits + 1
    /\ row' = [row EXCEPT ![s].node = n]
    /\ mixed' = mixed \cup (IF InFlight(s) = {} /\ Named(s) \notin running
                            THEN {} ELSE {s})
    /\ UNCHANGED <<running, lock, call, abandoned, unsure, misread>>

\* An engine crashes, or the memory watchdog kills it; it stays dead.
Dies(k) ==
    /\ k \in running
    /\ Ends(k)
    /\ UNCHANGED <<rows, lock, call, abandoned, marks>>

-----------------------------------------------------------------------------
Proceeds(c) ==
    \/ Start(c) \/ Stops(c) \/ Deletes(c) \/ Drops(c)
    \/ Unavailable(c) \/ Available(c)
    \/ InspectsRefused(c) \/ Inspects(c) \/ Writes(c)

Next ==
    \/ \E c \in Call, op \in Op, s \in Server : Request(c, op, s)
    \/ \E c \in Call : Proceeds(c) \/ Cancels(c)
    \/ \E k \in Container : AbandonedRemoves(k) \/ AbandonedRuns(k) \/ Dies(k)
    \/ \E s \in Server, n \in Node : SetNode(s, n)

Spec == Init /\ [][Next]_vars

-----------------------------------------------------------------------------
(* Properties                                                              *)

TypeOK ==
    /\ row \in [Server -> Row \cup {None}]
    /\ edits \in 0..MaxEdits
    /\ running \subseteq Container
    /\ holder \in Call \cup {None}
    /\ call \in [Call -> Pending]
    /\ abandoned \subseteq {"remove", "run"} \X Container
    /\ surveyed \subseteq Container
    /\ unsure \subseteq running
    /\ mixed \cup misread \subseteq Server

\* What a launch was measured against is still all there is when its container
\* is created: no container with a sound verdict appears on the node between
\* the survey and docker run.  This is what LAUNCH_LOCK is for.
SurveyStands ==
    \A c \in Call : call[c].at \in Holding /\ call[c].sound =>
        RunningOn(call[c].target.node) \ (unsure \cup {call[c].target}) \subseteq surveyed

\* The engines that were admitted on a sound verdict fit their machine with
\* its reserve to spare, whatever was started, cancelled and killed beside
\* them.  Those that a survey sees the smaller for running are left out.
NoOvercommit ==
    \A n \in Node : LET pool == NodePool[n]
                        honest == (RunningOn(n) \ unsure) \cap SeenWhole(pool)
                    IN  honest # {} /\ ~pool.discrete
                          => Load(honest, pool) + pool.reserve <= pool.total

Unnamed(k) == ~Alive(k.server) \/ k # Named(k.server)

Excused == mixed \cup misread

\* Requests for a server that come one after the other, node edits of a
\* stopped server among them, never leave a container running under a name
\* its row does not give: the engine switch is refused while one would be left,
\* unless its peer falls silent between the two questions that are put to it.
NothingUnnamed ==
    \A k \in running : Unnamed(k) => k.server \in Excused

\* What the docstring of container_running says of the switch: no answer is a
\* refusal, so that it leaves no live engine behind on any peer.
NothingOrphaned ==
    \A k \in running : Unnamed(k) => k.server \in mixed
=============================================================================
