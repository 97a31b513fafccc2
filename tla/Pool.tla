--------------------------------- MODULE Pool ---------------------------------
(***************************************************************************)
(* One engine over several machines: app/servers.py start_pooled and the   *)
(* pool reaper, with what app/cluster.py finds and allocates for them.     *)
(* Rank r of a server is a container of its own on the r-th machine of the *)
(* row's pool; a launch creates them one by one under LAUNCH_LOCK, while   *)
(* stop and delete look the ranks up and take them down without it.        *)
(***************************************************************************)
EXTENDS Naturals, Sequences, FiniteSets, FiniteSetsExt

CONSTANTS
    Server,      \* pooled rows of the servers table
    Node,        \* the registered machines
    Peer,        \* those reached over ssh
    Pools,       \* the values pool_nodes takes
    Created,     \* the pool each row was created with
    MaxPort,     \* rendezvous ports are 1..MaxPort
    Call,        \* requests that may be in flight at once
    Faults,      \* "deaf": peers stop answering
    MaxRequests, \* bound on requests
    MaxEdits,    \* bound on edits of a row's pool
    MaxFaults,   \* bound on dying ranks, cancelled launches and restarts together
    Reaper,      \* the reaper, as a holder of the lock
    None

ASSUME PoolAssumption ==
    /\ Peer \subseteq Node
    /\ Faults \subseteq {"deaf"}
    /\ Pools \subseteq {p \in Seq(Node) : Len(p) > 1 /\ \A i, j \in DOMAIN p : p[i] = p[j] => i = j}
    /\ Created \in [Server -> Pools]
    /\ {MaxPort, MaxRequests, MaxEdits, MaxFaults} \subseteq Nat
    /\ Reaper \notin Call
    /\ None \notin Call \cup {Reaper} \cup Server \cup Pools \cup Nat

Port == 1..MaxPort
Rank == UNION {{i - 1 : i \in DOMAIN p} : p \in Pools}
Container == [server : Server, rank : Rank, node : Node]

\* The ranks of server s over pool p, one per machine.
Ranks(s, p) == {[server |-> s, rank |-> i - 1, node |-> p[i]] : i \in DOMAIN p}

VARIABLES
    row,        \* pool_nodes of each server; None once the row is deleted
    port,       \* the --master-port of each running container
    holder,     \* who holds LAUNCH_LOCK
    call,       \* what each request is doing
    abandoned,  \* docker commands whose caller is gone
    seen,       \* _partial_seen: the names that ran at the last look
    reaper,     \* the pass under way
    counts,     \* requests, edits and faults so far
    world,      \* ghost: the ranks each server should have, None once a fault,
                \*   a dying rank or overlapping requests leave that open
    unsure      \* ghost: containers an abandoned docker run created

vars == <<row, port, holder, call, abandoned, seen, reaper, counts, world, unsure>>
ghosts == <<world, unsure>>

Idle == [op |-> "none", at |-> "idle", server |-> None, pool |-> None,
         port |-> None, todo |-> {}]
NoPass == [at |-> "idle", left |-> {}, expected |-> [s \in Server |-> 0],
           server |-> None, todo |-> {}]

Op == {"launch", "stop", "delete"}
Launching == {"remove", "run", "undo"}

Up == {k \in Container : port[k] # None}
RanksUp(s) == {k \in Up : k.server = s}
Alive(s) == row[s] # None
InFlight(s) == {c \in Call : call[c].server = s}

\* The machines they run on instead.
Hosts(C) == {k.node : k \in C}

Names(C) == {k.rank : k \in C}

\* The machine's own docker always answers; a peer's may not.
Deaf == IF "deaf" \in Faults THEN Peer ELSE {}

\* What `docker ps` over all nodes shows: nothing of a peer it cannot reach,
\* which is no error either.
Views == {{k \in Up : k.node \notin D} : D \in SUBSET Deaf}

\* Rank 0 first.
Lowest(C) == {k \in C : \A j \in C : k.rank <= j.rank}

-----------------------------------------------------------------------------
Init ==
    /\ row = Created
    /\ port = [k \in Container |-> None]
    /\ holder = None
    /\ call = [c \in Call |-> Idle]
    /\ abandoned = {}
    /\ seen = [s \in Server |-> None]
    /\ reaper = NoPass
    /\ counts = [requests |-> 0, edits |-> 0, faults |-> 0]
    /\ world = [s \in Server |-> {}]
    /\ unsure = {}

Counts(what, bound) ==
    /\ counts[what] < bound
    /\ counts' = [counts EXCEPT ![what] = @ + 1]

Answers(c) == call' = [call EXCEPT ![c] = Idle]
Disturbs(S) == world' = [s \in Server |-> IF s \in S THEN None ELSE world[s]]

\* The row is read when the request arrives, before any lock.  Launches wait
\* for each other; a stop that overlaps a launch may leave half an engine.
Request(c, op, s) ==
    /\ call[c] = Idle
    /\ Alive(s)
    /\ call' = [call EXCEPT ![c] =
                  [Idle EXCEPT !.op = op, !.server = s, !.pool = row[s],
                               !.at = IF op = "launch" THEN "lock" ELSE "scan"]]
    /\ Counts("requests", MaxRequests)
    /\ Disturbs({t \in {s} : \E d \in InFlight(t) : {op, call[d].op} # {"launch"}})
    /\ UNCHANGED <<row, port, holder, abandoned, seen, reaper, unsure>>

\* PATCH of pool_nodes: nobody asks whether the engine runs.
EditsPool(s, p) ==
    /\ Alive(s)
    /\ p # row[s]
    /\ Counts("edits", MaxEdits)
    /\ row' = [row EXCEPT ![s] = p]
    /\ UNCHANGED <<port, holder, call, abandoned, seen, reaper, ghosts>>

\* A rank crashes, or the memory watchdog kills it.
Dies(k) ==
    /\ k \in Up
    /\ port' = [port EXCEPT ![k] = None]
    /\ unsure' = unsure \ {k}
    /\ Counts("faults", MaxFaults)
    /\ Disturbs({k.server})
    /\ UNCHANGED <<row, holder, call, abandoned, seen, reaper>>

\* docker stop or docker rm -f of k: no error when the peer does not answer.
TakenDown(k) ==
    \/ port' = [port EXCEPT ![k] = None] /\ unsure' = unsure \ {k} /\ UNCHANGED world
    \/ k.node \in Deaf /\ Disturbs({k.server}) /\ UNCHANGED <<port, unsure>>

-----------------------------------------------------------------------------
(* start_pooled                                                            *)

\* The plan refuses, or no rendezvous port is left.
Refuses(c) ==
    /\ call[c].at = "lock"
    /\ holder = None
    /\ Answers(c)
    /\ UNCHANGED <<row, port, holder, abandoned, seen, reaper, counts, ghosts>>

\* Only the machines of this pool are asked.
TakenNearby(s, p, shown) ==
    {port[k] : k \in {j \in shown : (\E i \in DOMAIN p : j.node = p[i])
                                      /\ ~(j.server = s /\ j.rank < Len(p))}}

\* The ports of the containers shown on any machine, those named like the
\* ranks of s over p left out.
Taken(s, p, shown) ==
    {port[k] : k \in {j \in shown : ~(j.server = s /\ j.rank < Len(p))}}

\* Nothing is left over that this launch does not take down, and nothing else
\* is under way for its server.
Settles(c) ==
    LET s == call[c].server
    IN  /\ RanksUp(s) \subseteq Ranks(s, call[c].pool)
        /\ \A d \in InFlight(s) : call[d].op = "launch"
        /\ \A x \in abandoned : x[2].server # s

\* The plan holds and the lowest free port is chosen.
Allocates(c) ==
    LET s == call[c].server
        p == call[c].pool
    IN  /\ call[c].at = "lock"
        /\ holder = None
        /\ \E shown \in Views :
              /\ Port \ Taken(s, p, shown) # {}
              /\ call' = [call EXCEPT ![c].at = "remove", ![c].todo = Ranks(s, p),
                                      ![c].port = Min(Port \ Taken(s, p, shown))]
        /\ holder' = c
        /\ world' = [world EXCEPT ![s] = IF Settles(c) THEN {} ELSE None]
        /\ UNCHANGED <<row, port, abandoned, seen, reaper, counts, unsure>>

\* stop_ranks of the launch, and of stop and delete the ranks they found.
Takes(c, k) ==
    /\ call[c].at \in {"remove", "undo", "take"}
    /\ k \in Lowest(call[c].todo)
    /\ TakenDown(k)
    /\ call' = [call EXCEPT ![c].todo = @ \ {k}]
    /\ UNCHANGED <<row, holder, abandoned, seen, reaper, counts>>

Cleared(c) ==
    /\ call[c].at = "remove" /\ call[c].todo = {}
    /\ call' = [call EXCEPT ![c].at = "run",
                            ![c].todo = Ranks(call[c].server, call[c].pool)]
    /\ UNCHANGED <<row, port, holder, abandoned, seen, reaper, counts, ghosts>>

Runs(c, k) ==
    /\ call[c].at = "run"
    /\ k \in Lowest(call[c].todo) \ Up
    /\ port' = [port EXCEPT ![k] = call[c].port]
    /\ call' = [call EXCEPT ![c].todo = @ \ {k}]
    /\ UNCHANGED <<row, holder, abandoned, seen, reaper, counts, ghosts>>

\* DockerError from one rank: the ranks before it are taken down again.
RunRefused(c) ==
    /\ call[c].at = "run" /\ call[c].todo # {}
    /\ call' = [call EXCEPT ![c].at = "undo",
                            ![c].todo = Ranks(call[c].server, call[c].pool)]
    /\ UNCHANGED <<row, port, holder, abandoned, seen, reaper, counts, ghosts>>

Launched(c) ==
    /\ call[c].at = "run" /\ call[c].todo = {}
    /\ world' = [world EXCEPT ![call[c].server] =
                    IF @ = None THEN None ELSE Ranks(call[c].server, call[c].pool)]
    /\ Answers(c)
    /\ holder' = None
    /\ UNCHANGED <<row, port, abandoned, seen, reaper, counts, unsure>>

Undone(c) ==
    /\ call[c].at = "undo" /\ call[c].todo = {}
    /\ Answers(c)
    /\ holder' = None
    /\ UNCHANGED <<row, port, abandoned, seen, reaper, counts, ghosts>>

-----------------------------------------------------------------------------
(* stop and delete                                                         *)

\* Read off the row instead: rank r on the r-th machine it names.
ScansRow(c) ==
    /\ call[c].at = "scan"
    /\ call' = [call EXCEPT ![c].at = "take", ![c].todo = Ranks(call[c].server, call[c].pool)]
    /\ UNCHANGED <<row, port, holder, abandoned, seen, reaper, counts, ghosts>>

\* find_ranks over every registered node, whatever the row says.
Scans(c) ==
    /\ call[c].at = "scan"
    /\ \E shown \in Views :
          /\ call' = [call EXCEPT ![c].at = "take",
                                  ![c].todo = RanksUp(call[c].server) \cap shown]
          /\ Disturbs({s \in {call[c].server} : ~(RanksUp(s) \subseteq shown)})
    /\ UNCHANGED <<row, port, holder, abandoned, seen, reaper, counts, unsure>>

Stopped(c) ==
    /\ call[c].at = "take" /\ call[c].todo = {}
    /\ row' = IF call[c].op = "delete" THEN [row EXCEPT ![call[c].server] = None] ELSE row
    /\ world' = [world EXCEPT ![call[c].server] = IF @ = None THEN None ELSE {}]
    /\ Answers(c)
    /\ UNCHANGED <<port, holder, abandoned, seen, reaper, counts, unsure>>

-----------------------------------------------------------------------------
(* Cancelled launches, and the dashboard going away: the docker command    *)
(* that was under way goes on.                                             *)

Command(c) ==
    IF call[c].at = "run" THEN {<<"run", k, call[c].port>> : k \in Lowest(call[c].todo)}
    ELSE IF call[c].at \in {"remove", "undo", "take"}
    THEN {<<"rm", k, None>> : k \in Lowest(call[c].todo)}
    ELSE {}

\* CancelledError is no Exception: the ranks that came up stay.
Cancels(c) ==
    /\ call[c].op = "launch"
    /\ Counts("faults", MaxFaults)
    /\ abandoned' = abandoned \cup Command(c)
    /\ Answers(c)
    /\ holder' = IF holder = c THEN None ELSE holder
    /\ Disturbs({call[c].server})
    /\ UNCHANGED <<row, port, seen, reaper, unsure>>

Restarts ==
    /\ Counts("faults", MaxFaults)
    /\ \E lost \in SUBSET UNION {Command(c) : c \in Call} : abandoned' = abandoned \cup lost
    /\ Disturbs({call[c].server : c \in {d \in Call : call[d] # Idle}})
    /\ call' = [c \in Call |-> Idle]
    /\ holder' = None
    /\ seen' = [s \in Server |-> None]
    /\ reaper' = NoPass
    /\ UNCHANGED <<row, port, unsure>>

\* The command completes; docker run is refused while the name is taken.
Lands(x) ==
    /\ abandoned' = abandoned \ {x}
    /\ IF x[1] = "rm"
       THEN port' = [port EXCEPT ![x[2]] = None] /\ unsure' = unsure \ {x[2]}
       ELSE IF x[2] \in Up
            THEN UNCHANGED <<port, unsure>>
            ELSE port' = [port EXCEPT ![x[2]] = x[3]] /\ unsure' = unsure \cup {x[2]}
    /\ Disturbs({x[2].server})
    /\ UNCHANGED <<row, holder, call, seen, reaper, counts>>

-----------------------------------------------------------------------------
(* reap_partial_pools_once.  The probe of every node raises nothing, so a  *)
(* pass never finds one that does not answer.                              *)

\* The definitions are listed once, at the start.
NewPass == [NoPass EXCEPT !.at = "look", !.left = {s \in Server : Alive(s)},
              !.expected = [s \in Server |-> IF Alive(s) THEN Len(row[s]) ELSE 0]]

\* Without the lock.
PassBeginsUnlocked ==
    /\ reaper.at = "idle"
    /\ reaper' = NewPass
    /\ UNCHANGED <<row, port, holder, call, abandoned, seen, counts, ghosts>>

PassBegins ==
    /\ reaper.at = "idle"
    /\ holder = None
    /\ holder' = Reaper
    /\ reaper' = NewPass
    /\ UNCHANGED <<row, port, call, abandoned, seen, counts, ghosts>>

\* What runs is never written down where the next pass would find it.
LooksOnce(s) ==
    /\ reaper.at = "look" /\ s \in reaper.left
    /\ seen' = [seen EXCEPT ![s] = None]
    /\ reaper' = [reaper EXCEPT !.left = @ \ {s}]
    /\ UNCHANGED <<row, port, holder, call, abandoned, counts, ghosts>>

\* One server of the pass: which ranks are found, and of those, which run.
Looks(s) ==
    /\ reaper.at = "look" /\ s \in reaper.left
    /\ \E shown, answered \in Views :
       LET found == RanksUp(s) \cap shown
           alive == found \cap answered
           partial == alive # {} /\ Cardinality(alive) < reaper.expected[s]
           condemned == partial /\ seen[s] = Names(alive)
       IN  /\ seen' = [seen EXCEPT ![s] = IF partial THEN Names(alive) ELSE None]
           /\ reaper' = IF condemned
                        THEN [reaper EXCEPT !.left = @ \ {s}, !.at = "take",
                                            !.server = s, !.todo = found]
                        ELSE [reaper EXCEPT !.left = @ \ {s}]
    /\ UNCHANGED <<row, port, holder, call, abandoned, counts, ghosts>>

Reaps(k) ==
    /\ reaper.at = "take"
    /\ k \in Lowest(reaper.todo)
    /\ TakenDown(k)
    /\ reaper' = [reaper EXCEPT !.todo = @ \ {k}]
    /\ UNCHANGED <<row, holder, call, abandoned, seen, counts>>

Reaped ==
    /\ reaper.at = "take" /\ reaper.todo = {}
    /\ seen' = [seen EXCEPT ![reaper.server] = None]
    /\ reaper' = [reaper EXCEPT !.at = "look", !.server = None]
    /\ UNCHANGED <<row, port, holder, call, abandoned, counts, ghosts>>

PassEnds ==
    /\ reaper.at = "look" /\ reaper.left = {}
    /\ seen' = [s \in Server |-> IF reaper.expected[s] = 0 THEN None ELSE seen[s]]
    /\ reaper' = NoPass
    /\ holder' = None
    /\ UNCHANGED <<row, port, call, abandoned, counts, ghosts>>

-----------------------------------------------------------------------------
Proceeds(c) ==
    \/ Refuses(c) \/ Allocates(c)
    \/ Cleared(c) \/ RunRefused(c) \/ Launched(c) \/ Undone(c)
    \/ Scans(c) \/ Stopped(c)
    \/ \E k \in Container : Takes(c, k) \/ Runs(c, k)

ReapStep ==
    \/ PassBegins \/ Reaped \/ PassEnds
    \/ \E s \in Server : Looks(s)
    \/ \E k \in Container : Reaps(k)

Next ==
    \/ \E c \in Call, op \in Op, s \in Server : Request(c, op, s)
    \/ \E s \in Server, p \in Pools : EditsPool(s, p)
    \/ \E c \in Call : Proceeds(c) \/ Cancels(c)
    \/ ReapStep
    \/ \E x \in abandoned : Lands(x)
    \/ \E k \in Container : Dies(k)
    \/ Restarts

Spec == Init /\ [][Next]_vars

\* Docker commands return and the event loop runs what is ready; the reaper's
\* loop never ends, and asyncio's lock serves its waiters in order.
Fairness ==
    /\ \A c \in Call : WF_vars(Proceeds(c))
    /\ WF_vars(ReapStep)

FairSpec == Spec /\ Fairness

-----------------------------------------------------------------------------
(* Properties                                                              *)

TypeOK ==
    /\ row \in [Server -> Pools \cup {None}]
    /\ port \in [Container -> Port \cup {None}]
    /\ holder \in Call \cup {Reaper, None}
    /\ call \in [Call -> [op : Op \cup {"none"},
                          at : {"idle", "lock", "scan", "take"} \cup Launching,
                          server : Server \cup {None}, pool : Pools \cup {None},
                          port : Port \cup {None}, todo : SUBSET Container]]
    /\ abandoned \subseteq ({"run"} \X Container \X Port) \cup ({"rm"} \X Container \X {None})
    /\ seen \in [Server -> (SUBSET Rank) \cup {None}]
    /\ reaper \in [at : {"idle", "look", "take"}, left : SUBSET Server,
                   expected : [Server -> Nat], server : Server \cup {None},
                   todo : SUBSET Container]
    /\ counts \in [requests : 0..MaxRequests, edits : 0..MaxEdits, faults : 0..MaxFaults]
    /\ world \in [Server -> (SUBSET Container) \cup {None}]
    /\ unsure \subseteq Up

\* Engines of two servers never meet on one rendezvous port, wherever their
\* ranks ended up, as long as every machine answers when the port is chosen.
PortsApart ==
    \A j, k \in Up \ unsure : port[j] = port[k] => j.server = k.server

\* The reaper never tears down an engine all of whose ranks run, nor is it at
\* work when one it found half started is complete.
NeverReapsServing ==
    reaper.at = "take" =>
        \/ world[reaper.server] \in {None, {}}
        \/ ~(world[reaper.server] \subseteq Up)

\* Requests that do not overlap leave an engine whole or not there at all,
\* whatever becomes of the row's pool meanwhile: a launch that fails half way
\* takes its ranks down, and a stop finds every rank where it runs.
WholeOrAbsent ==
    \A s \in Server :
        \/ world[s] = None
        \/ \E c \in InFlight(s) : call[c].at \in Launching \cup {"take"}
        \/ RanksUp(s) = world[s]

Broken(s) ==
    /\ Alive(s)
    /\ RanksUp(s) # {}
    /\ Cardinality(Names(RanksUp(s))) = Cardinality(RanksUp(s))
    /\ Cardinality(RanksUp(s)) < Len(row[s])

\* The survivors of an engine that has lost a rank are stopped in the end, and
\* their memory comes back.
SurvivorsGo == \A s \in Server : Broken(s) ~> ~Broken(s)
=============================================================================
