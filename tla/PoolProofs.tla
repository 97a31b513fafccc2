----------------------------- MODULE PoolProofs -----------------------------
(***************************************************************************)
(* Proofs about Pool: what LAUNCH_LOCK protects, that rendezvous ports do  *)
(* not meet, and that the reaper takes down no engine that serves, for any *)
(* machines, servers, pools and number of requests.                        *)
(***************************************************************************)
EXTENDS Pool, FunctionTheorems, FiniteSetTheorems, WellFoundedInduction, TLAPS

USE PoolAssumption

-----------------------------------------------------------------------------
(* The inductive invariants                                                *)

\* A request, as TypeOK has it.
Pending == [op : Op \cup {"none"}, at : {"idle", "lock", "scan", "take"} \cup Launching,
            server : Server \cup {None}, pool : Pools \cup {None},
            port : Port \cup {None}, todo : SUBSET Container]

\* What a request waits for goes with what it was asked to do.
Fits(q) ==
    /\ q.at = "idle" <=> q.op = "none"
    /\ q.at = "idle" <=> q.server = None
    /\ q.at # "idle" => q.pool \in Pools
    /\ q.at \in {"lock"} \cup Launching <=> q.op = "launch"
    /\ q.at \in Launching => q.port \in Port /\ q.todo \subseteq Ranks(q.server, q.pool)
    /\ \A k \in q.todo : k.server = q.server

RequestsFit == \A c \in Call : Fits(call[c])

\* What a pass takes down are ranks of the server it has condemned.
PassFits ==
    reaper.at = "take" => /\ reaper.server \in Server
                          /\ \A k \in reaper.todo : k.server = reaper.server

Types == TypeOK /\ RequestsFit /\ PassFits

\* LAUNCH_LOCK: a launch from the plan to its last rank, and a pass.
Locked ==
    /\ \A c \in Call : call[c].at \in Launching => holder = c
    /\ reaper.at # "idle" => holder = Reaper

\* The port of a launch under way is on no engine of another server.
PortReserved ==
    \A c \in Call : call[c].at \in Launching =>
        \A k \in Up \ unsure : port[k] = call[c].port => k.server = call[c].server

\* What the ghost says of a server is nothing, no rank, or those of one pool.
WorldFits == \A s \in Server : world[s] \in {None, {}} \cup {Ranks(s, p) : p \in Pools}

\* A pass counts against the length of a pool the row had.
PassCounts ==
    \A s \in Server : reaper.expected[s] \in {0} \cup {Len(p) : p \in Pools}

\* Requests under way together for a server are launches, which the lock keeps
\* apart.
OnlyLaunches(s) ==
    \A c, d \in InFlight(s) : c # d => call[c].op = "launch" /\ call[d].op = "launch"

\* A request knows the ranks of its server s that run.
Knows(c, s) ==
    /\ call[c].at \in Launching => world[s] = {}
    /\ call[c].at \in {"remove", "undo", "take"} => RanksUp(s) \subseteq call[c].todo
    /\ call[c].at = "run" => RanksUp(s) = Ranks(s, call[c].pool) \ call[c].todo

AtWork == Launching \cup {"take"}

\* Both hold of a server that nothing has disturbed, and so does WholeOrAbsent.
Settled(s) ==
    world[s] # None =>
        /\ OnlyLaunches(s)
        /\ \A c \in InFlight(s) : Knows(c, s)
        /\ RanksUp(s) = world[s] \/ \E c \in InFlight(s) : call[c].at \in AtWork

AllSettled == \A s \in Server : Settled(s)

ReapInv == WorldFits /\ PassCounts /\ IsFiniteSet(Up) /\ NeverReapsServing

-----------------------------------------------------------------------------
(* Types                                                                   *)

\* A nonempty set of numbers has a least one: of the initial segments below its
\* members one contains no other.
LEMMA LeastNumber ==
    ASSUME NEW S \in SUBSET Nat, S # {}
    PROVE  \E x \in S : \A y \in S : x <= y
<1> DEFINE below(x) == 0 .. (x - 1)
           T == {below(x) : x \in S}
<1>1. T \subseteq FiniteSubsetsOf(Nat)
  <2>1. \A x \in S : x - 1 \in Int /\ below(x) \subseteq Nat
    OBVIOUS
  <2>2. \A x \in S : IsFiniteSet(below(x))
    BY <2>1, FS_Interval
  <2>3. QED
    BY <2>1, <2>2 DEF FiniteSubsetsOf
<1>2. PICK U \in T : \A V \in T : <<V, U>> \notin StrictSubsetOrdering(Nat)
  <2>1. T # {}
    <3>1. PICK y \in S : TRUE
      OBVIOUS
    <3>2. below(y) \in T
      OBVIOUS
    <3>3. QED
      BY <3>2
  <2> HIDE DEF T
  <2>2. QED
    BY <1>1, <2>1, FS_StrictSubsetOrderingWellFounded, WFMin
<1>3. PICK x \in S : U = below(x)
  OBVIOUS
<1>4. ASSUME NEW y \in S, y < x PROVE FALSE
  <2>1. below(y) \subseteq below(x) /\ below(y) \subseteq Nat /\ below(x) \subseteq Nat
    BY <1>4
  <2>2. y \in below(x) /\ y \notin below(y)
    BY <1>4
  <2>3. <<below(y), below(x)>> \in StrictSubsetOrdering(Nat)
    BY <2>1, <2>2 DEF StrictSubsetOrdering
  <2>4. QED
    BY <1>2, <1>3, <2>3
<1>5. QED
  BY <1>4

\* Min finds the least of a nonempty set of ports.
LEMMA LeastPort == ASSUME NEW S \in SUBSET Port, S # {} PROVE Min(S) \in S
<1>1. \E x \in S : \A y \in S : x <= y
  BY LeastNumber DEF Port
<1>2. QED
  BY <1>1 DEF Min

\* Every rank is a container of its server.
LEMMA RanksType ==
    ASSUME NEW s \in Server, NEW p \in Pools
    PROVE  Ranks(s, p) \subseteq Container /\ \A k \in Ranks(s, p) : k.server = s
<1>1. p \in Seq(Node)
  OBVIOUS
<1>2. \A i \in DOMAIN p : p[i] \in Node /\ i - 1 \in Rank
  BY <1>1 DEF Rank
<1>3. QED
  BY <1>2 DEF Ranks, Container

\* How a request goes on: to a position, with ranks to take and a port.
Goes(c, at, todo, number) ==
    \/ call' = [call EXCEPT ![c].at = at, ![c].todo = todo, ![c].port = number]
    \/ call' = [call EXCEPT ![c].at = at, ![c].todo = todo] /\ number = call[c].port
    \/ call' = [call EXCEPT ![c].todo = todo] /\ at = call[c].at /\ number = call[c].port

\* The rest of it, and the other requests, are as they were.
LEMMA GoesOn ==
    ASSUME call \in [Call -> Pending], NEW c \in Call,
           NEW at \in {"lock", "scan", "take"} \cup Launching,
           NEW todo \in SUBSET Container, NEW number \in Port \cup {None},
           Goes(c, at, todo, number)
    PROVE  /\ call' \in [Call -> Pending]
           /\ call'[c].at = at /\ call'[c].todo = todo /\ call'[c].port = number
           /\ call'[c].op = call[c].op /\ call'[c].server = call[c].server
           /\ call'[c].pool = call[c].pool
           /\ \A d \in Call \ {c} : call'[d] = call[d]
<1>0. call[c] \in Pending
  OBVIOUS
<1>1. CASE call' = [call EXCEPT ![c].at = at, ![c].todo = todo, ![c].port = number]
  <2> DEFINE q == [call[c] EXCEPT !.at = at, !.todo = todo, !.port = number]
  <2>1. /\ q \in Pending /\ q.at = at /\ q.todo = todo /\ q.port = number
        /\ q.op = call[c].op /\ q.server = call[c].server /\ q.pool = call[c].pool
    BY <1>0, <1>1 DEF Pending
  <2>2. call' = [call EXCEPT ![c] = q]
    BY <1>1
  <2> HIDE DEF q
  <2>3. QED
    BY <2>1, <2>2
<1>2. CASE call' = [call EXCEPT ![c].at = at, ![c].todo = todo] /\ number = call[c].port
  <2> DEFINE q == [call[c] EXCEPT !.at = at, !.todo = todo]
  <2>1. /\ q \in Pending /\ q.at = at /\ q.todo = todo /\ q.port = number
        /\ q.op = call[c].op /\ q.server = call[c].server /\ q.pool = call[c].pool
    BY <1>0, <1>2 DEF Pending
  <2>2. call' = [call EXCEPT ![c] = q]
    BY <1>2
  <2> HIDE DEF q
  <2>3. QED
    BY <2>1, <2>2
<1>3. CASE /\ call' = [call EXCEPT ![c].todo = todo]
           /\ at = call[c].at /\ number = call[c].port
  <2> DEFINE q == [call[c] EXCEPT !.todo = todo]
  <2>1. /\ q \in Pending /\ q.at = at /\ q.todo = todo /\ q.port = number
        /\ q.op = call[c].op /\ q.server = call[c].server /\ q.pool = call[c].pool
    BY <1>0, <1>3 DEF Pending
  <2>2. call' = [call EXCEPT ![c] = q]
    BY <1>3
  <2> HIDE DEF q
  <2>3. QED
    BY <2>1, <2>2
<1>4. QED
  BY <1>1, <1>2, <1>3 DEF Goes

\* What fits a request still fits it further on.
LEMMA GoesType ==
    ASSUME Types, NEW c \in Call, call[c].at # "idle",
           NEW at \in {"take"} \cup Launching,
           NEW todo \in SUBSET Container, NEW number \in Port \cup {None},
           Goes(c, at, todo, number),
           at \in Launching <=> call[c].op = "launch",
           at \in Launching => number \in Port
                               /\ todo \subseteq Ranks(call[c].server, call[c].pool),
           \A k \in todo : k.server = call[c].server
    PROVE  call' \in [Call -> Pending] /\ RequestsFit'
<1>1. call \in [Call -> Pending] /\ Fits(call[c])
  BY DEF Types, TypeOK, RequestsFit, Pending
<1>2. /\ call' \in [Call -> Pending]
      /\ call'[c].at = at /\ call'[c].todo = todo /\ call'[c].port = number
      /\ call'[c].op = call[c].op /\ call'[c].server = call[c].server
      /\ call'[c].pool = call[c].pool
      /\ \A d \in Call \ {c} : call'[d] = call[d]
  BY <1>1, GoesOn
<1>3. Fits(call'[c])
  BY <1>1, <1>2 DEF Fits, Launching
<1>4. QED
  BY <1>2, <1>3 DEF Types, RequestsFit

\* A request keeps the types if what it became fits.
LEMMA RequestStep ==
    ASSUME Types, NEW c \in Call, NEW q \in Pending, Fits(q), call' = [call EXCEPT ![c] = q]
    PROVE  call' \in [Call -> Pending] /\ RequestsFit'
<1>1. call' \in [Call -> Pending] /\ \A d \in Call : call'[d] \in {call[d], q}
  BY DEF Types, TypeOK, Pending
<1>2. QED
  BY <1>1 DEF Types, RequestsFit

\* A request that is answered is no request any more.
LEMMA AnswerType ==
    ASSUME Types, NEW c \in Call, Answers(c)
    PROVE  call' \in [Call -> Pending] /\ RequestsFit'
<1>1. Idle \in Pending /\ Fits(Idle)
  BY DEF Idle, Pending, Fits, Launching
<1>2. call' \in [Call -> Pending] /\ \A d \in Call : call'[d] \in {call[d], Idle}
  BY <1>1 DEF Answers, Types, TypeOK, Pending
<1>3. QED
  BY <1>1, <1>2 DEF Types, RequestsFit

\* Docker commands left running are about ranks, and docker run has a port.
LEMMA CommandType ==
    ASSUME Types, NEW c \in Call
    PROVE  Command(c) \subseteq ({"run"} \X Container \X Port) \cup ({"rm"} \X Container \X {None})
<1>1. Lowest(call[c].todo) \subseteq Container
  BY DEF Types, TypeOK, Lowest
<1>2. call[c].at = "run" => call[c].port \in Port
  BY DEF Types, RequestsFit, Fits, Launching
<1>3. QED
  BY <1>1, <1>2 DEF Command

\* What stop or rm of a container leaves of the ports.
LEMMA TakenDownType ==
    ASSUME Types, NEW k \in Container, TakenDown(k)
    PROVE  /\ port' \in [Container -> Port \cup {None}]
           /\ world' \in [Server -> (SUBSET Container) \cup {None}]
           /\ unsure' \subseteq Up'
<1>1. CASE port' = [port EXCEPT ![k] = None] /\ unsure' = unsure \ {k} /\ UNCHANGED world
  BY <1>1 DEF Types, TypeOK, Up
<1>2. CASE Disturbs({k.server}) /\ UNCHANGED <<port, unsure>>
  BY <1>2 DEF Types, TypeOK, Up, Disturbs
<1>3. QED
  BY <1>1, <1>2 DEF TakenDown

\* The counters stay within their bounds.
LEMMA CountsType ==
    ASSUME TypeOK, Counts("requests", MaxRequests) \/ Counts("edits", MaxEdits)
                     \/ Counts("faults", MaxFaults)
    PROVE  counts' \in [requests : 0..MaxRequests, edits : 0..MaxEdits, faults : 0..MaxFaults]
<1>1. counts \in [requests : 0..MaxRequests, edits : 0..MaxEdits, faults : 0..MaxFaults]
  BY DEF TypeOK
<1>2. CASE Counts("requests", MaxRequests)
  BY <1>1, <1>2 DEF Counts
<1>3. CASE Counts("edits", MaxEdits)
  BY <1>1, <1>3 DEF Counts
<1>4. CASE Counts("faults", MaxFaults)
  BY <1>1, <1>4 DEF Counts
<1>5. QED
  BY <1>2, <1>3, <1>4

\* Every step of a request keeps the types.
LEMMA ProceedsType == ASSUME Types, NEW c \in Call, Proceeds(c) PROVE Types'
<1> DEFINE s == call[c].server
           p == call[c].pool
<1> USE DEF Types
<1>1. call \in [Call -> Pending] /\ call[c] \in Pending /\ Fits(call[c])
  BY DEF TypeOK, Pending, RequestsFit
<1>2. /\ call[c].op \in Op \cup {"none"} /\ call[c].port \in Port \cup {None}
      /\ call[c].todo \in SUBSET Container
      /\ call[c].at # "idle" => s \in Server /\ p \in Pools
  BY <1>1 DEF Pending, Fits
<1>3. call[c].at # "idle" => Ranks(s, p) \in SUBSET Container
                             /\ \A k \in Ranks(s, p) : k.server = s
  BY <1>2, RanksType
<1>4. Fits(call[c])
  BY <1>1
<1>5. CASE Refuses(c)
  <2>1. call' \in [Call -> Pending] /\ RequestsFit'
    BY <1>5, AnswerType DEF Refuses
  <2>2. QED
    BY <1>5, <2>1 DEF Refuses, TypeOK, PassFits, Pending, ghosts, Up
<1>6. CASE Allocates(c)
  <2>1. PICK shown \in Views :
            /\ Port \ Taken(s, p, shown) # {}
            /\ call' = [call EXCEPT ![c].at = "remove", ![c].todo = Ranks(s, p),
                                    ![c].port = Min(Port \ Taken(s, p, shown))]
    BY <1>6 DEF Allocates
  <2> DEFINE free == Port \ Taken(s, p, shown)
  <2>2. call[c].at = "lock"
    BY <1>6 DEF Allocates
  <2>3. Min(free) \in Port
    <3>1. free \in SUBSET Port /\ free # {}
      BY <2>1
    <3> HIDE DEF free
    <3>2. Min(free) \in free
      BY <3>1, LeastPort
    <3>3. QED
      BY <3>1, <3>2
  <2>4. Goes(c, "remove", Ranks(s, p), Min(free))
    BY <2>1 DEF Goes
  <2> HIDE DEF free
  <2>5. call' \in [Call -> Pending] /\ RequestsFit'
    BY <1>3, <1>4, <2>2, <2>3, <2>4, GoesType DEF Launching, Fits
  <2>6. world' \in [Server -> (SUBSET Container) \cup {None}]
    BY <1>6 DEF Allocates, TypeOK
  <2>7. QED
    BY <1>6, <2>5, <2>6 DEF Allocates, TypeOK, PassFits, Pending, Up
<1>7. CASE Cleared(c)
  <2>1. call[c].at = "remove" /\ Goes(c, "run", Ranks(s, p), call[c].port)
    BY <1>7 DEF Cleared, Goes
  <2>2. call' \in [Call -> Pending] /\ RequestsFit'
    BY <1>2, <1>3, <1>4, <2>1, GoesType DEF Launching, Fits
  <2>3. QED
    BY <1>7, <2>2 DEF Cleared, TypeOK, PassFits, Pending, ghosts, Up
<1>8. CASE RunRefused(c)
  <2>1. call[c].at = "run" /\ Goes(c, "undo", Ranks(s, p), call[c].port)
    BY <1>8 DEF RunRefused, Goes
  <2>2. call' \in [Call -> Pending] /\ RequestsFit'
    BY <1>2, <1>3, <1>4, <2>1, GoesType DEF Launching, Fits
  <2>3. QED
    BY <1>8, <2>2 DEF RunRefused, TypeOK, PassFits, Pending, ghosts, Up
<1>9. CASE Launched(c)
  <2>1. world' \in [Server -> (SUBSET Container) \cup {None}]
    BY <1>3, <1>9 DEF Launched, TypeOK
  <2>2. call' \in [Call -> Pending] /\ RequestsFit'
    BY <1>9, AnswerType DEF Launched
  <2>3. QED
    BY <1>9, <2>1, <2>2 DEF Launched, TypeOK, PassFits, Pending, Up
<1>10. CASE Undone(c)
  <2>1. call' \in [Call -> Pending] /\ RequestsFit'
    BY <1>10, AnswerType DEF Undone
  <2>2. QED
    BY <1>10, <2>1 DEF Undone, TypeOK, PassFits, Pending, ghosts, Up
<1>11. CASE Scans(c)
  <2>1. PICK shown \in Views :
            /\ call' = [call EXCEPT ![c].at = "take", ![c].todo = RanksUp(s) \cap shown]
            /\ Disturbs({t \in {s} : ~(RanksUp(t) \subseteq shown)})
    BY <1>11 DEF Scans
  <2>2. call[c].at = "scan" /\ Goes(c, "take", RanksUp(s) \cap shown, call[c].port)
    BY <1>11, <2>1 DEF Scans, Goes
  <2>3. RanksUp(s) \cap shown \in SUBSET Container /\ \A k \in RanksUp(s) : k.server = s
    BY DEF RanksUp, Up
  <2>4. /\ call[c].op # "launch" /\ "take" \notin Launching
        /\ \A k \in RanksUp(s) \cap shown : k.server = call[c].server
    BY <1>4, <2>2, <2>3 DEF Fits, Launching
  <2>7. call' \in [Call -> Pending] /\ RequestsFit'
    BY <1>2, <2>2, <2>3, <2>4, GoesType
  <2>5. world' \in [Server -> (SUBSET Container) \cup {None}]
    BY <2>1 DEF Disturbs, TypeOK
  <2>6. QED
    BY <1>11, <2>7, <2>5 DEF Scans, TypeOK, PassFits, Pending, Up
<1>12. CASE Stopped(c)
  <2>1. /\ row' \in [Server -> Pools \cup {None}]
        /\ world' \in [Server -> (SUBSET Container) \cup {None}]
    BY <1>12 DEF Stopped, TypeOK
  <2>2. call' \in [Call -> Pending] /\ RequestsFit'
    BY <1>12, AnswerType DEF Stopped
  <2>3. QED
    BY <1>12, <2>1, <2>2 DEF Stopped, TypeOK, PassFits, Pending, Up
<1>13. ASSUME NEW k \in Container, Takes(c, k) PROVE Types'
  <2>1. /\ call[c].at \in {"remove", "undo", "take"}
        /\ Goes(c, call[c].at, call[c].todo \ {k}, call[c].port) /\ TakenDown(k)
    BY <1>13 DEF Takes, Goes
  <2>5. /\ call[c].todo \ {k} \in SUBSET Container
        /\ call[c].at \in {"take"} \cup Launching
        /\ call[c].at \in Launching <=> call[c].op = "launch"
        /\ call[c].at \in Launching => call[c].port \in Port
                               /\ call[c].todo \ {k} \subseteq Ranks(s, p)
        /\ \A j \in call[c].todo \ {k} : j.server = call[c].server
    BY <1>2, <1>4, <2>1 DEF Fits, Launching
  <2>2. call' \in [Call -> Pending] /\ RequestsFit'
    BY <1>2, <2>1, <2>5, GoesType DEF Launching
  <2>3. /\ port' \in [Container -> Port \cup {None}]
        /\ world' \in [Server -> (SUBSET Container) \cup {None}]
        /\ unsure' \subseteq Up'
    BY <2>1, TakenDownType
  <2>4. QED
    BY <1>13, <2>2, <2>3 DEF Takes, TypeOK, PassFits, Pending
<1>14. ASSUME NEW k \in Container, Runs(c, k) PROVE Types'
  <2>1. call[c].at = "run" /\ Goes(c, call[c].at, call[c].todo \ {k}, call[c].port)
    BY <1>14 DEF Runs, Goes
  <2>6. /\ call[c].todo \ {k} \in SUBSET Container
        /\ call[c].op = "launch" /\ call[c].port \in Port
        /\ call[c].todo \ {k} \subseteq Ranks(s, p)
        /\ \A j \in call[c].todo \ {k} : j.server = call[c].server
    BY <1>2, <1>4, <2>1 DEF Fits, Launching
  <2>2. call' \in [Call -> Pending] /\ RequestsFit'
    BY <1>2, <2>1, <2>6, GoesType DEF Launching
  <2>3. call[c].port \in Port
    BY <1>4, <2>1 DEF Fits, Launching
  <2>4. port' \in [Container -> Port \cup {None}] /\ unsure' \subseteq Up'
    BY <1>14, <2>3 DEF Runs, ghosts, TypeOK, Up, Port
  <2>5. QED
    BY <1>14, <2>2, <2>4 DEF Runs, TypeOK, PassFits, Pending, ghosts
<1>15. QED
  BY <1>5, <1>6, <1>7, <1>8, <1>9, <1>10, <1>11, <1>12, <1>13, <1>14 DEF Proceeds

\* Every step keeps the types.
LEMMA TypeStep == Types /\ [Next]_vars => Types'
<1> SUFFICES ASSUME Types, [Next]_vars PROVE Types'
  OBVIOUS
<1> USE DEF Types, ghosts
<1>1. CASE UNCHANGED vars
  BY <1>1 DEF vars, TypeOK, RequestsFit, PassFits, Up
<1>2. ASSUME NEW c \in Call, NEW op \in Op, NEW s \in Server, Request(c, op, s) PROVE Types'
  <2> DEFINE q == [Idle EXCEPT !.op = op, !.server = s, !.pool = row[s],
                               !.at = IF op = "launch" THEN "lock" ELSE "scan"]
  <2>1. row[s] \in Pools
    BY <1>2 DEF Request, Alive, TypeOK
  <2>2. q \in Pending /\ Fits(q)
    BY <2>1 DEF Idle, Pending, Fits, Launching, Op
  <2>3. call' = [call EXCEPT ![c] = q]
    BY <1>2 DEF Request
  <2>4. world' \in [Server -> (SUBSET Container) \cup {None}]
    BY <1>2 DEF Request, Disturbs, TypeOK
  <2>5. counts' \in [requests : 0..MaxRequests, edits : 0..MaxEdits, faults : 0..MaxFaults]
    BY <1>2, CountsType DEF Request
  <2> HIDE DEF q
  <2>6. call' \in [Call -> Pending] /\ RequestsFit'
    BY <2>2, <2>3, RequestStep
  <2>7. QED
    BY <1>2, <2>4, <2>5, <2>6 DEF Request, TypeOK, PassFits, Pending, Up
<1>3. ASSUME NEW s \in Server, NEW p \in Pools, EditsPool(s, p) PROVE Types'
  <2>1. counts' \in [requests : 0..MaxRequests, edits : 0..MaxEdits, faults : 0..MaxFaults]
    BY <1>3, CountsType DEF EditsPool
  <2>2. QED
    BY <1>3, <2>1 DEF EditsPool, TypeOK, RequestsFit, PassFits, Up
<1>4. ASSUME NEW c \in Call, Proceeds(c) PROVE Types'
  BY <1>4, ProceedsType
<1>5. ASSUME NEW c \in Call, Cancels(c) PROVE Types'
  <2>1. counts' \in [requests : 0..MaxRequests, edits : 0..MaxEdits, faults : 0..MaxFaults]
    BY <1>5, CountsType DEF Cancels
  <2>2. call' \in [Call -> Pending] /\ RequestsFit'
    BY <1>5, AnswerType DEF Cancels
  <2>3. world' \in [Server -> (SUBSET Container) \cup {None}]
    BY <1>5 DEF Cancels, Disturbs, TypeOK
  <2>4. abandoned' \subseteq ({"run"} \X Container \X Port) \cup ({"rm"} \X Container \X {None})
    BY <1>5, CommandType DEF Cancels, TypeOK
  <2>5. holder' \in Call \cup {Reaper, None}
    BY <1>5 DEF Cancels, TypeOK
  <2>6. QED
    BY <1>5, <2>1, <2>2, <2>3, <2>4, <2>5 DEF Cancels, TypeOK, PassFits, Pending, Up
<1>6. CASE ReapStep
  <2>1. CASE PassBegins
    <3>1. reaper' = NewPass
      BY <2>1 DEF PassBegins
    <3>2. /\ NewPass \in [at : {"idle", "look", "take"}, left : SUBSET Server,
                          expected : [Server -> Nat], server : Server \cup {None},
                          todo : SUBSET Container]
          /\ NewPass.at = "look"
      <4>1. \A s \in Server : Alive(s) => Len(row[s]) \in Nat
        BY DEF TypeOK, Alive
      <4>2. QED
        BY <4>1 DEF NewPass, NoPass
    <3>3. QED
      BY <2>1, <3>1, <3>2 DEF PassBegins, TypeOK, RequestsFit, PassFits, Up
  <2>2. ASSUME NEW s \in Server, Looks(s) PROVE Types'
    <3>1. PICK shown \in Views, answered \in Views :
            LET found == RanksUp(s) \cap shown
                alive == found \cap answered
                partial == alive # {} /\ Cardinality(alive) < reaper.expected[s]
                condemned == partial /\ seen[s] = Names(alive)
            IN  /\ seen' = [seen EXCEPT ![s] = IF partial THEN Names(alive) ELSE None]
                /\ reaper' = IF condemned
                             THEN [reaper EXCEPT !.left = @ \ {s}, !.at = "take",
                                                 !.server = s, !.todo = found]
                             ELSE [reaper EXCEPT !.left = @ \ {s}]
      BY <2>2 DEF Looks
    <3> DEFINE found == RanksUp(s) \cap shown
               alive == found \cap answered
    <3>2. found \in SUBSET Container /\ (\A k \in found : k.server = s)
          /\ Names(alive) \in SUBSET Rank
      BY DEF RanksUp, Up, Names, Container
    <3>3. seen' \in [Server -> (SUBSET Rank) \cup {None}]
      BY <3>1, <3>2 DEF TypeOK
    <3> HIDE DEF found, alive
    <3>4. \/ reaper' = [reaper EXCEPT !.left = @ \ {s}, !.at = "take", !.server = s, !.todo = found]
          \/ reaper' = [reaper EXCEPT !.left = @ \ {s}]
      BY <3>1 DEF found, alive
    <3>5. /\ reaper' \in [at : {"idle", "look", "take"}, left : SUBSET Server,
                          expected : [Server -> Nat], server : Server \cup {None},
                          todo : SUBSET Container]
          /\ PassFits'
      <4>1. CASE reaper' = [reaper EXCEPT !.left = @ \ {s}, !.at = "take",
                                          !.server = s, !.todo = found]
        BY <3>2, <4>1 DEF TypeOK, PassFits
      <4>2. CASE reaper' = [reaper EXCEPT !.left = @ \ {s}]
        BY <2>2, <4>2 DEF Looks, TypeOK, PassFits
      <4>3. QED
        BY <3>4, <4>1, <4>2
    <3>6. QED
      BY <2>2, <3>3, <3>5 DEF Looks, TypeOK, RequestsFit, Up
  <2>3. ASSUME NEW k \in Container, Reaps(k) PROVE Types'
    <3>1. /\ reaper' \in [at : {"idle", "look", "take"}, left : SUBSET Server,
                          expected : [Server -> Nat], server : Server \cup {None},
                          todo : SUBSET Container]
          /\ reaper'.at = reaper.at /\ reaper'.server = reaper.server
          /\ reaper'.todo \subseteq reaper.todo
      BY <2>3 DEF Reaps, TypeOK
    <3>4. PassFits'
      BY <3>1 DEF PassFits
    <3>2. /\ port' \in [Container -> Port \cup {None}]
          /\ world' \in [Server -> (SUBSET Container) \cup {None}]
          /\ unsure' \subseteq Up'
      BY <2>3, TakenDownType DEF Reaps
    <3>3. QED
      BY <2>3, <3>1, <3>2, <3>4 DEF Reaps, TypeOK, RequestsFit
  <2>4. CASE Reaped
    BY <2>4 DEF Reaped, TypeOK, RequestsFit, PassFits, Up
  <2>5. CASE PassEnds
    <3>1. seen' \in [Server -> (SUBSET Rank) \cup {None}]
      BY <2>5 DEF PassEnds, TypeOK
    <3>2. QED
      BY <2>5, <3>1 DEF PassEnds, NoPass, TypeOK, RequestsFit, PassFits, Up
  <2>6. QED
    BY <1>6, <2>1, <2>2, <2>3, <2>4, <2>5 DEF ReapStep
<1>7. ASSUME NEW x \in abandoned, Lands(x) PROVE Types'
  <2>1. /\ x[2] \in Container
        /\ x[1] = "rm" \/ (x[1] = "run" /\ x[3] \in Port)
    BY DEF TypeOK
  <2>2. port' \in [Container -> Port \cup {None}] /\ unsure' \subseteq Up'
    <3>1. CASE x[1] = "rm"
      <4>1. port' = [port EXCEPT ![x[2]] = None] /\ unsure' = unsure \ {x[2]}
        BY <1>7, <3>1 DEF Lands
      <4>2. QED
        BY <2>1, <4>1 DEF TypeOK, Up
    <3>2. CASE x[1] # "rm" /\ x[2] \in Up
      <4>1. UNCHANGED <<port, unsure>>
        BY <1>7, <3>2 DEF Lands
      <4>2. QED
        BY <4>1 DEF TypeOK, Up
    <3>3. CASE x[1] # "rm" /\ x[2] \notin Up
      <4>1. /\ port' = [port EXCEPT ![x[2]] = x[3]] /\ unsure' = unsure \cup {x[2]}
            /\ x[3] \in Port /\ x[3] # None
        BY <1>7, <2>1, <3>3 DEF Lands, Port
      <4>2. port' \in [Container -> Port \cup {None}] /\ unsure' \subseteq Up \cup {x[2]}
        BY <2>1, <4>1 DEF TypeOK
      <4>3. Up \cup {x[2]} \subseteq Up'
        BY <2>1, <4>1 DEF TypeOK, Up
      <4>4. QED
        BY <4>2, <4>3
    <3>4. QED
      BY <3>1, <3>2, <3>3
  <2>3. world' \in [Server -> (SUBSET Container) \cup {None}]
    BY <1>7 DEF Lands, Disturbs, TypeOK
  <2>4. QED
    BY <1>7, <2>2, <2>3 DEF Lands, TypeOK, RequestsFit, PassFits
<1>8. ASSUME NEW k \in Container, Dies(k) PROVE Types'
  <2>1. counts' \in [requests : 0..MaxRequests, edits : 0..MaxEdits, faults : 0..MaxFaults]
    BY <1>8, CountsType DEF Dies
  <2>2. port' \in [Container -> Port \cup {None}] /\ unsure' \subseteq Up'
    BY <1>8 DEF Dies, TypeOK, Up
  <2>3. world' \in [Server -> (SUBSET Container) \cup {None}]
    BY <1>8 DEF Dies, Disturbs, TypeOK
  <2>4. QED
    BY <1>8, <2>1, <2>2, <2>3 DEF Dies, TypeOK, RequestsFit, PassFits
<1>9. CASE Restarts
  <2>1. counts' \in [requests : 0..MaxRequests, edits : 0..MaxEdits, faults : 0..MaxFaults]
    BY <1>9, CountsType DEF Restarts
  <2>2. call' \in [Call -> Pending] /\ RequestsFit'
    BY <1>9 DEF Restarts, Idle, Pending, Fits, RequestsFit, Launching
  <2>3. world' \in [Server -> (SUBSET Container) \cup {None}]
    BY <1>9 DEF Restarts, Disturbs, TypeOK
  <2>4. abandoned' \subseteq ({"run"} \X Container \X Port) \cup ({"rm"} \X Container \X {None})
    <3>1. PICK lost \in SUBSET UNION {Command(c) : c \in Call} : abandoned' = abandoned \cup lost
      BY <1>9 DEF Restarts
    <3>2. lost \subseteq ({"run"} \X Container \X Port) \cup ({"rm"} \X Container \X {None})
      BY CommandType
    <3>3. QED
      BY <3>1, <3>2 DEF TypeOK
  <2>5. /\ seen' \in [Server -> (SUBSET Rank) \cup {None}]
        /\ reaper' \in [at : {"idle", "look", "take"}, left : SUBSET Server,
                        expected : [Server -> Nat], server : Server \cup {None},
                        todo : SUBSET Container]
        /\ PassFits'
    BY <1>9 DEF Restarts, NoPass, PassFits
  <2>6. QED
    BY <1>9, <2>1, <2>2, <2>3, <2>4, <2>5 DEF Restarts, TypeOK, Pending, Up
<1>10. QED
  BY <1>1, <1>2, <1>3, <1>4, <1>5, <1>6, <1>7, <1>8, <1>9 DEF Next

\* The types hold at the start.
LEMMA TypeInit == Init => Types
<1> SUFFICES ASSUME Init PROVE Types
  OBVIOUS
<1>1. RequestsFit /\ call \in [Call -> Pending]
  BY DEF Init, RequestsFit, Fits, Idle, Pending, Launching
<1>2. Up = {} /\ PassFits
  BY DEF Init, Up, PassFits, NoPass
<1>3. QED
  BY <1>1, <1>2 DEF Init, Types, TypeOK, NoPass, Pending

\* Every variable of the pools keeps its type: a position of a request or a
\* pass goes with its server, its pool and the ranks it has still to take.
THEOREM TypeCorrect == Spec => []TypeOK
<1>1. Types => TypeOK
  BY DEF Types
<1>2. QED
  BY <1>1, TypeInit, TypeStep, PTL DEF Spec

-----------------------------------------------------------------------------
(* LAUNCH_LOCK                                                             *)

\* An answered request is idle; the others are as they were.
LEMMA AnswerFacts ==
    ASSUME Types, NEW c \in Call, Answers(c)
    PROVE  call'[c] = Idle /\ \A d \in Call \ {c} : call'[d] = call[d]
BY DEF Types, TypeOK, Answers

\* Where a step of a request leaves it, and that it leaves the others alone.
LEMMA ProceedsFacts ==
    ASSUME Types, NEW c \in Call, Proceeds(c)
    PROVE  /\ \A d \in Call \ {c} : call'[d] = call[d]
           /\ UNCHANGED reaper
           /\ call'[c] # Idle => /\ call'[c].server = call[c].server
                                 /\ call'[c].op = call[c].op /\ call'[c].pool = call[c].pool
           /\ \/ call'[c] = Idle
              \/ call[c].at = "lock" /\ call'[c].at = "remove"
              \/ call[c].at = "remove" /\ call'[c].at = "run"
              \/ call[c].at = "run" /\ call'[c].at = "undo"
              \/ call[c].at = "scan" /\ call'[c].at = "take"
              \/ call'[c].at = call[c].at
<1>1. call \in [Call -> Pending]
  BY DEF Types, TypeOK, Pending
<1>2. ASSUME NEW todo, NEW at, NEW number,
             \/ call' = [call EXCEPT ![c].at = at, ![c].todo = todo, ![c].port = number]
             \/ call' = [call EXCEPT ![c].at = at, ![c].todo = todo]
             \/ (call' = [call EXCEPT ![c].todo = todo] /\ at = call[c].at)
      PROVE  /\ \A d \in Call \ {c} : call'[d] = call[d]
             /\ call'[c].server = call[c].server
             /\ call'[c].op = call[c].op /\ call'[c].pool = call[c].pool
             /\ call'[c].at = at
  BY <1>1, <1>2 DEF Pending
<1>3. QED
  <2>1. CASE Answers(c) /\ UNCHANGED reaper
    BY <2>1, AnswerFacts
  <2>2. CASE Allocates(c)
    <3>1. PICK number :
             call' = [call EXCEPT ![c].at = "remove",
                                  ![c].todo = Ranks(call[c].server, call[c].pool),
                                  ![c].port = number]
      BY <2>2 DEF Allocates
    <3>2. call'[c].at = "remove"
      BY <1>1, <3>1 DEF Pending
    <3>3. QED
      BY <1>1, <2>2, <3>1, <3>2 DEF Allocates, Pending
  <2>3. CASE Cleared(c)
    BY <1>1, <2>3 DEF Cleared, Pending
  <2>4. CASE RunRefused(c)
    BY <1>1, <2>4 DEF RunRefused, Pending
  <2>5. CASE Scans(c)
    <3>1. PICK todo : call' = [call EXCEPT ![c].at = "take", ![c].todo = todo]
      BY <2>5 DEF Scans
    <3>2. QED
      BY <1>1, <2>5, <3>1 DEF Scans, Pending
  <2>6. ASSUME NEW k \in Container, Takes(c, k) \/ Runs(c, k)
        PROVE  /\ \A d \in Call \ {c} : call'[d] = call[d]
               /\ UNCHANGED reaper
               /\ call'[c].server = call[c].server
               /\ call'[c].op = call[c].op /\ call'[c].pool = call[c].pool
               /\ call'[c].at = call[c].at
    BY <2>6, <1>2 DEF Takes, Runs
  <2>7. QED
    BY <2>1, <2>2, <2>3, <2>4, <2>5, <2>6
       DEF Proceeds, Refuses, Launched, Undone, Stopped

\* Every step keeps the lock with whoever is between the plan and the last
\* rank, or in a pass.
LEMMA LockStep == Types /\ Locked /\ [Next]_vars => Locked'
<1> SUFFICES ASSUME Types, Locked, [Next]_vars PROVE Locked'
  OBVIOUS
<1> USE DEF Locked
<1>0. Idle.at = "idle" /\ "idle" \notin Launching /\ "lock" \notin Launching
      /\ "scan" \notin Launching /\ "take" \notin Launching /\ Reaper \notin Call
      /\ Launching = {"remove", "run", "undo"} /\ None \notin Call
  BY DEF Idle, Launching
<1>1. CASE UNCHANGED vars
  BY <1>1 DEF vars
<1>2. ASSUME NEW c \in Call, NEW op \in Op, NEW s \in Server, Request(c, op, s) PROVE Locked'
  <2>1. call'[c].at \in {"lock", "scan"} /\ \A d \in Call \ {c} : call'[d] = call[d]
    BY <1>2 DEF Request, Types, TypeOK, Idle
  <2>2. QED
    BY <1>0, <1>2, <2>1 DEF Request
<1>3. ASSUME NEW c \in Call, Proceeds(c) PROVE Locked'
  <2>1. CASE holder' = holder /\ call[c].at # "lock"
    <3>1. call'[c].at \in Launching => call[c].at \in Launching
      BY <1>0, <1>3, <2>1, ProceedsFacts
    <3>2. QED
      BY <1>3, <2>1, <3>1, ProceedsFacts
  <2>2. CASE Refuses(c)
    BY <1>0, <2>2, AnswerFacts DEF Refuses
  <2>3. CASE Allocates(c)
    <3>1. \A d \in Call : call[d].at \notin Launching
      BY <1>0, <2>3 DEF Allocates
    <3>2. reaper.at = "idle"
      BY <1>0, <2>3 DEF Allocates
    <3>3. QED
      BY <1>3, <2>3, <3>1, <3>2, ProceedsFacts DEF Allocates
  <2>4. CASE Launched(c) \/ Undone(c)
    <3>1. \A d \in Call \ {c} : call[d].at \notin Launching
      BY <1>0, <2>4 DEF Launched, Undone
    <3>2. reaper.at = "idle"
      BY <1>0, <2>4 DEF Launched, Undone
    <3>3. QED
      BY <1>0, <2>4, <3>1, <3>2, AnswerFacts DEF Launched, Undone
  <2>5. QED
    BY <1>3, <2>1, <2>2, <2>3, <2>4
       DEF Proceeds, Cleared, RunRefused, Scans, Stopped, Takes, Runs
<1>4. ASSUME NEW c \in Call, Cancels(c) PROVE Locked'
  BY <1>0, <1>4, AnswerFacts DEF Cancels
<1>5. CASE ReapStep
  <2>1. CASE PassBegins
    BY <1>0, <2>1 DEF PassBegins
  <2>2. CASE reaper.at # "idle" /\ UNCHANGED <<holder, call>>
    BY <2>2
  <2>3. CASE PassEnds
    <3>1. \A d \in Call : call[d].at \notin Launching
      BY <1>0, <2>3 DEF PassEnds
    <3>2. QED
      BY <2>3, <3>1 DEF PassEnds, NoPass
  <2>4. QED
    BY <1>5, <2>1, <2>2, <2>3 DEF ReapStep, Looks, Reaps, Reaped
<1>6. CASE Restarts
  BY <1>0, <1>6 DEF Restarts, NoPass
<1>7. CASE UNCHANGED <<holder, call, reaper>>
  BY <1>7
<1>8. QED
  BY <1>1, <1>2, <1>3, <1>4, <1>5, <1>6, <1>7 DEF Next, EditsPool, Lands, Dies

-----------------------------------------------------------------------------
(* Rendezvous ports                                                        *)

\* Every machine answers: the run with deaf peers shows what happens else.
AllAnswer == Deaf = {}

\* Then a look shows all that runs.
LEMMA ViewsAll == ASSUME AllAnswer, NEW shown \in Views PROVE shown = Up
<1>1. PICK D \in SUBSET Deaf : shown = {k \in Up : k.node \notin D}
  BY DEF Views
<1>2. D = {}
  BY DEF AllAnswer
<1>3. QED
  BY <1>1, <1>2

\* The containers whose port someone chose with the lock in hand.
Sure == Up \ unsure

\* Such a container is not added by the step, and the launch under way, if it
\* goes on, is as it was.
KeepsPorts ==
    /\ \A k \in Sure' : k \in Sure /\ port'[k] = port[k]
    /\ \A c \in Call : call'[c].at \in Launching =>
          /\ call[c].at \in Launching
          /\ call'[c].port = call[c].port /\ call'[c].server = call[c].server

\* A step like that keeps the ports apart.
LEMMA PortsKept ==
    ASSUME PortReserved, PortsApart, KeepsPorts PROVE PortReserved' /\ PortsApart'
BY DEF PortReserved, PortsApart, KeepsPorts, Sure

\* docker stop and docker rm add no port.
LEMMA TakenDownPorts ==
    ASSUME Types, NEW k \in Container, TakenDown(k)
    PROVE  \A j \in Sure' : j \in Sure /\ port'[j] = port[j]
<1>1. port \in [Container -> Port \cup {None}]
  BY DEF Types, TypeOK
<1>2. CASE port' = [port EXCEPT ![k] = None] /\ unsure' = unsure \ {k}
  BY <1>1, <1>2 DEF Sure, Up
<1>3. CASE UNCHANGED <<port, unsure>>
  BY <1>3 DEF Sure, Up
<1>4. QED
  BY <1>2, <1>3 DEF TakenDown

\* A request that goes on keeps its port, unless it chooses one.
LEMMA ProceedsPort ==
    ASSUME Types, NEW c \in Call, Proceeds(c), call'[c].at \in Launching, call[c].at # "lock"
    PROVE  call[c].at \in Launching /\ call'[c].port = call[c].port
<1>1. call[c].at \in Launching
  BY ProceedsFacts DEF Idle, Launching
<1>2. call \in [Call -> Pending]
  BY DEF Types, TypeOK, Pending
<1>3. QED
  <2>1. CASE Answers(c)
    BY <2>1, AnswerFacts DEF Idle, Launching
  <2>2. CASE Cleared(c)
    BY <1>1, <1>2, <2>2 DEF Cleared, Pending
  <2>3. CASE RunRefused(c)
    BY <1>1, <1>2, <2>3 DEF RunRefused, Pending
  <2>4. ASSUME NEW k \in Container, Takes(c, k) \/ Runs(c, k)
        PROVE  call[c].at \in Launching /\ call'[c].port = call[c].port
    BY <1>1, <1>2, <2>4 DEF Takes, Runs, Pending
  <2>5. QED
    BY <1>1, <2>1, <2>2, <2>3, <2>4
       DEF Proceeds, Refuses, Allocates, Launched, Undone, Stopped, Scans, Launching

\* Every step keeps the ports of different servers apart.
LEMMA PortStep ==
    ASSUME AllAnswer, Types, Locked, PortReserved, PortsApart, [Next]_vars
    PROVE  PortReserved' /\ PortsApart'
<1>0. /\ Idle.at = "idle" /\ Launching = {"remove", "run", "undo"}
      /\ port \in [Container -> Port \cup {None}] /\ unsure \subseteq Up
      /\ None \notin Port
  BY DEF Idle, Launching, Types, TypeOK, Port
<1>1. CASE UNCHANGED vars
  BY <1>1 DEF vars, PortReserved, PortsApart, Up
<1>2. ASSUME NEW c \in Call, NEW op \in Op, NEW s \in Server, Request(c, op, s)
      PROVE  PortReserved' /\ PortsApart'
  <2>1. call'[c].at \in {"lock", "scan"} /\ \A d \in Call \ {c} : call'[d] = call[d]
    BY <1>2 DEF Request, Types, TypeOK, Idle
  <2>2. KeepsPorts
    BY <1>0, <1>2, <2>1 DEF Request, KeepsPorts, Sure, Up
  <2>3. QED
    BY <2>2, PortsKept
<1>3. ASSUME NEW c \in Call, Proceeds(c) PROVE PortReserved' /\ PortsApart'
  <2>1. CASE /\ \A k \in Sure' : k \in Sure /\ port'[k] = port[k]
             /\ call'[c].at \in Launching => call[c].at # "lock"
    <3>1. call'[c].at \in Launching => /\ call[c].at \in Launching
                                       /\ call'[c].port = call[c].port
                                       /\ call'[c].server = call[c].server
      BY <1>0, <1>3, <2>1, ProceedsPort, ProceedsFacts
    <3>2. KeepsPorts
      BY <1>3, <2>1, <3>1, ProceedsFacts DEF KeepsPorts
    <3>3. QED
      BY <3>2, PortsKept
  <2>2. CASE Allocates(c)
    <3> DEFINE s == call[c].server
               p == call[c].pool
               free == Port \ Taken(s, p, Up)
    <3>1. /\ free # {}
          /\ call' = [call EXCEPT ![c].at = "remove", ![c].todo = Ranks(s, p), ![c].port = Min(free)]
      <4>1. PICK shown \in Views :
              /\ Port \ Taken(s, p, shown) # {}
              /\ call' = [call EXCEPT ![c].at = "remove", ![c].todo = Ranks(s, p),
                                      ![c].port = Min(Port \ Taken(s, p, shown))]
        BY <2>2 DEF Allocates
      <4>2. shown = Up
        BY ViewsAll
      <4>3. QED
        BY <4>1, <4>2
    <3>2. Min(free) \in free
      BY <3>1, LeastPort
    <3>3. call'[c].port = Min(free) /\ call'[c].server = s /\ \A d \in Call \ {c} : call'[d] = call[d]
      BY <3>1 DEF Types, TypeOK
    <3>4. \A k \in Up : port[k] = Min(free) => k.server = s
      BY <3>2 DEF Taken
    <3> HIDE DEF s, p, free
    <3>5. UNCHANGED <<port, unsure>>
      BY <2>2 DEF Allocates
    <3>6. QED
      BY <3>3, <3>4, <3>5 DEF PortReserved, PortsApart, Up
  <2>3. ASSUME NEW k \in Container, Runs(c, k) PROVE PortReserved' /\ PortsApart'
    <3>1. call[c].at = "run" /\ k.server = call[c].server
      BY <2>3 DEF Runs, Lowest, Types, RequestsFit, Fits
    <3>2. /\ call'[c].server = call[c].server /\ call'[c].port = call[c].port
          /\ \A d \in Call \ {c} : call'[d] = call[d]
      BY <2>3 DEF Runs, Types, TypeOK
    <3>3. \A d \in Call \ {c} : call[d].at \notin Launching
      BY <1>0, <3>1 DEF Locked
    <3>4. /\ \A j \in Sure' : j = k \/ (j \in Sure /\ port'[j] = port[j])
          /\ port'[k] = call[c].port
      BY <1>0, <2>3 DEF Runs, Sure, Up, ghosts
    <3>5. \A j \in Sure : port[j] = call[c].port => j.server = call[c].server
      BY <1>0, <3>1 DEF PortReserved, Sure
    <3>6. \A j \in Sure' : port'[j] = call[c].port => j.server = call[c].server
      BY <3>1, <3>4, <3>5
    <3>7. PortReserved'
      BY <3>2, <3>3, <3>6 DEF PortReserved, Sure
    <3>8. PortsApart'
      BY <3>1, <3>4, <3>6 DEF PortsApart, Sure
    <3>9. QED
      BY <3>7, <3>8
  <2>4. ASSUME NEW k \in Container, Takes(c, k)
        PROVE  \A j \in Sure' : j \in Sure /\ port'[j] = port[j]
    BY <2>4, TakenDownPorts DEF Takes
  <2>5. ASSUME UNCHANGED <<port, unsure>>
        PROVE  \A j \in Sure' : j \in Sure /\ port'[j] = port[j]
    BY <2>5 DEF Sure, Up
  <2>6. call'[c].at \in Launching /\ call[c].at = "lock" => Allocates(c)
    <3>1. CASE Refuses(c)
      BY <1>0, <3>1, AnswerFacts DEF Refuses
    <3>2. QED
      BY <1>3, <3>1 DEF Proceeds, Cleared, RunRefused, Launched, Undone, Scans, Stopped, Takes, Runs
  <2>7. QED
    BY <1>3, <2>1, <2>2, <2>3, <2>4, <2>5, <2>6
       DEF Proceeds, Refuses, Cleared, RunRefused, Launched, Undone, Scans, Stopped, ghosts
<1>4. ASSUME NEW c \in Call, Cancels(c) PROVE PortReserved' /\ PortsApart'
  <2>1. KeepsPorts
    BY <1>0, <1>4, AnswerFacts DEF Cancels, KeepsPorts, Sure, Up
  <2>2. QED
    BY <2>1, PortsKept
<1>5. CASE ReapStep
  <2>1. ASSUME NEW k \in Container, Reaps(k) PROVE KeepsPorts
    BY <2>1, TakenDownPorts DEF Reaps, KeepsPorts
  <2>2. UNCHANGED <<port, unsure, call>> => KeepsPorts
    BY DEF KeepsPorts, Sure, Up
  <2>3. KeepsPorts
    BY <1>5, <2>1, <2>2 DEF ReapStep, PassBegins, Looks, Reaped, PassEnds, ghosts
  <2>4. QED
    BY <2>3, PortsKept
<1>6. ASSUME NEW x \in abandoned, Lands(x) PROVE PortReserved' /\ PortsApart'
  <2>1. \A k \in Sure' : k \in Sure /\ port'[k] = port[k]
    <3>1. CASE port' = [port EXCEPT ![x[2]] = None] /\ unsure' = unsure \ {x[2]}
      BY <1>0, <3>1 DEF Sure, Up
    <3>2. CASE UNCHANGED <<port, unsure>>
      BY <3>2 DEF Sure, Up
    <3>3. CASE port' = [port EXCEPT ![x[2]] = x[3]] /\ unsure' = unsure \cup {x[2]}
      BY <1>0, <3>3 DEF Sure, Up
    <3>4. QED
      BY <1>6, <3>1, <3>2, <3>3 DEF Lands
  <2>2. KeepsPorts
    BY <1>6, <2>1 DEF Lands, KeepsPorts
  <2>3. QED
    BY <2>2, PortsKept
<1>7. ASSUME NEW k \in Container, Dies(k) PROVE PortReserved' /\ PortsApart'
  <2>1. KeepsPorts
    BY <1>0, <1>7 DEF Dies, KeepsPorts, Sure, Up
  <2>2. QED
    BY <2>1, PortsKept
<1>8. CASE Restarts
  <2>1. KeepsPorts
    BY <1>0, <1>8 DEF Restarts, KeepsPorts, Sure, Up
  <2>2. QED
    BY <2>1, PortsKept
<1>9. CASE UNCHANGED <<port, unsure, call>>
  BY <1>9 DEF PortReserved, PortsApart, Up
<1>10. QED
  BY <1>1, <1>2, <1>3, <1>4, <1>5, <1>6, <1>7, <1>8, <1>9 DEF Next, EditsPool, ghosts

\* Engines of two servers never have one rendezvous port, however launches,
\* stops, edits, crashes and restarts interleave, as long as every machine
\* answers; those that an abandoned docker run brought up are left out.
THEOREM PortsNeverMeet == ASSUME AllAnswer PROVE Spec => []PortsApart
<1>1. Init => Locked /\ PortReserved /\ PortsApart
  BY DEF Init, Locked, PortReserved, PortsApart, Up, Idle, NoPass, Launching
<1>2. Types /\ Locked /\ PortReserved /\ PortsApart /\ [Next]_vars
        => (Types /\ Locked /\ PortReserved /\ PortsApart)'
  BY TypeStep, LockStep, PortStep
<1>3. QED
  BY <1>1, <1>2, TypeInit, PTL DEF Spec

-----------------------------------------------------------------------------
(* The reaper                                                              *)

\* Edits keep the number of machines: with another number the reaper takes a
\* whole engine for one that has lost a rank.
SameLength == \A p, q \in Pools : Len(p) = Len(q)

\* An engine has as many ranks as its pool has machines.
LEMMA RanksCount ==
    ASSUME NEW s \in Server, NEW p \in Pools
    PROVE  IsFiniteSet(Ranks(s, p)) /\ Cardinality(Ranks(s, p)) = Len(p)
<1> DEFINE f == [i \in 1..Len(p) |-> [server |-> s, rank |-> i - 1, node |-> p[i]]]
<1>1. p \in Seq(Node) /\ Len(p) \in Nat /\ DOMAIN p = 1..Len(p)
  OBVIOUS
<1>2. f \in Bijection(1..Len(p), Ranks(s, p))
  <2>1. \A i \in 1..Len(p) : f[i].rank = i - 1
    OBVIOUS
  <2>2. f \in [1..Len(p) -> Ranks(s, p)]
    BY <1>1 DEF Ranks
  <2>3. \A i, j \in 1..Len(p) : f[i] = f[j] => i = j
    BY <1>1, <2>1
  <2>4. \A k \in Ranks(s, p) : \E i \in 1..Len(p) : f[i] = k
    BY <1>1 DEF Ranks
  <2> HIDE DEF f
  <2>5. QED
    BY <2>2, <2>3, <2>4, Fun_IsBij
<1>3. ExistsBijection(1..Len(p), Ranks(s, p))
  BY <1>2 DEF ExistsBijection
<1>4. QED
  BY <1>1, <1>3, FS_NatBijection, FS_CountingElements

\* A step brings up one container at most.
LEMMA UpGrows == ASSUME Types, [Next]_vars PROVE \E x : Up' \subseteq Up \cup {x}
<1>0. port \in [Container -> Port \cup {None}]
  BY DEF Types, TypeOK
<1>1. ASSUME NEW k, NEW n, port' = [port EXCEPT ![k] = n] \/ UNCHANGED port
      PROVE  \E x : Up' \subseteq Up \cup {x}
  <2>1. Up' \subseteq Up \cup {k}
    BY <1>0, <1>1 DEF Up
  <2>2. QED
    BY <2>1
<1>2. ASSUME NEW c \in Call, Proceeds(c) PROVE \E x : Up' \subseteq Up \cup {x}
  BY <1>1, <1>2 DEF Proceeds, Refuses, Allocates, Cleared, RunRefused, Launched, Undone,
                    Scans, Stopped, Takes, TakenDown, Runs
<1>3. CASE ReapStep
  BY <1>1, <1>3 DEF ReapStep, PassBegins, Looks, Reaped, PassEnds, Reaps, TakenDown
<1>4. ASSUME NEW x \in abandoned, Lands(x) PROVE \E y : Up' \subseteq Up \cup {y}
  BY <1>1, <1>4 DEF Lands
<1>5. QED
  BY <1>1, <1>2, <1>3, <1>4 DEF Next, vars, Request, EditsPool, Cancels, Dies, Restarts

\* A step leaves what runs finite, and the ghost and the pass what they are.
LEMMA WorldStep ==
    ASSUME Types, WorldFits, PassCounts, IsFiniteSet(Up), [Next]_vars
    PROVE  WorldFits' /\ PassCounts' /\ IsFiniteSet(Up')
<1>1. IsFiniteSet(Up')
  <2>1. PICK x : Up' \subseteq Up \cup {x}
    BY UpGrows
  <2>2. QED
    BY <2>1, FS_AddElement, FS_Subset
<1>2. PassCounts'
  <2>1. CASE PassBegins
    BY <2>1 DEF PassBegins, NewPass, NoPass, PassCounts, Types, TypeOK, Alive
  <2>2. ASSUME NEW s \in Server, Looks(s) PROVE PassCounts'
    <3>1. reaper'.expected = reaper.expected
      BY <2>2 DEF Looks, Types, TypeOK
    <3>2. QED
      BY <3>1 DEF PassCounts
  <2>3. CASE Reaped
    BY <2>3 DEF Reaped, PassCounts, Types, TypeOK
  <2>4. ASSUME NEW k \in Container, Reaps(k) PROVE PassCounts'
    BY <2>4 DEF Reaps, PassCounts, Types, TypeOK
  <2>5. CASE reaper' = NoPass
    BY <2>5 DEF NoPass, PassCounts
  <2>6. CASE UNCHANGED reaper
    BY <2>6 DEF PassCounts
  <2>7. QED
    BY <2>1, <2>2, <2>3, <2>4, <2>5, <2>6, ProceedsFacts
       DEF Next, vars, ReapStep, PassEnds, Request, EditsPool, Cancels, Lands, Dies, Restarts
<1>3. WorldFits'
  <2>1. ASSUME NEW S, Disturbs(S) PROVE WorldFits'
    BY <2>1 DEF Disturbs, WorldFits
  <2>2. CASE UNCHANGED world
    BY <2>2 DEF WorldFits
  <2>3. ASSUME NEW c \in Call, Proceeds(c) PROVE WorldFits'
    <3>1. CASE Allocates(c)
      <4>1. \A s \in Server : world'[s] \in {world[s], {}, None}
        BY <3>1 DEF Allocates, Types, TypeOK
      <4>2. QED
        BY <4>1 DEF WorldFits
    <3>2. CASE Launched(c)
      <4>1. call[c].server \in Server /\ call[c].pool \in Pools
        BY <3>2 DEF Launched, Types, TypeOK, RequestsFit, Fits
      <4>2. \A s \in Server : world'[s] \in {world[s], None}
                  \/ (s = call[c].server /\ world'[s] = Ranks(s, call[c].pool))
        BY <3>2, <4>1 DEF Launched, Types, TypeOK
      <4>3. QED
        BY <4>1, <4>2 DEF WorldFits
    <3>3. CASE Stopped(c)
      <4>1. \A s \in Server : world'[s] \in {world[s], {}, None}
        BY <3>3 DEF Stopped, Types, TypeOK
      <4>2. QED
        BY <4>1 DEF WorldFits
    <3>4. QED
      BY <2>1, <2>2, <2>3, <3>1, <3>2, <3>3
         DEF Proceeds, Refuses, Cleared, RunRefused, Undone, Scans, Takes, TakenDown, Runs, ghosts
  <2>4. CASE ReapStep
    BY <2>1, <2>2, <2>4 DEF ReapStep, PassBegins, Looks, Reaped, PassEnds, Reaps, TakenDown, ghosts
  <2>5. QED
    BY <2>1, <2>2, <2>3, <2>4
       DEF Next, vars, Request, EditsPool, Cancels, Lands, Dies, Restarts, ghosts
<1>4. QED
  BY <1>1, <1>2, <1>3

\* The ranks of a whole engine all run, so a pass finds as many as the row has
\* machines and condemns nothing.
LEMMA WholeIsNotPartial ==
    ASSUME SameLength, Types, WorldFits, PassCounts, IsFiniteSet(Up), NEW s \in Server,
           world[s] \notin {None, {}}, world[s] \subseteq Up
    PROVE  ~(Cardinality(RanksUp(s)) < reaper.expected[s])
<1>1. PICK p \in Pools : world[s] = Ranks(s, p)
  BY DEF WorldFits
<1>2. Ranks(s, p) \subseteq RanksUp(s)
  BY <1>1, RanksType DEF RanksUp
<1>3. IsFiniteSet(RanksUp(s))
  BY FS_Subset DEF RanksUp
<1>4. Cardinality(Ranks(s, p)) <= Cardinality(RanksUp(s)) /\ Cardinality(RanksUp(s)) \in Nat
  BY <1>2, <1>3, FS_Subset, FS_CardinalityType
<1>5. Cardinality(Ranks(s, p)) = Len(p) /\ Len(p) \in Nat
  BY RanksCount
<1>6. reaper.expected[s] <= Len(p)
  <2>1. reaper.expected[s] = 0 \/ \E q \in Pools : reaper.expected[s] = Len(q)
    BY DEF PassCounts
  <2>2. QED
    BY <1>5, <2>1 DEF SameLength
<1>7. QED
  BY <1>4, <1>5, <1>6 DEF Types, TypeOK

\* What a pass has condemned stays without a whole engine until it is down:
\* the lock keeps launches away, and the rest does not make one whole.
LEMMA StaysPartial ==
    ASSUME NeverReapsServing, reaper.at = "take", reaper'.server = reaper.server,
           \/ world'[reaper.server] \in {None, {}}
           \/ /\ world'[reaper.server] = world[reaper.server]
              /\ world[reaper.server] \subseteq Up' => world[reaper.server] \subseteq Up
    PROVE  NeverReapsServing'
BY DEF NeverReapsServing

\* While a pass takes a server down, no other step makes that one whole.
LEMMA OthersKeepPartial ==
    ASSUME Types, Locked, WorldFits, NeverReapsServing, [Next]_vars,
           reaper.at = "take", UNCHANGED reaper, ~\E k \in Container : Reaps(k)
    PROVE  NeverReapsServing'
<1> DEFINE s == reaper.server
           Keeps == \/ world'[s] \in {None, {}}
                    \/ world'[s] = world[s] /\ (world[s] \subseteq Up' => world[s] \subseteq Up)
<1>0. /\ s \in Server /\ holder = Reaper /\ Reaper \notin Call /\ Reaper # None
      /\ port \in [Container -> Port \cup {None}]
      /\ world \in [Server -> (SUBSET Container) \cup {None}]
      /\ abandoned \subseteq ({"run"} \X Container \X Port) \cup ({"rm"} \X Container \X {None})
  BY DEF Types, TypeOK, PassFits, Locked
<1> SUFFICES Keeps
  BY StaysPartial
<1> HIDE DEF s
<1>1. ASSUME NEW S, Disturbs(S) PROVE world'[s] \in {world[s], None}
  BY <1>0, <1>1 DEF Disturbs
<1>2. ASSUME NEW c \in Call, Proceeds(c) PROVE Keeps
  <2>1. call[c].at \notin Launching /\ holder # None
    BY <1>0 DEF Locked
  <2>2. ~Allocates(c) /\ ~Launched(c) /\ ~Cleared(c) /\ ~RunRefused(c) /\ ~Undone(c)
        /\ \A k \in Container : ~Runs(c, k)
    BY <2>1 DEF Allocates, Launched, Cleared, RunRefused, Undone, Runs, Launching
  <2>3. CASE Stopped(c)
    <3>1. world' = [world EXCEPT ![call[c].server] = IF @ = None THEN None ELSE {}]
          /\ UNCHANGED port
      BY <2>3 DEF Stopped
    <3>2. world'[s] \in {world[s], None, {}}
      BY <1>0, <3>1
    <3>3. QED
      BY <3>1, <3>2 DEF Up
  <2>4. ASSUME NEW k \in Container, Takes(c, k) PROVE Keeps
    <3>1. CASE k.node \in Deaf /\ Disturbs({k.server}) /\ UNCHANGED <<port, unsure>>
      BY <1>1, <3>1 DEF Up
    <3>2. CASE port' = [port EXCEPT ![k] = None] /\ UNCHANGED world
      BY <1>0, <3>2 DEF Up
    <3>3. QED
      BY <2>4, <3>1, <3>2 DEF Takes, TakenDown
  <2>5. CASE Scans(c)
    <3>1. UNCHANGED port /\ world'[s] \in {world[s], None}
      BY <1>1, <2>5 DEF Scans
    <3>2. QED
      BY <3>1 DEF Up
  <2>6. CASE Refuses(c)
    BY <2>6 DEF Refuses, Up, ghosts
  <2>7. QED
    BY <1>2, <2>2, <2>3, <2>4, <2>5, <2>6 DEF Proceeds
<1>3. ASSUME NEW x \in abandoned, Lands(x) PROVE Keeps
  <2>0. x[2] \in Container
    BY <1>0
  <2>1. CASE x[2].server = s
    BY <1>0, <1>3, <2>1 DEF Lands, Disturbs
  <2>2. CASE x[2].server # s
    <3>1. world'[s] = world[s]
      BY <1>0, <1>3, <2>2 DEF Lands, Disturbs
    <3>2. x[2] \notin world[s] \/ world[s] = None
      <4>1. world[s] \in {None, {}} \/ \E p \in Pools : world[s] = Ranks(s, p)
        BY <1>0 DEF WorldFits
      <4>2. QED
        BY <1>0, <2>2, <4>1, RanksType
    <3>3. Up' \subseteq Up \cup {x[2]}
      <4>1. \/ port' = [port EXCEPT ![x[2]] = None] \/ port' = [port EXCEPT ![x[2]] = x[3]]
            \/ UNCHANGED port
        BY <1>3 DEF Lands
      <4>2. QED
        BY <1>0, <2>0, <4>1 DEF Up
    <3>4. QED
      BY <3>1, <3>2, <3>3
  <2>3. QED
    BY <2>1, <2>2
<1>4. CASE UNCHANGED <<port, world>>
  BY <1>4 DEF Up
<1>5. ASSUME NEW k \in Container, Dies(k) PROVE Keeps
  <2>1. world'[s] \in {world[s], None} /\ port' = [port EXCEPT ![k] = None]
    BY <1>1, <1>5 DEF Dies
  <2>2. QED
    BY <1>0, <2>1 DEF Up
<1>6. CASE UNCHANGED port /\ \E S : Disturbs(S)
  BY <1>1, <1>6 DEF Up
<1>7. ReapStep => Keeps
  <2>1. ~PassBegins /\ ~PassEnds /\ \A t \in Server : ~Looks(t)
    BY DEF PassBegins, PassEnds, Looks
  <2>2. ~Reaped
    BY DEF Reaped, Types, TypeOK
  <2>3. QED
    BY <2>1, <2>2 DEF ReapStep
<1>8. QED
  BY <1>2, <1>3, <1>4, <1>5, <1>6, <1>7
     DEF Next, vars, ghosts, Request, EditsPool, Cancels, Restarts

\* Every step keeps the reaper away from whole engines.
LEMMA ReapStepKeeps ==
    ASSUME AllAnswer, SameLength, Types, Locked, ReapInv, [Next]_vars
    PROVE  NeverReapsServing'
<1> USE DEF ReapInv
<1>0. /\ port \in [Container -> Port \cup {None}]
      /\ reaper.at = "take" => reaper.server \in Server
  BY DEF Types, TypeOK, PassFits
<1>1. ASSUME NEW k \in Container, Reaps(k) PROVE NeverReapsServing'
  <2>1. reaper'.at = "take" /\ reaper'.server = reaper.server /\ reaper.at = "take"
    BY <1>1 DEF Reaps, Types, TypeOK
  <2>2. CASE k.node \in Deaf
    BY <2>2 DEF AllAnswer
  <2>3. CASE port' = [port EXCEPT ![k] = None] /\ UNCHANGED world
    <3>1. Up' \subseteq Up
      BY <1>0, <2>3 DEF Up
    <3>2. QED
      BY <2>1, <2>3, <3>1, StaysPartial
  <2>4. QED
    BY <1>1, <2>2, <2>3 DEF Reaps, TakenDown
<1>2. ASSUME NEW s \in Server, Looks(s) PROVE NeverReapsServing'
  <2>1. UNCHANGED <<port, world>> /\ reaper.at = "look"
    BY <1>2 DEF Looks, ghosts
  <2>2. CASE reaper'.at = "take"
    <3>1. Cardinality(RanksUp(s)) < reaper.expected[s] /\ reaper'.server = s
      <4>1. PICK shown, answered \in Views :
              LET found == RanksUp(s) \cap shown
                  alive == found \cap answered
                  partial == alive # {} /\ Cardinality(alive) < reaper.expected[s]
                  condemned == partial /\ seen[s] = Names(alive)
              IN  reaper' = IF condemned
                        THEN [reaper EXCEPT !.left = @ \ {s}, !.at = "take",
                                            !.server = s, !.todo = found]
                        ELSE [reaper EXCEPT !.left = @ \ {s}]
        BY <1>2 DEF Looks
      <4>2. shown = Up /\ answered = Up
        BY ViewsAll
      <4>3. (RanksUp(s) \cap Up) \cap Up = RanksUp(s)
        BY DEF RanksUp
      <4>4. ([reaper EXCEPT !.left = @ \ {s}]).at = "look"
        BY <2>1 DEF Types, TypeOK
      <4>5. QED
        BY <2>2, <4>1, <4>2, <4>3, <4>4 DEF Types, TypeOK
    <3>2. world[s] \in {None, {}} \/ ~(world[s] \subseteq Up)
      BY <3>1, WholeIsNotPartial
    <3>3. QED
      BY <2>1, <3>1, <3>2 DEF NeverReapsServing, Up
  <2>3. QED
    BY <2>2 DEF NeverReapsServing
<1>3. CASE reaper'.at # "take"
  BY <1>3 DEF NeverReapsServing
<1>4. CASE PassBegins \/ Reaped \/ PassEnds \/ Restarts
  <2>1. CASE PassBegins
    BY <1>3, <2>1 DEF PassBegins, NewPass, NoPass
  <2>2. CASE Reaped
    BY <1>3, <2>2 DEF Reaped, Types, TypeOK
  <2>3. CASE PassEnds \/ Restarts
    BY <1>3, <2>3 DEF PassEnds, Restarts, NoPass
  <2>4. QED
    BY <1>4, <2>1, <2>2, <2>3
<1>5. CASE UNCHANGED reaper /\ ~\E k \in Container : Reaps(k)
  <2>1. CASE reaper.at = "take"
    BY <1>5, <2>1, OthersKeepPartial
  <2>2. QED
    BY <1>3, <1>5, <2>1
<1>6. ASSUME NEW c \in Call, Proceeds(c) PROVE UNCHANGED reaper
  BY <1>6, ProceedsFacts
<1>7. QED
  BY <1>1, <1>2, <1>4, <1>5, <1>6
     DEF Next, vars, ReapStep, Request, EditsPool, Cancels, Lands, Dies

\* At the start nothing runs and the reaper is idle.
LEMMA ReapInit == Init => Locked /\ ReapInv
<1> SUFFICES ASSUME Init PROVE Locked /\ ReapInv
  OBVIOUS
<1>1. Up = {}
  BY DEF Init, Up
<1>2. Locked /\ WorldFits /\ PassCounts /\ NeverReapsServing
  BY DEF Init, Locked, WorldFits, PassCounts, NeverReapsServing, Idle, NoPass, Launching
<1>3. QED
  BY <1>1, <1>2, FS_EmptySet DEF ReapInv

\* Every step preserves what the reaper relies on.
LEMMA ReapInvStep ==
    ASSUME AllAnswer, SameLength, Types, Locked, ReapInv, [Next]_vars
    PROVE  (Types /\ Locked /\ ReapInv)'
<1>1. Types' /\ Locked'
  BY TypeStep, LockStep
<1>2. WorldFits' /\ PassCounts' /\ IsFiniteSet(Up')
  BY WorldStep DEF ReapInv
<1>3. QED
  BY <1>1, <1>2, ReapStepKeeps DEF ReapInv

\* The reaper never takes down an engine all of whose ranks run, as long as
\* every machine answers and edits keep the number of machines.
THEOREM ReaperSparesWhole ==
    ASSUME AllAnswer, SameLength PROVE Spec => []NeverReapsServing
<1>1. Types /\ Locked /\ ReapInv /\ [Next]_vars => (Types /\ Locked /\ ReapInv)'
  BY ReapInvStep
<1>2. ReapInv => NeverReapsServing
  BY DEF ReapInv
<1>3. QED
  BY <1>1, <1>2, ReapInit, TypeInit, PTL DEF Spec

-----------------------------------------------------------------------------
(* Whole engines                                                           *)

\* What becomes of the ranks that run when one is taken down.
LEMMA RanksUpDown ==
    ASSUME Types, NEW k, port' = [port EXCEPT ![k] = None], NEW s
    PROVE  RanksUp(s)' = RanksUp(s) \ {k}
BY DEF Types, TypeOK, Up, RanksUp

\* What becomes of them when a rank comes up.
LEMMA RanksUpMore ==
    ASSUME Types, NEW k \in Container, NEW n \in Port, port' = [port EXCEPT ![k] = n], NEW s
    PROVE  RanksUp(s)' = RanksUp(s) \cup {j \in {k} : j.server = s}
BY DEF Types, TypeOK, Up, RanksUp, Port

\* A server is settled that the step has nothing to do with.
LEMMA Untouched ==
    ASSUME NEW s \in Server, Settled(s),
           world'[s] = world[s], RanksUp(s)' = RanksUp(s),
           \A c \in Call : s \in {call[c].server, call'[c].server} => call'[c] = call[c]
    PROVE  Settled(s)'
<1>1. InFlight(s)' = InFlight(s) /\ \A c \in InFlight(s) : call'[c] = call[c]
  BY DEF InFlight
<1>2. \A c \in InFlight(s) : call[c].server = s
  BY DEF InFlight
<1>3. \A c \in InFlight(s) : Knows(c, s) => Knows(c, s)'
  BY <1>1, <1>2 DEF Knows
<1>4. OnlyLaunches(s) => OnlyLaunches(s)'
  BY <1>1 DEF OnlyLaunches
<1>5. QED
  BY <1>1, <1>3, <1>4 DEF Settled

\* While one request works at a settled server, or looks what runs, the others wait for the lock.
LEMMA OthersWait ==
    ASSUME Types, Locked, NEW s \in Server, Settled(s), world[s] # None,
           NEW c \in InFlight(s), call[c].at \in AtWork \cup {"scan"}, NEW d \in InFlight(s), c # d
    PROVE  call[d].at = "lock"
<1>1. call[c].op = "launch" /\ call[d].op = "launch"
  BY DEF Settled, OnlyLaunches
<1>2. Fits(call[c]) /\ Fits(call[d]) /\ c \in Call /\ d \in Call
  BY DEF Types, RequestsFit, InFlight
<1>3. call[c].at \in Launching
  BY <1>1, <1>2 DEF Fits, AtWork, Launching
<1>4. call[d].at \notin Launching
  BY <1>2, <1>3 DEF Locked
<1>5. QED
  BY <1>1, <1>2, <1>4 DEF Fits

\* So a server stays settled when that request goes on, knowing what runs, or
\* ends and leaves what the ghost says.
LEMMA WorkerStep ==
    ASSUME Types, Locked, NEW s \in Server, Settled(s), world[s] # None,
           NEW c \in InFlight(s), call[c].at \in AtWork \cup {"scan"},
           \A d \in Call \ {c} : call'[d] = call[d],
           \/ call'[c] = Idle /\ RanksUp(s)' = world'[s]
           \/ /\ call'[c].server = s /\ call'[c].op = call[c].op
              /\ call'[c].at \in AtWork /\ Knows(c, s)'
    PROVE  Settled(s)'
<1>1. s # None /\ Idle.server = None /\ c \in Call
  BY DEF Idle, InFlight
<1>2. InFlight(s)' \subseteq InFlight(s)
  BY <1>1 DEF InFlight
<1>3. OnlyLaunches(s)'
  <2>1. OnlyLaunches(s)
    BY DEF Settled
  <2>2. \A d \in InFlight(s)' : call'[d].op = call[d].op
    BY <1>1 DEF InFlight
  <2>3. QED
    BY <1>2, <2>1, <2>2 DEF OnlyLaunches
<1>4. ASSUME NEW d \in InFlight(s)' PROVE Knows(d, s)'
  <2>1. CASE d = c
    BY <1>1, <1>4, <2>1 DEF InFlight
  <2>2. CASE d # c
    <3>1. call[d].at = "lock" /\ call'[d] = call[d]
      BY <1>2, <2>2, OthersWait DEF InFlight
    <3>2. QED
      BY <3>1 DEF Knows, Launching
  <2>3. QED
    BY <2>1, <2>2
<1>5. RanksUp(s)' = world'[s] \/ (c \in InFlight(s)' /\ call'[c].at \in AtWork)
  BY <1>1 DEF InFlight
<1>6. QED
  BY <1>3, <1>4, <1>5 DEF Settled

\* A step of a request does nothing to the ranks of another server.
LEMMA ProceedsAside ==
    ASSUME AllAnswer, Types, NEW c \in Call, Proceeds(c), NEW s \in Server, call[c].server # s
    PROVE  RanksUp(s)' = RanksUp(s) /\ world'[s] = world[s]
<1>0. /\ Fits(call[c]) /\ world \in [Server -> (SUBSET Container) \cup {None}]
  BY DEF Types, TypeOK, RequestsFit
<1>1. CASE UNCHANGED <<port, world>>
  BY <1>1 DEF RanksUp, Up
<1>2. CASE UNCHANGED port /\ \E x : world' = [world EXCEPT ![call[c].server] = x]
  BY <1>0, <1>2 DEF RanksUp, Up
<1>3. ASSUME NEW k \in Container, Takes(c, k) PROVE RanksUp(s)' = RanksUp(s) /\ UNCHANGED world
  <2>1. port' = [port EXCEPT ![k] = None] /\ UNCHANGED world /\ k \in call[c].todo
    BY <1>3 DEF Takes, TakenDown, AllAnswer, Lowest
  <2>2. k.server # s
    BY <1>0, <2>1 DEF Fits
  <2>3. k \notin RanksUp(s)
    BY <2>2 DEF RanksUp
  <2>4. RanksUp(s)' = RanksUp(s) \ {k}
    BY <2>1, RanksUpDown
  <2>5. QED
    BY <2>1, <2>3, <2>4
<1>4. ASSUME NEW k \in Container, Runs(c, k) PROVE RanksUp(s)' = RanksUp(s) /\ UNCHANGED world
  <2>1. /\ port' = [port EXCEPT ![k] = call[c].port] /\ UNCHANGED world
        /\ k \in call[c].todo /\ call[c].at = "run"
    BY <1>4 DEF Runs, Lowest, ghosts
  <2>2. k.server # s /\ call[c].port \in Port
    BY <1>0, <2>1 DEF Fits, Launching
  <2>3. RanksUp(s)' = RanksUp(s) \cup {j \in {k} : j.server = s}
    BY <2>1, <2>2, RanksUpMore
  <2>4. QED
    BY <2>1, <2>2, <2>3
<1>5. CASE Scans(c)
  <2>1. PICK shown : Disturbs({u \in {call[c].server} : ~(RanksUp(u) \subseteq shown)})
    BY <1>5 DEF Scans
  <2>2. world'[s] = world[s] /\ UNCHANGED port
    BY <1>5, <2>1 DEF Disturbs, Scans
  <2>3. QED
    BY <2>2 DEF RanksUp, Up
<1>6. QED
  BY <1>1, <1>2, <1>3, <1>4, <1>5
     DEF Proceeds, Refuses, Allocates, Cleared, RunRefused, Launched, Undone, Stopped, ghosts

\* A launch begins to work at a settled server when it finds nothing left over
\* that it does not take down.
LEMMA AllocatesSettled ==
    ASSUME Types, Locked, NEW c \in Call, Allocates(c), Settles(c),
           NEW s \in Server, call[c].server = s
    PROVE  Settled(s)'
<1> DEFINE p == call[c].pool
<1>0. /\ p \in Pools /\ s # None /\ call \in [Call -> Pending]
      /\ world \in [Server -> (SUBSET Container) \cup {None}]
      /\ \A d \in Call : Fits(call[d])
  BY DEF Allocates, Types, TypeOK, RequestsFit, Fits, Pending
<1>1. PICK number : call' = [call EXCEPT ![c].at = "remove", ![c].todo = Ranks(s, p),
                                         ![c].port = number]
  BY DEF Allocates
<1>2. /\ \A d \in Call \ {c} : call'[d] = call[d]
      /\ call'[c].server = s /\ call'[c].op = call[c].op
      /\ call'[c].at = "remove" /\ call'[c].todo = Ranks(s, p)
  BY <1>0, <1>1 DEF Pending
<1>3. world'[s] = {} /\ RanksUp(s)' = RanksUp(s)
  BY <1>0 DEF Allocates, RanksUp, Up
<1>4. InFlight(s)' = InFlight(s) /\ c \in InFlight(s)
  BY <1>2 DEF InFlight
<1>5. OnlyLaunches(s)'
  BY <1>2, <1>4 DEF OnlyLaunches, Settles, InFlight
<1>6. Knows(c, s)'
  BY <1>2, <1>3 DEF Knows, Settles
<1>7. ASSUME NEW d \in InFlight(s), d # c PROVE Knows(d, s)'
  <2>1. call[d].op = "launch" /\ call'[d] = call[d] /\ d \in Call
    BY <1>2, <1>7 DEF Settles, InFlight
  <2>2. call[d].at \notin Launching
    BY <1>0, <2>1 DEF Allocates, Locked, Types
  <2>3. call[d].at = "lock"
    BY <1>0, <2>1, <2>2 DEF Fits
  <2>4. QED
    BY <2>1, <2>3 DEF Knows, Launching
<1>8. QED
  BY <1>2, <1>4, <1>5, <1>6, <1>7 DEF Settled, AtWork, Launching

\* A step of a request leaves every server settled, its own by what it knows.
LEMMA ProceedsSettled ==
    ASSUME AllAnswer, Types, Locked, NEW c \in Call, Proceeds(c), NEW s \in Server, Settled(s)
    PROVE  Settled(s)'
<1> DEFINE p == call[c].pool
<1>0. /\ call[c].at # "idle" => call[c].server \in Server /\ p \in Pools
      /\ port \in [Container -> Port \cup {None}]
      /\ world \in [Server -> (SUBSET Container) \cup {None}]
      /\ Fits(call[c]) /\ call \in [Call -> Pending]
      /\ Idle.server = None /\ s # None /\ call[c].todo \subseteq Container
  BY DEF Types, TypeOK, RequestsFit, Fits, Idle, Pending
<1>1. \A d \in Call \ {c} : call'[d] = call[d]
  BY ProceedsFacts
<1>2. call'[c] # Idle => /\ call'[c].server = call[c].server
                         /\ call'[c].op = call[c].op /\ call'[c].pool = p
  BY ProceedsFacts
<1>3. CASE call[c].server # s
  <2>1. \A d \in Call : s \in {call[d].server, call'[d].server} => call'[d] = call[d]
    BY <1>0, <1>1, <1>2, <1>3
  <2>2. QED
    BY <1>3, <2>1, ProceedsAside, Untouched
<1>4. CASE world'[s] = None
  BY <1>4 DEF Settled
<1>5. CASE call[c].server = s /\ world'[s] # None
  <2>0. c \in InFlight(s) /\ p \in Pools
    BY <1>0, <1>5 DEF InFlight, Fits
  <2>1. CASE Allocates(c)
    <3>1. Settles(c)
      BY <1>0, <1>5, <2>1 DEF Allocates
    <3>2. QED
      BY <1>5, <2>1, <3>1, AllocatesSettled
  <2>2. CASE Refuses(c)
    <3>1. RanksUp(s)' = RanksUp(s) /\ UNCHANGED world /\ call[c].at = "lock"
      BY <2>2 DEF Refuses, RanksUp, Up, ghosts
    <3>2. call'[c] = Idle
      BY <2>2, AnswerFacts DEF Refuses
    <3>3. InFlight(s)' = InFlight(s) \ {c}
      BY <1>0, <1>1, <3>2 DEF InFlight
    <3>4. \A d \in InFlight(s)' : call'[d] = call[d]
      BY <1>1, <3>3 DEF InFlight
    <3>5. OnlyLaunches(s) => OnlyLaunches(s)'
      BY <3>3, <3>4 DEF OnlyLaunches
    <3>6. \A d \in InFlight(s)' : Knows(d, s) => Knows(d, s)'
      BY <3>1, <3>4 DEF Knows
    <3>7. \A d \in InFlight(s) : call[d].at \in AtWork => d \in InFlight(s)'
      BY <3>1, <3>3 DEF AtWork, Launching
    <3>8. QED
      BY <3>1, <3>3, <3>4, <3>5, <3>6, <3>7 DEF Settled
  <2>3. ASSUME world[s] # None, call[c].at \in AtWork \cup {"scan"},
               call'[c].at \in AtWork, Knows(c, s)'
        PROVE  Settled(s)'
    <3>1. call'[c] # Idle
      BY <2>3 DEF Idle, AtWork, Launching
    <3>2. call'[c].server = s /\ call'[c].op = call[c].op
      BY <1>2, <1>5, <3>1
    <3>3. QED
      BY <1>1, <2>0, <2>3, <3>2, WorkerStep
  <2>4. ASSUME world[s] # None, call[c].at \in AtWork, Answers(c), RanksUp(s)' = world'[s]
        PROVE  Settled(s)'
    BY <1>1, <2>0, <2>4, AnswerFacts, WorkerStep
  <2>5. world[s] # None => Knows(c, s)
    BY <2>0 DEF Settled
  <2>6. ASSUME NEW k \in Container, Takes(c, k) PROVE Settled(s)'
    <3>1. /\ port' = [port EXCEPT ![k] = None] /\ UNCHANGED world
          /\ call' = [call EXCEPT ![c].todo = @ \ {k}]
          /\ call[c].at \in {"remove", "undo", "take"}
      BY <2>6 DEF Takes, TakenDown, AllAnswer
    <3>2. call'[c].at = call[c].at /\ call'[c].todo = call[c].todo \ {k}
      BY <1>0, <3>1 DEF Pending
    <3>3. RanksUp(s)' = RanksUp(s) \ {k}
      BY <3>1, RanksUpDown
    <3>4. world[s] # None => Knows(c, s)'
      BY <2>5, <3>1, <3>2, <3>3 DEF Knows, Launching
    <3>5. QED
      BY <1>5, <2>3, <3>1, <3>2, <3>4 DEF AtWork, Launching
  <2>7. CASE Cleared(c)
    <3>1. /\ UNCHANGED <<port, world>> /\ call[c].at = "remove" /\ call[c].todo = {}
          /\ call' = [call EXCEPT ![c].at = "run", ![c].todo = Ranks(s, p)]
      BY <1>5, <2>7 DEF Cleared, ghosts
    <3>2. call'[c].at = "run" /\ call'[c].todo = Ranks(s, p) /\ call'[c].pool = p
      BY <1>0, <3>1 DEF Pending
    <3>3. RanksUp(s)' = RanksUp(s)
      BY <3>1 DEF RanksUp, Up
    <3>4. world[s] # None => world'[s] = {} /\ RanksUp(s) = {}
      BY <2>5, <3>1 DEF Knows, Launching
    <3>5. Ranks(s, call'[c].pool) \ call'[c].todo = {}
      BY <3>2
    <3>6. world[s] # None => Knows(c, s)'
      BY <3>2, <3>3, <3>4, <3>5 DEF Knows
    <3>7. QED
      BY <1>5, <2>3, <3>1, <3>2, <3>6 DEF AtWork, Launching
  <2>8. ASSUME NEW k \in Container, Runs(c, k) PROVE Settled(s)'
    <3>1. /\ port' = [port EXCEPT ![k] = call[c].port] /\ UNCHANGED world
          /\ call' = [call EXCEPT ![c].todo = @ \ {k}]
          /\ call[c].at = "run" /\ k \in call[c].todo
      BY <2>8 DEF Runs, ghosts, Lowest
    <3>2. /\ call'[c].at = "run" /\ call'[c].todo = call[c].todo \ {k}
          /\ call'[c].pool = p
      BY <1>0, <3>1 DEF Pending
    <3>3. call[c].port \in Port /\ k.server = s /\ k \in Ranks(s, p)
      BY <1>0, <1>5, <3>1 DEF Fits, Launching
    <3>4. RanksUp(s)' = RanksUp(s) \cup {j \in {k} : j.server = s}
      <4> DEFINE n == call[c].port
      <4>1. n \in Port /\ k \in Container /\ port' = [port EXCEPT ![k] = n]
        BY <2>8, <3>1, <3>3
      <4> HIDE DEF n
      <4>2. QED
        BY <4>1, RanksUpMore
    <3>5. world[s] # None => world'[s] = {} /\ RanksUp(s) = Ranks(s, p) \ call[c].todo
      BY <2>5, <3>1 DEF Knows, Launching
    <3>6. world[s] # None => RanksUp(s)' = Ranks(s, call'[c].pool) \ call'[c].todo
      BY <3>2, <3>3, <3>4, <3>5
    <3>7. world[s] # None => Knows(c, s)'
      BY <3>2, <3>5, <3>6 DEF Knows
    <3>8. QED
      BY <1>5, <2>3, <3>1, <3>2, <3>7 DEF AtWork, Launching
  <2>9. CASE RunRefused(c)
    <3>1. /\ UNCHANGED <<port, world>> /\ call[c].at = "run"
          /\ call' = [call EXCEPT ![c].at = "undo", ![c].todo = Ranks(s, p)]
      BY <1>5, <2>9 DEF RunRefused, ghosts
    <3>2. call'[c].at = "undo" /\ call'[c].todo = Ranks(s, p)
      BY <1>0, <3>1 DEF Pending
    <3>3. RanksUp(s)' = RanksUp(s)
      BY <3>1 DEF RanksUp, Up
    <3>4. world[s] # None => world'[s] = {} /\ RanksUp(s) \subseteq Ranks(s, p)
      BY <2>5, <3>1 DEF Knows, Launching
    <3>5. world[s] # None => Knows(c, s)'
      BY <3>2, <3>3, <3>4 DEF Knows
    <3>6. QED
      BY <1>5, <2>3, <3>1, <3>2, <3>5 DEF AtWork, Launching
  <2>10. CASE Launched(c)
    <3>1. RanksUp(s)' = RanksUp(s) /\ call[c].at = "run" /\ call[c].todo = {} /\ Answers(c)
      BY <2>10 DEF Launched, RanksUp, Up
    <3>2. world[s] # None /\ world'[s] = Ranks(s, p)
      BY <1>0, <1>5, <2>10 DEF Launched
    <3>3. RanksUp(s) = Ranks(s, p)
      BY <2>5, <3>1, <3>2 DEF Knows
    <3>4. QED
      BY <2>4, <3>1, <3>2, <3>3 DEF AtWork, Launching
  <2>11. CASE Undone(c)
    <3>1. /\ RanksUp(s)' = RanksUp(s) /\ call[c].at = "undo" /\ call[c].todo = {}
          /\ Answers(c) /\ UNCHANGED world
      BY <2>11 DEF Undone, RanksUp, Up, ghosts
    <3>2. RanksUp(s) = {} /\ world[s] = {}
      BY <1>5, <2>5, <3>1 DEF Knows, Launching
    <3>3. QED
      BY <2>4, <3>1, <3>2, <1>5 DEF AtWork, Launching
  <2>12. CASE Scans(c)
    <3>1. PICK shown \in Views :
             /\ call' = [call EXCEPT ![c].at = "take",
                                     ![c].todo = RanksUp(call[c].server) \cap shown]
             /\ Disturbs({u \in {call[c].server} : ~(RanksUp(u) \subseteq shown)})
      BY <2>12 DEF Scans
    <3>2. shown = Up /\ RanksUp(s) \subseteq Up /\ world[s] # None
      BY <1>5, <3>1, ViewsAll DEF Disturbs, RanksUp
    <3>3. call'[c].at = "take" /\ call'[c].todo = RanksUp(s)
      BY <1>0, <1>5, <3>1, <3>2 DEF Pending
    <3>4. RanksUp(s)' = RanksUp(s) /\ call[c].at = "scan"
      BY <2>12 DEF Scans, RanksUp, Up
    <3>5. Knows(c, s)'
      BY <3>3, <3>4 DEF Knows, Launching
    <3>6. QED
      BY <2>3, <3>2, <3>3, <3>4, <3>5 DEF AtWork
  <2>13. CASE Stopped(c)
    <3>1. RanksUp(s)' = RanksUp(s) /\ call[c].at = "take" /\ call[c].todo = {} /\ Answers(c)
      BY <2>13 DEF Stopped, RanksUp, Up
    <3>2. world[s] # None /\ world'[s] = {}
      BY <1>0, <1>5, <2>13 DEF Stopped
    <3>3. RanksUp(s) = {}
      BY <2>5, <3>1, <3>2 DEF Knows
    <3>4. QED
      BY <2>4, <3>1, <3>2, <3>3 DEF AtWork
  <2>14. QED
    BY <2>1, <2>2, <2>6, <2>7, <2>8, <2>9, <2>10, <2>11, <2>12, <2>13 DEF Proceeds
<1>6. QED
  BY <1>3, <1>4, <1>5

\* A request arriving for a settled server finds none but launches there, and
\* is one.
LEMMA RequestSettled ==
    ASSUME Types, NEW c \in Call, NEW op \in Op, NEW t \in Server, Request(c, op, t),
           NEW s \in Server, Settled(s)
    PROVE  Settled(s)'
<1>0. call \in [Call -> Pending] /\ Idle \in [op : {"none"}, at : {"idle"}, server : {None},
                                              pool : {None}, port : {None}, todo : {{}}]
      /\ s # None
  BY DEF Types, TypeOK, Pending, Idle
<1>1. /\ call[c] = Idle /\ \A d \in Call \ {c} : call'[d] = call[d]
      /\ call'[c].server = t /\ call'[c].op = op /\ call'[c].at \in {"lock", "scan"}
  BY <1>0 DEF Request
<1>2. RanksUp(s)' = RanksUp(s)
  BY DEF Request, RanksUp, Up
<1>3. CASE s # t
  <2>1. world'[s] = world[s]
    BY <1>3 DEF Request, Disturbs
  <2>2. \A d \in Call : s \in {call[d].server, call'[d].server} => call'[d] = call[d]
    BY <1>0, <1>1, <1>3
  <2>3. QED
    BY <1>2, <2>1, <2>2, Untouched
<1>4. CASE s = t /\ \E d \in InFlight(s) : {op, call[d].op} # {"launch"}
  BY <1>4 DEF Request, Disturbs, Settled
<1>5. CASE s = t /\ \A d \in InFlight(s) : {op, call[d].op} = {"launch"}
  <2>1. world'[s] = world[s]
    BY <1>5 DEF Request, Disturbs
  <2>2. InFlight(s)' = InFlight(s) \cup {c} /\ c \notin InFlight(s)
    BY <1>0, <1>1, <1>5 DEF InFlight
  <2>3. \A d \in InFlight(s) : call'[d] = call[d] /\ op = "launch" /\ call[d].op = "launch"
    <3>1. \A x, y : {x, y} = {"launch"} => x = "launch" /\ y = "launch"
      OBVIOUS
    <3>2. \A d \in InFlight(s) : d \in Call \ {c}
      BY <2>2 DEF InFlight
    <3>3. QED
      BY <1>1, <1>5, <3>1, <3>2
  <2>4. OnlyLaunches(s)'
    BY <1>1, <2>2, <2>3 DEF OnlyLaunches
  <2>5. Knows(c, s)'
    BY <1>1 DEF Knows, Launching
  <2>6. \A d \in InFlight(s) : Knows(d, s) => Knows(d, s)'
    BY <1>2, <2>1, <2>3 DEF Knows
  <2>7. QED
    BY <1>2, <2>1, <2>2, <2>3, <2>4, <2>5, <2>6 DEF Settled
<1>6. QED
  BY <1>3, <1>4, <1>5

\* So do the steps of the reaper: what it takes down of a settled server is not
\* there, or a stop is about to take it.
LEMMA ReapsSettled ==
    ASSUME AllAnswer, Types, Locked, NeverReapsServing, NEW k \in Container, Reaps(k),
           NEW s \in Server, Settled(s)
    PROVE  Settled(s)'
<1>1. /\ port' = [port EXCEPT ![k] = None] /\ UNCHANGED <<world, call>>
      /\ reaper.at = "take" /\ k.server = reaper.server
  BY DEF Reaps, TakenDown, AllAnswer, Types, PassFits, Lowest
<1>2. RanksUp(s)' = RanksUp(s) \ {k}
  BY <1>1, RanksUpDown
<1>3. InFlight(s)' = InFlight(s)
  BY <1>1 DEF InFlight
<1>4. CASE k.server # s
  <2>1. k \notin RanksUp(s)
    BY <1>4 DEF RanksUp
  <2>2. RanksUp(s)' = RanksUp(s)
    BY <1>2, <2>1
  <2>3. QED
    BY <1>1, <2>2, Untouched
<1>5. CASE k.server = s /\ world[s] # None
  <2>1. \A c \in InFlight(s) : call[c].at \notin Launching
    BY <1>1 DEF Locked, InFlight
  <2>2. \A c \in InFlight(s) : Knows(c, s)'
    BY <1>1, <1>2, <1>5, <2>1 DEF Settled, Knows, Launching
  <2>3. CASE RanksUp(s) = world[s]
    <3>1. RanksUp(s) \subseteq Up
      BY DEF RanksUp
    <3>2. world[s] = {}
      BY <1>1, <1>5, <2>3, <3>1 DEF NeverReapsServing
    <3>3. RanksUp(s)' = world'[s]
      BY <1>1, <1>2, <2>3, <3>2
    <3>4. QED
      BY <1>1, <1>3, <1>5, <2>2, <3>3 DEF Settled, OnlyLaunches
  <2>4. CASE \E c \in InFlight(s) : call[c].at \in AtWork
    BY <1>1, <1>3, <1>5, <2>2, <2>4 DEF Settled, OnlyLaunches
  <2>5. QED
    BY <1>5, <2>3, <2>4 DEF Settled
<1>6. CASE world[s] = None
  BY <1>1, <1>6 DEF Settled
<1>7. QED
  BY <1>4, <1>5, <1>6

\* Every step leaves every server settled that it does not disturb.
LEMMA SettledStep ==
    ASSUME AllAnswer, Types, Locked, NeverReapsServing, [Next]_vars,
           NEW s \in Server, Settled(s)
    PROVE  Settled(s)'
<1>0. /\ port \in [Container -> Port \cup {None}] /\ call \in [Call -> Pending] /\ s # None
      /\ abandoned \subseteq ({"run"} \X Container \X Port) \cup ({"rm"} \X Container \X {None})
  BY DEF Types, TypeOK, Pending
<1>1. CASE UNCHANGED <<port, call, world>>
  <2>1. RanksUp(s)' = RanksUp(s)
    BY <1>1 DEF RanksUp, Up
  <2>2. QED
    BY <1>1, <2>1, Untouched
<1>2. ASSUME NEW S, Disturbs(S), s \in S PROVE Settled(s)'
  BY <1>2 DEF Disturbs, Settled
<1>3. ASSUME NEW c \in Call, Cancels(c) PROVE Settled(s)'
  <2>1. CASE call[c].server = s
    BY <1>2, <1>3, <2>1 DEF Cancels
  <2>2. CASE call[c].server # s
    <3>1. call'[c].server = None /\ \A d \in Call \ {c} : call'[d] = call[d]
      BY <1>3, AnswerFacts DEF Cancels, Idle
    <3>2. RanksUp(s)' = RanksUp(s) /\ world'[s] = world[s]
      BY <1>3, <2>2 DEF Cancels, Disturbs, RanksUp, Up
    <3>3. \A d \in Call : s \in {call[d].server, call'[d].server} => call'[d] = call[d]
      BY <1>0, <2>2, <3>1
    <3>4. QED
      BY <3>2, <3>3, Untouched
  <2>3. QED
    BY <2>1, <2>2
<1>4. CASE Restarts
  <2>1. CASE s \in {call[c].server : c \in {d \in Call : call[d] # Idle}}
    BY <1>2, <1>4, <2>1 DEF Restarts
  <2>2. CASE s \notin {call[c].server : c \in {d \in Call : call[d] # Idle}}
    <3>1. RanksUp(s)' = RanksUp(s) /\ world'[s] = world[s]
      BY <1>4, <2>2 DEF Restarts, Disturbs, RanksUp, Up
    <3>2. InFlight(s) = {} /\ InFlight(s)' = {}
      BY <1>0, <1>4, <2>2 DEF Restarts, InFlight, Idle
    <3>3. QED
      BY <3>1, <3>2 DEF Settled, OnlyLaunches
  <2>3. QED
    BY <2>1, <2>2
<1>5. ASSUME NEW k \in Container, Disturbs({k.server}), UNCHANGED call,
             \/ UNCHANGED port
             \/ \E n : port' = [port EXCEPT ![k] = n]
      PROVE  Settled(s)'
  <2>1. CASE k.server = s
    BY <1>2, <1>5, <2>1
  <2>2. CASE k.server # s
    <3>1. RanksUp(s)' = RanksUp(s)
      BY <1>0, <1>5, <2>2 DEF RanksUp, Up
    <3>2. world'[s] = world[s]
      BY <1>5, <2>2 DEF Disturbs
    <3>3. QED
      BY <1>5, <3>1, <3>2, Untouched
  <2>3. QED
    BY <2>1, <2>2
<1>6. ASSUME NEW x \in abandoned, Lands(x) PROVE Settled(s)'
  <2>1. x[2] \in Container
    BY <1>0
  <2>2. Disturbs({x[2].server}) /\ UNCHANGED call
        /\ (UNCHANGED port \/ \E n : port' = [port EXCEPT ![x[2]] = n])
    BY <1>6 DEF Lands
  <2>3. QED
    BY <1>5, <2>1, <2>2
<1>7. ASSUME NEW k \in Container, Dies(k) PROVE Settled(s)'
  BY <1>5, <1>7 DEF Dies
<1>8. QED
  BY <1>1, <1>3, <1>4, <1>6, <1>7, ProceedsSettled, RequestSettled, ReapsSettled
     DEF Next, vars, EditsPool, ReapStep, PassBegins, Looks, Reaped, PassEnds, ghosts

\* Requests that do not overlap leave an engine whole or not there, whatever
\* becomes of the row's pool, of other servers and of the reaper meanwhile.
THEOREM EnginesWholeOrAbsent ==
    ASSUME AllAnswer, SameLength PROVE Spec => []WholeOrAbsent
<1> DEFINE Inv == Locked /\ ReapInv /\ AllSettled
<1>1. Init => Inv
  <2> SUFFICES ASSUME Init PROVE Inv
    OBVIOUS
  <2>1. AllSettled
    <3>1. \A s \in Server : RanksUp(s) = {} /\ world[s] = {}
      BY DEF Init, RanksUp, Up
    <3>2. \A s \in Server : InFlight(s) = {}
      BY DEF Init, InFlight, Idle
    <3>3. QED
      BY <3>1, <3>2 DEF AllSettled, Settled, OnlyLaunches
  <2>2. QED
    BY <2>1, ReapInit
<1>2. Types /\ Inv /\ [Next]_vars => (Types /\ Inv)'
  <2> SUFFICES ASSUME Types, Inv, [Next]_vars PROVE (Types /\ Inv)'
    OBVIOUS
  <2>1. \A s \in Server : Settled(s)'
    BY SettledStep DEF AllSettled, ReapInv
  <2>2. QED
    BY <2>1, ReapInvStep DEF AllSettled
<1>3. Inv => WholeOrAbsent
  BY DEF AllSettled, Settled, WholeOrAbsent, AtWork
<1> HIDE DEF Inv
<1>4. QED
  BY <1>1, <1>2, <1>3, TypeInit, PTL DEF Spec
=============================================================================
