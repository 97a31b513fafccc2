----------------------------- MODULE CacheProofs -----------------------------
(***************************************************************************)
(* Proofs about Cache: a download does not run beside one it could see,    *)
(* and a launch that found whole copies starts on whole copies, for any    *)
(* machines, pool and number of requests.                                  *)
(***************************************************************************)
EXTENDS Cache, SequenceTheorems, TLAPS

USE CacheAssumption

-----------------------------------------------------------------------------
(* The inductive invariants                                                *)

\* Every variable has its type.
Types ==
    /\ cache \in [Node -> {"none", "partial", "whole"}]
    /\ deleting \subseteq Node
    /\ job \in Seq(Job)

\* What a job is doing fits its kind, and its row its program.
Orderly(j) ==
    /\ j.kind = "launch" => j.program = "none" /\ j.todo \subseteq Pool
    /\ j.kind # "launch" => j.at = "off"
    /\ j.kind = "sync" /\ j.row = "succeeded" => j.program = "good"
    /\ j.kind = "download" /\ j.program \in {"ordered", "on"} /\ j.row \in TERMINAL => j.orphan

JobsOrderly == \A i \in DOMAIN job : Orderly(job[i])

\* Of the jobs a download saw, those onto its machine are over.
SeesNone(saw, n) ==
    saw \subseteq {i \in DOMAIN job : job[i].kind = "download" /\ job[i].node = n => ~Live(i)}

Waiting == {q \in [for : {"download", "sync"}, node : Node, saw : SUBSET Nat] :
                q.for = "download" => SeesNone(q.saw, q.node)}

\* Of the downloads that a request or a job saw, none goes on.
SawNone ==
    /\ call \in Seq(Waiting)
    /\ \A j \in DOMAIN job : job[j].kind = "download" => SeesNone(job[j].saw, job[j].node)

\* A launch waits for a copy of its own to a machine of its pool.
Parented ==
    \A i \in DOMAIN job : job[i].at = "await" =>
        /\ job[i].child \in DOMAIN job
        /\ job[job[i].child].kind = "sync" /\ job[job[i].child].node \in Pool

\* The machines on which launch i has still to see to it that there is a copy.
Missing(i) ==
    job[i].todo \cup {n \in Pool : job[i].at = "await" /\ n = job[job[i].child].node}

\* The others of its pool have the whole model, this one among them.
Supplied(i) ==
    /\ cache[Here] = "whole"
    /\ \A n \in Pool \ Missing(i) : cache[n] = "whole"
    /\ job[i].at = "start" => job[i].todo = {}

\* What the copy under way reads is whole, and what it has written.
Copying(k) ==
    /\ job[k].program = "on" => ~job[k].torn
    /\ job[k].program = "good" => cache[job[k].node] = "whole"

Supplies ==
    \A i \in DOMAIN job : job[i].sound /\ job[i].at \in {"copy", "await", "start"} =>
        /\ Supplied(i)
        /\ job[i].at = "await" => Copying(job[i].child)

-----------------------------------------------------------------------------
(* Jobs                                                                    *)

\* Nothing is left of the steps but what becomes of each job: the rows settled
\* stay settled, and what a job is about stays as it is.
Follows(old, new) ==
    /\ new \in Job
    /\ new.kind = old.kind /\ new.node = old.node /\ new.saw = old.saw
    /\ old.row \in TERMINAL => new.row \in TERMINAL
    /\ Orderly(old) => Orderly(new)

\* Job i goes on, the others are as they were.
Turns(i) ==
    /\ Len(job') = Len(job) /\ job' \in Seq(Job)
    /\ \A k \in DOMAIN job \ {i} : job'[k] = job[k]
    /\ Follows(job[i], job'[i])

\* The jobs are numbered from 1.
LEMMA JobSeq == ASSUME NEW s \in Seq(Job) PROVE DOMAIN s = 1..Len(s) /\ Len(s) \in Nat
OBVIOUS

\* A job whose record is replaced by another.
LEMMA Replaced ==
    ASSUME Types, NEW i \in DOMAIN job, NEW x \in Job, job' = [job EXCEPT ![i] = x],
           Follows(job[i], x)
    PROVE  Turns(i) /\ job'[i] = x
BY ExceptSeq DEF Types, Turns

\* A program that was ordered starts, or fails to.
LEMMA BeginsTurns ==
    ASSUME Types, NEW i \in DOMAIN job, Begins(i)
    PROVE  /\ Turns(i) /\ job[i].program = "ordered"
           /\ \/ ProgramStarts(i) /\ job'[i].program = "on"
              \/ job'[i].program = "bad" /\ UNCHANGED cache
           /\ job'[i].at = job[i].at /\ job'[i].todo = job[i].todo
           /\ job'[i].child = job[i].child /\ job'[i].sound = job[i].sound
<1>0. job[i] \in Job
  BY DEF Types
<1>1. CASE ProgramStarts(i)
  <2> DEFINE source == job[i].kind = "download" \/ cache[Here] = "whole"
             x == [job[i] EXCEPT !.program = "on", !.torn = ~source,
                                 !.row = IF Live(i) THEN "running" ELSE @]
  <2>1. job' = [job EXCEPT ![i] = x] /\ job[i].program = "ordered"
    BY <1>1 DEF ProgramStarts, Types
  <2>2. x \in Job /\ Follows(job[i], x)
    BY <1>0, <2>1 DEF Job, Follows, Orderly, Live, TERMINAL
  <2>3. /\ x.program = "on" /\ x.at = job[i].at /\ x.todo = job[i].todo
        /\ x.child = job[i].child /\ x.sound = job[i].sound
    BY <1>0 DEF Job
  <2> HIDE DEF x
  <2>4. Turns(i) /\ job'[i] = x
    BY <2>1, <2>2, Replaced
  <2>5. QED
    BY <1>1, <2>1, <2>3, <2>4
<1>2. CASE NeverStarts(i)
  <2> DEFINE x == [job[i] EXCEPT !.program = "bad", !.row = IF Live(i) THEN "failed" ELSE @]
  <2>1. job' = [job EXCEPT ![i] = x] /\ job[i].program = "ordered" /\ UNCHANGED cache
    BY <1>2 DEF NeverStarts, Types
  <2>2. x \in Job /\ Follows(job[i], x)
    BY <1>0, <2>1 DEF Job, Follows, Orderly, Live, TERMINAL
  <2>3. QED
    BY <1>0, <2>1, <2>2, Replaced DEF Job
<1>3. QED
  BY <1>1, <1>2 DEF Begins

\* A program that ends was running, and leaves the rest of its job alone.
LEMMA EndsTurns ==
    ASSUME Types, NEW i \in DOMAIN job, Ends(i)
    PROVE  /\ Turns(i) /\ job[i].program = "on"
           /\ job'[i].program = "good" => EndsWell(i)
           /\ job'[i].program # "on"
           /\ job'[i].at = job[i].at /\ job'[i].todo = job[i].todo
           /\ job'[i].child = job[i].child /\ job'[i].sound = job[i].sound
<1>0. job[i] \in Job
  BY DEF Types
<1>1. PICK end \in {"good", "bad"} :
        /\ job' = [job EXCEPT ![i].program = end] /\ job[i].program = "on"
        /\ end = "good" => EndsWell(i)
  BY DEF Ends, EndsWell, EndsBadly
<1> DEFINE x == [job[i] EXCEPT !.program = end]
<1>2. job' = [job EXCEPT ![i] = x]
  BY <1>1
<1>3. x \in Job /\ Follows(job[i], x)
  BY <1>0, <1>1 DEF Job, Follows, Orderly, TERMINAL
<1>4. /\ x.program = end /\ x.at = job[i].at /\ x.todo = job[i].todo
      /\ x.child = job[i].child /\ x.sound = job[i].sound
  BY <1>0 DEF Job
<1> HIDE DEF x
<1>5. Turns(i) /\ job'[i] = x
  BY <1>2, <1>3, Replaced
<1>6. QED
  BY <1>1, <1>4, <1>5

\* A verdict changes a row and nothing else.
LEMMA SettlesTurns ==
    ASSUME Types, NEW i \in DOMAIN job, Settles(i)
    PROVE  /\ Turns(i) /\ UNCHANGED cache /\ job'[i].program = job[i].program
           /\ job'[i].torn = job[i].torn
           /\ job'[i].at = job[i].at /\ job'[i].todo = job[i].todo
           /\ job'[i].child = job[i].child /\ job'[i].sound = job[i].sound
<1>0. job[i] \in Job
  BY DEF Types
<1>1. PICK row \in TERMINAL :
        /\ job' = [job EXCEPT ![i].row = row] /\ UNCHANGED cache
        /\ row = "succeeded" => job[i].program = "good"
        /\ job[i].program \in {"good", "bad"} /\ Live(i)
  BY DEF Settles, TERMINAL
<1> DEFINE x == [job[i] EXCEPT !.row = row]
<1>2. job' = [job EXCEPT ![i] = x]
  BY <1>1
<1>3. x \in Job /\ Follows(job[i], x)
  BY <1>0, <1>1 DEF Job, Follows, Orderly, Live
<1>4. /\ x.program = job[i].program /\ x.at = job[i].at /\ x.todo = job[i].todo
      /\ x.child = job[i].child /\ x.sound = job[i].sound /\ x.torn = job[i].torn
  BY <1>0 DEF Job
<1> HIDE DEF x
<1>5. Turns(i) /\ job'[i] = x
  BY <1>2, <1>3, Replaced
<1>6. QED
  BY <1>1, <1>4, <1>5

\* A cancel ends the launch, or the program, and no more.
LEMMA CancelsTurns ==
    ASSUME Types, JobsOrderly, NEW i \in DOMAIN job, Cancels(i)
    PROVE  /\ Turns(i) /\ UNCHANGED <<cache, call>> /\ job'[i].at = "off"
           /\ job'[i].program = job[i].program \/ job'[i].program = "bad"
           /\ job'[i].torn = job[i].torn
<1>0. job[i] \in Job /\ Orderly(job[i])
  BY DEF Types, JobsOrderly
<1>1. CASE job[i].kind = "download" /\ job[i].node = Here /\ job[i].program # "ordered"
  <2> DEFINE x == [job[i] EXCEPT !.stopped = TRUE, !.program = IF @ = "on" THEN "bad" ELSE @]
  <2>1. job' = [job EXCEPT ![i] = x] /\ UNCHANGED <<cache, call>> /\ Live(i)
    BY <1>1 DEF Cancels
  <2>2. x \in Job /\ Follows(job[i], x)
    BY <1>0, <1>1, <2>1 DEF Job, Follows, Orderly, Live
  <2>3. /\ x.at = "off" /\ x.torn = job[i].torn
        /\ x.program = job[i].program \/ x.program = "bad"
    BY <1>0, <1>1 DEF Job, Orderly
  <2> HIDE DEF x
  <2>4. Turns(i) /\ job'[i] = x
    BY <2>1, <2>2, Replaced
  <2>5. QED
    BY <2>1, <2>3, <2>4
<1>2. CASE ~(job[i].kind = "download" /\ job[i].node = Here /\ job[i].program # "ordered")
  <2>1. PICK ends \in BOOLEAN :
          /\ ends => job[i].kind = "sync" /\ job[i].program = "on"
          /\ job' = [job EXCEPT ![i].row = "cancelled", ![i].at = "off", ![i].orphan = TRUE,
                                ![i].program = IF ends THEN "bad" ELSE @]
    BY <1>2 DEF Cancels
  <2> DEFINE x == [job[i] EXCEPT !.row = "cancelled", !.at = "off", !.orphan = TRUE,
                                 !.program = IF ends THEN "bad" ELSE @]
  <2>2. job' = [job EXCEPT ![i] = x] /\ UNCHANGED <<cache, call>>
    BY <2>1 DEF Cancels
  <2>3. x \in Job /\ Follows(job[i], x)
    BY <1>0, <2>1 DEF Job, Follows, Orderly, TERMINAL
  <2>4. /\ x.at = "off" /\ x.torn = job[i].torn
        /\ x.program = job[i].program \/ x.program = "bad"
    BY <1>0 DEF Job
  <2> HIDE DEF x
  <2>5. Turns(i) /\ job'[i] = x
    BY <2>2, <2>3, Replaced
  <2>6. QED
    BY <2>2, <2>4, <2>5
<1>3. QED
  BY <1>1, <1>2

\* What a launch does but for the copies it orders: it ends, or it has looked
\* for copies, a copy of its own has succeeded, or none is missing.
LEMMA DrivesTurns ==
    ASSUME Types, JobsOrderly, NEW i \in DOMAIN job,
           Checks(i) \/ CannotCopy(i) \/ Awaits(i) \/ Starts(i) \/ Started(i)
    PROVE  /\ Turns(i) /\ UNCHANGED <<cache, call>> /\ job[i].kind = "launch"
           /\ job'[i].program = job[i].program /\ job'[i].torn = job[i].torn
           /\ \/ job'[i].at = "off"
              \/ /\ job'[i].at = "copy"
                 /\ job'[i].sound => /\ cache[Here] = "whole"
                                     /\ \A n \in Pool \ job'[i].todo : cache[n] = "whole"
              \/ /\ job[i].at = "await" /\ job[job[i].child].row = "succeeded"
                 /\ job'[i].at = "copy" /\ job'[i].todo = job[i].todo
                 /\ job'[i].sound = job[i].sound
              \/ /\ job[i].at = "copy" /\ job'[i].at = "start" /\ job[i].todo = {}
                 /\ job'[i].todo = job[i].todo /\ job'[i].sound = job[i].sound
<1>0. job[i] \in Job /\ Orderly(job[i])
  BY DEF Types, JobsOrderly
<1>1. CASE Checks(i)
  <2>1. PICK missing \in SUBSET Pool, sound \in BOOLEAN :
          /\ job' = [job EXCEPT ![i].at = "copy", ![i].todo = missing, ![i].sound = sound]
          /\ sound = /\ \A n \in Pool \ missing : cache[n] = "whole"
                     /\ cache[Here] = "whole"
    BY <1>1 DEF Checks
  <2> DEFINE x == [job[i] EXCEPT !.at = "copy", !.todo = missing, !.sound = sound]
  <2>2. job' = [job EXCEPT ![i] = x] /\ job[i].at = "check" /\ UNCHANGED <<cache, call>>
    BY <1>1, <2>1 DEF Checks
  <2>3. x \in Job /\ Follows(job[i], x)
    BY <1>0, <2>2 DEF Job, Follows, Orderly
  <2>4. /\ x.at = "copy" /\ x.todo = missing /\ x.sound = sound
        /\ x.program = job[i].program /\ x.torn = job[i].torn /\ job[i].kind = "launch"
    BY <1>0, <2>2 DEF Job, Orderly
  <2> HIDE DEF x
  <2>5. Turns(i) /\ job'[i] = x
    BY <2>2, <2>3, Replaced
  <2>6. QED
    BY <2>1, <2>2, <2>4, <2>5
<1>2. CASE CannotCopy(i) \/ Started(i) \/ (Awaits(i) /\ job[job[i].child].row # "succeeded")
  <2>1. PICK row \in {"succeeded", "failed"} :
          /\ job' = [job EXCEPT ![i].at = "off", ![i].row = row]
          /\ job[i].at # "off" /\ UNCHANGED <<cache, call>>
    BY <1>2 DEF CannotCopy, Started, Awaits
  <2> DEFINE x == [job[i] EXCEPT !.at = "off", !.row = row]
  <2>2. job' = [job EXCEPT ![i] = x]
    BY <2>1
  <2>3. x \in Job /\ Follows(job[i], x)
    BY <1>0, <2>1 DEF Job, Follows, Orderly, TERMINAL
  <2>4. /\ x.at = "off" /\ job[i].kind = "launch"
        /\ x.program = job[i].program /\ x.torn = job[i].torn
    BY <1>0, <2>1 DEF Job, Orderly
  <2> HIDE DEF x
  <2>5. Turns(i) /\ job'[i] = x
    BY <2>2, <2>3, Replaced
  <2>6. QED
    BY <2>1, <2>4, <2>5
<1>3. ASSUME NEW at \in {"copy", "start"}, job' = [job EXCEPT ![i].at = at],
             job[i].at # "off", UNCHANGED <<cache, call>>
      PROVE  /\ Turns(i) /\ job'[i].at = at /\ job[i].kind = "launch"
             /\ job'[i].todo = job[i].todo /\ job'[i].sound = job[i].sound
             /\ job'[i].program = job[i].program /\ job'[i].torn = job[i].torn
  <2> DEFINE x == [job[i] EXCEPT !.at = at]
  <2>1. job' = [job EXCEPT ![i] = x]
    BY <1>3
  <2>2. x \in Job /\ Follows(job[i], x)
    BY <1>0, <1>3 DEF Job, Follows, Orderly
  <2>3. /\ x.at = at /\ x.todo = job[i].todo /\ x.sound = job[i].sound
        /\ x.program = job[i].program /\ x.torn = job[i].torn /\ job[i].kind = "launch"
    BY <1>0, <1>3 DEF Job, Orderly
  <2> HIDE DEF x
  <2>4. Turns(i) /\ job'[i] = x
    BY <2>1, <2>2, Replaced
  <2>5. QED
    BY <2>3, <2>4
<1>4. CASE Starts(i)
  <2>1. job' = [job EXCEPT ![i].at = "start"] /\ job[i].at = "copy" /\ job[i].todo = {}
        /\ UNCHANGED <<cache, call>>
    BY <1>4 DEF Starts
  <2>2. QED
    BY <1>3, <2>1
<1>5. CASE Awaits(i) /\ job[job[i].child].row = "succeeded"
  <2>1. job' = [job EXCEPT ![i].at = "copy"] /\ job[i].at = "await"
        /\ UNCHANGED <<cache, call>>
    BY <1>5 DEF Awaits
  <2>2. QED
    BY <1>3, <1>5, <2>1
<1>6. QED
  BY <1>1, <1>2, <1>4, <1>5

\* A new job comes last; the others are as they were but for job i.
Adds(i, new) ==
    /\ job' \in Seq(Job) /\ Len(job') = Len(job) + 1 /\ job'[Len(job')] = new
    /\ \A k \in DOMAIN job \ {i} : job'[k] = job[k]
    /\ i \in DOMAIN job => Follows(job[i], job'[i])

\* A job that a request adds.
LEMMA Added ==
    ASSUME Types, NEW new \in Job, job' = Append(job, new)
    PROVE  Adds(0, new)
BY AppendProperties DEF Types, Adds

\* A launch orders a copy and waits for it.
LEMMA CopiesTurns ==
    ASSUME Types, JobsOrderly, NEW i \in DOMAIN job, NEW n \in Peers, Copies(i, n)
    PROVE  /\ Adds(i, New("sync", n, "ordered")) /\ UNCHANGED <<cache, call>>
           /\ n \in job[i].todo /\ job[i].kind = "launch" /\ job[i].at = "copy"
           /\ job'[i].at = "await" /\ job'[i].child = Len(job)+1
           /\ job'[i].todo = job[i].todo \ {n} /\ job'[i].sound = job[i].sound
           /\ job'[i].program = job[i].program /\ job'[i].torn = job[i].torn
<1>0. job[i] \in Job /\ Orderly(job[i])
  BY DEF Types, JobsOrderly
<1> DEFINE x == [job[i] EXCEPT !.at = "await", !.child = Len(job) + 1, !.todo = @ \ {n}]
           new == New("sync", n, "ordered")
           turned == [job EXCEPT ![i] = x]
<1>1. /\ job' = Append(turned, new) /\ job[i].at = "copy" /\ n \in job[i].todo
      /\ UNCHANGED <<cache, call>>
  BY DEF Copies
<1>2. x \in Job /\ Follows(job[i], x)
  <2>1. Len(job) + 1 \in Nat
    BY DEF Types
  <2> DEFINE number == Len(job) + 1
             y == [job[i] EXCEPT !.at = "await", !.child = number, !.todo = @ \ {n}]
  <2> HIDE DEF number
  <2>2. y \in Job /\ Follows(job[i], y)
    BY <1>0, <1>1, <2>1 DEF Job, Follows, Orderly, number
  <2>3. QED
    BY <2>2 DEF number
<1>3. /\ x.at = "await" /\ x.todo = job[i].todo \ {n} /\ x.sound = job[i].sound
      /\ x.child = Len(job) + 1
      /\ x.program = job[i].program /\ x.torn = job[i].torn /\ job[i].kind = "launch"
  BY <1>0, <1>1 DEF Job, Orderly
<1>4. new \in Job
  BY DEF New, Job, Node
<1> HIDE DEF x, new
<1>5. /\ turned \in Seq(Job) /\ Len(turned) = Len(job) /\ turned[i] = x
      /\ \A k \in DOMAIN job \ {i} : turned[k] = job[k]
  BY <1>2, ExceptSeq DEF Types
<1> HIDE DEF turned
<1>6. Adds(i, new) /\ job'[i] = x
  BY <1>1, <1>2, <1>4, <1>5, AppendProperties DEF Adds, Types
<1>7. QED
  BY <1>1, <1>3, <1>6 DEF new

\* Every job at once.
LEMMA Mapped ==
    ASSUME Types, NEW f, job' = [k \in DOMAIN job |-> f[k]], \A k \in DOMAIN job : f[k] \in Job
    PROVE  job' \in Seq(Job) /\ Len(job') = Len(job) /\ \A k \in DOMAIN job : job'[k] = f[k]
<1>1. Len(job) \in Nat /\ DOMAIN job = 1..Len(job)
  BY DEF Types
<1>2. job' \in [1..Len(job) -> Job]
  BY <1>1
<1>3. QED
  BY <1>1, <1>2

\* A deletion tears what reads or writes there, and unsettles every launch
\* whose pool it touches.
LEMMA TearingTurns ==
    ASSUME Types, NEW n \in Node, Tearing(n)
    PROVE  /\ job' \in Seq(Job) /\ Len(job') = Len(job)
           /\ \A k \in DOMAIN job :
                 /\ Follows(job[k], job'[k])
                 /\ job'[k].at = job[k].at /\ job'[k].todo = job[k].todo
                 /\ job'[k].child = job[k].child /\ job'[k].program = job[k].program
                 /\ job'[k].sound = (job[k].sound /\ n \notin Pool)
                 /\ job'[k].torn = (job[k].torn \/ Tears(n, job[k]))
<1> DEFINE x(j) == [j EXCEPT !.torn = @ \/ Tears(n, j), !.sound = @ /\ n \notin Pool]
           f == [k \in DOMAIN job |-> x(job[k])]
<1>1. ASSUME NEW j \in Job
      PROVE  /\ x(j) \in Job /\ Follows(j, x(j))
             /\ x(j).at = j.at /\ x(j).todo = j.todo /\ x(j).child = j.child
             /\ x(j).program = j.program /\ x(j).sound = (j.sound /\ n \notin Pool)
             /\ x(j).torn = (j.torn \/ Tears(n, j))
  <2>1. Tears(n, j) \in BOOLEAN
    BY DEF Tears
  <2>2. PICK torn \in BOOLEAN : torn = (j.torn \/ Tears(n, j))
    BY <2>1 DEF Job
  <2>3. PICK sound \in BOOLEAN : sound = (j.sound /\ n \notin Pool)
    BY DEF Job
  <2>4. x(j) = [j EXCEPT !.torn = torn, !.sound = sound]
    BY <2>2, <2>3
  <2>5. QED
    BY <2>2, <2>3, <2>4 DEF Job, Follows, Orderly
<1>2. \A k \in DOMAIN job : job[k] \in Job
  BY DEF Types
<1>3. job' = [k \in DOMAIN job |-> x(job[k])]
  BY DEF Tearing
<1> HIDE DEF x
<1>4. job' = [k \in DOMAIN job |-> f[k]] /\ \A k \in DOMAIN job : f[k] \in Job
  BY <1>1, <1>2, <1>3
<1> HIDE DEF f
<1>5. job' \in Seq(Job) /\ Len(job') = Len(job)
  BY <1>4, Mapped
<1>6. \A k \in DOMAIN job : job'[k] = x(job[k])
  BY <1>3
<1>7. QED
  BY <1>1, <1>2, <1>5, <1>6

\* A restart settles every live row but that of a download whose container is
\* there.
LEMMA RestartsTurns ==
    ASSUME Types, JobsOrderly, Restarts
    PROVE  /\ job' \in Seq(Job) /\ Len(job') = Len(job)
           /\ \A k \in DOMAIN job :
                 /\ Follows(job[k], job'[k])
                 /\ job'[k].program = job[k].program /\ job'[k].torn = job[k].torn
                 /\ job'[k].at \in {"copy", "await", "start"} => job'[k] = job[k]
<1> DEFINE x(j) == IF j.row \in TERMINAL THEN j
                   ELSE IF j.kind = "download" /\ j.program # "ordered"
                   THEN [j EXCEPT !.stopped = FALSE]
                   ELSE [j EXCEPT !.row = "failed", !.at = "off", !.orphan = TRUE]
           f == [k \in DOMAIN job |-> x(job[k])]
<1>1. ASSUME NEW j \in Job, Orderly(j)
      PROVE  /\ x(j) \in Job /\ Follows(j, x(j))
             /\ x(j).program = j.program /\ x(j).torn = j.torn
             /\ x(j).at \in {"copy", "await", "start"} => x(j) = j
  <2>1. CASE j.row \in TERMINAL
    BY <1>1, <2>1 DEF Follows
  <2>2. CASE j.row \notin TERMINAL /\ j.kind = "download" /\ j.program # "ordered"
    <3>1. x(j) = [j EXCEPT !.stopped = FALSE]
      BY <2>2
    <3> HIDE DEF x
    <3>2. QED
      BY <1>1, <2>2, <3>1 DEF Job, Follows, Orderly
  <2>3. CASE j.row \notin TERMINAL /\ ~(j.kind = "download" /\ j.program # "ordered")
    <3>1. x(j) = [j EXCEPT !.row = "failed", !.at = "off", !.orphan = TRUE]
      BY <2>3
    <3> HIDE DEF x
    <3>2. QED
      BY <1>1, <2>3, <3>1 DEF Job, Follows, Orderly, TERMINAL
  <2>4. QED
    BY <2>1, <2>2, <2>3
<1>2. \A k \in DOMAIN job : job[k] \in Job /\ Orderly(job[k])
  BY DEF Types, JobsOrderly
<1>3. job' = [k \in DOMAIN job |-> x(job[k])]
  BY DEF Restarts, Live
<1> HIDE DEF x
<1>4. job' = [k \in DOMAIN job |-> f[k]] /\ \A k \in DOMAIN job : f[k] \in Job
  BY <1>1, <1>2, <1>3
<1> HIDE DEF f
<1>5. job' \in Seq(Job) /\ Len(job') = Len(job)
  BY <1>4, Mapped
<1>6. \A k \in DOMAIN job : job'[k] = x(job[k])
  BY <1>3
<1>7. QED
  BY <1>1, <1>2, <1>5, <1>6

\* A new job is one that was asked for, and no launch that is under way.
Fresh(new) ==
    /\ new.at \in {"off", "check"} /\ Orderly(new)
    /\ new.kind = "download" =>
          \E c \in DOMAIN call : call[c].for = "download" /\ new.saw = call[c].saw
                                   /\ new.node = call[c].node

Evolves ==
    /\ job' \in Seq(Job) /\ Len(job') >= Len(job)
    /\ \A k \in DOMAIN job : Follows(job[k], job'[k])
    /\ \A k \in DOMAIN job' \ DOMAIN job : Fresh(job'[k])

\* However many jobs a step touches, they go on as Follows says.
LEMMA Evolved ==
    ASSUME Types,
           \/ UNCHANGED job
           \/ /\ job' \in Seq(Job) /\ Len(job') = Len(job)
              /\ \A k \in DOMAIN job : Follows(job[k], job'[k])
           \/ \E i \in DOMAIN job : Turns(i)
           \/ \E i \in DOMAIN job \cup {0} : \E new : Adds(i, new) /\ Fresh(new)
    PROVE  Evolves
<1>0. /\ DOMAIN job = 1..Len(job) /\ Len(job) \in Nat
      /\ \A k \in DOMAIN job : job[k] \in Job
      /\ \A j \in Job : Follows(j, j)
  BY DEF Types, Follows
<1>1. CASE UNCHANGED job
  BY <1>0, <1>1 DEF Evolves, Types
<1>2. CASE /\ job' \in Seq(Job) /\ Len(job') = Len(job)
           /\ \A k \in DOMAIN job : Follows(job[k], job'[k])
  <2>1. DOMAIN job' = DOMAIN job
    BY <1>0, <1>2
  <2>2. QED
    BY <1>0, <1>2, <2>1 DEF Evolves
<1>3. ASSUME NEW i \in DOMAIN job, Turns(i) PROVE Evolves
  <2>1. DOMAIN job' = DOMAIN job
    BY <1>0, <1>3 DEF Turns
  <2>2. \A k \in DOMAIN job : Follows(job[k], job'[k])
    BY <1>0, <1>3 DEF Turns
  <2>3. QED
    BY <1>0, <1>3, <2>1, <2>2 DEF Evolves, Turns
<1>4. ASSUME NEW i \in DOMAIN job \cup {0}, NEW new, Adds(i, new), Fresh(new) PROVE Evolves
  <2>1. (\A k \in DOMAIN job' \ DOMAIN job : k = Len(job')) /\ Len(job') >= Len(job)
    <3>1. DOMAIN job' = 1..(Len(job) + 1) /\ Len(job') = Len(job) + 1
      BY <1>4, JobSeq DEF Adds
    <3>2. PICK n \in Nat : n = Len(job) /\ DOMAIN job = 1..n
      BY <1>0
    <3>3. Len(job') >= Len(job)
      BY <3>1, <3>2
    <3>4. \A k \in DOMAIN job' \ DOMAIN job : k = n + 1
      BY <3>1, <3>2
    <3>5. QED
      BY <3>1, <3>2, <3>3, <3>4
  <2>2. \A k \in DOMAIN job : Follows(job[k], job'[k])
    BY <1>0, <1>4 DEF Adds
  <2>3. QED
    BY <1>4, <2>1, <2>2 DEF Evolves, Adds
<1>5. QED
  BY <1>1, <1>2, <1>3, <1>4

\* Every step lets the jobs go on so.
LEMMA JobsEvolve ==
    ASSUME Types, JobsOrderly, call \in Seq(Waiting), [Next]_vars
    PROVE  Evolves
<1>1. ASSUME NEW c \in DOMAIN call, Submits(c) PROVE Evolves
  <2> DEFINE q == call[c]
             new == [New(q.for, q.node, "ordered") EXCEPT !.saw = q.saw]
  <2>1. q \in [for : {"download", "sync"}, node : Node, saw : SUBSET Nat]
    BY ElementOfSeq DEF Waiting
  <2>2. /\ new \in Job /\ new.at = "off" /\ new.kind = q.for /\ new.saw = q.saw
        /\ new.node = q.node /\ new.program = "ordered" /\ new.row = "pending"
    BY <2>1 DEF New, Job
  <2>3. Fresh(new)
    BY <2>1, <2>2 DEF Fresh, Orderly, TERMINAL
  <2>4. job' = Append(job, new)
    BY <1>1 DEF Submits
  <2> HIDE DEF new
  <2>5. QED
    BY <2>2, <2>3, <2>4, Added, Evolved
<1>2. CASE SubmitsLaunch
  <2> DEFINE new == [New("launch", Here, "none") EXCEPT !.row = "running", !.at = "check"]
  <2>1. /\ new \in Job /\ Fresh(new)
    BY DEF New, Job, Node, Fresh, Orderly
  <2>2. job' = Append(job, new)
    BY <1>2 DEF SubmitsLaunch
  <2> HIDE DEF new
  <2>3. QED
    BY <2>1, <2>2, Added, Evolved
<1>3. ASSUME NEW i \in DOMAIN job, NEW n \in Peers, Copies(i, n) PROVE Evolves
  <2>1. Fresh(New("sync", n, "ordered"))
    BY DEF New, Fresh, Orderly
  <2>2. QED
    BY <1>3, <2>1, CopiesTurns, Evolved
<1>4. ASSUME NEW i \in DOMAIN job, Begins(i) \/ Ends(i) \/ Settles(i) \/ Drives(i) \/ Cancels(i)
      PROVE  Evolves
  <2>1. CASE Turns(i)
    BY <2>1, Evolved
  <2>2. QED
    BY <1>3, <1>4, <2>1, BeginsTurns, EndsTurns, SettlesTurns, DrivesTurns, CancelsTurns DEF Drives
<1>5. ASSUME NEW n \in Node, Tearing(n) PROVE Evolves
  BY <1>5, TearingTurns, Evolved
<1>6. CASE Restarts
  BY <1>6, RestartsTurns, Evolved
<1>7. CASE UNCHANGED job
  BY <1>7, Evolved
<1>8. QED
  BY <1>1, <1>2, <1>4, <1>5, <1>6, <1>7
     DEF Next, Requests, AsksForDownload, AsksForSync, Refuses, Deletes, Deleted, vars

\* Every step preserves the types and what fits a job's kind.
LEMMA TypeStep ==
    ASSUME Types, JobsOrderly, call \in Seq(Waiting), [Next]_vars
    PROVE  Types' /\ JobsOrderly'
<1>1. Evolves
  BY JobsEvolve
<1>2. JobsOrderly'
  BY <1>1 DEF Evolves, Follows, Fresh, JobsOrderly
<1>3. deleting' \subseteq Node /\ cache' \in [Node -> {"none", "partial", "whole"}]
  <2>1. ASSUME NEW n, NEW x \in {"none", "partial", "whole"}, cache' = [cache EXCEPT ![n] = x]
        PROVE  cache' \in [Node -> {"none", "partial", "whole"}]
    BY <2>1 DEF Types
  <2>2. ASSUME NEW n \in Node, Deletes(n) \/ Deleted(n)
        PROVE  deleting' \subseteq Node /\ cache' \in [Node -> {"none", "partial", "whole"}]
    BY <2>2 DEF Deletes, Deleted, Types
  <2>3. ASSUME NEW i \in DOMAIN job, ProgramStarts(i) \/ EndsWell(i)
        PROVE  deleting' \subseteq Node /\ cache' \in [Node -> {"none", "partial", "whole"}]
    <3>1. job[i] \in Job
      BY DEF Types
    <3>2. job[i].node \in Node
      BY <3>1 DEF Job
    <3>3. QED
      BY <2>3, <3>2 DEF ProgramStarts, EndsWell, Types
  <2>4. CASE UNCHANGED <<cache, deleting>>
    BY <2>4 DEF Types
  <2>5. QED
    BY <2>2, <2>3, <2>4
       DEF Next, Requests, AsksForDownload, AsksForSync, Submits, SubmitsLaunch, Refuses, Begins,
           NeverStarts, Ends, EndsBadly, Settles, Drives, Checks, CannotCopy, Copies, Awaits,
           Starts, Started, Cancels, Restarts, vars
<1>4. QED
  BY <1>1, <1>2, <1>3 DEF Evolves, Types

-----------------------------------------------------------------------------
(* Downloads                                                               *)

\* What was over when a download looked stays over.
LEMMA StillNone ==
    ASSUME Types, Evolves, NEW saw, NEW n, SeesNone(saw, n)
    PROVE  SeesNone(saw, n)'
<1>1. DOMAIN job \subseteq DOMAIN job'
  <2>1. DOMAIN job = 1..Len(job) /\ Len(job) \in Nat
    BY JobSeq DEF Types
  <2>2. DOMAIN job' = 1..Len(job') /\ Len(job') \in Nat /\ Len(job') >= Len(job)
    BY JobSeq DEF Evolves
  <2>3. QED
    BY <2>1, <2>2
<1>2. ASSUME NEW i \in saw
      PROVE  i \in DOMAIN job' /\ (job'[i].kind = "download" /\ job'[i].node = n => ~Live(i)')
  <2>1. i \in DOMAIN job /\ (job[i].kind = "download" /\ job[i].node = n => ~Live(i))
    BY DEF SeesNone
  <2>2. Follows(job[i], job'[i])
    BY <2>1 DEF Evolves
  <2>3. QED
    BY <1>1, <2>1, <2>2 DEF Follows, Live
<1>3. QED
  BY <1>2 DEF SeesNone

\* A sequence without one of its elements.
LEMMA Removed ==
    ASSUME NEW S, NEW s \in Seq(S), NEW c \in DOMAIN s
    PROVE  RemoveAt(s, c) \in Seq(S)
<1>1. Len(s) \in Nat /\ c \in Nat /\ c >= 1 /\ c <= Len(s) /\ \A i \in 1..Len(s) : s[i] \in S
  OBVIOUS
<1>2. SubSeq(s, 1, c - 1) \in Seq(S)
  BY <1>1, SubSeqProperties
<1>3. SubSeq(s, c + 1, Len(s)) \in Seq(S)
  BY <1>1, SubSeqProperties
<1>4. QED
  BY <1>2, <1>3, ConcatProperties DEF RemoveAt

\* A download that was over stays over, and a look sees none that goes on.
LEMMA SawNoneStep ==
    ASSUME Types, JobsOrderly, SawNone, [Next]_vars
    PROVE  SawNone'
<1>0. Evolves /\ call \in Seq(Waiting)
  BY JobsEvolve DEF SawNone
<1>1. Waiting \subseteq Waiting'
  <2>1. ASSUME NEW q \in Waiting PROVE q \in Waiting'
    BY <1>0, StillNone DEF Waiting
  <2>2. QED
    BY <2>1
<1>2. \A s \in Seq(Waiting) : s \in Seq(Waiting')
  BY <1>1, SeqMonotonic
<1>3. call' \in Seq(Waiting')
  <2>1. ASSUME NEW n \in Node, AsksForDownload(n) PROVE call' \in Seq(Waiting')
    <3> DEFINE q == [for |-> "download", node |-> n, saw |-> DOMAIN job]
    <3>1. SeesNone(DOMAIN job, n)
      BY <2>1 DEF AsksForDownload, RunningDownload, SeesNone
    <3>2. DOMAIN job \in SUBSET Nat
      BY DEF Types
    <3>3. q \in Waiting
      BY <3>1, <3>2 DEF Waiting
    <3>4. call' = Append(call, q)
      BY <2>1 DEF AsksForDownload
    <3> HIDE DEF q
    <3>5. call' \in Seq(Waiting)
      BY <1>0, <3>3, <3>4, AppendProperties
    <3>6. QED
      BY <1>2, <3>5
  <2>2. ASSUME NEW n \in Node, AsksForSync(n) PROVE call' \in Seq(Waiting')
    <3> DEFINE q == [for |-> "sync", node |-> n, saw |-> {}]
    <3>1. q \in Waiting
      BY DEF Waiting
    <3>2. call' = Append(call, q)
      BY <2>2 DEF AsksForSync
    <3> HIDE DEF q
    <3>3. call' \in Seq(Waiting)
      BY <1>0, <3>1, <3>2, AppendProperties
    <3>4. QED
      BY <1>2, <3>3
  <2>3. ASSUME NEW c \in DOMAIN call, call' = RemoveAt(call, c) PROVE call' \in Seq(Waiting')
    BY <1>0, <1>2, <2>3, Removed
  <2>4. CASE call' = <<>> \/ UNCHANGED call
    <3>1. <<>> \in Seq(Waiting)
      OBVIOUS
    <3>2. QED
      BY <1>0, <1>2, <2>4, <3>1
  <2>5. QED
    BY <2>1, <2>2, <2>3, <2>4
       DEF Next, Requests, Submits, SubmitsLaunch, Refuses, Begins, ProgramStarts, NeverStarts,
           Ends, EndsWell, EndsBadly, Settles, Drives, Checks, CannotCopy, Copies, Awaits,
           Starts, Started, Cancels, Deletes, Deleted, Restarts, vars
<1>4. ASSUME NEW j \in DOMAIN job', job'[j].kind = "download",
             NEW saw, NEW n, job'[j].saw = saw, job'[j].node = n
      PROVE  SeesNone(saw, n)
  <2>1. CASE j \in DOMAIN job
    BY <1>0, <1>4, <2>1 DEF Evolves, Follows, SawNone
  <2>2. CASE j \notin DOMAIN job
    <3>1. PICK c \in DOMAIN call : call[c].for = "download" /\ saw = call[c].saw
                                     /\ n = call[c].node
      BY <1>0, <1>4, <2>2 DEF Evolves, Fresh
    <3>2. call[c] \in Waiting
      BY <1>0, ElementOfSeq
    <3>3. QED
      BY <3>1, <3>2 DEF Waiting
  <2>3. QED
    BY <2>1, <2>2
<1>5. ASSUME NEW j \in DOMAIN job', job'[j].kind = "download"
      PROVE  job'[j].saw \subseteq {i \in DOMAIN job' : job'[i].kind = "download"
                                      /\ job'[i].node = job'[j].node => ~Live(i)'}
  <2>1. PICK saw, n : job'[j].saw = saw /\ job'[j].node = n
    OBVIOUS
  <2>2. SeesNone(saw, n)'
    BY <1>0, <1>4, <1>5, <2>1, StillNone
  <2>3. QED
    BY <2>1, <2>2 DEF SeesNone
<1>6. QED
  BY <1>3, <1>5 DEF SawNone, SeesNone

\* A download does not run beside an older one on its machine that it could see
\* when it looked, unless that one's row was settled without its container,
\* however requests, cancels and restarts interleave.
THEOREM OneWriterHolds == Spec => []OneWriter
<1>1. Init => Types /\ JobsOrderly /\ SawNone
  BY DEF Init, Types, JobsOrderly, SawNone
<1>2. Types /\ JobsOrderly /\ SawNone /\ [Next]_vars => (Types /\ JobsOrderly /\ SawNone)'
  BY TypeStep, SawNoneStep DEF SawNone
<1>3. Types /\ JobsOrderly /\ SawNone => OneWriter
  <2> SUFFICES ASSUME Types, JobsOrderly, SawNone,
                      NEW i \in DOMAIN job, NEW j \in DOMAIN job,
                      job[i].kind = "download", job[j].kind = "download",
                      job[i].node = job[j].node, i \in job[j].saw, job[i].program = "on"
               PROVE  job[i].orphan
    BY DEF OneWriter
  <2>1. ~Live(i)
    BY DEF SawNone, SeesNone
  <2>2. QED
    BY <2>1 DEF JobsOrderly, Orderly, Live
<1>4. QED
  BY <1>1, <1>2, <1>3, PTL DEF Spec

-----------------------------------------------------------------------------
(* Launches                                                                *)

Spares == \A n \in Pool : ~Deletes(n) /\ ~Deleted(n)

\* Only a deletion undoes a whole copy.
LEMMA CacheStep ==
    ASSUME Types, [Next]_vars, Spares, NEW m \in Pool, cache[m] = "whole"
    PROVE  cache'[m] = "whole"
<1>0. cache \in [Node -> {"none", "partial", "whole"}] /\ m \in Node
  BY DEF Types
<1>1. ASSUME NEW i \in DOMAIN job, ProgramStarts(i) \/ EndsWell(i) PROVE cache'[m] = "whole"
  <2>1. \/ cache' = [cache EXCEPT ![job[i].node] = IF @ = "none" THEN "partial" ELSE @]
        \/ cache' = [cache EXCEPT ![job[i].node] = "whole"]
    BY <1>0, <1>1 DEF ProgramStarts, EndsWell
  <2>2. QED
    BY <1>0, <2>1
<1>2. ASSUME NEW n \in Node, Deletes(n) \/ Deleted(n) PROVE cache'[m] = "whole"
  <2>1. n # m
    BY <1>2 DEF Spares
  <2>2. cache' = [cache EXCEPT ![n] = "partial"] \/ cache' = [cache EXCEPT ![n] = "none"]
    BY <1>2 DEF Deletes, Deleted
  <2>3. QED
    BY <1>0, <2>1, <2>2
<1>3. CASE UNCHANGED cache
  BY <1>3
<1>4. QED
  BY <1>1, <1>2, <1>3
     DEF Next, Requests, AsksForDownload, AsksForSync, Submits, SubmitsLaunch, Refuses, Begins,
         NeverStarts, Ends, EndsBadly, Settles, Drives, Checks, CannotCopy, Copies, Awaits,
         Starts, Started, Cancels, Restarts, vars

\* A deletion in the pool leaves no launch sure of its copies.
LEMMA DeletionStep ==
    ASSUME Types, NEW n \in Pool, Deletes(n) \/ Deleted(n)
    PROVE  \A i \in DOMAIN job' : ~job'[i].sound
<1>1. Tearing(n) /\ n \in Node
  BY DEF Deletes, Deleted
<1>2. Len(job') = Len(job) /\ job' \in Seq(Job) /\ \A i \in DOMAIN job : ~job'[i].sound
  BY <1>1, TearingTurns
<1>3. DOMAIN job' = DOMAIN job
  BY <1>2, JobSeq DEF Types
<1>4. QED
  BY <1>2, <1>3

\* What a launch is waiting for stays as it was, or it moves on.
Carries(i) ==
    /\ job'[i].at = job[i].at /\ job'[i].todo = job[i].todo
    /\ job'[i].child = job[i].child
    /\ job'[i].sound => job[i].sound

Looked(i) ==
    /\ job'[i].at = "copy"
    /\ job'[i].sound => /\ cache[Here] = "whole"
                        /\ \A n \in Pool \ job'[i].todo : cache[n] = "whole"

Received(i) ==
    /\ job[i].at = "await" /\ job[job[i].child].row = "succeeded"
    /\ job'[i].at = "copy" /\ job'[i].todo = job[i].todo /\ job'[i].sound = job[i].sound

Ready(i) ==
    /\ job[i].at = "copy" /\ job'[i].at = "start" /\ job[i].todo = {}
    /\ job'[i].todo = job[i].todo /\ job'[i].sound = job[i].sound

Ordered(i, n) ==
    /\ n \in job[i].todo /\ job[i].kind = "launch" /\ job[i].at = "copy"
    /\ job'[i].at = "await" /\ job'[i].child = Len(job) + 1
    /\ job'[i].todo = job[i].todo \ {n} /\ job'[i].sound = job[i].sound
    /\ Len(job') = Len(job) + 1 /\ job'[Len(job) + 1] = New("sync", n, "ordered")

\* What a step does to a launch that is between its look and its start.
LEMMA LaunchStep ==
    ASSUME Types, JobsOrderly, [Next]_vars, NEW i \in DOMAIN job,
           job'[i].at \in {"copy", "await", "start"}
    PROVE  \/ Carries(i)
           \/ UNCHANGED cache /\ (Looked(i) \/ Received(i) \/ Ready(i) \/ (\E n : Ordered(i, n)))
<1>1. ASSUME job'[i] = job[i] PROVE Carries(i)
  BY <1>1 DEF Carries
<1>2. ASSUME NEW k \in DOMAIN job, Begins(k) \/ Ends(k) \/ Settles(k) PROVE Carries(i)
  <2>1. k # i => job'[i] = job[i]
    BY <1>2, BeginsTurns, EndsTurns, SettlesTurns DEF Turns
  <2>2. QED
    BY <1>1, <1>2, <2>1, BeginsTurns, EndsTurns, SettlesTurns DEF Carries
<1>3. ASSUME NEW k \in DOMAIN job, Cancels(k) PROVE Carries(i)
  <2>1. k # i
    BY <1>3, CancelsTurns
  <2>2. job'[i] = job[i]
    BY <1>3, <2>1, CancelsTurns DEF Turns
  <2>3. QED
    BY <1>1, <2>2
<1>4. ASSUME NEW k \in DOMAIN job,
             Checks(k) \/ CannotCopy(k) \/ Awaits(k) \/ Starts(k) \/ Started(k)
      PROVE  Carries(i) \/ (UNCHANGED cache /\ (Looked(i) \/ Received(i) \/ Ready(i)))
  <2>1. CASE k # i
    <3>1. job'[i] = job[i]
      BY <1>4, <2>1, DrivesTurns DEF Turns
    <3>2. QED
      BY <1>1, <3>1
  <2>2. CASE k = i
    BY <1>4, <2>2, DrivesTurns DEF Looked, Received, Ready
  <2>3. QED
    BY <2>1, <2>2
<1>5. ASSUME NEW k \in DOMAIN job, NEW n \in Peers, Copies(k, n)
      PROVE  Carries(i) \/ (UNCHANGED cache /\ Ordered(i, n))
  <2>1. CASE k # i
    <3>1. job'[i] = job[i]
      BY <1>5, <2>1, CopiesTurns DEF Adds
    <3>2. QED
      BY <1>1, <3>1
  <2>2. CASE k = i
    BY <1>5, <2>2, CopiesTurns DEF Ordered, Adds
  <2>3. QED
    BY <2>1, <2>2
<1>6. ASSUME NEW n \in Node, Deletes(n) \/ Deleted(n) PROVE Carries(i)
  <2>1. Tearing(n)
    BY <1>6 DEF Deletes, Deleted
  <2>2. QED
    BY <2>1, TearingTurns DEF Carries
<1>7. CASE Restarts
  BY <1>1, <1>7, RestartsTurns
<1>8. CASE Requests \/ UNCHANGED vars
  <2>1. UNCHANGED job \/ \E new : job' = Append(job, new)
    BY <1>8 DEF Requests, AsksForDownload, AsksForSync, Submits, SubmitsLaunch, Refuses, vars
  <2>2. job'[i] = job[i]
    BY <2>1 DEF Types
  <2>3. QED
    BY <1>1, <2>2
<1>9. QED
  BY <1>2, <1>3, <1>4, <1>5, <1>6, <1>7, <1>8 DEF Next, Drives

\* A copy from a whole source stays one, and is whole when it has ended well.
LEMMA CopyStep ==
    ASSUME Types, JobsOrderly, [Next]_vars, Spares, NEW k \in DOMAIN job,
           job[k].kind = "sync", job[k].node \in Pool, cache[Here] = "whole", Copying(k)
    PROVE  /\ job'[k].program = "on" => ~job'[k].torn
           /\ job'[k].program = "good" => cache'[job[k].node] = "whole"
<1> DEFINE Stays == /\ job'[k].program = "on" => ~job'[k].torn
                    /\ job'[k].program = "good" => cache'[job[k].node] = "whole"
<1>0. job[k] \in Job /\ Orderly(job[k]) /\ cache \in [Node -> {"none", "partial", "whole"}]
      /\ job[k].node \in Node
  BY DEF Types, JobsOrderly
<1>1. cache[job[k].node] = "whole" => cache'[job[k].node] = "whole"
  BY CacheStep
<1>2. ASSUME job'[k].program \in {job[k].program, "bad"}, job'[k].torn = job[k].torn
      PROVE  Stays
  BY <1>1, <1>2 DEF Copying
<1>3. ASSUME NEW i \in DOMAIN job, Begins(i) \/ Ends(i) PROVE Stays
  <2>1. CASE i # k
    <3>1. job'[k] = job[k]
      BY <1>3, <2>1, BeginsTurns, EndsTurns DEF Turns
    <3>2. QED
      BY <1>2, <3>1
  <2>2. CASE i = k /\ ProgramStarts(i)
    <3>1. job' = [job EXCEPT ![k].program = "on", ![k].torn = FALSE,
                             ![k].row = IF Live(k) THEN "running" ELSE @]
      BY <2>2 DEF ProgramStarts
    <3>2. job'[k] = [job[k] EXCEPT !.program = "on", !.torn = FALSE,
                             !.row = IF Live(k) THEN "running" ELSE @]
      BY <3>1
    <3>3. job'[k].program = "on" /\ ~job'[k].torn
      BY <1>0, <3>2 DEF Job
    <3>4. QED
      BY <3>3
  <2>3. CASE i = k /\ EndsWell(i)
    <3>1. ~job[k].torn /\ job'[k].program # "on"
      BY <1>3, <2>3, EndsTurns, BeginsTurns DEF Copying, EndsWell
    <3>2. cache'[job[k].node] = "whole"
      BY <1>0, <2>3, <3>1 DEF EndsWell
    <3>3. QED
      BY <3>1, <3>2
  <2>4. CASE i = k /\ Begins(i) /\ ~ProgramStarts(i)
    BY <2>4, BeginsTurns
  <2>5. CASE i = k /\ Ends(i) /\ ~EndsWell(i)
    BY <2>5, EndsTurns
  <2>6. QED
    BY <1>3, <2>1, <2>2, <2>3, <2>4, <2>5
<1>4. ASSUME NEW i \in DOMAIN job,
             \/ Settles(i) \/ Cancels(i)
             \/ Checks(i) \/ CannotCopy(i) \/ Awaits(i) \/ Starts(i) \/ Started(i)
      PROVE  Stays
  <2>1. CASE i # k
    <3>1. job'[k] = job[k]
      BY <1>4, <2>1, SettlesTurns, CancelsTurns, DrivesTurns DEF Turns
    <3>2. QED
      BY <1>2, <3>1
  <2>2. CASE i = k
    BY <1>2, <1>4, <2>2, SettlesTurns, CancelsTurns, DrivesTurns
  <2>3. QED
    BY <2>1, <2>2
<1>5. ASSUME NEW i \in DOMAIN job, NEW n \in Peers, Copies(i, n) PROVE Stays
  <2>1. i # k
    BY <1>5, CopiesTurns
  <2>2. job'[k] = job[k]
    BY <1>5, <2>1, CopiesTurns DEF Adds
  <2>3. QED
    BY <1>2, <2>2
<1>6. ASSUME NEW n \in Node, Deletes(n) \/ Deleted(n) PROVE Stays
  <2>1. Tearing(n) /\ n \notin Pool
    BY <1>6 DEF Deletes, Deleted, Spares
  <2>2. ~Tears(n, job[k])
    BY <2>1 DEF Tears
  <2>3. job'[k].program = job[k].program /\ job'[k].torn = (job[k].torn \/ Tears(n, job[k]))
    BY <2>1, TearingTurns
  <2>4. job[k].torn \in BOOLEAN
    BY <1>0 DEF Job
  <2>5. job'[k].torn = job[k].torn
    BY <2>2, <2>3, <2>4
  <2>6. QED
    BY <1>2, <2>3, <2>5
<1>7. CASE Restarts
  BY <1>2, <1>7, RestartsTurns
<1>8. CASE Requests \/ UNCHANGED vars
  <2>1. UNCHANGED job \/ \E new : job' = Append(job, new)
    BY <1>8 DEF Requests, AsksForDownload, AsksForSync, Submits, SubmitsLaunch, Refuses, vars
  <2>2. job'[k] = job[k]
    BY <2>1 DEF Types
  <2>3. QED
    BY <1>2, <2>2
<1>9. QED
  BY <1>3, <1>4, <1>5, <1>6, <1>7, <1>8 DEF Next, Drives

\* Every step keeps whole what a launch has counted on.
LEMMA SuppliesStep ==
    ASSUME Types, JobsOrderly, Parented, Supplies, call \in Seq(Waiting), [Next]_vars
    PROVE  Parented' /\ Supplies'
<1>0. Evolves /\ DOMAIN job = 1..Len(job) /\ Len(job) \in Nat
      /\ DOMAIN job' = 1..Len(job') /\ Len(job') \in Nat /\ DOMAIN job \subseteq DOMAIN job'
  <2>1. Evolves
    BY JobsEvolve
  <2>2. DOMAIN job = 1..Len(job) /\ Len(job) \in Nat
        /\ DOMAIN job' = 1..Len(job') /\ Len(job') \in Nat
    BY <2>1, JobSeq DEF Types, Evolves
  <2>3. QED
    BY <2>1, <2>2 DEF Evolves
<1>1. ASSUME NEW i \in DOMAIN job', job'[i].at \in {"copy", "await", "start"}
      PROVE  i \in DOMAIN job
  BY <1>0, <1>1 DEF Evolves, Fresh
<1>2. ASSUME NEW i \in DOMAIN job, NEW n, Ordered(i, n)
      PROVE  /\ Len(job) + 1 \in DOMAIN job' /\ n \in Pool
             /\ job'[Len(job) + 1].kind = "sync" /\ job'[Len(job) + 1].node = n
             /\ job'[Len(job) + 1].program = "ordered"
  <2>1. n \in Pool
    BY <1>2 DEF Ordered, JobsOrderly, Orderly
  <2>2. Len(job) + 1 \in DOMAIN job'
    BY <1>0, <1>2 DEF Ordered
  <2>3. QED
    BY <1>2, <2>1, <2>2 DEF Ordered, New
<1>3. ASSUME NEW k \in DOMAIN job
      PROVE  k \in DOMAIN job' /\ job'[k].kind = job[k].kind /\ job'[k].node = job[k].node
  BY <1>0 DEF Evolves, Follows
<1>4. Parented'
  <2> SUFFICES ASSUME NEW i \in DOMAIN job', job'[i].at = "await"
               PROVE  /\ job'[i].child \in DOMAIN job'
                      /\ job'[job'[i].child].kind = "sync" /\ job'[job'[i].child].node \in Pool
    BY DEF Parented
  <2>1. i \in DOMAIN job /\ (Carries(i) \/ \E n : Ordered(i, n))
    BY <1>1, LaunchStep DEF Looked, Received, Ready
  <2>2. CASE Carries(i)
    BY <1>3, <2>1, <2>2 DEF Parented, Carries
  <2>3. CASE \E n : Ordered(i, n)
    BY <1>2, <2>1, <2>3 DEF Ordered
  <2>4. QED
    BY <2>1, <2>2, <2>3
<1>5. ASSUME NEW i \in DOMAIN job', job'[i].sound, job'[i].at \in {"copy", "await", "start"}
      PROVE  /\ cache'[Here] = "whole"
             /\ \A m \in Pool : /\ m \notin job'[i].todo
                                /\ job'[i].at = "await" => m # job'[job'[i].child].node
                                => cache'[m] = "whole"
             /\ job'[i].at = "start" => job'[i].todo = {}
             /\ job'[i].at = "await" =>
                  /\ job'[job'[i].child].program = "on" => ~job'[job'[i].child].torn
                  /\ job'[job'[i].child].program = "good"
                       => cache'[job'[job'[i].child].node] = "whole"
  <2>1. i \in DOMAIN job
    BY <1>1, <1>5
  <2>2. Spares
    BY <1>5, DeletionStep DEF Spares
  <2>3. \A m \in Pool : cache[m] = "whole" => cache'[m] = "whole"
    BY <2>2, CacheStep
  <2>4. ASSUME job[i].sound, job[i].at \in {"copy", "await", "start"}
        PROVE  /\ cache[Here] = "whole" /\ cache'[Here] = "whole"
               /\ \A m \in Pool : /\ m \notin job[i].todo
                                  /\ job[i].at = "await" => m # job[job[i].child].node
                                  => cache[m] = "whole"
               /\ job[i].at = "start" => job[i].todo = {}
               /\ job[i].at = "await" => Copying(job[i].child)
    BY <2>1, <2>3, <2>4 DEF Supplies, Supplied, Missing
  <2>5. CASE Carries(i)
    <3>1. /\ job[i].sound /\ job'[i].at = job[i].at /\ job'[i].todo = job[i].todo
          /\ job'[i].child = job[i].child
      BY <1>5, <2>5 DEF Carries
    <3>2. CASE job[i].at # "await"
      BY <1>5, <2>3, <2>4, <3>1, <3>2
    <3>3. CASE job[i].at = "await"
      <4> DEFINE k == job[i].child
      <4>1. k \in DOMAIN job /\ job[k].kind = "sync" /\ job[k].node \in Pool
        BY <2>1, <3>3 DEF Parented
      <4>2. job'[k].node = job[k].node
        BY <1>3, <4>1
      <4>3. cache[Here] = "whole" /\ Copying(k)
        BY <1>5, <2>4, <3>1, <3>3
      <4> HIDE DEF k
      <4>4. /\ job'[k].program = "on" => ~job'[k].torn
            /\ job'[k].program = "good" => cache'[job[k].node] = "whole"
        BY <2>2, <4>1, <4>3, CopyStep
      <4>5. QED
        BY <1>5, <2>3, <2>4, <3>1, <3>3, <4>2, <4>4 DEF k
    <3>4. QED
      BY <3>2, <3>3
  <2>6. CASE UNCHANGED cache /\ Looked(i)
    BY <1>5, <2>6 DEF Looked
  <2>7. CASE UNCHANGED cache /\ Received(i)
    <3> DEFINE k == job[i].child
    <3>1. k \in DOMAIN job /\ job[k].kind = "sync" /\ job[k].row = "succeeded"
      BY <2>1, <2>7 DEF Parented, Received
    <3>2. job[k].program = "good"
      BY <3>1 DEF JobsOrderly, Orderly
    <3>3. Copying(k)
      BY <1>5, <2>4, <2>7 DEF Received
    <3>4. cache[job[k].node] = "whole"
      BY <3>2, <3>3 DEF Copying
    <3>5. QED
      BY <1>5, <2>4, <2>7, <3>4 DEF Received
  <2>8. CASE UNCHANGED cache /\ Ready(i)
    BY <1>5, <2>4, <2>8 DEF Ready
  <2>9. ASSUME NEW n, UNCHANGED cache, Ordered(i, n)
        PROVE  /\ cache'[Here] = "whole" /\ job'[i].at = "await"
               /\ job'[job'[i].child].program = "ordered" /\ job'[job'[i].child].node = n
               /\ \A m \in Pool : m \notin job'[i].todo /\ m # n => cache'[m] = "whole"
    <3>1. /\ job'[i].at = "await" /\ job[i].sound /\ job[i].at = "copy"
          /\ job'[i].todo = job[i].todo \ {n}
      BY <1>5, <2>9 DEF Ordered
    <3>2. job'[job'[i].child].program = "ordered" /\ job'[job'[i].child].node = n
      BY <1>2, <2>1, <2>9 DEF Ordered
    <3>3. QED
      BY <2>4, <2>9, <3>1, <3>2
  <2>10. CASE UNCHANGED cache /\ \E n : Ordered(i, n)
    BY <2>9, <2>10
  <2>11. QED
    BY <1>5, <2>1, <2>5, <2>6, <2>7, <2>8, <2>10, LaunchStep
<1>6. QED
  BY <1>4, <1>5 DEF Supplies, Supplied, Missing, Copying

\* When a launch goes on to start its engine, every machine of the pool has the
\* whole model, if what it found and copied from was whole and nobody deleted
\* a copy since, whatever other downloads, copies, cancels and restarts do.
THEOREM SoundStartHolds == Spec => []SoundStart
<1> DEFINE Inv == Types /\ JobsOrderly /\ SawNone /\ Parented /\ Supplies
<1>1. Init => Inv
  BY DEF Init, Types, JobsOrderly, SawNone, Parented, Supplies
<1>2. Inv /\ [Next]_vars => Inv'
  BY TypeStep, SawNoneStep, SuppliesStep DEF SawNone
<1>3. Inv => SoundStart
  BY DEF Supplies, Supplied, Missing, SoundStart
<1> HIDE DEF Inv
<1>4. QED
  BY <1>1, <1>2, <1>3, PTL DEF Spec

=============================================================================
