------------------------------ MODULE JobStream ------------------------------
(***************************************************************************)
(* One job's log on its way to the browsers that watch it: JobManager      *)
(* writing and publishing (app/jobs.py), the Broker's bounded queues       *)
(* (app/events.py) and GET /jobs/{id}/stream (app/routers/jobs.py), which  *)
(* replays the log file and then subscribes.                               *)
(***************************************************************************)
EXTENDS Naturals, Sequences, SequencesExt

CONSTANTS
    Client,     \* browser tabs with the job's stream open
    MaxLines,   \* bound on the lines the job writes
    QueueSize,  \* Broker maxsize (512 in the code)
    MaxDrops    \* bound on connections lost, over all tabs

ASSUME JobStreamAssumption ==
    /\ MaxLines \in Nat
    /\ QueueSize \in Nat \ {0}
    /\ MaxDrops \in Nat

VARIABLES
    written,  \* lines in the log file
    status,   \* of the row: "running" or "terminal"
    pending,  \* publish_soon tasks the event loop has still to run, in order
    reader,   \* where each tab's request is
    job,      \* the row's status as that request read it
    backlog,  \* how many lines the request replayed from the file
    queue,    \* the request's queue at the broker
    live,     \* the lines it has sent since it subscribed
    missed,   \* ghost: lines the broker dropped from its queue
    drops     \* connections lost so far

producer == <<written, status>>
requests == <<reader, job, backlog, queue, live, missed, drops>>
vars == <<producer, pending, requests>>

Message == [type : {"log", "progress", "end"}, line : 0..MaxLines]

Log(n) == [type |-> "log", line |-> n]
Progress == [type |-> "progress", line |-> 0]
End == [type |-> "end", line |-> 0]

\* closed: never opened; lost: EventSource will reconnect; row, tail: before the
\* subscription; follow: subscribed; ended: the end frame was sent.
ReaderAt == {"closed", "lost", "row", "tail", "follow", "ended"}

Init ==
    /\ written = 0
    /\ status = "running"
    /\ pending = <<>>
    /\ reader = [c \in Client |-> "closed"]
    /\ job = [c \in Client |-> "running"]
    /\ backlog = [c \in Client |-> 0]
    /\ queue = [c \in Client |-> <<>>]
    /\ live = [c \in Client |-> <<>>]
    /\ missed = [c \in Client |-> {}]
    /\ drops = 0

-----------------------------------------------------------------------------
(* JobManager                                                              *)

\* _append: into the file now, to the broker when the loop gets to it.
AppendLine ==
    /\ status = "running"
    /\ written < MaxLines
    /\ written' = written + 1
    /\ pending' = Append(pending, Log(written + 1))
    /\ UNCHANGED <<status, requests>>

\* _update(progress=...), at most every 0.4 s: never two of them pending.
ReportProgress ==
    /\ status = "running"
    /\ Progress \notin Range(pending)
    /\ pending' = Append(pending, Progress)
    /\ UNCHANGED <<producer, requests>>

\* _update(status=...) with a terminal status.
Finish ==
    /\ status = "running"
    /\ status' = "terminal"
    /\ pending' = Append(pending, End)
    /\ UNCHANGED <<written, requests>>

-----------------------------------------------------------------------------
(* Broker                                                                  *)

\* Fault for TLC: a full queue refuses the new frame.
PutKeepsOldest(q, message) ==
    IF Len(q) = QueueSize THEN q ELSE Append(q, message)

\* Fault for TLC: the queue grows with a slow tab.
PutUnbounded(q, message) == Append(q, message)

\* A full queue gives up its oldest frame for the new one.
Put(q, message) ==
    Append(IF Len(q) = QueueSize THEN Tail(q) ELSE q, message)

DroppedLines(q) ==
    IF Len(q) = QueueSize /\ Head(q).type = "log" THEN {Head(q).line} ELSE {}

\* Fault for TLC: publishing takes the newest task first.
PublishNewest ==
    /\ pending # <<>>
    /\ pending' = Front(pending)
    /\ queue' = [c \in Client |->
           IF reader[c] = "follow" THEN Put(queue[c], Last(pending)) ELSE queue[c]]
    /\ missed' = [c \in Client |->
           IF reader[c] = "follow" THEN missed[c] \cup DroppedLines(queue[c])
                                   ELSE missed[c]]
    /\ UNCHANGED <<producer, reader, job, backlog, live, drops>>

Publish ==
    /\ pending # <<>>
    /\ pending' = Tail(pending)
    /\ queue' = [c \in Client |->
           IF reader[c] = "follow" THEN Put(queue[c], Head(pending)) ELSE queue[c]]
    /\ missed' = [c \in Client |->
           IF reader[c] = "follow" THEN missed[c] \cup DroppedLines(queue[c])
                                   ELSE missed[c]]
    /\ UNCHANGED <<producer, reader, job, backlog, live, drops>>

-----------------------------------------------------------------------------
(* stream_job                                                              *)

\* job = manager.get(job_id): read once, judged after the replay.
Open(c) ==
    /\ reader[c] \in {"closed", "lost"}
    /\ reader' = [reader EXCEPT ![c] = "row"]
    /\ job' = [job EXCEPT ![c] = status]
    /\ backlog' = [backlog EXCEPT ![c] = 0]
    /\ live' = [live EXCEPT ![c] = <<>>]
    /\ missed' = [missed EXCEPT ![c] = {}]
    /\ UNCHANGED <<producer, pending, queue, drops>>

\* manager.tail(...): the log as it is on disk, replayed line by line.
Replay(c) ==
    /\ reader[c] = "row"
    /\ reader' = [reader EXCEPT ![c] = "tail"]
    /\ backlog' = [backlog EXCEPT ![c] = written]
    /\ UNCHANGED <<producer, pending, job, queue, live, missed, drops>>

\* The status frame, and then the end frame or the subscription.
Subscribe(c) ==
    /\ reader[c] = "tail"
    /\ reader' = [reader EXCEPT ![c] =
           IF job[c] = "terminal" THEN "ended" ELSE "follow"]
    /\ UNCHANGED <<producer, pending, job, backlog, queue, live, missed, drops>>

\* await queue.get(), and the frames made of the message.
Deliver(c) ==
    /\ reader[c] = "follow"
    /\ queue[c] # <<>>
    /\ LET message == Head(queue[c]) IN
         /\ live' = [live EXCEPT ![c] =
                IF message.type = "log" THEN Append(@, message.line) ELSE @]
         /\ reader' = [reader EXCEPT ![c] =
                IF message.type = "end" THEN "ended" ELSE @]
         /\ queue' = [queue EXCEPT ![c] =
                IF message.type = "end" THEN <<>> ELSE Tail(@)]
    /\ UNCHANGED <<producer, pending, job, backlog, missed, drops>>

\* The connection breaks: the generator's finally block unsubscribes.
Disconnect(c) ==
    /\ reader[c] \in {"row", "tail", "follow"}
    /\ drops < MaxDrops
    /\ drops' = drops + 1
    /\ reader' = [reader EXCEPT ![c] = "lost"]
    /\ queue' = [queue EXCEPT ![c] = <<>>]
    /\ UNCHANGED <<producer, pending, job, backlog, live, missed>>

-----------------------------------------------------------------------------
Serve(c) == Replay(c) \/ Subscribe(c) \/ Deliver(c)

Next ==
    \/ AppendLine \/ ReportProgress \/ Finish \/ Publish
    \/ \E c \in Client : Open(c) \/ Serve(c) \/ Disconnect(c)

Spec == Init /\ [][Next]_vars

\* The event loop runs its tasks and EventSource reconnects; nothing makes the
\* job finish or a user open the stream.
FairSpec ==
    /\ Spec
    /\ WF_vars(Publish)
    /\ \A c \in Client :
         WF_vars(Serve(c)) /\ WF_vars(reader[c] = "lost" /\ Open(c))

-----------------------------------------------------------------------------
(* Properties                                                              *)

TypeOK ==
    /\ written \in 0..MaxLines
    /\ status \in {"running", "terminal"}
    /\ pending \in Seq(Message)
    /\ reader \in [Client -> ReaderAt]
    /\ job \in [Client -> {"running", "terminal"}]
    /\ backlog \in [Client -> 0..MaxLines]
    /\ \A c \in Client : queue[c] \in Seq(Message) /\ Len(queue[c]) <= QueueSize
    /\ \A c \in Client : live[c] \in Seq(1..MaxLines)
    /\ \A c \in Client : missed[c] \subseteq 1..MaxLines
    /\ drops \in 0..MaxDrops

\* The lines among some frames, and whether they come in the log's order.
LinesIn(frames) == {frames[i].line : i \in {j \in DOMAIN frames : frames[j].type = "log"}}

InOrder(frames) ==
    \A i, k \in DOMAIN frames :
        i < k /\ frames[i].type = "log" /\ frames[k].type = "log"
          => frames[i].line < frames[k].line

\* Some lines of the log, and every later one.
RunsOn(lines) == lines \subseteq 1..written /\ \A n \in lines : n..written \subseteq lines

\* What a subscriber has been sent and still has ahead of it.
Sent(c) == [i \in DOMAIN live[c] |-> Log(live[c][i])]
Course(c) == Sent(c) \o queue[c] \o pending

\* Between the publisher and a subscriber whose queue never filled up no line
\* is lost, repeated or reordered: what was sent, is queued and is about to be
\* published runs on in order and without a gap to the last line of the log.
FollowsWithoutGap ==
    \A c \in Client : reader[c] = "follow" /\ missed[c] = {} =>
        InOrder(Course(c)) /\ RunsOn(LinesIn(Course(c)))

\* A slow tab loses history, never the latest output (events.py, "Drop the
\* oldest frame so live data always wins over history").
LostAreOldest ==
    \A c \in Client : reader[c] = "follow" =>
        \A n \in missed[c] : \A m \in LinesIn(queue[c] \o pending) : n < m

\* Once a subscriber has the end of the job ahead of it, it gets there, however
\* full its queue is (jobs.py, the comment in _update).
EndAhead(c) == End \in Range(pending) \/ End \in Range(queue[c])

EndReachesSubscribers ==
    \A c \in Client :
        (reader[c] = "follow" /\ EndAhead(c)) ~> reader[c] \in {"ended", "lost"}
=============================================================================
