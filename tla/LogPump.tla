------------------------------ MODULE LogPump ------------------------------
(***************************************************************************)
(* app/docker_ctl.py, stream_logs: `docker logs -f` writes to two pipes,   *)
(* one task per pipe cuts what it reads into records and puts them into    *)
(* one bounded queue, a third closes the queue behind both, and a consumer *)
(* takes records out until the end, or leaves.  An action is a stretch     *)
(* between two awaits.                                                     *)
(***************************************************************************)
EXTENDS Naturals, Sequences, FiniteSets, SequencesExt

CONSTANTS
    Pipe,       \* stdout and stderr
    QueueSize,  \* maxsize of the queue
    Outputs     \* what the client may write in all, by pipe

\* A character: the two that end a segment, and the others.
CR == "cr"
LF == "lf"

\* What a pump puts, a pair in the code; the pipe it came from is a ghost.
Item(p, segment, transient) == <<[pipe |-> p, text |-> segment, transient |-> transient]>>

\* None, the end of the queue.
End == <<>>

ASSUME LogPumpAssumption ==
    /\ QueueSize \in Nat \ {0}
    /\ Outputs \subseteq [Pipe -> Seq(STRING)]

VARIABLES
    written,   \* what the client writes, by pipe
    left,    \* the part of it that no pump has read yet
    client,    \* the docker client: "on", "ended"
    pump,      \* what each pump awaits: "read", "put", "last" (to put the
               \* rest of its pipe); or "done", "cancelled"
    buffer,    \* its incomplete record
    shown,     \* the redraw it has put last, empty after a record
    outgoing,  \* what it has still to put of what it read
    closer,    \* "wait" for the pumps, "done", "cancelled"
    queue,
    consumer,  \* "on", "wait" for the client it has terminated, "gone"
    whole,     \* ghost: the consumer has seen the end of the queue
    got        \* ghost: the lines it was given, by pipe

pumpVars == <<written, left, client, pump, buffer, shown, outgoing, closer, queue,
          consumer, whole, got>>
pumping == <<left, buffer, shown>>

-----------------------------------------------------------------------------
(* Cutting                                                                 *)

\* The last of the redraws of a record, text.split("\r")[-1].
LastState(record) ==
    LET redraws == {i \in DOMAIN record : record[i] = CR}
        from == IF redraws = {} THEN 0 ELSE CHOOSE i \in redraws : \A j \in redraws : j <= i
    IN  SubSeq(record, from + 1, Len(record))

\* The states of records, with that of another unless it is empty.
With(states, record) ==
    IF LastState(record) = <<>> THEN states ELSE Append(states, LastState(record))

\* The buffer not kept from one read to the next.
CutFresh(kept, chunk) ==
    LET cut[n \in 0..Len(chunk)] ==
            IF n = 0 THEN [rest |-> <<>>, states |-> <<>>]
            ELSE IF chunk[n] # LF THEN [cut[n - 1] EXCEPT !.rest = Append(@, chunk[n])]
            ELSE [rest |-> <<>>, states |-> With(cut[n - 1].states, cut[n - 1].rest)]
    IN  cut[Len(chunk)]

\* The complete records of a buffer, each in its last state, and the rest.
Cut(kept, chunk) ==
    LET text == kept \o chunk
        cut[n \in 0..Len(text)] ==
            IF n = 0 THEN [rest |-> <<>>, states |-> <<>>]
            ELSE IF text[n] # LF THEN [cut[n - 1] EXCEPT !.rest = Append(@, text[n])]
            ELSE [rest |-> <<>>, states |-> With(cut[n - 1].states, cut[n - 1].rest)]
    IN  cut[Len(text)]

Settled(p, states) == [i \in DOMAIN states |-> Item(p, states[i], FALSE)]

-----------------------------------------------------------------------------
PumpInit ==
    /\ written \in Outputs
    /\ left = written
    /\ client = "on"
    /\ pump = [p \in Pipe |-> "read"]
    /\ buffer = [p \in Pipe |-> <<>>] /\ shown = [p \in Pipe |-> <<>>]
    /\ outgoing = [p \in Pipe |-> <<>>]
    /\ closer = "wait"
    /\ queue = <<>>
    /\ consumer = "on" /\ whole = FALSE /\ got = [p \in Pipe |-> <<>>]

\* A container that runs on never ends its log.
ClientEnds ==
    /\ client = "on"
    /\ client' = "ended"
    /\ UNCHANGED <<written, pumping, pump, outgoing, closer, queue, consumer, whole, got>>

\* A redraw is put as such if it is new and the last one is some time ago.
Redraw(p, rest, before, due) ==
    IF CR \in Range(rest) /\ due /\ LastState(rest) \notin {<<>>, before}
    THEN <<Item(p, LastState(rest), TRUE)>> ELSE <<>>

\* Any part of what is in the pipe arrives at once.
Reads(p) ==
    /\ pump[p] = "read"
    /\ \E n \in 1..Len(left[p]), due \in BOOLEAN :
          LET cut == Cut(buffer[p], SubSeq(left[p], 1, n))
              lines == Settled(p, cut.states)
              before == IF lines = <<>> THEN shown[p] ELSE <<>>
              redraw == Redraw(p, cut.rest, before, due)
          IN  /\ left' = [left EXCEPT ![p] = SubSeq(@, n + 1, Len(@))]
              /\ buffer' = [buffer EXCEPT ![p] = cut.rest]
              /\ outgoing' = [outgoing EXCEPT ![p] = lines \o redraw]
              /\ shown' = [shown EXCEPT ![p] = IF redraw = <<>> THEN before
                                               ELSE LastState(cut.rest)]
              /\ pump' = [pump EXCEPT ![p] = IF lines \o redraw = <<>> THEN "read" ELSE "put"]
    /\ UNCHANGED <<written, client, closer, queue, consumer, whole, got>>

\* The end of the pipe: what is left of the buffer is a record too.
ReadsEnd(p) ==
    /\ pump[p] = "read"
    /\ left[p] = <<>> /\ client = "ended"
    /\ outgoing' = [outgoing EXCEPT ![p] = Settled(p, With(<<>>, buffer[p]))]
    /\ buffer' = [buffer EXCEPT ![p] = <<>>]
    /\ pump' = [pump EXCEPT ![p] = IF outgoing'[p] = <<>> THEN "done" ELSE "last"]
    /\ UNCHANGED <<written, left, shown, client, closer, queue, consumer, whole, got>>

Room == Len(queue) < QueueSize

After(p) == IF Len(outgoing[p]) > 1 THEN pump[p]
            ELSE IF pump[p] = "last" THEN "done" ELSE "read"

Puts(p) ==
    /\ pump[p] \in {"put", "last"} /\ Room
    /\ queue' = Append(queue, Head(outgoing[p]))
    /\ outgoing' = [outgoing EXCEPT ![p] = Tail(@)]
    /\ pump' = [pump EXCEPT ![p] = After(p)]
    /\ UNCHANGED <<written, pumping, client, closer, consumer, whole, got>>

\* put_nowait: the end is lost on a full queue.
ClosesAtOnce ==
    /\ closer = "wait" /\ \A p \in Pipe : pump[p] = "done"
    /\ queue' = IF Room THEN Append(queue, End) ELSE queue
    /\ closer' = "done"
    /\ UNCHANGED <<written, pumping, client, pump, outgoing, consumer, whole, got>>

Closes ==
    /\ closer = "wait" /\ \A p \in Pipe : pump[p] = "done"
    /\ Room
    /\ queue' = Append(queue, End)
    /\ closer' = "done"
    /\ UNCHANGED <<written, pumping, client, pump, outgoing, consumer, whole, got>>

-----------------------------------------------------------------------------
(* The consumer, and the way out.                                          *)

Takes ==
    /\ consumer = "on" /\ queue # <<>> /\ Head(queue) # End
    /\ LET item == Head(queue)[1]
       IN  got' = IF item.transient THEN got
                  ELSE [got EXCEPT ![item.pipe] = Append(@, item.text)]
    /\ queue' = Tail(queue)
    /\ UNCHANGED <<written, pumping, client, pump, outgoing, closer, consumer, whole>>

\* The finally block up to its await.  A pump that waits for room is cancelled
\* like one that reads.
Leave ==
    /\ pump' = [p \in Pipe |-> IF pump[p] = "done" THEN "done" ELSE "cancelled"]
    /\ closer' = IF closer = "done" THEN "done" ELSE "cancelled"
    /\ consumer' = IF client = "on" THEN "wait" ELSE "gone"
    /\ UNCHANGED <<written, pumping, client, outgoing, got>>

TakesEnd ==
    /\ consumer = "on" /\ queue # <<>> /\ Head(queue) = End
    /\ queue' = Tail(queue)
    /\ whole' = TRUE
    /\ Leave

\* The job is cancelled, or the dashboard shuts down.
Abandons ==
    /\ consumer = "on"
    /\ Leave
    /\ UNCHANGED <<queue, whole>>

ClientGone ==
    /\ consumer = "wait" /\ client = "ended"
    /\ consumer' = "gone"
    /\ UNCHANGED <<written, pumping, client, pump, outgoing, closer, queue, whole, got>>

\* The wait given up, and the client with it.
GivesUpOnly ==
    /\ consumer = "wait" /\ client = "on"
    /\ consumer' = "gone"
    /\ UNCHANGED <<written, pumping, client, pump, outgoing, closer, queue, whole, got>>

\* A client that has not ended five seconds after its SIGTERM is killed.
GivesUp ==
    /\ consumer = "wait" /\ client = "on"
    /\ client' = "ended"
    /\ consumer' = "gone"
    /\ UNCHANGED <<written, pumping, pump, outgoing, closer, queue, whole, got>>

-----------------------------------------------------------------------------
(* The specification.  Its names are its own, so that JobLogProofs can     *)
(* extend it beside JobLog.                                                *)

Pumps(p) == Reads(p) \/ ReadsEnd(p) \/ Puts(p)

Consumes == Takes \/ TakesEnd \/ ClientGone \/ GivesUp

PumpNext == ClientEnds \/ (\E p \in Pipe : Pumps(p)) \/ Closes \/ Consumes \/ Abandons

PumpSpec == PumpInit /\ [][PumpNext]_pumpVars

\* The event loop runs what is ready.  Containers and users owe nothing.
PumpFairSpec ==
    /\ PumpSpec
    /\ \A p \in Pipe : WF_pumpVars(Pumps(p))
    /\ WF_pumpVars(Closes) /\ WF_pumpVars(Consumes)

-----------------------------------------------------------------------------
(* Properties                                                              *)

\* The lines of an output, whatever the reads that bring it: the text before
\* each newline, and before the end, back to the last character that ends
\* anything.
Lines(output) ==
    LET ends == {i \in DOMAIN output : output[i] \in {CR, LF}}
        stops == {i \in DOMAIN output : output[i] = LF} \cup {Len(output) + 1}
        from(stop) == LET before == {i \in ends : i < stop}
                      IN  IF before = {} THEN 1
                          ELSE 1 + CHOOSE i \in before : \A j \in before : j <= i
        line(stop) == SubSeq(output, from(stop), stop - 1)
        full == {s \in stops : line(s) # <<>>}
        nth(k) == CHOOSE s \in full : Cardinality({t \in full : t <= s}) = k
    IN  [k \in 1..Cardinality(full) |-> line(nth(k))]

\* However the output is cut up, and however the two pipes meet in the queue,
\* the consumer is given every line of each pipe once and in order, and has
\* been given all of them when it sees the end.
LinesWhole ==
    \A p \in Pipe : /\ IsPrefix(got[p], Lines(written[p]))
                    /\ whole => got[p] = Lines(written[p])

\* A consumer that stays gets to the end of a log that ends.
StreamEnds == client = "ended" /\ consumer = "on" ~> consumer = "gone"

\* A consumer that leaves is not held up by a pump that waits for room in its
\* queue, and leaves neither a task nor a client behind.
NothingStays ==
    consumer = "wait" ~> /\ consumer = "gone" /\ client = "ended"
                         /\ \A p \in Pipe : pump[p] \in {"done", "cancelled"}
=============================================================================
