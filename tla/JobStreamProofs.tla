--------------------------- MODULE JobStreamProofs ---------------------------
(***************************************************************************)
(* Why a browser's view of a log has no gap: what the file has, the broker *)
(* has still to publish, or has put into every subscriber's queue; and a   *)
(* full queue gives up the oldest of what a subscriber has ahead of it.    *)
(***************************************************************************)
EXTENDS JobStream, TLAPS

USE JobStreamAssumption

\* A request that does not follow has no queue, and one that has not subscribed
\* yet has been sent no line of its queue and lost none.
Waiting ==
    \A c \in Client :
        /\ reader[c] # "follow" => queue[c] = <<>>
        /\ reader[c] \in {"row", "tail"} => live[c] = <<>> /\ missed[c] = {}

\* What is to be published is the end of the log, in order.
Tasks == InOrder(pending) /\ RunsOn(LinesIn(pending))

\* What a subscriber has ahead of it.
Ahead(c) == LinesIn(queue[c]) \cup LinesIn(pending)

\* A subscriber's queue goes on where its published frames end, and all it has
\* ahead is newer than what it was sent or missed.
Follows ==
    \A c \in Client : reader[c] = "follow" =>
        /\ InOrder(queue[c])
        /\ \A n \in LinesIn(queue[c]), m \in LinesIn(pending) : n < m
        /\ RunsOn(Ahead(c))
        /\ Range(live[c]) \cup missed[c] \subseteq 1..written
        /\ \A i, k \in DOMAIN live[c] : i < k => live[c][i] < live[c][k]
        /\ \A n \in Range(live[c]) \cup missed[c], m \in Ahead(c) : n < m
        /\ missed[c] = {} => RunsOn(Range(live[c]) \cup Ahead(c))

\* The queues and histories are one per request.
Tables ==
    /\ queue \in [Client -> Seq(Message)]
    /\ live \in [Client -> Seq(1..MaxLines)]
    /\ missed \in [Client -> SUBSET (1..MaxLines)]

StreamInv == TypeOK /\ Tables /\ Waiting /\ Tasks /\ Follows

-----------------------------------------------------------------------------
(* Frames                                                                  *)

\* The line a frame carries, if it does.
LineOf(message) == IF message.type = "log" THEN {message.line} ELSE {}

\* A frame's line is a number.
LEMMA LinesAreNumbers ==
    ASSUME NEW s \in Seq(Message)
    PROVE  /\ \A i \in DOMAIN s : s[i] \in Message /\ s[i].line \in Nat
           /\ LinesIn(s) \subseteq Nat
           /\ DOMAIN s = 1..Len(s) /\ Len(s) \in Nat
<1>1. DOMAIN s = 1..Len(s) /\ Len(s) \in Nat
  OBVIOUS
<1>2. \A i \in 1..Len(s) : s[i] \in Message
  OBVIOUS
<1>3. \A m \in Message : m.line \in Nat
  BY DEF Message
<1>4. \A i \in DOMAIN s : s[i] \in Message /\ s[i].line \in Nat
  BY <1>1, <1>2, <1>3
<1>5. LinesIn(s) \subseteq Nat
  BY <1>4 DEF LinesIn
<1> QED
  BY <1>1, <1>4, <1>5

\* A frame put at the end adds its line at the end.
LEMMA AppendFrame ==
    ASSUME NEW s \in Seq(Message), NEW m \in Message
    PROVE  /\ Append(s, m) \in Seq(Message) /\ Len(Append(s, m)) = Len(s) + 1
           /\ LinesIn(Append(s, m)) = LinesIn(s) \cup LineOf(m)
           /\ InOrder(s) /\ (\A n \in LinesIn(s), k \in LineOf(m) : n < k)
                => InOrder(Append(s, m))
<1> DEFINE t == Append(s, m)
<1>1. /\ t \in Seq(Message) /\ Len(t) = Len(s) + 1
      /\ DOMAIN s = 1..Len(s) /\ DOMAIN t = 1..(Len(s) + 1) /\ Len(s) \in Nat
      /\ \A i \in 1..Len(s) : t[i] = s[i]
      /\ t[Len(s) + 1] = m
  OBVIOUS
<1> HIDE DEF t
<1>2. 1..(Len(s) + 1) = (1..Len(s)) \cup {Len(s) + 1}
  BY <1>1
<1>3. LinesIn(t) = LinesIn(s) \cup LineOf(m)
  BY <1>1, <1>2 DEF LinesIn, LineOf
<1>4. ASSUME InOrder(s), \A n \in LinesIn(s), k \in LineOf(m) : n < k
      PROVE  InOrder(t)
  <2> SUFFICES ASSUME NEW i \in DOMAIN t, NEW k \in DOMAIN t, i < k,
                      t[i].type = "log", t[k].type = "log"
               PROVE  t[i].line < t[k].line
    BY DEF InOrder
  <2>1. i \in 1..Len(s)
    BY <1>1
  <2>2. CASE k \in 1..Len(s)
    BY <1>1, <1>4, <2>1, <2>2 DEF InOrder
  <2>3. CASE k = Len(s) + 1
    <3>1. s[i].line \in LinesIn(s) /\ m.line \in LineOf(m)
      BY <1>1, <2>1, <2>3 DEF LinesIn, LineOf
    <3> QED
      BY <1>1, <1>4, <2>1, <2>3, <3>1
  <2> QED
    BY <1>1, <1>2, <2>2, <2>3
<1> QED
  BY <1>1, <1>3, <1>4 DEF t

\* A frame taken from the front takes the oldest line.
LEMMA TakeFrame ==
    ASSUME NEW s \in Seq(Message), s # <<>>
    PROVE  /\ Head(s) \in Message /\ Tail(s) \in Seq(Message)
           /\ Len(Tail(s)) = Len(s) - 1 /\ Len(s) > 0
           /\ LinesIn(s) = LineOf(Head(s)) \cup LinesIn(Tail(s))
           /\ InOrder(s) =>
                /\ InOrder(Tail(s))
                /\ \A n \in LineOf(Head(s)), k \in LinesIn(Tail(s)) : n < k
<1> DEFINE t == Tail(s)
<1>1. /\ Head(s) \in Message /\ t \in Seq(Message) /\ Len(t) = Len(s) - 1
      /\ DOMAIN s = 1..Len(s) /\ DOMAIN t = 1..(Len(s) - 1)
      /\ Len(s) \in Nat /\ Len(s) > 0
      /\ \A i \in 1..(Len(s) - 1) : t[i] = s[i + 1]
      /\ Head(s) = s[1]
  OBVIOUS
<1> HIDE DEF t
<1>2. \A i \in 1..Len(s) : i = 1 \/ (i - 1 \in 1..(Len(s) - 1) /\ s[i] = t[i - 1])
  <2> SUFFICES ASSUME NEW i \in 1..Len(s), i # 1
               PROVE  i - 1 \in 1..(Len(s) - 1) /\ s[i] = t[i - 1]
    OBVIOUS
  <2>1. i - 1 \in 1..(Len(s) - 1) /\ (i - 1) + 1 = i
    BY <1>1
  <2> QED
    BY <1>1, <2>1
<1>3. LinesIn(s) = LineOf(Head(s)) \cup LinesIn(t)
  <2>1. ASSUME NEW n \in LinesIn(s) PROVE n \in LineOf(Head(s)) \cup LinesIn(t)
    <3>1. PICK i \in 1..Len(s) : s[i].type = "log" /\ n = s[i].line
      BY <1>1, <2>1 DEF LinesIn
    <3> QED
      BY <1>1, <1>2, <3>1 DEF LinesIn, LineOf
  <2>2. ASSUME NEW n \in LinesIn(t) PROVE n \in LinesIn(s)
    <3>1. PICK i \in 1..(Len(s) - 1) : t[i].type = "log" /\ n = t[i].line
      BY <1>1, <2>2 DEF LinesIn
    <3>2. i + 1 \in 1..Len(s) /\ s[i + 1] = t[i]
      BY <1>1, <3>1
    <3> QED
      BY <1>1, <3>1, <3>2 DEF LinesIn
  <2>3. LineOf(Head(s)) \subseteq LinesIn(s)
    <3>1. 1 \in DOMAIN s
      BY <1>1
    <3> QED
      BY <1>1, <3>1 DEF LinesIn, LineOf
  <2> QED
    BY <2>1, <2>2, <2>3
<1>4. ASSUME InOrder(s)
      PROVE  InOrder(t) /\ \A n \in LineOf(Head(s)), k \in LinesIn(t) : n < k
  <2>1. InOrder(t)
    <3> SUFFICES ASSUME NEW i \in DOMAIN t, NEW k \in DOMAIN t, i < k,
                        t[i].type = "log", t[k].type = "log"
                 PROVE  t[i].line < t[k].line
      BY DEF InOrder
    <3>1. /\ i + 1 \in DOMAIN s /\ k + 1 \in DOMAIN s /\ i + 1 < k + 1
          /\ t[i] = s[i + 1] /\ t[k] = s[k + 1]
      BY <1>1
    <3> QED
      BY <1>4, <3>1 DEF InOrder
  <2>2. ASSUME NEW n \in LineOf(Head(s)), NEW k \in LinesIn(t) PROVE n < k
    <3>1. PICK i \in 1..(Len(s) - 1) : t[i].type = "log" /\ k = t[i].line
      BY <1>1, <2>2 DEF LinesIn
    <3>2. /\ i + 1 \in DOMAIN s /\ 1 \in DOMAIN s /\ 1 < i + 1 /\ s[i + 1] = t[i]
      BY <1>1, <3>1
    <3>3. s[1].type = "log" /\ n = s[1].line
      BY <1>1, <2>2 DEF LineOf
    <3> QED
      BY <1>4, <3>1, <3>2, <3>3 DEF InOrder
  <2> QED
    BY <2>1, <2>2
<1> QED
  BY <1>1, <1>3, <1>4 DEF t

\* Frames behind frames.
LEMMA JoinFrames ==
    ASSUME NEW s \in Seq(Message), NEW t \in Seq(Message)
    PROVE  /\ s \o t \in Seq(Message)
           /\ LinesIn(s \o t) = LinesIn(s) \cup LinesIn(t)
           /\ InOrder(s) /\ InOrder(t) /\ (\A n \in LinesIn(s), k \in LinesIn(t) : n < k)
                => InOrder(s \o t)
<1> DEFINE u == s \o t
<1>1. /\ u \in Seq(Message) /\ Len(u) = Len(s) + Len(t)
      /\ DOMAIN s = 1..Len(s) /\ DOMAIN t = 1..Len(t) /\ DOMAIN u = 1..(Len(s) + Len(t))
      /\ Len(s) \in Nat /\ Len(t) \in Nat
      /\ \A i \in 1..Len(s) : u[i] = s[i]
      /\ \A i \in 1..(Len(s) + Len(t)) : i > Len(s) => u[i] = t[i - Len(s)]
  OBVIOUS
<1> HIDE DEF u
<1>2. \A i \in DOMAIN u :
         \/ i \in DOMAIN s /\ u[i] = s[i]
         \/ i > Len(s) /\ i - Len(s) \in DOMAIN t /\ u[i] = t[i - Len(s)]
  BY <1>1
<1>3. \A i \in DOMAIN s : i \in DOMAIN u /\ u[i] = s[i]
  BY <1>1
<1>4. \A i \in DOMAIN t : i + Len(s) \in DOMAIN u /\ u[i + Len(s)] = t[i]
  <2> SUFFICES ASSUME NEW i \in DOMAIN t
               PROVE  i + Len(s) \in DOMAIN u /\ u[i + Len(s)] = t[i]
    OBVIOUS
  <2>1. i + Len(s) \in DOMAIN u /\ i + Len(s) > Len(s) /\ (i + Len(s)) - Len(s) = i
    BY <1>1
  <2> QED
    BY <1>1, <2>1
<1>5. LinesIn(u) = LinesIn(s) \cup LinesIn(t)
  <2>1. LinesIn(s) \subseteq LinesIn(u)
    BY <1>3 DEF LinesIn
  <2>2. LinesIn(t) \subseteq LinesIn(u)
    BY <1>4 DEF LinesIn
  <2>3. LinesIn(u) \subseteq LinesIn(s) \cup LinesIn(t)
    BY <1>2 DEF LinesIn
  <2> QED
    BY <2>1, <2>2, <2>3
<1>6. ASSUME InOrder(s), InOrder(t), \A n \in LinesIn(s), k \in LinesIn(t) : n < k
      PROVE  InOrder(u)
  <2> SUFFICES ASSUME NEW i \in DOMAIN u, NEW k \in DOMAIN u, i < k,
                      u[i].type = "log", u[k].type = "log"
               PROVE  u[i].line < u[k].line
    BY DEF InOrder
  <2>1. CASE i \in DOMAIN s /\ k \in DOMAIN s
    BY <1>3, <1>6, <2>1 DEF InOrder
  <2>2. CASE i \in DOMAIN s /\ k \notin DOMAIN s
    <3>1. k - Len(s) \in DOMAIN t /\ u[k] = t[k - Len(s)]
      BY <1>2, <2>2
    <3>2. u[i].line \in LinesIn(s) /\ u[k].line \in LinesIn(t)
      BY <1>3, <2>2, <3>1 DEF LinesIn
    <3> QED
      BY <1>6, <3>2
  <2>3. CASE i \notin DOMAIN s
    <3>1. k \notin DOMAIN s
      BY <1>1, <2>3
    <3>2. /\ i - Len(s) \in DOMAIN t /\ u[i] = t[i - Len(s)]
          /\ k - Len(s) \in DOMAIN t /\ u[k] = t[k - Len(s)]
      BY <1>2, <2>3, <3>1
    <3>3. i - Len(s) < k - Len(s)
      BY <1>1
    <3> QED
      BY <1>6, <3>2, <3>3 DEF InOrder
  <2> QED
    BY <2>1, <2>2, <2>3
<1> QED
  BY <1>1, <1>5, <1>6 DEF u

\* A queue with a new frame in it stays within its size and in order; the line
\* it gives up, if any, is its oldest.
LEMMA PutFrame ==
    ASSUME NEW q \in Seq(Message), NEW m \in Message, Len(q) <= QueueSize, InOrder(q),
           \A n \in LinesIn(q), k \in LineOf(m) : n < k
    PROVE  /\ Put(q, m) \in Seq(Message) /\ Len(Put(q, m)) <= QueueSize
           /\ InOrder(Put(q, m))
           /\ DroppedLines(q) \subseteq LinesIn(q)
           /\ LinesIn(q) \cup LineOf(m) = DroppedLines(q) \cup LinesIn(Put(q, m))
           /\ \A n \in DroppedLines(q), k \in LinesIn(Put(q, m)) : n < k
<1>1. CASE Len(q) = QueueSize
  <2>1. q # <<>>
    BY <1>1
  <2>2. DroppedLines(q) = LineOf(Head(q)) /\ Put(q, m) = Append(Tail(q), m)
    BY <1>1 DEF DroppedLines, LineOf, Put
  <2>3. /\ Tail(q) \in Seq(Message) /\ Len(Tail(q)) = QueueSize - 1
        /\ LinesIn(q) = LineOf(Head(q)) \cup LinesIn(Tail(q))
        /\ InOrder(Tail(q))
        /\ \A n \in LineOf(Head(q)), k \in LinesIn(Tail(q)) : n < k
    BY <1>1, <2>1, TakeFrame
  <2>4. /\ Put(q, m) \in Seq(Message) /\ Len(Put(q, m)) = QueueSize
        /\ LinesIn(Put(q, m)) = LinesIn(Tail(q)) \cup LineOf(m)
        /\ InOrder(Put(q, m))
    <3> DEFINE t == Tail(q)
    <3>1. t \in Seq(Message) /\ InOrder(t) /\ Len(t) + 1 = QueueSize
      BY <2>3
    <3>2. \A n \in LinesIn(t), k \in LineOf(m) : n < k
      BY <2>3
    <3>3. Put(q, m) = Append(t, m)
      BY <2>2
    <3> HIDE DEF t
    <3>4. /\ Append(t, m) \in Seq(Message) /\ Len(Append(t, m)) = Len(t) + 1
          /\ LinesIn(Append(t, m)) = LinesIn(t) \cup LineOf(m)
          /\ InOrder(Append(t, m))
      BY <3>1, <3>2, AppendFrame
    <3> QED
      BY <3>1, <3>3, <3>4 DEF t
  <2> QED
    BY <2>2, <2>3, <2>4
<1>2. CASE Len(q) # QueueSize
  <2>1. DroppedLines(q) = {} /\ Put(q, m) = Append(q, m) /\ Len(q) + 1 <= QueueSize
    BY <1>2 DEF DroppedLines, Put
  <2> QED
    BY <2>1, AppendFrame
<1> QED
  BY <1>1, <1>2

\* A line sent is the last of those sent.
LEMMA SendLine ==
    ASSUME NEW s \in Seq(1..MaxLines), NEW n \in 1..MaxLines
    PROVE  /\ Append(s, n) \in Seq(1..MaxLines)
           /\ Range(Append(s, n)) = Range(s) \cup {n}
           /\ (\A i, k \in DOMAIN s : i < k => s[i] < s[k]) /\ (\A l \in Range(s) : l < n)
                => \A i, k \in DOMAIN Append(s, n) : i < k => Append(s, n)[i] < Append(s, n)[k]
<1> DEFINE t == Append(s, n)
<1>1. /\ t \in Seq(1..MaxLines)
      /\ DOMAIN s = 1..Len(s) /\ DOMAIN t = 1..(Len(s) + 1) /\ Len(s) \in Nat
      /\ \A i \in 1..Len(s) : t[i] = s[i]
      /\ t[Len(s) + 1] = n
  OBVIOUS
<1> HIDE DEF t
<1>2. 1..(Len(s) + 1) = (1..Len(s)) \cup {Len(s) + 1}
  BY <1>1
<1>3. /\ Range(t) = {t[i] : i \in DOMAIN t} /\ Range(s) = {s[i] : i \in DOMAIN s}
  BY DEF Range
<1>4. Range(t) = Range(s) \cup {n}
  BY <1>1, <1>2, <1>3
<1>5. ASSUME \A i, k \in DOMAIN s : i < k => s[i] < s[k], \A l \in Range(s) : l < n,
             NEW i \in DOMAIN t, NEW k \in DOMAIN t, i < k
      PROVE  t[i] < t[k]
  <2>1. i \in 1..Len(s) /\ t[i] = s[i] /\ s[i] \in Range(s)
    BY <1>1, <1>3, <1>5
  <2> QED
    BY <1>1, <1>2, <1>5, <2>1
<1> QED
  BY <1>1, <1>4, <1>5 DEF t

-----------------------------------------------------------------------------
(* Lines that run on to the end of the log                                 *)

\* They still do when a line is added to both.
LEMMA RunsOnWithNew ==
    ASSUME NEW S, RunsOn(S), written \in Nat
    PROVE  /\ S \cup {written + 1} \subseteq 1..(written + 1)
           /\ \A n \in S \cup {written + 1} : n..(written + 1) \subseteq S \cup {written + 1}
<1>1. S \subseteq 1..written /\ \A n \in S : n..written \subseteq S
  BY DEF RunsOn
<1>2. ASSUME NEW n \in S \cup {written + 1}, NEW k \in n..(written + 1)
      PROVE  k \in S \cup {written + 1}
  <2>1. CASE n \in S /\ k # written + 1
    <3>1. k \in n..written
      BY <1>1, <1>2, <2>1
    <3> QED
      BY <1>1, <2>1, <3>1
  <2>2. CASE n = written + 1 \/ k = written + 1
    BY <1>2, <2>2
  <2> QED
    BY <1>2, <2>1, <2>2
<1> QED
  BY <1>1, <1>2

\* They still do without the oldest of them.
LEMMA RunsOnWithoutOld ==
    ASSUME NEW S, NEW D, RunsOn(D \cup S), \A d \in D, n \in S : d < n, written \in Nat
    PROVE  RunsOn(S)
<1>1. D \cup S \subseteq 1..written /\ \A n \in D \cup S : n..written \subseteq D \cup S
  BY DEF RunsOn
<1>2. ASSUME NEW n \in S, NEW k \in n..written PROVE k \in S
  <2>1. k \in D \cup S
    BY <1>1, <1>2
  <2>2. k \notin D
    <3> SUFFICES ASSUME k \in D PROVE FALSE
      OBVIOUS
    <3>1. k < n /\ n \in Nat /\ k \in Nat
      BY <1>1
    <3> QED
      BY <3>1
  <2> QED
    BY <2>1, <2>2
<1> QED
  BY <1>1, <1>2 DEF RunsOn

-----------------------------------------------------------------------------
(* Steps                                                                   *)

\* Nothing is written and nobody watches.
LEMMA InitStream == Init => StreamInv
<1> SUFFICES ASSUME Init PROVE StreamInv
  OBVIOUS
<1>1. LinesIn(<<>>) = {} /\ InOrder(<<>>)
  BY DEF LinesIn, InOrder
<1>2. TypeOK /\ Tables
  BY DEF Init, TypeOK, Tables, ReaderAt
<1>3. Tasks
  BY <1>1 DEF Init, Tasks, RunsOn
<1>4. Waiting /\ Follows
  BY DEF Init, Waiting, Follows
<1> QED
  BY <1>2, <1>3, <1>4 DEF StreamInv

\* A message without a line leaves what is to be published as it was.
LEMMA QuietTask ==
    ASSUME StreamInv, NEW m \in Message, m.type # "log",
           pending' = Append(pending, m), written' = written,
           status' \in {"running", "terminal"}, UNCHANGED requests
    PROVE  StreamInv'
<1> USE DEF StreamInv
<1>1. pending \in Seq(Message) /\ LineOf(m) = {}
  BY DEF TypeOK, LineOf
<1>2. pending' \in Seq(Message) /\ LinesIn(pending') = LinesIn(pending)
  BY <1>1, AppendFrame
<1>3. InOrder(pending')
  BY <1>1, AppendFrame DEF Tasks
<1>4. TypeOK' /\ Tables' /\ Waiting'
  BY <1>2 DEF requests, TypeOK, Tables, Waiting
<1>5. Tasks'
  BY <1>2, <1>3 DEF Tasks, RunsOn
<1>6. Follows'
  BY <1>2 DEF requests, Follows, Ahead, RunsOn
<1> QED
  BY <1>4, <1>5, <1>6

\* A line is written and handed to the loop in one go: it runs on for everybody.
LEMMA AppendLineStream == ASSUME StreamInv, AppendLine PROVE StreamInv'
<1> USE DEF StreamInv
<1> DEFINE m == Log(written + 1)
<1>1. /\ written' = written + 1 /\ pending' = Append(pending, m) /\ UNCHANGED requests
      /\ status' = status /\ written \in Nat /\ written + 1 \in 0..MaxLines
      /\ pending \in Seq(Message)
  BY DEF AppendLine, TypeOK
<1>2. m \in Message /\ LineOf(m) = {written + 1}
  BY <1>1 DEF Log, Message, LineOf
<1>3. \A n \in LinesIn(pending), k \in LineOf(m) : n < k
  BY <1>1, <1>2 DEF Tasks, RunsOn
<1>4. /\ pending' \in Seq(Message)
      /\ LinesIn(pending') = LinesIn(pending) \cup {written + 1}
      /\ InOrder(pending')
  BY <1>1, <1>2, <1>3, AppendFrame DEF Tasks
<1> HIDE DEF m
<1>5. TypeOK' /\ Tables' /\ Waiting'
  BY <1>1, <1>4 DEF requests, TypeOK, Tables, Waiting
<1>6. Tasks'
  BY <1>1, <1>4, RunsOnWithNew DEF Tasks, RunsOn
<1>7. Follows'
  <2> SUFFICES ASSUME NEW c \in Client, reader[c] = "follow"
               PROVE  /\ InOrder(queue[c])
                      /\ \A n \in LinesIn(queue[c]), k \in LinesIn(pending') : n < k
                      /\ RunsOn(Ahead(c))'
                      /\ Range(live[c]) \cup missed[c] \subseteq 1..(written + 1)
                      /\ \A i, k \in DOMAIN live[c] : i < k => live[c][i] < live[c][k]
                      /\ \A n \in Range(live[c]) \cup missed[c], k \in Ahead(c)' : n < k
                      /\ missed[c] = {} => RunsOn(Range(live[c]) \cup Ahead(c))'
    BY <1>1 DEF requests, Follows
  <2>1. Ahead(c)' = Ahead(c) \cup {written + 1}
    BY <1>1, <1>4 DEF requests, Ahead
  <2>2. LinesIn(queue[c]) \subseteq 1..written
    BY DEF Follows, Ahead, RunsOn
  <2>3. missed[c] = {} => Range(live[c]) \subseteq 1..written
    BY DEF Follows, RunsOn
  <2>4. RunsOn(Ahead(c))'
    BY <1>1, <2>1, RunsOnWithNew DEF Follows, RunsOn
  <2>5. missed[c] = {} => RunsOn(Range(live[c]) \cup Ahead(c))'
    <3> SUFFICES ASSUME missed[c] = {} PROVE RunsOn(Range(live[c]) \cup Ahead(c))'
      OBVIOUS
    <3> DEFINE S == Range(live[c]) \cup Ahead(c)
    <3>1. RunsOn(S)
      BY DEF Follows
    <3>2. (Range(live[c]) \cup Ahead(c))' = S \cup {written + 1}
      BY <1>1, <2>1 DEF requests
    <3> HIDE DEF S
    <3> QED
      BY <1>1, <3>1, <3>2, RunsOnWithNew DEF RunsOn
  <2>6. /\ Range(live[c]) \cup missed[c] \subseteq 1..(written + 1)
        /\ \A n \in Range(live[c]) \cup missed[c] : n < written + 1
    <3>1. \A n \in Range(live[c]) \cup missed[c] : n \in 1..written
      BY DEF Follows
    <3>2. \A n \in 1..written : n \in 1..(written + 1) /\ n < written + 1
      BY <1>1
    <3> QED
      BY <3>1, <3>2
  <2> QED
    <3>1. \A n \in LinesIn(queue[c]), k \in LinesIn(pending') : n < k
      <4>1. \A n \in LinesIn(queue[c]), k \in LinesIn(pending) : n < k
        BY DEF Follows
      <4>2. \A n \in 1..written : n < written + 1
        BY <1>1
      <4> QED
        BY <1>4, <2>2, <4>1, <4>2
    <3>2. \A n \in Range(live[c]) \cup missed[c], k \in Ahead(c)' : n < k
      BY <2>1, <2>6 DEF Follows
    <3> QED
      BY <2>4, <2>5, <2>6, <3>1, <3>2 DEF Follows
<1> QED
  BY <1>5, <1>6, <1>7

\* Publishing moves the oldest task into every subscriber's queue, and what a
\* full one gives up is older than all it keeps.
LEMMA PublishStream == ASSUME StreamInv, Publish PROVE StreamInv'
<1> USE DEF StreamInv
<1> DEFINE h == Head(pending)
           Follower(c) == reader[c] = "follow"
<1>1. /\ pending # <<>> /\ pending' = Tail(pending)
      /\ queue' = [c \in Client |-> IF Follower(c) THEN Put(queue[c], h) ELSE queue[c]]
      /\ missed' = [c \in Client |-> IF Follower(c) THEN missed[c] \cup DroppedLines(queue[c])
                                                  ELSE missed[c]]
      /\ UNCHANGED <<written, status, reader, job, backlog, live, drops>>
  BY DEF Publish, producer
<1>2. /\ pending \in Seq(Message) /\ written \in Nat /\ written <= MaxLines
      /\ \A c \in Client : queue[c] \in Seq(Message) /\ Len(queue[c]) <= QueueSize
  BY DEF TypeOK
<1>3. /\ h \in Message /\ pending' \in Seq(Message) /\ InOrder(pending')
      /\ LinesIn(pending) = LineOf(h) \cup LinesIn(pending')
      /\ \A n \in LineOf(h), k \in LinesIn(pending') : n < k
  BY <1>1, <1>2, TakeFrame DEF Tasks
<1>4. LinesIn(pending) \subseteq 1..written
  BY DEF Tasks, RunsOn
<1> HIDE DEF h
<1>5. RunsOn(LinesIn(pending'))
  <2>1. RunsOn(LineOf(h) \cup LinesIn(pending'))
    BY <1>3 DEF Tasks
  <2> QED
    BY <1>2, <1>3, <2>1, RunsOnWithoutOld
<1>6. ASSUME NEW c \in Client, Follower(c)
      PROVE  /\ queue'[c] \in Seq(Message) /\ Len(queue'[c]) <= QueueSize
             /\ InOrder(queue'[c])
             /\ DroppedLines(queue[c]) \subseteq LinesIn(queue[c])
             /\ LinesIn(queue[c]) \cup LineOf(h) = DroppedLines(queue[c]) \cup LinesIn(queue'[c])
             /\ \A n \in DroppedLines(queue[c]), k \in LinesIn(queue'[c]) : n < k
  <2> DEFINE q == queue[c]
  <2>1. /\ q \in Seq(Message) /\ Len(q) <= QueueSize /\ InOrder(q)
        /\ \A n \in LinesIn(q), k \in LineOf(h) : n < k
    BY <1>2, <1>3, <1>6 DEF Follows
  <2>2. queue'[c] = Put(q, h)
    BY <1>1, <1>6
  <2> HIDE DEF q
  <2>3. /\ Put(q, h) \in Seq(Message) /\ Len(Put(q, h)) <= QueueSize
        /\ InOrder(Put(q, h))
        /\ DroppedLines(q) \subseteq LinesIn(q)
        /\ LinesIn(q) \cup LineOf(h) = DroppedLines(q) \cup LinesIn(Put(q, h))
        /\ \A n \in DroppedLines(q), k \in LinesIn(Put(q, h)) : n < k
    BY <1>3, <2>1, PutFrame
  <2> QED
    BY <2>2, <2>3 DEF q
<1>7. \A c \in Client : Follower(c) => LinesIn(queue[c]) \subseteq 1..written
  BY DEF Follows, Ahead, RunsOn
<1>8. \A n \in 1..written : n \in 1..MaxLines
  BY <1>2
<1>9. ASSUME NEW c \in Client
      PROVE  /\ queue'[c] \in Seq(Message) /\ Len(queue'[c]) <= QueueSize
             /\ missed'[c] \subseteq 1..MaxLines
  <2>1. CASE Follower(c)
    <3>1. missed'[c] = missed[c] \cup DroppedLines(queue[c])
      BY <1>1, <2>1
    <3>2. DroppedLines(queue[c]) \subseteq 1..MaxLines
      BY <1>6, <1>7, <1>8, <2>1
    <3> QED
      BY <1>6, <2>1, <3>1, <3>2 DEF TypeOK
  <2>2. CASE ~Follower(c)
    BY <1>1, <1>2, <2>2 DEF TypeOK
  <2> QED
    BY <2>1, <2>2
<1>10. TypeOK' /\ Tables'
  <2>1. queue' \in [Client -> Seq(Message)] /\ missed' \in [Client -> SUBSET (1..MaxLines)]
    BY <1>1, <1>9
  <2> QED
    BY <1>1, <1>3, <1>9, <2>1 DEF TypeOK, Tables
<1>11. Waiting'
  BY <1>1 DEF Waiting
<1>12. Tasks'
  BY <1>1, <1>3, <1>5 DEF Tasks, RunsOn
<1>13. Follows'
  <2> SUFFICES ASSUME NEW c \in Client, Follower(c)
               PROVE  /\ InOrder(queue'[c])
                      /\ \A n \in LinesIn(queue'[c]), k \in LinesIn(pending') : n < k
                      /\ RunsOn(Ahead(c)')
                      /\ Range(live[c]) \cup missed'[c] \subseteq 1..written
                      /\ \A i, k \in DOMAIN live[c] : i < k => live[c][i] < live[c][k]
                      /\ \A n \in Range(live[c]) \cup missed'[c], k \in Ahead(c)' : n < k
                      /\ missed'[c] = {} => RunsOn(Range(live[c]) \cup Ahead(c)')
    BY <1>1 DEF Follows, RunsOn
  <2> DEFINE D == DroppedLines(queue[c])
             after == LinesIn(queue'[c]) \cup LinesIn(pending')
  <2>1. Ahead(c)' = after /\ missed'[c] = missed[c] \cup D
    BY <1>1 DEF Ahead
  <2>2. Ahead(c) = D \cup after
    BY <1>3, <1>6 DEF Ahead
  <2>3. \A n \in LinesIn(queue'[c]), k \in LinesIn(pending') : n < k
    <3>1. LinesIn(queue'[c]) \subseteq LinesIn(queue[c]) \cup LineOf(h)
      BY <1>6
    <3>2. \A n \in LinesIn(queue[c]), k \in LinesIn(pending') : n < k
      BY <1>3 DEF Follows
    <3> QED
      BY <1>3, <3>1, <3>2
  <2>4. \A n \in D, k \in after : n < k
    <3>1. \A n \in D, k \in LinesIn(pending') : n < k
      BY <1>3, <1>6 DEF Follows
    <3> QED
      BY <1>6, <3>1
  <2>5. D \subseteq 1..written
    BY <1>6, <1>7
  <2> HIDE DEF D, after
  <2>6. RunsOn(after)
    <3>1. RunsOn(D \cup after)
      BY <2>2 DEF Follows
    <3> QED
      BY <1>2, <2>4, <3>1, RunsOnWithoutOld
  <2>7. Range(live[c]) \cup missed'[c] \subseteq 1..written
    BY <2>1, <2>5 DEF Follows
  <2>8. \A n \in Range(live[c]) \cup missed'[c], k \in after : n < k
    <3>1. \A n \in Range(live[c]) \cup missed[c], k \in after : n < k
      BY <2>2 DEF Follows
    <3> QED
      BY <2>1, <2>4, <3>1
  <2>9. ASSUME missed'[c] = {} PROVE RunsOn(Range(live[c]) \cup after)
    <3>1. missed[c] = {} /\ D = {}
      BY <2>1, <2>9
    <3>2. Ahead(c) = after
      BY <2>2, <3>1
    <3> QED
      BY <3>1, <3>2 DEF Follows
  <2> QED
    BY <1>6, <2>1, <2>3, <2>6, <2>7, <2>8, <2>9 DEF Follows
<1> QED
  BY <1>10, <1>11, <1>12, <1>13

\* A subscriber takes the oldest frame it has ahead and sends its line on.
LEMMA DeliverStream == ASSUME StreamInv, NEW c \in Client, Deliver(c) PROVE StreamInv'
<1> USE DEF StreamInv
<1> DEFINE h == Head(queue[c])
           log == h.type = "log"
           end == h.type = "end"
<1>1. /\ reader[c] = "follow" /\ queue[c] # <<>>
      /\ live' = [live EXCEPT ![c] = IF log THEN Append(@, h.line) ELSE @]
      /\ reader' = [reader EXCEPT ![c] = IF end THEN "ended" ELSE @]
      /\ queue' = [queue EXCEPT ![c] = IF end THEN <<>> ELSE Tail(@)]
      /\ UNCHANGED <<written, status, pending, job, backlog, missed, drops>>
  BY DEF Deliver, producer
<1>2. /\ queue[c] \in Seq(Message) /\ Len(queue[c]) <= QueueSize /\ written \in Nat
      /\ written <= MaxLines /\ live[c] \in Seq(1..MaxLines)
  BY DEF TypeOK
<1>3. /\ h \in Message /\ Tail(queue[c]) \in Seq(Message)
      /\ Len(Tail(queue[c])) <= QueueSize
      /\ LinesIn(queue[c]) = LineOf(h) \cup LinesIn(Tail(queue[c]))
      /\ InOrder(Tail(queue[c]))
      /\ \A n \in LineOf(h), k \in LinesIn(Tail(queue[c])) : n < k
  <2> DEFINE q == queue[c]
  <2>1. q \in Seq(Message) /\ q # <<>> /\ InOrder(q) /\ Len(q) <= QueueSize /\ Len(q) \in Nat
    <3>1. InOrder(queue[c])
      BY <1>1 DEF Follows
    <3>2. Len(queue[c]) \in Nat
      BY <1>2, LinesAreNumbers
    <3> QED
      BY <1>1, <1>2, <3>1, <3>2
  <2> HIDE DEF q
  <2>2. /\ Head(q) \in Message /\ Tail(q) \in Seq(Message) /\ Len(Tail(q)) = Len(q) - 1
        /\ LinesIn(q) = LineOf(Head(q)) \cup LinesIn(Tail(q)) /\ InOrder(Tail(q))
        /\ \A n \in LineOf(Head(q)), k \in LinesIn(Tail(q)) : n < k
    BY <2>1, TakeFrame
  <2>3. Len(Tail(q)) <= QueueSize
    BY <2>1, <2>2
  <2> QED
    BY <2>2, <2>3 DEF q
<1>4. LineOf(h) \subseteq 1..written
  BY <1>1, <1>3 DEF Follows, Ahead, RunsOn
<1> HIDE DEF h
<1>5. \A d \in Client : d # c =>
         queue'[d] = queue[d] /\ live'[d] = live[d] /\ reader'[d] = reader[d]
  BY <1>1 DEF TypeOK, Tables
<1>6. /\ queue'[c] = IF end THEN <<>> ELSE Tail(queue[c])
      /\ reader'[c] = IF end THEN "ended" ELSE "follow"
      /\ live'[c] = IF log THEN Append(live[c], h.line) ELSE live[c]
  BY <1>1 DEF TypeOK, Tables
<1>7. /\ live'[c] \in Seq(1..MaxLines)
      /\ Range(live'[c]) = Range(live[c]) \cup LineOf(h)
      /\ \A i, k \in DOMAIN live'[c] : i < k => live'[c][i] < live'[c][k]
  <2>1. /\ \A i, k \in DOMAIN live[c] : i < k => live[c][i] < live[c][k]
        /\ \A n \in Range(live[c]), k \in LineOf(h) : n < k
    BY <1>1, <1>3 DEF Follows, Ahead
  <2>2. CASE log
    <3> DEFINE s == live[c]
               n == h.line
    <3>1. /\ LineOf(h) = {n} /\ n \in 1..MaxLines /\ live'[c] = Append(s, n)
          /\ s \in Seq(1..MaxLines)
      BY <1>2, <1>4, <1>6, <2>2 DEF LineOf
    <3>2. /\ \A i, k \in DOMAIN s : i < k => s[i] < s[k]
          /\ \A l \in Range(s) : l < n
      BY <2>1, <3>1
    <3> HIDE DEF s, n
    <3>3. /\ Append(s, n) \in Seq(1..MaxLines)
          /\ Range(Append(s, n)) = Range(s) \cup {n}
          /\ \A i, k \in DOMAIN Append(s, n) :
                i < k => Append(s, n)[i] < Append(s, n)[k]
      BY <3>1, <3>2, SendLine
    <3> QED
      BY <3>1, <3>3 DEF s
  <2>3. CASE ~log
    <3>1. LineOf(h) = {} /\ live'[c] = live[c]
      BY <1>6, <2>3 DEF LineOf
    <3> QED
      BY <1>2, <2>1, <3>1
  <2> QED
    BY <2>2, <2>3
<1>8. TypeOK' /\ Tables'
  <2>1. /\ queue'[c] \in Seq(Message) /\ Len(queue'[c]) <= QueueSize
        /\ reader'[c] \in ReaderAt
    BY <1>3, <1>6 DEF ReaderAt
  <2>2. /\ reader' \in [Client -> ReaderAt]
        /\ queue' \in [Client -> Seq(Message)]
        /\ live' \in [Client -> Seq(1..MaxLines)]
    <3>1. /\ DOMAIN reader' = Client /\ DOMAIN queue' = Client /\ DOMAIN live' = Client
          /\ reader' = [d \in Client |-> reader'[d]]
          /\ queue' = [d \in Client |-> queue'[d]]
          /\ live' = [d \in Client |-> live'[d]]
      BY <1>1 DEF TypeOK, Tables
    <3>2. \A d \in Client : /\ reader'[d] \in ReaderAt /\ queue'[d] \in Seq(Message)
                            /\ live'[d] \in Seq(1..MaxLines)
      BY <1>5, <1>7, <2>1 DEF TypeOK
    <3> QED
      BY <3>1, <3>2
  <2>3. \A d \in Client : /\ queue'[d] \in Seq(Message) /\ Len(queue'[d]) <= QueueSize
                          /\ live'[d] \in Seq(1..MaxLines)
    BY <1>5, <1>7, <2>1 DEF TypeOK
  <2> QED
    BY <1>1, <2>2, <2>3 DEF TypeOK, Tables
<1>9. Waiting'
  BY <1>1, <1>5, <1>6 DEF Waiting
<1>10. Tasks'
  BY <1>1 DEF Tasks, RunsOn
<1>11. Follows'
  <2> SUFFICES ASSUME NEW d \in Client, reader'[d] = "follow"
               PROVE  /\ InOrder(queue'[d])
                      /\ \A n \in LinesIn(queue'[d]), k \in LinesIn(pending) : n < k
                      /\ RunsOn(LinesIn(queue'[d]) \cup LinesIn(pending))
                      /\ Range(live'[d]) \cup missed[d] \subseteq 1..written
                      /\ \A i, k \in DOMAIN live'[d] : i < k => live'[d][i] < live'[d][k]
                      /\ \A n \in Range(live'[d]) \cup missed[d],
                             k \in LinesIn(queue'[d]) \cup LinesIn(pending) : n < k
                      /\ missed[d] = {} =>
                           RunsOn(Range(live'[d]) \cup (LinesIn(queue'[d]) \cup LinesIn(pending)))
    BY <1>1 DEF Follows, Ahead, RunsOn
  <2>1. CASE d # c
    BY <1>5, <2>1 DEF Follows, Ahead
  <2>2. CASE d = c
    <3> DEFINE after == LinesIn(queue'[c]) \cup LinesIn(pending)
               L == LineOf(h)
    <3>1. queue'[c] = Tail(queue[c])
      BY <1>6, <2>2
    <3>2. Ahead(c) = L \cup after
      BY <1>3, <3>1 DEF Ahead
    <3>3. \A n \in LinesIn(queue'[c]), k \in LinesIn(pending) : n < k
      BY <1>1, <1>3, <3>1 DEF Follows
    <3>4. \A n \in L, k \in after : n < k
      BY <1>1, <1>3, <3>1 DEF Follows
    <3> HIDE DEF L, after
    <3>5. RunsOn(after)
      <4>1. RunsOn(L \cup after)
        BY <1>1, <3>2 DEF Follows
      <4> QED
        BY <1>2, <3>4, <4>1, RunsOnWithoutOld
    <3>6. Range(live'[c]) = Range(live[c]) \cup L
      BY <1>7 DEF L
    <3>7. Range(live'[c]) \cup missed[c] \subseteq 1..written
      BY <1>1, <1>4, <3>6 DEF Follows, L
    <3>8. \A n \in Range(live'[c]) \cup missed[c], k \in after : n < k
      <4>1. \A n \in Range(live[c]) \cup missed[c], k \in after : n < k
        BY <1>1, <3>2 DEF Follows
      <4> QED
        BY <3>4, <3>6, <4>1
    <3>9. ASSUME missed[c] = {} PROVE RunsOn(Range(live'[c]) \cup after)
      <4>1. Range(live'[c]) \cup after = Range(live[c]) \cup Ahead(c)
        BY <3>2, <3>6
      <4> QED
        BY <1>1, <3>9, <4>1 DEF Follows
    <3>10. InOrder(queue'[c])
      BY <1>3, <3>1
    <3> QED
      BY <1>7, <2>2, <3>3, <3>5, <3>7, <3>8, <3>9, <3>10 DEF after
  <2> QED
    BY <2>1, <2>2
<1> QED
  BY <1>8, <1>9, <1>10, <1>11

\* Opening, replaying and losing a stream leave no frame behind.
LEMMA RequestStream ==
    ASSUME StreamInv, NEW c \in Client, Open(c) \/ Replay(c) \/ Subscribe(c) \/ Disconnect(c)
    PROVE  StreamInv'
<1> USE DEF StreamInv
<1>1. UNCHANGED <<written, status, pending>>
  BY DEF Open, Replay, Subscribe, Disconnect, producer
<1>2. TypeOK' /\ Tables'
  <2>1. <<>> \in Seq(Message) /\ Len(<<>>) <= QueueSize /\ <<>> \in Seq(1..MaxLines)
    BY <1>1
  <2>2. CASE Open(c)
    <3>1. /\ reader' \in [Client -> ReaderAt] /\ job' \in [Client -> {"running", "terminal"}]
          /\ backlog' \in [Client -> 0..MaxLines]
      BY <1>1, <2>2 DEF Open, TypeOK, ReaderAt
    <3>2. /\ live' \in [Client -> Seq(1..MaxLines)]
          /\ missed' \in [Client -> SUBSET (1..MaxLines)]
      BY <2>1, <2>2 DEF Open, Tables
    <3> QED
      BY <1>1, <2>2, <3>1, <3>2 DEF Open, TypeOK, Tables
  <2>3. CASE Replay(c)
    BY <1>1, <2>3 DEF Replay, TypeOK, Tables, ReaderAt
  <2>4. CASE Subscribe(c)
    BY <1>1, <2>4 DEF Subscribe, TypeOK, Tables, ReaderAt
  <2>5. CASE Disconnect(c)
    <3>1. reader' \in [Client -> ReaderAt] /\ drops' \in 0..MaxDrops
      BY <2>5 DEF Disconnect, TypeOK, ReaderAt
    <3>2. queue' \in [Client -> Seq(Message)]
      BY <2>1, <2>5 DEF Disconnect, Tables
    <3>3. \A d \in Client : Len(queue'[d]) <= QueueSize
      BY <2>1, <2>5 DEF Disconnect, TypeOK, Tables
    <3> QED
      BY <1>1, <2>5, <3>1, <3>2, <3>3 DEF Disconnect, TypeOK, Tables
  <2> QED
    BY <2>2, <2>3, <2>4, <2>5
<1>3. Waiting'
  BY DEF Open, Replay, Subscribe, Disconnect, Waiting, TypeOK, Tables
<1>4. Tasks'
  BY <1>1 DEF Tasks, RunsOn
<1>5. Follows'
  <2>1. CASE Subscribe(c)
    <3>1. /\ queue' = queue /\ live' = live /\ missed' = missed
          /\ reader[c] = "tail"
          /\ \A d \in Client : d # c => reader'[d] = reader[d]
      BY <2>1 DEF Subscribe, TypeOK
    <3>2. queue[c] = <<>> /\ live[c] = <<>> /\ missed[c] = {}
      BY <3>1 DEF Waiting
    <3>3. LinesIn(<<>>) = {} /\ InOrder(<<>>) /\ Range(<<>>) = {} /\ DOMAIN <<>> = {}
      BY DEF LinesIn, InOrder, Range
    <3>4. Ahead(c) = LinesIn(pending)
      BY <3>2, <3>3 DEF Ahead
    <3> QED
      BY <1>1, <3>1, <3>2, <3>3, <3>4 DEF Tasks, Follows, Ahead, RunsOn
  <2>2. CASE Open(c) \/ Replay(c) \/ Disconnect(c)
    <3>1. /\ reader'[c] # "follow"
          /\ \A d \in Client : d # c =>
                /\ reader'[d] = reader[d] /\ queue'[d] = queue[d]
                /\ live'[d] = live[d] /\ missed'[d] = missed[d]
      BY <2>2 DEF Open, Replay, Disconnect, TypeOK, Tables
    <3> QED
      BY <1>1, <3>1 DEF Follows, Ahead, RunsOn
  <2> QED
    BY <2>1, <2>2
<1> QED
  BY <1>2, <1>3, <1>4, <1>5

\* Every step keeps the stream whole.
LEMMA NextStream == StreamInv /\ [Next]_vars => StreamInv'
<1> SUFFICES ASSUME StreamInv, [Next]_vars PROVE StreamInv'
  OBVIOUS
<1>1. CASE AppendLine
  BY <1>1, AppendLineStream
<1>2. CASE ReportProgress
  <2>1. Progress \in Message /\ Progress.type # "log"
    BY DEF Progress, Message
  <2> QED
    BY <1>2, <2>1, QuietTask DEF ReportProgress, producer, StreamInv, TypeOK
<1>3. CASE Finish
  <2>1. End \in Message /\ End.type # "log"
    BY DEF End, Message
  <2> QED
    BY <1>3, <2>1, QuietTask DEF Finish
<1>4. CASE Publish
  BY <1>4, PublishStream
<1>5. ASSUME NEW c \in Client, Open(c) \/ Serve(c) \/ Disconnect(c) PROVE StreamInv'
  BY <1>5, DeliverStream, RequestStream DEF Serve
<1>6. CASE UNCHANGED vars
  BY <1>6 DEF vars, producer, requests, StreamInv, TypeOK, Tables, Waiting, Tasks, Follows,
              Ahead, RunsOn
<1> QED
  BY <1>1, <1>2, <1>3, <1>4, <1>5, <1>6 DEF Next

-----------------------------------------------------------------------------
\* What was sent to a tab, as frames.
LEMMA SentFrames ==
    ASSUME NEW c \in Client, live[c] \in Seq(1..MaxLines)
    PROVE  /\ Sent(c) \in Seq(Message) /\ LinesIn(Sent(c)) = Range(live[c])
           /\ (\A i, k \in DOMAIN live[c] : i < k => live[c][i] < live[c][k])
                => InOrder(Sent(c))
<1> DEFINE s == live[c]
           f == Sent(c)
<1>1. /\ DOMAIN s = 1..Len(s) /\ Len(s) \in Nat
      /\ \A i \in 1..Len(s) : s[i] \in 1..MaxLines
  OBVIOUS
<1>2. f = [i \in DOMAIN s |-> Log(s[i])]
  BY DEF Sent
<1> HIDE DEF f, s
<1>3. DOMAIN f = DOMAIN s
  BY <1>2
<1>4. \A i \in DOMAIN s : f[i].type = "log" /\ f[i].line = s[i] /\ f[i] \in Message
  BY <1>1, <1>2 DEF Log, Message
<1>5. f \in Seq(Message)
  <2>1. f = [i \in 1..Len(s) |-> Log(s[i])]
    BY <1>1, <1>2
  <2>2. \A i \in 1..Len(s) : Log(s[i]) \in Message
    BY <1>1, <1>2, <1>4
  <2> QED
    BY <1>1, <2>1, <2>2
<1>6. LinesIn(f) = Range(s)
  <2>1. LinesIn(f) = {f[i].line : i \in DOMAIN s}
    BY <1>3, <1>4 DEF LinesIn
  <2>2. Range(s) = {s[i] : i \in DOMAIN s}
    BY DEF Range
  <2> QED
    BY <1>4, <2>1, <2>2
<1>7. (\A i, k \in DOMAIN s : i < k => s[i] < s[k]) => InOrder(f)
  BY <1>3, <1>4 DEF InOrder
<1> QED
  BY <1>5, <1>6, <1>7 DEF f, s

\* The inductive invariant, for any number of tabs, lines and lost connections
\* and queues of any size.
THEOREM StreamStands == Spec => []StreamInv
<1>1. Init => StreamInv
  BY InitStream
<1>2. StreamInv /\ [Next]_vars => StreamInv'
  BY NextStream
<1> QED
  BY <1>1, <1>2, PTL DEF Spec

\* TypeOK: no queue grows beyond its size, however slow its tab is.
THEOREM QueuesBounded == Spec => []TypeOK
BY StreamStands, PTL DEF StreamInv

\* FollowsWithoutGap: between the file and a tab whose queue never filled up no
\* line is lost, repeated or reordered.
THEOREM NoGap == Spec => []FollowsWithoutGap
<1>1. StreamInv => FollowsWithoutGap
  <2> SUFFICES ASSUME StreamInv, NEW c \in Client, reader[c] = "follow", missed[c] = {}
               PROVE  InOrder(Course(c)) /\ RunsOn(LinesIn(Course(c)))
    BY DEF FollowsWithoutGap
  <2> USE DEF StreamInv
  <2>1. /\ live[c] \in Seq(1..MaxLines) /\ queue[c] \in Seq(Message)
        /\ pending \in Seq(Message)
    BY DEF TypeOK
  <2>2. /\ Sent(c) \in Seq(Message) /\ LinesIn(Sent(c)) = Range(live[c])
        /\ InOrder(Sent(c))
    BY <2>1, SentFrames DEF Follows
  <2> DEFINE sent == Sent(c)
             q == queue[c]
             both == sent \o q
  <2>3. /\ \A n \in LinesIn(sent), k \in LinesIn(q) : n < k
        /\ \A n \in LinesIn(sent) \cup LinesIn(q), k \in LinesIn(pending) : n < k
    BY <2>2 DEF Follows, Ahead
  <2>4. InOrder(q) /\ InOrder(pending)
    BY DEF Follows, Tasks
  <2>5. RunsOn(LinesIn(sent) \cup LinesIn(q) \cup LinesIn(pending))
    <3>1. LinesIn(sent) \cup LinesIn(q) \cup LinesIn(pending) = Range(live[c]) \cup Ahead(c)
      BY <2>2 DEF Ahead
    <3> QED
      BY <3>1 DEF Follows
  <2>6. Course(c) = both \o pending
    BY DEF Course
  <2> HIDE DEF sent, q
  <2>7. /\ both \in Seq(Message) /\ LinesIn(both) = LinesIn(sent) \cup LinesIn(q)
        /\ InOrder(both)
    BY <2>1, <2>2, <2>3, <2>4, JoinFrames DEF sent, q
  <2> HIDE DEF both
  <2>8. /\ LinesIn(both \o pending) = LinesIn(both) \cup LinesIn(pending)
        /\ InOrder(both \o pending)
    BY <2>1, <2>3, <2>4, <2>7, JoinFrames
  <2> QED
    BY <2>5, <2>6, <2>7, <2>8
<1> QED
  BY <1>1, StreamStands, PTL

\* LostAreOldest: what a slow tab missed is older than all it has still to get.
THEOREM HistoryGoesFirst == Spec => []LostAreOldest
<1>1. StreamInv => LostAreOldest
  <2> SUFFICES ASSUME StreamInv, NEW c \in Client, reader[c] = "follow",
                      NEW n \in missed[c], NEW m \in LinesIn(queue[c] \o pending)
               PROVE  n < m
    BY DEF LostAreOldest
  <2>1. queue[c] \in Seq(Message) /\ pending \in Seq(Message)
    BY DEF StreamInv, TypeOK
  <2>2. m \in Ahead(c)
    BY <2>1, JoinFrames DEF Ahead
  <2> QED
    BY <2>2 DEF StreamInv, Follows
<1> QED
  BY <1>1, StreamStands, PTL
=============================================================================
