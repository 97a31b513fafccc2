---------------------------- MODULE JobLogProofs ----------------------------
(***************************************************************************)
(* Why a restart costs no output: while the follower keeps up, whatever it *)
(* has not read yet is younger than the overlap the cursor goes back by.   *)
(* And why what docker hands over, cut up by its pipes, is whole (LogPump).*)
(***************************************************************************)
EXTENDS JobLog, LogPump, TLAPS, FiniteSetTheorems, WellFoundedInduction, SequenceTheorems

\* The overlap covers the follower's lag, and no restart hits a replay.
CalmRestarts == MaxLag <= Overlap /\ ~MidReplay

\* What the follower has still to read, by the phase the dashboard is in.
NothingSkipped ==
    /\ mtime <= clock
    /\ phase = "follow" => ingested \cup unread = 1..printed
    /\ phase = "follow" /\ caught => \A i \in unread : clock <= at[i] + MaxLag
    /\ phase = "down" => \A i \in 1..printed : i \in ingested \/ SinceCursor(i)
    /\ phase = "done" => ~running /\ ingested = 1..printed

IInv == TypeOK /\ NothingSkipped

-----------------------------------------------------------------------------
\* _dedupe_series keeps a series a series of entries.
LEMMA EnterType ==
    ASSUME NEW s \in Seq(Metrics), NEW i
    PROVE  Enter(s, i) \in Seq(Metrics)
BY DEF Enter

\* The job starts with nothing printed and nothing read.
LEMMA InitTypeOK == Init => TypeOK
BY JobLogAssumption DEF JobLogAssumption, Init, TypeOK, Line, Time

\* Every step keeps the types.
LEMMA NextTypeOK == TypeOK /\ [Next]_vars => TypeOK'
<1> SUFFICES ASSUME TypeOK, [Next]_vars PROVE TypeOK'
  OBVIOUS
<1> USE JobLogAssumption DEF JobLogAssumption, TypeOK, Line, Time
<1>1. CASE Prints
  BY <1>1 DEF Prints, file
<1>2. CASE Exits
  BY <1>2 DEF Exits, file, follower
<1>3. CASE Tick
  BY <1>3 DEF Tick, container, file, follower
<1>4. ASSUME NEW i \in Line, Ingest(i) PROVE TypeOK'
  <2>1. series' \in Seq(Metrics)
    BY <1>4, EnterType DEF Ingest
  <2>2. saved' \in Seq(Metrics) /\ published' \subseteq Time
    BY <1>4, <2>1 DEF Ingest
  <2> QED
    BY <1>4, <2>1, <2>2 DEF Ingest, container
<1>5. CASE CancelRequested
  BY <1>5 DEF CancelRequested, container, follower
<1>6. CASE Ends
  BY <1>6 DEF Ends, container, file, follower
<1>7. CASE GoesDown
  BY <1>7 DEF GoesDown, container, file, follower
<1>8. CASE Reattach
  BY <1>8 DEF Reattach, container
<1>9. CASE UNCHANGED vars
  BY <1>9 DEF vars, container, file, follower
<1> QED
  BY <1>1, <1>2, <1>3, <1>4, <1>5, <1>6, <1>7, <1>8, <1>9 DEF Next

\* Every step keeps the unread output within reach of the cursor.
LEMMA NextNothingSkipped ==
    ASSUME CalmRestarts
    PROVE  IInv /\ TypeOK' /\ [Next]_vars => NothingSkipped'
<1> SUFFICES ASSUME IInv, TypeOK', [Next]_vars PROVE NothingSkipped'
  OBVIOUS
<1> USE JobLogAssumption, CalmRestarts
    DEF JobLogAssumption, CalmRestarts, IInv, TypeOK, NothingSkipped,
        SinceCursor, Line, Time
<1>1. CASE Prints
  BY <1>1 DEF Prints, file
<1>2. CASE Exits
  BY <1>2 DEF Exits, file, follower
<1>3. CASE Tick
  BY <1>3 DEF Tick, container, file, follower
<1>4. ASSUME NEW i \in Line, Ingest(i) PROVE NothingSkipped'
  <2>1. /\ phase = "follow" /\ phase' = "follow" /\ i \in unread
        /\ mtime' = clock /\ clock' = clock /\ at' = at /\ printed' = printed
        /\ unread' = unread \ {i} /\ ingested' = ingested \cup {i}
    BY <1>4 DEF Ingest, container
  <2>2. caught' => caught \/ unread' = {}
    BY <1>4 DEF Ingest
  <2>3. ingested' \cup unread' = 1..printed'
    BY <2>1
  <2>4. ASSUME caught', NEW k \in unread' PROVE clock' <= at'[k] + MaxLag
    BY <2>1, <2>2, <2>4
  <2> QED
    BY <2>1, <2>3, <2>4
<1>5. CASE CancelRequested
  BY <1>5 DEF CancelRequested, container, follower
<1>6. CASE Ends
  BY <1>6 DEF Ends, container, file, follower
<1>7. CASE GoesDown
  <2>1. /\ phase = "follow" /\ phase' = "down" /\ clock' = clock /\ mtime' = mtime
        /\ at' = at /\ printed' = printed /\ ingested' = ingested
    BY <1>7 DEF GoesDown, container, file
  <2>2. caught
    BY <1>7 DEF GoesDown
  <2>3. ASSUME NEW k \in 1..printed, k \notin ingested
        PROVE  at[k] + Overlap >= mtime
    <3>1. k \in unread
      BY <2>1, <2>3
    <3>2. at[k] \in Nat
      <4>1. k \in 1..MaxLines
        BY <2>3
      <4> QED
        BY <4>1
    <3>3. clock <= at[k] + MaxLag
      BY <2>1, <2>2, <3>1
    <3> QED
      BY <3>2, <3>3
  <2> QED
    BY <2>1, <2>3
<1>8. CASE Reattach
  <2>1. /\ phase = "down" /\ phase' = "follow" /\ ~caught'
        /\ unread' = {k \in 1..printed : at[k] + Overlap >= mtime}
        /\ printed' = printed /\ ingested' = ingested /\ clock' = clock
        /\ mtime' \in {clock, mtime}
    BY <1>8 DEF Reattach, container
  <2>2. ingested' \cup unread' = 1..printed'
    BY <2>1
  <2> QED
    BY <2>1, <2>2
<1>9. CASE UNCHANGED vars
  BY <1>9 DEF vars, container, file, follower
<1> QED
  BY <1>1, <1>2, <1>3, <1>4, <1>5, <1>6, <1>7, <1>8, <1>9 DEF Next

-----------------------------------------------------------------------------
\* TypeOK holds of every instance: the follower reads only what was printed.
THEOREM TypeCorrect == Spec => []TypeOK
<1>1. Init => TypeOK
  BY InitTypeOK
<1>2. TypeOK /\ [Next]_vars => TypeOK'
  BY NextTypeOK
<1> QED
  BY <1>1, <1>2, PTL DEF Spec

\* NoLineLost holds for every overlap, lag and number of restarts, as long as
\* the overlap covers the lag and no restart interrupts a replay.
THEOREM NothingLost == ASSUME CalmRestarts PROVE Spec => []NoLineLost
<1>1. Init => IInv
  BY InitTypeOK DEF IInv, Init, NothingSkipped
<1>2. IInv /\ [Next]_vars => IInv'
  BY NextTypeOK, NextNothingSkipped DEF IInv
<1>3. IInv => NoLineLost
  BY DEF IInv, NothingSkipped, NoLineLost
<1> QED
  BY <1>1, <1>2, <1>3, PTL DEF Spec

-----------------------------------------------------------------------------
(* The order of a series through replays.  What a restart can cost is a    *)
(* line that was passed over while newer ones were stored; it must never   *)
(* be handed out again, or its entry would land behind theirs.             *)

\* The follower's own series is in the order of the run.
Ordered == \A i, k \in DOMAIN series : i < k => series[i] < series[k]

\* What the row holds is the beginning of what the follower holds.
Stored ==
    /\ Len(saved) <= Len(series)
    /\ \A j \in DOMAIN saved : saved[j] = series[j]

\* Nothing is entered before it is printed, nor written in the future.
Within ==
    /\ mtime <= clock
    /\ \A j \in DOMAIN series : series[j] <= printed

\* An entry the follower has not got is before it, or behind every cursor to
\* come.
Covered ==
    phase = "follow" =>
        \A m \in Metrics \cap (1..printed) :
            m \in Range(series) \/ m \in unread \/ ~SinceCursor(m)

\* An entry older than one the follower has, and which it lacks, is never read
\* again.
PassedOver ==
    \A m \in Metrics \ Range(series) : \A j \in DOMAIN series :
        m < series[j] => ~SinceCursor(m) /\ (phase = "follow" => m \notin unread)

ReplayInv == TypeOK /\ Ordered /\ Stored /\ Within /\ Covered /\ PassedOver

-----------------------------------------------------------------------------
\* An entry is in a series, or behind its end, or not entered at all.
LEMMA EnterCases ==
    ASSUME NEW s \in Seq(Metrics), NEW i
    PROVE  \/ Enter(s, i) = s /\ (i \in Metrics => i \in Range(s))
           \/ /\ i \in Metrics /\ i \notin Range(s)
              /\ Enter(s, i) = Append(s, i)
              /\ Len(Enter(s, i)) = Len(s) + 1
              /\ DOMAIN Enter(s, i) = 1..(Len(s) + 1)
              /\ \A j \in DOMAIN s : Enter(s, i)[j] = s[j]
              /\ Enter(s, i)[Len(s) + 1] = i
              /\ Range(Enter(s, i)) = Range(s) \cup {i}
<1>1. CASE i \in Metrics /\ i \notin Range(s)
  <2> DEFINE t == Append(s, i)
  <2>1. Enter(s, i) = t
    BY <1>1 DEF Enter
  <2>2. /\ t \in Seq(Metrics) /\ Len(t) = Len(s) + 1
        /\ DOMAIN s = 1..Len(s) /\ DOMAIN t = 1..(Len(s) + 1)
        /\ \A j \in DOMAIN s : t[j] = s[j]
        /\ t[Len(s) + 1] = i
        /\ Len(s) \in Nat
    BY <1>1
  <2> HIDE DEF t
  <2>3. 1..(Len(s) + 1) = (1..Len(s)) \cup {Len(s) + 1}
    BY <2>2
  <2>4. Range(t) = {t[j] : j \in DOMAIN t} /\ Range(s) = {s[j] : j \in DOMAIN s}
    BY DEF Range
  <2>5. Range(t) = Range(s) \cup {i}
    BY <2>2, <2>3, <2>4
  <2> QED
    BY <1>1, <2>1, <2>2, <2>5
<1>2. CASE ~(i \in Metrics /\ i \notin Range(s))
  BY <1>2 DEF Enter
<1> QED
  BY <1>1, <1>2

\* A series holds lines, which are numbers.
LEMMA SeriesOfLines ==
    ASSUME NEW s \in Seq(Metrics)
    PROVE  \A j \in DOMAIN s : s[j] \in Metrics /\ s[j] \in Line
<1>1. \A j \in 1..Len(s) : s[j] \in Metrics
  OBVIOUS
<1>2. DOMAIN s = 1..Len(s)
  OBVIOUS
<1> QED
  BY <1>1, <1>2, JobLogAssumption DEF JobLogAssumption

\* A row that begins an ordered series is ordered, and lacks what is older than
\* its last entry only where the series does.
LEMMA BeginningIsSound ==
    ASSUME NEW s \in Seq(Metrics), NEW t \in Seq(Metrics),
           Len(t) <= Len(s), \A j \in DOMAIN t : t[j] = s[j],
           \A i, k \in DOMAIN s : i < k => s[i] < s[k]
    PROVE  /\ \A i, k \in DOMAIN t : i < k => t[i] < t[k]
           /\ \A m \in Metrics \ Range(t) : \A j \in DOMAIN t :
                  m < t[j] => m \notin Range(s)
<1>1. /\ DOMAIN s = 1..Len(s) /\ DOMAIN t = 1..Len(t)
      /\ Len(s) \in Nat /\ Len(t) \in Nat
  OBVIOUS
<1>2. DOMAIN t \subseteq DOMAIN s
  BY <1>1
<1>3. \A i \in DOMAIN s : s[i] \in Nat
  BY SeriesOfLines DEF Line
<1>4. ASSUME NEW m \in Metrics \ Range(t), NEW j \in DOMAIN t, m < t[j],
             m \in Range(s)
      PROVE  FALSE
  <2>1. PICK p \in DOMAIN s : s[p] = m
    BY <1>4 DEF Range
  <2>2. p < j
    BY <1>1, <1>2, <1>3, <1>4, <2>1
  <2>3. p \in DOMAIN t
    BY <1>1, <2>1, <2>2
  <2>4. m = t[p]
    BY <2>1, <2>3
  <2> QED
    BY <1>4, <2>3, <2>4 DEF Range
<1> QED
  BY <1>2, <1>4

\* A line behind the cursor stays behind it: the file is only ever written later.
LEMMA CursorOnlyMovesOn ==
    ASSUME TypeOK, TypeOK', mtime <= mtime', NEW m \in Line, at'[m] = at[m],
           SinceCursor(m)'
    PROVE  SinceCursor(m)
<1>1. at[m] \in Nat /\ mtime \in Nat /\ mtime' \in Nat
  BY DEF TypeOK, Time
<1>2. at'[m] + Overlap >= mtime'
  BY DEF SinceCursor
<1> QED
  BY <1>1, <1>2, JobLogAssumption DEF JobLogAssumption, SinceCursor

\* The beginning: nothing is entered.
LEMMA InitReplay == Init => ReplayInv
<1> SUFFICES ASSUME Init PROVE ReplayInv
  OBVIOUS
<1>1. TypeOK
  BY InitTypeOK
<1>2. /\ series = <<>> /\ saved = <<>> /\ DOMAIN series = {} /\ DOMAIN saved = {}
      /\ printed = 0 /\ mtime = 0 /\ clock = 0
  BY DEF Init
<1>3. 1..printed = {}
  BY <1>2
<1> QED
  BY <1>1, <1>2, <1>3
     DEF ReplayInv, Ordered, Stored, Within, Covered, PassedOver

\* Reading one line: it is the oldest unread, so if it is entered at all it is
\* newer than every entry there is.
LEMMA IngestReplay ==
    ASSUME ReplayInv, TypeOK', NEW i \in Line, Ingest(i)
    PROVE  ReplayInv'
<1> USE DEF ReplayInv
<1>1. /\ phase = "follow" /\ phase' = "follow" /\ i \in unread
      /\ \A k \in unread : i <= k
      /\ unread' = unread \ {i} /\ mtime' = clock /\ clock' = clock
      /\ at' = at /\ printed' = printed
      /\ series' = Enter(series, i)
      /\ saved' \in {series', saved}
  BY DEF Ingest, container
<1>2. /\ series \in Seq(Metrics) /\ series' \in Seq(Metrics)
      /\ saved \in Seq(Metrics) /\ saved' \in Seq(Metrics)
      /\ printed \in Nat /\ unread \subseteq 1..printed
      /\ mtime \in Nat /\ clock \in Nat
  BY JobLogAssumption DEF TypeOK, JobLogAssumption, Time
<1>3. mtime <= mtime' /\ mtime' <= clock'
  BY <1>1, <1>2 DEF Within
<1>4. Metrics \subseteq Line /\ Line \subseteq Nat
  BY JobLogAssumption DEF JobLogAssumption, Line
<1>5. \A m \in Metrics : SinceCursor(m)' => SinceCursor(m)
  BY <1>1, <1>3, <1>4, CursorOnlyMovesOn
<1>6. /\ DOMAIN series = 1..Len(series) /\ Len(series) \in Nat
      /\ \A j \in DOMAIN series : series[j] \in Nat
  <2>1. DOMAIN series = 1..Len(series) /\ Len(series) \in Nat
    BY <1>2
  <2> QED
    BY <1>2, <1>4, <2>1, SeriesOfLines
<1>7. CASE series' = series /\ (i \in Metrics => i \in Range(series))
  <2>1. Ordered' /\ Stored' /\ Within'
    BY <1>1, <1>3, <1>7 DEF Ordered, Stored, Within
  <2>2. Covered'
    BY <1>1, <1>5, <1>7 DEF Covered
  <2>3. PassedOver'
    BY <1>1, <1>5, <1>7 DEF PassedOver
  <2> QED
    BY <2>1, <2>2, <2>3
<1>8. CASE /\ i \in Metrics /\ i \notin Range(series)
           /\ Len(series') = Len(series) + 1
           /\ DOMAIN series' = 1..(Len(series) + 1)
           /\ \A j \in DOMAIN series : series'[j] = series[j]
           /\ series'[Len(series) + 1] = i
           /\ Range(series') = Range(series) \cup {i}
  <2>1. \A j \in DOMAIN series : series[j] < i
    <3> SUFFICES ASSUME NEW j \in DOMAIN series, ~(series[j] < i) PROVE FALSE
      OBVIOUS
    <3>1. series[j] # i
      BY <1>8 DEF Range
    <3>2. i < series[j]
      BY <1>4, <1>6, <3>1
    <3> QED
      BY <1>1, <1>8, <3>2 DEF PassedOver
  <2>2. \A j \in DOMAIN series' : j \in DOMAIN series \/ j = Len(series) + 1
    BY <1>6, <1>8
  <2>3. Ordered'
    <3> SUFFICES ASSUME NEW a \in DOMAIN series', NEW b \in DOMAIN series', a < b
                 PROVE  series'[a] < series'[b]
      BY DEF Ordered
    <3>1. a \in DOMAIN series
      BY <1>6, <1>8
    <3> QED
      BY <1>8, <2>1, <2>2, <3>1 DEF Ordered
  <2>4. Stored'
    <3>1. CASE saved' = series'
      BY <1>6, <1>8, <3>1 DEF Stored
    <3>2. CASE saved' = saved
      <4>1. DOMAIN saved \subseteq DOMAIN series
        <5>1. DOMAIN saved = 1..Len(saved) /\ Len(saved) \in Nat
          BY <1>2
        <5> QED
          BY <1>6, <5>1 DEF Stored
      <4>2. Len(saved) \in Nat
        BY <1>2
      <4> QED
        BY <1>6, <1>8, <3>2, <4>1, <4>2 DEF Stored
    <3> QED
      BY <1>1, <3>1, <3>2
  <2>5. Within'
    BY <1>1, <1>2, <1>3, <1>8, <2>2 DEF Within
  <2>6. Covered'
    BY <1>1, <1>5, <1>8 DEF Covered
  <2>7. PassedOver'
    <3> SUFFICES ASSUME NEW m \in Metrics \ Range(series'), NEW j \in DOMAIN series',
                        m < series'[j]
                 PROVE  ~SinceCursor(m)' /\ m \notin unread'
      BY DEF PassedOver
    <3>1. m \in Metrics \ Range(series) /\ m # i
      BY <1>8
    <3>2. CASE j \in DOMAIN series
      <4>1. m < series[j]
        BY <1>8, <3>2
      <4> QED
        BY <1>1, <1>5, <3>1, <3>2, <4>1 DEF PassedOver
    <3>3. CASE j = Len(series) + 1
      <4>1. m < i
        BY <1>8, <3>3
      <4>2. m \notin unread
        BY <1>1, <1>2, <1>4, <3>1, <4>1
      <4>3. m \in Metrics \cap (1..printed)
        BY <1>1, <1>2, <1>4, <3>1, <4>1 DEF Line
      <4>4. ~SinceCursor(m)
        BY <1>1, <3>1, <4>2, <4>3 DEF Covered
      <4> QED
        BY <1>1, <1>5, <3>1, <4>2, <4>4
    <3> QED
      BY <2>2, <3>2, <3>3
  <2> QED
    BY <2>3, <2>4, <2>5, <2>6, <2>7
<1> QED
  BY <1>1, <1>2, <1>7, <1>8, EnterCases

\* A step that neither reads nor reattaches leaves the series and the row as
\* they are.
LEMMA QuietReplay ==
    ASSUME ReplayInv, TypeOK', mtime <= mtime', mtime' <= clock',
           series' = series, saved' = saved, printed' = printed, at' = at,
           phase' = "follow" => phase = "follow" /\ unread' = unread
    PROVE  ReplayInv'
<1> USE DEF ReplayInv
<1>1. Metrics \subseteq Line
  BY JobLogAssumption DEF JobLogAssumption
<1>2. \A m \in Metrics : SinceCursor(m)' => SinceCursor(m)
  BY <1>1, CursorOnlyMovesOn
<1>3. Ordered' /\ Stored' /\ Within'
  BY DEF Ordered, Stored, Within
<1>4. Covered'
  BY <1>2 DEF Covered
<1>5. PassedOver'
  BY <1>2 DEF PassedOver
<1> QED
  BY <1>3, <1>4, <1>5

\* A printed line is newer than every entry, and unread if somebody follows.
LEMMA PrintsReplay ==
    ASSUME ReplayInv, TypeOK', Prints
    PROVE  ReplayInv'
<1> USE DEF ReplayInv
<1>1. /\ printed' = printed + 1 /\ unread' = unread \cup {printed + 1}
      /\ \A m \in 1..printed : at'[m] = at[m]
      /\ mtime' = mtime /\ clock' = clock /\ phase' = phase
      /\ series' = series /\ saved' = saved
      /\ printed \in Nat /\ printed < MaxLines
  BY JobLogAssumption DEF Prints, file, TypeOK, JobLogAssumption, Line
<1>2. Metrics \subseteq Line /\ Line \subseteq Nat
  BY JobLogAssumption DEF JobLogAssumption, Line
<1>3. 1..printed \subseteq Line
  BY <1>1, JobLogAssumption DEF JobLogAssumption, Line
<1>4. \A m \in 1..printed : SinceCursor(m)' => SinceCursor(m)
  <2>1. mtime <= mtime'
    BY <1>1, JobLogAssumption DEF JobLogAssumption, TypeOK, Time
  <2> QED
    BY <1>1, <1>3, <2>1, CursorOnlyMovesOn
<1>5. \A j \in DOMAIN series : series[j] \in Nat /\ series[j] <= printed
  BY <1>2, SeriesOfLines DEF TypeOK, Within
<1>6. Ordered' /\ Stored'
  BY <1>1 DEF Ordered, Stored
<1>7. Within'
  BY <1>1, <1>5 DEF Within
<1>8. Covered'
  BY <1>1, <1>4 DEF Covered
<1>9. PassedOver'
  <2> SUFFICES ASSUME NEW m \in Metrics \ Range(series), NEW j \in DOMAIN series,
                      m < series[j]
               PROVE  ~SinceCursor(m)' /\ (phase = "follow" => m \notin unread')
    BY <1>1 DEF PassedOver
  <2>1. m \in 1..printed
    <3>1. m \in Line
      BY <1>2
    <3>2. m \in Nat /\ m >= 1
      BY <1>2, <3>1 DEF Line
    <3>3. series[j] \in Nat /\ series[j] <= printed
      BY <1>5
    <3> QED
      BY <1>1, <3>2, <3>3
  <2>2. m # printed + 1
    BY <1>1, <2>1
  <2> QED
    BY <1>1, <1>4, <2>1, <2>2 DEF PassedOver
<1> QED
  BY <1>6, <1>7, <1>8, <1>9

\* The stream's end stores the whole series.
LEMMA EndsReplay ==
    ASSUME ReplayInv, TypeOK', Ends
    PROVE  ReplayInv'
<1> USE DEF ReplayInv
<1>1. /\ phase' = "done" /\ series' = series /\ saved' \in {saved, series}
      /\ printed' = printed /\ at' = at /\ mtime' = mtime /\ clock' = clock
  BY DEF Ends, container, file, follower
<1>2. Metrics \subseteq Line /\ mtime \in Nat
  BY JobLogAssumption DEF JobLogAssumption, TypeOK, Time
<1>3. \A m \in Metrics : SinceCursor(m)' => SinceCursor(m)
  BY <1>1, <1>2, CursorOnlyMovesOn
<1>4. Len(series) <= Len(series)
  BY DEF TypeOK
<1> QED
  BY <1>1, <1>3, <1>4 DEF Ordered, Stored, Within, Covered, PassedOver

\* Reattaching falls back to the row: the lines it hands out again are those the
\* cursor reaches, and none of them is older than an entry of the row it lacks.
LEMMA ReattachReplay ==
    ASSUME ReplayInv, TypeOK', Reattach
    PROVE  ReplayInv'
<1> USE DEF ReplayInv
<1>1. /\ phase' = "follow" /\ series' = saved /\ saved' = saved
      /\ unread' = {k \in 1..printed : SinceCursor(k)}
      /\ printed' = printed /\ at' = at /\ clock' = clock
      /\ mtime' \in {clock, mtime}
  BY DEF Reattach, container
<1>2. Metrics \subseteq Line /\ mtime \in Nat /\ clock \in Nat
  BY JobLogAssumption DEF JobLogAssumption, TypeOK, Time
<1>3. mtime <= mtime' /\ mtime' <= clock'
  BY <1>1, <1>2 DEF Within
<1>4. \A m \in Metrics : SinceCursor(m)' => SinceCursor(m)
  BY <1>1, <1>2, <1>3, CursorOnlyMovesOn
<1>5. series \in Seq(Metrics) /\ saved \in Seq(Metrics)
  BY DEF TypeOK
<1>6. /\ \A i, k \in DOMAIN saved : i < k => saved[i] < saved[k]
      /\ \A m \in Metrics \ Range(saved) : \A j \in DOMAIN saved :
            m < saved[j] => m \notin Range(series)
  BY <1>5, BeginningIsSound DEF Ordered, Stored
<1>7. DOMAIN saved \subseteq DOMAIN series
  <2>1. /\ DOMAIN saved = 1..Len(saved) /\ Len(saved) \in Nat
        /\ DOMAIN series = 1..Len(series) /\ Len(series) \in Nat
    BY <1>5
  <2> QED
    BY <2>1 DEF Stored
<1>8. Ordered'
  BY <1>1, <1>6 DEF Ordered
<1>9. Stored'
  <2>1. Len(saved) <= Len(saved)
    BY <1>5
  <2> QED
    BY <1>1, <2>1 DEF Stored
<1>10. Within'
  BY <1>1, <1>3, <1>7 DEF Stored, Within
<1>11. Covered'
  BY <1>1, <1>4 DEF Covered
<1>12. PassedOver'
  <2> SUFFICES ASSUME NEW m \in Metrics \ Range(saved), NEW j \in DOMAIN saved,
                      m < saved[j]
               PROVE  ~SinceCursor(m)' /\ m \notin unread'
    BY <1>1 DEF PassedOver
  <2>1. m \in Metrics \ Range(series) /\ j \in DOMAIN series /\ m < series[j]
    BY <1>6, <1>7 DEF Stored
  <2>2. ~SinceCursor(m)
    BY <2>1 DEF PassedOver
  <2> QED
    BY <1>1, <1>4, <2>2
<1> QED
  BY <1>8, <1>9, <1>10, <1>11, <1>12

\* Every step keeps the order.
LEMMA NextReplay == ReplayInv /\ [Next]_vars => ReplayInv'
<1> SUFFICES ASSUME ReplayInv, [Next]_vars PROVE ReplayInv'
  OBVIOUS
<1>1. TypeOK /\ TypeOK'
  BY NextTypeOK DEF ReplayInv
<1>2. mtime \in Nat /\ clock \in Nat /\ mtime <= clock
  BY <1>1, JobLogAssumption DEF JobLogAssumption, ReplayInv, TypeOK, Time, Within
<1>3. CASE Prints
  BY <1>1, <1>3, PrintsReplay
<1>4. CASE Exits
  BY <1>1, <1>2, <1>4, QuietReplay DEF Exits, file, follower
<1>5. CASE Tick
  <2>1. /\ clock' = clock + 1 /\ mtime' = mtime /\ series' = series /\ saved' = saved
        /\ printed' = printed /\ at' = at /\ phase' = phase /\ unread' = unread
    BY <1>5 DEF Tick, container, file, follower
  <2> QED
    BY <1>1, <1>2, <2>1, QuietReplay
<1>6. ASSUME NEW i \in Line, Ingest(i) PROVE ReplayInv'
  BY <1>1, <1>6, IngestReplay
<1>7. CASE CancelRequested
  BY <1>1, <1>2, <1>7, QuietReplay DEF CancelRequested, container, follower
<1>8. CASE Ends
  BY <1>1, <1>8, EndsReplay
<1>9. CASE GoesDown
  BY <1>1, <1>2, <1>9, QuietReplay DEF GoesDown, container, file, follower
<1>10. CASE Reattach
  BY <1>1, <1>10, ReattachReplay
<1>11. CASE UNCHANGED vars
  BY <1>1, <1>2, <1>11, QuietReplay DEF vars, container, file, follower
<1> QED
  BY <1>3, <1>4, <1>5, <1>6, <1>7, <1>8, <1>9, <1>10, <1>11 DEF Next

\* SeriesInOrder holds of every instance, also of those that lose lines: with
\* any overlap, any lag, and restarts in the middle of a replay, the row's
\* series has one entry per step in the order of the run.
THEOREM SeriesInOrderHolds == Spec => []SeriesInOrder
<1>1. Init => ReplayInv
  BY InitReplay
<1>2. ReplayInv /\ [Next]_vars => ReplayInv'
  BY NextReplay
<1>3. ReplayInv => SeriesInOrder
  BY BeginningIsSound DEF ReplayInv, TypeOK, Ordered, Stored, SeriesInOrder
<1> QED
  BY <1>1, <1>2, <1>3, PTL DEF Spec
-----------------------------------------------------------------------------
(* What docker hands over (LogPump).  However the output of a container is *)
(* cut up on its way through pipes and queue, its lines come out whole.    *)

\* What a pipe carries.
Text == Seq(STRING)

\* A set of numbers with 0 and the successor of each of its members is Nat: of
\* the initial segments that end outside it, none would be least.
LEMMA Induction ==
    ASSUME NEW P \in SUBSET Nat, 0 \in P, \A n \in P : n + 1 \in P
    PROVE  P = Nat
<1> SUFFICES ASSUME P # Nat PROVE FALSE
  OBVIOUS
<1> DEFINE T == {0 .. n : n \in Nat \ P}
<1>1. T # {} /\ T \subseteq FiniteSubsetsOf(Nat)
  <2>1. \A n \in Nat : IsFiniteSet(0 .. n) /\ 0 .. n \subseteq Nat
    BY FS_Interval
  <2> QED
    BY <2>1 DEF FiniteSubsetsOf
<1>2. PICK U \in T : \A V \in T : <<V, U>> \notin StrictSubsetOrdering(Nat)
  <2> HIDE DEF T
  <2> QED
    BY <1>1, FS_StrictSubsetOrderingWellFounded, WFMin
<1>3. PICK n \in Nat \ P : U = 0 .. n
  OBVIOUS
<1>4. n - 1 \in Nat \ P
  OBVIOUS
<1>5. 0 .. (n - 1) \in T /\ 0 .. (n - 1) \subseteq 0 .. n /\ 0 .. (n - 1) # 0 .. n
  BY <1>4
<1>6. <<0 .. (n - 1), 0 .. n>> \in StrictSubsetOrdering(Nat)
  <2>1. 0 .. (n - 1) \subseteq Nat /\ 0 .. n \subseteq Nat
    OBVIOUS
  <2> QED
    BY <1>5, <2>1 DEF StrictSubsetOrdering
<1> QED
  BY <1>2, <1>3, <1>5, <1>6

\* Some numbers have a least one.
LEMMA Least ==
    ASSUME NEW S \in SUBSET Nat, S # {}
    PROVE  \E n \in S : \A m \in S : n <= m
<1> SUFFICES ASSUME \A n \in S : \E m \in S : ~(n <= m) PROVE FALSE
  OBVIOUS
<1> DEFINE P == {n \in Nat : \A m \in S : n <= m}
<1>1. 0 \in P
  OBVIOUS
<1>2. ASSUME NEW n \in P PROVE n + 1 \in P
  <2>1. n \notin S
    OBVIOUS
  <2> QED
    BY <2>1
<1>3. P = Nat
  <2>1. P \in SUBSET Nat
    OBVIOUS
  <2> HIDE DEF P
  <2> QED
    BY <1>1, <1>2, <2>1, Induction
<1>4. PICK n \in S : TRUE
  OBVIOUS
<1>5. n + 1 \in P
  BY <1>3
<1> QED
  BY <1>4, <1>5

\* And so do they have a greatest one where they are bounded.
LEMMA Greatest ==
    ASSUME NEW N \in Nat, NEW S \in SUBSET (0..N), S # {}
    PROVE  \E n \in S : \A m \in S : m <= n
<1> DEFINE T == {N - n : n \in S}
<1>1. T \in SUBSET Nat /\ T # {}
  <2>1. \A n \in S : N - n \in Nat
    OBVIOUS
  <2> QED
    BY <2>1
<1>2. PICK k \in T : \A j \in T : k <= j
  <2> HIDE DEF T
  <2> QED
    BY <1>1, Least
<1>3. PICK n \in S : k = N - n
  OBVIOUS
<1>4. ASSUME NEW m \in S PROVE m <= n
  <2>1. k <= N - m
    BY <1>2
  <2> QED
    BY <1>3, <2>1
<1> QED
  BY <1>4

\* What Lines is made of: where a line may stop, where the one that stops there
\* begins, and which of them are not empty.
Stops(W) == {i \in DOMAIN W : W[i] = LF} \cup {Len(W) + 1}
Breaks(W, s) == {i \in {i \in DOMAIN W : W[i] \in {CR, LF}} : i < s}
From(W, s) ==
    IF Breaks(W, s) = {} THEN 1
    ELSE 1 + CHOOSE i \in Breaks(W, s) : \A j \in Breaks(W, s) : j <= i
LineAt(W, s) == SubSeq(W, From(W, s), s - 1)
Full(W) == {s \in Stops(W) : LineAt(W, s) # <<>>}
Nth(W, k) == CHOOSE s \in Full(W) : Cardinality({t \in Full(W) : t <= s}) = k

\* How many lines there are up to a place.
Rank(W, n) == Cardinality({t \in Full(W) : t <= n})

\* These are the lines.
LEMMA LinesAre ==
    \A W : Lines(W) = [k \in 1..Cardinality(Full(W)) |-> LineAt(W, Nth(W, k))]
BY DEF Lines, Stops, Breaks, From, LineAt, Full, Nth

\* They are counted one by one, in the order in which they stop.
LEMMA Ranks ==
    ASSUME NEW W \in Text, NEW n \in 0..Len(W)
    PROVE  /\ Rank(W, n) \in Nat /\ Rank(W, 0) = 0
           /\ n + 1 \in Full(W) =>
                /\ Rank(W, n + 1) = Rank(W, n) + 1 /\ Rank(W, n + 1) \in 1..Cardinality(Full(W))
                /\ Nth(W, Rank(W, n + 1)) = n + 1
           /\ n + 1 \notin Full(W) => Rank(W, n + 1) = Rank(W, n)
           /\ Cardinality(Full(W)) = Rank(W, Len(W) + 1)
           /\ Cardinality(Full(W)) \in Nat
<1> DEFINE F == Full(W)
           upto(m) == {t \in F : t <= m}
           N == Len(W)
<1>1. /\ N \in Nat /\ n \in Nat /\ n <= N /\ F \subseteq 1..(N + 1)
      /\ \A t \in F : t \in Nat /\ t >= 1 /\ t <= N + 1
  BY DEF Full, Stops, Text
<1> HIDE DEF N
<1>2. IsFiniteSet(F) /\ \A m : IsFiniteSet(upto(m)) /\ Cardinality(upto(m)) \in Nat
  <2>1. IsFiniteSet(1..(N + 1))
    BY <1>1, FS_Interval
  <2>2. IsFiniteSet(F)
    BY <1>1, <2>1, FS_Subset
  <2> HIDE DEF F
  <2>3. \A m : upto(m) \subseteq F
    OBVIOUS
  <2> HIDE DEF upto
  <2> QED
    BY <2>2, <2>3, FS_Subset, FS_CardinalityType
<1> HIDE DEF F
<1>3. \A m : Rank(W, m) = Cardinality(upto(m))
  BY DEF Rank, F
<1>4. upto(0) = {}
  <2>1. \A t \in F : ~(t <= 0)
    BY <1>1
  <2> QED
    BY <2>1
<1>5. Rank(W, 0) = 0
  BY <1>3, <1>4, FS_EmptySet
<1>6. ASSUME n + 1 \notin F PROVE Rank(W, n + 1) = Rank(W, n)
  <2>1. \A t \in F : t <= n + 1 <=> t <= n
    BY <1>1, <1>6
  <2>2. upto(n + 1) = upto(n)
    BY <2>1
  <2> QED
    BY <1>3, <2>2
<1>7. ASSUME n + 1 \in F PROVE Rank(W, n + 1) = Rank(W, n) + 1
  <2>3. \A t \in F : t <= n + 1 <=> t <= n \/ t = n + 1
    BY <1>1
  <2>4. ~(n + 1 <= n)
    BY <1>1
  <2>1. upto(n + 1) = upto(n) \cup {n + 1} /\ n + 1 \notin upto(n)
    BY <1>7, <2>3, <2>4
  <2> DEFINE A == upto(n)
             m == n + 1
  <2>2. Cardinality(A \cup {m}) = Cardinality(A) + 1
    <3>1. IsFiniteSet(A) /\ m \notin A
      BY <1>2, <2>1
    <3> HIDE DEF A, m
    <3> QED
      BY <3>1, FS_AddElement
  <2> QED
    BY <1>3, <2>1, <2>2
<1>8. Rank(W, n + 1) <= Cardinality(F) /\ Cardinality(F) \in Nat
  <2> DEFINE A == upto(n + 1)
  <2>1. A \subseteq F
    OBVIOUS
  <2> HIDE DEF A
  <2>2. Cardinality(A) <= Cardinality(F) /\ Cardinality(F) \in Nat
    BY <1>2, <2>1, FS_Subset, FS_CardinalityType
  <2> QED
    BY <1>3, <2>2 DEF A
<1>9. ASSUME n + 1 \in F PROVE Nth(W, Rank(W, n + 1)) = n + 1
  <2> DEFINE m == n + 1
             k == Rank(W, m)
  <2>1. m \in F /\ Cardinality(upto(m)) = k
    BY <1>3, <1>9
  <2>2. ASSUME NEW s \in F, Cardinality(upto(s)) = k PROVE s = m
    <3>1. s \in Nat /\ m \in Nat
      BY <1>1
    <3>2. ASSUME NEW a \in F, NEW b \in F, a < b PROVE Cardinality(upto(a)) # Cardinality(upto(b))
      <4> DEFINE A == upto(a)
                 B == upto(b)
      <4>1. a \in Nat /\ b \in Nat
        BY <1>1
      <4>2. b \in B /\ b \notin A
        BY <3>2, <4>1
      <4>3. A \subseteq B
        <5>1. \A t \in F : t <= a => t <= b
          BY <1>1, <3>2, <4>1
        <5> QED
          BY <5>1
      <4>4. IsFiniteSet(B)
        BY <1>2
      <4> HIDE DEF A, B
      <4>5. A # B
        BY <4>2
      <4>6. Cardinality(A) < Cardinality(B)
        BY <4>3, <4>4, <4>5, FS_Subset, FS_CardinalityType
      <4>7. Cardinality(A) \in Nat /\ Cardinality(B) \in Nat
        BY <4>3, <4>4, FS_Subset, FS_CardinalityType
      <4> QED
        BY <4>6, <4>7 DEF A, B
    <3>3. ~(s < m) /\ ~(m < s)
      BY <2>1, <2>2, <3>2
    <3> HIDE DEF m
    <3> QED
      BY <3>1, <3>3
  <2>3. Nth(W, k) = CHOOSE s \in F : Cardinality(upto(s)) = k
    BY DEF Nth, F
  <2> HIDE DEF k, m, upto
  <2> QED
    BY <2>1, <2>2, <2>3 DEF k, m
<1>10. Cardinality(F) = Rank(W, N + 1)
  <2>1. upto(N + 1) = F
    BY <1>1
  <2> QED
    BY <1>3, <2>1
<1>11. Rank(W, n) \in Nat
  BY <1>2, <1>3
<1> QED
  BY <1>5, <1>6, <1>7, <1>8, <1>9, <1>10, <1>11 DEF F, N

-----------------------------------------------------------------------------
(* The loop that cuts an output into records.                              *)

\* After so much of an output, what is behind the last newline, which is at m, is
\* held back.
HoldsFrom(W, m, n, b) ==
    /\ m = 0 \/ W[m] = LF
    /\ \A i \in (m + 1)..n : W[i] # LF
    /\ b \in Text /\ Len(b) = n - m /\ \A i \in 1..(n - m) : b[i] = W[m + i]
Holds(W, n, b) == \E m \in 0..n : HoldsFrom(W, m, n, b)

\* The end of it is a stretch of the output.
LEMMA SameStretch ==
    ASSUME NEW W \in Text, NEW n \in 0..Len(W), NEW m \in 0..n, NEW b, HoldsFrom(W, m, n, b),
           NEW r \in 0..(n - m)
    PROVE  SubSeq(b, r + 1, Len(b)) = SubSeq(W, (m + r) + 1, n)
<1> DEFINE s == SubSeq(b, r + 1, Len(b))
           t == SubSeq(W, (m + r) + 1, n)
<1>1. /\ b \in Seq(STRING) /\ W \in Seq(STRING) /\ Len(b) = n - m /\ Len(W) \in Nat
      /\ n \in Nat /\ m \in Nat /\ r \in Nat /\ n <= Len(W) /\ m <= n /\ r <= n - m
  BY DEF HoldsFrom, Text
<1>2. /\ s \in Seq(STRING) /\ Len(s) = (n - m) - r
      /\ \A i \in 1..((n - m) - r) : s[i] = b[r + i]
  <2> DEFINE a == r + 1
             z == Len(b)
  <2>1. a \in 1..(Len(b) + 1) /\ z \in (a - 1)..Len(b)
    BY <1>1
  <2>2. /\ SubSeq(b, a, z) \in Seq(STRING)
        /\ Len(SubSeq(b, a, z)) = IF a <= z THEN z - a + 1 ELSE 0
        /\ \A i \in 1..(z - a + 1) : SubSeq(b, a, z)[i] = b[a + i - 1]
    <3> HIDE DEF a, z
    <3> QED
      BY <1>1, <2>1, SubSeqProperties
  <2>3. z - a + 1 = (n - m) - r /\ (a <= z \/ (n - m) - r = 0)
    BY <1>1
  <2>4. \A i \in 1..((n - m) - r) : a + i - 1 = r + i
    BY <1>1
  <2> HIDE DEF a, z
  <2>5. s = SubSeq(b, a, z)
    BY DEF a, z
  <2> HIDE DEF s
  <2> QED
    BY <2>2, <2>3, <2>4, <2>5
<1>3. /\ t \in Seq(STRING) /\ Len(t) = (n - m) - r
      /\ \A i \in 1..((n - m) - r) : t[i] = W[m + (r + i)]
  <2> DEFINE a == (m + r) + 1
             z == n
  <2>1. a \in 1..(Len(W) + 1) /\ z \in (a - 1)..Len(W)
    BY <1>1
  <2>2. /\ SubSeq(W, a, z) \in Seq(STRING)
        /\ Len(SubSeq(W, a, z)) = IF a <= z THEN z - a + 1 ELSE 0
        /\ \A i \in 1..(z - a + 1) : SubSeq(W, a, z)[i] = W[a + i - 1]
    <3> HIDE DEF a, z
    <3> QED
      BY <1>1, <2>1, SubSeqProperties
  <2>3. z - a + 1 = (n - m) - r /\ (a <= z \/ (n - m) - r = 0)
    BY <1>1
  <2>4. \A i \in 1..((n - m) - r) : a + i - 1 = m + (r + i)
    BY <1>1
  <2> HIDE DEF a, z
  <2>5. t = SubSeq(W, a, z)
    BY DEF a, z
  <2> HIDE DEF t
  <2> QED
    BY <2>2, <2>3, <2>4, <2>5
<1>4. \A i \in 1..((n - m) - r) : b[r + i] = W[m + (r + i)]
  <2>1. \A i \in 1..((n - m) - r) : r + i \in 1..(n - m)
    BY <1>1
  <2> QED
    BY <2>1 DEF HoldsFrom
<1> HIDE DEF s, t
<1>5. \A i \in 1..Len(s) : s[i] = t[i]
  BY <1>2, <1>3, <1>4
<1>6. s = t
  BY <1>2, <1>3, <1>5, SeqEqual
<1> QED
  BY <1>6 DEF s, t

\* It ends in what is the last state of the record.
LEMMA LastLine ==
    ASSUME NEW W \in Text, NEW n \in 0..Len(W), NEW b, Holds(W, n, b)
    PROVE  LastState(b) = LineAt(W, n + 1)
<1>1. PICK m \in 0..n : HoldsFrom(W, m, n, b)
  BY DEF Holds
<1> DEFINE R == {i \in DOMAIN b : b[i] = CR}
           B == Breaks(W, n + 1)
<1>2. n \in Nat /\ m \in Nat /\ m <= n /\ n <= Len(W) /\ Len(W) \in Nat /\ DOMAIN W = 1..Len(W)
  BY DEF Text
<1>3. DOMAIN b = 1..(n - m) /\ Len(b) = n - m
  BY <1>1 DEF HoldsFrom, Text
<1>4. LF # CR
  BY DEF LF, CR
<1>5. B = {i \in 1..n : W[i] \in {CR, LF}}
  <2>1. \A i \in 1..Len(W) : i < n + 1 <=> i \in 1..n
    BY <1>2
  <2>2. 1..n \subseteq 1..Len(W)
    BY <1>2
  <2>3. B = {i \in {i \in 1..Len(W) : W[i] \in {CR, LF}} : i < n + 1}
    BY <1>2 DEF Breaks
  <2> HIDE DEF B
  <2> QED
    BY <2>1, <2>2, <2>3
<1>6. \A i \in R : i \in 1..(n - m) /\ m + i \in B
  <2> TAKE i \in R
  <2>1. i \in 1..(n - m) /\ b[i] = CR /\ W[m + i] = b[i]
    BY <1>1, <1>3 DEF HoldsFrom
  <2>2. m + i \in 1..n
    BY <1>2, <2>1
  <2> QED
    BY <1>5, <2>1, <2>2
<1>7. ASSUME NEW j \in B PROVE j \in 1..n /\ (j <= m \/ j - m \in R)
  <2>1. j \in 1..n /\ W[j] \in {CR, LF}
    BY <1>5
  <2>2. CASE j <= m
    BY <2>1, <2>2
  <2>3. CASE ~(j <= m)
    <3>1. j \in (m + 1)..n /\ j - m \in 1..(n - m) /\ m + (j - m) = j
      BY <1>2, <2>1, <2>3
    <3>2. W[j] # LF /\ b[j - m] = W[m + (j - m)]
      BY <1>1, <3>1 DEF HoldsFrom
    <3>3. b[j - m] = CR
      BY <2>1, <3>1, <3>2
    <3> QED
      BY <1>3, <2>1, <3>1, <3>3
  <2> QED
    BY <2>2, <2>3
<1>8. m # 0 => m \in B
  <2> SUFFICES ASSUME m # 0 PROVE m \in B
    OBVIOUS
  <2>1. m \in 1..n /\ W[m] = LF
    BY <1>1, <1>2 DEF HoldsFrom
  <2> QED
    BY <1>5, <2>1
<1>9. LastState(b) = SubSeq(b, (IF R = {} THEN 0 ELSE CHOOSE i \in R : \A j \in R : j <= i) + 1, Len(b))
  BY DEF LastState
<1>10. LineAt(W, n + 1) = SubSeq(W, IF B = {} THEN 1 ELSE 1 + CHOOSE i \in B : \A j \in B : j <= i, (n + 1) - 1)
  BY DEF LineAt, From
<1>11. (n + 1) - 1 = n
  BY <1>2
<1> HIDE DEF R, B
<1>12. ASSUME NEW r \in 0..(n - m),
              LastState(b) = SubSeq(b, r + 1, Len(b)),
              LineAt(W, n + 1) = SubSeq(W, (m + r) + 1, n)
       PROVE  LastState(b) = LineAt(W, n + 1)
  BY <1>1, <1>12, SameStretch
<1>13. CASE R = {}
  <2> DEFINE r == 0
  <2>1. r \in 0..(n - m) /\ (m + r) + 1 = m + 1 /\ 0 + 1 = r + 1
    BY <1>2
  <2>2. LastState(b) = SubSeq(b, r + 1, Len(b))
    BY <1>9, <1>13, <2>1
  <2> DEFINE c == CHOOSE i \in B : \A j \in B : j <= i
             f == IF B = {} THEN 1 ELSE 1 + c
  <2>3. f = m + 1
    <3>1. ASSUME m = 0 PROVE f = m + 1
      <4>1. B = {}
        BY <1>7, <1>13, <3>1
      <4> HIDE DEF c
      <4> QED
        BY <3>1, <4>1
    <3>2. ASSUME m # 0 PROVE f = m + 1
      <4>1. m \in B /\ \A j \in B : j <= m /\ j \in Nat
        BY <1>7, <1>8, <1>13, <3>2
      <4>2. c \in B /\ \A j \in B : j <= c
        BY <4>1
      <4> HIDE DEF c
      <4>3. c = m
        BY <1>2, <4>1, <4>2
      <4> QED
        BY <1>2, <4>1, <4>3
    <3> HIDE DEF f
    <3> QED
      BY <3>1, <3>2
  <2>5. LineAt(W, n + 1) = SubSeq(W, f, n)
    BY <1>10, <1>11
  <2> HIDE DEF f
  <2>4. LineAt(W, n + 1) = SubSeq(W, (m + r) + 1, n)
    BY <2>1, <2>3, <2>5
  <2> HIDE DEF r
  <2> QED
    BY <1>12, <2>1, <2>2, <2>4
<1>14. CASE R # {}
  <2> DEFINE r == CHOOSE i \in R : \A j \in R : j <= i
  <2>1. \E i \in R : \A j \in R : j <= i
    <3> DEFINE k == n - m
    <3>1. k \in Nat
      BY <1>2
    <3>2. R \in SUBSET (0..k)
      BY <1>6
    <3> HIDE DEF k
    <3> QED
      BY <1>14, <3>1, <3>2, Greatest
  <2>2. r \in R /\ \A j \in R : j <= r
    BY <2>1
  <2>3. LastState(b) = SubSeq(b, r + 1, Len(b))
    BY <1>9, <1>14
  <2> HIDE DEF r
  <2>4. r \in 1..(n - m) /\ m + r \in B
    BY <1>6, <2>2
  <2>5. \A j \in B : j \in Nat /\ j <= m + r
    <3> TAKE j \in B
    <3>1. j \in 1..n /\ (j <= m \/ j - m \in R)
      BY <1>7
    <3>2. j - m \in R => j - m <= r
      BY <2>2
    <3> QED
      BY <1>2, <2>4, <3>1, <3>2
  <2> DEFINE c == CHOOSE i \in B : \A j \in B : j <= i
             e == m + r
  <2>6. e \in B /\ \A j \in B : j \in Nat /\ j <= e
    BY <2>4, <2>5
  <2> HIDE DEF e
  <2>7. c \in B /\ \A j \in B : j <= c
    BY <2>6
  <2> HIDE DEF c
  <2>8. c = e
    BY <2>6, <2>7
  <2>9. B # {}
    BY <2>6
  <2>10. LineAt(W, n + 1) = SubSeq(W, 1 + c, n)
    BY <1>10, <1>11, <2>9 DEF c
  <2>11. 1 + c = (m + r) + 1
    BY <1>2, <2>4, <2>8 DEF e
  <2>12. LineAt(W, n + 1) = SubSeq(W, (m + r) + 1, n)
    BY <2>10, <2>11
  <2>13. r \in 0..(n - m)
    BY <2>4
  <2> QED
    BY <1>12, <2>3, <2>12, <2>13
<1> QED
  BY <1>13, <1>14

\* The last state of a record is a piece of it.
LEMMA LastStateType ==
    ASSUME NEW b \in Text
    PROVE  LastState(b) \in Text
<1> DEFINE R == {i \in DOMAIN b : b[i] = CR}
           g == CHOOSE i \in R : \A j \in R : j <= i
           f == IF R = {} THEN 0 ELSE g
           N == Len(b)
<1>1. N \in Nat /\ DOMAIN b = 1..N /\ b \in Seq(STRING)
  BY DEF Text
<1>2. f \in 0..N
  <2>1. ASSUME R # {} PROVE g \in 0..N
    <3>1. R \in SUBSET (0..N)
      BY <1>1
    <3> HIDE DEF R, N
    <3>2. \E i \in R : \A j \in R : j <= i
      BY <1>1, <2>1, <3>1, Greatest
    <3>3. g \in R
      BY <3>2
    <3> QED
      BY <3>1, <3>3
  <2> HIDE DEF g
  <2> QED
    BY <1>1, <2>1
<1>3. LastState(b) = SubSeq(b, f + 1, N)
  BY DEF LastState
<1> HIDE DEF f, N
<1>4. f + 1 \in 1..(Len(b) + 1) /\ N \in ((f + 1) - 1)..Len(b)
  BY <1>1, <1>2 DEF N
<1>5. SubSeq(b, f + 1, N) \in Seq(STRING)
  BY <1>1, <1>4, SubSeqProperties
<1> QED
  BY <1>3, <1>5 DEF Text

\* The lines of a text, and how many they are.
LEMMA LineCount ==
    ASSUME NEW W \in Text
    PROVE  /\ Rank(W, Len(W) + 1) \in Nat
           /\ Len(Lines(W)) = Rank(W, Len(W) + 1)
           /\ DOMAIN Lines(W) = 1..Rank(W, Len(W) + 1)
           /\ Lines(W) \in Seq({Lines(W)[k] : k \in 1..Rank(W, Len(W) + 1)})
           /\ \A k \in 1..Rank(W, Len(W) + 1) : Lines(W)[k] = LineAt(W, Nth(W, k))
<1> DEFINE N == Rank(W, Len(W) + 1)
           L == Lines(W)
           S == {L[k] : k \in 1..N}
<1>1. N \in Nat /\ N = Cardinality(Full(W))
  <2>1. 0 \in 0..Len(W)
    BY DEF Text
  <2> QED
    BY <2>1, Ranks
<1>2. L = [k \in 1..N |-> LineAt(W, Nth(W, k))]
  BY <1>1, LinesAre
<1> HIDE DEF N, L
<1>3. L \in [1..N -> S]
  BY <1>2
<1> HIDE DEF S
<1>4. L \in Seq(S) /\ Len(L) = N
  BY <1>1, <1>3
<1> QED
  BY <1>1, <1>2, <1>4 DEF N, L, S

\* Up to a place of an output, with r lines before, these are its lines.
TakenAt(W, r, S, n) ==
    /\ S \in Seq(Text) /\ Rank(W, n) = r + Len(S)
    /\ \A k \in 1..Len(S) : S[k] = Lines(W)[r + k]

\* A record is one more where it stops, unless its last state is empty.
LEMMA StateTaken ==
    ASSUME NEW W \in Text, NEW n \in 0..Len(W), n + 1 \in Stops(W), NEW b, Holds(W, n, b),
           NEW r \in Nat, NEW S, TakenAt(W, r, S, n)
    PROVE  TakenAt(W, r, With(S, b), n + 1)
<1> DEFINE l == LineAt(W, n + 1)
<1>1. LastState(b) = l
  BY LastLine
<1>2. n + 1 \in Full(W) <=> l # <<>>
  BY DEF Full
<1>3. l \in Text
  <2>1. PICK m \in 0..n : HoldsFrom(W, m, n, b)
    BY DEF Holds
  <2>2. b \in Text
    BY <2>1 DEF HoldsFrom
  <2> QED
    BY <1>1, <2>2, LastStateType
<1>4. With(S, b) = IF l = <<>> THEN S ELSE Append(S, l)
  BY <1>1 DEF With
<1>5. S \in Seq(Text) /\ Len(S) \in Nat
  BY DEF TakenAt
<1> HIDE DEF l
<1>6. CASE l = <<>>
  <2>1. With(S, b) = S
    BY <1>4, <1>6
  <2>2. Rank(W, n + 1) = Rank(W, n)
    BY <1>2, <1>6, Ranks
  <2> QED
    BY <2>1, <2>2 DEF TakenAt
<1>7. CASE l # <<>>
  <2> DEFINE T == Append(S, l)
             R == Rank(W, n + 1)
  <2>1. /\ R = Rank(W, n) + 1 /\ R \in 1..Cardinality(Full(W))
        /\ Nth(W, R) = n + 1
        /\ Cardinality(Full(W)) = Rank(W, Len(W) + 1)
    BY <1>2, <1>7, Ranks
  <2>2. Lines(W)[R] = l
    BY <2>1, LineCount DEF l
  <2>3. R = r + (Len(S) + 1)
    BY <1>5, <2>1 DEF TakenAt
  <2>4. /\ T \in Seq(Text) /\ Len(T) = Len(S) + 1
        /\ \A k \in 1..Len(S) : T[k] = S[k]
        /\ T[Len(S) + 1] = l
    BY <1>3, <1>5
  <2> HIDE DEF T, R
  <2>5. ASSUME NEW k \in 1..(Len(S) + 1) PROVE T[k] = Lines(W)[r + k]
    <3>1. CASE k = Len(S) + 1
      BY <2>2, <2>3, <2>4, <3>1
    <3>2. CASE k # Len(S) + 1
      <4>1. k \in 1..Len(S)
        BY <1>5, <3>2
      <4> QED
        BY <2>4, <4>1 DEF TakenAt
    <3> QED
      BY <3>1, <3>2
  <2>6. With(S, b) = T
    BY <1>4, <1>7 DEF T
  <2> QED
    BY <2>3, <2>4, <2>5, <2>6 DEF TakenAt, R
<1> QED
  BY <1>6, <1>7

\* Nothing is held back at the start and right behind a newline.
LEMMA HoldsNothing ==
    ASSUME NEW W \in Text, NEW n \in 0..Len(W), n = 0 \/ W[n] = LF
    PROVE  HoldsFrom(W, n, n, <<>>)
<1>1. <<>> \in Text /\ Len(<<>>) = 0 /\ n - n = 0 /\ n \in Nat
  BY DEF Text
<1>2. \A i \in (n + 1)..n : FALSE
  BY <1>1
<1> QED
  BY <1>1, <1>2 DEF HoldsFrom

\* One character of the loop: held back, or the end of a record.
CutChar(c, ch) ==
    IF ch # LF THEN [c EXCEPT !.rest = Append(@, ch)]
    ELSE [rest |-> <<>>, states |-> With(c.states, c.rest)]

\* What the loop keeps.
Pieces == [rest : Text, states : Seq(Text)]

\* A character more of the output keeps both what is held back and what is taken
\* right.
LEMMA CharTaken ==
    ASSUME NEW W \in Text, NEW n \in Nat, n < Len(W), NEW c \in Pieces,
           Holds(W, n, c.rest), NEW r \in Nat, TakenAt(W, r, c.states, n)
    PROVE  /\ CutChar(c, W[n + 1]) \in Pieces
           /\ Holds(W, n + 1, CutChar(c, W[n + 1]).rest)
           /\ TakenAt(W, r, CutChar(c, W[n + 1]).states, n + 1)
<1> DEFINE ch == W[n + 1]
           d == CutChar(c, ch)
<1>1. /\ Len(W) \in Nat /\ n + 1 \in 1..Len(W) /\ n \in 0..Len(W) /\ DOMAIN W = 1..Len(W)
      /\ ch \in STRING
  BY DEF Text
<1>2. PICK m \in 0..n : HoldsFrom(W, m, n, c.rest)
  BY DEF Holds
<1>3. CASE ch # LF
  <2> DEFINE b == c.rest
             e == Append(b, ch)
  <2>1. d = [c EXCEPT !.rest = e]
    BY <1>3 DEF CutChar
  <2>2. d.rest = e /\ d.states = c.states
    BY <2>1 DEF Pieces
  <2>3. /\ b \in Text /\ Len(b) = n - m /\ m \in Nat /\ m <= n
        /\ \A i \in 1..(n - m) : b[i] = W[m + i]
    BY <1>2 DEF HoldsFrom
  <2>4. /\ e \in Text /\ Len(e) = (n - m) + 1 /\ e[(n - m) + 1] = ch
        /\ \A i \in 1..(n - m) : e[i] = b[i]
    BY <1>1, <2>3 DEF Text
  <2> HIDE DEF b, e
  <2>5. \A i \in 1..((n + 1) - m) : e[i] = W[m + i]
    <3> TAKE i \in 1..((n + 1) - m)
    <3>1. CASE i = (n - m) + 1
      <4>1. m + i = n + 1
        BY <2>3, <3>1
      <4> QED
        BY <2>4, <3>1, <4>1
    <3>2. CASE i # (n - m) + 1
      <4>1. i \in 1..(n - m)
        BY <2>3, <3>2
      <4> QED
        BY <2>3, <2>4, <4>1
    <3> QED
      BY <3>1, <3>2
  <2>6. \A i \in (m + 1)..(n + 1) : W[i] # LF
    <3> TAKE i \in (m + 1)..(n + 1)
    <3>1. i = n + 1 \/ i \in (m + 1)..n
      BY <2>3
    <3> QED
      BY <1>2, <1>3, <3>1 DEF HoldsFrom
  <2>7. Len(e) = (n + 1) - m /\ m \in 0..(n + 1)
    BY <2>3, <2>4
  <2>8. HoldsFrom(W, m, n + 1, e)
    BY <1>2, <2>4, <2>5, <2>6, <2>7 DEF HoldsFrom
  <2>9. n + 1 \notin Full(W)
    BY <1>1, <1>3 DEF Full, Stops
  <2>10. Rank(W, n + 1) = Rank(W, n)
    BY <1>1, <2>9, Ranks
  <2>11. TakenAt(W, r, d.states, n + 1)
    BY <2>2, <2>10 DEF TakenAt
  <2>12. d \in Pieces
    BY <2>1, <2>4 DEF Pieces
  <2>13. Holds(W, n + 1, d.rest)
    BY <2>2, <2>7, <2>8 DEF Holds
  <2> HIDE DEF d
  <2> QED
    BY <2>11, <2>12, <2>13 DEF d
<1>4. CASE ch = LF
  <2>1. d = [rest |-> <<>>, states |-> With(c.states, c.rest)]
    BY <1>4 DEF CutChar
  <2>2. n + 1 \in Stops(W)
    BY <1>1, <1>4 DEF Stops
  <2>3. TakenAt(W, r, d.states, n + 1)
    BY <1>1, <2>1, <2>2, StateTaken
  <2>4. HoldsFrom(W, n + 1, n + 1, <<>>) /\ n + 1 \in 0..(n + 1)
    BY <1>1, <1>4, HoldsNothing
  <2>5. Holds(W, n + 1, d.rest)
    BY <2>1, <2>4 DEF Holds
  <2>6. d \in Pieces
    BY <2>1, <2>3 DEF Pieces, TakenAt, Text
  <2> HIDE DEF d
  <2> QED
    BY <2>3, <2>5, <2>6 DEF d
<1> QED
  BY <1>3, <1>4

\* What it starts from.
NoPieces == [rest |-> <<>>, states |-> <<>>]

\* A loop over the characters of a text does what its steps do.
LEMMA CutLoop ==
    ASSUME NEW text, NEW N \in Nat
    PROVE  \E f : f = [k \in 0..N |-> IF k = 0 THEN NoPieces ELSE CutChar(f[k - 1], text[k])]
<1> DEFINE P == {n \in Nat : \E f : f = [k \in 0..n |-> IF k = 0 THEN NoPieces
                                                       ELSE CutChar(f[k - 1], text[k])]}
<1>1. 0 \in P
  <2> DEFINE f == [k \in 0..0 |-> NoPieces]
  <2>1. \A k \in 0..0 : k = 0
    OBVIOUS
  <2>2. f = [k \in 0..0 |-> IF k = 0 THEN NoPieces ELSE CutChar(f[k - 1], text[k])]
    BY <2>1
  <2> QED
    BY <2>2
<1>2. ASSUME NEW n \in P PROVE n + 1 \in P
  <2>1. PICK f : f = [k \in 0..n |-> IF k = 0 THEN NoPieces ELSE CutChar(f[k - 1], text[k])]
    OBVIOUS
  <2> DEFINE last == CutChar(f[n], text[n + 1])
             g == [k \in 0..(n + 1) |-> IF k <= n THEN f[k] ELSE last]
             h == [k \in 0..(n + 1) |-> IF k = 0 THEN NoPieces ELSE CutChar(g[k - 1], text[k])]
  <2>2. ASSUME NEW k \in 0..(n + 1) PROVE g[k] = h[k]
    <3>1. CASE k = 0
      BY <2>1, <3>1
    <3>2. CASE k \in 1..n
      <4>1. f[k] = CutChar(f[k - 1], text[k])
        BY <2>1, <3>2
      <4>2. k - 1 \in 0..(n + 1) /\ k - 1 <= n /\ k <= n /\ k # 0
        BY <3>2
      <4>3. g[k - 1] = f[k - 1] /\ g[k] = f[k]
        BY <4>2
      <4> HIDE DEF g
      <4>4. h[k] = CutChar(g[k - 1], text[k])
        BY <4>2
      <4> HIDE DEF h
      <4> QED
        BY <4>1, <4>3, <4>4
    <3>3. CASE k = n + 1
      <4>1. n \in 0..(n + 1) /\ n <= n /\ k - 1 = n /\ ~(k <= n) /\ k # 0
        BY <3>3
      <4>2. g[n] = f[n] /\ g[k] = last
        BY <4>1
      <4> HIDE DEF g
      <4>3. h[k] = CutChar(g[n], text[n + 1])
        BY <3>3, <4>1
      <4> HIDE DEF h
      <4> QED
        BY <4>2, <4>3
    <3> QED
      BY <3>1, <3>2, <3>3
  <2>3. g = h
    <3> HIDE DEF last
    <3>1. g = [k \in 0..(n + 1) |-> g[k]] /\ h = [k \in 0..(n + 1) |-> h[k]]
      OBVIOUS
    <3> HIDE DEF g, h
    <3> QED
      BY <2>2, <3>1
  <2>4. \E x : x = [k \in 0..(n + 1) |-> IF k = 0 THEN NoPieces ELSE CutChar(x[k - 1], text[k])]
    <3> WITNESS g
    <3> HIDE DEF g
    <3> QED
      BY <2>3
  <2> QED
    BY <2>4
<1>3. P = Nat
  <2>1. P \in SUBSET Nat
    OBVIOUS
  <2> HIDE DEF P
  <2> QED
    BY <1>1, <1>2, <2>1, Induction
<1> QED
  BY <1>3

\* As many lines stop up to a place as up to the newline before it.
LEMMA HeldRank ==
    ASSUME NEW W \in Text, NEW n \in 0..Len(W), NEW m \in 0..n, NEW b, HoldsFrom(W, m, n, b)
    PROVE  Rank(W, n) = Rank(W, m)
<1>1. Len(W) \in Nat /\ n \in Nat /\ m \in Nat /\ n <= Len(W) /\ m <= n
  BY DEF Text
<1>2. ASSUME NEW t \in Full(W) PROVE t <= n <=> t <= m
  <2>1. t \in Stops(W)
    BY DEF Full
  <2>2. t \in Nat
    BY <1>1, <2>1 DEF Stops, Text
  <2>3. ASSUME t <= n, ~(t <= m) PROVE FALSE
    <3>1. t \in (m + 1)..n /\ t # Len(W) + 1
      BY <1>1, <2>2, <2>3
    <3>2. W[t] = LF
      BY <2>1, <3>1 DEF Stops
    <3> QED
      BY <3>1, <3>2 DEF HoldsFrom
  <2> QED
    BY <1>1, <2>2, <2>3
<1> QED
  BY <1>2 DEF Rank

\* What Cut makes of what was held back and the next piece of the output.
LEMMA CutTaken ==
    ASSUME NEW W \in Text, NEW n \in 0..Len(W), NEW b, Holds(W, n, b), NEW chunk \in Text,
           n + Len(chunk) <= Len(W), \A i \in 1..Len(chunk) : chunk[i] = W[n + i]
    PROVE  /\ Cut(b, chunk) \in Pieces
           /\ Holds(W, n + Len(chunk), Cut(b, chunk).rest)
           /\ TakenAt(W, Rank(W, n), Cut(b, chunk).states, n + Len(chunk))
<1>1. PICK m \in 0..n : HoldsFrom(W, m, n, b)
  BY DEF Holds
<1> DEFINE text == b \o chunk
           N == Len(text)
           f == CHOOSE x : x = [k \in 0..N |-> IF k = 0 THEN NoPieces ELSE CutChar(x[k - 1], text[k])]
           r == Rank(W, n)
           P == {k \in Nat : k <= N => /\ f[k] \in Pieces /\ Holds(W, m + k, f[k].rest)
                                       /\ TakenAt(W, r, f[k].states, m + k)}
<1>2. /\ b \in Seq(STRING) /\ chunk \in Seq(STRING) /\ Len(b) = n - m /\ Len(b) \in Nat
      /\ Len(chunk) \in Nat /\ Len(W) \in Nat /\ m \in Nat /\ n \in Nat /\ m <= n
      /\ \A i \in 1..(n - m) : b[i] = W[m + i]
  BY <1>1 DEF HoldsFrom, Text
<1>3. N = (n - m) + Len(chunk) /\ N \in Nat /\ m + N = n + Len(chunk) /\ m + N <= Len(W)
  <2>1. N = Len(b) + Len(chunk)
    BY <1>2, ConcatProperties
  <2> HIDE DEF N
  <2> QED
    BY <1>2, <2>1
<1>4. ASSUME NEW i \in 1..N PROVE text[i] = W[m + i]
  <2>1. text[i] = IF i <= Len(b) THEN b[i] ELSE chunk[i - Len(b)]
    BY <1>2, <1>3
  <2>2. CASE i <= Len(b)
    <3>1. i \in 1..(n - m)
      BY <1>2, <1>3, <2>2
    <3> QED
      BY <1>2, <2>1, <2>2, <3>1
  <2>3. CASE ~(i <= Len(b))
    <3>1. i - Len(b) \in 1..Len(chunk) /\ n + (i - Len(b)) = m + i
      BY <1>2, <1>3, <2>3
    <3> QED
      BY <2>1, <2>3, <3>1
  <2> QED
    BY <2>2, <2>3
<1>5. Cut(b, chunk) = f[N]
  BY DEF Cut, CutChar, NoPieces
<1> HIDE DEF text, N
<1>6. f = [k \in 0..N |-> IF k = 0 THEN NoPieces ELSE CutChar(f[k - 1], text[k])]
  BY <1>3, CutLoop
<1> HIDE DEF f
<1>7. 0 \in P
  <2>1. f[0] = NoPieces
    BY <1>3, <1>6
  <2>2. m \in 0..Len(W) /\ (m = 0 \/ W[m] = LF) /\ m \in 0..m
    BY <1>1, <1>2, <1>3 DEF HoldsFrom
  <2>3. Holds(W, m, <<>>)
    BY <2>2, HoldsNothing DEF Holds
  <2>4. Rank(W, m) = r /\ r \in Nat
    BY <1>1, HeldRank, Ranks
  <2>5. TakenAt(W, r, <<>>, m)
    BY <2>4 DEF TakenAt
  <2>6. NoPieces \in Pieces /\ NoPieces.rest = <<>> /\ NoPieces.states = <<>>
    BY DEF NoPieces, Pieces, Text
  <2>7. m + 0 = m
    BY <1>2
  <2> QED
    BY <2>1, <2>3, <2>5, <2>6, <2>7
<1>8. ASSUME NEW k \in P PROVE k + 1 \in P
  <2>1. SUFFICES ASSUME k + 1 <= N
        PROVE  /\ f[k + 1] \in Pieces /\ Holds(W, m + (k + 1), f[k + 1].rest)
               /\ TakenAt(W, r, f[k + 1].states, m + (k + 1))
    OBVIOUS
  <2>2. /\ k \in Nat /\ k <= N /\ f[k] \in Pieces /\ Holds(W, m + k, f[k].rest)
        /\ TakenAt(W, r, f[k].states, m + k)
    BY <1>3, <2>1
  <2>3. m + k \in Nat /\ m + k < Len(W) /\ (m + k) + 1 = m + (k + 1) /\ k + 1 \in 1..N
    BY <1>2, <1>3, <2>1, <2>2
  <2>4. f[k + 1] = CutChar(f[k], text[k + 1])
    <3> DEFINE j == k + 1
    <3>1. j \in 0..N /\ j # 0 /\ j - 1 = k
      BY <1>3, <2>1, <2>2
    <3> HIDE DEF j
    <3>2. f[j] = CutChar(f[j - 1], text[j])
      BY <1>6, <3>1
    <3>3. f[j] = CutChar(f[k], text[j])
      BY <3>1, <3>2
    <3> QED
      BY <3>3 DEF j
  <2>5. text[k + 1] = W[(m + k) + 1]
    BY <1>4, <2>3
  <2>6. r \in Nat
    BY Ranks
  <2> HIDE DEF r
  <2> QED
    BY <2>2, <2>3, <2>4, <2>5, <2>6, CharTaken
<1>9. P = Nat
  <2>1. P \in SUBSET Nat
    OBVIOUS
  <2> HIDE DEF P
  <2> QED
    BY <1>7, <1>8, <2>1, Induction
<1>10. N \in P
  BY <1>3, <1>9
<1> QED
  BY <1>3, <1>5, <1>10

-----------------------------------------------------------------------------
(* Lines on their way, counted.                                            *)

\* No more lines stop up to a place than there are.
LEMMA RankMost ==
    ASSUME NEW W \in Text, NEW n
    PROVE  Rank(W, n) \in 0..Len(Lines(W))
<1> DEFINE F == Full(W)
           A == {t \in F : t <= n}
           N == Len(W) + 1
<1>1. N \in Nat /\ F \subseteq 1..N
  BY DEF Full, Stops, Text
<1>2. IsFiniteSet(F) /\ A \subseteq F
  <2>1. IsFiniteSet(1..N)
    BY <1>1, FS_Interval
  <2> HIDE DEF F, N
  <2> QED
    BY <1>1, <2>1, FS_Subset
<1>3. Len(Lines(W)) = Cardinality(F)
  <2>1. Len(Lines(W)) = Rank(W, N)
    BY LineCount
  <2>2. 0 \in 0..Len(W)
    BY DEF Text
  <2>3. Cardinality(F) = Rank(W, N)
    BY <2>2, Ranks
  <2> QED
    BY <2>1, <2>3
<1> HIDE DEF F
<1>4. Rank(W, n) = Cardinality(A)
  BY DEF Rank, F
<1> HIDE DEF A
<1>5. Cardinality(A) \in Nat /\ Cardinality(F) \in Nat /\ Cardinality(A) <= Cardinality(F)
  BY <1>2, FS_Subset, FS_CardinalityType
<1> QED
  BY <1>3, <1>4, <1>5

\* What the pumps put into the queue, and what they find there.
Puttable(p) == {<<x>> : x \in [pipe : {p}, text : Text, transient : BOOLEAN]}
Entry == (UNION {Puttable(p) : p \in Pipe}) \cup {End}

\* After a lines of a pipe its next one, if this is a line of the pipe.
Counts(p, L, a, x, b) ==
    IF x # End /\ x[1].pipe = p /\ ~x[1].transient
    THEN b = a + 1 /\ x[1].text = L[b]
    ELSE b = a

\* From entry to entry, the lines of a pipe from one to another.
Accounts(p, L, s, a, b) ==
    \E f \in [0..Len(s) -> 0..Len(L)] :
        /\ f[0] = a /\ f[Len(s)] = b
        /\ \A i \in 1..Len(s) : Counts(p, L, f[i - 1], s[i], f[i])

\* No entries lead from a line to itself,
LEMMA AccountsNone ==
    ASSUME NEW p, NEW L, NEW c \in 0..Len(L)
    PROVE  Accounts(p, L, <<>>, c, c)
<1> DEFINE s == <<>>
           f == [i \in 0..Len(s) |-> c]
<1>1. Len(s) = 0
  OBVIOUS
<1>2. f \in [0..Len(s) -> 0..Len(L)] /\ f[0] = c /\ f[Len(s)] = c /\ \A i \in 1..Len(s) : FALSE
  BY <1>1
<1> HIDE DEF f, s
<1>3. Accounts(p, L, s, c, c)
  BY <1>2 DEF Accounts
<1> QED
  BY <1>3 DEF s

\* and nowhere else.
LEMMA AccountsEnd ==
    ASSUME NEW p, NEW L, NEW a, NEW b, Accounts(p, L, <<>>, a, b)
    PROVE  a = b
<1> DEFINE s == <<>>
<1>1. Len(s) = 0
  OBVIOUS
<1> HIDE DEF s
<1>2. Accounts(p, L, s, a, b)
  BY DEF s
<1> QED
  BY <1>1, <1>2 DEF Accounts

\* The first entry leads to where the others begin.
LEMMA AccountsHead ==
    ASSUME NEW p, NEW L, NEW S, NEW s \in Seq(S), s # <<>>, NEW a, NEW b, Accounts(p, L, s, a, b)
    PROVE  \E c \in 0..Len(L) : Counts(p, L, a, Head(s), c) /\ Accounts(p, L, Tail(s), c, b)
<1>1. PICK f \in [0..Len(s) -> 0..Len(L)] :
          /\ f[0] = a /\ f[Len(s)] = b
          /\ \A i \in 1..Len(s) : Counts(p, L, f[i - 1], s[i], f[i])
  BY DEF Accounts
<1> DEFINE t == Tail(s)
           g == [i \in 0..Len(t) |-> f[i + 1]]
<1>2. /\ Len(s) \in Nat /\ Len(s) >= 1 /\ Len(t) = Len(s) - 1 /\ Head(s) = s[1]
      /\ \A i \in 1..(Len(s) - 1) : t[i] = s[i + 1]
  BY HeadTailProperties
<1> HIDE DEF t
<1>3. g \in [0..Len(t) -> 0..Len(L)]
  <2>1. \A i \in 0..Len(t) : i + 1 \in 0..Len(s)
    BY <1>2
  <2>2. \A i \in 0..Len(t) : f[i + 1] \in 0..Len(L)
    BY <2>1
  <2> QED
    BY <2>2
<1>4. g[0] = f[1] /\ g[Len(t)] = b
  BY <1>1, <1>2
<1>5. ASSUME NEW i \in 1..Len(t) PROVE Counts(p, L, g[i - 1], t[i], g[i])
  <2> DEFINE j == i + 1
  <2>1. /\ i - 1 \in 0..Len(t) /\ i \in 0..Len(t) /\ (i - 1) + 1 = j - 1 /\ j \in 1..Len(s)
        /\ i \in 1..(Len(s) - 1)
    BY <1>2
  <2>2. g[i - 1] = f[j - 1] /\ g[i] = f[j]
    BY <2>1
  <2>3. t[i] = s[j]
    BY <1>2, <2>1
  <2> HIDE DEF g, j
  <2>4. Counts(p, L, f[j - 1], s[j], f[j])
    BY <1>1, <2>1
  <2> QED
    BY <2>2, <2>3, <2>4
<1> HIDE DEF g
<1>6. Accounts(p, L, t, f[1], b)
  BY <1>3, <1>4, <1>5 DEF Accounts
<1>7. Counts(p, L, a, Head(s), f[1])
  <2>1. 1 \in 1..Len(s) /\ 1 - 1 = 0
    BY <1>2
  <2>2. Counts(p, L, f[1 - 1], s[1], f[1])
    BY <1>1, <2>1
  <2> QED
    BY <1>1, <1>2, <2>1, <2>2
<1>8. f[1] \in 0..Len(L)
  BY <1>2
<1> QED
  BY <1>6, <1>7, <1>8 DEF t

\* One more entry leads on.
LEMMA AccountsMore ==
    ASSUME NEW p, NEW L, NEW S, NEW s \in Seq(S), NEW a, NEW b, Accounts(p, L, s, a, b),
           NEW x \in S, NEW c \in 0..Len(L), Counts(p, L, b, x, c)
    PROVE  Accounts(p, L, Append(s, x), a, c)
<1>1. PICK f \in [0..Len(s) -> 0..Len(L)] :
          /\ f[0] = a /\ f[Len(s)] = b
          /\ \A i \in 1..Len(s) : Counts(p, L, f[i - 1], s[i], f[i])
  BY DEF Accounts
<1> DEFINE t == Append(s, x)
           N == Len(s)
           g == [i \in 0..Len(t) |-> IF i <= N THEN f[i] ELSE c]
<1>2. /\ N \in Nat /\ Len(t) = N + 1 /\ t[N + 1] = x
      /\ \A i \in 1..N : t[i] = s[i]
  BY AppendProperties
<1> HIDE DEF t
<1>3. g \in [0..Len(t) -> 0..Len(L)]
  <2>1. \A i \in 0..Len(t) : i <= N => i \in 0..N
    BY <1>2
  <2>2. \A i \in 0..Len(t) : (IF i <= N THEN f[i] ELSE c) \in 0..Len(L)
    BY <2>1
  <2> QED
    BY <2>2
<1>4. g[0] = a /\ g[Len(t)] = c
  <2>1. 0 \in 0..Len(t) /\ 0 <= N /\ Len(t) \in 0..Len(t) /\ ~(Len(t) <= N)
    BY <1>2
  <2> QED
    BY <1>1, <2>1
<1>5. ASSUME NEW i \in 1..Len(t) PROVE Counts(p, L, g[i - 1], t[i], g[i])
  <2>1. i - 1 \in 0..Len(t) /\ i \in 0..Len(t) /\ i - 1 <= N
    BY <1>2
  <2>2. g[i - 1] = f[i - 1]
    BY <2>1
  <2>3. CASE i <= N
    <3>1. g[i] = f[i] /\ i \in 1..N
      BY <2>1, <2>3
    <3> HIDE DEF g
    <3> QED
      BY <1>1, <1>2, <2>2, <3>1
  <2>4. CASE ~(i <= N)
    <3>1. g[i] = c /\ i = N + 1 /\ i - 1 = N
      BY <1>2, <2>1, <2>4
    <3> HIDE DEF g
    <3>2. g[i - 1] = b /\ t[i] = x
      BY <1>1, <1>2, <2>2, <3>1
    <3> QED
      BY <3>1, <3>2
  <2> QED
    BY <2>3, <2>4
<1> HIDE DEF g
<1>6. Accounts(p, L, t, a, c)
  BY <1>3, <1>4, <1>5 DEF Accounts
<1> QED
  BY <1>6 DEF t

\* The lines up to a place, put one by one.
LEMMA AccountsLines ==
    ASSUME NEW p \in Pipe, NEW W \in Text, NEW n, NEW r \in Nat, NEW S, TakenAt(W, r, S, n)
    PROVE  /\ Settled(p, S) \in Seq(Puttable(p))
           /\ Accounts(p, Lines(W), Settled(p, S), r, Rank(W, n))
           /\ Settled(p, S) = <<>> <=> S = <<>>
<1> DEFINE L == Lines(W)
           N == Len(S)
           s == Settled(p, S)
           f == [i \in 0..Len(s) |-> r + i]
<1>1. /\ N \in Nat /\ DOMAIN S = 1..N /\ S \in Seq(Text) /\ Rank(W, n) = r + N
      /\ \A k \in 1..N : S[k] = L[r + k] /\ S[k] \in Text
  BY DEF TakenAt
<1>2. s = [i \in 1..N |-> <<[pipe |-> p, text |-> S[i], transient |-> FALSE]>>]
  BY <1>1 DEF Settled, Item
<1>3. \A i \in 1..N : <<[pipe |-> p, text |-> S[i], transient |-> FALSE]>> \in Puttable(p)
  BY <1>1 DEF Puttable
<1>4. Rank(W, n) \in 0..Len(L)
  BY RankMost
<1> HIDE DEF s, N, L
<1>5. s \in [1..N -> Puttable(p)]
  BY <1>2, <1>3
<1>6. s \in Seq(Puttable(p)) /\ Len(s) = N
  BY <1>1, <1>5
<1>7. f \in [0..Len(s) -> 0..Len(L)]
  <2>1. Len(L) \in Nat /\ r + N <= Len(L)
    BY <1>1, <1>4, LineCount DEF L
  <2>2. \A i \in 0..N : r + i \in 0..Len(L)
    BY <1>1, <2>1
  <2> QED
    BY <1>6, <2>2
<1>8. f[0] = r /\ f[Len(s)] = Rank(W, n)
  BY <1>1, <1>6
<1>9. ASSUME NEW i \in 1..Len(s) PROVE Counts(p, L, f[i - 1], s[i], f[i])
  <2> DEFINE x == [pipe |-> p, text |-> S[i], transient |-> FALSE]
  <2>1. i - 1 \in 0..Len(s) /\ i \in 0..Len(s) /\ i \in 1..N /\ r + i = (r + (i - 1)) + 1
    BY <1>1, <1>6
  <2>2. f[i - 1] = r + (i - 1) /\ f[i] = r + i
    BY <2>1
  <2>3. s[i] = <<x>>
    BY <1>2, <2>1
  <2>4. x.pipe = p /\ x.transient = FALSE /\ x.text = L[r + i]
    BY <1>1, <2>1
  <2> HIDE DEF f, x
  <2>5. s[i] # End /\ s[i][1] = x
    BY <2>3 DEF End
  <2> QED
    BY <2>1, <2>2, <2>4, <2>5 DEF Counts
<1> HIDE DEF f
<1>10. Accounts(p, L, s, r, Rank(W, n))
  BY <1>7, <1>8, <1>9 DEF Accounts
<1>11. s = <<>> <=> S = <<>>
  BY <1>1, <1>6 DEF N
<1> QED
  BY <1>6, <1>10, <1>11 DEF s, L

-----------------------------------------------------------------------------
(* What holds while the pumps run.                                         *)

\* The lines of a pipe, how much of it is read, and how many lines have been
\* found in that.
All(p) == Lines(written[p])
At(p) == Len(written[p]) - Len(left[p])
Found(p) == IF pump[p] \in {"read", "put"} THEN Rank(written[p], At(p)) ELSE Len(All(p))

\* What the consumer was given is how the lines begin.
GivenOK(p) ==
    /\ Len(got[p]) <= Len(All(p))
    /\ \A k \in 1..Len(got[p]) : got[p][k] = All(p)[k]

\* A pump has the rest of its pipe before it.
BehindOK(p) ==
    /\ left[p] \in Text /\ Len(left[p]) <= Len(written[p])
    /\ \A i \in 1..Len(left[p]) : left[p][i] = written[p][At(p) + i]

\* What is between the consumer and a pump: the lines the one has not been given
\* of those that the other has found, first those in the queue.
BetweenOK(p) ==
    \E c \in 0..Len(All(p)) :
        /\ Accounts(p, All(p), queue, Len(got[p]), c)
        /\ Accounts(p, All(p), outgoing[p], c, Found(p))

PumpOK(p) ==
    /\ pump[p] \in {"read", "put", "last", "done"}
    /\ outgoing[p] \in Seq(Puttable(p))
    /\ outgoing[p] = <<>> <=> pump[p] \in {"read", "done"}
    /\ pump[p] \in {"read", "put"} => Holds(written[p], At(p), buffer[p])

\* The end comes last, behind all the pumps.
QueueOK ==
    /\ queue \in Seq(Entry)
    /\ \A i \in 1..Len(queue) : queue[i] = End => i = Len(queue) /\ closer = "done"
    /\ closer = "done" => \A p \in Pipe : pump[p] = "done"

Flowing ==
    /\ DOMAIN left = Pipe /\ DOMAIN pump = Pipe /\ DOMAIN buffer = Pipe
    /\ DOMAIN outgoing = Pipe
    /\ QueueOK
    /\ \A p \in Pipe : BehindOK(p) /\ BetweenOK(p) /\ PumpOK(p)

FlowInv ==
    /\ written \in [Pipe -> Text] /\ got \in [Pipe -> Seq(Text)] /\ whole \in BOOLEAN
    /\ \A p \in Pipe : GivenOK(p)
    /\ whole => consumer # "on" /\ \A p \in Pipe : got[p] = All(p)
    /\ consumer = "on" => Flowing

\* At the start nothing is found.
LEMMA FlowInit == PumpInit => FlowInv
<1> SUFFICES ASSUME PumpInit PROVE FlowInv
  OBVIOUS
<1>1. written \in [Pipe -> Text] /\ left = written
  BY LogPumpAssumption DEF LogPumpAssumption, PumpInit, Text
<1>2. /\ pump = [p \in Pipe |-> "read"] /\ buffer = [p \in Pipe |-> <<>>]
      /\ outgoing = [p \in Pipe |-> <<>>] /\ got = [p \in Pipe |-> <<>>]
      /\ closer = "wait" /\ queue = <<>> /\ whole = FALSE
  BY DEF PumpInit
<1>3. ASSUME NEW p \in Pipe PROVE GivenOK(p) /\ BehindOK(p) /\ BetweenOK(p) /\ PumpOK(p)
  <2> DEFINE W == written[p]
  <2>1. W \in Text /\ Len(W) \in Nat /\ got[p] = <<>> /\ pump[p] = "read" /\ outgoing[p] = <<>>
        /\ buffer[p] = <<>> /\ left[p] = W
    BY <1>1, <1>2 DEF Text
  <2>2. At(p) = 0
    BY <2>1 DEF At
  <2>3. Found(p) = 0
    BY <2>1, <2>2, Ranks DEF Found
  <2>4. Len(All(p)) \in Nat
    BY <2>1, LineCount DEF All
  <2>5. GivenOK(p)
    BY <2>1, <2>4 DEF GivenOK
  <2>6. BehindOK(p)
    BY <2>1, <2>2 DEF BehindOK
  <2>7. BetweenOK(p)
    <3>1. 0 \in 0..Len(All(p)) /\ Len(got[p]) = 0
      BY <2>1, <2>4
    <3>2. Accounts(p, All(p), <<>>, 0, 0)
      BY <3>1, AccountsNone
    <3> QED
      BY <1>2, <2>1, <2>3, <3>1, <3>2 DEF BetweenOK
  <2>8. PumpOK(p)
    <3>1. HoldsFrom(W, 0, 0, <<>>) /\ 0 \in 0..0
      BY <2>1, HoldsNothing
    <3>2. Holds(W, 0, <<>>)
      BY <3>1 DEF Holds
    <3> QED
      BY <2>1, <2>2, <3>2 DEF PumpOK
  <2> QED
    BY <2>5, <2>6, <2>7, <2>8
<1>4. QueueOK
  BY <1>2 DEF QueueOK
<1>5. Flowing
  BY <1>1, <1>2, <1>3, <1>4 DEF Flowing
<1>6. got \in [Pipe -> Seq(Text)]
  BY <1>2
<1> QED
  BY <1>1, <1>2, <1>3, <1>5, <1>6 DEF FlowInv

\* A pump finds the lines in what it reads.
LEMMA FlowReads ==
    ASSUME FlowInv, consumer = "on", NEW p \in Pipe, Reads(p)
    PROVE  FlowInv'
<1> DEFINE W == written[p]
           L == All(p)
           a == At(p)
<1>1. PICK n \in 1..Len(left[p]), due \in BOOLEAN :
          LET cut == Cut(buffer[p], SubSeq(left[p], 1, n))
              lines == Settled(p, cut.states)
              before == IF lines = <<>> THEN shown[p] ELSE <<>>
              redraw == Redraw(p, cut.rest, before, due)
          IN  /\ left' = [left EXCEPT ![p] = SubSeq(@, n + 1, Len(@))]
              /\ buffer' = [buffer EXCEPT ![p] = cut.rest]
              /\ outgoing' = [outgoing EXCEPT ![p] = lines \o redraw]
              /\ pump' = [pump EXCEPT ![p] = IF lines \o redraw = <<>> THEN "read" ELSE "put"]
  BY DEF Reads
<1> DEFINE chunk == SubSeq(left[p], 1, n)
           cut == Cut(buffer[p], chunk)
           lines == Settled(p, cut.states)
           before == IF lines = <<>> THEN shown[p] ELSE <<>>
           redraw == Redraw(p, cut.rest, before, due)
           rest == SubSeq(left[p], n + 1, Len(left[p]))
<1>2. /\ left' = [left EXCEPT ![p] = rest]
      /\ buffer' = [buffer EXCEPT ![p] = cut.rest]
      /\ outgoing' = [outgoing EXCEPT ![p] = lines \o redraw]
      /\ pump' = [pump EXCEPT ![p] = IF lines \o redraw = <<>> THEN "read" ELSE "put"]
  BY <1>1
<1>3. /\ pump[p] = "read"
      /\ UNCHANGED <<written, client, closer, queue, consumer, whole, got>>
  BY DEF Reads
<1>4. /\ W \in Text /\ Flowing /\ BehindOK(p) /\ PumpOK(p) /\ BetweenOK(p)
      /\ left[p] \in Text /\ Len(left[p]) \in Nat /\ Len(W) \in Nat /\ Len(left[p]) <= Len(W)
      /\ a = Len(W) - Len(left[p]) /\ a \in 0..Len(W)
      /\ Holds(W, a, buffer[p]) /\ n \in Nat /\ n >= 1 /\ n <= Len(left[p])
  <2>1. W \in Text /\ Flowing /\ BehindOK(p) /\ PumpOK(p) /\ BetweenOK(p)
    BY DEF FlowInv, Flowing
  <2>2. left[p] \in Text /\ Len(left[p]) \in Nat /\ Len(W) \in Nat /\ Len(left[p]) <= Len(W)
    BY <2>1 DEF BehindOK, Text
  <2>3. a = Len(W) - Len(left[p]) /\ a \in 0..Len(W)
    <3> DEFINE y == Len(left[p])
               z == Len(W)
    <3>1. a = z - y
      BY DEF At
    <3>2. y \in Nat /\ z \in Nat /\ y <= z
      BY <2>2
    <3> HIDE DEF a, y, z
    <3>3. a = z - y /\ a \in 0..z
      BY <3>1, <3>2
    <3> QED
      BY <3>3 DEF y, z
  <2>4. Holds(W, a, buffer[p])
    BY <1>3, <2>1 DEF PumpOK
  <2> HIDE DEF W, a
  <2> QED
    BY <2>1, <2>2, <2>3, <2>4
<1>5. chunk \in Text /\ Len(chunk) = n /\ \A i \in 1..n : chunk[i] = left[p][i]
  <2> DEFINE s == left[p]
  <2>1. s \in Seq(STRING) /\ 1 \in 1..(Len(s) + 1) /\ n \in (1 - 1)..Len(s)
    BY <1>4 DEF Text
  <2>2. n - 1 + 1 = n /\ \A i \in 1..n : 1 + i - 1 = i
    BY <1>4
  <2> HIDE DEF s
  <2>3. /\ SubSeq(s, 1, n) \in Seq(STRING)
        /\ Len(SubSeq(s, 1, n)) = IF 1 <= n THEN n - 1 + 1 ELSE 0
        /\ \A i \in 1..(n - 1 + 1) : SubSeq(s, 1, n)[i] = s[1 + i - 1]
    BY <2>1, SubSeqProperties
  <2>4. SubSeq(s, 1, n) \in Text /\ Len(SubSeq(s, 1, n)) = n /\ \A i \in 1..n : SubSeq(s, 1, n)[i] = s[i]
    BY <1>4, <2>2, <2>3 DEF Text
  <2> QED
    BY <2>4 DEF s
<1>6. rest \in Text /\ Len(rest) = Len(left[p]) - n /\ \A i \in 1..(Len(left[p]) - n) : rest[i] = left[p][n + i]
  <2> DEFINE s == left[p]
             f == n + 1
             N == Len(s)
  <2>1. s \in Seq(STRING) /\ f \in 1..(Len(s) + 1) /\ N \in (f - 1)..Len(s)
    BY <1>4 DEF Text
  <2>2. N - f + 1 = N - n /\ \A i \in 1..(N - n) : f + i - 1 = n + i
    BY <1>4
  <2>7. ~(f <= N) => N - n = 0
    BY <1>4
  <2> HIDE DEF s, N, f
  <2>3. /\ SubSeq(s, f, N) \in Seq(STRING)
        /\ Len(SubSeq(s, f, N)) = IF f <= N THEN N - f + 1 ELSE 0
        /\ \A i \in 1..(N - f + 1) : SubSeq(s, f, N)[i] = s[f + i - 1]
    BY <2>1, SubSeqProperties
  <2>4. SubSeq(s, f, N) \in Text /\ Len(SubSeq(s, f, N)) = N - n /\ \A i \in 1..(N - n) : SubSeq(s, f, N)[i] = s[n + i]
    BY <2>2, <2>3, <2>7 DEF Text
  <2> QED
    BY <2>4 DEF s, N, f
<1> HIDE DEF chunk, rest
<1>7. /\ cut \in Pieces /\ Holds(W, a + n, cut.rest)
      /\ TakenAt(W, Rank(W, a), cut.states, a + n)
  <2>1. a + Len(chunk) = a + n /\ a + n <= Len(W)
    <3> DEFINE y == Len(left[p])
               z == Len(W)
    <3>1. a = z - y /\ y \in Nat /\ z \in Nat /\ n \in Nat /\ n <= y /\ Len(chunk) = n
      BY <1>4, <1>5
    <3> HIDE DEF a, y, z
    <3>2. a + Len(chunk) = a + n /\ a + n <= z
      BY <3>1
    <3> QED
      BY <3>2 DEF z
  <2>2. \A i \in 1..Len(chunk) : chunk[i] = W[a + i]
    <3> TAKE i \in 1..Len(chunk)
    <3>1. i \in 1..n /\ i \in 1..Len(left[p])
      BY <1>4, <1>5
    <3> QED
      BY <1>4, <1>5, <3>1 DEF BehindOK
  <2> HIDE DEF W, a
  <2> QED
    BY <1>4, <1>5, <2>1, <2>2, CutTaken
<1> HIDE DEF cut
<1>8. Rank(W, a) \in Nat /\ Rank(W, a + n) \in 0..Len(L) /\ Rank(W, a) \in 0..Len(L)
  <2>1. \A k : Rank(W, k) \in 0..Len(L)
    BY <1>4, RankMost DEF All
  <2> QED
    BY <2>1
<1>9. /\ lines \in Seq(Puttable(p))
      /\ Accounts(p, L, lines, Rank(W, a), Rank(W, a + n))
  BY <1>4, <1>7, <1>8, AccountsLines DEF All
<1>10. redraw = <<>> \/ \E x \in Puttable(p) : redraw = <<x>> /\ x # End /\ x[1].transient = TRUE
  <2> DEFINE t == LastState(cut.rest)
             x == <<[pipe |-> p, text |-> t, transient |-> TRUE]>>
  <2>1. cut.rest \in Text
    BY <1>7 DEF Pieces
  <2>2. t \in Text
    BY <2>1, LastStateType
  <2> HIDE DEF t
  <2>3. x \in Puttable(p) /\ x # End /\ x[1].transient = TRUE
    BY <2>2 DEF Puttable, End
  <2>4. redraw = <<>> \/ redraw = <<x>>
    BY DEF Redraw, Item, t
  <2> HIDE DEF x
  <2> QED
    BY <2>3, <2>4
<1> HIDE DEF lines, redraw
<1>11. /\ lines \o redraw \in Seq(Puttable(p))
       /\ Accounts(p, L, lines \o redraw, Rank(W, a), Rank(W, a + n))
  <2>1. CASE redraw = <<>>
    <3>1. lines \o redraw = lines
      BY <1>9, <2>1, ConcatEmptySeq
    <3> QED
      BY <1>9, <3>1
  <2>2. ASSUME NEW x \in Puttable(p), redraw = <<x>>, x # End, x[1].transient = TRUE
        PROVE  /\ lines \o redraw \in Seq(Puttable(p))
               /\ Accounts(p, L, lines \o redraw, Rank(W, a), Rank(W, a + n))
    <3>1. lines \o redraw = Append(lines, x)
      BY <1>9, <2>2, AppendIsConcat
    <3>2. Append(lines, x) \in Seq(Puttable(p))
      BY <1>9, <2>2, AppendProperties
    <3> DEFINE r == Rank(W, a + n)
    <3>3. Counts(p, L, r, x, r)
      BY <2>2 DEF Counts
    <3> HIDE DEF r, L
    <3>4. Accounts(p, L, Append(lines, x), Rank(W, a), r)
      BY <1>8, <1>9, <2>2, <3>3, AccountsMore DEF r
    <3> QED
      BY <3>1, <3>2, <3>4 DEF r
  <2> QED
    BY <1>10, <2>1, <2>2
<1>12. /\ DOMAIN left = Pipe /\ DOMAIN pump = Pipe /\ DOMAIN buffer = Pipe /\ DOMAIN outgoing = Pipe
  BY <1>4 DEF Flowing
<1>13. /\ left'[p] = rest /\ buffer'[p] = cut.rest /\ outgoing'[p] = lines \o redraw
       /\ pump'[p] = IF lines \o redraw = <<>> THEN "read" ELSE "put"
  BY <1>2, <1>12
<1>14. At(p)' = a + n /\ Found(p)' = Rank(W, a + n) /\ All(p)' = L
  <2>1. At(p)' = a + n
    <3> DEFINE y == Len(left[p])
               z == Len(W)
    <3>1. At(p)' = z - (y - n)
      BY <1>3, <1>6, <1>13 DEF At
    <3>2. a = z - y /\ y \in Nat /\ z \in Nat /\ n \in Nat
      BY <1>4
    <3> HIDE DEF a, y, z
    <3> QED
      BY <3>1, <3>2
  <2>2. pump'[p] \in {"read", "put"}
    BY <1>13
  <2>3. Found(p)' = Rank(W, a + n)
    BY <1>3, <2>1, <2>2 DEF Found
  <2> QED
    BY <1>3, <2>1, <2>3 DEF All
<1>15. BehindOK(p)'
  <2>1. left'[p] \in Text /\ Len(left'[p]) <= Len(written'[p])
    BY <1>3, <1>4, <1>6, <1>13
  <2>2. ASSUME NEW i \in 1..Len(left'[p]) PROVE left'[p][i] = written'[p][(a + n) + i]
    <3>1. i \in 1..(Len(left[p]) - n) /\ n + i \in 1..Len(left[p]) /\ (a + n) + i = a + (n + i)
      <4> DEFINE y == Len(left[p])
                 z == Len(W)
      <4>1. a = z - y /\ y \in Nat /\ z \in Nat /\ n \in Nat /\ n <= y
        BY <1>4
      <4>2. i \in 1..(y - n)
        BY <1>6, <1>13
      <4> HIDE DEF a, y, z
      <4>3. i \in 1..(y - n) /\ n + i \in 1..y /\ (a + n) + i = a + (n + i)
        BY <4>1, <4>2
      <4> QED
        BY <4>3 DEF y
    <3>2. left[p][n + i] = W[a + (n + i)]
      BY <1>4, <3>1 DEF BehindOK
    <3> QED
      BY <1>3, <1>6, <1>13, <3>1, <3>2
  <2> HIDE DEF a
  <2> QED
    BY <1>14, <2>1, <2>2 DEF BehindOK
<1>16. BetweenOK(p)'
  <2>1. PICK c \in 0..Len(L) : /\ Accounts(p, L, queue, Len(got[p]), c)
                               /\ Accounts(p, L, outgoing[p], c, Found(p))
    BY <1>4 DEF BetweenOK
  <2>2. outgoing[p] = <<>> /\ Found(p) = Rank(W, a)
    BY <1>3, <1>4 DEF PumpOK, Found
  <2>3. c = Rank(W, a)
    BY <2>1, <2>2, AccountsEnd
  <2>4. Accounts(p, L, outgoing'[p], c, Rank(W, a + n))
    BY <1>11, <1>13, <2>3
  <2> HIDE DEF L, a, W
  <2> QED
    BY <1>3, <1>14, <2>1, <2>4 DEF BetweenOK
<1>17. PumpOK(p)'
  <2>1. outgoing'[p] = <<>> <=> pump'[p] \in {"read", "done"}
    BY <1>13
  <2>2. Holds(written'[p], At(p)', buffer'[p])
    BY <1>3, <1>7, <1>13, <1>14
  <2>3. outgoing'[p] \in Seq(Puttable(p))
    BY <1>11, <1>13
  <2> QED
    BY <1>13, <2>1, <2>2, <2>3 DEF PumpOK
<1>18. ASSUME NEW q \in Pipe, q # p PROVE BehindOK(q)' /\ BetweenOK(q)' /\ PumpOK(q)'
  <2>1. left'[q] = left[q] /\ buffer'[q] = buffer[q] /\ outgoing'[q] = outgoing[q] /\ pump'[q] = pump[q]
    BY <1>2, <1>12, <1>18
  <2>2. At(q)' = At(q) /\ Found(q)' = Found(q) /\ All(q)' = All(q)
    BY <1>3, <2>1 DEF At, Found, All
  <2>3. BehindOK(q) /\ BetweenOK(q) /\ PumpOK(q)
    BY <1>4 DEF Flowing
  <2> QED
    BY <1>3, <2>1, <2>2, <2>3 DEF BehindOK, BetweenOK, PumpOK
<1>19. QueueOK'
  <2>1. closer # "done"
    BY <1>3, <1>4 DEF Flowing, QueueOK
  <2> QED
    BY <1>3, <1>4, <2>1 DEF Flowing, QueueOK
<1>20. /\ DOMAIN left' = Pipe /\ DOMAIN pump' = Pipe /\ DOMAIN buffer' = Pipe /\ DOMAIN outgoing' = Pipe
  BY <1>2, <1>12
<1>21. Flowing'
  BY <1>15, <1>16, <1>17, <1>18, <1>19, <1>20 DEF Flowing
<1> QED
  BY <1>3, <1>21 DEF FlowInv, GivenOK, All

\* At the end of its pipe a pump finds the line that no newline ends.
LEMMA FlowReadsEnd ==
    ASSUME FlowInv, consumer = "on", NEW p \in Pipe, ReadsEnd(p)
    PROVE  FlowInv'
<1> DEFINE W == written[p]
           L == All(p)
           N == Len(W)
           b == buffer[p]
           S == With(<<>>, b)
           lines == Settled(p, S)
<1>1. /\ pump[p] = "read" /\ left[p] = <<>>
      /\ outgoing' = [outgoing EXCEPT ![p] = lines]
      /\ buffer' = [buffer EXCEPT ![p] = <<>>]
      /\ pump' = [pump EXCEPT ![p] = IF outgoing'[p] = <<>> THEN "done" ELSE "last"]
      /\ UNCHANGED <<written, left, shown, client, closer, queue, consumer, whole, got>>
  BY DEF ReadsEnd
<1>2. /\ W \in Text /\ Flowing /\ BehindOK(p) /\ PumpOK(p) /\ BetweenOK(p)
  BY DEF FlowInv, Flowing
<1>3. N \in Nat /\ N \in 0..N /\ N + 1 \in Stops(W)
  <2>1. N \in Nat
    BY <1>2 DEF Text
  <2> QED
    BY <2>1 DEF Stops
<1>4. At(p) = N
  BY <1>1, <1>3 DEF At
<1>5. Holds(W, N, b)
  BY <1>1, <1>2, <1>4 DEF PumpOK
<1>6. TakenAt(W, Rank(W, N), <<>>, N) /\ Rank(W, N) \in Nat /\ Rank(W, N) \in 0..Len(L)
  <2> DEFINE r == Rank(W, N)
  <2>1. r \in Nat
    BY <1>2, <1>3, Ranks
  <2>2. r \in 0..Len(L)
    BY <1>2, RankMost DEF All
  <2>3. <<>> \in Seq(Text) /\ Len(<<>>) = 0 /\ r = r + 0 /\ \A k \in 1..0 : FALSE
    BY <2>1
  <2>4. TakenAt(W, r, <<>>, N)
    BY <2>3 DEF TakenAt
  <2> QED
    BY <2>1, <2>2, <2>4
<1>7. TakenAt(W, Rank(W, N), S, N + 1)
  <2> HIDE DEF W, b
  <2> QED
    BY <1>2, <1>3, <1>5, <1>6, StateTaken
<1> HIDE DEF S
<1>8. Rank(W, N + 1) = Len(L)
  BY <1>2, LineCount DEF All
<1>9. /\ lines \in Seq(Puttable(p))
      /\ Accounts(p, L, lines, Rank(W, N), Len(L))
  BY <1>2, <1>6, <1>7, <1>8, AccountsLines DEF All
<1> HIDE DEF lines
<1>10. /\ DOMAIN left = Pipe /\ DOMAIN pump = Pipe /\ DOMAIN buffer = Pipe /\ DOMAIN outgoing = Pipe
  BY <1>2 DEF Flowing
<1>11. outgoing'[p] = lines /\ pump'[p] = IF lines = <<>> THEN "done" ELSE "last"
  BY <1>1, <1>10
<1>12. At(p)' = At(p) /\ Found(p)' = Len(L) /\ All(p)' = L
  <2>1. pump'[p] \notin {"read", "put"}
    BY <1>11
  <2>2. All(p)' = L /\ At(p)' = At(p)
    BY <1>1 DEF All, At
  <2> HIDE DEF L
  <2>3. Found(p)' = Len(L)
    BY <2>1, <2>2 DEF Found
  <2> QED
    BY <2>2, <2>3
<1>13. BehindOK(p)'
  BY <1>1, <1>2, <1>12 DEF BehindOK
<1>14. BetweenOK(p)'
  <2>1. PICK c \in 0..Len(L) : /\ Accounts(p, L, queue, Len(got[p]), c)
                               /\ Accounts(p, L, outgoing[p], c, Found(p))
    BY <1>2 DEF BetweenOK
  <2>2. outgoing[p] = <<>> /\ Found(p) = Rank(W, N)
    BY <1>1, <1>2, <1>4 DEF PumpOK, Found
  <2>3. c = Rank(W, N)
    BY <2>1, <2>2, AccountsEnd
  <2>4. Accounts(p, L, outgoing'[p], c, Len(L))
    BY <1>9, <1>11, <2>3
  <2> HIDE DEF L, N, W
  <2> QED
    BY <1>1, <1>12, <2>1, <2>4 DEF BetweenOK
<1>15. PumpOK(p)'
  <2>1. outgoing'[p] = <<>> <=> pump'[p] \in {"read", "done"}
    BY <1>11
  <2>2. pump'[p] \in {"last", "done"}
    BY <1>11
  <2>3. outgoing'[p] \in Seq(Puttable(p))
    BY <1>9, <1>11
  <2> QED
    BY <2>1, <2>2, <2>3 DEF PumpOK
<1>16. ASSUME NEW q \in Pipe, q # p PROVE BehindOK(q)' /\ BetweenOK(q)' /\ PumpOK(q)'
  <2>1. left'[q] = left[q] /\ buffer'[q] = buffer[q] /\ outgoing'[q] = outgoing[q] /\ pump'[q] = pump[q]
    BY <1>1, <1>10, <1>16
  <2>2. At(q)' = At(q) /\ Found(q)' = Found(q) /\ All(q)' = All(q)
    BY <1>1, <2>1 DEF At, Found, All
  <2>3. BehindOK(q) /\ BetweenOK(q) /\ PumpOK(q)
    BY <1>2 DEF Flowing
  <2> QED
    BY <1>1, <2>1, <2>2, <2>3 DEF BehindOK, BetweenOK, PumpOK
<1>17. QueueOK'
  <2>1. closer # "done"
    BY <1>1, <1>2 DEF Flowing, QueueOK
  <2> QED
    BY <1>1, <1>2, <2>1 DEF Flowing, QueueOK
<1>18. /\ DOMAIN left' = Pipe /\ DOMAIN pump' = Pipe /\ DOMAIN buffer' = Pipe /\ DOMAIN outgoing' = Pipe
  BY <1>1, <1>10
<1>19. Flowing'
  BY <1>13, <1>14, <1>15, <1>16, <1>17, <1>18 DEF Flowing
<1> QED
  BY <1>1, <1>19 DEF FlowInv, GivenOK, All

\* What a pump puts into the queue is not lost on the way.
LEMMA FlowPuts ==
    ASSUME FlowInv, consumer = "on", NEW p \in Pipe, Puts(p)
    PROVE  FlowInv'
<1> DEFINE out == outgoing[p]
           x == Head(out)
           rest == Tail(out)
<1>1. /\ pump[p] \in {"put", "last"}
      /\ queue' = Append(queue, x)
      /\ outgoing' = [outgoing EXCEPT ![p] = rest]
      /\ pump' = [pump EXCEPT ![p] = After(p)]
      /\ UNCHANGED <<written, left, buffer, shown, client, closer, consumer, whole, got>>
  BY DEF Puts, pumping
<1>2. /\ Flowing /\ BehindOK(p) /\ PumpOK(p) /\ BetweenOK(p) /\ QueueOK
  BY DEF FlowInv, Flowing
<1>3. /\ DOMAIN left = Pipe /\ DOMAIN pump = Pipe /\ DOMAIN buffer = Pipe /\ DOMAIN outgoing = Pipe
  BY <1>2 DEF Flowing
<1>4. out \in Seq(Puttable(p)) /\ out # <<>>
  BY <1>1, <1>2 DEF PumpOK
<1>5. /\ x \in Puttable(p) /\ rest \in Seq(Puttable(p)) /\ Len(rest) = Len(out) - 1 /\ Len(out) \in Nat
      /\ Len(out) >= 1
  <2> HIDE DEF out
  <2> QED
    BY <1>4, HeadTailProperties
<1>6. x # End /\ x[1].pipe = p /\ x \in Entry
  BY <1>5 DEF Puttable, Entry, End
<1>7. outgoing'[p] = rest /\ pump'[p] = After(p)
  BY <1>1, <1>3
<1>8. After(p) = IF Len(out) > 1 THEN pump[p] ELSE IF pump[p] = "last" THEN "done" ELSE "read"
  BY DEF After
<1>9. rest = <<>> <=> ~(Len(out) > 1)
  <2>1. rest = <<>> <=> Len(rest) = 0
    <3> HIDE DEF rest
    <3> QED
      BY <1>5, EmptySeq
  <2> HIDE DEF rest, out
  <2> QED
    BY <1>5, <2>1
<1> HIDE DEF rest, out, x
<1>10. At(p)' = At(p) /\ Found(p)' = Found(p) /\ All(p)' = All(p)
  <2>1. pump'[p] \in {"read", "put"} <=> pump[p] \in {"read", "put"}
    BY <1>1, <1>7, <1>8
  <2> QED
    BY <1>1, <2>1 DEF At, Found, All
<1>11. BehindOK(p)'
  BY <1>1, <1>2, <1>10 DEF BehindOK
<1>12. PumpOK(p)'
  <2>1. outgoing'[p] = <<>> <=> pump'[p] \in {"read", "done"}
    BY <1>1, <1>7, <1>8, <1>9
  <2>2. pump'[p] \in {"read", "put", "last", "done"}
    BY <1>1, <1>7, <1>8
  <2>3. pump'[p] \in {"read", "put"} => Holds(written'[p], At(p)', buffer'[p])
    BY <1>1, <1>2, <1>7, <1>8, <1>10 DEF PumpOK
  <2> QED
    BY <1>5, <1>7, <2>1, <2>2, <2>3 DEF PumpOK
<1>13. queue \in Seq(Entry)
  BY <1>2 DEF QueueOK
<1>14. BetweenOK(p)'
  <2> DEFINE L == All(p)
             F == Found(p)
             G == Len(got[p])
  <2>1. PICK c \in 0..Len(L) : Accounts(p, L, queue, G, c) /\ Accounts(p, L, outgoing[p], c, F)
    BY <1>2 DEF BetweenOK
  <2> HIDE DEF L, F, G
  <2>2. PICK d \in 0..Len(L) : Counts(p, L, c, x, d) /\ Accounts(p, L, rest, d, F)
    BY <1>4, <2>1, AccountsHead DEF out, x, rest
  <2>3. Accounts(p, L, queue', G, d)
    BY <1>1, <1>6, <1>13, <2>1, <2>2, AccountsMore
  <2>4. All(p)' = L /\ Found(p)' = F /\ Len(got'[p]) = G
    BY <1>1, <1>10 DEF L, F, G
  <2> QED
    BY <1>7, <2>2, <2>3, <2>4 DEF BetweenOK
<1>15. ASSUME NEW q \in Pipe, q # p PROVE BehindOK(q)' /\ BetweenOK(q)' /\ PumpOK(q)'
  <2>1. left'[q] = left[q] /\ buffer'[q] = buffer[q] /\ outgoing'[q] = outgoing[q] /\ pump'[q] = pump[q]
    BY <1>1, <1>3, <1>15
  <2>2. At(q)' = At(q) /\ Found(q)' = Found(q) /\ All(q)' = All(q)
    BY <1>1, <2>1 DEF At, Found, All
  <2>3. BehindOK(q) /\ BetweenOK(q) /\ PumpOK(q)
    BY <1>2 DEF Flowing
  <2>4. BetweenOK(q)'
    <3> DEFINE L == All(q)
               F == Found(q)
               G == Len(got[q])
    <3>1. PICK c \in 0..Len(L) : Accounts(q, L, queue, G, c) /\ Accounts(q, L, outgoing[q], c, F)
      BY <2>3 DEF BetweenOK
    <3> HIDE DEF L, F, G
    <3>2. Counts(q, L, c, x, c)
      BY <1>6, <1>15 DEF Counts
    <3>3. Accounts(q, L, queue', G, c)
      BY <1>1, <1>6, <1>13, <3>1, <3>2, AccountsMore
    <3>4. All(q)' = L /\ Found(q)' = F /\ Len(got'[q]) = G
      BY <1>1, <2>2 DEF L, F, G
    <3> QED
      BY <2>1, <3>1, <3>3, <3>4 DEF BetweenOK
  <2> QED
    BY <1>1, <2>1, <2>2, <2>3, <2>4 DEF BehindOK, PumpOK
<1>16. QueueOK'
  <2>1. closer # "done"
    BY <1>1, <1>2 DEF QueueOK
  <2>2. \A i \in 1..Len(queue) : queue[i] # End
    BY <1>2, <2>1 DEF QueueOK
  <2>3. /\ queue' \in Seq(Entry) /\ Len(queue') = Len(queue) + 1 /\ Len(queue) \in Nat
        /\ \A i \in 1..Len(queue) : queue'[i] = queue[i]
        /\ queue'[Len(queue) + 1] = x
    BY <1>1, <1>6, <1>13, AppendProperties
  <2>4. ASSUME NEW i \in 1..Len(queue') PROVE queue'[i] # End
    <3>1. i \in 1..Len(queue) \/ i = Len(queue) + 1
      BY <2>3
    <3> QED
      BY <1>6, <2>2, <2>3, <3>1
  <2> QED
    BY <1>1, <2>1, <2>3, <2>4 DEF QueueOK
<1>17. /\ DOMAIN left' = Pipe /\ DOMAIN pump' = Pipe /\ DOMAIN buffer' = Pipe /\ DOMAIN outgoing' = Pipe
  BY <1>1, <1>3
<1>18. Flowing'
  BY <1>11, <1>12, <1>14, <1>15, <1>16, <1>17 DEF Flowing
<1> QED
  BY <1>1, <1>18 DEF FlowInv, GivenOK, All

\* The end comes behind what the pumps have put.
LEMMA FlowCloses ==
    ASSUME FlowInv, consumer = "on", Closes
    PROVE  FlowInv'
<1>1. /\ closer = "wait" /\ \A p \in Pipe : pump[p] = "done"
      /\ queue' = Append(queue, End)
      /\ closer' = "done"
      /\ UNCHANGED <<written, left, buffer, shown, client, pump, outgoing, consumer, whole, got>>
  BY DEF Closes, pumping
<1>2. Flowing /\ QueueOK
  BY DEF FlowInv, Flowing
<1>3. queue \in Seq(Entry) /\ End \in Entry
  BY <1>2 DEF QueueOK, Entry
<1>4. ASSUME NEW q \in Pipe PROVE BehindOK(q)' /\ BetweenOK(q)' /\ PumpOK(q)'
  <2>2. At(q)' = At(q) /\ Found(q)' = Found(q) /\ All(q)' = All(q)
    BY <1>1 DEF At, Found, All
  <2>3. BehindOK(q) /\ BetweenOK(q) /\ PumpOK(q)
    BY <1>2 DEF Flowing
  <2>4. BetweenOK(q)'
    <3> DEFINE L == All(q)
               F == Found(q)
               G == Len(got[q])
               e == End
    <3>1. PICK c \in 0..Len(L) : Accounts(q, L, queue, G, c) /\ Accounts(q, L, outgoing[q], c, F)
      BY <2>3 DEF BetweenOK
    <3> HIDE DEF L, F, G
    <3>2. Counts(q, L, c, e, c)
      BY DEF Counts
    <3> HIDE DEF e
    <3>3. Accounts(q, L, queue', G, c)
      BY <1>1, <1>3, <3>1, <3>2, AccountsMore DEF e
    <3>4. All(q)' = L /\ Found(q)' = F /\ Len(got'[q]) = G
      BY <1>1, <2>2 DEF L, F, G
    <3> QED
      BY <1>1, <3>1, <3>3, <3>4 DEF BetweenOK
  <2> QED
    BY <1>1, <2>2, <2>3, <2>4 DEF BehindOK, PumpOK
<1>5. QueueOK'
  <2>2. \A i \in 1..Len(queue) : queue[i] # End
    BY <1>1, <1>2 DEF QueueOK
  <2> DEFINE e == End
  <2> HIDE DEF e
  <2>3. /\ queue' \in Seq(Entry) /\ Len(queue') = Len(queue) + 1 /\ Len(queue) \in Nat
        /\ \A i \in 1..Len(queue) : queue'[i] = queue[i]
    BY <1>1, <1>3, AppendProperties DEF e
  <2>4. ASSUME NEW i \in 1..Len(queue'), queue'[i] = End PROVE i = Len(queue')
    <3>1. i \in 1..Len(queue) \/ i = Len(queue) + 1
      BY <2>3
    <3> QED
      BY <2>2, <2>3, <2>4, <3>1
  <2> QED
    BY <1>1, <2>3, <2>4 DEF QueueOK
<1>6. Flowing'
  BY <1>1, <1>2, <1>4, <1>5 DEF Flowing
<1> QED
  BY <1>1, <1>6 DEF FlowInv, GivenOK, All

\* The consumer is given the next line.
LEMMA FlowTakes ==
    ASSUME FlowInv, consumer = "on", Takes
    PROVE  FlowInv'
<1> DEFINE x == Head(queue)
           item == x[1]
           rest == Tail(queue)
<1>1. /\ queue # <<>> /\ x # End
      /\ got' = IF item.transient THEN got
                ELSE [got EXCEPT ![item.pipe] = Append(@, item.text)]
      /\ queue' = rest
      /\ UNCHANGED <<written, left, buffer, shown, client, pump, outgoing, closer, consumer, whole>>
  BY DEF Takes, pumping
<1>2. /\ Flowing /\ QueueOK /\ queue \in Seq(Entry) /\ written \in [Pipe -> Text] /\ got \in [Pipe -> Seq(Text)]
      /\ whole = FALSE
  BY DEF FlowInv, Flowing, QueueOK
<1>3. /\ x = queue[1] /\ x \in Entry /\ rest \in Seq(Entry) /\ Len(queue) \in Nat /\ Len(queue) >= 1
      /\ Len(rest) = Len(queue) - 1 /\ \A i \in 1..(Len(queue) - 1) : rest[i] = queue[i + 1]
  BY <1>1, <1>2, HeadTailProperties
<1>4. item.pipe \in Pipe /\ item.text \in Text /\ item.transient \in BOOLEAN
  BY <1>1, <1>3 DEF Entry, Puttable
<1>14. \A q \in Pipe : All(q)' = All(q)
  BY <1>1 DEF All
<1> HIDE DEF item, rest, x
<1>5. ASSUME NEW q \in Pipe
      PROVE  GivenOK(q)' /\ got'[q] \in Seq(Text) /\ BehindOK(q)' /\ BetweenOK(q)' /\ PumpOK(q)'
  <2>1. At(q)' = At(q) /\ Found(q)' = Found(q) /\ All(q)' = All(q)
    BY <1>1 DEF At, Found, All
  <2>2. BehindOK(q) /\ BetweenOK(q) /\ PumpOK(q) /\ GivenOK(q) /\ got[q] \in Seq(Text)
    BY <1>2 DEF Flowing, FlowInv
  <2> DEFINE L == All(q)
             F == Found(q)
             g == got[q]
             G == Len(g)
  <2>3. PICK c \in 0..Len(L) : Accounts(q, L, queue, G, c) /\ Accounts(q, L, outgoing[q], c, F)
    BY <2>2 DEF BetweenOK
  <2>4. PICK d \in 0..Len(L) : Counts(q, L, G, x, d) /\ Accounts(q, L, rest, d, c)
    <3> HIDE DEF L, F, G
    <3> QED
      BY <1>1, <1>2, <2>3, AccountsHead DEF x, rest
  <2>5. G \in Nat /\ g \in Seq(Text) /\ G <= Len(L) /\ \A k \in 1..G : g[k] = L[k]
    BY <2>2 DEF GivenOK
  <2>6. Len(L) \in Nat
    BY <1>2, LineCount DEF All
  <2>7. /\ got'[q] \in Seq(Text) /\ Len(got'[q]) = d
        /\ \A k \in 1..d : got'[q][k] = L[k]
    <3>1. CASE item.pipe = q /\ ~item.transient
      <4>1. d = G + 1 /\ item.text = L[d]
        BY <1>1, <2>4, <3>1 DEF Counts, item
      <4> DEFINE t == Append(g, item.text)
      <4>2. got'[q] = t
        BY <1>1, <1>2, <3>1
      <4>3. /\ t \in Seq(Text) /\ Len(t) = G + 1 /\ t[G + 1] = item.text
            /\ \A k \in 1..G : t[k] = g[k]
        BY <1>4, <2>5, AppendProperties
      <4> HIDE DEF t, L
      <4>4. ASSUME NEW k \in 1..d PROVE t[k] = L[k]
        <5>1. k \in 1..G \/ k = G + 1
          BY <2>5, <4>1
        <5> HIDE DEF G
        <5> QED
          BY <2>5, <4>1, <4>3, <5>1
      <4> QED
        BY <4>1, <4>2, <4>3, <4>4
    <3>2. CASE ~(item.pipe = q /\ ~item.transient)
      <4>1. d = G
        BY <2>4, <3>2 DEF Counts, item
      <4>2. got'[q] = g
        <5>1. CASE item.transient
          BY <1>1, <5>1
        <5>2. CASE ~item.transient
          BY <1>1, <1>2, <3>2, <5>2
        <5> QED
          BY <5>1, <5>2
      <4> HIDE DEF L
      <4> QED
        BY <2>5, <4>1, <4>2
    <3> QED
      BY <3>1, <3>2
  <2>8. GivenOK(q)'
    <3> HIDE DEF L
    <3>1. All(q)' = L
      BY <2>1 DEF L
    <3>2. Len(got'[q]) <= Len(L)
      BY <2>6, <2>7
    <3> QED
      BY <2>7, <3>1, <3>2 DEF GivenOK
  <2>9. BetweenOK(q)'
    <3>1. All(q)' = L /\ Found(q)' = F
      BY <2>1
    <3> HIDE DEF L, F, G
    <3> QED
      BY <1>1, <2>3, <2>4, <2>7, <3>1 DEF BetweenOK
  <2> QED
    BY <1>1, <2>1, <2>2, <2>7, <2>8, <2>9 DEF BehindOK, PumpOK
<1>6. QueueOK'
  <2>1. ASSUME NEW i \in 1..Len(rest), rest[i] = End PROVE i = Len(rest) /\ closer = "done"
    <3>1. i \in 1..(Len(queue) - 1) /\ i + 1 \in 1..Len(queue)
      BY <1>3
    <3>2. queue[i + 1] = End
      BY <1>3, <2>1, <3>1
    <3>3. i + 1 = Len(queue) /\ closer = "done"
      BY <1>2, <3>1, <3>2 DEF QueueOK
    <3> QED
      BY <1>3, <3>3
  <2> QED
    BY <1>1, <1>2, <1>3, <2>1 DEF QueueOK
<1>7. Flowing'
  BY <1>1, <1>2, <1>5, <1>6 DEF Flowing
<1>8. got' \in [Pipe -> Seq(Text)]
  <2>1. DOMAIN got' = Pipe /\ got' = [q \in DOMAIN got' |-> got'[q]]
    BY <1>1, <1>2
  <2> QED
    BY <1>5, <2>1
<1> QED
  BY <1>1, <1>2, <1>5, <1>7, <1>8 DEF FlowInv

\* Who sees the end has been given everything.
LEMMA FlowTakesEnd ==
    ASSUME FlowInv, consumer = "on", TakesEnd
    PROVE  FlowInv'
<1>1. /\ queue # <<>> /\ Head(queue) = End
      /\ whole' = TRUE /\ consumer' \in {"wait", "gone"}
      /\ UNCHANGED <<written, got>>
  BY DEF TakesEnd, Leave
<1>2. /\ Flowing /\ QueueOK /\ queue \in Seq(Entry) /\ written \in [Pipe -> Text] /\ got \in [Pipe -> Seq(Text)]
  BY DEF FlowInv, Flowing, QueueOK
<1>3. /\ Head(queue) = queue[1] /\ Len(queue) \in Nat /\ Len(queue) >= 1 /\ Tail(queue) \in Seq(Entry)
      /\ Len(Tail(queue)) = Len(queue) - 1
  BY <1>1, <1>2, HeadTailProperties
<1>4. Len(queue) = 1 /\ closer = "done" /\ \A p \in Pipe : pump[p] = "done"
  <2>1. 1 \in 1..Len(queue) /\ queue[1] = End
    BY <1>1, <1>3
  <2> QED
    BY <1>2, <2>1 DEF QueueOK
<1>5. Tail(queue) = <<>>
  <2> DEFINE t == Tail(queue)
  <2>1. t \in Seq(Entry) /\ Len(t) = 0
    BY <1>3, <1>4
  <2> HIDE DEF t
  <2>2. t = <<>>
    BY <2>1, EmptySeq
  <2> QED
    BY <2>2 DEF t
<1>6. ASSUME NEW q \in Pipe PROVE got[q] = All(q)
  <2> DEFINE L == All(q)
             g == got[q]
             G == Len(g)
             N == Rank(written[q], Len(written[q]) + 1)
             S == {L[k] : k \in 1..N}
  <2>1. BetweenOK(q) /\ PumpOK(q) /\ GivenOK(q) /\ g \in Seq(Text)
    BY <1>2 DEF Flowing, FlowInv
  <2>2. outgoing[q] = <<>> /\ Found(q) = Len(L)
    BY <1>4, <2>1 DEF PumpOK, Found
  <2>3. PICK c \in 0..Len(L) : Accounts(q, L, queue, G, c) /\ Accounts(q, L, outgoing[q], c, Len(L))
    BY <2>1, <2>2 DEF BetweenOK
  <2>4. PICK d \in 0..Len(L) : Counts(q, L, G, Head(queue), d) /\ Accounts(q, L, Tail(queue), d, c)
    <3> HIDE DEF L, G
    <3> QED
      BY <1>1, <1>2, <2>3, AccountsHead
  <2>5. d = G
    BY <1>1, <2>4 DEF Counts
  <2>6. d = c /\ c = Len(L)
    <3> HIDE DEF L
    <3> QED
      BY <1>5, <2>2, <2>3, <2>4, AccountsEnd
  <2>7. G = Len(L) /\ \A k \in 1..G : g[k] = L[k]
    BY <2>1, <2>5, <2>6 DEF GivenOK
  <2>8. L \in Seq(S)
    BY <1>2, LineCount DEF All
  <2> DEFINE T == Text \cup S
  <2> HIDE DEF S, L
  <2>9. g \in Seq(T) /\ L \in Seq(T)
    <3>1. Text \subseteq T /\ S \subseteq T
      OBVIOUS
    <3> HIDE DEF T
    <3> QED
      BY <2>1, <2>8, <3>1
  <2> HIDE DEF T, g
  <2>10. g = L
    BY <2>7, <2>9, SeqEqual
  <2> QED
    BY <2>10 DEF g, L
<1> QED
  BY <1>1, <1>2, <1>6 DEF FlowInv, GivenOK, All

\* What changes nothing between the consumer and the pumps.
LEMMA FlowOther ==
    ASSUME FlowInv, UNCHANGED <<written, got, whole>>,
           consumer' = "on" =>
             consumer = "on" /\ UNCHANGED <<left, pump, buffer, outgoing, closer, queue>>,
           consumer # "on" => consumer' # "on"
    PROVE  FlowInv'
<1>1. ASSUME consumer' = "on" PROVE Flowing'
  <2>1. Flowing
    BY <1>1 DEF FlowInv
  <2> QED
    BY <1>1, <2>1 DEF Flowing, QueueOK, BehindOK, BetweenOK, PumpOK, At, Found, All
<1> QED
  BY <1>1 DEF FlowInv, GivenOK, All

\* Every step keeps what holds while the pumps run.
LEMMA FlowNext == FlowInv /\ [PumpNext]_pumpVars => FlowInv'
<1> SUFFICES ASSUME FlowInv, [PumpNext]_pumpVars PROVE FlowInv'
  OBVIOUS
<1>1. CASE ClientEnds
  BY <1>1, FlowOther DEF ClientEnds, pumping
<1>2. ASSUME NEW p \in Pipe, Pumps(p) PROVE FlowInv'
  <2>1. CASE consumer = "on"
    BY <1>2, <2>1, FlowReads, FlowReadsEnd, FlowPuts DEF Pumps
  <2>2. CASE consumer # "on"
    BY <1>2, <2>2, FlowOther DEF Pumps, Reads, ReadsEnd, Puts, pumping
  <2> QED
    BY <2>1, <2>2
<1>3. CASE Closes
  <2>1. CASE consumer = "on"
    BY <1>3, <2>1, FlowCloses
  <2>2. CASE consumer # "on"
    BY <1>3, <2>2, FlowOther DEF Closes
  <2> QED
    BY <2>1, <2>2
<1>4. CASE Takes
  BY <1>4, FlowTakes DEF Takes
<1>5. CASE TakesEnd
  BY <1>5, FlowTakesEnd DEF TakesEnd
<1>6. CASE ClientGone
  BY <1>6, FlowOther DEF ClientGone
<1>7. CASE GivesUp
  BY <1>7, FlowOther DEF GivesUp
<1>8. CASE Abandons
  BY <1>8, FlowOther DEF Abandons, Leave
<1>9. CASE UNCHANGED pumpVars
  BY <1>9, FlowOther DEF pumpVars
<1> QED
  BY <1>1, <1>2, <1>3, <1>4, <1>5, <1>6, <1>7, <1>8, <1>9 DEF PumpNext, Consumes

\* It says that the lines come whole.
LEMMA FlowWhole == FlowInv => LinesWhole
<1> SUFFICES ASSUME FlowInv, NEW p \in Pipe
             PROVE  IsPrefix(got[p], All(p)) /\ (whole => got[p] = All(p))
  BY DEF LinesWhole, All
<1> DEFINE g == got[p]
           L == All(p)
           W == written[p]
           S == {L[k] : k \in 1..Rank(W, Len(W) + 1)}
           T == Text \cup S
           G == Len(g)
           a == SubSeq(g, 1, G)
           b == SubSeq(L, 1, G)
<1>1. g \in Seq(Text) /\ W \in Text /\ G <= Len(L) /\ \A k \in 1..G : g[k] = L[k]
  BY DEF FlowInv, GivenOK
<1>2. L \in Seq(S)
  BY <1>1, LineCount DEF All
<1>3. g \in Seq(T) /\ L \in Seq(T) /\ G \in Nat /\ Len(L) \in Nat
  <2>1. Text \subseteq T /\ S \subseteq T
    OBVIOUS
  <2> HIDE DEF S, T, L
  <2> QED
    BY <1>1, <1>2, <2>1
<1> HIDE DEF S, T, L
<1>4. a = b
  <2>1. G \in (1 - 1)..Len(g) /\ G \in (1 - 1)..Len(L) /\ 1 \in 1..(Len(g) + 1) /\ 1 \in 1..(Len(L) + 1)
    BY <1>1, <1>3
  <2> HIDE DEF g, G
  <2>2. /\ a \in Seq(T) /\ Len(a) = IF 1 <= G THEN G - 1 + 1 ELSE 0
        /\ \A i \in 1..(G - 1 + 1) : a[i] = g[1 + i - 1]
    BY <1>3, <2>1, SubSeqProperties
  <2>3. /\ b \in Seq(T) /\ Len(b) = IF 1 <= G THEN G - 1 + 1 ELSE 0
        /\ \A i \in 1..(G - 1 + 1) : b[i] = L[1 + i - 1]
    BY <1>3, <2>1, SubSeqProperties
  <2>4. G - 1 + 1 = G /\ (~(1 <= G) => G = 0) /\ \A i \in 1..G : 1 + i - 1 = i
    BY <1>3
  <2> HIDE DEF a, b
  <2>5. Len(a) = G /\ Len(b) = G /\ \A i \in 1..G : a[i] = b[i]
    BY <1>1, <2>2, <2>3, <2>4
  <2> QED
    BY <2>2, <2>3, <2>5, SeqEqual
<1>5. IsPrefix(g, L)
  BY <1>1, <1>4 DEF IsPrefix
<1>6. whole => g = L
  BY DEF FlowInv, L
<1> QED
  BY <1>5, <1>6 DEF L

\* docker_ctl.stream_logs: however the output of a container is cut up by the
\* reads, and however its two pipes meet in the queue, the consumer is given
\* every line of each pipe once and in order, and all of them before the end.
THEOREM LinesWholeHolds == PumpSpec => []LinesWhole
<1>1. PumpInit => FlowInv
  BY FlowInit
<1>2. FlowInv /\ [PumpNext]_pumpVars => FlowInv'
  BY FlowNext
<1>3. FlowInv => LinesWhole
  BY FlowWhole
<1> QED
  BY <1>1, <1>2, <1>3, PTL DEF PumpSpec
=============================================================================
