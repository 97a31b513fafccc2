---------------------------- MODULE AdviceProofs ----------------------------
(***************************************************************************)
(* What Advice promises, for every model, every file and every machine:    *)
(* only a device that told a memory of its own makes a machine one with a  *)
(* card, and what a lost answer may do to one that has such a device; all  *)
(* figures are numbers; an advice for vLLM loads, one for llama.cpp is the *)
(* best that fits; neither is refused by the memory guard, whose           *)
(* arithmetic is another than that of the advice; and what was launched is *)
(* read back from its command, so that it is not held against itself.      *)
(***************************************************************************)
EXTENDS Advice, TLAPS, FiniteSetTheorems, WellFoundedInduction, SequenceTheorems

\* One device that is not within a tenth of the host, and no more is needed.
LEMMA NotSizeOfHost ==
    ASSUME NEW devs, NEW host, host.total \in Nat, DOMAIN devs # {},
           \A i \in DOMAIN devs : devs[i].total \in Nat
    PROVE  ~SizeOfHost(devs, host)
             <=> \E i \in DOMAIN devs : host.total # 0 => 10 * devs[i].total <= 9 * host.total
<1>1. \A t \in Nat, h \in Nat : ~(10 * t > 9 * h) <=> 10 * t <= 9 * h
    OBVIOUS
<1>2. \A i \in DOMAIN devs : ~(10 * devs[i].total > 9 * host.total)
                                <=> 10 * devs[i].total <= 9 * host.total
    BY <1>1
<1> QED
    BY <1>2, Zenon DEF SizeOfHost

\* A card of its own needs a query that worked and a device that says all.
LEMMA DiscreteSaysAll ==
    ASSUME NEW b, Kind(b) = "discrete", AccelMode = ""
    PROVE  /\ b.ok
           /\ DOMAIN Devices(b) # {}
           /\ Measured(Devices(b), b.host) = "discrete"
           /\ \A i \in DOMAIN Devices(b) : /\ Devices(b)[i].total # Unsaid
                                           /\ Devices(b)[i].free # Unsaid
<1> DEFINE devs == Devices(b)
<1>1. b.ok /\ DOMAIN devs # {} /\ Measured(devs, b.host) = "discrete"
    BY DEF Kind, Classified
<1>2. \A i \in DOMAIN devs : devs[i].total # Unsaid /\ devs[i].free # Unsaid
    BY <1>1 DEF Measured
<1> QED
    BY <1>1, <1>2

\* What an answer is made of.
LEMMA AnswerParts ==
    ASSUME NEW a, IsAnswer(a)
    PROVE  /\ a = [ok |-> a.ok, rows |-> a.rows, modes |-> a.modes, apps |-> a.apps,
                   host |-> a.host]
           /\ a.rows \in [DOMAIN a.rows -> Row]
           /\ a.host.total \in Nat /\ a.host.available \in Nat
           /\ a.host = [total |-> a.host.total, available |-> a.host.available]
           /\ Restrict(a.modes, DOMAIN a.modes) = a.modes
<1>1. /\ a = [ok |-> a.ok, rows |-> a.rows, modes |-> a.modes, apps |-> a.apps,
              host |-> a.host]
      /\ a.rows \in Seq(Row) /\ a.host \in Host /\ a.modes \in [DOMAIN a.modes -> STRING]
    BY DEF IsAnswer
<1>2. a.rows \in [DOMAIN a.rows -> Row]
    BY <1>1
<1>3. /\ a.host.total \in Nat /\ a.host.available \in Nat
      /\ a.host = [total |-> a.host.total, available |-> a.host.available]
    BY <1>1 DEF Host
<1>4. Restrict(a.modes, DOMAIN a.modes) = a.modes
    BY <1>1 DEF Restrict
<1> QED
    BY <1>1, <1>2, <1>3, <1>4

\* What is left of an answer, part by part.
LEMMA WorseParts ==
    ASSUME NEW a, IsAnswer(a), NEW b \in Worse(a)
    PROVE  /\ \/ b.rows = <<>>
              \/ /\ DOMAIN b.rows = DOMAIN a.rows
                 /\ \A j \in DOMAIN a.rows : b.rows[j] \in Left(a.rows[j])
           /\ b.host.total \in Nat
<1> DEFINE lines == {r \in [DOMAIN a.rows -> UNION {Left(a.rows[i]) : i \in DOMAIN a.rows}] :
                       \A i \in DOMAIN a.rows : r[i] \in Left(a.rows[i])}
<1>1. ASSUME NEW r \in lines
      PROVE  DOMAIN r = DOMAIN a.rows /\ \A j \in DOMAIN a.rows : r[j] \in Left(a.rows[j])
    OBVIOUS
<1>2. b.rows \in lines \cup {<<>>} /\ b.host.total \in {a.host.total, 0}
    BY DEF Worse
<1> HIDE DEF lines
<1>3. b.rows \in lines \/ b.rows = <<>>
    BY <1>2
<1>4. b.host.total \in Nat
    <2>1. a.host.total \in Nat
        BY DEF IsAnswer, Host
    <2>2. b.host.total = a.host.total \/ b.host.total = 0
        BY <1>2
    <2> QED
        BY <2>1, <2>2
<1> QED
    BY <1>1, <1>3, <1>4

\* The answer of which some lines and some modes are lost, and nothing else.
Remains(a, rows, named) ==
    [ok |-> TRUE, rows |-> rows, modes |-> Restrict(a.modes, named), apps |-> a.apps,
     host |-> [total |-> a.host.total, available |-> a.host.available]]

\* What may be left of it, part by part.
LEMMA PartsAreWorse ==
    ASSUME NEW a, NEW rows,
           DOMAIN rows = DOMAIN a.rows, rows = [j \in DOMAIN a.rows |-> rows[j]],
           \A j \in DOMAIN a.rows : rows[j] \in Left(a.rows[j]),
           NEW named \in SUBSET DOMAIN a.modes
    PROVE  Remains(a, rows, named) \in Worse(a)
<1> DEFINE lines == {r \in [DOMAIN a.rows -> UNION {Left(a.rows[i]) : i \in DOMAIN a.rows}] :
                       \A i \in DOMAIN a.rows : r[i] \in Left(a.rows[i])}
           modes == {Restrict(a.modes, n) : n \in SUBSET DOMAIN a.modes}
<1>1. rows \in lines \cup {<<>>}
    OBVIOUS
<1>2. Restrict(a.modes, named) \in modes
    OBVIOUS
<1>3. Worse(a) = [ok : BOOLEAN, rows : lines \cup {<<>>}, modes : modes, apps : {a.apps, 0},
                  host : [total : {a.host.total, 0}, available : {a.host.available, 0}]]
    BY DEF Worse
<1> HIDE DEF lines, modes
<1> QED
    BY <1>1, <1>2, <1>3 DEF Remains

\* A line of which something was lost tells nothing else than it did.
LEMMA LeftSaysNoMore ==
    ASSUME NEW a, IsAnswer(a), NEW b \in Worse(a), NEW i \in Readable(b.rows)
    PROVE  /\ i \in Readable(a.rows) /\ a.rows[i] \in Row
           /\ b.rows[i].total \in {a.rows[i].total, Unsaid}
           /\ b.rows[i].free \in {a.rows[i].free, Unsaid}
<1>1. i \in DOMAIN b.rows /\ b.rows[i].whole /\ b.rows[i].index # Unsaid
    BY DEF Readable
<1>2. i \in DOMAIN a.rows /\ b.rows[i] \in Left(a.rows[i])
    BY <1>1, WorseParts
<1>3. a.rows[i] \in Row
    BY <1>2, AnswerParts
<1>4. a.rows[i].whole /\ a.rows[i].index # Unsaid
    BY <1>1, <1>2 DEF Left
<1> QED
    BY <1>2, <1>3, <1>4 DEF Readable, Left

\* accel.classify: a machine is only taken for one with a card of its own on
\* what one of its devices said to be a framebuffer, whatever else is lost.
THEOREM DoubtIsNoCard == ASSUME NEW a, IsAnswer(a) PROVE OnlyByProof(a)
<1> SUFFICES ASSUME NEW b \in Worse(a), AccelMode = "", Kind(b) = "discrete"
             PROVE  \E i \in Readable(a.rows) : Framebuffer(a.rows[i], b.host)
    BY DEF OnlyByProof
<1> DEFINE devs == Devices(b)
<1>1. /\ DOMAIN devs # {} /\ Measured(devs, b.host) = "discrete"
      /\ \A i \in DOMAIN devs : devs[i].total # Unsaid /\ devs[i].free # Unsaid
    BY DiscreteSaysAll
<1>2. DOMAIN devs = Readable(b.rows)
      /\ \A i \in DOMAIN devs : devs[i].total = b.rows[i].total /\ devs[i].free = b.rows[i].free
    BY DEF Devices, Device
<1>3. ~SizeOfHost(devs, b.host)
    BY <1>1 DEF Measured
<1>4. b.host.total \in Nat
    BY WorseParts
<1>5. \A i \in DOMAIN devs : /\ i \in Readable(a.rows) /\ a.rows[i].total = devs[i].total
                             /\ a.rows[i].free = devs[i].free /\ a.rows[i].total \in Nat
    <2> TAKE i \in DOMAIN devs
    <2>1. /\ i \in Readable(a.rows) /\ a.rows[i] \in Row
          /\ b.rows[i].total \in {a.rows[i].total, Unsaid}
          /\ b.rows[i].free \in {a.rows[i].free, Unsaid}
        BY <1>2, LeftSaysNoMore
    <2> HIDE DEF devs
    <2>2. a.rows[i].total = devs[i].total /\ a.rows[i].free = devs[i].free
        BY <1>1, <1>2, <2>1
    <2> QED
        BY <1>1, <2>1, <2>2 DEF Row
<1> HIDE DEF devs
<1>6. \A i \in DOMAIN devs : devs[i].total \in Nat
    BY <1>5
<1>7. PICK i \in DOMAIN devs : b.host.total # 0 => 10 * devs[i].total <= 9 * b.host.total
    BY <1>1, <1>3, <1>4, <1>6, NotSizeOfHost, Zenon
<1>8. a.rows[i].total = devs[i].total /\ a.rows[i].free = devs[i].free /\ i \in Readable(a.rows)
    BY <1>5
<1>9. Framebuffer(a.rows[i], b.host)
    BY <1>1, <1>7, <1>8, Zenon DEF Framebuffer
<1> QED
    BY <1>8, <1>9

\* What remains of an answer when the second query fails; when of all lines but
\* one nothing can be read; when no line says its MIG mode.
Nameless(a) == Remains(a, a.rows, {})
OneLine(a, i) ==
    Remains(a, [j \in DOMAIN a.rows |->
                  IF j = i THEN a.rows[j] ELSE [a.rows[j] EXCEPT !.whole = FALSE]],
            DOMAIN a.modes)
Unpartitioned(a) ==
    Remains(a, [j \in DOMAIN a.rows |-> [a.rows[j] EXCEPT !.mig = FALSE]], DOMAIN a.modes)

\* Every device that can be read says its total and its free memory.
Told(a) == \A j \in Readable(a.rows) : a.rows[j].total # Unsaid /\ a.rows[j].free # Unsaid

\* Where every device that can be read says all and one is a framebuffer.
LEMMA FramebufferIsACard ==
    ASSUME NEW b, AccelMode = "", b.ok = TRUE, NEW i \in Readable(b.rows),
           Framebuffer(b.rows[i], b.host), b.host.total \in Nat,
           \A j \in Readable(b.rows) :
              /\ b.rows[j].total \in Nat /\ b.rows[j].total # Unsaid /\ b.rows[j].free # Unsaid /\ ~b.rows[j].mig
              /\ ~Devices(b)[j].ats
    PROVE  Kind(b) = "discrete"
<1> DEFINE devs == Devices(b)
<1>1. DOMAIN devs = Readable(b.rows) /\ DOMAIN devs # {}
      /\ \A j \in DOMAIN devs : /\ devs[j].total = b.rows[j].total
                                /\ devs[j].free = b.rows[j].free /\ devs[j].mig = b.rows[j].mig
    BY DEF Devices, Device
<1> HIDE DEF devs
<1>2. ~SizeOfHost(devs, b.host)
    <2>1. \A j \in DOMAIN devs : devs[j].total \in Nat
        BY <1>1
    <2>2. i \in DOMAIN devs /\ devs[i].total = b.rows[i].total
        BY <1>1
    <2>3. b.host.total # 0 => 10 * devs[i].total <= 9 * b.host.total
        BY <2>2, Zenon DEF Framebuffer
    <2> QED
        BY <1>1, <2>1, <2>2, <2>3, NotSizeOfHost, Zenon
<1>3. Measured(devs, b.host) = "discrete"
    BY <1>1, <1>2 DEF Measured, devs
<1> QED
    BY <1>1, <1>3 DEF Kind, Classified, devs

\* One loss is enough, where the module's docstring has every loss fall back to
\* unified (accel.py:19-22).  Of a machine with a device that tells a memory of
\* its own, and which is taken for unified or unknown for another reason, that
\* reason may be what is lost: the answer to the second query, whose exit code
\* is ignored; a line of another device, which is dropped by itself; or the
\* MIG mode, of which only the literal word counts.
THEOREM LostAnswerIsACard ==
    ASSUME NEW a, IsAnswer(a), AccelMode = "", a.ok,
           NEW i \in Readable(a.rows), Framebuffer(a.rows[i], a.host)
    PROVE  /\ Told(a) /\ (\A j \in Readable(a.rows) : ~a.rows[j].mig)
                => Nameless(a) \in Worse(a) /\ Kind(Nameless(a)) = "discrete"
           /\ ~a.rows[i].mig /\ ~Devices(a)[i].ats
                => OneLine(a, i) \in Worse(a) /\ Kind(OneLine(a, i)) = "discrete"
           /\ Told(a) /\ (\A j \in Readable(a.rows) : ~Devices(a)[j].ats)
                => Unpartitioned(a) \in Worse(a) /\ Kind(Unpartitioned(a)) = "discrete"
<1>1. /\ a = [ok |-> a.ok, rows |-> a.rows, modes |-> a.modes, apps |-> a.apps,
              host |-> a.host]
      /\ a.host = [total |-> a.host.total, available |-> a.host.available]
      /\ a.rows \in [DOMAIN a.rows -> Row] /\ a.host.total \in Nat
      /\ Restrict(a.modes, DOMAIN a.modes) = a.modes
    BY AnswerParts
<1>2. /\ a.rows[i].total \in Nat /\ i \in DOMAIN a.rows
      /\ \A j \in Readable(a.rows) : a.rows[j].total # Unsaid => a.rows[j].total \in Nat
    BY <1>1 DEF Framebuffer, Row, Readable
<1>3. \A j \in DOMAIN a.rows :
         /\ a.rows[j] \in Left(a.rows[j])
         /\ [a.rows[j] EXCEPT !.whole = FALSE] \in Left(a.rows[j])
         /\ [a.rows[j] EXCEPT !.mig = FALSE] \in Left(a.rows[j])
    BY <1>1 DEF Left, Row
<1>4. ASSUME Told(a), \A j \in Readable(a.rows) : ~a.rows[j].mig
      PROVE  Nameless(a) \in Worse(a) /\ Kind(Nameless(a)) = "discrete"
    <2> DEFINE b == Remains(a, a.rows, {})
    <2>1. Nameless(a) = b
        BY DEF Nameless
    <2>2. b.ok = TRUE /\ b.rows = a.rows /\ b.host = a.host /\ b.modes = Restrict(a.modes, {})
        BY <1>1, Zenon DEF Remains
    <2>3. \A j \in Readable(a.rows) : ~Devices(b)[j].ats
        BY <2>2 DEF Devices, Device, Restrict
    <2> HIDE DEF b
    <2>4. b \in Worse(a)
        <3>1. {} \in SUBSET DOMAIN a.modes /\ a.rows = [j \in DOMAIN a.rows |-> a.rows[j]]
            BY <1>1
        <3> QED
            BY <1>3, <3>1, PartsAreWorse DEF b
    <2>5. Kind(b) = "discrete"
        BY <1>1, <1>2, <1>4, <2>2, <2>3, FramebufferIsACard DEF Told
    <2> QED
        BY <2>1, <2>4, <2>5 DEF b
<1>5. ASSUME ~a.rows[i].mig, ~Devices(a)[i].ats
      PROVE  OneLine(a, i) \in Worse(a) /\ Kind(OneLine(a, i)) = "discrete"
    <2> DEFINE rows == [j \in DOMAIN a.rows |->
                          IF j = i THEN a.rows[j] ELSE [a.rows[j] EXCEPT !.whole = FALSE]]
               b == Remains(a, rows, DOMAIN a.modes)
    <2>1. OneLine(a, i) = b
        BY DEF OneLine
    <2> HIDE DEF rows
    <2>2. b.ok = TRUE /\ b.rows = rows /\ b.host = a.host /\ b.modes = a.modes
        BY <1>1, Zenon DEF Remains
    <2> USE DEF rows
    <2>3. rows[i] = a.rows[i] /\ \A j \in DOMAIN a.rows : j # i => ~rows[j].whole
        BY <1>1, <1>2 DEF Row
    <2>4. /\ DOMAIN rows = DOMAIN a.rows
          /\ \A j \in DOMAIN a.rows : rows[j] \in Left(a.rows[j])
          /\ rows = [j \in DOMAIN a.rows |-> rows[j]]
        BY <1>3
    <2> HIDE DEF rows
    <2>5. Readable(rows) = {i}
        BY <2>3, <2>4 DEF Readable
    <2>6. ~Devices(b)[i].ats
        BY <1>5, <2>2, <2>3, <2>5 DEF Devices, Device
    <2> HIDE DEF b
    <2>7. b \in Worse(a)
        BY <2>4, PartsAreWorse DEF b
    <2>8. Kind(b) = "discrete"
        BY <1>1, <1>2, <1>5, <2>2, <2>3, <2>5, <2>6, FramebufferIsACard DEF Framebuffer
    <2> QED
        BY <2>1, <2>7, <2>8 DEF b
<1>6. ASSUME Told(a), \A j \in Readable(a.rows) : ~Devices(a)[j].ats
      PROVE  Unpartitioned(a) \in Worse(a) /\ Kind(Unpartitioned(a)) = "discrete"
    <2> DEFINE rows == [j \in DOMAIN a.rows |-> [a.rows[j] EXCEPT !.mig = FALSE]]
               b == Remains(a, rows, DOMAIN a.modes)
    <2>1. Unpartitioned(a) = b
        BY DEF Unpartitioned
    <2> HIDE DEF rows
    <2>2. b.ok = TRUE /\ b.rows = rows /\ b.host = a.host /\ b.modes = a.modes
        BY <1>1, Zenon DEF Remains
    <2> USE DEF rows
    <2>3. \A j \in DOMAIN a.rows :
             /\ rows[j].whole = a.rows[j].whole /\ rows[j].index = a.rows[j].index
             /\ rows[j].total = a.rows[j].total /\ rows[j].free = a.rows[j].free
             /\ ~rows[j].mig
        BY <1>1 DEF Row
    <2>4. /\ DOMAIN rows = DOMAIN a.rows
          /\ \A j \in DOMAIN a.rows : rows[j] \in Left(a.rows[j])
          /\ rows = [j \in DOMAIN a.rows |-> rows[j]]
        BY <1>3
    <2> HIDE DEF rows
    <2>5. Readable(rows) = Readable(a.rows) /\ Readable(rows) \subseteq DOMAIN a.rows
        BY <2>3, <2>4 DEF Readable
    <2>6. ASSUME NEW j \in Readable(a.rows) PROVE ~Devices(b)[j].ats
        <3>1. j \in Readable(b.rows) /\ b.rows[j].index = a.rows[j].index /\ b.modes = a.modes
            BY <2>2, <2>3, <2>5
        <3>2. ~Devices(a)[j].ats
            BY <1>6
        <3> QED
            BY <3>1, <3>2 DEF Devices, Device
    <2> HIDE DEF b
    <2>7. b \in Worse(a)
        BY <2>4, PartsAreWorse DEF b
    <2>8. Kind(b) = "discrete"
        <3>1. Framebuffer(rows[i], b.host) /\ rows[i].total \in Nat
            BY <1>2, <2>2, <2>3 DEF Framebuffer
        <3>2. \A j \in Readable(rows) : /\ rows[j].total \in Nat /\ rows[j].total # Unsaid
                                        /\ rows[j].free # Unsaid /\ ~rows[j].mig
            BY <1>2, <1>6, <2>3, <2>5 DEF Told
        <3> QED
            BY <1>1, <2>2, <2>5, <2>6, <3>1, <3>2, FramebufferIsACard
    <2> QED
        BY <2>1, <2>7, <2>8 DEF b
<1> QED
    BY <1>4, <1>5, <1>6

\* FailUnified holds of every machine an operator can ask about.
THEOREM FailsUnified == Spec => []FailUnified
<1>1. Init => asked \in Questions
    BY DEF Init
<1>2. asked \in Questions /\ [Next]_vars => (asked \in Questions)'
    BY DEF Next, Asks, Launches, Stops, vars
<1>3. asked \in Questions => FailUnified
    <2>1. asked \in Questions
            => \A n \in DOMAIN asked.machine : IsAnswer(asked.machine[n].answer)
        BY AdviceAssumption DEF IsMachine
    <2> QED
        BY <2>1, DoubtIsNoCard DEF FailUnified, Mistakable
<1> QED
    BY <1>1, <1>2, <1>3, PTL DEF Spec

\* A set of numbers with 0 and the successor of each of its members is Nat: of
\* the initial segments that end outside it, none would be least.
LEMMA Induction ==
    ASSUME NEW P \in SUBSET Nat, 0 \in P, \A n \in P : n + 1 \in P
    PROVE  P = Nat
<1> SUFFICES ASSUME P # Nat PROVE FALSE
  OBVIOUS
<1> DEFINE T == {0 .. n : n \in Nat \ P}
<1>1. T # {} /\ T \subseteq FiniteSubsetsOf(Nat)
  <2>1. \A n \in Nat : IsFiniteSet(0 .. n) /\ 0 .. n \subseteq Nat
    BY FS_Interval
  <2>2. QED
    BY <2>1 DEF FiniteSubsetsOf
<1>2. PICK U \in T : \A V \in T : <<V, U>> \notin StrictSubsetOrdering(Nat)
  <2> HIDE DEF T
  <2>1. QED
    BY <1>1, FS_StrictSubsetOrderingWellFounded, WFMin
<1>3. PICK n \in Nat \ P : U = 0 .. n
  OBVIOUS
<1>4. n - 1 \in Nat \ P
  OBVIOUS
<1>5. 0 .. (n - 1) \in T /\ 0 .. (n - 1) \subseteq 0 .. n /\ 0 .. (n - 1) # 0 .. n
  BY <1>4
<1>6. <<0 .. (n - 1), 0 .. n>> \in StrictSubsetOrdering(Nat)
  <2>1. 0 .. (n - 1) \subseteq Nat /\ 0 .. n \subseteq Nat
    OBVIOUS
  <2>2. QED
    BY <1>5, <2>1 DEF StrictSubsetOrdering
<1>7. QED
  BY <1>2, <1>3, <1>5, <1>6

\* The function whose last value a sum is.
Term(f, s, g) ==
    IF s = {} THEN 0 ELSE f[CHOOSE x \in s : TRUE] + g[s \ {CHOOSE x \in s : TRUE}]
Sums(f, S) == CHOOSE g : g = [s \in SUBSET S |-> Term(f, s, g)]

\* A sum is what that function says of the whole set.
LEMMA SumIsLast == ASSUME NEW f, NEW S PROVE SumFunctionOnSet(f, S) = Sums(f, S)[S]
BY DEF SumFunctionOnSet, FoldFunctionOnSet, MapThenFoldSet, Sums, Term

\* One element less.
LEMMA Removed ==
    ASSUME NEW S, IsFiniteSet(S), NEW n \in Nat, Cardinality(S) <= n + 1, NEW x \in S
    PROVE  IsFiniteSet(S \ {x}) /\ Cardinality(S \ {x}) <= n
<1>1. /\ IsFiniteSet(S \ {x}) /\ Cardinality(S \ {x}) = Cardinality(S) - 1
      /\ Cardinality(S) \in Nat
  BY FS_RemoveElement, FS_CardinalityType
<1>2. QED
  BY <1>1

\* There is such a function, built for sets of ever more elements.
LEMMA SumsExist ==
    ASSUME NEW S, IsFiniteSet(S), NEW f, \A x \in S : f[x] \in Nat
    PROVE  /\ Sums(f, S) \in [SUBSET S -> Nat]
           /\ \A s \in SUBSET S : Sums(f, S)[s] = Term(f, s, Sums(f, S))
<1> DEFINE upto(n) == {s \in SUBSET S : Cardinality(s) <= n}
           fits(n, g) == g \in [upto(n) -> Nat] /\ \A s \in upto(n) : g[s] = Term(f, s, g)
           P == {n \in Nat : \E g : fits(n, g)}
<1>f. \A s \in SUBSET S : IsFiniteSet(s) /\ Cardinality(s) \in Nat
  BY FS_Subset, FS_CardinalityType
<1>1. 0 \in P
  <2>1. \A s \in upto(0) : s = {}
    BY <1>f, FS_EmptySet
  <2>2. fits(0, [s \in upto(0) |-> 0])
    BY <2>1 DEF Term
  <2>3. QED
    BY <2>2
<1>2. ASSUME NEW n \in P PROVE n + 1 \in P
  <2>1. PICK g : fits(n, g)
    OBVIOUS
  <2> DEFINE h == [s \in upto(n + 1) |-> Term(f, s, g)]
             pick(s) == CHOOSE x \in s : TRUE
  <2>2. \A s \in upto(n + 1) : s # {} => pick(s) \in S /\ s \ {pick(s)} \in upto(n)
    BY <1>f, Removed
  <2>3. upto(n) \subseteq upto(n + 1)
    BY <1>f
  <2>4. \A s \in upto(n) : h[s] = g[s]
    BY <2>1, <2>3
  <2>5. ASSUME NEW s \in upto(n + 1) PROVE h[s] \in Nat /\ h[s] = Term(f, s, h)
    <3>1. CASE s = {}
      BY <3>1 DEF Term
    <3>2. CASE s # {}
      <4>1. pick(s) \in S /\ s \ {pick(s)} \in upto(n)
        BY <2>2, <3>2
      <4>2. h[s] = f[pick(s)] + g[s \ {pick(s)}]
        BY <3>2 DEF Term
      <4>3. h[s \ {pick(s)}] = g[s \ {pick(s)}] /\ g[s \ {pick(s)}] \in Nat
        BY <2>1, <2>4, <4>1
      <4>4. Term(f, s, h) = f[pick(s)] + h[s \ {pick(s)}]
        BY <3>2 DEF Term
      <4>5. QED
        BY <4>1, <4>2, <4>3, <4>4
    <3>3. QED
      BY <3>1, <3>2
  <2>6. h \in [upto(n + 1) -> Nat]
    BY <2>5
  <2> HIDE DEF h
  <2>7. fits(n + 1, h)
    BY <2>5, <2>6
  <2> HIDE DEF fits
  <2>8. QED
    BY <2>7
<1>3. Cardinality(S) \in P
  <2> HIDE DEF P
  <2>1. P \subseteq Nat
    BY DEF P
  <2>2. QED
    BY <1>1, <1>2, <2>1, Induction, FS_CardinalityType
<1>4. PICK g : fits(Cardinality(S), g)
  BY <1>3
<1>5. upto(Cardinality(S)) = SUBSET S
  BY FS_Subset, FS_CardinalityType
<1>6. g = [s \in SUBSET S |-> Term(f, s, g)]
  BY <1>4, <1>5
<1>7. Sums(f, S) = [s \in SUBSET S |-> Term(f, s, Sums(f, S))]
  BY <1>6 DEF Sums
<1> DEFINE G == Sums(f, S)
           Q == {n \in Nat : \A s \in upto(n) : G[s] \in Nat}
<1>8. \A s \in SUBSET S : G[s] = Term(f, s, G)
  BY <1>7
<1>9. ASSUME NEW s \in SUBSET S, \A x \in s : G[s \ {x}] \in Nat PROVE G[s] \in Nat
  <2>1. CASE s = {}
    <3>1. Term(f, s, G) = 0
      BY <2>1 DEF Term
    <3>2. QED
      BY <1>8, <3>1
  <2>2. CASE s # {}
    <3> DEFINE x == CHOOSE y \in s : TRUE
    <3>1. x \in s
      BY <2>2
    <3>2. G[s] = f[x] + G[s \ {x}]
      BY <1>8, <2>2 DEF Term
    <3>3. f[x] \in Nat /\ G[s \ {x}] \in Nat
      BY <1>9, <3>1
    <3> HIDE DEF x, G
    <3>4. QED
      BY <3>2, <3>3
  <2>3. QED
    BY <2>1, <2>2
<1>10. 0 \in Q
  <2>1. \A s \in upto(0) : s = {}
    BY <1>f, FS_EmptySet
  <2>2. QED
    BY <1>9, <2>1
<1>11. ASSUME NEW n \in Q PROVE n + 1 \in Q
  <2>1. \A s \in upto(n + 1) : \A x \in s : s \ {x} \in upto(n)
    BY <1>f, Removed
  <2>2. ASSUME NEW s \in upto(n + 1) PROVE G[s] \in Nat
    BY <1>9, <2>1
  <2>3. QED
    BY <2>2
<1>12. Cardinality(S) \in Q
  <2> HIDE DEF Q
  <2>1. Q \subseteq Nat
    BY DEF Q
  <2>2. QED
    BY <1>10, <1>11, <2>1, Induction, FS_CardinalityType
<1>13. \A s \in SUBSET S : G[s] \in Nat
  BY <1>5, <1>12
<1>14. QED
  BY <1>7, <1>8, <1>13

\* The sum of finitely many natural numbers is one.
LEMMA SumIsNatural ==
    ASSUME NEW f, IsFiniteSet(DOMAIN f), \A x \in DOMAIN f : f[x] \in Nat
    PROVE  SumFunction(f) \in Nat
<1>1. Sums(f, DOMAIN f) \in [SUBSET DOMAIN f -> Nat]
  BY SumsExist
<1>2. SumFunction(f) = Sums(f, DOMAIN f)[DOMAIN f]
  BY SumIsLast DEF SumFunction
<1> QED
  BY <1>1, <1>2

\* Some numbers have a least one.
LEMMA Least ==
    ASSUME NEW S \in SUBSET Nat, S # {}
    PROVE  \E n \in S : \A m \in S : n <= m
<1> SUFFICES ASSUME \A n \in S : \E m \in S : ~(n <= m) PROVE FALSE
  OBVIOUS
<1> DEFINE P == {n \in Nat : \A m \in S : n <= m}
<1>1. 0 \in P
  OBVIOUS
<1>2. ASSUME NEW n \in P PROVE n + 1 \in P
  <2>1. n \notin S
    OBVIOUS
  <2> QED
    BY <2>1
<1>3. P = Nat
  <2>1. P \in SUBSET Nat
    OBVIOUS
  <2> HIDE DEF P
  <2> QED
    BY <1>1, <1>2, <2>1, Induction
<1>4. PICK n \in S : TRUE
  OBVIOUS
<1>5. n + 1 \in P
  BY <1>3
<1> QED
  BY <1>4, <1>5

\* And so do they have a greatest one where they are bounded.
LEMMA Greatest ==
    ASSUME NEW N \in Nat, NEW S \in SUBSET (0..N), S # {}
    PROVE  \E n \in S : \A m \in S : m <= n
<1> DEFINE T == {N - n : n \in S}
<1>1. T \in SUBSET Nat /\ T # {}
  <2>1. \A n \in S : N - n \in Nat
    OBVIOUS
  <2> QED
    BY <2>1
<1>2. PICK k \in T : \A j \in T : k <= j
  <2> HIDE DEF T
  <2> QED
    BY <1>1, Least
<1>3. PICK n \in S : k = N - n
  OBVIOUS
<1>4. ASSUME NEW m \in S PROVE m <= n
  <2>1. k <= N - m
    BY <1>2
  <2> QED
    BY <1>3, <2>1
<1> QED
  BY <1>4

\* A function on the numbers from 1 to N, by its first value and by what makes
\* each value of the one before.
Stepping(N, S, h) == \A i \in 2..N : \A x \in S : h[i][x] \in S
Stepped(N, S, base, h, g) ==
    g \in [1..N -> S] /\ g[1] = base /\ \A i \in 2..N : g[i] = h[i][g[i - 1]]

\* There is such a function.
LEMMA StepByStep ==
    ASSUME NEW N \in Nat \ {0}, NEW S, NEW base \in S, NEW h, Stepping(N, S, h)
    PROVE  \E g : Stepped(N, S, base, h, g)
<1> DEFINE P == {n \in Nat : n + 1 <= N => \E g : Stepped(n + 1, S, base, h, g)}
<1>1. 0 \in P
  <2>1. Stepped(0 + 1, S, base, h, [i \in 1..(0 + 1) |-> base])
    BY DEF Stepped
  <2> QED
    BY <2>1
<1>2. ASSUME NEW n \in P PROVE n + 1 \in P
  <2>1. SUFFICES ASSUME n + 2 <= N PROVE \E g : Stepped(n + 2, S, base, h, g)
    OBVIOUS
  <2>2. PICK g : Stepped(n + 1, S, base, h, g)
    BY <2>1
  <2> DEFINE last == h[n + 2][g[n + 1]]
             f == [i \in 1..(n + 2) |-> IF i = n + 2 THEN last ELSE g[i]]
  <2>3. g \in [1..(n + 1) -> S] /\ g[1] = base
    BY <2>2 DEF Stepped
  <2>4. last \in S
    <3>1. g[n + 1] \in S /\ n + 2 \in 2..N
      BY <2>1, <2>3
    <3> QED
      BY <3>1 DEF Stepping
  <2>5. f \in [1..(n + 2) -> S] /\ f[1] = base
    BY <2>3, <2>4
  <2>6. ASSUME NEW i \in 2..(n + 2) PROVE f[i] = h[i][f[i - 1]]
    <3>1. CASE i = n + 2
      <4>1. f[i - 1] = g[n + 1] /\ f[i] = last
        BY <3>1
      <4> HIDE DEF f
      <4> QED
        BY <3>1, <4>1
    <3>2. CASE i # n + 2
      <4>1. f[i] = g[i] /\ f[i - 1] = g[i - 1] /\ i \in 2..(n + 1)
        BY <3>2
      <4>2. g[i] = h[i][g[i - 1]]
        BY <2>2, <4>1 DEF Stepped
      <4> HIDE DEF f
      <4> QED
        BY <4>1, <4>2
    <3> QED
      BY <3>1, <3>2
  <2> HIDE DEF f
  <2>7. Stepped(n + 2, S, base, h, f)
    BY <2>5, <2>6 DEF Stepped
  <2> QED
    BY <2>7
<1>3. N - 1 \in P
  <2>1. P \in SUBSET Nat /\ N - 1 \in Nat
    OBVIOUS
  <2> HIDE DEF P
  <2> QED
    BY <1>1, <1>2, <2>1, Induction
<1>4. (N - 1) + 1 = N
  OBVIOUS
<1> QED
  BY <1>3, <1>4

\* Sequences put one after the other are a sequence.
LEMMA FlattenTyped ==
    ASSUME NEW T, NEW seqs \in Seq(Seq(T))
    PROVE  FlattenSeq(seqs) \in Seq(T)
<1> DEFINE N == Len(seqs)
           Made(g) == [i \in 1..N |-> IF i = 1 THEN seqs[i] ELSE g[i - 1] \o seqs[i]]
           flat == CHOOSE g : g = Made(g)
<1>1. CASE N = 0
  BY <1>1 DEF FlattenSeq
<1>2. CASE N # 0
  <2>1. FlattenSeq(seqs) = flat[N]
    BY <1>2 DEF FlattenSeq
  <2>2. N \in Nat \ {0} /\ \A i \in 1..N : seqs[i] \in Seq(T)
    BY <1>2
  <2> DEFINE h == [i \in 2..N |-> [x \in Seq(T) |-> x \o seqs[i]]]
             start == seqs[1]
             all == Seq(T)
  <2>3. Stepping(N, all, h)
    <3>1. ASSUME NEW i \in 2..N, NEW x \in Seq(T) PROVE x \o seqs[i] \in Seq(T)
      <4>1. seqs[i] \in Seq(T)
        BY <2>2
      <4> HIDE DEF N
      <4> QED
        BY <4>1
    <3> HIDE DEF N
    <3> QED
      BY <3>1 DEF Stepping
  <2>4. start \in all
    BY <2>2
  <2>5. PICK g : Stepped(N, all, start, h, g)
    <3> HIDE DEF N, all, start, h
    <3> QED
      BY <2>2, <2>3, <2>4, StepByStep
  <2> HIDE DEF N
  <2>6. g = Made(g)
    <3>1. g \in [1..N -> Seq(T)] /\ g[1] = seqs[1]
      BY <2>5 DEF Stepped
    <3>2. ASSUME NEW i \in 2..N PROVE g[i] = g[i - 1] \o seqs[i]
      <4>1. i - 1 \in 1..N
        BY <2>2
      <4>2. g[i - 1] \in Seq(T)
        BY <3>1, <4>1
      <4>3. g[i] = h[i][g[i - 1]]
        BY <2>5 DEF Stepped
      <4> QED
        BY <4>2, <4>3
    <3>3. ASSUME NEW i \in 1..N PROVE g[i] = IF i = 1 THEN seqs[i] ELSE g[i - 1] \o seqs[i]
      <4>1. i = 1 \/ i \in 2..N
        BY <2>2
      <4> QED
        BY <3>1, <3>2, <4>1
    <3> QED
      BY <3>1, <3>3
  <2>7. \A i \in 1..N : flat[i] = IF i = 1 THEN seqs[i] ELSE flat[i - 1] \o seqs[i]
    <3>1. flat = Made(flat)
      BY <2>6
    <3> HIDE DEF flat
    <3> QED
      BY <3>1
  <2> HIDE DEF flat
  <2> DEFINE P == {n \in Nat : n + 1 <= N => flat[n + 1] \in Seq(T)}
  <2>8. 0 \in P
    BY <2>2, <2>7
  <2>9. ASSUME NEW n \in P PROVE n + 1 \in P
    <3>1. SUFFICES ASSUME n + 2 <= N PROVE flat[n + 2] \in Seq(T)
      OBVIOUS
    <3>2. n + 2 # 1 /\ (n + 2) - 1 = n + 1 /\ n + 2 \in 1..N
      BY <2>2, <3>1
    <3>3. flat[n + 2] = flat[n + 1] \o seqs[n + 2]
      BY <2>7, <3>2
    <3>4. flat[n + 1] \in Seq(T) /\ seqs[n + 2] \in Seq(T)
      BY <2>2, <3>1, <3>2
    <3> QED
      BY <3>3, <3>4
  <2>10. P = Nat
    <3>1. P \in SUBSET Nat
      OBVIOUS
    <3> HIDE DEF P
    <3> QED
      BY <2>8, <2>9, <3>1, Induction
  <2>11. flat[N] \in Seq(T)
    <3>1. N - 1 \in Nat /\ (N - 1) + 1 = N /\ N <= N
      BY <2>2
    <3> QED
      BY <2>10, <3>1
  <2> QED
    BY <2>1, <2>11
<1> QED
  BY <1>1, <1>2

-----------------------------------------------------------------------------
(* What a machine answers becomes a pool with figures that are numbers.    *)

Figures(pool) == /\ pool.total \in Nat /\ pool.available \in Nat /\ pool.measured \in Nat
                 /\ pool.devices \in Nat

\* The rows that can be read are finitely many, and what they do not say counts
\* for nothing.
LEMMA AnswerFigures ==
    ASSUME NEW a, a.rows \in Seq(Row), a.host \in Host, a.apps \in Nat
    PROVE  Figures(LocalPool(a))
<1> DEFINE devs == Devices(a)
           totals == [i \in DOMAIN devs |-> Figure(devs[i].total)]
           frees == [i \in DOMAIN devs |-> Figure(devs[i].free)]
           useds == [i \in DOMAIN devs |-> Figure(devs[i].used)]
<1>1. DOMAIN a.rows = 1..Len(a.rows) /\ Len(a.rows) \in Nat
  OBVIOUS
<1>2. DOMAIN devs \subseteq DOMAIN a.rows
  BY DEF Devices, Readable
<1>3. IsFiniteSet(DOMAIN devs) /\ Cardinality(DOMAIN devs) \in Nat
  <2>1. IsFiniteSet(DOMAIN a.rows)
    BY <1>1, FS_Interval
  <2> HIDE DEF devs
  <2> QED
    BY <1>2, <2>1, FS_Subset, FS_CardinalityType
<1>4. ASSUME NEW i \in DOMAIN devs
      PROVE  /\ Figure(devs[i].total) \in Nat /\ Figure(devs[i].free) \in Nat
             /\ Figure(devs[i].used) \in Nat
  <2>1. a.rows[i] \in Row
    BY <1>1, <1>2
  <2>2. devs[i] = Device(a.rows[i], a.modes)
    BY DEF Devices
  <2> HIDE DEF devs
  <2> QED
    BY <2>1, <2>2 DEF Device, Row, Figure, Unsaid
<1> HIDE DEF devs
<1>5. SumFunction(totals) \in Nat /\ SumFunction(frees) \in Nat /\ SumFunction(useds) \in Nat
  BY <1>3, <1>4, SumIsNatural
<1>6. /\ SumOf(devs, LAMBDA d : d.total) = SumFunction(totals)
      /\ SumOf(devs, LAMBDA d : d.free) = SumFunction(frees)
      /\ SumOf(devs, LAMBDA d : d.used) = SumFunction(useds)
  BY DEF SumOf
<1> HIDE DEF totals, frees, useds
<1>7. a.host.total \in Nat /\ a.host.available \in Nat
  BY DEF Host
<1>8. Figures(PoolFigures(Kind(a), devs, a.host, a.apps))
  BY <1>3, <1>5, <1>6, <1>7 DEF PoolFigures, Figures
<1> QED
  BY <1>8 DEF LocalPool, devs

\* A name of the question is a machine's, if only this one's.
LEMMA RankMachine ==
    ASSUME asked \in Questions, NEW r \in DOMAIN asked.at
    PROVE  IsMachine(Machine(r))
<1>1. /\ asked.registered \cup {"here"} \subseteq DOMAIN asked.machine
      /\ \A n \in DOMAIN asked.machine : IsMachine(asked.machine[n])
  BY AdviceAssumption
<1>2. Nodes[r] \in DOMAIN asked.machine
  BY <1>1 DEF Nodes, ByName
<1> QED
  BY <1>1, <1>2 DEF Machine

\* So every machine that is surveyed has figures, and a card to divide by.
LEMMA SurveyedFigures ==
    ASSUME asked \in Questions, NEW r \in DOMAIN asked.at
    PROVE  Figures(Surveyed(r)) /\ PoolOf(r) \in Pool
<1> DEFINE a == Machine(r).answer
<1>1. /\ a = [ok |-> a.ok, rows |-> a.rows, modes |-> a.modes, apps |-> a.apps, host |-> a.host]
      /\ a.rows \in Seq(Row) /\ a.host \in Host /\ a.apps \in Nat
  BY RankMachine DEF IsMachine, IsAnswer
<1> HIDE DEF a
<1>2. Figures(LocalPool(a))
  BY <1>1, AnswerFigures
<1>3. Figures(LocalPool(AskedByLaunch(a)))
  <2> DEFINE b == AskedByLaunch(a)
  <2>1. b.rows = a.rows /\ b.host = a.host /\ b.apps = 0
    BY <1>1 DEF AskedByLaunch
  <2> HIDE DEF b
  <2>2. Figures(LocalPool(b))
    BY <1>1, <2>1, AnswerFigures
  <2> QED
    BY <2>2 DEF b
<1>4. Figures(UnreadPool)
  BY DEF UnreadPool, Figures
<1>5. Figures(Surveyed(r))
  BY <1>2, <1>3, <1>4 DEF Surveyed, FiguresOf, RemotePool, a
<1>6. \A t \in Nat, k \in Nat : HeldBack(k, 30, t, TRUE) \in Nat /\ HeldBack(k, 30, t, FALSE) \in Nat
                               /\ HeldBack(k, 35, t, TRUE) \in Nat /\ HeldBack(k, 35, t, FALSE) \in Nat
  BY DEF HeldBack, Smaller
<1>7. Larger(1, Surveyed(r).devices) \in Nat \ {0} /\ Surveyed(r).total \in Nat
  BY <1>5 DEF Figures, Larger
<1>8. \A t \in Nat, d \in Nat \ {0}, k \in BOOLEAN : Built(t, d, k) \in Pool
  <2> TAKE t \in Nat, d \in Nat \ {0}, k \in BOOLEAN
  <2>1. HeldBack(MemReserve, 30, t, k) \in Nat /\ HeldBack(MemWarnReserve, 35, t, k) \in Nat
    BY <1>6, AdmissionAssumption
  <2> QED
    BY <2>1 DEF Built, Pool
<1> QED
  BY <1>5, <1>7, <1>8 DEF PoolOf, BudgetOf

-----------------------------------------------------------------------------
(* The advice and the verdict                                              *)

\* Multiplication keeps numbers natural, which the provers must be told.
LEMMA ProductType == \A x, y \in Nat : x * y \in Nat
BY SMT

\* The KV cache of a context is a number of bytes.
LEMMA KvBytesType ==
    ASSUME NEW p, Measurable(p), NEW tokens \in Nat
    PROVE  KvBytes(p, tokens) \in Nat
<1>1. \A x, y \in Nat : PerLayer(x, y) \in Nat
  BY ProductType, 4 \in Nat DEF PerLayer
<1>2. FullLayer(p) \in Nat /\ WindowedLayer(p) \in Nat
  BY <1>1 DEF FullLayer, WindowedLayer, Measurable
<1>3. Held(p, tokens) \in Nat
  BY DEF Held, Measurable
<1>4. p.kinds.full * FullLayer(p) \in Nat /\ p.kinds.windowed * WindowedLayer(p) \in Nat
  BY <1>2, ProductType DEF Measurable
<1>5. /\ p.kinds.full * FullLayer(p) * tokens \in Nat
      /\ p.kinds.windowed * WindowedLayer(p) * Held(p, tokens) \in Nat
  BY <1>3, <1>4, ProductType
<1> QED
  BY <1>5 DEF KvBytes

\* Rounding up keeps a lower bound.
LEMMA UpBound ==
    ASSUME NEW x \in Nat, NEW d \in Nat \ {0}
    PROVE  Up(x, d) \in Nat /\ d * Up(x, d) >= x
<1> DEFINE y == (x + d - 1) \div d
<1>1. y \in Nat /\ x + d - 1 < d * y + d
  BY SMT
<1>2. d * y \in Nat
  BY <1>1, ProductType
<1> QED
  BY <1>1, <1>2 DEF Up

\* The advice is no more than is safe, and no less than loads.
LEMMA UtilisationBounds ==
    ASSUME NEW p, Measurable(p), NEW b \in Budget, b.pool.total > 0,
           NEW shards \in Nat \ {0}, Room(p, b, shards)
    PROVE  /\ Utilisation(p, b, shards) \in Nat
           /\ Utilisation(p, b, shards) <= SafeUtilisation(b)
           /\ SafeUtilisation(b) \in Nat
           /\ p.found /\ p.weights > 0 =>
                FloorUtilisation(p, b.pool.total, shards) <= Utilisation(p, b, shards)
<1> DEFINE T == b.pool.total
           safe == SafeUtilisation(b)
           wanted == NeededUtilisation(p, T, shards)
           floor == FloorUtilisation(p, T, shards)
<1>1. /\ b.pool \in Pool /\ b.committed \in Nat /\ b.measured \in Nat /\ b.excluded \in Nat
      /\ b.available \in Nat /\ T \in Nat \ {0} /\ b.pool.reserve \in Nat
  BY DEF Budget, Pool
<1>2. AvailableAfterReplacement(b) \in Nat /\ FreeToCommit(b) \in Nat
  BY <1>1 DEF AvailableAfterReplacement, FreeToCommit, MaxBytes, Less, Smaller, Occupied, Larger
<1>3. /\ (100 * AvailableAfterReplacement(b)) \div T \in Nat
      /\ (100 * FreeToCommit(b)) \div T \in Nat
  <2>1. 100 * AvailableAfterReplacement(b) \in Nat /\ 100 * FreeToCommit(b) \in Nat
    BY <1>2
  <2> QED
    BY <1>1, <2>1, SMT
<1>4. safe \in Nat
  BY <1>3 DEF SafeUtilisation, Smaller, Less
<1>5. Extra(p) \in Nat /\ p.weights \in Nat
  BY RecommendAssumption DEF Extra, Measurable
<1>6. shards * T \in Nat \ {0} /\ shards * Extra(p) \in Nat
  BY <1>1, <1>5, SMT
<1>7. wanted \in Nat
  <2>1. Planned(p) \in Nat
    BY RecommendAssumption DEF Planned, Measurable
  <2>2. Wants(p, shards) \in Nat
    BY <1>5, <1>6, <2>1, KvBytesType DEF Wants, Concurrency
  <2>3. 100 * Wants(p, shards) \in Nat
    BY <2>2
  <2> QED
    BY <1>6, <2>3, UpBound DEF NeededUtilisation
<1>8. floor \in Nat
  <2>1. 100 * (p.weights + shards * Extra(p)) \in Nat
    BY <1>5, <1>6
  <2> QED
    BY <1>6, <2>1, UpBound DEF FloorUtilisation
<1>9. p.found => floor <= safe
  BY DEF Room
<1> HIDE DEF safe, wanted, floor
<1>10. Utilisation(p, b, shards) = IF ~p.found \/ wanted = 0 THEN safe
                                  ELSE Larger(Smaller(safe, wanted), floor)
  BY DEF Utilisation, safe, wanted, floor
<1>11. p.found /\ p.weights > 0 => floor <= Utilisation(p, b, shards)
  BY <1>4, <1>7, <1>8, <1>9, <1>10 DEF Larger, Smaller
<1>12. Utilisation(p, b, shards) \in Nat /\ Utilisation(p, b, shards) <= safe
  BY <1>4, <1>7, <1>8, <1>9, <1>10 DEF Larger, Smaller
<1> QED
  BY <1>4, <1>11, <1>12 DEF safe, floor

\* A safe fraction of a pool is free, and is available.
LEMMA SafeBounds ==
    ASSUME NEW b \in Budget, b.pool.total > 0, NEW u \in Nat, u <= SafeUtilisation(b)
    PROVE  /\ u <= 100
           /\ u * b.pool.total <= 100 * FreeToCommit(b)
           /\ u * b.pool.total <= 100 * AvailableAfterReplacement(b)
<1> DEFINE T == b.pool.total
           F == FreeToCommit(b)
           A == AvailableAfterReplacement(b)
           x == (100 * F) \div T
           y == (100 * A) \div T
<1>1. /\ b.pool \in Pool /\ b.committed \in Nat /\ b.measured \in Nat /\ b.excluded \in Nat
      /\ b.available \in Nat /\ T \in Nat \ {0} /\ b.pool.reserve \in Nat
  BY DEF Budget, Pool
<1>2. A \in Nat /\ F \in Nat /\ F <= T
  BY <1>1 DEF AvailableAfterReplacement, FreeToCommit, MaxBytes, Less, Smaller, Occupied, Larger
<1>3. SafeUtilisation(b) = Smaller(Less(y, 3), x)
  BY <1>1 DEF SafeUtilisation
<1> HIDE DEF T, F, A
<1>4. x \in Nat /\ T * x <= 100 * F /\ y \in Nat /\ T * y <= 100 * A
  <2>1. 100 * F \in Nat /\ 100 * A \in Nat
    BY <1>2
  <2> QED
    BY <1>1, <2>1, SMT
<1> HIDE DEF x, y
<1>5. u <= x /\ u <= y
  BY <1>3, <1>4 DEF Smaller, Less
<1>6. T * u <= T * x /\ T * u <= T * y /\ T * u = u * T
  BY <1>1, <1>4, <1>5, SMT
<1>7. T * u \in Nat /\ T * x \in Nat /\ T * y \in Nat
  BY <1>1, <1>4, ProductType
<1>8. u * T <= 100 * F /\ u * T <= 100 * A
  BY <1>2, <1>4, <1>6, <1>7
<1>9. u <= 100
  <2> SUFFICES ASSUME u >= 101 PROVE FALSE
    OBVIOUS
  <2>1. T * u >= T * 101
    BY <1>1, SMT
  <2>2. T * 101 = 101 * T
    BY <1>1, SMT
  <2> QED
    BY <1>1, <1>2, <1>6, <1>7, <1>8, <2>1, <2>2
<1> QED
  BY <1>8, <1>9 DEF T, F, A

\* Floor division keeps an upper bound.
LEMMA QuotientBelow ==
    ASSUME NEW x \in Nat, NEW d \in Nat \ {0}, NEW bound \in Nat, x <= d * bound
    PROVE  x \div d \in Nat /\ x \div d <= bound
<1> DEFINE y == x \div d
<1>1. y \in Nat /\ d * y <= x
  BY SMT
<1> HIDE DEF y
<1>2. SUFFICES ASSUME y >= bound + 1 PROVE FALSE
  BY <1>1, SMT DEF y
<1>3. d * y >= d * (bound + 1)
  BY <1>1, <1>2, SMT
<1>4. d * (bound + 1) = d * bound + d /\ d * bound \in Nat
  BY SMT
<1> QED
  BY <1>1, <1>3, <1>4, SMT

\* What asks for no more than is free to commit and available is let in, by
\* either check of safety.py.
LEMMA WithinIsAdmitted ==
    ASSUME NEW b \in Budget, NEW requested \in Nat, FreeToCommit(b) > 0,
           requested <= FreeToCommit(b), requested <= AvailableAfterReplacement(b)
    PROVE  ~VllmBlocks(b, requested) /\ ~BytesBlocks(b, requested)
<1>1. /\ b.pool \in Pool /\ b.committed \in Nat /\ b.measured \in Nat /\ b.excluded \in Nat
      /\ b.available \in Nat /\ b.pool.total \in Nat /\ b.pool.reserve \in Nat
  BY DEF Budget, Pool
<1>2. Occupied(b) \in Nat /\ AvailableAfterReplacement(b) \in Nat
  BY <1>1 DEF Occupied, Larger, Less, AvailableAfterReplacement, Smaller
<1>3. FreeToCommit(b) = b.pool.total - b.pool.reserve - Occupied(b)
  BY <1>1, <1>2 DEF FreeToCommit, MaxBytes, Less
<1>4. ~OverCapacity(b, requested) /\ ~OverAvailable(b, requested)
  BY <1>1, <1>2, <1>3 DEF OverCapacity, OverAvailable
<1> QED
  BY <1>4 DEF VllmBlocks, BytesBlocks

\* An advice names a fraction only when there is room, and one of a machine
\* that could be read.
LEMMA AdvisedFraction ==
    ASSUME NEW p, Measurable(p), NEW b \in Budget, NEW machines \in Nat, NEW args,
           VllmAdvice(p, b, machines, args).set.util > 0
    PROVE  LET util == VllmAdvice(p, b, machines, args).set.util
               shards == Larger(1, machines)
           IN  /\ b.pool.total > 0
               /\ Room(p, b, shards) /\ util = Utilisation(p, b, shards)
               /\ util \in 1..100 /\ util <= SafeUtilisation(b)
<1> DEFINE shards == Larger(1, machines)
           util == VllmAdvice(p, b, machines, args).set.util
<1>1. b.pool.total \in Nat /\ shards \in Nat \ {0}
  BY DEF Budget, Pool, Larger
<1>2. Room(p, b, shards) /\ util = Utilisation(p, b, shards)
  BY DEF VllmAdvice, Refusal, NoSuggestions, Suggestions
<1>3. b.pool.total > 0
  <2> SUFFICES ASSUME b.pool.total = 0 PROVE FALSE
    BY <1>1
  <2>1. SafeUtilisation(b) = 0 /\ NeededUtilisation(p, b.pool.total, shards) = 0
    BY DEF SafeUtilisation, NeededUtilisation
  <2> QED
    BY <1>2, <2>1 DEF Utilisation
<1>4. util \in Nat /\ util <= SafeUtilisation(b)
  BY <1>1, <1>2, <1>3, UtilisationBounds
<1>5. util <= 100
  BY <1>3, <1>4, SafeBounds
<1> QED
  BY <1>2, <1>3, <1>4, <1>5

\* The fraction that is advised for vLLM is never refused by the check of the
\* same survey, for any model, machine and number of machines: recommend.py
\* rounds up what is wanted and down what is free, and safety.py rounds down
\* the share.  What the flags add in bytes is the operator's.
THEOREM AdvisedIsAdmitted ==
    ASSUME NEW p, Measurable(p), NEW b \in Budget, NEW machines \in Nat, NEW args,
           NEW flags \in Args,
           VllmAdvice(p, b, machines, args).set.util > 0,
           flags.util = VllmAdvice(p, b, machines, args).set.util,
           flags.kv = 0, flags.offload = 0, Spanned(flags, b.pool) <= b.pool.devices
    PROVE  VllmVerdict(b, Footprint(flags, b.pool)) # "block"
<1> DEFINE T == b.pool.total
           D == b.pool.devices
           S == Spanned(flags, b.pool)
           F == FreeToCommit(b)
           A == AvailableAfterReplacement(b)
           u == flags.util
<1>1. /\ b.pool \in Pool /\ b.committed \in Nat /\ b.measured \in Nat /\ b.excluded \in Nat
      /\ b.available \in Nat /\ T \in Nat /\ b.pool.reserve \in Nat /\ D \in Nat \ {0}
  BY DEF Budget, Pool
<1>2. S \in Nat \ {0} /\ S <= D
  BY <1>1 DEF Args, Spanned
<1>3. F \in Nat /\ A \in Nat
  BY <1>1 DEF AvailableAfterReplacement, FreeToCommit, MaxBytes, Less, Smaller, Occupied, Larger
<1>4. T > 0 /\ u \in 1..100 /\ u <= SafeUtilisation(b)
  BY AdvisedFraction
<1>7. u <= 100 /\ u * T <= 100 * F /\ u * T <= 100 * A
  BY <1>4, SafeBounds
<1> HIDE DEF T, D, S, F, A
<1>8. u * T \in Nat \ {0}
  BY <1>1, <1>4, SMT
<1>9. F > 0
  BY <1>3, <1>7, <1>8
<1>10. \A x \in Nat : u * T <= 100 * x => (u * T * S) \div (100 * D) \in Nat
                                          /\ (u * T * S) \div (100 * D) <= x
  <2> SUFFICES ASSUME NEW x \in Nat, u * T <= 100 * x
               PROVE  /\ (u * T * S) \div (100 * D) \in Nat
                      /\ (u * T * S) \div (100 * D) <= x
    OBVIOUS
  <2> DEFINE w == u * T
  <2>1. w \in Nat /\ 100 * x \in Nat /\ 100 * D \in Nat \ {0}
    BY <1>1, <1>8
  <2> HIDE DEF w
  <2>2. w * S <= w * D /\ w * S \in Nat /\ w * D \in Nat
    BY <1>1, <1>2, <2>1, SMT
  <2>3. w * D <= (100 * x) * D
    BY <1>1, <2>1, SMT DEF w
  <2>4. (100 * x) * D = (100 * D) * x /\ (100 * D) * x \in Nat
    BY <1>1, SMT
  <2>5. w * S <= (100 * D) * x
    BY <2>2, <2>3, <2>4
  <2>6. (w * S) \div (100 * D) \in Nat /\ (w * S) \div (100 * D) <= x
    BY ONLY <2>1, <2>2, <2>5, x \in Nat, QuotientBelow
  <2> QED
    BY <2>6 DEF w
<1> DEFINE share == (u * T * S) \div (100 * D)
<1>11. share \in Nat /\ share <= F /\ share <= A
  BY <1>3, <1>7, <1>10
<1> HIDE DEF share
<1>12. Footprint(flags, b.pool) = share
  <2>1. u # NoUtil
    BY <1>4 DEF NoUtil
  <2>2. Footprint(flags, b.pool) = Larger(share, 0) + 0
    BY <2>1 DEF Footprint, share, T, D, S
  <2> QED
    BY <1>11, <2>2 DEF Larger
<1> QED
  BY <1>9, <1>11, <1>12, WithinIsAdmitted DEF VllmVerdict, F, A

\* The fraction that is advised for vLLM holds each machine's share of the
\* weights and what every rank needs beside them, for any model and any number
\* of machines: no rounding and no division among the machines loses a part.
THEOREM AdvisedLoads ==
    ASSUME NEW p, Measurable(p), NEW b \in Budget, NEW machines \in Nat, NEW args,
           p.found, p.weights > 0,
           VllmAdvice(p, b, machines, args).set.util > 0
    PROVE  VllmAdvice(p, b, machines, args).set.util * b.pool.total * Larger(1, machines)
             >= 100 * (p.weights + Larger(1, machines) * Extra(p))
<1> DEFINE shards == Larger(1, machines)
           T == b.pool.total
           u == VllmAdvice(p, b, machines, args).set.util
           floor == FloorUtilisation(p, T, shards)
           wants == 100 * (p.weights + shards * Extra(p))
<1>1. T \in Nat /\ shards \in Nat \ {0}
  BY DEF Budget, Pool, Larger
<1>2. T > 0 /\ Room(p, b, shards) /\ u = Utilisation(p, b, shards)
  BY AdvisedFraction
<1>4. u \in Nat /\ floor <= u
  BY <1>1, <1>2, UtilisationBounds
<1>5. Extra(p) \in Nat /\ p.weights \in Nat
  BY RecommendAssumption DEF Extra, Measurable
<1>6. wants \in Nat /\ shards * T \in Nat \ {0}
  BY <1>1, <1>2, <1>5, SMT
<1>7. floor = Up(wants, shards * T)
  BY <1>1, <1>2, <1>5 DEF FloorUtilisation
<1> HIDE DEF shards, T, u, floor, wants
<1>8. floor \in Nat /\ (shards * T) * floor >= wants
  BY <1>6, <1>7, UpBound
<1>9. (shards * T) * u >= (shards * T) * floor
  BY <1>4, <1>6, <1>8, SMT
<1>10. (shards * T) * u = u * T * shards
  BY <1>1, <1>4, SMT
<1>11. (shards * T) * u \in Nat /\ (shards * T) * floor \in Nat
  BY <1>4, <1>6, <1>8, ProductType
<1> QED
  BY <1>6, <1>8, <1>9, <1>10, <1>11 DEF shards, T, u, wants

\* What may be spent is a number of bytes.
LEMMA SpendableType ==
    ASSUME NEW b \in Budget
    PROVE  /\ FreeToCommit(b) \in Nat /\ AvailableAfterReplacement(b) \in Nat
           /\ Spendable(b) \in Nat
           /\ Spendable(b) <= Smaller(FreeToCommit(b), AvailableAfterReplacement(b))
<1> DEFINE F == FreeToCommit(b)
           A == AvailableAfterReplacement(b)
<1>1. /\ b.pool \in Pool /\ b.committed \in Nat /\ b.measured \in Nat /\ b.excluded \in Nat
      /\ b.available \in Nat /\ b.pool.total \in Nat /\ b.pool.reserve \in Nat
  BY DEF Budget, Pool
<1>2. F \in Nat /\ A \in Nat
  BY <1>1 DEF AvailableAfterReplacement, FreeToCommit, MaxBytes, Less, Smaller, Occupied, Larger
<1>3. Spendable(b) = (9 * Smaller(F, A)) \div 10
  BY DEF Spendable
<1> HIDE DEF F, A
<1>4. Spendable(b) \in Nat /\ Spendable(b) <= Smaller(F, A)
  BY <1>2, <1>3, SMT DEF Smaller
<1> QED
  BY <1>2, <1>4 DEF F, A

\* What recommend_llamacpp.py lets a choice of layers and context cost is let
\* in by the check that answers the launch.
THEOREM SpendableIsAdmitted ==
    ASSUME NEW b \in Budget, NEW cost \in Nat, cost <= Spendable(b), Spendable(b) > 0
    PROVE  ~BytesBlocks(b, cost)
<1> DEFINE F == FreeToCommit(b)
           A == AvailableAfterReplacement(b)
<1>1. F \in Nat /\ A \in Nat /\ Spendable(b) \in Nat /\ Spendable(b) <= Smaller(F, A)
  BY SpendableType
<1> HIDE DEF F, A
<1>2. cost <= F /\ cost <= A /\ F > 0
  BY <1>1 DEF Smaller
<1> QED
  BY <1>2, WithinIsAdmitted DEF F, A

-----------------------------------------------------------------------------
(* What a file says is a header with numbers, and so is what is priced.    *)

Numbered(h) ==
    /\ h.bytes \in Nat /\ h.blocks \in 0..MaxLayers /\ h.context \in Nat
    /\ h.embedding \in Nat /\ h.heads \in Nat /\ h.kv_heads \in Nat
    /\ h.key_length \in Nat /\ h.value_length \in Nat

\* Flags with numbers where there should be.
Counted(flags) ==
    /\ flags.layers \in Nat /\ flags.ctx \in Nat /\ flags.ubatch \in Nat
    /\ flags.companions \in Nat

\* The number of an entry, which is the largest of those that are one.
LEMMA EntryNumber == ASSUME NEW entry \in Entry PROVE AsInt(entry) \in Nat
<1> DEFINE good == {n \in entry.numbers : 0 <= n /\ n <= MaxDimension}
<1>1. good \in SUBSET (0..MaxDimension) /\ MaxDimension \in Nat /\ \A n \in good : n \in Nat
  BY GgufAssumption DEF Entry
<1> DEFINE most == CHOOSE n \in good : \A m \in good : m <= n
<1>2. AsInt(entry) = IF entry.count > MaxLayers \/ good = {} THEN 0 ELSE most
  BY DEF AsInt
<1> HIDE DEF good
<1>3. good # {} => most \in good
  <2>1. good # {} => \E n \in good : \A m \in good : m <= n
    BY <1>1, Greatest
  <2> QED
    BY <2>1
<1> HIDE DEF most
<1>4. good # {} => most \in Nat
  BY <1>1, <1>3
<1> QED
  BY <1>2, <1>4

\* A header has a number where its table has one, and 0 elsewhere.
LEMMA HeaderNumbers == ASSUME NEW f, IsFile(f) PROVE Numbered(Header(f))
<1>1. f.bytes \in Nat /\ f.entries \in Seq(Entry)
  BY DEF IsFile
<1>2. ASSUME NEW key PROVE Value(f, key) \in Nat
  <2> DEFINE at == {i \in DOMAIN f.entries : f.entries[i].key = key}
  <2>1. at \in SUBSET (0..Len(f.entries)) /\ Len(f.entries) \in Nat
    BY <1>1
  <2>2. CASE at = {}
    BY <2>2 DEF Value
  <2>3. CASE at # {}
    <3> DEFINE last == CHOOSE i \in at : \A j \in at : j <= i
    <3> HIDE DEF at
    <3>1. \E i \in at : \A j \in at : j <= i
      BY <2>1, <2>3, Greatest
    <3>2. last \in at
      BY <3>1
    <3>3. Value(f, key) = AsInt(f.entries[last])
      BY <2>3 DEF Value, at
    <3> HIDE DEF last
    <3>4. f.entries[last] \in Entry
      BY <1>1, <3>2 DEF at
    <3> QED
      BY <3>3, <3>4, EntryNumber
  <2> QED
    BY <2>2, <2>3
<1>3. \A n \in Nat : Layers(n) \in 0..MaxLayers
  BY GgufAssumption DEF Layers
<1> QED
  BY <1>1, <1>2, <1>3 DEF Header, Numbered

\* A larger number has no smaller quotient.
LEMMA QuotientGrows ==
    ASSUME NEW x \in Nat, NEW y \in Nat, NEW d \in Nat \ {0}, x <= y
    PROVE  x \div d \in Nat /\ y \div d \in Nat /\ x \div d <= y \div d
<1> DEFINE a == x \div d
           b == y \div d
<1>1. a \in Nat /\ b \in Nat /\ d * a <= x /\ y < d * b + d
  BY SMT
<1> HIDE DEF a, b
<1>2. SUFFICES ASSUME a >= b + 1 PROVE FALSE
  BY <1>1 DEF a, b
<1>3. d * a >= d * (b + 1)
  BY <1>1, <1>2, SMT
<1>4. d * (b + 1) = d * b + d
  BY <1>1, SMT
<1>5. d * a \in Nat /\ d * b \in Nat
  BY <1>1, SMT
<1> QED
  BY <1>1, <1>3, <1>4, <1>5

\* Neither have products of larger numbers.
LEMMA ProductGrows ==
    ASSUME NEW x \in Nat, NEW y \in Nat, NEW d \in Nat, x <= y
    PROVE  x * d \in Nat /\ y * d \in Nat /\ x * d <= y * d
BY SMT

\* More layers on the accelerator are more bytes, up to the whole file.
LEMMA OffloadGrows ==
    ASSUME NEW h, Numbered(h), NEW l \in Nat, NEW m \in Nat, l <= m
    PROVE  /\ OffloadedBytes(h, l) \in Nat /\ OffloadedBytes(h, m) \in Nat
           /\ OffloadedBytes(h, l) <= OffloadedBytes(h, m)
<1> DEFINE d == h.blocks + 1
           share(n) == (h.bytes * n) \div d
<1>1. h.bytes \in Nat /\ d \in Nat \ {0}
  BY GgufAssumption DEF Numbered
<1>2. \A n \in Nat : OffloadedBytes(h, n) = IF h.blocks = 0 \/ n >= d THEN h.bytes ELSE share(n)
  BY DEF OffloadedBytes
<1>3. ASSUME NEW n \in Nat, n <= d PROVE share(n) \in Nat /\ share(n) <= h.bytes
  <2>1. h.bytes * n <= d * h.bytes /\ h.bytes * n \in Nat
    <3>1. n * h.bytes <= d * h.bytes /\ n * h.bytes \in Nat
      BY <1>1, <1>3, ProductGrows
    <3>2. n * h.bytes = h.bytes * n
      BY <1>1, SMT
    <3> QED
      BY <3>1, <3>2
  <2> HIDE DEF d
  <2> QED
    BY <1>1, <2>1, QuotientBelow
<1>4. l < d /\ m < d => share(l) <= share(m)
  <2>1. h.bytes * l <= h.bytes * m /\ h.bytes * l \in Nat /\ h.bytes * m \in Nat
    <3>1. l * h.bytes <= m * h.bytes /\ l * h.bytes \in Nat /\ m * h.bytes \in Nat
      BY <1>1, ProductGrows
    <3>2. l * h.bytes = h.bytes * l /\ m * h.bytes = h.bytes * m
      BY <1>1, SMT
    <3> QED
      BY <3>1, <3>2
  <2> HIDE DEF d
  <2> QED
    BY <1>1, <2>1, QuotientGrows
<1> HIDE DEF d, share
<1> QED
  BY <1>1, <1>2, <1>3, <1>4

\* The KV cache of more tokens is no smaller.
LEMMA CacheGrows ==
    ASSUME NEW h, Numbered(h), NEW c \in Nat, NEW e \in Nat, c <= e, NEW k, NEW v
    PROVE  /\ CacheBytes(h, c, k, v) \in Nat /\ CacheBytes(h, e, k, v) \in Nat
           /\ CacheBytes(h, c, k, v) <= CacheBytes(h, e, k, v)
<1> DEFINE block == CacheBlock(k)
           other == CacheBlock(v)
           per == KeyWidth(h) * block[2] * other[1] + ValueWidth(h) * other[2] * block[1]
           elements == block[1] * other[1]
           all(n) == n * h.blocks * KvHeads(h) * per
<1>1. \A t : CacheBlock(t)[1] \in Nat \ {0} /\ CacheBlock(t)[2] \in Nat
  BY DEF CacheBlock
<1>2. KeyWidth(h) \in Nat /\ KvHeads(h) \in Nat /\ h.blocks \in Nat
  <2>1. h.heads # 0 => h.embedding \div h.heads \in Nat
    BY DEF Numbered
  <2> QED
    BY <2>1, GgufAssumption DEF KeyWidth, KvHeads, Numbered
<1>3. ValueWidth(h) \in Nat
  BY <1>2 DEF ValueWidth, Numbered
<1>4. per \in Nat
  <2>1. KeyWidth(h) * block[2] * other[1] \in Nat
    BY <1>1, <1>2, ProductType
  <2>2. ValueWidth(h) * other[2] * block[1] \in Nat
    BY <1>1, <1>3, ProductType
  <2> HIDE DEF block, other
  <2> QED
    BY <2>1, <2>2
<1>5. elements \in Nat \ {0}
  <2>1. \A x, y \in Nat \ {0} : x * y \in Nat \ {0}
    BY SMT
  <2> QED
    BY <1>1, <2>1
<1> HIDE DEF per, elements, block, other
<1>6. all(c) \in Nat /\ all(e) \in Nat /\ all(c) <= all(e)
  <2>1. c * h.blocks \in Nat /\ e * h.blocks \in Nat /\ c * h.blocks <= e * h.blocks
    BY <1>2, ProductGrows
  <2>2. /\ c * h.blocks * KvHeads(h) \in Nat /\ e * h.blocks * KvHeads(h) \in Nat
        /\ c * h.blocks * KvHeads(h) <= e * h.blocks * KvHeads(h)
    BY <1>2, <2>1, ProductGrows
  <2> QED
    BY <1>4, <2>2, ProductGrows
<1> HIDE DEF all
<1>7. /\ all(c) \div elements \in Nat /\ all(e) \div elements \in Nat
      /\ all(c) \div elements <= all(e) \div elements
  BY <1>5, <1>6, QuotientGrows
<1>8. \A n : CacheBytes(h, n, k, v) = IF KvSized(h, n) THEN all(n) \div elements ELSE 0
  BY DEF CacheBytes, all, elements, per, block, other
<1>9. KvSized(h, c) => KvSized(h, e)
  BY DEF KvSized
<1> QED
  BY <1>7, <1>8, <1>9

\* Neither are the buffers it is computed in.
LEMMA ComputeGrows ==
    ASSUME NEW h, Numbered(h), NEW flags, Counted(flags), NEW args, Counted(args),
           flags.ubatch = args.ubatch, flags.flash = args.flash,
           NEW c \in Nat, NEW e \in Nat, c <= e
    PROVE  /\ ComputeBytes(h, flags, c) \in Nat /\ ComputeBytes(h, args, e) \in Nat
           /\ ComputeBytes(h, flags, c) <= ComputeBytes(h, args, e)
<1> DEFINE u == Ubatch(flags)
           heads == IF h.heads = 0 THEN 1 ELSE h.heads
           scores(n) == n * u * heads * 4
           floor == IF u <= DefaultUbatch THEN ComputeFloor
                    ELSE (ComputeFloor * u) \div DefaultUbatch
           held(n) == IF scores(n) < MaxScores THEN scores(n) ELSE MaxScores
<1>1. u \in Nat /\ heads \in Nat /\ u = Ubatch(args)
  BY GgufAssumption DEF Ubatch, Counted, Numbered
<1>2. floor \in Nat
  <2>1. ComputeFloor * u \in Nat
    BY <1>1, GgufAssumption, ProductType
  <2>2. (ComputeFloor * u) \div DefaultUbatch \in Nat
    BY <2>1, GgufAssumption, QuotientGrows
  <2> QED
    BY <2>2, GgufAssumption
<1> HIDE DEF u, heads, floor
<1>3. scores(c) \in Nat /\ scores(e) \in Nat /\ scores(c) <= scores(e)
  <2>1. c * u \in Nat /\ e * u \in Nat /\ c * u <= e * u
    BY <1>1, ProductGrows
  <2>2. c * u * heads \in Nat /\ e * u * heads \in Nat /\ c * u * heads <= e * u * heads
    BY <1>1, <2>1, ProductGrows
  <2> QED
    BY <2>2, 4 \in Nat, ProductGrows
<1> HIDE DEF scores
<1>4. held(c) \in Nat /\ held(e) \in Nat /\ held(c) <= held(e)
  BY <1>3, GgufAssumption
<1>5. \A n : ComputeBytes(h, flags, n) = floor + (IF flags.flash = "off" THEN held(n) ELSE 0)
  BY DEF ComputeBytes, u, heads, scores, floor
<1>6. ComputeBytes(h, args, e) = ComputeBytes(h, flags, e)
  BY <1>1 DEF ComputeBytes, u
<1> HIDE DEF held
<1> QED
  BY <1>2, <1>4, <1>5, <1>6

\* So a launch with more layers or a longer context costs no less.  A model whose
\* geometry cannot be read has no price with any of them.
LEMMA CostGrows ==
    ASSUME NEW h, Numbered(h), NEW args \in LlamaSet,
           NEW l \in Nat, NEW m \in Nat, l <= m,
           NEW c \in Nat \ {0}, NEW e \in Nat \ {0}, c <= e
    PROVE  /\ Cost(h, args, l, c) \in Nat /\ Cost(h, args, m, e) \in Nat
           /\ Cost(h, args, l, c) <= Cost(h, args, m, e)
<1> DEFINE less == [args EXCEPT !.layers = l, !.ctx = c, !.companions = 0]
           more == [args EXCEPT !.layers = m, !.ctx = e, !.companions = 0]
<1>1. /\ Counted(less) /\ less.layers = l /\ less.ctx = c /\ less.companions = 0
      /\ less.k = args.k /\ less.v = args.v /\ less.ubatch = args.ubatch
      /\ less.flash = args.flash
  BY DEF LlamaSet, Counted
<1>2. /\ Counted(more) /\ more.layers = m /\ more.ctx = e /\ more.companions = 0
      /\ more.k = args.k /\ more.v = args.v /\ more.ubatch = args.ubatch
      /\ more.flash = args.flash
  BY DEF LlamaSet, Counted
<1>3. Cost(h, args, l, c) = Price(h, less) /\ Cost(h, args, m, e) = Price(h, more)
  BY DEF Cost
<1> HIDE DEF less, more
<1>4. /\ OffloadedBytes(h, l) \in Nat /\ OffloadedBytes(h, m) \in Nat
      /\ OffloadedBytes(h, l) <= OffloadedBytes(h, m)
  BY OffloadGrows
<1>5. /\ CacheBytes(h, c, args.k, args.v) \in Nat /\ CacheBytes(h, e, args.k, args.v) \in Nat
      /\ CacheBytes(h, c, args.k, args.v) <= CacheBytes(h, e, args.k, args.v)
  BY CacheGrows
<1>6. /\ ComputeBytes(h, less, c) \in Nat /\ ComputeBytes(h, more, e) \in Nat
      /\ ComputeBytes(h, less, c) <= ComputeBytes(h, more, e)
  BY <1>1, <1>2, ComputeGrows
<1>7. Price(h, less) = IF KvSized(h, c) THEN OffloadedBytes(h, l) + CacheBytes(h, c, args.k, args.v)
                                              + ComputeBytes(h, less, c) ELSE 0
  BY <1>1, <1>4, <1>5, <1>6 DEF Price, Sized, Context
<1>8. Price(h, more) = IF KvSized(h, e) THEN OffloadedBytes(h, m) + CacheBytes(h, e, args.k, args.v)
                                              + ComputeBytes(h, more, e) ELSE 0
  BY <1>2, <1>4, <1>5, <1>6 DEF Price, Sized, Context
<1>9. KvSized(h, c) = KvSized(h, e)
  BY DEF KvSized
<1> QED
  BY <1>3, <1>4, <1>5, <1>6, <1>7, <1>8, <1>9

\* What a file is priced at with any flags is a number of bytes.
LEMMA PriceType == ASSUME NEW f, IsFile(f), NEW flags, Counted(flags) PROVE PriceOf(f, flags) \in Nat
<1> DEFINE h == Header(f)
           ctx == Context(h, flags)
<1>1. Numbered(h)
  BY HeaderNumbers
<1> HIDE DEF h
<1>2. ctx \in Nat /\ flags.layers \in Nat /\ flags.companions \in Nat
  BY <1>1 DEF Context, Numbered, Counted
<1>3. OffloadedBytes(h, flags.layers) \in Nat
  BY <1>1, <1>2, OffloadGrows
<1>4. CacheBytes(h, ctx, flags.k, flags.v) \in Nat
  BY <1>1, <1>2, CacheGrows
<1>5. ComputeBytes(h, flags, ctx) \in Nat
  BY <1>1, <1>2, ComputeGrows
<1>6. Price(h, flags) \in Nat
  BY <1>2, <1>3, <1>4, <1>5 DEF Price
<1> QED
  BY <1>6 DEF PriceOf, ReadCached, h

-----------------------------------------------------------------------------
(* What a command is read for are numbers, and so is its price.            *)

\* Simpler tokens are tokens too.
LEMMA SimplerTokens ==
    ASSUME NEW words
    PROVE  /\ Bare(words) \subseteq Token(words) /\ Flagged(words) \subseteq Token(words)
           /\ Seq(Bare(words)) \subseteq Seq(Token(words))
           /\ Seq(Flagged(words)) \subseteq Seq(Token(words))
<1>1. \A S : <<>> \in Seq(S)
  BY EmptySeq
<1>2. Bare(words) \subseteq Token(words) /\ Flagged(words) \subseteq Token(words)
  BY <1>1 DEF Bare, Flagged, Token
<1> QED
  BY <1>2, SeqMonotonic

\* The values of a flag are tokens of the command, or joined to one.
LEMMA FlagValueTyped ==
    ASSUME NEW words, NEW argv \in Seq(Token(words)), NEW names
    PROVE  FlagValue(argv, names) \in Seq(Token(words))
<1> DEFINE at == {i \in DOMAIN argv : argv[i].says \in names}
           first == CHOOSE i \in at : \A j \in at : i <= j
           after(i) == IF argv[i].joined # <<>> THEN argv[i].joined ELSE Following(argv, i)
<1>1. DOMAIN argv = 1..Len(argv) /\ Len(argv) \in Nat
  BY LenProperties
<1>2. at \in SUBSET Nat
  BY <1>1
<1>3. at # {} => first \in DOMAIN argv
  <2> SUFFICES ASSUME at # {} PROVE first \in at
    OBVIOUS
  <2> HIDE DEF at
  <2>1. \E i \in at : \A j \in at : i <= j
    BY <1>2, Least
  <2> QED
    BY <2>1
<1>4. ASSUME NEW i \in DOMAIN argv PROVE after(i) \in Seq(Token(words))
  <2>1. argv[i].joined \in Seq(Token(words))
    <3>1. argv[i] \in Token(words)
      BY <1>1, ElementOfSeq
    <3>2. argv[i].joined \in Seq(Bare(words))
      BY <3>1 DEF Token
    <3> QED
      BY <3>2, SimplerTokens
  <2>2. Following(argv, i) \in Seq(Token(words))
    <3>1. Smaller(i + 1, Len(argv)) \in Int /\ i + 1 \in Int
          /\ \A j \in (i + 1)..Smaller(i + 1, Len(argv)) : j \in 1..Len(argv)
      BY <1>1 DEF Smaller
    <3>2. \A j \in (i + 1)..Smaller(i + 1, Len(argv)) : argv[j] \in Token(words)
      BY <3>1, ElementOfSeq
    <3> QED
      BY <3>1, <3>2, SubSeqProperties DEF Following
  <2> QED
    BY <2>1, <2>2
<1>5. FlagValue(argv, names) = IF at = {} THEN <<>> ELSE after(first)
  BY DEF FlagValue
<1> HIDE DEF at, first, after
<1> QED
  BY <1>3, <1>4, <1>5, EmptySeq

\* What a flag is read for is a number, if it is one.
LEMMA SeenTyped ==
    ASSUME NEW words, NEW argv \in Seq(Token(words)), NEW names
    PROVE  \A n \in Nat : SeenNumber(argv, names, n) \in Nat
<1> DEFINE values == FlagValue(argv, names)
<1>1. values \in Seq(Token(words))
  BY FlagValueTyped
<1>2. \A n : SeenNumber(argv, names, n) = Head((IF values = <<>> THEN <<>> ELSE values[1].number) \o <<n>>)
  BY DEF SeenNumber
<1> HIDE DEF values
<1>4. values # <<>> => values[1] \in Token(words)
  BY <1>1, EmptySeq, ElementOfSeq
<1>5. (IF values = <<>> THEN <<>> ELSE values[1].number) \in Seq(Nat)
  BY <1>4, EmptySeq DEF Token
<1>6. \A q \in Seq(Nat), n \in Nat : Head(q \o <<n>>) \in Nat
  <2> TAKE q \in Seq(Nat), n \in Nat
  <2>1. q \o <<n>> \in Seq(Nat) /\ q \o <<n>> # <<>>
    OBVIOUS
  <2> QED
    BY <2>1
<1> QED
  BY <1>2, <1>5, <1>6

\* The argv of a program is made of tokens, in a line for a shell or not.
LEMMA ArgvTyped ==
    ASSUME NEW words, NEW command \in Seq(Token(words)), NEW program
    PROVE  ArgvOf(command, program) \in Seq(Token(words))
<1> DEFINE starts(line) == {j \in DOMAIN line : Runs(line, j, program)}
           lines == {i \in DOMAIN command : command[i].says # "'" /\ starts(command[i].line) # {}}
           first(at) == CHOOSE i \in at : \A j \in at : i <= j
           line == command[first(lines)].line
<1>1. DOMAIN command = 1..Len(command) /\ Len(command) \in Nat
  BY LenProperties
<1>2. ASSUME NEW S \in SUBSET Nat, S # {} PROVE first(S) \in S
  <2>1. \E i \in S : \A j \in S : i <= j
    BY <1>2, Least
  <2> QED
    BY <2>1
<1>3. ArgvOf(command, program) = IF lines = {} THEN command
                                 ELSE SubSeq(line, first(starts(line)), Len(line))
  BY DEF ArgvOf
<1>4. lines \subseteq DOMAIN command /\ lines \in SUBSET Nat
  BY <1>1
<1>4a. lines # {} => first(lines) \in lines
  <2> HIDE DEF lines, first
  <2> QED
    BY <1>2, <1>4
<1>4b. \A i \in lines : starts(command[i].line) # {}
  OBVIOUS
<1> HIDE DEF lines
<1>5. CASE lines # {}
  <2>1. first(lines) \in DOMAIN command /\ starts(line) # {}
    BY <1>4, <1>4a, <1>4b, <1>5
  <2>2. line \in Seq(Flagged(words))
    <3> HIDE DEF first
    <3>1. command[first(lines)] \in Token(words)
      BY <1>1, <2>1, ElementOfSeq
    <3> QED
      BY <3>1 DEF Token
  <2> HIDE DEF line
  <2>3. DOMAIN line = 1..Len(line) /\ Len(line) \in Nat
    BY <2>2, LenProperties
  <2>4. starts(line) \in SUBSET Nat /\ \A j \in starts(line) : j \in 1..Len(line)
    BY <2>3
  <2> HIDE DEF starts
  <2> DEFINE from == first(starts(line))
  <2>5. from \in 1..Len(line)
    BY <1>2, <2>1, <2>4
  <2> HIDE DEF from
  <2>6. from \in Int /\ Len(line) \in Int /\ \A j \in from..Len(line) : j \in 1..Len(line)
    BY <2>3, <2>5
  <2>6a. \A j \in from..Len(line) : line[j] \in Flagged(words)
    BY <2>2, <2>6, ElementOfSeq
  <2>7. SubSeq(line, from, Len(line)) \in Seq(Flagged(words))
    BY <2>6, <2>6a, SubSeqProperties
  <2> QED
    BY <1>3, <1>5, <2>7, SimplerTokens DEF from
<1> QED
  BY <1>3, <1>5

\* What vLLM is priced at is a number of bytes.
LEMMA FootprintType ==
    ASSUME NEW pool \in Pool, NEW args, args.util \in Nat, args.parallel \in Nat,
           args.kv \in Nat, args.offload \in Nat
    PROVE  Footprint(args, pool) \in Nat
<1> DEFINE util == IF args.util = NoUtil THEN DefaultUtil ELSE args.util
           S == Spanned(args, pool)
           D == pool.devices
           T == pool.total
<1>1. util \in Nat /\ S \in Nat /\ T \in Nat /\ 100 * D \in Nat \ {0}
  BY AdmissionAssumption DEF Spanned, Pool
<1> HIDE DEF util, S, D, T
<1>2. util * T * S \in Nat
  BY <1>1, ProductType
<1>3. (util * T * S) \div (100 * D) \in Nat
  BY <1>1, <1>2, QuotientGrows
<1>4. Footprint(args, pool) = Larger((util * T * S) \div (100 * D), args.kv) + args.offload
  BY DEF Footprint, util, S, D, T
<1> QED
  BY <1>3, <1>4 DEF Larger

\* A survey prices any container there may be.
LEMMA SeenType ==
    ASSUME NEW words, NEW c \in Container(words), NEW f, IsFile(f), NEW pool \in Pool
    PROVE  SeenPrice(c, f, pool) \in Nat
<1> DEFINE whole == c.entrypoint \o c.command
           seen == Identify(c)
           vargv == ArgvOf(seen.argv, VllmProgram)
           largv == ArgvOf(seen.argv, LlamaProgram)
<1>1. c.command \in Seq(Token(words)) /\ whole \in Seq(Token(words))
  BY ConcatProperties DEF Container
<1>2. seen.engine # "" => seen.argv \in Seq(Token(words))
  <2> DEFINE alone == Found(RecogniseArgv(c.command), c.command)
             both == Found(RecogniseArgv(whole), whole)
  <2>1. alone.engine # "" => alone.argv \in Seq(Token(words))
    BY <1>1 DEF Found
  <2>2. both.engine # "" => both.argv \in Seq(Token(words))
    BY <1>1 DEF Found
  <2>3. seen = IF alone.engine # "" THEN alone ELSE both
    BY DEF Identify
  <2> HIDE DEF alone, both, seen
  <2> QED
    BY <2>1, <2>2, <2>3
<1> HIDE DEF seen, whole
<1>3. ASSUME seen.engine # "" PROVE vargv \in Seq(Token(words)) /\ largv \in Seq(Token(words))
  BY <1>2, <1>3, ArgvTyped
<1> HIDE DEF vargv, largv
<1>4. ASSUME NEW argv \in Seq(Token(words)) PROVE Footprint(VllmParams(argv), pool) \in Nat
  <2> DEFINE params == VllmParams(argv)
  <2>1. NoUtil \in Nat /\ 0 \in Nat
    BY DEF NoUtil
  <2>2. /\ params.util \in Nat /\ params.kv \in Nat /\ params.offload \in Nat
        /\ params.parallel \in Nat
    BY <2>1, SeenTyped DEF VllmParams
  <2> HIDE DEF params
  <2>3. Footprint(params, pool) \in Nat
    BY <2>2, FootprintType
  <2> QED
    BY <2>3 DEF params
<1>5. ASSUME NEW argv \in Seq(Token(words))
      PROVE  LaunchPrice(FALSE, LlamaParams(argv), LlamaModel(argv), f, pool) \in Nat
  <2>1. Every \in Nat
    BY GgufAssumption DEF Every
  <2>2. Counted(LlamaParams(argv))
    <3>1. \A names : \A n \in Nat : SeenNumber(argv, names, n) \in Nat
      BY SeenTyped
    <3>2. NGpuLayers(argv) \in Nat
      BY <2>1, <3>1 DEF NGpuLayers
    <3> QED
      BY <3>1, <3>2 DEF LlamaParams, Counted
  <2> QED
    BY <2>2, PriceType DEF LaunchPrice
<1> DEFINE byVllm == Footprint(VllmParams(vargv), pool)
           byLlama == LaunchPrice(FALSE, LlamaParams(largv), LlamaModel(largv), f, pool)
<1>6. SeenPrice(c, f, pool) = CASE seen.engine = "" -> 0
                                [] seen.engine = "vllm" -> byVllm
                                [] OTHER -> byLlama
  BY DEF SeenPrice, seen, vargv, largv
<1>7. seen.engine # "" => byVllm \in Nat /\ byLlama \in Nat
  BY <1>3, <1>4, <1>5
<1> HIDE DEF byVllm, byLlama
<1>9. seen.engine = "" => SeenPrice(c, f, pool) = 0
  BY <1>6
<1>10. CASE seen.engine = ""
  <2>1. SeenPrice(c, f, pool) = 0
    BY <1>9, <1>10
  <2> QED
    BY <2>1
<1>11. CASE seen.engine # ""
  <2>1. byVllm \in Nat /\ byLlama \in Nat
    BY <1>7, <1>11
  <2>2. SeenPrice(c, f, pool) = byVllm \/ SeenPrice(c, f, pool) = byLlama
          \/ SeenPrice(c, f, pool) = 0
    BY <1>6
  <2>3. 0 \in Nat
    OBVIOUS
  <2> QED
    BY <2>1, <2>2, <2>3, Zenon
<1> QED
  BY <1>10, <1>11

-----------------------------------------------------------------------------
(* The commands that are built are made of tokens.                         *)

\* The words of the programs beside those of the question, which the provers
\* are not told are strings.
Words ==
    STRING \cup {VllmFlags[dest].flags[1] : dest \in DOMAIN VllmFlags}
    \cup {LlamaFlags[dest].flags[1] : dest \in DOMAIN LlamaFlags}
    \cup {"--no-enable-auto-tool-choice", "--no-jinja", "", "all", "/outputs", "address",
          "0.0.0.0", "vllm", "serve", "llama-server", "llmd-entrypoint", "-m", "-hf",
          "--metrics", "--host", "--port", "--headless", "--pipeline-parallel-size",
          "--nnodes", "--node-rank", "--master-addr", "--master-port"}
    \cup {"gpu_memory_utilization", "kv_cache_memory_bytes", "cpu_offload_gb",
          "tensor_parallel_size", "served_model_name", "n_gpu_layers", "ctx_size",
          "cache_type_k", "cache_type_v", "ubatch_size", "flash_attn", "mmproj", "alias"}

Settled == Words \X Token(Words)

\* More words make more tokens.
LEMMA TokensGrow ==
    ASSUME NEW words, NEW others, words \subseteq others
    PROVE  /\ Token(words) \subseteq Token(others)
           /\ Container(words) \subseteq Container(others)
<1>1. Bare(words) \subseteq Bare(others)
  BY DEF Bare
<1>2. Seq(Bare(words)) \subseteq Seq(Bare(others))
  BY <1>1, SeqMonotonic
<1>3. Flagged(words) \subseteq Flagged(others)
  BY <1>2 DEF Flagged
<1>4. Seq(Flagged(words)) \subseteq Seq(Flagged(others))
  BY <1>3, SeqMonotonic
<1>5. Token(words) \subseteq Token(others)
  BY <1>2, <1>4 DEF Token
<1>6. Seq(Token(words)) \subseteq Seq(Token(others))
  BY <1>5, SeqMonotonic
<1> QED
  BY <1>5, <1>6 DEF Container

\* Words and numbers are tokens, and so is a list of them.
LEMMA Tokens ==
    /\ \A w \in Words : Word(w) \in Token(Words)
    /\ \A n \in Nat : Number(n) \in Token(Words)
    /\ Blank \in Token(Words)
    /\ \A t \in Token(Words) : Items(t) \in Seq(Token(Words)) /\ Line(Items(t)) \in Token(Words)
<1>1. \A S : <<>> \in Seq(S)
  BY EmptySeq
<1>2. /\ \A w \in Words : Word(w) \in Token(Words)
      /\ \A n \in Nat : Number(n) \in Token(Words)
      /\ Blank \in Token(Words)
  <2>1. "" \in Words
    BY DEF Words
  <2>2. \A n \in Nat : <<n>> \in Seq(Nat)
    OBVIOUS
  <2> QED
    BY <1>1, <2>1, <2>2 DEF Word, Number, Blank, Token
<1>3. ASSUME NEW t \in Token(Words)
      PROVE  Items(t) \in Seq(Flagged(Words)) /\ Items(t) \in Seq(Token(Words))
  <2>1. t.line # <<>> => Items(t) \in Seq(Flagged(Words))
    BY DEF Token, Items
  <2>2. t.line = <<>> => t \in Flagged(Words)
    BY DEF Token, Flagged
  <2>3. t.line = <<>> => Items(t) \in Seq(Flagged(Words))
    BY <2>2 DEF Items
  <2> QED
    BY <2>1, <2>3, SimplerTokens
<1>4. \A line \in Seq(Flagged(Words)) : Line(line) \in Token(Words)
  <2>1. "" \in Words
    BY DEF Words
  <2> QED
    BY <1>1, <2>1 DEF Line, Blank, Token
<1> QED
  BY <1>2, <1>3, <1>4

\* What a schema renders of its own.
Speaks(schema) ==
    \A dest \in DOMAIN schema : /\ schema[dest].flags[1] \in Words
                                /\ schema[dest].negative \in Seq(Token(Words))

\* Both engines' schemas are made of the words.
LEMMA SchemasSpeak == Speaks(VllmFlags) /\ Speaks(LlamaFlags)
<1>1. Word("--no-enable-auto-tool-choice") \in Token(Words) /\ Word("--no-jinja") \in Token(Words)
  <2>1. "--no-enable-auto-tool-choice" \in Words /\ "--no-jinja" \in Words
    BY DEF Words
  <2> QED
    BY <2>1, Tokens
<1>2. /\ <<Word("--no-enable-auto-tool-choice")>> \in Seq(Token(Words))
      /\ <<Word("--no-jinja")>> \in Seq(Token(Words)) /\ <<>> \in Seq(Token(Words))
  BY <1>1
<1>3. ASSUME NEW dest \in DOMAIN VllmFlags PROVE VllmFlags[dest].negative \in Seq(Token(Words))
  <2>1. VllmFlags[dest].negative \in {<<>>, <<Word("--no-enable-auto-tool-choice")>>}
    BY DEF VllmFlags, Arg, Switch, OneOf
  <2> QED
    BY <1>2, <2>1
<1>4. ASSUME NEW dest \in DOMAIN LlamaFlags PROVE LlamaFlags[dest].negative \in Seq(Token(Words))
  <2>1. LlamaFlags[dest].negative \in {<<>>, <<Word("--no-jinja")>>}
    BY DEF LlamaFlags, Arg, Switch, OneOf
  <2> QED
    BY <1>2, <2>1
<1>5. /\ \A dest \in DOMAIN VllmFlags : VllmFlags[dest].flags[1] \in Words
      /\ \A dest \in DOMAIN LlamaFlags : LlamaFlags[dest].flags[1] \in Words
  BY DEF Words
<1> QED
  BY <1>3, <1>4, <1>5 DEF Speaks

\* A setting is rendered as tokens.
LEMMA RenderedTyped ==
    ASSUME NEW schema, Speaks(schema), NEW settings \in Seq(Settled), NEW isVllm
    PROVE  Rendered(schema, settings, isVllm) \in Seq(Token(Words))
<1> DEFINE tokens(dest, value) ==
               IF dest \in Managed \/ dest \notin DOMAIN schema THEN <<>>
               ELSE IF IsDefault(schema[dest], value) THEN <<>>
               ELSE IF isVllm THEN VllmRender(schema[dest], value)
                    ELSE LlamaRender(schema[dest], value)
           seqs == [i \in DOMAIN settings |-> tokens(settings[i][1], settings[i][2])]
           T == Token(Words)
<1>1. ASSUME NEW dest \in DOMAIN schema, NEW value \in T
      PROVE  /\ VllmRender(schema[dest], value) \in Seq(T)
             /\ LlamaRender(schema[dest], value) \in Seq(T)
  <2> DEFINE arg == schema[dest]
  <2>1. Word(arg.flags[1]) \in T /\ arg.negative \in Seq(T)
    BY Tokens DEF Speaks
  <2>2. Items(value) \in Seq(T) /\ Line(Items(value)) \in T
    BY Tokens
  <2> HIDE DEF arg, T
  <2>3. <<Word(arg.flags[1])>> \o Items(value) \in Seq(T)
    BY <2>1, <2>2
  <2>4. /\ <<Word(arg.flags[1])>> \in Seq(T) /\ <<Word(arg.flags[1]), value>> \in Seq(T)
        /\ <<Word(arg.flags[1]), Line(Items(value))>> \in Seq(T)
    BY <2>1, <2>2
  <2>5. VllmRender(arg, value) \in Seq(T)
    BY <2>1, <2>3, <2>4 DEF VllmRender
  <2>6. LlamaRender(arg, value) \in Seq(T)
    BY <2>4, <2>5 DEF LlamaRender
  <2> QED
    BY <2>5, <2>6 DEF arg
<1>2. ASSUME NEW dest, NEW value \in T PROVE tokens(dest, value) \in Seq(T)
  <2>1. <<>> \in Seq(T)
    BY EmptySeq
  <2> QED
    BY <1>1, <2>1
<1> HIDE DEF tokens
<1>3. DOMAIN settings = 1..Len(settings) /\ Len(settings) \in Nat
  BY LenProperties
<1>4. \A i \in 1..Len(settings) : seqs[i] \in Seq(T)
  <2> TAKE i \in 1..Len(settings)
  <2>1. settings[i][2] \in T
    BY <1>3, ElementOfSeq DEF Settled
  <2> QED
    BY <1>2, <1>3, <2>1
<1>5. seqs \in [1..Len(settings) -> Seq(T)]
  BY <1>3, <1>4
<1> HIDE DEF seqs, T
<1>6. seqs \in Seq(Seq(T))
  BY <1>3, <1>5
<1>7. FlattenSeq(seqs) \in Seq(T)
  BY <1>6, FlattenTyped
<1>8. Rendered(schema, settings, isVllm) = FlattenSeq(seqs)
  BY DEF Rendered, seqs, tokens
<1> QED
  BY <1>7, <1>8 DEF T

\* All but some settings are settings.
LEMMA WithoutTyped ==
    ASSUME NEW S, NEW settings \in Seq(S), NEW dests
    PROVE  Without(settings, dests) \in Seq(S)
<1> DEFINE seqs == [i \in DOMAIN settings |->
                       IF settings[i][1] \in dests THEN <<>> ELSE <<settings[i]>>]
<1>1. seqs \in Seq(Seq(S))
  <2>1. \A i \in 1..Len(settings) : settings[i] \in S
    OBVIOUS
  <2>2. DOMAIN settings = 1..Len(settings) /\ Len(settings) \in Nat
    OBVIOUS
  <2>3. \A i \in 1..Len(settings) : seqs[i] \in Seq(S)
    BY <2>1, <2>2
  <2>4. seqs \in [1..Len(settings) -> Seq(S)]
    BY <2>2, <2>3
  <2> QED
    BY <2>2, <2>4
<1> HIDE DEF seqs
<1>2. FlattenSeq(seqs) \in Seq(S)
  BY <1>1, FlattenTyped
<1>3. Without(settings, dests) = FlattenSeq(seqs)
  BY DEF Without, seqs
<1> QED
  BY <1>2, <1>3

\* The command of a server is made of tokens.
LEMMA CommandTyped ==
    ASSUME NEW isVllm, NEW model \in Token(Words), NEW settings \in Seq(Settled),
           NEW named \in Token(Words), NEW port \in Nat
    PROVE  BuildCommand(isVllm, model, settings, named, port) \in Seq(Token(Words))
<1> DEFINE T == Token(Words)
           dest == IF isVllm THEN "served_model_name" ELSE "alias"
           named_too == IF named # Blank /\ Setting(settings, dest, Blank) = Blank
                        THEN <<<<dest, named>>>> ELSE <<>>
           others == IF named_too = <<>> THEN settings ELSE Without(settings, {dest})
           all == others \o named_too
<1>1. named_too \in Seq(Settled)
  <2>1. dest \in Words
    BY DEF Words
  <2> HIDE DEF dest
  <2>2. <<dest, named>> \in Settled
    BY <2>1 DEF Settled
  <2> QED
    BY <2>2
<1> HIDE DEF dest, named_too
<1>2. others \in Seq(Settled)
  BY WithoutTyped
<1>3. all \in Seq(Settled)
  BY <1>1, <1>2
<1> HIDE DEF others, all
<1>4. \A w \in {"--host", "0.0.0.0", "--port", "vllm", "serve", "llama-server", "-m", "-hf",
                "--metrics"} : Word(w) \in T
  <2>1. \A w \in {"--host", "0.0.0.0", "--port", "vllm", "serve", "llama-server", "-m", "-hf",
                  "--metrics"} : w \in Words
    BY DEF Words
  <2> QED
    BY <2>1, Tokens
<1>5. Number(port) \in T
  BY Tokens
<1>6. Rendered(VllmFlags, all, TRUE) \in Seq(T) /\ Rendered(LlamaFlags, all, FALSE) \in Seq(T)
  BY <1>3, SchemasSpeak, RenderedTyped
<1>t. model \in T
  OBVIOUS
<1> DEFINE v == Rendered(VllmFlags, all, TRUE)
           l == Rendered(LlamaFlags, all, FALSE)
<1>c. v \in Seq(T) /\ l \in Seq(T)
  BY <1>6
<1> HIDE DEF T, v, l
<1>d. \A x, y \in Seq(T) : x \o y \in Seq(T)
  BY ConcatProperties
<1>7. Serving(port) \in Seq(T)
  BY <1>4, <1>5 DEF Serving
<1>8. VllmArgv(model, all, port) \in Seq(T)
  <2>1. <<Word("vllm"), Word("serve"), model>> \in Seq(T)
    BY <1>4, <1>t
  <2>2. <<Word("vllm"), Word("serve"), model>> \o Serving(port) \in Seq(T)
    BY <1>7, <2>1
  <2>3. VllmArgv(model, all, port) = <<Word("vllm"), Word("serve"), model>> \o Serving(port) \o v
    BY DEF VllmArgv, v
  <2> QED
    BY <1>c, <1>d, <2>2, <2>3
<1>9. LlamaArgv(model, all, port) \in Seq(T)
  <2> DEFINE named_by == IF model = Blank THEN <<>>
                         ELSE <<Word(IF LooksLikePath(model) THEN "-m" ELSE "-hf"), model>>
  <2>1. <<Word("llama-server")>> \in Seq(T) /\ <<Word("--metrics")>> \in Seq(T)
    BY <1>4
  <2>2. named_by \in Seq(T)
    BY <1>4, <1>t
  <2>3. LlamaArgv(model, all, port)
          = <<Word("llama-server")>> \o Serving(port) \o named_by \o <<Word("--metrics")>>
              \o l
    BY DEF LlamaArgv, l
  <2> HIDE DEF named_by
  <2>4. <<Word("llama-server")>> \o Serving(port) \o named_by \in Seq(T)
    BY <1>7, <1>d, <2>1, <2>2
  <2>5. <<Word("llama-server")>> \o Serving(port) \o named_by \o <<Word("--metrics")>> \in Seq(T)
    BY <1>d, <2>1, <2>4
  <2> QED
    BY <1>c, <1>d, <2>3, <2>5
<1>10. BuildCommand(isVllm, model, settings, named, port)
         = IF isVllm THEN VllmArgv(model, all, port) ELSE LlamaArgv(model, all, port)
  BY DEF BuildCommand, all, others, named_too, dest
<1> QED
  BY <1>8, <1>9, <1>10 DEF T

\* And so is that of a rank.
LEMMA RankTyped ==
    ASSUME NEW argv \in Seq(Token(Words)), NEW rank \in Nat, NEW ranks \in Nat, NEW port \in Nat
    PROVE  RankArgv(argv, rank, ranks, port) \in Seq(Token(Words))
<1> DEFINE T == Token(Words)
           headless == IF rank > 0 THEN <<Word("--headless")>> ELSE <<>>
           own == <<Word("--pipeline-parallel-size"), Number(ranks), Word("--nnodes"),
                    Number(ranks), Word("--node-rank"), Number(rank), Word("--master-addr"),
                    Word("address"), Word("--master-port"), Number(port)>>
<1>1. \A w \in {"--headless", "--pipeline-parallel-size", "--nnodes", "--node-rank",
                "--master-addr", "address", "--master-port"} : Word(w) \in T
  <2>1. \A w \in {"--headless", "--pipeline-parallel-size", "--nnodes", "--node-rank",
                  "--master-addr", "address", "--master-port"} : w \in Words
    BY DEF Words
  <2> QED
    BY <2>1, Tokens
<1>2. Number(ranks) \in T /\ Number(rank) \in T /\ Number(port) \in T /\ argv \in Seq(T)
  BY Tokens
<1> HIDE DEF T
<1>3. headless \in Seq(T) /\ own \in Seq(T)
  BY <1>1, <1>2
<1>4. RankArgv(argv, rank, ranks, port) = argv \o headless \o own
  BY DEF RankArgv
<1> HIDE DEF headless, own
<1> QED
  BY <1>2, <1>3, <1>4 DEF T

\* Any port that is found for the ranks is a number.
LEMMA PortType == ASSUME NEW taken PROVE MasterPortBeside(taken) \in Nat
<1> DEFINE free == MasterPorts \ taken
           least == CHOOSE p \in free : \A q \in free : p <= q
<1>1. free \in SUBSET Nat
  BY DEF MasterPorts
<1>2. MasterPortBeside(taken) = IF free = {} THEN 0 ELSE least
  BY DEF MasterPortBeside
<1> HIDE DEF free
<1>3. free # {} => least \in free
  <2>1. free # {} => \E p \in free : \A q \in free : p <= q
    BY <1>1, Least
  <2> QED
    BY <2>1
<1> HIDE DEF least
<1>4. free # {} => least \in Nat
  BY <1>1, <1>3
<1> QED
  BY <1>2, <1>4

\* Flags as the engine of the question takes them.
Fits(flags) == IF Vllm THEN flags \in Args ELSE flags \in LlamaSet

\* What the flags for memory are set to.
Sizes(flags) ==
    IF Vllm
    THEN <<<<"gpu_memory_utilization", Unless(NoUtil, flags.util)>>,
           <<"kv_cache_memory_bytes", Unless(0, flags.kv)>>,
           <<"cpu_offload_gb", Number(flags.offload)>>,
           <<"tensor_parallel_size", Number(flags.parallel)>>>>
    ELSE <<<<"n_gpu_layers", IF flags.layers = Every THEN Word("all") ELSE Number(flags.layers)>>,
           <<"ctx_size", Number(flags.ctx)>>,
           <<"cache_type_k", Word(flags.k)>>, <<"cache_type_v", Word(flags.v)>>,
           <<"ubatch_size", Unless(0, flags.ubatch)>>, <<"flash_attn", Word(flags.flash)>>,
           <<"mmproj", IF flags.companions = 0 THEN Blank ELSE Word("/outputs")>>>>

\* The form is made of settings, those for memory last.
LEMMA FormTyped ==
    ASSUME asked \in Questions, NEW flags, Fits(flags)
    PROVE  /\ asked.others \in Seq(Settled) /\ Sizes(flags) \in Seq(Settled)
           /\ Form(flags) = asked.others \o Sizes(flags) /\ Form(flags) \in Seq(Settled)
<1>1. asked.others \in Seq(Settled)
  <2>1. Token(STRING) \subseteq Token(Words) /\ STRING \subseteq Words
    BY TokensGrow DEF Words
  <2>2. STRING \X Token(STRING) \subseteq Settled
    BY <2>1 DEF Settled
  <2>3. asked.others \in Seq(STRING \X Token(STRING))
    BY AdviceAssumption DEF IsForm
  <2> QED
    BY <2>2, <2>3, SeqMonotonic
<1>2. \A w \in {"gpu_memory_utilization", "kv_cache_memory_bytes", "cpu_offload_gb",
                "tensor_parallel_size", "n_gpu_layers", "ctx_size", "cache_type_k",
                "cache_type_v", "ubatch_size", "flash_attn", "mmproj", "all", "/outputs"} :
        w \in Words
  BY DEF Words
<1>3. \A u, n \in Nat : Unless(u, n) \in Token(Words)
  BY Tokens DEF Unless
<1>4. CASE Vllm
  <2>1. flags.util \in Nat /\ flags.kv \in Nat /\ flags.offload \in Nat /\ flags.parallel \in Nat
    BY <1>4 DEF Fits, Args, NoUtil
  <2>2. /\ Unless(NoUtil, flags.util) \in Token(Words) /\ Unless(0, flags.kv) \in Token(Words)
        /\ Number(flags.offload) \in Token(Words) /\ Number(flags.parallel) \in Token(Words)
    BY <1>3, <2>1, Tokens DEF NoUtil
  <2> DEFINE mine == <<<<"gpu_memory_utilization", Unless(NoUtil, flags.util)>>,
                       <<"kv_cache_memory_bytes", Unless(0, flags.kv)>>,
                       <<"cpu_offload_gb", Number(flags.offload)>>,
                       <<"tensor_parallel_size", Number(flags.parallel)>>>>
  <2>3. /\ <<"gpu_memory_utilization", Unless(NoUtil, flags.util)>> \in Settled
        /\ <<"kv_cache_memory_bytes", Unless(0, flags.kv)>> \in Settled
        /\ <<"cpu_offload_gb", Number(flags.offload)>> \in Settled
        /\ <<"tensor_parallel_size", Number(flags.parallel)>> \in Settled
    BY <1>2, <2>2 DEF Settled
  <2>4. mine \in Seq(Settled)
    BY <2>3
  <2>5. Form(flags) = asked.others \o mine /\ Sizes(flags) = mine
    BY <1>4 DEF Form, Sizes
  <2> HIDE DEF mine
  <2> QED
    BY <1>1, <2>4, <2>5
<1>5. CASE ~Vllm
  <2> DEFINE layers == IF flags.layers = Every THEN Word("all") ELSE Number(flags.layers)
             projector == IF flags.companions = 0 THEN Blank ELSE Word("/outputs")
             mine == <<<<"n_gpu_layers", layers>>, <<"ctx_size", Number(flags.ctx)>>,
                       <<"cache_type_k", Word(flags.k)>>, <<"cache_type_v", Word(flags.v)>>,
                       <<"ubatch_size", Unless(0, flags.ubatch)>>,
                       <<"flash_attn", Word(flags.flash)>>, <<"mmproj", projector>>>>
  <2>1. /\ flags.layers \in Nat /\ flags.ctx \in Nat /\ flags.ubatch \in Nat
        /\ flags.k \in Words /\ flags.v \in Words /\ flags.flash \in Words
    BY <1>5 DEF Fits, LlamaSet, Words
  <2>2. /\ layers \in Token(Words) /\ Number(flags.ctx) \in Token(Words)
        /\ Word(flags.k) \in Token(Words) /\ Word(flags.v) \in Token(Words)
        /\ Unless(0, flags.ubatch) \in Token(Words) /\ Word(flags.flash) \in Token(Words)
        /\ projector \in Token(Words)
    BY <1>2, <1>3, <2>1, Tokens
  <2>3. Form(flags) = asked.others \o mine /\ Sizes(flags) = mine
    BY <1>5 DEF Form, Sizes
  <2> HIDE DEF layers, projector
  <2>4. /\ <<"n_gpu_layers", layers>> \in Settled /\ <<"ctx_size", Number(flags.ctx)>> \in Settled
        /\ <<"cache_type_k", Word(flags.k)>> \in Settled
        /\ <<"cache_type_v", Word(flags.v)>> \in Settled
        /\ <<"ubatch_size", Unless(0, flags.ubatch)>> \in Settled
        /\ <<"flash_attn", Word(flags.flash)>> \in Settled /\ <<"mmproj", projector>> \in Settled
    BY <1>2, <2>2 DEF Settled
  <2>5. mine \in Seq(Settled)
    BY <2>4
  <2> HIDE DEF mine
  <2> QED
    BY <1>1, <2>3, <2>5
<1> QED
  BY <1>4, <1>5

\* What runs is known by commands and files that can be read.
Legible(e) == e.container \in Container(Words) /\ IsFile(e.file)

\* Every rank that is launched from a form is.
LEMMA EngineTyped ==
    ASSUME asked \in Questions, NEW flags, Fits(flags)
    PROVE  /\ \A r \in DOMAIN Engine(flags) :
                /\ Legible(Engine(flags)[r]) /\ Engine(flags)[r].flags = flags
                /\ Engine(flags)[r].engine = asked.engine /\ Engine(flags)[r].model = asked.ref
                /\ Engine(flags)[r].file = IF Vllm THEN NoFile ELSE asked.model
           /\ DOMAIN Engine(flags) = DOMAIN asked.at
<1> DEFINE T == Token(Words)
<1>1. asked.ref \in T /\ asked.named \in T
  <2>1. Token(STRING) \subseteq T
    BY TokensGrow DEF Words
  <2> QED
    BY <2>1, AdviceAssumption DEF IsForm
<1>2. Form(flags) \in Seq(Settled) /\ Settings(Form(flags)) \in Seq(Settled)
  BY FormTyped, WithoutTyped DEF Settings
<1>3. IsFile(IF Vllm THEN NoFile ELSE asked.model)
  <2>1. IsFile(NoFile)
    BY EmptySeq DEF NoFile, IsFile
  <2> QED
    BY <2>1, AdviceAssumption DEF IsForm, Vllm
<1>4. ASSUME NEW port, NEW argv \in Seq(T)
      PROVE  LET e == Launched(flags, port, argv)
             IN  /\ Legible(e) /\ e.flags = flags /\ e.engine = asked.engine
                 /\ e.model = asked.ref /\ e.file = IF Vllm THEN NoFile ELSE asked.model
  <2>1. Word("llmd-entrypoint") \in T
    <3>1. "llmd-entrypoint" \in Words
      BY DEF Words
    <3> QED
      BY <3>1, Tokens
  <2>2. <<Word("llmd-entrypoint")>> \in Seq(T)
    BY <2>1
  <2>3. Started(argv) \in Container(Words)
    BY <2>2 DEF Started, Container
  <2> QED
    BY <1>3, <2>3 DEF Launched, Legible
<1>5. Len(asked.at) \in Nat \ {0} /\ DOMAIN asked.at = 1..Len(asked.at)
  BY AdviceAssumption
<1>6. CASE Pooled
  <2> DEFINE yes == TRUE
             argv == BuildCommand(yes, asked.ref, Settings(Form(flags)), asked.named, 8000)
             port == MasterPortBeside(PortsTaken)
  <2>1. argv \in Seq(T) /\ port \in Nat
    <3> HIDE DEF yes
    <3>1. argv \in Seq(T)
      BY <1>1, <1>2, CommandTyped
    <3> HIDE DEF argv
    <3> QED
      BY <3>1, PortType
  <2>2. Engine(flags) = [r \in DOMAIN asked.at |-> Launched(flags, port, RankArgv(argv, r - 1, Len(asked.at), port))]
    BY <1>6 DEF Engine, RanksOn
  <2> HIDE DEF argv, port
  <2>3. \A r \in DOMAIN asked.at : RankArgv(argv, r - 1, Len(asked.at), port) \in Seq(T)
    <3> TAKE r \in DOMAIN asked.at
    <3>1. r - 1 \in Nat /\ Len(asked.at) \in Nat
      BY <1>5
    <3> HIDE DEF T
    <3> QED
      BY <2>1, <3>1, RankTyped DEF T
  <2> HIDE DEF T
  <2> QED
    BY <1>4, <2>2, <2>3
<1>7. CASE ~Pooled
  <2> DEFINE argv == BuildCommand(Vllm, asked.ref, Form(flags), asked.named, 8000)
  <2>1. argv \in Seq(T)
    BY <1>1, <1>2, CommandTyped
  <2>2. Engine(flags) = <<Launched(flags, 0, argv)>>
    BY <1>7 DEF Engine
  <2>3. DOMAIN asked.at = {1}
    BY <1>5, <1>7 DEF Pooled
  <2> HIDE DEF argv, T
  <2> QED
    BY <1>4, <2>1, <2>2, <2>3
<1> QED
  BY <1>6, <1>7

-----------------------------------------------------------------------------
(* What a repository says is a profile with numbers.                       *)

\* A config and a snapshot, for what is measured of them.
Countable(c) ==
    /\ DOMAIN c.numbers \subseteq Keys \X Spellings \X {0, 1}
    /\ \A x \in DOMAIN c.numbers : c.numbers[x] \in Nat
    /\ c.layer_types \in Seq({"full_attention", "sliding_attention", "linear_attention"})

Weighed(s) ==
    /\ s.safetensors \in Seq(Nat) /\ s.ggufs \in Seq(Nat) /\ s.indexed \in Nat
    /\ s.config # <<>> => Countable(s.config[1])

\* Of the spellings and the levels of a key that are there one is the first.
LEMMA PickType == ASSUME NEW c, Countable(c), NEW key PROVE Pick(c, key) \in Nat
<1> DEFINE found == {x \in DOMAIN c.numbers : x[1] = key}
           first == CHOOSE x \in found : \A y \in found :
                        x[2] < y[2] \/ (x[2] = y[2] /\ x[3] <= y[3])
           rank(x) == 2 * x[2] + x[3]
           ranks == {rank(x) : x \in found}
<1>1. \A x \in found : x \in DOMAIN c.numbers /\ x[2] \in 0..5 /\ x[3] \in {0, 1}
  BY DEF Countable, Spellings
<1>2. Pick(c, key) = IF found = {} THEN 0 ELSE c.numbers[first]
  BY DEF Pick
<1> HIDE DEF found
<1>3. \A x \in found : rank(x) \in Nat
  BY <1>1
<1>4. ranks \in SUBSET Nat /\ (found # {} => ranks # {})
  BY <1>3
<1>5. found # {} => first \in found
  <2> SUFFICES ASSUME found # {} PROVE \E x \in found : \A y \in found :
                                         x[2] < y[2] \/ (x[2] = y[2] /\ x[3] <= y[3])
    OBVIOUS
  <2>1. PICK n \in ranks : \A m \in ranks : n <= m
    <3> HIDE DEF ranks
    <3> QED
      BY <1>4, Least
  <2>2. PICK x \in found : n = rank(x)
    BY <2>1
  <2>3. ASSUME NEW y \in found PROVE x[2] < y[2] \/ (x[2] = y[2] /\ x[3] <= y[3])
    <3>1. rank(x) <= rank(y)
      BY <2>1, <2>2
    <3> QED
      BY <1>1, <3>1
  <2> QED
    BY <2>3
<1> HIDE DEF first
<1>6. found # {} => c.numbers[first] \in Nat
  BY <1>1, <1>5 DEF Countable
<1> QED
  BY <1>2, <1>6

\* Layers of a kind are counted.
LEMMA CountType ==
    ASSUME NEW S, NEW layers \in Seq(S), NEW kind
    PROVE  Count(kind, layers) \in Nat
<1> DEFINE at == {i \in DOMAIN layers : layers[i] = kind}
<1>1. DOMAIN layers = 1..Len(layers) /\ Len(layers) \in Nat
  BY LenProperties
<1>2. IsFiniteSet(1..Len(layers)) /\ at \subseteq 1..Len(layers)
  BY <1>1, FS_Interval
<1> HIDE DEF at
<1>3. Cardinality(at) \in Nat
  BY <1>2, FS_Subset, FS_CardinalityType
<1> QED
  BY <1>3 DEF Count, at

\* Files weigh a number of bytes.
LEMMA WeightType == ASSUME NEW s, Weighed(s) PROVE WeightBytes(s) \in Nat
<1>1. ASSUME NEW q \in Seq(Nat) PROVE SumFunction(q) \in Nat
  <2>1. DOMAIN q = 1..Len(q) /\ Len(q) \in Nat /\ \A i \in DOMAIN q : q[i] \in Nat
    OBVIOUS
  <2>2. IsFiniteSet(DOMAIN q)
    BY <2>1, FS_Interval
  <2> QED
    BY <2>1, <2>2, SumIsNatural
<1>2. SumFunction(s.safetensors) \in Nat /\ SumFunction(s.ggufs) \in Nat
  BY <1>1 DEF Weighed
<1> QED
  BY <1>2 DEF WeightBytes, Weighed

\* So a snapshot's profile can be measured.
LEMMA ProfileMeasurable == ASSUME NEW s, Weighed(s) PROVE Measurable(ProfileOf(s))
<1> DEFINE config == IF s.config = <<>> THEN NoConfig ELSE s.config[1]
           p == ProfileOf(s)
           heads == Pick(config, "heads")
           grouped == Pick(config, "kv_heads")
           dim == Pick(config, "head_dim")
           hidden == Pick(config, "hidden")
<1>1. Countable(config)
  <2>1. Countable(NoConfig)
    BY EmptySeq DEF NoConfig, Countable
  <2> QED
    BY <2>1 DEF Weighed
<1>2. /\ p.found = TRUE /\ p.weights = WeightBytes(s)
      /\ p.context = Pick(config, "context") /\ p.layers = Pick(config, "layers")
      /\ p.kinds = LayerTypes(config) /\ p.window = Pick(config, "window")
      /\ p.heads = (IF grouped # 0 THEN grouped ELSE heads)
      /\ p.dim = (IF dim # 0 THEN dim ELSE IF heads = 0 THEN 0 ELSE hidden \div heads)
      /\ p.global_heads = Pick(config, "global_heads")
      /\ p.global_dim = Pick(config, "global_dim")
  BY DEF ProfileOf
<1>3. p.is_multimodal \in BOOLEAN
  BY DEF ProfileOf
<1> HIDE DEF config, p
<1>4. \A key : Pick(config, key) \in Nat
  BY <1>1, PickType
<1>5. p.heads \in Nat /\ p.dim \in Nat
  <2>1. heads # 0 => hidden \div heads \in Nat
    BY <1>4, QuotientGrows
  <2> HIDE DEF heads, grouped, dim, hidden
  <2>2. heads \in Nat /\ grouped \in Nat /\ dim \in Nat
    BY <1>4 DEF heads, grouped, dim
  <2> QED
    BY <1>2, <2>1, <2>2
<1>6. p.kinds.full \in Nat /\ p.kinds.windowed \in Nat
  <2>1. /\ Count("full_attention", config.layer_types) \in Nat
        /\ Count("sliding_attention", config.layer_types) \in Nat
    BY <1>1, CountType DEF Countable
  <2> QED
    BY <1>2, <1>4, <2>1 DEF LayerTypes
<1>7. p.weights \in Nat
  BY <1>2, WeightType
<1> QED
  BY <1>2, <1>3, <1>4, <1>5, <1>6, <1>7 DEF Measurable, p

\* Whichever snapshot is taken, and if there is none.
LEMMA ReadMeasurable ==
    ASSUME NEW repo, IsRepository(repo), NEW reached
    PROVE  Measurable(Read(repo)) /\ Measurable(ReadRemote(repo, reached))
<1> DEFINE all == DOMAIN repo.snapshots
           configured == {i \in all : repo.snapshots[i].config # <<>>}
<1>1. all = 1..Len(repo.snapshots) /\ Len(repo.snapshots) \in Nat
  BY DEF IsRepository
<1>2. \A i \in all : Weighed(repo.snapshots[i])
  BY DEF IsRepository, IsSnapshot, IsConfig, Weighed, Countable
<1>3. Measurable(Missing)
  <2> DEFINE empty == [safetensors |-> <<>>, ggufs |-> <<>>, indexed |-> 0, config |-> <<>>,
                       adapter |-> FALSE, processor |-> FALSE, pooling |-> FALSE,
                       templates |-> <<>>]
  <2>1. Weighed(empty)
    BY EmptySeq DEF Weighed
  <2>2. Measurable(ProfileOf(empty))
    BY <2>1, ProfileMeasurable
  <2>3. Missing = [ProfileOf(empty) EXCEPT !.found = FALSE]
    BY DEF Missing
  <2>4. Missing.found = FALSE
    BY <2>3 DEF ProfileOf
  <2>5. LET p == ProfileOf(empty)
        IN  /\ Missing.is_multimodal = p.is_multimodal /\ Missing.weights = p.weights
            /\ Missing.context = p.context /\ Missing.layers = p.layers
            /\ Missing.window = p.window /\ Missing.heads = p.heads /\ Missing.dim = p.dim
            /\ Missing.global_heads = p.global_heads /\ Missing.global_dim = p.global_dim
            /\ Missing.kinds = p.kinds
    BY <2>3
  <2> QED
    BY <2>2, <2>4, <2>5 DEF Measurable
<1>4. ASSUME NEW wanted \in SUBSET all, wanted # {} PROVE Newest(repo, wanted) \in all
  <2>1. wanted \in SUBSET (0..Len(repo.snapshots))
    BY <1>1
  <2>2. \E i \in wanted : \A j \in wanted : j <= i
    BY <1>1, <1>4, <2>1, Greatest
  <2> QED
    BY <2>2 DEF Newest
<1>5. repo.snapshots # <<>> => all # {}
  BY <1>1 DEF IsRepository
<1> HIDE DEF all
<1>6. repo.snapshots # <<>> => SnapshotOf(repo) \in all /\ RemoteSnapshotOf(repo) \in all
  BY <1>4, <1>5 DEF SnapshotOf, RemoteSnapshotOf, all
<1> QED
  BY <1>2, <1>3, <1>6, ProfileMeasurable DEF Read, ReadRemote, all

\* The model of a question is measured, here or on a peer.
LEMMA ModelMeasurable == ASSUME asked \in Questions, Vllm PROVE Measurable(Model)
BY AdviceAssumption, ReadMeasurable DEF Model, Vllm, IsForm

-----------------------------------------------------------------------------
(* The survey of a machine is a budget.                                    *)

\* What runs was launched from a form that was saved, and only vLLM is pooled.
Known ==
    running # None =>
        \E flags : /\ Fits(flags) /\ Saved(flags) /\ (Pooled => Vllm)
                   /\ running = Engine(flags)

\* What a launch is priced at is a number of bytes.
LEMMA LaunchPriceType ==
    ASSUME NEW flags, NEW model, NEW f, NEW pool \in Pool,
           Vllm => flags \in Args, ~Vllm => flags \in LlamaSet /\ IsFile(f)
    PROVE  LaunchPrice(Vllm, flags, model, f, pool) \in Nat
<1>1. CASE Vllm
  <2>1. flags.util \in Nat /\ flags.parallel \in Nat /\ flags.kv \in Nat /\ flags.offload \in Nat
    BY <1>1 DEF Args, NoUtil
  <2>2. Footprint(flags, pool) \in Nat
    BY <2>1, FootprintType
  <2> QED
    BY <1>1, <2>2 DEF LaunchPrice
<1>2. CASE ~Vllm
  <2>1. Counted(flags)
    BY <1>2 DEF LlamaSet, Counted
  <2>2. PriceOf(f, flags) \in Nat
    BY <1>2, <2>1, PriceType
  <2> QED
    BY <1>2, <2>2 DEF LaunchPrice
<1> QED
  BY <1>1, <1>2

\* What the tenants of a machine commit of it is a number of bytes.
LEMMA CommittedType ==
    ASSUME asked \in Questions, NEW r \in DOMAIN asked.at
    PROVE  Committed(Listing(Machine(r)), PoolOf(r)) \in Nat
<1> DEFINE tenants == Listing(Machine(r))
           pool == PoolOf(r)
           prices == [i \in DOMAIN tenants |-> Seen(tenants[i], pool)]
<1>1. IsMachine(Machine(r))
  BY RankMachine
<1>2. IsFiniteSet(DOMAIN tenants)
  <2>1. IsFiniteSet(1..Len(Machine(r).tenants))
    <3>1. Len(Machine(r).tenants) \in Nat
      BY <1>1 DEF IsMachine
    <3>2. 1 \in Int /\ Len(Machine(r).tenants) \in Int
      BY <3>1
    <3> QED
      BY <3>2, FS_Interval
  <2>2. DOMAIN <<>> = {}
    OBVIOUS
  <2>3. IsFiniteSet({})
    BY FS_EmptySet
  <2> QED
    BY <1>1, <2>1, <2>2, <2>3 DEF Listing, IsMachine
<1>3. \A i \in DOMAIN tenants : /\ tenants[i].container \in Container(STRING)
                                /\ IsFile(tenants[i].file)
  BY <1>1 DEF Listing, IsMachine
<1>4. pool \in Pool
  BY SurveyedFigures
<1> HIDE DEF tenants, pool
<1>5. ASSUME NEW i \in DOMAIN tenants PROVE prices[i] \in Nat
  BY <1>3, <1>4, SeenType DEF Seen
<1>6. DOMAIN prices = DOMAIN tenants
  OBVIOUS
<1> HIDE DEF prices
<1>7. SumFunction(prices) \in Nat
  BY <1>2, <1>5, <1>6, SumIsNatural
<1> QED
  BY <1>7 DEF Committed, prices, tenants, pool

\* What a rank holds, and what it is seen to hold, are numbers of bytes.
LEMMA RankPrices ==
    ASSUME asked \in Questions, Known, NEW r \in DOMAIN asked.at
    PROVE  HeldBy(r) \in Nat /\ SeenOf(r) \in Nat
<1>1. PoolOf(r) \in Pool
  BY SurveyedFigures
<1>2. CASE running = None
  BY <1>2 DEF HeldBy, SeenOf
<1>3. CASE running # None
  <2>1. PICK flags : Fits(flags) /\ running = Engine(flags)
    BY <1>3 DEF Known
  <2> DEFINE e == running[r]
  <2>2. /\ Legible(e) /\ e.flags = flags /\ e.engine = asked.engine /\ e.model = asked.ref
        /\ e.file = IF Vllm THEN NoFile ELSE asked.model
    BY <2>1, EngineTyped
  <2> HIDE DEF e
  <2>3. Seen(e, PoolOf(r)) \in Nat
    BY <1>1, <2>2, SeenType DEF Seen, Legible
  <2>4. LaunchPrice(Vllm, flags, asked.ref, e.file, PoolOf(r)) \in Nat
    BY <1>1, <2>1, <2>2, LaunchPriceType DEF Fits, Legible
  <2>5. Takes(e, PoolOf(r)) = LaunchPrice(Vllm, flags, asked.ref, e.file, PoolOf(r))
    BY <2>2 DEF Takes, Vllm
  <2> QED
    BY <1>3, <2>3, <2>4, <2>5 DEF HeldBy, SeenOf, e
<1> QED
  BY <1>2, <1>3

\* So a survey is a budget, of the machine's pool.
LEMMA BudgetType ==
    ASSUME asked \in Questions, Known, NEW r \in DOMAIN asked.at, NEW replaced
    PROVE  BudgetAt(r, replaced) \in Budget /\ BudgetAt(r, replaced).pool = PoolOf(r)
<1> DEFINE figures == Surveyed(r)
           own == HeldBy(r)
           seen == SeenOf(r)
           committed == Committed(Listing(Machine(r)), PoolOf(r))
           credit == Credited(seen, figures.measured + own)
<1>1. own \in Nat /\ seen \in Nat /\ committed \in Nat
  BY RankPrices, CommittedType
<1>2. Figures(figures) /\ PoolOf(r) \in Pool
  BY SurveyedFigures
<1> HIDE DEF figures, own, seen, committed
<1>3. credit \in Nat
  BY <1>1, <1>2 DEF Credited, Figures, Smaller
<1> HIDE DEF credit
<1>4. LET f == Occupying(figures, own)
      IN  /\ f.available \in Nat /\ f.measured \in Nat /\ f.total = figures.total
          /\ f.devices = figures.devices /\ f.kind = figures.kind
  <2>1. DOMAIN figures = {"kind", "devices", "total", "available", "measured", "card"}
    BY DEF figures, Surveyed, FiguresOf, LocalPool, RemotePool, PoolFigures, UnreadPool
  <2>2. Less(figures.available, own) \in Nat /\ figures.measured + own \in Nat
    BY <1>1, <1>2 DEF Less, Figures
  <2> QED
    BY <2>1, <2>2 DEF Occupying
<1>5. \A c, e \in Nat :
        LET b == BudgetOf(Occupying(figures, own), Here(r), c, e)
        IN  b \in Budget /\ b.pool = PoolOf(r)
  <2> TAKE c, e \in Nat
  <2> DEFINE b == BudgetOf(Occupying(figures, own), Here(r), c, e)
  <2>1. b.pool = PoolOf(r)
    BY <1>4 DEF BudgetOf, PoolOf, figures
  <2>2. b.available \in Nat /\ b.measured \in Nat /\ b.committed = c /\ b.excluded = e
    BY <1>4 DEF BudgetOf
  <2>3. b = [pool |-> b.pool, available |-> b.available, committed |-> b.committed,
             measured |-> b.measured, excluded |-> b.excluded]
    BY DEF BudgetOf
  <2> HIDE DEF b
  <2>4. b \in Budget
    BY <1>2, <2>1, <2>2, <2>3 DEF Budget
  <2> QED
    BY <2>1, <2>4 DEF b
<1>6. BudgetAt(r, replaced)
        = IF replaced THEN BudgetOf(Occupying(figures, own), Here(r), committed, credit)
          ELSE BudgetOf(Occupying(figures, own), Here(r), committed + seen, 0)
  BY DEF BudgetAt, Survey, figures, own, seen, committed, credit
<1> QED
  BY <1>1, <1>3, <1>5, <1>6

-----------------------------------------------------------------------------
(* The binary search of recommend_llamacpp.py finds the most layers.       *)

\* The search below N, where good are the numbers of layers that fit.
Halved(N, good, g) ==
    [range \in (0..N) \X (0..N) |->
        LET low == range[1]
            high == range[2]
            middle == (low + high + 1) \div 2
        IN  IF low >= high THEN low
            ELSE IF middle \in good THEN g[<<middle, high>>] ELSE g[<<low, middle - 1>>]]

\* What it finds between two ends is the greatest of those that fit, or else
\* the lower end.
Open(N, good, low, high) ==
    {m \in 0..N : m = low \/ (low <= m /\ m <= high /\ m \in good)}
Best(N, good, low, high) ==
    CHOOSE m \in Open(N, good, low, high) : \A n \in Open(N, good, low, high) : n <= m

\* There is one.
LEMMA BestIsGreatest ==
    ASSUME NEW N \in Nat, NEW good, NEW low \in 0..N, NEW high \in 0..N
    PROVE  /\ Best(N, good, low, high) \in Open(N, good, low, high)
           /\ \A n \in Open(N, good, low, high) : n <= Best(N, good, low, high)
<1> DEFINE S == Open(N, good, low, high)
<1>1. S \in SUBSET (0..N) /\ S # {}
  BY DEF Open
<1> HIDE DEF S
<1>2. \E m \in S : \A n \in S : n <= m
  BY <1>1, Greatest
<1> QED
  BY <1>2 DEF Best, S

\* And no two, so that it is the greatest wherever it is looked for.
LEMMA GreatestIsBest ==
    ASSUME NEW N \in Nat, NEW good, NEW low \in 0..N, NEW high \in 0..N,
           NEW m \in Open(N, good, low, high), \A n \in Open(N, good, low, high) : n <= m
    PROVE  Best(N, good, low, high) = m
<1> DEFINE b == Best(N, good, low, high)
<1>1. b \in Open(N, good, low, high) /\ m <= b
  BY BestIsGreatest
<1>2. b \in Nat /\ m \in Nat
  BY <1>1 DEF Open
<1> QED
  BY <1>1, <1>2

\* Half of a range that is still open lies in it.
LEMMA Middle ==
    ASSUME NEW low \in Nat, NEW high \in Nat, low < high
    PROVE  LET middle == (low + high + 1) \div 2
           IN  middle \in Nat /\ low < middle /\ middle <= high
BY SMT

\* The best of each range is what the search makes of the best of its halves,
\* where all that is less than something that fits fits too.
LEMMA BestIsHalved ==
    ASSUME NEW N \in Nat, NEW good, NEW low \in 0..N, NEW high \in 0..N, low < high,
           \A l, m \in 0..N : l <= m /\ m \in good => l \in good
    PROVE  LET middle == (low + high + 1) \div 2
           IN  Best(N, good, low, high) = IF middle \in good THEN Best(N, good, middle, high)
                                          ELSE Best(N, good, low, middle - 1)
<1> DEFINE middle == (low + high + 1) \div 2
<1>1. middle \in 0..N /\ middle - 1 \in 0..N /\ low < middle /\ middle <= high
  BY Middle
<1> HIDE DEF middle
<1>2. CASE middle \in good
  <2> DEFINE b == Best(N, good, low, high)
  <2>1. b \in Open(N, good, low, high) /\ \A n \in Open(N, good, low, high) : n <= b
    BY BestIsGreatest
  <2> HIDE DEF b
  <2>2. middle \in Open(N, good, low, high)
    BY <1>1, <1>2 DEF Open
  <2>3. b \in 0..N /\ middle <= b
    BY <2>1, <2>2 DEF Open
  <2>4. b \in Open(N, good, middle, high)
    BY <1>1, <2>1, <2>3 DEF Open
  <2>5. \A n \in Open(N, good, middle, high) : n \in Open(N, good, low, high)
    BY <1>1, <1>2 DEF Open
  <2>6. \A n \in Open(N, good, middle, high) : n <= b
    BY <2>1, <2>5
  <2>7. Best(N, good, middle, high) = b
    BY <1>1, <2>4, <2>6, GreatestIsBest
  <2> QED
    BY <1>2, <2>7 DEF b, middle
<1>3. CASE middle \notin good
  <2>1. \A m \in 0..N : middle <= m => m \notin good
    BY <1>1, <1>3
  <2>2. Open(N, good, low, high) = Open(N, good, low, middle - 1)
    BY <1>1, <2>1 DEF Open
  <2> QED
    BY <1>3, <2>2 DEF Best, middle
<1> QED
  BY <1>2, <1>3

\* So the search is a function, and it finds the best of every range.
LEMMA HalvingFindsBest ==
    ASSUME NEW N \in Nat, NEW good,
           \A l, m \in 0..N : l <= m /\ m \in good => l \in good
    PROVE  LET found == CHOOSE g : g = Halved(N, good, g)
           IN  found[<<0, N>>] = Best(N, good, 0, N)
<1> DEFINE R == (0..N) \X (0..N)
           G == [range \in R |-> Best(N, good, range[1], range[2])]
           found == CHOOSE g : g = Halved(N, good, g)
<1>1. \A low, high \in 0..N : G[<<low, high>>] = Best(N, good, low, high)
  OBVIOUS
<1>2. \A low, high \in 0..N : low >= high => Best(N, good, low, high) = low
  <2> TAKE low, high \in 0..N
  <2>1. low >= high => /\ low \in Open(N, good, low, high)
                       /\ \A n \in Open(N, good, low, high) : n <= low
    BY DEF Open
  <2> QED
    BY <2>1, GreatestIsBest
<1>3. \A low, high \in 0..N : low < high =>
         LET middle == (low + high + 1) \div 2
         IN  /\ middle \in 0..N /\ middle - 1 \in 0..N /\ low < middle /\ middle <= high
             /\ Best(N, good, low, high) = IF middle \in good THEN Best(N, good, middle, high)
                                           ELSE Best(N, good, low, middle - 1)
  <2> TAKE low, high \in 0..N
  <2>1. low < high => LET middle == (low + high + 1) \div 2
                      IN  middle \in Nat /\ low < middle /\ middle <= high
    BY Middle
  <2>2. low < high => LET middle == (low + high + 1) \div 2
                      IN  middle \in 0..N /\ middle - 1 \in 0..N
    BY <2>1
  <2> QED
    BY <2>1, <2>2, BestIsHalved
<1> HIDE DEF G
<1>4. ASSUME NEW low \in 0..N, NEW high \in 0..N, NEW g
      PROVE  Halved(N, good, g)[<<low, high>>] =
                IF low >= high THEN low
                ELSE IF (low + high + 1) \div 2 \in good THEN g[<<(low + high + 1) \div 2, high>>]
                ELSE g[<<low, (low + high + 1) \div 2 - 1>>]
  BY DEF Halved
<1>5. G = Halved(N, good, G)
  <2>1. ASSUME NEW low \in 0..N, NEW high \in 0..N
        PROVE  G[<<low, high>>] = Halved(N, good, G)[<<low, high>>]
    <3>1. CASE low >= high
      BY <1>1, <1>2, <1>4, <3>1
    <3>2. CASE ~(low >= high)
      <4> DEFINE middle == (low + high + 1) \div 2
      <4>1. low < high
        BY <3>2
      <4>2. /\ middle \in 0..N /\ middle - 1 \in 0..N
            /\ Best(N, good, low, high) = IF middle \in good THEN Best(N, good, middle, high)
                                          ELSE Best(N, good, low, middle - 1)
        BY <1>3, <4>1
      <4>3. Halved(N, good, G)[<<low, high>>]
              = IF middle \in good THEN G[<<middle, high>>] ELSE G[<<low, middle - 1>>]
        BY <1>4, <3>2
      <4> HIDE DEF middle
      <4> QED
        BY <1>1, <4>2, <4>3
    <3> QED
      BY <3>1, <3>2
  <2>2. \A range \in R : range = <<range[1], range[2]>> /\ range[1] \in 0..N /\ range[2] \in 0..N
    OBVIOUS
  <2>3. \A range \in R : G[range] = Halved(N, good, G)[range]
    BY <2>1, <2>2
  <2>4. G = [range \in R |-> G[range]]
    BY DEF G
  <2>5. Halved(N, good, G) = [range \in R |-> Halved(N, good, G)[range]]
    BY DEF Halved
  <2> HIDE DEF R
  <2> QED
    BY <2>3, <2>4, <2>5
<1>6. found = Halved(N, good, found)
  BY <1>5
<1> HIDE DEF found
<1> DEFINE P == {n \in Nat : \A low, high \in 0..N :
                    high - low <= n => found[<<low, high>>] = Best(N, good, low, high)}
<1>7. ASSUME NEW low \in 0..N, NEW high \in 0..N, low >= high
      PROVE  found[<<low, high>>] = Best(N, good, low, high)
  BY <1>2, <1>4, <1>6, <1>7
<1>8. 0 \in P
  <2>1. \A low, high \in 0..N : high - low <= 0 => low >= high
    OBVIOUS
  <2> QED
    BY <1>7, <2>1
<1>9. ASSUME NEW n \in P PROVE n + 1 \in P
  <2> SUFFICES ASSUME NEW low \in 0..N, NEW high \in 0..N, high - low <= n + 1, low < high
               PROVE  found[<<low, high>>] = Best(N, good, low, high)
    BY <1>7
  <2> DEFINE middle == (low + high + 1) \div 2
  <2>1. /\ middle \in 0..N /\ middle - 1 \in 0..N /\ low < middle /\ middle <= high
        /\ Best(N, good, low, high) = IF middle \in good THEN Best(N, good, middle, high)
                                      ELSE Best(N, good, low, middle - 1)
    BY <1>3
  <2>2. found[<<low, high>>]
          = IF middle \in good THEN found[<<middle, high>>] ELSE found[<<low, middle - 1>>]
    <3>1. ~(low >= high)
      OBVIOUS
    <3>2. Halved(N, good, found)[<<low, high>>]
            = IF middle \in good THEN found[<<middle, high>>] ELSE found[<<low, middle - 1>>]
      BY <1>4, <3>1
    <3> QED
      BY <1>6, <3>2
  <2> HIDE DEF middle
  <2>3. n \in Nat /\ high - middle <= n /\ (middle - 1) - low <= n
    BY <2>1
  <2>4. /\ found[<<middle, high>>] = Best(N, good, middle, high)
        /\ found[<<low, middle - 1>>] = Best(N, good, low, middle - 1)
    BY <2>1, <2>3
  <2> QED
    BY <2>1, <2>2, <2>4
<1>10. P = Nat
  <2>1. P \in SUBSET Nat
    OBVIOUS
  <2> HIDE DEF P
  <2> QED
    BY <1>8, <1>9, <2>1, Induction
<1>11. N \in P /\ 0 \in 0..N /\ N \in 0..N /\ N - 0 <= N
  BY <1>10
<1>12. found[<<0, N>>] = Best(N, good, 0, N)
  BY <1>11
<1> QED
  BY <1>12 DEF found

\* What recommend_llamacpp.py searches for.
LEMMA SearchFindsMost ==
    ASSUME NEW h, Numbered(h), NEW args \in LlamaSet, NEW spendable \in Nat,
           FloorContext \in Nat \ {0}
    PROVE  LET found == Search(h, args, spendable)
               fits(layers) == Cost(h, args, layers, FloorContext) <= spendable
           IN  /\ found \in 0..AllLayers(h)
               /\ found # 0 => fits(found)
               /\ \A layers \in 1..AllLayers(h) : fits(layers) => layers <= found
<1> DEFINE N == AllLayers(h)
           good == {m \in 0..N : Cost(h, args, m, FloorContext) <= spendable}
           found == CHOOSE g : g = Halved(N, good, g)
           searched == CHOOSE g : g = [range \in (0..N) \X (0..N) |->
                         LET low == range[1]
                             high == range[2]
                             middle == (low + high + 1) \div 2
                         IN  IF low >= high THEN low
                             ELSE IF Cost(h, args, middle, FloorContext) <= spendable
                                  THEN g[<<middle, high>>] ELSE g[<<low, middle - 1>>]]
<1>1. N \in Nat
  BY GgufAssumption DEF Numbered, AllLayers
<1>2. Search(h, args, spendable) = searched[<<0, N>>]
  BY DEF Search
<1> HIDE DEF N
<1>3. \A l, m \in 0..N : l <= m /\ m \in good => l \in good
  <2> SUFFICES ASSUME NEW l \in 0..N, NEW m \in 0..N, l <= m,
                      Cost(h, args, m, FloorContext) <= spendable
               PROVE  Cost(h, args, l, FloorContext) <= spendable
    OBVIOUS
  <2>1. l \in Nat /\ m \in Nat /\ FloorContext <= FloorContext
    BY <1>1
  <2>2. /\ Cost(h, args, l, FloorContext) \in Nat /\ Cost(h, args, m, FloorContext) \in Nat
        /\ Cost(h, args, l, FloorContext) <= Cost(h, args, m, FloorContext)
    BY <2>1, CostGrows
  <2> QED
    BY <2>2
<1>4. ASSUME NEW low \in 0..N, NEW high \in 0..N, low < high
      PROVE  (low + high + 1) \div 2 \in good
               <=> Cost(h, args, (low + high + 1) \div 2, FloorContext) <= spendable
  <2>1. (low + high + 1) \div 2 \in Nat /\ (low + high + 1) \div 2 <= high
    <3>1. low \in Nat /\ high \in Nat
      BY <1>1
    <3> QED
      BY <1>4, <3>1, Middle
  <2>2. (low + high + 1) \div 2 \in 0..N
    BY <1>1, <2>1
  <2> QED
    BY <2>2
<1>5. searched = found
  <2> HIDE DEF good
  <2>1. ASSUME NEW g
        PROVE  Halved(N, good, g) = [range \in (0..N) \X (0..N) |->
                         LET low == range[1]
                             high == range[2]
                             middle == (low + high + 1) \div 2
                         IN  IF low >= high THEN low
                             ELSE IF Cost(h, args, middle, FloorContext) <= spendable
                                  THEN g[<<middle, high>>] ELSE g[<<low, middle - 1>>]]
    <3>1. \A range \in (0..N) \X (0..N) :
            /\ range[1] \in 0..N /\ range[2] \in 0..N
            /\ ~(range[1] >= range[2]) => range[1] < range[2]
      BY <1>1
    <3>2. \A range \in (0..N) \X (0..N) : ~(range[1] >= range[2]) =>
            ((range[1] + range[2] + 1) \div 2 \in good
               <=> Cost(h, args, (range[1] + range[2] + 1) \div 2, FloorContext) <= spendable)
      BY <1>4, <3>1
    <3> QED
      BY <3>2 DEF Halved
  <2> QED
    BY <2>1
<1> HIDE DEF searched
<1>6. Search(h, args, spendable) = Best(N, good, 0, N)
  <2> HIDE DEF good
  <2> QED
    BY <1>1, <1>2, <1>3, <1>5, HalvingFindsBest
<1>7. 0 \in 0..N /\ N \in 0..N
  BY <1>1
<1>8. /\ Best(N, good, 0, N) \in Open(N, good, 0, N)
      /\ \A n \in Open(N, good, 0, N) : n <= Best(N, good, 0, N)
  <2> HIDE DEF good
  <2> QED
    BY <1>1, <1>7, BestIsGreatest
<1> DEFINE best == Best(N, good, 0, N)
<1>9. best \in 0..N /\ (best # 0 => best \in good)
  BY <1>8 DEF Open
<1>10. \A layers \in 1..N : layers \in good => layers <= best
  BY <1>1, <1>8 DEF Open
<1> HIDE DEF best
<1>11. \A layers \in 1..N : Cost(h, args, layers, FloorContext) <= spendable => layers \in good
  BY <1>1
<1> QED
  BY <1>6, <1>9, <1>10, <1>11 DEF best, N

\* The contexts are numbers of tokens, the last of them the shortest.
LEMMA ContextsFall ==
    /\ FloorContext \in Nat \ {0}
    /\ \A i \in DOMAIN ContextSteps :
         ContextSteps[i] \in Nat \ {0} /\ FloorContext <= ContextSteps[i]
    /\ \A i, j \in DOMAIN ContextSteps : i <= j => ContextSteps[j] <= ContextSteps[i]
<1>1. ContextSteps \in Seq(Nat \ {0}) /\ ContextSteps # <<>>
  BY RecommendAssumption
<1>2. /\ Len(ContextSteps) \in Nat \ {0} /\ DOMAIN ContextSteps = 1..Len(ContextSteps)
      /\ \A i \in DOMAIN ContextSteps : ContextSteps[i] \in Nat \ {0}
  BY <1>1
<1>3. ASSUME NEW i \in DOMAIN ContextSteps, NEW j \in DOMAIN ContextSteps, i <= j
      PROVE  ContextSteps[j] <= ContextSteps[i]
  <2>1. CASE i = j
    BY <1>2, <2>1
  <2>2. CASE i < j
    <3>1. ContextSteps[j] < ContextSteps[i]
      BY <2>2, RecommendAssumption
    <3> QED
      BY <1>2, <3>1
  <2> QED
    BY <1>2, <1>3, <2>1, <2>2
<1>4. /\ Len(ContextSteps) \in DOMAIN ContextSteps
      /\ \A i \in DOMAIN ContextSteps : i <= Len(ContextSteps)
  BY <1>2
<1> QED
  BY <1>2, <1>3, <1>4 DEF FloorContext

\* The first context that fits is the longest that does.
LEMMA LongestFits ==
    ASSUME NEW h, NEW args, NEW layers, NEW spendable,
           Fitting(h, args, layers, spendable) # {}
    PROVE  LET most == Min(Fitting(h, args, layers, spendable))
           IN  /\ most \in Steps(h) /\ Cost(h, args, layers, ContextSteps[most]) <= spendable
               /\ \A i \in Steps(h) : Cost(h, args, layers, ContextSteps[i]) <= spendable
                    => ContextSteps[i] <= ContextSteps[most]
<1> DEFINE S == Fitting(h, args, layers, spendable)
           most == Min(S)
<1>1. S \subseteq DOMAIN ContextSteps /\ DOMAIN ContextSteps \subseteq Nat
  <2>1. ContextSteps \in Seq(Nat \ {0})
    BY RecommendAssumption
  <2> QED
    BY <2>1 DEF Fitting, Steps
<1> HIDE DEF S
<1>2. \E i \in S : \A j \in S : i <= j
  <2>1. S \in SUBSET Nat /\ S # {}
    BY <1>1 DEF S
  <2> QED
    BY <2>1, Least
<1>3. most \in S /\ \A j \in S : most <= j
  BY <1>2 DEF Min
<1> HIDE DEF most
<1>4. \A i \in S : ContextSteps[i] <= ContextSteps[most]
  BY <1>1, <1>3, ContextsFall
<1>5. most \in Steps(h) /\ Cost(h, args, layers, ContextSteps[most]) <= spendable
  BY <1>3 DEF S, Fitting
<1>6. \A i \in Steps(h) : Cost(h, args, layers, ContextSteps[i]) <= spendable => i \in S
  BY DEF S, Fitting
<1> QED
  BY <1>4, <1>5, <1>6 DEF most, S

\* Every layer is all of them, however many they are.
LEMMA EveryIsAll ==
    ASSUME NEW h, Numbered(h), NEW args \in LlamaSet, NEW ctx \in Nat \ {0}
    PROVE  /\ Smaller(Every, AllLayers(h)) = AllLayers(h)
           /\ Cost(h, args, Every, ctx) = Cost(h, args, AllLayers(h), ctx)
<1> DEFINE every == [args EXCEPT !.layers = Every, !.ctx = ctx, !.companions = 0]
           all == [args EXCEPT !.layers = AllLayers(h), !.ctx = ctx, !.companions = 0]
<1>1. h.blocks \in Nat /\ h.blocks <= MaxLayers /\ MaxLayers \in Nat
  BY GgufAssumption DEF Numbered
<1>2. AllLayers(h) <= Every /\ Smaller(Every, AllLayers(h)) = AllLayers(h)
  BY <1>1 DEF AllLayers, Every, Smaller
<1>3. OffloadedBytes(h, Every) = OffloadedBytes(h, AllLayers(h))
  BY <1>1, <1>2 DEF OffloadedBytes, AllLayers, Every
<1>4. /\ every.layers = Every /\ every.ctx = ctx /\ every.companions = 0
      /\ every.k = args.k /\ every.v = args.v /\ every.ubatch = args.ubatch
      /\ every.flash = args.flash
  BY DEF LlamaSet
<1>5. /\ all.layers = AllLayers(h) /\ all.ctx = ctx /\ all.companions = 0
      /\ all.k = args.k /\ all.v = args.v /\ all.ubatch = args.ubatch
      /\ all.flash = args.flash
  BY DEF LlamaSet
<1> HIDE DEF every, all
<1>6. Context(h, every) = ctx /\ Context(h, all) = ctx
  BY <1>4, <1>5 DEF Context
<1>7. ComputeBytes(h, every, ctx) = ComputeBytes(h, all, ctx)
  BY <1>4, <1>5 DEF ComputeBytes, Ubatch
<1>8. Price(h, every) = Price(h, all)
  BY <1>3, <1>4, <1>5, <1>6, <1>7 DEF Price, Sized
<1> QED
  BY <1>2, <1>8 DEF Cost, every, all

\* What is advised for llama.cpp fits in what may be spent, and no other choice
\* of layers and context that fits is better: for any header, any flags and any
\* memory.  recommend_llamacpp.build asks for the whole model first and halves
\* the range of layers otherwise, which finds the most of them for the reason
\* alone that a price never falls where layers or context grow.
THEOREM SizingIsMost ==
    ASSUME NEW h, Numbered(h), NEW args \in LlamaSet, NEW spendable \in Nat
    PROVE  LET advice == Sizing(h, args, spendable)
               given == Smaller(advice.layers, AllLayers(h))
               fits(layers, ctx) == Cost(h, args, layers, ctx) <= spendable
           IN  /\ advice.layers \in Nat /\ advice.ctx \in Nat
               /\ advice.ok => fits(given, advice.ctx) /\ fits(advice.layers, advice.ctx)
               /\ \A layers \in 1..AllLayers(h), i \in Steps(h) :
                    fits(layers, ContextSteps[i]) =>
                      /\ advice.ok /\ given >= layers
                      /\ given = layers => advice.ctx >= ContextSteps[i]
<1> DEFINE advice == Sizing(h, args, spendable)
           N == AllLayers(h)
           whole == Fitting(h, args, N, spendable)
           found == Search(h, args, spendable)
           rest == Fitting(h, args, found, spendable)
           given == Smaller(advice.layers, N)
           fits(layers, ctx) == Cost(h, args, layers, ctx) <= spendable
<1>1. N \in Nat \ {0} /\ Every \in Nat
  BY GgufAssumption DEF Numbered, AllLayers, Every
<1>2. advice = IF whole # {}
               THEN [ok |-> TRUE, level |-> "ok", layers |-> Every, ctx |-> ContextSteps[Min(whole)]]
               ELSE IF found = 0
               THEN [ok |-> FALSE, level |-> "block", layers |-> 0, ctx |-> 0]
               ELSE [ok |-> TRUE, level |-> "warn", layers |-> found,
                     ctx |-> IF rest = {} THEN FloorContext ELSE ContextSteps[Min(rest)]]
  BY DEF Sizing
<1>3. FloorContext \in Nat \ {0}
  BY ContextsFall
<1>4. /\ found \in 0..N
      /\ found # 0 => fits(found, FloorContext)
      /\ \A layers \in 1..N : fits(layers, FloorContext) => layers <= found
  BY <1>3, SearchFindsMost
<1>5. ASSUME NEW i \in Steps(h)
      PROVE  ContextSteps[i] \in Nat \ {0} /\ FloorContext <= ContextSteps[i]
  BY ContextsFall DEF Steps
<1>6. ASSUME NEW layers \in 1..N, NEW i \in Steps(h), fits(layers, ContextSteps[i])
      PROVE  layers <= found
  <2>1. layers \in Nat /\ layers <= layers
    OBVIOUS
  <2> DEFINE c == ContextSteps[i]
  <2>2. c \in Nat \ {0} /\ FloorContext <= c
    BY <1>5
  <2> HIDE DEF c
  <2>3. /\ Cost(h, args, layers, FloorContext) \in Nat /\ Cost(h, args, layers, c) \in Nat
        /\ Cost(h, args, layers, FloorContext) <= Cost(h, args, layers, c)
    BY <1>3, <2>1, <2>2, CostGrows
  <2>4. fits(layers, FloorContext)
    BY <1>6, <2>3 DEF c
  <2> QED
    BY <1>4, <2>4
<1>7. CASE whole # {}
  <2> DEFINE most == Min(whole)
  <2>1. /\ most \in Steps(h) /\ fits(N, ContextSteps[most])
        /\ \A i \in Steps(h) : fits(N, ContextSteps[i]) => ContextSteps[i] <= ContextSteps[most]
    BY <1>7, LongestFits
  <2>2. ContextSteps[most] \in Nat \ {0}
    BY <1>5, <2>1
  <2>3. advice.ok /\ advice.layers = Every /\ advice.ctx = ContextSteps[most]
    BY <1>2, <1>7
  <2> HIDE DEF N, whole, most, advice
  <2>4. given = N /\ Cost(h, args, Every, ContextSteps[most]) = Cost(h, args, N, ContextSteps[most])
    BY <2>2, <2>3, EveryIsAll DEF N
  <2> QED
    BY <1>1, <2>1, <2>2, <2>3, <2>4 DEF N, advice
<1>8. CASE whole = {} /\ found = 0
  <2>1. ~advice.ok /\ advice.layers = 0 /\ advice.ctx = 0
    BY <1>2, <1>8
  <2>2. \A layers \in 1..N, i \in Steps(h) : ~fits(layers, ContextSteps[i])
    BY <1>6, <1>8
  <2> HIDE DEF N, whole, found, advice
  <2> QED
    BY <2>1, <2>2 DEF N, advice
<1>9. found \in Nat
  <2> HIDE DEF found, N
  <2> QED
    BY <1>1, <1>4
<1>10. CASE whole = {} /\ found # 0
  <2> DEFINE longest == IF rest = {} THEN FloorContext ELSE ContextSteps[Min(rest)]
  <2>1. advice.ok /\ advice.layers = found /\ advice.ctx = longest
    BY <1>2, <1>10
  <2>2. given = found
    <3> HIDE DEF advice, N, found
    <3> QED
      BY <1>1, <1>4, <1>9, <2>1 DEF Smaller
  <2>3. /\ longest \in Nat /\ fits(found, longest)
        /\ \A i \in Steps(h) : fits(found, ContextSteps[i]) => ContextSteps[i] <= longest
    <3>1. CASE rest = {}
      <4>1. \A i \in Steps(h) : ~fits(found, ContextSteps[i])
        BY <3>1 DEF Fitting
      <4>2. longest = FloorContext
        BY <3>1
      <4> QED
        BY <1>3, <1>4, <1>10, <4>1, <4>2
    <3>2. CASE rest # {}
      <4> DEFINE most == Min(rest)
      <4>1. /\ most \in Steps(h) /\ fits(found, ContextSteps[most])
            /\ \A i \in Steps(h) : fits(found, ContextSteps[i]) => ContextSteps[i] <= ContextSteps[most]
        BY <3>2, LongestFits
      <4>2. ContextSteps[most] \in Nat
        BY <1>5, <4>1
      <4>3. longest = ContextSteps[most]
        BY <3>2
      <4> HIDE DEF longest, most
      <4> QED
        BY <4>1, <4>2, <4>3
    <3> QED
      BY <3>1, <3>2
  <2> HIDE DEF longest, given, advice, found, whole
  <2>4. \A layers \in 1..N, i \in Steps(h) : fits(layers, ContextSteps[i]) =>
           found >= layers /\ (found = layers => longest >= ContextSteps[i])
    <3> TAKE layers \in 1..N, i \in Steps(h)
    <3> HAVE fits(layers, ContextSteps[i])
    <3>1. layers <= found /\ found \in Nat /\ layers \in Nat
      <4>1. layers <= found
        BY <1>6 DEF N
      <4> QED
        BY <1>9, <4>1
    <3>2. found = layers => ContextSteps[i] <= longest
      BY <2>3
    <3>3. ContextSteps[i] \in Nat
      BY <1>5
    <3> QED
      BY <2>3, <3>1, <3>2, <3>3
  <2> QED
    BY <1>4, <2>1, <2>2, <2>3, <2>4 DEF given, advice
<1> HIDE DEF advice, N, whole, found, rest, given
<1> QED
  BY <1>7, <1>8, <1>10 DEF advice, N, given

-----------------------------------------------------------------------------
(* The advice of a question.  Whatever was asked, the figures of a survey  *)
(* are numbers, and what runs was launched from a form.                    *)

\* What is advised for llama.cpp names a number of layers and of tokens, and is
\* of a file that can be read and within what may be spent.
LEMMA LlamaAdvised ==
    ASSUME NEW path, NEW f, IsFile(f), NEW b \in Budget, NEW args \in LlamaSet
    PROVE  LET advice == LlamaAdvice(path, f, b, args)
           IN  /\ advice.layers \in Nat /\ advice.ctx \in Nat
               /\ path /\ advice.ok => ReadCached(f) # <<>> /\ Spendable(b) # 0
               /\ path /\ ReadCached(f) # <<>> /\ Spendable(b) # 0 =>
                    advice = Sizing(Header(f), args, Spendable(b))
<1>1. Numbered(Header(f)) /\ Spendable(b) \in Nat
  BY HeaderNumbers, SpendableType
<1> DEFINE sized == Sizing(Header(f), args, Spendable(b))
<1>2. sized.layers \in Nat /\ sized.ctx \in Nat
  BY <1>1, SizingIsMost
<1>3. ReadCached(f) # <<>> => ReadCached(f)[1] = Header(f)
  BY DEF ReadCached
<1> HIDE DEF sized
<1>4. LlamaAdvice(path, f, b, args)
        = IF ~path THEN [Nothing EXCEPT !.ok = TRUE, !.level = "warn"]
          ELSE IF ReadCached(f) = <<>> \/ Spendable(b) = 0 THEN Nothing
          ELSE Sizing(ReadCached(f)[1], args, Spendable(b))
  BY DEF LlamaAdvice
<1>5. /\ Nothing.layers = 0 /\ Nothing.ctx = 0 /\ ~Nothing.ok
      /\ [Nothing EXCEPT !.ok = TRUE, !.level = "warn"].layers = 0
      /\ [Nothing EXCEPT !.ok = TRUE, !.level = "warn"].ctx = 0
  BY DEF Nothing
<1>6. CASE ~path
  BY <1>4, <1>5, <1>6
<1>7. CASE path /\ (ReadCached(f) = <<>> \/ Spendable(b) = 0)
  BY <1>4, <1>5, <1>7
<1>8. CASE path /\ ReadCached(f) # <<>> /\ Spendable(b) # 0
  <2>1. LlamaAdvice(path, f, b, args) = sized
    BY <1>3, <1>4, <1>8 DEF sized
  <2> QED
    BY <1>2, <1>8, <2>1 DEF sized
<1> QED
  BY <1>6, <1>7, <1>8

\* What the form is set to is what the engine takes.
LEMMA FormFlags ==
    ASSUME asked \in Questions
    PROVE  /\ Fits(Flags)
           /\ Vllm => Flags = asked.args.launch
           /\ ~Vllm => Flags = asked.args /\ IsFile(asked.model) /\ IsFile(NoFile)
<1>1. IsForm(asked)
  BY AdviceAssumption
<1>2. IsFile(NoFile)
  BY EmptySeq DEF NoFile, IsFile
<1> QED
  BY <1>1, <1>2 DEF IsForm, Flags, Fits, Vllm

\* What was told is what would be told now: nothing but a launch or a stop
\* changes what an advice is worked out from, and both end it.
Standing == told # None => told = <<Advised>>

\* A question is about one machine at least.
LEMMA SomeMachine ==
    ASSUME asked \in Questions
    PROVE  1 \in DOMAIN asked.at /\ Len(asked.at) \in Nat \ {0}
<1>1. asked.at \in Seq(STRING) /\ asked.at # <<>>
  BY AdviceAssumption
<1> QED
  BY <1>1

\* The form takes what it is advised to be set to.
LEMMA FollowedFits ==
    ASSUME asked \in Questions, Known, Standing, told # None, Advises(told[1])
    PROVE  Fits(Followed(told[1]))
<1>1. 1 \in DOMAIN asked.at /\ Len(asked.at) \in Nat
  BY SomeMachine
<1>2. Budgeted \in Budget
  <2> DEFINE yes == TRUE
  <2>1. Budgeted = BudgetAt(1, yes)
    BY DEF Budgeted
  <2> HIDE DEF yes
  <2> QED
    BY <1>1, <2>1, BudgetType
<1>3. told[1] = Advised
  BY DEF Standing
<1>4. CASE Vllm
  <2> DEFINE advice == VllmAdvice(Model, Budgeted, Len(asked.at), asked.args)
  <2>1. told[1] = advice /\ Measurable(Model) /\ Flags \in Args
    BY <1>3, <1>4, ModelMeasurable, FormFlags DEF Advised, Fits
  <2>2. advice.set.util > 0
    BY <1>4, <2>1 DEF Advises
  <2>3. advice.set.util \in 1..100
    BY <1>1, <1>2, <2>1, <2>2, AdvisedFraction
  <2> HIDE DEF advice
  <2>4. Followed(told[1]) = [Flags EXCEPT !.util = advice.set.util]
    BY <1>4, <2>1, <2>3 DEF Followed
  <2> DEFINE u == advice.set.util
             f == Flags
  <2>5. u \in 0..NoUtil /\ f \in Args /\ Followed(told[1]) = [f EXCEPT !.util = u]
    BY <2>1, <2>3, <2>4 DEF NoUtil
  <2> HIDE DEF u, f
  <2>6. Followed(told[1]) \in Args
    BY <2>5 DEF Args
  <2> QED
    BY <1>4, <2>6 DEF Fits
<1>5. CASE ~Vllm
  <2> DEFINE f == IF Opens(asked.ref) THEN asked.model ELSE NoFile
             path == LooksLikePath(asked.ref)
             advice == LlamaAdvice(path, f, Budgeted, asked.args)
  <2>1. IsFile(f) /\ asked.args \in LlamaSet /\ Flags = asked.args
    BY <1>5, FormFlags DEF Fits
  <2>2. told[1] = advice
    BY <1>3, <1>5 DEF Advised
  <2> HIDE DEF f, path
  <2>3. advice.layers \in Nat /\ advice.ctx \in Nat
    BY <1>2, <2>1, LlamaAdvised
  <2>4. Followed(told[1]) = [asked.args EXCEPT !.layers = advice.layers, !.ctx = advice.ctx]
    BY <1>5, <2>1, <2>2 DEF Followed, Taken
  <2> DEFINE layers == advice.layers
             ctx == advice.ctx
             args == asked.args
  <2>5. /\ layers \in Nat /\ ctx \in Nat /\ args \in LlamaSet
        /\ Followed(told[1]) = [args EXCEPT !.layers = layers, !.ctx = ctx]
    BY <2>1, <2>3, <2>4
  <2> HIDE DEF layers, ctx, args
  <2>6. Followed(told[1]) \in LlamaSet
    BY <2>5 DEF LlamaSet
  <2> QED
    BY <1>5, <2>6 DEF Fits
<1> QED
  BY <1>4, <1>5

\* The question is for good.
LEMMA AskedStays == [Next]_vars => asked' = asked
BY DEF Next, Asks, Launches, Stops, vars

\* The advice is a function of the question and of what runs.
LEMMA AdvisedStays ==
    ASSUME asked' = asked, running' = running
    PROVE  Advised' = Advised
<1>1. Vllm' = Vllm /\ Nodes' = Nodes
  BY DEF Vllm, Nodes
<1>2. Machine(1)' = Machine(1) /\ Here(1)' = Here(1)
  BY <1>1 DEF Machine, Here
<1>3. Surveyed(1)' = Surveyed(1)
  BY <1>2 DEF Surveyed
<1>4. PoolOf(1)' = PoolOf(1)
  BY <1>2, <1>3 DEF PoolOf
<1>5. HeldBy(1)' = HeldBy(1) /\ SeenOf(1)' = SeenOf(1)
  BY <1>4 DEF HeldBy, SeenOf
<1>6. Budgeted' = Budgeted
  <2>1. Committed(Listing(Machine(1)), PoolOf(1))' = Committed(Listing(Machine(1)), PoolOf(1))
    BY <1>2, <1>4
  <2> QED
    BY <1>1, <1>2, <1>3, <1>5, <2>1
       DEF Budgeted, BudgetAt, Survey, BudgetOf, Occupying, Credited
<1>7. Model' = Model
  BY <1>2 DEF Model
<1> QED
  BY <1>1, <1>6, <1>7 DEF Advised

\* What is asked may be asked, what was told stands, and what runs is known.
Advising == asked \in Questions /\ Standing /\ Known

\* A step of the operator keeps it so.
LEMMA AdvisingStep == Advising /\ [Next]_vars => Advising'
<1> SUFFICES ASSUME Advising, [Next]_vars PROVE Advising'
  OBVIOUS
<1>1. asked' = asked /\ asked' \in Questions
  BY AskedStays DEF Advising
<1>2. Standing'
  <2> SUFFICES ASSUME told' # None PROVE told' = <<Advised'>>
    BY DEF Standing, None
  <2>1. CASE Asks
    BY <2>1, AdvisedStays DEF Asks
  <2>2. CASE Launches
    BY <2>2 DEF Launches
  <2>3. CASE Stops
    BY <2>3 DEF Stops
  <2>4. CASE UNCHANGED vars
    BY <2>4, AdvisedStays DEF vars, Standing, Advising
  <2> QED
    BY <2>1, <2>2, <2>3, <2>4 DEF Next
<1>3. /\ Vllm' = Vllm /\ Pooled' = Pooled
      /\ \A flags : /\ (Fits(flags))' = Fits(flags) /\ (Saved(flags))' = Saved(flags)
                    /\ (Engine(flags))' = Engine(flags)
  BY <1>1 DEF Fits, Saved, Vllm, Engine, Pooled, RanksOn, Launched, Form, PortsTaken, Listing
<1>4. Known'
  <2> DEFINE known(flags) == /\ Fits(flags) /\ Saved(flags) /\ (Pooled => Vllm)
                             /\ running' = Engine(flags)
  <2> SUFFICES ASSUME running' # None PROVE \E flags : known(flags)
    BY <1>3 DEF Known, None
  <2>1. CASE UNCHANGED running
    BY <2>1 DEF Known, Advising
  <2>2. CASE Launches
    <3> DEFINE flags == Followed(told[1])
    <3>1. told # None /\ Advises(told[1]) /\ Saved(flags)
      BY <2>2 DEF Launches
    <3>2. Fits(flags)
      BY <3>1, FollowedFits DEF Advising
    <3> DEFINE verdicts == Verdicts(flags)
    <3>3. running' = running \/ (running' = ComesUp(flags) /\ Checked(verdicts).ok)
      BY <2>2 DEF Launches
    <3>4. ComesUp(flags) = Engine(flags) \/ ComesUp(flags) = None
      BY DEF ComesUp
    <3> HIDE DEF flags, verdicts
    <3>7. Checked(verdicts).ok => (Pooled => Vllm)
      BY DEF Checked
    <3>5. CASE running' = running
      BY <2>1, <3>5
    <3>6. CASE running' = ComesUp(flags) /\ Checked(verdicts).ok
      BY <3>1, <3>2, <3>4, <3>6, <3>7
    <3> QED
      BY <3>3, <3>5, <3>6
  <2>3. CASE Stops
    BY <2>3 DEF Stops
  <2> QED
    BY <2>1, <2>2, <2>3 DEF Next, Asks, vars
<1> QED
  BY <1>1, <1>2, <1>4 DEF Advising

\* So it is an invariant.
LEMMA AdvisingHolds == Spec => []Advising
<1>1. Init => Advising
  BY DEF Init, Advising, Standing, Known
<1> QED
  BY <1>1, AdvisingStep, PTL DEF Spec

\* The survey of an advice is one of the machine that it is about.
LEMMA SurveyOfAdvice ==
    ASSUME Advising
    PROVE  /\ Budgeted \in Budget /\ PoolOf(1) \in Pool
           /\ Budgeted.pool = PoolOf(1) /\ Budgeted.pool.total = Surveyed(1).total
<1> DEFINE yes == TRUE
<1>1. 1 \in DOMAIN asked.at
  BY SomeMachine DEF Advising
<1>2. Budgeted = BudgetAt(1, yes)
  BY DEF Budgeted
<1> HIDE DEF yes
<1>3. Budgeted \in Budget /\ Budgeted.pool = PoolOf(1)
  BY <1>1, <1>2, BudgetType DEF Advising
<1>4. PoolOf(1).total = Surveyed(1).total
  BY DEF PoolOf, BudgetOf, Built
<1> QED
  BY <1>1, <1>3, <1>4, SurveyedFigures DEF Advising

\* Whatever is asked about whatever machines, the figures that an advice and a
\* check are worked out from are numbers: what a machine answers, what is summed
\* up over its cards, its files and the containers of its tenants, and what is
\* read from the header of a file, the config of a model and the command of a
\* container.
THEOREM FiguresAreNumbers == Spec => []TypeOK
<1>1. Advising => TypeOK
  <2> SUFFICES ASSUME Advising PROVE TypeOK
    OBVIOUS
  <2>1. Vllm => Measurable(Model) /\ Flags \in Args
    BY ModelMeasurable, FormFlags DEF Advising, Fits
  <2> QED
    BY <2>1, SurveyOfAdvice DEF TypeOK
<1> QED
  BY <1>1, AdvisingHolds, PTL

\* The fraction that is advised holds the model, whatever runs and whatever was
\* asked.
THEOREM AdviceLoadsHolds == Spec => []AdviceLoads
<1>1. Advising => AdviceLoads
  <2> DEFINE shards == Len(asked.at)
  <2> SUFFICES ASSUME Advising, Vllm, told # None,
                      Advises(told[1]), Model.found, Model.weights > 0
               PROVE  told[1].set.util * Surveyed(1).total * shards
                        >= 100 * (Model.weights + shards * Extra(Model))
    BY DEF AdviceLoads
  <2>1. told[1] = VllmAdvice(Model, Budgeted, shards, asked.args)
    BY DEF Advising, Standing, Advised
  <2>2. told[1].set.util > 0 /\ Measurable(Model) /\ Budgeted \in Budget
    BY SurveyOfAdvice, ModelMeasurable DEF Advises, Advising
  <2>3. shards \in Nat \ {0} /\ Larger(1, shards) = shards
    BY SomeMachine DEF Larger, Advising
  <2> HIDE DEF shards
  <2>4. told[1].set.util * Budgeted.pool.total * Larger(1, shards)
          >= 100 * (Model.weights + Larger(1, shards) * Extra(Model))
    BY <2>1, <2>2, <2>3, AdvisedLoads
  <2> QED
    BY <2>3, <2>4, SurveyOfAdvice
<1> QED
  BY <1>1, AdvisingHolds, PTL

\* The check of a launch of vLLM by an advice does not refuse it, where the flags
\* add no bytes of their own and ask for no more cards than there are.
LEMMA VllmIsAdmitted ==
    ASSUME Advising, Vllm, told # None, Advises(told[1]),
           Flags.kv = 0, Flags.offload = 0, Spanned(Flags, PoolOf(1)) <= PoolOf(1).devices
    PROVE  Verdicts(Followed(told[1]))[1] # "block"
<1> DEFINE advice == VllmAdvice(Model, Budgeted, Len(asked.at), asked.args)
           flags == Followed(told[1])
<1>1. told[1] = advice
  BY DEF Advising, Standing, Advised
<1>2. advice.set.util > 0 /\ Measurable(Model) /\ Budgeted \in Budget /\ Flags \in Args
  BY <1>1, SurveyOfAdvice, ModelMeasurable, FormFlags DEF Advises, Advising, Fits
<1>3. 1 \in DOMAIN asked.at /\ Len(asked.at) \in Nat
  BY SomeMachine DEF Advising
<1>4. advice.set.util \in 1..100
  BY <1>2, <1>3, AdvisedFraction
<1>5. flags = [Flags EXCEPT !.util = advice.set.util]
  <2> HIDE DEF advice
  <2>1. told[1].set.util # 0
    BY <1>1, <1>4
  <2> QED
    BY <1>1, <2>1 DEF Followed
<1>6. flags \in Args /\ flags.util = advice.set.util /\ flags.kv = 0 /\ flags.offload = 0
  <2> DEFINE u == advice.set.util
             f == Flags
  <2>1. u \in 0..NoUtil /\ f \in Args /\ flags = [f EXCEPT !.util = u]
    BY <1>2, <1>4, <1>5 DEF NoUtil
  <2>2. f.kv = 0 /\ f.offload = 0
    OBVIOUS
  <2> HIDE DEF u, f, flags
  <2>3. flags \in Args /\ flags.util = u /\ flags.kv = 0 /\ flags.offload = 0
    BY <2>1, <2>2 DEF Args
  <2> QED
    BY <2>3 DEF u, f
<1>7. Spanned(flags, Budgeted.pool) <= Budgeted.pool.devices
  BY <1>2, <1>5, SurveyOfAdvice DEF Spanned, Args
<1>8. VllmVerdict(Budgeted, Footprint(flags, Budgeted.pool)) # "block"
  BY ONLY <1>2, <1>3, <1>6, <1>7, AdvisedIsAdmitted
<1>9. Verdicts(flags)[1] = VllmVerdict(Budgeted, Footprint(flags, PoolOf(1)))
  BY <1>3 DEF Verdicts, Judged, Priced, LaunchPrice, Replaced, Budgeted
<1> QED
  BY <1>8, <1>9, SurveyOfAdvice

\* Nor does it refuse a launch of llama.cpp by an advice, where the launch loads
\* no other file.
LEMMA LlamaIsAdmitted ==
    ASSUME Advising, ~Vllm, told # None, Advises(told[1]), Flags.companions = 0
    PROVE  Verdicts(Followed(told[1]))[1] # "block"
<1> DEFINE f == IF Opens(asked.ref) THEN asked.model ELSE NoFile
           path == LooksLikePath(asked.ref)
           b == Budgeted
           advice == LlamaAdvice(path, f, b, asked.args)
           h == Header(f)
           flags == Followed(told[1])
<1>1. IsFile(f) /\ asked.args \in LlamaSet /\ Flags = asked.args
  BY FormFlags DEF Advising, Fits
<1>2. told[1] = advice /\ path /\ advice.ok /\ b \in Budget
  BY SurveyOfAdvice DEF Advising, Standing, Advised, Advises
<1>3. Opens(asked.ref) /\ f = asked.model
  <2>1. ReadCached(f) # <<>>
    <3> HIDE DEF f, path, b
    <3> QED
      BY <1>1, <1>2, LlamaAdvised
  <2>2. ReadCached(NoFile) = <<>>
    BY DEF ReadCached, CanRead, NoFile
  <2> QED
    BY <2>1, <2>2
<1> HIDE DEF f, path, b
<1> DEFINE spendable == Spendable(b)
           sized == Sizing(h, asked.args, spendable)
<1>4. ReadCached(f) = <<h>> /\ spendable \in Nat \ {0}
  <2>1. ReadCached(f) # <<>> /\ spendable # 0
    BY <1>1, <1>2, LlamaAdvised
  <2> QED
    BY <1>2, <2>1, SpendableType DEF ReadCached
<1>5. advice = sized
  <2>1. ReadCached(f) # <<>>
    BY <1>4
  <2> QED
    BY <1>1, <1>2, <1>4, <2>1, LlamaAdvised
<1>6. Numbered(h)
  BY <1>1, HeaderNumbers
<1> DEFINE cost == Cost(h, asked.args, sized.layers, sized.ctx)
<1>7. sized.layers \in Nat /\ sized.ctx \in Nat /\ cost <= spendable
  <2>1. sized.ok
    BY <1>2, <1>5
  <2> HIDE DEF spendable, h
  <2> QED
    BY <1>1, <1>4, <1>6, <2>1, SizingIsMost
<1>8. flags = [asked.args EXCEPT !.layers = sized.layers, !.ctx = sized.ctx]
  BY <1>1, <1>2, <1>5 DEF Followed, Taken
<1>9. flags = [asked.args EXCEPT !.layers = sized.layers, !.ctx = sized.ctx, !.companions = 0]
  <2> DEFINE layers == sized.layers
             ctx == sized.ctx
             args == asked.args
  <2>1. /\ layers \in Nat /\ ctx \in Nat /\ args \in LlamaSet /\ args.companions = 0
        /\ flags = [args EXCEPT !.layers = layers, !.ctx = ctx]
    BY <1>1, <1>7, <1>8
  <2> HIDE DEF layers, ctx, args, flags
  <2>2. flags = [args EXCEPT !.layers = layers, !.ctx = ctx, !.companions = 0]
    BY <2>1 DEF LlamaSet
  <2> QED
    BY <2>2 DEF layers, ctx, args
<1>10. Priced(flags, PoolOf(1)) = cost
  <2>1. Priced(flags, PoolOf(1)) = PriceOf(f, flags)
    BY <1>3 DEF Priced, LaunchPrice
  <2>2. PriceOf(f, flags) = Price(h, flags)
    BY <1>4 DEF PriceOf
  <2> QED
    BY <1>9, <2>1, <2>2 DEF Cost
<1>11. cost \in Nat
  <2>1. Counted(flags)
    BY <1>1, <1>7, <1>8 DEF Counted, LlamaSet
  <2>2. PriceOf(f, flags) \in Nat
    BY <1>1, <2>1, PriceType
  <2> QED
    BY <1>3, <1>10, <2>2 DEF Priced, LaunchPrice
<1> HIDE DEF cost
<1>12. ~BytesBlocks(b, cost)
  BY <1>2, <1>4, <1>7, <1>11, SpendableIsAdmitted
<1>13. Verdicts(flags)[1] = BytesVerdict(b, cost, cost > 0)
  <2>1. 1 \in DOMAIN asked.at
    BY SomeMachine DEF Advising
  <2> QED
    BY <1>10, <2>1 DEF Verdicts, Judged, Replaced, Budgeted, b
<1> QED
  BY <1>12, <1>13 DEF BytesVerdict

\* A launch by an advice is not refused by the memory guard of the machine that
\* the advice was about, whichever the engine, whatever the machines hold and
\* whatever runs; what the operator's own flags add is the operator's.
THEOREM AdviceAdmittedHolds == Spec => []AdviceAdmitted
<1>1. Init => AdviceAdmitted
  BY DEF Init, AdviceAdmitted
<1>2. Advising /\ AdviceAdmitted /\ [Next]_vars => AdviceAdmitted'
  <2> DEFINE Theirs == IF Vllm THEN \/ Flags.offload > 0 \/ Flags.kv > 0
                                    \/ Spanned(Flags, PoolOf(1)) > PoolOf(1).devices
                               ELSE Flags.companions > 0
  <2> SUFFICES ASSUME Advising, AdviceAdmitted, [Next]_vars, verdict' # None,
                      verdict'[1] = "block"
               PROVE  Theirs'
    BY DEF AdviceAdmitted, None
  <2>1. Theirs' = Theirs
    <3>1. asked' = asked
      BY AskedStays
    <3> QED
      BY <3>1 DEF Vllm, Flags, PoolOf, Surveyed, Machine, Nodes, Here
  <2>2. CASE UNCHANGED verdict
    BY <2>1, <2>2 DEF AdviceAdmitted
  <2>3. CASE Launches
    <3>1. told # None /\ Advises(told[1])
      BY <2>3 DEF Launches
    <3>2. verdict' = Checked(Verdicts(Followed(told[1]))).verdicts
      BY <2>3 DEF Launches
    <3>3. verdict' = Verdicts(Followed(told[1]))
      BY <3>2 DEF Checked, Plan, None
    <3>4. Fits(Flags) /\ PoolOf(1) \in Pool
      BY FormFlags, SurveyOfAdvice DEF Advising
    <3>5. ASSUME Vllm PROVE Theirs
      <4>1. Flags.kv # 0 \/ Flags.offload # 0 \/ ~(Spanned(Flags, PoolOf(1)) <= PoolOf(1).devices)
        BY <3>1, <3>3, <3>5, VllmIsAdmitted
      <4>2. /\ Flags.kv \in Nat /\ Flags.offload \in Nat
            /\ Spanned(Flags, PoolOf(1)) \in Nat /\ PoolOf(1).devices \in Nat
        BY <3>4, <3>5 DEF Fits, Args, Spanned, Pool
      <4> DEFINE kv == Flags.kv
                 offload == Flags.offload
                 spanned == Spanned(Flags, PoolOf(1))
                 devices == PoolOf(1).devices
      <4> HIDE DEF kv, offload, spanned, devices
      <4>3. offload > 0 \/ kv > 0 \/ spanned > devices
        BY <4>1, <4>2 DEF kv, offload, spanned, devices
      <4> QED
        BY <3>5, <4>3 DEF kv, offload, spanned, devices
    <3>6. ASSUME ~Vllm PROVE Theirs
      <4>1. Flags.companions # 0
        BY <3>1, <3>3, <3>6, LlamaIsAdmitted
      <4>2. Flags.companions \in Nat
        BY <3>4, <3>6 DEF Fits, LlamaSet
      <4>3. Flags.companions > 0
        BY <4>1, <4>2
      <4> QED
        BY <3>6, <4>3
    <3>7. Theirs
      BY <3>5, <3>6
    <3> HIDE DEF Theirs
    <3> QED
      BY <2>1, <3>7
  <2>4. CASE Stops
    BY <2>4 DEF Stops
  <2> QED
    BY <2>2, <2>3, <2>4 DEF Next, Asks, vars
<1> QED
  BY <1>1, <1>2, AdvisingHolds, PTL DEF Spec

\* What is advised for a file of llama.cpp fits, and no other choice that fits is
\* better, whatever the file says and whatever the machine holds.
THEOREM MostLayersHolds == Spec => []MostLayers
<1>1. Advising => MostLayers
  <2> DEFINE f == asked.model
             path == LooksLikePath(asked.ref)
             b == Budgeted
             args == asked.args
             best == Spendable(b)
             h == Header(f)
             advice == LlamaAdvice(path, f, b, args)
             sized == Sizing(h, args, best)
             given == Smaller(sized.layers, AllLayers(h))
             fits(layers, ctx) == Cost(h, args, layers, ctx) <= best
  <2> SUFFICES ASSUME Advising, ~Vllm, Opens(asked.ref), told # None,
                      NEW g \in ToSet(ReadCached(f)), best # 0
               PROVE  /\ g = h /\ told[1] = sized
                      /\ sized.ok => fits(given, sized.ctx)
                      /\ \A layers \in 1..AllLayers(h), i \in Steps(h) :
                           fits(layers, ContextSteps[i]) =>
                             /\ sized.ok /\ given >= layers
                             /\ given = layers => sized.ctx >= ContextSteps[i]
    BY DEF MostLayers
  <2>1. told[1] = advice
    BY DEF Advising, Standing, Advised
  <2>2. IsFile(f) /\ args \in LlamaSet /\ b \in Budget
    BY FormFlags, SurveyOfAdvice DEF Advising, Fits
  <2>3. path
    BY DEF Opens, LooksLikePath, Paths
  <2>4. ReadCached(f) # <<>> /\ g = h
    BY DEF ReadCached, ToSet
  <2> HIDE DEF f, path, b, args
  <2>5. best \in Nat /\ Numbered(h)
    BY <2>2, SpendableType, HeaderNumbers
  <2>6. advice = sized
    BY <2>2, <2>3, <2>4, LlamaAdvised
  <2> HIDE DEF best, h
  <2>7. /\ sized.ok => fits(given, sized.ctx)
        /\ \A layers \in 1..AllLayers(h), i \in Steps(h) :
             fits(layers, ContextSteps[i]) =>
               /\ sized.ok /\ given >= layers
               /\ given = layers => sized.ctx >= ContextSteps[i]
    BY <2>2, <2>5, SizingIsMost
  <2> QED
    BY <2>1, <2>4, <2>6, <2>7
<1> QED
  BY <1>1, AdvisingHolds, PTL

-----------------------------------------------------------------------------
(* How the tokens of a command are put together.                           *)

\* How sequences are put one after the other, step by step.
Flattens(T, seqs, g) ==
    /\ g \in [1..Len(seqs) -> Seq(T)]
    /\ g[1] = seqs[1] /\ FlattenSeq(seqs) = g[Len(seqs)]
    /\ \A i \in 2..Len(seqs) : g[i] = g[i - 1] \o seqs[i]

\* There is such a function.
LEMMA FlattenSteps ==
    ASSUME NEW T, NEW seqs \in Seq(Seq(T)), Len(seqs) # 0
    PROVE  \E g : Flattens(T, seqs, g)
<1> DEFINE N == Len(seqs)
           Made(g) == [i \in 1..N |-> IF i = 1 THEN seqs[i] ELSE g[i - 1] \o seqs[i]]
           flat == CHOOSE g : g = Made(g)
           h == [i \in 2..N |-> [x \in Seq(T) |-> x \o seqs[i]]]
           start == seqs[1]
           all == Seq(T)
<1>1. FlattenSeq(seqs) = flat[N]
  BY DEF FlattenSeq
<1>2. N \in Nat \ {0} /\ \A i \in 1..N : seqs[i] \in Seq(T)
  OBVIOUS
<1>3. Stepping(N, all, h)
  <2>1. ASSUME NEW i \in 2..N, NEW x \in Seq(T) PROVE x \o seqs[i] \in Seq(T)
    <3>1. seqs[i] \in Seq(T)
      BY <1>2
    <3> HIDE DEF N
    <3> QED
      BY <3>1
  <2> HIDE DEF N
  <2> QED
    BY <2>1 DEF Stepping
<1>4. start \in all
  BY <1>2
<1>5. PICK g : Stepped(N, all, start, h, g)
  <2> HIDE DEF N, all, start, h
  <2> QED
    BY <1>2, <1>3, <1>4, StepByStep
<1> HIDE DEF N
<1>6. g \in [1..N -> Seq(T)] /\ g[1] = seqs[1]
  BY <1>5 DEF Stepped
<1>7. ASSUME NEW i \in 2..N PROVE g[i] = g[i - 1] \o seqs[i]
  <2>1. i - 1 \in 1..N
    BY <1>2
  <2>2. g[i - 1] \in Seq(T)
    BY <1>6, <2>1
  <2>3. g[i] = h[i][g[i - 1]]
    BY <1>5 DEF Stepped
  <2> QED
    BY <2>2, <2>3
<1>8. g = Made(g)
  <2>1. ASSUME NEW i \in 1..N PROVE g[i] = IF i = 1 THEN seqs[i] ELSE g[i - 1] \o seqs[i]
    <3>1. i = 1 \/ i \in 2..N
      BY <1>2
    <3> QED
      BY <1>6, <1>7, <3>1
  <2> QED
    BY <1>6, <2>1
<1>9. \A i \in 1..N : flat[i] = IF i = 1 THEN seqs[i] ELSE flat[i - 1] \o seqs[i]
  <2>1. flat = Made(flat)
    BY <1>8
  <2> HIDE DEF flat
  <2> QED
    BY <2>1
<1>10. flat \in [1..N -> Seq(T)] /\ flat[1] = seqs[1]
  <2>1. flat = Made(flat)
    BY <1>8
  <2> HIDE DEF flat
  <2>2. flat = [i \in 1..N |-> flat[i]] /\ flat[1] = seqs[1]
    BY <1>2, <1>9, <2>1
  <2> DEFINE P == {n \in Nat : n + 1 <= N => flat[n + 1] \in Seq(T)}
  <2>3. 0 \in P
    BY <1>2, <1>9
  <2>4. ASSUME NEW n \in P PROVE n + 1 \in P
    <3>1. SUFFICES ASSUME n + 2 <= N PROVE flat[n + 2] \in Seq(T)
      OBVIOUS
    <3>2. n + 2 # 1 /\ (n + 2) - 1 = n + 1 /\ n + 2 \in 1..N
      BY <1>2, <3>1
    <3>3. flat[n + 2] = flat[n + 1] \o seqs[n + 2]
      BY <1>9, <3>2
    <3>4. flat[n + 1] \in Seq(T) /\ seqs[n + 2] \in Seq(T)
      BY <1>2, <3>1, <3>2
    <3> QED
      BY <3>3, <3>4
  <2>5. P = Nat
    <3>1. P \in SUBSET Nat
      OBVIOUS
    <3> HIDE DEF P
    <3> QED
      BY <2>3, <2>4, <3>1, Induction
  <2>6. \A i \in 1..N : flat[i] \in Seq(T)
    <3> TAKE i \in 1..N
    <3>1. i - 1 \in Nat /\ (i - 1) + 1 = i /\ i <= N
      BY <1>2
    <3>2. i - 1 \in P
      BY <2>5, <3>1
    <3> QED
      BY <3>1, <3>2
  <2> QED
    BY <2>2, <2>6
<1> HIDE DEF flat
<1>11. ASSUME NEW i \in 2..N PROVE flat[i] = flat[i - 1] \o seqs[i]
  <2>1. i \in 1..N /\ i # 1
    BY <1>2
  <2> QED
    BY <1>9, <2>1
<1> QED
  BY <1>1, <1>10, <1>11 DEF N, Flattens

\* A set of sequences that holds each of some sequences, and with any two the one
\* after the other, holds them all put one after the other.
LEMMA FlattenKeeps ==
    ASSUME NEW T, NEW seqs \in Seq(Seq(T)), NEW Q \in SUBSET Seq(T), <<>> \in Q,
           \A x, y \in Q : x \o y \in Q, \A i \in DOMAIN seqs : seqs[i] \in Q
    PROVE  FlattenSeq(seqs) \in Q
<1>1. Len(seqs) \in Nat /\ DOMAIN seqs = 1..Len(seqs)
  OBVIOUS
<1>2. CASE Len(seqs) = 0
  <2>1. seqs = <<>>
    BY <1>2
  <2> QED
    BY <1>2, <2>1 DEF FlattenSeq
<1>3. CASE Len(seqs) # 0
  <2>1. PICK g : Flattens(T, seqs, g)
    BY <1>3, FlattenSteps
  <2> DEFINE N == Len(seqs)
             P == {n \in Nat : n + 1 <= N => g[n + 1] \in Q}
  <2>2. N \in Nat \ {0} /\ \A i \in 1..N : seqs[i] \in Q
    BY <1>1, <1>3
  <2>3. /\ g[1] = seqs[1] /\ FlattenSeq(seqs) = g[N]
        /\ \A i \in 2..N : g[i] = g[i - 1] \o seqs[i]
    BY <2>1 DEF Flattens
  <2> HIDE DEF N
  <2>4. 0 \in P
    BY <2>2, <2>3
  <2>5. ASSUME NEW n \in P PROVE n + 1 \in P
    <3>1. SUFFICES ASSUME n + 2 <= N PROVE g[n + 2] \in Q
      OBVIOUS
    <3>2. (n + 2) - 1 = n + 1 /\ n + 2 \in 2..N /\ n + 2 \in 1..N
      BY <2>2, <3>1
    <3>3. g[n + 2] = g[n + 1] \o seqs[n + 2]
      BY <2>3, <3>2
    <3>4. g[n + 1] \in Q /\ seqs[n + 2] \in Q
      BY <2>2, <3>1, <3>2
    <3> QED
      BY <3>3, <3>4
  <2>6. P = Nat
    <3>1. P \in SUBSET Nat
      OBVIOUS
    <3> HIDE DEF P
    <3> QED
      BY <2>4, <2>5, <3>1, Induction
  <2>7. N - 1 \in Nat /\ (N - 1) + 1 = N
    BY <2>2
  <2>8. N - 1 \in P
    BY <2>6, <2>7
  <2> QED
    BY <2>2, <2>3, <2>7, <2>8
<1> QED
  BY <1>2, <1>3

\* What two sequences, one after the other, are made of.
LEMMA Elements ==
    ASSUME NEW S, NEW a \in Seq(S), NEW b \in Seq(S)
    PROVE  /\ ToSet(a \o b) = ToSet(a) \cup ToSet(b) /\ ToSet(a) \in SUBSET S
           /\ DOMAIN a = 1..Len(a) /\ DOMAIN (a \o b) = 1..(Len(a) + Len(b))
           /\ Len(a) \in Nat /\ Len(b) \in Nat /\ DOMAIN b = 1..Len(b)
           /\ \A i \in DOMAIN a : (a \o b)[i] = a[i]
           /\ \A i \in DOMAIN b : (a \o b)[Len(a) + i] = b[i]
<1>1. /\ DOMAIN a = 1..Len(a) /\ DOMAIN (a \o b) = 1..(Len(a) + Len(b))
      /\ Len(a) \in Nat /\ Len(b) \in Nat /\ DOMAIN b = 1..Len(b)
      /\ \A i \in DOMAIN a : (a \o b)[i] = a[i]
      /\ \A i \in DOMAIN b : (a \o b)[Len(a) + i] = b[i]
      /\ \A i \in DOMAIN a : a[i] \in S
  OBVIOUS
<1>2. \A i \in DOMAIN (a \o b) : i \in DOMAIN a \/ (i - Len(a) \in DOMAIN b /\ Len(a) + (i - Len(a)) = i)
  BY <1>1
<1>3. \A i \in DOMAIN b : Len(a) + i \in DOMAIN (a \o b)
  BY <1>1
<1>4. DOMAIN a \subseteq DOMAIN (a \o b)
  BY <1>1
<1>5. ToSet(a \o b) \subseteq ToSet(a) \cup ToSet(b)
  <2> SUFFICES ASSUME NEW i \in DOMAIN (a \o b) PROVE (a \o b)[i] \in ToSet(a) \cup ToSet(b)
    BY DEF ToSet
  <2>1. CASE i \in DOMAIN a
    BY <1>1, <2>1 DEF ToSet
  <2>2. CASE i \notin DOMAIN a
    <3>1. i - Len(a) \in DOMAIN b /\ (a \o b)[i] = b[i - Len(a)]
      BY <1>1, <1>2, <2>2
    <3> QED
      BY <3>1 DEF ToSet
  <2> QED
    BY <2>1, <2>2
<1>6. ToSet(a) \subseteq ToSet(a \o b)
  BY <1>1, <1>4 DEF ToSet
<1>7. ToSet(b) \subseteq ToSet(a \o b)
  BY <1>1, <1>3 DEF ToSet
<1>8. ToSet(a) \in SUBSET S
  BY <1>1 DEF ToSet
<1> QED
  BY <1>1, <1>5, <1>6, <1>7, <1>8

\* They hold what each of them holds.
LEMMA FlattenHolds ==
    ASSUME NEW T, NEW seqs \in Seq(Seq(T))
    PROVE  ToSet(FlattenSeq(seqs)) = UNION {ToSet(seqs[i]) : i \in DOMAIN seqs}
<1> DEFINE members == UNION {ToSet(seqs[i]) : i \in DOMAIN seqs}
<1>1. Len(seqs) \in Nat /\ DOMAIN seqs = 1..Len(seqs) /\ \A i \in DOMAIN seqs : seqs[i] \in Seq(T)
  OBVIOUS
<1>2. ToSet(FlattenSeq(seqs)) \subseteq members
  <2> DEFINE Q == {x \in Seq(T) : ToSet(x) \subseteq members}
  <2>1. <<>> \in Q
    BY EmptySeq DEF ToSet
  <2>2. ASSUME NEW x \in Q, NEW y \in Q PROVE x \o y \in Q
    <3> HIDE DEF members
    <3>1. x \o y \in Seq(T) /\ ToSet(x \o y) = ToSet(x) \cup ToSet(y)
      BY Elements
    <3> QED
      BY <3>1
  <2>3. \A i \in DOMAIN seqs : seqs[i] \in Q
    BY <1>1
  <2> DEFINE R == Q
  <2>4. /\ R \in SUBSET Seq(T) /\ <<>> \in R /\ \A x, y \in R : x \o y \in R
        /\ \A i \in DOMAIN seqs : seqs[i] \in R
    BY <2>1, <2>2, <2>3
  <2> HIDE DEF R
  <2>5. FlattenSeq(seqs) \in R
    BY <2>4, FlattenKeeps
  <2> QED
    BY <2>5 DEF R
<1>3. ASSUME NEW k \in DOMAIN seqs PROVE ToSet(seqs[k]) \subseteq ToSet(FlattenSeq(seqs))
  <2>1. PICK g : Flattens(T, seqs, g)
    <3>1. Len(seqs) # 0
      BY <1>1
    <3> QED
      BY <3>1, FlattenSteps
  <2> DEFINE N == Len(seqs)
             mine == ToSet(seqs[k])
             P == {n \in Nat : k + n <= N => mine \subseteq ToSet(g[k + n])}
  <2>2. /\ g[1] = seqs[1] /\ FlattenSeq(seqs) = g[N] /\ g \in [1..N -> Seq(T)]
        /\ \A i \in 2..N : g[i] = g[i - 1] \o seqs[i]
        /\ N \in Nat /\ k \in 1..N /\ \A i \in 1..N : seqs[i] \in Seq(T)
    BY <1>1, <2>1 DEF Flattens
  <2> HIDE DEF N
  <2>3. ASSUME NEW i \in 2..N PROVE ToSet(g[i]) = ToSet(g[i - 1]) \cup ToSet(seqs[i])
    <3>1. i - 1 \in 1..N /\ i \in 1..N
      BY <2>2
    <3>2. g[i - 1] \in Seq(T) /\ seqs[i] \in Seq(T) /\ g[i] = g[i - 1] \o seqs[i]
      BY <2>2, <3>1
    <3> QED
      BY <3>2, Elements
  <2>4. 0 \in P
    <3>1. CASE k = 1
      BY <2>2, <3>1
    <3>2. CASE k # 1
      <4>1. k \in 2..N /\ k + 0 = k
        BY <2>2, <3>2
      <4> QED
        BY <2>3, <4>1
    <3> QED
      BY <3>1, <3>2
  <2> HIDE DEF mine
  <2>5. ASSUME NEW n \in P PROVE n + 1 \in P
    <3>1. SUFFICES ASSUME k + (n + 1) <= N PROVE mine \subseteq ToSet(g[k + (n + 1)])
      OBVIOUS
    <3>2. n \in Nat /\ k \in Nat \ {0}
      BY <2>2
    <3>3. k + (n + 1) \in 2..N /\ (k + (n + 1)) - 1 = k + n /\ k + n <= N
      BY <2>2, <3>1, <3>2
    <3>4. mine \subseteq ToSet(g[k + n])
      BY <3>3
    <3> QED
      BY <2>3, <3>3, <3>4
  <2>6. P = Nat
    <3>1. P \in SUBSET Nat
      OBVIOUS
    <3> HIDE DEF P
    <3> QED
      BY <2>4, <2>5, <3>1, Induction
  <2>7. PICK n \in Nat : k + n = N
    <3>1. N - k \in Nat /\ k + (N - k) = N
      BY <2>2
    <3> QED
      BY <3>1
  <2>8. n \in P
    BY <2>6
  <2>9. k + n <= N
    BY <2>2, <2>7
  <2>10. mine \subseteq ToSet(g[N])
    <3>1. k + n <= N => mine \subseteq ToSet(g[k + n])
      BY <2>8
    <3> QED
      BY <2>7, <2>9, <3>1
  <2> QED
    BY <2>2, <2>10 DEF mine
<1> QED
  BY <1>2, <1>3

-----------------------------------------------------------------------------
(* What a command gives a flag is what it is read for.                     *)

\* A flag of some spellings is in a command; and wherever one is, this value
\* follows it.
Names(argv, spellings) == \E t \in ToSet(argv) : t.says \in spellings
Gives(argv, spellings, value) ==
    \A i \in DOMAIN argv : argv[i].says \in spellings =>
        argv[i].joined = <<>> /\ i + 1 \in DOMAIN argv /\ argv[i + 1] = value

\* The token after one is the value of a flag.
LEMMA NextToken ==
    ASSUME NEW S, NEW argv \in Seq(S), NEW i \in DOMAIN argv, i + 1 \in DOMAIN argv
    PROVE  Following(argv, i) = <<argv[i + 1]>>
<1>1. DOMAIN argv = 1..Len(argv) /\ Len(argv) \in Nat /\ i \in 1..Len(argv) /\ i + 1 <= Len(argv)
  OBVIOUS
<1>2. Smaller(i + 1, Len(argv)) = i + 1
  BY <1>1 DEF Smaller
<1> DEFINE m == i + 1
<1>3. SubSeq(argv, m, m) = <<argv[m]>>
  <2>1. m \in 1..Len(argv) /\ Len(argv) \in Nat
    BY <1>1
  <2> HIDE DEF m
  <2>2. m \in Int /\ m \in m..Len(argv) /\ m < m + 1
    BY <2>1
  <2>3. SubSeq(argv, m, m) = <<argv[m]>> \o SubSeq(argv, m + 1, m)
    BY <2>1, <2>2, SubSeqRecursiveFirst
  <2>4. SubSeq(argv, m + 1, m) = <<>>
    BY <2>2, SubSeqEmpty
  <2>5. argv[m] \in S
    BY <2>1, ElementOfSeq
  <2>6. <<argv[m]>> \in Seq(S)
    BY <2>5
  <2> QED
    BY <2>3, <2>4, <2>6, ConcatEmptySeq
<1> QED
  BY <1>2, <1>3 DEF Following

\* A flag that is not in a command has no value there, and one that is there has
\* the one that it is given.
LEMMA ReadFlag ==
    ASSUME NEW S, NEW argv \in Seq(S), NEW spellings, NEW value
    PROVE  /\ ~Names(argv, spellings) => FlagValue(argv, spellings) = <<>>
           /\ Names(argv, spellings) /\ Gives(argv, spellings, value)
                => FlagValue(argv, spellings) = <<value>>
<1> DEFINE at == {i \in DOMAIN argv : argv[i].says \in spellings}
           first == CHOOSE i \in at : \A j \in at : i <= j
           after(i) == IF argv[i].joined # <<>> THEN argv[i].joined ELSE Following(argv, i)
<1>1. FlagValue(argv, spellings) = IF at = {} THEN <<>> ELSE after(first)
  BY DEF FlagValue
<1>2. at # {} <=> Names(argv, spellings)
  BY DEF Names, ToSet
<1>3. ASSUME at # {}, Gives(argv, spellings, value) PROVE after(first) = <<value>>
  <2>1. at \in SUBSET Nat
    OBVIOUS
  <2>2. first \in at
    <3> HIDE DEF at
    <3>1. \E i \in at : \A j \in at : i <= j
      BY <1>3, <2>1, Least
    <3> QED
      BY <3>1
  <2> HIDE DEF first
  <2>3. first \in DOMAIN argv /\ argv[first].joined = <<>> /\ first + 1 \in DOMAIN argv
        /\ argv[first + 1] = value
    BY <1>3, <2>2 DEF Gives
  <2>4. Following(argv, first) = <<value>>
    BY <2>3, NextToken
  <2> QED
    BY <2>3, <2>4
<1> HIDE DEF at, first, after
<1> QED
  BY <1>1, <1>2, <1>3

\* Two commands, one after the other.
LEMMA GivesBoth ==
    ASSUME NEW S, NEW a \in Seq(S), NEW b \in Seq(S), NEW spellings, NEW value,
           Gives(a, spellings, value), Gives(b, spellings, value)
    PROVE  Gives(a \o b, spellings, value)
<1> SUFFICES ASSUME NEW i \in DOMAIN (a \o b), (a \o b)[i].says \in spellings
             PROVE  /\ (a \o b)[i].joined = <<>> /\ i + 1 \in DOMAIN (a \o b)
                    /\ (a \o b)[i + 1] = value
  BY DEF Gives
<1>1. /\ DOMAIN a = 1..Len(a) /\ DOMAIN (a \o b) = 1..(Len(a) + Len(b))
      /\ Len(a) \in Nat /\ Len(b) \in Nat /\ DOMAIN b = 1..Len(b)
      /\ \A j \in DOMAIN a : (a \o b)[j] = a[j]
      /\ \A j \in DOMAIN b : (a \o b)[Len(a) + j] = b[j]
  BY Elements
<1> DEFINE c == a \o b
<1> HIDE DEF c
<1>2. CASE i \in DOMAIN a
  <2>1. (a \o b)[i] = a[i]
    BY <1>1, <1>2
  <2>2. a[i].joined = <<>> /\ i + 1 \in DOMAIN a /\ a[i + 1] = value
    BY <1>2, <2>1 DEF Gives
  <2>3. i + 1 \in DOMAIN (a \o b)
    BY <1>1, <2>2
  <2> QED
    BY <1>1, <2>1, <2>2, <2>3
<1>3. CASE i \notin DOMAIN a
  <2> DEFINE j == i - Len(a)
  <2>1. j \in DOMAIN b /\ Len(a) + j = i
    BY <1>1, <1>3
  <2>2. (a \o b)[i] = b[j]
    BY <1>1, <2>1
  <2>3. b[j].joined = <<>> /\ j + 1 \in DOMAIN b /\ b[j + 1] = value
    BY <2>1, <2>2 DEF Gives
  <2> HIDE DEF j
  <2>4. i + 1 \in DOMAIN (a \o b) /\ Len(a) + (j + 1) = i + 1
    <3>1. j \in 1..Len(b) /\ j + 1 \in 1..Len(b)
      BY <1>1, <2>1, <2>3
    <3> QED
      BY <1>1, <2>1, <3>1
  <2>5. (a \o b)[i + 1] = b[j + 1]
    BY <1>1, <2>3, <2>4
  <2> QED
    BY <2>2, <2>3, <2>4, <2>5
<1> QED
  BY <1>2, <1>3

\* A flag that is not there is given anything.
LEMMA GivesNone ==
    ASSUME NEW argv, NEW spellings, NEW value, ~Names(argv, spellings)
    PROVE  Gives(argv, spellings, value)
BY DEF Names, Gives, ToSet

\* Where a flag is in what stands in the middle of a command, it is read for what
\* it is given there.
LEMMA ReadAmid ==
    ASSUME NEW S, NEW a \in Seq(S), NEW b \in Seq(S), NEW c \in Seq(S), NEW spellings, NEW value,
           ~Names(a, spellings), ~Names(c, spellings), Gives(b, spellings, value)
    PROVE  FlagValue(a \o b \o c, spellings) = IF Names(b, spellings) THEN <<value>> ELSE <<>>
<1>1. a \o b \in Seq(S) /\ a \o b \o c \in Seq(S)
  OBVIOUS
<1>2. ToSet(a \o b \o c) = ToSet(a) \cup ToSet(b) \cup ToSet(c)
  <2>1. ToSet(a \o b) = ToSet(a) \cup ToSet(b)
    BY Elements
  <2>2. \A x \in Seq(S) : ToSet(x \o c) = ToSet(x) \cup ToSet(c)
    BY Elements
  <2>3. ToSet(a \o b \o c) = ToSet(a \o b) \cup ToSet(c)
    BY <1>1, <2>2
  <2> QED
    BY <2>1, <2>3
<1>3. Gives(a \o b, spellings, value)
  BY GivesNone, GivesBoth
<1>4. Gives(a \o b \o c, spellings, value)
  BY <1>1, <1>3, GivesNone, GivesBoth
<1>5. Names(a \o b \o c, spellings) <=> Names(b, spellings)
  BY <1>2 DEF Names
<1> QED
  BY <1>1, <1>4, <1>5, ReadFlag

\* How one setting is rendered.
Shown(schema, s, isVllm) ==
    IF s[1] \in Managed \/ s[1] \notin DOMAIN schema THEN <<>>
    ELSE IF IsDefault(schema[s[1]], s[2]) THEN <<>>
    ELSE IF isVllm THEN VllmRender(schema[s[1]], s[2]) ELSE LlamaRender(schema[s[1]], s[2])

\* It is made of the flag or its negation and of the value or its items.
LEMMA ShownTokens ==
    ASSUME NEW schema, Speaks(schema), NEW s \in Settled, NEW isVllm
    PROVE  /\ Shown(schema, s, isVllm) \in Seq(Token(Words))
           /\ \A t \in ToSet(Shown(schema, s, isVllm)) :
                 /\ s[1] \in DOMAIN schema
                 /\ \/ t = Word(schema[s[1]].flags[1])
                    \/ t \in ToSet(schema[s[1]].negative)
                    \/ t \in {s[2]} \cup ToSet(s[2].line)
<1> DEFINE T == Token(Words)
           arg == schema[s[1]]
           v == s[2]
<1>1. CASE s[1] \notin DOMAIN schema
  BY <1>1, EmptySeq DEF Shown, ToSet
<1>2. CASE s[1] \in DOMAIN schema
  <2>1. Word(arg.flags[1]) \in T /\ arg.negative \in Seq(T)
    BY <1>2, Tokens DEF Speaks
  <2>2. v \in T /\ Items(v) \in Seq(T)
    BY Tokens DEF Settled
  <2>3. ToSet(Items(v)) \subseteq {v} \cup ToSet(v.line)
    <3>1. ToSet(<<v>>) = {v}
      BY DEF ToSet
    <3> QED
      BY <3>1 DEF Items
  <2> HIDE DEF T, arg, v
  <2> DEFINE flag == Word(arg.flags[1])
  <2> HIDE DEF flag
  <2>4. /\ <<>> \in Seq(T) /\ <<flag>> \in Seq(T) /\ <<flag, v>> \in Seq(T)
        /\ <<flag>> \o Items(v) \in Seq(T)
    BY <2>1, <2>2 DEF flag
  <2>5. /\ ToSet(<<>>) = {} /\ ToSet(<<flag>>) = {flag} /\ ToSet(<<flag, v>>) = {flag, v}
        /\ ToSet(<<flag>> \o Items(v)) \subseteq {flag, v} \cup ToSet(v.line)
    <3>1. ToSet(<<>>) = {} /\ ToSet(<<flag>>) = {flag} /\ ToSet(<<flag, v>>) = {flag, v}
      BY DEF ToSet
    <3>2. ToSet(<<flag>> \o Items(v)) = ToSet(<<flag>>) \cup ToSet(Items(v))
      <4>1. \A x, y \in Seq(T) : ToSet(x \o y) = ToSet(x) \cup ToSet(y)
        BY Elements
      <4>2. <<flag>> \in Seq(T) /\ Items(v) \in Seq(T)
        BY <2>2, <2>4
      <4> HIDE DEF flag
      <4> QED
        BY <4>1, <4>2
    <3> QED
      BY <2>3, <3>1, <3>2
  <2>6. Shown(schema, s, isVllm)
          \in {<<>>, <<flag>>, arg.negative, <<flag, v>>, <<flag>> \o Items(v)}
    BY DEF Shown, VllmRender, LlamaRender, arg, v, flag
  <2>7. Shown(schema, s, isVllm) \in Seq(T)
    BY <2>1, <2>4, <2>6
  <2>8. ToSet(Shown(schema, s, isVllm)) \subseteq {flag, v} \cup ToSet(v.line) \cup ToSet(arg.negative)
    BY <2>5, <2>6
  <2> QED
    BY <1>2, <2>7, <2>8 DEF T, flag, arg, v
<1> QED
  BY <1>1, <1>2

\* And all settings, one after the other.
LEMMA RenderedSettings ==
    ASSUME NEW schema, Speaks(schema), NEW settings \in Seq(Settled), NEW isVllm
    PROVE  /\ ToSet(Rendered(schema, settings, isVllm))
                = UNION {ToSet(Shown(schema, s, isVllm)) : s \in ToSet(settings)}
           /\ \A spellings, value :
                (\A s \in ToSet(settings) : Gives(Shown(schema, s, isVllm), spellings, value))
                  => Gives(Rendered(schema, settings, isVllm), spellings, value)
<1> DEFINE T == Token(Words)
           seqs == [i \in DOMAIN settings |-> Shown(schema, settings[i], isVllm)]
<1>1. Rendered(schema, settings, isVllm) = FlattenSeq(seqs)
  BY DEF Rendered, Shown
<1>2. DOMAIN settings = 1..Len(settings) /\ Len(settings) \in Nat
      /\ \A i \in DOMAIN settings : settings[i] \in Settled
  OBVIOUS
<1>3. seqs \in Seq(Seq(T)) /\ DOMAIN seqs = DOMAIN settings
  <2>1. \A i \in 1..Len(settings) : seqs[i] \in Seq(T)
    BY <1>2, ShownTokens
  <2>2. seqs \in [1..Len(settings) -> Seq(T)]
    BY <1>2, <2>1
  <2> QED
    BY <1>2, <2>2
<1>4. \A i \in DOMAIN seqs : seqs[i] = Shown(schema, settings[i], isVllm)
  OBVIOUS
<1> HIDE DEF seqs, T
<1>5. ToSet(FlattenSeq(seqs)) = UNION {ToSet(seqs[i]) : i \in DOMAIN seqs}
  BY <1>3, FlattenHolds
<1>6. ToSet(FlattenSeq(seqs)) = UNION {ToSet(Shown(schema, s, isVllm)) : s \in ToSet(settings)}
  <2>1. ToSet(settings) = {settings[i] : i \in DOMAIN seqs}
    BY <1>3 DEF ToSet
  <2>2. {ToSet(seqs[i]) : i \in DOMAIN seqs}
          = {ToSet(Shown(schema, s, isVllm)) : s \in ToSet(settings)}
    BY <1>4, <2>1
  <2> QED
    BY <1>5, <2>2
<1>7. ASSUME NEW spellings, NEW value,
             \A s \in ToSet(settings) : Gives(Shown(schema, s, isVllm), spellings, value)
      PROVE  Gives(FlattenSeq(seqs), spellings, value)
  <2> DEFINE Q == {x \in Seq(T) : Gives(x, spellings, value)}
  <2>1. <<>> \in Q
    BY EmptySeq DEF Gives
  <2>2. \A x, y \in Q : x \o y \in Q
    <3> TAKE x, y \in Q
    <3>1. x \in Seq(T) /\ y \in Seq(T) /\ Gives(x, spellings, value) /\ Gives(y, spellings, value)
      OBVIOUS
    <3>2. x \o y \in Seq(T)
      BY <3>1
    <3>3. Gives(x \o y, spellings, value)
      BY <3>1, GivesBoth
    <3> QED
      BY <3>2, <3>3
  <2>3. \A i \in DOMAIN seqs : seqs[i] \in Q
    <3> TAKE i \in DOMAIN seqs
    <3>1. settings[i] \in ToSet(settings)
      BY <1>3 DEF ToSet
    <3>2. Gives(seqs[i], spellings, value)
      BY <1>4, <1>7, <3>1
    <3>3. seqs[i] \in Seq(T)
      BY <1>3
    <3> QED
      BY <3>2, <3>3
  <2>4. Q \in SUBSET Seq(T)
    OBVIOUS
  <2> HIDE DEF Q
  <2>5. FlattenSeq(seqs) \in Q
    BY <1>3, <2>1, <2>2, <2>3, <2>4, FlattenKeeps
  <2> QED
    BY <2>5 DEF Q
<1> QED
  BY <1>1, <1>6, <1>7

\* A schema renders a flag of these spellings for nothing but this setting.
Only(schema, dest, spellings) ==
    \A e \in DOMAIN schema : /\ e # dest => schema[e].flags[1] \notin spellings
                             /\ \A t \in ToSet(schema[e].negative) : t.says \notin spellings

\* No value of a setting is spelled like that.
Silent(s, spellings) == \A t \in {s[2]} \cup ToSet(s[2].line) : t.says \notin spellings

\* A word says itself, joins nothing and is no number.
LEMMA Said == \A w : Word(w).says = w /\ Word(w).joined = <<>> /\ Word(w).number = <<>>
BY DEF Word, Blank

\* Another setting says nothing of it.
LEMMA ShownElse ==
    ASSUME NEW schema, Speaks(schema), NEW s \in Settled, NEW isVllm, NEW dest, NEW spellings,
           Only(schema, dest, spellings), Silent(s, spellings), s[1] # dest
    PROVE  ~Names(Shown(schema, s, isVllm), spellings)
<1> SUFFICES ASSUME NEW t \in ToSet(Shown(schema, s, isVllm)), t.says \in spellings PROVE FALSE
  BY DEF Names
<1>1. s[1] \in DOMAIN schema
  BY ShownTokens
<1>2. CASE t = Word(schema[s[1]].flags[1])
  BY <1>1, <1>2, Said DEF Only
<1>3. CASE t \in ToSet(schema[s[1]].negative)
  BY <1>1, <1>3 DEF Only
<1>4. CASE t \in {s[2]} \cup ToSet(s[2].line)
  BY <1>4 DEF Silent
<1> QED
  BY <1>2, <1>3, <1>4, ShownTokens

\* Settings that have none of it say nothing of it.
LEMMA RenderedElse ==
    ASSUME NEW schema, Speaks(schema), NEW settings \in Seq(Settled), NEW isVllm,
           NEW dest, NEW spellings, Only(schema, dest, spellings),
           \A s \in ToSet(settings) : s[1] # dest /\ Silent(s, spellings)
    PROVE  ~Names(Rendered(schema, settings, isVllm), spellings)
<1> SUFFICES ASSUME NEW t \in ToSet(Rendered(schema, settings, isVllm)), t.says \in spellings
             PROVE  FALSE
  BY DEF Names
<1>1. PICK s \in ToSet(settings) : t \in ToSet(Shown(schema, s, isVllm))
  BY RenderedSettings
<1>2. s \in Settled
  <2>1. \A i \in DOMAIN settings : settings[i] \in Settled
    OBVIOUS
  <2> QED
    BY <2>1 DEF ToSet
<1>3. ~Names(Shown(schema, s, isVllm), spellings)
  BY <1>2, ShownElse
<1> QED
  BY <1>1, <1>3 DEF Names

\* The setting is rendered as the flag and its value, unless it is the default.
LEMMA RenderedValue ==
    ASSUME NEW schema, Speaks(schema), NEW settings \in Seq(Settled), NEW isVllm,
           NEW dest \in DOMAIN schema \ Managed, NEW spellings, NEW value,
           Only(schema, dest, spellings), schema[dest].flags[1] \in spellings,
           schema[dest].widget \notin {"bool", "list"},
           <<dest, value>> \in ToSet(settings),
           \A s \in ToSet(settings) : (s[1] = dest => s[2] = value) /\ Silent(s, spellings)
    PROVE  /\ Gives(Rendered(schema, settings, isVllm), spellings, value)
           /\ Names(Rendered(schema, settings, isVllm), spellings)
                <=> ~IsDefault(schema[dest], value)
<1> DEFINE arg == schema[dest]
           flag == Word(arg.flags[1])
<1>1. \A s \in ToSet(settings) : s \in Settled
  <2>1. \A i \in DOMAIN settings : settings[i] \in Settled
    OBVIOUS
  <2> QED
    BY <2>1 DEF ToSet
<1>2. ASSUME NEW s \in ToSet(settings), s[1] # dest
      PROVE  ~Names(Shown(schema, s, isVllm), spellings)
  BY <1>1, <1>2, ShownElse
<1>3. ASSUME NEW s \in ToSet(settings), s[1] = dest
      PROVE  /\ Shown(schema, s, isVllm) = IF IsDefault(arg, value) THEN <<>> ELSE <<flag, value>>
             /\ value.says \notin spellings
  <2>1. s[2] = value /\ Silent(s, spellings)
    BY <1>3
  <2> QED
    BY <1>3, <2>1 DEF Shown, VllmRender, LlamaRender, Silent
<1>4. flag.says \in spellings /\ flag.joined = <<>>
  BY Said
<1> HIDE DEF flag
<1>5. ASSUME NEW s \in ToSet(settings)
      PROVE  Gives(Shown(schema, s, isVllm), spellings, value)
  <2>1. CASE s[1] # dest
    BY <1>2, <2>1, GivesNone
  <2>2. CASE s[1] = dest /\ IsDefault(arg, value)
    BY <1>3, <2>2 DEF Gives
  <2>3. CASE s[1] = dest /\ ~IsDefault(arg, value)
    <3>1. Shown(schema, s, isVllm) = <<flag, value>> /\ value.says \notin spellings
      BY <1>3, <2>3
    <3>2. /\ DOMAIN <<flag, value>> = {1, 2} /\ <<flag, value>>[1] = flag
          /\ <<flag, value>>[2] = value /\ 1 + 1 = 2
      OBVIOUS
    <3>3. Gives(<<flag, value>>, spellings, value)
      BY <1>4, <3>1, <3>2 DEF Gives
    <3> QED
      BY <3>1, <3>3
  <2> QED
    BY <2>1, <2>2, <2>3
<1>6. Gives(Rendered(schema, settings, isVllm), spellings, value)
  BY <1>5, RenderedSettings
<1>7. ASSUME ~IsDefault(arg, value) PROVE Names(Rendered(schema, settings, isVllm), spellings)
  <2> DEFINE s == <<dest, value>>
  <2>1. s \in ToSet(settings) /\ s[1] = dest
    OBVIOUS
  <2> HIDE DEF s
  <2>2. Shown(schema, s, isVllm) = <<flag, value>>
    BY <1>3, <1>7, <2>1
  <2>3. flag \in ToSet(Shown(schema, s, isVllm))
    BY <2>2 DEF ToSet
  <2>4. flag \in ToSet(Rendered(schema, settings, isVllm))
    BY <2>1, <2>3, RenderedSettings
  <2> QED
    BY <1>4, <2>4 DEF Names
<1>8. ASSUME IsDefault(arg, value), Names(Rendered(schema, settings, isVllm), spellings)
      PROVE  FALSE
  <2>1. PICK t \in ToSet(Rendered(schema, settings, isVllm)) : t.says \in spellings
    BY <1>8 DEF Names
  <2>2. PICK s \in ToSet(settings) : t \in ToSet(Shown(schema, s, isVllm))
    BY <2>1, RenderedSettings
  <2>3. CASE s[1] # dest
    BY <1>2, <2>1, <2>2, <2>3 DEF Names
  <2>4. CASE s[1] = dest
    BY <1>3, <1>8, <2>2, <2>4 DEF ToSet
  <2> QED
    BY <2>3, <2>4
<1> QED
  BY <1>6, <1>7, <1>8

-----------------------------------------------------------------------------
(* The command of a form.                                                  *)

\* What is left of the settings is what the launcher does not own.
LEMMA WithoutHolds ==
    ASSUME NEW settings \in Seq(Settled), NEW dests
    PROVE  ToSet(Without(settings, dests)) = {s \in ToSet(settings) : s[1] \notin dests}
<1> DEFINE seqs == [i \in DOMAIN settings |->
                       IF settings[i][1] \in dests THEN <<>> ELSE <<settings[i]>>]
<1>1. DOMAIN settings = 1..Len(settings) /\ Len(settings) \in Nat
      /\ \A i \in DOMAIN settings : settings[i] \in Settled
  OBVIOUS
<1>2. \A i \in DOMAIN settings :
         /\ seqs[i] \in Seq(Settled)
         /\ ToSet(seqs[i]) = IF settings[i][1] \in dests THEN {} ELSE {settings[i]}
  BY <1>1 DEF ToSet
<1>3. seqs \in Seq(Seq(Settled)) /\ DOMAIN seqs = DOMAIN settings
  <2>1. seqs \in [1..Len(settings) -> Seq(Settled)]
    BY <1>1, <1>2
  <2> QED
    BY <1>1, <2>1
<1>4. Without(settings, dests) = FlattenSeq(seqs)
  BY DEF Without
<1> HIDE DEF seqs
<1>5. ToSet(FlattenSeq(seqs)) = UNION {ToSet(seqs[i]) : i \in DOMAIN seqs}
  BY <1>3, FlattenHolds
<1>6. ASSUME NEW s \in ToSet(FlattenSeq(seqs)) PROVE s \in ToSet(settings) /\ s[1] \notin dests
  <2>1. PICK i \in DOMAIN settings : s \in ToSet(seqs[i])
    BY <1>3, <1>5
  <2> QED
    BY <1>2, <2>1 DEF ToSet
<1>7. ASSUME NEW s \in ToSet(settings), s[1] \notin dests PROVE s \in ToSet(FlattenSeq(seqs))
  <2>1. PICK i \in DOMAIN settings : s = settings[i]
    BY DEF ToSet
  <2>2. s \in ToSet(seqs[i])
    BY <1>2, <1>7, <2>1
  <2> QED
    BY <1>3, <1>5, <2>2
<1> QED
  BY <1>4, <1>6, <1>7

\* The settings of a command: the row's, and the name it gives its model.
Naming(isVllm) == IF isVllm THEN "served_model_name" ELSE "alias"
\* The two together, the name where there is one and the row sets none.
AllSettings(isVllm, settings, named) ==
    LET dest == IF isVllm THEN "served_model_name" ELSE "alias"
        named_too == IF named # Blank /\ Setting(settings, dest, Blank) = Blank
                     THEN <<<<dest, named>>>> ELSE <<>>
        others == IF named_too = <<>> THEN settings ELSE Without(settings, {dest})
    IN  others \o named_too

\* They are settings again, and what the command is rendered from.
LEMMA CommandSettings ==
    ASSUME NEW isVllm \in BOOLEAN, NEW settings \in Seq(Settled), NEW named \in Token(Words)
    PROVE  LET all == AllSettings(isVllm, settings, named)
           IN  /\ all \in Seq(Settled)
               /\ \A s \in ToSet(all) : s \in ToSet(settings) \/ s = <<Naming(isVllm), named>>
               /\ \A s \in ToSet(settings) : s[1] # Naming(isVllm) => s \in ToSet(all)
               /\ \A model, port :
                    BuildCommand(isVllm, model, settings, named, port)
                      = IF isVllm THEN VllmArgv(model, all, port) ELSE LlamaArgv(model, all, port)
<1> DEFINE dest == Naming(isVllm)
           named_too == IF named # Blank /\ Setting(settings, dest, Blank) = Blank
                        THEN <<<<dest, named>>>> ELSE <<>>
           others == IF named_too = <<>> THEN settings ELSE Without(settings, {dest})
<1>1. dest \in Words
  BY DEF Naming, Words
<1>2. AllSettings(isVllm, settings, named) = others \o named_too
  BY DEF AllSettings, Naming
<1>3. \A model, port :
         BuildCommand(isVllm, model, settings, named, port)
           = IF isVllm THEN VllmArgv(model, others \o named_too, port)
                       ELSE LlamaArgv(model, others \o named_too, port)
  BY DEF BuildCommand, Naming
<1> HIDE DEF dest
<1>4. named_too \in Seq(Settled) /\ ToSet(named_too) \subseteq {<<dest, named>>}
  <2>1. <<dest, named>> \in Settled
    BY <1>1 DEF Settled
  <2>2. <<<<dest, named>>>> \in Seq(Settled) /\ <<>> \in Seq(Settled)
    BY <2>1
  <2>3. ToSet(<<<<dest, named>>>>) = {<<dest, named>>} /\ ToSet(<<>>) = {}
    BY DEF ToSet
  <2> QED
    BY <2>2, <2>3
<1>5. /\ others \in Seq(Settled) /\ ToSet(others) \subseteq ToSet(settings)
      /\ \A s \in ToSet(settings) : s[1] # dest => s \in ToSet(others)
  BY WithoutTyped, WithoutHolds
<1> HIDE DEF named_too, others
<1>6. others \o named_too \in Seq(Settled)
      /\ ToSet(others \o named_too) = ToSet(others) \cup ToSet(named_too)
  BY <1>4, <1>5, Elements
<1> QED
  BY <1>2, <1>3, <1>4, <1>5, <1>6 DEF dest

\* The schemas, flag by flag.
LEMMA VllmTable ==
    /\ DOMAIN VllmFlags = {"gpu_memory_utilization", "kv_cache_memory_bytes", "cpu_offload_gb",
                           "tensor_parallel_size", "served_model_name", "enable_auto_tool_choice",
                           "master_port", "tool_call_parser"}
    /\ VllmFlags["gpu_memory_utilization"].flags[1] = "--gpu-memory-utilization"
    /\ VllmFlags["kv_cache_memory_bytes"].flags[1] = "--kv-cache-memory-bytes"
    /\ VllmFlags["cpu_offload_gb"].flags[1] = "--cpu-offload-gb"
    /\ VllmFlags["tensor_parallel_size"].flags[1] = "--tensor-parallel-size"
    /\ VllmFlags["served_model_name"].flags[1] = "--served-model-name"
    /\ VllmFlags["enable_auto_tool_choice"].flags[1] = "--enable-auto-tool-choice"
    /\ VllmFlags["master_port"].flags[1] = "--master-port"
    /\ VllmFlags["tool_call_parser"].flags[1] = "--tool-call-parser"
    /\ \A e \in DOMAIN VllmFlags :
          \A t \in ToSet(VllmFlags[e].negative) : t = Word("--no-enable-auto-tool-choice")
    /\ VllmFlags["gpu_memory_utilization"].default = Number(DefaultUtil)
    /\ VllmFlags["kv_cache_memory_bytes"].default = Blank
    /\ VllmFlags["cpu_offload_gb"].default = Number(0)
    /\ VllmFlags["master_port"].default = Number(29501)
    /\ VllmFlags["gpu_memory_utilization"].widget = "float"
    /\ VllmFlags["kv_cache_memory_bytes"].widget = "str"
    /\ VllmFlags["cpu_offload_gb"].widget = "float"
    /\ VllmFlags["master_port"].widget = "int"
<1>1. \A e \in DOMAIN VllmFlags :
         VllmFlags[e].negative \in {<<>>, <<Word("--no-enable-auto-tool-choice")>>}
  BY DEF VllmFlags, Arg, Switch, OneOf
<1>2. ToSet(<<>>) = {} /\ \A t : ToSet(<<t>>) = {t}
  BY DEF ToSet
<1> QED
  BY <1>1, <1>2 DEF VllmFlags, Arg, Switch, OneOf

\* What the schema of llama.cpp says of the flags that memory depends on.
LEMMA LlamaTable ==
    /\ DOMAIN LlamaFlags = {"n_gpu_layers", "ctx_size", "cache_type_k", "cache_type_v",
                            "ubatch_size", "flash_attn", "mmproj", "parallel", "alias", "jinja",
                            "mlock", "lora"}
    /\ LlamaFlags["n_gpu_layers"].flags[1] = "--n-gpu-layers"
    /\ LlamaFlags["ctx_size"].flags[1] = "--ctx-size"
    /\ LlamaFlags["cache_type_k"].flags[1] = "--cache-type-k"
    /\ LlamaFlags["cache_type_v"].flags[1] = "--cache-type-v"
    /\ LlamaFlags["ubatch_size"].flags[1] = "--ubatch-size"
    /\ LlamaFlags["flash_attn"].flags[1] = "--flash-attn"
    /\ LlamaFlags["mmproj"].flags[1] = "--mmproj"
    /\ LlamaFlags["parallel"].flags[1] = "--parallel"
    /\ LlamaFlags["alias"].flags[1] = "--alias"
    /\ LlamaFlags["jinja"].flags[1] = "--jinja"
    /\ LlamaFlags["mlock"].flags[1] = "--mlock"
    /\ LlamaFlags["lora"].flags[1] = "--lora"
    /\ \A e \in DOMAIN LlamaFlags : \A t \in ToSet(LlamaFlags[e].negative) : t = Word("--no-jinja")
    /\ LlamaFlags["n_gpu_layers"].default = Word("auto")
    /\ LlamaFlags["ctx_size"].default = Number(0)
    /\ LlamaFlags["cache_type_k"].default = Word("f16")
    /\ LlamaFlags["cache_type_v"].default = Word("f16")
    /\ LlamaFlags["ubatch_size"].default = Number(DefaultUbatch)
    /\ LlamaFlags["flash_attn"].default = Word("auto")
    /\ LlamaFlags["n_gpu_layers"].widget = "size"
    /\ LlamaFlags["ctx_size"].widget = "int"
    /\ LlamaFlags["cache_type_k"].widget = "enum"
    /\ LlamaFlags["cache_type_v"].widget = "enum"
    /\ LlamaFlags["ubatch_size"].widget = "int"
    /\ LlamaFlags["flash_attn"].widget = "enum"
    /\ LlamaFlags["cache_type_k"].choices = CacheTypes
    /\ LlamaFlags["cache_type_v"].choices = CacheTypes
    /\ LlamaFlags["flash_attn"].choices = {"on", "off", "auto"}
<1>1. \A e \in DOMAIN LlamaFlags : LlamaFlags[e].negative \in {<<>>, <<Word("--no-jinja")>>}
  BY DEF LlamaFlags, Arg, Switch, OneOf
<1>2. ToSet(<<>>) = {} /\ \A t : ToSet(<<t>>) = {t}
  BY DEF ToSet
<1>3. /\ DOMAIN LlamaFlags = {"n_gpu_layers", "ctx_size", "cache_type_k", "cache_type_v",
                               "ubatch_size", "flash_attn", "mmproj", "parallel", "alias", "jinja",
                               "mlock", "lora"}
  BY DEF LlamaFlags
<1>4. /\ LlamaFlags["n_gpu_layers"].flags[1] = "--n-gpu-layers"
      /\ LlamaFlags["ctx_size"].flags[1] = "--ctx-size"
      /\ LlamaFlags["cache_type_k"].flags[1] = "--cache-type-k"
      /\ LlamaFlags["cache_type_v"].flags[1] = "--cache-type-v"
      /\ LlamaFlags["ubatch_size"].flags[1] = "--ubatch-size"
      /\ LlamaFlags["flash_attn"].flags[1] = "--flash-attn"
  BY DEF LlamaFlags, Arg, Switch, OneOf
<1>5. /\ LlamaFlags["mmproj"].flags[1] = "--mmproj"
      /\ LlamaFlags["parallel"].flags[1] = "--parallel"
      /\ LlamaFlags["alias"].flags[1] = "--alias"
      /\ LlamaFlags["jinja"].flags[1] = "--jinja"
      /\ LlamaFlags["mlock"].flags[1] = "--mlock"
      /\ LlamaFlags["lora"].flags[1] = "--lora"
  BY DEF LlamaFlags, Arg, Switch, OneOf
<1>6. /\ LlamaFlags["n_gpu_layers"].default = Word("auto")
      /\ LlamaFlags["ctx_size"].default = Number(0)
      /\ LlamaFlags["cache_type_k"].default = Word("f16")
      /\ LlamaFlags["cache_type_v"].default = Word("f16")
      /\ LlamaFlags["ubatch_size"].default = Number(DefaultUbatch)
      /\ LlamaFlags["flash_attn"].default = Word("auto")
  BY DEF LlamaFlags, Arg, Switch, OneOf
<1>7. /\ LlamaFlags["n_gpu_layers"].widget = "size"
      /\ LlamaFlags["ctx_size"].widget = "int"
      /\ LlamaFlags["cache_type_k"].widget = "enum"
      /\ LlamaFlags["cache_type_v"].widget = "enum"
      /\ LlamaFlags["ubatch_size"].widget = "int"
      /\ LlamaFlags["flash_attn"].widget = "enum"
  BY DEF LlamaFlags, Arg, Switch, OneOf
<1>8. /\ LlamaFlags["cache_type_k"].choices = CacheTypes
      /\ LlamaFlags["cache_type_v"].choices = CacheTypes
      /\ LlamaFlags["flash_attn"].choices = {"on", "off", "auto"}
  BY DEF LlamaFlags, Arg, Switch, OneOf
<1>9. /\ \A e \in DOMAIN LlamaFlags : \A t \in ToSet(LlamaFlags[e].negative) : t = Word("--no-jinja")
  BY <1>1, <1>2
<1> QED
  BY <1>3, <1>4, <1>5, <1>6, <1>7, <1>8, <1>9

\* What is spelled.
LEMMA SpelledFlags ==
    /\ {"--gpu-memory-utilization", "--kv-cache-memory-bytes", "--kv-cache-memory",
        "--cpu-offload-gb", "--master-port"} \subseteq Spelled
    /\ {"-ngl", "--gpu-layers", "--n-gpu-layers", "-c", "--ctx-size", "-ctk", "--cache-type-k",
        "-ctv", "--cache-type-v", "-ub", "--ubatch-size", "-fa", "--flash-attn"} \subseteq Spelled
    /\ {"-m", "--model", "-hf", "-hfr", "--hf-repo", "--host", "--port"} \subseteq Spelled
    /\ \A e \in DOMAIN VllmFlags : ToSet(VllmFlags[e].flags) \subseteq Spelled
    /\ \A w \in {"", "all", "/outputs", "on", "off", "auto", "vllm", "serve", "llama-server"}
               \cup CacheTypes : w \notin Spelled
<1>1. /\ \A a : ToSet(<<a>>) = {a}
      /\ \A a, b : ToSet(<<a, b>>) = {a, b}
      /\ \A a, b, c : ToSet(<<a, b, c>>) = {a, b, c}
  BY DEF ToSet
<1>2. UNION {ToSet(VllmFlags[dest].flags) : dest \in DOMAIN VllmFlags}
        = {"--gpu-memory-utilization", "--kv-cache-memory-bytes", "--cpu-offload-gb",
           "--tensor-parallel-size", "-tp", "--served-model-name", "--enable-auto-tool-choice",
           "--master-port", "--tool-call-parser"}
  BY <1>1 DEF VllmFlags, Arg, Switch, OneOf
<1>3. UNION {ToSet(LlamaFlags[dest].flags) : dest \in DOMAIN LlamaFlags}
        = {"--n-gpu-layers", "-ngl", "--gpu-layers", "--ctx-size", "-c", "--cache-type-k", "-ctk",
           "--cache-type-v", "-ctv", "--ubatch-size", "-ub", "--flash-attn", "-fa", "--mmproj",
           "-mm", "--parallel", "-np", "--alias", "-a", "--jinja", "--mlock", "--lora"}
  BY <1>1 DEF LlamaFlags, Arg, Switch, OneOf
<1> DEFINE vllm == {"--gpu-memory-utilization", "--kv-cache-memory-bytes", "--cpu-offload-gb",
                       "--tensor-parallel-size", "-tp", "--served-model-name",
                       "--enable-auto-tool-choice", "--master-port", "--tool-call-parser"}
           llama == {"--n-gpu-layers", "-ngl", "--gpu-layers", "--ctx-size", "-c", "--cache-type-k",
                     "-ctk", "--cache-type-v", "-ctv", "--ubatch-size", "-ub", "--flash-attn",
                     "-fa", "--mmproj", "-mm", "--parallel", "-np", "--alias", "-a", "--jinja",
                     "--mlock", "--lora"}
           rest == {"--host", "--port", "--kv-cache-memory", "-m", "--model", "-hf", "-hfr",
                    "--hf-repo"}
<1>4. Spelled = vllm \cup llama \cup rest
  <2> DEFINE mine == UNION {ToSet(VllmFlags[dest].flags) : dest \in DOMAIN VllmFlags}
             theirs == UNION {ToSet(LlamaFlags[dest].flags) : dest \in DOMAIN LlamaFlags}
  <2>1. mine = vllm /\ theirs = llama
    BY <1>2, <1>3
  <2>2. Spelled = mine \cup theirs \cup rest
    BY DEF Spelled
  <2> HIDE DEF vllm, llama, rest, mine, theirs
  <2> QED
    BY <2>1, <2>2
<1>5. /\ {"--gpu-memory-utilization", "--kv-cache-memory-bytes", "--cpu-offload-gb",
          "--master-port"} \subseteq vllm
      /\ {"-m", "--model", "-hf", "-hfr", "--hf-repo", "--host", "--port", "--kv-cache-memory"}
           \subseteq rest
  OBVIOUS
<1>6. {"-ngl", "--gpu-layers", "--n-gpu-layers", "-c", "--ctx-size", "-ctk", "--cache-type-k",
       "-ctv", "--cache-type-v", "-ub", "--ubatch-size", "-fa", "--flash-attn"} \subseteq llama
  OBVIOUS
<1>7. \A e \in DOMAIN VllmFlags : ToSet(VllmFlags[e].flags) \subseteq vllm
  BY <1>2
<1> DEFINE words == {"", "all", "/outputs", "on", "off", "auto", "vllm", "serve", "llama-server"}
                       \cup CacheTypes
<1>8. words \cap vllm = {}
  BY DEF CacheTypes
<1>9. words \cap llama = {}
  BY DEF CacheTypes
<1>10. words \cap rest = {}
  BY DEF CacheTypes
<1> HIDE DEF vllm, llama, rest
<1>11. \A w \in words : w \notin Spelled
  BY <1>4, <1>8, <1>9, <1>10
<1> HIDE DEF words
<1>12. words = {"", "all", "/outputs", "on", "off", "auto", "vllm", "serve", "llama-server"}
                  \cup CacheTypes
  BY DEF words
<1> QED
  BY <1>4, <1>5, <1>6, <1>7, <1>11, <1>12

\* What is quiet runs no program as a line.
Tame(t) == t.says = "'" \/ \A u \in ToSet(t.line) : u.says \notin {"vllm", "llama-server"}

\* A word or a number is no line.
LEMMA WordsAreTame ==
    /\ \A t : t.line = <<>> => Tame(t)
    /\ \A w : Word(w).line = <<>> /\ \A n : Number(n).line = <<>>
    /\ Blank.line = <<>> /\ Blank.says = "" /\ \A n : Number(n).says = "" /\ Number(n).number = <<n>>
    /\ \A n : Number(n) # Blank /\ \A w : Number(n) # Word(w)
<1>1. ToSet(<<>>) = {}
  BY DEF ToSet
<1>2. /\ \A w : Word(w).line = <<>> /\ \A n : Number(n).line = <<>>
      /\ Blank.line = <<>> /\ Blank.says = ""
      /\ \A n : Number(n).says = "" /\ Number(n).number = <<n>>
      /\ \A w : Word(w).number = <<>> /\ Blank.number = <<>>
  BY DEF Word, Number, Blank
<1>3. \A n : Number(n) # Blank /\ \A w : Number(n) # Word(w)
  <2>1. \A n : <<n>> # <<>>
    OBVIOUS
  <2> QED
    BY <1>2, <2>1
<1> QED
  BY <1>1, <1>2, <1>3 DEF Tame

\* Where no line runs a program, a command is taken as it is.
LEMMA WholeCommand ==
    ASSUME NEW command \in Seq(Token(Words)), NEW program,
           1 \in DOMAIN program, program[1] \in {"vllm", "llama-server"},
           \A t \in ToSet(command) : Tame(t)
    PROVE  ArgvOf(command, program) = command
<1> DEFINE starts(line) == {j \in DOMAIN line : Runs(line, j, program)}
           lines == {i \in DOMAIN command : command[i].says # "'" /\ starts(command[i].line) # {}}
<1>1. lines = {}
  <2> SUFFICES ASSUME NEW i \in DOMAIN command, command[i].says # "'",
                      NEW j \in DOMAIN command[i].line, Runs(command[i].line, j, program)
               PROVE  FALSE
    OBVIOUS
  <2>1. command[i] \in Token(Words) /\ Tame(command[i])
    BY DEF ToSet
  <2> DEFINE line == command[i].line
  <2>2. line \in Seq(Flagged(Words))
    BY <2>1 DEF Token
  <2>3. line[j].says \notin {"vllm", "llama-server"}
    BY <2>1 DEF Tame, ToSet
  <2>4. j + 1 - 1 = j
    BY <2>2
  <2> HIDE DEF line
  <2>5. line[j + 1 - 1].says = program[1]
    BY DEF Runs, line
  <2> QED
    BY <2>3, <2>4, <2>5
<1> QED
  BY <1>1 DEF ArgvOf

\* Nor does one run where the settings are rendered.
LEMMA RenderedTame ==
    ASSUME NEW isVllm \in BOOLEAN, NEW settings \in Seq(Settled),
           \A s \in ToSet(settings) : Tame(s[2])
    PROVE  \A t \in ToSet(Rendered(IF isVllm THEN VllmFlags ELSE LlamaFlags, settings, isVllm)) :
              Tame(t)
<1> DEFINE schema == IF isVllm THEN VllmFlags ELSE LlamaFlags
<1>1. Speaks(schema)
  BY SchemasSpeak
<1>2. \A e \in DOMAIN schema : \A t \in ToSet(schema[e].negative) : t.line = <<>>
  <2>1. \A t : t = Word("--no-enable-auto-tool-choice") \/ t = Word("--no-jinja")
               => t.line = <<>>
    BY WordsAreTame
  <2>2. \A e \in DOMAIN VllmFlags :
           \A t \in ToSet(VllmFlags[e].negative) : t = Word("--no-enable-auto-tool-choice")
    BY VllmTable
  <2>3. \A e \in DOMAIN LlamaFlags : \A t \in ToSet(LlamaFlags[e].negative) : t = Word("--no-jinja")
    BY LlamaTable
  <2>4. CASE isVllm
    BY <2>1, <2>2, <2>4
  <2>5. CASE ~isVllm
    BY <2>1, <2>3, <2>5
  <2> QED
    BY <2>4, <2>5
<1> HIDE DEF schema
<1> SUFFICES ASSUME NEW t \in ToSet(Rendered(schema, settings, isVllm)) PROVE Tame(t)
  BY DEF schema
<1>3. PICK s \in ToSet(settings) : t \in ToSet(Shown(schema, s, isVllm))
  BY <1>1, RenderedSettings
<1>4. s \in Settled
  <2>1. \A i \in DOMAIN settings : settings[i] \in Settled
    OBVIOUS
  <2> QED
    BY <2>1 DEF ToSet
<1>5. /\ s[1] \in DOMAIN schema
      /\ \/ t = Word(schema[s[1]].flags[1])
         \/ t \in ToSet(schema[s[1]].negative)
         \/ t \in {s[2]} \cup ToSet(s[2].line)
  BY <1>1, <1>3, <1>4, ShownTokens
<1>6. CASE t = Word(schema[s[1]].flags[1])
  BY <1>6, WordsAreTame
<1>7. CASE t \in ToSet(schema[s[1]].negative)
  BY <1>2, <1>5, <1>7, WordsAreTame
<1>8. CASE t = s[2]
  BY <1>8
<1>9. CASE t \in ToSet(s[2].line)
  <2>1. s[2].line \in Seq(Flagged(Words))
    BY <1>4 DEF Settled, Token
  <2>2. \A i \in DOMAIN s[2].line : s[2].line[i] \in Flagged(Words)
    BY <2>1
  <2>3. t.line = <<>>
    BY <1>9, <2>2 DEF ToSet, Flagged
  <2> QED
    BY <2>3, WordsAreTame
<1> QED
  BY <1>5, <1>6, <1>7, <1>8, <1>9

\* A setting is there, and set once.
Sets(settings, dest, value) ==
    <<dest, value>> \in ToSet(settings) /\ \A s \in ToSet(settings) : s[1] = dest => s[2] = value

\* What a valid row gives the caches and flash attention.
LEMMA SavedWords ==
    ASSUME NEW flags, ~Vllm, asked \in Questions, Fits(flags), Saved(flags)
    PROVE  /\ flags.k \in CacheTypes \cup {""} /\ flags.v \in CacheTypes \cup {""}
           /\ flags.flash \in {"on", "off", "auto", ""}
<1> DEFINE form == Form(flags)
<1>1. /\ asked.others \in Seq(Settled) /\ Sizes(flags) \in Seq(Settled)
      /\ form = asked.others \o Sizes(flags)
  BY FormTyped
<1>2. /\ <<"cache_type_k", Word(flags.k)>> \in ToSet(form)
      /\ <<"cache_type_v", Word(flags.v)>> \in ToSet(form)
      /\ <<"flash_attn", Word(flags.flash)>> \in ToSet(form)
  <2>1. /\ <<"cache_type_k", Word(flags.k)>> \in ToSet(Sizes(flags))
        /\ <<"cache_type_v", Word(flags.v)>> \in ToSet(Sizes(flags))
        /\ <<"flash_attn", Word(flags.flash)>> \in ToSet(Sizes(flags))
    BY DEF Sizes, ToSet
  <2> QED
    BY <1>1, <2>1, Elements
<1>3. KnownAndAcceptable(LlamaFlags, form, FALSE)
  BY DEF Saved, LlamaValid
<1> HIDE DEF form
<1>4. \A s \in ToSet(form) : s[2] # Blank => Acceptable(LlamaFlags[s[1]], s[2], FALSE)
  BY <1>3 DEF KnownAndAcceptable, ToSet
<1>5. ASSUME NEW dest \in {"cache_type_k", "cache_type_v", "flash_attn"}, NEW w,
             <<dest, Word(w)>> \in ToSet(form), w # ""
      PROVE  w \in LlamaFlags[dest].choices
  <2>1. Word(w) # Blank /\ Word(w).says = w
    BY <1>5, WordsAreTame, Said
  <2>2. Acceptable(LlamaFlags[dest], Word(w), FALSE)
    BY <1>4, <1>5, <2>1
  <2>3. LlamaFlags[dest].widget = "enum"
    BY LlamaTable
  <2> QED
    BY <2>1, <2>2, <2>3 DEF Acceptable
<1> QED
  BY <1>2, <1>5, LlamaTable

\* What the form sets for memory it sets once, and to nothing that would be taken
\* for a flag.
LEMMA SizesAreQuiet ==
    ASSUME asked \in Questions, NEW flags, Fits(flags), ~Vllm => Saved(flags)
    PROVE  \A s \in ToSet(Sizes(flags)) :
              /\ Quiet(s[2]) /\ s[1] \in ForMemory
              /\ \A t \in ToSet(Sizes(flags)) : s[1] = t[1] => s[2] = t[2]
<1>1. \A t : t.line = <<>> /\ t.says \notin Spelled /\ t.says \notin {"vllm", "llama-server"} => Quiet(t)
  <2>1. ToSet(<<>>) = {}
    BY DEF ToSet
  <2> QED
    BY <2>1 DEF Quiet
<1>2. \A w \in {"", "all", "/outputs", "on", "off", "auto"} \cup CacheTypes : w \notin Spelled
  BY SpelledFlags
<1>3. \A w \in {"", "all", "/outputs", "on", "off", "auto"} \cup CacheTypes :
         w \notin {"vllm", "llama-server"}
  BY DEF CacheTypes
<1>4. /\ \A w \in {"", "all", "/outputs", "on", "off", "auto"} \cup CacheTypes : Quiet(Word(w))
      /\ \A n : Quiet(Number(n))
      /\ Quiet(Blank)
  <2>1. "" \in {"", "all", "/outputs", "on", "off", "auto"} \cup CacheTypes
    OBVIOUS
  <2> DEFINE W == {"", "all", "/outputs", "on", "off", "auto"} \cup CacheTypes
  <2>2. "" \in W /\ \A w \in W : w \notin Spelled /\ w \notin {"vllm", "llama-server"}
    BY <1>2, <1>3, <2>1
  <2> HIDE DEF W
  <2>3. \A w \in W : Quiet(Word(w))
    BY <1>1, <2>2, Said, WordsAreTame
  <2>4. (\A n : Quiet(Number(n))) /\ Quiet(Blank)
    BY <1>1, <2>2, WordsAreTame
  <2> QED
    BY <2>3, <2>4 DEF W
<1>5. \A u, n : Quiet(Unless(u, n))
  BY <1>4 DEF Unless
<1>6. CASE Vllm
  <2> DEFINE util == Unless(NoUtil, flags.util)
             kv == Unless(0, flags.kv)
             offload == Number(flags.offload)
             parallel == Number(flags.parallel)
  <2>1. Quiet(util) /\ Quiet(kv) /\ Quiet(offload) /\ Quiet(parallel)
    BY <1>4, <1>5
  <2>2. ToSet(Sizes(flags)) = {<<"gpu_memory_utilization", util>>, <<"kv_cache_memory_bytes", kv>>,
                               <<"cpu_offload_gb", offload>>, <<"tensor_parallel_size", parallel>>}
    BY <1>6 DEF Sizes, ToSet
  <2> HIDE DEF util, kv, offload, parallel
  <2> QED
    BY <2>1, <2>2 DEF ForMemory
<1>7. CASE ~Vllm
  <2> DEFINE layers == IF flags.layers = Every THEN Word("all") ELSE Number(flags.layers)
             ctx == Number(flags.ctx)
             k == Word(flags.k)
             v == Word(flags.v)
             ubatch == Unless(0, flags.ubatch)
             flash == Word(flags.flash)
             projector == IF flags.companions = 0 THEN Blank ELSE Word("/outputs")
  <2>1. /\ flags.k \in CacheTypes \cup {""} /\ flags.v \in CacheTypes \cup {""}
        /\ flags.flash \in {"on", "off", "auto", ""}
    BY <1>7, SavedWords
  <2>2. /\ Quiet(layers) /\ Quiet(ctx) /\ Quiet(k) /\ Quiet(v) /\ Quiet(ubatch) /\ Quiet(flash)
        /\ Quiet(projector)
    BY <1>4, <1>5, <2>1
  <2>3. ToSet(Sizes(flags))
          = {<<"n_gpu_layers", layers>>, <<"ctx_size", ctx>>, <<"cache_type_k", k>>,
             <<"cache_type_v", v>>, <<"ubatch_size", ubatch>>, <<"flash_attn", flash>>,
             <<"mmproj", projector>>}
    <3> DEFINE mine == <<<<"n_gpu_layers", layers>>, <<"ctx_size", ctx>>, <<"cache_type_k", k>>,
                         <<"cache_type_v", v>>, <<"ubatch_size", ubatch>>, <<"flash_attn", flash>>,
                         <<"mmproj", projector>>>>
    <3>1. Sizes(flags) = mine
      BY <1>7 DEF Sizes
    <3> HIDE DEF layers, ctx, k, v, ubatch, flash, projector
    <3> QED
      BY <3>1 DEF ToSet
  <2> HIDE DEF layers, ctx, k, v, ubatch, flash, projector
  <2> QED
    BY <2>2, <2>3 DEF ForMemory
<1> QED
  BY <1>6, <1>7

\* Nor does it set anything else to such a thing; what is set for memory is set
\* there alone.
LEMMA FormIsQuiet ==
    ASSUME asked \in Questions, Ordinary(asked), NEW flags, Fits(flags), ~Vllm => Saved(flags)
    PROVE  /\ \A s \in ToSet(Form(flags)) :
                /\ Quiet(s[2])
                /\ Len(asked.at) = 1 => s[1] # "master_port"
                /\ \A t \in ToSet(Sizes(flags)) : s[1] = t[1] => s[2] = t[2]
           /\ ToSet(Sizes(flags)) \subseteq ToSet(Form(flags))
<1>1. ToSet(Form(flags)) = ToSet(asked.others) \cup ToSet(Sizes(flags))
  <2>1. /\ asked.others \in Seq(Settled) /\ Sizes(flags) \in Seq(Settled)
        /\ Form(flags) = asked.others \o Sizes(flags)
    BY FormTyped
  <2> QED
    BY <2>1, Elements
<1>2. \A t \in ToSet(Sizes(flags)) : t[1] \in ForMemory /\ t[1] # "master_port"
  BY SizesAreQuiet DEF ForMemory
<1>3. ASSUME NEW s \in ToSet(asked.others)
      PROVE  /\ Quiet(s[2]) /\ s[1] \notin ForMemory
             /\ Len(asked.at) = 1 => s[1] # "master_port"
  BY DEF Ordinary
<1> QED
  BY <1>1, <1>2, <1>3, SizesAreQuiet

\* The settings of a command that are taken from a form, all or but the flags
\* of a rank, with the name of the model.
LEMMA CommandIsQuiet ==
    ASSUME asked \in Questions, Ordinary(asked), NEW flags, Fits(flags), ~Vllm => Saved(flags),
           NEW settings \in {Form(flags), Settings(Form(flags))}
    PROVE  LET all == AllSettings(Vllm, settings, asked.named)
           IN  /\ settings \in Seq(Settled) /\ all \in Seq(Settled)
               /\ \A s \in ToSet(all) : Quiet(s[2]) /\ (Len(asked.at) = 1 => s[1] # "master_port")
               /\ \A s \in ToSet(Sizes(flags)) : Sets(all, s[1], s[2])
               /\ \A model, port :
                    BuildCommand(Vllm, model, settings, asked.named, port)
                      = IF Vllm THEN VllmArgv(model, all, port) ELSE LlamaArgv(model, all, port)
<1> DEFINE form == Form(flags)
           all == AllSettings(Vllm, settings, asked.named)
<1>1. form \in Seq(Settled) /\ settings \in Seq(Settled)
  BY FormTyped, WithoutTyped DEF Settings
<1>2. \A s \in ToSet(Sizes(flags)) : s[1] \in ForMemory
  BY SizesAreQuiet
<1>3. /\ ToSet(settings) \subseteq ToSet(form)
      /\ \A s \in ToSet(form) : s[1] \in ForMemory => s \in ToSet(settings)
  <2>1. ToSet(Settings(form)) = {s \in ToSet(form) : s[1] \notin Owned}
    BY <1>1, WithoutHolds DEF Settings
  <2>2. ForMemory \cap Owned = {}
    BY DEF ForMemory, Owned
  <2> QED
    BY <2>1, <2>2
<1>4. asked.named \in Token(Words) /\ Quiet(asked.named) /\ Vllm \in BOOLEAN
  <2>1. Token(STRING) \subseteq Token(Words)
    BY TokensGrow DEF Words
  <2>2. asked.named \in Token(STRING)
    BY AdviceAssumption DEF IsForm
  <2>3. Quiet(asked.named)
    BY DEF Ordinary
  <2> QED
    BY <2>1, <2>2, <2>3 DEF Vllm
<1>5. /\ all \in Seq(Settled)
      /\ \A s \in ToSet(all) : s \in ToSet(settings) \/ s = <<Naming(Vllm), asked.named>>
      /\ \A s \in ToSet(settings) : s[1] # Naming(Vllm) => s \in ToSet(all)
      /\ \A model, port :
           BuildCommand(Vllm, model, settings, asked.named, port)
             = IF Vllm THEN VllmArgv(model, all, port) ELSE LlamaArgv(model, all, port)
  BY <1>1, <1>4, CommandSettings
<1>6. Naming(Vllm) \notin ForMemory /\ Naming(Vllm) # "master_port"
  BY DEF Naming, ForMemory
<1>7. <<Naming(Vllm), asked.named>>[1] = Naming(Vllm)
      /\ <<Naming(Vllm), asked.named>>[2] = asked.named
  OBVIOUS
<1> HIDE DEF all, form
<1>8. \A s \in ToSet(form) : /\ Quiet(s[2]) /\ (Len(asked.at) = 1 => s[1] # "master_port")
                             /\ \A t \in ToSet(Sizes(flags)) : s[1] = t[1] => s[2] = t[2]
  BY FormIsQuiet DEF form
<1>9. ToSet(Sizes(flags)) \subseteq ToSet(form)
  BY FormIsQuiet DEF form
<1>10. ASSUME NEW s \in ToSet(all)
       PROVE  Quiet(s[2]) /\ (Len(asked.at) = 1 => s[1] # "master_port")
  <2>1. CASE s \in ToSet(settings)
    BY <1>3, <1>8, <2>1
  <2>2. CASE s = <<Naming(Vllm), asked.named>>
    BY <1>4, <1>6, <1>7, <2>2
  <2> QED
    BY <1>5, <2>1, <2>2
<1>11. ASSUME NEW s \in ToSet(Sizes(flags)) PROVE Sets(all, s[1], s[2])
  <2>1. s[1] \in ForMemory /\ s \in ToSet(form)
    BY <1>2, <1>9
  <2>2. s \in ToSet(settings) /\ s[1] # Naming(Vllm)
    BY <1>3, <1>6, <2>1
  <2>3. s \in ToSet(all)
    BY <1>5, <2>2
  <2>4. ASSUME NEW t \in ToSet(all), t[1] = s[1] PROVE t[2] = s[2]
    <3>1. t \in ToSet(settings)
      BY <1>5, <1>7, <2>2, <2>4
    <3> QED
      BY <1>3, <1>8, <2>4, <3>1
  <2>5. s = <<s[1], s[2]>>
    <3>1. s \in Settled
      <4>1. \A i \in DOMAIN form : form[i] \in Settled
        BY <1>1
      <4> QED
        BY <2>1, <4>1 DEF ToSet
    <3> QED
      BY <3>1 DEF Settled
  <2> QED
    BY <2>3, <2>4, <2>5 DEF Sets
<1> QED
  BY <1>1, <1>5, <1>10, <1>11 DEF all

\* A command is read for a setting, whatever stands around the settings, as it
\* was set; a default is not there.
LEMMA SettingRead ==
    ASSUME NEW schema, Speaks(schema), NEW settings \in Seq(Settled), NEW isVllm,
           NEW dest \in DOMAIN schema \ Managed, NEW spellings, NEW value,
           spellings \subseteq Spelled, Only(schema, dest, spellings),
           schema[dest].flags[1] \in spellings, schema[dest].widget \notin {"bool", "list"},
           Sets(settings, dest, value), \A s \in ToSet(settings) : Quiet(s[2]),
           NEW a \in Seq(Token(Words)), NEW c \in Seq(Token(Words)),
           ~Names(a, spellings), ~Names(c, spellings)
    PROVE  FlagValue(a \o Rendered(schema, settings, isVllm) \o c, spellings)
             = IF IsDefault(schema[dest], value) THEN <<>> ELSE <<value>>
<1> DEFINE b == Rendered(schema, settings, isVllm)
<1>1. b \in Seq(Token(Words))
  BY RenderedTyped
<1>2. \A s \in ToSet(settings) : (s[1] = dest => s[2] = value) /\ Silent(s, spellings)
  BY DEF Sets, Quiet, Silent
<1>3. <<dest, value>> \in ToSet(settings)
  BY DEF Sets
<1>4. Gives(b, spellings, value) /\ (Names(b, spellings) <=> ~IsDefault(schema[dest], value))
  BY <1>2, <1>3, RenderedValue
<1> HIDE DEF b
<1>5. FlagValue(a \o b \o c, spellings) = IF Names(b, spellings) THEN <<value>> ELSE <<>>
  BY <1>1, <1>4, ReadAmid
<1> QED
  BY <1>4, <1>5 DEF b

\* What is read where a flag is, and where it is not.
LEMMA SeenAs ==
    ASSUME NEW argv, NEW names, NEW unset
    PROVE  /\ FlagValue(argv, names) = <<>>
                => SeenNumber(argv, names, unset) = unset /\ SeenWord(argv, names, unset) = unset
           /\ \A v : FlagValue(argv, names) = <<v>> =>
                /\ SeenWord(argv, names, unset) = v.says
                /\ \A n : v.number = <<n>> => SeenNumber(argv, names, unset) = n
                /\ v.number = <<>> => SeenNumber(argv, names, unset) = unset
<1>1. \A v : <<v>> # <<>> /\ <<v>>[1] = v
  OBVIOUS
<1>2. Head(<<>> \o <<unset>>) = unset /\ \A n : Head(<<n>> \o <<unset>>) = n
  OBVIOUS
<1>3. ASSUME FlagValue(argv, names) = <<>>
      PROVE  SeenNumber(argv, names, unset) = unset /\ SeenWord(argv, names, unset) = unset
  BY <1>2, <1>3 DEF SeenNumber, SeenWord
<1>4. ASSUME NEW v, FlagValue(argv, names) = <<v>>
      PROVE  /\ SeenWord(argv, names, unset) = v.says
             /\ SeenNumber(argv, names, unset) = Head(v.number \o <<unset>>)
  BY <1>1, <1>4 DEF SeenNumber, SeenWord
<1> QED
  BY <1>2, <1>3, <1>4

\* The command of vLLM is read for what the form sets.
LEMMA VllmRead ==
    ASSUME NEW settings \in Seq(Settled), NEW flags \in Args, Vllm,
           \A s \in ToSet(settings) : Quiet(s[2]),
           \A s \in ToSet(Sizes(flags)) : Sets(settings, s[1], s[2]),
           NEW a \in Seq(Token(Words)), NEW c \in Seq(Token(Words)),
           \A t \in ToSet(a) \cup ToSet(c) :
              t.says \notin {"--gpu-memory-utilization", "--kv-cache-memory-bytes",
                             "--kv-cache-memory", "--cpu-offload-gb"}
    PROVE  LET params == VllmParams(a \o Rendered(VllmFlags, settings, TRUE) \o c)
           IN  /\ params.util = flags.util \/ (params.util = NoUtil /\ flags.util = DefaultUtil)
               /\ params.kv = flags.kv /\ params.offload = flags.offload /\ params.parallel = 1
<1> DEFINE isVllm == TRUE
           argv == a \o Rendered(VllmFlags, settings, isVllm) \o c
<1>1. /\ Speaks(VllmFlags)
      /\ \A e \in DOMAIN VllmFlags : \A t \in ToSet(VllmFlags[e].negative) :
            t.says = "--no-enable-auto-tool-choice"
  BY SchemasSpeak, VllmTable, Said
<1>2. /\ Sets(settings, "gpu_memory_utilization", Unless(NoUtil, flags.util))
      /\ Sets(settings, "kv_cache_memory_bytes", Unless(0, flags.kv))
      /\ Sets(settings, "cpu_offload_gb", Number(flags.offload))
  <2>1. /\ <<"gpu_memory_utilization", Unless(NoUtil, flags.util)>> \in ToSet(Sizes(flags))
        /\ <<"kv_cache_memory_bytes", Unless(0, flags.kv)>> \in ToSet(Sizes(flags))
        /\ <<"cpu_offload_gb", Number(flags.offload)>> \in ToSet(Sizes(flags))
    BY DEF Sizes, ToSet
  <2>2. \A x, y : <<x, y>>[1] = x /\ <<x, y>>[2] = y
    OBVIOUS
  <2> QED
    BY <2>1, <2>2
<1> HIDE DEF isVllm
<1>3. FlagValue(argv, {"--gpu-memory-utilization"})
        = IF Unless(NoUtil, flags.util) \in {Blank, Number(DefaultUtil)} THEN <<>>
          ELSE <<Unless(NoUtil, flags.util)>>
  <2> DEFINE S == {"--gpu-memory-utilization"}
             dest == "gpu_memory_utilization"
             value == Unless(NoUtil, flags.util)
  <2>1. dest \in DOMAIN VllmFlags \ Managed /\ S \subseteq Spelled /\ ~Names(a, S) /\ ~Names(c, S)
    <3>1. dest \in DOMAIN VllmFlags \ Managed
      BY VllmTable DEF Managed
    <3>2. S \subseteq Spelled
      BY SpelledFlags
    <3>3. ~Names(a, S) /\ ~Names(c, S)
      BY DEF Names
    <3> QED
      BY <3>1, <3>2, <3>3
  <2>2. Only(VllmFlags, dest, S) /\ VllmFlags[dest].flags[1] \in S
    BY <1>1, VllmTable DEF Only
  <2>3. VllmFlags[dest].widget \notin {"bool", "list"}
        /\ VllmFlags[dest].default = Number(DefaultUtil)
    BY VllmTable
  <2> HIDE DEF S, dest, value
  <2>4. Sets(settings, dest, value)
    BY <1>2 DEF dest, value
  <2>5. FlagValue(a \o Rendered(VllmFlags, settings, isVllm) \o c, S)
          = IF IsDefault(VllmFlags[dest], value) THEN <<>> ELSE <<value>>
    BY <1>1, <2>1, <2>2, <2>3, <2>4, SettingRead
  <2> QED
    BY <2>3, <2>5 DEF IsDefault, S, value
<1>4. FlagValue(argv, {"--kv-cache-memory-bytes", "--kv-cache-memory"})
        = IF Unless(0, flags.kv) = Blank THEN <<>> ELSE <<Unless(0, flags.kv)>>
  <2> DEFINE S == {"--kv-cache-memory-bytes", "--kv-cache-memory"}
             dest == "kv_cache_memory_bytes"
             value == Unless(0, flags.kv)
  <2>1. dest \in DOMAIN VllmFlags \ Managed /\ S \subseteq Spelled /\ ~Names(a, S) /\ ~Names(c, S)
    <3>1. dest \in DOMAIN VllmFlags \ Managed
      BY VllmTable DEF Managed
    <3>2. S \subseteq Spelled
      BY SpelledFlags
    <3>3. ~Names(a, S) /\ ~Names(c, S)
      BY DEF Names
    <3> QED
      BY <3>1, <3>2, <3>3
  <2>2. Only(VllmFlags, dest, S) /\ VllmFlags[dest].flags[1] \in S
    BY <1>1, VllmTable DEF Only
  <2>3. VllmFlags[dest].widget \notin {"bool", "list"} /\ VllmFlags[dest].default = Blank
    BY VllmTable
  <2> HIDE DEF S, dest, value
  <2>4. Sets(settings, dest, value)
    BY <1>2 DEF dest, value
  <2>5. FlagValue(a \o Rendered(VllmFlags, settings, isVllm) \o c, S)
          = IF IsDefault(VllmFlags[dest], value) THEN <<>> ELSE <<value>>
    BY <1>1, <2>1, <2>2, <2>3, <2>4, SettingRead
  <2> QED
    BY <2>3, <2>5 DEF IsDefault, S, value
<1>5. FlagValue(argv, {"--cpu-offload-gb"})
        = IF Number(flags.offload) \in {Blank, Number(0)} THEN <<>> ELSE <<Number(flags.offload)>>
  <2> DEFINE S == {"--cpu-offload-gb"}
             dest == "cpu_offload_gb"
             value == Number(flags.offload)
  <2>1. dest \in DOMAIN VllmFlags \ Managed /\ S \subseteq Spelled /\ ~Names(a, S) /\ ~Names(c, S)
    <3>1. dest \in DOMAIN VllmFlags \ Managed
      BY VllmTable DEF Managed
    <3>2. S \subseteq Spelled
      BY SpelledFlags
    <3>3. ~Names(a, S) /\ ~Names(c, S)
      BY DEF Names
    <3> QED
      BY <3>1, <3>2, <3>3
  <2>2. Only(VllmFlags, dest, S) /\ VllmFlags[dest].flags[1] \in S
    BY <1>1, VllmTable DEF Only
  <2>3. VllmFlags[dest].widget \notin {"bool", "list"} /\ VllmFlags[dest].default = Number(0)
    BY VllmTable
  <2> HIDE DEF S, dest, value
  <2>4. Sets(settings, dest, value)
    BY <1>2 DEF dest, value
  <2>5. FlagValue(a \o Rendered(VllmFlags, settings, isVllm) \o c, S)
          = IF IsDefault(VllmFlags[dest], value) THEN <<>> ELSE <<value>>
    BY <1>1, <2>1, <2>2, <2>3, <2>4, SettingRead
  <2> QED
    BY <2>3, <2>5 DEF IsDefault, S, value
<1> HIDE DEF argv
<1>6. \A m, n : Number(n) # Blank /\ Number(n).number = <<n>> /\ (Number(m) = Number(n) => m = n)
  <2>1. \A n : Number(n).number = <<n>> /\ Number(n) # Blank
    BY WordsAreTame
  <2>2. \A m, n : <<m>> = <<n>> => m = n
    OBVIOUS
  <2>3. \A m, n : Number(m) = Number(n) => <<m>> = <<n>>
    BY <2>1
  <2> QED
    BY <2>1, <2>2, <2>3
<1>7. VllmParams(argv).util = flags.util
        \/ (VllmParams(argv).util = NoUtil /\ flags.util = DefaultUtil)
  <2> DEFINE seen == SeenNumber(argv, {"--gpu-memory-utilization"}, NoUtil)
  <2>1. VllmParams(argv).util = seen
    BY DEF VllmParams
  <2>2. CASE flags.util = NoUtil
    <3>1. FlagValue(argv, {"--gpu-memory-utilization"}) = <<>>
      BY <1>3, <2>2 DEF Unless
    <3> QED
      BY <2>1, <2>2, <3>1, SeenAs
  <2>3. CASE flags.util # NoUtil /\ flags.util = DefaultUtil
    <3>1. FlagValue(argv, {"--gpu-memory-utilization"}) = <<>>
      BY <1>3, <2>3 DEF Unless
    <3> QED
      BY <2>1, <2>3, <3>1, SeenAs
  <2>4. CASE flags.util # NoUtil /\ flags.util # DefaultUtil
    <3>1. FlagValue(argv, {"--gpu-memory-utilization"}) = <<Number(flags.util)>>
      BY <1>3, <1>6, <2>4 DEF Unless
    <3>2. seen = flags.util
      BY <1>6, <3>1, SeenAs
    <3> QED
      BY <2>1, <3>2
  <2> QED
    BY <2>2, <2>3, <2>4
<1>8. VllmParams(argv).kv = flags.kv
  <2> DEFINE S == {"--kv-cache-memory-bytes", "--kv-cache-memory"}
             seen == SeenNumber(argv, S, 0)
  <2>1. VllmParams(argv).kv = seen
    BY DEF VllmParams
  <2>2. CASE flags.kv = 0
    <3>1. FlagValue(argv, S) = <<>>
      BY <1>4, <2>2 DEF Unless
    <3> QED
      BY <2>1, <2>2, <3>1, SeenAs
  <2>3. CASE flags.kv # 0
    <3>1. FlagValue(argv, S) = <<Number(flags.kv)>>
      BY <1>4, <1>6, <2>3 DEF Unless
    <3>2. seen = flags.kv
      BY <1>6, <3>1, SeenAs
    <3> QED
      BY <2>1, <3>2
  <2> QED
    BY <2>2, <2>3
<1>9. VllmParams(argv).offload = flags.offload
  <2> DEFINE seen == SeenNumber(argv, {"--cpu-offload-gb"}, 0)
  <2>1. VllmParams(argv).offload = seen
    BY DEF VllmParams
  <2>2. CASE flags.offload = 0
    <3>1. FlagValue(argv, {"--cpu-offload-gb"}) = <<>>
      BY <1>5, <2>2
    <3> QED
      BY <2>1, <2>2, <3>1, SeenAs
  <2>3. CASE flags.offload # 0
    <3>1. FlagValue(argv, {"--cpu-offload-gb"}) = <<Number(flags.offload)>>
      BY <1>5, <1>6, <2>3
    <3>2. seen = flags.offload
      BY <1>6, <3>1, SeenAs
    <3> QED
      BY <2>1, <3>2
  <2> QED
    BY <2>2, <2>3
<1>10. VllmParams(argv).parallel = 1
  BY DEF VllmParams
<1> QED
  BY <1>7, <1>8, <1>9, <1>10 DEF argv, isVllm

\* And is priced as the form was, but for the cards that its ranks cover.
LEMMA VllmPriced ==
    ASSUME NEW flags \in Args, NEW params, NEW pool \in Pool,
           params.util = flags.util \/ (params.util = NoUtil /\ flags.util = DefaultUtil),
           params.kv = flags.kv, params.offload = flags.offload, params.parallel = 1
    PROVE  /\ Footprint(params, pool) <= Footprint(flags, pool)
           /\ pool.devices = 1 \/ flags.parallel = 1 => Footprint(params, pool) = Footprint(flags, pool)
<1> DEFINE util == IF flags.util = NoUtil THEN DefaultUtil ELSE flags.util
           base == util * pool.total
           D == 100 * pool.devices
           S == Spanned(flags, pool)
           O == Spanned(params, pool)
<1>1. /\ util \in Nat /\ pool.total \in Nat /\ D \in Nat \ {0} /\ S \in Nat \ {0} /\ O = 1
      /\ flags.kv \in Nat /\ flags.offload \in Nat
  BY AdmissionAssumption DEF Args, NoUtil, Pool, Spanned
<1>2. pool.devices = 1 \/ flags.parallel = 1 => S = O
  BY <1>1 DEF Spanned
<1>3. Footprint(flags, pool) = Larger((base * S) \div D, flags.kv) + flags.offload
  BY DEF Footprint
<1>4. Footprint(params, pool) = Larger((base * O) \div D, flags.kv) + flags.offload
  <2>1. (IF params.util = NoUtil THEN DefaultUtil ELSE params.util) = util
    BY AdmissionAssumption DEF NoUtil
  <2> QED
    BY <2>1 DEF Footprint
<1>5. base \in Nat
  BY <1>1, ProductType
<1> HIDE DEF util, base, D, S, O
<1>6. base * O <= base * S /\ base * O \in Nat /\ base * S \in Nat
  <2>1. base * O = base
    BY <1>1, <1>5
  <2>2. base * 1 <= base * S
    BY <1>1, <1>5, ProductGrows
  <2> QED
    BY <1>1, <1>5, <2>1, <2>2, ProductType
<1>7. (base * O) \div D <= (base * S) \div D /\ (base * O) \div D \in Nat /\ (base * S) \div D \in Nat
  BY <1>1, <1>6, QuotientGrows
<1> QED
  BY <1>1, <1>2, <1>3, <1>4, <1>7 DEF Larger

-----------------------------------------------------------------------------
(* A command of vLLM is read as it was launched.                           *)

\* A quiet value runs no program and is no flag.
LEMMA QuietIsTame == \A t : Quiet(t) => Tame(t) /\ t.says \notin Spelled
BY DEF Quiet, Tame

\* An engine of vLLM is found in its command, with its model.
LEMMA VllmSeen ==
    ASSUME NEW model \in Token(Words), Quiet(model), NEW argv \in Seq(Token(Words)),
           Len(argv) >= 3, argv[1] = Word("vllm"), argv[2] = Word("serve"), argv[3] = model,
           \A t \in ToSet(argv) : Tame(t)
    PROVE  /\ ArgvOf(argv, VllmProgram) = argv
           /\ \A f, pool : SeenPrice(Started(argv), f, pool) = Footprint(VllmParams(argv), pool)
           /\ Listed(Started(argv)).engine = "vllm" /\ Listed(Started(argv)).model = model
<1> DEFINE T == Token(Words)
<1>3. DOMAIN argv = 1..Len(argv) /\ Len(argv) \in Nat /\ Len(argv) >= 3
  OBVIOUS
<1>5. ArgvOf(argv, VllmProgram) = argv
  <2>1. 1 \in DOMAIN VllmProgram /\ VllmProgram[1] \in {"vllm", "llama-server"}
    BY DEF VllmProgram
  <2> QED
    BY <2>1, WholeCommand
<1>6. argv[1].says = "vllm" /\ argv[2].says = "serve" /\ argv[2].joined = <<>>
  BY <1>3, Said
<1> HIDE DEF T
<1>7. VllmMatches(argv)
  <2>1. 1 \in DOMAIN argv \cap 1..2 /\ 2 \in DOMAIN argv
    BY <1>3
  <2>2. "vllm" \in FirstTwo(argv)
    BY <1>6, <2>1 DEF FirstTwo
  <2> QED
    BY <1>5, <1>6, <2>1, <2>2 DEF VllmMatches
<1>8. Identify(Started(argv)) = [engine |-> "vllm", argv |-> argv]
  <2>1. RecogniseArgv(argv) = "vllm"
    BY <1>7 DEF RecogniseArgv
  <2>2. Found("vllm", argv) = [engine |-> "vllm", argv |-> argv]
    BY DEF Found
  <2>3. Started(argv).command = argv
    BY DEF Started
  <2> DEFINE c == Started(argv)
             alone == Found(RecogniseArgv(c.command), c.command)
             whole == c.entrypoint \o c.command
             both == Found(RecogniseArgv(whole), whole)
  <2>4. Identify(c) = IF alone.engine # "" THEN alone ELSE both
    BY DEF Identify
  <2>5. alone = [engine |-> "vllm", argv |-> argv]
    BY <2>1, <2>2, <2>3
  <2> HIDE DEF alone, both
  <2> QED
    BY <2>4, <2>5
<1>9. VllmModel(argv) = model
  <2> DEFINE at == {i \in DOMAIN argv : argv[i].says \in {"serve"}}
             first == CHOOSE i \in at : \A j \in at : i <= j
             after(i) == IF argv[i].joined # <<>> THEN argv[i].joined ELSE Following(argv, i)
  <2>1. FlagValue(argv, {"serve"}) = IF at = {} THEN <<>> ELSE after(first)
    BY DEF FlagValue
  <2>2. 2 \in at /\ 1 \notin at /\ at \in SUBSET (Nat \ {0})
    BY <1>3, <1>6
  <2>3. \A j \in at : 2 <= j
    BY <2>2
  <2> HIDE DEF at
  <2>4. first = 2
    <3>1. first \in at /\ \A j \in at : first <= j
      BY <2>2, <2>3
    <3>2. first <= 2 /\ 2 <= first /\ first \in Nat
      BY <2>2, <2>3, <3>1
    <3> QED
      BY <3>2
  <2>5. Following(argv, 2) = <<argv[2 + 1]>>
    <3>1. 2 \in DOMAIN argv /\ 2 + 1 \in DOMAIN argv
      BY <1>3
    <3> QED
      BY <3>1, NextToken
  <2>6. after(first) = <<model>>
    <3>1. 2 + 1 = 3
      OBVIOUS
    <3>2. Following(argv, 2) = <<model>>
      BY <1>3, <2>5, <3>1
    <3> HIDE DEF first
    <3> QED
      BY <1>6, <2>4, <3>2
  <2>7. FlagValue(argv, {"serve"}) = <<model>>
    BY <2>1, <2>2, <2>6
  <2>8. OneToken(<<model>>) = model
    BY DEF OneToken
  <2>9. ~IsFlag(model)
    <3>1. model.says \notin Spelled
      BY QuietIsTame
    <3> QED
      BY <3>1, SpelledFlags DEF IsFlag
  <2> QED
    BY <2>7, <2>8, <2>9 DEF VllmModel
<1>10. Listed(Started(argv)).engine = "vllm" /\ Listed(Started(argv)).model = model
  <2> DEFINE seen == Identify(Started(argv))
             whole == CASE seen.engine = "" -> Blank
                        [] seen.engine = "vllm" -> VllmModel(ArgvOf(seen.argv, VllmProgram))
                        [] OTHER -> LlamaModel(ArgvOf(seen.argv, LlamaProgram))
  <2>1. Listed(Started(argv)).engine = seen.engine /\ Listed(Started(argv)).model = whole
    BY DEF Listed
  <2>2. seen.engine = "vllm" /\ seen.argv = argv
    BY <1>8
  <2> HIDE DEF seen
  <2>3. whole = VllmModel(ArgvOf(seen.argv, VllmProgram))
    BY <2>2
  <2> QED
    BY <1>5, <1>9, <2>1, <2>2, <2>3
<1>11. ASSUME NEW f, NEW pool
       PROVE  SeenPrice(Started(argv), f, pool) = Footprint(VllmParams(argv), pool)
  <2> DEFINE seen == Identify(Started(argv))
             llama == LaunchPrice(FALSE, LlamaParams(ArgvOf(seen.argv, LlamaProgram)),
                                  LlamaModel(ArgvOf(seen.argv, LlamaProgram)), f, pool)
             vllm == Footprint(VllmParams(ArgvOf(seen.argv, VllmProgram)), pool)
  <2>1. SeenPrice(Started(argv), f, pool)
          = CASE seen.engine = "" -> 0 [] seen.engine = "vllm" -> vllm [] OTHER -> llama
    BY DEF SeenPrice
  <2>2. seen.engine = "vllm" /\ seen.argv = argv
    BY <1>8
  <2> HIDE DEF seen, llama
  <2>3. SeenPrice(Started(argv), f, pool) = vllm
    BY <2>1, <2>2
  <2> QED
    BY <1>5, <2>2, <2>3
<1> QED
  BY <1>5, <1>10, <1>11

\* The port of a rank is the last thing that its command says.
LEMMA LastPort ==
    ASSUME NEW argv \in Seq(Token(Words)), NEW port, Len(argv) >= 2,
           argv[Len(argv) - 1] = Word("--master-port"), argv[Len(argv)] = Number(port)
    PROVE  MasterPortIn(argv) = port
<1> DEFINE n == Len(argv)
           value(i) == OneToken(argv[i].joined \o Following(argv, i)).number
           named == {i \in DOMAIN argv : argv[i].says = "--master-port" /\ value(i) # <<>>}
           last == CHOOSE i \in named : \A j \in named : j <= i
<1>1. MasterPortIn(argv) = IF named = {} THEN 0 ELSE value(last)[1]
  BY DEF MasterPortIn
<1>2. n \in Nat /\ DOMAIN argv = 1..n /\ n >= 2 /\ n - 1 \in 1..n /\ (n - 1) + 1 = n
  OBVIOUS
<1> HIDE DEF n
<1>3. Following(argv, n - 1) = <<Number(port)>>
  <2>1. n - 1 \in DOMAIN argv /\ (n - 1) + 1 \in DOMAIN argv
    BY <1>2
  <2>2. Following(argv, n - 1) = <<argv[(n - 1) + 1]>>
    BY <2>1, NextToken
  <2> QED
    BY <1>2, <2>2 DEF n
<1>4. value(n - 1) = <<port>>
  <2>1. argv[n - 1].joined = <<>>
    BY Said DEF n
  <2>2. <<>> \o <<Number(port)>> = <<Number(port)>>
    OBVIOUS
  <2>3. OneToken(<<Number(port)>>) = Number(port)
    BY DEF OneToken
  <2> QED
    BY <1>3, <2>1, <2>2, <2>3, WordsAreTame
<1> HIDE DEF value
<1>5. n - 1 \in named
  <2>1. argv[n - 1].says = "--master-port"
    BY Said DEF n
  <2>2. <<port>> # <<>>
    OBVIOUS
  <2> QED
    BY <1>2, <1>4, <2>1, <2>2
<1>6. \A j \in named : j \in Nat /\ j <= n - 1
  <2>1. n \notin named
    BY WordsAreTame DEF n
  <2> QED
    BY <1>2, <2>1
<1> HIDE DEF named
<1>7. last = n - 1
  <2>1. last \in named /\ \A j \in named : j <= last
    BY <1>5, <1>6
  <2>2. last \in Nat /\ last <= n - 1 /\ n - 1 <= last
    BY <1>5, <1>6, <2>1
  <2> QED
    BY <1>2, <2>2
<1>8. <<port>>[1] = port
  OBVIOUS
<1> HIDE DEF last
<1> QED
  BY <1>1, <1>4, <1>5, <1>7, <1>8

\* One that names none has none.
LEMMA NoPort ==
    ASSUME NEW argv, ~Names(argv, {"--master-port"})
    PROVE  MasterPortIn(argv) = 0
<1>1. \A i \in DOMAIN argv : argv[i].says # "--master-port"
  BY DEF Names, ToSet
<1> QED
  BY <1>1 DEF MasterPortIn

\* What a sequence begins with, whatever follows it.
LEMMA Begins ==
    ASSUME NEW S, NEW a \in Seq(S), NEW b \in Seq(S)
    PROVE  /\ a \o b \in Seq(S) /\ Len(a \o b) = Len(a) + Len(b)
           /\ Len(a) \in Nat /\ Len(b) \in Nat
           /\ \A i \in 1..Len(a) : (a \o b)[i] = a[i]
OBVIOUS

\* What a command of vLLM begins with.
VllmHead(model, port) == <<Word("vllm"), Word("serve"), model>> \o Serving(port)

\* It is found by its program, and says nothing of memory or of a port to meet at.
LEMMA VllmHeadTokens ==
    ASSUME NEW model \in Token(Words), Quiet(model), NEW port \in Nat
    PROVE  /\ VllmHead(model, port) \in Seq(Token(Words)) /\ Len(VllmHead(model, port)) = 7
           /\ VllmHead(model, port)[1] = Word("vllm") /\ VllmHead(model, port)[2] = Word("serve")
           /\ VllmHead(model, port)[3] = model
           /\ \A t \in ToSet(VllmHead(model, port)) :
                 /\ Tame(t)
                 /\ t.says \notin {"--gpu-memory-utilization", "--kv-cache-memory-bytes",
                                   "--kv-cache-memory", "--cpu-offload-gb", "--master-port"}
<1> DEFINE T == Token(Words)
           W == {"vllm", "serve", "--host", "0.0.0.0", "--port"}
           F == {"--gpu-memory-utilization", "--kv-cache-memory-bytes",
                 "--kv-cache-memory", "--cpu-offload-gb", "--master-port"}
           p == <<Word("vllm"), Word("serve"), model>>
           q == Serving(port)
<1>1. \A w \in W : Word(w) \in T
  <2>1. \A w \in W : w \in Words
    BY DEF Words
  <2> QED
    BY <2>1, Tokens
<1>2. Number(port) \in T /\ model \in T
  BY Tokens
<1>3. F \subseteq Spelled /\ \A w \in W \cup {""} : w \notin F
  BY SpelledFlags
<1>4. \A w \in W : Tame(Word(w)) /\ Word(w).says \notin F
  <2> HIDE DEF W, F
  <2> QED
    BY <1>3, WordsAreTame, Said
<1>5. Tame(Number(port)) /\ Number(port).says \notin F
  <2> HIDE DEF F
  <2> QED
    BY <1>3, WordsAreTame
<1>6. Tame(model) /\ model.says \notin F
  <2> HIDE DEF F
  <2> QED
    BY <1>3, QuietIsTame
<1> HIDE DEF T, F
<1>7. /\ p \in Seq(T) /\ Len(p) = 3 /\ p[1] = Word("vllm") /\ p[2] = Word("serve") /\ p[3] = model
      /\ ToSet(p) = {Word("vllm"), Word("serve"), model}
  BY <1>1, <1>2 DEF ToSet
<1>8. /\ q \in Seq(T) /\ Len(q) = 4
      /\ ToSet(q) = {Word("--host"), Word("0.0.0.0"), Word("--port"), Number(port)}
  BY <1>1, <1>2 DEF ToSet, Serving
<1>9. \A t \in ToSet(p) \cup ToSet(q) : Tame(t) /\ t.says \notin F
  BY <1>4, <1>5, <1>6, <1>7, <1>8
<1>10. VllmHead(model, port) = p \o q
  BY DEF VllmHead
<1> HIDE DEF p, q
<1>11. ToSet(p \o q) = ToSet(p) \cup ToSet(q)
  BY <1>7, <1>8, Elements
<1>12. /\ p \o q \in Seq(T) /\ Len(p \o q) = 7
       /\ (p \o q)[1] = p[1] /\ (p \o q)[2] = p[2] /\ (p \o q)[3] = p[3]
  <2>1. p \in Seq(T) /\ q \in Seq(T) /\ Len(p) = 3 /\ Len(q) = 4
    BY <1>7, <1>8
  <2>3. /\ p \o q \in Seq(T) /\ Len(p \o q) = Len(p) + Len(q)
        /\ \A i \in 1..Len(p) : (p \o q)[i] = p[i]
    BY <2>1, Begins
  <2>2. p \o q \in Seq(T) /\ Len(p \o q) = 3 + 4 /\ \A i \in 1..3 : (p \o q)[i] = p[i]
    BY <2>1, <2>3
  <2> HIDE DEF T
  <2> QED
    BY <2>2
<1> QED
  BY <1>7, <1>9, <1>10, <1>11, <1>12 DEF T, F

\* A container of vLLM that was started from a form is found, named and priced by
\* its command, whatever is appended to tell a rank apart.
LEMMA VllmCommand ==
    ASSUME NEW settings \in Seq(Settled), NEW flags \in Args, Vllm,
           \A s \in ToSet(settings) : Quiet(s[2]),
           \A s \in ToSet(Sizes(flags)) : Sets(settings, s[1], s[2]),
           NEW model \in Token(Words), Quiet(model),
           NEW c \in Seq(Token(Words)),
           \A t \in ToSet(c) :
              t.line = <<>> /\ t.says \notin {"--gpu-memory-utilization", "--kv-cache-memory-bytes",
                                              "--kv-cache-memory", "--cpu-offload-gb"},
           NEW port \in Nat
    PROVE  LET argv == VllmArgv(model, settings, port) \o c
           IN  /\ argv \in Seq(Token(Words)) /\ ArgvOf(argv, VllmProgram) = argv
               /\ Listed(Started(argv)).engine = "vllm" /\ Listed(Started(argv)).model = model
               /\ \A f : \A pool \in Pool :
                    /\ SeenPrice(Started(argv), f, pool) <= Footprint(flags, pool)
                    /\ pool.devices = 1 \/ flags.parallel = 1
                         => SeenPrice(Started(argv), f, pool) = Footprint(flags, pool)
<1> DEFINE T == Token(Words)
           yes == TRUE
           b == Rendered(VllmFlags, settings, yes)
           argv == VllmArgv(model, settings, port) \o c
<1>1. argv = VllmHead(model, port) \o b \o c
  BY DEF VllmArgv, VllmHead
<1>2. b \in Seq(T) /\ (\A t \in ToSet(b) : Tame(t)) /\ yes \in BOOLEAN
  <2>1. yes \in BOOLEAN /\ (IF yes THEN VllmFlags ELSE LlamaFlags) = VllmFlags
    OBVIOUS
  <2> HIDE DEF yes
  <2>2. \A s \in ToSet(settings) : Tame(s[2])
    BY QuietIsTame
  <2>3. \A t \in ToSet(Rendered(IF yes THEN VllmFlags ELSE LlamaFlags, settings, yes)) : Tame(t)
    BY <2>1, <2>2, RenderedTame
  <2> QED
    BY <2>1, <2>3, SchemasSpeak, RenderedTyped
<1>3. /\ VllmParams(VllmHead(model, port) \o b \o c).util = flags.util
           \/ (VllmParams(VllmHead(model, port) \o b \o c).util = NoUtil /\ flags.util = DefaultUtil)
      /\ VllmParams(VllmHead(model, port) \o b \o c).kv = flags.kv
      /\ VllmParams(VllmHead(model, port) \o b \o c).offload = flags.offload
      /\ VllmParams(VllmHead(model, port) \o b \o c).parallel = 1
  <2>1. VllmHead(model, port) \in Seq(T)
    BY VllmHeadTokens
  <2>2. \A t \in ToSet(VllmHead(model, port)) \cup ToSet(c) :
           t.says \notin {"--gpu-memory-utilization", "--kv-cache-memory-bytes",
                          "--kv-cache-memory", "--cpu-offload-gb"}
    BY VllmHeadTokens
  <2> QED
    BY <2>1, <2>2, VllmRead
<1> HIDE DEF b, yes
<1>4. /\ argv \in Seq(T) /\ Len(argv) >= 3 /\ argv[1] = Word("vllm") /\ argv[2] = Word("serve")
      /\ argv[3] = model
      /\ ToSet(argv) = ToSet(VllmHead(model, port)) \cup ToSet(b) \cup ToSet(c)
  <2> DEFINE h == VllmHead(model, port)
             hb == h \o b
  <2>1. /\ h \in Seq(T) /\ Len(h) = 7 /\ h[1] = Word("vllm") /\ h[2] = Word("serve")
        /\ h[3] = model
    BY VllmHeadTokens
  <2> HIDE DEF h, T
  <2>2. /\ hb \in Seq(T) /\ Len(hb) = 7 + Len(b) /\ hb[1] = h[1] /\ hb[2] = h[2] /\ hb[3] = h[3]
        /\ Len(b) \in Nat
    <3>1. b \in Seq(T)
      BY <1>2
    <3>2. /\ hb \in Seq(T) /\ Len(hb) = Len(h) + Len(b) /\ Len(b) \in Nat
          /\ \A i \in 1..Len(h) : hb[i] = h[i]
      BY <2>1, <3>1, Begins
    <3>3. \A i \in 1..7 : hb[i] = h[i]
      BY <2>1, <3>2
    <3> QED
      BY <2>1, <3>2, <3>3
  <2>3. ToSet(hb) = ToSet(h) \cup ToSet(b)
    BY <1>2, <2>1, Elements
  <2>4. c \in Seq(T) /\ Len(c) \in Nat
    BY DEF T
  <2> HIDE DEF hb
  <2>5. /\ hb \o c \in Seq(T) /\ Len(hb \o c) = Len(hb) + Len(c)
        /\ (hb \o c)[1] = hb[1] /\ (hb \o c)[2] = hb[2] /\ (hb \o c)[3] = hb[3]
    <3>1. /\ hb \o c \in Seq(T) /\ Len(hb \o c) = Len(hb) + Len(c)
          /\ \A i \in 1..Len(hb) : (hb \o c)[i] = hb[i]
      BY <2>2, <2>4, Begins
    <3>2. 1 \in 1..Len(hb) /\ 2 \in 1..Len(hb) /\ 3 \in 1..Len(hb)
      BY <2>1, <2>2
    <3> QED
      BY <3>1, <3>2
  <2>6. ToSet(hb \o c) = ToSet(hb) \cup ToSet(c)
    BY <2>2, <2>4, Elements
  <2>7. argv = hb \o c
    BY <1>1 DEF hb, h
  <2> HIDE DEF argv
  <2>8. Len(argv) >= 3
    BY <2>2, <2>4, <2>5, <2>7
  <2> QED
    BY <2>1, <2>2, <2>3, <2>5, <2>6, <2>7, <2>8 DEF h
<1> HIDE DEF argv
<1>5. \A t \in ToSet(argv) : Tame(t)
  BY <1>2, <1>4, VllmHeadTokens, WordsAreTame
<1>6. /\ ArgvOf(argv, VllmProgram) = argv
      /\ \A f, pool : SeenPrice(Started(argv), f, pool) = Footprint(VllmParams(argv), pool)
      /\ Listed(Started(argv)).engine = "vllm" /\ Listed(Started(argv)).model = model
  BY <1>4, <1>5, VllmSeen
<1> DEFINE params == VllmParams(argv)
<1>7. /\ params.util = flags.util \/ (params.util = NoUtil /\ flags.util = DefaultUtil)
      /\ params.kv = flags.kv /\ params.offload = flags.offload /\ params.parallel = 1
  BY <1>1, <1>3
<1> HIDE DEF params
<1>8. ASSUME NEW pool \in Pool
      PROVE  /\ Footprint(params, pool) <= Footprint(flags, pool)
             /\ pool.devices = 1 \/ flags.parallel = 1
                  => Footprint(params, pool) = Footprint(flags, pool)
  BY <1>7, VllmPriced
<1>9. \A f : \A pool \in Pool :
         /\ SeenPrice(Started(argv), f, pool) <= Footprint(flags, pool)
         /\ pool.devices = 1 \/ flags.parallel = 1
              => SeenPrice(Started(argv), f, pool) = Footprint(flags, pool)
  BY <1>6, <1>8 DEF params
<1> QED
  BY <1>4, <1>6, <1>9 DEF argv

\* No flag that is not of the schema is rendered from quiet values.
LEMMA RenderedNone ==
    ASSUME NEW schema, Speaks(schema), NEW settings \in Seq(Settled), NEW isVllm, NEW spellings,
           \A e \in DOMAIN schema : /\ schema[e].flags[1] \notin spellings
                                    /\ \A t \in ToSet(schema[e].negative) : t.says \notin spellings,
           \A s \in ToSet(settings) : Silent(s, spellings)
    PROVE  ~Names(Rendered(schema, settings, isVllm), spellings)
<1> SUFFICES ASSUME NEW t \in ToSet(Rendered(schema, settings, isVllm)), t.says \in spellings
             PROVE  FALSE
  BY DEF Names
<1>1. PICK s \in ToSet(settings) : t \in ToSet(Shown(schema, s, isVllm))
  BY RenderedSettings
<1>2. s \in Settled
  <2>1. \A i \in DOMAIN settings : settings[i] \in Settled
    OBVIOUS
  <2> QED
    BY <2>1 DEF ToSet
<1>3. /\ s[1] \in DOMAIN schema
      /\ \/ t = Word(schema[s[1]].flags[1])
         \/ t \in ToSet(schema[s[1]].negative)
         \/ t \in {s[2]} \cup ToSet(s[2].line)
  BY <1>1, <1>2, ShownTokens
<1>4. CASE t = Word(schema[s[1]].flags[1])
  BY <1>3, <1>4, Said
<1>5. CASE t \in ToSet(schema[s[1]].negative)
  BY <1>3, <1>5
<1>6. CASE t \in {s[2]} \cup ToSet(s[2].line)
  BY <1>6 DEF Silent
<1> QED
  BY <1>3, <1>4, <1>5, <1>6

\* Tokens behind a command that it is not read for.
Aside(c) ==
    \A t \in ToSet(c) :
        t.line = <<>> /\ t.says \notin {"--gpu-memory-utilization", "--kv-cache-memory-bytes",
                                       "--kv-cache-memory", "--cpu-offload-gb"}

\* They end with the port that the ranks meet at.
Meets(c, port) == Len(c) >= 2 /\ c[Len(c) - 1] = Word("--master-port") /\ c[Len(c)] = Number(port)

\* An engine is named, priced and met at its port by its command as it was
\* launched, as far as a command is read.
ReadAs(e, pool) ==
    /\ Listed(e.container).engine = e.engine /\ Listed(e.container).model = e.model
    /\ MasterPort(e.container.command) = e.port
    /\ Seen(e, pool) <= Takes(e, pool)
    /\ SeenWhole(e, pool) => Seen(e, pool) = Takes(e, pool)

\* The command of a form of vLLM, whose launcher may drop some flags and say
\* more behind it.
Renders(flags, argv) ==
    \E settings \in {Form(flags), Settings(Form(flags))}, port \in Nat, c \in Seq(Token(Words)) :
        Aside(c) /\ argv = BuildCommand(Vllm, asked.ref, settings, asked.named, port) \o c

\* What is appended to the command of a rank.
LEMMA RankSuffix ==
    ASSUME NEW argv \in Seq(Token(Words)), NEW rank \in Nat, NEW ranks \in Nat, NEW port \in Nat
    PROVE  \E c \in Seq(Token(Words)) :
              /\ RankArgv(argv, rank, ranks, port) = argv \o c
              /\ Aside(c) /\ Meets(c, port)
<1> DEFINE T == Token(Words)
           W == {"--headless", "--pipeline-parallel-size", "--nnodes", "--node-rank",
                 "--master-addr", "address", "--master-port"}
           F == {"--gpu-memory-utilization", "--kv-cache-memory-bytes", "--kv-cache-memory",
                 "--cpu-offload-gb"}
           headless == IF rank > 0 THEN <<Word("--headless")>> ELSE <<>>
           own == <<Word("--pipeline-parallel-size"), Number(ranks), Word("--nnodes"),
                    Number(ranks), Word("--node-rank"), Number(rank), Word("--master-addr"),
                    Word("address"), Word("--master-port"), Number(port)>>
           c == headless \o own
<1>1. \A w \in W : Word(w) \in T
  <2>1. \A w \in W : w \in Words
    BY DEF Words
  <2> QED
    BY <2>1, Tokens
<1>2. Number(ranks) \in T /\ Number(rank) \in T /\ Number(port) \in T
  BY Tokens
<1>3. \A w \in W \cup {""} : w \notin F
  OBVIOUS
<1> HIDE DEF T, F
<1>4. /\ headless \in Seq(T) /\ own \in Seq(T) /\ Len(own) = 10
      /\ own[9] = Word("--master-port") /\ own[10] = Number(port)
  BY <1>1, <1>2
<1>5. /\ ToSet(headless) \subseteq {Word("--headless")}
      /\ ToSet(own) = {Word("--pipeline-parallel-size"), Number(ranks), Word("--nnodes"),
                       Word("--node-rank"), Number(rank), Word("--master-addr"),
                       Word("address"), Word("--master-port"), Number(port)}
  BY DEF ToSet
<1>6. RankArgv(argv, rank, ranks, port) = argv \o headless \o own
  BY DEF RankArgv
<1> HIDE DEF headless, own
<1>7. \A t \in ToSet(headless) \cup ToSet(own) : t.line = <<>> /\ t.says \notin F
  <2>1. \A w \in W : Word(w).line = <<>> /\ Word(w).says \notin F
    BY <1>3, WordsAreTame, Said
  <2>2. \A n : Number(n).line = <<>> /\ Number(n).says \notin F
    BY <1>3, WordsAreTame
  <2> QED
    BY <1>5, <2>1, <2>2
<1>8. c \in Seq(T) /\ ToSet(c) = ToSet(headless) \cup ToSet(own)
  BY <1>4, Begins, Elements
<1>9. /\ Len(c) = Len(headless) + 10 /\ Len(headless) \in Nat
      /\ \A i \in 1..10 : c[Len(headless) + i] = own[i]
  <2>1. Len(c) = Len(headless) + Len(own) /\ Len(headless) \in Nat
    BY <1>4, Begins
  <2>3. headless \in Seq(T) /\ own \in Seq(T)
    BY <1>4
  <2>4. DOMAIN own = 1..Len(own) /\ \A i \in DOMAIN own : (headless \o own)[Len(headless) + i] = own[i]
    BY <2>3, Elements
  <2>2. DOMAIN own = 1..Len(own) /\ \A i \in DOMAIN own : c[Len(headless) + i] = own[i]
    BY <2>4
  <2> HIDE DEF c
  <2> QED
    BY <1>4, <2>1, <2>2
<1>10. argv \o headless \o own = argv \o c
  <2>1. argv \in Seq(T) /\ headless \in Seq(T) /\ own \in Seq(T)
    BY <1>4 DEF T
  <2> QED
    BY <2>1, ConcatAssociative
<1> HIDE DEF c
<1>11. Len(c) >= 2 /\ c[Len(c) - 1] = Word("--master-port") /\ c[Len(c)] = Number(port)
  <2>1. Len(c) - 1 = Len(headless) + 9 /\ Len(c) = Len(headless) + 10 /\ Len(c) >= 2
    BY <1>9
  <2>2. c[Len(headless) + 9] = own[9] /\ c[Len(headless) + 10] = own[10]
    BY <1>9
  <2> QED
    BY <1>4, <2>1, <2>2
<1>12. Aside(c) /\ Meets(c, port)
  BY <1>7, <1>8, <1>11 DEF F, Aside, Meets
<1>13. c \in Seq(Token(Words)) /\ RankArgv(argv, rank, ranks, port) = argv \o c
  BY <1>6, <1>8, <1>10 DEF T
<1> QED
  BY <1>12, <1>13

\* A container with the command of a form is read as it was launched.
LEMMA VllmContainer ==
    ASSUME asked \in Questions, Ordinary(asked), Vllm, NEW flags, Fits(flags),
           NEW argv, Renders(flags, argv), NEW pool \in Pool
    PROVE  ReadAs(Launched(flags, MasterPortIn(argv), argv), pool)
<1> DEFINE T == Token(Words)
           form == Form(flags)
<1>1. flags \in Args /\ Vllm = TRUE /\ asked.engine = "vllm"
  BY AdviceAssumption DEF Fits, Vllm
<1>2. asked.ref \in T /\ Quiet(asked.ref)
  <2>1. Token(STRING) \subseteq T
    BY TokensGrow DEF Words
  <2> QED
    BY <2>1, AdviceAssumption DEF IsForm, Ordinary
<1>3. PICK settings \in {form, Settings(form)}, port \in Nat, c \in Seq(T) :
         Aside(c) /\ argv = BuildCommand(Vllm, asked.ref, settings, asked.named, port) \o c
  BY DEF Renders
<1> DEFINE all == AllSettings(Vllm, settings, asked.named)
           meets == MasterPortIn(argv)
           e == Launched(flags, meets, argv)
           g == VllmArgv(asked.ref, all, port) \o c
<1>4. /\ all \in Seq(Settled) /\ \A s \in ToSet(all) : Quiet(s[2])
      /\ \A s \in ToSet(Sizes(flags)) : Sets(all, s[1], s[2])
      /\ BuildCommand(Vllm, asked.ref, settings, asked.named, port)
           = IF Vllm THEN VllmArgv(asked.ref, all, port) ELSE LlamaArgv(asked.ref, all, port)
  BY <1>3, CommandIsQuiet
<1> HIDE DEF all
<1>5. argv = g
  BY <1>1, <1>3, <1>4
<1>6. /\ ArgvOf(g, VllmProgram) = g
      /\ Listed(Started(g)).engine = "vllm" /\ Listed(Started(g)).model = asked.ref
      /\ \A f : \A p \in Pool :
           /\ SeenPrice(Started(g), f, p) <= Footprint(flags, p)
           /\ p.devices = 1 \/ flags.parallel = 1
                => SeenPrice(Started(g), f, p) = Footprint(flags, p)
  <2>1. \A t \in ToSet(c) :
           t.line = <<>> /\ t.says \notin {"--gpu-memory-utilization", "--kv-cache-memory-bytes",
                                          "--kv-cache-memory", "--cpu-offload-gb"}
    BY <1>3 DEF Aside
  <2> DEFINE model == asked.ref
  <2>2. /\ flags \in Args /\ Vllm /\ model \in Token(Words) /\ Quiet(model)
        /\ all \in Seq(Settled) /\ c \in Seq(Token(Words)) /\ port \in Nat
    BY <1>1, <1>2, <1>3, <1>4
  <2>3. g = VllmArgv(model, all, port) \o c
    OBVIOUS
  <2> HIDE DEF g, model
  <2>4. LET a == VllmArgv(model, all, port) \o c
        IN  /\ a \in Seq(Token(Words)) /\ ArgvOf(a, VllmProgram) = a
            /\ Listed(Started(a)).engine = "vllm" /\ Listed(Started(a)).model = model
            /\ \A f : \A p \in Pool :
                 /\ SeenPrice(Started(a), f, p) <= Footprint(flags, p)
                 /\ p.devices = 1 \/ flags.parallel = 1
                      => SeenPrice(Started(a), f, p) = Footprint(flags, p)
    BY <1>4, <2>1, <2>2, VllmCommand
  <2> QED
    BY <2>3, <2>4 DEF model
<1> HIDE DEF g
<1>7. /\ ArgvOf(argv, VllmProgram) = argv
      /\ Listed(Started(argv)).engine = "vllm" /\ Listed(Started(argv)).model = asked.ref
      /\ SeenPrice(Started(argv), NoFile, pool) <= Footprint(flags, pool)
      /\ pool.devices = 1 \/ flags.parallel = 1
           => SeenPrice(Started(argv), NoFile, pool) = Footprint(flags, pool)
  BY <1>5, <1>6
<1>8. MasterPort(argv) = meets
  BY <1>7 DEF MasterPort
<1>9. /\ e.container = Started(argv) /\ e.container.command = argv /\ e.engine = "vllm"
      /\ e.model = asked.ref /\ e.file = NoFile /\ e.port = meets /\ e.flags = flags
  BY <1>1 DEF Launched, Started
<1> HIDE DEF e, meets
<1>10. Takes(e, pool) = Footprint(flags, pool) /\ Seen(e, pool) = SeenPrice(Started(argv), NoFile, pool)
  BY <1>9 DEF Takes, LaunchPrice, Seen
<1>11. SeenWhole(e, pool) <=> pool.devices = 1 \/ flags.parallel = 1
  BY <1>9 DEF SeenWhole
<1>12. ReadAs(e, pool)
  BY <1>7, <1>8, <1>9, <1>10, <1>11 DEF ReadAs
<1> QED
  BY <1>12 DEF e, meets

\* What vLLM is started with is typed.
LEMMA VllmStarts ==
    ASSUME asked \in Questions, Vllm, NEW flags, Fits(flags),
           NEW settings \in {Form(flags), Settings(Form(flags))}, NEW port \in Nat
    PROVE  BuildCommand(Vllm, asked.ref, settings, asked.named, port) \in Seq(Token(Words))
<1>1. Form(flags) \in Seq(Settled)
  BY FormTyped
<1>2. Settings(Form(flags)) \in Seq(Settled)
  BY <1>1, WithoutTyped DEF Settings
<1>3. {asked.named, asked.ref} \subseteq Token(Words)
  <2>1. Token(STRING) \subseteq Token(Words)
    BY TokensGrow DEF Words
  <2> QED
    BY <2>1, AdviceAssumption DEF IsForm
<1> QED
  BY <1>1, <1>2, <1>3, CommandTyped

\* The port that an engine serves at inside its container.
Http == 8000

\* What a command ends with when more is said behind it.
LEMMA Behind ==
    ASSUME NEW S, NEW a \in Seq(S), NEW c \in Seq(S), Len(c) >= 2
    PROVE  LET all == a \o c
           IN  /\ all \in Seq(S) /\ Len(all) \in Nat /\ Len(all) >= 2
               /\ all[Len(all) - 1] = c[Len(c) - 1] /\ all[Len(all)] = c[Len(c)]
<1> DEFINE n == Len(a)
           m == Len(c)
           all == a \o c
<1>1. all \in Seq(S) /\ Len(all) = n + m /\ n \in Nat /\ m \in Nat /\ m >= 2
  BY Begins
<1>2. DOMAIN c = 1..m /\ \A i \in DOMAIN c : all[n + i] = c[i]
  BY Elements
<1> HIDE DEF n, m, all
<1>3. m - 1 \in 1..m /\ m \in 1..m /\ Len(all) - 1 = n + (m - 1)
  BY <1>1
<1>4. all[Len(all) - 1] = c[m - 1] /\ all[Len(all)] = c[m] /\ Len(all) >= 2 /\ Len(all) \in Nat
  <2>1. all[n + (m - 1)] = c[m - 1] /\ all[n + m] = c[m]
    BY <1>2, <1>3
  <2>2. Len(all) >= 2 /\ Len(all) \in Nat
    BY <1>1
  <2> QED
    BY <1>1, <1>3, <2>1, <2>2
<1> QED
  BY <1>1, <1>4 DEF all, m

\* So is a rank, and it names the port it was given.
LEMMA RankRenders ==
    ASSUME asked \in Questions, Vllm, NEW flags, Fits(flags),
           NEW rank \in Nat, NEW ranks \in Nat, NEW port \in Nat
    PROVE  LET shared == BuildCommand(Vllm, asked.ref, Settings(Form(flags)), asked.named, Http)
               argv == RankArgv(shared, rank, ranks, port)
           IN  Renders(flags, argv) /\ MasterPortIn(argv) = port
<1> DEFINE T == Token(Words)
           shared == BuildCommand(Vllm, asked.ref, Settings(Form(flags)), asked.named, Http)
           argv == RankArgv(shared, rank, ranks, port)
<1>0. Http \in Nat
  BY DEF Http
<1>1. shared \in Seq(T)
  BY <1>0, VllmStarts
<1>3. \A c : Aside(c) /\ c \in Seq(T) => Renders(flags, shared \o c)
  BY <1>0 DEF Renders
<1> HIDE DEF shared
<1>2. PICK c \in Seq(T) : argv = shared \o c /\ Aside(c) /\ Meets(c, port)
  BY <1>1, RankSuffix
<1>4. MasterPortIn(shared \o c) = port
  <2> DEFINE all == shared \o c
  <2>1. /\ all \in Seq(T) /\ Len(all) >= 2
        /\ all[Len(all) - 1] = c[Len(c) - 1] /\ all[Len(all)] = c[Len(c)]
    BY <1>1, <1>2, Behind DEF Meets
  <2>2. all[Len(all) - 1] = Word("--master-port") /\ all[Len(all)] = Number(port)
    BY <1>2, <2>1 DEF Meets
  <2> HIDE DEF all
  <2>3. MasterPortIn(all) = port
    BY <2>1, <2>2, LastPort
  <2> QED
    BY <2>3 DEF all
<1>5. Renders(flags, shared \o c)
  BY <1>2, <1>3
<1>6. Renders(flags, argv) /\ MasterPortIn(argv) = port
  BY <1>2, <1>4, <1>5
<1> QED
  BY <1>6 DEF shared

\* And so is an engine of one machine, which names none.
LEMMA AloneRenders ==
    ASSUME asked \in Questions, Ordinary(asked), Vllm, Len(asked.at) = 1, NEW flags, Fits(flags)
    PROVE  LET whole == BuildCommand(Vllm, asked.ref, Form(flags), asked.named, Http)
           IN  Renders(flags, whole) /\ MasterPortIn(whole) = 0
<1> DEFINE T == Token(Words)
           form == Form(flags)
           yes == TRUE
           none == <<>>
           whole == BuildCommand(Vllm, asked.ref, Form(flags), asked.named, Http)
<1>0. Http \in Nat
  BY DEF Http
<1>1. whole \in Seq(T) /\ Vllm = yes
  BY <1>0, VllmStarts, AdviceAssumption DEF Vllm
<1>2. asked.ref \in T /\ Quiet(asked.ref)
  <2>1. Token(STRING) \subseteq T
    BY TokensGrow DEF Words
  <2> QED
    BY <2>1, AdviceAssumption DEF IsForm, Ordinary
<1>3. Renders(flags, whole)
  <2>1. whole = whole \o none /\ none \in Seq(T) /\ Aside(none)
    BY <1>1, ConcatEmptySeq, EmptySeq DEF Aside, ToSet
  <2> HIDE DEF none
  <2>2. \E c \in Seq(Token(Words)) :
           Aside(c) /\ whole = BuildCommand(Vllm, asked.ref, form, asked.named, Http) \o c
    BY <2>1
  <2> QED
    BY <1>0, <2>2 DEF Renders
<1>4. ~Names(whole, {"--master-port"})
  <2> DEFINE all == AllSettings(Vllm, form, asked.named)
             F == {"--master-port"}
             b == Rendered(VllmFlags, all, yes)
             h == VllmHead(asked.ref, Http)
  <2>0. Http \in Nat
    BY DEF Http
  <2>1. /\ all \in Seq(Settled)
        /\ \A s \in ToSet(all) : Quiet(s[2]) /\ (Len(asked.at) = 1 => s[1] # "master_port")
        /\ BuildCommand(Vllm, asked.ref, form, asked.named, Http)
             = IF Vllm THEN VllmArgv(asked.ref, all, Http) ELSE LlamaArgv(asked.ref, all, Http)
    BY <2>0, CommandIsQuiet
  <2> HIDE DEF all
  <2>2. whole = h \o b
    BY <1>1, <2>1 DEF VllmArgv, VllmHead
  <2>3. h \in Seq(T) /\ ~Names(h, F)
    <3>1. h \in Seq(T) /\ \A t \in ToSet(h) : t.says # "--master-port"
      BY <1>2, <2>0, VllmHeadTokens
    <3> QED
      BY <3>1 DEF Names
  <2>4. F \subseteq Spelled
    BY SpelledFlags
  <2>5. Only(VllmFlags, "master_port", F)
    <3>1. \A e \in DOMAIN VllmFlags : \A t \in ToSet(VllmFlags[e].negative) :
             t.says = "--no-enable-auto-tool-choice"
      BY VllmTable, Said
    <3> QED
      BY <3>1, VllmTable DEF Only
  <2> HIDE DEF F, yes
  <2>6. \A s \in ToSet(all) : s[1] # "master_port" /\ Silent(s, F)
    BY <2>1, <2>4 DEF Silent, Quiet
  <2>7. ~Names(b, F) /\ b \in Seq(T)
    BY <2>1, <2>5, <2>6, SchemasSpeak, RenderedElse, RenderedTyped
  <2>8. ToSet(h \o b) = ToSet(h) \cup ToSet(b)
    <3> HIDE DEF h, b
    <3> QED
      BY <2>3, <2>7, Elements
  <2> HIDE DEF h, b
  <2> QED
    BY <2>2, <2>3, <2>7, <2>8 DEF Names, F
<1>5. MasterPortIn(whole) = 0
  BY <1>4, NoPort
<1> QED
  BY <1>3, <1>5

\* What runs on a machine.
LEMMA RankIs ==
    ASSUME Vllm, NEW flags, NEW r \in DOMAIN asked.at
    PROVE  LET shared == BuildCommand(Vllm, asked.ref, Settings(Form(flags)), asked.named, Http)
               port == MasterPortBeside(PortsTaken)
           IN  Pooled => Engine(flags)[r] = Launched(flags, port,
                                              RankArgv(shared, r - 1, Len(asked.at), port))
<1> DEFINE yes == TRUE
           with(v) == BuildCommand(v, asked.ref, Settings(Form(flags)), asked.named, Http)
           rank(shared) == Launched(flags, MasterPortBeside(PortsTaken),
                                    RankArgv(shared, r - 1, Len(asked.at),
                                             MasterPortBeside(PortsTaken)))
<1>1. Vllm = yes
  BY DEF Vllm
<1>2. Pooled => Engine(flags)[r] = rank(with(yes))
  BY DEF Engine, RanksOn, Http
<1>3. with(Vllm) = with(yes)
  BY <1>1, Zenon
<1> HIDE DEF with, yes
<1>4. Pooled => Engine(flags)[r] = rank(with(Vllm))
  BY <1>2, <1>3
<1> QED
  BY <1>4 DEF with

\* What runs on one machine alone.
LEMMA AloneIs ==
    ASSUME ~Pooled, NEW flags
    PROVE  Engine(flags)
             = <<Launched(flags, 0, BuildCommand(Vllm, asked.ref, Form(flags), asked.named, Http))>>
BY DEF Engine, Http

\* A rank of vLLM, or the one engine of a machine, is read as it was launched.
LEMMA VllmReadAs ==
    ASSUME asked \in Questions, Ordinary(asked), Vllm, NEW flags, Fits(flags),
           NEW r \in DOMAIN asked.at, NEW pool \in Pool
    PROVE  ReadAs(Engine(flags)[r], pool)
<1>1. /\ DOMAIN asked.at = 1..Len(asked.at) /\ Len(asked.at) \in Nat \ {0}
      /\ MasterPortBeside(PortsTaken) \in Nat /\ r - 1 \in Nat
  <2>1. DOMAIN asked.at = 1..Len(asked.at) /\ Len(asked.at) \in Nat \ {0}
    BY AdviceAssumption
  <2> QED
    BY <2>1, PortType
<1>2. CASE Pooled
  <2> DEFINE shared == BuildCommand(Vllm, asked.ref, Settings(Form(flags)), asked.named, Http)
             port == MasterPortBeside(PortsTaken)
             ranks == Len(asked.at)
             rank == r - 1
             argv == RankArgv(shared, rank, ranks, port)
  <2>1. Engine(flags)[r] = Launched(flags, port, argv)
    BY <1>2, RankIs
  <2>3. rank \in Nat /\ ranks \in Nat /\ port \in Nat
    BY <1>1
  <2> HIDE DEF port, ranks, rank
  <2>4. Renders(flags, argv) /\ MasterPortIn(argv) = port
    BY <2>3, RankRenders
  <2> HIDE DEF argv
  <2>5. ReadAs(Launched(flags, MasterPortIn(argv), argv), pool)
    BY <2>4, VllmContainer
  <2> QED
    BY <2>1, <2>4, <2>5
<1>3. CASE ~Pooled
  <2> DEFINE whole == BuildCommand(Vllm, asked.ref, Form(flags), asked.named, Http)
  <2>1. Len(asked.at) = 1
    <3> DEFINE n == Len(asked.at)
    <3>1. ~(n > 1)
      BY <1>3 DEF Pooled
    <3>2. n \in Nat \ {0}
      BY <1>1
    <3> HIDE DEF n
    <3>3. n = 1
      BY <3>1, <3>2
    <3> QED
      BY <3>3 DEF n
  <2>2. Engine(flags) = <<Launched(flags, 0, whole)>>
    BY <1>3, AloneIs
  <2>4. Renders(flags, whole) /\ MasterPortIn(whole) = 0
    BY <2>1, AloneRenders
  <2> HIDE DEF whole
  <2>5. ReadAs(Launched(flags, MasterPortIn(whole), whole), pool)
    BY <2>4, VllmContainer
  <2>6. r = 1
    BY <1>1, <2>1
  <2>7. Engine(flags)[r] = Launched(flags, 0, whole)
    BY <2>2, <2>6
  <2> QED
    BY <2>4, <2>5, <2>7
<1> QED
  BY <1>2, <1>3

-----------------------------------------------------------------------------
(* A command of llama.cpp is read as it was launched.                      *)

\* What a command of llama.cpp begins with: how it serves, and its model.
LlamaServes(port) == <<Word("llama-server")>> \o Serving(port)
LlamaNames(model) ==
    IF model = Blank THEN <<>>
    ELSE <<Word(IF LooksLikePath(model) THEN "-m" ELSE "-hf"), model>>
LlamaHead(model, port) == LlamaServes(port) \o LlamaNames(model) \o <<Word("--metrics")>>

\* The spellings of what it is priced by, and of its model.
LlamaSizes == {"-ngl", "--gpu-layers", "--n-gpu-layers", "-c", "--ctx-size", "-ctk",
               "--cache-type-k", "-ctv", "--cache-type-v", "-ub", "--ubatch-size", "-fa",
               "--flash-attn"}
LlamaRefs == {"-m", "--model", "-hf", "-hfr", "--hf-repo"}

\* It says nothing of memory, and of a model only where it gives its own.
LEMMA LlamaHeadTokens ==
    ASSUME NEW model \in Token(Words), Quiet(model), NEW port \in Nat
    PROVE  /\ LlamaServes(port) \in Seq(Token(Words)) /\ LlamaNames(model) \in Seq(Token(Words))
           /\ <<Word("--metrics")>> \in Seq(Token(Words))
           /\ Len(LlamaServes(port)) = 5 /\ LlamaServes(port)[1] = Word("llama-server")
           /\ LlamaServes(port)[2] = Word("--host")
           /\ \A t \in ToSet(LlamaServes(port)) \cup ToSet(<<Word("--metrics")>>) :
                 Tame(t) /\ t.says \notin LlamaSizes \cup LlamaRefs \cup {"--master-port"}
           /\ \A t \in ToSet(LlamaNames(model)) :
                 Tame(t) /\ t.says \notin LlamaSizes \cup {"--master-port"}
<1> DEFINE T == Token(Words)
           W == {"llama-server", "--host", "0.0.0.0", "--port", "--metrics"}
           F == LlamaSizes \cup LlamaRefs \cup {"--master-port"}
           L == LlamaSizes \cup {"--master-port"}
           p == <<Word("llama-server")>>
           q == Serving(port)
           m == <<Word("--metrics")>>
<1>1. \A w \in W \cup {"-m", "-hf"} : Word(w) \in T
  <2>1. \A w \in W \cup {"-m", "-hf"} : w \in Words
    BY DEF Words
  <2> QED
    BY <2>1, Tokens
<1>2. Number(port) \in T /\ model \in T
  BY Tokens
<1>3. F \subseteq Spelled /\ L \subseteq Spelled /\ (\A w \in W \cup {""} : w \notin F)
      /\ "-m" \notin L /\ "-hf" \notin L
  BY SpelledFlags DEF LlamaSizes, LlamaRefs
<1>4. \A w \in W : Tame(Word(w)) /\ Word(w).says \notin F
  <2> HIDE DEF W, F
  <2> QED
    BY <1>3, WordsAreTame, Said
<1>5. Tame(Number(port)) /\ Number(port).says \notin F
  <2> HIDE DEF F
  <2> QED
    BY <1>3, WordsAreTame
<1>6. Tame(model) /\ model.says \notin L
  <2> HIDE DEF L
  <2> QED
    BY <1>3, QuietIsTame
<1>7. \A w \in {"-m", "-hf"} : Tame(Word(w)) /\ Word(w).says \notin L
  <2> HIDE DEF L
  <2> QED
    BY <1>3, WordsAreTame, Said
<1> HIDE DEF T, F, L
<1>8. /\ p \in Seq(T) /\ Len(p) = 1 /\ p[1] = Word("llama-server")
      /\ ToSet(p) = {Word("llama-server")}
  BY <1>1 DEF ToSet
<1>9. /\ q \in Seq(T) /\ Len(q) = 4 /\ q[1] = Word("--host")
      /\ ToSet(q) = {Word("--host"), Word("0.0.0.0"), Word("--port"), Number(port)}
  BY <1>1, <1>2 DEF ToSet, Serving
<1>10. m \in Seq(T) /\ ToSet(m) = {Word("--metrics")}
  BY <1>1 DEF ToSet
<1>11. \A t \in ToSet(p) \cup ToSet(q) \cup ToSet(m) : Tame(t) /\ t.says \notin F
  BY <1>4, <1>5, <1>8, <1>9, <1>10
<1>12. /\ LlamaNames(model) \in Seq(T)
       /\ \A t \in ToSet(LlamaNames(model)) : Tame(t) /\ t.says \notin L
  <2>1. <<>> \in Seq(T) /\ ToSet(<<>>) = {}
    BY EmptySeq DEF ToSet
  <2>2. \A w \in {"-m", "-hf"} :
           <<Word(w), model>> \in Seq(T) /\ ToSet(<<Word(w), model>>) = {Word(w), model}
    BY <1>1, <1>2 DEF ToSet
  <2>3. LlamaNames(model) \in {<<>>, <<Word("-m"), model>>, <<Word("-hf"), model>>}
    BY DEF LlamaNames
  <2>4. CASE LlamaNames(model) = <<>>
    BY <2>1, <2>4
  <2>5. ASSUME NEW w \in {"-m", "-hf"}, LlamaNames(model) = <<Word(w), model>>
        PROVE  /\ LlamaNames(model) \in Seq(T)
               /\ \A t \in ToSet(LlamaNames(model)) : Tame(t) /\ t.says \notin L
    BY <1>6, <1>7, <2>2, <2>5
  <2> QED
    BY <2>3, <2>4, <2>5
<1> HIDE DEF p, q, m
<1>13. /\ p \o q \in Seq(T) /\ Len(p \o q) = 5 /\ (p \o q)[1] = Word("llama-server")
       /\ (p \o q)[2] = Word("--host") /\ ToSet(p \o q) = ToSet(p) \cup ToSet(q)
  <2>0. p \in Seq(T) /\ q \in Seq(T)
    BY <1>8, <1>9
  <2>1. p \o q \in Seq(T) /\ Len(p \o q) = Len(p) + Len(q) /\ \A i \in 1..Len(p) : (p \o q)[i] = p[i]
    BY <2>0, Begins
  <2>2. ToSet(p \o q) = ToSet(p) \cup ToSet(q)
    BY <2>0, Elements
  <2>3. DOMAIN q = 1..Len(q) /\ \A i \in DOMAIN q : (p \o q)[Len(p) + i] = q[i]
    BY <2>0, Elements
  <2>4. (p \o q)[1] = Word("llama-server")
    BY <1>8, <2>1
  <2>5. (p \o q)[2] = Word("--host")
    <3>1. 1 \in DOMAIN q /\ Len(p) + 1 = 2
      BY <1>8, <1>9, <2>3
    <3> QED
      BY <1>9, <2>3, <3>1
  <2> QED
    BY <1>8, <1>9, <2>1, <2>2, <2>4, <2>5
<1>14. LlamaServes(port) = p \o q
  BY DEF LlamaServes, p, q
<1> QED
  BY <1>10, <1>11, <1>12, <1>13, <1>14 DEF T, F, L, m

\* An engine of llama.cpp is found in its command.
LEMMA LlamaSeen ==
    ASSUME NEW argv \in Seq(Token(Words)), Len(argv) >= 2, argv[1] = Word("llama-server"),
           argv[2] = Word("--host"), \A t \in ToSet(argv) : Tame(t)
    PROVE  /\ ArgvOf(argv, VllmProgram) = argv
           /\ \A f, pool : SeenPrice(Started(argv), f, pool)
                             = LaunchPrice(FALSE, LlamaParams(argv), LlamaModel(argv), f, pool)
           /\ Listed(Started(argv)).engine = "llamacpp"
           /\ Listed(Started(argv)).model = LlamaModel(argv)
<1> DEFINE T == Token(Words)
<1>1. DOMAIN argv = 1..Len(argv) /\ Len(argv) \in Nat /\ Len(argv) >= 2
  OBVIOUS
<1>2. ArgvOf(argv, VllmProgram) = argv /\ ArgvOf(argv, LlamaProgram) = argv
  <2>1. 1 \in DOMAIN VllmProgram /\ VllmProgram[1] \in {"vllm", "llama-server"}
    BY DEF VllmProgram
  <2>2. 1 \in DOMAIN LlamaProgram /\ LlamaProgram[1] \in {"vllm", "llama-server"}
    BY DEF LlamaProgram
  <2> QED
    BY <2>1, <2>2, WholeCommand
<1>3. argv[1].says = "llama-server" /\ argv[2].says = "--host"
  BY Said
<1> HIDE DEF T
<1>4. FirstTwo(argv) = {"llama-server", "--host"}
  <2>1. DOMAIN argv \cap 1..2 = {1, 2}
    BY <1>1
  <2> QED
    BY <1>3, <2>1 DEF FirstTwo
<1>5. ~VllmMatches(argv) /\ LlamaMatches(argv)
  <2>1. "vllm" # "llama-server" /\ "vllm" # "--host"
    OBVIOUS
  <2> QED
    BY <1>2, <1>4, <2>1 DEF VllmMatches, LlamaMatches
<1>6. Identify(Started(argv)) = [engine |-> "llamacpp", argv |-> argv]
  <2>1. RecogniseArgv(argv) = "llamacpp"
    BY <1>5 DEF RecogniseArgv
  <2>2. Found("llamacpp", argv) = [engine |-> "llamacpp", argv |-> argv]
    BY DEF Found
  <2>3. Started(argv).command = argv
    BY DEF Started
  <2> DEFINE c == Started(argv)
             alone == Found(RecogniseArgv(c.command), c.command)
             whole == c.entrypoint \o c.command
             both == Found(RecogniseArgv(whole), whole)
  <2>4. Identify(c) = IF alone.engine # "" THEN alone ELSE both
    BY DEF Identify
  <2>5. alone = [engine |-> "llamacpp", argv |-> argv]
    BY <2>1, <2>2, <2>3
  <2> HIDE DEF alone, both
  <2> QED
    BY <2>4, <2>5
<1>7. Listed(Started(argv)).engine = "llamacpp" /\ Listed(Started(argv)).model = LlamaModel(argv)
  <2> DEFINE seen == Identify(Started(argv))
             whole == CASE seen.engine = "" -> Blank
                        [] seen.engine = "vllm" -> VllmModel(ArgvOf(seen.argv, VllmProgram))
                        [] OTHER -> LlamaModel(ArgvOf(seen.argv, LlamaProgram))
  <2>1. Listed(Started(argv)).engine = seen.engine /\ Listed(Started(argv)).model = whole
    BY DEF Listed
  <2>2. seen.engine = "llamacpp" /\ seen.argv = argv
    BY <1>6
  <2> HIDE DEF seen
  <2>3. whole = LlamaModel(ArgvOf(seen.argv, LlamaProgram))
    BY <2>2
  <2> QED
    BY <1>2, <2>1, <2>2, <2>3
<1>8. ASSUME NEW f, NEW pool
      PROVE  SeenPrice(Started(argv), f, pool)
               = LaunchPrice(FALSE, LlamaParams(argv), LlamaModel(argv), f, pool)
  <2> DEFINE seen == Identify(Started(argv))
             no == FALSE
             llama(a) == LaunchPrice(no, LlamaParams(a), LlamaModel(a), f, pool)
             vllm == Footprint(VllmParams(ArgvOf(seen.argv, VllmProgram)), pool)
  <2>1. SeenPrice(Started(argv), f, pool)
          = CASE seen.engine = "" -> 0 [] seen.engine = "vllm" -> vllm
              [] OTHER -> llama(ArgvOf(seen.argv, LlamaProgram))
    BY DEF SeenPrice
  <2>2. seen.engine = "llamacpp" /\ seen.argv = argv
    BY <1>6
  <2>3. ArgvOf(seen.argv, LlamaProgram) = argv
    BY <1>2, <2>2
  <2> HIDE DEF seen, llama, vllm, no
  <2>4. SeenPrice(Started(argv), f, pool) = llama(ArgvOf(seen.argv, LlamaProgram))
    BY <2>1, <2>2
  <2>5. SeenPrice(Started(argv), f, pool) = llama(argv)
    BY <2>3, <2>4
  <2> QED
    BY <2>5 DEF llama, no
<1> QED
  BY <1>2, <1>7, <1>8

\* A command of llama.cpp is read for a setting as it was set.
LEMMA LlamaFlagRead ==
    ASSUME NEW settings \in Seq(Settled), \A s \in ToSet(settings) : Quiet(s[2]),
           NEW isVllm, NEW dest \in DOMAIN LlamaFlags \ Managed,
           NEW spellings \in SUBSET LlamaSizes, Only(LlamaFlags, dest, spellings),
           LlamaFlags[dest].flags[1] \in spellings,
           LlamaFlags[dest].widget \notin {"bool", "list"},
           NEW value, Sets(settings, dest, value),
           NEW a \in Seq(Token(Words)), \A t \in ToSet(a) : t.says \notin LlamaSizes
    PROVE  FlagValue(a \o Rendered(LlamaFlags, settings, isVllm), spellings)
             = IF IsDefault(LlamaFlags[dest], value) THEN <<>> ELSE <<value>>
<1> DEFINE none == <<>>
           b == Rendered(LlamaFlags, settings, isVllm)
           argv == a \o b
<1>1. none \in Seq(Token(Words)) /\ ~Names(none, spellings)
  BY EmptySeq DEF Names, ToSet
<1>2. ~Names(a, spellings)
  BY DEF Names
<1>3. spellings \subseteq Spelled
  BY SpelledFlags DEF LlamaSizes
<1>4. Speaks(LlamaFlags)
  BY SchemasSpeak
<1>5. b \in Seq(Token(Words))
  BY <1>4, RenderedTyped
<1>6. argv \in Seq(Token(Words)) /\ argv \o <<>> = argv
  <2> HIDE DEF b
  <2>1. argv \in Seq(Token(Words))
    BY <1>5, Begins
  <2> HIDE DEF argv
  <2> QED
    BY <2>1, ConcatEmptySeq
<1> HIDE DEF none
<1>7. FlagValue(a \o Rendered(LlamaFlags, settings, isVllm) \o none, spellings)
        = IF IsDefault(LlamaFlags[dest], value) THEN <<>> ELSE <<value>>
  BY <1>1, <1>2, <1>3, <1>4, SettingRead
<1> QED
  BY <1>6, <1>7 DEF none

\* Which flag is rendered for what, and how it may be spelled.
LEMMA LlamaSpellings ==
    /\ Only(LlamaFlags, "n_gpu_layers", {"-ngl", "--gpu-layers", "--n-gpu-layers"})
    /\ Only(LlamaFlags, "ctx_size", {"-c", "--ctx-size"})
    /\ Only(LlamaFlags, "cache_type_k", {"-ctk", "--cache-type-k"})
    /\ Only(LlamaFlags, "cache_type_v", {"-ctv", "--cache-type-v"})
    /\ Only(LlamaFlags, "ubatch_size", {"-ub", "--ubatch-size"})
    /\ Only(LlamaFlags, "flash_attn", {"-fa", "--flash-attn"})
<1>1. \A e \in DOMAIN LlamaFlags : \A t \in ToSet(LlamaFlags[e].negative) : t.says = "--no-jinja"
  <2>1. \A e \in DOMAIN LlamaFlags : \A t \in ToSet(LlamaFlags[e].negative) : t = Word("--no-jinja")
    BY LlamaTable
  <2>2. Word("--no-jinja").says = "--no-jinja"
    BY Said
  <2> QED
    BY <2>1, <2>2
<1>2. Only(LlamaFlags, "n_gpu_layers", {"-ngl", "--gpu-layers", "--n-gpu-layers"})
  BY <1>1, LlamaTable DEF Only
<1>3. Only(LlamaFlags, "ctx_size", {"-c", "--ctx-size"})
  BY <1>1, LlamaTable DEF Only
<1>4. Only(LlamaFlags, "cache_type_k", {"-ctk", "--cache-type-k"})
  BY <1>1, LlamaTable DEF Only
<1>5. Only(LlamaFlags, "cache_type_v", {"-ctv", "--cache-type-v"})
  BY <1>1, LlamaTable DEF Only
<1>6. Only(LlamaFlags, "ubatch_size", {"-ub", "--ubatch-size"})
  BY <1>1, LlamaTable DEF Only
<1>7. Only(LlamaFlags, "flash_attn", {"-fa", "--flash-attn"})
  BY <1>1, LlamaTable DEF Only
<1> QED
  BY <1>2, <1>3, <1>4, <1>5, <1>6, <1>7

\* As far as memory goes, flags are the same.
SameSizes(params, flags) ==
    /\ params.layers = flags.layers /\ params.ctx = flags.ctx
    /\ CacheBlock(params.k) = CacheBlock(flags.k) /\ CacheBlock(params.v) = CacheBlock(flags.v)
    /\ Ubatch(params) = Ubatch(flags) /\ (params.flash = "off" <=> flags.flash = "off")
    /\ params.companions = 0

\* The command of llama.cpp is read for what the form sets.
LEMMA LlamaRead ==
    ASSUME NEW settings \in Seq(Settled), NEW flags \in LlamaSet, ~Vllm,
           \A s \in ToSet(settings) : Quiet(s[2]),
           \A s \in ToSet(Sizes(flags)) : Sets(settings, s[1], s[2]),
           NEW isVllm,
           NEW a \in Seq(Token(Words)), \A t \in ToSet(a) : t.says \notin LlamaSizes
    PROVE  SameSizes(LlamaParams(a \o Rendered(LlamaFlags, settings, isVllm)), flags)
<1> DEFINE argv == a \o Rendered(LlamaFlags, settings, isVllm)
           layers == IF flags.layers = Every THEN Word("all") ELSE Number(flags.layers)
           params == LlamaParams(argv)
<1>1. /\ Sets(settings, "n_gpu_layers", layers) /\ Sets(settings, "ctx_size", Number(flags.ctx))
      /\ Sets(settings, "cache_type_k", Word(flags.k))
      /\ Sets(settings, "cache_type_v", Word(flags.v))
      /\ Sets(settings, "ubatch_size", Unless(0, flags.ubatch))
      /\ Sets(settings, "flash_attn", Word(flags.flash))
  <2>1. /\ <<"n_gpu_layers", layers>> \in ToSet(Sizes(flags))
        /\ <<"ctx_size", Number(flags.ctx)>> \in ToSet(Sizes(flags))
        /\ <<"cache_type_k", Word(flags.k)>> \in ToSet(Sizes(flags))
        /\ <<"cache_type_v", Word(flags.v)>> \in ToSet(Sizes(flags))
        /\ <<"ubatch_size", Unless(0, flags.ubatch)>> \in ToSet(Sizes(flags))
        /\ <<"flash_attn", Word(flags.flash)>> \in ToSet(Sizes(flags))
    BY DEF Sizes, ToSet
  <2>2. \A x, y : <<x, y>>[1] = x /\ <<x, y>>[2] = y
    OBVIOUS
  <2> HIDE DEF layers
  <2> QED
    BY <2>1, <2>2
<1>2. \A d \in {"n_gpu_layers", "ctx_size", "cache_type_k", "cache_type_v", "ubatch_size",
                "flash_attn"} :
         /\ d \in DOMAIN LlamaFlags \ Managed /\ LlamaFlags[d].widget \notin {"bool", "list"}
  BY LlamaTable DEF Managed
<1> HIDE DEF layers
<1>3. FlagValue(argv, {"-ngl", "--gpu-layers", "--n-gpu-layers"})
        = IF layers \in {Blank, Word("auto")} THEN <<>> ELSE <<layers>>
  <2> DEFINE S == {"-ngl", "--gpu-layers", "--n-gpu-layers"}
             dest == "n_gpu_layers"
  <2>1. /\ dest \in DOMAIN LlamaFlags \ Managed /\ LlamaFlags[dest].widget \notin {"bool", "list"}
        /\ Sets(settings, dest, layers)
    BY <1>1, <1>2
  <2>2. S \in SUBSET LlamaSizes /\ Only(LlamaFlags, dest, S)
    BY LlamaSpellings DEF LlamaSizes
  <2>3. LlamaFlags[dest].flags[1] \in S /\ LlamaFlags[dest].default = Word("auto")
    BY LlamaTable
  <2> HIDE DEF S, dest
  <2>4. FlagValue(a \o Rendered(LlamaFlags, settings, isVllm), S)
          = IF IsDefault(LlamaFlags[dest], layers) THEN <<>> ELSE <<layers>>
    BY <2>1, <2>2, <2>3, LlamaFlagRead
  <2> QED
    BY <2>3, <2>4 DEF IsDefault, S
<1>4. FlagValue(argv, {"-c", "--ctx-size"})
        = IF Number(flags.ctx) \in {Blank, Number(0)} THEN <<>> ELSE <<Number(flags.ctx)>>
  <2> DEFINE S == {"-c", "--ctx-size"}
             dest == "ctx_size"
             value == Number(flags.ctx)
  <2>1. /\ dest \in DOMAIN LlamaFlags \ Managed /\ LlamaFlags[dest].widget \notin {"bool", "list"}
        /\ Sets(settings, dest, value)
    BY <1>1, <1>2
  <2>2. S \in SUBSET LlamaSizes /\ Only(LlamaFlags, dest, S)
    BY LlamaSpellings DEF LlamaSizes
  <2>3. LlamaFlags[dest].flags[1] \in S /\ LlamaFlags[dest].default = Number(0)
    BY LlamaTable
  <2> HIDE DEF S, dest, value
  <2>4. FlagValue(a \o Rendered(LlamaFlags, settings, isVllm), S)
          = IF IsDefault(LlamaFlags[dest], value) THEN <<>> ELSE <<value>>
    BY <2>1, <2>2, <2>3, LlamaFlagRead
  <2> QED
    BY <2>3, <2>4 DEF IsDefault, S, value
<1>5. FlagValue(argv, {"-ctk", "--cache-type-k"})
        = IF Word(flags.k) \in {Blank, Word("f16")} THEN <<>> ELSE <<Word(flags.k)>>
  <2> DEFINE S == {"-ctk", "--cache-type-k"}
             dest == "cache_type_k"
             value == Word(flags.k)
  <2>1. /\ dest \in DOMAIN LlamaFlags \ Managed /\ LlamaFlags[dest].widget \notin {"bool", "list"}
        /\ Sets(settings, dest, value)
    BY <1>1, <1>2
  <2>2. S \in SUBSET LlamaSizes /\ Only(LlamaFlags, dest, S)
    BY LlamaSpellings DEF LlamaSizes
  <2>3. LlamaFlags[dest].flags[1] \in S /\ LlamaFlags[dest].default = Word("f16")
    BY LlamaTable
  <2> HIDE DEF S, dest, value
  <2>4. FlagValue(a \o Rendered(LlamaFlags, settings, isVllm), S)
          = IF IsDefault(LlamaFlags[dest], value) THEN <<>> ELSE <<value>>
    BY <2>1, <2>2, <2>3, LlamaFlagRead
  <2> QED
    BY <2>3, <2>4 DEF IsDefault, S, value
<1>6. FlagValue(argv, {"-ctv", "--cache-type-v"})
        = IF Word(flags.v) \in {Blank, Word("f16")} THEN <<>> ELSE <<Word(flags.v)>>
  <2> DEFINE S == {"-ctv", "--cache-type-v"}
             dest == "cache_type_v"
             value == Word(flags.v)
  <2>1. /\ dest \in DOMAIN LlamaFlags \ Managed /\ LlamaFlags[dest].widget \notin {"bool", "list"}
        /\ Sets(settings, dest, value)
    BY <1>1, <1>2
  <2>2. S \in SUBSET LlamaSizes /\ Only(LlamaFlags, dest, S)
    BY LlamaSpellings DEF LlamaSizes
  <2>3. LlamaFlags[dest].flags[1] \in S /\ LlamaFlags[dest].default = Word("f16")
    BY LlamaTable
  <2> HIDE DEF S, dest, value
  <2>4. FlagValue(a \o Rendered(LlamaFlags, settings, isVllm), S)
          = IF IsDefault(LlamaFlags[dest], value) THEN <<>> ELSE <<value>>
    BY <2>1, <2>2, <2>3, LlamaFlagRead
  <2> QED
    BY <2>3, <2>4 DEF IsDefault, S, value
<1>7. FlagValue(argv, {"-ub", "--ubatch-size"})
        = IF Unless(0, flags.ubatch) \in {Blank, Number(DefaultUbatch)} THEN <<>>
          ELSE <<Unless(0, flags.ubatch)>>
  <2> DEFINE S == {"-ub", "--ubatch-size"}
             dest == "ubatch_size"
             value == Unless(0, flags.ubatch)
  <2>1. /\ dest \in DOMAIN LlamaFlags \ Managed /\ LlamaFlags[dest].widget \notin {"bool", "list"}
        /\ Sets(settings, dest, value)
    BY <1>1, <1>2
  <2>2. S \in SUBSET LlamaSizes /\ Only(LlamaFlags, dest, S)
    BY LlamaSpellings DEF LlamaSizes
  <2>3. LlamaFlags[dest].flags[1] \in S /\ LlamaFlags[dest].default = Number(DefaultUbatch)
    BY LlamaTable
  <2> HIDE DEF S, dest, value
  <2>4. FlagValue(a \o Rendered(LlamaFlags, settings, isVllm), S)
          = IF IsDefault(LlamaFlags[dest], value) THEN <<>> ELSE <<value>>
    BY <2>1, <2>2, <2>3, LlamaFlagRead
  <2> QED
    BY <2>3, <2>4 DEF IsDefault, S, value
<1>8. FlagValue(argv, {"-fa", "--flash-attn"})
        = IF Word(flags.flash) \in {Blank, Word("auto")} THEN <<>> ELSE <<Word(flags.flash)>>
  <2> DEFINE S == {"-fa", "--flash-attn"}
             dest == "flash_attn"
             value == Word(flags.flash)
  <2>1. /\ dest \in DOMAIN LlamaFlags \ Managed /\ LlamaFlags[dest].widget \notin {"bool", "list"}
        /\ Sets(settings, dest, value)
    BY <1>1, <1>2
  <2>2. S \in SUBSET LlamaSizes /\ Only(LlamaFlags, dest, S)
    BY LlamaSpellings DEF LlamaSizes
  <2>3. LlamaFlags[dest].flags[1] \in S /\ LlamaFlags[dest].default = Word("auto")
    BY LlamaTable
  <2> HIDE DEF S, dest, value
  <2>4. FlagValue(a \o Rendered(LlamaFlags, settings, isVllm), S)
          = IF IsDefault(LlamaFlags[dest], value) THEN <<>> ELSE <<value>>
    BY <2>1, <2>2, <2>3, LlamaFlagRead
  <2> QED
    BY <2>3, <2>4 DEF IsDefault, S, value
<1> HIDE DEF argv
<1>n. \A m, n : Number(n) # Blank /\ Number(n).number = <<n>> /\ (Number(m) = Number(n) => m = n)
  <2>1. \A n : Number(n).number = <<n>> /\ Number(n) # Blank
    BY WordsAreTame
  <2>2. \A m, n : <<m>> = <<n>> => m = n
    OBVIOUS
  <2>3. \A m, n : Number(m) = Number(n) => <<m>> = <<n>>
    BY <2>1
  <2> QED
    BY <2>1, <2>2, <2>3
<1>w. \A w, x : Word(w).says = w /\ (Word(w) = Word(x) => w = x) /\ (Word(w) = Blank => w = "")
  <2>1. \A w : Word(w).says = w
    BY Said
  <2>2. Blank.says = ""
    BY WordsAreTame
  <2> QED
    BY <2>1, <2>2
<1>m. \A n, w : Number(n) # Word(w)
  BY WordsAreTame
<1>10. params.layers = flags.layers
  <2> DEFINE S == {"-ngl", "--gpu-layers", "--n-gpu-layers"}
             seen == SeenNumber(argv, S, Every)
  <2>1. params.layers = seen
    BY DEF LlamaParams, NGpuLayers
  <2>2. CASE flags.layers = Every
    <3>1. layers = Word("all")
      BY <2>2 DEF layers
    <3>2. FlagValue(argv, S) = <<layers>>
      <4>1. Word("all") # Blank /\ Word("all") # Word("auto")
        BY <1>w
      <4> QED
        BY <1>3, <3>1, <4>1
    <3>3. seen = Every
      <4>1. Word("all").number = <<>>
        BY Said
      <4> QED
        BY <3>1, <3>2, <4>1, SeenAs
    <3> QED
      BY <2>1, <2>2, <3>3
  <2>3. CASE flags.layers # Every
    <3>1. layers = Number(flags.layers)
      BY <2>3 DEF layers
    <3>2. FlagValue(argv, S) = <<Number(flags.layers)>>
      BY <1>3, <1>n, <1>m, <3>1
    <3>3. seen = flags.layers
      BY <1>n, <3>2, SeenAs
    <3> QED
      BY <2>1, <3>3
  <2> QED
    BY <2>2, <2>3
<1>11. params.ctx = flags.ctx
  <2> DEFINE S == {"-c", "--ctx-size"}
             seen == SeenNumber(argv, S, 0)
  <2>1. params.ctx = seen
    BY DEF LlamaParams
  <2>2. CASE flags.ctx = 0
    <3>1. FlagValue(argv, S) = <<>>
      BY <1>4, <2>2
    <3> QED
      BY <2>1, <2>2, <3>1, SeenAs
  <2>3. CASE flags.ctx # 0
    <3>1. FlagValue(argv, S) = <<Number(flags.ctx)>>
      BY <1>4, <1>n, <2>3
    <3>2. seen = flags.ctx
      BY <1>n, <3>1, SeenAs
    <3> QED
      BY <2>1, <3>2
  <2> QED
    BY <2>2, <2>3
<1>12. CacheBlock("") = CacheBlock("f16")
  BY DEF CacheBlock
<1>13. CacheBlock(params.k) = CacheBlock(flags.k)
  <2> DEFINE S == {"-ctk", "--cache-type-k"}
             seen == SeenWord(argv, S, "f16")
  <2>1. params.k = seen
    BY DEF LlamaParams
  <2>2. CASE Word(flags.k) \in {Blank, Word("f16")}
    <3>1. FlagValue(argv, S) = <<>>
      BY <1>5, <2>2
    <3>2. seen = "f16"
      BY <3>1, SeenAs
    <3>3. flags.k \in {"", "f16"}
      BY <1>w, <2>2
    <3> QED
      BY <1>12, <2>1, <3>2, <3>3
  <2>3. CASE Word(flags.k) \notin {Blank, Word("f16")}
    <3>1. FlagValue(argv, S) = <<Word(flags.k)>>
      BY <1>5, <2>3
    <3>2. seen = flags.k
      <4>1. Word(flags.k).says = flags.k
        BY <1>w
      <4>2. seen = Word(flags.k).says
        BY <3>1, SeenAs
      <4> QED
        BY <4>1, <4>2
    <3> QED
      BY <2>1, <3>2
  <2> QED
    BY <2>2, <2>3
<1>14. CacheBlock(params.v) = CacheBlock(flags.v)
  <2> DEFINE S == {"-ctv", "--cache-type-v"}
             seen == SeenWord(argv, S, "f16")
  <2>1. params.v = seen
    BY DEF LlamaParams
  <2>2. CASE Word(flags.v) \in {Blank, Word("f16")}
    <3>1. FlagValue(argv, S) = <<>>
      BY <1>6, <2>2
    <3>2. seen = "f16"
      BY <3>1, SeenAs
    <3>3. flags.v \in {"", "f16"}
      BY <1>w, <2>2
    <3> QED
      BY <1>12, <2>1, <3>2, <3>3
  <2>3. CASE Word(flags.v) \notin {Blank, Word("f16")}
    <3>1. FlagValue(argv, S) = <<Word(flags.v)>>
      BY <1>6, <2>3
    <3>2. seen = flags.v
      <4>1. Word(flags.v).says = flags.v
        BY <1>w
      <4>2. seen = Word(flags.v).says
        BY <3>1, SeenAs
      <4> QED
        BY <4>1, <4>2
    <3> QED
      BY <2>1, <3>2
  <2> QED
    BY <2>2, <2>3
<1>15. Ubatch(params) = Ubatch(flags)
  <2> DEFINE S == {"-ub", "--ubatch-size"}
             seen == SeenNumber(argv, S, 0)
  <2>1. params.ubatch = seen
    BY DEF LlamaParams
  <2> HIDE DEF params
  <2>2. CASE flags.ubatch = 0
    <3>1. FlagValue(argv, S) = <<>>
      BY <1>7, <2>2 DEF Unless
    <3>2. seen = 0
      BY <3>1, SeenAs
    <3> QED
      BY <2>1, <2>2, <3>2 DEF Ubatch
  <2>3. CASE flags.ubatch # 0 /\ flags.ubatch = DefaultUbatch
    <3>1. FlagValue(argv, S) = <<>>
      BY <1>7, <2>3 DEF Unless
    <3>2. seen = 0
      BY <3>1, SeenAs
    <3> QED
      BY <2>1, <2>3, <3>2 DEF Ubatch
  <2>4. CASE flags.ubatch # 0 /\ flags.ubatch # DefaultUbatch
    <3>1. FlagValue(argv, S) = <<Number(flags.ubatch)>>
      BY <1>7, <1>n, <2>4 DEF Unless
    <3>2. seen = flags.ubatch
      BY <1>n, <3>1, SeenAs
    <3> QED
      BY <2>1, <3>2 DEF Ubatch
  <2> QED
    BY <2>2, <2>3, <2>4
<1>16. params.flash = "off" <=> flags.flash = "off"
  <2> DEFINE S == {"-fa", "--flash-attn"}
             seen == SeenWord(argv, S, "auto")
  <2>1. params.flash = seen
    BY DEF LlamaParams
  <2> HIDE DEF params
  <2>2. CASE Word(flags.flash) \in {Blank, Word("auto")}
    <3>1. FlagValue(argv, S) = <<>>
      BY <1>8, <2>2
    <3>2. seen = "auto"
      BY <3>1, SeenAs
    <3>3. flags.flash \in {"", "auto"}
      BY <1>w, <2>2
    <3> QED
      BY <2>1, <3>2, <3>3
  <2>3. CASE Word(flags.flash) \notin {Blank, Word("auto")}
    <3>1. FlagValue(argv, S) = <<Word(flags.flash)>>
      BY <1>8, <2>3
    <3>2. seen = flags.flash
      <4>1. Word(flags.flash).says = flags.flash
        BY <1>w
      <4>2. seen = Word(flags.flash).says
        BY <3>1, SeenAs
      <4> QED
        BY <4>1, <4>2
    <3> QED
      BY <2>1, <3>2
  <2> QED
    BY <2>2, <2>3
<1>17. params.companions = 0
  BY DEF LlamaParams
<1> HIDE DEF params
<1>18. SameSizes(params, flags)
  BY <1>10, <1>11, <1>13, <1>14, <1>15, <1>16, <1>17 DEF SameSizes
<1> QED
  BY <1>18 DEF params, argv

\* And is priced as the form was, but for what is loaded beside the model.
LEMMA LlamaPriced ==
    ASSUME NEW f, IsFile(f), NEW flags \in LlamaSet, NEW params, SameSizes(params, flags)
    PROVE  /\ PriceOf(f, params) <= PriceOf(f, flags)
           /\ flags.companions = 0 => PriceOf(f, params) = PriceOf(f, flags)
<1>1. ASSUME NEW h
      PROVE  /\ Context(h, params) = Context(h, flags)
             /\ Sized(h, params) <=> Sized(h, flags)
             /\ OffloadedBytes(h, params.layers) = OffloadedBytes(h, flags.layers)
             /\ \A c : /\ CacheBytes(h, c, params.k, params.v) = CacheBytes(h, c, flags.k, flags.v)
                       /\ ComputeBytes(h, params, c) = ComputeBytes(h, flags, c)
  <2>1. Context(h, params) = Context(h, flags)
    BY DEF SameSizes, Context
  <2>2. Sized(h, params) <=> Sized(h, flags)
    BY <2>1 DEF Sized
  <2>3. OffloadedBytes(h, params.layers) = OffloadedBytes(h, flags.layers)
    BY DEF SameSizes
  <2>4. ASSUME NEW c
        PROVE  /\ CacheBytes(h, c, params.k, params.v) = CacheBytes(h, c, flags.k, flags.v)
               /\ ComputeBytes(h, params, c) = ComputeBytes(h, flags, c)
    <3>1. CacheBytes(h, c, params.k, params.v) = CacheBytes(h, c, flags.k, flags.v)
      BY DEF SameSizes, CacheBytes
    <3>2. ComputeBytes(h, params, c) = ComputeBytes(h, flags, c)
      BY DEF SameSizes, ComputeBytes
    <3> QED
      BY <3>1, <3>2
  <2> QED
    BY <2>1, <2>2, <2>3, <2>4
<1> DEFINE h == ReadCached(f)[1]
           ctx == Context(h, flags)
           rest == OffloadedBytes(h, flags.layers) + CacheBytes(h, ctx, flags.k, flags.v)
                     + ComputeBytes(h, flags, ctx)
<1>2. CASE ReadCached(f) = <<>>
  BY <1>2 DEF PriceOf
<1>3. CASE ReadCached(f) # <<>>
  <2>1. PriceOf(f, flags) = IF Sized(h, flags) THEN rest + flags.companions ELSE 0
    BY <1>3 DEF PriceOf, Price
  <2>2. PriceOf(f, params) = IF Sized(h, flags) THEN rest + params.companions ELSE 0
    BY <1>1, <1>3 DEF PriceOf, Price
  <2>3. params.companions = 0 /\ flags.companions \in Nat
    BY DEF SameSizes, LlamaSet
  <2>4. rest \in Nat
    <3>1. h = Header(f)
      BY <1>3 DEF ReadCached
    <3>2. Numbered(h) /\ Counted(flags) /\ flags.layers \in Nat
      BY <3>1, HeaderNumbers DEF Counted, LlamaSet
    <3> HIDE DEF h
    <3>3. ctx \in Nat
      BY <3>2 DEF Context, Numbered, Counted
    <3>4. OffloadedBytes(h, flags.layers) \in Nat
      BY <3>2, OffloadGrows
    <3>5. CacheBytes(h, ctx, flags.k, flags.v) \in Nat
      BY <3>2, <3>3, CacheGrows
    <3>6. ComputeBytes(h, flags, ctx) \in Nat
      BY <3>2, <3>3, ComputeGrows
    <3> QED
      BY <3>4, <3>5, <3>6
  <2> HIDE DEF rest, h
  <2> QED
    BY <2>1, <2>2, <2>3, <2>4
<1> QED
  BY <1>2, <1>3

\* A flag and its value by themselves.
LEMMA FlagAndValue ==
    ASSUME NEW w, NEW value, NEW spellings, value.says \notin spellings
    PROVE  /\ Gives(<<Word(w), value>>, spellings, value)
           /\ Names(<<Word(w), value>>, spellings) <=> w \in spellings
<1> DEFINE y == <<Word(w), value>>
<1>1. DOMAIN y = {1, 2} /\ y[1] = Word(w) /\ y[2] = value
  OBVIOUS
<1>2. ToSet(y) = {Word(w), value}
  BY <1>1 DEF ToSet
<1>3. Word(w).says = w /\ Word(w).joined = <<>>
  BY Said
<1> HIDE DEF y
<1>4. Names(y, spellings) <=> w \in spellings
  BY <1>2, <1>3 DEF Names
<1>5. Gives(y, spellings, value)
  BY <1>1, <1>3 DEF Gives
<1> QED
  BY <1>4, <1>5 DEF y

\* The model of a command is the one that was given.
LEMMA LlamaModelRead ==
    ASSUME NEW settings \in Seq(Settled), \A s \in ToSet(settings) : Quiet(s[2]),
           NEW model \in Token(Words), Quiet(model), NEW port \in Nat, NEW isVllm
    PROVE  LlamaModel(LlamaHead(model, port) \o Rendered(LlamaFlags, settings, isVllm)) = model
<1> DEFINE T == Token(Words)
           x == LlamaServes(port)
           y == LlamaNames(model)
           m == <<Word("--metrics")>>
           b == Rendered(LlamaFlags, settings, isVllm)
           c == m \o b
           argv == LlamaHead(model, port) \o b
           P == {"-m", "--model"}
           H == {"-hf", "-hfr", "--hf-repo"}
<1>1. /\ x \in Seq(T) /\ y \in Seq(T) /\ m \in Seq(T)
      /\ \A t \in ToSet(x) \cup ToSet(m) : t.says \notin P \cup H
  BY LlamaHeadTokens DEF LlamaRefs
<1>2. b \in Seq(T)
  BY SchemasSpeak, RenderedTyped
<1>3. P \subseteq Spelled /\ H \subseteq Spelled
  BY SpelledFlags
<1>4. \A e \in DOMAIN LlamaFlags : LlamaFlags[e].flags[1] \notin P \cup H
  BY LlamaTable
<1>5. \A e \in DOMAIN LlamaFlags : \A t \in ToSet(LlamaFlags[e].negative) : t.says \notin P \cup H
  <2>1. \A e \in DOMAIN LlamaFlags : \A t \in ToSet(LlamaFlags[e].negative) : t = Word("--no-jinja")
    BY LlamaTable
  <2>2. Word("--no-jinja").says \notin P \cup H
    BY Said
  <2> QED
    BY <2>1, <2>2
<1>6. argv = x \o y \o m \o b
  BY DEF LlamaHead
<1> HIDE DEF P, H
<1>7. ~Names(b, P) /\ ~Names(b, H)
  <2>1. \A s \in ToSet(settings) : Silent(s, P) /\ Silent(s, H)
    BY <1>3 DEF Quiet, Silent
  <2> QED
    BY <1>4, <1>5, <2>1, SchemasSpeak, RenderedNone
<1> HIDE DEF x, y, m, b, argv, T
<1>8. argv = x \o y \o c
  <2> DEFINE xy == x \o y
  <2>1. xy \in Seq(T) /\ m \in Seq(T) /\ b \in Seq(T)
    BY <1>1, <1>2, Begins
  <2> HIDE DEF xy
  <2>2. (xy \o m) \o b = xy \o (m \o b)
    BY <2>1, ConcatAssociative
  <2> QED
    BY <1>6, <2>2 DEF c, xy
<1>9. c \in Seq(T) /\ ~Names(c, P) /\ ~Names(c, H) /\ ~Names(x, P) /\ ~Names(x, H)
  <2>1. c \in Seq(T) /\ ToSet(c) = ToSet(m) \cup ToSet(b)
    BY <1>1, <1>2, Begins, Elements
  <2> QED
    BY <1>1, <1>7, <2>1 DEF Names
<1> HIDE DEF c
<1>10. ASSUME NEW S, Gives(y, S, model), ~Names(x, S), ~Names(c, S)
       PROVE  FlagValue(argv, S) = IF Names(y, S) THEN <<model>> ELSE <<>>
  <2>1. FlagValue(x \o y \o c, S) = IF Names(y, S) THEN <<model>> ELSE <<>>
    BY <1>1, <1>9, <1>10, ReadAmid
  <2> QED
    BY <1>8, <2>1
<1>11. LlamaModel(argv) = OneToken(FlagValue(argv, P) \o FlagValue(argv, H))
  BY DEF LlamaModel, P, H
<1>12. OneToken(<<>> \o <<>>) = Blank /\ OneToken(<<model>> \o <<>>) = model
       /\ OneToken(<<>> \o <<model>>) = model
  BY DEF OneToken
<1>13. model.says \notin P /\ model.says \notin H
  BY <1>3, QuietIsTame
<1>14. CASE model = Blank
  <2>1. ~Names(y, P) /\ ~Names(y, H)
    BY <1>14 DEF y, LlamaNames, Names, ToSet
  <2>2. Gives(y, P, model) /\ Gives(y, H, model)
    BY <2>1, GivesNone
  <2>3. FlagValue(argv, P) = <<>> /\ FlagValue(argv, H) = <<>>
    BY <1>9, <1>10, <2>1, <2>2
  <2>4. LlamaModel(argv) = model
    BY <1>11, <1>12, <1>14, <2>3
  <2> QED
    BY <2>4 DEF argv, b
<1>15. CASE model # Blank /\ LooksLikePath(model)
  <2>1. y = <<Word("-m"), model>>
    BY <1>15 DEF y, LlamaNames
  <2>2. "-m" \in P /\ "-m" \notin H
    BY DEF P, H
  <2>3. Gives(y, P, model) /\ Gives(y, H, model) /\ Names(y, P) /\ ~Names(y, H)
    BY <1>13, <2>1, <2>2, FlagAndValue
  <2>4. FlagValue(argv, P) = <<model>> /\ FlagValue(argv, H) = <<>>
    BY <1>9, <1>10, <2>3
  <2>5. LlamaModel(argv) = model
    BY <1>11, <1>12, <2>4
  <2> QED
    BY <2>5 DEF argv, b
<1>16. CASE model # Blank /\ ~LooksLikePath(model)
  <2>1. y = <<Word("-hf"), model>>
    BY <1>16 DEF y, LlamaNames
  <2>2. "-hf" \notin P /\ "-hf" \in H
    BY DEF P, H
  <2>3. Gives(y, P, model) /\ Gives(y, H, model) /\ ~Names(y, P) /\ Names(y, H)
    BY <1>13, <2>1, <2>2, FlagAndValue
  <2>4. FlagValue(argv, P) = <<>> /\ FlagValue(argv, H) = <<model>>
    BY <1>9, <1>10, <2>3
  <2>5. LlamaModel(argv) = model
    BY <1>11, <1>12, <2>4
  <2> QED
    BY <2>5 DEF argv, b
<1> QED
  BY <1>14, <1>15, <1>16

\* What llama.cpp is priced at.
LlamaTakes(flags, model, f) == IF Opens(model) THEN PriceOf(f, flags) ELSE 0

\* A container of llama.cpp that was started from a form is found, named and
\* priced by its command.
LEMMA LlamaCommand ==
    ASSUME NEW settings \in Seq(Settled), NEW flags \in LlamaSet, ~Vllm,
           \A s \in ToSet(settings) : Quiet(s[2]) /\ s[1] # "master_port",
           \A s \in ToSet(Sizes(flags)) : Sets(settings, s[1], s[2]),
           NEW model \in Token(Words), Quiet(model), NEW port \in Nat, NEW f, IsFile(f)
    PROVE  LET argv == LlamaArgv(model, settings, port)
           IN  /\ Listed(Started(argv)).engine = "llamacpp"
               /\ Listed(Started(argv)).model = model
               /\ MasterPort(argv) = 0
               /\ \A pool :
                    /\ SeenPrice(Started(argv), f, pool) <= LlamaTakes(flags, model, f)
                    /\ flags.companions = 0
                         => SeenPrice(Started(argv), f, pool) = LlamaTakes(flags, model, f)
<1> DEFINE T == Token(Words)
           no == FALSE
           h == LlamaHead(model, port)
           b == Rendered(LlamaFlags, settings, no)
           argv == LlamaArgv(model, settings, port)
           x == LlamaServes(port)
           y == LlamaNames(model)
           m == <<Word("--metrics")>>
<1>1. argv = h \o b
  BY DEF LlamaArgv, LlamaHead, LlamaServes, LlamaNames
<1>2. b \in Seq(T) /\ (\A t \in ToSet(b) : Tame(t))
  <2>1. no \in BOOLEAN /\ (IF no THEN VllmFlags ELSE LlamaFlags) = LlamaFlags
    OBVIOUS
  <2> HIDE DEF no
  <2>2. \A s \in ToSet(settings) : Tame(s[2])
    BY QuietIsTame
  <2>3. \A t \in ToSet(Rendered(IF no THEN VllmFlags ELSE LlamaFlags, settings, no)) : Tame(t)
    BY <2>1, <2>2, RenderedTame
  <2> QED
    BY <2>1, <2>3, SchemasSpeak, RenderedTyped
<1>3. ~Names(b, {"--master-port"})
  <2> DEFINE F == {"--master-port"}
  <2>1. \A e \in DOMAIN LlamaFlags : LlamaFlags[e].flags[1] \notin F
    BY LlamaTable
  <2>2. \A e \in DOMAIN LlamaFlags : \A t \in ToSet(LlamaFlags[e].negative) : t.says \notin F
    <3>1. \A e \in DOMAIN LlamaFlags : \A t \in ToSet(LlamaFlags[e].negative) : t = Word("--no-jinja")
      BY LlamaTable
    <3>2. Word("--no-jinja").says \notin F
      BY Said
    <3> QED
      BY <3>1, <3>2
  <2>3. F \subseteq Spelled
    BY SpelledFlags
  <2> HIDE DEF F, no
  <2>4. \A s \in ToSet(settings) : Silent(s, F)
    BY <2>3 DEF Quiet, Silent
  <2>5. ~Names(b, F)
    BY <2>1, <2>2, <2>4, SchemasSpeak, RenderedNone
  <2> QED
    BY <2>5 DEF F
<1>4. /\ x \in Seq(T) /\ y \in Seq(T) /\ m \in Seq(T) /\ Len(x) = 5
      /\ x[1] = Word("llama-server") /\ x[2] = Word("--host")
      /\ \A t \in ToSet(x) \cup ToSet(m) \cup ToSet(y) :
            Tame(t) /\ t.says \notin LlamaSizes \cup {"--master-port"}
  BY LlamaHeadTokens
<1>5. h = x \o y \o m
  BY DEF LlamaHead
<1>6. LlamaModel(h \o b) = model
  <2> HIDE DEF no
  <2> QED
    BY LlamaModelRead
<1> HIDE DEF T, x, y, m, h
<1>7. /\ h \in Seq(T) /\ Len(h) >= 5 /\ Len(h) \in Nat /\ h[1] = x[1] /\ h[2] = x[2]
      /\ ToSet(h) = ToSet(x) \cup ToSet(y) \cup ToSet(m)
  <2> DEFINE xy == x \o y
  <2>0. 1 \in 1..Len(x) /\ 2 \in 1..Len(x)
    BY <1>4
  <2>1. /\ xy \in Seq(T) /\ Len(xy) = Len(x) + Len(y) /\ Len(y) \in Nat
        /\ \A i \in 1..Len(x) : xy[i] = x[i]
    BY <1>4, Begins
  <2>2. ToSet(xy) = ToSet(x) \cup ToSet(y)
    BY <1>4, Elements
  <2> HIDE DEF xy
  <2>3. h = xy \o m
    BY <1>5 DEF xy
  <2>4. /\ xy \o m \in Seq(T) /\ Len(xy \o m) = Len(xy) + Len(m) /\ Len(m) \in Nat
        /\ \A i \in 1..Len(xy) : (xy \o m)[i] = xy[i]
    <3>1. xy \in Seq(T) /\ m \in Seq(T)
      BY <1>4, <2>1
    <3> QED
      BY <3>1, Begins
  <2>5. ToSet(xy \o m) = ToSet(xy) \cup ToSet(m)
    BY <1>4, <2>1, Elements
  <2>6. 1 \in 1..Len(xy) /\ 2 \in 1..Len(xy)
    BY <1>4, <2>1
  <2> QED
    BY <1>4, <2>0, <2>1, <2>2, <2>3, <2>4, <2>5, <2>6
<1>8. SameSizes(LlamaParams(h \o b), flags)
  <2>1. h \in Seq(Token(Words)) /\ \A t \in ToSet(h) : t.says \notin LlamaSizes
    BY <1>4, <1>7 DEF T
  <2>2. \A s \in ToSet(settings) : Quiet(s[2])
    OBVIOUS
  <2> HIDE DEF no
  <2> QED
    BY <2>1, <2>2, LlamaRead
<1> HIDE DEF b, argv
<1>9. /\ argv \in Seq(T) /\ Len(argv) >= 2 /\ argv[1] = Word("llama-server")
      /\ argv[2] = Word("--host") /\ ToSet(argv) = ToSet(h) \cup ToSet(b)
  <2>1. /\ h \o b \in Seq(T) /\ Len(h \o b) = Len(h) + Len(b) /\ Len(b) \in Nat
        /\ \A i \in 1..Len(h) : (h \o b)[i] = h[i]
    BY <1>2, <1>7, Begins
  <2>2. ToSet(h \o b) = ToSet(h) \cup ToSet(b)
    BY <1>2, <1>7, Elements
  <2>3. 1 \in 1..Len(h) /\ 2 \in 1..Len(h)
    BY <1>7
  <2> QED
    BY <1>1, <1>4, <1>7, <2>1, <2>2, <2>3
<1>10. \A t \in ToSet(argv) : Tame(t)
  BY <1>2, <1>4, <1>7, <1>9
<1>11. /\ ArgvOf(argv, VllmProgram) = argv
       /\ \A g, pool : SeenPrice(Started(argv), g, pool)
                         = LaunchPrice(FALSE, LlamaParams(argv), LlamaModel(argv), g, pool)
       /\ Listed(Started(argv)).engine = "llamacpp"
       /\ Listed(Started(argv)).model = LlamaModel(argv)
  BY <1>9, <1>10, LlamaSeen DEF T
<1>12. LlamaModel(argv) = model
  BY <1>1, <1>6
<1>13. MasterPort(argv) = 0
  <2>1. ~Names(argv, {"--master-port"})
    BY <1>3, <1>4, <1>7, <1>9 DEF Names
  <2>2. MasterPortIn(argv) = 0
    BY <2>1, NoPort
  <2> QED
    BY <1>11, <2>2 DEF MasterPort
<1> DEFINE params == LlamaParams(argv)
<1>14. /\ PriceOf(f, params) <= PriceOf(f, flags)
       /\ flags.companions = 0 => PriceOf(f, params) = PriceOf(f, flags)
  <2>1. SameSizes(params, flags)
    BY <1>1, <1>8
  <2> HIDE DEF params
  <2> QED
    BY <2>1, LlamaPriced
<1>15. ASSUME NEW pool
       PROVE  /\ SeenPrice(Started(argv), f, pool) <= LlamaTakes(flags, model, f)
              /\ flags.companions = 0
                   => SeenPrice(Started(argv), f, pool) = LlamaTakes(flags, model, f)
  <2> DEFINE seen == SeenPrice(Started(argv), f, pool)
             takes == LlamaTakes(flags, model, f)
  <2> HIDE DEF params
  <2>1. seen = IF Opens(model) THEN PriceOf(f, params) ELSE 0
    BY <1>11, <1>12 DEF LaunchPrice, params
  <2>2. takes = IF Opens(model) THEN PriceOf(f, flags) ELSE 0
    BY DEF LlamaTakes
  <2> HIDE DEF seen, takes
  <2>3. seen <= takes /\ (flags.companions = 0 => seen = takes)
    BY <1>14, <2>1, <2>2
  <2> QED
    BY <2>3 DEF seen, takes
<1>16. /\ Listed(Started(argv)).engine = "llamacpp" /\ Listed(Started(argv)).model = model
       /\ MasterPort(argv) = 0
  BY <1>11, <1>12, <1>13
<1> QED
  BY <1>15, <1>16 DEF argv

\* An engine of llama.cpp is read as it was launched.
LEMMA LlamaReadAs ==
    ASSUME asked \in Questions, Ordinary(asked), ~Vllm, ~Pooled, NEW flags, Fits(flags),
           Saved(flags), NEW r \in DOMAIN asked.at, NEW pool
    PROVE  ReadAs(Engine(flags)[r], pool)
<1> DEFINE form == Form(flags)
           all == AllSettings(Vllm, form, asked.named)
           argv == LlamaArgv(asked.ref, all, Http)
           f == asked.model
           zero == 0
           e == Launched(flags, zero, argv)
<1>1. /\ flags \in LlamaSet /\ asked.engine = "llamacpp" /\ IsFile(f) /\ Http \in Nat
      /\ DOMAIN asked.at = 1..Len(asked.at) /\ Len(asked.at) \in Nat \ {0}
  <2>1. IsForm(asked)
    BY AdviceAssumption
  <2>2. asked.engine = "llamacpp" /\ IsFile(f)
    BY <2>1 DEF IsForm, Vllm
  <2>3. DOMAIN asked.at = 1..Len(asked.at) /\ Len(asked.at) \in Nat \ {0}
    BY AdviceAssumption
  <2> QED
    BY <2>2, <2>3 DEF Fits, Http
<1>2. asked.ref \in Token(Words) /\ Quiet(asked.ref)
  <2>1. Token(STRING) \subseteq Token(Words)
    BY TokensGrow DEF Words
  <2> QED
    BY <2>1, AdviceAssumption DEF IsForm, Ordinary
<1>3. Len(asked.at) = 1 /\ r = 1
  <2> DEFINE n == Len(asked.at)
  <2>1. ~(n > 1)
    BY DEF Pooled
  <2>2. n \in Nat \ {0} /\ r \in 1..n
    BY <1>1
  <2> HIDE DEF n
  <2>3. n = 1 /\ r = 1
    BY <2>1, <2>2
  <2> QED
    BY <2>3 DEF n
<1>4. /\ all \in Seq(Settled)
      /\ \A s \in ToSet(all) : Quiet(s[2]) /\ s[1] # "master_port"
      /\ \A s \in ToSet(Sizes(flags)) : Sets(all, s[1], s[2])
      /\ BuildCommand(Vllm, asked.ref, form, asked.named, Http)
           = IF Vllm THEN VllmArgv(asked.ref, all, Http) ELSE argv
  BY <1>3, CommandIsQuiet
<1> HIDE DEF all
<1>5. Engine(flags)[r] = e
  <2>1. Engine(flags) = <<Launched(flags, 0, BuildCommand(Vllm, asked.ref, form, asked.named, Http))>>
    BY AloneIs
  <2>2. BuildCommand(Vllm, asked.ref, form, asked.named, Http) = argv
    BY <1>4
  <2> HIDE DEF argv, form
  <2>3. Engine(flags) = <<e>>
    BY <2>1, <2>2
  <2> HIDE DEF e
  <2> QED
    BY <1>3, <2>3
<1> DEFINE takes == LlamaTakes(flags, asked.ref, f)
<1>6. /\ Listed(Started(argv)).engine = "llamacpp" /\ Listed(Started(argv)).model = asked.ref
      /\ MasterPort(argv) = 0
      /\ SeenPrice(Started(argv), f, pool) <= takes
      /\ flags.companions = 0 => SeenPrice(Started(argv), f, pool) = takes
  <2> DEFINE model == asked.ref
             port == Http
  <2>1. model \in Token(Words) /\ Quiet(model) /\ port \in Nat /\ IsFile(f) /\ flags \in LlamaSet
    BY <1>1, <1>2
  <2>2. argv = LlamaArgv(model, all, port) /\ takes = LlamaTakes(flags, model, f)
    OBVIOUS
  <2> HIDE DEF model, port, f, argv, takes
  <2>3. LET a == LlamaArgv(model, all, port)
        IN  /\ Listed(Started(a)).engine = "llamacpp"
            /\ Listed(Started(a)).model = model
            /\ MasterPort(a) = 0
            /\ SeenPrice(Started(a), f, pool) <= LlamaTakes(flags, model, f)
            /\ flags.companions = 0
                 => SeenPrice(Started(a), f, pool) = LlamaTakes(flags, model, f)
    BY <1>4, <2>1, LlamaCommand
  <2> QED
    BY <2>2, <2>3 DEF model
<1> HIDE DEF argv
<1>7. /\ e.container = Started(argv) /\ e.container.command = argv /\ e.engine = "llamacpp"
      /\ e.model = asked.ref /\ e.file = f /\ e.port = 0 /\ e.flags = flags
  BY <1>1 DEF Launched, Started, Vllm
<1> HIDE DEF e
<1>8. /\ Takes(e, pool) = takes
      /\ Seen(e, pool) = SeenPrice(Started(argv), f, pool)
  <2>1. Seen(e, pool) = SeenPrice(Started(argv), f, pool)
    BY <1>7 DEF Seen
  <2>2. Takes(e, pool) = IF Opens(asked.ref) THEN PriceOf(f, flags) ELSE 0
    BY <1>7 DEF Takes, LaunchPrice
  <2>3. takes = IF Opens(asked.ref) THEN PriceOf(f, flags) ELSE 0
    BY DEF LlamaTakes
  <2> HIDE DEF takes
  <2> QED
    BY <2>1, <2>2, <2>3
<1>9. SeenWhole(e, pool) <=> flags.companions = 0
  BY <1>7 DEF SeenWhole
<1>10. ReadAs(e, pool)
  <2> HIDE DEF takes
  <2> QED
    BY <1>6, <1>7, <1>8, <1>9 DEF ReadAs
<1> QED
  BY <1>5, <1>10

\* Whatever was launched from a form is read as it was launched.
LEMMA LaunchedIsRead ==
    ASSUME asked \in Questions, Ordinary(asked), NEW flags, Fits(flags), Saved(flags),
           Pooled => Vllm, NEW r \in DOMAIN asked.at
    PROVE  ReadAs(Engine(flags)[r], PoolOf(r))
<1>1. PoolOf(r) \in Pool
  BY SurveyedFigures
<1>2. CASE Vllm
  BY <1>1, <1>2, VllmReadAs
<1>3. CASE ~Vllm
  BY <1>3, LlamaReadAs
<1> QED
  BY <1>2, <1>3

-----------------------------------------------------------------------------
(* What runs as it was advised is not held against itself.                 *)

\* Two surveys that an advice and a check cannot tell apart.
Alike(b, c) ==
    /\ b.pool = c.pool /\ Occupied(b) = Occupied(c)
    /\ AvailableAfterReplacement(b) = AvailableAfterReplacement(c)

\* They are advised alike, and judged alike.
LEMMA AlikeAnswers ==
    ASSUME NEW b, NEW c, Alike(b, c)
    PROVE  /\ \A p, machines, args : VllmAdvice(p, b, machines, args) = VllmAdvice(p, c, machines, args)
           /\ \A path, f, args : LlamaAdvice(path, f, b, args) = LlamaAdvice(path, f, c, args)
           /\ \A price : Judged(b, price) = Judged(c, price)
<1>1. /\ b.pool = c.pool /\ Occupied(b) = Occupied(c)
      /\ AvailableAfterReplacement(b) = AvailableAfterReplacement(c)
  BY DEF Alike
<1>2. FreeToCommit(b) = FreeToCommit(c) /\ MaxBytes(b) = MaxBytes(c)
  BY <1>1 DEF FreeToCommit, MaxBytes
<1>3. SafeUtilisation(b) = SafeUtilisation(c) /\ Spendable(b) = Spendable(c)
  BY <1>1, <1>2 DEF SafeUtilisation, Spendable
<1>4. ASSUME NEW p, NEW machines, NEW args
      PROVE  VllmAdvice(p, b, machines, args) = VllmAdvice(p, c, machines, args)
  <2>1. \A shards : Room(p, b, shards) = Room(p, c, shards)
    BY <1>1, <1>3 DEF Room
  <2>2. \A shards : Utilisation(p, b, shards) = Utilisation(p, c, shards)
    BY <1>1, <1>3 DEF Utilisation
  <2>3. \A shards : Suggestions(p, b, shards, args) = Suggestions(p, c, shards, args)
    BY <2>1, <2>2 DEF Suggestions
  <2>4. Warnings(p, b, machines, args) = Warnings(p, c, machines, args)
    BY <1>1 DEF Warnings
  <2> DEFINE L == Larger(1, machines)
             why == Blocker(p, AvailableAfterReplacement(c), L)
             S == Suggestions(p, c, L, args)
             W == Warnings(p, c, machines, args)
  <2>5. /\ Blocker(p, AvailableAfterReplacement(b), L) = why
        /\ Suggestions(p, b, L, args) = S /\ Warnings(p, b, machines, args) = W
    BY <1>1, <2>3, <2>4
  <2>6. Room(p, b, L) <=> Room(p, c, L)
    BY <1>1, <1>3 DEF Room
  <2> HIDE DEF why, S, W
  <2>7. CASE Room(p, c, L)
    <3> DEFINE answer == IF why # "none" THEN Refusal(why)
                         ELSE IF Unsplittable(p, machines) THEN Refusal("sampler")
                         ELSE [ok |-> TRUE, why |-> "", level |-> IF W # {} THEN "warn" ELSE "ok",
                               set |-> S, warnings |-> W, hint |-> ""]
    <3>1. Room(p, b, L) = TRUE /\ Room(p, c, L) = TRUE
      BY <2>6, <2>7 DEF Room
    <3>2. VllmAdvice(p, c, machines, args) = answer
      BY <3>1 DEF VllmAdvice, why, S, W
    <3>3. VllmAdvice(p, b, machines, args) = answer
      BY <2>5, <3>1 DEF VllmAdvice
    <3> HIDE DEF answer
    <3> QED
      BY <3>2, <3>3
  <2>8. CASE ~Room(p, c, L)
    <3> DEFINE answer == IF why # "none" THEN Refusal(why)
                         ELSE IF Unsplittable(p, machines) THEN Refusal("sampler")
                         ELSE [ok |-> FALSE, why |-> "room", level |-> "block",
                               set |-> S, warnings |-> W, hint |-> ""]
    <3>1. Room(p, b, L) = FALSE /\ Room(p, c, L) = FALSE
      BY <2>6, <2>8 DEF Room
    <3>2. VllmAdvice(p, c, machines, args) = answer
      BY <3>1 DEF VllmAdvice, why, S, W
    <3>3. VllmAdvice(p, b, machines, args) = answer
      BY <2>5, <3>1 DEF VllmAdvice
    <3> HIDE DEF answer
    <3> QED
      BY <3>2, <3>3
  <2> QED
    BY <2>7, <2>8
<1>5. ASSUME NEW path, NEW f, NEW args
      PROVE  LlamaAdvice(path, f, b, args) = LlamaAdvice(path, f, c, args)
  BY <1>3 DEF LlamaAdvice
<1>6. ASSUME NEW price PROVE Judged(b, price) = Judged(c, price)
  <2>1. /\ OverCapacity(b, price) = OverCapacity(c, price)
        /\ OverAvailable(b, price) = OverAvailable(c, price)
        /\ CloseToAvailable(b, price) = CloseToAvailable(c, price)
        /\ Tight(b, price) = Tight(c, price)
    BY <1>1 DEF OverCapacity, OverAvailable, CloseToAvailable, Tight
  <2>2. /\ VllmBlocks(b, price) = VllmBlocks(c, price)
        /\ BytesBlocks(b, price) = BytesBlocks(c, price)
        /\ Warns(b, price) = Warns(c, price)
    BY <1>1, <2>1 DEF VllmBlocks, BytesBlocks, Warns
  <2> QED
    BY <2>2 DEF Judged, VllmVerdict, BytesVerdict
<1> QED
  BY <1>4, <1>5, <1>6

\* The survey of a rank's machine when the rank holds so much, and is seen to.
SurveyWith(r, held) ==
    BudgetOf(Occupying(Surveyed(r), held), Here(r), Committed(Listing(Machine(r)), PoolOf(r)),
             Credited(held, Surveyed(r).measured + held))

\* When nothing runs.
SurveyIdle(r) == SurveyWith(r, 0)

\* What a rank holds that was free before it started changes nothing.
LEMMA HeldIsNeutral ==
    ASSUME asked \in Questions, NEW r \in DOMAIN asked.at, NEW held \in Nat,
           held <= AvailableAfterReplacement(SurveyIdle(r))
    PROVE  Alike(SurveyWith(r, held), SurveyIdle(r))
<1> DEFINE figures == Surveyed(r)
           committed == Committed(Listing(Machine(r)), PoolOf(r))
           pool == PoolOf(r)
           free == figures.available
           said == figures.measured
           seen == IF Here(r) THEN said ELSE 0
<1>1. free \in Nat /\ said \in Nat /\ seen \in Nat /\ committed \in Nat /\ pool \in Pool
  BY SurveyedFigures, CommittedType DEF Figures
<1>2. ASSUME NEW n \in Nat
      PROVE  LET b == SurveyWith(r, n)
             IN  /\ b.pool = pool /\ b.available = Less(free, n) /\ b.committed = committed
                 /\ b.measured = IF Here(r) THEN said + n ELSE 0
                 /\ b.excluded = n
  <2> DEFINE f == Occupying(figures, n)
  <2>1. DOMAIN figures = {"kind", "devices", "total", "available", "measured", "card"}
    BY DEF Surveyed, FiguresOf, LocalPool, RemotePool, PoolFigures, UnreadPool
  <2>2. /\ f.available = Less(free, n) /\ f.measured = said + n /\ f.total = figures.total
        /\ f.devices = figures.devices /\ f.kind = figures.kind
    BY <2>1 DEF Occupying
  <2>3. Credited(n, said + n) = n
    BY <1>1 DEF Credited, Smaller
  <2>4. SurveyWith(r, n) = BudgetOf(f, Here(r), committed, Credited(n, said + n))
    BY DEF SurveyWith
  <2> HIDE DEF f, figures, committed, free, said
  <2>5. pool = Built(figures.total, Larger(1, figures.devices), figures.kind = "discrete")
    BY DEF PoolOf, BudgetOf, figures
  <2> QED
    BY <2>2, <2>3, <2>4, <2>5 DEF BudgetOf
<1> HIDE DEF figures, committed, pool, free, said
<1>3. pool.total \in Nat
  BY <1>1 DEF Pool
<1>4. /\ SurveyIdle(r).pool = pool /\ SurveyIdle(r).committed = committed
      /\ SurveyIdle(r).available = free /\ SurveyIdle(r).excluded = 0
      /\ SurveyIdle(r).measured = seen
  BY <1>1, <1>2 DEF SurveyIdle, Less
<1>5. AvailableAfterReplacement(SurveyIdle(r)) = Smaller(pool.total, free)
  BY <1>1, <1>4 DEF AvailableAfterReplacement
<1>6. held <= free
  BY <1>1, <1>3, <1>5 DEF Smaller
<1>7. AvailableAfterReplacement(SurveyWith(r, held)) = Smaller(pool.total, free)
  <2>1. Less(free, held) + held = free
    BY <1>1, <1>6 DEF Less
  <2> QED
    BY <1>2, <2>1 DEF AvailableAfterReplacement
<1>8. Occupied(SurveyIdle(r)) = Larger(committed, seen)
  <2>1. Less(seen, 0) = seen
    BY <1>1 DEF Less
  <2> QED
    BY <1>4, <2>1 DEF Occupied
<1>9. Occupied(SurveyWith(r, held)) = Larger(committed, seen)
  <2>1. Less(IF Here(r) THEN said + held ELSE 0, held) = seen
    BY <1>1 DEF Less
  <2> QED
    BY <1>2, <2>1 DEF Occupied
<1> QED
  BY <1>2, <1>4, <1>5, <1>7, <1>8, <1>9 DEF Alike

\* Where the command of a rank is read for all that the rank holds, which is for
\* the form to say.
Whole(r) == IF Vllm THEN PoolOf(r).devices = 1 \/ Flags.parallel = 1 ELSE Flags.companions = 0

\* The advice and the check of a launch where nothing runs.
AdvisedOn(b) ==
    IF Vllm THEN VllmAdvice(Model, b, Len(asked.at), asked.args)
            ELSE LlamaAdvice(LooksLikePath(asked.ref),
                             IF Opens(asked.ref) THEN asked.model ELSE NoFile, b, asked.args)
AdvisedIdle == AdvisedOn(SurveyIdle(1))
VerdictsIdle(flags) ==
    [r \in DOMAIN asked.at |-> Judged(SurveyIdle(r), Priced(flags, PoolOf(r)))]

\* Flags that differ from those of the form in what an advice sets alone.
Keeps(flags) == IF Vllm THEN flags.parallel = Flags.parallel
                        ELSE flags.companions = Flags.companions

\* What runs holds what was free without it, and was advised and let in as it
\* would have been if nothing had run.
AsIdle ==
    running # None =>
        /\ \A r \in DOMAIN asked.at :
              Keeps(running[r].flags)
              /\ (Whole(r) => HeldBy(r) <= AvailableAfterReplacement(SurveyIdle(r)))
        /\ Whole(1) => /\ Advises(AdvisedIdle) /\ Fits(Followed(AdvisedIdle))
                       /\ running = Engine(Followed(AdvisedIdle))
        /\ (\A r \in DOMAIN asked.at : Whole(r))
             => Checked(VerdictsIdle(Followed(AdvisedIdle))).ok

\* A rank that runs is one of the machines that were asked about, of the engine
\* that was.
LEMMA RankRuns ==
    ASSUME Advising, running # None, NEW r \in DOMAIN asked.at
    PROVE  /\ r \in DOMAIN running /\ running[r].engine = asked.engine
           /\ DOMAIN running = DOMAIN asked.at
<1>1. PICK flags : Fits(flags) /\ running = Engine(flags)
  BY DEF Advising, Known
<1> QED
  BY <1>1, EngineTyped DEF Advising

\* It is whole as its form is.
LEMMA WholeRank ==
    ASSUME Advising, AsIdle, running # None, NEW r \in DOMAIN asked.at
    PROVE  SeenWhole(running[r], PoolOf(r)) <=> Whole(r)
<1>1. running[r].engine = asked.engine /\ Keeps(running[r].flags)
  BY RankRuns DEF AsIdle
<1> QED
  BY <1>1 DEF SeenWhole, Whole, Keeps, Vllm

\* So its own memory is not held against it.
LEMMA RunningIsNeutral ==
    ASSUME Advising, Ordinary(asked), AsIdle, NEW r \in DOMAIN asked.at, Whole(r),
           NEW yes, yes
    PROVE  Alike(BudgetAt(r, yes), SurveyIdle(r))
<1>1. SeenOf(r) = HeldBy(r)
  <2>1. CASE running = None
    BY <2>1 DEF SeenOf, HeldBy
  <2>2. CASE running # None
    <3> DEFINE e == running[r]
    <3>1. ReadAs(e, PoolOf(r))
      <4>1. PICK flags : /\ Fits(flags) /\ Saved(flags) /\ (Pooled => Vllm)
                         /\ running = Engine(flags)
        BY <2>2 DEF Advising, Known
      <4>2. ReadAs(Engine(flags)[r], PoolOf(r))
        BY <4>1, LaunchedIsRead DEF Advising
      <4> QED
        BY <4>1, <4>2
    <3>2. SeenWhole(e, PoolOf(r))
      BY <2>2, WholeRank
    <3> HIDE DEF e
    <3>3. Seen(e, PoolOf(r)) = Takes(e, PoolOf(r))
      BY <3>1, <3>2 DEF ReadAs
    <3> QED
      BY <2>2, <3>3 DEF SeenOf, HeldBy, e
  <2> QED
    BY <2>1, <2>2
<1>2. BudgetAt(r, yes) = SurveyWith(r, HeldBy(r))
  BY <1>1 DEF BudgetAt, Survey, SurveyWith
<1>3. CASE running = None
  <2>1. HeldBy(r) = 0
    BY <1>3 DEF HeldBy
  <2> QED
    BY <1>2, <2>1 DEF SurveyIdle, Alike
<1>4. CASE running # None
  <2>1. HeldBy(r) \in Nat
    BY RankPrices DEF Advising
  <2>2. HeldBy(r) <= AvailableAfterReplacement(SurveyIdle(r))
    BY <1>4 DEF AsIdle
  <2> QED
    BY <1>2, <2>1, <2>2, HeldIsNeutral DEF Advising
<1> QED
  BY <1>3, <1>4

\* Nor does it change the advice, or the check of a launch.
LEMMA AnswersAsIdle ==
    ASSUME Advising, Ordinary(asked), AsIdle
    PROVE  /\ Whole(1) => Advised = AdvisedIdle
           /\ \A flags : (\A r \in DOMAIN asked.at : Whole(r))
                => Verdicts(flags) = VerdictsIdle(flags)
<1> DEFINE yes == TRUE
<1>1. 1 \in DOMAIN asked.at
  BY SomeMachine DEF Advising
<1>2. Budgeted = BudgetAt(1, yes) /\ \A r : Replaced(r) = yes
  BY DEF Budgeted, Replaced
<1>3. yes
  OBVIOUS
<1> HIDE DEF yes
<1>4. ASSUME Whole(1) PROVE Advised = AdvisedIdle
  <2>1. Alike(Budgeted, SurveyIdle(1))
    BY <1>1, <1>2, <1>3, <1>4, RunningIsNeutral
  <2>2. Advised = AdvisedOn(Budgeted)
    BY DEF Advised, AdvisedOn
  <2>3. AdvisedOn(Budgeted) = AdvisedOn(SurveyIdle(1))
    BY <2>1, AlikeAnswers DEF AdvisedOn
  <2> QED
    BY <2>2, <2>3 DEF AdvisedIdle
<1>5. ASSUME NEW flags, \A r \in DOMAIN asked.at : Whole(r)
      PROVE  Verdicts(flags) = VerdictsIdle(flags)
  <2>1. ASSUME NEW r \in DOMAIN asked.at
        PROVE  Judged(BudgetAt(r, Replaced(r)), Priced(flags, PoolOf(r)))
                 = Judged(SurveyIdle(r), Priced(flags, PoolOf(r)))
    <3>1. Alike(BudgetAt(r, yes), SurveyIdle(r))
      BY <1>3, <1>5, RunningIsNeutral
    <3>2. Judged(BudgetAt(r, yes), Priced(flags, PoolOf(r)))
            = Judged(SurveyIdle(r), Priced(flags, PoolOf(r)))
      BY <3>1, AlikeAnswers
    <3>3. Replaced(r) = yes
      BY <1>2
    <3> QED
      BY <3>2, <3>3
  <2> QED
    BY <2>1 DEF Verdicts, VerdictsIdle
<1> QED
  BY <1>4, <1>5

\* An advice sets a fraction, or layers and a context, and nothing else.
LEMMA FollowedKeeps ==
    ASSUME asked \in Questions, NEW advice
    PROVE  Keeps(Followed(advice))
<1>1. CASE Vllm
  <2>1. Flags \in Args
    BY <1>1, FormFlags DEF Fits
  <2> DEFINE f == Flags
             u == advice.set.util
  <2>2. Followed(advice) = f \/ Followed(advice) = [f EXCEPT !.util = u]
    BY <1>1 DEF Followed
  <2>3. f \in Args
    BY <2>1
  <2> HIDE DEF f, u
  <2>4. Followed(advice).parallel = f.parallel
    BY <2>2, <2>3 DEF Args
  <2> QED
    BY <1>1, <2>4 DEF Keeps, f
<1>2. CASE ~Vllm
  <2>1. Flags \in LlamaSet
    BY <1>2, FormFlags DEF Fits
  <2> DEFINE f == Flags
             layers == advice.layers
             ctx == advice.ctx
  <2>2. f \in LlamaSet /\ Followed(advice) = [f EXCEPT !.layers = layers, !.ctx = ctx]
    BY <1>2, <2>1 DEF Followed, Taken
  <2> HIDE DEF f, layers, ctx
  <2>3. Followed(advice).companions = f.companions
    BY <2>2 DEF LlamaSet
  <2> QED
    BY <1>2, <2>3 DEF Keeps, f
<1> QED
  BY <1>1, <1>2

\* A rank takes what its launch was priced at.
LEMMA TakesIsPriced ==
    ASSUME asked \in Questions, NEW flags, Fits(flags), NEW r \in DOMAIN asked.at
    PROVE  /\ r \in DOMAIN Engine(flags) /\ Engine(flags)[r].flags = flags
           /\ Takes(Engine(flags)[r], PoolOf(r)) = Priced(flags, PoolOf(r))
<1> DEFINE e == Engine(flags)[r]
<1>1. /\ r \in DOMAIN Engine(flags) /\ e.flags = flags /\ e.engine = asked.engine
      /\ e.model = asked.ref /\ e.file = IF Vllm THEN NoFile ELSE asked.model
  BY EngineTyped
<1> HIDE DEF e
<1>2. Takes(e, PoolOf(r)) = Priced(flags, PoolOf(r))
  <2>1. CASE Vllm
    BY <1>1, <2>1 DEF Takes, Priced, LaunchPrice, Vllm
  <2>2. CASE ~Vllm
    BY <1>1, <2>2 DEF Takes, Priced, Vllm
  <2> QED
    BY <2>1, <2>2
<1> QED
  BY <1>1, <1>2 DEF e

\* Nothing but the question decides what would be if nothing ran.
LEMMA IdleStays ==
    ASSUME asked' = asked
    PROVE  /\ Vllm' = Vllm /\ Flags' = Flags /\ AdvisedIdle' = AdvisedIdle
           /\ \A r : /\ PoolOf(r)' = PoolOf(r) /\ SurveyIdle(r)' = SurveyIdle(r)
                     /\ Whole(r)' = Whole(r)
           /\ \A flags : /\ Fits(flags)' = Fits(flags) /\ Keeps(flags)' = Keeps(flags)
                         /\ Engine(flags)' = Engine(flags)
           /\ \A advice : /\ Advises(advice)' = Advises(advice)
                          /\ Followed(advice)' = Followed(advice)
           /\ \A verdicts : Checked(verdicts)' = Checked(verdicts)
           /\ \A flags : VerdictsIdle(flags)' = VerdictsIdle(flags)
<1>1. Vllm' = Vllm /\ Nodes' = Nodes /\ Flags' = Flags /\ Pooled' = Pooled
  BY DEF Vllm, Nodes, Flags, Pooled
<1>2. \A r : Machine(r)' = Machine(r) /\ Here(r)' = Here(r)
  BY <1>1 DEF Machine, Here
<1>3. \A r : Surveyed(r)' = Surveyed(r)
  BY <1>2 DEF Surveyed
<1>4. \A r : PoolOf(r)' = PoolOf(r)
  BY <1>2, <1>3 DEF PoolOf
<1>5. \A r : Committed(Listing(Machine(r)), PoolOf(r))' = Committed(Listing(Machine(r)), PoolOf(r))
  BY <1>2, <1>4 DEF Listing, Committed, Seen
<1>6. \A n, m : Credited(n, m)' = Credited(n, m)
  BY <1>1 DEF Credited
<1>7. \A r, n : SurveyWith(r, n)' = SurveyWith(r, n)
  BY <1>2, <1>3, <1>5, <1>6 DEF SurveyWith, Occupying
<1>8. \A r : SurveyIdle(r)' = SurveyIdle(r)
  BY <1>7 DEF SurveyIdle
<1>9. Model' = Model
  BY <1>2 DEF Model
<1>10. AdvisedIdle' = AdvisedIdle
  BY <1>1, <1>8, <1>9 DEF AdvisedIdle, AdvisedOn
<1>11. \A r : Whole(r)' = Whole(r)
  BY <1>1, <1>4 DEF Whole
<1>12. \A flags : /\ Fits(flags)' = Fits(flags) /\ Keeps(flags)' = Keeps(flags)
                  /\ Engine(flags)' = Engine(flags)
  BY <1>1 DEF Fits, Keeps, Engine, Pooled, RanksOn, Launched, Form, PortsTaken, Listing, Vllm
<1>13. \A advice : Advises(advice)' = Advises(advice) /\ Followed(advice)' = Followed(advice)
  BY <1>1 DEF Advises, Followed
<1>14. \A verdicts : Checked(verdicts)' = Checked(verdicts)
  BY <1>1, <1>2 DEF Checked, Fabric, Splittable
<1>15. \A flags, pool : Priced(flags, pool)' = Priced(flags, pool)
  BY <1>1 DEF Priced
<1>16. \A b, price : Judged(b, price)' = Judged(b, price)
  BY <1>1 DEF Judged
<1>17. \A flags : VerdictsIdle(flags)' = VerdictsIdle(flags)
  BY <1>4, <1>8, <1>15, <1>16 DEF VerdictsIdle
<1> QED
  BY <1>1, <1>4, <1>8, <1>10, <1>11, <1>12, <1>13, <1>14, <1>17

\* A launch that is let in starts what the idle machines would have started.
LEMMA LaunchIsAsIdle ==
    ASSUME Advising, Ordinary(asked), AsIdle, asked' = asked, Launches,
           running' # running, running' # None
    PROVE  AsIdle'
<1> DEFINE flags == Followed(told[1])
           check == Checked(Verdicts(flags))
<1>1. told # None /\ Advises(told[1]) /\ told[1] = Advised
  BY DEF Launches, Advising, Standing
<1>2. Fits(flags) /\ Keeps(flags)
  BY <1>1, FollowedFits, FollowedKeeps DEF Advising
<1>3. running' = IF check.ok THEN ComesUp(flags) ELSE running
  BY DEF Launches
<1>4. check.ok /\ running' = ComesUp(flags) /\ ComesUp(flags) # None
  BY <1>3
<1>5. /\ running' = Engine(flags)
      /\ \A r \in DOMAIN asked.at :
           Priced(flags, PoolOf(r)) <= AvailableAfterReplacement(BudgetAt(r, TRUE))
  BY <1>4 DEF ComesUp
<1> DEFINE yes == TRUE
<1>6. \A r \in DOMAIN asked.at :
        Priced(flags, PoolOf(r)) <= AvailableAfterReplacement(BudgetAt(r, yes))
  BY <1>5
<1>7. yes
  OBVIOUS
<1> HIDE DEF yes, flags
<1>8. ASSUME NEW r \in DOMAIN asked.at
      PROVE  /\ Keeps(running[r].flags)'
             /\ Whole(r) => HeldBy(r)' <= AvailableAfterReplacement(SurveyIdle(r))
  <2>1. /\ r \in DOMAIN Engine(flags) /\ Engine(flags)[r].flags = flags
        /\ Takes(Engine(flags)[r], PoolOf(r)) = Priced(flags, PoolOf(r))
    BY <1>2, TakesIsPriced DEF Advising
  <2>2. PoolOf(r)' = PoolOf(r) /\ Vllm' = Vllm /\ Flags' = Flags
    BY IdleStays
  <2>3. HeldBy(r)' = Priced(flags, PoolOf(r))
    BY <1>5, <2>1, <2>2 DEF HeldBy, None
  <2>4. Whole(r) => Alike(BudgetAt(r, yes), SurveyIdle(r))
    BY <1>7, RunningIsNeutral
  <2>5. Whole(r) => AvailableAfterReplacement(BudgetAt(r, yes)) = AvailableAfterReplacement(SurveyIdle(r))
    BY <2>4 DEF Alike
  <2>6. running'[r].flags = flags
    BY <1>5, <2>1
  <2>7. Keeps(running[r].flags)'
    BY <1>2, <2>2, <2>6 DEF Keeps
  <2> QED
    BY <1>6, <2>3, <2>5, <2>7
<1>9. Whole(1) => /\ Advises(AdvisedIdle) /\ Fits(Followed(AdvisedIdle))
                  /\ running' = Engine(Followed(AdvisedIdle)) /\ flags = Followed(AdvisedIdle)
  <2>1. Whole(1) => told[1] = AdvisedIdle
    BY <1>1, AnswersAsIdle
  <2> QED
    BY <1>1, <1>2, <1>5, <2>1 DEF flags
<1>10. 1 \in DOMAIN asked.at
  BY SomeMachine DEF Advising
<1>11. (\A r \in DOMAIN asked.at : Whole(r)) => Checked(VerdictsIdle(Followed(AdvisedIdle))).ok
  <2> SUFFICES ASSUME \A r \in DOMAIN asked.at : Whole(r)
               PROVE  Checked(VerdictsIdle(Followed(AdvisedIdle))).ok
    OBVIOUS
  <2>1. Verdicts(flags) = VerdictsIdle(flags)
    BY AnswersAsIdle
  <2>2. flags = Followed(AdvisedIdle)
    BY <1>9, <1>10
  <2> QED
    BY <1>4, <2>1, <2>2
<1> QED
  <2>1. /\ AdvisedIdle' = AdvisedIdle
        /\ \A r : SurveyIdle(r)' = SurveyIdle(r) /\ Whole(r)' = Whole(r)
        /\ \A f : Fits(f)' = Fits(f) /\ Engine(f)' = Engine(f)
        /\ \A a : Advises(a)' = Advises(a) /\ Followed(a)' = Followed(a)
        /\ \A v : Checked(v)' = Checked(v)
        /\ \A f : VerdictsIdle(f)' = VerdictsIdle(f)
    BY IdleStays
  <2>2. \A r \in DOMAIN asked'.at :
           /\ Keeps(running[r].flags)'
           /\ Whole(r)' => HeldBy(r)' <= AvailableAfterReplacement(SurveyIdle(r))'
    <3>1. \A r : AvailableAfterReplacement(SurveyIdle(r))' = AvailableAfterReplacement(SurveyIdle(r))
      BY <2>1 DEF AvailableAfterReplacement
    <3> QED
      BY <1>8, <2>1, <3>1
  <2>3. Whole(1)' => /\ Advises(AdvisedIdle)' /\ Fits(Followed(AdvisedIdle))'
                     /\ running' = Engine(Followed(AdvisedIdle))'
    <3>1. /\ Followed(AdvisedIdle)' = Followed(AdvisedIdle)
          /\ Advises(AdvisedIdle)' = Advises(AdvisedIdle)
      BY <2>1 DEF Advises, Followed, Flags, Vllm
    <3>2. /\ Fits(Followed(AdvisedIdle))' = Fits(Followed(AdvisedIdle))
          /\ Engine(Followed(AdvisedIdle))' = Engine(Followed(AdvisedIdle))
      BY <3>1 DEF Fits, Engine, Vllm, Pooled, RanksOn, Launched, Form, PortsTaken, Listing
    <3> QED
      BY <1>9, <2>1, <3>1, <3>2
  <2>4. (\A r \in DOMAIN asked.at : Whole(r))' => (Checked(VerdictsIdle(Followed(AdvisedIdle))).ok)'
    BY <1>11, <2>1
  <2> QED
    BY <2>2, <2>3, <2>4 DEF AsIdle

\* So it goes on, step by step.
LEMMA AsIdleStep == Advising /\ Ordinary(asked) /\ AsIdle /\ [Next]_vars => AsIdle'
<1> SUFFICES ASSUME Advising, Ordinary(asked), AsIdle, [Next]_vars PROVE AsIdle'
  OBVIOUS
<1>1. asked' = asked
  BY AskedStays
<1>2. CASE running' = None
  BY <1>2 DEF AsIdle, None
<1>3. CASE running' = running
  <2>1. /\ AdvisedIdle' = AdvisedIdle /\ Vllm' = Vllm /\ Flags' = Flags
        /\ \A r : PoolOf(r)' = PoolOf(r) /\ SurveyIdle(r)' = SurveyIdle(r) /\ Whole(r)' = Whole(r)
        /\ \A v : Checked(v)' = Checked(v)
        /\ \A f : VerdictsIdle(f)' = VerdictsIdle(f)
    BY <1>1, IdleStays
  <2>2. \A r : HeldBy(r)' = HeldBy(r)
    BY <1>3, <2>1 DEF HeldBy
  <2>3. \A r \in DOMAIN asked.at : Keeps(running[r].flags)' <=> Keeps(running[r].flags)
    BY <1>3, <2>1 DEF Keeps
  <2>4. /\ Followed(AdvisedIdle)' = Followed(AdvisedIdle)
        /\ Advises(AdvisedIdle)' = Advises(AdvisedIdle)
    BY <1>1, <2>1 DEF Advises, Followed, Flags, Vllm
  <2>5. /\ Fits(Followed(AdvisedIdle))' = Fits(Followed(AdvisedIdle))
        /\ Engine(Followed(AdvisedIdle))' = Engine(Followed(AdvisedIdle))
    BY <1>1, <2>4 DEF Fits, Engine, Vllm, Pooled, RanksOn, Launched, Form, PortsTaken, Listing
  <2>6. (Checked(VerdictsIdle(Followed(AdvisedIdle))).ok)' = Checked(VerdictsIdle(Followed(AdvisedIdle))).ok
    <3>1. VerdictsIdle(Followed(AdvisedIdle))' = VerdictsIdle(Followed(AdvisedIdle))
      BY <1>1, <2>1, <2>4 DEF VerdictsIdle, Judged, Priced
    <3> QED
      BY <1>1, <2>1, <3>1 DEF Checked, Pooled, Machine, Nodes, Fabric, Splittable
  <2>7. \A r : AvailableAfterReplacement(SurveyIdle(r))' = AvailableAfterReplacement(SurveyIdle(r))
    BY <2>1 DEF AvailableAfterReplacement
  <2> QED
    BY <1>1, <1>3, <2>1, <2>2, <2>3, <2>4, <2>5, <2>6, <2>7 DEF AsIdle
<1>4. CASE running' # running /\ running' # None
  <2>1. Launches
    BY <1>4 DEF Next, Asks, Stops, vars
  <2> QED
    BY <1>1, <1>4, <2>1, LaunchIsAsIdle
<1> QED
  BY <1>2, <1>3, <1>4

\* So it is an invariant, where the forms are ordinary ones.
LEMMA AsIdleHolds ==
    ASSUME \A q \in Questions : Ordinary(q)
    PROVE  Spec => [](Advising /\ Ordinary(asked) /\ AsIdle)
<1>1. Init => Advising /\ Ordinary(asked) /\ AsIdle
  BY DEF Init, Advising, Standing, Known, AsIdle
<1>2. (Advising /\ Ordinary(asked) /\ AsIdle) /\ [Next]_vars
        => (Advising /\ Ordinary(asked) /\ AsIdle)'
  BY AdvisingStep, AsIdleStep DEF Advising
<1> QED
  BY <1>1, <1>2, PTL DEF Spec

\* An advice for what runs as it was advised is the advice it was launched by,
\* whatever else the machine holds and however often it is asked: the command
\* that servers.recommend finds is read for what was launched, and left out of
\* the survey.  The forms are those whose values are no flags of a command.
THEOREM AdviceStandsHolds ==
    ASSUME \A q \in Questions : Ordinary(q)
    PROVE  Spec => []AdviceStands
<1>1. Advising /\ Ordinary(asked) /\ AsIdle => AdviceStands
  <2> SUFFICES ASSUME Advising, Ordinary(asked), AsIdle, running # None, told # None,
                      SeenWhole(running[1], PoolOf(1))
               PROVE  told[1].ok /\ Followed(told[1]) = running[1].flags
    BY DEF AdviceStands
  <2>1. 1 \in DOMAIN asked.at
    BY SomeMachine DEF Advising
  <2>2. Whole(1)
    BY <2>1, WholeRank
  <2>3. told[1] = AdvisedIdle
    BY <2>2, AnswersAsIdle DEF Advising, Standing
  <2>4. /\ Advises(told[1]) /\ Fits(Followed(told[1]))
        /\ running = Engine(Followed(told[1]))
    BY <2>2, <2>3 DEF AsIdle
  <2>5. running[1].flags = Followed(told[1])
    BY <2>1, <2>4, TakesIsPriced DEF Advising
  <2> QED
    BY <2>4, <2>5 DEF Advises
<1> QED
  BY <1>1, AsIdleHolds, PTL

\* An engine that was let in on its machines would be let in again as it is, by
\* the check of start_pooled and of start alike: what each rank holds is read
\* from its command and given back to the survey of its machine.
THEOREM RelaunchStandsHolds ==
    ASSUME \A q \in Questions : Ordinary(q)
    PROVE  Spec => []RelaunchStands
<1>1. Advising /\ Ordinary(asked) /\ AsIdle => RelaunchStands
  <2> SUFFICES ASSUME Advising, Ordinary(asked), AsIdle, running # None,
                      \A r \in DOMAIN running : SeenWhole(running[r], PoolOf(r))
               PROVE  Checked(Verdicts(running[1].flags)).ok
    BY DEF RelaunchStands
  <2>1. 1 \in DOMAIN asked.at
    BY SomeMachine DEF Advising
  <2>2. \A r \in DOMAIN asked.at : Whole(r)
    BY RankRuns, WholeRank
  <2> DEFINE flags == Followed(AdvisedIdle)
  <2>3. Fits(flags) /\ running = Engine(flags) /\ Checked(VerdictsIdle(flags)).ok
    BY <2>1, <2>2 DEF AsIdle
  <2> HIDE DEF flags
  <2>4. running[1].flags = flags
    BY <2>1, <2>3, TakesIsPriced DEF Advising
  <2>5. Verdicts(flags) = VerdictsIdle(flags)
    BY <2>2, AnswersAsIdle
  <2> QED
    BY <2>3, <2>4, <2>5
<1> QED
  BY <1>1, AsIdleHolds, PTL

-----------------------------------------------------------------------------
(* What runs is seen as it was launched, if what was started by hand is.   *)

\* What was started by hand is seen as it was started.
ByHand(r, e) ==
    LET pool == PoolOf(r)
        listed == Listed(e.container)
    IN  /\ listed.engine \in {"", e.engine}
        /\ Seen(e, pool) <= Takes(e, pool)
        /\ SeenWhole(e, pool) /\ Plainly(e) =>
             /\ Seen(e, pool) = Takes(e, pool)
             /\ listed.engine = e.engine /\ listed.model = e.model
             /\ MasterPort(e.container.command) = e.port
TenantsSeen == \A r \in DOMAIN asked.at : \A e \in ToSet(Listing(Machine(r))) : ByHand(r, e)

\* Nothing else runs before the first launch.
LEMMA TenantsAtFirst == Init /\ SeenAsLaunched => TenantsSeen
<1> SUFFICES ASSUME Init, SeenAsLaunched, NEW r \in DOMAIN asked.at,
                    NEW e \in ToSet(Listing(Machine(r)))
             PROVE  ByHand(r, e)
  BY DEF TenantsSeen
<1>1. AsStarted(r, e)
  BY DEF SeenAsLaunched, EnginesOn
<1> QED
  BY <1>1 DEF AsStarted, ByHand

\* And it stays where it is.
LEMMA TenantsStay == TenantsSeen /\ [Next]_vars => TenantsSeen'
<1> SUFFICES ASSUME TenantsSeen, asked' = asked PROVE TenantsSeen'
  BY AskedStays
<1>1. \A r : PoolOf(r)' = PoolOf(r)
  BY IdleStays
<1>2. \A r : Listing(Machine(r))' = Listing(Machine(r))
  BY DEF Listing, Machine, Nodes
<1>3. \A r, e : ByHand(r, e)' <=> ByHand(r, e)
  BY <1>1 DEF ByHand
<1> QED
  BY <1>2, <1>3 DEF TenantsSeen

\* What runs on a machine is that, and a rank that was launched.
LEMMA RanksAreSeen ==
    ASSUME Advising, Ordinary(asked), TenantsSeen
    PROVE  SeenAsLaunched
<1> SUFFICES ASSUME NEW r \in DOMAIN asked.at, NEW e \in EnginesOn(r)
             PROVE  AsStarted(r, e)
  BY DEF SeenAsLaunched
<1>1. CASE e \in RankOn(r)
  <2>1. running # None /\ e = running[r]
    <3>1. r \in DOMAIN running /\ e = running[r]
      BY <1>1 DEF RankOn
    <3>2. DOMAIN None = {}
      BY DEF None
    <3> QED
      BY <3>1, <3>2
  <2>2. PICK flags : /\ Fits(flags) /\ Saved(flags) /\ (Pooled => Vllm)
                     /\ running = Engine(flags)
    BY <2>1 DEF Advising, Known
  <2>3. ReadAs(Engine(flags)[r], PoolOf(r))
    BY <2>2, LaunchedIsRead DEF Advising
  <2>4. ReadAs(e, PoolOf(r))
    BY <2>1, <2>2, <2>3
  <2> QED
    BY <2>4 DEF ReadAs, AsStarted
<1>2. CASE e \notin RankOn(r)
  <2>1. e \in ToSet(Listing(Machine(r)))
    BY <1>2 DEF EnginesOn
  <2>2. ByHand(r, e)
    BY <2>1 DEF TenantsSeen
  <2> QED
    BY <1>2, <2>2 DEF ByHand, AsStarted
<1> QED
  BY <1>1, <1>2

\* However it is launched, an engine is found in the list of what runs, named and
\* priced as it was launched, and at no more where its command does not tell all:
\* servers.discover_foreign, safety.footprint and cluster.parse_master_port read
\* back what servers.build_command and cluster.rank_argv wrote.  Of what was
\* started by hand it is enough that it is so at first.
THEOREM SeenAsLaunchedHolds ==
    ASSUME \A q \in Questions : Ordinary(q)
    PROVE  Spec /\ SeenAsLaunched => []SeenAsLaunched
<1>1. Spec => [](Advising /\ Ordinary(asked) /\ AsIdle)
  BY AsIdleHolds
<1>2. Advising /\ Ordinary(asked) /\ TenantsSeen => SeenAsLaunched
  BY RanksAreSeen
<1> QED
  BY <1>1, <1>2, TenantsAtFirst, TenantsStay, PTL DEF Spec

=============================================================================
