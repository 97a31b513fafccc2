---------------------------- MODULE LaunchProofs ----------------------------
(***************************************************************************)
(* Proofs about Admission and Launch: what the verdicts of app/safety.py   *)
(* promise for every pool and survey, and what LAUNCH_LOCK protects, for   *)
(* any servers, machines, faults and number of requests.                   *)
(***************************************************************************)
EXTENDS Launch, FiniteSetTheorems, WellFoundedInduction, TLAPS

-----------------------------------------------------------------------------
(* The verdicts                                                            *)

\* An engine that is let onto a unified pool fits beside everything the survey
\* counted, with the machine's reserve to spare, and its request is available.
THEOREM AdmittedFits ==
    ASSUME NEW b \in Budget, NEW requested \in Nat, ~b.pool.discrete,
           ~VllmBlocks(b, requested) \/ ~BytesBlocks(b, requested)
    PROVE  /\ b.committed + requested + b.pool.reserve <= b.pool.total
           /\ requested <= AvailableAfterReplacement(b)
<1>1. b.pool \in Pool /\ b.committed \in Nat /\ b.measured \in Nat /\ b.excluded \in Nat
      /\ b.available \in Nat
  BY DEF Budget
<1>2. b.pool.total \in Nat /\ b.pool.reserve \in Nat
  BY <1>1 DEF Pool
<1>3. Less(b.measured, b.excluded) \in Nat
  BY <1>1 DEF Less
<1>4. Occupied(b) \in Nat /\ b.committed <= Occupied(b)
  BY <1>1, <1>3 DEF Occupied, Larger
<1>5. ~OverCapacity(b, requested) /\ ~OverAvailable(b, requested)
  BY DEF VllmBlocks, BytesBlocks
<1>6. b.committed + requested + b.pool.reserve <= b.pool.total
  BY <1>1, <1>2, <1>4, <1>5 DEF OverCapacity
<1>7. AvailableAfterReplacement(b) \in Nat
  BY <1>1, <1>2 DEF AvailableAfterReplacement, Smaller
<1>8. QED
  BY <1>5, <1>6, <1>7 DEF OverAvailable

\* Floor division keeps an upper bound.
LEMMA QuotientBound ==
    ASSUME NEW x \in Nat, NEW d \in Nat \ {0}, NEW bound \in Nat, x <= d * bound
    PROVE  x \div d \in Nat /\ x \div d <= bound
<1> DEFINE y == x \div d
<1>1. y \in Nat /\ d * y <= x
  BY SMT
<1> HIDE DEF y
<1>2. SUFFICES ASSUME y >= bound + 1 PROVE FALSE
  BY <1>1, SMT DEF y
<1>3. d * y >= d * (bound + 1)
  BY <1>1, <1>2, SMT
<1>4. d * (bound + 1) = d * bound + d /\ d * bound \in Nat
  BY SMT
<1>5. QED
  BY <1>1, <1>3, <1>4, SMT

\* The fraction a refusal suggests, retyped without the two flags that add to
\* it, is not over capacity: flooring is what makes that true.
THEOREM SuggestionFits ==
    ASSUME NEW b \in Budget, NEW args \in Args, b.pool.total > 0,
           args.kv = 0, args.offload = 0, args.util = Suggested(b, args),
           Occupied(b) + b.pool.reserve <= b.pool.total
    PROVE  ~OverCapacity(b, Footprint(args, b.pool))
<1> DEFINE T == b.pool.total
           D == b.pool.devices
           S == Spanned(args, b.pool)
           F == FreeToCommit(b)
           q == (100 * F * D) \div (T * S)
           u == Suggested(b, args)
<1>1. b.pool \in Pool /\ b.committed \in Nat /\ b.measured \in Nat /\ b.excluded \in Nat
  BY DEF Budget
<1>2. T \in Nat \ {0} /\ D \in Nat \ {0} /\ S \in Nat \ {0} /\ b.pool.reserve \in Nat
  BY <1>1 DEF Pool, Args, Spanned
<1>3. Less(b.measured, b.excluded) \in Nat
  BY <1>1 DEF Less
<1>4. Occupied(b) \in Nat
  BY <1>1, <1>3 DEF Occupied, Larger
<1>5. F \in Nat /\ F + Occupied(b) + b.pool.reserve = T
  BY <1>2, <1>4 DEF FreeToCommit, MaxBytes, Less
<1> HIDE DEF T, D, S, F
<1>6. T * S \in Nat \ {0} /\ 100 * F * D \in Nat /\ 100 * D \in Nat \ {0}
  BY <1>2, <1>5, SMT
<1>7. q \in Nat /\ (T * S) * q <= 100 * F * D
  BY <1>6, SMT
<1>8. u \in 0..100 /\ u <= q
  BY <1>7 DEF Suggested, Smaller, T, D, S, F
<1>9. (u * T * S) <= 100 * F * D
  <2>1. (T * S) * u <= (T * S) * q
    BY <1>6, <1>7, <1>8, SMT
  <2>2. u * T * S = (T * S) * u
    BY <1>2, <1>8, SMT
  <2>3. QED
    BY <2>1, <2>2, <1>6, <1>7, <1>8, SMT
<1>10. (u * T * S) \div (100 * D) \in Nat /\ (u * T * S) \div (100 * D) <= F
  <2>1. u * T * S \in Nat
    BY <1>2, <1>8, SMT
  <2>2. 100 * F * D = (100 * D) * F
    BY <1>2, <1>5, SMT
  <2>3. QED
    BY ONLY <2>1, <2>2, <1>5, <1>6, <1>9, QuotientBound
<1>11. Footprint(args, b.pool) <= F /\ Footprint(args, b.pool) \in Nat
  <2>1. args.util # NoUtil
    BY <1>8 DEF NoUtil
  <2>2. Footprint(args, b.pool) = Larger((u * T * S) \div (100 * D), 0) + 0
    BY <2>1 DEF Footprint, T, D, S
  <2>3. QED
    BY <2>2, <1>5, <1>10 DEF Larger
<1>12. QED
  BY <1>2, <1>4, <1>5, <1>11 DEF OverCapacity, T

\* On a unified pool asking for less never gets a worse verdict.  On a discrete
\* one it may: being over capacity is only a warning there and is tested first,
\* so the larger request passes where the smaller is refused as unavailable.
THEOREM LessIsNoWorse ==
    ASSUME NEW b \in Budget, NEW less \in Nat, NEW more \in Nat, less <= more,
           ~b.pool.discrete
    PROVE  /\ VllmVerdict(b, less) = "block" => VllmVerdict(b, more) = "block"
           /\ VllmVerdict(b, more) = "ok" => VllmVerdict(b, less) = "ok"
           /\ VllmBlocks(b, less) <=> BytesBlocks(b, less)
<1>1. b.pool \in Pool /\ b.committed \in Nat /\ b.measured \in Nat /\ b.excluded \in Nat
      /\ b.available \in Nat
  BY DEF Budget
<1>2. b.pool.total \in Nat /\ b.pool.reserve \in Nat /\ b.pool.warn \in Nat
  BY <1>1 DEF Pool
<1>3. Occupied(b) \in Nat /\ AvailableAfterReplacement(b) \in Nat
  BY <1>1, <1>2 DEF Occupied, Larger, Less, AvailableAfterReplacement, Smaller
<1>4. /\ OverCapacity(b, less) => OverCapacity(b, more)
      /\ OverAvailable(b, less) => OverAvailable(b, more)
      /\ CloseToAvailable(b, less) => CloseToAvailable(b, more)
      /\ Tight(b, less) => Tight(b, more)
  BY <1>2, <1>3 DEF OverCapacity, OverAvailable, CloseToAvailable, Tight
<1>5. QED
  BY <1>4 DEF VllmVerdict, VllmBlocks, BytesBlocks, Warns

\* A peer that could not be read at all is charged a fraction of nothing and
\* compared with nothing: a vLLM launch onto it is let through.
THEOREM UnreadIsAdmitted ==
    ASSUME NEW b \in Budget, NEW args \in Args, b.pool = Unread,
           b.committed = 0, b.measured = 0, args.kv = 0, args.offload = 0
    PROVE  ~VllmBlocks(b, Footprint(args, b.pool))
<1>1. b.available \in Nat /\ b.excluded \in Nat
  BY DEF Budget
<1>2. Unread.total = 0 /\ Unread.devices = 1 /\ Unread.reserve = 0
  BY DEF Unread
<1>3. Footprint(args, Unread) = 0
  <2>1. args.util \in 0..NoUtil /\ DefaultUtil \in 0..100
    BY AdmissionAssumption DEF Args
  <2>2. Spanned(args, Unread) = 1
    BY <1>2 DEF Spanned
  <2>3. \A util \in Nat : (util * 0 * 1) \div (100 * 1) = 0
    BY SMT
  <2>4. QED
    BY <1>2, <2>1, <2>2, <2>3 DEF Footprint, Larger, NoUtil
<1>4. Occupied(b) = 0
  BY <1>1 DEF Occupied, Larger, Less
<1>5. AvailableAfterReplacement(b) \in Nat
  BY <1>1, <1>2 DEF AvailableAfterReplacement, Smaller
<1>6. ~OverCapacity(b, 0) /\ ~OverAvailable(b, 0)
  BY <1>2, <1>4, <1>5 DEF OverCapacity, OverAvailable
<1>7. QED
  BY <1>3, <1>6 DEF VllmBlocks

-----------------------------------------------------------------------------
(* Sums.  A sum over a finite set is the last value of a recursive         *)
(* function on its subsets; what it does when the set grows takes          *)
(* induction on the number of elements.                                    *)

\* A set of numbers with 0 and the successor of each of its members is Nat: of
\* the initial segments that end outside it, none would be least.
LEMMA Induction ==
    ASSUME NEW P \in SUBSET Nat, 0 \in P, \A n \in P : n + 1 \in P
    PROVE  P = Nat
<1> SUFFICES ASSUME P # Nat PROVE FALSE
  OBVIOUS
<1> DEFINE T == {0 .. n : n \in Nat \ P}
<1>1. T # {} /\ T \subseteq FiniteSubsetsOf(Nat)
  <2>1. \A n \in Nat : IsFiniteSet(0 .. n) /\ 0 .. n \subseteq Nat
    BY FS_Interval
  <2>2. QED
    BY <2>1 DEF FiniteSubsetsOf
<1>2. PICK U \in T : \A V \in T : <<V, U>> \notin StrictSubsetOrdering(Nat)
  <2> HIDE DEF T
  <2>1. QED
    BY <1>1, FS_StrictSubsetOrderingWellFounded, WFMin
<1>3. PICK n \in Nat \ P : U = 0 .. n
  OBVIOUS
<1>4. n - 1 \in Nat \ P
  OBVIOUS
<1>5. 0 .. (n - 1) \in T /\ 0 .. (n - 1) \subseteq 0 .. n /\ 0 .. (n - 1) # 0 .. n
  BY <1>4
<1>6. <<0 .. (n - 1), 0 .. n>> \in StrictSubsetOrdering(Nat)
  <2>1. 0 .. (n - 1) \subseteq Nat /\ 0 .. n \subseteq Nat
    OBVIOUS
  <2>2. QED
    BY <1>5, <2>1 DEF StrictSubsetOrdering
<1>7. QED
  BY <1>2, <1>3, <1>5, <1>6

\* The function whose last value a sum is.
Term(f, s, g) ==
    IF s = {} THEN 0 ELSE f[CHOOSE x \in s : TRUE] + g[s \ {CHOOSE x \in s : TRUE}]
Sums(f, S) == CHOOSE g : g = [s \in SUBSET S |-> Term(f, s, g)]

LEMMA SumIsLast == ASSUME NEW f, NEW S PROVE SumFunctionOnSet(f, S) = Sums(f, S)[S]
BY DEF SumFunctionOnSet, FoldFunctionOnSet, MapThenFoldSet, Sums, Term

LEMMA Removed ==
    ASSUME NEW S, IsFiniteSet(S), NEW n \in Nat, Cardinality(S) <= n + 1, NEW x \in S
    PROVE  IsFiniteSet(S \ {x}) /\ Cardinality(S \ {x}) <= n
<1>1. /\ IsFiniteSet(S \ {x}) /\ Cardinality(S \ {x}) = Cardinality(S) - 1
      /\ Cardinality(S) \in Nat
  BY FS_RemoveElement, FS_CardinalityType
<1>2. QED
  BY <1>1

\* There is such a function, built for sets of ever more elements.
LEMMA SumsExist ==
    ASSUME NEW S, IsFiniteSet(S), NEW f, \A x \in S : f[x] \in Nat
    PROVE  /\ Sums(f, S) \in [SUBSET S -> Nat]
           /\ \A s \in SUBSET S : Sums(f, S)[s] = Term(f, s, Sums(f, S))
<1> DEFINE upto(n) == {s \in SUBSET S : Cardinality(s) <= n}
           fits(n, g) == g \in [upto(n) -> Nat] /\ \A s \in upto(n) : g[s] = Term(f, s, g)
           P == {n \in Nat : \E g : fits(n, g)}
<1>f. \A s \in SUBSET S : IsFiniteSet(s) /\ Cardinality(s) \in Nat
  BY FS_Subset, FS_CardinalityType
<1>1. 0 \in P
  <2>1. \A s \in upto(0) : s = {}
    BY <1>f, FS_EmptySet
  <2>2. fits(0, [s \in upto(0) |-> 0])
    BY <2>1 DEF Term
  <2>3. QED
    BY <2>2
<1>2. ASSUME NEW n \in P PROVE n + 1 \in P
  <2>1. PICK g : fits(n, g)
    OBVIOUS
  <2> DEFINE h == [s \in upto(n + 1) |-> Term(f, s, g)]
             pick(s) == CHOOSE x \in s : TRUE
  <2>2. \A s \in upto(n + 1) : s # {} => pick(s) \in S /\ s \ {pick(s)} \in upto(n)
    BY <1>f, Removed
  <2>3. upto(n) \subseteq upto(n + 1)
    BY <1>f
  <2>4. \A s \in upto(n) : h[s] = g[s]
    BY <2>1, <2>3
  <2>5. ASSUME NEW s \in upto(n + 1) PROVE h[s] \in Nat /\ h[s] = Term(f, s, h)
    <3>1. CASE s = {}
      BY <3>1 DEF Term
    <3>2. CASE s # {}
      <4>1. pick(s) \in S /\ s \ {pick(s)} \in upto(n)
        BY <2>2, <3>2
      <4>2. h[s] = f[pick(s)] + g[s \ {pick(s)}]
        BY <3>2 DEF Term
      <4>3. h[s \ {pick(s)}] = g[s \ {pick(s)}] /\ g[s \ {pick(s)}] \in Nat
        BY <2>1, <2>4, <4>1
      <4>4. Term(f, s, h) = f[pick(s)] + h[s \ {pick(s)}]
        BY <3>2 DEF Term
      <4>5. QED
        BY <4>1, <4>2, <4>3, <4>4
    <3>3. QED
      BY <3>1, <3>2
  <2>6. h \in [upto(n + 1) -> Nat]
    BY <2>5
  <2> HIDE DEF h
  <2>7. fits(n + 1, h)
    BY <2>5, <2>6
  <2> HIDE DEF fits
  <2>8. QED
    BY <2>7
<1>3. Cardinality(S) \in P
  <2> HIDE DEF P
  <2>1. P \subseteq Nat
    BY DEF P
  <2>2. QED
    BY <1>1, <1>2, <2>1, Induction, FS_CardinalityType
<1>4. PICK g : fits(Cardinality(S), g)
  BY <1>3
<1>5. upto(Cardinality(S)) = SUBSET S
  BY FS_Subset, FS_CardinalityType
<1>6. g = [s \in SUBSET S |-> Term(f, s, g)]
  BY <1>4, <1>5
<1>7. Sums(f, S) = [s \in SUBSET S |-> Term(f, s, Sums(f, S))]
  BY <1>6 DEF Sums
<1> DEFINE G == Sums(f, S)
           Q == {n \in Nat : \A s \in upto(n) : G[s] \in Nat}
<1>8. \A s \in SUBSET S : G[s] = Term(f, s, G)
  BY <1>7
<1>9. ASSUME NEW s \in SUBSET S, \A x \in s : G[s \ {x}] \in Nat PROVE G[s] \in Nat
  <2>1. CASE s = {}
    <3>1. Term(f, s, G) = 0
      BY <2>1 DEF Term
    <3>2. QED
      BY <1>8, <3>1
  <2>2. CASE s # {}
    <3> DEFINE x == CHOOSE y \in s : TRUE
    <3>1. x \in s
      BY <2>2
    <3>2. G[s] = f[x] + G[s \ {x}]
      BY <1>8, <2>2 DEF Term
    <3>3. f[x] \in Nat /\ G[s \ {x}] \in Nat
      BY <1>9, <3>1
    <3> HIDE DEF x, G
    <3>4. QED
      BY <3>2, <3>3
  <2>3. QED
    BY <2>1, <2>2
<1>10. 0 \in Q
  <2>1. \A s \in upto(0) : s = {}
    BY <1>f, FS_EmptySet
  <2>2. QED
    BY <1>9, <2>1
<1>11. ASSUME NEW n \in Q PROVE n + 1 \in Q
  <2>1. \A s \in upto(n + 1) : \A x \in s : s \ {x} \in upto(n)
    BY <1>f, Removed
  <2>2. ASSUME NEW s \in upto(n + 1) PROVE G[s] \in Nat
    BY <1>9, <2>1
  <2>3. QED
    BY <2>2
<1>12. Cardinality(S) \in Q
  <2> HIDE DEF Q
  <2>1. Q \subseteq Nat
    BY DEF Q
  <2>2. QED
    BY <1>10, <1>11, <2>1, Induction, FS_CardinalityType
<1>13. \A s \in SUBSET S : G[s] \in Nat
  BY <1>5, <1>12
<1>14. QED
  BY <1>7, <1>8, <1>13

\* Whichever element is taken out first, the sum is the same.
LEMMA AnyFirst ==
    ASSUME NEW S, IsFiniteSet(S), NEW f, \A x \in S : f[x] \in Nat
    PROVE  \A s \in SUBSET S : \A x \in s : Sums(f, S)[s] = f[x] + Sums(f, S)[s \ {x}]
<1> DEFINE G == Sums(f, S)
           holds(s) == \A x \in s : G[s] = f[x] + G[s \ {x}]
           Q == {n \in Nat : \A s \in SUBSET S : Cardinality(s) <= n => holds(s)}
<1>f. \A s \in SUBSET S : IsFiniteSet(s) /\ Cardinality(s) \in Nat
  BY FS_Subset, FS_CardinalityType
<1>1. /\ \A s \in SUBSET S : G[s] \in Nat
      /\ \A s \in SUBSET S : G[s] = Term(f, s, G)
  BY SumsExist
<1> HIDE DEF G
<1>2. 0 \in Q
  BY <1>f, FS_EmptySet
<1>3. ASSUME NEW n \in Q, NEW s \in SUBSET S, Cardinality(s) <= n + 1, NEW x \in s
      PROVE  G[s] = f[x] + G[s \ {x}]
  <2> DEFINE y == CHOOSE z \in s : TRUE
  <2>1. y \in s
    OBVIOUS
  <2>2. G[s] = f[y] + G[s \ {y}]
    BY <1>1 DEF Term
  <2> HIDE DEF y
  <2>3. CASE x = y
    BY <2>2, <2>3
  <2>4. CASE x # y
    <3> DEFINE both == (s \ {y}) \ {x}
    <3>1. both = (s \ {x}) \ {y}
      OBVIOUS
    <3>2. Cardinality(s \ {x}) <= n /\ Cardinality(s \ {y}) <= n
      BY <1>f, <1>3, <2>1, Removed
    <3>3. G[s \ {y}] = f[x] + G[both]
      <4>1. x \in s \ {y} /\ s \ {y} \in SUBSET S
        BY <2>4
      <4>2. QED
        BY <3>2, <4>1
    <3>4. G[s \ {x}] = f[y] + G[both]
      <4>1. y \in s \ {x} /\ s \ {x} \in SUBSET S
        BY <2>1, <2>4
      <4> HIDE DEF both
      <4>2. holds(s \ {x})
        BY <3>2, <4>1
      <4>3. QED
        BY <3>1, <4>1, <4>2
    <3>5. G[both] \in Nat /\ f[x] \in Nat /\ f[y] \in Nat
      BY <1>1, <2>1
    <3> HIDE DEF both
    <3>6. QED
      BY <2>2, <3>3, <3>4, <3>5
  <2>5. QED
    BY <2>3, <2>4
<1>4. ASSUME NEW n \in Q PROVE n + 1 \in Q
  <2>1. \A s \in SUBSET S : Cardinality(s) <= n + 1 => holds(s)
    BY <1>3
  <2>2. QED
    BY <2>1
<1>5. Q = Nat
  <2>1. Q \subseteq Nat
    OBVIOUS
  <2> HIDE DEF Q
  <2>2. QED
    BY <1>2, <1>4, <2>1, Induction
<1>6. ASSUME NEW s \in SUBSET S PROVE holds(s)
  <2>1. Cardinality(s) \in Q
    BY <1>f, <1>5
  <2>2. Cardinality(s) <= Cardinality(s)
    BY <1>f
  <2>3. QED
    BY <2>1, <2>2
<1>7. QED
  BY <1>6 DEF G

\* A sum over a part is the same seen from the part.
LEMMA PartSum ==
    ASSUME NEW S, IsFiniteSet(S), NEW T \in SUBSET S, NEW f, \A x \in S : f[x] \in Nat
    PROVE  \A s \in SUBSET T : Sums(f, T)[s] = Sums(f, S)[s]
<1> DEFINE G == Sums(f, S)
           H == Sums(f, T)
           Q == {n \in Nat : \A s \in SUBSET T : Cardinality(s) <= n => H[s] = G[s]}
<1>f. \A s \in SUBSET T : IsFiniteSet(s) /\ Cardinality(s) \in Nat
  BY FS_Subset, FS_CardinalityType
<1>1. \A s \in SUBSET T : G[s] = Term(f, s, G) /\ H[s] = Term(f, s, H)
  BY SumsExist, FS_Subset
<1> HIDE DEF G, H
<1>2. \A s \in SUBSET T : s = {} => H[s] = G[s]
  BY <1>1 DEF Term
<1>3. 0 \in Q
  BY <1>f, <1>2, FS_EmptySet
<1>4. ASSUME NEW n \in Q, NEW s \in SUBSET T, Cardinality(s) <= n + 1 PROVE H[s] = G[s]
  <2>1. CASE s = {}
    BY <1>2, <2>1
  <2>2. CASE s # {}
    <3> DEFINE x == CHOOSE y \in s : TRUE
    <3>1. x \in s
      BY <2>2
    <3>2. H[s] = f[x] + H[s \ {x}] /\ G[s] = f[x] + G[s \ {x}]
      BY <1>1, <2>2 DEF Term
    <3> HIDE DEF x
    <3>3. Cardinality(s \ {x}) <= n /\ s \ {x} \in SUBSET T
      BY <1>f, <1>4, <3>1, Removed
    <3>4. H[s \ {x}] = G[s \ {x}]
      BY <3>3
    <3>5. QED
      BY <3>2, <3>4
  <2>3. QED
    BY <2>1, <2>2
<1>5. ASSUME NEW n \in Q PROVE n + 1 \in Q
  <2>1. \A s \in SUBSET T : Cardinality(s) <= n + 1 => H[s] = G[s]
    BY <1>4
  <2>2. QED
    BY <2>1
<1>6. Q = Nat
  <2>1. Q \subseteq Nat
    OBVIOUS
  <2> HIDE DEF Q
  <2>2. QED
    BY <1>3, <1>5, <2>1, Induction
<1>7. ASSUME NEW s \in SUBSET T PROVE H[s] = G[s]
  <2>1. Cardinality(s) \in Q /\ Cardinality(s) <= Cardinality(s)
    BY <1>f, <1>6
  <2>2. QED
    BY <2>1
<1>8. QED
  BY <1>7 DEF G, H

\* What a sum over part of a finite set does when the part grows.
LEMMA SumGrows ==
    ASSUME NEW S, IsFiniteSet(S), NEW f, \A x \in S : f[x] \in Nat, NEW C \in SUBSET S
    PROVE  /\ SumFunctionOnSet(f, C) \in Nat
           /\ \A x \in S \ C :
                 SumFunctionOnSet(f, C \cup {x}) = SumFunctionOnSet(f, C) + f[x]
           /\ \A D \in SUBSET C : SumFunctionOnSet(f, D) <= SumFunctionOnSet(f, C)
<1> DEFINE G == Sums(f, S)
<1>1. \A s \in SUBSET S : G[s] \in Nat
  BY SumsExist
<1>2. \A s \in SUBSET S : SumFunctionOnSet(f, s) = G[s]
  <2>1. ASSUME NEW s \in SUBSET S PROVE Sums(f, s)[s] = G[s]
    BY PartSum
  <2>2. QED
    BY <2>1, SumIsLast
<1>3. \A s \in SUBSET S : \A x \in s : G[s] = f[x] + G[s \ {x}]
  <2> HIDE DEF G
  <2>1. ASSUME NEW s \in SUBSET S, NEW x \in s
        PROVE  Sums(f, S)[s] = f[x] + Sums(f, S)[s \ {x}]
    BY AnyFirst
  <2>2. QED
    BY <2>1 DEF G
<1> HIDE DEF G
<1>4. ASSUME NEW x \in S \ C PROVE G[C \cup {x}] = G[C] + f[x]
  <2>1. (C \cup {x}) \ {x} = C /\ C \cup {x} \in SUBSET S /\ x \in C \cup {x}
    OBVIOUS
  <2>2. G[C \cup {x}] = f[x] + G[C]
    BY <1>3, <2>1
  <2>3. QED
    BY <1>1, <2>2
<1>5. ASSUME NEW D \in SUBSET C PROVE G[D] <= G[C]
  <2> DEFINE Q == {n \in Nat : \A s \in SUBSET C :
                      D \subseteq s /\ Cardinality(s) <= n => G[D] <= G[s]}
  <2>f. \A s \in SUBSET C : IsFiniteSet(s) /\ Cardinality(s) \in Nat
    BY FS_Subset, FS_CardinalityType
  <2>1. 0 \in Q
    <3>1. ASSUME NEW s \in SUBSET C, D \subseteq s, Cardinality(s) <= 0 PROVE G[D] <= G[s]
      <4>1. s = {} /\ D = s
        BY <2>f, <3>1, FS_EmptySet
      <4>2. QED
        BY <1>1, <4>1
    <3>2. QED
      BY <3>1
  <2>2. ASSUME NEW n \in Q, NEW s \in SUBSET C, D \subseteq s, Cardinality(s) <= n + 1
        PROVE  G[D] <= G[s]
    <3>1. CASE s = D
      BY <1>1, <3>1
    <3>2. CASE s # D
      <4>1. PICK x \in s : x \notin D
        BY <2>2, <3>2
      <4>2. s \ {x} \in SUBSET C /\ D \subseteq s \ {x} /\ Cardinality(s \ {x}) <= n
        BY <2>f, <2>2, <4>1, Removed
      <4>3. G[D] <= G[s \ {x}]
        BY <4>2
      <4>4. G[s] = f[x] + G[s \ {x}]
        BY <1>3
      <4>5. G[D] \in Nat /\ G[s \ {x}] \in Nat /\ f[x] \in Nat
        BY <1>1
      <4>6. QED
        BY <4>3, <4>4, <4>5
    <3>3. QED
      BY <3>1, <3>2
  <2>3. ASSUME NEW n \in Q PROVE n + 1 \in Q
    BY <2>2
  <2>4. Q = Nat
    <3>1. Q \subseteq Nat
      OBVIOUS
    <3> HIDE DEF Q
    <3>2. QED
      BY <2>1, <2>3, <3>1, Induction
  <2>5. Cardinality(C) \in Q /\ Cardinality(C) <= Cardinality(C) /\ C \in SUBSET C
    BY <2>f, <2>4
  <2>6. QED
    BY <2>5
<1>6. QED
  BY <1>1, <1>2, <1>4, <1>5

-----------------------------------------------------------------------------
USE LaunchAssumption

(* The inductive invariant                                                 *)

\* What a request waits for is about a server and its container.
Targets == \A c \in Call : call[c] # Idle =>
              call[c].server \in Server /\ call[c].target \in Container

Locked == \A c \in Call : call[c].at \in Holding => holder = c

\* The verdict of the launch under way, restated on what its survey counted.
Admitted ==
    \A c \in Call : call[c].at \in Holding /\ call[c].sound =>
        LET k == call[c].target
            pool == NodePool[k.node]
        IN  pool.discrete \/
              Load(surveyed \ {k}, pool) + Need(k, pool) + pool.reserve <= pool.total

\* The containers NoOvercommit is about.
Honest(n) == (RunningOn(n) \ unsure) \cap SeenWhole(NodePool[n])

IInv == TypeOK /\ Targets /\ Locked /\ SurveyStands /\ Admitted /\ NoOvercommit

-----------------------------------------------------------------------------
\* What a vLLM engine asks of a pool is a natural number.
LEMMA FootprintType ==
    ASSUME NEW args \in Args, NEW p \in Pool
    PROVE  Footprint(args, p) \in Nat
<1> DEFINE util == IF args.util = NoUtil THEN DefaultUtil ELSE args.util
           S == Spanned(args, p)
<1>1. util \in Nat /\ args.kv \in Nat /\ args.offload \in Nat
  BY AdmissionAssumption DEF Args, NoUtil
<1>2. S \in Nat /\ p.total \in Nat /\ p.devices \in Nat \ {0}
  BY DEF Spanned, Args, Pool
<1> HIDE DEF util, S
<1>3. util * p.total * S \in Nat /\ 100 * p.devices \in Nat \ {0}
  BY <1>1, <1>2, SMT
<1>4. (util * p.total * S) \div (100 * p.devices) \in Nat
  BY <1>3, SMT
<1>5. QED
  BY <1>1, <1>4 DEF Footprint, Larger, util, S

\* What a container needs of a pool is a natural number.
LEMMA NeedType == \A k \in Container, n \in Node :
                     NodePool[n] \in Pool /\ Need(k, NodePool[n]) \in Nat
<1> SUFFICES ASSUME NEW k \in Container, NEW n \in Node
             PROVE  NodePool[n] \in Pool /\ Need(k, NodePool[n]) \in Nat
  OBVIOUS
<1>1. NodePool[n] \in Pool /\ k.server \in Server
  BY DEF Container
<1>2. Footprint(VllmArgs[k.server], NodePool[n]) \in Nat
  BY <1>1, FootprintType
<1>3. Weights[k.server] \in Nat
  BY <1>1
<1>4. QED
  BY <1>1, <1>2, <1>3 DEF Need

\* What a container is seen to take of a pool is a natural number.
LEMMA SeenType == \A k \in Container, n \in Node : Seen(k, NodePool[n]) \in Nat
<1> SUFFICES ASSUME NEW k \in Container, NEW n \in Node
             PROVE  Seen(k, NodePool[n]) \in Nat
  OBVIOUS
<1>1. NodePool[n] \in Pool /\ k.server \in Server
  BY DEF Container
<1>2. Footprint(Apparent(VllmArgs[k.server]), NodePool[n]) \in Nat
  <2>1. Apparent(VllmArgs[k.server]) \in Args
    BY <1>1 DEF Apparent, Args
  <2>2. QED
    BY <1>1, <2>1, FootprintType
<1>3. Less(Weights[k.server], Companions[k.server]) \in Nat
  BY <1>1 DEF Less
<1>4. QED
  BY <1>2, <1>3 DEF Seen

\* There are as many containers as servers, engines and machines make.
LEMMA ContainersAreFinite == IsFiniteSet(Container)
<1> DEFINE P == (Server \X Engine) \X Node
           made == [x \in P |-> [server |-> x[1][1], engine |-> x[1][2], node |-> x[2]]]
<1>1. IsFiniteSet(P)
  <2>1. IsFiniteSet({"vllm"}) /\ Engine = {"vllm"} \cup {"llamacpp"}
    BY FS_Singleton DEF Engine
  <2>2. IsFiniteSet(Engine)
    BY <2>1, FS_AddElement
  <2>3. IsFiniteSet(Server \X Engine)
    BY <2>2, FS_Product
  <2>4. QED
    BY <2>3, FS_Product
<1>2. made \in Surjection(P, Container)
  <2>1. made \in [P -> Container]
    BY DEF Container
  <2>2. ASSUME NEW k \in Container PROVE \E x \in P : made[x] = k
    <3>1. <<<<k.server, k.engine>>, k.node>> \in P
      BY DEF Container
    <3>2. made[<<<<k.server, k.engine>>, k.node>>] = k
      BY <3>1 DEF Container
    <3>3. QED
      BY <3>1, <3>2
  <2>3. QED
    BY <2>1, <2>2 DEF Surjection
<1> HIDE DEF P, made
<1>3. QED
  BY <1>1, <1>2, FS_Surjection

\* What a survey adds up on a machine is a number, grows by what a container
\* that is added is seen to take, and is no more for fewer of them.
LEMMA LoadFacts ==
    ASSUME NEW n \in Node, NEW C \in SUBSET Container
    PROVE  /\ Load(C, NodePool[n]) \in Nat
           /\ \A k \in Container \ C : Load(C \cup {k}, NodePool[n])
                                         = Load(C, NodePool[n]) + Seen(k, NodePool[n])
           /\ \A D \in SUBSET C : Load(D, NodePool[n]) <= Load(C, NodePool[n])
<1> DEFINE f == [k \in Container |-> Seen(k, NodePool[n])]
<1>1. \A k \in Container : f[k] = Seen(k, NodePool[n])
  OBVIOUS
<1>2. \A k \in Container : f[k] \in Nat
  BY SeenType
<1> HIDE DEF f
<1>3. /\ SumFunctionOnSet(f, C) \in Nat
      /\ \A k \in Container \ C :
            SumFunctionOnSet(f, C \cup {k}) = SumFunctionOnSet(f, C) + f[k]
      /\ \A D \in SUBSET C : SumFunctionOnSet(f, D) <= SumFunctionOnSet(f, C)
  BY <1>2, ContainersAreFinite, SumGrows
<1>4. QED
  BY <1>1, <1>3 DEF Load, f

\* A launch that passed a sound survey fits beside what the survey counted.
LEMMA SoundVerdict ==
    ASSUME NEW k \in Container, NEW shown \in SUBSET Container,
           NEW available \in Nat, NEW measured \in Nat,
           ~NodePool[k.node].discrete,
           ~Blocks(k, Survey(k, NodePool[k.node], shown, available, measured))
    PROVE  Load(shown \ {k}, NodePool[k.node]) + Need(k, NodePool[k.node])
             + NodePool[k.node].reserve <= NodePool[k.node].total
<1> DEFINE pool == NodePool[k.node]
           b == Survey(k, pool, shown, available, measured)
<1>1. k.node \in Node
  BY DEF Container
<1>2. pool \in Pool /\ Need(k, pool) \in Nat
  BY <1>1, NeedType
<1>3. Load(shown \ {k}, pool) \in Nat
  BY <1>1, LoadFacts
<1>4. /\ b.pool = pool /\ b.committed = Load(shown \ {k}, pool)
      /\ b \in Budget
  <2>1. Credit(k, pool, measured) \in Nat
    BY <1>1, SeenType DEF Credit, Smaller
  <2>2. QED
    BY <1>2, <1>3, <2>1 DEF Survey, Budget
<1>5. ~VllmBlocks(b, Need(k, pool)) \/ ~BytesBlocks(b, Need(k, pool))
  BY <1>4 DEF Blocks
<1> HIDE DEF b, pool
<1>6. b.committed + Need(k, pool) + b.pool.reserve <= b.pool.total
  BY <1>2, <1>4, <1>5, AdmittedFits DEF pool
<1>7. QED
  BY <1>4, <1>6 DEF pool

\* A survey sees at most what runs, of a pool or of nothing.
LEMMA ViewsType ==
    ASSUME TypeOK, NEW n \in Node, NEW view \in Views(n)
    PROVE  view[2] \subseteq RunningOn(n) /\ view[1].total \in Nat
<1>1. NodePool[n].total \in Nat /\ Unread.total = 0
  BY DEF Pool, Unread
<1>2. view = <<NodePool[n], RunningOn(n)>>
      \/ view \in {NodePool[n], Unread} \X {RunningOn(n), {}}
  BY DEF Views
<1>3. view[1] \in {NodePool[n], Unread} /\ view[2] \in {RunningOn(n), {}}
  BY <1>2
<1>4. QED
  BY <1>1, <1>3

\* An answered request is idle, and its record well formed.
LEMMA AnswerType ==
    ASSUME IInv, NEW c \in Call, Answers(c)
    PROVE  call' \in [Call -> Pending] /\ Targets'
<1>1. Idle \in Pending
  BY DEF Idle, Pending, CallAt
<1>2. QED
  BY <1>1 DEF IInv, TypeOK, Targets, Answers

\* A request that goes on keeps its server and its target.
LEMMA ProgressType ==
    ASSUME IInv, NEW c \in Call, NEW sound \in BOOLEAN, NEW at \in CallAt, call[c] # Idle,
           \/ Goes(c, at)
           \/ call' = [call EXCEPT ![c].at = at, ![c].sound = sound]
    PROVE  call' \in [Call -> Pending] /\ Targets'
<1>1. call[c] \in Pending /\ call[c].server \in Server /\ call[c].target \in Container
  BY DEF IInv, TypeOK, Targets
<1>2. call'[c] \in Pending /\ call'[c].server \in Server /\ call'[c].target \in Container
  BY <1>1 DEF Goes, Pending, IInv, TypeOK
<1>3. call' \in [Call -> Pending] /\ \A d \in Call : d # c => call'[d] = call[d]
  BY <1>2 DEF Goes, IInv, TypeOK
<1>4. QED
  BY <1>2, <1>3 DEF IInv, Targets

\* docker stop and rm only take containers away.
LEMMA TakenDownType ==
    ASSUME IInv, NEW c \in Call, TakenDown(c), call[c] # Idle
    PROVE  running' \subseteq Container /\ unsure' \subseteq running' /\ (mixed \cup misread)' \subseteq Server
BY DEF IInv, TypeOK, Targets, TakenDown, Ends, marks

-----------------------------------------------------------------------------
\* Every step keeps the types and each request's target.
LEMMA TypeStep == IInv /\ [Next]_vars => TypeOK' /\ Targets'
<1> SUFFICES ASSUME IInv, [Next]_vars PROVE TypeOK' /\ Targets'
  OBVIOUS
<1> USE DEF IInv, rows, lock, ghosts, marks
<1>1. CASE UNCHANGED vars
  BY <1>1 DEF vars, TypeOK, Targets
<1>2. ASSUME NEW c \in Call, NEW op \in Op, NEW s \in Server, Request(c, op, s)
      PROVE  TypeOK' /\ Targets'
  <2>1. Named(s) \in Container
    BY <1>2 DEF Request, TypeOK, Alive, Named, Container, Row
  <2>2. FirstAwait(op, row[s].node) \in CallAt
    BY DEF FirstAwait, CallAt, Op
  <2>3. edits' \in 0..MaxEdits
    BY <1>2 DEF Request, TypeOK
  <2>4. QED
    BY <1>2, <2>1, <2>2, <2>3 DEF Request, TypeOK, Targets, Pending, Op
<1>3. ASSUME NEW c \in Call, Proceeds(c) PROVE TypeOK' /\ Targets'
  <2>1. ASSUME NEW force \in BOOLEAN, Measures(c, force) PROVE TypeOK' /\ Targets'
    <3>1. call[c] # Idle /\ call[c].target \in Container
      BY <2>1 DEF Measures, Idle, Targets
    <3>2. surveyed' \subseteq Container
      BY <2>1, <3>1, ViewsType DEF Measures, TypeOK, RunningOn, Container
    <3>3. \E sound \in BOOLEAN :
             call' = [call EXCEPT ![c].at = "remove", ![c].sound = sound]
      BY <2>1 DEF Measures
    <3>4. holder' = c /\ UNCHANGED <<rows, running, abandoned, ghosts>>
      BY <2>1 DEF Measures
    <3>5. call' \in [Call -> Pending] /\ Targets'
      BY <3>1, <3>3, ProgressType DEF CallAt, Holding
    <3>6. QED
      BY <3>2, <3>4, <3>5 DEF TypeOK
  <2>2. CASE Refuses(c)
    BY <2>2, AnswerType DEF Refuses, TypeOK
  <2>3. CASE Removes(c)
    <3>1. call[c] # Idle /\ "run" \in CallAt
      BY <2>3 DEF Removes, Idle, CallAt, Holding
    <3>2. QED
      BY <2>3, <3>1, ProgressType, TakenDownType DEF Removes, TypeOK
  <2>4. CASE Runs(c)
    <3>1. call[c].target \in Container
      BY <2>4 DEF Runs, Idle, Targets
    <3>2. QED
      BY <2>4, <3>1, AnswerType DEF Runs, Release, TypeOK
  <2>5. CASE RunRefused(c)
    BY <2>5, AnswerType DEF RunRefused, Release, TypeOK
  <2>6. CASE Stops(c)
    <3>1. call[c] # Idle
      BY <2>6 DEF Stops, Idle
    <3>2. running' \subseteq Container /\ unsure' \subseteq running' /\ (mixed \cup misread)' \subseteq Server
      BY <2>6, <3>1, TakenDownType DEF Stops
    <3>3. call' \in [Call -> Pending] /\ Targets'
      <4>1. CASE Answers(c)
        BY <4>1, AnswerType
      <4>2. CASE /\ Alive(call[c].server)
                 /\ call' = [call EXCEPT ![c].at = "lock", ![c].target = Named(call[c].server)]
        <5>1. call[c] \in Pending /\ call[c].server \in Server
          BY <3>1 DEF TypeOK, Targets
        <5>2. Named(call[c].server) \in Container
          BY <4>2, <5>1 DEF TypeOK, Alive, Named, Container, Row
        <5>3. /\ call'[c] \in Pending /\ call'[c].server \in Server
              /\ call'[c].target \in Container
          BY <4>2, <5>1, <5>2 DEF Pending, CallAt, TypeOK
        <5>4. call' \in [Call -> Pending] /\ \A d \in Call : d # c => call'[d] = call[d]
          BY <4>2, <5>3 DEF TypeOK
        <5>5. QED
          BY <5>3, <5>4 DEF Targets
      <4>3. QED
        BY <2>6, <4>1, <4>2 DEF Stops
    <3>4. QED
      BY <2>6, <3>2, <3>3 DEF Stops, TypeOK
  <2>7. CASE Deletes(c)
    <3>1. call[c] # Idle /\ "drop" \in CallAt
      BY <2>7 DEF Deletes, Idle, CallAt
    <3>2. QED
      BY <2>7, <3>1, ProgressType, TakenDownType DEF Deletes, TypeOK
  <2>8. CASE Drops(c)
    BY <2>8, AnswerType DEF Drops, TypeOK
  <2>9. CASE Unavailable(c) \/ InspectsRefused(c)
    BY <2>9, AnswerType DEF Unavailable, InspectsRefused, TypeOK
  <2>10. CASE Inspects(c)
    <3>1. call[c] # Idle /\ "write" \in CallAt
      BY <2>10 DEF Inspects, Idle, CallAt
    <3>2. call' \in [Call -> Pending] /\ Targets'
      BY <2>10, <3>1, ProgressType DEF Inspects
    <3>3. call[c].server \in Server
      BY <3>1 DEF Targets
    <3>4. QED
      BY <2>10, <3>2, <3>3 DEF Inspects, TypeOK
  <2>11. CASE Writes(c)
    <3>1. call[c].server \in Server /\ call[c].target.engine \in Engine
      BY <2>11 DEF Writes, Idle, Targets, Container
    <3>2. Other(call[c].target.engine) \in Engine
      BY <3>1 DEF Other, Engine
    <3>3. row' \in [Server -> Row \cup {None}]
      BY <2>11, <3>1, <3>2 DEF Writes, TypeOK, Alive, Row
    <3>4. QED
      BY <2>11, <3>3, AnswerType DEF Writes, TypeOK
  <2>12. CASE Available(c)
    <3>1. call[c] # Idle /\ "state" \in CallAt
      BY <2>12 DEF Available, Idle, CallAt
    <3>2. QED
      BY <2>12, <3>1, ProgressType DEF Available, TypeOK
  <2>13. QED
    BY <1>3, <2>1, <2>2, <2>3, <2>4, <2>5, <2>6, <2>7, <2>8, <2>9, <2>10, <2>11, <2>12
    DEF Proceeds, Start
<1>4. ASSUME NEW c \in Call, Cancels(c) PROVE TypeOK' /\ Targets'
  <2>1. call[c] # Idle
    BY <1>4 DEF Cancels, Idle
  <2>2. call[c].server \in Server /\ call[c].target \in Container
    BY <2>1 DEF Targets
  <2>3. abandoned' \subseteq {"remove", "run"} \X Container
    BY <1>4, <2>2 DEF Cancels, TypeOK
  <2>4. holder' \in Call \cup {None} /\ surveyed' \subseteq Container
    BY <1>4 DEF Cancels, Release, TypeOK
  <2>5. QED
    BY <1>4, <2>2, <2>3, <2>4, AnswerType DEF Cancels, TypeOK
<1>5. ASSUME NEW k \in Container, AbandonedRemoves(k) \/ AbandonedRuns(k) \/ Dies(k)
      PROVE  TypeOK' /\ Targets'
  BY <1>5 DEF AbandonedRemoves, AbandonedRuns, Dies, Ends, TypeOK, Targets
<1>6. ASSUME NEW s \in Server, NEW n \in Node, SetNode(s, n) PROVE TypeOK' /\ Targets'
  <2>1. row' \in [Server -> Row \cup {None}]
    BY <1>6 DEF SetNode, TypeOK, Alive, Row
  <2>2. QED
    BY <1>6, <2>1 DEF SetNode, TypeOK, Targets
<1>7. QED
  BY <1>1, <1>2, <1>3, <1>4, <1>5, <1>6 DEF Next

-----------------------------------------------------------------------------
(* Steps that create no container with a verdict                           *)

Safe == Locked /\ SurveyStands /\ Admitted /\ NoOvercommit

\* The launch under way, if it goes on, is as it was, and no container is
\* added to those that run on a sound verdict.
Calm ==
    /\ \A d \in Call : call'[d].at \in Holding =>
          /\ call[d].at \in Holding
          /\ call'[d].target = call[d].target
          /\ call'[d].sound = call[d].sound
          /\ holder' = holder
          /\ surveyed' = surveyed
    /\ running' \ unsure' \subseteq running \ unsure

\* A step that lets nobody into the lock and adds no container with a verdict
\* keeps what the lock protects.
LEMMA CalmStep == ASSUME IInv, Calm PROVE Safe'
<1> USE DEF IInv
<1>1. Locked'
  BY DEF Calm, Locked
<1>2. SurveyStands'
  BY DEF Calm, SurveyStands, RunningOn
<1>3. Admitted'
  BY DEF Calm, Admitted
<1>4. NoOvercommit'
  <2> SUFFICES ASSUME NEW n \in Node, ~NodePool[n].discrete, Honest(n)' # {}
               PROVE  Load(Honest(n)', NodePool[n]) + NodePool[n].reserve
                        <= NodePool[n].total
    BY DEF NoOvercommit, Honest
  <2> DEFINE before == Honest(n)
             after == Honest(n)'
  <2>1. after \subseteq before /\ before \in SUBSET Container /\ after \in SUBSET Container
    BY DEF Calm, Honest, RunningOn, TypeOK
  <2>2. before # {}
    BY <2>1
  <2>3. Load(before, NodePool[n]) + NodePool[n].reserve <= NodePool[n].total
    BY <2>2 DEF NoOvercommit, Honest
  <2>4. /\ Load(after, NodePool[n]) \in Nat /\ Load(before, NodePool[n]) \in Nat
        /\ Load(after, NodePool[n]) <= Load(before, NodePool[n])
    BY <2>1, LoadFacts
  <2>5. NodePool[n].reserve \in Nat /\ NodePool[n].total \in Nat
    BY NeedType DEF Pool
  <2>6. QED
    BY <2>3, <2>4, <2>5
<1>5. QED
  BY <1>1, <1>2, <1>3, <1>4 DEF Safe

\* An answered request holds nothing any more.
LEMMA AnswerHolds ==
    ASSUME IInv, NEW c \in Call, Answers(c)
    PROVE  \A d \in Call : call'[d].at \in Holding => d # c /\ call'[d] = call[d]
BY DEF IInv, TypeOK, Answers, Idle, Holding

-----------------------------------------------------------------------------
(* The two steps that matter: measuring and creating                       *)

\* The survey that lets a launch go on stands for what runs on its machine.
LEMMA MeasureStep ==
    ASSUME IInv, TypeOK', NEW c \in Call, NEW force \in BOOLEAN, Measures(c, force)
    PROVE  Safe'
<1> USE DEF IInv
<1> DEFINE k == call[c].target
           pool == NodePool[k.node]
<1>1. call[c] # Idle /\ k \in Container /\ k.node \in Node /\ holder = None /\ holder' = c
  BY DEF Measures, Idle, Targets, Container
<1>2. \A d \in Call : call[d].at \notin Holding
  BY <1>1 DEF Locked
<1>3. running' = running /\ unsure' = unsure
  BY DEF Measures, ghosts
<1> DEFINE Reading(view, blocked) ==
             /\ call' = [call EXCEPT ![c].at = "remove",
                            ![c].sound = /\ ~blocked
                                         /\ view = <<pool, RunningOn(k.node)>>]
             /\ surveyed' = view[2]
<1>4a. PICK view \in Views(k.node) : \E blocked \in Verdicts(k, view) : Reading(view, blocked)
  BY DEF Measures
<1>4b. PICK blocked \in Verdicts(k, view) : Reading(view, blocked)
  BY <1>4a
<1>4c. PICK available \in 0..view[1].total,
            measured \in IF k.node \in Peer THEN {0} ELSE 0..view[1].total :
          blocked = Blocks(k, Survey(k, view[1], view[2], available, measured))
  BY DEF Verdicts
<1>4. /\ call' = [call EXCEPT ![c].at = "remove",
                     ![c].sound =
                        /\ ~Blocks(k, Survey(k, view[1], view[2], available, measured))
                        /\ view = <<pool, RunningOn(k.node)>>]
      /\ surveyed' = view[2]
  BY <1>4b, <1>4c
<1>5. /\ \A d \in Call : d # c => call'[d] = call[d]
      /\ call'[c].target = k
      /\ call'[c].sound =>
            /\ ~Blocks(k, Survey(k, view[1], view[2], available, measured))
            /\ view[1] = pool /\ view[2] = RunningOn(k.node)
  BY <1>4 DEF TypeOK, Pending
<1>6. \A d \in Call : call'[d].at \in Holding => d = c
  BY <1>2, <1>5
<1>7. Locked'
  BY <1>1, <1>6 DEF Locked
<1>8. SurveyStands'
  <2>1. call'[c].sound => surveyed' = RunningOn(k.node)
    BY <1>4, <1>5
  <2>2. ASSUME NEW d \in Call, call'[d].at \in Holding, call'[d].sound
        PROVE  RunningOn(call[d].target.node)' \ (unsure' \cup {call'[d].target})
                 \subseteq surveyed'
    <3>1. d = c /\ call'[d].target = k
      BY <1>5, <1>6, <2>2
    <3>2. RunningOn(call[d].target.node)' = {m \in running : m.node = k.node}
      BY <1>3, <3>1 DEF RunningOn
    <3>3. QED
      BY <2>1, <2>2, <3>1, <3>2 DEF RunningOn
  <2>3. QED
    BY <2>2 DEF SurveyStands
<1>9. Admitted'
  <2> SUFFICES ASSUME call'[c].sound, ~pool.discrete
               PROVE  Load(surveyed' \ {k}, pool) + Need(k, pool) + pool.reserve <= pool.total
    BY <1>5, <1>6 DEF Admitted
  <2>1. view[1] = pool /\ view[2] = RunningOn(k.node) /\ surveyed' = RunningOn(k.node)
        /\ ~Blocks(k, Survey(k, pool, RunningOn(k.node), available, measured))
    BY <1>4, <1>5
  <2>2. pool.total \in Nat
    BY <1>1, NeedType DEF Pool
  <2>3. available \in Nat /\ measured \in Nat /\ RunningOn(k.node) \in SUBSET Container
    BY <1>4, <2>1, <2>2 DEF RunningOn, TypeOK
  <2>4. QED
    BY <1>1, <2>1, <2>3, SoundVerdict
<1>10. NoOvercommit'
  BY <1>3 DEF NoOvercommit, RunningOn
<1>11. QED
  BY <1>7, <1>8, <1>9, <1>10 DEF Safe

\* The container that is created fits beside the honest ones, because those
\* are among the surveyed and the verdict counted all of the surveyed.
LEMMA RunStep == ASSUME IInv, TypeOK', NEW c \in Call, Runs(c) PROVE Safe'
<1> USE DEF IInv
<1> DEFINE k == call[c].target
           n == k.node
           pool == NodePool[n]
<1>1. call[c] # Idle /\ k \in Container /\ n \in Node /\ call[c].at \in Holding /\ holder = c
  BY DEF Runs, Idle, Targets, Container, Holding, Locked
<1>2. \A d \in Call : call'[d].at \notin Holding
  BY <1>1, AnswerHolds DEF Runs, Locked
<1>3. Locked' /\ SurveyStands' /\ Admitted'
  BY <1>2 DEF Locked, SurveyStands, Admitted
<1>4. k \notin running /\ running' = running \cup {k}
  BY DEF Runs
<1>5. CASE ~call[c].sound
  <2>1. running' \ unsure' \subseteq running \ unsure
    BY <1>4, <1>5 DEF Runs
  <2>2. Calm
    BY <1>2, <2>1 DEF Calm
  <2>3. QED
    BY <2>2, CalmStep
<1>6. CASE call[c].sound
  <2>1. unsure' = unsure
    BY <1>4, <1>6 DEF Runs, TypeOK
  <2> SUFFICES ASSUME NEW m \in Node, ~NodePool[m].discrete, Honest(m)' # {}
               PROVE  Load(Honest(m)', NodePool[m]) + NodePool[m].reserve
                        <= NodePool[m].total
    BY <1>3 DEF Safe, NoOvercommit, Honest
  <2>2. CASE m # n \/ k \notin SeenWhole(pool)
    <3>1. Honest(m)' = Honest(m)
      BY <1>4, <2>1, <2>2 DEF Honest, RunningOn
    <3>2. QED
      BY <3>1 DEF NoOvercommit, Honest
  <2>3. CASE m = n /\ k \in SeenWhole(pool)
    <3> DEFINE honest == Honest(n)
    <3>1. Honest(m)' = honest \cup {k} /\ k \notin honest
      <4>1. k.node = m /\ k \notin running /\ unsure \subseteq running
        BY <1>4, <2>3 DEF TypeOK
      <4>2. RunningOn(m)' = RunningOn(m) \cup {k}
        BY <1>4, <4>1 DEF RunningOn
      <4>3. QED
        BY <2>1, <2>3, <4>1, <4>2 DEF Honest, RunningOn
    <3>2. honest \in SUBSET (surveyed \ {k})
      BY <1>1, <1>4, <1>6, <3>1 DEF SurveyStands, Honest
    <3>3. surveyed \ {k} \in SUBSET Container /\ honest \in SUBSET Container
      BY DEF TypeOK, RunningOn, Honest
    <3>4. Load(surveyed \ {k}, pool) + Need(k, pool) + pool.reserve <= pool.total
      BY <1>1, <1>6, <2>3 DEF Admitted
    <3>5. /\ Load(honest, pool) <= Load(surveyed \ {k}, pool)
          /\ Load(honest \cup {k}, pool) = Load(honest, pool) + Need(k, pool)
          /\ Load(honest, pool) \in Nat /\ Load(surveyed \ {k}, pool) \in Nat
      BY <1>1, <2>3, <3>1, <3>2, <3>3, LoadFacts DEF SeenWhole
    <3>6. Need(k, pool) \in Nat /\ pool.reserve \in Nat /\ pool.total \in Nat
      BY <1>1, NeedType DEF Pool
    <3>7. Load(honest \cup {k}, pool) + pool.reserve <= pool.total
      BY <3>4, <3>5, <3>6
    <3>8. QED
      BY <2>3, <3>1, <3>7
  <2>4. QED
    BY <2>2, <2>3
<1>7. QED
  BY <1>5, <1>6

-----------------------------------------------------------------------------
\* Every step keeps what the lock protects.
LEMMA SafeStep == ASSUME IInv, TypeOK', [Next]_vars PROVE Safe'
<1> USE DEF IInv, rows, lock, ghosts, marks
<1>1. CASE UNCHANGED vars
  BY <1>1, CalmStep DEF vars, Calm
<1>2. ASSUME NEW c \in Call, NEW op \in Op, NEW s \in Server, Request(c, op, s) PROVE Safe'
  <2>1. FirstAwait(op, row[s].node) \notin Holding
    BY DEF FirstAwait, Op, Holding
  <2>2. Calm
    BY <1>2, <2>1 DEF Request, Calm, TypeOK
  <2>3. QED
    BY <2>2, CalmStep
<1>3. ASSUME NEW c \in Call, Proceeds(c) PROVE Safe'
  <2>1. CASE \E force \in BOOLEAN : Measures(c, force)
    BY <2>1, MeasureStep
  <2>2. CASE Runs(c)
    BY <2>2, RunStep
  <2>3. CASE Refuses(c) \/ Drops(c) \/ Unavailable(c) \/ InspectsRefused(c) \/ Writes(c)
    <3>1. Answers(c) /\ holder' = holder /\ surveyed' = surveyed
          /\ running' = running /\ unsure' = unsure
      BY <2>3 DEF Refuses, Drops, Unavailable, InspectsRefused, Writes
    <3>2. Calm
      BY <3>1, AnswerHolds DEF Calm
    <3>3. QED
      BY <3>2, CalmStep
  <2>4. CASE RunRefused(c)
    <3>1. \A d \in Call : call'[d].at \notin Holding
      BY <2>4, AnswerHolds DEF RunRefused, Locked, Holding
    <3>2. Calm
      BY <2>4, <3>1 DEF RunRefused, Calm
    <3>3. QED
      BY <3>2, CalmStep
  <2>5. CASE Removes(c)
    <3>1. running' \ unsure' \subseteq running \ unsure
      BY <2>5 DEF Removes, TakenDown, Ends
    <3>2. /\ call[c].at \in Holding /\ call'[c].target = call[c].target
          /\ call'[c].sound = call[c].sound /\ \A d \in Call : d # c => call'[d] = call[d]
      BY <2>5 DEF Removes, Goes, TypeOK, Pending, Holding
    <3>3. Calm
      BY <2>5, <3>1, <3>2 DEF Removes, Calm
    <3>4. QED
      BY <3>3, CalmStep
  <2>6. CASE Stops(c) \/ Deletes(c) \/ Available(c) \/ Inspects(c)
    <3>1. running' \ unsure' \subseteq running \ unsure
      BY <2>6 DEF Stops, Deletes, Available, Inspects, TakenDown, Ends
    <3>2. \A d \in Call : call'[d].at \in Holding => call'[d] = call[d]
      BY <2>6 DEF Stops, Deletes, Available, Inspects, Goes, Answers, Idle, TypeOK, Pending, Holding
    <3>3. Calm
      BY <2>6, <3>1, <3>2 DEF Stops, Deletes, Available, Inspects, Calm
    <3>4. QED
      BY <3>3, CalmStep
  <2>7. QED
    BY <1>3, <2>1, <2>2, <2>3, <2>4, <2>5, <2>6 DEF Proceeds, Start
<1>4. ASSUME NEW c \in Call, Cancels(c) PROVE Safe'
  <2>1. Answers(c) /\ running' = running /\ unsure' = unsure
    BY <1>4 DEF Cancels
  <2>2. \A d \in Call : call'[d].at \in Holding => d # c /\ call'[d] = call[d] /\ holder = d
    BY <2>1, AnswerHolds DEF Locked
  <2>3. holder # c => holder' = holder /\ surveyed' = surveyed
    BY <1>4 DEF Cancels
  <2>4. Calm
    BY <2>1, <2>2, <2>3 DEF Calm
  <2>5. QED
    BY <2>4, CalmStep
<1>5. ASSUME NEW k \in Container, AbandonedRemoves(k) \/ AbandonedRuns(k) \/ Dies(k) PROVE Safe'
  <2>1. running' \ unsure' \subseteq running \ unsure
    BY <1>5 DEF AbandonedRemoves, AbandonedRuns, Dies, Ends
  <2>2. Calm
    BY <1>5, <2>1 DEF AbandonedRemoves, AbandonedRuns, Dies, Calm
  <2>3. QED
    BY <2>2, CalmStep
<1>6. ASSUME NEW s \in Server, NEW n \in Node, SetNode(s, n) PROVE Safe'
  BY <1>6, CalmStep DEF SetNode, Calm
<1>7. QED
  BY <1>1, <1>2, <1>3, <1>4, <1>5, <1>6 DEF Next

-----------------------------------------------------------------------------
\* Nothing runs at first.
LEMMA InitInvariant == Init => IInv
<1> SUFFICES ASSUME Init PROVE IInv
  OBVIOUS
<1>1. TypeOK
  BY DEF Init, TypeOK, Idle, Pending, CallAt
<1>2. Targets /\ Locked /\ SurveyStands /\ Admitted
  BY DEF Init, Targets, Locked, SurveyStands, Admitted, Idle, Holding
<1>3. NoOvercommit
  BY DEF Init, NoOvercommit, RunningOn
<1>4. QED
  BY <1>1, <1>2, <1>3 DEF IInv

\* The inductive invariant: one launch at a time is past its survey, and its
\* verdict still covers every container it was not allowed to ignore.
THEOREM Invariant == Spec => []IInv
<1>1. IInv /\ [Next]_vars => IInv'
  BY TypeStep, SafeStep DEF IInv, Safe
<1>2. QED
  BY InitInvariant, <1>1, PTL DEF Spec

\* Types, for all servers, machines, faults and requests.
THEOREM TypeCorrect == Spec => []TypeOK
BY Invariant, PTL DEF IInv

\* No container with a sound verdict appears between a survey and the docker
\* run it admitted.
THEOREM LockCoversLaunch == Spec => []SurveyStands
BY Invariant, PTL DEF IInv

\* Engines admitted on a sound verdict fit their machine and its reserve,
\* whatever is cancelled, killed, forced or unreachable beside them.
THEOREM NeverOvercommitted == Spec => []NoOvercommit
BY Invariant, PTL DEF IInv

-----------------------------------------------------------------------------
(* The name of a container is its row's.  The row is read when a request   *)
(* arrives and may be stale after every await; as long as the requests for *)
(* a server come one after the other, it is not.                           *)

\* A request is about a container of its own server.
Own == \A c \in Call : call[c] # Idle => call[c].target.server = call[c].server

\* A server whose requests never overlapped has at most one in flight.
Alone ==
    \A c, d \in Call :
        /\ call[c] # Idle /\ call[d] # Idle
        /\ call[c].server = call[d].server /\ call[c].server \notin Excused
        => c = d

\* Docker commands that outlive their request are of servers gone astray.
Astray == \A a \in abandoned : a[2].server \in Excused

\* What a lone request read from the row still stands, and when it is about to
\* write the row, the container it read does not run.
AsNamed ==
    \A c \in Call : call[c] # Idle /\ call[c].server \notin Excused =>
        /\ Alive(call[c].server) /\ call[c].target = Named(call[c].server)
        /\ call[c].at \in {"drop", "write"} => call[c].target \notin running

NameInv == Own /\ Alone /\ Astray /\ AsNamed /\ NothingUnnamed

\* A step that creates no container, writes no row and lets no request in.
Lessens ==
    /\ \A d \in Call : call'[d] # Idle =>
          /\ call[d] # Idle
          /\ call'[d].server = call[d].server /\ call'[d].target = call[d].target
          /\ call'[d].at \in {"drop", "write"} =>
                \/ call'[d].at = call[d].at
                \/ call'[d].server \in Excused'
                \/ call'[d].target \notin running'
    /\ row' = row /\ running' \subseteq running /\ Excused \subseteq Excused'
    /\ \A a \in abandoned' : a \in abandoned \/ a[2].server \in Excused'

\* Such a step keeps every name.
LEMMA LessensStep == ASSUME NameInv, Lessens PROVE NameInv'
<1> USE DEF NameInv, Lessens
<1>1. Own' /\ Alone' /\ Astray'
  BY DEF Own, Alone, Astray
<1>2. AsNamed'
  BY DEF AsNamed, Alive, Named
<1>3. NothingUnnamed'
  BY DEF NothingUnnamed, Unnamed, Alive, Named
<1>4. QED
  BY <1>1, <1>2, <1>3

\* One request goes on, with nothing else of its own changed.
LEMMA GoesFacts ==
    ASSUME TypeOK, NEW c \in Call, NEW at \in CallAt, call[c] # Idle, Goes(c, at)
    PROVE  /\ call'[c].at = at
           /\ call'[c].server = call[c].server /\ call'[c].target = call[c].target
           /\ \A d \in Call : d # c => call'[d] = call[d]
BY DEF Goes, TypeOK, Pending

\* One request is answered, and the others stay.
LEMMA AnswerFacts ==
    ASSUME TypeOK, NEW c \in Call, Answers(c)
    PROVE  call'[c] = Idle /\ \A d \in Call : d # c => call'[d] = call[d]
BY DEF Answers, TypeOK

\* A request that arrives makes the row's name its target; if another is in
\* flight the server is marked.
LEMMA RequestNames ==
    ASSUME IInv, NameInv, NEW c \in Call, NEW op \in Op, NEW s \in Server,
           Request(c, op, s)
    PROVE  NameInv'
<1> USE DEF NameInv
<1>1. /\ call[c] = Idle /\ Alive(s) /\ row' = row /\ running' = running
      /\ abandoned' = abandoned
      /\ Excused \subseteq Excused' /\ (InFlight(s) # {} => s \in Excused')
  BY DEF Request, Excused
<1>2. /\ call'[c].server = s /\ call'[c].target = Named(s)
      /\ call'[c].at = FirstAwait(op, row[s].node)
      /\ \A d \in Call : d # c => call'[d] = call[d]
  BY DEF Request, IInv, TypeOK
<1>3. call'[c].at \notin {"drop", "write"}
  BY <1>2 DEF FirstAwait, Op
<1>4. Own'
  BY <1>2 DEF Own, Named
<1>5. Alone'
  <2> SUFFICES ASSUME NEW x \in Call, NEW y \in Call,
                      call'[x] # Idle, call'[y] # Idle,
                      call'[x].server = call'[y].server, call'[x].server \notin Excused'
               PROVE  x = y
    BY DEF Alone
  <2>1. ASSUME NEW d \in Call, d # c, call'[d].server = s PROVE s \in Excused'
    BY <1>1, <1>2, <2>1 DEF InFlight
  <2>2. CASE x = c \/ y = c
    BY <1>2, <2>1, <2>2
  <2>3. CASE x # c /\ y # c
    BY <1>1, <1>2, <2>3 DEF Alone
  <2>4. QED
    BY <2>2, <2>3
<1>6. Astray'
  BY <1>1 DEF Astray
<1>7. AsNamed'
  <2> SUFFICES ASSUME NEW d \in Call, call'[d] # Idle, call'[d].server \notin Excused'
               PROVE  /\ row[call'[d].server] # None
                      /\ call'[d].target = Named(call'[d].server)
                      /\ call'[d].at \in {"drop", "write"} => call'[d].target \notin running
    BY <1>1 DEF AsNamed, Alive, Named
  <2>1. CASE d = c
    BY <1>1, <1>2, <1>3, <2>1 DEF Alive
  <2>2. CASE d # c
    BY <1>1, <1>2, <2>2 DEF AsNamed, Alive
  <2>3. QED
    BY <2>1, <2>2
<1>8. NothingUnnamed'
  BY <1>1 DEF NothingUnnamed, Unnamed, Alive, Named
<1>9. QED
  BY <1>4, <1>5, <1>6, <1>7, <1>8

\* docker run creates the container that the row names.
LEMMA RunNames ==
    ASSUME IInv, NameInv, NEW c \in Call, Runs(c)
    PROVE  NameInv'
<1> USE DEF NameInv
<1> DEFINE k == call[c].target
<1>1. /\ call[c] # Idle /\ running' = running \cup {k} /\ row' = row
      /\ abandoned' = abandoned /\ Excused' = Excused
  BY DEF Runs, Idle, rows, marks, Excused
<1>2. call'[c] = Idle /\ \A d \in Call : d # c => call'[d] = call[d]
  BY AnswerFacts DEF Runs, IInv
<1>3. Own' /\ Alone' /\ Astray'
  BY <1>1, <1>2 DEF Own, Alone, Astray
<1>4. AsNamed'
  <2> SUFFICES ASSUME NEW d \in Call, call'[d] # Idle, call'[d].server \notin Excused
               PROVE  /\ row[call'[d].server] # None
                      /\ call'[d].target = Named(call'[d].server)
                      /\ call'[d].at \in {"drop", "write"} => call'[d].target \notin running'
    BY <1>1 DEF AsNamed, Alive, Named
  <2>1. d # c /\ call'[d] = call[d]
    BY <1>2
  <2>2. call[d].target # k
    BY <1>1, <2>1 DEF Own, Alone
  <2>3. QED
    BY <1>1, <2>1, <2>2 DEF AsNamed, Alive
<1>5. NothingUnnamed'
  <2> SUFFICES ASSUME NEW m \in running', m.server \notin Excused
               PROVE  row[m.server] # None /\ m = Named(m.server)
    BY <1>1 DEF NothingUnnamed, Unnamed, Alive, Named
  <2>1. CASE m = k
    BY <1>1, <2>1 DEF Own, AsNamed, Alive
  <2>2. CASE m # k
    BY <1>1, <2>2 DEF NothingUnnamed, Unnamed, Alive
  <2>3. QED
    BY <2>1, <2>2
<1>6. QED
  BY <1>3, <1>4, <1>5

\* A row is written, by a request of its own or by an edit of its node, when
\* nothing of the server runs under the name it gives, or the server is marked.
LEMMA WriteNames ==
    ASSUME NameInv, NEW s \in Server,
           \A r \in Server : r # s => row'[r] = row[r],
           running \subseteq Container,
           running' = running, abandoned' = abandoned, Excused \subseteq Excused',
           s \notin Excused' => Named(s) \notin running,
           \A d \in Call : call'[d] # Idle =>
               call'[d] = call[d] /\ (call[d].server = s => s \in Excused'),
           \A d \in Call : call[d] # Idle => call[d].server \in Server
    PROVE  NameInv'
<1> USE DEF NameInv
<1>1. Own' /\ Alone' /\ Astray'
  BY DEF Own, Alone, Astray
<1>2. AsNamed'
  <2> SUFFICES ASSUME NEW d \in Call, call'[d] # Idle, call'[d].server \notin Excused'
               PROVE  /\ row'[call[d].server] # None
                      /\ call[d].target = [server |-> call[d].server,
                                           engine |-> row'[call[d].server].engine,
                                           node |-> row'[call[d].server].node]
                      /\ call[d].at \in {"drop", "write"} => call[d].target \notin running
    BY DEF AsNamed, Alive, Named
  <2>1. /\ call'[d] = call[d] /\ call[d] # Idle /\ call[d].server \in Server
        /\ call[d].server # s /\ call[d].server \notin Excused
    OBVIOUS
  <2>2. row'[call[d].server] = row[call[d].server]
    BY <2>1
  <2>3. QED
    BY <2>1, <2>2 DEF AsNamed, Alive, Named
<1>3. NothingUnnamed'
  <2> SUFFICES ASSUME NEW m \in running, m.server \notin Excused'
               PROVE  /\ row'[m.server] # None
                      /\ m = [server |-> m.server, engine |-> row'[m.server].engine,
                              node |-> row'[m.server].node]
    BY DEF NothingUnnamed, Unnamed, Alive, Named
  <2>1. m.server \in Server
    BY DEF Container
  <2>2. row[m.server] # None /\ m = Named(m.server)
    BY DEF NothingUnnamed, Unnamed, Alive
  <2>3. m.server # s
    BY <2>2
  <2>4. row'[m.server] = row[m.server]
    BY <2>1, <2>3
  <2>5. QED
    BY <2>2, <2>4 DEF Named
<1>4. QED
  BY <1>1, <1>2, <1>3

\* A restart goes on with the name the row gives once docker stop has returned.
LEMMA RestartNames ==
    ASSUME IInv, NameInv, NEW c \in Call, Stops(c)
    PROVE  NameInv'
<1> USE DEF NameInv
<1>1. /\ call[c] # Idle /\ row' = row /\ abandoned' = abandoned
      /\ running' \subseteq running /\ Excused \subseteq Excused'
  BY DEF Stops, TakenDown, Ends, Idle, rows, marks, Excused
<1>2. CASE Answers(c)
  <2>1. call'[c] = Idle /\ \A d \in Call : d # c => call'[d] = call[d]
    BY <1>2, AnswerFacts DEF IInv
  <2>2. Lessens
    BY <1>1, <2>1 DEF Lessens
  <2>3. QED
    BY <2>2, LessensStep
<1>3. CASE /\ Alive(call[c].server)
           /\ call' = [call EXCEPT ![c].at = "lock", ![c].target = Named(call[c].server)]
  <2>1. /\ call'[c].at = "lock" /\ call'[c].server = call[c].server
        /\ call'[c].target = Named(call[c].server)
        /\ \A d \in Call : d # c => call'[d] = call[d]
    BY <1>3 DEF IInv, TypeOK, Pending
  <2>2. Own'
    BY <1>1, <2>1 DEF Own, Named
  <2>3. Alone' /\ Astray'
    BY <1>1, <2>1 DEF Alone, Astray
  <2>4. AsNamed'
    <3> SUFFICES ASSUME NEW d \in Call, call'[d] # Idle, call'[d].server \notin Excused'
                 PROVE  /\ row[call'[d].server] # None
                        /\ call'[d].target = Named(call'[d].server)
                        /\ call'[d].at \in {"drop", "write"} => call'[d].target \notin running'
      BY <1>1 DEF AsNamed, Alive, Named
    <3>1. CASE d = c
      BY <1>3, <2>1, <3>1 DEF Alive
    <3>2. CASE d # c
      BY <1>1, <2>1, <3>2 DEF AsNamed, Alive
    <3>3. QED
      BY <3>1, <3>2
  <2>5. NothingUnnamed'
    BY <1>1 DEF NothingUnnamed, Unnamed, Alive, Named
  <2>6. QED
    BY <2>2, <2>3, <2>4, <2>5
<1>4. QED
  BY <1>2, <1>3 DEF Stops

\* Every step keeps every name.
LEMMA NextNames == IInv /\ NameInv /\ [Next]_vars => NameInv'
<1> SUFFICES ASSUME IInv, NameInv, [Next]_vars PROVE NameInv'
  OBVIOUS
<1> USE DEF rows, lock, ghosts, marks, Excused
<1>0. TypeOK /\ running \subseteq Container
      /\ \A d \in Call : call[d] # Idle => call[d].server \in Server
  BY DEF IInv, TypeOK, Targets
<1>1. CASE UNCHANGED vars
  BY <1>1, LessensStep DEF vars, Lessens
<1>2. ASSUME NEW c \in Call, NEW op \in Op, NEW s \in Server, Request(c, op, s)
      PROVE  NameInv'
  BY <1>2, RequestNames
<1>3. ASSUME NEW c \in Call, Proceeds(c) PROVE NameInv'
  <2>1. ASSUME NEW force \in BOOLEAN, Measures(c, force) PROVE NameInv'
    <3>1. /\ call[c] # Idle /\ row' = row /\ running' = running /\ Excused' = Excused
          /\ abandoned' = abandoned
      BY <2>1 DEF Measures, Idle
    <3>2. \E sound \in BOOLEAN :
             call' = [call EXCEPT ![c].at = "remove", ![c].sound = sound]
      BY <2>1 DEF Measures
    <3>3. /\ call'[c].at = "remove" /\ call'[c].server = call[c].server
          /\ call'[c].target = call[c].target
          /\ \A d \in Call : d # c => call'[d] = call[d]
      BY <1>0, <3>2 DEF TypeOK, Pending
    <3>4. QED
      BY <3>1, <3>3, LessensStep DEF Lessens
  <2>2. CASE Refuses(c) \/ RunRefused(c) \/ Unavailable(c) \/ InspectsRefused(c)
    <3>1. /\ Answers(c) /\ row' = row /\ running' = running /\ Excused' = Excused
          /\ abandoned' = abandoned
      BY <2>2 DEF Refuses, RunRefused, Unavailable, InspectsRefused
    <3>2. call'[c] = Idle /\ \A d \in Call : d # c => call'[d] = call[d]
      BY <1>0, <3>1, AnswerFacts
    <3>3. QED
      BY <3>1, <3>2, LessensStep DEF Lessens
  <2>3. CASE Removes(c)
    <3>1. /\ call[c] # Idle /\ "run" \in CallAt /\ row' = row /\ abandoned' = abandoned
          /\ running' \subseteq running /\ Excused \subseteq Excused'
      BY <2>3 DEF Removes, TakenDown, Ends, Idle, CallAt, Holding
    <3>2. /\ call'[c].at = "run" /\ call'[c].server = call[c].server
          /\ call'[c].target = call[c].target
          /\ \A d \in Call : d # c => call'[d] = call[d]
      BY <1>0, <2>3, <3>1, GoesFacts DEF Removes
    <3>3. QED
      BY <3>1, <3>2, LessensStep DEF Lessens
  <2>4. CASE Runs(c)
    BY <2>4, RunNames
  <2>5. CASE Stops(c)
    BY <2>5, RestartNames
  <2>6. CASE Deletes(c)
    <3>1. /\ call[c] # Idle /\ "drop" \in CallAt /\ row' = row /\ abandoned' = abandoned
          /\ running' \subseteq running /\ Excused \subseteq Excused'
          /\ call[c].target \notin running' \/ call[c].server \in Excused'
      BY <2>6 DEF Deletes, TakenDown, Ends, Idle, CallAt
    <3>2. /\ call'[c].at = "drop" /\ call'[c].server = call[c].server
          /\ call'[c].target = call[c].target
          /\ \A d \in Call : d # c => call'[d] = call[d]
      BY <1>0, <2>6, <3>1, GoesFacts DEF Deletes
    <3>3. QED
      BY <3>1, <3>2, LessensStep DEF Lessens
  <2>7. CASE Inspects(c)
    <3>1. /\ call[c] # Idle /\ "write" \in CallAt /\ row' = row /\ abandoned' = abandoned
          /\ running' = running /\ Excused \subseteq Excused'
          /\ call[c].target \notin running \/ call[c].server \in Excused'
      BY <2>7 DEF Inspects, Idle, CallAt
    <3>2. /\ call'[c].at = "write" /\ call'[c].server = call[c].server
          /\ call'[c].target = call[c].target
          /\ \A d \in Call : d # c => call'[d] = call[d]
      BY <1>0, <2>7, <3>1, GoesFacts DEF Inspects
    <3>3. QED
      BY <3>1, <3>2, LessensStep DEF Lessens
  <2>8. CASE Drops(c) \/ Writes(c)
    <3> DEFINE s == call[c].server
    <3>1. /\ call[c] # Idle /\ s \in Server /\ Answers(c) /\ running' = running
          /\ Excused' = Excused /\ abandoned' = abandoned /\ call[c].at \in {"drop", "write"}
      BY <1>0, <2>8 DEF Drops, Writes, Idle
    <3>2. \A r \in Server : r # s => row'[r] = row[r]
      BY <1>0, <2>8 DEF Drops, Writes, TypeOK
    <3>3. call'[c] = Idle /\ \A d \in Call : d # c => call'[d] = call[d]
      BY <1>0, <3>1, AnswerFacts
    <3>4. s \notin Excused => Named(s) \notin running
      BY <3>1 DEF NameInv, AsNamed
    <3>5. \A d \in Call : call'[d] # Idle =>
             call'[d] = call[d] /\ (call[d].server = s => s \in Excused')
      BY <3>1, <3>3 DEF NameInv, Alone
    <3> HIDE DEF s
    <3>6. QED
      BY <1>0, <3>1, <3>2, <3>4, <3>5, WriteNames
  <2>9. CASE Available(c)
    <3>1. /\ call[c] # Idle /\ "state" \in CallAt /\ row' = row /\ abandoned' = abandoned
          /\ running' = running /\ Excused' = Excused
      BY <2>9 DEF Available, Idle, CallAt
    <3>2. /\ call'[c].at = "state" /\ call'[c].server = call[c].server
          /\ call'[c].target = call[c].target
          /\ \A d \in Call : d # c => call'[d] = call[d]
      BY <1>0, <2>9, <3>1, GoesFacts DEF Available
    <3>3. QED
      BY <3>1, <3>2, LessensStep DEF Lessens
  <2>10. QED
    BY <1>3, <2>1, <2>2, <2>3, <2>4, <2>5, <2>6, <2>7, <2>8, <2>9 DEF Proceeds, Start
<1>4. ASSUME NEW c \in Call, Cancels(c) PROVE NameInv'
  <2>1. /\ call[c] # Idle /\ Answers(c) /\ row' = row /\ running' = running
        /\ Excused' = Excused \cup {call[c].server}
        /\ abandoned' \subseteq abandoned \cup {<<call[c].at, call[c].target>>}
    BY <1>4 DEF Cancels, Idle
  <2>2. call'[c] = Idle /\ \A d \in Call : d # c => call'[d] = call[d]
    BY <1>0, <2>1, AnswerFacts
  <2>3. <<call[c].at, call[c].target>>[2].server \in Excused'
    BY <2>1 DEF NameInv, Own
  <2>4. \A a \in abandoned' : a \in abandoned \/ a[2].server \in Excused'
    BY <2>1, <2>3
  <2>5. QED
    BY <2>1, <2>2, <2>4, LessensStep DEF Lessens
<1>5. ASSUME NEW k \in Container, AbandonedRemoves(k) \/ Dies(k) PROVE NameInv'
  <2>1. Lessens
    BY <1>5 DEF AbandonedRemoves, Dies, Ends, Lessens
  <2>2. QED
    BY <2>1, LessensStep
<1>6. ASSUME NEW k \in Container, AbandonedRuns(k) PROVE NameInv'
  <2>1. /\ call' = call /\ row' = row /\ running' = running \cup {k} /\ Excused' = Excused
        /\ abandoned' \subseteq abandoned /\ <<"run", k>> \in abandoned
    BY <1>6 DEF AbandonedRuns
  <2>2. k.server \in Excused
    BY <2>1 DEF NameInv, Astray
  <2>3. Own' /\ Alone' /\ Astray'
    BY <2>1 DEF NameInv, Own, Alone, Astray
  <2>4. AsNamed'
    <3>1. ASSUME NEW d \in Call, call[d] # Idle, call[d].server \notin Excused
          PROVE  call[d].target # k
      BY <2>2, <3>1 DEF NameInv, Own
    <3>2. QED
      BY <2>1, <3>1 DEF NameInv, AsNamed, Alive, Named
  <2>5. NothingUnnamed'
    BY <2>1, <2>2 DEF NameInv, NothingUnnamed, Unnamed, Alive, Named
  <2>6. QED
    BY <2>3, <2>4, <2>5 DEF NameInv
<1>7. ASSUME NEW s \in Server, NEW n \in Node, SetNode(s, n) PROVE NameInv'
  <2>1. /\ call' = call /\ running' = running /\ abandoned' = abandoned
        /\ Excused \subseteq Excused' /\ row' = [row EXCEPT ![s].node = n]
        /\ s \notin Excused' => InFlight(s) = {} /\ Named(s) \notin running
    BY <1>7 DEF SetNode
  <2>2. \A r \in Server : r # s => row'[r] = row[r]
    BY <1>0, <2>1 DEF TypeOK
  <2>3. \A d \in Call : call'[d] # Idle =>
           call'[d] = call[d] /\ (call[d].server = s => s \in Excused')
    BY <2>1 DEF InFlight
  <2>4. QED
    BY <1>0, <2>1, <2>2, <2>3, WriteNames
<1>8. QED
  BY <1>1, <1>2, <1>3, <1>4, <1>5, <1>6, <1>7 DEF Next

\* NothingUnnamed, for any servers, machines, faults and requests: requests for
\* a server that come one after the other leave no container behind under a
\* name its row does not give, but for a switch on a peer that answered the
\* first of container_running's questions and not the second.
THEOREM NamesStand == Spec => []NothingUnnamed
<1>1. Init => IInv /\ NameInv
  <2> SUFFICES ASSUME Init PROVE NameInv
    BY InitInvariant
  <2>1. /\ running = {} /\ abandoned = {} /\ \A c \in Call : call[c] = Idle
    BY DEF Init
  <2>2. QED
    BY <2>1 DEF NameInv, Own, Alone, Astray, AsNamed, NothingUnnamed
<1>2. IInv /\ NameInv /\ [Next]_vars => IInv' /\ NameInv'
  BY TypeStep, SafeStep, NextNames DEF IInv, Safe
<1>3. IInv /\ NameInv => NothingUnnamed
  BY DEF NameInv
<1>4. QED
  BY <1>1, <1>2, <1>3, PTL DEF Spec

\* Where peers always answer, the switch of an engine leaves no engine behind,
\* as the docstring of container_running has it: what Launch_deaf refutes is
\* due to the silence between its two questions and to nothing else.
THEOREM NoneOrphaned == "deaf" \notin Faults /\ Spec => []NothingOrphaned
<1> DEFINE Spoken == "deaf" \notin Faults /\ misread = {}
<1>1. "deaf" \notin Faults /\ Init => Spoken
  BY DEF Init
<1>2. Spoken /\ [Next]_vars => Spoken'
  <2> SUFFICES ASSUME Spoken, [Next]_vars PROVE misread' = misread
    OBVIOUS
  <2> USE DEF ghosts, marks
  <2>1. CASE UNCHANGED vars
    BY <2>1 DEF vars
  <2>2. ASSUME NEW c \in Call, Proceeds(c) PROVE misread' = misread
    BY <2>2 DEF Proceeds, Start, Measures, Refuses, Removes, Runs, RunRefused,
       Stops, Deletes, Drops, Unavailable, Available, InspectsRefused, Inspects,
       Writes, TakenDown, Deaf
  <2>3. ASSUME NEW c \in Call, Cancels(c) PROVE misread' = misread
    BY <2>3 DEF Cancels
  <2>4. ASSUME NEW c \in Call, NEW op \in Op, NEW s \in Server, Request(c, op, s)
        PROVE  misread' = misread
    BY <2>4 DEF Request
  <2>5. ASSUME NEW k \in Container, AbandonedRemoves(k) \/ AbandonedRuns(k) \/ Dies(k)
        PROVE  misread' = misread
    BY <2>5 DEF AbandonedRemoves, AbandonedRuns, Dies
  <2>6. ASSUME NEW s \in Server, NEW n \in Node, SetNode(s, n) PROVE misread' = misread
    BY <2>6 DEF SetNode
  <2>7. QED
    BY <2>1, <2>2, <2>3, <2>4, <2>5, <2>6 DEF Next
<1>3. Spoken /\ NothingUnnamed => NothingOrphaned
  BY DEF NothingUnnamed, NothingOrphaned, Excused
<1> HIDE DEF Spoken
<1>4. QED
  BY <1>1, <1>2, <1>3, NamesStand, PTL DEF Spec
=============================================================================
