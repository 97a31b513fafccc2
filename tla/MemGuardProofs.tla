---------------------------- MODULE MemGuardProofs ----------------------------
(***************************************************************************)
(* Proofs about MemGuard: a watchdog whose cooldown covers the return of   *)
(* memory kills nothing because of a kill of its own, and what it kills it *)
(* kills on every machine, for any engines, sizes and bounds.              *)
(***************************************************************************)
EXTENDS MemGuard, TLAPS

USE MemGuardAssumption

-----------------------------------------------------------------------------
(* The inductive invariants                                                *)

Types ==
    /\ state \in [Container -> {"absent", "on", "exited"}]
    /\ policy \in [Container -> {"no", "restart"}]
    /\ returning \in [Engine -> 0..Lag]
    /\ since \in 0..(Cooldown + 1)
    /\ guard \in [at : {"sleep", "survey", "gather", "kill", "pin"},
                  victim : Engine \cup {"none"}, todo : SUBSET Container,
                  undisturbed : BOOLEAN]
    /\ freed \subseteq Engine

\* From the ranking on there is a victim, and all that is left to kill is its.
Aims ==
    /\ guard.at \in {"gather", "kill", "pin"} => guard.victim \in Engine
    /\ guard.at \in {"survey", "gather"} => ~guard.undisturbed
    /\ \A c \in guard.todo : c.engine = guard.victim

\* The memory of what was killed is back before the cooldown is over, and
\* nothing else is killed before that.
Waits ==
    /\ guard.at = "sleep" => \A e \in freed : returning[e] + since <= Lag
    /\ guard.at \in {"survey", "gather"} => freed = {}
    /\ NoKillOnKilled

\* What runs of an undisturbed victim is still to be killed, and what was
\* killed last is down until its policy is taken away.
Takes ==
    /\ guard.at \in {"kill", "pin"} /\ guard.undisturbed => On(guard.victim) \subseteq guard.todo
    /\ guard.at = "pin" /\ guard.undisturbed =>
          \A c \in HereFirst(guard.todo) : state[c] # "on"
    /\ DiesWhole

-----------------------------------------------------------------------------
(* Types                                                                   *)

\* One container of an engine on this machine and one on a peer: what goes
\* first is one of them.
LEMMA FirstIsOne ==
    ASSUME NEW todo \in SUBSET Container, \A c, d \in todo : c.engine = d.engine,
           NEW c \in HereFirst(todo), NEW d \in HereFirst(todo)
    PROVE  c = d /\ c \in todo
<1>1. c \in todo /\ d \in todo
  BY DEF HereFirst
<1>2. c.host = d.host
  BY <1>1 DEF HereFirst, Host
<1>3. QED
  BY <1>1, <1>2

\* What the end of a container does to the memory that is coming back.
LEMMA FreesType ==
    ASSUME Types, NEW c \in Container
    PROVE  Frees(c) \in [Engine -> 0..Lag]
BY DEF Types, Frees

\* The look at the engines ends the tick, or picks one.
LEMMA SurveyFacts ==
    ASSUME Surveys
    PROVE  /\ guard.at = "survey" /\ UNCHANGED <<machine, world, freed>>
           /\ since' \in {0, since}
           /\ \/ guard' = Asleep
              \/ \E e \in Engine : guard' = [at |-> "gather", victim |-> e, todo |-> {},
                                             undisturbed |-> FALSE]
<1>1. CASE Candidates = {} \/ Action = "warn"
  BY <1>1 DEF Surveys, world
<1>2. CASE ~(Candidates = {} \/ Action = "warn")
  <2>1. PICK e \in Candidates : guard' = [Asleep EXCEPT !.at = "gather", !.victim = e]
    BY <1>2 DEF Surveys
  <2>2. guard' = [at |-> "gather", victim |-> e, todo |-> {}, undisturbed |-> FALSE]
    BY <2>1 DEF Asleep
  <2>3. e \in Engine
    BY DEF Candidates
  <2>4. QED
    BY <1>2, <2>2, <2>3 DEF Surveys, world
<1>3. QED
  BY <1>1, <1>2

\* Every step preserves the types, and all that is left to kill is the victim's.
LEMMA TypeStep == Types /\ Aims /\ [Next]_vars => (Types /\ Aims)'
<1> SUFFICES ASSUME Types, Aims, [Next]_vars PROVE (Types /\ Aims)'
  OBVIOUS
<1> USE DEF Types, Aims
<1>1. CASE UNCHANGED vars
  BY <1>1 DEF vars, world
<1>2. CASE Tick
  BY <1>2 DEF Tick
<1>3. ASSUME NEW e \in Engine, Starts(e) PROVE (Types /\ Aims)'
  BY <1>3 DEF Starts, Touches
<1>4. ASSUME NEW n, Swings(n) PROVE (Types /\ Aims)'
  BY <1>4 DEF Swings
<1>5. ASSUME NEW c \in Container, Crashes(c) PROVE (Types /\ Aims)'
  BY <1>5, FreesType DEF Crashes
<1>6. ASSUME NEW c \in Container, Revives(c) PROVE (Types /\ Aims)'
  BY <1>6 DEF Revives, Touches
<1>7. ASSUME NEW at \in {"sleep", "survey", "gather"}, NEW e \in Engine \cup {"none"},
             guard' = [at |-> at, victim |-> e, todo |-> {}, undisturbed |-> FALSE],
             at = "gather" => e \in Engine,
             since' \in {0, since}, UNCHANGED <<world, freed>>
      PROVE  (Types /\ Aims)'
  <2>1. /\ guard'.at = at /\ guard'.victim = e /\ guard'.todo = {}
        /\ guard'.undisturbed = FALSE
        /\ guard' \in [at : {"sleep", "survey", "gather", "kill", "pin"},
                  victim : Engine \cup {"none"}, todo : SUBSET Container, undisturbed : BOOLEAN]
    BY <1>7
  <2>2. since' \in 0..(Cooldown + 1)
    BY <1>7
  <2>3. Types'
    BY <1>7, <2>1, <2>2 DEF world
  <2>4. Aims'
    BY <1>7, <2>1
  <2>5. QED
    BY <2>3, <2>4
<1>8. CASE Looks \/ TickFails \/ Surveys
  <2>1. /\ since' \in {0, since} /\ UNCHANGED <<world, freed>>
        /\ \E at \in {"sleep", "survey", "gather"}, e \in Engine \cup {"none"} :
              /\ guard' = [at |-> at, victim |-> e, todo |-> {}, undisturbed |-> FALSE]
              /\ at = "gather" => e \in Engine
    BY <1>8, SurveyFacts DEF Looks, TickFails, Asleep
  <2>2. QED
    BY <1>7, <2>1
<1>9. ASSUME NEW answers \in BOOLEAN, Gathers(answers) PROVE (Types /\ Aims)'
  <2>1. PICK open \in BOOLEAN, todo \in SUBSET Parts(guard.victim) :
            guard' = [guard EXCEPT !.at = "kill", !.undisturbed = open,
                                   !.todo = {Here(guard.victim)} \cup todo]
    BY <1>9 DEF Gathers
  <2>2. guard.victim \in Engine /\ guard.at = "gather"
    BY <1>9 DEF Gathers
  <2>3. /\ {Here(guard.victim)} \cup todo \subseteq Container
        /\ \A c \in {Here(guard.victim)} \cup todo : c.engine = guard.victim
    BY <2>2 DEF Parts, Here
  <2>4. QED
    BY <1>9, <2>1, <2>2, <2>3 DEF Gathers, world
<1>10. ASSUME NEW c \in Container, Kills(c) PROVE (Types /\ Aims)'
  <2>1. c.engine \in Engine
    OBVIOUS
  <2>2. /\ state' \in [Container -> {"absent", "on", "exited"}]
        /\ returning' \in [Engine -> 0..Lag] /\ freed' \subseteq Engine
    BY <1>10, <2>1, FreesType DEF Kills
  <2>3. guard' = [guard EXCEPT !.at = "pin"] /\ guard.at = "kill" /\ UNCHANGED <<policy, since>>
    BY <1>10 DEF Kills
  <2>4. QED
    BY <2>2, <2>3
<1>11. ASSUME NEW c \in Container, Pins(c) PROVE (Types /\ Aims)'
  BY <1>11 DEF Pins
<1>12. CASE Records
  BY <1>12 DEF Records, world
<1>13. QED
  BY <1>1, <1>2, <1>3, <1>4, <1>5, <1>6, <1>8, <1>9, <1>10, <1>11, <1>12
     DEF Next, Watches

-----------------------------------------------------------------------------
(* Cooldown                                                                *)

\* Every step keeps a kill from following on another's memory.
LEMMA WaitStep ==
    ASSUME Lag <= Cooldown, Types, Aims, Waits, [Next]_vars
    PROVE  Waits'
<1> USE DEF Types, Waits, NoKillOnKilled
<1>1. CASE UNCHANGED vars
  BY <1>1 DEF vars, world
<1>2. CASE Tick
  BY <1>2 DEF Tick
<1>3. ASSUME NEW e \in Engine, Starts(e) PROVE Waits'
  BY <1>3 DEF Starts, Touches
<1>4. ASSUME NEW n, Swings(n) PROVE Waits'
  BY <1>4 DEF Swings
<1>5. ASSUME NEW c \in Container, Crashes(c) PROVE Waits'
  <2>1. \A e \in freed' : e \in freed /\ returning'[e] = returning[e]
    BY <1>5 DEF Crashes, Frees
  <2>2. UNCHANGED <<guard, since>>
    BY <1>5 DEF Crashes
  <2>3. QED
    BY <2>1, <2>2
<1>6. ASSUME NEW c \in Container, Revives(c) PROVE Waits'
  BY <1>6 DEF Revives, Touches
<1>7. CASE Looks
  BY <1>7 DEF Looks, Asleep, world
<1>8. CASE TickFails
  BY <1>8 DEF TickFails, Asleep, world
<1>9. CASE Surveys
  <2>1. freed' = {} /\ guard'.at \in {"sleep", "gather"}
    BY <1>9, SurveyFacts DEF Asleep
  <2>2. QED
    BY <2>1
<1>10. ASSUME NEW answers \in BOOLEAN, Gathers(answers) PROVE Waits'
  <2>1. freed' = {} /\ guard'.at = "kill"
    BY <1>10 DEF Gathers
  <2>2. QED
    BY <2>1
<1>11. ASSUME NEW c \in Container, Kills(c) PROVE Waits'
  <2>1. c.engine = guard.victim
    BY <1>11 DEF Kills, HereFirst, Aims
  <2>2. freed' \subseteq freed \cup {guard.victim} /\ guard'.victim = guard.victim
        /\ guard.at = "kill" /\ guard'.at = "pin"
    BY <1>11, <2>1 DEF Kills
  <2>3. QED
    BY <2>2
<1>12. ASSUME NEW c \in Container, Pins(c) PROVE Waits'
  BY <1>12 DEF Pins
<1>13. CASE Records
  BY <1>13 DEF Records, world
<1>14. QED
  BY <1>1, <1>2, <1>3, <1>4, <1>5, <1>6, <1>7, <1>8, <1>9, <1>10, <1>11, <1>12, <1>13
     DEF Next, Watches

\* At first nothing runs and the watchdog sleeps.
LEMMA Begins == Init => Types /\ Aims /\ Waits /\ Takes
BY DEF Init, Types, Aims, Waits, NoKillOnKilled, Takes, DiesWhole, Asleep

\* No kill follows on another: when the cooldown is at least as long as memory
\* takes to come back, the watchdog kills an engine only when nothing that
\* another kill of its own freed is still on its way.
THEOREM NoKillOnKilledHolds == ASSUME Lag <= Cooldown PROVE Spec => []NoKillOnKilled
<1>1. Types /\ Aims /\ Waits /\ [Next]_vars => (Types /\ Aims /\ Waits)'
  BY TypeStep, WaitStep
<1>2. Waits => NoKillOnKilled
  BY DEF Waits
<1>3. QED
  BY <1>1, <1>2, Begins, PTL DEF Spec

-----------------------------------------------------------------------------
(* The whole engine                                                        *)

\* Every step keeps track of what is left to kill of an undisturbed victim.
LEMMA TakesStep ==
    ASSUME Types, Aims, Takes, [Next]_vars
    PROVE  Takes'
<1> USE DEF Types
<1>1. ASSUME UNCHANGED guard, On(guard.victim)' \subseteq On(guard.victim),
             \A c \in Container : state'[c] = "on" => state[c] = "on"
      PROVE  Takes'
  <2>1. \A c \in HereFirst(guard.todo) : c \in Container
    BY DEF HereFirst
  <2>2. QED
    BY <1>1, <2>1 DEF Takes, DiesWhole
<1>2. ASSUME UNCHANGED <<guard, state>> PROVE Takes'
  BY <1>2 DEF Takes, DiesWhole, On
<1>3. ASSUME ~guard'.undisturbed PROVE Takes'
  BY <1>3 DEF Takes, DiesWhole
<1>4. ASSUME NEW c \in Container, Crashes(c) PROVE Takes'
  <2>1. \A d \in Container : state'[d] = "on" => state[d] = "on"
    BY <1>4 DEF Crashes
  <2>2. QED
    BY <1>1, <1>4, <2>1 DEF Crashes, On, Parts
<1>5. ASSUME NEW e \in Engine,
             guard' = [guard EXCEPT !.undisturbed = @ /\ guard.victim # e],
             \A c \in Container : c.engine # e => state'[c] = state[c]
      PROVE  Takes'
  <2>1. CASE guard.victim = e
    BY <1>3, <1>5, <2>1
  <2>2. CASE guard.victim # e
    <3>1. UNCHANGED guard
      BY <1>5, <2>2
    <3>2. On(guard.victim)' = On(guard.victim)
      BY <1>5, <2>2, <3>1 DEF On, Parts
    <3>3. \A c \in HereFirst(guard.todo) : state'[c] = state[c]
      BY <1>5, <2>2 DEF HereFirst, Aims
    <3>4. QED
      BY <3>1, <3>2, <3>3 DEF Takes, DiesWhole
  <2>3. QED
    BY <2>1, <2>2
<1>6. ASSUME NEW e \in Engine, Starts(e) PROVE Takes'
  BY <1>5, <1>6 DEF Starts, Touches
<1>7. ASSUME NEW c \in Container, Revives(c) PROVE Takes'
  <2>1. c.engine \in Engine /\ \A d \in Container : d.engine # c.engine => state'[d] = state[d]
    BY <1>7 DEF Revives
  <2>2. QED
    BY <1>5, <1>7, <2>1 DEF Revives, Touches
<1>8. CASE Looks \/ TickFails \/ Surveys
  BY <1>3, <1>8, SurveyFacts DEF Looks, TickFails, Asleep
<1>9. ASSUME NEW answers \in BOOLEAN, Gathers(answers) PROVE Takes'
  <2> DEFINE there == {c \in Parts(guard.victim) : state[c] # "absent"}
             named == {c \in there : c.host = "here" \/ answers}
  <2>1. /\ guard' = [guard EXCEPT !.at = "kill", !.undisturbed = named = there,
                       !.todo = {Here(guard.victim)} \cup named]
        /\ UNCHANGED state
    BY <1>9 DEF Gathers, world
  <2>2. guard'.at = "kill" /\ guard'.victim = guard.victim
        /\ named \subseteq guard'.todo /\ guard'.undisturbed = (named = there)
    BY <2>1
  <2>3. On(guard.victim)' \subseteq there
    BY <2>1, <2>2 DEF On, Parts
  <2>4. QED
    BY <2>2, <2>3 DEF Takes, DiesWhole
<1>10. ASSUME NEW c \in Container, Kills(c) PROVE Takes'
  <2>1. /\ guard' = [guard EXCEPT !.at = "pin"] /\ guard.at = "kill"
        /\ c \in HereFirst(guard.todo)
        /\ state' = [state EXCEPT ![c] = IF state[c] = "on" THEN "exited" ELSE @]
    BY <1>10 DEF Kills
  <2>2. guard'.at = "pin" /\ guard'.todo = guard.todo /\ guard'.victim = guard.victim
        /\ guard'.undisturbed = guard.undisturbed
    BY <2>1
  <2>3. \A d \in HereFirst(guard.todo) : d = c
    BY <2>1, FirstIsOne DEF Aims
  <2>4. \A d \in HereFirst(guard'.todo) : state'[d] # "on"
    BY <2>1, <2>2, <2>3
  <2>5. On(guard.victim)' \subseteq On(guard.victim)
    BY <2>1, <2>2 DEF On, Parts
  <2>6. QED
    BY <2>1, <2>2, <2>4, <2>5 DEF Takes, DiesWhole
<1>11. ASSUME NEW c \in Container, Pins(c) PROVE Takes'
  <2>1. /\ guard' = [guard EXCEPT !.at = "kill", !.todo = @ \ {c}] /\ guard.at = "pin"
        /\ c \in HereFirst(guard.todo) /\ UNCHANGED state
    BY <1>11 DEF Pins
  <2>2. guard'.at = "kill" /\ guard'.todo = guard.todo \ {c} /\ guard'.victim = guard.victim
        /\ guard'.undisturbed = guard.undisturbed
    BY <2>1
  <2>3. guard.undisturbed => c \notin On(guard.victim)
    BY <2>1 DEF Takes, On
  <2>4. On(guard.victim)' = On(guard.victim)
    BY <2>1, <2>2 DEF On, Parts
  <2>5. QED
    BY <2>1, <2>2, <2>3, <2>4 DEF Takes, DiesWhole
<1>12. CASE Records
  <2>1. guard' = [guard EXCEPT !.at = "sleep"] /\ guard.at = "kill" /\ guard.todo = {}
        /\ UNCHANGED state
    BY <1>12 DEF Records, world
  <2>2. guard'.at = "sleep" /\ guard'.victim = guard.victim
        /\ guard'.undisturbed = guard.undisturbed
    BY <2>1
  <2>3. On(guard.victim)' = On(guard.victim)
    BY <2>1, <2>2 DEF On, Parts
  <2>4. QED
    BY <2>1, <2>2, <2>3 DEF Takes, DiesWhole
<1>13. QED
  BY <1>2, <1>4, <1>6, <1>7, <1>8, <1>9, <1>10, <1>11, <1>12
     DEF Next, Watches, vars, world, Tick, Swings

\* An engine dies as a unit: once the watchdog is through with one whose
\* machines all answered and that nobody brought back meanwhile, no container
\* of it runs, here or on a peer.
THEOREM DiesWholeHolds == Spec => []DiesWhole
<1>1. Types /\ Aims /\ Takes /\ [Next]_vars => (Types /\ Aims /\ Takes)'
  BY TypeStep, TakesStep
<1>2. Takes => DiesWhole
  BY DEF Takes
<1>3. QED
  BY <1>1, <1>2, Begins, PTL DEF Spec

=============================================================================
