------------------------------ MODULE MemGuard ------------------------------
(***************************************************************************)
(* app/memguard.py: the watchdog of this machine's memory.  It polls what  *)
(* is available and, below a threshold, kills the engine that committed    *)
(* the most - every container of it, on whatever machine - and takes its   *)
(* restart policy away.  Memory comes back some time after a kill; time is *)
(* counted in polls of 2 s.                                                *)
(***************************************************************************)
EXTENDS Naturals, FiniteSets, FiniteSetsExt

CONSTANTS
    Engine,      \* what engines.recognise() knows to be one, ours or not
    Container,   \* [engine |-> e, host |-> "here" or "peer"]
    Size,        \* what each engine's container here commits
    Total, Threshold,
    Machine,     \* the kinds of machine and settings the run covers
    Cooldown,    \* COOLDOWN_SECONDS
    Lag,         \* how long memory takes to come back
    MaxStarts,   \* bound on engines started by a user
    MaxSwings,   \* bound on changes of what the rest of the machine takes
    MaxCrashes   \* bound on containers that end by themselves

Host == {"here", "peer"}

ASSUME MemGuardAssumption ==
    /\ Container \subseteq [engine : Engine, host : Host]
    /\ \A e \in Engine : [engine |-> e, host |-> "here"] \in Container
    /\ Size \in [Engine -> Nat \ {0}]
    /\ {Total, Threshold, Cooldown, Lag, MaxStarts, MaxSwings, MaxCrashes} \subseteq Nat
    /\ Machine \subseteq [pool : {"unified", "discrete", "unknown"}, measured : BOOLEAN,
                          setting : {"auto", "kill", "warn"}]

VARIABLES
    machine,     \* the pool accel found here and settings.memguard_host_action
    state,       \* each container: "absent", "on" or "exited"
    policy,      \* its restart policy
    returning,   \* polls until the memory of an engine that ended here is back
    other,       \* what everything else takes
    since,       \* polls since last_kill, up to Cooldown + 1
    guard,       \* what watch() is doing
    counts,
    freed        \* ghost: engines whose memory is coming back from a kill of its own

world == <<state, policy, returning, other>>
vars == <<machine, world, since, guard, counts, freed>>

Asleep == [at |-> "sleep", victim |-> "none", todo |-> {}, undisturbed |-> FALSE]

Here(e) == [engine |-> e, host |-> "here"]
Parts(e) == {c \in Container : c.engine = e}
On(e) == {c \in Parts(e) : state[c] = "on"}
Candidates == {e \in Engine : state[Here(e)] = "on"}

Taken == other + MapThenSumSet(LAMBDA e : Size[e],
                               {e \in Engine : state[Here(e)] = "on" \/ returning[e] > 0})
Available == Total - Taken

Init ==
    /\ machine \in Machine
    /\ state = [c \in Container |-> "absent"]
    /\ policy = [c \in Container |-> "no"]
    /\ returning = [e \in Engine |-> 0]
    /\ other = 0
    /\ since = Cooldown + 1
    /\ guard = Asleep
    /\ counts = [starts |-> 0, swings |-> 0, crashes |-> 0]
    /\ freed = {}

Counts(what, bound) ==
    /\ counts[what] < bound
    /\ counts' = [counts EXCEPT ![what] = @ + 1]

\* Someone else touches the engine that is being killed.
Touches(e) == guard' = [guard EXCEPT !.undisturbed = @ /\ guard.victim # e]

-----------------------------------------------------------------------------
(* The machine                                                             *)

Tick ==
    /\ since' = IF since <= Cooldown THEN since + 1 ELSE since
    /\ returning' = [e \in Engine |-> IF returning[e] > 0 THEN returning[e] - 1 ELSE 0]
    /\ freed' = {e \in freed : returning[e] > 1}
    /\ UNCHANGED <<machine, state, policy, other, guard, counts>>

\* A user starts an engine that fits, with the policy that servers get.
Starts(e) ==
    /\ On(e) = {} /\ returning[e] = 0
    /\ Taken + Size[e] < Total
    /\ Counts("starts", MaxStarts)
    /\ state' = [c \in Container |-> IF c.engine = e THEN "on" ELSE state[c]]
    /\ policy' = [c \in Container |-> IF c.engine = e THEN "restart" ELSE policy[c]]
    /\ Touches(e)
    /\ UNCHANGED <<machine, returning, other, since, freed>>

Swings(n) ==
    /\ n # other
    /\ Taken - other + n < Total
    /\ Counts("swings", MaxSwings)
    /\ other' = n
    /\ UNCHANGED <<machine, state, policy, returning, since, guard, freed>>

Frees(c) == IF c.host = "here" THEN [returning EXCEPT ![c.engine] = Lag] ELSE returning

Crashes(c) ==
    /\ state[c] = "on"
    /\ Counts("crashes", MaxCrashes)
    /\ state' = [state EXCEPT ![c] = "exited"]
    /\ returning' = Frees(c)
    /\ freed' = IF c.host = "here" THEN freed \ {c.engine} ELSE freed
    /\ UNCHANGED <<machine, policy, other, since, guard>>

\* Docker brings a container back that ended and still has its policy.
Revives(c) ==
    /\ state[c] = "exited" /\ policy[c] = "restart"
    /\ c.host = "here" => returning[c.engine] = 0 /\ Taken + Size[c.engine] < Total
    /\ state' = [state EXCEPT ![c] = "on"]
    /\ Touches(c.engine)
    /\ UNCHANGED <<machine, policy, returning, other, since, counts, freed>>

-----------------------------------------------------------------------------
(* watch()                                                                 *)

\* signal(): the framebuffer where one was measured, else the host's memory.
Kind == IF machine.pool = "discrete" /\ machine.measured THEN "device" ELSE "host"

Action ==
    IF Kind = "device" THEN "warn"
    ELSE IF machine.setting # "auto" THEN machine.setting
    ELSE IF machine.pool = "discrete" THEN "warn" ELSE "kill"

\* A reading of 0 is no reading.
Starved == Available > 0 /\ Available < Threshold

LooksAnyTime ==
    /\ guard.at = "sleep"
    /\ Starved
    /\ guard' = [Asleep EXCEPT !.at = "survey"]
    /\ UNCHANGED <<machine, world, since, counts, freed>>

\* The reading and the look at last_kill, with no await between them.
Looks ==
    /\ guard.at = "sleep"
    /\ Starved
    /\ since > Cooldown
    /\ guard' = [Asleep EXCEPT !.at = "survey"]
    /\ UNCHANGED <<machine, world, since, counts, freed>>

\* _candidates(): docker ps and an inspect of each, ranked by footprint.
Surveys ==
    /\ guard.at = "survey"
    /\ IF Candidates = {} THEN guard' = Asleep /\ UNCHANGED since
       ELSE IF Action = "warn" THEN guard' = Asleep /\ since' = 0
       ELSE /\ \E e \in Candidates :
                 /\ \A f \in Candidates : Size[f] <= Size[e]
                 /\ guard' = [Asleep EXCEPT !.at = "gather", !.victim = e]
            /\ UNCHANGED since
    /\ UNCHANGED <<machine, world, counts, freed>>

\* Whatever raises before the first kill ends the tick.
TickFails ==
    /\ guard.at \in {"survey", "gather"}
    /\ guard' = Asleep
    /\ UNCHANGED <<machine, world, since, counts, freed>>

\* The container that was ranked, and no more.
GathersOne(answers) ==
    /\ guard.at = "gather"
    /\ guard' = [guard EXCEPT !.at = "kill", !.todo = {Here(guard.victim)}, !.undisturbed = TRUE]
    /\ UNCHANGED <<machine, world, since, counts, freed>>

\* engine_containers(): every rank of a pooled engine that a machine names,
\* stopped or not; a peer that does not answer names none.
Gathers(answers) ==
    /\ guard.at = "gather"
    /\ LET there == {c \in Parts(guard.victim) : state[c] # "absent"}
           named == {c \in there : c.host = "here" \/ answers}
       IN guard' = [guard EXCEPT !.at = "kill", !.undisturbed = named = there,
                       !.todo = {Here(guard.victim)} \cup named]
    /\ UNCHANGED <<machine, world, since, counts, freed>>

\* The container here goes first.
HereFirst(todo) == IF \E c \in todo : c.host = "here" THEN {c \in todo : c.host = "here"} ELSE todo

\* docker kill, which is no error for a container that is gone by now.
Kills(c) ==
    /\ guard.at = "kill" /\ c \in HereFirst(guard.todo)
    /\ guard' = [guard EXCEPT !.at = "pin"]
    /\ IF state[c] = "on"
       THEN /\ state' = [state EXCEPT ![c] = "exited"]
            /\ returning' = Frees(c)
            /\ freed' = IF c.host = "here" THEN freed \cup {c.engine} ELSE freed
       ELSE UNCHANGED <<state, returning, freed>>
    /\ UNCHANGED <<machine, policy, other, since, counts>>

\* The policy stays as it was.
PinsNothing(c) ==
    /\ guard.at = "pin" /\ c \in HereFirst(guard.todo)
    /\ guard' = [guard EXCEPT !.at = "kill", !.todo = @ \ {c}]
    /\ UNCHANGED <<machine, world, since, counts, freed>>

\* docker update --restart no
Pins(c) ==
    /\ guard.at = "pin" /\ c \in HereFirst(guard.todo)
    /\ policy' = [policy EXCEPT ![c] = "no"]
    /\ guard' = [guard EXCEPT !.at = "kill", !.todo = @ \ {c}]
    /\ UNCHANGED <<machine, state, returning, other, since, counts, freed>>

Records ==
    /\ guard.at = "kill" /\ guard.todo = {}
    /\ guard' = [guard EXCEPT !.at = "sleep"]
    /\ since' = 0
    /\ UNCHANGED <<machine, world, counts, freed>>

-----------------------------------------------------------------------------
Watches ==
    \/ Looks \/ Surveys \/ Records
    \/ \E answers \in BOOLEAN : Gathers(answers)
    \/ \E c \in Container : Kills(c) \/ Pins(c)

Next ==
    \/ Tick
    \/ Watches \/ TickFails
    \/ \E e \in Engine : Starts(e)
    \/ \E n \in 0..Total : Swings(n)
    \/ \E c \in Container : Crashes(c) \/ Revives(c)

Spec == Init /\ [][Next]_vars

\* watch() never ends and time passes; no tick fails for ever.  Nothing makes
\* docker bring a container back or the rest of the machine give memory up.
Fairness == WF_vars(Tick) /\ WF_vars(Looks) /\ SF_vars(Surveys) /\ SF_vars(Gathers(TRUE))
               /\ \A c \in Container : WF_vars(Kills(c)) /\ WF_vars(Pins(c))
               /\ WF_vars(Records)

FairSpec == Spec /\ Fairness

-----------------------------------------------------------------------------
\* "After a kill, memory takes a moment to come back; don't kill the next
\* victim on the very next tick" (memguard.py:35): while the memory of an
\* engine the watchdog killed is still coming back, it kills no other one.
\* The clock runs from the end of a kill, so it covers a slow docker too.
NoKillOnKilled ==
    guard.at \in {"kill", "pin"} => freed \subseteq {guard.victim}

\* "A pooled engine dies as a unit or not at all": when the watchdog is
\* through with an engine that nobody brought back meanwhile and whose
\* machines all answered, no container of it runs, here or on a peer.
DiesWhole ==
    guard.at = "sleep" /\ guard.victim # "none" /\ guard.undisturbed
        => On(guard.victim) = {}

\* The machine stays usable: once users stop starting engines and the rest of
\* it is steady, a watchdog that kills brings it out of starvation for good,
\* unless no engine is left to take.
Calms == Action = "kill" => <>[](~Starved \/ Candidates = {})
=============================================================================
