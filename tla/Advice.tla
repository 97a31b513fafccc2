------------------------------- MODULE Advice -------------------------------
(***************************************************************************)
(* app/routers/servers.py recommend and start, over Accel, Profile, Gguf,  *)
(* Recommend, Admission, Command and Plan: an operator asks what to set    *)
(* for a model on a machine or over a pool of machines, sets it, launches, *)
(* and asks again while the engine runs.  What runs is known by the        *)
(* commands of containers alone.  What else the machines hold does not     *)
(* change meanwhile.                                                       *)
(***************************************************************************)
EXTENDS Accel, Recommend, Plan

\* What may be asked: for which model, with which flags set already, over which
\* machines, as each of them answers and with the containers of its tenants.
CONSTANT Questions

\* A machine, with the containers of its tenants.  One that runs no file of
\* llama.cpp has an empty one.
IsMachine(m) ==
    /\ m.reached \in BOOLEAN /\ IsAnswer(m.answer)
    /\ Len(m.tenants) \in Nat /\ DOMAIN m.tenants = 1..Len(m.tenants)
    /\ \A i \in DOMAIN m.tenants : /\ m.tenants[i].container \in Container(STRING)
                                   /\ IsFile(m.tenants[i].file)

\* The form of an engine: its flags, what else is set in it and its model.
IsForm(q) ==
    /\ q.engine \in {"vllm", "llamacpp"}
    /\ {q.ref, q.named} \subseteq Token(STRING) /\ q.others \in Seq(STRING \X Token(STRING))
    /\ IF q.engine = "vllm" THEN IsRepository(q.model) /\ q.args.launch \in Args
                            ELSE IsFile(q.model) /\ q.args \in LlamaSet

ASSUME AdviceAssumption ==
    \A q \in Questions :
        /\ q.at \in Seq(STRING) \ {<<>>}
        /\ q.registered \cup {"here"} \subseteq DOMAIN q.machine
        /\ \A n \in DOMAIN q.machine : IsMachine(q.machine[n])
        /\ IsForm(q)

\* How the flags are spelled that a command is read for.
Spelled ==
    (UNION {ToSet(VllmFlags[dest].flags) : dest \in DOMAIN VllmFlags})
    \cup (UNION {ToSet(LlamaFlags[dest].flags) : dest \in DOMAIN LlamaFlags})
    \cup {"--host", "--port", "--kv-cache-memory", "-m", "--model", "-hf", "-hfr", "--hf-repo"}

\* A value that is not spelled as a flag and, as a line, runs no program.  No
\* check of the code refuses others, and in a command they would be taken for
\* what they say.
Quiet(token) ==
    /\ \A t \in {token} \cup ToSet(token.line) : t.says \notin Spelled
    /\ token.says = "'" \/ \A t \in ToSet(token.line) : t.says \notin {"vllm", "llama-server"}

ForMemory ==
    {"gpu_memory_utilization", "kv_cache_memory_bytes", "cpu_offload_gb", "tensor_parallel_size",
     "n_gpu_layers", "ctx_size", "cache_type_k", "cache_type_v", "ubatch_size", "flash_attn",
     "mmproj"}

\* A form of quiet values whose flags for memory are set once, as a row holds
\* them, and whose rendezvous port is left to the launch.
Ordinary(q) ==
    /\ Quiet(q.ref) /\ Quiet(q.named)
    /\ \A s \in ToSet(q.others) :
          /\ Quiet(s[2]) /\ s[1] \notin ForMemory
          /\ Len(q.at) = 1 => s[1] # "master_port"

\* A path that cannot be opened is a file without a header, and so is what an
\* engine that runs no file of llama.cpp is given.
NoFile == [magic |-> FALSE, bytes |-> 0, entries |-> <<>>]

VARIABLES
    asked,    \* the question
    running,  \* the engine's ranks, if it runs: what each was launched with
    told,     \* the advice, once it was given
    verdict   \* what the check of the last launch said of each machine

vars == <<asked, running, told, verdict>>

None == <<>>

Vllm == asked.engine = "vllm"

-----------------------------------------------------------------------------
(* Machines.  A row names one, or several to pool.                         *)

Pooled == Len(asked.at) > 1

Nodes == [r \in DOMAIN asked.at |-> ByName(asked.registered, asked.at[r])]

Machine(r) == asked.machine[Nodes[r]]

Here(r) == Nodes[r] = "here"

FiguresOf(m, here) == IF here THEN LocalPool(m.answer) ELSE RemotePool(m.reached, m.answer)

\* A machine that does not answer runs nothing, as docker ps tells it.
Listing(m) == IF m.reached THEN m.tenants ELSE <<>>

Surveyed(r) == FiguresOf(Machine(r), Here(r))

PoolOf(r) == BudgetOf(Surveyed(r), Here(r), 0, 0).pool

-----------------------------------------------------------------------------
(* The form, and the containers that are launched from it.                 *)

Flags == IF Vllm THEN asked.args.launch ELSE asked.args

Unless(unset, value) == IF value = unset THEN Blank ELSE Number(value)

\* The flags that matter to memory, and whatever else is set.
Form(flags) ==
    asked.others \o
    IF Vllm
    THEN <<<<"gpu_memory_utilization", Unless(NoUtil, flags.util)>>,
           <<"kv_cache_memory_bytes", Unless(0, flags.kv)>>,
           <<"cpu_offload_gb", Number(flags.offload)>>,
           <<"tensor_parallel_size", Number(flags.parallel)>>>>
    ELSE <<<<"n_gpu_layers", IF flags.layers = Every THEN Word("all") ELSE Number(flags.layers)>>,
           <<"ctx_size", Number(flags.ctx)>>,
           <<"cache_type_k", Word(flags.k)>>, <<"cache_type_v", Word(flags.v)>>,
           <<"ubatch_size", Unless(0, flags.ubatch)>>, <<"flash_attn", Word(flags.flash)>>,
           <<"mmproj", IF flags.companions = 0 THEN Blank ELSE Word("/outputs")>>>>

\* What validate lets into the row.
Saved(flags) == IF Vllm THEN VllmValid(Form(flags)) ELSE LlamaValid(Form(flags))

Launched(flags, port, container) ==
    [engine |-> asked.engine, flags |-> flags, model |-> asked.ref,
     file |-> IF Vllm THEN NoFile ELSE asked.model,
     port |-> port, container |-> Started(container)]

\* The rendezvous ports that are taken, on any machine there is.
PortsTaken ==
    UNION {{MasterPort(t.container.command) : t \in ToSet(Listing(asked.machine[n]))} :
             n \in {"here"} \cup asked.registered}

RanksOn(flags, argv, port) ==
    [r \in DOMAIN asked.at |-> Launched(flags, port, RankArgv(argv, r - 1, Len(asked.at), port))]

Engine(flags) ==
    IF Pooled
    THEN RanksOn(flags, BuildCommand(TRUE, asked.ref, Settings(Form(flags)), asked.named, 8000),
                 MasterPortBeside(PortsTaken))
    ELSE <<Launched(flags, 0, BuildCommand(Vllm, asked.ref, Form(flags), asked.named, 8000))>>

Takes(e, pool) == LaunchPrice(e.engine = "vllm", e.flags, e.model, e.file, pool)

Seen(e, pool) == SeenPrice(e.container, e.file, pool)

Priced(flags, pool) == LaunchPrice(Vllm, flags, asked.ref, asked.model, pool)

\* Rank r, if the engine runs.
RankOn(r) == {running[q] : q \in DOMAIN running \cap {r}}

EnginesOn(r) == ToSet(Listing(Machine(r))) \cup RankOn(r)

\* No line that shlex cannot take apart.
Plainly(e) == \A i \in DOMAIN e.container.command : e.container.command[i].says # "'"

\* Nothing that a command is not read for.
SeenWhole(e, pool) ==
    IF e.engine = "vllm" THEN pool.devices = 1 \/ e.flags.parallel = 1
                         ELSE e.flags.companions = 0

-----------------------------------------------------------------------------
(* The survey of a machine.  A rank holds what it was priced at when it    *)
(* started, and is priced by its container.                                *)

Occupying(figures, own) ==
    [figures EXCEPT !.available = Less(@, own), !.measured = @ + own]

\* What the running engine will give back.
Credited(seen, measured) == IF ~Vllm /\ measured > 0 THEN Smaller(seen, measured) ELSE seen

Committed(tenants, pool) ==
    SumFunction([i \in DOMAIN tenants |-> Seen(tenants[i], pool)])

\* replaced: the survey is told the name of the rank that runs there.
Survey(figures, here, committed, own, seen, replaced) ==
    IF replaced THEN BudgetOf(Occupying(figures, own), here, committed,
                              Credited(seen, figures.measured + own))
                ELSE BudgetOf(Occupying(figures, own), here, committed + seen, 0)

\* What rank r holds, and what a survey takes that for.
HeldBy(r) == IF running = None THEN 0 ELSE Takes(running[r], PoolOf(r))
SeenOf(r) == IF running = None THEN 0 ELSE Seen(running[r], PoolOf(r))

BudgetAt(r, replaced) ==
    Survey(Surveyed(r), Here(r), Committed(Listing(Machine(r)), PoolOf(r)),
           HeldBy(r), SeenOf(r), replaced)

\* Another name than that of the container.
BudgetedBeside == BudgetAt(1, FALSE)

\* The survey of an advice.
Budgeted == BudgetAt(1, TRUE)

\* Rank 0's name for every machine.
ReplacedHead(r) == r = 1

\* Rank r is another container than rank 0, and a tenant like any other.
Replaced(r) == TRUE

-----------------------------------------------------------------------------
(* recommend                                                               *)

Model == IF Here(1) THEN Read(asked.model) ELSE ReadRemote(asked.model, Machine(1).reached)

Advised ==
    IF Vllm THEN VllmAdvice(Model, Budgeted, Len(asked.at), asked.args)
            ELSE LlamaAdvice(LooksLikePath(asked.ref),
                             IF Opens(asked.ref) THEN asked.model ELSE NoFile, Budgeted, asked.args)

\* The flags of the form once the advice has been taken.
Followed(advice) ==
    IF ~Vllm THEN Taken(Flags, advice)
    ELSE IF advice.set.util = 0 THEN Flags
    ELSE [Flags EXCEPT !.util = advice.set.util]

\* Whether there is anything to take.
Advises(advice) ==
    IF Vllm THEN advice.ok /\ advice.set.util > 0
            ELSE advice.ok /\ LooksLikePath(asked.ref)

-----------------------------------------------------------------------------
(* start                                                                   *)

Judged(b, price) == IF Vllm THEN VllmVerdict(b, price) ELSE BytesVerdict(b, price, price > 0)

Verdicts(flags) ==
    [r \in DOMAIN asked.at |-> Judged(BudgetAt(r, Replaced(r)), Priced(flags, PoolOf(r)))]

Fabric == Subnet(ClusterInterface(asked.fabric, asked.machine["here"].links, asked.addresses),
                 asked.machine["here"].links)

\* By the files on this machine, whichever machine is the pool's first.
Splittable == ~Read(asked.model).custom_sampler

\* A pool is vLLM's and needs a plan; a single machine the memory guard and
\* the image.
Checked(verdicts) ==
    LET machines == [r \in DOMAIN asked.at |-> Machine(r)]
    IN  IF ~Pooled THEN [ok |-> verdicts[1] # "block" /\ HasImage(Machine(1)),
                         why |-> "", verdicts |-> verdicts]
        ELSE IF ~Vllm THEN [ok |-> FALSE, why |-> "engine", verdicts |-> <<>>]
        ELSE Plan(Misfit(Nodes, machines, Fabric), machines, Splittable, verdicts)

\* An engine that cannot have what it asks for on one of its machines ends
\* again, and so does one that finds no file at the path it is given.
ComesUp(flags) ==
    IF /\ \A r \in DOMAIN asked.at :
             Priced(flags, PoolOf(r)) <= AvailableAfterReplacement(BudgetAt(r, TRUE))
       /\ Vllm \/ asked.ref \in {Word("/hf"), Word("/outputs")}
    THEN Engine(flags) ELSE None

-----------------------------------------------------------------------------
Init ==
    /\ asked \in Questions
    /\ running = None /\ told = None /\ verdict = None

Asks ==
    /\ told = None
    /\ told' = <<Advised>>
    /\ UNCHANGED <<asked, running, verdict>>

\* The row is saved with the advice and launched.  A refused launch leaves the
\* engine that runs as it is.
Launches ==
    /\ told # None /\ Advises(told[1])
    /\ \E flags \in {Followed(told[1])} :
          /\ Saved(flags)
          /\ \E check \in {Checked(Verdicts(flags))} :
                /\ verdict' = check.verdicts
                /\ running' = IF check.ok THEN ComesUp(flags) ELSE running
    /\ told' = None
    /\ UNCHANGED asked

Stops ==
    /\ running # None
    /\ running' = None /\ told' = None /\ verdict' = None
    /\ UNCHANGED asked

Next == Asks \/ Launches \/ Stops

Spec == Init /\ [][Next]_vars

-----------------------------------------------------------------------------
(* Properties                                                              *)

\* A profile whose figures are numbers, absent ones being 0.
Measurable(p) ==
    /\ p.found \in BOOLEAN /\ p.is_multimodal \in BOOLEAN
    /\ p.weights \in Nat /\ p.context \in Nat /\ p.layers \in Nat /\ p.window \in Nat
    /\ p.heads \in Nat /\ p.dim \in Nat /\ p.global_heads \in Nat /\ p.global_dim \in Nat
    /\ p.kinds.full \in Nat /\ p.kinds.windowed \in Nat

\* What is summed up and read from answers, files and commands are numbers, and
\* every pool has a card to divide by.
TypeOK ==
    /\ PoolOf(1) \in Pool /\ Budgeted \in Budget
    /\ Vllm => Measurable(Model) /\ Flags \in Args

\* A launch with the flags the advice set is not refused by the memory guard
\* that answers on the next click for the machine the advice was about, a pool's
\* first: the two work from one survey, but with arithmetic of their own
\* (recommend.py, recommend_llamacpp.py and safety.py).  Flags that add memory
\* to what was advised, or ask for more cards than there are, are the operator's.
AdviceAdmitted ==
    LET theirs == IF Vllm THEN \/ Flags.offload > 0 \/ Flags.kv > 0
                               \/ Spanned(Flags, PoolOf(1)) > PoolOf(1).devices
                          ELSE Flags.companions > 0
    IN  verdict # None /\ verdict[1] = "block" => theirs

\* Asked again for an engine that runs as it was advised, the advice is the
\* same: its own memory is not held against it.
AdviceStands ==
    running # None /\ told # None /\ SeenWhole(running[1], PoolOf(1))
      => told[1].ok /\ Followed(told[1]) = running[1].flags

\* An engine that was let in can be launched over again as it is: on none of its
\* machines is it refused for the memory its own rank there holds.
RelaunchStands ==
    running # None /\ (\A r \in DOMAIN running : SeenWhole(running[r], PoolOf(r)))
      => Checked(Verdicts(running[1].flags)).ok

\* Engine e on the machine of rank r is found, named and priced as it was
\* started; a form is rendered without lines for a shell.
AsStarted(r, e) ==
    LET as(pool, seen, listed) ==
            /\ listed.engine \in {"", e.engine}
            /\ seen <= Takes(e, pool)
            /\ SeenWhole(e, pool) /\ (Plainly(e) \/ e \in RankOn(r)) =>
                 /\ seen = Takes(e, pool)
                 /\ listed.engine = e.engine /\ listed.model = e.model
                 /\ MasterPort(e.container.command) = e.port
    IN  as(PoolOf(r), Seen(e, PoolOf(r)), Listed(e.container))

\* However an engine was started, from the form or by hand, on a line for a
\* shell, by its image's entrypoint, with flags spelled otherwise or joined to
\* their values, a survey finds it and prices it at what its launch was priced
\* at, and at no more where the command is not read for all that it holds; and
\* of a rank the port is found that it meets the others at.  A quotation without
\* an end hides only what was started by hand.
SeenAsLaunched == \A r \in DOMAIN asked.at : \A e \in EnginesOn(r) : AsStarted(r, e)

\* The fraction vLLM is told to take holds each machine's share of the weights
\* and what every rank needs beside them, wherever the fraction is of the
\* whole pool and there are weights on the disk to count.
AdviceLoads ==
    LET holds(p, total, shards) ==
            p.found /\ p.weights > 0
              => told[1].set.util * total * shards >= 100 * (p.weights + shards * Extra(p))
    IN  Vllm /\ told # None /\ Advises(told[1]) /\ Surveyed(1).card = Surveyed(1).total
          => holds(Model, Surveyed(1).total, Len(asked.at))

\* llama.cpp is given every layer with the longest context that fits, and
\* otherwise the most layers that fit at all: no other choice that the advice
\* could have made fits and is better.  What is advised fits itself.
MostLayers ==
    LET most(h, spendable, advice, given) ==
            LET fits(layers, ctx) == Cost(h, asked.args, layers, ctx) <= spendable
            IN  /\ advice.ok => fits(given, advice.ctx)
                /\ \A layers \in 1..AllLayers(h), i \in Steps(h) :
                      fits(layers, ContextSteps[i]) =>
                        /\ advice.ok /\ given >= layers
                        /\ given = layers => advice.ctx >= ContextSteps[i]
    IN  ~Vllm /\ Opens(asked.ref) /\ told # None =>
            \A h \in ToSet(ReadCached(asked.model)), spendable \in {Spendable(Budgeted)} \ {0} :
                most(h, spendable, told[1], Smaller(told[1].layers, AllLayers(h)))

\* Answers that could be taken for those of a machine with a card of its own,
\* where an overcommit is only advised against, for want of what was lost.
Mistakable ==
    {a \in UNION {{q.machine[n].answer : n \in DOMAIN q.machine} : q \in Questions} :
        ~OnlyByProof(a)}

\* Only proof makes a card: however many lines, figures and answers a machine
\* loses, all at once, it is not taken for one with a card of its own unless one
\* of its devices told its total and its free memory, and less of it than the
\* host was read to have.  A part that shares its memory tells none, or all.
FailUnified == \A n \in DOMAIN asked.machine : asked.machine[n].answer \notin Mistakable
=============================================================================
