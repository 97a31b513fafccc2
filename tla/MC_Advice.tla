----------------------------- MODULE MC_Advice -----------------------------
(* Machines of 400 units of memory or with cards of 100 or more, models    *)
(* from a tenth of that to more than all of it.                            *)
EXTENDS Advice, TLC

Card(index, total, free) ==
    [whole |-> TRUE, index |-> index, total |-> total,
     used |-> IF free = Unsaid THEN Unsaid ELSE total - free, free |-> free, mig |-> FALSE]

Silent(index) == [Card(index, Unsaid, Unsaid) EXCEPT !.used = Unsaid]

Answer(rows, modes, available) ==
    [ok |-> TRUE, rows |-> rows, modes |-> modes, apps |-> 0,
     host |-> [total |-> 400, available |-> available]]

Ats == (0 :> "ATS") @@ (1 :> "ATS")

Answers ==
    {Answer(<<Silent(0)>>, <<>>, 300), Answer(<<Silent(0)>>, <<>>, 150),
     Answer(<<Silent(0)>>, <<>>, 20),
     Answer(<<Card(0, 380, 200)>>, <<>>, 200),
     Answer(<<Card(0, 100, 90)>>, Ats, 250),
     Answer(<<Card(0, 100, 90), Card(1, 100, 70)>>, 0 :> "ATS", 350),
     Answer(<<Card(0, 150, 140)>>, <<>>, 300),
     Answer(<<Card(0, 150, 140), Card(1, 100, 60)>>, <<>>, 300),
     Answer(<<Card(0, 100, 90), Silent(1)>>, <<>>, 300),
     Answer(<<[Card(0, 100, 90) EXCEPT !.mig = TRUE], Card(1, 100, 90)>>, <<>>, 300),
     Answer(<<[Silent(0) EXCEPT !.whole = FALSE]>>, <<>>, 300),
     Answer(<<>>, <<>>, 300),
     [Answer(<<[Silent(0) EXCEPT !.whole = FALSE]>>, <<>>, 300) EXCEPT !.ok = FALSE]}

-----------------------------------------------------------------------------
(* Machines.                                                               *)

Links == <<Link("eth", "office"), Link("roce", "fabric")>>

MachineOf(reached, answer, tenants, links, pulled) ==
    [reached |-> reached, answer |-> answer, tenants |-> tenants, links |-> links,
     pulled |-> pulled]

This(answer, tenants) == MachineOf(TRUE, answer, tenants, Links, TRUE)

\* The port that a peer's fabric is on has another name.
Peer(reached, answer, tenants) ==
    MachineOf(reached, answer, tenants, <<Link("eno", "fabric")>>, TRUE)

Idle == This(Answer(<<Silent(0)>>, <<>>, 300), <<>>)

Over(engine, at, machine) ==
    [engine |-> engine, at |-> at, machine |-> machine,
     registered |-> DOMAIN machine \ {"here"}, fabric |-> "", addresses |-> {"fabric"}]

\* One machine: this one, a peer, a peer that does not answer, or one whose name
\* is not registered any more, which is this one.
Single(engine, answer, tenants) ==
    {Over(engine, <<"here">>, "here" :> This(answer, tenants)),
     Over(engine, <<"peer">>, ("peer" :> Peer(TRUE, answer, tenants)) @@ ("here" :> Idle)),
     Over(engine, <<"peer">>, ("peer" :> Peer(FALSE, answer, tenants)) @@ ("here" :> Idle))}

-----------------------------------------------------------------------------
\* Two layers of one head of one element: 8 units a token.
Sizes == ("context" :> 8) @@ ("layers" :> 2) @@ ("hidden" :> 2) @@ ("heads" :> 2)
         @@ ("kv_heads" :> 1)

Nested(sizes, level) == [x \in {<<k, 0, level>> : k \in DOMAIN sizes} |-> sizes[x[1]]]

Plain == [NoConfig EXCEPT !.numbers = Nested(Sizes, 0), !.architectures = <<"LlamaForCausalLM">>,
                          !.model_type = "llama"]

Snapshot(weights, config) ==
    [safetensors |-> <<weights>>, ggufs |-> <<>>, indexed |-> 0, config |-> <<config>>,
     adapter |-> FALSE, processor |-> FALSE, pooling |-> FALSE,
     templates |-> <<{"<think>", "</think>"}>>]

Hybrid == [Plain EXCEPT
    !.numbers = Nested(Sizes, 1) @@ (<<"window", 1, 0>> :> 3) @@ (<<"global_heads", 0, 1>> :> 2)
                @@ (<<"global_dim", 0, 1>> :> 2),
    !.layer_types = <<"full_attention", "sliding_attention", "linear_attention">>,
    !.architectures = <<"Qwen3Model">>, !.model_type = "qwen3", !.media = TRUE]

Blocks8 == [Plain EXCEPT !.quant.groups = <<[block |-> TRUE, bits |-> 8]>>,
                         !.architectures = <<"DiffusionForCausalLM">>, !.auto_map = TRUE]

Alone(s) == [main |-> 1, snapshots |-> <<s>>]

Repositories ==
    {Alone(Snapshot(w, Plain)) : w \in {40, 130, 240, 500}}
    \cup {Alone(Snapshot(w, Hybrid)) : w \in {60, 260}}
    \cup {Alone(Snapshot(90, Blocks8)),
          \* a config that does not say its geometry, weights only the index knows
          Alone([Snapshot(10, NoConfig) EXCEPT !.indexed = 110]),
          \* a download whose newest snapshot has no config yet
          [main |-> 0, snapshots |-> <<Snapshot(70, Plain), [Snapshot(5, Plain) EXCEPT !.config = <<>>]>>],
          Alone([Snapshot(20, Plain) EXCEPT !.adapter = TRUE, !.config = <<>>]),
          Alone([Snapshot(0, Plain) EXCEPT !.safetensors = <<>>, !.ggufs = <<80>>]),
          \* and one that has nothing but a config yet
          Alone([Snapshot(0, Plain) EXCEPT !.safetensors = <<>>]),
          [main |-> 0, snapshots |-> <<>>]}

VllmArgs == {[util |-> NoUtil, parallel |-> 1, kv |-> 0, offload |-> 0],
             [util |-> 95, parallel |-> 2, kv |-> 0, offload |-> 0],
             [util |-> NoUtil, parallel |-> 1, kv |-> 0, offload |-> 60],
             [util |-> 20, parallel |-> 1, kv |-> 350, offload |-> 0]}

VllmQuestion(over, repository, flags) ==
    over @@ [model |-> repository, ref |-> Word("org/repo"),
             named |-> Word("chat"), others |-> <<>>,
             args |-> [launch |-> flags, offload |-> flags.offload, lone_parser |-> FALSE,
                       parsers |-> FALSE, max_num_seqs |-> FALSE]]

-----------------------------------------------------------------------------
Scalar(key, n) == [key |-> key, length |-> 1, credible |-> TRUE, count |-> 1, numbers |-> {n}]

Table(blocks, context, kv) ==
    <<Scalar("block_count", blocks), Scalar("context_length", context),
      Scalar("embedding_length", 4), Scalar("head_count", 2), kv,
      [key |-> "tokens", length |-> 9, credible |-> TRUE, count |-> 9, numbers |-> {}]>>

File(bytes, table) == [magic |-> TRUE, bytes |-> bytes, entries |-> table]

PerLayerHeads(n) == [key |-> "head_count_kv", length |-> n, credible |-> TRUE, count |-> n,
                     numbers |-> {-1, 1, 2}]

GgufFiles ==
    {File(b, Table(4, 8, Scalar("head_count_kv", 1))) : b \in {50, 200, 700}}
    \cup {File(200, Table(4, 8, PerLayerHeads(n))) : n \in {4, 9}}
    \cup {File(b, Table(4, 3, Scalar("head_count_kv", 1))) : b \in {100, 400}}
    \cup {File(100, Table(9, 8, Scalar("head_count_kv", 1))),
          File(7, Table(4, 8, Scalar("head_count_kv", 1))),
          File(300, Table(4, 1, Scalar("head_count_kv", 1))),
          File(100, <<>>), [File(100, Table(4, 8, Scalar("head_count_kv", 1))) EXCEPT !.magic = FALSE]}

LlamaArgs ==
    {[layers |-> Every, ctx |-> 0, k |-> t, v |-> t, ubatch |-> u,
      flash |-> IF u = 0 THEN "auto" ELSE "off", companions |-> c] :
        t \in {"f16", "q8_0"}, u \in {0, 8}, c \in {0, 60}}

LlamaQuestion(over, file, ref, flags) ==
    over @@ [model |-> file, ref |-> ref, named |-> Blank, others |-> <<>>, args |-> flags]

-----------------------------------------------------------------------------
(* Engines started by hand.  A command may name a flag by any spelling its *)
(* program takes and, for vLLM, join it to its value.                      *)

Typed(flag, value, joined) == IF joined THEN <<Joined(flag, value)>> ELSE <<Word(flag), value>>

VllmByHand(flags, joined) ==
    <<Word("vllm"), Word("serve"), Word("org/repo"), Word("--port"), Number(8001)>>
    \o (IF flags.util = NoUtil THEN <<>>
        ELSE Typed("--gpu-memory-utilization", Number(flags.util), joined))
    \o (IF flags.kv = 0 THEN <<>>
        ELSE Typed(IF joined THEN "--kv-cache-memory" ELSE "--kv-cache-memory-bytes",
                   Number(flags.kv), joined))
    \o Typed("--tensor-parallel-size", Number(flags.parallel), joined)
    \o Typed("--cpu-offload-gb", Number(flags.offload), joined)

LlamaByHand(flags, ref, short) ==
    <<Word("llama-server"), Word(IF short THEN "-m" ELSE "--model"), ref>>
    \o (IF flags.layers = Every THEN <<>>
        ELSE <<Word(IF short THEN "-ngl" ELSE "--gpu-layers"), Number(flags.layers)>>)
    \o <<Word(IF short THEN "-c" ELSE "--ctx-size"), Number(flags.ctx),
         Word(IF short THEN "-ctk" ELSE "--cache-type-k"), Word(flags.k),
         Word(IF short THEN "-ctv" ELSE "--cache-type-v"), Word(flags.v),
         Word(IF short THEN "-fa" ELSE "--flash-attn"), Word(flags.flash),
         Word(IF short THEN "-ub" ELSE "--ubatch-size"), Number(IF flags.ubatch = 0 THEN 4 ELSE flags.ubatch)>>

\* As it is, on a line for a shell that is whole or odd, or with the program in
\* the image's entrypoint.
Containers(argv, program) ==
    {Started(argv),
     Started(<<Word("bash"), Word("-lc"), Line(<<Word("export"), Word("exec")>> \o argv)>>),
     Started(<<Word("bash"), Word("-lc"), OddLine(argv)>>),
     [entrypoint |-> SubSeq(argv, 1, program), command |-> SubSeq(argv, program + 1, Len(argv))]}

VllmTenants(flags) ==
    {[engine |-> "vllm", flags |-> flags, model |-> Word("org/repo"), file |-> NoFile,
      port |-> 0, container |-> c] : c \in UNION {Containers(VllmByHand(flags, j), 2) : j \in BOOLEAN}}

LlamaTenants(flags, file, ref) ==
    {[engine |-> "llamacpp", flags |-> flags, model |-> ref, file |-> file,
      port |-> 0, container |-> c] : c \in UNION {Containers(LlamaByHand(flags, ref, s), 1) : s \in BOOLEAN}}

LlamaTyped ==
    LlamaArgs \cup {[layers |-> 2, ctx |-> 4, k |-> "f32", v |-> "f16", ubatch |-> 2,
                     flash |-> "on", companions |-> 0]}

\* A rank of a pooled engine, whose row may name a port that is not the one.
Ranks ==
    {[engine |-> "vllm", flags |-> [util |-> 20, parallel |-> 1, kv |-> 0, offload |-> 0],
      model |-> Word("org/repo"), file |-> NoFile, port |-> p,
      container |-> Started(RankArgv(BuildCommand(TRUE, Word("org/repo"),
          <<<<"gpu_memory_utilization", Number(20)>>>> \o o, Blank, 8001), r, 2, p))] :
        p \in {29500, 29501}, r \in 0..1, o \in {<<>>, <<<<"master_port", Number(1)>>>>}}

Tenants ==
    Ranks \cup UNION {VllmTenants(f) : f \in VllmArgs}
    \cup UNION {LlamaTenants(f, g, ContainerPath([written |-> "elsewhere", resolved |-> r])) :
                  f \in LlamaTyped, g \in {File(200, Table(4, 8, Scalar("head_count_kv", 1)))},
                  r \in {"outputs", "cache", "elsewhere"}}

\* One that commits 120 of a machine of 400.
Neighbour == CHOOSE t \in VllmTenants([util |-> 5, parallel |-> 1, kv |-> 120, offload |-> 0]) :
                t.container.entrypoint = <<Word("vllm"), Word("serve")>>

-----------------------------------------------------------------------------
Cached == ContainerPath([written |-> "cache", resolved |-> "cache"])

RefOf(file) == IF file.entries = <<>> THEN Word("org/repo") ELSE Cached

SomeAnswer == Answer(<<Card(0, 150, 140), Card(1, 100, 60)>>, <<>>, 300)
SomeFile == File(50, Table(4, 8, Scalar("head_count_kv", 1)))
SomeRepository == Alone(Snapshot(40, Plain))
SomeArgs == CHOOSE f \in VllmArgs : f.util = NoUtil /\ f.offload = 0

AboutMachines ==
    {VllmQuestion(o, r, f) :
        o \in UNION {Single("vllm", a, t) : a \in Answers, t \in {<<>>, <<Neighbour>>}},
        r \in Repositories, f \in VllmArgs}
    \cup {LlamaQuestion(o, g, RefOf(g), f) :
        o \in UNION {Single("llamacpp", a, t) : a \in Answers, t \in {<<>>, <<Neighbour>>}},
        g \in GgufFiles, f \in LlamaArgs}

\* Pools of two: both orders, machines with more and with less room, of either
\* kind, with neighbours, and everything that keeps a machine out of a pool.
PoolAnswers ==
    {Answer(<<Silent(0)>>, <<>>, 300), Answer(<<Silent(0)>>, <<>>, 150),
     Answer(<<Card(0, 150, 140), Card(1, 100, 60)>>, <<>>, 300)}

RankTenant == CHOOSE t \in Ranks : t.port = 29500 /\ Len(t.container.command) > 12

Seconds ==
    {Peer(reached, a, t) : reached \in BOOLEAN, a \in PoolAnswers, t \in {<<>>, <<RankTenant>>}}
    \cup {[Peer(TRUE, SomeAnswer, <<>>) EXCEPT !.pulled = FALSE],
          [Peer(TRUE, SomeAnswer, <<>>) EXCEPT !.links = <<Link("eth", "office")>>]}

PoolsOf(a, m) ==
    {Over("vllm", at, ("peer" :> m) @@ ("here" :> This(a, <<>>))) :
        at \in {<<"here", "peer">>, <<"peer", "here">>, <<"here", "gone">>}}

NoFabric ==
    {[Over("vllm", <<"here", "peer">>, ("peer" :> Peer(TRUE, SomeAnswer, <<>>)) @@ ("here" :> Idle))
        EXCEPT !.fabric = f, !.addresses = n] : f \in {"", "gone", "eth"}, n \in {{}, {"fabric"}}}

AboutPools ==
    {[VllmQuestion(o, r, f) EXCEPT !.others = <<<<"master_port", Number(1)>>>>] :
        o \in NoFabric \cup UNION {PoolsOf(a, m) : a \in PoolAnswers, m \in Seconds},
        r \in {Alone(Snapshot(130, Plain)), Alone(Snapshot(250, Plain)), Alone(Snapshot(500, Plain)),
               Alone(Snapshot(90, Blocks8))},
        f \in {g \in VllmArgs : g.kv = 0}}

AboutTenants ==
    {VllmQuestion(Over("vllm", <<"here">>, "here" :> This(a, <<t>>)), SomeRepository, SomeArgs) :
        a \in {SomeAnswer, Answer(<<Silent(0)>>, <<>>, 300)}, t \in Tenants}

Lone(engine) == Over(engine, <<"gone">>, "here" :> This(SomeAnswer, <<>>))

\* Forms with more in them than matters to memory, refused ones among them,
\* and references to files in other places.
VllmOthers ==
    {<<<<"enable_auto_tool_choice", On>>>>, <<<<"enable_auto_tool_choice", Off>>>>,
     <<<<"tool_call_parser", Word("hermes")>>, <<"enable_auto_tool_choice", On>>>>,
     <<<<"served_model_name", Line(<<Word("a"), Word("b")>>)>>>>, <<<<"port", Number(1)>>>>,
     <<<<"tool_call_parser", Word("none")>>>>, <<<<"no_such_flag", On>>>>,
     <<<<"served_model_name", OddLine(<<Word("vllm"), Word("serve")>>)>>>>}

LlamaOthers ==
    {<<<<"jinja", Off>>, <<"mlock", On>>>>, <<<<"mlock", Off>>>>, <<<<"alias", Word("chat")>>>>,
     <<<<"lora", Line(<<Word("a"), Word("b")>>)>>>>, <<<<"parallel", Word("many")>>>>,
     <<<<"parallel", Number(2)>>>>}

Refs == {Word(w) : w \in Paths \cup {"org/repo"}}

AboutForms ==
    {[VllmQuestion(Lone("vllm"), SomeRepository, f) EXCEPT !.others = o] :
        o \in VllmOthers, f \in VllmArgs}
    \cup {[LlamaQuestion(Lone("llamacpp"), SomeFile, r, f)
             EXCEPT !.others = o, !.named = Word("chat")] :
        o \in LlamaOthers \cup {<<>>}, f \in LlamaArgs, r \in Refs}

Steps8 == <<8, 4, 2>>

\* An image that is not built, more cards than there are, and a pool of the
\* engine that has none.
AboutRefusals ==
    {VllmQuestion(Over("vllm", <<"here">>, "here" :> This(SomeAnswer, <<>>)), SomeRepository,
                  [SomeArgs EXCEPT !.parallel = 3])} \cup
    {VllmQuestion(Over("vllm", <<"here">>, "here" :> [This(SomeAnswer, <<>>) EXCEPT !.pulled = FALSE]),
                  SomeRepository, SomeArgs)}
    \cup {LlamaQuestion(Over("llamacpp", <<"here", "peer">>,
                             ("peer" :> Peer(TRUE, SomeAnswer, <<>>)) @@ ("here" :> Idle)),
                        SomeFile, Cached, f) : f \in LlamaArgs}

Asked == AboutRefusals \cup AboutMachines \cup AboutPools \cup AboutTenants \cup AboutForms

\* The forms are such as the proofs speak of.
ASSUME OrdinaryForms == \A q \in Asked : Ordinary(q)
=============================================================================
