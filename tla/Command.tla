------------------------------ MODULE Command ------------------------------
(***************************************************************************)
(* From the settings of a server to the command of its container, and back *)
(* from a container's command to the engine it runs and the memory it      *)
(* holds: app/vllm_spec.py, app/llamacpp_spec.py, app/engines and the      *)
(* parts of app/servers.py that assemble and read a command.               *)
(***************************************************************************)
EXTENDS Admission, Gguf, SequencesExt

-----------------------------------------------------------------------------
(* Tokens of a command, which are also the values of a form.               *)

Blank == [says |-> "", number |-> <<>>, joined |-> <<>>, line |-> <<>>]

Word(s) == [Blank EXCEPT !.says = s]
Number(n) == [Blank EXCEPT !.number = <<n>>]

\* --flag=value in one token.
Joined(flag, value) == [Word(flag) EXCEPT !.joined = <<value>>]

\* Several in one: a line for a shell, a list in a form.  A line that shlex
\* finds no end of a quotation in, an apostrophe in a comment say, is odd.
Line(tokens) == [Blank EXCEPT !.line = tokens]
OddLine(tokens) == [Line(tokens) EXCEPT !.says = "'"]

On == Word("true")
Off == Word("false")

\* A token by itself, one with a value joined to it, and one that may be several.
\* The programs take no number below 0 for what a command is read for.
Bare(words) == [says : words, number : Seq(Nat), joined : {<<>>}, line : {<<>>}]
Flagged(words) == [says : words, number : Seq(Nat), joined : Seq(Bare(words)), line : {<<>>}]
Token(words) ==
    [says : words, number : Seq(Nat), joined : Seq(Bare(words)), line : Seq(Flagged(words))]

Container(words) == [entrypoint : Seq(Token(words)), command : Seq(Token(words))]

\* The flags of llama.cpp that matter to memory.
LlamaSet == [layers : Nat, ctx : Nat, k : STRING, v : STRING, ubatch : Nat, flash : STRING,
             companions : Nat]

-----------------------------------------------------------------------------
(* The flags, as the generated schemas describe them: the spelling that is *)
(* rendered first, the kind of value, and the default.                     *)

Arg(flags, widget, default) ==
    [flags |-> flags, widget |-> widget, default |-> default,
     negative |-> <<>>, accepts |-> {}, choices |-> {}]

Switch(flag, default, negative) ==
    [Arg(<<flag>>, "bool", default) EXCEPT !.negative = negative]

OneOf(flags, default, choices) ==
    [Arg(flags, "enum", default) EXCEPT !.choices = choices]

CacheTypes == {"f32", "f16", "bf16", "q8_0", "q4_0"}

VllmFlags ==
    [gpu_memory_utilization |->
        Arg(<<"--gpu-memory-utilization">>, "float", Number(DefaultUtil)),
     kv_cache_memory_bytes |-> Arg(<<"--kv-cache-memory-bytes">>, "str", Blank),
     cpu_offload_gb |-> Arg(<<"--cpu-offload-gb">>, "float", Number(0)),
     tensor_parallel_size |-> Arg(<<"--tensor-parallel-size", "-tp">>, "int", Number(1)),
     served_model_name |-> Arg(<<"--served-model-name">>, "list", Blank),
     enable_auto_tool_choice |->
        Switch("--enable-auto-tool-choice", Off, <<Word("--no-enable-auto-tool-choice")>>),
     master_port |-> Arg(<<"--master-port">>, "int", Number(29501)),
     tool_call_parser |-> OneOf(<<"--tool-call-parser">>, Blank, {"hermes", "openai"})]

LlamaFlags ==
    [n_gpu_layers |->
        [Arg(<<"--n-gpu-layers", "-ngl", "--gpu-layers">>, "size", Word("auto"))
            EXCEPT !.accepts = {"auto", "all"}],
     ctx_size |-> Arg(<<"--ctx-size", "-c">>, "int", Number(0)),
     cache_type_k |-> OneOf(<<"--cache-type-k", "-ctk">>, Word("f16"), CacheTypes),
     cache_type_v |-> OneOf(<<"--cache-type-v", "-ctv">>, Word("f16"), CacheTypes),
     ubatch_size |-> Arg(<<"--ubatch-size", "-ub">>, "int", Number(DefaultUbatch)),
     flash_attn |-> OneOf(<<"--flash-attn", "-fa">>, Word("auto"), {"on", "off", "auto"}),
     mmproj |-> Arg(<<"--mmproj", "-mm">>, "str", Blank),
     parallel |-> Arg(<<"--parallel", "-np">>, "int", Number(-1)),
     alias |-> Arg(<<"--alias", "-a">>, "str", Blank),
     jinja |-> Switch("--jinja", On, <<Word("--no-jinja")>>),
     mlock |-> Switch("--mlock", Off, <<>>),
     lora |-> Arg(<<"--lora">>, "list", Blank)]

\* The dashboard sets these itself.
Managed == {"host", "port", "model"}

-----------------------------------------------------------------------------
(* validate.  settings is a sequence of pairs of a name and a value.       *)

Setting(settings, dest, unset) ==
    LET at == {i \in DOMAIN settings : settings[i][1] = dest}
    IN  IF at = {} THEN unset ELSE settings[CHOOSE i \in at : TRUE][2]

Acceptable(arg, value, isVllm) ==
    CASE arg.widget = "enum" -> value.says \in arg.choices
      [] arg.widget \in {"int", "size"} ->
            value.number # <<>> \/ value.says \in IF isVllm THEN {"auto"} ELSE arg.accepts
      [] arg.widget = "float" -> value.number # <<>>
      [] arg.widget = "bool" -> isVllm \/ value = On \/ arg.negative # <<>>
      [] OTHER -> TRUE

KnownAndAcceptable(schema, settings, isVllm) ==
    \A i \in DOMAIN settings :
        /\ settings[i][1] \in DOMAIN schema \ Managed
        /\ settings[i][2] # Blank => Acceptable(schema[settings[i][1]], settings[i][2], isVllm)

\* A parser is needed for tools that are chosen automatically.
VllmValid(settings) ==
    /\ KnownAndAcceptable(VllmFlags, settings, TRUE)
    /\ Setting(settings, "enable_auto_tool_choice", Off) = On
         => Setting(settings, "tool_call_parser", Blank) # Blank

\* A quantised V cache has no kernel without flash attention.
LlamaValid(settings) ==
    /\ KnownAndAcceptable(LlamaFlags, settings, FALSE)
    /\ ~ /\ Setting(settings, "cache_type_v", Blank) # Blank
         /\ Setting(settings, "cache_type_v", Blank).says \notin {"f32", "f16", "bf16"}
         /\ Setting(settings, "flash_attn", Blank) = Word("off")

-----------------------------------------------------------------------------
(* build_argv.                                                             *)

IsDefault(arg, value) == value \in {Blank, arg.default}

\* Values that a form gives as a list; a scalar is a list of one.
Items(value) == IF value.line # <<>> THEN value.line ELSE <<value>>

VllmRender(arg, value) ==
    LET flag == Word(arg.flags[1])
    IN  CASE arg.widget = "bool" -> IF value = On THEN <<flag>> ELSE arg.negative
          [] arg.widget = "list" -> <<flag>> \o Items(value)
          [] OTHER -> <<flag, value>>

\* A list is one token, with commas.
LlamaRender(arg, value) ==
    IF arg.widget = "list" THEN <<Word(arg.flags[1]), value>> ELSE VllmRender(arg, value)

\* The flags in the order of the settings; none for a value that is the
\* default of the engine's build.
Rendered(schema, settings, isVllm) ==
    LET tokens(dest, value) ==
            IF dest \in Managed \/ dest \notin DOMAIN schema THEN <<>>
            ELSE IF IsDefault(schema[dest], value) THEN <<>>
            ELSE IF isVllm THEN VllmRender(schema[dest], value)
                 ELSE LlamaRender(schema[dest], value)
    IN  FlattenSeq([i \in DOMAIN settings |-> tokens(settings[i][1], settings[i][2])])

Serving(port) == <<Word("--host"), Word("0.0.0.0"), Word("--port"), Number(port)>>

VllmArgv(model, settings, port) ==
    <<Word("vllm"), Word("serve"), model>> \o Serving(port)
        \o Rendered(VllmFlags, settings, TRUE)

\* A reference is a path by its slash or its .gguf, and else the Hub's.
Paths == {"/hf", "/outputs", "/hf/..", "/cache", "/elsewhere", "a.gguf"}

LooksLikePath(model) == model.says \in Paths

LlamaArgv(model, settings, port) ==
    <<Word("llama-server")>> \o Serving(port)
        \o (IF model = Blank THEN <<>>
            ELSE <<Word(IF LooksLikePath(model) THEN "-m" ELSE "-hf"), model>>)
        \o <<Word("--metrics")>> \o Rendered(LlamaFlags, settings, FALSE)

\* All but some of the settings.
Without(settings, dests) ==
    FlattenSeq([i \in DOMAIN settings |->
                   IF settings[i][1] \in dests THEN <<>> ELSE <<settings[i]>>])

\* The name that the row gives its model is one more flag, unless it is set.
BuildCommand(isVllm, model, settings, named, port) ==
    LET dest == IF isVllm THEN "served_model_name" ELSE "alias"
        named_too == IF named # Blank /\ Setting(settings, dest, Blank) = Blank
                     THEN <<<<dest, named>>>> ELSE <<>>
        others == IF named_too = <<>> THEN settings ELSE Without(settings, {dest})
    IN  IF isVllm THEN VllmArgv(model, others \o named_too, port)
                  ELSE LlamaArgv(model, others \o named_too, port)

\* One rank of a pooled engine.  What tells it apart is appended as it is, also
\* where it is the default of the build.
RankArgv(argv, rank, ranks, port) ==
    argv \o (IF rank > 0 THEN <<Word("--headless")>> ELSE <<>>)
         \o <<Word("--pipeline-parallel-size"), Number(ranks), Word("--nnodes"), Number(ranks),
              Word("--node-rank"), Number(rank), Word("--master-addr"), Word("address"),
              Word("--master-port"), Number(port)>>

\* docker run.  The images that are built here have an entrypoint that runs
\* its arguments, and no launch replaces it.
Started(command) == [entrypoint |-> <<Word("llmd-entrypoint")>>, command |-> command]

-----------------------------------------------------------------------------
(* Paths.  A file lies under a directory as its path is written and, with  *)
(* the links of its directory followed, perhaps under another.             *)

ContainerPath(file) ==
    IF "outputs" \in {file.written, file.resolved} THEN Word("/outputs")
    ELSE IF "cache" \in {file.written, file.resolved} THEN Word("/hf")
    ELSE Word("/elsewhere")

\* Whether this process can open what a container was given: under one of the
\* two mounts and not out of it again, or the path of a file here in one of the
\* two directories that are mounted.
Opens(model) == model.says \in {"/hf", "/outputs", "/cache"}

-----------------------------------------------------------------------------
(* Reading a command back.                                                 *)

\* Nothing after the last token.
Following(argv, i) == SubSeq(argv, i + 1, Smaller(i + 1, Len(argv)))

\* Joined to the flag or after it; the first that is there.
FlagValue(argv, names) ==
    LET after(i) == IF argv[i].joined # <<>> THEN argv[i].joined ELSE Following(argv, i)
        first(at) == CHOOSE i \in at : \A j \in at : i <= j
        value(at) == IF at = {} THEN <<>> ELSE after(first(at))
    IN  value({i \in DOMAIN argv : argv[i].says \in names})

SeenNumber(argv, names, unset) ==
    LET number(values) == IF values = <<>> THEN <<>> ELSE values[1].number
    IN  Head(number(FlagValue(argv, names)) \o <<unset>>)

SeenWord(argv, names, unset) ==
    LET word(values) == IF values = <<>> THEN unset ELSE values[1].says
    IN  word(FlagValue(argv, names))

VllmProgram == <<"vllm", "serve">>
LlamaProgram == <<"llama-server">>

Runs(tokens, j, program) ==
    \A k \in DOMAIN program :
        j + k - 1 \in DOMAIN tokens /\ tokens[j + k - 1].says = program[k]

\* The program and what follows it in the first line for a shell that runs it.
ArgvOf(command, program) ==
    LET starts(line) == {j \in DOMAIN line : Runs(line, j, program)}
        lines == {i \in DOMAIN command : command[i].says # "'" /\ starts(command[i].line) # {}}
        first(at) == CHOOSE i \in at : \A j \in at : i <= j
        from(line) == SubSeq(line, first(starts(line)), Len(line))
    IN  IF lines = {} THEN command ELSE from(command[first(lines)].line)

FirstTwo(argv) == {argv[i].says : i \in DOMAIN argv \cap 1..2}

VllmMatches(command) ==
    LET argv == ArgvOf(command, VllmProgram)
    IN  "vllm" \in FirstTwo(argv) /\ \E i \in DOMAIN argv : argv[i].says = "serve"

LlamaMatches(command) == "llama-server" \in FirstTwo(ArgvOf(command, LlamaProgram))

RecogniseArgv(command) ==
    IF VllmMatches(command) THEN "vllm"
    ELSE IF LlamaMatches(command) THEN "llamacpp" ELSE ""

\* Only the command, whatever the engine was found in.
IdentifyByCommand(container) ==
    LET whole == container.entrypoint \o container.command
    IN  [engine |-> RecogniseArgv(whole), argv |-> container.command]

Found(engine, argv) == [engine |-> engine, argv |-> IF engine = "" THEN <<>> ELSE argv]

\* The command by itself, and only then with the image's entrypoint before it;
\* with the engine comes the one that it was found in.
Identify(container) ==
    LET either(alone, whole) ==
            IF alone.engine # "" THEN alone ELSE Found(RecogniseArgv(whole), whole)
    IN  either(Found(RecogniseArgv(container.command), container.command),
               container.entrypoint \o container.command)

\* The cards that vLLM's ranks cover are not read.
VllmParams(argv) ==
    [util |-> SeenNumber(argv, {"--gpu-memory-utilization"}, NoUtil),
     kv |-> SeenNumber(argv, {"--kv-cache-memory-bytes", "--kv-cache-memory"}, 0),
     offload |-> SeenNumber(argv, {"--cpu-offload-gb"}, 0),
     parallel |-> 1]

\* auto, all and no number are every layer.
NGpuLayers(argv) == SeenNumber(argv, {"-ngl", "--gpu-layers", "--n-gpu-layers"}, Every)

\* Neither is a draft model or a projector.
LlamaParams(argv) ==
    [layers |-> NGpuLayers(argv),
     ctx |-> SeenNumber(argv, {"-c", "--ctx-size"}, 0),
     k |-> SeenWord(argv, {"-ctk", "--cache-type-k"}, "f16"),
     v |-> SeenWord(argv, {"-ctv", "--cache-type-v"}, "f16"),
     ubatch |-> SeenNumber(argv, {"-ub", "--ubatch-size"}, 0),
     flash |-> SeenWord(argv, {"-fa", "--flash-attn"}, "auto"),
     companions |-> 0]

\* The first of the values there may be.
OneToken(values) == Head(values \o <<Blank>>)

LlamaModel(argv) ==
    OneToken(FlagValue(argv, {"-m", "--model"})
                \o FlagValue(argv, {"-hf", "-hfr", "--hf-repo"}))

IsFlag(token) ==
    \/ token.says \in {"--host", "--port"}
    \/ \E dest \in DOMAIN VllmFlags : token.says \in ToSet(VllmFlags[dest].flags)

\* The positional after the verb, if it is no flag.
VllmModel(argv) ==
    LET positional(token) == IF IsFlag(token) THEN Blank ELSE token
    IN  positional(OneToken(FlagValue(argv, {"serve"})))

\* The rendezvous port of a rank, 0 for what is none: the last that is named,
\* which is the one that vLLM takes.
MasterPortIn(argv) ==
    LET value(i) == OneToken(argv[i].joined \o Following(argv, i)).number
        named == {i \in DOMAIN argv : argv[i].says = "--master-port" /\ value(i) # <<>>}
        last(at) == CHOOSE i \in at : \A j \in at : j <= i
    IN  IF named = {} THEN 0 ELSE value(last(named))[1]

MasterPort(command) == MasterPortIn(ArgvOf(command, VllmProgram))

-----------------------------------------------------------------------------
(* Prices.  file is the .gguf at the model's path.                         *)

\* What a launch is priced at, from the row.
LaunchPrice(isVllm, flags, model, file, pool) ==
    IF isVllm THEN Footprint(flags, pool)
    ELSE IF Opens(model) THEN PriceOf(file, flags) ELSE 0

\* What a survey prices a container at.
SeenPrice(container, file, pool) ==
    LET vllm(argv) == Footprint(VllmParams(argv), pool)
        llama(argv) == LaunchPrice(FALSE, LlamaParams(argv), LlamaModel(argv), file, pool)
        price(seen) == CASE seen.engine = "" -> 0
                         [] seen.engine = "vllm" -> vllm(ArgvOf(seen.argv, VllmProgram))
                         [] OTHER -> llama(ArgvOf(seen.argv, LlamaProgram))
    IN  price(Identify(container))

\* The port is looked for outside a line for a shell only.
Port(argv) == SeenNumber(argv, {"--port"}, 0)

\* How a container that is nobody's here is listed.
Listed(container) ==
    LET row(seen) ==
            [engine |-> seen.engine,
             model |-> CASE seen.engine = "" -> Blank
                         [] seen.engine = "vllm" -> VllmModel(ArgvOf(seen.argv, VllmProgram))
                         [] OTHER -> LlamaModel(ArgvOf(seen.argv, LlamaProgram)),
             port |-> Port(seen.argv)]
    IN  row(Identify(container))
=============================================================================
