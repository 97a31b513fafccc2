----------------------------- MODULE Recommend -----------------------------
(***************************************************************************)
(* app/recommend.py and app/recommend_llamacpp.py: for one model on one    *)
(* surveyed machine, the few flags that decide whether the engine comes    *)
(* up, and what stands in the way.  Fractions are whole percents.          *)
(***************************************************************************)
EXTENDS Admission, Profile, Gguf, FiniteSetsExt

CONSTANTS
    Overhead,            \* OVERHEAD_BYTES
    MultimodalOverhead,  \* MULTIMODAL_OVERHEAD_BYTES
    TargetContext,       \* TARGET_CONTEXT
    ContextSteps         \* CONTEXT_STEPS, the largest first

ASSUME RecommendAssumption ==
    /\ Overhead \in Nat /\ MultimodalOverhead \in Nat /\ TargetContext \in Nat
    /\ ContextSteps \in Seq(Nat \ {0}) \ {<<>>}
    /\ \A i, j \in DOMAIN ContextSteps : i < j => ContextSteps[j] < ContextSteps[i]

Concurrency == 2

Up(a, b) == (a + b - 1) \div b

-----------------------------------------------------------------------------
(* vLLM.  What it needs of every machine it spans, and what it may have.   *)

Extra(p) == Overhead + IF p.is_multimodal THEN MultimodalOverhead ELSE 0

\* The overhead of all ranks divided among the machines with the weights.
FloorUtilisationDivided(p, total, shards) ==
    IF total = 0 \/ p.weights = 0 THEN 0
    ELSE Up(100 * (p.weights + Extra(p)), shards * total)

\* Weights and nothing else; a share of the layers on every machine.
FloorUtilisation(p, total, shards) ==
    IF total = 0 \/ p.weights = 0 THEN 0
    ELSE Up(100 * (p.weights + shards * Extra(p)), shards * total)

Planned(p) ==
    IF p.context = 0 \/ p.context > TargetContext THEN TargetContext ELSE p.context

Wants(p, shards) ==
    p.weights + Concurrency * KvBytes(p, Planned(p)) + shards * Extra(p)

NeededUtilisation(p, total, shards) ==
    IF total = 0 \/ p.weights = 0 THEN 0
    ELSE Up(100 * Wants(p, shards), shards * total)

\* The tighter of what vLLM's own check allows, less UTIL_MARGIN, and of what
\* the budget leaves free.
SafeUtilisation(b) ==
    IF b.pool.total = 0 THEN 0
    ELSE Smaller(Less((100 * AvailableAfterReplacement(b)) \div b.pool.total, 3),
                 (100 * FreeToCommit(b)) \div b.pool.total)

-----------------------------------------------------------------------------
(* The cases no flag rescues, the first one that applies.                  *)

Blocker(p, available, shards) ==
    IF ~p.found THEN "none"
    ELSE IF p.is_adapter THEN "adapter"
    ELSE IF p.has_gguf /\ ~p.has_safetensors THEN "gguf"
    ELSE IF available > 0 /\ p.weights > 0 /\ p.weights >= shards * available
         THEN "weights"
    ELSE "none"

Unsplittable(p, machines) == machines >= 2 /\ p.custom_sampler

\* A model that fits on one machine should stay on it.
NeedlessPool(p, machines, available) ==
    machines >= 2 /\ p.weights > 0 /\ Wants(p, 1) <= available

Room(p, b, shards) ==
    ~p.found \/ FloorUtilisation(p, b.pool.total, shards) <= SafeUtilisation(b)

\* The parsers a template is known to be read by: one by its own token, the
\* other by three tokens and the model's family.
ToolParser(p) ==
    IF "<|tool_call>" \in p.markers THEN "gemma4"
    ELSE IF /\ {"<tool_call>", "<function=", "<parameter="} \subseteq p.markers
            /\ p.model_type = "qwen3" THEN "qwen3_xml"
    ELSE ""

Thinks(p) == {"<think>", "</think>"} \subseteq p.markers

ReasoningParser(p) ==
    IF "<|channel>" \in p.markers /\ p.model_type = "gemma4" THEN "gemma4"
    ELSE IF Thinks(p) /\ p.model_type = "qwen3" THEN "qwen3"
    ELSE ""

\* What is said beside the flags, all of it a warning.
Warnings(p, b, machines, args) ==
    {w \in {"absent", "needless pool", "deep gemm", "tied", "unsupported",
            "unnamed", "embeddings", "no template", "thinking", "hidden thinking",
            "offload", "parser"} :
        \/ w = "absent" /\ ~p.found
        \/ w = "offload" /\ args.offload > 0
        \/ w = "parser" /\ args.lone_parser
        \/ p.found /\ CASE w = "needless pool" ->
                             NeedlessPool(p, machines, AvailableAfterReplacement(b))
                        [] w = "deep gemm" -> p.block_scaled_fp8
                        [] w = "tied" -> p.untieable
                        [] w = "unsupported" -> p.unsupported
                        [] w = "unnamed" -> p.unnamed
                        [] w = "embeddings" -> p.pooling
                        [] w = "no template" -> ~p.pooling /\ ~p.chat_template
                        [] w = "thinking" -> /\ ~p.pooling /\ ~args.parsers
                                             /\ Thinks(p) /\ ReasoningParser(p) = ""
                        [] w = "hidden thinking" ->
                             ~p.pooling /\ "if not enable_thinking" \in p.markers
                        [] OTHER -> FALSE}

\* As much as the model wants, no less than it can load with, and no more than
\* there is.
Utilisation(p, b, shards) ==
    LET wanted == NeededUtilisation(p, b.pool.total, shards)
        ceiling == SafeUtilisation(b)
    IN  IF ~p.found \/ wanted = 0 THEN ceiling
        ELSE Larger(Smaller(ceiling, wanted), FloorUtilisation(p, b.pool.total, shards))

\* No parser for a model that will not chat, or where one is set.
Parser(p, choice, args) ==
    IF p.found /\ ~p.pooling /\ ~args.parsers THEN choice ELSE ""

\* What a first start must not be left to the engine's default for.
Suggestions(p, b, shards, args) ==
    [util |-> IF Room(p, b, shards) THEN Utilisation(p, b, shards) ELSE 0,
     max_num_seqs |-> p.found /\ p.kinds.recurrent > 0 /\ ~args.max_num_seqs,
     trust_remote_code |-> p.found /\ p.remote_code,
     no_deep_gemm |-> p.found /\ p.block_scaled_fp8,
     tool_parser |-> Parser(p, ToolParser(p), args),
     reasoning_parser |-> Parser(p, ReasoningParser(p), args)]

NoSuggestions == [util |-> 0, max_num_seqs |-> FALSE, trust_remote_code |-> FALSE,
                  no_deep_gemm |-> FALSE, tool_parser |-> "", reasoning_parser |-> ""]

Refusal(why) == [ok |-> FALSE, level |-> "block", why |-> why, set |-> NoSuggestions,
                 warnings |-> {},
                 hint |-> IF why = "gguf" THEN "llamacpp" ELSE ""]

\* build, on a survey that excludes the container being replaced.
VllmAdvice(p, b, machines, args) ==
    LET shards == Larger(1, machines)
        blocker == Blocker(p, AvailableAfterReplacement(b), shards)
        warnings == Warnings(p, b, machines, args)
    IN  IF blocker # "none" THEN Refusal(blocker)
        ELSE IF Unsplittable(p, machines) THEN Refusal("sampler")
        ELSE [ok |-> Room(p, b, shards), why |-> IF Room(p, b, shards) THEN "" ELSE "room",
              level |-> IF ~Room(p, b, shards) THEN "block"
                        ELSE IF warnings # {} THEN "warn" ELSE "ok",
              set |-> Suggestions(p, b, shards, args), warnings |-> warnings, hint |-> ""]

-----------------------------------------------------------------------------
(* llama.cpp.  args are the flags that are set already.                    *)

\* The margin added.
SpendableMore(b) == (11 * Smaller(FreeToCommit(b), AvailableAfterReplacement(b))) \div 10

\* All that is free, less MARGIN.
Spendable(b) == (9 * Smaller(FreeToCommit(b), AvailableAfterReplacement(b))) \div 10

\* The price of a choice, with the flags that are set.  The other files a
\* launch loads are not in it.
Cost(h, args, layers, ctx) ==
    Price(h, [args EXCEPT !.layers = layers, !.ctx = ctx, !.companions = 0])

\* Contexts no longer than the one the model was trained for.
Steps(h) == {i \in DOMAIN ContextSteps : h.context = 0 \/ ContextSteps[i] <= h.context}

Fitting(h, args, layers, spendable) ==
    {i \in Steps(h) : Cost(h, args, layers, ContextSteps[i]) <= spendable}

FloorContext == ContextSteps[Len(ContextSteps)]

AllLayers(h) == h.blocks + 1

\* The middle rounded down, and the last two ends left undecided.
SearchDown(h, args, spendable) ==
    LET from[range \in (0..AllLayers(h)) \X (0..AllLayers(h))] ==
            LET low == range[1]
                high == range[2]
                middle == (low + high) \div 2
            IN  IF low + 1 >= high THEN low
                ELSE IF Cost(h, args, middle, FloorContext) <= spendable
                     THEN from[<<middle, high>>] ELSE from[<<low, middle - 1>>]
    IN  from[<<0, AllLayers(h)>>]

\* The binary search, as a function of the two ends that are still open.
Search(h, args, spendable) ==
    LET from[range \in (0..AllLayers(h)) \X (0..AllLayers(h))] ==
            LET low == range[1]
                high == range[2]
                middle == (low + high + 1) \div 2
            IN  IF low >= high THEN low
                ELSE IF Cost(h, args, middle, FloorContext) <= spendable
                     THEN from[<<middle, high>>] ELSE from[<<low, middle - 1>>]
    IN  from[<<0, AllLayers(h)>>]

\* The whole model with the longest context that fits, or else as many layers
\* as fit with the shortest one, and then the longest context for those.
Sizing(h, args, spendable) ==
    LET whole == Fitting(h, args, AllLayers(h), spendable)
        layers == Search(h, args, spendable)
        rest == Fitting(h, args, layers, spendable)
    IN  IF whole # {}
        THEN [ok |-> TRUE, level |-> "ok", layers |-> Every, ctx |-> ContextSteps[Min(whole)]]
        ELSE IF layers = 0
        THEN [ok |-> FALSE, level |-> "block", layers |-> 0, ctx |-> 0]
        ELSE [ok |-> TRUE, level |-> "warn", layers |-> layers,
              ctx |-> IF rest = {} THEN FloorContext ELSE ContextSteps[Min(rest)]]

Nothing == [ok |-> FALSE, level |-> "block", layers |-> 0, ctx |-> 0]

\* build: a reference that is no path is the engine's to download, a file that
\* cannot be read is no model of this engine.
LlamaAdvice(path, f, b, args) ==
    IF ~path THEN [Nothing EXCEPT !.ok = TRUE, !.level = "warn"]
    ELSE IF ReadCached(f) = <<>> \/ Spendable(b) = 0 THEN Nothing
    ELSE Sizing(ReadCached(f)[1], args, Spendable(b))

\* The flags of the form once the advice has been taken.
Taken(args, advice) == [args EXCEPT !.layers = advice.layers, !.ctx = advice.ctx]
=============================================================================
