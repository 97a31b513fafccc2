------------------------------ MODULE Profile ------------------------------
(***************************************************************************)
(* app/model_profile.py: what a repository in a cache, here or on a peer,  *)
(* says about the model in it: which snapshot is meant, what weighs, what  *)
(* the KV cache of a context costs, and how vLLM will run it.  0 stands    *)
(* for a figure that is absent or cannot be used.                          *)
(***************************************************************************)
EXTENDS Naturals, Sequences, FiniteSets, Functions

Keys == {"context", "layers", "hidden", "heads", "kv_heads", "head_dim",
         "window", "global_heads", "global_dim"}

\* The spellings of a key in the order they are tried.
Spellings == 0..5

\* A config.json: its numbers at the top level (0) and in text_config (1), by
\* key and spelling; the kinds of its layers; what else is read of it.
IsConfig(c) ==
    /\ DOMAIN c.numbers \subseteq Keys \X Spellings \X {0, 1}
    /\ \A x \in DOMAIN c.numbers : c.numbers[x] \in Nat
    /\ c.layer_types \in Seq({"full_attention", "sliding_attention", "linear_attention"})
    /\ c.architectures \in Seq(STRING) /\ c.model_type \in STRING
    /\ {c.media, c.auto_map, c.tied} \subseteq BOOLEAN
    /\ c.quant \in [method : STRING, block_size : BOOLEAN,
                    groups : Seq([block : BOOLEAN, bits : Nat])]

\* A directory, with sizes for its weights; configs of 0 or 1 elements, for a
\* file that may be missing or malformed.  templates are the chat templates in
\* the order they are looked for, each by the tokens it emits.
IsSnapshot(s) ==
    /\ s.safetensors \in Seq(Nat) /\ s.ggufs \in Seq(Nat) /\ s.indexed \in Nat
    /\ Len(s.config) <= 1 /\ (s.config # <<>> => IsConfig(s.config[1]))
    /\ s.templates \in Seq(SUBSET STRING)
    /\ {s.adapter, s.processor, s.pooling} \subseteq BOOLEAN

\* What the image of vLLM registers.
CONSTANTS Registered, OwnSampler

\* Names that end in Model.
CONSTANT BareModels

-----------------------------------------------------------------------------
(* Which snapshot of a repository a plain name means.  repo.main is what   *)
(* refs/main says, snapshots are in the order of their age.                *)

IsRepository(repo) ==
    /\ Len(repo.snapshots) \in Nat
    /\ repo.snapshots = [i \in 1..Len(repo.snapshots) |-> repo.snapshots[i]]
    /\ \A i \in DOMAIN repo.snapshots : IsSnapshot(repo.snapshots[i])

Newest(repo, wanted) == CHOOSE i \in wanted : \A j \in wanted : j <= i

SnapshotOf(repo) ==
    LET all == DOMAIN repo.snapshots
        configured == {i \in all : repo.snapshots[i].config # <<>>}
    IN  IF repo.main \in all THEN repo.main
        ELSE Newest(repo, IF configured # {} THEN configured ELSE all)

\* The script that runs on a peer takes the newest.
RemoteSnapshotOf(repo) ==
    IF repo.main \in DOMAIN repo.snapshots THEN repo.main
    ELSE Newest(repo, DOMAIN repo.snapshots)

-----------------------------------------------------------------------------
(* _read_files, _read_config.                                              *)

\* The shard index knows what is loaded better than the sizes of files do.
WeightBytes(s) ==
    IF s.indexed > 0 THEN s.indexed ELSE SumFunction(s.safetensors) + SumFunction(s.ggufs)

\* Every level is tried for a spelling before the next spelling is.
Pick(config, key) ==
    LET found == {x \in DOMAIN config.numbers : x[1] = key}
        first == CHOOSE x \in found : \A y \in found :
                     x[2] < y[2] \/ (x[2] = y[2] /\ x[3] <= y[3])
    IN  IF found = {} THEN 0 ELSE config.numbers[first]

Count(kind, layers) == Cardinality({i \in DOMAIN layers : layers[i] = kind})

\* A config that does not list its layers has full ones only.
LayerTypes(config) ==
    IF config.layer_types = <<>>
    THEN [full |-> Pick(config, "layers"), windowed |-> 0, recurrent |-> 0]
    ELSE [full |-> Count("full_attention", config.layer_types),
          windowed |-> Count("sliding_attention", config.layer_types),
          recurrent |-> Count("linear_attention", config.layer_types)]

BlockScaled(quant) ==
    \/ quant.block_size
    \/ \E i \in DOMAIN quant.groups :
          quant.groups[i].block /\ quant.groups[i].bits \in {0, 8}

\* sentence-transformers first, then a name that has to be made up, then a
\* bare ...Model.
Pooling(s, config) ==
    \/ s.pooling
    \/ config.architectures = <<>> /\ config.model_type # ""
    \/ \E i \in DOMAIN config.architectures : config.architectures[i] \in BareModels

NoConfig == [numbers |-> <<>>, layer_types |-> <<>>, architectures |-> <<>>,
             model_type |-> "", media |-> FALSE, auto_map |-> FALSE, tied |-> FALSE,
             quant |-> [method |-> "", block_size |-> FALSE, groups |-> <<>>]]

ProfileOf(s) ==
    LET config == IF s.config = <<>> THEN NoConfig ELSE s.config[1]
        named(set) == \E i \in DOMAIN config.architectures :
                          config.architectures[i] \in set
        heads == Pick(config, "heads")
        grouped == Pick(config, "kv_heads")
        dim == Pick(config, "head_dim")
    IN  [found |-> TRUE, weights |-> WeightBytes(s),
         context |-> Pick(config, "context"), layers |-> Pick(config, "layers"),
         kinds |-> LayerTypes(config), window |-> Pick(config, "window"),
         heads |-> IF grouped # 0 THEN grouped ELSE heads,
         dim |-> IF dim # 0 THEN dim
                 ELSE IF heads = 0 THEN 0 ELSE Pick(config, "hidden") \div heads,
         global_heads |-> Pick(config, "global_heads"),
         global_dim |-> Pick(config, "global_dim"),
         has_safetensors |-> s.safetensors # <<>>, has_gguf |-> s.ggufs # <<>>,
         is_adapter |-> s.adapter /\ s.config = <<>>,
         is_multimodal |-> s.processor \/ config.media,
         block_scaled_fp8 |-> BlockScaled(config.quant),
         untieable |-> config.quant.method = "modelopt" /\ config.tied,
         remote_code |-> config.auto_map,
         unnamed |-> config.architectures = <<>> /\ config.model_type # "",
         unsupported |-> /\ Registered # {} /\ config.architectures # <<>>
                         /\ ~named(Registered),
         custom_sampler |-> named(OwnSampler),
         pooling |-> Pooling(s, config), model_type |-> config.model_type,
         chat_template |-> s.templates # <<>>,
         markers |-> IF s.templates = <<>> THEN {} ELSE s.templates[1]]

Missing == [ProfileOf([safetensors |-> <<>>, ggufs |-> <<>>, indexed |-> 0,
                       config |-> <<>>, adapter |-> FALSE, processor |-> FALSE,
                       pooling |-> FALSE, templates |-> <<>>]) EXCEPT !.found = FALSE]

\* read and read_remote.
Read(repo) ==
    IF repo.snapshots = <<>> THEN Missing ELSE ProfileOf(repo.snapshots[SnapshotOf(repo)])

ReadRemote(repo, reached) ==
    IF repo.snapshots = <<>> \/ ~reached THEN Missing
    ELSE ProfileOf(repo.snapshots[RemoteSnapshotOf(repo)])

-----------------------------------------------------------------------------
(* What a context costs, for one sequence.                                 *)

\* Keys and values, two bytes each, for every KV head of one layer.  A full
\* layer may have a geometry of its own.
PerLayer(heads, dim) == 4 * heads * dim

FullLayer(p) ==
    IF p.global_heads # 0 /\ p.global_dim # 0
    THEN PerLayer(p.global_heads, p.global_dim) ELSE PerLayer(p.heads, p.dim)

WindowedLayer(p) == PerLayer(p.heads, p.dim)

\* Some layers whose cost cannot be said.
Unsized(p) ==
    \/ p.kinds.full > 0 /\ FullLayer(p) = 0
    \/ p.kinds.windowed > 0 /\ WindowedLayer(p) = 0

Held(p, tokens) == IF p.window # 0 /\ p.window < tokens THEN p.window ELSE tokens

\* A windowed layer never holds more than its window, a recurrent one nothing
\* that grows.
KvBytes(p, tokens) ==
    IF p.layers = 0 \/ tokens = 0 \/ Unsized(p) THEN 0
    ELSE p.kinds.full * FullLayer(p) * tokens
         + p.kinds.windowed * WindowedLayer(p) * Held(p, tokens)
=============================================================================
