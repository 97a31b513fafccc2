-------------------------------- MODULE Gguf --------------------------------
(***************************************************************************)
(* app/gguf.py and the pricing half of app/engines/llamacpp.py: from the   *)
(* bytes at the head of a .gguf file to the memory a llama-server with     *)
(* some flags will take.  0 stands for a figure that is absent.            *)
(***************************************************************************)
EXTENDS Integers, Sequences, FiniteSets, Functions

CONSTANTS
    MaxHeader,     \* MAX_HEADER_BYTES
    MaxKeys,       \* MAX_KV
    MaxDimension,  \* MAX_DIMENSION
    MaxLayers,     \* MAX_LAYERS
    ComputeFloor,  \* COMPUTE_FLOOR_BYTES
    DefaultUbatch, \* DEFAULT_UBATCH
    MaxScores      \* MAX_SCORE_BYTES

ASSUME GgufAssumption ==
    /\ MaxHeader \in Nat /\ MaxKeys \in Nat /\ MaxDimension \in Nat /\ MaxLayers \in Nat
    /\ ComputeFloor \in Nat /\ DefaultUbatch \in Nat \ {0} /\ MaxScores \in Nat

-----------------------------------------------------------------------------
(* The reader.  An entry of the metadata table has a length, which is the  *)
(* number of bytes its value claims, and the numbers in it: one for a      *)
(* scalar, one a layer for an array, fewer where they are no numbers.      *)
(* A file that is still being downloaded is shorter than its table.        *)

Wanted == {"block_count", "context_length", "embedding_length", "head_count",
           "head_count_kv", "key_length", "value_length"}

Entry == [key : Wanted \cup {"tokens"}, length : Nat, credible : BOOLEAN,
          count : Nat, numbers : SUBSET Int]

IsFile(f) == f.magic \in BOOLEAN /\ f.bytes \in Nat /\ f.entries \in Seq(Entry)

ReadBytes(f) == SumFunction([i \in DOMAIN f.entries |-> f.entries[i].length])

\* Every way a read fails ends in the same answer, that nothing is known.
CanRead(f) ==
    /\ f.magic
    /\ Len(f.entries) <= MaxKeys
    /\ \A i \in DOMAIN f.entries : f.entries[i].credible
    /\ ReadBytes(f) <= MaxHeader
    /\ ReadBytes(f) <= f.bytes

\* One number a layer: the largest.  An array longer than there are layers in
\* any model is skipped.
AsInt(entry) ==
    LET good == {n \in entry.numbers : 0 <= n /\ n <= MaxDimension}
    IN  IF entry.count > MaxLayers \/ good = {} THEN 0
        ELSE CHOOSE n \in good : \A m \in good : m <= n

\* The last entry with a key is the one that counts.
Value(f, key) ==
    LET at == {i \in DOMAIN f.entries : f.entries[i].key = key}
    IN  IF at = {} THEN 0 ELSE AsInt(f.entries[CHOOSE i \in at : \A j \in at : j <= i])

Layers(n) == IF n <= MaxLayers THEN n ELSE 0

Header(f) ==
    [bytes |-> f.bytes, blocks |-> Layers(Value(f, "block_count")),
     context |-> Value(f, "context_length"), embedding |-> Value(f, "embedding_length"),
     heads |-> Value(f, "head_count"), kv_heads |-> Value(f, "head_count_kv"),
     key_length |-> Value(f, "key_length"), value_length |-> Value(f, "value_length")]

\* read_cached: 0 or 1 headers.
ReadCached(f) == IF CanRead(f) THEN <<Header(f)>> ELSE <<>>

-----------------------------------------------------------------------------
(* Geometry and the KV cache.                                              *)

KeyWidth(h) ==
    IF h.key_length # 0 THEN h.key_length
    ELSE IF h.heads = 0 THEN 0 ELSE h.embedding \div h.heads

ValueWidth(h) == IF h.value_length # 0 THEN h.value_length ELSE KeyWidth(h)

KvHeads(h) == IF h.kv_heads # 0 THEN h.kv_heads ELSE h.heads

\* Elements and bytes of a block of the cache.  A type nobody knows costs what
\* f16 costs.
CacheBlock(type) ==
    CASE type = "f32" -> <<1, 4>> [] type = "q8_0" -> <<32, 34>>
      [] type = "q4_0" -> <<32, 18>> [] OTHER -> <<1, 2>>

Geometry(h) == KeyWidth(h) * KvHeads(h) # 0 /\ ValueWidth(h) * KvHeads(h) # 0

KvSized(h, ctx) == ctx # 0 /\ h.blocks # 0 /\ Geometry(h)

CacheBytes(h, ctx, k, v) ==
    IF ~KvSized(h, ctx) THEN 0
    ELSE (ctx * h.blocks * KvHeads(h)
             * (KeyWidth(h) * CacheBlock(k)[2] * CacheBlock(v)[1]
                + ValueWidth(h) * CacheBlock(v)[2] * CacheBlock(k)[1]))
         \div (CacheBlock(k)[1] * CacheBlock(v)[1])

-----------------------------------------------------------------------------
(* The price of a launch.  flags.layers is the declared -ngl, or Every for *)
(* auto, all and unset; flags.ctx is 0 when unset.                         *)

Every == MaxLayers + 1

\* offload_fraction of the file: the blocks and one more for the output head.
OffloadedBytes(h, layers) ==
    IF h.blocks = 0 \/ layers >= h.blocks + 1 THEN h.bytes
    ELSE (h.bytes * layers) \div (h.blocks + 1)

Ubatch(flags) == IF flags.ubatch = 0 THEN DefaultUbatch ELSE flags.ubatch

\* Without fused attention the scores of every head are held at once.
ComputeBytes(h, flags, ctx) ==
    LET heads == IF h.heads = 0 THEN 1 ELSE h.heads
        scores == ctx * Ubatch(flags) * heads * 4
        floor == IF Ubatch(flags) <= DefaultUbatch THEN ComputeFloor
                 ELSE (ComputeFloor * Ubatch(flags)) \div DefaultUbatch
    IN  floor + IF flags.flash = "off"
                THEN IF scores < MaxScores THEN scores ELSE MaxScores ELSE 0

Context(h, flags) == IF flags.ctx # 0 THEN flags.ctx ELSE h.context

\* A geometry that cannot be read makes the whole launch unsized.
Sized(h, flags) == Context(h, flags) = 0 \/ KvSized(h, Context(h, flags))

\* flags.companions are the bytes of a draft model and of a projector.
Price(h, flags) ==
    LET ctx == Context(h, flags)
    IN  IF ~Sized(h, flags) THEN 0
        ELSE OffloadedBytes(h, flags.layers)
             + CacheBytes(h, ctx, flags.k, flags.v)
             + ComputeBytes(h, flags, ctx) + flags.companions

\* An engine's container is priced from its own argv, with the header of the
\* file it names: what resolve and footprint_bytes do.
PriceOf(f, flags) ==
    IF ReadCached(f) = <<>> THEN 0 ELSE Price(ReadCached(f)[1], flags)
=============================================================================
