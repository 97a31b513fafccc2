SPECIFICATION Spec
CONSTANTS
    MemReserve = 40
    MemWarnReserve = 60
    DefaultUtil = 92
    AccelMode = ""
    Registered = {"LlamaForCausalLM", "Qwen3Model", "DiffusionForCausalLM"}
    OwnSampler = {"DiffusionForCausalLM"}
    BareModels = {"Qwen3Model"}
    MaxHeader = 30
    MaxKeys = 8
    MaxDimension = 10
    MaxLayers = 8
    ComputeFloor = 20
    DefaultUbatch = 4
    MaxScores = 100
    Overhead = 15
    MultimodalOverhead = 10
    TargetContext = 4
    ContextSteps <- Steps8
    Questions <- Asked
INVARIANTS
    TypeOK
    AdviceAdmitted
    AdviceStands
    RelaunchStands
    AdviceLoads
    MostLayers
    
    SeenAsLaunched
CHECK_DEADLOCK FALSE
