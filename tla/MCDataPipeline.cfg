SPECIFICATION PipelineSpec
CONSTANTS
    GpuRanks <- OneNode
    NumWorkers = 2
    Corpora <- News
    Lengths <- Several
    Weight <- Weights
    MaxPasses = 4
    Options <- SmallOptions
INVARIANTS
    LinesHaveOneReader CorporaAreMixed
    EveryExampleInOneBatch OutputIsAligned
CHECK_DEADLOCK FALSE
