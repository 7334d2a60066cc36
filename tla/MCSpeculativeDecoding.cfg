SPECIFICATION MCSpec
CONSTANTS
    Tokens <- MCTokens
    Eos <- MCEos
    Prompts <- MCPrompts
    MaxLength = 6
    Weights <- MCWeights
    Argmax <- MCArgmax
    NumDraft = 3
    NumHeads = 1
    Recurrent = TRUE
    Dynamic = TRUE
    KvMax = 8
    AddZeros = 2
    Blank <- MCBlank
INVARIANTS CachesDescribeText IInv
PROPERTIES ImplementsGreedy RequestEnds
