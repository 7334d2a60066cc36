SPECIFICATION CollectivesSpec
CONSTANTS
    Ranks = {1, 2}
    Base = 3
    Modulo = 4
    Calls = 3
    MaxSize <- SmallSizeOfCall
    Sizes = {1, 2, 4, 6, 8}
    Garbage = "garbage"
    NumParams = 4
    Models <- SmallModels
    ElementSize = 2
    BufferSize = 8
INVARIANTS EveryoneHasEveryObject GradientsAreSynchronised
