SPECIFICATION FairSpec
CONSTANTS
    Artifacts <- OneArtifact
    TrainSteps = 5
    SaveEvery = 2
    Keep = 2
    ResetOptim = {"none", "all", "states", "keep_states"}
    MaxRuns = 3
INVARIANTS ModelPathIsWhole LinksInOrder
PROPERTIES RotationIsSafe TrainingIsFinished
