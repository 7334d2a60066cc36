SPECIFICATION BenchSpec
CONSTANTS
    NaN = NaN
    NoScore = NoScore
    Loops <- SmallLoops
    Stops <- SmallStops
    Plans <- SmallPlans
INVARIANTS
    RanksStayTogether CheckpointsAreSound
    StoppingIsTimely SchedulesAreFollowed
PROPERTIES EveryProcessEnds TrainingCompletes
