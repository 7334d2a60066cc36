SPECIFICATION Spec
CONSTANT Options <- SmallOptions
INVARIANTS AnswersOwnCall InputsAnsweredOnce
PROPERTY EveryoneEnds
