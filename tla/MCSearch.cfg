SPECIFICATION Spec
INVARIANTS RowsStayAligned AnswersAreWhole ConstraintsAreKept
