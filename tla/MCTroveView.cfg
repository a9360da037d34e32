CONSTANT MaxInFlight = 1
SPECIFICATION Spec
INVARIANTS ViewFitsTrove ClosureIsTold
