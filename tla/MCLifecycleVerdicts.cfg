\* All nine scenarios, every kind of failing call.
SPECIFICATION LifecycleSpec
CONSTANTS
  Scenarios <- AllScenarios
  Faults <- AllFaults
  PipeCapacity = 2
\* PID 1 exits after its frame.
CHECK_DEADLOCK FALSE
INVARIANTS
  RefusedOnlyForTwo
  UndisturbedPasses
  PassedMeansPlayed
PROPERTY Answers
