SPECIFICATION Spec
CONSTANTS
  MaxInputs = 4
  MaxStops = 3
  MaxFailures = 2
  MaxRots = 1
INVARIANTS PromisedSurvives LossIsReported InOrderOnce SnapshotWhole
