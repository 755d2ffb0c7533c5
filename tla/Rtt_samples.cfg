\* The bound MaxUpdates ends every behaviour.
SPECIFICATION Spec
CONSTANTS
  Samples = {0, 1, 7, 104, 207, 1000, 8000, 70000}
  InitialRtos = {100, 3000}
  MaxUpdates = 5
INVARIANTS TypeOK CoversLastRoundTrip DoesNotDrift
PROPERTY SrttMovesTowards
CHECK_DEADLOCK FALSE
