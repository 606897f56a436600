\* Up to two devices and two requirements over every kind of value.
SPECIFICATION Spec
CONSTANTS
  Devices <- devices
  Properties <- properties
  Artifacts <- artifacts
  Skills <- skills
  Contains <- contains
  NoText = NoText
  MaxDevices = 2
INVARIANTS TrueMeansMeets UniformComplete MatchesItself
CHECK_DEADLOCK FALSE
