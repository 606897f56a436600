\* Two devices that differ in one number.
SPECIFICATION Spec
CONSTANTS
  Devices <- gpus
  Properties <- noProperties
  Artifacts <- artifacts
  Skills <- skills
  Contains <- contains
  NoText = NoText
  MaxDevices = 2
INVARIANTS MeetsMeansTrue
CHECK_DEADLOCK FALSE
