CONSTANTS
  Names = {"lookup", "joke", "order"}
  AppNames = {"lookup"}
  Skills <- MCSkills
  Registered = {"joke", "custom"}
  Multiple = {"custom"}
  SkillTools <- MCSkillTools
  SkillData <- MCSkillData
  CopyTools <- MCCopyTools
  Calls = {c1, c2}
  Lifetime = 1
  MaxNow = 2
  MaxSkills = 2
  MaxData = 2
  None = None
SPECIFICATION Spec
SYMMETRY Symmetry
INVARIANTS AdvertisedIsCallable
CHECK_DEADLOCK FALSE
