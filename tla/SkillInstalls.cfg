SPECIFICATION Spec
CONSTANTS
  r1 = r1
  r2 = r2
  r3 = r3
  None = None
  Requests = {r1, r2, r3}
  Names = {"a", "b"}
  Versions = {"v1", "v2"}
  Bare = {"v2"}
  Operations <- SkillOperations
  InitialSkills <- SkillConfigs
  MaxActive = 2
  MaxFaults = 1
  MaxCrashes = 1
  MaxTurns = 1
SYMMETRY Symmetry
INVARIANTS TypeOK SettledSkillsAgree TurnSeesOneVersion TempDirsGo
PROPERTY SwitchedOffStaysOff
CHECK_DEADLOCK FALSE
