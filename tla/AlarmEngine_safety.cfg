SPECIFICATION Spec

CONSTANTS
  NumRules = 2
  Cooldown = 2
  EscalateAfter = 1
  MaxAlarms = 3
  MaxTime = 6

INVARIANTS
  TypeOK
  OneOpenAlarm
  OneUnackedAlarm
  CooldownRespected

CHECK_DEADLOCK FALSE
