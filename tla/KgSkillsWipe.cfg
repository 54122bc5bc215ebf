SPECIFICATION SkillsSpec
CONSTANTS
  Skills = {g1, g2}
  Rules = {x1, x2}
  SkillServers = {v1}
  SkillConnectors = {c1}
  Workspace = Workspace
  NoSkill = NoSkill
  Askers = {q1}
  MaxItems = 2
  MaxEdits = 2
  MaxAsked = 1
PROPERTY LiveSkillsNotWiped
CHECK_DEADLOCK FALSE
