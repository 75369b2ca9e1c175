SPECIFICATION RulesSpec
CONSTANTS
  RuleTypes = {"signal"}
  RuleValues = {"x"}
  RuleFields <- NoFields
  WellKnown = {}
  PathAs <- SamePath
  ArgKeys <- TwoArgKeys
  OtherKeys = {"member", "arg0"}
  MaxPairs = 1
  Absent = Absent
INVARIANTS
  SignatureThere
CHECK_DEADLOCK FALSE
