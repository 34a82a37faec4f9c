SPECIFICATION RulesSpec
CONSTANTS
  Rule = {r1, r2, r3}
  Currency = {"EUR", "USD"}
  StepRole = {"MANAGER"}
  Minor = {0, 1, 2}
  Call = {t1, t2}
  NoMax = NoMax
SYMMETRY Symmetric
INVARIANTS RulesStayUsable UpperBandDecides
PROPERTY ArchivedForGood
CHECK_DEADLOCK FALSE
