SPECIFICATION Spec
CONSTANTS
  Base = 100
  Texts <- AllTexts
  Policies <- AllPolicies
INVARIANTS
  OfferedIsSupported
  DecisionGoesByValue
PROPERTIES
  NeverDowngrades
CHECK_DEADLOCK FALSE
