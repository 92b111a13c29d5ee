SPECIFICATION FairSpec
CONSTANTS
  MdCap = 1
  RiskCap = 1
  DecisionCap = 1
  Policies <- MCPolicies
  MaxIntents = 2
  MaxSwaps = 1
INVARIANTS IntentsAreAccounted OneLateApproval
PROPERTIES KillEndsPipeline
