CONSTANTS
  Leaves = {"PRINT"}
  MaxNesting = 2
  MaxRepeats = 3
  MaxBody = 2
  Width = 4
  Stoul <- Numbers
  Defaults <- ScaledDefaults
  Files <- TwoLines
SPECIFICATION Spec
INVARIANTS TypeOK LastLineDecides EstimateIsExact WithinBudget GeneratedIsFlat
