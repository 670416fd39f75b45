SPECIFICATION Spec
CONSTANTS
  Letters = {x, y}
  MaxEvents = 3
  MaxActs = 1
  MaxBehind = 1
  MaxTurns = 2
SYMMETRY LetterSymmetry
INVARIANTS NeverStranded TextShown ActsShown
PROPERTIES NeverTakenBack
CHECK_DEADLOCK FALSE
