CONSTANTS
  HalfRange = 3
  MaxUpper = 3
SPECIFICATION Spec
INVARIANT RetriesPerCarry
PROPERTY ReadsPresentTime
