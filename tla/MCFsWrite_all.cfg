CONSTANTS
  New = {n1, n2, n3}
  MaxMeddle = 2
SPECIFICATION Spec
SYMMETRY Symmetry
INVARIANTS
  OutsideIsApproved
  WholeOrNothing
PROPERTIES
  ExpectHonoured
\* A step that has answered does nothing more.
CHECK_DEADLOCK FALSE
