SPECIFICATION Spec
CONSTANTS
  c1 = c1
  c2 = c2
  Children = {c1, c2}
  Plans <- All
CHECK_DEADLOCK FALSE
INVARIANTS
  OnceInOrder
  OneFate
