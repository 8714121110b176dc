SPECIFICATION Spec
CONSTANTS
  Gui = gui
  Workers = {tx, rx}
  NoOwner = none
  MaxWrites = 1
INVARIANTS
  RaceFree WholeReads NoDeadlock
SYMMETRY Symmetry
