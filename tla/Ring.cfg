SPECIFICATION Spec
CONSTANTS
  Size = 4
  Values = {0, 1, 2}
  Zero = 0
INVARIANT SlotsDisjoint
PROPERTY ImplementsFifo
