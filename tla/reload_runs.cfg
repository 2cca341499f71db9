SPECIFICATION SafeSpec
CONSTANTS
  first = first
  second = second
  page = page
  style = style
  Sessions = {first, second}
  Files = {page}
  MaxEdits = 2
  ChanCap = 1
INVARIANTS TypeOK OneWorkload ChangesAreDue RestartsAreChanges
CHECK_DEADLOCK FALSE
SYMMETRY AnyRun
