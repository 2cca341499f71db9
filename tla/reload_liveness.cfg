SPECIFICATION Spec
CONSTANTS
  first = first
  second = second
  page = page
  style = style
  Sessions = {first}
  Files = {page, style}
  MaxEdits = 3
  ChanCap = 1
PROPERTIES
  NewestFilesRun
  RunReturns
CHECK_DEADLOCK FALSE
