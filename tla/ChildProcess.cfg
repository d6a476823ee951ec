SPECIFICATION Spec
CONSTANTS
  Limit = 1
  Capacity = 2
  MaxInput = 3
  MaxOutput = 4
INVARIANTS TypeOK OkIsComplete NoChildLeft
PROPERTIES PipesDrain Returns
