SPECIFICATION Spec
CONSTANTS
  out = out
  err = err
  trexec = trexec
  child = child
  grandchild = grandchild
  Streams = {out, err}
  Holders = {trexec, child, grandchild}
  Opener = trexec
  MaxChunks = 3
  PipeCap = 2
INVARIANT TrueMeansComplete
PROPERTIES FullPipeDrains
