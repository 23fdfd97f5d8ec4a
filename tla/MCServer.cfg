\* Every feature at once.  Two connections over two descriptors: the second one
\* may get the number of the first, or live beside it.
CONSTANTS
  c1 = c1  c2 = c2
  f1 = f1  f2 = f2
  w1 = w1  w2 = w2
  None = None
  Conns = {c1, c2}
  Fds = {f1, f2}
  Workers = {w1, w2}
  Kinds = {"http", "upgrade", "bytes"}
  Lockdowns = {"NONE", "IMMEDIATE"}
  MaxChunks = 1
SPECIFICATION Safety
SYMMETRY Symmetry
INVARIANTS FdTable NoStuckConnection WebSocketsTracked
