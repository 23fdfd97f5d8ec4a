\* Clients that only speak HTTP or the AKKON protocol, one of them pipelining,
\* and a monitor that closes the server for a while.
CONSTANTS
  c1 = c1  c2 = c2
  f1 = f1  f2 = f2
  w1 = w1  w2 = w2
  None = None
  Conns = {c1, c2}
  Fds = {f1}
  Workers = {w1, w2}
  Kinds = {"http", "line"}
  Lockdowns = {"NONE", "CLOSE"}
  MaxChunks = 2
SPECIFICATION Spec
INVARIANTS ExclusiveOwner TaskKeepsConnection
PROPERTIES HttpAnswered
