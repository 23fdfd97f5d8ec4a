\* WebSocket clients that come and go, over one descriptor.
CONSTANTS
  c1 = c1  c2 = c2
  f1 = f1  f2 = f2
  w1 = w1  w2 = w2
  None = None
  Conns = {c1, c2}
  Fds = {f1}
  Workers = {w1, w2}
  Kinds = {"upgrade", "bytes"}
  Lockdowns = {"NONE"}
  MaxChunks = 1
SPECIFICATION Spec
PROPERTIES DescriptorsReleased
