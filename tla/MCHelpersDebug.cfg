\* Command lines of two arguments against the documented debug mode.
CONSTANTS
  m_capacity = 400
  Base = 16
  Sizes = {0, 1, 64}
  Probes <- MCProbes
  Top = 4
  Opcodes = 4
  XorBytes <- MCXor
  Arrivals <- MCArrivals
  Inputs <- MCInputs
  MaxFrames = 2
  Numbers = {"2", "80"}
  Others = {"x"}
  MaxArgs = 2
  i1 = i1  i2 = i2  p1 = p1  p2 = p2
  None = None  Stranger = Stranger
  Ids = {i1, i2}
  Pids = {p1, p2}
  ExitCodes = {0, 1}
  MaxTries = 2
SPECIFICATION MCSpec
INVARIANTS DebugOnlyWarns
