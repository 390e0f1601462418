\* What is said of the prehash, with a host that keeps the order.
CONSTANTS
  Outputs = {o1, o2}
  Commitments = {k1, k0}
  Zero = {k0}
  InOrder = TRUE
  MaxOutputs = 2
  MaxSessions = 2
SPECIFICATION Spec
PROPERTY PrehashIsKept
