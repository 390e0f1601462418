\* A host that sends its commands in any order.
CONSTANTS
  Outputs = {o1, o2}
  Commitments = {k1, k0}
  Zero = {k0}
  InOrder = FALSE
  MaxOutputs = 2
  MaxSessions = 2
SPECIFICATION Spec
PROPERTY OrderIsImposed
