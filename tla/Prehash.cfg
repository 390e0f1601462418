\* Two outputs, a commitment to an amount and one to zero, a host that keeps the order.
CONSTANTS
  Outputs = {o1, o2}
  Commitments = {k1, k0}
  Zero = {k0}
  InOrder = TRUE
  MaxOutputs = 2
  MaxSessions = 2
SPECIFICATION Spec
INVARIANTS
  TypeOK
  ShownAsGenerated
  SignedAsOpened
  AllAccepted
