\* The session layer: two transactions, four HMAC keys.  No symmetry, as a temporal
\* formula is checked.
CONSTANTS
  HmacKeys = {k1, k2, k3, k4}
  ZeroKey = ZeroKey
  NoMac = NoMac
  MaxSessions = 2
SPECIFICATION FairSpec
INVARIANTS
  TypeOK
  SecretKeyLivesInTx
  KeyIsOfThisTx
  NoTxAfterError
  ScreenAsksForPending
PROPERTIES
  SecretsStayInTheirTx
  Answered
