\* Every command, whole and cut short in many places, in and out of a transaction.
CONSTANTS
  PrefixNumbers <- MCPrefixNumbers
  ScreenAmounts <- MCScreenAmounts
  ExtraSizes <- MCExtraSizes
  ClaimedSizes <- MCClaimedSizes
  INT_LIMIT <- MC_INT_LIMIT
  Cuts <- MCCuts
SPECIFICATION Spec
INVARIANTS
  TypeOK
  ReadAsSent
  CutIsRefused
  AnswerIsInserted
  AnswerFits
  NumbersAreEchoed
  AmountIsShown
