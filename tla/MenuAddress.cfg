\* The sizes of the code.
CONSTANTS
  Full = 11
  Last = 10
  OrdinarySize = 98
  IntegratedSize = 109
  IntegratedShown = 106
  PageSize = 108
  AddressSize = 132
  ModeAt = 179
  ScratchAt = 125
  Ordinary <- MCOrdinary
  Integrated <- MCIntegrated
  Wallets <- MCWallets
  WordEnds <- MCWordEnds
SPECIFICATION Spec
INVARIANT MenuAddressIsRight
