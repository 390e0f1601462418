\* Two wallets to import and two networks.
CONSTANTS
  Wallets = {w1, w2}
  Seed = seed
  NoWallet = zeros
  Networks = {main, test}
  Default = main
SPECIFICATION Spec
INVARIANTS
  TypeOK
  AlwaysStarts
  JustInstalled
  SeedUntilImported
