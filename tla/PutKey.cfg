\* What blue-app-commands.rst says of PUT_KEY.
CONSTANTS
  Wallets = {w1, w2}
  Seed = seed
  NoWallet = zeros
  Networks = {main, test}
  Default = main
SPECIFICATION Spec
INVARIANT KeysArePaired
