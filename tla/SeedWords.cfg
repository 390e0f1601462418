\* All lists, two keys, one interference with each load, a loss of power at the start and in
\* the middle of the words.
CONSTANTS
  Keys <- MCKeys
  Imported <- MCImported
  Online = {3, 4, 5, 6, 8, 9, 11}
  Offline = {3}
  SeedKey <- MCSeedKey
  Crc32 <- MCCrc32
  Cuts = {1, 13}
  MaxTroubles = 1
SPECIFICATION FairSpec
INVARIANTS
  TypeOK
  DoneIsTheSeed
  TwentyFiveAreRight
  OneLanguage
  PartsAccepted
PROPERTY LoadEnds
