\* Amounts of 2 bits, of which 2 has no varint, and a fee of 1; counters of 2 bits; a prefix of
\* a start and four more items.  One bit of change, one of the gap behind it, then the counter
\* and the destination: an index for each bit.
CONSTANTS
  Amounts = {1, 2}
  AmountBits = 2
  FeeBits = 1
  CountBits = 2
  Room = 1
  Gap = 1
  Indexes = {0, 1, 2, 3, 4}
  Payees = {bob}
  Own = own
  NoAddress = none
  MaxHashed = 5
  MaxCounted = 3
SPECIFICATION Spec
INVARIANTS
  TypeOK
  CountsWhatIsHashed
  ShownIsPaid
  NoPrefixOutsideTx
