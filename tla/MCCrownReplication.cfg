SPECIFICATION SpecReads
CONSTANTS
  r1 = r1
  r2 = r2
  k1 = k1
  c1 = c1
  Reader <- MCReader
  NoValue = NoValue
  Value <- MCRequest
  MaxVersion = 2
  RingSize = 3
  Key <- MCKey
  KeyOf <- MCKeyOf
  IdOf <- MCDistinctIds
  Hash <- MCHash
  HeadIndex <- crown_head_index
  MaxRetryCount = 1
  MaxFaults = 1
SYMMETRY MCSymmetry
CHECK_DEADLOCK FALSE
INVARIANTS
  VersionFound
  VersionNotBehindValue
PROPERTY ImplementsVersionedStore
