SPECIFICATION Spec
CONSTANTS
  IntBytes = 2
  LenBytes = 3
  MaxOid = 20
  MaxLevel = 1
  MaxHead = 40
  Integers <- MCIntegers
  Oids <- MCOids
  Tags <- MCTags
  Lengths <- MCLengths
  Packages <- MCPackages
  Messages <- MCMessages
  Raw <- MCRaw
  Following <- MCFollowing
CHECK_DEADLOCK FALSE
INVARIANT FindsElement
INVARIANT WholeOnly
INVARIANT RoundTrip
INVARIANT Settled
